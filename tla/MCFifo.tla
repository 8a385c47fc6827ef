------------------------------- MODULE MCFifo -------------------------------
(* Instances of Fifo for TLC: one consumer and producers, small buffers. *)
EXTENDS Fifo, TLC

=============================================================================
