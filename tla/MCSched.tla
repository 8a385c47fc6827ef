------------------------------ MODULE MCSched ------------------------------
(* The symmetry of the run queues' instance.                               *)
EXTENDS RunQueue, TLC

Symmetry == Permutations(Tasks) \cup Permutations(Cpus)
=============================================================================
