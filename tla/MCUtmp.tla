------------------------------- MODULE MCUtmp -------------------------------
(* Records of two bytes in a buffer of three: like 384 in 512, one fits.   *)
EXTENDS DumpUtmp, TLC

File == <<<<0, 1>>, <<1, 0>>>>
=============================================================================
