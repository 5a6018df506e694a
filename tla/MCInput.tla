------------------------------- MODULE MCInput -------------------------------
(* Instances of Input for TLC.                                             *)
EXTENDS Input, TLC

CONSTANTS a, b, t1, t2, t3, w1, w2
=============================================================================
