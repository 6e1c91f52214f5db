-------------------------- MODULE MCPartialReduce --------------------------
(* PartialReduce on small instances for TLC.                               *)
EXTENDS PartialReduce, TLC
=============================================================================
