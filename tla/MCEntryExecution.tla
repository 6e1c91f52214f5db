-------------------------- MODULE MCEntryExecution --------------------------
(* EntryExecution on small instances for TLC.                              *)
EXTENDS EntryExecution, TLC

(* Client order ids are interchangeable.                                   *)
OrderSymmetry == Permutations(Orders)
=============================================================================
