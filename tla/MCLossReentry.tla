-------------------------- MODULE MCLossReentry -----------------------------
(* LossReentry on small instances for TLC.                                 *)
EXTENDS LossReentry, TLC

(* Client order ids are interchangeable.                                   *)
OrderSymmetry == Permutations(Orders)
=============================================================================
