-------------------------- MODULE MCPositionClose ---------------------------
(* PositionClose on small instances for TLC.                               *)
EXTENDS PositionClose, TLC

(* Client order ids are interchangeable.                                   *)
OrderSymmetry == Permutations(Orders)
=============================================================================
