--------------------------- MODULE MCAccountTruth ---------------------------
(* AccountTruth on small instances for TLC.                                *)
EXTENDS AccountTruth, TLC

(* Enough to open, add, reduce, close and reverse.                         *)
SmallQtys == {1, -2}
=============================================================================
