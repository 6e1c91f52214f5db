---------------------------- MODULE MCProtection ----------------------------
(* Protection on small instances for TLC.                                  *)
EXTENDS Protection, TLC
=============================================================================
