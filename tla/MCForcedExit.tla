----------------------------- MODULE MCForcedExit -----------------------------
(* ForcedExit for TLC: every constant is a number or a flag, given in the .cfg. *)
EXTENDS ForcedExit
===============================================================================
