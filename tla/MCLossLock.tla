------------------------------ MODULE MCLossLock ------------------------------
(***************************************************************************)
(* LossLock for TLC.  Its constants are numbers, flags and the names of    *)
(* the goroutines, so each configuration gives them directly: which        *)
(* goroutines run against each other, and how often the world misbehaves.  *)
(* Symmetry does not apply: every goroutine has a part of its own.         *)
(***************************************************************************)
EXTENDS LossLock
===============================================================================
