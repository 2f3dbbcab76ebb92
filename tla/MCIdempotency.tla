---------------------------- MODULE MCIdempotency -----------------------------
(***************************************************************************)
(* Idempotency for TLC.  Keys are model values and nothing tells one from  *)
(* another but the rows, so they may be permuted.                          *)
(***************************************************************************)
EXTENDS Idempotency, TLC

Symmetry == Permutations(Keys)
===============================================================================
