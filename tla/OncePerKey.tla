------------------------------ MODULE OncePerKey ------------------------------
(***************************************************************************)
(* What an idempotency key promises: whoever uses a key first owns it for  *)
(* ever, an order or a modification reaches Kite at most once with it, and *)
(* a key is confirmed only by what was submitted with it.  No requests,    *)
(* answers, crashes or lost results.                                       *)
(***************************************************************************)
EXTENDS Naturals, Sequences

CONSTANT Keys

VARIABLES
    claim,   \* what became of each key
    taken    \* the keys of what Kite took, in its order

Init == claim = [k \in Keys |-> "unused"] /\ taken = <<>>

Used(k) == \E i \in DOMAIN taken : taken[i] = k

Claim(k) ==
    /\ claim[k] = "unused"
    /\ \E use \in {"single", "basket"} : claim' = [claim EXCEPT ![k] = use]
    /\ UNCHANGED taken

\* One order or modification, or the legs of one basket.
Take(k) ==
    /\ claim[k] = "basket" \/ (claim[k] = "single" /\ ~Used(k))
    /\ taken' = Append(taken, k)
    /\ UNCHANGED claim

Confirm(k) ==
    /\ claim[k] = "single" /\ Used(k)
    /\ claim' = [claim EXCEPT ![k] = "confirmed"]
    /\ UNCHANGED taken

Next == \E k \in Keys : Claim(k) \/ Take(k) \/ Confirm(k)

Spec == Init /\ [][Next]_<<claim, taken>>
===============================================================================
