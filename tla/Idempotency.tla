----------------------------- MODULE Idempotency ------------------------------
(***************************************************************************)
(* The idempotency records of Place, Modify and PlaceBasket: a key is      *)
(* reserved in SQLite before anything is submitted, and completed with     *)
(* Kite's answer.  Nothing releases a reservation: a request whose result  *)
(* was lost, with a crash, an error or a client that went away, may be     *)
(* sent again and again with its key.                                      *)
(*                                                                         *)
(* An order or a modification holds the gate from its first check to its   *)
(* answer, so only Kite and a crash come between its steps; a basket       *)
(* leaves the gate after its reservation and takes it for every leg.  A    *)
(* request that fails its checks changes nothing and is no action here.    *)
(***************************************************************************)
EXTENDS Naturals, Sequences

CONSTANTS
    Keys,          \* idempotency keys; one table holds those of all three kinds
    Legs,          \* the legs of a basket
    MaxRequests,   \* bound on requests
    MaxFaults      \* bound on failed calls and crashes

ASSUME KeysAssumption ==
    "none" \notin Keys /\ Legs \in Nat /\ MaxRequests \in Nat /\ MaxFaults \in Nat

VARIABLES
    rows,        \* idempotency_keys
    taken,       \* what Kite took; an entry's place is the ID that Kite answers
    unread,      \* acknowledged submissions that no poll has read back
    runtime,     \* "ready", "basket", or "down" for all that refuses orders
    request,     \* the request that holds the gate
    baskets,     \* deployments under way
    operation,   \* the deployment that holds the operation mutex, or 0
    answers,     \* what requests were told
    requests,    \* requests so far: the random part of each one's reference
    faults

service == <<runtime, request, baskets, operation>>
kite    == <<taken, unread>>
vars    == <<rows, kite, service, answers, requests, faults>>

Kinds == {"order", "modify", "basket"}
\* ref: a pending reference or a basket's ID; for a result, the ID Kite answered.
Rows == [kind : {"none", "pending-order", "pending-modify", "basket", "result"}, ref : Nat]
NoRow == [kind |-> "none", ref |-> 0]
BlankRequest == [at |-> "", kind |-> "order", key |-> "none", ref |-> 0, id |-> 0]
NoRequest == [at |-> "none", kind |-> "order", key |-> "none", ref |-> 0, id |-> 0]

TypeOK ==
    /\ rows \in [Keys -> Rows]
    /\ taken \in Seq([key : Keys, kind : Kinds, ref : Nat])
    /\ unread \subseteq DOMAIN taken
    /\ runtime \in {"ready", "basket", "down"}
    /\ request \in [at : {"none", "lookup", "orders", "reserve", "submit", "complete"},
                    kind : Kinds, key : Keys \cup {"none"}, ref : Nat, id : Nat]
    /\ request.at # "none" => request.key \in Keys
    /\ baskets \subseteq [key : Keys, ref : Nat, left : Nat]
    /\ operation \in Nat
    /\ answers \subseteq [key : Keys, kind : Kinds, row : Rows,
                          says : {"submitted", "replayed", "unconfirmed", "error"}]
    /\ requests \in Nat /\ faults \in Nat

Init ==
    /\ rows = [k \in Keys |-> NoRow] /\ taken = <<>> /\ unread = {}
    /\ runtime = "down" /\ request = NoRequest /\ baskets = {} /\ operation = 0
    /\ answers = {} /\ requests = 0 /\ faults = 0

Works == UNCHANGED faults
Fails == faults < MaxFaults /\ faults' = faults + 1
GateFree == request.at = "none"

-------------------------------------------------------------------------------
(* The rows.                                                                  *)

Row == rows[request.key]
Reference ==
    [kind |-> CASE request.kind = "order"  -> "pending-order"
                [] request.kind = "modify" -> "pending-modify"
                [] request.kind = "basket" -> "basket",
     ref  |-> request.ref]

\* INSERT ... ON CONFLICT DO NOTHING; UPDATE ... WHERE order_id = reference.
Insert == rows' = [rows EXCEPT ![request.key] = IF @ = NoRow THEN Reference ELSE @]
Update(id) ==
    rows' = [rows EXCEPT ![request.key] =
                IF @ = Reference THEN [kind |-> "result", ref |-> id] ELSE @]

\* After a submission that failed the reservation stays as it is.  Release gives the
\* key back.
Release == rows' = [rows EXCEPT ![request.key] = NoRow]
Keep == UNCHANGED rows

-------------------------------------------------------------------------------
(* Answers.                                                                   *)

Answer(says, row) ==
    answers' = answers \cup {[key |-> request.key, kind |-> request.kind, row |-> row,
                              says |-> says]}
Return == request' = NoRequest

\* A row that is still a reservation says nothing of Kite.  Claimed takes any row for
\* a result.
Claimed == FALSE
Unconfirmed == Row.kind \in {"pending-order", "pending-modify"}

\* idempotentDecision; PlaceBasket's own replay looks at no prefix.
Replay ==
    /\ IF request.kind # "basket" /\ Unconfirmed
       THEN Answer("unconfirmed", Row) ELSE Answer("replayed", Row)
    /\ Return

Error == Answer("error", NoRow) /\ Return

-------------------------------------------------------------------------------
(* Place, Modify and PlaceBasket up to its reservation.                       *)

Begin(kind, key) ==
    /\ GateFree /\ runtime = "ready" /\ requests < MaxRequests
    /\ requests' = requests + 1
    /\ request' = [at |-> IF kind = "modify" THEN "lookup" ELSE "reserve",
                   kind |-> kind, key |-> key, ref |-> requests + 1, id |-> 0]
    /\ UNCHANGED <<rows, kite, runtime, baskets, operation, answers, faults>>

\* Modify looks the key up before it asks Kite for the order.
Lookup ==
    /\ request.at = "lookup"
    /\ \/ Works /\ Row = NoRow /\ request' = [request EXCEPT !.at = "orders"] /\ UNCHANGED answers
       \/ Works /\ Row # NoRow /\ Replay
       \/ Fails /\ Error
    /\ UNCHANGED <<rows, kite, runtime, baskets, operation, requests>>

\* The order may have ended meanwhile, or the change be refused: no key is used up.
ReadOrders ==
    /\ request.at = "orders"
    /\ \/ Works /\ request' = [request EXCEPT !.at = "reserve"] /\ UNCHANGED answers
       \/ (Works \/ Fails) /\ Error
    /\ UNCHANGED <<rows, kite, runtime, baskets, operation, requests>>

\* A failed insert may have been committed.
Reserve ==
    /\ request.at = "reserve" /\ request.kind # "basket"
    /\ \/ /\ Works /\ Row = NoRow /\ Insert
          /\ request' = [request EXCEPT !.at = "submit"] /\ UNCHANGED answers
       \/ Works /\ Row # NoRow /\ Replay /\ UNCHANGED rows
       \/ Fails /\ (Insert \/ UNCHANGED rows) /\ Error
    /\ UNCHANGED <<kite, runtime, baskets, operation, requests>>

ReserveBasket ==
    /\ request.at = "reserve" /\ request.kind = "basket"
    /\ \/ /\ Works /\ Row = NoRow /\ Insert
          /\ runtime' = "basket"
          /\ baskets' = baskets \cup {[key |-> request.key, ref |-> request.ref, left |-> Legs]}
          /\ Return /\ UNCHANGED answers
       \/ Works /\ Row # NoRow /\ Replay /\ UNCHANGED <<rows, runtime, baskets>>
       \/ Fails /\ (Insert \/ UNCHANGED rows) /\ Error /\ UNCHANGED <<runtime, baskets>>
    /\ UNCHANGED <<kite, operation, requests>>

Taken(key, kind, ref) == taken' = Append(taken, [key |-> key, kind |-> kind, ref |-> ref])

\* Kite takes it and says so, refuses it, or an error says nothing of what it did.
Submit ==
    /\ request.at = "submit"
    /\ \/ /\ Works /\ Taken(request.key, request.kind, request.ref)
          /\ request' = [request EXCEPT !.at = "complete", !.id = Len(taken')]
          /\ UNCHANGED <<rows, runtime, answers>>
       \/ Works /\ Keep /\ Error /\ UNCHANGED <<taken, runtime>>
       \/ /\ Fails /\ Keep /\ Error /\ runtime' \in {runtime, "down"}
          /\ (Taken(request.key, request.kind, request.ref) \/ UNCHANGED taken)
    /\ UNCHANGED <<unread, baskets, operation, requests>>

\* A completion that fails is logged and changes nothing else.
Unblocked == "ready"
Blocked == "down"
Complete ==
    /\ request.at = "complete"
    /\ \/ Works /\ Update(request.id)
       \/ Fails /\ (Update(request.id) \/ UNCHANGED rows)
    /\ runtime' = Blocked
    /\ unread' = unread \cup {request.id}
    /\ Answer("submitted", [kind |-> "result", ref |-> request.id]) /\ Return
    /\ UNCHANGED <<taken, baskets, operation, requests>>

-------------------------------------------------------------------------------
(* The deployment of a basket, as far as its key is concerned: Basket has the *)
(* phases, and the rollback, whose orders reduce what the legs opened.        *)

StartBasket(b) ==
    /\ operation = 0 /\ operation' = b.ref
    /\ UNCHANGED <<rows, kite, runtime, request, baskets, answers, requests, faults>>

Leg(b) ==
    /\ operation = b.ref /\ GateFree /\ runtime = "basket" /\ b.left > 0
    /\ \/ /\ Works /\ Taken(b.key, "basket", b.ref) /\ unread' = unread \cup {Len(taken')}
          /\ baskets' = (baskets \ {b}) \cup {[b EXCEPT !.left = @ - 1]} /\ UNCHANGED runtime
       \/ /\ Fails /\ (Taken(b.key, "basket", b.ref) \/ UNCHANGED taken)
          /\ baskets' = (baskets \ {b}) \cup {[b EXCEPT !.left = 0]}
          /\ runtime' \in {runtime, "down"} /\ UNCHANGED unread
    /\ UNCHANGED <<rows, request, operation, answers, requests>>

\* finishBasket, after the legs or after a leg, a fill or the risk state stopped them.
EndBasket(b) ==
    /\ operation = b.ref /\ GateFree
    /\ operation' = 0 /\ baskets' = baskets \ {b}
    /\ runtime' = IF runtime = "basket" THEN "down" ELSE runtime
    /\ UNCHANGED <<rows, kite, request, answers, requests, faults>>

-------------------------------------------------------------------------------

\* PollOnce reads positions, trades and orders with the gate held.
Poll ==
    /\ GateFree
    /\ \/ /\ Works /\ unread' = {}
          /\ runtime' \in IF runtime = "basket" THEN {"basket"} ELSE {"ready", "down"}
       \/ Fails /\ runtime' = "down" /\ UNCHANGED unread
    /\ UNCHANGED <<rows, taken, request, baskets, operation, answers, requests>>

\* The process dies and starts again: the rows and what Kite took are all that is left.
Crash ==
    /\ Fails
    /\ runtime' = "down" /\ Return /\ baskets' = {} /\ operation' = 0
    /\ UNCHANGED <<rows, kite, answers, requests>>

Next ==
    \/ \E kind \in Kinds, key \in Keys : Begin(kind, key)
    \/ Lookup \/ ReadOrders \/ Reserve \/ ReserveBasket \/ Submit \/ Complete
    \/ \E b \in baskets : StartBasket(b) \/ Leg(b) \/ EndBasket(b)
    \/ Poll \/ Crash

Spec == Init /\ [][Next]_vars

-------------------------------------------------------------------------------
(* Properties.                                                                *)

\* A replay that names a result names what Kite took for that very key.  (A key that
\* was used for a basket, or that a basket is asked with, is answered with whatever
\* reference the row holds: the kinds share one table.)
ReplaysAreTrue ==
    \A a \in answers :
        a.says = "replayed" =>
            \/ a.row.kind = "result" /\ a.row.ref \in DOMAIN taken /\ taken[a.row.ref].key = a.key
            \/ a.row.kind = "basket" \/ a.kind = "basket"

\* New exposure is open only when every submission that Kite acknowledged has been
\* read back by a poll, across crashes and baskets that were cut short.
ReadyIsReconciled == runtime = "ready" => unread = {}

\* The abstract promise.
Fate(row) ==
    CASE row.kind = "none"   -> "unused"
      [] row.kind = "basket" -> "basket"
      [] row.kind = "result" -> "confirmed"
      [] OTHER               -> "single"
Promise == INSTANCE OncePerKey WITH
    claim <- [k \in Keys |-> Fate(rows[k])], taken <- [i \in DOMAIN taken |-> taken[i].key]

\* However often a key is sent, whatever fails and whenever the process dies, Kite
\* takes one order or modification with it, or the legs of one deployment, and the
\* key stays its first user's.
KeepsKeys == Promise!Spec
===============================================================================
