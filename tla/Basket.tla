-------------------------------- MODULE Basket --------------------------------
(***************************************************************************)
(* The deployment of one hedge basket: service.go's PlaceBasket from the   *)
(* moment it holds the operation mutex, its two phases of IOC orders, the  *)
(* reconciliation of their fills and the rollback, against Kite's orders   *)
(* and the poll that may clear the attention it raises.  LossLock models   *)
(* what the account's state machine sees of it.                            *)
(*                                                                         *)
(* Any broker call may fail at any time.  prompt says which broker answers *)
(* the calls that do not: one that settles an IOC order before it answers, *)
(* lists it at once and takes nothing it answers with an error, or one     *)
(* that may do each of these late.                                         *)
(***************************************************************************)
EXTENDS Naturals

CONSTANTS
    Buys, Sells,  \* the legs of a validated basket
    Quantity      \* of each leg, in lots

Legs == Buys \cup Sells

\* What ValidateBasket checks of the legs: both sides are there, with positive
\* quantities.  It also covers each option type's shorts by its longs, which the
\* properties below do not need.
ASSUME BasketAssumption ==
    /\ Buys # {} /\ Sells # {} /\ Buys \cap Sells = {}
    /\ Quantity \in [Legs -> Nat \ {0}]

VARIABLES
    \* Kite
    order,        \* the order of each leg
    undo,         \* the order that rolls the leg back
    prompt,       \* Kite settles, lists and answers at once; it never changes
    \* PlaceBasket
    pc, side,     \* where it is, and in which phase
    todo,         \* legs of the phase still to be submitted
    ids,          \* legs whose order ID the broker returned (phaseOrder)
    undoIds,      \* the same of rollback orders
    counted,      \* phaseOrder.Filled
    failed,       \* submissionFailed of the rollback phase
    result,       \* BasketResult.Status
    \* Service
    mayContinue,  \* trading is ACTIVE and runtime is BASKET_DEPLOYING
    hard,         \* hardAttention; the attention map is LossLock's subject
    polled        \* a poll holds the gate and has read the positions

kite     == <<order, undo>>
control  == <<pc, side, todo>>
account  == <<hard, polled, prompt>>
vars     == <<kite, control, ids, undoIds, counted, failed, result, mayContinue, account>>

Statuses == {"none", "live", "complete", "cancelled", "rejected"}
Orders == [status : Statuses, quantity : Nat, filled : Nat]
Labels == {"place", "await", "stopFailed", "stopUnknown", "stopShort", "capture", "attend",
           "continue", "close", "awaitClose", "done"}

TypeOK ==
    /\ {order, undo} \subseteq [Legs -> Orders]
    /\ pc \in Labels /\ side \in {"BUY", "SELL"}
    /\ todo \subseteq Legs /\ ids \subseteq Legs /\ undoIds \subseteq Legs
    /\ counted \in [Legs -> Nat]
    /\ result \in {"DEPLOYING", "COMPLETE", "ROLLED_BACK", "ATTENTION_REQUIRED"}
    /\ {failed, mayContinue, hard, prompt} \subseteq BOOLEAN
    /\ polled \in {"no", "flat", "open"}

BlankOrder == [status |-> "", quantity |-> 0, filled |-> 0]
NoOrder == [status |-> "none", quantity |-> 0, filled |-> 0]
Live(quantity) == [status |-> "live", quantity |-> quantity, filled |-> 0]

\* An IOC order ends with what it could fill at once.
Settled(quantity, filled) ==
    {o \in [status : {"complete", "cancelled", "rejected"}, quantity : {quantity},
            filled : filled .. quantity] :
        /\ o.status = "complete" <=> o.filled = quantity
        /\ o.status = "rejected" => o.filled = 0}

Accepted(quantity) == IF prompt THEN Settled(quantity, 0) ELSE {Live(quantity)}

\* An answer that was lost leaves an order the service has no ID of.
Lost(orders, leg, quantity) ==
    {orders} \cup IF prompt THEN {} ELSE {[orders EXCEPT ![leg] = Live(quantity)]}

Phase == IF side = "BUY" THEN Buys ELSE Sells
Held(leg) == order[leg].filled - undo[leg].filled
Flat == \A l \in Legs : Held(l) = 0 /\ order[l].status # "live" /\ undo[l].status # "live"
GateFree == polled = "no"

\* A broker call that failed under the gate: an expired session also stops the basket.
GatedCallFails == mayContinue' \in {mayContinue, FALSE}

\* A call made without the gate, which only markAuthenticationRequired takes.
CallFails == mayContinue' = mayContinue \/ (GateFree /\ mayContinue' = FALSE)

\* The part of the phase's orders that one read of the order book shows.
Views == IF prompt THEN {Phase \cap ids} ELSE SUBSET (Phase \cap ids)
Count(view) == counted' = [l \in Legs |-> IF l \in view THEN order[l].filled ELSE counted[l]]

Init ==
    /\ order = [l \in Legs |-> NoOrder] /\ undo = [l \in Legs |-> NoOrder]
    /\ pc = "place" /\ side = "BUY" /\ todo = Buys
    /\ ids = {} /\ undoIds = {} /\ counted = [l \in Legs |-> 0] /\ failed = FALSE
    /\ result = "DEPLOYING" /\ mayContinue \in BOOLEAN
    /\ hard = FALSE /\ polled = "no" /\ prompt \in BOOLEAN

LongsFirst ==
    /\ pc' = "close" /\ side' = "BUY" /\ todo' = {l \in Buys : counted'[l] > 0}
    /\ failed' = FALSE /\ result' = "ROLLED_BACK"

\* rollbackBasket: the fills counted last, shorts before longs
StartRollback ==
    /\ pc' = "close" /\ side' = "SELL" /\ todo' = {l \in Sells : counted'[l] > 0}
    /\ failed' = FALSE /\ result' = "ROLLED_BACK"

-------------------------------------------------------------------------------
(* placeBasketPhase, placeBasketLeg, awaitPhase and ensureBasketMayContinue.  *)

PlaceLeg(l) ==
    /\ pc = "place" /\ l \in todo /\ GateFree
    /\ \/ /\ mayContinue
          /\ \E o \in Accepted(Quantity[l]) : order' = [order EXCEPT ![l] = o]
          /\ ids' = ids \cup {l} /\ todo' = todo \ {l}
          /\ UNCHANGED <<pc, mayContinue>>
       \/ /\ order' \in IF mayContinue THEN Lost(order, l, Quantity[l]) ELSE {order}
          /\ GatedCallFails
          /\ pc' = "stopFailed" /\ todo' = {} /\ UNCHANGED ids
    /\ UNCHANGED <<undo, side, undoIds, counted, failed, result, account>>

PhasePlaced ==
    /\ pc = "place" /\ todo = {}
    /\ pc' = "await"
    /\ UNCHANGED <<kite, side, todo, ids, undoIds, counted, failed, result, mayContinue, account>>

Terminal(view) == Phase \cap ids = view /\ \A l \in view : order[l].status # "live"
AllTerminal(view) == Terminal(view)
AllFilled(view) ==
    Terminal(view) /\ \A l \in view : order[l].status = "complete" /\ order[l].filled = Quantity[l]

PhaseFilled ==
    /\ pc = "await"
    /\ \E view \in Views : AllFilled(view) /\ Count(view)
    /\ IF side = "BUY" THEN pc' = "continue" /\ UNCHANGED <<result, mayContinue>>
       ELSE pc' = "done" /\ result' = "COMPLETE" /\ mayContinue' = FALSE
    /\ UNCHANGED <<kite, side, todo, ids, undoIds, failed, account>>

PhaseShort ==
    /\ pc = "await"
    /\ \E view \in Views : Terminal(view) /\ ~AllFilled(view) /\ Count(view)
    /\ pc' = "stopShort"
    /\ UNCHANGED <<kite, side, todo, ids, undoIds, failed, result, mayContinue, account>>

AwaitAgain ==
    /\ pc = "await"
    /\ \E view \in Views : ~Terminal(view) /\ Count(view)
    /\ UNCHANGED <<kite, control, ids, undoIds, failed, result, mayContinue, account>>

DeadlineNever == FALSE

\* Three seconds have passed and the last read was not terminal.
Deadline ==
    /\ pc = "await"
    /\ \E view \in Views : ~Terminal(view) /\ Count(view)
    /\ pc' = "stopShort"
    /\ UNCHANGED <<kite, side, todo, ids, undoIds, failed, result, mayContinue, account>>

AwaitFails ==
    /\ pc = "await"
    /\ CallFails
    /\ pc' = "stopUnknown"
    /\ UNCHANGED <<kite, side, todo, ids, undoIds, counted, failed, result, account>>

Continue ==
    /\ pc = "continue" /\ GateFree
    /\ \/ /\ mayContinue
          /\ pc' = "place" /\ side' = "SELL" /\ todo' = Sells
          /\ UNCHANGED <<counted, failed, result>>
       \/ ~mayContinue /\ UNCHANGED counted /\ StartRollback
    /\ UNCHANGED <<kite, ids, undoIds, mayContinue, account>>

-------------------------------------------------------------------------------
(* cancelPhase, captureFills and markBasketAttention.  Only the last takes the *)
(* gate: a poll may be between its two reads while the others call Kite.       *)

\* Each order that is listed and live is cancelled, unless its cancel fails; a
\* failed read cancels none.
CancelPhase(after) ==
    /\ \E cancelled \in SUBSET {l \in Phase \cap ids : order[l].status = "live"} :
          order' = [l \in Legs |-> IF l \in cancelled
                                   THEN [order[l] EXCEPT !.status = "cancelled"] ELSE order[l]]
    /\ CallFails
    /\ UNCHANGED <<undo, ids, undoIds, counted, account>>

StopFailed ==
    /\ pc = "stopFailed"
    /\ CancelPhase("capture") /\ pc' = "capture"
    /\ UNCHANGED <<side, todo, failed, result>>

StopUnknown ==
    /\ pc = "stopUnknown"
    /\ CancelPhase("attend") /\ pc' = "attend"
    /\ UNCHANGED <<side, todo, failed, result>>

StopShort ==
    /\ pc = "stopShort"
    /\ CancelPhase("close") /\ StartRollback

Capture ==
    /\ pc = "capture"
    /\ \/ \E view \in Views : Count(view) /\ StartRollback /\ UNCHANGED mayContinue
       \/ CallFails /\ pc' = "attend" /\ UNCHANGED <<side, todo, counted, failed, result>>
    /\ UNCHANGED <<kite, ids, undoIds, account>>

AttendQuietly ==
    /\ pc = "attend" /\ GateFree
    /\ mayContinue' = FALSE /\ UNCHANGED account
    /\ pc' = "done" /\ result' = "ATTENTION_REQUIRED"
    /\ UNCHANGED <<kite, side, todo, ids, undoIds, counted, failed>>

Attend ==
    /\ pc = "attend" /\ GateFree
    /\ mayContinue' = FALSE /\ hard' = TRUE /\ UNCHANGED <<polled, prompt>>
    /\ pc' = "done" /\ result' = "ATTENTION_REQUIRED"
    /\ UNCHANGED <<kite, side, todo, ids, undoIds, counted, failed>>

-------------------------------------------------------------------------------
(* rollbackPhase, of the shorts and then of the longs.                        *)

CloseLeg(l) ==
    /\ pc = "close" /\ l \in todo
    /\ \/ /\ \E o \in Accepted(counted[l]) : undo' = [undo EXCEPT ![l] = o]
          /\ undoIds' = undoIds \cup {l} /\ UNCHANGED <<failed, mayContinue>>
       \/ /\ undo' \in Lost(undo, l, counted[l])
          /\ CallFails
          /\ failed' = TRUE /\ UNCHANGED undoIds
    /\ todo' = todo \ {l}
    /\ UNCHANGED <<order, pc, side, ids, counted, result, account>>

PhaseClosed ==
    /\ pc = "close" /\ todo = {}
    /\ pc' = "awaitClose"
    /\ UNCHANGED <<kite, side, todo, ids, undoIds, counted, failed, result, mayContinue, account>>

Closing == Phase \cap undoIds
ClosedAnyway == \A l \in Closing : undo[l].status = "complete"
ClosedSomehow == ~failed /\ \A l \in Closing : undo[l].status # "live"
ClosedForSure == ~failed /\ \A l \in Closing : undo[l].status = "complete"

CloseConfirmed ==
    /\ pc = "awaitClose" /\ ClosedForSure
    /\ IF side = "SELL"
       THEN /\ pc' = "close" /\ side' = "BUY" /\ todo' = {l \in Buys : counted[l] > 0}
            /\ UNCHANGED mayContinue
       ELSE /\ pc' = "done" /\ mayContinue' = FALSE /\ UNCHANGED <<side, todo>>
    /\ UNCHANGED <<kite, ids, undoIds, counted, failed, result, account>>

\* A submission failed, an order ended short, the read failed or time ran out.
CloseUncertain ==
    /\ pc = "awaitClose" /\ GateFree
    /\ failed \/ Closing # {}
    /\ hard' = TRUE /\ mayContinue' = FALSE
    /\ pc' = "done" /\ result' = "ATTENTION_REQUIRED"
    /\ UNCHANGED <<kite, side, todo, ids, undoIds, counted, failed, polled, prompt>>

-------------------------------------------------------------------------------
(* Kite, the poll and the rest of the service.                                *)

\* A live order fills further or ends.
Advances(o) ==
    Settled(o.quantity, o.filled)
    \cup {[o EXCEPT !.filled = f] : f \in o.filled .. o.quantity - 1}

Kite(l) ==
    \/ /\ order[l].status = "live" /\ \E o \in Advances(order[l]) : order' = [order EXCEPT ![l] = o]
       /\ UNCHANGED <<undo, control, ids, undoIds, counted, failed, result, mayContinue, account>>
    \/ /\ undo[l].status = "live" /\ \E o \in Advances(undo[l]) : undo' = [undo EXCEPT ![l] = o]
       /\ UNCHANGED <<order, control, ids, undoIds, counted, failed, result, mayContinue, account>>

\* PollOnce reads the positions and, later under the same gate, the orders.
PollPositions ==
    /\ GateFree
    /\ polled' = IF \A l \in Legs : Held(l) = 0 THEN "flat" ELSE "open"
    /\ UNCHANGED <<kite, control, ids, undoIds, counted, failed, result, mayContinue, hard, prompt>>

\* hardAttention is lifted from a flat account (nothing else is held in it).
PollOrders ==
    /\ ~GateFree /\ polled' = "no"
    /\ hard' = (hard /\ ~(polled = "flat"
                          /\ \A l \in Legs : order[l].status # "live" /\ undo[l].status # "live"))
    /\ UNCHANGED <<kite, control, ids, undoIds, counted, failed, result, mayContinue, prompt>>

PollFails ==
    /\ ~GateFree /\ polled' = "no" /\ GatedCallFails
    /\ UNCHANGED <<kite, control, ids, undoIds, counted, failed, result, hard, prompt>>

\* A breach, a failed poll or a lost session stops the basket; another basket
\* that is waiting for the operation mutex puts BASKET_DEPLOYING back.
RuntimeChanges ==
    /\ GateFree /\ mayContinue' = ~mayContinue
    /\ UNCHANGED <<kite, control, ids, undoIds, counted, failed, result, account>>

-------------------------------------------------------------------------------

Step ==
    \/ \E l \in Legs : PlaceLeg(l) \/ CloseLeg(l)
    \/ PhasePlaced \/ PhaseFilled \/ PhaseShort \/ AwaitAgain \/ Deadline \/ Continue
    \/ StopFailed \/ StopUnknown \/ StopShort \/ Capture \/ Attend
    \/ PhaseClosed \/ CloseConfirmed \/ CloseUncertain

Next ==
    \/ Step \/ AwaitFails \/ PollPositions \/ PollOrders \/ PollFails \/ RuntimeChanges
    \/ \E l \in Legs : Kite(l)

Spec == Init /\ [][Next]_vars

\* The gate is handed to each waiter in the end, every broker call returns (the
\* HTTP client has a timeout), and so does the timer of an unsettled phase.  No
\* read has to fail.
FairSpec == Spec /\ SF_vars(Step) /\ WF_vars(PollOrders)

-------------------------------------------------------------------------------
(* Properties.                                                                *)

\* While any short fill of the basket is open, every protective long is there in
\* full: it was bought first and is sold back last.
NeverNaked ==
    (\E s \in Sells : Held(s) > 0) => \A b \in Buys : Held(b) = Quantity[b]

\* A broker that settles an IOC order before it answers leaves no short naked,
\* whatever fails, fills in part or is stopped half way.
ShortsCovered == prompt => NeverNaked

\* A long is sold back only after every short fill that the service has counted
\* was bought back in full, whatever the broker does.
UnwindIsLast ==
    [][\A b \in Buys : undo[b].status = "none" /\ undo'[b].status # "none" =>
          \A s \in Sells : counted[s] > 0 =>
              undo[s].status = "complete" /\ undo[s].filled = counted[s]]_vars

\* COMPLETE is reported only of a basket whose every leg is filled in full.
CompleteIsFilled ==
    result = "COMPLETE" => \A l \in Legs : Held(l) = Quantity[l]

\* ROLLED_BACK, once PlaceBasket returns it, means that nothing of the basket is
\* left in the account, if the broker is prompt.
RolledBackIsFlat == prompt /\ pc = "done" /\ result = "ROLLED_BACK" => Flat

\* With a prompt broker, a basket that leaves fills it did not mean to leave has
\* raised an attention that no poll lifts before the account is flat: nothing new
\* can be placed.
AttentionIsRaised ==
    prompt /\ pc = "done" /\ result # "COMPLETE" /\ ~Flat => hard

\* PlaceBasket returns, however its orders and the polls behave, and releases
\* the operation mutex that liquidation waits for.
BasketEnds == <>(pc = "done")
===============================================================================
