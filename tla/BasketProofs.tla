----------------------------- MODULE BasketProofs -----------------------------
(***************************************************************************)
(* Of a basket with any legs and any quantities: the types, that a         *)
(* rollback sells longs only after every counted short is bought back      *)
(* and that a COMPLETE basket is filled (whatever the broker does), and,   *)
(* when the broker is prompt, that no short is ever left without its       *)
(* longs, that ROLLED_BACK leaves nothing and that whatever else is left   *)
(* raises an attention no poll lifts.                                      *)
(***************************************************************************)
EXTENDS Basket, TLAPS

USE DEF GateFree, Legs

\* What a prompt broker and a slow one answer are orders of the right size.
LEMMA AcceptedTypes ==
    ASSUME NEW q \in Nat
    PROVE  \A o \in Accepted(q) : o \in Orders /\ o.quantity = q
    BY DEF Accepted, Settled, Live, Orders, Statuses

\* An accepted order has a status, and a complete one is filled.
LEMMA AcceptedFilled ==
    ASSUME NEW q \in Nat
    PROVE  \A o \in Accepted(q) :
              o.status # "none" /\ (o.status = "complete" => o.filled = q)
    BY DEF Accepted, Settled, Live

\* A live order that moves on stays an order of the same size.
LEMMA AdvancesTypes ==
    ASSUME NEW o \in Orders
    PROVE  \A p \in Advances(o) :
              p \in Orders /\ p.quantity = o.quantity
              /\ (p.status = "complete" => p.filled = p.quantity \/ o.status = "complete")
              /\ (p.status = "none" => o.status = "none")
    BY DEF Advances, Settled, Orders, Statuses

\* An answer that was lost leaves orders, of which at most one is new.
LEMMA LostTypes ==
    ASSUME NEW f \in [Legs -> Orders], NEW l \in Legs, NEW q \in Nat, NEW g \in Lost(f, l, q)
    PROVE  /\ g \in [Legs -> Orders]
           /\ g = f \/ g = [f EXCEPT ![l] = Live(q)]
           /\ prompt => g = f
    BY BasketAssumption DEF Lost, Live, Orders, Statuses

\* The fills counted from any read are numbers.
LEMMA CountTypes ==
    ASSUME TypeOK, NEW view, Count(view)
    PROVE  counted' \in [Legs -> Nat]
    BY DEF TypeOK, Count, Orders

\* Cancelling keeps orders orders.
LEMMA CancelTypes ==
    ASSUME TypeOK, NEW after, CancelPhase(after)
    PROVE  order' \in [Legs -> Orders] /\ mayContinue' \in BOOLEAN
<1>1. PICK cancelled :
          order' = [l \in Legs |-> IF l \in cancelled
                                   THEN [order[l] EXCEPT !.status = "cancelled"] ELSE order[l]]
    BY DEF CancelPhase
<1>2. ASSUME NEW l \in Legs PROVE order'[l] \in Orders
  <2>1. order[l] \in Orders
      BY DEF TypeOK
  <2>2. [order[l] EXCEPT !.status = "cancelled"] \in Orders
      BY <2>1 DEF Orders, Statuses
  <2>q. QED BY <1>1, <2>1, <2>2
<1>3. order' \in [Legs -> Orders]
    BY <1>1, <1>2
<1>4. mayContinue' \in BOOLEAN
    BY DEF TypeOK, CancelPhase, CallFails
<1>q. QED BY <1>3, <1>4

\* Every variable of the deployment keeps its type.
LEMMA TypesPreserved == TypeOK /\ [Next]_vars => TypeOK'
<1> SUFFICES ASSUME TypeOK, [Next]_vars PROVE TypeOK'
    OBVIOUS
<1> USE BasketAssumption
<1>1. ASSUME NEW l \in Legs, PlaceLeg(l) PROVE TypeOK'
  <2>1. Quantity[l] \in Nat
      OBVIOUS
  <2>2. CASE \E o \in Accepted(Quantity[l]) : order' = [order EXCEPT ![l] = o]
    <3>1. PICK o \in Accepted(Quantity[l]) : order' = [order EXCEPT ![l] = o]
        BY <2>2
    <3>2. o \in Orders
        BY <2>1, <3>1, AcceptedTypes
    <3>q. QED BY <1>1, <3>1, <3>2 DEF TypeOK, PlaceLeg, GatedCallFails, Labels, account
  <2>3. CASE order' \in Lost(order, l, Quantity[l])
    <3>1. order' \in [Legs -> Orders]
        BY <2>1, <2>3, LostTypes DEF TypeOK
    <3>q. QED BY <1>1, <3>1 DEF TypeOK, PlaceLeg, GatedCallFails, Labels, account
  <2>4. CASE order' = order
      BY <1>1, <2>4 DEF TypeOK, PlaceLeg, GatedCallFails, Labels, account
  <2>q. QED BY <1>1, <2>2, <2>3, <2>4 DEF PlaceLeg
<1>2. ASSUME NEW l \in Legs, CloseLeg(l) PROVE TypeOK'
  <2>1. counted[l] \in Nat
      BY DEF TypeOK
  <2>2. CASE \E o \in Accepted(counted[l]) : undo' = [undo EXCEPT ![l] = o]
    <3>1. PICK o \in Accepted(counted[l]) : undo' = [undo EXCEPT ![l] = o]
        BY <2>2
    <3>2. o \in Orders
        BY <2>1, <3>1, AcceptedTypes
    <3>q. QED BY <1>2, <3>1, <3>2 DEF TypeOK, CloseLeg, CallFails, account
  <2>3. CASE undo' \in Lost(undo, l, counted[l])
    <3>1. undo' \in [Legs -> Orders]
        BY <2>1, <2>3, LostTypes DEF TypeOK
    <3>q. QED BY <1>2, <3>1 DEF TypeOK, CloseLeg, CallFails, account
  <2>q. QED BY <1>2, <2>2, <2>3 DEF CloseLeg
<1>3. CASE PhasePlaced
    BY <1>3 DEF TypeOK, PhasePlaced, Labels, kite, account
<1>4. CASE PhaseFilled
    BY <1>4, CountTypes DEF TypeOK, PhaseFilled, Labels, kite, account
<1>5. CASE PhaseShort \/ AwaitAgain \/ Deadline
    BY <1>5, CountTypes DEF TypeOK, PhaseShort, AwaitAgain, Deadline, Labels, kite, control, account
<1>6. CASE AwaitFails
    BY <1>6 DEF TypeOK, AwaitFails, CallFails, Labels, kite, account
<1>7. CASE Continue
    BY <1>7 DEF TypeOK, Continue, StartRollback, Labels, kite, account
<1>8. CASE StopFailed \/ StopUnknown
    BY <1>8, CancelTypes DEF TypeOK, StopFailed, StopUnknown, CancelPhase, Labels, account
<1>9. CASE StopShort
    BY <1>9, CancelTypes DEF TypeOK, StopShort, StartRollback, CancelPhase, Labels, account
<1>10. CASE Capture
    BY <1>10, CountTypes DEF TypeOK, Capture, StartRollback, CallFails, Labels, kite, account
<1>11. CASE Attend
    BY <1>11 DEF TypeOK, Attend, Labels, kite
<1>12. CASE PhaseClosed \/ CloseConfirmed
    BY <1>12 DEF TypeOK, PhaseClosed, CloseConfirmed, Labels, kite, account
<1>13. CASE CloseUncertain
    BY <1>13 DEF TypeOK, CloseUncertain, Labels, kite
<1>14. CASE PollPositions \/ PollOrders \/ PollFails \/ RuntimeChanges
    BY <1>14 DEF TypeOK, PollPositions, PollOrders, PollFails, RuntimeChanges, GatedCallFails, kite,
       control, account
<1>15. ASSUME NEW l \in Legs, Kite(l) PROVE TypeOK'
  <2>1. {order', undo'} \subseteq [Legs -> Orders]
      BY <1>15, AdvancesTypes DEF TypeOK, Kite
  <2>q. QED BY <1>15, <2>1 DEF TypeOK, Kite, control, account
<1>16. CASE UNCHANGED vars
    BY <1>16 DEF TypeOK, vars, kite, control, account
<1>q. QED BY <1>1, <1>2, <1>3, <1>4, <1>5, <1>6, <1>7, <1>8, <1>9, <1>10, <1>11, <1>12, <1>13,
             <1>14, <1>15, <1>16 DEF Next, Step

\* The initial state has the types.
LEMMA TypesInit == Init => TypeOK
<1> SUFFICES ASSUME Init PROVE TypeOK
    OBVIOUS
<1>1. NoOrder \in Orders
    BY DEF NoOrder, Orders, Statuses
<1>2. {order, undo} \subseteq [Legs -> Orders] /\ counted \in [Legs -> Nat]
    BY <1>1 DEF Init
<1>q. QED BY <1>2 DEF Init, TypeOK, Labels

\* The type invariant: Kite's orders, PlaceBasket's bookkeeping and the service's
\* flags keep their types.
THEOREM BasketTypeCorrect == Spec => []TypeOK
    BY TypesInit, TypesPreserved, PTL DEF Spec

-------------------------------------------------------------------------------
(* The order of the rollback, whatever the broker does.                       *)

Rolling == pc \in {"close", "awaitClose"}
NotYet == ~(Rolling \/ pc = "done") => undoIds = {} /\ \A l \in Legs : undo[l].status = "none"
Sized ==
    \A l \in Legs :
        /\ undo[l].status # "none" => undo[l].quantity = counted[l]
        /\ undo[l].status = "complete" => undo[l].filled = undo[l].quantity
InPhase ==
    /\ pc \in {"place", "close"} => todo \subseteq Phase
    /\ pc = "awaitClose" => todo = {}
ShortsFirst ==
    Rolling /\ side = "SELL" =>
        /\ \A b \in Buys : undo[b].status = "none"
        /\ \A s \in Sells : counted[s] > 0 => s \in todo \/ failed \/ s \in undoIds
LongsGoing == (Rolling /\ side = "BUY") \/ \E b \in Buys : undo[b].status # "none"
ShortsClosed ==
    LongsGoing => \A s \in Sells : counted[s] > 0 => undo[s].status = "complete"

RollbackInv == TypeOK /\ NotYet /\ Sized /\ InPhase /\ ShortsFirst /\ ShortsClosed

\* A step that leaves the rollback's bookkeeping alone, or the phases before it,
\* keeps the invariant.
LEMMA EarlySteps ==
    ASSUME RollbackInv, UNCHANGED <<undo, undoIds>>, ~(Rolling \/ pc = "done"),
           pc' = "place" => todo' \subseteq Phase',
           Rolling' => pc' = "close" /\ side' = "SELL" /\ todo' = {l \in Sells : counted'[l] > 0}
    PROVE  NotYet' /\ Sized' /\ InPhase' /\ ShortsFirst' /\ ShortsClosed'
    BY BasketAssumption DEF RollbackInv, NotYet, Sized, InPhase, ShortsFirst, ShortsClosed, LongsGoing, Rolling,
       Phase

\* Steps of the phases before the rollback.
LEMMA DeployRollback ==
    ASSUME RollbackInv,
           \/ \E l \in Legs : PlaceLeg(l)
           \/ PhasePlaced \/ PhaseFilled \/ PhaseShort \/ AwaitAgain \/ Deadline \/ AwaitFails
           \/ Continue \/ StopFailed \/ StopUnknown \/ StopShort \/ Capture \/ Attend
    PROVE  NotYet' /\ Sized' /\ InPhase' /\ ShortsFirst' /\ ShortsClosed'
<1>1. UNCHANGED <<undo, undoIds>> /\ ~(Rolling \/ pc = "done")
    BY DEF PlaceLeg, PhasePlaced, PhaseFilled, PhaseShort, AwaitAgain, Deadline, AwaitFails,
       Continue, StopFailed, StopUnknown, StopShort, Capture, Attend, CancelPhase, kite, Rolling
<1>2. pc' = "place" => todo' \subseteq Phase'
    BY DEF RollbackInv, InPhase, Phase, PlaceLeg, PhasePlaced, PhaseFilled, PhaseShort, AwaitAgain,
       Deadline, AwaitFails, Continue, StartRollback, StopFailed, StopUnknown, StopShort, Capture,
       Attend, control
<1>3. Rolling' => pc' = "close" /\ side' = "SELL" /\ todo' = {l \in Sells : counted'[l] > 0}
    BY DEF Rolling, PlaceLeg, PhasePlaced, PhaseFilled, PhaseShort, AwaitAgain,
       Deadline, AwaitFails, Continue, StartRollback, StopFailed, StopUnknown, StopShort, Capture,
       Attend, control
<1>q. QED BY <1>1, <1>2, <1>3, EarlySteps

\* Submitting a rollback order.
LEMMA CloseLegRollback ==
    ASSUME RollbackInv, NEW l \in Legs, CloseLeg(l)
    PROVE  NotYet' /\ Sized' /\ InPhase' /\ ShortsFirst' /\ ShortsClosed'
<1>1. /\ counted[l] \in Nat /\ undo \in [Legs -> Orders]
      /\ pc = "close" /\ l \in todo /\ todo \subseteq Phase /\ Rolling /\ Rolling'
      /\ UNCHANGED <<pc, side, counted>> /\ todo' = todo \ {l}
    BY DEF RollbackInv, CloseLeg, TypeOK, InPhase, Rolling
<1>2. failed' \/ (undoIds' = undoIds \cup {l} /\ failed' = failed)
    BY DEF CloseLeg
<1>3. PICK o \in Orders :
          /\ undo' = undo \/ undo' = [undo EXCEPT ![l] = o]
          /\ o.status # "none" /\ o.quantity = counted[l]
          /\ o.status = "complete" => o.filled = counted[l]
  <2>1. CASE \E o \in Accepted(counted[l]) : undo' = [undo EXCEPT ![l] = o]
      BY <2>1, <1>1, AcceptedTypes, AcceptedFilled
  <2>2. CASE undo' \in Lost(undo, l, counted[l])
    <3>1. Live(counted[l]) \in Orders
        BY <1>1 DEF Live, Orders, Statuses
    <3>q. QED BY <2>2, <3>1 DEF Lost, Live
  <2>q. QED BY <2>1, <2>2 DEF CloseLeg
<1>4. \A k \in Legs :
         \/ undo'[k] = undo[k]
         \/ /\ k = l /\ undo'[k].status # "none"
            /\ undo'[k].quantity = counted[k]
            /\ undo'[k].status = "complete" => undo'[k].filled = counted[k]
    BY <1>1, <1>3
<1>5. NotYet' /\ InPhase'
    BY <1>1 DEF NotYet, InPhase, Rolling, Phase
<1>6. Sized'
    BY <1>1, <1>4 DEF RollbackInv, Sized
<1>7. ShortsFirst'
    BY <1>1, <1>2, <1>4, BasketAssumption DEF RollbackInv, ShortsFirst, Phase, Rolling, CloseLeg
<1>8. ShortsClosed'
  <2>1. LongsGoing' => side = "BUY" \/ LongsGoing
      BY <1>1, <1>4, BasketAssumption DEF LongsGoing, Phase, Rolling
  <2>2. LongsGoing' => side = "BUY" /\ LongsGoing
      BY <1>1, <2>1, BasketAssumption DEF RollbackInv, TypeOK, LongsGoing, ShortsFirst, Rolling
  <2>3. side = "BUY" => \A s \in Sells : undo'[s] = undo[s]
      BY <1>1, <1>4, BasketAssumption DEF Phase
  <2>q. QED BY <1>1, <2>2, <2>3 DEF RollbackInv, ShortsClosed
<1>q. QED BY <1>5, <1>6, <1>7, <1>8

\* Confirming a rollback phase, or giving it up.
LEMMA ClosedRollback ==
    ASSUME RollbackInv, PhaseClosed \/ CloseConfirmed \/ CloseUncertain
    PROVE  NotYet' /\ Sized' /\ InPhase' /\ ShortsFirst' /\ ShortsClosed'
<1> USE BasketAssumption DEF RollbackInv
<1>1. UNCHANGED <<undo, undoIds, counted>> /\ Rolling /\ (Rolling' \/ pc' = "done")
    BY DEF PhaseClosed, CloseConfirmed, CloseUncertain, kite, Rolling
<1>2. NotYet' /\ Sized'
    BY <1>1 DEF NotYet, Sized, Rolling
<1>3. InPhase'
    BY DEF InPhase, Phase, PhaseClosed, CloseConfirmed, CloseUncertain
<1>4. ShortsFirst'
    BY <1>1 DEF ShortsFirst, Rolling, PhaseClosed, CloseConfirmed, CloseUncertain
<1>5. ShortsClosed'
  <2>1. CASE CloseConfirmed /\ side = "SELL"
      BY <1>1, <2>1 DEF ShortsClosed, ShortsFirst, InPhase, Rolling, CloseConfirmed, ClosedForSure,
         Closing, Phase, kite
  <2>2. CASE ~(CloseConfirmed /\ side = "SELL")
    <3>1. LongsGoing' => LongsGoing
        BY <1>1, <2>2 DEF LongsGoing, Rolling, PhaseClosed, CloseConfirmed, CloseUncertain
    <3>q. QED BY <1>1, <3>1 DEF ShortsClosed
  <2>q. QED BY <2>1, <2>2
<1>q. QED BY <1>2, <1>3, <1>4, <1>5

\* Kite's steps.
LEMMA KiteRollback ==
    ASSUME RollbackInv, NEW l \in Legs, Kite(l)
    PROVE  NotYet' /\ Sized' /\ InPhase' /\ ShortsFirst' /\ ShortsClosed'
<1> USE BasketAssumption DEF RollbackInv
<1>1. UNCHANGED <<pc, side, todo, undoIds, counted, failed>>
    BY DEF Kite, control
<1>2. CASE undo' = undo
    BY <1>1, <1>2 DEF NotYet, Sized, InPhase, ShortsFirst, ShortsClosed, LongsGoing, Rolling, Phase
<1>3. CASE /\ undo[l].status = "live"
           /\ \E o \in Advances(undo[l]) : undo' = [undo EXCEPT ![l] = o]
  <2>1. undo[l] \in Orders /\ undo \in [Legs -> Orders]
      BY DEF TypeOK
  <2>2. PICK o \in Orders :
            /\ undo' = [undo EXCEPT ![l] = o] /\ o.status # "none"
            /\ o.quantity = undo[l].quantity
            /\ o.status = "complete" => o.filled = o.quantity
      BY <1>3, <2>1, AdvancesTypes
  <2>3. NotYet' /\ InPhase'
      BY <1>1, <1>3, <2>1 DEF NotYet, InPhase, Rolling, Phase
  <2>4. Sized'
      BY <1>1, <1>3, <2>1, <2>2 DEF Sized
  <2>5. ShortsFirst'
      BY <1>1, <1>3, <2>1, <2>2 DEF ShortsFirst, Rolling
  <2>6. ShortsClosed'
      BY <1>1, <1>3, <2>1, <2>2 DEF ShortsClosed, LongsGoing, Rolling
  <2>q. QED BY <2>3, <2>4, <2>5, <2>6
<1>q. QED BY <1>2, <1>3 DEF Kite

\* Every step keeps the order of the rollback.
LEMMA RollbackPreserved == RollbackInv /\ [Next]_vars => RollbackInv'
<1> SUFFICES ASSUME RollbackInv, [Next]_vars PROVE RollbackInv'
    OBVIOUS
<1>1. TypeOK'
    BY TypesPreserved DEF RollbackInv
<1>2. CASE \/ PollPositions \/ PollOrders \/ PollFails \/ RuntimeChanges
           \/ UNCHANGED vars
  <2>1. UNCHANGED <<undo, pc, side, todo, undoIds, counted, failed>>
      BY <1>2 DEF PollPositions, PollOrders, PollFails, RuntimeChanges, vars, kite, control
  <2>q. QED BY <1>1, <2>1 DEF RollbackInv, NotYet, Sized, InPhase, ShortsFirst, ShortsClosed,
           LongsGoing, Rolling, Phase
<1>q. QED BY <1>1, <1>2, DeployRollback, CloseLegRollback, ClosedRollback, KiteRollback
          DEF Next, Step, RollbackInv

\* Nothing is rolled back initially.
LEMMA RollbackInit == Init => RollbackInv
    BY TypesInit, BasketAssumption DEF Init, RollbackInv, NotYet, Sized, InPhase, ShortsFirst,
       ShortsClosed, LongsGoing, Rolling, Phase, NoOrder

\* In every state of the basket the rollback is in order.
LEMMA RollbackAlways == Spec => []RollbackInv
    BY RollbackInit, RollbackPreserved, PTL DEF Spec

Unwinds == \A b \in Buys : undo[b].status = "none" /\ undo'[b].status # "none" =>
              \A s \in Sells : counted[s] > 0 =>
                  undo[s].status = "complete" /\ undo[s].filled = counted[s]

\* Whatever the broker does, rollbackBasket sells a long back only after every
\* short fill it has counted was bought back in full.
THEOREM LongsLast == Spec => UnwindIsLast
<1>1. ASSUME RollbackInv, [Next]_vars PROVE [Unwinds]_vars
  <2> SUFFICES ASSUME NEW b \in Buys, undo[b].status = "none", undo'[b].status # "none",
                      NEW s \in Sells, counted[s] > 0
               PROVE  undo[s].status = "complete" /\ undo[s].filled = counted[s]
      BY DEF Unwinds
  <2>1. PICK l \in Legs : CloseLeg(l) \/ Kite(l)
      BY <1>1 DEF Next, Step, PlaceLeg, PhasePlaced, PhaseFilled, PhaseShort, AwaitAgain, Deadline,
         AwaitFails, Continue, StopFailed, StopUnknown, StopShort, Capture, Attend, CancelPhase,
         PhaseClosed, CloseConfirmed, CloseUncertain, PollPositions, PollOrders, PollFails,
         RuntimeChanges, vars, kite
  <2>2. CASE Kite(l)
    <3>1. undo[l].status # "live" => undo' = undo
        BY <2>2 DEF Kite
    <3>2. l # b => undo'[b] = undo[b]
        BY <1>1, <2>2 DEF Kite, RollbackInv, TypeOK
    <3>q. QED BY <3>1, <3>2
  <2>3. CASE CloseLeg(l)
    <3>1. l = b
        BY <1>1, <2>3 DEF CloseLeg, Lost, RollbackInv, TypeOK
    <3>2. side = "BUY" /\ Rolling
        BY <1>1, <2>3, <3>1, BasketAssumption DEF CloseLeg, RollbackInv, InPhase, TypeOK, Rolling,
           Phase
    <3>q. QED BY <1>1, <3>2, BasketAssumption DEF RollbackInv, ShortsClosed, LongsGoing, Sized
  <2>q. QED BY <2>1, <2>2, <2>3
<1>q. QED BY <1>1, RollbackAlways, PTL DEF Spec, UnwindIsLast, Unwinds

-------------------------------------------------------------------------------
(* No short without its longs, when the broker is prompt.                     *)

Deploying == pc \in {"place", "await", "stopFailed", "stopUnknown", "stopShort", "capture", "attend",
                     "continue"}
AllSettled == \A l \in Legs : order[l].status # "live" /\ undo[l].status # "live"
KnownOnly == \A l \in Legs \ ids : order[l].filled = 0 /\ counted[l] = 0
Submitted ==
    /\ pc = "place" => Phase \subseteq ids \cup todo
    /\ pc = "await" => Phase \subseteq ids
    /\ Deploying /\ side = "BUY" => Sells \cap ids = {}
    /\ pc = "continue" => side = "BUY"
BuysFull ==
    (pc = "continue" \/ (Deploying /\ side = "SELL") \/ \E s \in Sells : order[s].filled > 0)
    => \A b \in Buys : order[b].filled = Quantity[b]
SellsCounted ==
    (pc = "stopShort" \/ Rolling \/ \E b \in Buys : undo[b].status # "none")
    => \A s \in Sells : counted[s] = order[s].filled
NoneFilled == \A l \in Legs : undo[l].status = "none" => undo[l].filled = 0

PromptInv == /\ RollbackInv /\ AllSettled /\ KnownOnly /\ Submitted /\ BuysFull /\ SellsCounted
             /\ NoneFilled

\* The invariant is enough: a short that is still held was neither bought back
\* nor were its longs sold.
LEMMA PromptIsCovered == PromptInv => NeverNaked
<1> SUFFICES ASSUME PromptInv, NEW s \in Sells, Held(s) > 0, NEW b \in Buys
             PROVE  Held(b) = Quantity[b]
    BY DEF NeverNaked
<1>1. /\ order[s].filled \in Nat /\ undo[s].filled \in Nat
      /\ order[b].filled \in Nat /\ Quantity[b] \in Nat
    BY BasketAssumption DEF PromptInv, RollbackInv, TypeOK, Orders
<1>2. order[s].filled > 0
    BY <1>1 DEF Held
<1>3. order[b].filled = Quantity[b]
    BY <1>2 DEF PromptInv, BuysFull
<1>4. CASE undo[b].status = "none"
    BY <1>1, <1>3, <1>4 DEF PromptInv, NoneFilled, Held
<1>5. CASE undo[b].status # "none"
  <2>1. counted[s] = order[s].filled
      BY <1>5 DEF PromptInv, SellsCounted
  <2>2. undo[s].status = "complete"
      BY <1>2, <1>5, <2>1 DEF PromptInv, RollbackInv, ShortsClosed, LongsGoing
  <2>3. undo[s].filled = counted[s]
      BY <2>2 DEF PromptInv, RollbackInv, Sized
  <2>q. QED BY <1>1, <2>1, <2>3 DEF Held
<1>q. QED BY <1>4, <1>5

Prompted == AllSettled /\ KnownOnly /\ Submitted /\ BuysFull /\ SellsCounted /\ NoneFilled

\* With a prompt broker there is nothing to cancel.
LEMMA CancelIdle ==
    ASSUME PromptInv, NEW after, CancelPhase(after)
    PROVE  order' = order /\ UNCHANGED <<undo, ids, undoIds, counted>>
<1>1. order \in [Legs -> Orders]
    BY DEF PromptInv, RollbackInv, TypeOK
<1>2. order' = [l \in Legs |-> order[l]]
    BY BasketAssumption DEF PromptInv, AllSettled, CancelPhase, Phase
<1>q. QED BY <1>1, <1>2 DEF CancelPhase

\* With a prompt broker a read counts every fill of the phase.
LEMMA CountAll ==
    ASSUME prompt, PromptInv, NEW view \in Views, Count(view)
    PROVE  /\ view = Phase \cap ids /\ Terminal(view)
           /\ \A l \in Phase : counted'[l] = order[l].filled
           /\ \A l \in Legs \ Phase : counted'[l] = counted[l]
<1>1. view = Phase \cap ids /\ Phase \subseteq Legs
    BY BasketAssumption DEF Views, Phase
<1>2. Terminal(view)
    BY <1>1 DEF Terminal, PromptInv, AllSettled
<1>3. \A l \in Legs : counted'[l] = IF l \in view THEN order[l].filled ELSE counted[l]
    BY DEF Count
<1>q. QED BY <1>1, <1>2, <1>3 DEF PromptInv, KnownOnly

\* Submitting a leg: it settles at once, and a SELL finds every BUY filled.
LEMMA PlacePrompted ==
    ASSUME prompt, PromptInv, NEW l \in Legs, PlaceLeg(l)
    PROVE  Prompted'
<1>1. /\ l \in todo /\ todo \subseteq Phase /\ l \in Phase /\ pc = "place" /\ Deploying
      /\ UNCHANGED <<undo, counted, side>> /\ order \in [Legs -> Orders]
      /\ Quantity[l] \in Nat
    BY BasketAssumption DEF PlaceLeg, PromptInv, RollbackInv, InPhase, TypeOK, Deploying
<1>2. /\ Sells \cap ids = {} \/ side = "SELL"
      /\ \A k \in Legs : undo[k].status = "none"
      /\ side \in {"BUY", "SELL"}
    BY <1>1 DEF PromptInv, Submitted, RollbackInv, NotYet, Deploying, Rolling, TypeOK
<1>3. CASE /\ ids' = ids \cup {l} /\ todo' = todo \ {l} /\ pc' = pc
           /\ \E o \in Accepted(Quantity[l]) : order' = [order EXCEPT ![l] = o]
  <2>1. PICK o \in Accepted(Quantity[l]) : order' = [order EXCEPT ![l] = o]
      BY <1>3
  <2>2. o.status # "live"
      BY <2>1 DEF Accepted, Settled
  <2>3. order'[l] = o /\ \A k \in Legs \ {l} : order'[k] = order[k]
      BY <1>1, <2>1
  <2>4. AllSettled' /\ NoneFilled'
      BY <1>1, <2>2, <2>3 DEF PromptInv, AllSettled, NoneFilled
  <2>5. KnownOnly'
      BY <1>1, <1>3, <2>3 DEF PromptInv, KnownOnly
  <2>6. Submitted'
      BY <1>1, <1>3, BasketAssumption DEF PromptInv, Submitted, Phase, Deploying
  <2>7. BuysFull'
    <3>1. CASE side = "BUY"
      <4>1. l \notin Sells
          BY <1>1, <3>1, BasketAssumption DEF Phase
      <4>2. \A s \in Sells : order'[s].filled = 0
          BY <1>2, <2>3, <3>1, <4>1 DEF PromptInv, KnownOnly
      <4>q. QED BY <1>1, <1>3, <3>1, <4>2 DEF BuysFull
    <3>2. CASE side = "SELL"
      <4>1. l \notin Buys
          BY <1>1, <3>2, BasketAssumption DEF Phase
      <4>q. QED BY <1>1, <2>3, <3>2, <4>1 DEF PromptInv, BuysFull
    <3>q. QED BY <1>2, <3>1, <3>2
  <2>8. SellsCounted'
      BY <1>1, <1>2, <1>3 DEF SellsCounted, Rolling
  <2>q. QED BY <2>4, <2>5, <2>6, <2>7, <2>8 DEF Prompted
<1>4. CASE order' = order /\ ids' = ids /\ pc' = "stopFailed"
    BY <1>1, <1>2, <1>4 DEF Prompted, PromptInv, AllSettled, KnownOnly, Submitted, BuysFull,
       SellsCounted, NoneFilled, Rolling, Deploying, Phase
<1>q. QED BY <1>3, <1>4 DEF PlaceLeg, Lost

\* A read of the order book: nothing is left to wait for, a filled BUY phase is
\* full, and what a short phase has filled is counted.
LEMMA ReadPrompted ==
    ASSUME prompt, PromptInv, PhaseFilled \/ PhaseShort \/ AwaitAgain \/ Deadline
    PROVE  Prompted'
<1>1. PICK view \in Views : Count(view)
    BY DEF PhaseFilled, PhaseShort, AwaitAgain, Deadline
<1>2. /\ pc = "await" /\ Deploying /\ UNCHANGED <<order, undo, side, ids>>
      /\ pc' # "place" /\ pc' # "await"
  <2>1. ~AwaitAgain /\ ~Deadline
      BY CountAll DEF AwaitAgain, Deadline
  <2>q. QED BY <2>1 DEF PhaseFilled, PhaseShort, Deploying, kite
<1>3. /\ \A k \in Legs : undo[k].status = "none"
      /\ Phase \subseteq ids /\ (side = "BUY" => Sells \cap ids = {})
      /\ side \in {"BUY", "SELL"}
    BY <1>2 DEF PromptInv, Submitted, RollbackInv, NotYet, Deploying, Rolling, TypeOK
<1>4. \A s \in Sells : counted'[s] = order[s].filled
  <2>1. CASE side = "BUY"
      BY <1>1, <1>3, <2>1, CountAll, BasketAssumption DEF PromptInv, KnownOnly, Phase
  <2>2. CASE side = "SELL"
      BY <1>1, <2>2, CountAll DEF Phase
  <2>q. QED BY <1>3, <2>1, <2>2
<1>5. KnownOnly'
    BY <1>1, <1>2, <1>3, CountAll DEF PromptInv, KnownOnly
<1>6. AllSettled' /\ NoneFilled' /\ SellsCounted'
    BY <1>2, <1>4 DEF PromptInv, AllSettled, NoneFilled, SellsCounted
<1>7. Submitted'
    BY <1>2, <1>3 DEF Submitted, Deploying, PhaseFilled, PhaseShort, AwaitAgain, Deadline, control
<1>8. BuysFull'
  <2>1. CASE PhaseFilled /\ side = "BUY"
    <3>1. PICK v \in Views : AllFilled(v) /\ Count(v)
        BY <2>1 DEF PhaseFilled
    <3>2. v = Buys
        BY <1>3, <2>1, <3>1, CountAll DEF Phase
    <3>q. QED BY <1>2, <3>1, <3>2 DEF AllFilled, BuysFull
  <2>2. CASE ~(PhaseFilled /\ side = "BUY")
    <3>1. pc' # "continue"
        BY <1>2, <2>2 DEF PhaseFilled, PhaseShort, AwaitAgain, Deadline, control
    <3>q. QED BY <1>2, <3>1 DEF PromptInv, BuysFull, Deploying
  <2>q. QED BY <2>1, <2>2
<1>q. QED BY <1>5, <1>6, <1>7, <1>8 DEF Prompted

\* Stopping a phase and starting the rollback.
LEMMA StopPrompted ==
    ASSUME prompt, PromptInv,
           PhasePlaced \/ AwaitFails \/ Continue \/ StopFailed \/ StopUnknown \/ StopShort \/ Capture
           \/ Attend
    PROVE  Prompted'
<1>1. UNCHANGED <<order, undo, ids>> /\ Deploying
    BY CancelIdle DEF PhasePlaced, AwaitFails, Continue, StopFailed, StopUnknown, StopShort,
       Capture, Attend, kite, Deploying
<1>2. /\ \A k \in Legs : undo[k].status = "none"
      /\ (side = "BUY" => Sells \cap ids = {})
      /\ side \in {"BUY", "SELL"}
    BY <1>1 DEF PromptInv, Submitted, RollbackInv, NotYet, Deploying, Rolling, TypeOK
<1>3. AllSettled' /\ NoneFilled'
    BY <1>1 DEF PromptInv, AllSettled, NoneFilled
<1>4. side = "BUY" => \A s \in Sells : counted[s] = order[s].filled
    BY <1>2 DEF PromptInv, KnownOnly
<1>5. CASE Capture /\ pc' = "close"
  <2>1. PICK view \in Views : Count(view)
      BY <1>5 DEF Capture
  <2>2. KnownOnly'
      BY <1>1, <2>1, CountAll, BasketAssumption DEF PromptInv, KnownOnly, Phase
  <2>3. \A s \in Sells : counted'[s] = order[s].filled
    <3>1. CASE side = "BUY"
        BY <1>4, <2>1, <3>1, CountAll, BasketAssumption DEF Phase
    <3>2. CASE side = "SELL"
        BY <2>1, <3>2, CountAll DEF Phase
    <3>q. QED BY <1>2, <3>1, <3>2
  <2>4. Submitted' /\ BuysFull' /\ SellsCounted'
      BY <1>1, <1>5, <2>3 DEF PromptInv, Submitted, BuysFull, SellsCounted, Deploying
  <2>q. QED BY <1>3, <2>2, <2>4 DEF Prompted
<1>6. CASE ~(Capture /\ pc' = "close")
  <2>1. counted' = counted
      BY <1>6, CancelIdle DEF PhasePlaced, AwaitFails, Continue, StopFailed, StopUnknown, StopShort,
         Capture, StartRollback, Attend
  <2>2. KnownOnly'
      BY <1>1, <2>1 DEF PromptInv, KnownOnly
  <2>3. Submitted'
      BY <1>1, <1>2, <1>6, BasketAssumption DEF PromptInv, Submitted, Deploying, Phase, PhasePlaced, AwaitFails,
         Continue, StartRollback, StopFailed, StopUnknown, StopShort, Capture, Attend
  <2>4. BuysFull'
      BY <1>1, <1>6 DEF PromptInv, BuysFull, Deploying, PhasePlaced, AwaitFails,
         Continue, StartRollback, StopFailed, StopUnknown, StopShort, Capture, Attend
  <2>5. SellsCounted'
      BY <1>1, <1>2, <1>4, <1>6, <2>1 DEF PromptInv, SellsCounted, Submitted, Rolling, PhasePlaced, AwaitFails,
         Continue, StartRollback, StopFailed, StopUnknown, StopShort, Capture, Attend
  <2>q. QED BY <1>3, <2>2, <2>3, <2>4, <2>5 DEF Prompted
<1>q. QED BY <1>5, <1>6

\* The rollback's own steps.
LEMMA ClosePrompted ==
    ASSUME prompt, PromptInv,
           (\E l \in Legs : CloseLeg(l)) \/ PhaseClosed \/ CloseConfirmed \/ CloseUncertain
    PROVE  Prompted'
<1>1. /\ UNCHANGED <<order, ids, counted>> /\ Rolling /\ (Rolling' \/ pc' = "done")
      /\ undo \in [Legs -> Orders]
    BY DEF CloseLeg, PhaseClosed, CloseConfirmed, CloseUncertain, kite, Rolling, PromptInv,
       RollbackInv, TypeOK
<1>2. \A k \in Legs : undo'[k] = undo[k] \/ undo'[k].status \notin {"live", "none"}
  <2>1. CASE undo' = undo
      BY <2>1
  <2>2. CASE undo' # undo
    <3>1. PICK l \in Legs : \E o \in Accepted(counted[l]) : undo' = [undo EXCEPT ![l] = o]
        BY <2>2 DEF CloseLeg, Lost, PhaseClosed, CloseConfirmed, CloseUncertain, kite
    <3>2. PICK o \in Accepted(counted[l]) : undo' = [undo EXCEPT ![l] = o]
        BY <3>1
    <3>3. o.status \notin {"live", "none"}
        BY <3>2 DEF Accepted, Settled
    <3>q. QED BY <1>1, <3>2, <3>3
  <2>q. QED BY <2>1, <2>2
<1>3. AllSettled' /\ NoneFilled'
    BY <1>1, <1>2 DEF PromptInv, AllSettled, NoneFilled
<1>4. KnownOnly' /\ Submitted' /\ BuysFull' /\ SellsCounted'
    BY <1>1 DEF PromptInv, KnownOnly, Submitted, BuysFull, SellsCounted, Rolling, Deploying
<1>q. QED BY <1>3, <1>4 DEF Prompted

\* Every step of a basket with a prompt broker keeps the invariant.
LEMMA PromptPreserved ==
    ASSUME prompt
    PROVE  PromptInv /\ [Next]_vars => PromptInv'
<1> SUFFICES ASSUME PromptInv, [Next]_vars PROVE PromptInv'
    OBVIOUS
<1>1. RollbackInv'
    BY RollbackPreserved DEF PromptInv
<1>2. CASE \/ PollPositions \/ PollOrders \/ PollFails \/ RuntimeChanges
           \/ UNCHANGED vars
  <2>1. UNCHANGED <<order, undo, pc, side, todo, ids, undoIds, counted>>
      BY <1>2 DEF PollPositions, PollOrders, PollFails, RuntimeChanges, vars, kite, control
  <2>q. QED BY <1>1, <2>1 DEF Prompted, PromptInv, AllSettled, KnownOnly, Submitted, BuysFull,
           SellsCounted, NoneFilled, Rolling, Deploying, Phase
<1>3. CASE \E l \in Legs : Kite(l)
    BY <1>3 DEF Kite, PromptInv, AllSettled
<1>q. QED BY <1>1, <1>2, <1>3, PlacePrompted, ReadPrompted, StopPrompted, ClosePrompted
          DEF Next, Step, PromptInv, Prompted

\* A basket starts with nothing submitted.
LEMMA PromptInit == Init => PromptInv
    BY RollbackInit, BasketAssumption DEF Init, PromptInv, AllSettled, KnownOnly, Submitted,
       BuysFull, SellsCounted, NoneFilled, Rolling, Deploying, Phase, NoOrder

\* What the broker is like does not change while a basket is deployed.
LEMMA PromptStays == [Next]_vars => prompt' = prompt
<1> SUFFICES ASSUME [Next]_vars PROVE prompt' = prompt
    OBVIOUS
<1>1. CASE \E l \in Legs : PlaceLeg(l) \/ CloseLeg(l) \/ Kite(l)
    BY <1>1 DEF PlaceLeg, CloseLeg, Kite, account
<1>2. CASE \/ PhasePlaced \/ PhaseFilled \/ PhaseShort \/ AwaitAgain \/ Deadline \/ Continue
           \/ PhaseClosed \/ CloseConfirmed \/ CloseUncertain \/ AwaitFails
    BY <1>2 DEF PhasePlaced, PhaseFilled, PhaseShort, AwaitAgain, Deadline, Continue, PhaseClosed,
       CloseConfirmed, CloseUncertain, AwaitFails, account
<1>3. CASE StopFailed \/ StopUnknown \/ StopShort \/ Capture \/ Attend
    BY <1>3 DEF StopFailed, StopUnknown, StopShort, CancelPhase, Capture, Attend, account
<1>4. CASE PollPositions \/ PollOrders \/ PollFails \/ RuntimeChanges \/ UNCHANGED vars
    BY <1>4 DEF PollPositions, PollOrders, PollFails, RuntimeChanges, vars, account
<1>q. QED BY <1>1, <1>2, <1>3, <1>4 DEF Next, Step

\* With a broker that settles IOC orders before it answers, PlaceBasket never
\* leaves a short fill without all of its protective longs, whatever fails,
\* whichever orders fill in part and whenever the account's state changes.
THEOREM ShortsAreCovered == Spec => []ShortsCovered
<1> DEFINE Inv == RollbackInv /\ (prompt => PromptInv)
<1>1. Init => Inv
    BY PromptInit, RollbackInit
<1>2. Inv /\ [Next]_vars => Inv'
    BY PromptPreserved, PromptStays, RollbackPreserved
<1>3. Inv => ShortsCovered
    BY PromptIsCovered DEF ShortsCovered
<1>q. QED BY <1>1, <1>2, <1>3, PTL DEF Spec

-------------------------------------------------------------------------------
(* COMPLETE, whatever the broker does.                                        *)

Filled(legs) == \A l \in legs : order[l].status = "complete" /\ order[l].filled = Quantity[l]

\* What is placed of a phase, and that the shorts are placed after every long is filled.
Bought ==
    /\ pc = "place" => Phase \subseteq ids \cup todo
    /\ pc = "await" => Phase \subseteq ids
    /\ pc = "continue" => side = "BUY"
    /\ pc = "continue" \/ (Deploying /\ side = "SELL") => Filled(Buys)

Completed ==
    result = "COMPLETE" => pc = "done" /\ Filled(Legs) /\ \A l \in Legs : undo[l].status = "none"

FillInv == RollbackInv /\ NoneFilled /\ Bought /\ Completed

\* An order that is filled is not live, so neither a cancellation nor Kite changes it.
LEMMA CancelFilled ==
    ASSUME RollbackInv, NEW after, CancelPhase(after), NEW legs \in SUBSET Legs, Filled(legs)
    PROVE  Filled(legs)'
<1>1. \A l \in legs : order[l].status # "live"
    BY DEF Filled
<1>2. \A l \in legs : order'[l] = order[l]
    BY <1>1 DEF CancelPhase
<1>q. QED BY <1>2 DEF Filled

\* The submissions and the stops.
LEMMA DeployFilled ==
    ASSUME FillInv,
           \/ \E l \in Legs : PlaceLeg(l)
           \/ PhasePlaced \/ AwaitFails \/ Continue \/ StopFailed \/ StopUnknown \/ StopShort \/ Capture
           \/ Attend
    PROVE  NoneFilled' /\ Bought' /\ Completed'
<1>1. UNCHANGED undo /\ pc # "done" /\ result # "COMPLETE" /\ result' # "COMPLETE" /\ Deploying
    BY DEF PlaceLeg, PhasePlaced, AwaitFails, Continue, StartRollback, StopFailed, StopUnknown, StopShort,
           Capture, Attend, CancelPhase, kite, FillInv, Completed, Deploying
<1>2. NoneFilled' /\ Completed'
    BY <1>1 DEF FillInv, NoneFilled, Completed
<1> SUFFICES Bought'
    BY <1>2
<1>3. ASSUME NEW l \in Legs, PlaceLeg(l) PROVE Bought'
  <2>1. l \in todo /\ pc = "place" /\ todo \subseteq Phase /\ side' = side /\ side \in {"BUY", "SELL"}
        /\ order \in [Legs -> Orders]
      BY <1>3 DEF PlaceLeg, FillInv, RollbackInv, InPhase, TypeOK
  <2>2. pc' \in {"place", "stopFailed"} /\ (pc' = "place" => ids' = ids \cup {l} /\ todo' = todo \ {l})
      BY <1>3, <2>1 DEF PlaceLeg
  <2>3. \A k \in Legs \ {l} : order'[k] = order[k]
      BY <1>3, <2>1 DEF PlaceLeg, Lost
  <2>4. CASE side = "BUY"
      BY <2>1, <2>2, <2>4 DEF FillInv, Bought, Phase
  <2>5. CASE side = "SELL"
    <3>1. Filled(Buys) /\ l \notin Buys
        BY <2>1, <2>5, BasketAssumption DEF FillInv, Bought, Deploying, Phase
    <3>2. Filled(Buys)'
        BY <2>3, <3>1 DEF Filled
    <3>q. QED BY <2>1, <2>2, <2>5, <3>2 DEF FillInv, Bought, Phase
  <2>q. QED BY <2>1, <2>4, <2>5
<1>4. CASE PhasePlaced \/ AwaitFails
    BY <1>4 DEF PhasePlaced, AwaitFails, kite, FillInv, Bought, Filled, Phase, Deploying
<1>5. CASE Continue
  <2>1. UNCHANGED order /\ Filled(Buys)
      BY <1>5 DEF Continue, kite, FillInv, Bought
  <2>2. pc' \in {"place", "close"} /\ (pc' = "place" => side' = "SELL" /\ todo' = Sells)
      BY <1>5 DEF Continue, StartRollback
  <2>q. QED BY <2>1, <2>2 DEF Bought, Filled, Phase, Deploying
<1>6. CASE StopFailed \/ StopUnknown
  <2>1. side' = side /\ pc' \in {"capture", "attend"} /\ pc \in {"stopFailed", "stopUnknown"}
      BY <1>6 DEF StopFailed, StopUnknown
  <2>2. side = "SELL" => Filled(Buys)
      BY <2>1 DEF FillInv, Bought, Deploying
  <2>3. side = "SELL" => Filled(Buys)'
      BY <1>6, <2>2, CancelFilled DEF StopFailed, StopUnknown, FillInv
  <2>q. QED BY <2>1, <2>3 DEF Bought
<1>7. CASE StopShort \/ Attend
    BY <1>7 DEF StopShort, StartRollback, Attend, Bought, Deploying
<1>8. CASE Capture
  <2>1. order' = order
      BY <1>8 DEF Capture, kite
  <2>2. pc' = "close" \/ (pc' = "attend" /\ side' = side)
      BY <1>8 DEF Capture, StartRollback
  <2>3. side = "SELL" => Filled(Buys)
      BY <1>8 DEF FillInv, Bought, Deploying, Capture
  <2>q. QED BY <2>1, <2>2, <2>3 DEF Bought, Filled, Deploying
<1>q. QED BY <1>3, <1>4, <1>5, <1>6, <1>7, <1>8

\* The reads of the order book: the last one completes the basket.
LEMMA ReadFilled ==
    ASSUME FillInv, PhaseFilled \/ PhaseShort \/ AwaitAgain \/ Deadline
    PROVE  NoneFilled' /\ Bought' /\ Completed'
<1>1. UNCHANGED <<undo, order, ids, side>> /\ pc = "await" /\ Deploying
    BY DEF PhaseFilled, PhaseShort, AwaitAgain, Deadline, kite, control, Deploying
<1>2. Phase \subseteq ids /\ result # "COMPLETE" /\ side \in {"BUY", "SELL"}
      /\ \A l \in Legs : undo[l].status = "none"
    BY <1>1 DEF FillInv, Bought, Completed, RollbackInv, TypeOK, NotYet, Rolling
<1>3. NoneFilled'
    BY <1>1 DEF FillInv, NoneFilled
<1>4. CASE PhaseFilled
  <2>1. PICK view \in Views : AllFilled(view)
      BY <1>4 DEF PhaseFilled
  <2>2. view = Phase
      BY <1>2, <2>1 DEF AllFilled, Terminal
  <2>3. Filled(Phase)
      BY <2>1, <2>2 DEF AllFilled, Filled
  <2>4. CASE side = "BUY"
    <3>1. pc' = "continue" /\ result' = result /\ Filled(Buys)'
        BY <1>1, <1>4, <2>3, <2>4 DEF PhaseFilled, Filled, Phase
    <3>q. QED BY <1>1, <1>2, <1>3, <2>4, <3>1 DEF Bought, Completed
  <2>5. CASE side = "SELL"
    <3>1. Filled(Buys) /\ Filled(Sells)
        BY <1>1, <2>3, <2>5 DEF FillInv, Bought, Phase
    <3>2. Filled(Legs)'
        BY <1>1, <3>1 DEF Filled
    <3>3. pc' = "done"
        BY <1>4, <2>5 DEF PhaseFilled
    <3>q. QED BY <1>1, <1>2, <1>3, <3>2, <3>3 DEF Bought, Completed, Deploying
  <2>q. QED BY <1>2, <2>4, <2>5
<1>5. CASE PhaseShort \/ AwaitAgain \/ Deadline
  <2>1. result' = result /\ pc' \in {"await", "stopShort"}
      BY <1>1, <1>5 DEF PhaseShort, AwaitAgain, Deadline, control
  <2>2. side = "SELL" => Filled(Buys)'
      BY <1>1 DEF FillInv, Bought, Filled
  <2>q. QED BY <1>1, <1>2, <1>3, <2>1, <2>2 DEF Bought, Completed, Phase
<1>q. QED BY <1>4, <1>5

\* The rollback, Kite and the rest of the service.
LEMMA RestFilled ==
    ASSUME FillInv,
           \/ \E l \in Legs : CloseLeg(l) \/ Kite(l)
           \/ PhaseClosed \/ CloseConfirmed \/ CloseUncertain
           \/ PollPositions \/ PollOrders \/ PollFails \/ RuntimeChanges \/ UNCHANGED vars
    PROVE  NoneFilled' /\ Bought' /\ Completed'
<1>0. order \in [Legs -> Orders] /\ undo \in [Legs -> Orders] /\ counted \in [Legs -> Nat]
    BY DEF FillInv, RollbackInv, TypeOK
<1>1. ASSUME NEW l \in Legs, CloseLeg(l) PROVE NoneFilled' /\ Bought' /\ Completed'
  <2>1. pc = "close" /\ UNCHANGED <<pc, result>>
      BY <1>1 DEF CloseLeg
  <2>2. \A k \in Legs : undo'[k] = undo[k] \/ undo'[k].status # "none"
    <3>1. undo' = undo \/ \E o : o.status # "none" /\ undo' = [undo EXCEPT ![l] = o]
      <4>1. CASE \E o \in Accepted(counted[l]) : undo' = [undo EXCEPT ![l] = o]
          BY <1>0, <4>1, AcceptedFilled
      <4>2. CASE undo' \in Lost(undo, l, counted[l])
          BY <4>2 DEF Lost, Live
      <4>q. QED BY <1>1, <4>1, <4>2 DEF CloseLeg
    <3>q. QED BY <1>0, <3>1
  <2>q. QED BY <2>1, <2>2 DEF FillInv, NoneFilled, Bought, Completed, Deploying
<1>2. ASSUME NEW l \in Legs, Kite(l) PROVE NoneFilled' /\ Bought' /\ Completed'
  <2>1. UNCHANGED <<pc, side, todo, ids, result>>
      BY <1>2 DEF Kite, control
  <2>2. \A k \in Legs : order'[k] = order[k] \/ order[k].status = "live"
      BY <1>0, <1>2 DEF Kite
  <2>3. \A k \in Legs : undo'[k] = undo[k] \/ (undo[k].status = "live" /\ undo'[k].status # "none")
      BY <1>0, <1>2, AdvancesTypes DEF Kite
  <2>4. \A k \in Legs : order[k].status = "complete" => order'[k] = order[k]
      BY <2>2
  <2>5. \A legs \in SUBSET Legs : Filled(legs) => Filled(legs)'
      BY <2>4 DEF Filled
  <2>6. Filled(Buys) => Filled(Buys)'
      BY <2>4 DEF Filled
  <2>7. Filled(Legs) => Filled(Legs)'
      BY <2>4 DEF Filled
  <2>8. NoneFilled'
      BY <2>3 DEF FillInv, NoneFilled
  <2>9. Completed'
      BY <2>1, <2>3, <2>7 DEF FillInv, Completed
  <2>q. QED BY <2>1, <2>6, <2>8, <2>9 DEF FillInv, Bought, Phase, Deploying
<1>3. CASE PhaseClosed \/ CloseConfirmed \/ CloseUncertain
  <2>1. /\ UNCHANGED <<order, undo>> /\ pc \in {"close", "awaitClose"}
        /\ pc' \in {"close", "awaitClose", "done"} /\ result' \in {result, "ATTENTION_REQUIRED"}
      BY <1>3 DEF PhaseClosed, CloseConfirmed, CloseUncertain, kite
  <2>q. QED BY <2>1 DEF FillInv, NoneFilled, Bought, Completed, Deploying
<1>4. CASE PollPositions \/ PollOrders \/ PollFails \/ RuntimeChanges \/ UNCHANGED vars
  <2>1. UNCHANGED <<order, undo, pc, side, todo, ids, result>>
      BY <1>4 DEF PollPositions, PollOrders, PollFails, RuntimeChanges, vars, kite, control
  <2>q. QED BY <2>1 DEF FillInv, NoneFilled, Bought, Completed, Filled, Phase, Deploying
<1>q. QED BY <1>1, <1>2, <1>3, <1>4

\* Every step keeps what COMPLETE rests on.
LEMMA FillPreserved == FillInv /\ [Next]_vars => FillInv'
<1> SUFFICES ASSUME FillInv, [Next]_vars PROVE FillInv'
    OBVIOUS
<1>1. RollbackInv'
    BY RollbackPreserved DEF FillInv
<1>q. QED BY <1>1, DeployFilled, ReadFilled, RestFilled DEF Next, Step, FillInv

LEMMA FillInit == Init => FillInv
    BY RollbackInit, BasketAssumption
       DEF Init, FillInv, NoneFilled, Bought, Completed, Deploying, Phase, NoOrder

LEMMA FillAlways == Spec => []FillInv
    BY FillInit, FillPreserved, PTL DEF Spec

\* COMPLETE is reported only of a basket whose every leg is filled in full and held,
\* whatever the broker settles late, loses or cancels.
THEOREM CompleteMeansFilled == Spec => []CompleteIsFilled
<1>1. FillInv => CompleteIsFilled
  <2> SUFFICES ASSUME FillInv, result = "COMPLETE", NEW l \in Legs PROVE Held(l) = Quantity[l]
      BY DEF CompleteIsFilled
  <2>1. order[l].filled = Quantity[l] /\ undo[l].filled = 0 /\ Quantity[l] \in Nat
      BY BasketAssumption DEF FillInv, Completed, Filled, NoneFilled
  <2>q. QED BY <2>1 DEF Held
<1>q. QED BY <1>1, FillAlways, PTL

-------------------------------------------------------------------------------
(* What is left when PlaceBasket returns, when the broker is prompt.          *)

\* The fills the rollback works from are the fills there are, longs included.
BuysCounted ==
    pc \in {"continue", "stopShort"} \/ Rolling \/ (Deploying /\ side = "SELL") =>
        \A b \in Buys : counted[b] = order[b].filled
OnlyCounted ==
    /\ \A l \in Legs : undo[l].status # "none" => counted[l] > 0
    /\ pc = "close" => \A l \in todo : counted[l] > 0
LongsNext ==
    Rolling /\ side = "BUY" =>
        \A b \in Buys : counted[b] > 0 => b \in todo \/ failed \/ b \in undoIds
Ended ==
    /\ Rolling => result = "ROLLED_BACK"
    /\ pc = "done" => result # "DEPLOYING"
    /\ pc = "done" /\ result = "ROLLED_BACK" => Flat

\* The attention is raised under the gate, so a poll that may lift it has read the
\* positions after the basket's last order: what it read as flat is still flat.
PolledFlat ==
    pc = "done" /\ result = "ATTENTION_REQUIRED" /\ polled = "flat" => \A l \in Legs : Held(l) = 0
Attended == pc = "done" /\ result = "ATTENTION_REQUIRED" /\ ~Flat => hard

Reckoned == BuysCounted /\ OnlyCounted /\ LongsNext
Finished == Ended /\ PolledFlat /\ Attended
DoneInv == PromptInv /\ Reckoned /\ Finished

\* While the phases are submitted nothing is rolled back yet, so only what the
\* longs fill and what is counted of them matters.
LEMMA DeployReckoned ==
    ASSUME prompt, DoneInv,
           \/ \E l \in Legs : PlaceLeg(l)
           \/ PhasePlaced \/ PhaseFilled \/ PhaseShort \/ AwaitAgain \/ Deadline \/ AwaitFails
           \/ Continue \/ StopFailed \/ StopUnknown \/ StopShort \/ Capture \/ Attend
    PROVE  Reckoned'
<1>1. /\ Deploying /\ undo' = undo /\ \A l \in Legs : undo[l].status = "none"
      /\ side \in {"BUY", "SELL"} /\ PromptInv /\ order \in [Legs -> Orders]
  <2>1. Deploying /\ undo' = undo
      BY DEF Deploying, PlaceLeg, PhasePlaced, PhaseFilled, PhaseShort, AwaitAgain, Deadline,
         AwaitFails, Continue, StopFailed, StopUnknown, StopShort, Capture, Attend, CancelPhase, kite
  <2>q. QED BY <2>1 DEF DoneInv, PromptInv, RollbackInv, NotYet, Deploying, Rolling, TypeOK
<1>2. /\ Rolling' => pc' = "close" /\ side' = "SELL" /\ todo' = {l \in Sells : counted'[l] > 0}
      /\ pc' \in {"close", "awaitClose"} <=> Rolling'
    BY <1>1 DEF Rolling, Deploying, PlaceLeg, PhasePlaced, PhaseFilled, PhaseShort, AwaitAgain,
       Deadline, AwaitFails, Continue, StartRollback, StopFailed, StopUnknown, StopShort, Capture,
       Attend, control
<1>3. OnlyCounted' /\ LongsNext'
    BY <1>1, <1>2 DEF OnlyCounted, LongsNext
<1> SUFFICES BuysCounted'
    BY <1>3 DEF Reckoned
<1>4. ASSUME NEW l \in Legs, PlaceLeg(l) PROVE BuysCounted'
  <2>1. /\ l \in Phase /\ pc = "place" /\ pc' \in {"place", "stopFailed"} /\ UNCHANGED <<side, counted>>
      BY <1>4 DEF PlaceLeg, DoneInv, PromptInv, RollbackInv, InPhase
  <2>2. \A k \in Legs \ {l} : order'[k] = order[k]
      BY <1>1, <1>4 DEF PlaceLeg, Lost
  <2>3. side = "SELL" => \A b \in Buys : order'[b] = order[b]
      BY <2>1, <2>2, BasketAssumption DEF Phase
  <2>q. QED BY <1>1, <2>1, <2>3 DEF DoneInv, Reckoned, BuysCounted, Rolling, Deploying
<1>5. ASSUME NEW view \in Views, Count(view), PhaseFilled \/ PhaseShort \/ Capture
      PROVE  BuysCounted'
  <2>1. order' = order
      BY <1>5 DEF PhaseFilled, PhaseShort, Capture, kite
  <2>2. side = "BUY" => \A b \in Buys : counted'[b] = order[b].filled
      BY <1>1, <1>5, CountAll DEF Phase
  <2>3. side = "SELL" => \A b \in Buys : counted'[b] = counted[b]
      BY <1>1, <1>5, CountAll, BasketAssumption DEF Phase
  <2>4. side = "SELL" => \A b \in Buys : counted[b] = order[b].filled
      BY <1>1 DEF DoneInv, Reckoned, BuysCounted
  <2>q. QED BY <1>1, <2>1, <2>2, <2>3, <2>4 DEF BuysCounted
<1>6. ~AwaitAgain /\ ~Deadline
    BY <1>1, CountAll DEF AwaitAgain, Deadline
<1>7. CASE PhasePlaced \/ AwaitFails \/ Continue \/ StopFailed \/ StopUnknown \/ StopShort \/ Attend
  <2>1. order' = order
      BY <1>1, <1>7, CancelIdle DEF PhasePlaced, AwaitFails, Continue, StopFailed, StopUnknown,
         StopShort, Attend, kite
  <2>2. counted' = counted
      BY <1>7 DEF PhasePlaced, AwaitFails, Continue, StopFailed, StopUnknown, StopShort, Attend,
         CancelPhase
  <2>3. \/ pc' \in {"await", "stopUnknown", "capture", "attend"} /\ side' = side
        \/ pc \in {"continue", "stopShort"}
        \/ pc' = "done"
      BY <1>7 DEF PhasePlaced, AwaitFails, Continue, StopFailed, StopUnknown, StopShort, Attend
  <2>q. QED BY <1>1, <2>1, <2>2, <2>3 DEF DoneInv, Reckoned, BuysCounted, Rolling, Deploying
<1>8. CASE Capture /\ pc' = "attend" /\ UNCHANGED <<side, counted>>
  <2>1. order' = order
      BY <1>8 DEF Capture, kite
  <2>q. QED BY <1>1, <1>8, <2>1 DEF DoneInv, Reckoned, BuysCounted, Rolling, Deploying
<1>q. QED BY <1>4, <1>5, <1>6, <1>7, <1>8 DEF PhaseFilled, PhaseShort, Capture

\* The rollback counts nothing anew.
LEMMA CloseReckoned ==
    ASSUME DoneInv, (\E l \in Legs : CloseLeg(l)) \/ PhaseClosed \/ CloseConfirmed \/ CloseUncertain
    PROVE  Reckoned'
<1>1. /\ UNCHANGED <<order, counted>> /\ Rolling /\ (Rolling' \/ pc' = "done")
      /\ undo \in [Legs -> Orders]
    BY DEF CloseLeg, PhaseClosed, CloseConfirmed, CloseUncertain, kite, Rolling, DoneInv, PromptInv,
       RollbackInv, TypeOK
<1>2. BuysCounted'
    BY <1>1 DEF DoneInv, Reckoned, BuysCounted, Rolling, Deploying
<1>3. ASSUME NEW l \in Legs, CloseLeg(l) PROVE OnlyCounted' /\ LongsNext'
  <2>1. /\ pc = "close" /\ pc' = pc /\ side' = side /\ l \in todo /\ todo' = todo \ {l}
        /\ counted[l] > 0
      BY <1>3 DEF CloseLeg, DoneInv, Reckoned, OnlyCounted
  <2>2. \A k \in Legs \ {l} : undo'[k] = undo[k]
      BY <1>1, <1>3 DEF CloseLeg, Lost
  <2>3. OnlyCounted'
      BY <1>1, <2>1, <2>2 DEF DoneInv, Reckoned, OnlyCounted
  <2>4. failed' \/ (undoIds' = undoIds \cup {l} /\ failed' = failed)
      BY <1>3 DEF CloseLeg
  <2>5. LongsNext'
      BY <1>1, <2>1, <2>4 DEF DoneInv, Reckoned, LongsNext, Rolling
  <2>q. QED BY <2>3, <2>5
<1>4. CASE PhaseClosed \/ CloseConfirmed \/ CloseUncertain
  <2>1. undo' = undo /\ undoIds' = undoIds
      BY <1>4 DEF PhaseClosed, CloseConfirmed, CloseUncertain, kite
  <2>2. \/ pc' = "close" /\ todo' = {l \in Buys : counted[l] > 0}
        \/ pc' \in {"awaitClose", "done"} /\ UNCHANGED <<side, todo, failed>>
      BY <1>4 DEF PhaseClosed, CloseConfirmed, CloseUncertain
  <2>3. OnlyCounted'
      BY <1>1, <2>1, <2>2 DEF DoneInv, Reckoned, OnlyCounted
  <2>4. LongsNext'
      BY <1>1, <2>1, <2>2 DEF DoneInv, Reckoned, LongsNext, Rolling
  <2>q. QED BY <1>2, <2>3, <2>4 DEF Reckoned
<1>q. QED BY <1>2, <1>3, <1>4 DEF Reckoned

\* A rollback whose last phase is confirmed leaves nothing of the basket.
LEMMA ConfirmedIsFlat ==
    ASSUME DoneInv, CloseConfirmed, side = "BUY"
    PROVE  Flat
<1> USE DEF DoneInv, PromptInv, RollbackInv
<1>1. /\ pc = "awaitClose" /\ Rolling /\ ~failed /\ todo = {}
      /\ \A b \in Buys : b \in undoIds => undo[b].status = "complete"
    BY DEF CloseConfirmed, ClosedForSure, Closing, Phase, Rolling, InPhase
<1>2. ASSUME NEW l \in Legs PROVE Held(l) = 0
  <2>1. counted[l] = order[l].filled
      BY <1>1, <1>2 DEF SellsCounted, Reckoned, BuysCounted
  <2>2. counted[l] > 0 => undo[l].status = "complete"
      BY <1>1, <1>2 DEF ShortsClosed, LongsGoing, Reckoned, LongsNext
  <2>3. counted[l] > 0 => undo[l].filled = counted[l]
      BY <2>2, <1>2 DEF Sized
  <2>4. ~(counted[l] > 0) => undo[l].filled = 0
      BY <1>2 DEF Reckoned, OnlyCounted, NoneFilled
  <2>5. counted[l] \in Nat /\ undo[l].filled \in Nat
      BY <1>2 DEF TypeOK, Orders
  <2>q. QED BY <2>1, <2>3, <2>4, <2>5 DEF Held
<1>q. QED BY <1>2 DEF AllSettled, Flat

\* PlaceBasket's steps: what it returns and what it leaves.
LEMMA StepFinished ==
    ASSUME prompt, DoneInv, Step \/ AwaitFails
    PROVE  Finished'
<1> USE DEF DoneInv
<1>1. pc # "done" /\ polled' = polled
    BY DEF Step, PlaceLeg, CloseLeg, PhasePlaced, PhaseFilled, PhaseShort, AwaitAgain, Deadline,
       AwaitFails, Continue, StopFailed, StopUnknown, StopShort, Capture, Attend, CancelPhase,
       PhaseClosed, CloseConfirmed, CloseUncertain, account
<1>3. Rolling' => result' = "ROLLED_BACK"
    BY DEF Rolling, Step, PlaceLeg, CloseLeg, PhasePlaced, PhaseFilled, PhaseShort, AwaitAgain,
       Deadline, AwaitFails, Continue, StopFailed, StopUnknown, StopShort, Capture, Attend,
       StartRollback, PhaseClosed, CloseConfirmed, CloseUncertain, control, Finished, Ended
<1>4. \/ pc' # "done"
      \/ PhaseFilled /\ result' = "COMPLETE"
      \/ (Attend \/ CloseUncertain) /\ result' = "ATTENTION_REQUIRED" /\ hard'
      \/ CloseConfirmed /\ side = "BUY" /\ result' = "ROLLED_BACK" /\ UNCHANGED <<order, undo>>
    BY <1>1 DEF Rolling, Step, PlaceLeg, CloseLeg, PhasePlaced, PhaseFilled, PhaseShort, AwaitAgain,
       Deadline, AwaitFails, Continue, StopFailed, StopUnknown, StopShort, Capture, Attend,
       StartRollback, PhaseClosed, CloseConfirmed, CloseUncertain, kite, control, Finished, Ended,
       PromptInv, RollbackInv, TypeOK
<1>2. PolledFlat'
  <2>1. (Attend \/ CloseUncertain) => polled = "no"
      BY DEF Attend, CloseUncertain, GateFree
  <2>q. QED BY <1>1, <1>4, <2>1 DEF PolledFlat
<1>5. CloseConfirmed /\ side = "BUY" /\ UNCHANGED <<order, undo>> => Flat'
    BY ConfirmedIsFlat DEF Flat, Held
<1>6. Ended' /\ Attended'
    BY <1>3, <1>4, <1>5 DEF Ended, Attended
<1>q. QED BY <1>2, <1>6 DEF Finished

\* The poll lifts the attention only from an account it has read as flat.
LEMMA RestFinished ==
    ASSUME DoneInv,
           PollPositions \/ PollOrders \/ PollFails \/ RuntimeChanges \/ UNCHANGED vars
    PROVE  Reckoned' /\ Finished'
<1>1. UNCHANGED <<order, undo, pc, side, todo, undoIds, counted, failed, result>>
    BY DEF PollPositions, PollOrders, PollFails, RuntimeChanges, vars, kite, control
<1>2. Reckoned'
    BY <1>1 DEF DoneInv, Reckoned, BuysCounted, OnlyCounted, LongsNext, Rolling, Deploying
<1>3. \A l \in Legs : Held(l)' = Held(l)
    BY <1>1 DEF Held
<1>4. Flat' <=> Flat
    BY <1>1, <1>3 DEF Flat
<1>5. Ended'
    BY <1>1, <1>4 DEF DoneInv, Finished, Ended, Rolling
<1>6. PolledFlat'
    BY <1>1, <1>3 DEF DoneInv, Finished, PolledFlat, PollPositions, PollOrders, PollFails, RuntimeChanges,
       vars, account
<1>7. pc = "done" /\ result = "ATTENTION_REQUIRED" /\ hard => hard' \/ Flat
    BY DEF DoneInv, Finished, PolledFlat, Flat, PollPositions, PollOrders, PollFails,
       RuntimeChanges, vars, account
<1>8. Attended'
    BY <1>1, <1>4, <1>7 DEF DoneInv, Finished, Attended
<1>q. QED BY <1>2, <1>5, <1>6, <1>8 DEF Finished

\* Every step of a basket with a prompt broker keeps the invariant.
LEMMA DonePreserved ==
    ASSUME prompt
    PROVE  DoneInv /\ [Next]_vars => DoneInv'
<1> SUFFICES ASSUME DoneInv, [Next]_vars PROVE DoneInv'
    OBVIOUS
<1>1. PromptInv'
    BY PromptPreserved DEF DoneInv
<1>2. ~\E l \in Legs : Kite(l)
    BY DEF DoneInv, PromptInv, AllSettled, Kite
<1>3. CASE Step \/ AwaitFails
  <2>1. Reckoned'
      BY <1>3, DeployReckoned, CloseReckoned DEF Step
  <2>q. QED BY <1>1, <1>3, <2>1, StepFinished DEF DoneInv
<1>4. CASE PollPositions \/ PollOrders \/ PollFails \/ RuntimeChanges \/ UNCHANGED vars
    BY <1>1, <1>4, RestFinished DEF DoneInv
<1>q. QED BY <1>2, <1>3, <1>4 DEF Next

LEMMA DoneInit == Init => DoneInv
    BY PromptInit, BasketAssumption
       DEF Init, DoneInv, Reckoned, BuysCounted, OnlyCounted, LongsNext, Finished, Ended,
           PolledFlat, Attended, Rolling, Deploying, NoOrder

LEMMA DoneAlways == Spec => [](prompt => DoneInv)
<1>1. Init => (prompt => DoneInv)
    BY DoneInit
<1>2. (prompt => DoneInv) /\ [Next]_vars => (prompt => DoneInv)'
    BY DonePreserved, PromptStays
<1>q. QED BY <1>1, <1>2, PTL DEF Spec

\* With a prompt broker, ROLLED_BACK is returned only when nothing of the basket is
\* left: every fill was counted, and every counted fill was undone in full.
THEOREM RollbackLeavesNothing == Spec => []RolledBackIsFlat
<1>1. (prompt => DoneInv) => RolledBackIsFlat
    BY DEF DoneInv, Finished, Ended, RolledBackIsFlat
<1>q. QED BY <1>1, DoneAlways, PTL

\* With a prompt broker, a basket that leaves fills it did not mean to leave has
\* raised a hard attention, and no poll lifts it while the fills are there, even
\* one that read the positions before the basket's last orders.
THEOREM AttentionStaysRaised == Spec => []AttentionIsRaised
<1>1. (prompt => DoneInv) => AttentionIsRaised
  <2> SUFFICES ASSUME prompt, DoneInv, pc = "done", result # "COMPLETE", ~Flat PROVE hard
      BY DEF AttentionIsRaised
  <2>1. result = "ATTENTION_REQUIRED"
      BY DEF DoneInv, PromptInv, RollbackInv, TypeOK, Finished, Ended
  <2>q. QED BY <2>1 DEF DoneInv, Finished, Attended
<1>q. QED BY <1>1, DoneAlways, PTL
===============================================================================
