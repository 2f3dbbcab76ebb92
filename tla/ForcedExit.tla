------------------------------ MODULE ForcedExit ------------------------------
(***************************************************************************)
(* The exits of one position of a locked account: service.go's             *)
(* liquidationPass and ExitPosition, the durable intent that each reserves *)
(* before it asks Kite, and the poll that reconciles or expires intents.   *)
(* LossLock models when liquidation runs and what its outcome does; here a *)
(* pass may start at any time.                                             *)
(*                                                                         *)
(* A request and a poll hold the gate from their first broker call to      *)
(* their end; a liquidation pass takes it only to touch the intents.  An   *)
(* autosliced exit is one order here: its children are recognised by their *)
(* parent wherever the parent is.                                          *)
(***************************************************************************)
EXTENDS Integers, Sequences

CONSTANTS
    Lots,         \* the position at the start
    LastDay,      \* bounds the clock
    MaxAsked,     \* bound on ExitPosition requests
    MaxFaults     \* bound on failures: broker, database, restarts, direct Kite trades,
                  \* exits acknowledged before the order book lists them

ASSUME ExitAssumption ==
    Lots \in Nat /\ LastDay \in Nat \ {0} /\ MaxAsked \in Nat /\ MaxFaults \in Nat

VARIABLES
    \* Kite and the world
    position,     \* its net quantity
    sold,         \* lots the account holder has sold in Kite, past the service
    exits,        \* the tagged exit orders, as Kite numbered them
    day, faults,
    \* Service and its database
    intent,       \* forcedExits and forcedExitAt of the position
    stored,       \* its liquidation_intents row
    gate,
    \* liquidationPass
    pass,         \* where it is
    copy,         \* the intent as the pass began
    active,       \* exits it read as live
    seen,         \* the copied intent's order was in that read
    \* ExitPosition
    request,      \* where it is
    asked,        \* requests so far
    \* of both
    order,        \* the quantity to exit, then the order ID returned
    \* history
    forgotten     \* an exit that Kite took and does not list yet has had no intent

kite    == <<position, sold, exits, day>>
intents == <<intent, stored>>
passing == <<pass, copy, active, seen>>
asking  == <<request, asked>>
moves   == <<kite, faults, intents, gate, passing, asking, order>>
vars    == <<moves, forgotten>>

\* at is the intent's day; 0 when forcedExitAt has none.
Intents == [kind : {"none", "pending", "order"}, id : Nat, at : Nat]
\* book: not yet in Kite's order book, in it, or of an earlier day.
Exits == [status : {"live", "complete", "cancelled"}, left : Nat, side : {1, -1},
          book : {"late", "listed", "past"}]

TypeOK ==
    /\ position \in Int /\ exits \in Seq(Exits)
    /\ {sold, day, faults, asked} \subseteq Nat /\ forgotten \in BOOLEAN
    /\ {intent, stored, copy} \subseteq Intents
    /\ gate \in {"free", "poll", "request"}
    /\ pass \in {"idle", "orders", "positions", "orphans", "clear", "reserve", "remember",
                 "submit", "answer", "save"}
    /\ request \in {"idle", "orders", "reserve", "submit", "answer"}
    /\ active \subseteq DOMAIN exits /\ seen \in BOOLEAN
    /\ order \in [pass : Int, request : Int]

BlankIntent == [kind |-> "", id |-> 0, at |-> 0]
NoIntent == [kind |-> "none", id |-> 0, at |-> 0]
Pending == [kind |-> "pending", id |-> 0, at |-> day]

Works == UNCHANGED faults
Fails == faults < MaxFaults /\ faults' = faults + 1
GateFree == gate = "free"

Listed == {i \in DOMAIN exits : exits[i].book = "listed"}
\* The same for a reading that knows only the intent's order, not the tag.
ListedKnown == {i \in Listed : exits[i].status = "live" /\ intent.id = i}
ListedLive == {i \in Listed : exits[i].status = "live"}
Side(quantity) == IF quantity > 0 THEN 1 ELSE -1
Size(quantity) == IF quantity > 0 THEN quantity ELSE -quantity

\* Kite takes an exit of that signed quantity and numbers it.
Takes(quantity, book) ==
    exits' = Append(exits, [status |-> "live", left |-> Size(quantity), side |-> Side(quantity),
                            book |-> book])

\* Broker.ExitPosition: the order is taken and its ID returned, or an error says nothing
\* of whether it was.  Either way Kite's order book may list it later.
Accepted(quantity) == (Works /\ Takes(quantity, "listed")) \/ (Fails /\ Takes(quantity, "late"))
Refused(quantity) ==
    Fails /\ (UNCHANGED exits \/ Takes(quantity, "listed") \/ Takes(quantity, "late"))

Init ==
    /\ position = Lots /\ sold = 0 /\ exits = <<>> /\ day = 1 /\ faults = 0 /\ forgotten = FALSE
    /\ intent = NoIntent /\ stored = NoIntent /\ gate = "free"
    /\ pass = "idle" /\ copy = NoIntent /\ active = {} /\ seen = FALSE
    /\ request = "idle" /\ asked = 0 /\ order = [pass |-> 0, request |-> 0]

-------------------------------------------------------------------------------
(* reconcileForcedExitIntentsLocked, of one read of the order book.           *)

Clear == (Works /\ intent' = NoIntent /\ stored' = NoIntent) \/ (Fails /\ UNCHANGED intents)

\* The order of the intent is found in the book, or the tag finds others.
Found == intent.kind = "order" /\ intent.id \in Listed

\* The intent takes over a live tagged order it did not know of.
Adopt ==
    \E i \in ListedLive :
        LET adopted == [kind |-> "order", id |-> i, at |-> IF intent.at = 0 THEN day ELSE intent.at] IN
        /\ intent' = adopted
        /\ (Works /\ stored' = adopted) \/ (Fails /\ UNCHANGED stored)

\* reconcileForcedExitIntentsLocked: the intent is judged by the tagged orders of the
\* position that the book lists.
Reconcile ==
    IF intent.kind = "none" \/ (Found /\ intent.id \in ListedLive)
    THEN Works /\ UNCHANGED intents
    ELSE IF Found THEN Clear
    ELSE IF Listed = {} THEN
        IF intent.kind = "pending" THEN Clear ELSE Works /\ UNCHANGED intents
    ELSE IF ListedLive # {} THEN Adopt ELSE Clear

-------------------------------------------------------------------------------
(* liquidationPass, under the operation mutex.                                *)

Leave == pass' = "idle" /\ copy' = NoIntent /\ active' = {} /\ seen' = FALSE
         /\ order' = [order EXCEPT !.pass = 0]
Proceed(label) == pass' = label /\ UNCHANGED <<copy, active, seen>>

PassStart ==
    /\ pass = "idle" /\ GateFree
    /\ pass' = "orders" /\ copy' = intent
    /\ UNCHANGED <<kite, faults, intents, gate, active, seen, asking, order>>

PassOrders ==
    /\ pass = "orders"
    /\ \/ /\ Works /\ pass' = "positions" /\ UNCHANGED <<copy, order>>
          /\ active' = ListedLive /\ seen' = (copy.kind = "order" /\ copy.id \in Listed)
       \/ Fails /\ Leave
    /\ UNCHANGED <<kite, intents, gate, asking>>

\* The copied intent's order is not in the book: it may yet fill.  Untracked asks
\* nothing of it.
Untracked == FALSE
Uncertain == copy.kind # "none" /\ ~seen

PassPositions ==
    /\ pass = "positions"
    /\ \/ /\ position # 0 /\ active = {} /\ ~Uncertain
          /\ Works /\ Proceed("reserve") /\ order' = [order EXCEPT !.pass = position]
       \/ position # 0 /\ (active # {} \/ Uncertain) /\ Works /\ Leave
       \/ position = 0 /\ active # {} /\ Works /\ Proceed("orphans") /\ UNCHANGED order
       \/ position = 0 /\ active = {} /\ seen /\ Works /\ Proceed("clear") /\ UNCHANGED order
       \/ position = 0 /\ active = {} /\ ~seen /\ Works /\ Leave
       \/ Fails /\ Leave
    /\ UNCHANGED <<kite, intents, gate, asking>>

\* The live exits of a position that is flat are cancelled, one call each.
Orphans ==
    /\ pass = "orphans"
    /\ \E reached \in SUBSET active :
          /\ (Works /\ reached = active) \/ Fails
          /\ exits' = [i \in DOMAIN exits |->
                         IF i \in reached /\ exits[i].status = "live"
                         THEN [exits[i] EXCEPT !.status = "cancelled"] ELSE exits[i]]
    /\ Leave
    /\ UNCHANGED <<position, sold, day, intents, gate, asking>>

PassClear ==
    /\ pass = "clear" /\ GateFree
    /\ IF intent.kind = "none" THEN Works /\ UNCHANGED intents ELSE Clear
    /\ Leave
    /\ UNCHANGED <<kite, gate, asking>>

\* The reservation: the row first, the memory under the gate.
Reserve ==
    /\ pass = "reserve"
    /\ \/ Works /\ stored' = Pending /\ Proceed("remember") /\ UNCHANGED order
       \/ Fails /\ Leave /\ UNCHANGED stored
    /\ UNCHANGED <<kite, intent, gate, asking>>

Remember ==
    /\ pass = "remember" /\ GateFree
    /\ intent' = Pending /\ Proceed("submit")
    /\ UNCHANGED <<kite, faults, stored, gate, asking, order>>

Submit ==
    /\ pass = "submit"
    /\ \/ /\ Accepted(order.pass) /\ Proceed("answer")
          /\ order' = [order EXCEPT !.pass = Len(exits')]
       \/ Refused(order.pass) /\ Leave
    /\ UNCHANGED <<position, sold, day, intents, gate, asking>>

\* forcedExits alone is written; the day is the reservation's, if it still has one.
Answer ==
    /\ pass = "answer" /\ GateFree
    /\ intent' = [intent EXCEPT !.kind = "order", !.id = order.pass]
    /\ Proceed("save")
    /\ UNCHANGED <<kite, faults, stored, gate, asking, order>>

Save ==
    /\ pass = "save"
    /\ \/ Works /\ stored' = [kind |-> "order", id |-> order.pass, at |-> day]
       \/ Fails /\ UNCHANGED stored
    /\ Leave
    /\ UNCHANGED <<kite, intent, gate, asking>>

-------------------------------------------------------------------------------
(* ExitPosition, with the gate held across its broker calls.                  *)

Return == request' = "idle" /\ gate' = "free" /\ order' = [order EXCEPT !.request = 0]
          /\ UNCHANGED asked
Continue(label) == request' = label /\ UNCHANGED <<asked, gate>>

\* The positions are read first, and the quantity is taken from them.
Ask ==
    /\ request = "idle" /\ GateFree /\ asked < MaxAsked
    /\ asked' = asked + 1 /\ gate' = "request" /\ request' = "orders"
    /\ order' = [order EXCEPT !.request = position]
    /\ UNCHANGED <<kite, faults, intents, passing>>

\* Then the orders.  An intent that survives its reconciliation is unresolved.
AskOrders ==
    /\ request = "orders"
    /\ Reconcile
    /\ IF order.request # 0 /\ intent'.kind = "none"
       THEN /\ Continue("reserve")
            /\ \E q \in 1 .. Size(order.request) :
                  order' = [order EXCEPT !.request = q * Side(order.request)]
       ELSE Return
    /\ UNCHANGED <<kite, passing>>

AskUnread ==
    /\ request = "orders" /\ Fails /\ Return
    /\ UNCHANGED <<kite, intents, passing>>

AskReserve ==
    /\ request = "reserve"
    /\ \/ Works /\ stored' = Pending /\ intent' = Pending /\ Continue("submit") /\ UNCHANGED order
       \/ Fails /\ Return /\ UNCHANGED intents
    /\ UNCHANGED <<kite, passing>>

AskSubmit ==
    /\ request = "submit"
    /\ \/ /\ Accepted(order.request) /\ Continue("answer")
          /\ order' = [order EXCEPT !.request = Len(exits')]
       \/ Refused(order.request) /\ Return
    /\ UNCHANGED <<position, sold, day, intents, passing>>

AskAnswer ==
    /\ request = "answer"
    /\ LET known == [kind |-> "order", id |-> order.request,
                     at |-> IF intent.at = 0 THEN day ELSE intent.at] IN
       /\ intent' = known
       /\ (Works /\ stored' = known) \/ (Fails /\ UNCHANGED stored)
    /\ Return
    /\ UNCHANGED <<kite, passing>>

-------------------------------------------------------------------------------
(* PollOnce: an intent of an earlier day is dropped, then the orders are read *)
(* and the rest reconciled.                                                   *)

\* The same with no day's end.
PollKeeps ==
    /\ GateFree /\ gate' = "poll" /\ Works
    /\ UNCHANGED <<kite, intents, passing, asking, order>>

Poll ==
    /\ GateFree
    /\ \/ intent.at \in 1 .. day - 1 /\ Clear /\ gate' = IF faults' = faults THEN "poll" ELSE "free"
       \/ intent.at \notin 1 .. day - 1 /\ Works /\ UNCHANGED intents /\ gate' = "poll"
    /\ UNCHANGED <<kite, passing, asking, order>>

PollOrders ==
    /\ gate = "poll" /\ Reconcile /\ gate' = "free"
    /\ UNCHANGED <<kite, passing, asking, order>>

PollUnread ==
    /\ gate = "poll" /\ Fails /\ gate' = "free"
    /\ UNCHANGED <<kite, intents, passing, asking, order>>

-------------------------------------------------------------------------------
(* Restart, Kite and the clock.                                               *)

\* New loads the row; every goroutine is gone.
Restart ==
    /\ Fails
    /\ intent' = stored /\ gate' = "free"
    /\ pass' = "idle" /\ copy' = NoIntent /\ active' = {} /\ seen' = FALSE
    /\ request' = "idle" /\ order' = [pass |-> 0, request |-> 0]
    /\ UNCHANGED <<kite, stored, asked>>

Fill(i) ==
    /\ exits[i].status = "live"
    /\ position' = position - exits[i].side
    /\ exits' = [exits EXCEPT ![i].left = @ - 1,
                              ![i].status = IF exits[i].left = 1 THEN "complete" ELSE "live"]
    /\ UNCHANGED <<sold, day, faults, intents, gate, passing, asking, order>>

\* A market-protected exit may end unfilled.
Unfilled(i) ==
    /\ exits[i].status = "live" /\ Fails
    /\ exits' = [exits EXCEPT ![i].status = "cancelled"]
    /\ UNCHANGED <<position, sold, day, intents, gate, passing, asking, order>>

List(i) ==
    /\ exits[i].book = "late"
    /\ exits' = [exits EXCEPT ![i].book = "listed"]
    /\ UNCHANGED <<position, sold, day, faults, intents, gate, passing, asking, order>>

\* The account holder buys or sells a lot in Kite itself, also while an exit is live.
DirectTrade ==
    /\ Fails
    /\ \/ position' = position + 1 /\ UNCHANGED sold
       \/ position' = position - 1 /\ sold' = sold + 1
    /\ UNCHANGED <<exits, day, intents, gate, passing, asking, order>>

\* A DAY order ends with its day, and the next day's book does not list it.  The
\* market is closed at midnight: no exit is being reserved, submitted or saved.
NewDay ==
    /\ day < LastDay /\ day' = day + 1
    /\ pass \notin {"remember", "submit", "answer", "save"}
    /\ request \notin {"submit", "answer"}
    /\ exits' = [i \in DOMAIN exits |->
                   [exits[i] EXCEPT !.book = "past",
                                    !.status = IF @ = "live" THEN "cancelled" ELSE @]]
    /\ UNCHANGED <<position, sold, faults, intents, gate, passing, asking, order>>

-------------------------------------------------------------------------------

Pass ==
    \/ PassOrders \/ PassPositions \/ Orphans \/ PassClear \/ Reserve \/ Remember \/ Submit
    \/ Answer \/ Save
Asking == AskOrders \/ AskUnread \/ AskReserve \/ AskSubmit \/ AskAnswer
Polling == PollOrders \/ PollUnread
Kite == \E i \in DOMAIN exits : Fill(i) \/ List(i)

Step ==
    \/ PassStart \/ Pass \/ Ask \/ Asking \/ Poll \/ Polling \/ Restart \/ Kite
    \/ (\E i \in DOMAIN exits : Unfilled(i)) \/ DirectTrade \/ NewDay

\* The order whose ID the caller of Broker.ExitPosition has and has not put down yet.
Answering(i) ==
    (pass = "answer" /\ order.pass = i) \/ (request = "answer" /\ order.request = i)

\* History: Kite works on an exit that neither its order book nor an intent shows.
Unaccounted ==
    \E i \in DOMAIN exits :
        exits[i].status = "live" /\ exits[i].book = "late" /\ intent.kind = "none" /\ ~Answering(i)

Next == Step /\ forgotten' = (forgotten \/ Unaccounted')

Spec == Init /\ [][Next]_vars

\* The account stays locked, so polls and liquidation passes come again and
\* again, and none waits for the gate for ever; broker calls return; a market
\* order fills.
FairSpec ==
    /\ Spec
    /\ SF_moves(PassStart) /\ SF_moves(Pass) /\ WF_moves(Asking) /\ SF_moves(Poll)
    /\ WF_moves(Polling) /\ WF_moves(Kite)

-------------------------------------------------------------------------------
(* Properties.                                                                *)

\* At most one exit of the position is unfinished.
OneExit ==
    \A i, j \in DOMAIN exits : exits[i].status = "live" /\ exits[j].status = "live" => i = j

\* While only liquidation exits, at most one exit of the position is unfinished, whatever
\* fails, restarts or trades beside it: a duplicate would be the start of a reverse
\* position.  It holds until Kite works on an exit that neither its order book shows nor
\* an intent remembers, which one lost answer is enough for (OneExitAtATime).
OneExitWhileRemembered == asked = 0 /\ ~forgotten => OneExit

\* As long as that is so liquidation never exits a long position past flat, but for what
\* the account holder sells by hand beside it.
LiquidationNeverReverses == asked = 0 /\ ~forgotten => position >= -sold

\* Nor does the service together with a risk-reducing exit that the user asks for,
\* "not exceeding the open quantity" (the comment of ExitPosition).
NeverReversed == position >= -sold

\* Liquidation "will not submit a duplicate while that intent is absent from the order
\* book or otherwise uncertain" (PRODUCT.md).
OneExitAtATime == asked = 0 => OneExit

\* The intent names an order of an earlier day.  Undated: and has no day of its own, so
\* that no poll finds the order and none expires the intent.
PastIntent == intent.kind = "order" /\ exits[intent.id].book = "past"
Undated == PastIntent /\ intent.at = 0

\* Every open position of a locked account is exited in the end, or its intent has
\* lost its day (service.go:1348 beside a poll that cleared the reservation).
ExitsEnd == position # 0 ~> position = 0 \/ Undated

\* "unresolved DAY intents from an earlier IST date are expired after a fresh
\* authenticated orders/positions poll" (PRODUCT.md).
DayIntentsExpire == PastIntent ~> ~PastIntent
===============================================================================
