---------------------------- MODULE ForcedExitProofs ----------------------------
(***************************************************************************)
(* The exits of one position, for any size of it, any number of requests,  *)
(* failures and days: the types, and what keeps liquidation from asking    *)
(* for the same exit twice.                                                *)
(***************************************************************************)
EXTENDS ForcedExit, SequenceTheorems, TLAPS

Live == {i \in DOMAIN exits : exits[i].status = "live"}
Late == {i \in DOMAIN exits : exits[i].book = "late"}

\* A liquidation pass that has decided to exit, and has not yet asked Kite.
SettingOut == {"reserve", "remember", "submit"}

-------------------------------------------------------------------------------
(* Types.                                                                     *)

\* An exit that is live has lots left, and one that is set out for has some; an order
\* ID that is about to be recorded is the ID of an exit.
Numbered ==
    /\ \A i \in Live : exits[i].left # 0
    /\ pass \in SettingOut => order.pass # 0
    /\ request \in {"reserve", "submit"} => order.request # 0
    /\ pass \in {"answer", "save"} => order.pass \in DOMAIN exits
    /\ request = "answer" => order.request \in DOMAIN exits

Typed == TypeOK /\ Numbered

\* The exits are a sequence of records.
LEMMA ExitsTypes ==
    ASSUME TypeOK
    PROVE  /\ Len(exits) \in Nat /\ DOMAIN exits = 1 .. Len(exits)
           /\ \A i \in DOMAIN exits : exits[i] \in Exits
<1>1. exits \in Seq(Exits)
    BY DEF TypeOK
<1>q. QED BY <1>1, LenProperties, ElementOfSeq

\* A function on the indices of the exits is a sequence of as many.
LEMMA SameLength ==
    ASSUME TypeOK, NEW f, f \in [DOMAIN exits -> Exits]
    PROVE  f \in Seq(Exits) /\ DOMAIN f = DOMAIN exits /\ Len(f) = Len(exits)
<1>1. Len(exits) \in Nat /\ DOMAIN exits = 1 .. Len(exits)
    BY ExitsTypes
<1>2. f \in Seq(Exits)
    BY <1>1, SeqDef
<1>3. DOMAIN f = DOMAIN exits
    OBVIOUS
<1>4. Len(f) \in Nat /\ DOMAIN f = 1 .. Len(f)
    BY <1>2, LenProperties
<1>q. QED BY <1>1, <1>2, <1>3, <1>4

\* Kite takes an exit: the others stay what they were.
LEMMA TakesFacts ==
    ASSUME TypeOK, NEW quantity \in Int, NEW book \in {"late", "listed", "past"},
           Takes(quantity, book)
    PROVE  /\ exits' \in Seq(Exits) /\ Len(exits') \in Nat /\ Len(exits') \notin DOMAIN exits
           /\ DOMAIN exits' = DOMAIN exits \cup {Len(exits')}
           /\ \A i \in DOMAIN exits : exits'[i] = exits[i]
           /\ exits'[Len(exits')].status = "live" /\ exits'[Len(exits')].book = book
           /\ exits'[Len(exits')].left = Size(quantity)
           /\ exits'[Len(exits')].side = Side(quantity)
<1> DEFINE e == [status |-> "live", left |-> Size(quantity), side |-> Side(quantity), book |-> book]
<1>1. exits \in Seq(Exits) /\ e \in Exits /\ exits' = Append(exits, e)
    BY DEF TypeOK, Takes, Size, Side, Exits
<1>2. e.status = "live" /\ e.book = book /\ e.left = Size(quantity) /\ e.side = Side(quantity)
    OBVIOUS
<1> HIDE DEF e
<1>3. exits' \in Seq(Exits) /\ Len(exits') = Len(exits) + 1
      /\ (\A i \in 1 .. Len(exits) : exits'[i] = exits[i]) /\ exits'[Len(exits) + 1] = e
    BY <1>1, AppendProperties
<1>4. DOMAIN exits' = 1 .. Len(exits') /\ DOMAIN exits = 1 .. Len(exits) /\ Len(exits) \in Nat
    BY <1>1, <1>3, LenProperties
<1>q. QED BY <1>2, <1>3, <1>4

\* What a step makes of the exits is of their type, and forgets none of them.
ExitsTyped ==
    /\ exits' \in Seq(Exits) /\ DOMAIN exits \subseteq DOMAIN exits'
    /\ \A i \in DOMAIN exits' : exits'[i].status = "live" => exits'[i].left # 0

\* The faults are counted, and the intents are cleared, adopted or left, by the type.
LEMMA FaultTypes ==
    ASSUME TypeOK, Works \/ Fails
    PROVE  faults' \in Nat
<1>1. faults \in Nat
    BY DEF TypeOK
<1>q. QED BY <1>1 DEF Works, Fails

LEMMA ClearTypes ==
    ASSUME TypeOK, Clear
    PROVE  intent' \in Intents /\ stored' \in Intents /\ faults' \in Nat
<1>1. intent \in Intents /\ stored \in Intents /\ NoIntent \in Intents
    BY DEF TypeOK, NoIntent, Intents
<1>2. faults' \in Nat
    BY FaultTypes DEF Clear
<1>q. QED BY <1>1, <1>2 DEF Clear, intents

LEMMA ReconcileTypes ==
    ASSUME TypeOK, Reconcile
    PROVE  intent' \in Intents /\ stored' \in Intents /\ faults' \in Nat
<1>1. intent \in Intents /\ stored \in Intents /\ intent.at \in Nat /\ day \in Nat
    BY DEF TypeOK, Intents
<1>2. CASE Clear
    BY <1>2, ClearTypes
<1>3. CASE Works /\ UNCHANGED intents
    BY <1>1, <1>3, FaultTypes DEF intents
<1>4. CASE Adopt
  <2>1. PICK i \in ListedLive :
            LET adopted == [kind |-> "order", id |-> i, at |-> IF intent.at = 0 THEN day ELSE intent.at] IN
            /\ intent' = adopted
            /\ (Works /\ stored' = adopted) \/ (Fails /\ UNCHANGED stored)
      BY <1>4 DEF Adopt
  <2>2. i \in Nat
      BY ExitsTypes DEF ListedLive, Listed
  <2>3. intent' \in Intents
      BY <1>1, <2>1, <2>2 DEF Intents
  <2>4. stored' \in {intent', stored} /\ (Works \/ Fails)
      BY <2>1
  <2>q. QED BY <1>1, <2>3, <2>4, FaultTypes
<1>q. QED BY <1>2, <1>3, <1>4 DEF Reconcile

LEMMA PendingTypes == TypeOK => Pending \in Intents /\ NoIntent \in Intents
    BY DEF TypeOK, Pending, NoIntent, Intents

\* An exit that is submitted leaves the exits typed, and its ID names it.
LEMMA AcceptedTypes ==
    ASSUME Typed, NEW quantity \in Int, quantity # 0, Accepted(quantity) \/ Refused(quantity)
    PROVE  /\ ExitsTyped /\ faults' \in Nat
           /\ Accepted(quantity) => Len(exits') \in DOMAIN exits' /\ Len(exits') \in Int
<1>1. faults' \in Nat
    BY FaultTypes DEF Typed, Accepted, Refused
<1>2. CASE \E book \in {"late", "listed", "past"} : Takes(quantity, book)
  <2>1. PICK book \in {"late", "listed", "past"} : Takes(quantity, book)
      BY <1>2
  <2>2. Size(quantity) # 0
      BY DEF Size
  <2>q. QED BY <1>1, <2>1, <2>2, TakesFacts DEF Typed, Numbered, Live, ExitsTyped
<1>3. CASE UNCHANGED exits /\ ~Accepted(quantity)
    BY <1>1, <1>3 DEF Typed, TypeOK, Numbered, Live, ExitsTyped
<1>q. QED BY <1>2, <1>3 DEF Accepted, Refused

\* What Kite, the clock and a cancellation do to the exits.
LEMMA ChangedTypes ==
    ASSUME Typed, exits' \in [DOMAIN exits -> Exits],
           \A i \in DOMAIN exits : exits'[i].status = "live" =>
               exits[i].status = "live" /\ exits'[i].left # 0
    PROVE  ExitsTyped /\ DOMAIN exits' = DOMAIN exits
    BY SameLength DEF Typed, ExitsTyped

LEMMA OneChangedTypes ==
    ASSUME Typed, NEW i \in DOMAIN exits, NEW e \in Exits, exits' = [exits EXCEPT ![i] = e],
           e.status = "live" => exits[i].status = "live" /\ e.left # 0
    PROVE  ExitsTyped /\ DOMAIN exits' = DOMAIN exits
<1>1. exits' \in [DOMAIN exits -> Exits]
    BY ExitsTypes DEF Typed
<1>2. \A j \in DOMAIN exits : exits'[j] = IF j = i THEN e ELSE exits[j]
    OBVIOUS
<1>q. QED BY <1>1, <1>2, ChangedTypes DEF Typed, Numbered, Live

\* The quantity or order ID of a pass, or of a request, is written beside the other's.
LEMMA OrderTypes ==
    ASSUME TypeOK
    PROVE  /\ order.pass \in Int /\ order.request \in Int
           /\ \A n \in Int :
                 /\ [order EXCEPT !.pass = n] \in [pass : Int, request : Int]
                 /\ [order EXCEPT !.pass = n].pass = n
                 /\ [order EXCEPT !.pass = n].request = order.request
                 /\ [order EXCEPT !.request = n] \in [pass : Int, request : Int]
                 /\ [order EXCEPT !.request = n].request = n
                 /\ [order EXCEPT !.request = n].pass = order.pass
<1>1. order \in [pass : Int, request : Int]
    BY DEF TypeOK
<1>2. order.pass \in Int /\ order.request \in Int
    BY <1>1
<1>3. ASSUME NEW n \in Int
      PROVE  /\ [order EXCEPT !.pass = n] = [pass |-> n, request |-> order.request]
             /\ [order EXCEPT !.request = n] = [pass |-> order.pass, request |-> n]
    BY <1>1
<1>q. QED BY <1>2, <1>3

\* A pass that leaves has nothing to record.
LEMMA LeaveTypes ==
    ASSUME TypeOK, Leave
    PROVE  /\ pass' = "idle" /\ copy' \in Intents /\ active' = {} /\ seen' = FALSE
           /\ order' \in [pass : Int, request : Int] /\ order'.request = order.request
<1>1. order' = [order EXCEPT !.pass = 0] /\ copy' = NoIntent /\ 0 \in Int
    BY DEF Leave
<1>q. QED BY <1>1, OrderTypes, PendingTypes DEF Leave

\* The steps of a liquidation pass that ask Kite nothing keep the types.
LEMMA PassReadsTyped ==
    ASSUME Typed, PassStart \/ PassOrders \/ PassPositions \/ PassClear,
           forgotten' \in BOOLEAN
    PROVE  Typed'
<1> USE DEF Typed
<1>0. UNCHANGED <<kite, asking, gate>> /\ position \in Int
    BY DEF PassStart, PassOrders, PassPositions, PassClear, TypeOK
<1>1. CASE PassStart
    BY <1>1 DEF TypeOK, Numbered, Live, SettingOut, PassStart, kite, intents, asking
<1>2. CASE PassOrders
  <2>1. faults' \in Nat
      BY <1>2, FaultTypes DEF PassOrders
  <2>2. CASE Leave
      BY <1>0, <1>2, <2>1, <2>2, LeaveTypes
         DEF TypeOK, Numbered, Live, SettingOut, PassOrders, kite, intents, asking
  <2>3. CASE pass' = "positions" /\ UNCHANGED <<copy, order>> /\ active' = ListedLive
             /\ seen' = (copy.kind = "order" /\ copy.id \in Listed)
    <3>1. ListedLive \subseteq DOMAIN exits
        BY DEF ListedLive, Listed
    <3>q. QED BY <1>0, <1>2, <2>1, <2>3, <3>1
              DEF TypeOK, Numbered, Live, SettingOut, PassOrders, kite, intents, asking
  <2>q. QED BY <1>2, <2>2, <2>3 DEF PassOrders
<1>3. CASE PassPositions
  <2>1. faults' \in Nat
      BY <1>3, FaultTypes DEF PassPositions
  <2>2. CASE Leave
      BY <1>0, <1>3, <2>1, <2>2, LeaveTypes
         DEF TypeOK, Numbered, Live, SettingOut, PassPositions, kite, intents, asking
  <2>3. CASE position # 0 /\ Proceed("reserve") /\ order' = [order EXCEPT !.pass = position]
    <3>1. order' \in [pass : Int, request : Int] /\ order'.pass # 0 /\ order'.request = order.request
        BY <1>0, <2>3, OrderTypes
    <3>q. QED BY <1>0, <1>3, <2>1, <2>3, <3>1
              DEF TypeOK, Numbered, Live, SettingOut, PassPositions, Proceed, kite, intents, asking
  <2>4. CASE (Proceed("orphans") \/ Proceed("clear")) /\ UNCHANGED order
      BY <1>0, <1>3, <2>1, <2>4
         DEF TypeOK, Numbered, Live, SettingOut, PassPositions, Proceed, kite, intents, asking
  <2>q. QED BY <1>3, <2>2, <2>3, <2>4 DEF PassPositions
<1>4. CASE PassClear
  <2>1. intent' \in Intents /\ stored' \in Intents /\ faults' \in Nat
      BY <1>4, ClearTypes, FaultTypes DEF PassClear, TypeOK, intents
  <2>q. QED BY <1>0, <1>4, <2>1, LeaveTypes
            DEF TypeOK, Numbered, Live, SettingOut, PassClear, kite, asking
<1>q. QED BY <1>1, <1>2, <1>3, <1>4

\* So do those that ask, and record what it says.
LEMMA PassAsksTyped ==
    ASSUME Typed, Reserve \/ Remember \/ Submit \/ Answer \/ Save \/ Orphans,
           forgotten' \in BOOLEAN
    PROVE  Typed'
<1> USE DEF Typed
<1>0. UNCHANGED <<position, sold, day, asking, gate>> /\ Pending \in Intents
    BY PendingTypes DEF Reserve, Remember, Submit, Answer, Save, Orphans, kite
<1>1. CASE Reserve
  <2>1. faults' \in Nat
      BY <1>1, FaultTypes DEF Reserve
  <2>2. stored' \in Intents /\ UNCHANGED <<exits, intent>>
      BY <1>0, <1>1 DEF Reserve, TypeOK, kite
  <2>3. CASE Leave
      BY <1>0, <1>1, <2>1, <2>2, <2>3, LeaveTypes DEF TypeOK, Numbered, Live, SettingOut, asking
  <2>4. CASE Proceed("remember") /\ UNCHANGED order /\ pass = "reserve"
      BY <1>0, <2>1, <2>2, <2>4 DEF TypeOK, Numbered, Live, SettingOut, Proceed, asking
  <2>q. QED BY <1>1, <2>3, <2>4 DEF Reserve
<1>2. CASE Remember
    BY <1>0, <1>2 DEF TypeOK, Numbered, Live, SettingOut, Remember, Proceed, kite, asking
<1>3. CASE Submit
  <2>1. order.pass \in Int /\ order.pass # 0
      BY <1>3, OrderTypes DEF Numbered, SettingOut, Submit
  <2>2. ExitsTyped /\ faults' \in Nat
      BY <1>3, <2>1, AcceptedTypes DEF Submit
  <2>3. CASE Refused(order.pass) /\ Leave
      BY <1>0, <1>3, <2>2, <2>3, LeaveTypes
         DEF TypeOK, Numbered, Live, SettingOut, Submit, ExitsTyped, intents, asking
  <2>4. CASE Accepted(order.pass) /\ Proceed("answer") /\ order' = [order EXCEPT !.pass = Len(exits')]
    <3>1. order' \in [pass : Int, request : Int] /\ order'.pass \in DOMAIN exits'
          /\ order'.request = order.request
        BY <2>1, <2>4, AcceptedTypes, OrderTypes
    <3>q. QED BY <1>0, <1>3, <2>2, <2>4, <3>1
              DEF TypeOK, Numbered, Live, SettingOut, Submit, Proceed, ExitsTyped, intents, asking
  <2>q. QED BY <1>3, <2>3, <2>4 DEF Submit
<1>4. CASE Answer
  <2>1. order.pass \in DOMAIN exits /\ order.pass \in Nat /\ intent \in Intents
      BY <1>4, ExitsTypes DEF Answer, TypeOK, Numbered
  <2>2. intent' \in Intents
      BY <1>4, <2>1 DEF Answer, Intents
  <2>q. QED BY <1>0, <1>4, <2>1, <2>2
            DEF TypeOK, Numbered, Live, SettingOut, Answer, Proceed, kite, asking
<1>5. CASE Save
  <2>1. faults' \in Nat
      BY <1>5, FaultTypes DEF Save
  <2>2. order.pass \in Nat /\ day \in Nat
      BY <1>5, ExitsTypes DEF Save, TypeOK, Numbered
  <2>3. stored' \in Intents
      BY <1>5, <2>2 DEF Save, TypeOK, Intents
  <2>q. QED BY <1>0, <1>5, <2>1, <2>3, LeaveTypes
            DEF TypeOK, Numbered, Live, SettingOut, Save, kite, asking
<1>6. CASE Orphans
  <2>1. faults' \in Nat
      BY <1>6, FaultTypes DEF Orphans
  <2>2. PICK reached \in SUBSET active :
            exits' = [i \in DOMAIN exits |->
                        IF i \in reached /\ exits[i].status = "live"
                        THEN [exits[i] EXCEPT !.status = "cancelled"] ELSE exits[i]]
      BY <1>6 DEF Orphans
  <2>3. \A i \in DOMAIN exits : exits[i] \in Exits /\ [exits[i] EXCEPT !.status = "cancelled"] \in Exits
                                /\ [exits[i] EXCEPT !.status = "cancelled"].status = "cancelled"
      BY ExitsTypes DEF Exits
  <2>4. exits' \in [DOMAIN exits -> Exits]
      BY <2>2, <2>3
  <2>5. \A i \in DOMAIN exits : exits'[i].status = "live" => exits'[i] = exits[i]
      BY <2>2, <2>3
  <2>6. ExitsTyped /\ DOMAIN exits' = DOMAIN exits
      BY <2>4, <2>5, ChangedTypes DEF Numbered, Live
  <2>q. QED BY <1>0, <1>6, <2>1, <2>6, LeaveTypes
            DEF TypeOK, Numbered, Live, SettingOut, Orphans, ExitsTyped, intents, asking
<1>q. QED BY <1>1, <1>2, <1>3, <1>4, <1>5, <1>6

\* The steps of a request keep the types.
LEMMA RequestTyped ==
    ASSUME Typed, Ask \/ Asking,
           forgotten' \in BOOLEAN
    PROVE  Typed'
<1> USE DEF Typed
<1>0. UNCHANGED <<position, sold, day, passing>> /\ Pending \in Intents
      /\ order.request \in Int /\ order.pass \in Int /\ position \in Int /\ asked \in Nat
    BY PendingTypes, OrderTypes
       DEF TypeOK, Ask, Asking, AskOrders, AskUnread, AskReserve, AskSubmit, AskAnswer, kite
<1>1. Return => /\ request' = "idle" /\ gate' = "free" /\ UNCHANGED asked
                /\ order' \in [pass : Int, request : Int] /\ order'.pass = order.pass
  <2>1. 0 \in Int
      OBVIOUS
  <2>q. QED BY <2>1, OrderTypes DEF Return
<1>2. CASE Ask
  <2>1. order' \in [pass : Int, request : Int] /\ order'.pass = order.pass
      BY <1>0, <1>2, OrderTypes DEF Ask
  <2>2. asked' \in Nat
      BY <1>0, <1>2 DEF Ask
  <2>q. QED BY <1>0, <1>2, <2>1, <2>2 DEF TypeOK, Numbered, Live, SettingOut, Ask, kite, intents, passing
<1>3. CASE AskOrders
  <2>1. intent' \in Intents /\ stored' \in Intents /\ faults' \in Nat
      BY <1>3, ReconcileTypes DEF AskOrders
  <2>2. CASE Return
      BY <1>0, <1>1, <1>3, <2>1, <2>2 DEF TypeOK, Numbered, Live, SettingOut, AskOrders, kite, passing
  <2>3. CASE order.request # 0 /\ Continue("reserve")
             /\ \E q \in 1 .. Size(order.request) :
                   order' = [order EXCEPT !.request = q * Side(order.request)]
    <3>1. PICK q \in 1 .. Size(order.request) :
              order' = [order EXCEPT !.request = q * Side(order.request)]
        BY <2>3
    <3>2. q * Side(order.request) \in Int /\ q * Side(order.request) # 0
        BY <1>0 DEF Size, Side
    <3>3. order' \in [pass : Int, request : Int] /\ order'.pass = order.pass /\ order'.request # 0
        BY <3>1, <3>2, OrderTypes
    <3>q. QED BY <1>0, <1>3, <2>1, <2>3, <3>3
              DEF TypeOK, Numbered, Live, SettingOut, AskOrders, Continue, kite, passing
  <2>q. QED BY <1>3, <2>2, <2>3 DEF AskOrders
<1>4. CASE AskUnread
  <2>1. faults' \in Nat
      BY <1>4, FaultTypes DEF AskUnread
  <2>q. QED BY <1>0, <1>1, <1>4, <2>1
            DEF TypeOK, Numbered, Live, SettingOut, AskUnread, kite, intents, passing
<1>5. CASE AskReserve
  <2>1. faults' \in Nat
      BY <1>5, FaultTypes DEF AskReserve
  <2>2. intent' \in Intents /\ stored' \in Intents
      BY <1>0, <1>5 DEF AskReserve, TypeOK, intents
  <2>3. CASE Return
      BY <1>0, <1>1, <1>5, <2>1, <2>2, <2>3
         DEF TypeOK, Numbered, Live, SettingOut, AskReserve, kite, passing
  <2>4. CASE Continue("submit") /\ UNCHANGED order
      BY <1>0, <1>5, <2>1, <2>2, <2>4
         DEF TypeOK, Numbered, Live, SettingOut, AskReserve, Continue, kite, passing
  <2>q. QED BY <1>5, <2>3, <2>4 DEF AskReserve
<1>6. CASE AskSubmit
  <2>1. order.request # 0
      BY <1>6 DEF Numbered, AskSubmit
  <2>2. ExitsTyped /\ faults' \in Nat
      BY <1>0, <1>6, <2>1, AcceptedTypes DEF AskSubmit
  <2>3. CASE Refused(order.request) /\ Return
      BY <1>0, <1>1, <1>6, <2>2, <2>3
         DEF TypeOK, Numbered, Live, SettingOut, AskSubmit, ExitsTyped, intents, passing
  <2>4. CASE Accepted(order.request) /\ Continue("answer")
             /\ order' = [order EXCEPT !.request = Len(exits')]
    <3>1. order' \in [pass : Int, request : Int] /\ order'.request \in DOMAIN exits'
          /\ order'.pass = order.pass
        BY <1>0, <2>1, <2>4, AcceptedTypes, OrderTypes
    <3>q. QED BY <1>0, <1>6, <2>2, <2>4, <3>1
              DEF TypeOK, Numbered, Live, SettingOut, AskSubmit, Continue, ExitsTyped, intents, passing
  <2>q. QED BY <1>6, <2>3, <2>4 DEF AskSubmit
<1>7. CASE AskAnswer
  <2>1. order.request \in Nat /\ intent.at \in Nat /\ day \in Nat
      BY <1>7, ExitsTypes DEF AskAnswer, TypeOK, Numbered, Intents
  <2>2. PICK known : /\ known = [kind |-> "order", id |-> order.request,
                                 at |-> IF intent.at = 0 THEN day ELSE intent.at]
                     /\ intent' = known
                     /\ (Works /\ stored' = known) \/ (Fails /\ UNCHANGED stored)
      BY <1>7 DEF AskAnswer
  <2>3. known \in Intents
      BY <2>1, <2>2 DEF Intents
  <2>4. intent' \in Intents /\ stored' \in Intents /\ faults' \in Nat
      BY <2>2, <2>3, FaultTypes DEF TypeOK
  <2>q. QED BY <1>0, <1>1, <1>7, <2>4
            DEF TypeOK, Numbered, Live, SettingOut, AskAnswer, kite, passing
<1>q. QED BY <1>2, <1>3, <1>4, <1>5, <1>6, <1>7 DEF Asking

\* A fill writes two fields of an exit.
LEMMA FilledRecord ==
    ASSUME NEW x \in Exits, NEW status
    PROVE  [x EXCEPT !.left = @ - 1, !.status = status]
               = [status |-> status, left |-> x.left - 1, side |-> x.side, book |-> x.book]
<1> DEFINE e == [x EXCEPT !.left = @ - 1, !.status = status]
<1>1. DOMAIN x = {"status", "left", "side", "book"}
    BY DEF Exits
<1>2. DOMAIN e = DOMAIN x /\ \A f \in DOMAIN x : e[f] = IF f = "status" THEN status
                                                      ELSE IF f = "left" THEN x.left - 1 ELSE x[f]
    BY <1>1
<1>3. e = [f \in DOMAIN x |-> e[f]]
    BY <1>2
<1> HIDE DEF e
<1>4. e = [status |-> e.status, left |-> e.left, side |-> e.side, book |-> e.book]
    BY <1>1, <1>2, <1>3
<1>5. e.status = status /\ e.left = x.left - 1 /\ e.side = x.side /\ e.book = x.book
    BY <1>1, <1>2
<1>6. e = [status |-> status, left |-> x.left - 1, side |-> x.side, book |-> x.book]
    BY <1>4, <1>5
<1>q. QED BY <1>6 DEF e

\* The polls, a restart, Kite and the clock keep the types.
LEMMA WorldTyped ==
    ASSUME Typed, forgotten' \in BOOLEAN,
           \/ Poll \/ Polling \/ Restart \/ Kite \/ DirectTrade \/ NewDay
           \/ \E i \in DOMAIN exits : Unfilled(i)
    PROVE  Typed'
<1> USE DEF Typed
<1>0. /\ position \in Int /\ day \in Nat /\ Len(exits) \in Nat /\ DOMAIN exits = 1 .. Len(exits)
      /\ \A i \in DOMAIN exits : /\ exits[i] \in Exits /\ exits[i].left \in Nat /\ exits[i].side \in Int
                                 /\ exits[i].status = "live" => exits[i].left # 0
    BY ExitsTypes DEF TypeOK, Numbered, Live, Exits
<1>1. CASE Poll
  <2>1. intent' \in Intents /\ stored' \in Intents /\ faults' \in Nat
      BY <1>1, ClearTypes, FaultTypes DEF Poll, TypeOK, intents
  <2>q. QED BY <1>1, <2>1 DEF TypeOK, Numbered, Live, SettingOut, Poll, kite, passing, asking
<1>2. CASE Polling
  <2>1. intent' \in Intents /\ stored' \in Intents /\ faults' \in Nat
      BY <1>2, ReconcileTypes, FaultTypes DEF Polling, PollOrders, PollUnread, TypeOK, intents
  <2>q. QED BY <1>2, <2>1
            DEF TypeOK, Numbered, Live, SettingOut, Polling, PollOrders, PollUnread, kite, passing, asking
<1>3. CASE Restart
  <2>1. faults' \in Nat
      BY <1>3, FaultTypes DEF Restart
  <2>2. order' \in [pass : Int, request : Int] /\ copy' \in Intents
      BY <1>3, PendingTypes DEF Restart
  <2>q. QED BY <1>3, <2>1, <2>2 DEF TypeOK, Numbered, Live, SettingOut, Restart, kite
<1>4. ASSUME NEW i \in DOMAIN exits, NEW e \in Exits, exits' = [exits EXCEPT ![i] = e],
             e.status = "live" => exits[i].status = "live" /\ e.left # 0,
             position' \in Int, faults' \in Nat, UNCHANGED <<sold, day, intents, gate, passing, asking, order>>
      PROVE  Typed'
  <2>1. ExitsTyped /\ DOMAIN exits' = DOMAIN exits
      BY <1>4, OneChangedTypes
  <2>q. QED BY <1>4, <2>1 DEF TypeOK, Numbered, Live, SettingOut, ExitsTyped, intents, passing, asking
<1>5. ASSUME NEW i \in DOMAIN exits, Fill(i) PROVE Typed'
  <2> DEFINE e == [exits[i] EXCEPT !.left = @ - 1,
                                   !.status = IF exits[i].left = 1 THEN "complete" ELSE "live"]
  <2>1. exits' = [exits EXCEPT ![i] = e]
      BY <1>0, <1>5 DEF Fill
  <2>2. e = [status |-> IF exits[i].left = 1 THEN "complete" ELSE "live", left |-> exits[i].left - 1,
             side |-> exits[i].side, book |-> exits[i].book]
      BY <1>0, FilledRecord
  <2>3. exits[i].left - 1 \in Nat /\ (exits[i].left # 1 => exits[i].left - 1 # 0)
      BY <1>0, <1>5 DEF Fill
  <2>4. e \in Exits /\ (e.status = "live" => e.left # 0)
    <3> HIDE DEF e
    <3>1. exits[i].side \in {1, -1} /\ exits[i].book \in {"late", "listed", "past"}
        BY <1>0 DEF Exits
    <3>q. QED BY <2>2, <2>3, <3>1 DEF Exits
  <2> HIDE DEF e
  <2>5. position' \in Int /\ faults' \in Nat
      BY <1>0, <1>5 DEF Fill, TypeOK
  <2>q. QED BY <1>4, <1>5, <2>1, <2>4, <2>5 DEF Fill
<1>6. ASSUME NEW i \in DOMAIN exits, Unfilled(i) PROVE Typed'
  <2>1. [exits[i] EXCEPT !.status = "cancelled"] \in Exits
        /\ [exits[i] EXCEPT !.status = "cancelled"].status # "live"
      BY <1>0 DEF Exits
  <2>2. exits' = [exits EXCEPT ![i] = [exits[i] EXCEPT !.status = "cancelled"]]
      BY <1>0, <1>6 DEF Unfilled
  <2>3. faults' \in Nat
      BY <1>6, FaultTypes DEF Unfilled
  <2>q. QED BY <1>0, <1>4, <1>6, <2>1, <2>2, <2>3 DEF Unfilled
<1>7. ASSUME NEW i \in DOMAIN exits, List(i) PROVE Typed'
  <2>1. /\ [exits[i] EXCEPT !.book = "listed"] \in Exits
        /\ [exits[i] EXCEPT !.book = "listed"].status = exits[i].status
        /\ [exits[i] EXCEPT !.book = "listed"].left = exits[i].left
      BY <1>0 DEF Exits
  <2>2. exits' = [exits EXCEPT ![i] = [exits[i] EXCEPT !.book = "listed"]]
      BY <1>0, <1>7 DEF List
  <2>3. faults' \in Nat
      BY <1>7 DEF List, TypeOK
  <2>q. QED BY <1>0, <1>4, <1>7, <2>1, <2>2, <2>3 DEF List
<1>8. CASE DirectTrade
  <2>1. faults' \in Nat /\ position' \in Int /\ sold' \in Nat
      BY <1>0, <1>8, FaultTypes DEF DirectTrade, TypeOK
  <2>q. QED BY <1>8, <2>1 DEF TypeOK, Numbered, Live, SettingOut, DirectTrade, intents, passing, asking
<1>9. CASE NewDay
  <2>1. \A i \in DOMAIN exits : /\ exits'[i] = [exits[i] EXCEPT !.book = "past",
                                                  !.status = IF @ = "live" THEN "cancelled" ELSE @]
                                /\ exits'[i] \in Exits /\ exits'[i].status # "live"
      BY <1>0, <1>9 DEF NewDay, Exits
  <2>2. exits' \in [DOMAIN exits -> Exits]
      BY <1>9, <2>1 DEF NewDay
  <2>3. ExitsTyped /\ DOMAIN exits' = DOMAIN exits
      BY <2>1, <2>2, ChangedTypes
  <2>4. day' = day + 1
      BY <1>9 DEF NewDay
  <2>5. day' \in Nat
      BY <1>0, <2>4
  <2>q. QED BY <1>9, <2>3, <2>5
            DEF TypeOK, Numbered, Live, SettingOut, NewDay, ExitsTyped, intents, passing, asking
<1>q. QED BY <1>1, <1>2, <1>3, <1>5, <1>6, <1>7, <1>8, <1>9 DEF Kite

\* The types, in the initial state and after every step.
LEMMA TypesInit == Init => Typed
<1> SUFFICES ASSUME Init PROVE Typed
    OBVIOUS
<1>1. position \in Int /\ {sold, day, faults, asked} \subseteq Nat
    BY ExitAssumption DEF Init
<1>4. forgotten = FALSE
    BY DEF Init
<1>2. <<>> \in Seq(Exits) /\ DOMAIN <<>> = {}
    OBVIOUS
<1>3. NoIntent \in Intents /\ order \in [pass : Int, request : Int]
    BY DEF Init, NoIntent, Intents
<1>q. QED BY <1>1, <1>2, <1>3, <1>4 DEF Init, Typed, TypeOK, Numbered, Live, SettingOut

LEMMA TypesPreserved == Typed /\ [Next]_vars => Typed'
<1> SUFFICES ASSUME Typed, [Next]_vars PROVE Typed'
    OBVIOUS
<1>1. CASE UNCHANGED vars
    BY <1>1 DEF Typed, TypeOK, Numbered, Live, SettingOut, vars, moves, kite, intents, passing, asking
<1>2. CASE Next
  <2>1. Step /\ forgotten' = (forgotten \/ Unaccounted')
      BY <1>2 DEF Next
  <2>2. (forgotten \/ Unaccounted') \in BOOLEAN
      BY Zenon DEF Unaccounted
  <2>3. forgotten' \in BOOLEAN
      BY <2>1, <2>2, Zenon
  <2>q. QED BY <2>1, <2>3, PassReadsTyped, PassAsksTyped, RequestTyped, WorldTyped DEF Step, Pass
<1>q. QED BY <1>1, <1>2

LEMMA TypedAlways == Spec => []Typed
    BY TypesInit, TypesPreserved, PTL DEF Spec

\* The type invariant: the exits, the intents, the pass and the request keep their types.
THEOREM ForcedExitTypeCorrect == Spec => []TypeOK
<1>1. Typed => TypeOK
    BY DEF Typed
<1>q. QED BY <1>1, TypedAlways, PTL

-------------------------------------------------------------------------------
(* One exit at a time, while every exit that Kite works on is listed or        *)
(* remembered.                                                                *)
(*                                                                            *)
(* A second exit is asked for when a pass misses the first.  The pass reads   *)
(* the whole order book, so it misses an exit only while the book does, and   *)
(* then there is an intent: unless forgotten.  What remains to be seen is     *)
(* that the intent the pass copied is that exit's and not an older one's,     *)
(* which the book lists as ended.                                             *)

\* An exit that Kite works on and that its order book does not list yet.
Hidden == {i \in Live : exits[i].book = "late"}

Unasked == request = "idle" /\ gate # "request"

OneLive == \A i, j \in Live : i = j

\* An unfinished exit is today's, and what a sale has left is covered by the position.
Covered ==
    /\ position + sold >= 0
    /\ \A i \in Live : /\ exits[i].book # "past"
                       /\ exits[i].side = 1 => exits[i].left <= position + sold

\* What a pass has decided to exit is covered too, and no exit is unfinished, until it has
\* submitted its own.
SetOut ==
    /\ pass \in SettingOut => Live = {} /\ order.pass <= position + sold
    /\ pass \in {"answer", "save"} => Live \subseteq {order.pass}

\* An intent that names an order names the one that the book does not list.
Names(x) == x.kind = "order" => Hidden \subseteq {x.id}

Named ==
    /\ Names(intent) /\ Names(stored)
    /\ pass \in {"remember", "submit"} => stored.kind # "order"
    /\ pass = "submit" => intent.kind # "order"

\* A pass that has read the orders knows of every unfinished one, or knows that it may not.
Copied == pass = "orders" /\ Hidden # {} => copy.kind # "none" /\ Names(copy)
ReadAll == pass = "positions" => Uncertain \/ Live \subseteq active

ExitInv == Unasked /\ OneLive /\ Covered /\ SetOut /\ Named /\ Copied /\ ReadAll

\* A reconciliation leaves an intent, clears it, or names an exit that the book lists.
LEMMA ReconcileNames ==
    ASSUME Reconcile
    PROVE  \/ intent' \in {intent, NoIntent} /\ stored' \in {stored, NoIntent}
           \/ ListedLive # {}
    BY DEF Reconcile, Clear, Adopt, intents

\* The exits that a step leaves alone stay unfinished, or hidden.
LEMMA SameExits ==
    ASSUME UNCHANGED exits
    PROVE  Live' = Live /\ Hidden' = Hidden
    BY DEF Live, Hidden

\* The polls and a restart.
LEMMA PollsKeepOne ==
    ASSUME Typed, ExitInv, Poll \/ Polling \/ Restart
    PROVE  ExitInv'
<1>0. UNCHANGED kite /\ NoIntent.kind = "none"
    BY DEF Poll, Polling, PollOrders, PollUnread, Restart, NoIntent
<1>1. Live' = Live /\ Hidden' = Hidden /\ OneLive' /\ Covered'
    BY <1>0, SameExits DEF ExitInv, OneLive, Covered, kite
<1>2. CASE Restart
  <2>1. pass' = "idle" /\ request' = "idle" /\ gate' = "free" /\ intent' = stored /\ stored' = stored
      BY <1>2 DEF Restart
  <2>q. QED BY <1>1, <2>1
            DEF ExitInv, Unasked, SetOut, Named, Names, Copied, ReadAll, SettingOut
<1>3. CASE Poll \/ Polling
  <2>1. UNCHANGED <<position, sold, pass, copy, active, seen, request, order>> /\ gate' # "request"
      BY <1>3 DEF Poll, Polling, PollOrders, PollUnread, asking, passing, kite
  <2>2. Unasked' /\ SetOut' /\ ReadAll' /\ Copied'
      BY <1>1, <2>1 DEF ExitInv, Unasked, SetOut, ReadAll, Copied, Names, Uncertain
  <2>3. ASSUME intent' \in {intent, NoIntent}, stored' \in {stored, NoIntent} PROVE Named'
      BY <1>0, <1>1, <2>1, <2>3 DEF ExitInv, Named, Names
  <2>4. ASSUME ListedLive # {} PROVE Named'
    <3>1. Live # {} /\ Hidden = {}
        BY <2>4 DEF ExitInv, OneLive, ListedLive, Listed, Live, Hidden
    <3>2. pass \notin SettingOut
        BY <3>1 DEF ExitInv, SetOut
    <3>q. QED BY <1>1, <2>1, <3>1, <3>2 DEF Named, Names, SettingOut
  <2>5. Named'
      BY <1>3, <2>3, <2>4, ReconcileNames DEF Poll, Polling, PollOrders, PollUnread, Clear, intents
  <2>q. QED BY <1>1, <2>2, <2>5 DEF ExitInv
<1>q. QED BY <1>2, <1>3

\* A pass that leaves decides nothing.
LEMMA LeaveKeeps ==
    ASSUME ExitInv, UNCHANGED <<exits, position, sold, request, gate>>, Leave,
           intent' \in {intent, NoIntent}, stored' \in {stored, NoIntent} \/ Names(stored)'
    PROVE  ExitInv'
<1>1. Live' = Live /\ Hidden' = Hidden /\ pass' = "idle" /\ NoIntent.kind = "none"
    BY SameExits DEF Leave, NoIntent
<1>2. Named'
    BY <1>1 DEF ExitInv, Named, Names
<1>q. QED BY <1>1, <1>2
          DEF ExitInv, Unasked, OneLive, Covered, SetOut, Copied, ReadAll, SettingOut

\* The reads of a pass.
LEMMA ReadsKeepOne ==
    ASSUME Typed, ExitInv, ~Unaccounted, PassStart \/ PassOrders \/ PassPositions \/ PassClear
    PROVE  ExitInv'
<1>0. /\ UNCHANGED <<exits, position, sold, request, gate>> /\ position \in Int /\ sold \in Nat
      /\ order \in [pass : Int, request : Int]
    BY DEF PassStart, PassOrders, PassPositions, PassClear, kite, asking, Typed, TypeOK
<1>1. Live' = Live /\ Hidden' = Hidden /\ Unasked' /\ OneLive' /\ Covered'
    BY <1>0, SameExits DEF ExitInv, Unasked, OneLive, Covered
<1>2. CASE PassStart
  <2>1. pass = "idle" /\ pass' = "orders" /\ copy' = intent /\ UNCHANGED <<intent, stored>>
      BY <1>2 DEF PassStart, intents
  <2>2. Hidden # {} => intent.kind # "none"
      BY <2>1 DEF Unaccounted, Hidden, Live, Answering, ExitInv, Unasked
  <2>q. QED BY <1>1, <2>1, <2>2
            DEF ExitInv, SetOut, Named, Names, Copied, ReadAll, SettingOut
<1>3. CASE PassOrders
  <2>0. pass = "orders" /\ UNCHANGED <<intent, stored>>
      BY <1>3 DEF PassOrders, intents
  <2>1. CASE Leave
      BY <1>0, <2>0, <2>1, LeaveKeeps
  <2>2. CASE /\ pass' = "positions" /\ UNCHANGED <<copy, order>> /\ active' = ListedLive
             /\ seen' = (copy.kind = "order" /\ copy.id \in Listed)
    <3>1. ASSUME Hidden # {} PROVE ReadAll'
      <4>1. copy.kind # "none" /\ (copy.kind = "order" => copy.id \in Hidden)
          BY <2>0, <3>1 DEF ExitInv, Copied, Names
      <4>2. Hidden \cap Listed = {}
          BY DEF Hidden, Listed
      <4>3. copy' = copy /\ copy.kind # "none" /\ ~seen'
          BY <2>2, <4>1, <4>2
      <4>4. Uncertain'
          BY <4>3 DEF Uncertain
      <4>q. QED BY <4>4 DEF ReadAll
    <3>2. ASSUME Hidden = {} PROVE ReadAll'
      <4>1. \A i \in DOMAIN exits : exits[i].book \in {"late", "listed", "past"}
          BY ExitsTypes DEF Typed, Exits
      <4>2. Live \subseteq ListedLive
          BY <3>2, <4>1 DEF ListedLive, Listed, Live, Hidden, ExitInv, Covered
      <4>q. QED BY <1>1, <2>2, <4>2 DEF ReadAll
    <3>q. QED BY <1>1, <2>0, <2>2, <3>1, <3>2
              DEF ExitInv, SetOut, Named, Names, Copied, SettingOut
  <2>q. QED BY <1>3, <2>1, <2>2 DEF PassOrders
<1>4. CASE PassPositions
  <2>0. pass = "positions" /\ UNCHANGED <<intent, stored>>
      BY <1>4 DEF PassPositions, intents
  <2>1. CASE Leave
      BY <1>0, <2>0, <2>1, LeaveKeeps
  <2>2. CASE active = {} /\ ~Uncertain
             /\ Proceed("reserve") /\ order' = [order EXCEPT !.pass = position]
    <3>1. Live = {} /\ pass' = "reserve"
        BY <2>0, <2>2 DEF ExitInv, ReadAll, Proceed
    <3>2. order'.pass <= position + sold
        BY <1>0, <2>2
    <3>3. SetOut' /\ Named' /\ Copied' /\ ReadAll'
        BY <1>0, <1>1, <2>0, <3>1, <3>2
           DEF ExitInv, SetOut, Named, Names, Copied, ReadAll, SettingOut
    <3>q. QED BY <1>1, <3>3 DEF ExitInv
  <2>3. CASE (Proceed("orphans") \/ Proceed("clear")) /\ UNCHANGED order
      BY <1>1, <2>0, <2>3 DEF Proceed, ExitInv, SetOut, Named, Names, Copied, ReadAll, SettingOut
  <2>q. QED BY <1>4, <2>1, <2>2, <2>3 DEF PassPositions
<1>5. CASE PassClear
    BY <1>0, <1>5, LeaveKeeps DEF PassClear, Clear, intents
<1>q. QED BY <1>2, <1>3, <1>4, <1>5

\* The reservation of an exit and the recording of its order ID.
LEMMA RecordsKeepOne ==
    ASSUME Typed, ExitInv, Reserve \/ Remember \/ Answer \/ Save
    PROVE  ExitInv'
<1>0. /\ UNCHANGED <<exits, position, sold, request, gate>>
      /\ Pending.kind = "pending" /\ intent \in Intents
    BY DEF Reserve, Remember, Answer, Save, kite, asking, Pending, Typed, TypeOK
<1>1. Live' = Live /\ Hidden' = Hidden /\ Unasked' /\ OneLive' /\ Covered'
    BY <1>0, SameExits DEF ExitInv, Unasked, OneLive, Covered
<1>2. CASE Reserve
  <2>1. CASE Leave /\ UNCHANGED <<intent, stored>>
      BY <1>0, <2>1, LeaveKeeps
  <2>2. CASE stored' = Pending /\ Proceed("remember") /\ UNCHANGED <<intent, order>> /\ pass = "reserve"
      BY <1>0, <1>1, <2>2
         DEF Proceed, ExitInv, SetOut, Named, Names, Copied, ReadAll, SettingOut
  <2>q. QED BY <1>2, <2>1, <2>2 DEF Reserve
<1>3. CASE Remember
  <2>1. pass = "remember" /\ pass' = "submit" /\ intent' = Pending /\ UNCHANGED <<stored, order>>
      BY <1>3 DEF Remember, Proceed
  <2>q. QED BY <1>0, <1>1, <2>1
            DEF ExitInv, SetOut, Named, Names, Copied, ReadAll, SettingOut
<1>4. CASE Answer
  <2>1. pass = "answer" /\ pass' = "save" /\ UNCHANGED <<stored, order>>
      BY <1>4 DEF Answer, Proceed
  <2>2. intent'.id = order.pass
      BY <1>0, <1>4 DEF Answer, Intents
  <2>3. Hidden \subseteq {order.pass}
      BY <2>1 DEF ExitInv, SetOut, Hidden
  <2>q. QED BY <1>1, <2>1, <2>2, <2>3
            DEF ExitInv, SetOut, Named, Names, Copied, ReadAll, SettingOut
<1>5. CASE Save
  <2>1. Hidden \subseteq {order.pass} /\ Names(stored)
      BY <1>5 DEF Save, ExitInv, SetOut, Named, Hidden
  <2>2. Names(stored)'
      BY <1>1, <1>5, <2>1 DEF Save, Names
  <2>q. QED BY <1>0, <1>5, <2>2, LeaveKeeps DEF Save
<1>q. QED BY <1>2, <1>3, <1>4, <1>5

\* Kite takes the exit that no other is unfinished beside, or does not.
LEMMA SubmitKeepsOne ==
    ASSUME Typed, ExitInv, Submit
    PROVE  ExitInv'
<1>0. /\ Live = {} /\ order.pass <= position + sold /\ intent.kind # "order" /\ stored.kind # "order"
      /\ position + sold >= 0 /\ request = "idle" /\ gate # "request"
    BY DEF Submit, ExitInv, Unasked, Covered, SetOut, Named, SettingOut
<1>1. /\ UNCHANGED <<position, sold, request, gate, intent, stored>>
      /\ order.pass \in Int /\ order.pass # 0 /\ order \in [pass : Int, request : Int]
    BY OrderTypes DEF Submit, asking, intents, Typed, TypeOK, Numbered, SettingOut
<1>2. CASE UNCHANGED exits /\ Leave
    BY <1>1, <1>2, LeaveKeeps
<1>3. ASSUME NEW book \in {"late", "listed"}, Takes(order.pass, book)
      PROVE  ExitInv'
  <2>1. /\ exits' \in Seq(Exits) /\ Len(exits') \in Nat /\ DOMAIN exits' = DOMAIN exits \cup {Len(exits')}
        /\ \A i \in DOMAIN exits : exits'[i] = exits[i]
        /\ exits'[Len(exits')].status = "live" /\ exits'[Len(exits')].book = book
        /\ exits'[Len(exits')].left = Size(order.pass) /\ exits'[Len(exits')].side = Side(order.pass)
      BY <1>1, <1>3, TakesFacts DEF Typed
  <2>2. Live' = {Len(exits')}
      BY <1>0, <2>1 DEF Live
  <2>3. Side(order.pass) = 1 => Size(order.pass) = order.pass
      BY <1>1 DEF Side, Size
  <2>4. Covered' /\ OneLive'
      BY <1>0, <1>1, <1>3, <2>1, <2>2, <2>3 DEF Covered, OneLive
  <2>5. \/ pass' = "idle"
        \/ pass' = "answer" /\ order' = [order EXCEPT !.pass = Len(exits')]
      BY DEF Submit, Leave, Proceed
  <2>6. pass' \in {"idle", "answer"} /\ (pass' = "answer" => order'.pass = Len(exits'))
    <3>1. Len(exits') \in Int
        BY <2>1
    <3>q. QED BY <2>5, <3>1, OrderTypes DEF Typed
  <2>7. SetOut' /\ Named' /\ Copied' /\ ReadAll'
      BY <1>0, <1>1, <2>2, <2>6 DEF SetOut, Named, Names, Copied, ReadAll, SettingOut
  <2>q. QED BY <1>0, <1>1, <2>4, <2>7 DEF ExitInv, Unasked
<1>q. QED BY <1>2, <1>3 DEF Submit, Accepted, Refused

\* A step that ends or lists exits, and starts none, and keeps what they have left covered.
LEMMA FewerKeepOne ==
    ASSUME Typed, Typed', ExitInv, UNCHANGED <<intent, stored, gate, request>>, Live' \subseteq Live,
           Hidden' \subseteq Hidden, Covered',
           \/ UNCHANGED <<pass, copy, active, seen, order>>
              /\ (Live # {} \/ position' + sold' >= position + sold)
           \/ pass' = "idle"
    PROVE  ExitInv'
<1>1. OneLive' /\ Unasked'
    BY DEF ExitInv, OneLive, Unasked
<1>2. CASE pass' = "idle"
    BY <1>1, <1>2 DEF ExitInv, SetOut, Named, Names, Copied, ReadAll, SettingOut
<1>3. CASE /\ UNCHANGED <<pass, copy, active, seen, order>>
           /\ Live # {} \/ position' + sold' >= position + sold
  <2>1. order.pass \in Int /\ {position, sold, position', sold'} \subseteq Int
      BY OrderTypes DEF Typed, TypeOK
  <2>2. SetOut'
      BY <1>3, <2>1 DEF ExitInv, SetOut
  <2>q. QED BY <1>1, <1>3, <2>2 DEF ExitInv, Named, Names, Copied, ReadAll, Uncertain
<1>q. QED BY <1>2, <1>3

\* Kite, the account holder, the clock and the cancellation of orphans.
LEMMA WorldKeepsOne ==
    ASSUME Typed, Typed', ExitInv,
           \/ Orphans \/ Kite \/ DirectTrade \/ NewDay
           \/ \E i \in DOMAIN exits : Unfilled(i)
    PROVE  ExitInv'
<1>0. /\ position \in Int /\ sold \in Nat
      /\ \A i \in DOMAIN exits : exits[i] \in Exits /\ exits[i].left \in Nat
    BY ExitsTypes DEF Typed, TypeOK, Exits
<1>1. ASSUME UNCHANGED <<position, sold>>, DOMAIN exits' = DOMAIN exits,
             \A i \in DOMAIN exits : exits'[i].status = "live" =>
                 /\ exits[i].status = "live" /\ exits'[i].left = exits[i].left
                 /\ exits'[i].side = exits[i].side /\ exits'[i].book \in {exits[i].book, "listed"}
      PROVE  Live' \subseteq Live /\ Hidden' \subseteq Hidden /\ Covered'
  <2>1. Live' \subseteq Live /\ Hidden' \subseteq Hidden
      BY <1>1 DEF Live, Hidden
  <2>q. QED BY <1>1, <2>1 DEF ExitInv, Covered, Live
<1>2. CASE Orphans
  <2>1. PICK reached \in SUBSET active :
            exits' = [i \in DOMAIN exits |->
                        IF i \in reached /\ exits[i].status = "live"
                        THEN [exits[i] EXCEPT !.status = "cancelled"] ELSE exits[i]]
      BY <1>2 DEF Orphans
  <2>2. \A i \in DOMAIN exits : exits'[i] = exits[i] \/ exits'[i].status = "cancelled"
      BY <1>0, <2>1 DEF Exits
  <2>3. DOMAIN exits' = DOMAIN exits
      BY <2>1
  <2>4. UNCHANGED <<position, sold, intent, stored, gate, request>> /\ pass' = "idle"
      BY <1>2 DEF Orphans, Leave, intents, asking
  <2>5. Live' \subseteq Live /\ Hidden' \subseteq Hidden /\ Covered'
      BY <1>1, <2>2, <2>3, <2>4
  <2>q. QED BY <2>4, <2>5, FewerKeepOne
<1>3. ASSUME NEW i \in DOMAIN exits, Fill(i) PROVE ExitInv'
  <2>1. Live = {i} /\ exits[i].book # "past" /\ (exits[i].side = 1 => exits[i].left <= position + sold)
      BY <1>3 DEF Fill, ExitInv, OneLive, Covered, Live
  <2>2. exits[i].left # 0 /\ exits[i].side \in {1, -1} /\ position + sold >= 0
      BY <1>0, <2>1 DEF Typed, Numbered, Exits, ExitInv, Covered
  <2>3. DOMAIN exits' = DOMAIN exits /\ \A j \in DOMAIN exits \ {i} : exits'[j] = exits[j]
      BY <1>3 DEF Fill
  <2>4. exits'[i] = [status |-> IF exits[i].left = 1 THEN "complete" ELSE "live",
                     left |-> exits[i].left - 1, side |-> exits[i].side, book |-> exits[i].book]
      BY <1>0, <1>3, FilledRecord DEF Fill
  <2>5. exits'[i].left = exits[i].left - 1 /\ exits'[i].side = exits[i].side /\ exits'[i].book = exits[i].book
      BY <2>4
  <2>6. /\ UNCHANGED <<sold, intent, stored, gate, request, pass, copy, active, seen, order>>
        /\ position' = position - exits[i].side
      BY <1>3 DEF Fill, intents, passing, asking
  <2>7. Live' \subseteq Live /\ Hidden' \subseteq Hidden
      BY <2>1, <2>3, <2>5 DEF Live, Hidden
  <2>8. position' + sold' >= 0 /\ (exits[i].side = 1 => exits[i].left - 1 <= position' + sold')
      BY <1>0, <2>1, <2>2, <2>6
  <2>9. Covered'
      BY <2>1, <2>5, <2>7, <2>8 DEF Covered
  <2>q. QED BY <2>1, <2>6, <2>7, <2>9, FewerKeepOne
<1>4. ASSUME NEW i \in DOMAIN exits, List(i) \/ Unfilled(i) PROVE ExitInv'
  <2>1. DOMAIN exits' = DOMAIN exits /\ \A j \in DOMAIN exits \ {i} : exits'[j] = exits[j]
      BY <1>4 DEF List, Unfilled
  <2>2. \/ exits'[i] = [exits[i] EXCEPT !.book = "listed"]
        \/ exits'[i] = [exits[i] EXCEPT !.status = "cancelled"]
      BY <1>4 DEF List, Unfilled
  <2>3. exits'[i].status = "live" =>
            /\ exits[i].status = "live" /\ exits'[i].left = exits[i].left
            /\ exits'[i].side = exits[i].side /\ exits'[i].book = "listed"
      BY <1>0, <2>2 DEF Exits
  <2>4. UNCHANGED <<position, sold, intent, stored, gate, request, pass, copy, active, seen, order>>
      BY <1>4 DEF List, Unfilled, intents, passing, asking
  <2>5. Live' \subseteq Live /\ Hidden' \subseteq Hidden /\ Covered'
      BY <1>1, <2>1, <2>3, <2>4
  <2>q. QED BY <1>0, <2>4, <2>5, FewerKeepOne
<1>5. CASE DirectTrade
  <2>0. UNCHANGED <<exits, intent, stored, gate, request, pass, copy, active, seen, order>>
      BY <1>5 DEF DirectTrade, intents, passing, asking
  <2>1. position' + sold' >= position + sold
      BY <1>0, <1>5 DEF DirectTrade
  <2>2. Live' = Live /\ Hidden' = Hidden
      BY <2>0, SameExits
  <2>3. position + sold \in Int /\ position' + sold' \in Int /\ position + sold >= 0
      BY <1>0 DEF Typed, TypeOK, ExitInv, Covered
  <2>4. /\ position' + sold' >= 0
        /\ \A n \in Nat : n <= position + sold => n <= position' + sold'
      BY <2>1, <2>3
  <2>5. \A i \in Live : exits[i].left \in Nat
      BY <1>0 DEF Live
  <2>6. Covered'
      BY <2>0, <2>2, <2>4, <2>5 DEF ExitInv, Covered
  <2>q. QED BY <2>0, <2>1, <2>2, <2>6, FewerKeepOne
<1>6. CASE NewDay
  <2>1. \A i \in DOMAIN exits : exits'[i] = [exits[i] EXCEPT !.book = "past",
                                                !.status = IF @ = "live" THEN "cancelled" ELSE @]
      BY <1>6 DEF NewDay
  <2>2. DOMAIN exits' = DOMAIN exits /\ \A i \in DOMAIN exits : exits'[i].status # "live"
      BY <1>0, <1>6, <2>1 DEF NewDay, Exits
  <2>3. UNCHANGED <<position, sold, intent, stored, gate, request, pass, copy, active, seen, order>>
      BY <1>6 DEF NewDay, intents, passing, asking
  <2>4. Live' \subseteq Live /\ Hidden' \subseteq Hidden /\ Covered'
      BY <1>1, <2>2, <2>3
  <2>q. QED BY <1>0, <2>3, <2>4, FewerKeepOne
<1>q. QED BY <1>2, <1>3, <1>4, <1>5, <1>6 DEF Kite

\* While only liquidation exits, and none is forgotten.
AloneInv == asked = 0 /\ ~forgotten => ExitInv /\ ~Unaccounted

\* A step that leaves asked at 0 is none of a request.
LEMMA NoneAsks ==
    ASSUME Typed, AloneInv, ~forgotten, Step, asked' = 0
    PROVE  ExitInv /\ ~Unaccounted /\ ~Ask /\ ~Asking
<1>1. asked \in Nat
    BY DEF Typed, TypeOK
<1>2. Ask => asked' = asked + 1
    BY DEF Ask
<1>3. ~Ask
    BY <1>1, <1>2
<1>4. asked = 0
  <2>1. CASE PassStart \/ Pass
      BY <2>1 DEF Pass, PassStart, PassOrders, PassPositions, Orphans, PassClear, Reserve, Remember, Submit,
                  Answer, Save, asking
  <2>2. CASE Asking
      BY <2>2 DEF Asking, AskOrders, AskUnread, AskReserve, AskSubmit, AskAnswer, Return, Continue
  <2>3. CASE \/ Poll \/ Polling \/ Restart \/ Kite \/ DirectTrade \/ NewDay
             \/ \E i \in DOMAIN exits : Unfilled(i)
      BY <2>3 DEF Poll, Polling, PollOrders, PollUnread, Restart, Kite, Fill, Unfilled, List, DirectTrade,
                  NewDay, asking
  <2>q. QED BY <1>3, <2>1, <2>2, <2>3 DEF Step
<1>5. ExitInv /\ ~Unaccounted
    BY <1>4 DEF AloneInv
<1>6. ~Asking
    BY <1>5 DEF ExitInv, Unasked, Asking, AskOrders, AskUnread, AskReserve, AskSubmit, AskAnswer
<1>q. QED BY <1>3, <1>5, <1>6

\* A step forgets an exit, or keeps one exit at a time.
LEMMA OnePreserved == Typed /\ Typed' /\ AloneInv /\ [Next]_vars => AloneInv'
<1> SUFFICES ASSUME Typed, Typed', AloneInv, [Next]_vars, asked' = 0, ~forgotten'
             PROVE  ExitInv' /\ ~Unaccounted'
    BY DEF AloneInv
<1>1. CASE UNCHANGED vars
  <2>1. ExitInv /\ ~Unaccounted
      BY <1>1 DEF AloneInv, vars, moves, asking
  <2>2. ExitInv'
      BY <1>1, <2>1
         DEF vars, moves, kite, intents, passing, asking, ExitInv, Unasked, SetOut, OneLive, Covered,
             Named, Names, Copied, ReadAll, Uncertain, Live, Hidden
  <2>3. ~Unaccounted'
      BY <1>1, <2>1 DEF vars, moves, kite, intents, passing, asking, Unaccounted, Answering
  <2>q. QED BY <2>2, <2>3
<1>2. CASE Next
  <2>1. Step /\ ~forgotten /\ ~Unaccounted'
      BY <1>2 DEF Next
  <2>2. ExitInv /\ ~Unaccounted /\ ~Ask /\ ~Asking
      BY <2>1, NoneAsks
  <2>3. ExitInv'
      BY <2>1, <2>2, PollsKeepOne, ReadsKeepOne, RecordsKeepOne, SubmitKeepsOne, WorldKeepsOne
         DEF Step, Pass
  <2>q. QED BY <2>1, <2>3
<1>q. QED BY <1>1, <1>2

LEMMA OneInit == Init => AloneInv
<1> SUFFICES ASSUME Init PROVE ExitInv /\ ~Unaccounted
    BY DEF AloneInv
<1>1. Live = {} /\ Hidden = {} /\ position \in Nat /\ sold = 0
    BY ExitAssumption DEF Init, Live, Hidden
<1>2. ExitInv
    BY <1>1 DEF Init, ExitInv, Unasked, SetOut, OneLive, Covered, Named, Names, Copied, ReadAll, SettingOut
<1>3. ~Unaccounted
    BY DEF Init, Unaccounted
<1>q. QED BY <1>2, <1>3

LEMMA OneAlways == Spec => []AloneInv
<1>1. Typed /\ Typed' /\ AloneInv /\ [Next]_vars => AloneInv'
    BY OnePreserved
<1>q. QED BY <1>1, OneInit, TypedAlways, PTL DEF Spec

\* For any position, any number of failures, restarts and days, and any trades beside it:
\* while only liquidation exits, a second exit is unfinished only after Kite has worked on
\* one that neither its order book showed nor an intent remembered.
THEOREM OneExitUntilForgotten == Spec => []OneExitWhileRemembered
<1>1. Typed /\ AloneInv => OneExitWhileRemembered
    BY DEF AloneInv, ExitInv, OneLive, Live, OneExitWhileRemembered, OneExit
<1>q. QED BY <1>1, TypedAlways, OneAlways, PTL

\* And until then it never sells the position past flat.
THEOREM NoReversalUntilForgotten == Spec => []LiquidationNeverReverses
<1>1. Typed /\ AloneInv => LiquidationNeverReverses
  <2> SUFFICES ASSUME Typed, AloneInv, asked = 0, ~forgotten PROVE position >= -sold
      BY DEF LiquidationNeverReverses
  <2>1. position + sold >= 0
      BY DEF AloneInv, ExitInv, Covered
  <2>2. position \in Int /\ sold \in Nat
      BY DEF Typed, TypeOK
  <2>q. QED BY <2>1, <2>2
<1>q. QED BY <1>1, TypedAlways, OneAlways, PTL
===============================================================================
