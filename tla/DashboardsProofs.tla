---------------------------- MODULE DashboardsProofs ----------------------------
(***************************************************************************)
(* The dashboards, for any set of pages, any of which may stall, and any   *)
(* number of changes: the types, and that no change is ever forgotten on   *)
(* its way to a page.                                                      *)
(***************************************************************************)
EXTENDS Dashboards, TLAPS

USE DEF Versions, Changes

-------------------------------------------------------------------------------
(* Types.                                                                     *)

\* Each goroutine that has yet to notify has changed the state.
Counted == TypeOK /\ signals <= version

\* Every variable of the service and of the pages keeps its type.
LEMMA TypesPreserved == Counted /\ [Next]_vars => Counted'
<1> SUFFICES ASSUME Counted, [Next]_vars PROVE Counted'
    OBVIOUS
<1> USE DashboardsAssumption
<1>0. /\ version \in Nat /\ owed \in Nat /\ signals \in Nat /\ MaxVersion \in Nat
      /\ version <= MaxVersion /\ owed <= version /\ signals <= version
    BY DEF Counted, TypeOK
<1>1. CASE Change
  <2>1. /\ version' = version + 1 /\ version < MaxVersion /\ owed' = version'
        /\ signals' = signals + 1
      BY <1>1 DEF Change
  <2>2. liveDirty' \in BOOLEAN
      BY <1>1 DEF Counted, TypeOK, Change
  <2>3. version' \in Versions /\ owed' \in Versions /\ signals' \in Versions
        /\ owed' <= version' /\ signals' <= version'
      BY <1>0, <2>1
  <2>q. QED BY <1>1, <2>2, <2>3 DEF Counted, TypeOK, Change, pages
<1>2. CASE ChangeSilently \/ Tick
  <2>1. /\ version' = version + 1 /\ version < MaxVersion
        /\ (owed' = owed \/ owed' = version') /\ signals' = signals
      BY <1>2 DEF ChangeSilently, Tick
  <2>2. version' \in Versions /\ owed' \in Versions /\ signals' \in Versions
        /\ owed' <= version' /\ signals' <= version'
      BY <1>0, <1>2 DEF ChangeSilently, Tick
  <2>q. QED BY <1>2, <2>2 DEF Counted, TypeOK, ChangeSilently, Tick, pages
<1>3. CASE Signal
  <2>1. signals' \in Versions /\ signals' <= version'
      BY <1>0, <1>3 DEF Signal
  <2>q. QED BY <1>3, <2>1 DEF Counted, TypeOK, Signal, Publish, Subscribed, pages
<1>4. CASE Evaluate
  <2>1. version' \in Versions /\ owed' \in Versions /\ signals' = signals
        /\ owed' <= version' /\ signals' <= version'
      BY <1>0, <1>4 DEF Evaluate
  <2>q. QED BY <1>4, <2>1 DEF Counted, TypeOK, Evaluate, pages
<1>5. CASE Display \/ Show \/ Stop \/ End
    BY <1>5 DEF Counted, TypeOK, Display, Show, Stop, End, Publish, Subscribed, pages
<1>6. ASSUME NEW p \in Pages,
             Connect(p) \/ Read(p) \/ Write(p) \/ Update(p) \/ Disconnect(p) \/ Done(p)
      PROVE  Counted'
  <2>0. UNCHANGED service /\ version \in Versions
      BY <1>0, <1>6 DEF Connect, Read, Write, Update, Disconnect, Done, Leave
  <2>1. handler' \in [Pages -> {"none", "read", "write", "wait"}] /\ full' \subseteq Pages
      BY <1>6 DEF Counted, TypeOK, Connect, Read, Write, Update, Disconnect, Done, Leave
  <2>2. read \in [Pages -> Versions] /\ shown \in [Pages -> Versions]
      BY DEF Counted, TypeOK
  <2>3. read' \in [Pages -> Versions] /\ shown' \in [Pages -> Versions]
      BY <1>6, <2>0, <2>2 DEF Connect, Read, Write, Update, Disconnect, Done, Leave
  <2>q. QED BY <2>0, <2>1, <2>3 DEF Counted, TypeOK, service
<1>7. CASE UNCHANGED vars
    BY <1>7 DEF Counted, TypeOK, vars, service, pages
<1>q. QED BY <1>1, <1>2, <1>3, <1>4, <1>5, <1>6, <1>7 DEF Next

\* The initial state has the types.
LEMMA TypesInit == Init => Counted
<1>1. 0 \in Versions
    BY DashboardsAssumption
<1>2. Unread \in [Pages -> Versions]
    BY <1>1 DEF Unread
<1>3. Init => handler \in [Pages -> {"none", "read", "write", "wait"}]
    BY DEF Init
<1>4. Init => {read, shown} \subseteq [Pages -> Versions]
    BY <1>2 DEF Init
<1>5. Init => {version, owed} \subseteq Versions /\ owed <= version /\ signals \in Versions
              /\ signals <= version
    BY <1>1 DEF Init
<1>6. Init => {liveDirty, stopping} \subseteq BOOLEAN /\ full \subseteq Pages
              /\ monitor \in {"idle", "evaluate", "signal", "ended"}
    BY DEF Init
<1>q. QED BY <1>3, <1>4, <1>5, <1>6 DEF Counted, TypeOK

\* The types and the count of signals, always.
LEMMA CountedAlways == Spec => []Counted
    BY TypesInit, TypesPreserved, PTL DEF Spec

\* The type invariant: the versions, the signals and the pages keep their types.
THEOREM DashboardsTypeCorrect == Spec => []TypeOK
<1>1. Counted => TypeOK
    BY DEF Counted
<1>q. QED BY <1>1, CountedAlways, PTL

-------------------------------------------------------------------------------
(* Nothing is missed.                                                         *)

\* An announcement is still to be made.
Pending == signals > 0 \/ liveDirty \/ monitor \in {"evaluate", "signal"}

\* A handler that no signal waits for has read, or is about to show, all there is to
\* announce, unless an announcement is still to be made: then it will be told.
Told ==
    \A p \in Pages :
        p \notin full /\ ~Pending =>
            /\ handler[p] = "write" => read[p] >= owed
            /\ handler[p] = "wait" => shown[p] >= owed

\* Every step of the service leaves the pages told, or an announcement to be made.
LEMMA ServiceTells ==
    ASSUME Counted, Told,
           Change \/ ChangeSilently \/ Tick \/ Signal \/ Display \/ Evaluate \/ Show \/ Stop \/ End
    PROVE  Told'
<1>1. CASE Change
  <2>1. signals' > 0
      BY <1>1 DEF Change, Counted, TypeOK
  <2>q. QED BY <2>1 DEF Told, Pending
<1>2. CASE ChangeSilently
    BY <1>2 DEF Told, Pending, ChangeSilently, pages
<1>3. CASE Tick
    BY <1>3 DEF Told, Pending, Tick
<1>4. CASE Signal \/ Show
  <2>1. full' = Subscribed /\ handler' = handler
      BY <1>4 DEF Signal, Show, Publish, pages
  <2>q. QED BY <2>1 DEF Told, Subscribed
<1>5. CASE Display \/ Evaluate
    BY <1>5 DEF Told, Pending, Display, Evaluate
<1>6. CASE Stop \/ End
    BY <1>6 DEF Told, Pending, Stop, End, pages
<1>q. QED BY <1>1, <1>2, <1>3, <1>4, <1>5, <1>6

\* Every step of a page's handler keeps it told, and the others.
LEMMA HandlerTold ==
    ASSUME Counted, Told, NEW p \in Pages,
           Connect(p) \/ Read(p) \/ Write(p) \/ Update(p) \/ Disconnect(p) \/ Done(p)
    PROVE  Told'
<1> USE DashboardsAssumption
<1>0. UNCHANGED <<version, owed, signals, liveDirty, monitor>>
    BY DEF Connect, Read, Write, Update, Disconnect, Done, Leave, service
<1>1. \A q \in Pages \ {p} :
          /\ handler'[q] = handler[q] /\ read'[q] = read[q] /\ shown'[q] = shown[q]
          /\ q \in full' <=> q \in full
    BY DEF Connect, Read, Write, Update, Disconnect, Done, Leave, Counted, TypeOK
<1>2. p \notin full' /\ ~Pending =>
          /\ handler'[p] = "write" => read'[p] >= owed
          /\ handler'[p] = "wait" => shown'[p] >= owed
  <2>1. CASE Connect(p) \/ Update(p)
      BY <2>1 DEF Connect, Update, Counted, TypeOK
  <2>2. CASE Read(p)
      BY <2>2 DEF Read, Counted, TypeOK
  <2>3. CASE Write(p)
      BY <2>3 DEF Write, Counted, TypeOK, Told
  <2>4. CASE Disconnect(p) \/ Done(p)
      BY <2>4 DEF Disconnect, Done, Leave, Counted, TypeOK
  <2>q. QED BY <2>1, <2>2, <2>3, <2>4
<1>q. QED BY <1>0, <1>1, <1>2 DEF Told, Pending

\* Every step keeps the pages told.
LEMMA ToldPreserved == Counted /\ Told /\ [Next]_vars => Told'
<1> SUFFICES ASSUME Counted, Told, [Next]_vars PROVE Told'
    OBVIOUS
<1>1. CASE UNCHANGED vars
    BY <1>1 DEF Told, Pending, vars, service, pages
<1>q. QED BY <1>1, ServiceTells, HandlerTold DEF Next

\* No wakeup is lost: once all is announced, a handler that sleeps with an empty channel
\* has shown all there was to announce.
THEOREM NothingIsMissed == Spec => []NothingMissed
<1>1. Init => Told
    BY DEF Init, Told
<1>2. Counted /\ Told => NothingMissed
    BY DEF Counted, TypeOK, Told, Pending, NothingMissed, Announced
<1>q. QED BY <1>1, <1>2, CountedAlways, ToldPreserved, PTL DEF Spec

===============================================================================
