--------------------------- MODULE MarketStreamProofs ---------------------------
(***************************************************************************)
(* The market stream, for any set of tokens and any number of logins,      *)
(* trades and failures: the types, the ownership of streamMu, and that the *)
(* newest stream alone is believed.                                        *)
(***************************************************************************)
EXTENDS MarketStream, SequenceTheorems, TLAPS

Streams == [conn : {"none", "connecting", "up"}, tokens : SUBSET Tokens, say : Says]
Marks == Tokens \X {"newest", "overtaken", "replaced"}

-------------------------------------------------------------------------------
(* Types.                                                                     *)

\* A stream's connection and what it is about to say may change by the type.
LEMMA BecomesTypes ==
    ASSUME TypeOK, NEW conn \in {"none", "connecting", "up"}, NEW say \in Says,
           Becomes(conn, say)
    PROVE  stream' \in Streams
<1>1. stream \in Streams
    BY DEF TypeOK, Streams
<1>2. stream' = [stream EXCEPT !.conn = conn, !.say = say]
    BY DEF Becomes
<1>q. QED BY <1>1, <1>2 DEF Streams

\* The effects of the callbacks are of the types of the service's variables.
LEMMA StatusTypes ==
    ASSUME TypeOK, NEW up \in BOOLEAN, SetMarketStatus(up)
    PROVE  connected' \in BOOLEAN /\ ticks' \subseteq Marks /\ positions' = positions
    BY DEF TypeOK, SetMarketStatus, Marks

LEMMA TickTypes ==
    ASSUME TypeOK, NEW token, NEW from \in {"newest", "overtaken"}, ApplyTick(token, from)
    PROVE  connected' = connected /\ ticks' \subseteq Marks /\ positions' = positions
<1>1. positions \subseteq Tokens /\ ticks \subseteq Marks
    BY DEF TypeOK, Marks
<1>2. token \in positions => <<token, from>> \in Marks
    BY <1>1 DEF Marks
<1>q. QED BY <1>1, <1>2 DEF ApplyTick

LEMMA CallbackTypes ==
    ASSUME TypeOK, NEW say, NEW newest \in BOOLEAN, Callback(say, newest)
    PROVE  connected' \in BOOLEAN /\ ticks' \subseteq Marks /\ positions' = positions
           /\ misled' \in BOOLEAN
<1>1. CASE ApplyTick(say.token, IF newest /\ MuFree THEN "newest" ELSE "overtaken")
           /\ UNCHANGED misled
  <2>1. connected \in BOOLEAN /\ misled \in BOOLEAN
      BY DEF TypeOK
  <2>q. QED BY <1>1, <2>1, TickTypes
<1>2. CASE SetMarketStatus(say.what = "up")
           /\ misled' = (~(newest /\ MuFree) \/ (say.what = "error" /\ stream.conn = "up"))
    BY <1>2, StatusTypes
<1>q. QED BY <1>1, <1>2 DEF Callback

\* What a callback of a replaced stream leaves is a sequence of callbacks.
LEMMA RemoveAtTypes ==
    ASSUME NEW S, NEW s \in Seq(S), NEW i \in DOMAIN s
    PROVE  RemoveAt(s, i) \in Seq(S)
<1>1. i \in 1 .. Len(s) /\ Len(s) \in Nat /\ \A j \in 1 .. Len(s) : s[j] \in S
    BY LenProperties, ElementOfSeq
<1>2. SubSeq(s, 1, i - 1) \in Seq(S)
  <2>1. \A j \in 1 .. i - 1 : s[j] \in S
      BY <1>1
  <2>q. QED BY <1>1, <2>1, SubSeqProperties
<1>3. SubSeq(s, i + 1, Len(s)) \in Seq(S)
  <2>1. \A j \in i + 1 .. Len(s) : s[j] \in S
      BY <1>1
  <2>q. QED BY <1>1, <2>1, SubSeqProperties
<1>q. QED BY <1>2, <1>3, ConcatProperties DEF RemoveAt

\* A step that may fail counts its fault.
LEMMA FaultsTypes ==
    ASSUME TypeOK, Works \/ Fails
    PROVE  faults' \in Nat
<1>1. faults \in Nat
    BY DEF TypeOK
<1>q. QED BY <1>1 DEF Works, Fails

\* The initial state is of the types.
LEMMA TypesInit == Init => TypeOK
<1> SUFFICES ASSUME Init PROVE TypeOK
    OBVIOUS
<1>1. NoStream \in Streams
    BY DEF NoStream, Streams, Says, Silent
<1>2. <<>> \in Seq(Says)
    OBVIOUS
<1>3. pc \in [Threads -> Labels] /\ list \in [Threads -> SUBSET Tokens]
    BY DEF Init, Labels
<1>4. {held, positions, streamTokens} \subseteq SUBSET Tokens
      /\ {gate, streamMu} \subseteq Threads \cup {"free"}
    BY DEF Init
<1>5. {serving, connected, misled} \subseteq BOOLEAN /\ ticks = {}
    BY DEF Init
<1>6. {logins, trades, faults} \subseteq Nat
    BY DEF Init
<1>7. stream \in Streams /\ replaced \in Seq(Says)
    BY <1>1, <1>2 DEF Init
<1>q. QED BY <1>3, <1>4, <1>5, <1>6, <1>7 DEF TypeOK, Streams

\* The steps of the polls and the logins keep the types.
LEMMA ThreadTypes ==
    ASSUME TypeOK, NEW t \in Threads, PollPositions(t) \/ Goes(t)
    PROVE  TypeOK'
<1> USE FeedAssumption
<1>1. CASE PollPositions(t)
  <2>1. pc' \in [Threads -> Labels] /\ gate' \in Threads /\ positions' \subseteq Tokens
      BY <1>1 DEF TypeOK, PollPositions, Goto, Labels
  <2>2. logins' \in Nat
      BY <1>1 DEF TypeOK, PollPositions
  <2>q. QED BY <1>1, <2>1, <2>2 DEF TypeOK, PollPositions, adapter
<1>2. CASE PollOrders(t)
  <2>1. pc' \in [Threads -> Labels]
      BY <1>2 DEF TypeOK, PollOrders, Return, Goto, Labels
  <2>2. gate' = "free" /\ serving' \in BOOLEAN
      BY <1>2 DEF TypeOK, PollOrders, SyncUnlocked, Return
  <2>3. faults' \in Nat
      BY <1>2, FaultsTypes DEF PollOrders
  <2>q. QED BY <1>2, <2>1, <2>2, <2>3 DEF TypeOK, PollOrders, service, adapter
<1>3. CASE ReadTokens(t)
    BY <1>3 DEF TypeOK, ReadTokens, Goto, Labels, service, adapter, bounds
<1>4. CASE Resubscribe(t)
    BY <1>4 DEF TypeOK, Resubscribe, Follow, Goto, Synced, Labels, service, bounds
<1>5. CASE StartStream(t)
  <2>1. pc' \in [Threads -> Labels] /\ serving' \in BOOLEAN
      BY <1>5 DEF TypeOK, StartStream, Return, Goto, Labels
  <2>3. faults' \in Nat
      BY <1>5, FaultsTypes DEF StartStream
  <2>2. streamMu' \in Threads \cup {"free"} /\ streamTokens' \subseteq Tokens
      BY <1>5 DEF TypeOK, StartStream, Follow
  <2>q. QED BY <1>5, <2>1, <2>2, <2>3 DEF TypeOK, StartStream, service
<1>6. CASE ReportReplaced(t)
  <2>1. connected' \in BOOLEAN /\ ticks' \subseteq Marks /\ positions' = positions
      BY <1>6, StatusTypes DEF ReportReplaced
  <2>q. QED BY <1>6, <2>1 DEF TypeOK, ReportReplaced, Goto, Labels, Marks, adapter, bounds
<1>7. CASE StartNext(t)
  <2>1. stream' \in Streams
      BY <1>7 DEF StartNext, TypeOK, Streams, NewStream, Silent, Says
  <2>2. replaced' \in Seq(Says)
    <3>1. replaced \in Seq(Says) /\ stream.say \in Says
        BY DEF TypeOK
    <3>2. Append(replaced, stream.say) \in Seq(Says)
        BY <3>1, AppendProperties
    <3>q. QED BY <1>7, <3>1, <3>2 DEF StartNext
  <2>3. ticks' \subseteq Marks
    <3>1. ticks \subseteq Marks
        BY DEF TypeOK, Marks
    <3>q. QED BY <1>7, <3>1 DEF StartNext, Marks
  <2>q. QED BY <1>7, <2>1, <2>2, <2>3
            DEF TypeOK, StartNext, Streams, Marks, Return, Goto, Synced, Labels, bounds
<1>q. QED BY <1>1, <1>2, <1>3, <1>4, <1>5, <1>6, <1>7 DEF Goes

\* The steps of a stream's goroutine keep the types.
LEMMA StreamTypes ==
    ASSUME TypeOK, Connect \/ Lose \/ StreamError \/ Tick \/ Check \/ Call
    PROVE  TypeOK'
<1> USE FeedAssumption
<1>0. stream \in Streams /\ stream.conn \in {"none", "connecting", "up"} /\ stream.say \in Says
      /\ stream.tokens \subseteq Tokens
    BY DEF TypeOK, Streams
<1>1. /\ Report("up") \in Says /\ Report("down") \in Says /\ Report("error") \in Says
      /\ Silent \in Says /\ \A token \in Tokens : TickOf(token) \in Says
    BY DEF Says, Report, Silent, TickOf
<1>2. [stream.say EXCEPT !.step = "call"] \in Says
    BY <1>0 DEF Says
<1>3. stream' \in Streams
  <2>1. CASE Connect
      BY <1>1, <2>1, BecomesTypes DEF Connect
  <2>2. CASE Lose
      BY <1>1, <2>2, BecomesTypes DEF Lose
  <2>3. CASE StreamError
      BY <1>0, <1>1, <2>3, BecomesTypes DEF StreamError
  <2>4. CASE Tick
      BY <1>0, <1>1, <2>4, BecomesTypes DEF Tick
  <2>5. CASE Check
      BY <1>0, <1>2, <2>5, BecomesTypes DEF Check
  <2>6. CASE Call
      BY <1>0, <1>1, <2>6, BecomesTypes DEF Call
  <2>q. QED BY <2>1, <2>2, <2>3, <2>4, <2>5, <2>6
<1>4. connected' \in BOOLEAN /\ ticks' \subseteq Marks /\ positions' = positions /\ misled' \in BOOLEAN
  <2>1. CASE Call
      BY <2>1, CallbackTypes DEF Call
  <2>2. CASE ~Call
      BY <2>2 DEF TypeOK, Marks, Connect, Lose, StreamError, Tick, Check, service
  <2>q. QED BY <2>1, <2>2
<1>5. faults' \in Nat /\ UNCHANGED <<held, threads, streamMu, streamTokens, replaced, logins, trades>>
    BY DEF TypeOK, Connect, Lose, Fails, StreamError, Tick, Check, Call, Callback, bounds
<1>q. QED BY <1>3, <1>4, <1>5 DEF TypeOK, Streams, Marks, threads

\* Every step keeps the types.
LEMMA TypesPreserved == TypeOK /\ [Next]_vars => TypeOK'
<1> SUFFICES ASSUME TypeOK, [Next]_vars PROVE TypeOK'
    OBVIOUS
<1>1. ASSUME NEW i \in DOMAIN replaced, CallReplaced(i) PROVE TypeOK'
  <2>1. connected' \in BOOLEAN /\ ticks' \subseteq Marks /\ positions' = positions
        /\ misled' \in BOOLEAN
      BY <1>1, CallbackTypes DEF CallReplaced
  <2>2. replaced' \in Seq(Says)
      BY <1>1, RemoveAtTypes DEF CallReplaced, TypeOK
  <2>q. QED BY <1>1, <2>1, <2>2 DEF TypeOK, CallReplaced, Callback, Marks, threads, bounds
<1>2. CASE Trade
    BY <1>2, FeedAssumption DEF TypeOK, Trade, service, threads, adapter
<1>3. CASE UNCHANGED vars
    BY <1>3 DEF TypeOK, vars, service, threads, adapter, bounds
<1>q. QED BY <1>1, <1>2, <1>3, ThreadTypes, StreamTypes DEF Next

\* The type invariant: the threads, the streams and the callbacks keep their types.
THEOREM MarketStreamTypeCorrect == Spec => []TypeOK
    BY TypesInit, TypesPreserved, PTL DEF Spec

-------------------------------------------------------------------------------
(* streamMu.                                                                  *)

Holding == {"syncStatus", "syncStart", "streamStatus", "streamStart"}

\* A thread between the report of a replacement and the replacement holds streamMu.
OwnMu == \A t \in Threads : pc[t] \in Holding => streamMu = t

\* Every step of a thread keeps streamMu with its holder.
LEMMA ThreadOwns ==
    ASSUME TypeOK, OwnMu, NEW t \in Threads, PollPositions(t) \/ Goes(t)
    PROVE  OwnMu'
<1>1. pc \in [Threads -> Labels] /\ "free" \notin Threads
    BY DEF TypeOK, Threads
<1>2. ASSUME NEW label, Goto(t, label)
      PROVE  pc'[t] = label /\ \A u \in Threads \ {t} : pc'[u] = pc[u]
    BY <1>1, <1>2 DEF Goto
<1>3. CASE PollPositions(t) \/ PollOrders(t) \/ ReadTokens(t)
  <2>1. pc'[t] \notin Holding /\ (\A u \in Threads \ {t} : pc'[u] = pc[u]) /\ streamMu' = streamMu
      BY <1>2, <1>3 DEF PollPositions, PollOrders, ReadTokens, Return, Holding, adapter
  <2>q. QED BY <2>1 DEF OwnMu
<1>4. CASE Resubscribe(t) \/ StartStream(t)
  <2>1. \A u \in Threads \ {t} : pc'[u] = pc[u]
      BY <1>2, <1>4 DEF Resubscribe, StartStream, Return, Synced
  <2>2. \/ pc'[t] \in Holding /\ MuFree /\ streamMu' = t
        \/ pc'[t] \notin Holding /\ streamMu' = streamMu
      BY <1>2, <1>4 DEF Resubscribe, StartStream, Return, Synced, Holding
  <2>q. QED BY <1>1, <2>1, <2>2 DEF OwnMu, MuFree
<1>5. CASE ReportReplaced(t)
  <2>1. pc[t] \in Holding /\ (\A u \in Threads \ {t} : pc'[u] = pc[u]) /\ streamMu' = streamMu
      BY <1>2, <1>5 DEF ReportReplaced, At, Holding, adapter
  <2>q. QED BY <2>1 DEF OwnMu
<1>6. CASE StartNext(t)
  <2>1. \A u \in Threads \ {t} : pc'[u] = pc[u]
      BY <1>2, <1>6 DEF StartNext, Return, Synced
  <2>2. pc[t] \in Holding /\ pc'[t] \notin Holding
      BY <1>2, <1>6 DEF StartNext, At, Return, Synced, Holding
  <2>q. QED BY <1>1, <2>1, <2>2 DEF OwnMu
<1>q. QED BY <1>3, <1>4, <1>5, <1>6 DEF Goes

\* The callbacks of the streams and the trades leave it.
LEMMA OwnMuPreserved == TypeOK /\ OwnMu /\ [Next]_vars => OwnMu'
<1> SUFFICES ASSUME TypeOK, OwnMu, [Next]_vars PROVE OwnMu'
    OBVIOUS
<1>1. ASSUME NEW i \in DOMAIN replaced, CallReplaced(i) PROVE OwnMu'
    BY <1>1 DEF CallReplaced, Callback, OwnMu, threads
<1>2. CASE Trade \/ Connect \/ Lose \/ StreamError \/ Tick \/ Check \/ Call \/ UNCHANGED vars
    BY <1>2 DEF Trade, Connect, Lose, StreamError, Tick, Check, Call, Callback, OwnMu, threads,
                adapter, vars
<1>q. QED BY <1>1, <1>2, ThreadOwns DEF Next

-------------------------------------------------------------------------------
(* The newest stream alone is believed.                                       *)

\* A connection is reported while it is up; one that is believed in is up, or the
\* report of its loss is on its way.
NewestTold ==
    /\ stream.say.what = "up" => Up
    /\ connected /\ ~misled => Up \/ stream.say.what = "down"

\* Once a replacement is reported, only callbacks that were overtaken by it are heard
\* until the new stream is there.
ReplacedTold ==
    \A t \in Threads : pc[t] \in {"syncStart", "streamStart"} =>
        /\ connected => misled
        /\ \A x \in ticks : x[2] # "newest"

NoneReplaced == \A x \in ticks : x[2] # "replaced"

TrustInv == NewestTold /\ ReplacedTold /\ NoneReplaced

\* Holding streamMu, a thread hears no tick as that of the newest stream, and no report
\* of a connection that does not mislead.
LEMMA HeldMisleads ==
    ASSUME TypeOK, ReplacedTold, NoneReplaced, NEW say, NEW newest \in BOOLEAN,
           Callback(say, newest), ~(newest /\ MuFree)
    PROVE  ReplacedTold' /\ NoneReplaced'
<1>1. UNCHANGED <<pc, streamMu>>
    BY DEF Callback, threads
<1>2. CASE ApplyTick(say.token, "overtaken") /\ UNCHANGED misled
  <2>1. connected' = connected
      BY <1>2 DEF ApplyTick
  <2>2. \A x \in ticks' : x \in ticks \/ x[2] = "overtaken"
      BY <1>2 DEF ApplyTick
  <2>q. QED BY <1>1, <1>2, <2>1, <2>2 DEF ReplacedTold, NoneReplaced
<1>3. CASE SetMarketStatus(say.what = "up") /\ misled'
  <2>1. \A x \in ticks' : x \in ticks
      BY <1>3 DEF SetMarketStatus
  <2>q. QED BY <1>1, <1>3, <2>1 DEF ReplacedTold, NoneReplaced
<1>q. QED BY <1>2, <1>3 DEF Callback

\* Every step of a thread keeps the newest stream the only one that is believed.
LEMMA ThreadTrust ==
    ASSUME TypeOK, OwnMu, TrustInv, NEW t \in Threads, PollPositions(t) \/ Goes(t)
    PROVE  TrustInv'
<1>1. pc \in [Threads -> Labels] /\ "free" \notin Threads
    BY DEF TypeOK, Threads
<1>2. ASSUME NEW label, Goto(t, label)
      PROVE  pc'[t] = label /\ \A u \in Threads \ {t} : pc'[u] = pc[u]
    BY <1>1, <1>2 DEF Goto
<1>3. CASE PollPositions(t) \/ PollOrders(t) \/ ReadTokens(t) \/ Resubscribe(t) \/ StartStream(t)
  <2>1. pc'[t] \notin {"syncStart", "streamStart"} /\ \A u \in Threads \ {t} : pc'[u] = pc[u]
      BY <1>2, <1>3 DEF PollPositions, PollOrders, ReadTokens, Resubscribe, StartStream, Return, Synced
  <2>2. UNCHANGED <<connected, ticks, stream, misled>>
      BY <1>3 DEF PollPositions, PollOrders, ReadTokens, Resubscribe, StartStream, service, adapter
  <2>q. QED BY <2>1, <2>2 DEF TrustInv, NewestTold, ReplacedTold, NoneReplaced, Up
<1>4. CASE ReportReplaced(t)
  <2>1. connected' = FALSE /\ ticks' = {} /\ UNCHANGED stream
      BY <1>4 DEF ReportReplaced, SetMarketStatus, adapter
  <2>q. QED BY <2>1 DEF TrustInv, NewestTold, ReplacedTold, NoneReplaced, Up
<1>5. CASE StartNext(t)
  <2>1. pc[t] \in {"syncStart", "streamStart"} /\ UNCHANGED <<connected, misled>>
      BY <1>5 DEF StartNext, At
  <2>2. (connected => misled) /\ \A x \in ticks : x[2] \notin {"newest", "replaced"}
      BY <2>1 DEF TrustInv, ReplacedTold, NoneReplaced
  <2>3. \A x \in ticks' : x[2] \notin {"newest", "replaced"}
      BY <1>5, <2>2 DEF StartNext
  <2>4. stream'.say.what # "up"
      BY <1>5 DEF StartNext, NewStream, Silent
  <2>q. QED BY <2>1, <2>2, <2>3, <2>4 DEF TrustInv, NewestTold, ReplacedTold, NoneReplaced
<1>q. QED BY <1>3, <1>4, <1>5 DEF Goes

\* So does every step of the stream's goroutine.
LEMMA StreamTrust ==
    ASSUME TypeOK, OwnMu, TrustInv, Connect \/ Lose \/ StreamError \/ Tick \/ Check \/ Call
    PROVE  TrustInv'
<1>1. stream \in Streams
    BY DEF TypeOK, Streams
<1>2. ASSUME NEW conn, NEW say, Becomes(conn, say)
      PROVE  stream'.conn = conn /\ stream'.say = say
    BY <1>1, <1>2 DEF Becomes, Streams
<1>3. CASE Connect \/ Lose \/ StreamError \/ Tick \/ Check
  <2>1. UNCHANGED <<pc, connected, ticks, misled>>
      BY <1>3 DEF Connect, Lose, StreamError, Tick, Check, service, threads
  <2>2. NewestTold'
    <3>1. CASE Connect \/ Lose
      <4>1. \/ stream'.conn = "up" /\ stream'.say.what = "up"
            \/ stream'.say.what = "down"
          BY <1>2, <3>1 DEF Connect, Lose, Report
      <4>q. QED BY <4>1 DEF NewestTold, Up
    <3>2. CASE StreamError \/ Tick
      <4>0. Tick => stream.conn = "up" /\ \E token : Becomes("up", TickOf(token))
          BY DEF Tick
      <4>1. /\ Idle /\ stream'.conn = stream.conn
            /\ stream'.say.what \in {"error", "tick"}
        <5>1. CASE StreamError
            BY <1>2, <5>1 DEF StreamError, Report
        <5>2. CASE Tick
            BY <1>2, <4>0, <5>2 DEF Tick, TickOf
        <5>q. QED BY <3>2, <5>1, <5>2
      <4>q. QED BY <2>1, <4>1 DEF NewestTold, Up, TrustInv, Idle, Silent
    <3>3. CASE Check
      <4>1. stream.say \in Says
          BY <1>1 DEF Streams
      <4>2. stream'.conn = stream.conn /\ stream'.say.what = stream.say.what
          BY <1>2, <3>3, <4>1 DEF Check, Says
      <4>q. QED BY <2>1, <4>2 DEF NewestTold, Up, TrustInv
    <3>q. QED BY <1>3, <3>1, <3>2, <3>3
  <2>q. QED BY <2>1, <2>2 DEF TrustInv, ReplacedTold, NoneReplaced
<1>4. CASE Call
  <2>1. stream'.conn = stream.conn /\ stream'.say = Silent /\ Callback(stream.say, TRUE)
      BY <1>2, <1>4 DEF Call
  <2>2. NewestTold'
    <3>0. stream'.say.what = "nothing"
        BY <2>1 DEF Silent
    <3>1. CASE stream.say.what = "tick" /\ UNCHANGED <<connected, misled>>
        BY <2>1, <3>0, <3>1 DEF NewestTold, Up, TrustInv
    <3>2. CASE connected' = (stream.say.what = "up")
        BY <2>1, <3>0, <3>2 DEF NewestTold, Up, TrustInv
    <3>q. QED BY <2>1, <3>1, <3>2 DEF Callback, ApplyTick, SetMarketStatus
  <2>3. CASE MuFree
    <3>1. \A t \in Threads : pc[t] \notin Holding
        BY <2>3 DEF OwnMu, MuFree, Threads
    <3>2. ReplacedTold'
        BY <2>1, <3>1 DEF ReplacedTold, Callback, threads, Holding
    <3>3. \A x \in ticks' : x \in ticks \/ x[2] = "newest"
        BY <2>1, <2>3 DEF Callback, ApplyTick, SetMarketStatus, MuFree
    <3>q. QED BY <2>2, <3>2, <3>3 DEF TrustInv, NoneReplaced
  <2>4. CASE ~MuFree
      BY <2>1, <2>2, <2>4, HeldMisleads DEF TrustInv
  <2>q. QED BY <2>3, <2>4
<1>q. QED BY <1>3, <1>4

\* And so does every other step.
LEMMA TrustPreserved == TypeOK /\ OwnMu /\ TrustInv /\ [Next]_vars => TrustInv'
<1> SUFFICES ASSUME TypeOK, OwnMu, TrustInv, [Next]_vars PROVE TrustInv'
    OBVIOUS
<1>1. ASSUME NEW i \in DOMAIN replaced, CallReplaced(i) PROVE TrustInv'
  <2>1. Callback(replaced[i], FALSE) /\ UNCHANGED stream
      BY <1>1 DEF CallReplaced
  <2>2. ReplacedTold' /\ NoneReplaced'
      BY <2>1, HeldMisleads DEF TrustInv
  <2>3. NewestTold'
    <3>1. misled' \/ UNCHANGED <<connected, misled>>
        BY <2>1 DEF Callback, ApplyTick
    <3>q. QED BY <2>1, <3>1 DEF TrustInv, NewestTold, Up
  <2>q. QED BY <2>2, <2>3 DEF TrustInv
<1>2. CASE Trade \/ UNCHANGED vars
    BY <1>2 DEF Trade, vars, service, threads, adapter, TrustInv, NewestTold, ReplacedTold,
                NoneReplaced, Up
<1>q. QED BY <1>1, <1>2, ThreadTrust, StreamTrust DEF Next

\* The newest stream alone is believed: a market that the service takes for connected,
\* with no report on its way and none made too late, is; and no tick that came over the
\* newest stream has outlived it.
THEOREM TheNewestSpeaks == Spec => []NewestSpeaks
<1>1. Init => OwnMu /\ TrustInv
    BY DEF Init, OwnMu, Holding, TrustInv, NewestTold, ReplacedTold, NoneReplaced, NoStream, Silent
<1>2. TrustInv => NewestSpeaks
    BY DEF TrustInv, NewestTold, NoneReplaced, NewestSpeaks, Quiet, Idle, Silent
<1>q. QED BY <1>1, <1>2, MarketStreamTypeCorrect, OwnMuPreserved, TrustPreserved, PTL DEF Spec
===============================================================================
