------------------------------ MODULE MarketStream ----------------------------
(***************************************************************************)
(* The adapter's market stream with its generations and its mutex          *)
(* streamMu, the service's callbacks, which take the gate, and the polls   *)
(* and logins that resubscribe and restart it.                             *)
(*                                                                         *)
(* A callback asks under streamMu whether its stream is still the current  *)
(* one, and calls the service after it has released streamMu: a newer      *)
(* stream may start in between.  The adapter itself reports a stream that  *)
(* it replaces while it holds streamMu.                                    *)
(***************************************************************************)
EXTENDS Naturals, SequencesExt

CONSTANTS
    Tokens,      \* instrument tokens
    MaxLogins,   \* bound on logins, each of which starts a stream
    MaxTrades,   \* bound on changes of the positions at Kite
    MaxFaults    \* bound on failed polls, lost connections and errors

ASSUME FeedAssumption == {MaxLogins, MaxTrades, MaxFaults} \subseteq Nat

\* The main goroutine, which restores the session and then becomes Run in this model,
\* and an Authenticate request.
Threads == {"monitor", "login"}

VARIABLES
    held,         \* tokens of the nonzero positions at Kite
    serving,      \* RestoreCachedSession has returned
    gate,         \* the thread that polls, or "free"
    positions,    \* the service's copy of held
    connected,    \* marketConnected
    ticks,        \* liveTicks, each with what became of the stream it came over
    pc, list,     \* where each thread is, and the tokens it read for the adapter
    streamMu,     \* the thread that holds it across steps, or "free"
    streamTokens,
    stream,       \* the newest generation's goroutine (runMarketStream)
    replaced,     \* callbacks that earlier generations' goroutines are about to make
    misled,       \* history: the last report spoke of no change of the current connection
    logins, trades, faults

service  == <<positions, connected, ticks>>
threads  == <<serving, gate, pc, list>>
adapter  == <<streamMu, streamTokens, stream, replaced>>
bounds   == <<logins, trades, faults>>
vars     == <<held, service, threads, adapter, misled, bounds>>

Mute == [what |-> "", step |-> "none", token |-> "none"]
Silent == [what |-> "nothing", step |-> "none", token |-> "none"]
Report(what) == [what |-> what, step |-> "check", token |-> "none"]
TickOf(token) == [what |-> "tick", step |-> "check", token |-> token]
NoStream == [conn |-> "none", tokens |-> {}, say |-> Silent]
NewStream == [conn |-> "connecting", tokens |-> streamTokens, say |-> Silent]

Labels == {"idle", "trades", "tokens", "sync", "syncStatus", "syncStart",
           "streamTokens", "stream", "streamStatus", "streamStart"}

Says == [what : {"nothing", "up", "down", "error", "tick"}, step : {"none", "check", "call"},
         token : Tokens \cup {"none"}]

TypeOK ==
    /\ {held, positions, streamTokens} \subseteq SUBSET Tokens
    /\ {gate, streamMu} \subseteq Threads \cup {"free"}
    /\ pc \in [Threads -> Labels] /\ list \in [Threads -> SUBSET Tokens]
    /\ ticks \subseteq Tokens \X {"newest", "overtaken", "replaced"}
    /\ {serving, connected, misled} \subseteq BOOLEAN
    /\ stream \in [conn : {"none", "connecting", "up"}, tokens : SUBSET Tokens, say : Says]
    /\ replaced \in Seq(Says)
    /\ {logins, trades, faults} \subseteq Nat

Init ==
    /\ held \in SUBSET Tokens
    /\ positions = {} /\ connected = FALSE /\ ticks = {}
    /\ serving = FALSE /\ gate = "free" /\ pc = [t \in Threads |-> "idle"] /\ list = [t \in Threads |-> {}]
    /\ streamMu = "free" /\ streamTokens = {} /\ stream = NoStream /\ replaced = <<>>
    /\ misled = FALSE /\ logins = 0 /\ trades = 0 /\ faults = 0

Works == UNCHANGED faults
Fails == faults < MaxFaults /\ faults' = faults + 1
GateFree == gate = "free"
MuFree == streamMu = "free"
At(t, label) == pc[t] = label
Goto(t, label) == pc' = [pc EXCEPT ![t] = label]
Started == stream.conn # "none"

-------------------------------------------------------------------------------
(* setMarketStatus and applyMarketTick; their effect on the runtime and the   *)
(* loss lock is LossLock's.                                                   *)

SetMarketStatus(up) ==
    /\ GateFree
    /\ connected' = up
    /\ ticks' = IF up THEN ticks ELSE {}
    /\ UNCHANGED positions

ApplyTick(token, from) ==
    /\ GateFree
    /\ IF token \in positions
       THEN ticks' = {x \in ticks : x[1] # token} \cup {<<token, from>>}
       ELSE UNCHANGED ticks
    /\ UNCHANGED <<positions, connected>>

-------------------------------------------------------------------------------
(* The polls and the logins.                                                  *)

\* PollOnce reads the positions, and the trades and orders after, under one gate.
PollPositions(t) ==
    /\ At(t, "idle") /\ GateFree
    /\ IF t = "login" THEN serving /\ logins < MaxLogins /\ logins' = logins + 1
       ELSE UNCHANGED logins
    /\ gate' = t /\ positions' = held
    /\ Goto(t, "trades")
    /\ UNCHANGED <<held, connected, ticks, serving, list, adapter, misled, trades, faults>>

\* SyncLocked would resubscribe with the gate still held.
SyncLocked == UNCHANGED gate
SyncUnlocked == gate' = "free"

Return(t) == Goto(t, "idle") /\ serving' = TRUE

\* A poll that failed returns an error: no resubscription, and no stream for the
\* login that made it.
PollOrders(t) ==
    /\ At(t, "trades")
    /\ \/ Works /\ SyncUnlocked /\ Goto(t, "tokens") /\ UNCHANGED serving
       \/ Fails /\ gate' = "free" /\ Return(t)
    /\ UNCHANGED <<held, service, list, adapter, misled, logins, trades>>

\* marketTokens, before SetMarketSubscriptions and before StartMarketStream
ReadTokens(t) ==
    /\ At(t, "tokens") \/ At(t, "streamTokens")
    /\ GateFree
    /\ list' = [list EXCEPT ![t] = positions]
    /\ Goto(t, IF At(t, "tokens") THEN "sync" ELSE "stream")
    /\ UNCHANGED <<held, service, serving, gate, adapter, misled, bounds>>

\* A restore and a login go on to start a stream.
Synced(t) == IF t = "login" \/ ~serving THEN "streamTokens" ELSE "idle"

Unfollow(t) == UNCHANGED streamTokens
Follow(t) == streamTokens' = list[t]

\* SetMarketSubscriptions up to its report
Resubscribe(t) ==
    /\ At(t, "sync") /\ MuFree
    /\ Follow(t)
    /\ IF streamTokens # list[t] /\ Started
       THEN streamMu' = t /\ Goto(t, "syncStatus")
       ELSE UNCHANGED streamMu /\ Goto(t, Synced(t))
    /\ UNCHANGED <<held, service, serving, gate, list, stream, replaced, misled, bounds>>

\* StartMarketStream up to its report; it fails when the adapter has learned that
\* the session is over.
StartStream(t) ==
    /\ At(t, "stream")
    /\ \/ /\ MuFree /\ Works
          /\ streamMu' = t /\ Follow(t) /\ Goto(t, "streamStatus")
          /\ UNCHANGED serving
       \/ Fails /\ Return(t) /\ UNCHANGED <<streamMu, streamTokens>>
    /\ UNCHANGED <<held, service, gate, list, stream, replaced, misled, logins, trades>>

ReplaceQuietly(t) ==
    /\ At(t, "syncStatus") \/ At(t, "streamStatus")
    /\ Goto(t, IF At(t, "syncStatus") THEN "syncStart" ELSE "streamStart")
    /\ UNCHANGED <<held, service, serving, gate, list, adapter, misled, bounds>>

\* callbacks.OnStatus(false) with streamMu held: setMarketStatus takes the gate.
ReportReplaced(t) ==
    /\ At(t, "syncStatus") \/ At(t, "streamStatus")
    /\ SetMarketStatus(FALSE) /\ misled' = FALSE
    /\ Goto(t, IF At(t, "syncStatus") THEN "syncStart" ELSE "streamStart")
    /\ UNCHANGED <<held, serving, gate, list, adapter, bounds>>

\* startMarketStreamLocked, and the release of streamMu.  The goroutine of the replaced
\* stream is cancelled; whatever it reports from now on fails the check of its
\* generation, except a callback that has passed it.
StartNext(t) ==
    /\ At(t, "syncStart") \/ At(t, "streamStart")
    /\ stream' = NewStream /\ streamMu' = "free"
    /\ replaced' = IF stream.say.step = "call" THEN Append(replaced, stream.say) ELSE replaced
    /\ ticks' = {<<x[1], IF x[2] = "newest" THEN "replaced" ELSE x[2]>> : x \in ticks}
    /\ IF At(t, "syncStart") THEN Goto(t, Synced(t)) /\ UNCHANGED serving ELSE Return(t)
    /\ UNCHANGED <<held, positions, connected, gate, list, streamTokens, misled, bounds>>

-------------------------------------------------------------------------------
(* The goroutine of a stream.  The ticker calls back one at a time.           *)

Idle == stream.say = Silent
Becomes(conn, say) == stream' = [stream EXCEPT !.conn = conn, !.say = say]

\* Nothing to subscribe, nothing to report.
ConnectQuietly ==
    /\ Idle /\ stream.conn = "connecting"
    /\ \/ Becomes("up", IF stream.tokens = {} THEN Silent ELSE Report("up"))
       \/ Becomes("connecting", Report("down"))
    /\ UNCHANGED <<held, service, threads, streamMu, streamTokens, replaced, misled, bounds>>

\* An attempt to connect and, in OnConnect, to subscribe the tokens; each failure is
\* reported, and tried again for ever.
Connect ==
    /\ Idle /\ stream.conn = "connecting"
    /\ Becomes("up", Report("up")) \/ Becomes("connecting", Report("down"))
    /\ UNCHANGED <<held, service, threads, streamMu, streamTokens, replaced, misled, bounds>>

\* OnClose, OnReconnect, OnNoReconnect or the end of ServeWithContext; the ticker or,
\* after five seconds, the goroutine connects again.
Lose ==
    /\ Idle /\ stream.conn = "up" /\ Fails
    /\ Becomes("connecting", Report("down"))
    /\ UNCHANGED <<held, service, threads, streamMu, streamTokens, replaced, misled, logins, trades>>

\* OnError need not mean that the connection is lost.
StreamError ==
    /\ Idle /\ Started /\ Fails
    /\ Becomes(stream.conn, Report("error"))
    /\ UNCHANGED <<held, service, threads, streamMu, streamTokens, replaced, misled, logins, trades>>

Tick ==
    /\ Idle /\ stream.conn = "up"
    /\ \E token \in stream.tokens : Becomes("up", TickOf(token))
    /\ UNCHANGED <<held, service, threads, streamMu, streamTokens, replaced, misled, bounds>>

\* currentMarketStream
Check ==
    /\ stream.say.step = "check" /\ MuFree
    /\ Becomes(stream.conn, [stream.say EXCEPT !.step = "call"])
    /\ UNCHANGED <<held, service, threads, streamMu, streamTokens, replaced, misled, bounds>>

\* The callback, checked before, of a stream that is the newest or replaced since.
Callback(say, newest) ==
    /\ say.step = "call"
    /\ \/ /\ say.what = "tick" /\ UNCHANGED misled
          /\ ApplyTick(say.token, IF newest /\ MuFree THEN "newest" ELSE "overtaken")
       \/ /\ say.what # "tick" /\ SetMarketStatus(say.what = "up")
          /\ misled' = (~(newest /\ MuFree) \/ (say.what = "error" /\ stream.conn = "up"))
    /\ UNCHANGED <<held, threads, streamMu, streamTokens, bounds>>

Call == Callback(stream.say, TRUE) /\ Becomes(stream.conn, Silent) /\ UNCHANGED replaced
CallReplaced(i) ==
    Callback(replaced[i], FALSE) /\ replaced' = RemoveAt(replaced, i) /\ UNCHANGED stream

-------------------------------------------------------------------------------

\* The account holder, here or in Kite itself.
Trade ==
    /\ trades < MaxTrades /\ trades' = trades + 1
    /\ held' \in SUBSET Tokens \ {held}
    /\ UNCHANGED <<service, threads, adapter, misled, logins, faults>>

-------------------------------------------------------------------------------

Goes(t) ==
    \/ PollOrders(t) \/ ReadTokens(t) \/ Resubscribe(t) \/ StartStream(t)
    \/ ReportReplaced(t) \/ StartNext(t)
Next ==
    \/ \E t \in Threads : PollPositions(t) \/ Goes(t)
    \/ Trade
    \/ Connect \/ Lose \/ StreamError \/ Tick \/ Check \/ Call
    \/ \E i \in DOMAIN replaced : CallReplaced(i)

Spec == Init /\ [][Next]_vars

\* Each mutex is handed to each waiter in the end (sync.Mutex), the polls recur, and
\* Kite's ticker tries again to connect.  No login, trade, tick, failure or working
\* connection has to come.
FairSpec ==
    /\ Spec
    /\ SF_vars(PollPositions("monitor") \/ Goes("monitor")) /\ SF_vars(Goes("login"))
    /\ SF_vars(Connect \/ Check \/ Call)
    /\ SF_vars(\E i \in DOMAIN replaced : CallReplaced(i))

-------------------------------------------------------------------------------
(* Properties.                                                                *)

Up == stream.conn = "up"
Quiet == MuFree /\ Idle

\* The newest stream alone is believed.  The service takes the market for connected
\* only while that stream is, apart from a report that is on its way and one that a
\* replaced stream made too late; and what prices the positions came over it, unless
\* a replaced stream's callback was overtaken by its replacement.
NewestSpeaks ==
    /\ connected /\ Quiet /\ ~misled => Up
    /\ \A x \in ticks : x[2] # "replaced"

\* Whatever the reports that cross, the service does not go on believing in a
\* connection that is lost, nor, unless it was misled, miss one that is there.
ReportsArrive == []<>(connected = Up \/ (Up /\ misled))

\* Two mutexes, taken in one order: a goroutine that changes the subscriptions is not
\* kept waiting for ever.
CallersReturn == []<>At("monitor", "idle") /\ []<>At("login", "idle")

\* In the end the stream follows the positions, whatever stale lists were set.
SubscriptionsSettle == <>[](Started => stream.tokens = held)
===============================================================================
