------------------------------ MODULE Dashboards ------------------------------
(***************************************************************************)
(* The dashboards: how a change of the service's state reaches the pages   *)
(* that are open.  Writers change the state under the gate and signal; a   *)
(* signal reaches every handler of /api/events through a channel that      *)
(* holds one; ticks are too many for that and are signalled by the display *)
(* timer of Run.  What the state is does not matter here: it is a version. *)
(***************************************************************************)
EXTENDS Integers

CONSTANTS
    Pages,       \* browser pages that may be open
    Stallers,    \* those that may stop reading without closing
    MaxVersion   \* bound on the changes of the service's state

ASSUME DashboardsAssumption == Stallers \subseteq Pages /\ MaxVersion \in Nat

VARIABLES
    \* Service
    version,     \* of the state that DashboardState returns
    owed,        \* the last version that is to be announced
    liveDirty,   \* a tick has not been announced
    signals,     \* goroutines that have changed the state and not yet notified
    monitor,     \* where Run is
    stopping,    \* rootCtx is cancelled and the broadcaster closed
    \* httpapi
    full,        \* pages whose channel holds a signal
    handler,     \* where the handler of each page is
    read,        \* the version each handler has read and is writing
    shown        \* the version each browser shows

service == <<version, owed, liveDirty, signals, monitor, stopping>>
pages   == <<handler, read, shown>>
vars    == <<service, full, pages>>

Versions == 0 .. MaxVersion

TypeOK ==
    /\ {version, owed} \subseteq Versions /\ owed <= version
    /\ signals \in Versions
    /\ {liveDirty, stopping} \subseteq BOOLEAN
    /\ monitor \in {"idle", "evaluate", "signal", "ended"}
    /\ full \subseteq Pages
    /\ handler \in [Pages -> {"none", "read", "write", "wait"}]
    /\ {read, shown} \subseteq [Pages -> Versions]

Misread == [p \in Pages |-> -1]
Unread == [p \in Pages |-> 0]

Subscribed == {p \in Pages : handler[p] # "none"}

Init ==
    /\ version = 0 /\ owed = 0 /\ liveDirty = FALSE /\ signals = 0
    /\ monitor = "idle" /\ stopping = FALSE
    /\ full = {} /\ handler = [p \in Pages |-> "none"] /\ read = Unread /\ shown = Unread

-------------------------------------------------------------------------------
(* The service.                                                               *)

Changes == version < MaxVersion /\ version' = version + 1

\* A poll, a request or a callback changes the state and will signal it; a status of
\* the stream is also left to the display timer.
Change ==
    /\ Changes /\ owed' = version' /\ signals' = signals + 1
    /\ liveDirty' \in {liveDirty, TRUE}
    /\ UNCHANGED <<monitor, stopping, full, pages>>

\* The session ends in a call of the broker, or the poll that follows finds it
\* ended: setAuthRequiredLocked and nothing else.
ChangeSilently ==
    /\ Changes
    /\ UNCHANGED <<owed, liveDirty, signals, monitor, stopping, full, pages>>

Tick ==
    /\ Changes /\ owed' = version' /\ liveDirty' = TRUE
    /\ UNCHANGED <<signals, monitor, stopping, full, pages>>

\* Were the channels unbuffered, or the send a blocking one:
PublishToWaiting == full' = full \cup {p \in Pages : handler[p] = "wait"}
PublishToAll == full \cap Subscribed = {} /\ full' = Subscribed

\* publish: a channel that is full already stands for this change as well.
Publish == full' = Subscribed

Signal ==
    /\ signals > 0 /\ signals' = signals - 1
    /\ Publish
    /\ UNCHANGED <<version, owed, liveDirty, monitor, stopping, pages>>

\* The display timer, every 100 ms.
Display ==
    /\ monitor = "idle" /\ liveDirty
    /\ monitor' = "evaluate" /\ liveDirty' = FALSE
    /\ UNCHANGED <<version, owed, signals, stopping, full, pages>>

EvaluateChanges ==
    /\ monitor = "evaluate"
    /\ \/ Changes /\ owed' = version' /\ monitor' = "signal"
       \/ UNCHANGED <<version, owed>> /\ monitor' = "idle"
    /\ UNCHANGED <<liveDirty, signals, stopping, full, pages>>

\* evaluateLiveRisk: it signals whether or not it has changed anything.
Evaluate ==
    /\ monitor = "evaluate"
    /\ \/ Changes /\ owed' = version'
       \/ UNCHANGED <<version, owed>>
    /\ monitor' = "signal"
    /\ UNCHANGED <<liveDirty, signals, stopping, full, pages>>

Show ==
    /\ monitor = "signal" /\ monitor' = "idle"
    /\ Publish
    /\ UNCHANGED <<version, owed, liveDirty, signals, stopping, pages>>

\* SIGTERM: CloseLiveStreams closes done, Shutdown closes the listener, and Run
\* returns at a select that takes ctx.Done.
Stop ==
    /\ ~stopping /\ stopping' = TRUE
    /\ UNCHANGED <<version, owed, liveDirty, signals, monitor, full, pages>>

End ==
    /\ stopping /\ monitor = "idle" /\ monitor' = "ended"
    /\ UNCHANGED <<version, owed, liveDirty, signals, stopping, full, pages>>

-------------------------------------------------------------------------------
(* The handler of one page's stream.                                         *)

Connect(p) ==
    /\ ~stopping /\ handler[p] = "none"
    /\ handler' = [handler EXCEPT ![p] = "read"] /\ full' = full \ {p}
    /\ UNCHANGED <<service, read, shown>>

\* writeDashboardEvent: DashboardState, under the gate, and then the write.
Read(p) ==
    /\ handler[p] = "read"
    /\ read' = [read EXCEPT ![p] = version]
    /\ handler' = [handler EXCEPT ![p] = "write"]
    /\ UNCHANGED <<service, full, shown>>

Write(p) ==
    /\ handler[p] = "write"
    /\ shown' = [shown EXCEPT ![p] = read[p]]
    /\ handler' = [handler EXCEPT ![p] = "wait"]
    /\ UNCHANGED <<service, full, read>>

Leave(p) ==
    /\ handler' = [handler EXCEPT ![p] = "none"] /\ full' = full \ {p}
    /\ UNCHANGED <<service, read, shown>>

Update(p) ==
    /\ handler[p] = "wait" /\ p \in full
    /\ full' = full \ {p} /\ handler' = [handler EXCEPT ![p] = "read"]
    /\ UNCHANGED <<service, read, shown>>

\* The browser has closed the page, or a write or heartbeat has failed.
Disconnect(p) == handler[p] \in {"write", "wait"} /\ Leave(p)

DoneUnheard(p) == handler[p] = "wait" /\ stopping /\ p \in full /\ Leave(p)

Done(p) == handler[p] = "wait" /\ stopping /\ Leave(p)

-------------------------------------------------------------------------------

Next ==
    \/ Change \/ ChangeSilently \/ Tick \/ Signal
    \/ Display \/ Evaluate \/ Show \/ Stop \/ End
    \/ \E p \in Pages :
          Connect(p) \/ Read(p) \/ Write(p) \/ Update(p) \/ Disconnect(p) \/ Done(p)

Spec == Init /\ [][Next]_vars

\* Goroutines run, and the gate is handed to each that waits.  A write returns
\* if the browser reads, which Stallers need not.  select takes each of the
\* branches that are ready in the end: Go chooses among them at random.
FairSpec ==
    /\ Spec
    /\ WF_vars(Signal) /\ WF_vars(Display) /\ WF_vars(Evaluate) /\ WF_vars(Show)
    /\ \A p \in Pages : WF_vars(Read(p)) /\ SF_vars(Update(p)) /\ SF_vars(Done(p))
    /\ \A p \in Pages \ Stallers : WF_vars(Write(p))

-------------------------------------------------------------------------------
(* Properties.                                                                *)

Announced == signals = 0 /\ ~liveDirty /\ monitor \in {"idle", "ended"}

\* No wakeup is lost: once all is announced, a handler that sleeps with an empty
\* channel has shown all there was to announce.  Signals that met a full channel,
\* or a handler still busy with its last write, were not forgotten.
NothingMissed ==
    Announced => \A p \in Pages : handler[p] = "wait" /\ p \notin full => shown[p] >= owed

\* An open page shows every announced change, or a later state, in the end,
\* whatever its neighbours do.
PagesCatchUp ==
    \A p \in Pages \ Stallers, v \in Versions :
        owed >= v /\ handler[p] # "none" ~> shown[p] >= v \/ handler[p] = "none"

\* No browser can hold up the risk monitor, not even one that has stopped
\* reading: Run returns from announcing.
MonitorGoesOn == monitor \in {"evaluate", "signal"} ~> monitor = "idle"

\* A shutdown ends the streams that nobody has closed; http.Server.Shutdown waits
\* for them.
PagesClose == stopping ~> \A p \in Pages \ Stallers : handler[p] = "none"
===============================================================================
