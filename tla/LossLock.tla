------------------------------- MODULE LossLock -------------------------------
(***************************************************************************)
(* The trading service's state machine around the daily loss lock:         *)
(* service.go's Service, its two mutexes and the goroutines that use them, *)
(* the trading_state row of store/sqlite.go, and the part of Kite that the *)
(* decisions depend on.                                                    *)
(*                                                                         *)
(* A thread's step is a stretch of code between two points where another   *)
(* goroutine or Kite can act: taking or releasing the gate, waiting for    *)
(* the operation mutex, a broker call made without the gate, a database    *)
(* write made without the gate.                                            *)
(***************************************************************************)
EXTENDS Naturals

CONSTANTS
    Threads,        \* the goroutines of this model, of AllThreads
    LastDay,        \* last 09:15 opening in the configured calendar; bounds the clock
    MaxEntered,     \* bound on orders submitted through the service
    MaxFaults,      \* bound on failures: broker, database, crash, direct Kite trades
    Attempts,       \* liquidation passes of one liquidate call (6 in the code)
    MarketRequired  \* the broker is a MarketStreamer (Kite is; a test broker may not be)

\* The Run loop (which first restores the cached session), an HTTP Authenticate
\* handler, the goroutine a market tick starts, and a PlaceBasket handler.
AllThreads == {"monitor", "login", "tick", "basket"}

ASSUME ConstantsAssumption ==
    /\ Threads \subseteq AllThreads /\ "monitor" \in Threads
    /\ LastDay \in Nat /\ MaxEntered \in Nat /\ MaxFaults \in Nat
    /\ Attempts \in Nat \ {0}
    /\ MarketRequired \in BOOLEAN

VARIABLES
    \* Kite and the world
    day,          \* 09:15 openings passed
    pos,          \* an F&O position is open
    ord,          \* an F&O order is live
    loss,         \* the reported day MTM is at or below the limit
    session,      \* Kite accepts the current access token
    faults,       \* failures so far
    \* the process
    phase,        \* "down", "restoring" (RestoreCachedSession), "running"
    lock,         \* trading and lockRecord: status, unlockAt (0 is unset), liq
    lockPersisted,
    runtime,
    marketGap,    \* lockRecord.LastError is marketDataUnavailable
    authed,
    attention,    \* "hard" (hardAttention), "orders" (only the attention map), "none"
    seenPos,      \* positions and mtm as last read (orders are only used by the poll that reads them)
    seenLoss,
    connected,    \* marketConnected
    live,         \* the ticks and trades price every position
    streaming,    \* StartMarketStream was called, so callbacks can arrive
    subscribed,   \* the stream follows the position's token
    gate,         \* holder across steps, or "free"
    operation,    \* holder of the operation mutex, or "free"
    pc,           \* where each thread is
    attempt,      \* liquidation pass of the operation's holder
    \* the database row
    stored,
    \* history
    entered,      \* orders and modifications submitted
    flatSeen,     \* a liquidation pass has found the account flat since the lock
    fresh,        \* a poll has succeeded since trading became ACTIVE
    late          \* since the last poll a liquidation ended with trading already ACTIVE

world    == <<day, pos, ord, loss, session>>
account  == <<lock, lockPersisted, stored, flatSeen, fresh, late>>
status   == <<runtime, marketGap, authed>>
view     == <<seenPos, seenLoss, attention>>
market   == <<connected, live, streaming, subscribed>>
mutexes  == <<gate, operation, attempt>>
vars     == <<world, faults, phase, account, status, view, market, mutexes, pc, entered>>

Runtimes == {"AUTH_REQUIRED", "READY", "MONITORING_DEGRADED", "BASKET_DEPLOYING", "LIQUIDATING"}
LiqStates == {"", "IN_PROGRESS", "RETRYING", "COMPLETED"}
LockRecord == [status : {"ACTIVE", "LOCKED"}, unlockAt : Nat, liq : LiqStates]
Labels == {"idle", "restore", "init", "instruments", "poll", "check", "reload", "noAuth",
           "expired", "noCatalogue", "positions", "orders", "sync", "syncLiquidate", "stream",
           "acquire", "cancel", "scan", "finish", "authLost", "giveUp", "saveDone", "saveRetry",
           "waiting", "legs", "closing", "attention", "ending"}

WorldTypes == day \in Nat /\ {pos, ord, loss, session} \subseteq BOOLEAN
AccountTypes == {lock, stored} \subseteq LockRecord /\ {lockPersisted, flatSeen, fresh, late} \subseteq BOOLEAN
StatusTypes == runtime \in Runtimes /\ {marketGap, authed} \subseteq BOOLEAN
ViewTypes == {seenPos, seenLoss} \subseteq BOOLEAN /\ attention \in {"hard", "orders", "none"}
MarketTypes == {connected, live, streaming, subscribed} \subseteq BOOLEAN
MutexTypes == {gate, operation} \subseteq Threads \cup {"free"} /\ attempt \in Nat
ControlTypes ==
    /\ phase \in {"down", "restoring", "running"} /\ pc \in [Threads -> Labels]
    /\ {faults, entered} \subseteq Nat

TypeOK ==
    /\ WorldTypes /\ AccountTypes /\ StatusTypes /\ ViewTypes /\ MarketTypes /\ MutexTypes
    /\ ControlTypes

BlankLock == [status |-> "", unlockAt |-> 0, liq |-> ""]

\* domain.LockRecord{Status: ACTIVE}, and the row Unlock writes
NoLock == [status |-> "ACTIVE", unlockAt |-> 0, liq |-> ""]
Locked == lock.status = "LOCKED"
DueUnset(record) == record.status = "LOCKED" /\ day >= record.unlockAt
Due(record) == record.status = "LOCKED" /\ record.unlockAt # 0 /\ day >= record.unlockAt

Works == UNCHANGED faults
Fails == faults < MaxFaults /\ faults' = faults + 1

GateFree == phase # "down" /\ gate = "free"
\* main starts the HTTP server and Run after RestoreCachedSession returned.
Serving == phase = "running" /\ gate = "free"
At(t, label) == pc[t] = label
Goto(t, label) == pc' = [pc EXCEPT ![t] = label]

\* Between restart and Run, and in every Authenticate, a successful PollOnce is
\* followed by StartMarketStream (initializeAuthenticatedSession).
Initializing(t) == t = "login" \/ (t = "monitor" /\ phase = "restoring")
ReturnNil(t) ==
    /\ Goto(t, IF Initializing(t) THEN "stream" ELSE "idle")
    /\ UNCHANGED phase
ReturnError(t) ==
    /\ Goto(t, "idle")
    /\ phase' = IF t = "monitor" THEN "running" ELSE phase

SetAuthRequired == authed' = FALSE /\ runtime' = "AUTH_REQUIRED" /\ marketGap' = FALSE
Degrade == runtime' = "MONITORING_DEGRADED" /\ marketGap' = FALSE /\ UNCHANGED authed

\* marketRiskReadyLocked
MarketReady(isConnected, hasPosition, isLive) ==
    MarketRequired => isConnected /\ (hasPosition => isLive)

SetMarketStatusQuiet(up) ==
    /\ connected' = up
    /\ live' \in IF ~up THEN {FALSE} ELSE IF seenPos THEN {live} ELSE BOOLEAN
    /\ UNCHANGED status

\* setMarketStatus, of any caller that does not hold the gate
SetMarketStatus(up) ==
    /\ connected' = up
    /\ live' \in IF ~up THEN {FALSE} ELSE IF seenPos THEN {live} ELSE BOOLEAN
    /\ IF ~Locked /\ runtime = "READY" /\ ~MarketReady(up, seenPos, live')
       THEN runtime' = "MONITORING_DEGRADED" /\ marketGap' = TRUE
       ELSE UNCHANGED <<runtime, marketGap>>
    /\ UNCHANGED authed

\* SQLite.Lock: the first lock wins, the statement only matches an ACTIVE row.
StoreLock(record) == IF stored.status = "ACTIVE" THEN record ELSE stored
StoreLiquidation(state) == [stored EXCEPT !.liq = state]

\* Calendar.NextUnlock: the opening after the breach's date.  A breach before
\* that day's own opening skips it; past the calendar's year there is none.
NextUnlocks == {IF d <= LastDay THEN d ELSE 0 : d \in {day + 1, day + 2}}

EnterDailyLossLock ==
    \E u \in NextUnlocks :
        LET record == [status |-> "LOCKED", unlockAt |-> u, liq |-> "IN_PROGRESS"] IN
        /\ lock' = record
        /\ \/ Works /\ stored' = StoreLock(record) /\ lockPersisted' = TRUE
           \/ Fails /\ stored' = stored /\ lockPersisted' = FALSE
        /\ flatSeen' = FALSE /\ fresh' = FALSE /\ late' = FALSE
        /\ runtime' = "LIQUIDATING" /\ marketGap' = FALSE /\ UNCHANGED authed

\* LOCKED to ACTIVE in memory, after store.Unlock succeeded (maybeUnlockLocked)
Unlock ==
    /\ stored' = NoLock /\ lock' = NoLock
    /\ runtime' = (IF authed THEN "MONITORING_DEGRADED" ELSE "AUTH_REQUIRED")
    /\ marketGap' = FALSE
    /\ UNCHANGED <<authed, lockPersisted, flatSeen, fresh, late>>

\* Positions or trades changed: whether they can still be priced is Kite's.
Reprice == live' \in IF connected THEN BOOLEAN ELSE {FALSE}

-------------------------------------------------------------------------------
(* Init and restart.  New reads the row, unlocks it when overdue, and leaves  *)
(* everything else to be learned again.                                       *)

Forget ==
    /\ lockPersisted' = TRUE /\ fresh' = FALSE /\ late' = FALSE
    /\ runtime' = "AUTH_REQUIRED" /\ marketGap' = FALSE /\ authed' = FALSE
    /\ attention' = "none" /\ seenPos' = FALSE /\ seenLoss' = FALSE
    /\ connected' = FALSE /\ live' = FALSE /\ streaming' = FALSE /\ subscribed' = FALSE
    /\ gate' = "free" /\ operation' = "free" /\ attempt' = 0

Init ==
    /\ day = 0 /\ pos \in BOOLEAN /\ ord = FALSE /\ loss = FALSE /\ session \in BOOLEAN /\ faults = 0
    /\ phase = "down" /\ lock = NoLock /\ lockPersisted = TRUE
    /\ runtime = "AUTH_REQUIRED" /\ marketGap = FALSE /\ authed = FALSE
    /\ attention = "none" /\ seenPos = FALSE /\ seenLoss = FALSE
    /\ connected = FALSE /\ live = FALSE /\ streaming = FALSE /\ subscribed = FALSE
    /\ gate = "free" /\ operation = "free" /\ pc = [t \in Threads |-> "idle"] /\ attempt = 0
    /\ stored = NoLock /\ entered = 0 /\ flatSeen = FALSE /\ fresh = FALSE
    /\ late = FALSE

Crash ==
    /\ phase # "down" /\ Fails
    /\ phase' = "down" /\ pc' = [t \in Threads |-> "idle"]
    /\ lock' = NoLock
    /\ Forget
    /\ UNCHANGED <<world, stored, flatSeen, entered>>

Start ==
    /\ phase = "down"
    /\ IF Due(stored) /\ stored.liq = "COMPLETED"
       THEN stored' = NoLock ELSE stored' = stored
    /\ lock' = stored'
    /\ phase' = "restoring" /\ Goto("monitor", "restore")
    /\ Forget
    /\ Works
    /\ UNCHANGED <<world, flatSeen, entered>>

-------------------------------------------------------------------------------
(* Authenticate, RestoreCachedSession and initializeAuthenticatedSession.     *)

RestoreNoSession(t) ==
    /\ At(t, "restore") /\ ReturnError(t)
    /\ UNCHANGED <<world, faults, account, status, view, market, mutexes, entered>>

RestoreSession(t) ==
    /\ At(t, "restore") /\ Goto(t, "init")
    /\ UNCHANGED <<world, faults, phase, account, status, view, market, mutexes, entered>>

\* GenerateSession gives Kite a new token before the gate is taken; the cache
\* may then refuse to store it.
Authenticate(t) ==
    /\ t = "login" /\ At(t, "idle") /\ phase = "running"
    /\ session' = TRUE
    /\ \/ Works /\ Goto(t, "init") /\ UNCHANGED status
       \/ Fails /\ GateFree /\ SetAuthRequired /\ UNCHANGED pc
    /\ UNCHANGED <<day, pos, ord, loss, phase, account, view, market, mutexes, entered>>

InitSession(t) ==
    /\ At(t, "init") /\ GateFree
    /\ authed' = TRUE /\ runtime' = "MONITORING_DEGRADED" /\ marketGap' = FALSE
    /\ Goto(t, "instruments")
    /\ UNCHANGED <<world, faults, phase, account, view, market, mutexes, entered>>

\* refreshInstruments: Kite is asked without the gate.
Instruments(t) ==
    /\ At(t, "instruments") \/ At(t, "reload")
    /\ \/ session /\ Works /\ Goto(t, IF At(t, "reload") THEN "positions" ELSE "poll")
       \/ ~session /\ Works /\ Goto(t, "expired")
       \/ Fails /\ Goto(t, "noCatalogue")
    /\ UNCHANGED <<world, phase, account, status, view, market, mutexes, entered>>

\* What was found without the gate is written under it, whatever happened in between.
ReportFailure(t) ==
    /\ GateFree
    /\ \/ At(t, "noAuth") /\ runtime' = "AUTH_REQUIRED" /\ UNCHANGED <<authed, marketGap>>
       \/ At(t, "expired") /\ SetAuthRequired
       \/ At(t, "noCatalogue") /\ Degrade
    /\ ReturnError(t)
    /\ UNCHANGED <<world, faults, account, view, market, mutexes, entered>>

\* StartMarketStream; its own failure (an adapter that already knows of an
\* expired session) is logged and forgotten.
StartStream(t) ==
    /\ At(t, "stream") /\ GateFree
    /\ \/ /\ MarketRequired
          /\ streaming' = TRUE /\ subscribed' = seenPos /\ SetMarketStatus(FALSE)
       \/ ~(MarketRequired /\ session) /\ UNCHANGED <<market, status>>
    /\ ReturnError(t)
    /\ UNCHANGED <<world, faults, account, view, mutexes, entered>>

-------------------------------------------------------------------------------
(* PollOnce, on the Run loop or inside initializeAuthenticatedSession.        *)

AtPoll(t) == At(t, "poll") \/ (t = "monitor" /\ phase = "running" /\ At(t, "idle"))

\* MaybeUnlock.  A due lock whose liquidation is not complete is withheld; a
\* database that cannot record the unlock ends the poll.
PollUnlock(t) ==
    /\ AtPoll(t) /\ GateFree
    /\ \/ /\ ~Due(lock)
          /\ Works /\ Goto(t, "check") /\ UNCHANGED <<account, status, phase>>
       \/ /\ Due(lock) /\ lock.liq # "COMPLETED"
          /\ runtime' = (IF authed THEN "LIQUIDATING" ELSE "AUTH_REQUIRED")
          /\ marketGap' = FALSE
          /\ Works /\ Goto(t, "check") /\ UNCHANGED <<account, authed, phase>>
       \/ /\ Due(lock) /\ lock.liq = "COMPLETED"
          /\ Unlock
          /\ Works /\ Goto(t, "check") /\ UNCHANGED phase
       \/ /\ Due(lock) /\ lock.liq = "COMPLETED"
          /\ Fails /\ ReturnError(t) /\ UNCHANGED <<account, status>>
    /\ UNCHANGED <<world, view, market, mutexes, entered>>

\* authed is read under the gate, as is whether the catalogue is empty, which is not
\* tracked: any poll may have to reload it.
PollCheck(t) ==
    /\ At(t, "check") /\ GateFree
    /\ \/ authed /\ (Goto(t, "positions") \/ Goto(t, "reload"))
       \/ ~authed /\ Goto(t, "noAuth")
    /\ UNCHANGED <<world, faults, phase, account, status, view, market, mutexes, entered>>

\* Positions could not be read, or their MTM is invalid.
PollBlind(t) ==
    /\ At(t, "positions") /\ GateFree
    /\ \/ ~session /\ Works /\ SetAuthRequired
       \/ Fails /\ Degrade
    /\ ReturnError(t)
    /\ UNCHANGED <<world, account, view, market, mutexes, entered>>

\* The reported MTM is at the limit: lock, release the gate, liquidate.
PollBreach(t) ==
    /\ At(t, "positions") /\ GateFree
    /\ session /\ loss /\ ~Locked
    /\ seenPos' = pos /\ seenLoss' = TRUE
    /\ EnterDailyLossLock
    /\ Reprice
    /\ Goto(t, "acquire")
    /\ UNCHANGED <<world, phase, attention, connected, streaming, subscribed, mutexes, entered>>

RetryUnsaved == stored' = stored /\ lockPersisted' = TRUE /\ UNCHANGED <<lock, flatSeen, fresh, late>>

\* retryLockPersistenceLocked
RetryPersistence ==
    /\ stored' = StoreLock(lock) /\ lockPersisted' = TRUE
    /\ UNCHANGED <<lock, flatSeen, fresh, late>>

\* The gate stays taken from this read to the orders read.
PollPositions(t) ==
    /\ At(t, "positions") /\ GateFree
    /\ session /\ (Locked \/ ~loss)
    /\ seenPos' = pos /\ seenLoss' = loss
    /\ IF Locked /\ ~lockPersisted
       THEN (Works /\ RetryPersistence) \/ (Fails /\ UNCHANGED account)
       ELSE Works /\ UNCHANGED account
    /\ gate' = t /\ Goto(t, "orders")
    /\ UNCHANGED <<world, phase, status, attention, market, operation, attempt, entered>>

\* purgeExpiredExitIntentsLocked failed; the lock's retry still ran.
PollPurgeFails(t) ==
    /\ At(t, "positions") /\ GateFree
    /\ session /\ (Locked \/ ~loss)
    /\ seenPos' = pos /\ seenLoss' = loss
    /\ Fails
    /\ UNCHANGED account \/ (Locked /\ ~lockPersisted /\ RetryPersistence)
    /\ runtime' = (IF Locked THEN "LIQUIDATING" ELSE "MONITORING_DEGRADED")
    /\ marketGap' = FALSE
    /\ Reprice
    /\ ReturnError(t)
    /\ UNCHANGED <<world, authed, attention, connected, streaming, subscribed, mutexes, entered>>

\* Trades or orders could not be read, or an exit intent could not be
\* reconciled.  A locked account is liquidated all the same, except in the last.
PollUnread(t) ==
    /\ At(t, "orders") /\ gate' = "free"
    /\ \/ ~session /\ Works /\ SetAuthRequired /\ ReturnError(t)
       \/ /\ Locked /\ Fails
          /\ runtime' = "LIQUIDATING" /\ marketGap' = FALSE /\ UNCHANGED authed
          /\ Goto(t, "acquire") /\ UNCHANGED phase
       \/ Fails /\ Degrade /\ ReturnError(t)
    /\ Reprice
    /\ UNCHANGED <<world, account, view, connected, streaming, subscribed, operation, attempt, entered>>

\* portfolioFlat, of the positions and orders this poll has read
FlatPositions == ~seenPos
PortfolioFlat == ~seenPos /\ ~ord

\* shouldLiquidate; a liquidation that gave up is taken up again.
LiquidateFirst == Locked /\ lock'.liq = "IN_PROGRESS"
ShouldLiquidate == Locked /\ lock'.liq # "COMPLETED"

\* The rest of a successful poll.  hardAttention is lifted from a flat account; a
\* rollback order leaves the attention map once it is complete.
PollOrders(t) ==
    LET reopened == Locked /\ ~PortfolioFlat /\ lock.liq = "COMPLETED" IN
    /\ At(t, "orders") /\ session
    /\ gate' = "free"
    /\ fresh' = ~Locked /\ late' = FALSE
    /\ Reprice
    /\ lock' = IF reopened THEN [lock EXCEPT !.liq = "IN_PROGRESS"] ELSE lock
    /\ \/ Works /\ stored' = IF reopened THEN StoreLiquidation("IN_PROGRESS") ELSE stored
       \/ reopened /\ Fails /\ stored' = stored     \* logged and forgotten
    /\ attention' \in IF attention = "orders" \/ (attention = "hard" /\ PortfolioFlat)
                     THEN {"orders", "none"} ELSE {attention}
    /\ IF Locked
       THEN /\ runtime' = IF reopened THEN "LIQUIDATING" ELSE runtime
            /\ marketGap' = (marketGap /\ ~reopened)
       ELSE IF attention' # "none" THEN runtime' = "MONITORING_DEGRADED" /\ marketGap' = FALSE
       ELSE IF runtime = "BASKET_DEPLOYING" THEN UNCHANGED <<runtime, marketGap>>
       ELSE /\ marketGap' = ~MarketReady(connected, seenPos, live')
            /\ runtime' = IF marketGap' THEN "MONITORING_DEGRADED" ELSE "READY"
    /\ Goto(t, IF ShouldLiquidate THEN "syncLiquidate" ELSE "sync")
    /\ UNCHANGED <<world, phase, lockPersisted, authed, seenPos, seenLoss, connected, streaming,
                   subscribed, flatSeen, operation, attempt, entered>>

\* syncMarketSubscriptions: a changed token set restarts a started stream.
PollSync(t) ==
    /\ At(t, "sync") \/ At(t, "syncLiquidate")
    /\ GateFree
    /\ subscribed' = (MarketRequired /\ seenPos)
    /\ IF streaming /\ subscribed # seenPos
       THEN SetMarketStatus(FALSE) ELSE UNCHANGED <<connected, live, status>>
    /\ IF At(t, "sync") THEN ReturnNil(t) ELSE Goto(t, "acquire") /\ UNCHANGED phase
    /\ UNCHANGED <<world, faults, account, view, streaming, mutexes, entered>>

\* evaluateLiveRisk, every 100 ms on the Run loop
EvaluateLiveRisk(t) ==
    /\ t = "monitor" /\ At(t, "idle") /\ Serving /\ ~Locked
    /\ \/ live /\ EnterDailyLossLock /\ Goto(t, "acquire")
       \/ /\ Works /\ UNCHANGED <<account, pc, authed>>
          /\ \/ /\ runtime = "READY" /\ ~MarketReady(connected, seenPos, live)
                /\ runtime' = "MONITORING_DEGRADED" /\ marketGap' = TRUE
             \/ /\ runtime = "MONITORING_DEGRADED" /\ marketGap
                /\ MarketReady(connected, seenPos, live)
                /\ runtime' = "READY" /\ marketGap' = FALSE
    /\ UNCHANGED <<world, phase, view, market, mutexes, entered>>

-------------------------------------------------------------------------------
(* liquidate and liquidationPass.  Only the writes to the service's own state *)
(* take the gate; nothing asks whether the account is still locked.           *)

Acquire(t) ==
    /\ At(t, "acquire") /\ operation = "free"
    /\ operation' = t /\ attempt' = 1 /\ Goto(t, "cancel")
    /\ UNCHANGED <<world, faults, phase, account, status, view, market, gate, entered>>

\* The pass did not finish: try again, or give up after the last attempt.
Retry(t) ==
    IF attempt < Attempts
    THEN attempt' = attempt + 1 /\ Goto(t, "cancel")
    ELSE attempt' = attempt /\ Goto(t, "giveUp")

\* Orders are read, cancelled and read again.
PassCancel(t) ==
    /\ At(t, "cancel")
    /\ \/ session /\ Works /\ ord' = FALSE /\ Goto(t, "scan") /\ UNCHANGED attempt
       \/ ~session /\ Works /\ ord' = ord /\ Goto(t, "authLost") /\ UNCHANGED attempt
       \/ session /\ Fails /\ ord' \in {ord, FALSE} /\ Retry(t)
    /\ UNCHANGED <<day, pos, loss, session, phase, account, status, view, market, gate,
                   operation, entered>>

\* Positions are read after the orders.  An open one is exited and the pass is
\* not complete; whether the exit has filled by the next pass is Kite's.
PassPositions(t) ==
    /\ At(t, "scan")
    /\ \/ /\ session /\ ~pos
          /\ flatSeen' = TRUE
          /\ Works /\ Goto(t, "finish") /\ UNCHANGED <<pos, attempt>>
       \/ session /\ pos /\ Works /\ pos' = FALSE /\ Retry(t) /\ UNCHANGED flatSeen
       \/ session /\ Fails /\ pos' = pos /\ Retry(t) /\ UNCHANGED flatSeen
       \/ ~session /\ Works /\ Goto(t, "authLost") /\ UNCHANGED <<pos, flatSeen, attempt>>
    /\ UNCHANGED <<day, ord, loss, session, phase, lock, lockPersisted, stored, fresh, late,
                   status, view, market, gate, operation, entered>>

\* The 30 seconds of an Authenticate request are over: its liquidation stops where
\* it is and says nothing of its outcome.
Expire(t) ==
    /\ t = "login" /\ At(t, "cancel") /\ Fails
    /\ operation' = "free" /\ attempt' = 0
    /\ ReturnError(t)
    /\ UNCHANGED <<world, account, status, view, market, gate, entered>>

\* The pass's outcome, under the gate; the row is written after it is released.
Conclude(t) ==
    /\ GateFree
    /\ \/ /\ At(t, "finish") /\ Goto(t, "saveDone")
          /\ lock' = [lock EXCEPT !.liq = "COMPLETED"]
          /\ runtime' = "READY" /\ marketGap' = FALSE /\ UNCHANGED authed
       \/ /\ At(t, "authLost") /\ Goto(t, "saveRetry")
          /\ lock' = [lock EXCEPT !.liq = "RETRYING"]
          /\ SetAuthRequired
       \/ /\ At(t, "giveUp") /\ Goto(t, "saveRetry")
          /\ lock' = [lock EXCEPT !.liq = "RETRYING"]
          /\ runtime' = "LIQUIDATING" /\ marketGap' = FALSE /\ UNCHANGED authed
    /\ late' = (late \/ (At(t, "finish") /\ ~Locked))
    /\ UNCHANGED <<world, faults, phase, lockPersisted, stored, flatSeen, fresh, view, market,
                   mutexes, entered>>

\* store.UpdateLiquidation, without the gate; then the operation is released.
SaveOutcome(t) ==
    /\ At(t, "saveDone") \/ At(t, "saveRetry")
    /\ \/ Works /\ stored' = StoreLiquidation(IF At(t, "saveDone") THEN "COMPLETED" ELSE "RETRYING")
       \/ Fails /\ stored' = stored
    /\ operation' = "free" /\ attempt' = 0
    /\ IF At(t, "saveDone") /\ faults' = faults THEN ReturnNil(t) ELSE ReturnError(t)
    /\ UNCHANGED <<world, lock, lockPersisted, flatSeen, fresh, late, status, view, market, gate,
                   entered>>

-------------------------------------------------------------------------------
(* Requests of the browser: each holds the gate across its broker calls.      *)

\* preTradeStateDecisionLocked; risk.Evaluate repeats it, and records the MTM
\* without comparing it with the limit.
MayTrade == Serving /\ ~Locked /\ authed /\ runtime = "READY"

\* The broker's answer to a submission: accepted, refused for the session, or
\* an error that leaves open whether Kite took it.
Submitted(accepted) ==
    \/ /\ session /\ Works /\ Degrade /\ accepted /\ entered' = entered + 1
    \/ /\ ~session /\ Works /\ SetAuthRequired /\ UNCHANGED <<ord, entered>>
    \/ /\ Fails /\ UNCHANGED status
       /\ (accepted /\ entered' = entered + 1) \/ UNCHANGED <<ord, entered>>

Place ==
    /\ MayTrade /\ entered < MaxEntered
    /\ Submitted(ord' = TRUE)
    /\ UNCHANGED <<day, pos, loss, session, phase, account, view, market, mutexes, pc>>

Modify ==
    /\ MayTrade /\ entered < MaxEntered /\ (session => ord)
    /\ Submitted(UNCHANGED ord)
    /\ UNCHANGED <<day, pos, loss, session, phase, account, view, market, mutexes, pc>>

Cancel ==
    /\ Serving /\ authed /\ Works
    /\ \/ session /\ ord /\ ord' = FALSE /\ UNCHANGED status
       \/ ~session /\ SetAuthRequired /\ UNCHANGED ord
    /\ UNCHANGED <<day, pos, loss, session, phase, account, view, market, mutexes, pc, entered>>

\* ExitPosition reads positions and orders; when there is nothing to exit or an
\* earlier exit is unresolved it changes nothing.  Whether the exit fills, and
\* whether an error hides an exit that Kite took, is Kite's.
ExitPosition ==
    /\ Serving /\ authed
    /\ \/ /\ session /\ pos
          /\ pos' \in {pos, FALSE}
          /\ \/ Works /\ IF Locked THEN UNCHANGED status ELSE Degrade
             \/ Fails /\ UNCHANGED status
       \/ /\ ~session /\ Works /\ SetAuthRequired /\ UNCHANGED pos
    /\ UNCHANGED <<day, ord, loss, session, phase, account, seenPos, seenLoss, attention, market,
                   mutexes, pc, entered>>

-------------------------------------------------------------------------------
(* PlaceBasket: the runtime says BASKET_DEPLOYING before the operation mutex  *)
(* is held, each leg asks again, and the end only restores a runtime that is  *)
(* still the basket's.  Its fills and rollback are another module's subject.  *)

BasketStart(t) ==
    /\ t = "basket" /\ At(t, "idle")
    /\ Serving /\ ~Locked /\ authed /\ runtime = "READY"
    /\ runtime' = "BASKET_DEPLOYING" /\ marketGap' = FALSE
    /\ Goto(t, "waiting")
    /\ UNCHANGED <<world, faults, phase, account, authed, view, market, mutexes, entered>>

BasketAcquire(t) ==
    /\ At(t, "waiting") /\ operation = "free"
    /\ operation' = t /\ Goto(t, "legs")
    /\ UNCHANGED <<world, faults, phase, account, status, view, market, gate, attempt, entered>>

BasketLeg(t) ==
    /\ At(t, "legs") /\ GateFree
    /\ ~Locked /\ runtime = "BASKET_DEPLOYING" /\ entered < MaxEntered
    /\ \/ session /\ Works /\ ord' = TRUE /\ entered' = entered + 1 /\ UNCHANGED <<status, pc>>
       \/ ~session /\ Works /\ SetAuthRequired /\ Goto(t, "closing") /\ UNCHANGED <<ord, entered>>
       \/ /\ Fails /\ Goto(t, "closing") /\ UNCHANGED status
          /\ (ord' = TRUE /\ entered' = entered + 1) \/ UNCHANGED <<ord, entered>>
    /\ UNCHANGED <<day, pos, loss, session, phase, account, view, market, mutexes>>

\* All legs are placed, or the next is refused because the state changed.
BasketStop(t) ==
    /\ At(t, "legs") /\ Goto(t, "closing")
    /\ UNCHANGED <<world, faults, phase, account, status, view, market, mutexes, entered>>

\* A broker call of awaitPhase, cancelPhase, captureFills or rollbackPhase found
\* the session expired (markAuthenticationRequired).
BasketAuthLost(t) ==
    /\ At(t, "legs") \/ At(t, "closing")
    /\ GateFree /\ ~session
    /\ SetAuthRequired /\ Goto(t, "closing")
    /\ UNCHANGED <<world, faults, phase, account, view, market, mutexes, entered>>

\* cancelPhase and rollbackPhase, without the gate: the basket's own fills are
\* sold back whatever the state of the account.
BasketUndo(t) ==
    /\ At(t, "closing") /\ session
    /\ ord' \in {ord, FALSE} /\ pos' \in {pos, FALSE}
    /\ UNCHANGED <<day, loss, session, faults, phase, account, status, view, market, mutexes, pc,
                   entered>>

\* Fills or a rollback could not be confirmed.  A rollback's orders are put on the
\* attention map in a stretch of their own (rollbackPhase) before it is raised.
BasketUncertain(t) ==
    /\ At(t, "closing") /\ GateFree /\ Fails
    /\ attention' \in IF attention = "hard" THEN {"hard"} ELSE {attention, "orders"}
    /\ Goto(t, "attention")
    /\ UNCHANGED <<world, phase, account, status, seenPos, seenLoss, market, mutexes, entered>>

\* markBasketAttention
BasketAttention(t) ==
    /\ At(t, "attention") /\ GateFree
    /\ attention' = "hard"
    /\ runtime' = (IF authed THEN "MONITORING_DEGRADED" ELSE "AUTH_REQUIRED")
    /\ marketGap' = FALSE
    /\ Goto(t, "ending")
    /\ UNCHANGED <<world, faults, phase, account, authed, seenPos, seenLoss, market, mutexes,
                   entered>>

BasketFinish(t) ==
    /\ At(t, "closing") \/ At(t, "ending")
    /\ GateFree
    /\ Goto(t, "idle") /\ operation' = "free"
    /\ IF ~Locked /\ runtime = "BASKET_DEPLOYING" THEN Degrade ELSE UNCHANGED status
    /\ UNCHANGED <<world, faults, phase, account, view, market, gate, attempt, entered>>

-------------------------------------------------------------------------------
(* Callbacks of the market stream.                                            *)

\* applyMarketTick for the tracked token.  A breach starts a goroutine that liquidates:
\* at most one is alive in the model, and without one in Threads it never gets to run.
MarketTick ==
    /\ GateFree /\ streaming /\ seenPos
    /\ live' \in {live, connected}
    /\ \/ /\ ~Locked /\ live' /\ EnterDailyLossLock
          /\ IF "tick" \in Threads THEN At("tick", "idle") /\ Goto("tick", "acquire")
                                   ELSE UNCHANGED pc
       \/ Works /\ UNCHANGED <<account, status, pc>>
    /\ UNCHANGED <<world, phase, view, connected, streaming, subscribed, mutexes, entered>>

MarketUp ==
    /\ GateFree /\ streaming /\ ~connected
    /\ SetMarketStatus(TRUE)
    /\ UNCHANGED <<world, faults, phase, account, view, streaming, subscribed, mutexes, pc, entered>>

MarketDown ==
    /\ GateFree /\ streaming /\ connected /\ Fails
    /\ SetMarketStatus(FALSE)
    /\ UNCHANGED <<world, phase, account, view, streaming, subscribed, mutexes, pc, entered>>

-------------------------------------------------------------------------------
(* Kite and the clock.                                                        *)

\* The next 09:15 opening; Kite's day MTM starts again.
NewDay ==
    /\ day < LastDay /\ day' = day + 1 /\ loss' \in {loss, FALSE}
    /\ UNCHANGED <<pos, ord, session, faults, phase, account, status, view, market, mutexes, pc,
                   entered>>

Prices ==
    /\ pos /\ loss' = ~loss
    /\ UNCHANGED <<day, pos, ord, session, faults, phase, account, status, view, market, mutexes,
                   pc, entered>>

Fill ==
    /\ ord /\ ord' = FALSE /\ pos' = TRUE
    /\ UNCHANGED <<day, loss, session, faults, phase, account, status, view, market, mutexes, pc,
                   entered>>

\* The account holder trades in Kite itself, past the service.
DirectTrade ==
    /\ Fails
    /\ (ord' = TRUE /\ pos' = pos) \/ (pos' = TRUE /\ ord' = ord)
    /\ UNCHANGED <<day, loss, session, phase, account, status, view, market, mutexes, pc,
                   entered>>

SessionExpires ==
    /\ session /\ session' = FALSE /\ Fails
    /\ UNCHANGED <<day, pos, ord, loss, phase, account, status, view, market, mutexes, pc,
                   entered>>

-------------------------------------------------------------------------------

Poll(t) ==
    \/ PollUnlock(t) \/ PollCheck(t) \/ PollBlind(t) \/ PollBreach(t) \/ PollPositions(t)
    \/ PollPurgeFails(t) \/ PollUnread(t) \/ PollOrders(t) \/ PollSync(t)
Liquidate(t) ==
    \/ Acquire(t) \/ PassCancel(t) \/ PassPositions(t) \/ Expire(t) \/ Conclude(t)
    \/ SaveOutcome(t)
Session(t) ==
    \/ RestoreNoSession(t) \/ RestoreSession(t) \/ InitSession(t) \/ Instruments(t)
    \/ ReportFailure(t) \/ StartStream(t)
Basket(t) ==
    \/ BasketAcquire(t) \/ BasketLeg(t) \/ BasketStop(t) \/ BasketAuthLost(t) \/ BasketUndo(t)
    \/ BasketUncertain(t) \/ BasketAttention(t) \/ BasketFinish(t)
Thread(t) == Session(t) \/ Poll(t) \/ Liquidate(t) \/ Basket(t)
Requests == Place \/ Modify \/ Cancel \/ ExitPosition
Stream == MarketTick \/ MarketUp \/ MarketDown
World == NewDay \/ Prices \/ Fill \/ DirectTrade \/ SessionExpires

Next ==
    \/ \E t \in Threads :
          Thread(t) \/ Authenticate(t) \/ EvaluateLiveRisk(t) \/ BasketStart(t)
    \/ Requests \/ Stream \/ World \/ Crash \/ Start

Spec == Init /\ [][Next]_vars

(* A mutex that goroutines contend for is handed to each waiter in the end    *)
(* (sync.Mutex's starvation mode), so a thread that is able to move again and *)
(* again does move.  The account holder logs in again when asked to, the      *)
(* supervisor restarts the process, the stream reconnects, time passes.       *)
Fairness ==
    /\ \A t \in Threads : SF_vars(Thread(t)) /\ WF_vars(Authenticate(t))
    /\ WF_vars(Start) /\ SF_vars(session /\ MarketUp) /\ WF_vars(NewDay)

FairSpec == Spec /\ Fairness

-------------------------------------------------------------------------------
(* Properties.                                                                *)

\* The lock as a restart would find it, or as the process holds it.
Effective == IF phase = "down" THEN stored ELSE lock
Shut == Effective.status = "LOCKED"

Promise == INSTANCE DailyLock WITH
    day     <- day,
    shut    <- Shut,
    until   <- IF Shut THEN Effective.unlockAt ELSE 0,
    done    <- Shut /\ Effective.liq = "COMPLETED",
    durable <- Shut /\ (phase = "down" \/ lockPersisted),
    entered <- entered

\* Whatever the threads, the failures and the restarts, the service keeps the
\* promise of DailyLock: no order or modification enters while locked, an early
\* or incomplete lock never opens, a durable lock survives every crash.
KeepsPromise == Promise!Spec

\* The row and the memory agree on everything a restart needs: an active
\* service has an ACTIVE row, a persisted lock has a LOCKED row with the same
\* unlock time, and a lock the database refused left the row alone.
LockMirrored ==
    phase # "down" =>
        /\ stored.status = IF Locked /\ lockPersisted THEN "LOCKED" ELSE "ACTIVE"
        /\ Locked /\ lockPersisted => stored.unlockAt = lock.unlockAt

\* READY with trading ACTIVE is the verdict of a whole poll since the last lock, unlock
\* or restart, which saw the market data in place, an MTM above the limit and no
\* unresolved rollback.  Two steps come between that verdict and the state: a liquidation
\* that outlives its lock says READY by itself (ReadyIsFresh), and a rollback that
\* failed is put on the attention map before it takes READY away (FailedRollbackBlocks).
ReadyIsEarned ==
    GateFree /\ ~Locked /\ runtime = "READY" /\ ~late =>
        /\ fresh /\ ~seenLoss /\ MarketReady(connected, seenPos, live)
        /\ attention # "none" => \E t \in Threads : At(t, "attention")

\* After an unlock or a restart nothing can be placed until a whole positions and
\* orders poll has succeeded with trading ACTIVE.
ReadyIsFresh == GateFree /\ ~Locked /\ runtime = "READY" => fresh

\* A rollback with orders that need attention keeps new orders out.
FailedRollbackBlocks == GateFree /\ ~Locked /\ attention # "none" => runtime # "READY"

\* Liquidation is reported complete only if a pass of this lock's own
\* liquidation read no live order and then no open position, in the process
\* and in the row that a restart trusts.
CompletionIsObserved ==
    /\ Locked /\ lock.liq = "COMPLETED" => flatSeen
    /\ stored.status = "LOCKED" /\ stored.liq = "COMPLETED" => flatSeen

\* Every lock with an unlock time ends.
LockEnds == Shut /\ Effective.unlockAt # 0 ~> ~Shut

\* While locked, what is open or live is closed or cancelled in the end.
LockedIsFlattened == Locked /\ (pos \/ ord) ~> (~pos /\ ~ord) \/ ~Locked

\* A flat account whose monitoring is degraded, with no rollback to resolve,
\* becomes READY again or is stopped for another stated reason.
DegradedRecovers ==
    (phase = "running" /\ ~Locked /\ runtime = "MONITORING_DEGRADED" /\ attention = "none" /\ ~pos)
    ~> (runtime # "MONITORING_DEGRADED" \/ attention # "none" \/ pos \/ Locked \/ phase # "running")
===============================================================================
