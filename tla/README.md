# TradeGuardian: formal models, model checking and proofs

TradeGuardian sits between one Zerodha account and its F&O trading. It watches the day's
MTM, locks trading when the loss limit is reached, liquidates what is open, keeps the lock
until the next trading day's 09:15, and lets option hedges be bought only as baskets. This
directory holds TLA+ models of the parts where that promise depends on the order of events,
TLC configurations that check them on small instances, and TLAPS proofs for every instance.
Paths below are relative to the repository root; `service.go` is
`internal/service/service.go`.

Run things from this directory: `tlc -config LockPromise.cfg MCLossLock.tla` for a run
(`PROJECT.json` lists module and configuration of each), `tlapm LossLockProofs.tla` for a
proof module.

## 1. The system's parts

| Part | State it keeps | Operations | Talks to |
|---|---|---|---|
| Trading state (`service.go`, `store/sqlite.go` `trading_state`) | `trading`, `runtime`, `lockRecord`, `lockPersisted`, `authed`, `hardAttention`, `attention`, cached positions, orders, MTM | `New`, `enterDailyLossLockLocked`, `retryLockPersistenceLocked`, `maybeUnlockLocked` | database, calendar, everything below |
| Monitor poll (`Run`, `PollOnce`) | holds the gate over its broker calls | unlock, read positions, trades, orders, decide runtime, start liquidation | broker, database |
| Liquidation (`liquidate`, `liquidationPass`) | operation mutex, attempt | cancel orders, exit positions, conclude, save the outcome | broker, database, intents |
| Forced-exit intents (`forcedExits`, `forcedExitAt`, table `liquidation_intents`) | one intent per position: reservation or order ID, with its day | reserve, answer, save, reconcile, adopt, clear, expire, reload | liquidation, `ExitPosition`, poll |
| Order requests (`Place`, `Modify`, `Cancel`, `ExitPosition`) | idempotency rows | check state, validate, submit | broker, database |
| Basket deployment (`PlaceBasket` ff.) | operation mutex, phases, fills | submit a phase, await it, cancel, capture, roll back, raise attention | broker, poll |
| Sessions (`Authenticate`, `RestoreCachedSession`) and session cache file | access token and its expiry | load, save, initialise, start the stream | broker, poll |
| Market stream (`broker/kite.go`) | generation, subscriptions, connection | start, status and tick callbacks | service callbacks, which take the gate |
| Live MTM (`livePortfolioMTMLocked`, `evaluateLiveRisk`) | `liveTicks`, `marketConnected`, `liveDirty`, trades and positions as read | reprice, lock on breach, decide whether market data is ready | poll, ticks, display timer |
| Calendar (`calendar/calendar.go`) | holidays and special sessions of a year | `NextUnlock`, `TradingDate` | lock, intents |
| Risk rules (`risk/`) | none | one order; a basket and its maximum loss | order requests |
| Idempotency records (table `idempotency_keys`) | per key a reservation's reference, or a result; nothing releases a reservation | look up, reserve, complete, replay | order requests, baskets |
| SSE broadcaster (`httpapi/server.go`) | one channel of capacity one per open page | subscribe, publish, close | every state change, `Run`'s display timer |
| REST adapter, instrument catalogue, audit log, other HTTP handlers, browser UI | see `PROJECT.json` | | |

What makes it hard is concurrency on two mutexes with broker calls under one of them
(`gate`) for polls and requests and under the other (`operation`) for liquidation and
baskets; a database and a broker that may fail at each call; answers that are lost; order
books that lag; a process that dies anywhere; and a clock whose openings decide when a lock
may end. `PROJECT.json` lists each hazard at its line, with the properties that watch it.

What would make each part correct:

- trading state: nothing enters while locked; a lock ends only when due and after
  liquidation, survives restarts, and does end; READY only on fresh, sound state;
- liquidation: what is open on a locked account is closed in the end, and "complete" was
  observed;
- intents: one exit at a time per position, never past flat, and no intent that waits for
  ever;
- baskets: no naked short, longs sold last, a result that says what the account holds;
- idempotency: one submission per key through crashes and replays, and no replay that claims
  what Kite did not take;
- live MTM: a number of one moment of the account, compared with the limit whenever it is
  there;
- stream: only the newest generation is believed, no deadlock with the gate, subscriptions
  that follow the positions;
- dashboards: an open page shows the last state in the end, and no page holds up the monitor;
- session cache: an interrupted save leaves the old session or the new one; calendar:
  `NextUnlock` is the first later trading opening; basket rules: the computed maximum loss is
  the worst payoff.

## 2. Modules

| Module | What it is |
|---|---|
| `DailyLock` | abstract: what a daily loss lock promises, with no threads, broker or database |
| `LossLock` | the trading state machine: polls, ticks, requests, liquidation, sessions, crashes |
| `MCLossLock` | its module for TLC |
| `LossLockProofs` | its theorems |
| `Basket`, `MCBasket`, `BasketProofs` | the deployment of one basket, its TLC module, its theorems |
| `ForcedExit`, `MCForcedExit`, `ForcedExitProofs` | the exits and the intent of one position |
| `OncePerKey` | abstract: what an idempotency key promises |
| `Idempotency`, `MCIdempotency`, `IdempotencyProofs` | the rows, and the requests and baskets that use them |
| `LiveMTM`, `MCLiveMTM`, `LiveMTMProofs` | what a poll reads, what ticks add, and where the limit is compared |
| `MarketStream`, `MarketStreamProofs` | generations of the stream, `streamMu`, the gate, callbacks, resubscription |
| `Dashboards`, `DashboardsProofs` | how a change of state reaches the open pages |
| `TradingCalendar`, `SessionCache`, `BasketRules` | rules that are plain functions |
| `Rules`, `MCRules`, `RulesProofs` | the questions put to those rules, and their reference definitions |

Two refinements: `LossLock` implements `DailyLock` (`KeepsPromise`) and `Idempotency`
implements `OncePerKey` (`KeepsKeys`). `LossLock` sees a basket as
steps that take the operation mutex, submit, and may raise attention; `Basket` has their
detail. Likewise an exit is one step of `LossLock` and ten of `ForcedExit`, a key is left
out of it and is all of `Idempotency`, and its flags `live`, `streaming` and `subscribed`
stand for what `LiveMTM` and `MarketStream` work out. The modules are
not composed with each other: their product is far beyond TLC, and the interfaces are narrow
(`hardAttention`, the operation mutex, a pass that leaves the account flat or not, whether
a live MTM is there).

### LossLock

A step is a stretch of code in which no other goroutine and not Kite can act: it ends where
a mutex is released or awaited, at a broker call made without the gate, and at a database
write made without it. The gate is a variable because a poll holds it across several broker
calls; a request that holds it from its first to its last line is one action. Threads are
goroutines by their entry: `monitor` (restore at start, then the one-second poll), `login`
(an HTTP `Authenticate`, which ends in a poll of its own), `tick` (the goroutine of
`evaluateLiveRisk`), `basket` (an HTTP `PlaceBasket`). Place, Modify, Cancel and ExitPosition
are actions of no thread since they never leave the gate.

| TLA+ | Code |
|---|---|
| `lock`, `lockPersisted`, `stored` | `s.trading` and `s.lockRecord`, `s.lockPersisted`, the row |
| `runtime`, `authed`, `attention` | the fields of those names (`attention` is `hardAttention`, or else whether the map has entries) |
| `marketGap` | `lockRecord.LastError == marketDataUnavailable`, which decides a branch of `setMarketStatus` |
| `seenPos`, `seenLoss` | `s.positions`, `s.mtm` as last read |
| `connected`, `live`, `streaming`, `subscribed` | the stream and whether it prices every position |
| `PollUnlock` ... `PollSync` | `Run` and `PollOnce`, branch by branch |
| `PollCheck`, `Instruments`, `ReportFailure` | `authed` and the catalogue are read under the gate, Kite is asked without it, and what was found is written under it again: a login may come between |
| `BasketUncertain`, `BasketAttention` | `rollbackPhase` writes the attention map and releases the gate; `markBasketAttention` takes it again to raise the attention and degrade the runtime |
| `Acquire`, `PassCancel`, `PassPositions`, `Expire`, `Conclude`, `SaveOutcome` | `liquidate` and `liquidationPass` |
| `RestoreSession`, `InitSession`, `Instruments`, `StartStream` | the session's start |
| `MarketTick`, `MarketUp`, `MarketDown` | the adapter's callbacks |
| `Crash`, `Start` | process death and `New` |

A position is a flag (some F&O position is open), an order likewise, the MTM is "at or below
the limit" or not. A request is refused for the trading state and the runtime only:
`risk.Evaluate` records the MTM it is given and does not compare it with the limit. Validation,
idempotency, search and audit are left out: they refuse or
record, and no decision here reads them. `NextUnlocks` is any later opening, or none past
the configured year. Four variables are history, written by actions and read by properties
alone: `entered`, `flatSeen`, `fresh`, and `late` (a liquidation has ended with trading
already ACTIVE, since the last poll that succeeded).

### Basket

One basket from the moment `PlaceBasket` holds the operation mutex. `order` and `undo` are
Kite's, `ids` and `undoIds` what the service knows of them, `counted` is what
`captureFills` took. Both phases share their actions, as in the code. `prompt`, a variable
that never changes, chooses the broker, so that one run covers both: one that settles an IOC order
before it answers, lists it at once and takes nothing
it answers with an error, or one that may do each late. Only markings and polls take the gate: the
calls that place rollback orders, cancel and read fills go to Kite without it
(`service.go:1017`), so they fall between a poll's positions and its orders as well. Not
modelled here: the idempotency
record and a crash during a deployment (the process restarts with the orders as they are, and
no code resumes the basket; `Idempotency` has the crash), the user's own exits of its legs.

### ForcedExit

One position, its tagged exit orders at Kite, its intent in memory and its row. A pass of
liquidation (`PassStart` to `Save` or `PassClear`) runs without the gate and takes it only to
touch the intents; a request (`Ask` to `AskAnswer`) and a poll (`Poll`, `PollOrders`) hold it
from beginning to end, so neither interleaves with the other, but Kite and the pass run on.
Every broker call and every database write may fail.

Nothing is assumed of Kite's order book beyond this: what it lists, it lists truly. An exit
may be listed at once or at any later time of its day, whether it was acknowledged or its
answer was lost, and across restarts. Beside all this the account holder trades in Kite
itself, in both directions, also while an exit is live (`DirectTrade`); `sold` counts what he
sold, so that a position below zero can be told from one that exits made. The one thing left
out is a call at midnight: the market is closed, and no exit is being reserved, submitted or
saved when the day ends.

`forgotten` is history and read by no action: Kite has worked on an exit that neither its
order book listed nor an intent remembered. A reservation (`pending-exit:`) that the book
does not answer is cleared by the next poll (`service.go:2093`; the test
`TestStalePendingExitIntentClearsAndAllowsRetry` asks for it), so a lost answer and a late
listing are enough for it. From there a duplicate is possible (finding 2); up to there
`OneExitWhileRemembered` and `LiquidationNeverReverses` hold.

### Idempotency

The rows of `idempotency_keys` (`rows`), the request that holds the gate (`request`), the
deployments under way, what Kite took (`taken`: an entry's place is the ID Kite answers) and
which acknowledged submissions no poll has read back (`unread`). An order or a modification
holds the gate from its first check to its answer, so only Kite and a crash come between its
steps; a basket leaves the gate after its reservation and takes it for each leg. A row holds
a reservation's random reference, a basket's ID or Kite's order ID; nothing releases a
reservation, so `OncePerKey` promises that a key is claimed once, by one order or
modification that reaches Kite at most once or by the legs of one deployment, and is
confirmed only by what was submitted with it. A failed insert or update may have been
committed, a failed submission taken. The kinds share the table: a basket's key sent with an
order is answered with the basket's ID, which `ReplaysAreTrue` allows and names.

### LiveMTM

The account at Kite is a book per contract: net quantity, cash flow (with the overnight
quantity at the previous close) and number of fills. A poll reads it in two calls
(`PollPositions`, `PollTrades`), with fills between them and failures at each; ticks add
prices; `Live` and `LiveMtm` are `livePortfolioMTMLocked`; `rest` is the figure of Kite's
positions call, refreshed late. The poll holds the gate from its first read to `PollOrders`,
so a tick or a status comes before or after it. `PollSync` is `syncMarketSubscriptions`,
after the gate: if the open contracts are not the ones the stream follows, it is restarted,
which reports its loss, later its return, and marks the live MTM as to be evaluated. The
lock that follows a breach is
`LossLock`'s; here it ends the story. Left out: several products and multipliers of one
contract, and what makes the arithmetic refuse (NaN, infinities, overflow, duplicate rows).

### MarketStream

The adapter's newest stream (`stream`: its connection, its tokens and the callback it is
about to make), the callbacks that goroutines of replaced streams still carry past their
check (`replaced`), `streamMu` and the gate. `Check` is `currentMarketStream` and the
callback comes after it has released `streamMu`, so a newer stream may start in between.
`ReportReplaced` is the adapter's own `OnStatus(false)` with `streamMu` held, which takes the
gate: the order of the two mutexes. Polls and logins read the tokens under the gate and hand
them over without it, so an older list may arrive last. A tick remembers what became of the
stream it came over, and `misled` that the last report spoke of no change of the current
connection: both are history, read by no action.

What the run also shows to a reader of the traces, and no document forbids: the callback of
a replaced stream that had passed its check may leave `marketConnected` false with a healthy
stream, or true until the new one reports; `OnError` sets it false although the connection
may stay up. In both cases the service errs until the stream's next report.

### Dashboards

What the state is does not matter: it is a version. Writers change it and signal from
goroutines of their own, ticks are announced by the display timer of `Run`, `publish` fills
channels of capacity one, and the handler of a page reads the state, writes it and sleeps.
Pages come and go, and `Stallers` may stop reading without closing. `ChangeSilently` is
`setAuthRequiredLocked` in a request, which no signal follows (nor does the poll that finds
the session gone, `service.go:338`): until something else changes, the page shows the old
state, although PRODUCT.md:270 has every monitor cycle pushed. `owed` leaves it out.

### TradingCalendar, SessionCache, BasketRules, Rules

Plain functions, so `Rules` is a machine of one variable: each state is a question, and the
properties compare the module's answer with what the rule is for.

- `TradingCalendar`: days are numbers, a day has four moments (midnight, 06:00, 09:15, the
  rest). `NextUnlock` is the loop as a recursive function; `UnlockIsNextOpening` defines the
  same as a minimum over the open days.
- `SessionCache`: `Save` is the sequence of directories after each of its calls, so that a
  crash or failure after any of them is a choice of one (`Leaves`). A cache that cannot be
  decoded is an error with which `main` ends, so no interrupted save may leave one.
  `RestartFindsASession` is about that alone, each record being good until the expiry written in it. When that is,
  is a question of its own, on which the documents disagree (section 5, `SessionExpiry.cfg`).
- `BasketRules`: the payoff is piecewise linear in the spot, so its least value is at a
  strike, at zero, or at infinity; covered shorts exclude infinity. `MaxLossIsWorst` takes
  the least over all spots up to twice the highest strike, each family with a spot of its
  own. A MARKET basket reports no maximum loss.

## 3. Runs

| Run | Checks | Bounds | Distinct states | Shows |
|---|---|---|---|---|
| `lock_promise` | `TypeOK`, `LockMirrored`, `ReadyIsEarned`, `KeepsPromise` | monitor, tick and basket threads, two openings, one order, one fault | 2 302 816 | the refinement of `DailyLock`; the row is what a restart needs; READY is a poll's verdict, with two exceptions |
| `lock_liveness` | `LockEnds`, `LockedIsFlattened` | monitor and login, one opening, one fault | 241 479 | locks end and exposure is removed |
| `basket` | `TypeOK`, `ShortsCovered`, `RolledBackIsFlat`, `AttentionIsRaised`, `CompleteIsFilled`, `UnwindIsLast`, `BasketEnds` | two BUYs, two SELLs, of one and two lots, both brokers | 265 646 | a prompt broker never leaves a naked short; what holds against any broker |
| `exits` | `TypeOK`, `OneExitWhileRemembered`, `LiquidationNeverReverses`, `ExitsEnd` | one lot, two days, one fault, one user request | 196 045 | one exit at a time until one is forgotten, and an end |
| `idempotency` | `TypeOK`, `ReplaysAreTrue`, `ReadyIsReconciled`, `KeepsKeys` | two keys, four requests, two legs, two faults | 417 316 | the refinement of `OncePerKey` |
| `market_stream` | `TypeOK`, `NewestSpeaks`, `ReportsArrive`, `CallersReturn`, `SubscriptionsSettle` | one token, one login beside the restore, one trade, one fault | 245 356 | the newest stream is believed, no deadlock, subscriptions settle |
| `dashboards` | `TypeOK`, `NothingMissed`, `PagesCatchUp`, `MonitorGoesOn`, `PagesClose` | a reading and a stalled page, two changes | 72 408 | no lost wakeup, no page in the monitor's way |
| `live_mtm` | `TypeOK`, `LiveIsOneMoment`, `ReadyIsCurrent`, `OpenBreachLocks` | two contracts, two prices, one fill | 160 840 | a live MTM is of one moment; a breach of an open portfolio locks |
| `rules` | `UnlockIsNextOpening`, `RestartFindsASession`, `MaxLossIsWorst` | nine days, holidays and special sessions; every interruption of a save; baskets of two to four legs | 29 817 | the plain functions |
| `late_completion` | `CompletionIsObserved` | monitor and tick, one opening, one fault | | finding 1 |
| `exit_duplicate` | `OneExitAtATime` | two lots, no request, one fault | | finding 2 |
| `basket_naked` | `NeverNaked` | one BUY, one SELL of two lots | | finding 3 |

Why the bounds are enough. The interesting events are a breach, an unlock, a failure at any
place, a restart and an order that enters, and the order among them. One opening lets a lock
end; two let the second day begin with what the first left. One fault at any place exercises
each recovery path by itself; two a failure during a recovery. One liquidation pass per call
stands for six: a call that gives up and is taken up again by the next poll is reached either
way. Two lots are the fewest that fill in part, two legs a side the fewest where the second
fails after the first; one lot makes a second exit a reversal at once, and `ExitsWide.cfg`
(`MCForcedExit`, not in the list) checks the two safety properties of the exits with two lots
and two faults (916 638 states). Two days are the fewest in which an intent of yesterday exists. Two
keys are the fewest in which one request's row could be mistaken for another's, four requests
let each be sent again. One token lets a list of subscriptions be stale (empty or not); a
second login multiplies the generations without a new meeting of them, since a callback is
overtaken by one replacement. Two contracts let one have a tick and the other none, one fill
lets a poll's reads fall on both sides of it. A channel of capacity one is full after one change
and conflates at two. A lock is met by two liquidators in `lock_promise` (monitor and tick) and
in `lock_liveness` (monitor and login), and by any number of threads in the proofs.

What the passing properties except, by name. `ReadyIsEarned` has two exceptions. After
a liquidation has ended with trading already ACTIVE, READY may stand without a poll until the
next one (`late`): nothing at `service.go:1209` asks for the lock. And orders of a rollback
that failed may be on the attention map beside READY until the basket's next step raises it
(`service.go:1039` and 1051 are two stretches of the gate). Each exception is a
disagreement with PRODUCT.md with a counterexample of its own (`LateReady.cfg`,
`FailedRollback.cfg`, section 5). That COMPLETED is observed is not claimed at all: finding 1.
`OneExitWhileRemembered` and `LiquidationNeverReverses` are about liquidation (`asked = 0`),
until an exit is forgotten; `ExitReversed.cfg` shows what the user's own request can do and
`exit_duplicate` what one forgotten exit can. `ExitsEnd` allows for an intent that lost its
day (`Undated`): when a poll clears a reservation while the exit is in flight,
`service.go:1348` writes the order ID and no time; if no poll of that day sees the order,
nothing expires the intent and, until a restart reloads the time from the row, liquidation
waits for an order that no longer exists (`UndatedIntent.cfg`). `OpenBreachLocks` needs an
open position; without one see `LiveBreach.cfg`. `NewestSpeaks` excepts callbacks that have
passed the generation check before their stream was replaced (`misled`, `overtaken`).

`dashboards` turns the deadlock check off: after a shutdown, with every page gone and no
change left, the system has stopped as it should.

### Fairness

- `LossLock`: strong fairness of each thread. `sync.Mutex` hands itself over in starvation
  mode after a millisecond, broker calls end by the HTTP client's timeout, so a thread that
  can move again and again moves. The account holder logs in when asked, the supervisor
  restarts the process, a stream with a live session reconnects (Kite's ticker retries),
  time passes. Nothing says that calls succeed; only that failures are finitely many
  (`MaxFaults`). Not fair: any request, direct trade, fill or price.
- `Basket`: strong fairness of its own steps together (the gate is handed over, calls
  return, the deadline of `awaitPhase` passes) and weak fairness of a poll in progress.
- `ForcedExit`: a locked account is polled and liquidated again and again, neither waits for
  the gate for ever, a request that has begun goes on, and Kite fills a live market order or
  lists it. Not fair: new requests, the day's end, failures.
- `MarketStream`: the monitor polls again and again and each mutex is handed over in the end
  (strong fairness of each thread), the stream's goroutine and overtaken callbacks run. Not
  fair: a connection that works, a tick, a login, a trade, a failure.
- `Dashboards`: goroutines run, `select` takes each ready branch in the end (Go chooses at
  random), and a write returns for a page that reads; not for `Stallers`.
- `LiveMTM`: `FairSpec` says that a poll does not keep the gate for ever and that the stream
  delivers the price of an open contract again and again while connected. `BusySpec`, of
  `LiveBreach.cfg`, adds all that could help: polls succeed again and again, the stream
  comes back and the display timer evaluates what is dirty. Not fair:
  Kite's refresh of its own figure, which may be late.

### Mutants

Every property of a passing run has a mutant in `PROJECT.json`: a definition and the form a
plausible bug would give it (a forgotten retry of the save, an unlock of a lock with no
time, a book read without the tag, an expiry that never comes). The mutated forms stand next
to what they mutate in the modules and are used by no action.

## 4. Proofs

TLAPS proves, for every value of the constants the named assumptions allow:

| Theorem | Statement | Rests on |
|---|---|---|
| `LossLockProofs!TypeCorrect` | `Spec => []TypeOK` | `ConstantsAssumption` |
| `LossLockProofs!LockAlwaysMirrored` | `Spec => []LockMirrored` | the same |
| `LossLockProofs!PromiseKept` | `Spec => KeepsPromise` | the same |
| `LossLockProofs!ReadyEarned` | `Spec => []ReadyIsEarned` | the same |
| `BasketProofs!BasketTypeCorrect` | `Spec => []TypeOK` | `BasketAssumption` |
| `BasketProofs!LongsLast`, `CompleteMeansFilled` | `Spec => UnwindIsLast`, `Spec => []CompleteIsFilled` | the same, any broker |
| `BasketProofs!ShortsAreCovered`, `RollbackLeavesNothing`, `AttentionStaysRaised` | `Spec => []` of `ShortsCovered`, `RolledBackIsFlat`, `AttentionIsRaised` | the same |
| `IdempotencyProofs!IdempotencyTypeCorrect`, `OneUsePerKey`, `ReplaysCorrect`, `ReadyCorrect` | `Spec => []` of `TypeOK`, `OneUse`, `ReplaysAreTrue`, `ReadyIsReconciled` | `KeysAssumption` |
| `IdempotencyProofs!IdempotencyKeepsPromise` | `Spec => KeepsKeys` | the same |
| `ForcedExitProofs!ForcedExitTypeCorrect` | `Spec => []TypeOK` | `ExitAssumption` |
| `ForcedExitProofs!OneExitUntilForgotten`, `NoReversalUntilForgotten` | `Spec => []` of `OneExitWhileRemembered`, `LiquidationNeverReverses` | the same, any number of lots, days and failures |
| `LiveMTMProofs!LiveMTMTypeCorrect`, `LiveMTMIsOneMoment`, `ReadyIsCurrentAlways` | `Spec => []` of `TypeOK`, `LiveIsOneMoment`, `ReadyIsCurrent` | `LiveMTMAssumption` |
| `MarketStreamProofs!MarketStreamTypeCorrect`, `TheNewestSpeaks` | `Spec => []` of `TypeOK`, `NewestSpeaks` | `FeedAssumption` |
| `DashboardsProofs!DashboardsTypeCorrect`, `NothingIsMissed` | `Spec => []` of `TypeOK`, `NothingMissed` | `DashboardsAssumption` |
| `RulesProofs!UnlockAlwaysNext`, `RestartAlwaysFinds`, `MaxLossAlwaysWorst` | `Spec => []` of `UnlockIsNextOpening`, `RestartFindsASession`, `MaxLossIsWorst` | `RulesAssumption` |

What the assumptions say beyond types: a basket has a BUY and a SELL and no leg of zero lots;
an account holds finitely many contracts (`IsFiniteSet(Tokens)`), without which its MTM is no
sum; a cache file was written by a save, so it expires when `NextKiteExpiry` says; a leg has
an option type, a side, a strike and quantity above zero and a price that is not negative,
as `ValidateBasket` checks before the rules that `ValidBasket` models. Nothing is assumed of the
number of goroutines, days, lots, keys, pages, contracts or failures.

*LossLock: the lock.* The inductive invariant is `PromiseInv`: `TypeOK`, `LockMirrored` and
`Quiet` (a dead process has no goroutines). `LockMirrored` is what makes a crash a step of
`DailyLock`: the abstract state jumps from the memory to the row, and the two must agree
wherever the lock is durable. `Quiet` is needed because the abstract state is the row while
the process is down, and a goroutine that outlived its process could write. Each action is
shown to be a `LockStep` (the few ways the lock, its row and the counter of orders may
change), and a `LockStep` under the invariant is a step of `DailyLock` or a stutter.

*LossLock: READY.* `ReadyInv` adds to it `Earned` (READY, and the gap in the market data that
READY comes back from without a poll, rest on a poll that saw the account in order) and
`Holder` (a poll between its two reads has the gate, and has locked if it saw a breach).
Most actions change none of what these speak of (`Calm`). A liquidation that concludes after
its lock says READY on its own, and then `late` is set, until a poll decides again. The
theorem has no hypothesis about the schedule: any number of goroutines liquidate.

*Basket.* `RollbackInv` adds to `TypeOK` where rollback orders can exist (`NotYet`,
`InPhase`), that their sizes are the counted fills (`Sized`), and that no long is being sold
while a counted short is not bought back (`ShortsFirst`, `ShortsClosed`); a conclusion about
one step alone (`UnwindIsLast`) needs all of it, because the code checks shorts once and
then sells longs over many steps. `PromptInv` adds what a prompt broker gives: orders the
service knows are settled, and every short fill is counted before a rollback. From it,
`ShortsCovered`; `PromptStays` says that the broker does not change. `FillInv` follows the
longs from the end of the first phase to the result, for any broker: SELLs are submitted only
on filled BUYs, and a filled order stays filled. `DoneInv` adds to `PromptInv` that the
rollback works from all the fills there are (`Reckoned`), a long that filled being next,
failed or being sold, and what that means once `PlaceBasket` has returned (`Finished`). Its
`PolledFlat` is needed for the polls: a poll lifts an attention on what it read before.

*Idempotency.* `OwnerInv` ties each row to who owns it: the request between its reservation
and its completion, the deployment under way, or what Kite took. `TakenByOwner` is the core:
what Kite took with a key it took for the owner of its row, a leg for the one basket that
reserved it and anything else alone. A step of `OncePerKey` follows, since a submission's
owner cannot have submitted before (`GateHolderOwns`), and a crash changes no row.

*ForcedExit.* A second exit is asked for when a pass misses the first. The pass reads the
whole book, so it misses an exit only while the book omits it (`Hidden`), and then there is an
intent, unless the exit is forgotten. `ExitInv` says that an intent which names an order
names the hidden one (`Named`), that a pass has copied it or read the exit (`Copied`,
`ReadAll`), that a pass which sets out to exit does so with no exit unfinished (`SetOut`),
and that what is unfinished is covered by the position and what the account holder sold
(`Covered`). `AloneInv` is that for as long as nothing is asked and nothing forgotten; both
theorems follow from it, for any failures, late listings, restarts and trades by hand. They
ask nothing of Kite; what they except is the history of the run, and finding 2 is the
shortest run in which it matters.

*LiveMTM.* `OneDay` says that the account, the trades read and the positions read all grew
from one set of overnight positions, by which a contract that no position lists was neither
held nor traded; so a live MTM, which skips it, is the value of the tradebook term by term.
`VerdictInv` carries the place of a poll between its two reads into READY: the book only
fills, so trades read after the positions are no older, and whatever leaves them older takes
READY away. That a value is a number at all is a lemma on the fold of the community modules
(`SumTypes`): the recursive function it chooses exists on the subsets of a finite set.

*MarketStream.* `OwnMu` says who holds `streamMu`. `TrustInv` says that the service believes
in a connection that is up or whose loss is being reported (`NewestTold`), and that from the
report of a replacement to the new stream only overtaken callbacks are heard
(`ReplacedTold`); so none of the old stream's prices is left when it starts.

*Dashboards.* `Told` says that a page without a waiting signal has read all there is to
announce, unless an announcement is still to be made. `publish` drops a signal only into a
full channel, and the handler reads the state after it has emptied the channel.

*Rules.* `NextUnlock` searches the year by recursion. `SearchFinds` shows that the search
finds the least open day from wherever it starts, by a least counterexample counted from the
year's end; that the function the recursion defines exists is a lemma of its own
(`SearchExists`). `RestartAlwaysFinds` follows from `SaveIsAtomic` (only the rename touches
the cache) and `LoadsRecord`. For the maximum loss, sums are shown to be linear
(`SumShift`); then a basket's payoff is a straight line from one level to the next
(`StraightPayoff`), nowhere below both its ends, and above the last strike it rises because
every short call has its long (`RisesAbove`). So no spot is worse than every level
(`NoSpotIsWorse`), which is why the code may look at the strikes and zero alone.

Induction. The library's induction theorems take an operator and cannot be used here. Where
a proof needs one, over subsets or over days, it takes a least counterexample instead: the
set of numbers at which the claim fails has a least element if it has any (`LeastNumber`, from
`WFMin`).

Only model-checked: the liveness properties (`LockEnds`, `LockedIsFlattened`, `BasketEnds`,
`ExitsEnd`, `ReportsArrive`, `CallersReturn`, `SubscriptionsSettle`, `PagesCatchUp`,
`MonitorGoesOn`, `PagesClose`, `OpenBreachLocks`), which need fairness and ENABLED and are out
of the prover's reach. Every safety property of the passing runs, and both refinements, are
proved. What no theorem says: that READY is earned after a liquidation that outlived its lock, that
COMPLETED was observed, and that liquidation exits once when an exit has been forgotten. None
of these is so.

## 5. Findings

1. `late_completion`: `liquidate` concludes (`service.go:1209`), and then writes its outcome to
   the row (`service.go:1214`) without the gate, and asks at neither place whether the lock
   is still the one it worked for. Ticks, logins and polls all start liquidations; one that
   waited, or that is delayed between its last pass and its write, marks another lock
   COMPLETED that no pass has seen flat (PRODUCT.md:248).
2. `exit_duplicate`: a poll clears a pending intent as soon as the order book shows no tagged
   order (`service.go:2093`). If the answer to the exit was lost and the book lists it later,
   the next pass submits a second one, and both may fill (PRODUCT.md:158, 384). Likewise an
   intent whose order is not listed yet is cleared when the book holds an earlier, finished
   exit (`service.go:2118`).
3. `basket_naked`: a SELL whose submission ends in an error is not among the phase's orders
   (`service.go:879`), although Kite may have taken it. The longs are sold, then the short
   fills (PRODUCT.md:110).

`PROJECT.json` quotes what the documentation says in each case. More counterexamples have
their configuration here and no run in the list, which holds one run per component and the
findings above:

- `LateReady.cfg` (`MCLossLock`, `ReadyIsFresh`): two goroutines liquidate; the second
  concludes after the account was unlocked and says READY (`service.go:1209`) before any poll
  has succeeded, against PRODUCT.md:256, "order entry remains fail-closed until a fresh
  positions/orders poll succeeds".
- `FailedRollback.cfg` (`MCLossLock`, `FailedRollbackBlocks`): an explicit exit
  (`service.go:1186`) or a failed poll degrades the runtime during a deployment, the next
  poll, with an empty attention map, says READY (485), and a rollback that then fails fills
  the map (1039) a stretch before it degrades the runtime (1051). An order can enter in
  between, against PRODUCT.md:231, "keeps the runtime fail-closed".
- `ExitReversed.cfg` (`MCForcedExit`, `NeverReversed`): `ExitPosition` reads positions before
  orders (`service.go:1119`). An exit that fills between the reads is finished in one and
  open in the other, and its quantity is exited again, although the comment at
  `service.go:1103` calls the request risk-reducing.
- `UndatedIntent.cfg` (`MCForcedExit`, `DayIntentsExpire`): an order ID written after a poll
  cleared the reservation has no time (`service.go:1348`), and `purgeExpiredExitIntentsLocked`
  (2200) never expires it, against PRODUCT.md:158.
- `SessionExpiry.cfg` (`MCRules`, `SessionEndsAtBoundary`): `nextKiteExpiry`
  (`internal/sessioncache/file.go:157`) is 06:00 of the date after the login, also for a login
  before 06:00. That is PRODUCT.md:173 and DEPLOYMENT.md:125 ("following day"); PRODUCT.md:294,
  README.md:62 and plan.md:11 say the next 06:00. A restart in between takes up a session that
  Kite then refuses, and a login follows.
- `LiveBreach.cfg` (`MCLiveMTM`, `KnownBreachLocks`): `PollOnce` reads positions and trades,
  which is all that a flat portfolio's live MTM needs, and compares only Kite's own, possibly
  late figure with the limit (`service.go:392`). The live MTM is compared on ticks and changes
  of the stream. A round trip wholly between two polls changes no subscription and brings
  neither, so its realised loss leaves trading ACTIVE and READY until Kite's figure follows
  (PRODUCT.md:373, 374). A portfolio that an earlier poll saw open is compared: its
  subscriptions change, and the stream's restart is such a change.
- `StreamNeverStarted.cfg` (`MCLossLock`, `DegradedRecovers`): when the instrument refresh or
  the first poll of a session fails, `initializeAuthenticatedSession` returns before it
  starts the market stream (`service.go:196`) and nothing else does. Every later poll
  succeeds and leaves the service degraded until the next login (DEPLOYMENT.md:263).

Seen while modelling and not stated by any document: two logins that overlap share the
session (`service.go:121`), and the failure of one clears the other's; a session cache that
cannot be decoded stops the process from starting (`main.go:67`) instead of leading to a
login.

## 6. Plan

Done: `DailyLock` and `LossLock` with its proofs; `Basket` with its proofs; `ForcedExit`;
`OncePerKey` and `Idempotency`; `MarketStream`; `Dashboards`; `LiveMTM`; `TradingCalendar`,
`SessionCache`, `BasketRules` and `Rules`.

Proved: every safety property of the passing runs, and both refinements.

Next:

1. `MarketStream`: that the two mutexes are always taken in one order, the safety half of
   `CallersReturn`, as an invariant.
2. `LossLock`: for which goroutines and schedules COMPLETED is observed, as a property that
   names them the way `ReadyIsEarned` does.
3. `ForcedExit`: what a request of the user's own may do at most (`ExitReversed.cfg` bounded).

## 7. Not modelled

The Kite adapter's conversions of REST payloads, the instrument catalogue and its search, the
audit log, the HTTP handlers' decoding, cookies and headers, the browser UI, flags and
configuration files: data with no control of its own, or records that no decision reads. The
field checks of `risk/engine.go` (order type, product, validity, prices) and of
`ValidateBasket` (lot multiples, tick alignment, complete metadata) only refuse a request
and keep no state. NaN, infinities and overflow of the MTM arithmetic make
`livePortfolioMTMLocked` refuse as a missing tick does. The file mode, size and link checks
of the session cache likewise end in the error that a torn file does. Overlapping logins are
left out: `LossLock` has one login beside the monitor.
