------------------------------- MODULE LiveMTM --------------------------------
(***************************************************************************)
(* The day's MTM and the limit on it: what PollOnce reads of the account,  *)
(* one call after the other, what the ticks add, how livePortfolioMTMLocked *)
(* combines them, and where the limit is compared.  LossLock has the lock  *)
(* that follows; here it is the end.                                       *)
(*                                                                         *)
(* The account is its book: for each contract the net quantity, the cash   *)
(* flow of the day (with the overnight quantity bought at the previous     *)
(* close) and the number of fills.                                         *)
(***************************************************************************)
EXTENDS Integers, FiniteSets, Functions

CONSTANTS
    Tokens,      \* contracts, all of one product and multiplier
    Prices,      \* at which they trade
    Overnights,  \* what may be held overnight
    Close,       \* the previous close of every contract
    Limit,       \* LossLimitPaise
    MaxFills     \* bound on the fills of the day

ASSUME LiveMTMAssumption ==
    /\ IsFiniteSet(Tokens)
    /\ Prices \subseteq Nat \ {0} /\ Overnights \subseteq [Tokens -> Int] /\ Close \in Nat \ {0}
    /\ Limit \in Int /\ Limit < 0 /\ MaxFills \in Nat

VARIABLES
    \* Kite
    book,       \* the account
    price,      \* the last traded price of each contract
    rest,       \* the MTM of the positions call, which is refreshed late
    \* Service
    positions,  \* as the last poll read them
    trades,     \* the book that the last tradebook read gives
    ticks,      \* liveTicks; 0 if there is none
    connected,  \* marketConnected
    subscribed, \* the contracts that the stream follows
    liveDirty,
    trading,
    runtime,
    gap,        \* LastError is marketDataUnavailable
    monitor     \* where Run is; it holds the gate at "trades" and "orders"

kite    == <<book, price, rest>>
view    == <<positions, trades>>
market  == <<ticks, connected, subscribed>>
status  == <<trading, runtime, gap>>
vars    == <<kite, view, market, liveDirty, status, monitor>>

Entries == [net : Int, cash : Int, fills : Nat]

TypeOK ==
    /\ {book, trades} \subseteq [Tokens -> Entries]
    /\ positions \in [Tokens -> [listed : BOOLEAN, net : Int, fills : Nat]]
    /\ price \in [Tokens -> Prices] /\ ticks \in [Tokens -> Prices \cup {0}]
    /\ rest \in Int /\ subscribed \subseteq Tokens
    /\ {connected, liveDirty, gap} \subseteq BOOLEAN
    /\ trading \in {"ACTIVE", "LOCKED"}
    /\ runtime \in {"READY", "MONITORING_DEGRADED", "LIQUIDATING"}
    /\ monitor \in {"idle", "trades", "orders", "sync", "evaluate"}

GateFree == monitor \in {"idle", "sync", "evaluate"}
Active == trading = "ACTIVE"

NilTicks == [t \in {} |-> 0]
NoTicks == [t \in Tokens |-> 0]

\* What a book is worth at the prices p.
Value(b, p) == SumFunction([t \in Tokens |-> b[t].cash + b[t].net * p[t]])

-------------------------------------------------------------------------------
(* livePortfolioMTMLocked and what is decided from it.                        *)

Open(t) == positions[t].listed /\ positions[t].net # 0

PricedOnly ==
    /\ connected
    /\ \A t \in Tokens : trades[t].fills > 0 => positions[t].listed
    /\ \A t \in Tokens : Open(t) => ticks[t] # 0

\* Every trade is of a listed position, every position has the quantity that the
\* trades add up to, and every open one has a tick.
Live ==
    /\ connected
    /\ \A t \in Tokens : trades[t].fills > 0 => positions[t].listed
    /\ \A t \in Tokens : positions[t].listed => trades[t].net = positions[t].net
    /\ \A t \in Tokens : Open(t) => ticks[t] # 0

LiveMtm ==
    SumFunction([t \in Tokens |->
        IF positions[t].listed THEN trades[t].cash + positions[t].net * ticks[t] ELSE 0])

MarketReady == connected /\ ((\E t \in Tokens : Open(t)) => Live)

BreachedPast(m) == m < Limit
Breached(m) == m <= Limit

EnterDailyLossLock ==
    trading' = "LOCKED" /\ runtime' = "LIQUIDATING" /\ gap' = FALSE

\* A state change of an account that is not locked.
Becomes(state, marketGap) ==
    IF Active THEN runtime' = state /\ gap' = marketGap /\ UNCHANGED trading
    ELSE UNCHANGED status

\* setMarketStatus
SetMarketStatus(up) ==
    /\ connected' = up /\ liveDirty' = TRUE
    /\ ticks' = IF up THEN ticks ELSE NoTicks
    /\ IF Active /\ runtime = "READY" /\ ~MarketReady'
       THEN Becomes("MONITORING_DEGRADED", TRUE) ELSE UNCHANGED status

-------------------------------------------------------------------------------
(* Kite.                                                                      *)

Listed(t) == [listed |-> book[t].net # 0 \/ book[t].fills > 0, net |-> book[t].net,
              fills |-> book[t].fills]

\* The first poll of the session has succeeded, which the market stream waits for.
Init ==
    /\ \E overnight \in Overnights :
          book = [t \in Tokens |->
                    [net |-> overnight[t], cash |-> - overnight[t] * Close, fills |-> 0]]
    /\ price \in [Tokens -> Prices]
    /\ rest = Value(book, price) /\ ~Breached(rest)
    /\ positions = [t \in Tokens |-> Listed(t)] /\ trades = book
    /\ ticks = NoTicks /\ connected = FALSE /\ subscribed = {t \in Tokens : Open(t)}
    /\ liveDirty = FALSE
    /\ trading = "ACTIVE" /\ runtime = "MONITORING_DEGRADED" /\ gap = TRUE
    /\ monitor = "idle"

\* An order fills, this service's or one placed in Kite itself.
Fill(t) ==
    /\ SumFunction([u \in Tokens |-> book[u].fills]) < MaxFills
    /\ \E side \in {-1, 1} :
          book' = [book EXCEPT ![t] = [net |-> @.net + side, cash |-> @.cash - side * price[t],
                                       fills |-> @.fills + 1]]
    /\ UNCHANGED <<price, rest, view, market, liveDirty, status, monitor>>

Moves(t) ==
    /\ \E p \in Prices : price' = [price EXCEPT ![t] = p]
    /\ UNCHANGED <<book, rest, view, market, liveDirty, status, monitor>>

\* Kite recomputes the MTM it reports, minutes later perhaps.
Refresh ==
    /\ rest' = Value(book, price)
    /\ UNCHANGED <<book, price, view, market, liveDirty, status, monitor>>

-------------------------------------------------------------------------------
(* PollOnce.                                                                  *)

PollPositions ==
    /\ monitor = "idle"
    /\ positions' = [t \in Tokens |-> Listed(t)]
    /\ IF Active /\ Breached(rest)
       THEN EnterDailyLossLock /\ UNCHANGED monitor
       ELSE UNCHANGED status /\ monitor' = "trades"
    /\ UNCHANGED <<kite, trades, market, liveDirty>>

PollTrades ==
    /\ monitor = "trades"
    /\ trades' = book /\ monitor' = "orders"
    /\ UNCHANGED <<kite, positions, market, liveDirty, status>>

\* The orders themselves do not matter here.
PollOrders ==
    /\ monitor = "orders" /\ monitor' = "sync"
    /\ IF MarketReady THEN Becomes("READY", FALSE) ELSE Becomes("MONITORING_DEGRADED", TRUE)
    /\ UNCHANGED <<kite, view, market, liveDirty>>

\* syncMarketSubscriptions, without the gate: a changed set of open contracts restarts
\* the stream, which reports its loss and later that it is back.
PollSync ==
    /\ monitor = "sync" /\ monitor' = "idle"
    /\ subscribed' = {t \in Tokens : Open(t)}
    /\ UNCHANGED <<kite, view>>
    /\ IF subscribed' = subscribed THEN UNCHANGED <<ticks, connected, liveDirty, status>>
       ELSE SetMarketStatus(FALSE)

\* Positions, trades or orders could not be read: the run stops where it is, and what
\* the calls before gave stays.
PollFails ==
    /\ monitor \in {"idle", "trades", "orders"} /\ monitor' = "idle"
    /\ Becomes("MONITORING_DEGRADED", FALSE)
    /\ UNCHANGED <<kite, view, market, liveDirty>>

-------------------------------------------------------------------------------
(* The market stream's callbacks and the display timer.                       *)

\* applyMarketTick: the contract is tracked, and a breach locks at once.
Tick(t) ==
    /\ GateFree /\ connected /\ t \in subscribed /\ Open(t)
    /\ UNCHANGED <<kite, view, connected, subscribed, monitor>>
    /\ ticks' = [ticks EXCEPT ![t] = price[t]] /\ liveDirty' = TRUE
    /\ IF Active /\ Live' /\ Breached(LiveMtm') THEN EnterDailyLossLock ELSE UNCHANGED status

MarketStatus(up) ==
    /\ GateFree
    /\ UNCHANGED <<kite, view, subscribed, monitor>>
    /\ SetMarketStatus(up)

Display ==
    /\ monitor = "idle" /\ liveDirty
    /\ liveDirty' = FALSE /\ monitor' = "evaluate"
    /\ UNCHANGED <<kite, view, market, status>>

EvaluateAll ==
    /\ monitor = "evaluate" /\ monitor' = "idle"
    /\ CASE ~Active -> UNCHANGED status
         [] Active /\ Live /\ Breached(LiveMtm) -> EnterDailyLossLock
         [] Active /\ ~(Live /\ Breached(LiveMtm)) ->
                IF MarketReady THEN Becomes("READY", FALSE) ELSE Becomes("MONITORING_DEGRADED", TRUE)
    /\ UNCHANGED <<kite, view, market, liveDirty>>

\* evaluateLiveRisk: it lifts no degradation but the market data's own.
Evaluate ==
    /\ monitor = "evaluate" /\ monitor' = "idle"
    /\ CASE Active /\ Live /\ Breached(LiveMtm) -> EnterDailyLossLock
         [] Active /\ ~MarketReady /\ runtime = "READY" -> Becomes("MONITORING_DEGRADED", TRUE)
         [] Active /\ MarketReady /\ gap /\ ~(Live /\ Breached(LiveMtm)) -> Becomes("READY", FALSE)
         [] OTHER -> UNCHANGED status
    /\ UNCHANGED <<kite, view, market, liveDirty>>

-------------------------------------------------------------------------------

Next ==
    \/ \E t \in Tokens : Fill(t) \/ Moves(t) \/ Tick(t)
    \/ Refresh
    \/ PollPositions \/ PollTrades \/ PollOrders \/ PollSync \/ PollFails
    \/ \E up \in BOOLEAN : MarketStatus(up)
    \/ Display \/ Evaluate

Spec == Init /\ [][Next]_vars

\* A poll does not keep the gate for ever, and the stream delivers the price of
\* an open contract again and again while it is connected.
FairSpec ==
    /\ Spec
    /\ WF_vars(PollTrades \/ PollOrders \/ PollSync \/ (~GateFree /\ PollFails))
    /\ \A t \in Tokens : SF_vars(Tick(t))

\* Run goes on as well: polls succeed again and again, the stream comes back, and no
\* change of the market data is left without its evaluation.
BusySpec ==
    /\ FairSpec
    /\ SF_vars(PollPositions) /\ SF_vars(PollTrades) /\ SF_vars(PollOrders)
    /\ SF_vars(Display) /\ WF_vars(Evaluate) /\ SF_vars(~connected /\ MarketStatus(TRUE))

-------------------------------------------------------------------------------
(* Properties.                                                                *)

\* A live MTM is never a mix of two moments of the account: fills that came
\* between the reads of the positions and the trades, or an older tradebook that
\* a failed poll left behind, are in both its cash and its quantities or in none.
LiveIsOneMoment == Live => LiveMtm = Value(trades, ticks)

\* READY, between polls, is a verdict on a tradebook at least as recent as the
\* positions: a poll that failed half way is not papered over by the next tick.
ReadyIsCurrent ==
    GateFree /\ runtime = "READY" =>
        \A t \in Tokens : trades[t].fills >= positions[t].fills

KnownBreach == Active /\ Live /\ LiveMtm <= Limit

\* A breach of a portfolio with an open position locks the account, unless it
\* passes or the market data is lost: the stream delivers that position's ticks.
OpenBreachLocks ==
    KnownBreach /\ (\E t \in Tokens : Open(t))
        ~> ~(KnownBreach /\ \E t \in Tokens : Open(t))

\* A complete live MTM at or below the limit does not leave trading active.
KnownBreachLocks == KnownBreach ~> ~KnownBreach
===============================================================================
