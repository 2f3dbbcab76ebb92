----------------------------- MODULE LiveMTMProofs -----------------------------
(***************************************************************************)
(* The day's MTM, for any finite set of contracts, any prices, overnight   *)
(* positions, limit and number of fills: the types, that a live MTM is of  *)
(* one moment of the account, and that READY is a verdict on trades as     *)
(* recent as the positions.                                                *)
(***************************************************************************)
EXTENDS LiveMTM, FiniteSetTheorems, WellFoundedInduction, TLAPS

USE DEF GateFree, Active

-------------------------------------------------------------------------------
(* Sums.  The fold behind SumFunction is a function on the subsets of the     *)
(* domain, which exists because each value only needs a smaller subset's; an  *)
(* induction is the choice of a least counterexample.                         *)

\* A set of numbers that is not empty has a least one.
LEMMA LeastNumber ==
    ASSUME NEW T, T \subseteq Nat, T # {}
    PROVE  \E n \in T : \A m \in T : n <= m
<1>1. IsWellFoundedOn(OpToRel(<, Nat), Nat)
    BY NatLessThanWellFounded
<1>2. PICK n \in T : \A m \in T : ~ (<<m, n>> \in OpToRel(<, Nat))
    BY <1>1, WFMin
<1>3. \A m \in T : ~(m < n)
    BY <1>2 DEF OpToRel
<1>q. QED BY <1>3

Any(s) == CHOOSE x \in s : TRUE
UpTo(S, n) == {s \in SUBSET S : Cardinality(s) <= n}

\* What the fold on the subsets in D has to be.
Folds(iter, f, D) ==
    iter = [s \in D |-> IF s = {} THEN 0 ELSE f[Any(s)] + iter[s \ {Any(s)}]]

\* A subset without one of its elements is one smaller.
LEMMA Smaller ==
    ASSUME NEW S, IsFiniteSet(S), NEW s \in SUBSET S, s # {}
    PROVE  /\ Any(s) \in s /\ s \ {Any(s)} \in SUBSET S
           /\ Cardinality(s) \in Nat /\ Cardinality(s \ {Any(s)}) = Cardinality(s) - 1
<1>1. Any(s) \in s
    BY DEF Any
<1>2. IsFiniteSet(s)
    BY FS_Subset
<1>q. QED BY <1>1, <1>2, FS_CardinalityType, FS_RemoveElement

\* There is such a function on the subsets of any size.
LEMMA FoldsUpTo ==
    ASSUME NEW S, IsFiniteSet(S), NEW f
    PROVE  \A n \in Nat : \E iter : Folds(iter, f, UpTo(S, n))
<1> DEFINE Without == {n \in Nat : ~\E iter : Folds(iter, f, UpTo(S, n))}
<1> SUFFICES ASSUME Without # {} PROVE FALSE
    OBVIOUS
<1>1. PICK n \in Without : \A m \in Without : n <= m
    BY LeastNumber, Without \subseteq Nat
<1>2. n \in Nat /\ ~\E iter : Folds(iter, f, UpTo(S, n))
    OBVIOUS
<1>3. CASE n = 0
  <2>1. \A s \in UpTo(S, 0) : s = {}
    <3> SUFFICES ASSUME NEW s \in SUBSET S, Cardinality(s) <= 0 PROVE s = {}
        BY DEF UpTo
    <3>1. IsFiniteSet(s) /\ Cardinality(s) \in Nat
        BY FS_Subset, FS_CardinalityType
    <3>q. QED BY <3>1, FS_EmptySet
  <2>2. Folds([s \in UpTo(S, 0) |-> 0], f, UpTo(S, 0))
      BY <2>1 DEF Folds
  <2>q. QED BY <1>2, <1>3, <2>2
<1>4. CASE n # 0
  <2>1. n - 1 \in Nat /\ n - 1 \notin Without
      BY <1>1, <1>2, <1>4
  <2>2. PICK h : Folds(h, f, UpTo(S, n - 1))
      BY <2>1
  <2> DEFINE g == [s \in UpTo(S, n) |-> IF s = {} THEN 0 ELSE f[Any(s)] + h[s \ {Any(s)}]]
  <2>3. ASSUME NEW s \in UpTo(S, n), s # {} PROVE h[s \ {Any(s)}] = g[s \ {Any(s)}]
    <3>1. s \ {Any(s)} \in UpTo(S, n - 1) /\ s \ {Any(s)} \in UpTo(S, n)
        BY <1>2, <2>1, <2>3, Smaller DEF UpTo
    <3>q. QED BY <2>2, <3>1 DEF Folds
  <2>4. Folds(g, f, UpTo(S, n))
      BY <2>3 DEF Folds
  <2>q. QED BY <1>2, <2>4
<1>q. QED BY <1>3, <1>4

\* The sum of a function with a finite domain and values among the integers is one.
LEMMA SumTypes ==
    ASSUME NEW S, IsFiniteSet(S), NEW f \in [S -> Int]
    PROVE  SumFunction(f) \in Int
<1> DEFINE iter == CHOOSE g : Folds(g, f, SUBSET S)
<1>1. SumFunction(f) = iter[S]
    BY DEF SumFunction, SumFunctionOnSet, FoldFunctionOnSet, MapThenFoldSet, Folds, Any
<1>2. SUBSET S = UpTo(S, Cardinality(S)) /\ Cardinality(S) \in Nat
    BY FS_Subset, FS_CardinalityType DEF UpTo
<1>3. Folds(iter, f, SUBSET S)
  <2>1. \E g : Folds(g, f, UpTo(S, Cardinality(S)))
      BY <1>2, FoldsUpTo
  <2>2. \E g : Folds(g, f, SUBSET S)
      BY <1>2, <2>1
  <2>q. QED BY <2>2
<1> HIDE DEF iter
<1> DEFINE Bad == {n \in Nat : \E s \in SUBSET S : Cardinality(s) = n /\ iter[s] \notin Int}
<1>4. CASE Bad # {}
  <2>1. PICK n \in Bad : \A m \in Bad : n <= m
      BY <1>4, LeastNumber, Bad \subseteq Nat
  <2>2. PICK s \in SUBSET S : Cardinality(s) = n /\ iter[s] \notin Int
      OBVIOUS
  <2>3. s # {}
      BY <1>3, <2>2 DEF Folds
  <2>4. /\ Any(s) \in S /\ s \ {Any(s)} \in SUBSET S
        /\ Cardinality(s \ {Any(s)}) = n - 1 /\ n - 1 \in Nat
    <3>1. /\ Any(s) \in s /\ s \ {Any(s)} \in SUBSET S
          /\ Cardinality(s) \in Nat /\ Cardinality(s \ {Any(s)}) = Cardinality(s) - 1
        BY <2>3, Smaller
    <3>2. Cardinality(s \ {Any(s)}) \in Nat
        BY <3>1, FS_Subset, FS_CardinalityType
    <3>q. QED BY <2>2, <3>1, <3>2
  <2>5. iter[s \ {Any(s)}] \in Int
      BY <2>1, <2>4
  <2>6. iter[s] = f[Any(s)] + iter[s \ {Any(s)}]
      BY <1>3, <2>3 DEF Folds
  <2>q. QED BY <2>2, <2>4, <2>5, <2>6
<1>5. CASE Bad = {}
  <2>1. S \in SUBSET S /\ Cardinality(S) \in Nat
      BY <1>2
  <2>q. QED BY <1>1, <1>5, <2>1
<1>q. QED BY <1>4, <1>5

-------------------------------------------------------------------------------
(* Types.                                                                     *)

\* What a book is worth is a number.
LEMMA ValueTypes ==
    ASSUME NEW b \in [Tokens -> Entries], NEW p \in [Tokens -> Prices]
    PROVE  Value(b, p) \in Int
<1> DEFINE f == [t \in Tokens |-> b[t].cash + b[t].net * p[t]]
<1>1. ASSUME NEW t \in Tokens PROVE b[t].cash + b[t].net * p[t] \in Int
  <2>1. b[t] \in Entries /\ p[t] \in Prices
      OBVIOUS
  <2>2. b[t].cash \in Int /\ b[t].net \in Int
      BY <2>1 DEF Entries
  <2>3. p[t] \in Int
    <3>1. \A q : q \in Prices => q \in Nat \ {0}
        BY LiveMTMAssumption
    <3>q. QED BY <2>1, <3>1
  <2>q. QED BY <2>2, <2>3
<1>2. f \in [Tokens -> Int]
    BY <1>1
<1>3. SumFunction(f) \in Int
    BY <1>2, LiveMTMAssumption, SumTypes
<1>q. QED BY <1>3 DEF Value

\* A listing is a position.
LEMMA ListedTypes ==
    ASSUME TypeOK, NEW t \in Tokens
    PROVE  Listed(t) \in [listed : BOOLEAN, net : Int, fills : Nat]
<1>1. book[t] \in Entries
    BY DEF TypeOK
<1>2. (book[t].net # 0 \/ book[t].fills > 0) \in BOOLEAN
    OBVIOUS
<1>q. QED BY <1>1, <1>2 DEF Listed, Entries

\* What the callbacks, the polls and the timer may do to the status.
LEMMA StatusTypes ==
    ASSUME TypeOK
    PROVE  /\ EnterDailyLossLock => trading' = "LOCKED" /\ runtime' = "LIQUIDATING" /\ gap' = FALSE
           /\ \A state \in {"READY", "MONITORING_DEGRADED"}, g \in BOOLEAN :
                 Becomes(state, g) =>
                    /\ trading' = trading /\ trading' \in {"ACTIVE", "LOCKED"}
                    /\ runtime' \in {"READY", "MONITORING_DEGRADED", "LIQUIDATING"}
                    /\ gap' \in BOOLEAN
    BY DEF TypeOK, EnterDailyLossLock, Becomes, status

StatusOK ==
    /\ trading \in {"ACTIVE", "LOCKED"}
    /\ runtime \in {"READY", "MONITORING_DEGRADED", "LIQUIDATING"}
    /\ gap \in BOOLEAN

\* Every variable keeps its type.
LEMMA TypesPreserved == TypeOK /\ [Next]_vars => TypeOK'
<1> SUFFICES ASSUME TypeOK, [Next]_vars PROVE TypeOK'
    OBVIOUS
<1> USE LiveMTMAssumption
<1>0. StatusOK /\ (UNCHANGED status => StatusOK')
    BY DEF TypeOK, StatusOK, status
<1>1. ASSUME NEW t \in Tokens, Fill(t) PROVE TypeOK'
  <2>1. PICK side \in {-1, 1} :
            book' = [book EXCEPT ![t] = [net |-> @.net + side, cash |-> @.cash - side * price[t],
                                         fills |-> @.fills + 1]]
      BY <1>1 DEF Fill
  <2>2. book[t].net \in Int /\ book[t].cash \in Int /\ book[t].fills \in Nat /\ price[t] \in Int
      BY DEF TypeOK, Entries
  <2>3. side * price[t] \in Int
      BY <2>2
  <2>4. [net |-> book[t].net + side, cash |-> book[t].cash - side * price[t],
         fills |-> book[t].fills + 1] \in Entries
      BY <2>2, <2>3 DEF Entries
  <2>5. book' \in [Tokens -> Entries]
      BY <2>1, <2>4 DEF TypeOK
  <2>q. QED BY <1>1, <2>5 DEF TypeOK, Fill, view, market, status
<1>2. ASSUME NEW t \in Tokens, Moves(t) PROVE TypeOK'
    BY <1>2 DEF TypeOK, Moves, view, market, status
<1>3. ASSUME NEW t \in Tokens, Tick(t) PROVE TypeOK'
  <2>1. ticks' \in [Tokens -> Prices \cup {0}]
      BY <1>3 DEF TypeOK, Tick
  <2>2. StatusOK'
      BY <1>0, <1>3, StatusTypes DEF Tick, StatusOK
  <2>q. QED BY <1>3, <2>1, <2>2 DEF TypeOK, Tick, StatusOK, kite, view
<1>4. CASE Refresh
  <2>1. rest' \in Int
      BY <1>4, ValueTypes DEF TypeOK, Refresh
  <2>q. QED BY <1>4, <2>1 DEF TypeOK, Refresh, view, market, status
<1>5. CASE PollPositions
  <2>1. positions' \in [Tokens -> [listed : BOOLEAN, net : Int, fills : Nat]]
      BY <1>5, ListedTypes DEF PollPositions
  <2>2. StatusOK'
      BY <1>0, <1>5, StatusTypes DEF PollPositions, StatusOK
  <2>q. QED BY <1>5, <2>1, <2>2 DEF TypeOK, PollPositions, StatusOK, kite, market
<1>6. CASE PollTrades
    BY <1>6 DEF TypeOK, PollTrades, kite, market, status
<1>7. CASE PollOrders
  <2>1. StatusOK'
      BY <1>0, <1>7, StatusTypes DEF PollOrders, StatusOK
  <2>q. QED BY <1>7, <2>1 DEF TypeOK, PollOrders, StatusOK, kite, view, market
<1>13. CASE PollSync
  <2>1. ticks' \in [Tokens -> Prices \cup {0}] /\ {connected', liveDirty'} \subseteq BOOLEAN
      BY <1>13 DEF TypeOK, PollSync, SetMarketStatus, NoTicks
  <2>2. StatusOK'
      BY <1>0, <1>13, StatusTypes DEF PollSync, SetMarketStatus, StatusOK
  <2>3. subscribed' \subseteq Tokens
      BY <1>13 DEF PollSync
  <2>q. QED BY <1>13, <2>1, <2>2, <2>3 DEF TypeOK, PollSync, StatusOK, kite, view
<1>8. CASE PollFails
  <2>1. StatusOK'
      BY <1>0, <1>8, StatusTypes DEF PollFails, StatusOK
  <2>q. QED BY <1>8, <2>1 DEF TypeOK, PollFails, StatusOK, kite, view, market
<1>9. ASSUME NEW up \in BOOLEAN, MarketStatus(up) PROVE TypeOK'
  <2>1. ticks' \in [Tokens -> Prices \cup {0}]
      BY <1>9 DEF TypeOK, MarketStatus, SetMarketStatus, NoTicks
  <2>2. StatusOK'
      BY <1>0, <1>9, StatusTypes DEF MarketStatus, SetMarketStatus, StatusOK
  <2>q. QED BY <1>9, <2>1, <2>2 DEF TypeOK, MarketStatus, SetMarketStatus, StatusOK, kite, view
<1>10. CASE Display
    BY <1>10 DEF TypeOK, Display, kite, view, market, status
<1>11. CASE Evaluate
  <2>1. StatusOK'
      BY <1>0, <1>11, StatusTypes DEF Evaluate, StatusOK
  <2>q. QED BY <1>11, <2>1 DEF TypeOK, Evaluate, StatusOK, kite, view, market
<1>12. CASE UNCHANGED vars
    BY <1>12 DEF TypeOK, vars, kite, view, market, status
<1>q. QED BY <1>1, <1>2, <1>3, <1>4, <1>5, <1>6, <1>7, <1>8, <1>9, <1>10, <1>11, <1>12, <1>13 DEF Next

\* The first poll of the session has the types.
LEMMA TypesInit == Init => TypeOK
<1> SUFFICES ASSUME Init PROVE TypeOK
    OBVIOUS
<1>1. PICK overnight \in Overnights :
          book = [t \in Tokens |->
                    [net |-> overnight[t], cash |-> - overnight[t] * Close, fills |-> 0]]
    BY DEF Init
<1>2. ASSUME NEW t \in Tokens
      PROVE  [net |-> overnight[t], cash |-> - overnight[t] * Close, fills |-> 0] \in Entries
  <2>1. overnight[t] \in Int /\ Close \in Int
      BY LiveMTMAssumption
  <2>2. - overnight[t] * Close \in Int
      BY <2>1
  <2>q. QED BY <2>1, <2>2 DEF Entries
<1>3. book \in [Tokens -> Entries] /\ trades \in [Tokens -> Entries]
    BY <1>1, <1>2 DEF Init
<1>4. rest \in Int
    BY <1>3, ValueTypes DEF Init
<1>5. positions \in [Tokens -> [listed : BOOLEAN, net : Int, fills : Nat]]
  <2>1. ASSUME NEW t \in Tokens PROVE Listed(t) \in [listed : BOOLEAN, net : Int, fills : Nat]
    <3>1. book[t] \in Entries
        BY <1>3
    <3>2. (book[t].net # 0 \/ book[t].fills > 0) \in BOOLEAN
        OBVIOUS
    <3>q. QED BY <3>1, <3>2 DEF Listed, Entries
  <2>q. QED BY <2>1 DEF Init
<1>q. QED BY <1>3, <1>4, <1>5 DEF Init, TypeOK, NoTicks

\* The type invariant: Kite's account, the service's copies of it, the ticks and the
\* status keep their types, sums included.
THEOREM LiveMTMTypeCorrect == Spec => []TypeOK
    BY TypesInit, TypesPreserved, PTL DEF Spec

-------------------------------------------------------------------------------
(* One moment.                                                                *)

\* The book of a contract that has not been traded.
Untraded(overnight, t) ==
    [net |-> overnight[t], cash |-> - overnight[t] * Close, fills |-> 0]

\* What shows no fill of a contract shows what was held of it overnight, whenever
\* and in whatever order it was read.
OvernightShows(overnight) ==
    \A t \in Tokens :
        /\ book[t].fills = 0 => book[t] = Untraded(overnight, t)
        /\ trades[t].fills = 0 => trades[t] = Untraded(overnight, t)
        /\ positions[t].fills = 0 => positions[t].net = overnight[t]
        /\ positions[t].listed <=> positions[t].net # 0 \/ positions[t].fills > 0

OneDay == \E overnight \in [Tokens -> Int] : OvernightShows(overnight)

\* A contract not traded has its overnight quantity, and no cash without one.
LEMMA UntradedFields ==
    ASSUME NEW overnight \in [Tokens -> Int], NEW t \in Tokens
    PROVE  /\ Untraded(overnight, t).net = overnight[t] /\ Untraded(overnight, t).fills = 0
           /\ overnight[t] = 0 => Untraded(overnight, t).cash = 0
<1>1. overnight[t] \in Int /\ Close \in Int
    BY LiveMTMAssumption
<1>2. overnight[t] = 0 => - overnight[t] * Close = 0
    BY <1>1
<1>q. QED BY <1>2 DEF Untraded

\* Reading the account shows a contract as the account has it.
LEMMA ReadShows ==
    ASSUME NEW overnight \in [Tokens -> Int], OvernightShows(overnight), TypeOK, NEW t \in Tokens
    PROVE  /\ Listed(t).fills = 0 => Listed(t).net = overnight[t]
           /\ Listed(t).listed <=> Listed(t).net # 0 \/ Listed(t).fills > 0
<1>1. Listed(t).listed = (book[t].net # 0 \/ book[t].fills > 0)
      /\ Listed(t).net = book[t].net /\ Listed(t).fills = book[t].fills
    BY DEF Listed
<1>2. book[t].fills = 0 => book[t].net = overnight[t]
    BY UntradedFields DEF OvernightShows
<1>q. QED BY <1>1, <1>2

\* A fill, a poll or any other step leaves the overnight positions what they were.
LEMMA OneDayPreserved == TypeOK /\ OneDay /\ [Next]_vars => OneDay'
<1> SUFFICES ASSUME TypeOK, OneDay, [Next]_vars PROVE OneDay'
    OBVIOUS
<1>0. PICK overnight \in [Tokens -> Int] : OvernightShows(overnight)
    BY DEF OneDay
<1> SUFFICES OvernightShows(overnight)'
    BY DEF OneDay
<1>1. CASE UNCHANGED <<book, trades, positions>>
    BY <1>0, <1>1 DEF OvernightShows
<1>2. ASSUME NEW t \in Tokens, Fill(t) PROVE OvernightShows(overnight)'
  <2>1. \A u \in Tokens : book'[u] = book[u] \/ book'[u].fills = book[t].fills + 1
      BY <1>2 DEF Fill, TypeOK
  <2>2. book[t].fills \in Nat
      BY DEF TypeOK, Entries
  <2>3. \A u \in Tokens : book'[u] = book[u] \/ book'[u].fills # 0
      BY <2>1, <2>2
  <2>4. UNCHANGED <<trades, positions>>
      BY <1>2 DEF Fill, view
  <2>q. QED BY <1>0, <2>3, <2>4 DEF OvernightShows
<1>3. CASE PollPositions
  <2>1. UNCHANGED <<book, trades>> /\ \A t \in Tokens : positions'[t] = Listed(t)
      BY <1>3 DEF PollPositions, kite
  <2>2. \A t \in Tokens :
            /\ positions'[t].fills = 0 => positions'[t].net = overnight[t]
            /\ positions'[t].listed <=> positions'[t].net # 0 \/ positions'[t].fills > 0
      BY <1>0, <2>1, ReadShows
  <2>q. QED BY <1>0, <2>1, <2>2 DEF OvernightShows
<1>4. CASE PollTrades
    BY <1>0, <1>4 DEF PollTrades, OvernightShows, kite
<1>5. \/ UNCHANGED <<book, trades, positions>> \/ PollPositions \/ PollTrades
      \/ \E t \in Tokens : Fill(t)
    BY DEF Next, Moves, Tick, Refresh, PollOrders, PollSync, PollFails, MarketStatus, Display, Evaluate,
           kite, view, vars
<1>q. QED BY <1>1, <1>2, <1>3, <1>4, <1>5

\* The session begins with what was held overnight.
LEMMA OneDayInit == Init => OneDay
<1> SUFFICES ASSUME Init PROVE OneDay
    OBVIOUS
<1>1. PICK overnight \in Overnights : book = [t \in Tokens |-> Untraded(overnight, t)]
    BY DEF Init, Untraded
<1>2. overnight \in [Tokens -> Int]
    BY LiveMTMAssumption
<1>3. \A t \in Tokens : trades[t] = book[t] /\ positions[t] = Listed(t)
    BY <1>1 DEF Init
<1>4. \A t \in Tokens :
          book[t] = Untraded(overnight, t) /\ book[t].net = overnight[t] /\ book[t].fills = 0
    BY <1>1, <1>2, UntradedFields
<1>5. \A t \in Tokens :
          /\ positions[t].net = overnight[t]
          /\ positions[t].listed <=> positions[t].net # 0 \/ positions[t].fills > 0
  <2> SUFFICES ASSUME NEW t \in Tokens
               PROVE  /\ positions[t].net = overnight[t]
                      /\ positions[t].listed <=> positions[t].net # 0 \/ positions[t].fills > 0
      OBVIOUS
  <2>1. Listed(t).listed = (book[t].net # 0 \/ book[t].fills > 0)
        /\ Listed(t).net = book[t].net /\ Listed(t).fills = book[t].fills
      BY DEF Listed
  <2>2. positions[t] = Listed(t)
      BY <1>3
  <2>q. QED BY <1>4, <2>1, <2>2
<1>6. OvernightShows(overnight)
    BY <1>3, <1>4, <1>5 DEF OvernightShows
<1>q. QED BY <1>2, <1>6 DEF OneDay

\* What the day shows makes a live MTM the value of one tradebook: a contract that no
\* position lists was neither held overnight nor traded.
LEMMA LiveIsTheTradebook == TypeOK /\ OneDay => LiveIsOneMoment
<1> SUFFICES ASSUME TypeOK, OneDay, Live PROVE LiveMtm = Value(trades, ticks)
    BY DEF LiveIsOneMoment
<1>0. PICK overnight \in [Tokens -> Int] : OvernightShows(overnight)
    BY DEF OneDay
<1>1. ASSUME NEW t \in Tokens
      PROVE  (IF positions[t].listed THEN trades[t].cash + positions[t].net * ticks[t] ELSE 0)
                = trades[t].cash + trades[t].net * ticks[t]
  <2>1. CASE positions[t].listed
      BY <2>1 DEF Live
  <2>2. CASE ~positions[t].listed
    <3>1. /\ trades[t].fills \in Nat /\ positions[t].fills \in Nat /\ positions[t].net \in Int
          /\ ticks[t] \in Int
        BY LiveMTMAssumption DEF TypeOK, Entries
    <3>2. trades[t].fills = 0
        BY <2>2, <3>1 DEF Live
    <3>3. positions[t].fills = 0 /\ positions[t].net = 0
        BY <1>0, <2>2, <3>1 DEF OvernightShows
    <3>4. overnight[t] = 0 /\ trades[t] = Untraded(overnight, t)
        BY <1>0, <3>2, <3>3 DEF OvernightShows
    <3>5. trades[t].net = 0 /\ trades[t].cash = 0
        BY <3>4, UntradedFields
    <3>q. QED BY <2>2, <3>1, <3>5
  <2>q. QED BY <2>1, <2>2
<1>2. [t \in Tokens |->
          IF positions[t].listed THEN trades[t].cash + positions[t].net * ticks[t] ELSE 0]
      = [t \in Tokens |-> trades[t].cash + trades[t].net * ticks[t]]
    BY <1>1
<1>q. QED BY <1>2 DEF LiveMtm, Value

\* A live MTM never mixes two moments of the account.
THEOREM LiveMTMIsOneMoment == Spec => []LiveIsOneMoment
<1>1. TypeOK /\ OneDay /\ [Next]_vars => (TypeOK /\ OneDay)'
    BY TypesPreserved, OneDayPreserved
<1>2. Init => TypeOK /\ OneDay
    BY TypesInit, OneDayInit
<1>q. QED BY <1>1, <1>2, LiveIsTheTradebook, PTL DEF Spec

-------------------------------------------------------------------------------
(* READY.                                                                     *)

Current == \A t \in Tokens : trades[t].fills >= positions[t].fills

\* A book only fills, a locked account is never READY, and a degradation that the
\* next tick may lift is one of the market data alone.
VerdictInv ==
    /\ \A t \in Tokens : book[t].fills >= trades[t].fills /\ book[t].fills >= positions[t].fills
    /\ ~Active => runtime = "LIQUIDATING" /\ gap = FALSE
    /\ monitor = "orders" => Current
    /\ GateFree /\ (runtime = "READY" \/ gap) => Current

\* Every step keeps the verdict's grounds.
LEMMA VerdictPreserved == TypeOK /\ VerdictInv /\ [Next]_vars => VerdictInv'
<1> SUFFICES ASSUME TypeOK, VerdictInv, [Next]_vars PROVE VerdictInv'
    OBVIOUS
<1>0. \A t \in Tokens :
          book[t].fills \in Nat /\ trades[t].fills \in Nat /\ positions[t].fills \in Nat
    BY DEF TypeOK, Entries
<1>1. ASSUME NEW t \in Tokens, Fill(t) PROVE VerdictInv'
  <2>1. \A u \in Tokens : book'[u].fills = book[u].fills \/ book'[u].fills = book[u].fills + 1
      BY <1>1 DEF Fill, TypeOK
  <2>2. UNCHANGED <<trades, positions, trading, runtime, gap, monitor>>
      BY <1>1 DEF Fill, view, status
  <2>3. \A u \in Tokens : book'[u].fills >= trades[u].fills /\ book'[u].fills >= positions[u].fills
      BY <1>0, <2>1 DEF VerdictInv
  <2>4. Current' = Current
      BY <2>2 DEF Current
  <2>q. QED BY <2>2, <2>3, <2>4 DEF VerdictInv
<1>2. CASE PollPositions
  <2>1. \A t \in Tokens : positions'[t].fills = book[t].fills
      BY <1>2 DEF PollPositions, Listed
  <2>2. \A t \in Tokens : book'[t].fills >= trades'[t].fills /\ book'[t].fills >= positions'[t].fills
      BY <1>0, <1>2, <2>1 DEF PollPositions, VerdictInv, kite
  <2>3. CASE monitor' = "trades" /\ UNCHANGED status
      BY <2>2, <2>3 DEF VerdictInv, status
  <2>4. CASE EnterDailyLossLock /\ UNCHANGED monitor
      BY <1>2, <2>2, <2>4 DEF VerdictInv, EnterDailyLossLock, PollPositions
  <2>q. QED BY <1>2, <2>3, <2>4 DEF PollPositions
<1>3. CASE PollTrades
  <2>1. /\ UNCHANGED <<book, positions, trading, runtime, gap>> /\ monitor' = "orders"
        /\ \A t \in Tokens : trades'[t].fills = book[t].fills
      BY <1>3 DEF PollTrades, kite, status
  <2>2. Current'
      BY <2>1 DEF VerdictInv, Current
  <2>3. \A t \in Tokens : book'[t].fills >= trades'[t].fills /\ book'[t].fills >= positions'[t].fills
      BY <1>0, <2>1 DEF VerdictInv
  <2>q. QED BY <2>1, <2>2, <2>3 DEF VerdictInv
<1>4. ASSUME UNCHANGED <<book, trades, positions>>, ~(monitor' = "orders"),
             \/ EnterDailyLossLock
             \/ /\ UNCHANGED trading /\ (~Active => UNCHANGED <<runtime, gap>>)
                /\ (runtime' = "READY" \/ gap') /\ GateFree' => Current
      PROVE  VerdictInv'
  <2>1. Current' = Current
      BY <1>4 DEF Current
  <2>2. \A t \in Tokens : book'[t].fills >= trades'[t].fills /\ book'[t].fills >= positions'[t].fills
      BY <1>4 DEF VerdictInv
  <2>3. CASE EnterDailyLossLock
      BY <1>4, <2>2, <2>3 DEF VerdictInv, EnterDailyLossLock
  <2>q. QED BY <1>4, <2>1, <2>2, <2>3 DEF VerdictInv
<1>5. CASE PollOrders
    BY <1>4, <1>5 DEF PollOrders, Becomes, VerdictInv, status, kite, view
<1>6. CASE PollFails
    BY <1>4, <1>6 DEF PollFails, Becomes, VerdictInv, status, kite, view
<1>7. ASSUME NEW t \in Tokens, Tick(t) PROVE VerdictInv'
    BY <1>4, <1>7 DEF Tick, VerdictInv, status, kite, view
<1>8. ASSUME NEW up \in BOOLEAN, MarketStatus(up) PROVE VerdictInv'
    BY <1>4, <1>8 DEF MarketStatus, SetMarketStatus, Becomes, VerdictInv, status, kite, view
<1>9. CASE Evaluate
    BY <1>4, <1>9 DEF Evaluate, Becomes, VerdictInv, status, kite, view
<1>10. CASE Display
    BY <1>4, <1>10 DEF Display, VerdictInv, status, kite, view
<1>11. CASE UNCHANGED <<book, trades, positions, trading, runtime, gap, monitor>>
    BY <1>11 DEF VerdictInv, Current
<1>12. CASE Refresh \/ \E t \in Tokens : Moves(t)
    BY <1>11, <1>12 DEF Refresh, Moves, view, status
<1>13. CASE PollSync
    BY <1>4, <1>13 DEF PollSync, SetMarketStatus, Becomes, VerdictInv, status, kite, view
<1>q. QED BY <1>1, <1>2, <1>3, <1>5, <1>6, <1>7, <1>8, <1>9, <1>10, <1>11, <1>12, <1>13
          DEF Next, vars, kite, view, status

\* The session begins with trades read after the positions.
LEMMA VerdictInit == Init => VerdictInv
<1> SUFFICES ASSUME Init PROVE VerdictInv
    OBVIOUS
<1>1. \A t \in Tokens : positions[t].fills = book[t].fills /\ trades[t].fills = book[t].fills
    BY DEF Init, Listed
<1>2. \A t \in Tokens : book[t].fills \in Nat
    BY TypesInit DEF TypeOK, Entries
<1>q. QED BY <1>1, <1>2 DEF Init, VerdictInv, Current

\* READY between polls is a verdict on trades at least as recent as the positions.
THEOREM ReadyIsCurrentAlways == Spec => []ReadyIsCurrent
<1>1. TypeOK /\ VerdictInv /\ [Next]_vars => (TypeOK /\ VerdictInv)'
    BY TypesPreserved, VerdictPreserved
<1>2. Init => TypeOK /\ VerdictInv
    BY TypesInit, VerdictInit
<1>3. VerdictInv => ReadyIsCurrent
    BY DEF VerdictInv, ReadyIsCurrent, Current
<1>q. QED BY <1>1, <1>2, <1>3, PTL DEF Spec

===============================================================================
