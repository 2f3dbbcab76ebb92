------------------------------ MODULE RulesProofs ------------------------------
(***************************************************************************)
(* The rules that are plain functions, for every calendar, every moment,   *)
(* every way a save of the session can end, and every basket.              *)
(***************************************************************************)
EXTENDS Rules, FiniteSetTheorems, WellFoundedInduction, TLAPS

\* A set of numbers that is not empty has a least one.
LEMMA LeastNumber ==
    ASSUME NEW T, T \subseteq Nat, T # {}
    PROVE  \E n \in T : \A m \in T : n <= m
<1>1. IsWellFoundedOn(OpToRel(<, Nat), Nat)
    BY NatLessThanWellFounded
<1>2. PICK n \in T : \A m \in T : ~ (<<m, n>> \in OpToRel(<, Nat))
    BY <1>1, WFMin
<1>3. \A m \in T : ~(m < n)
    BY <1>2 DEF OpToRel
<1>q. QED BY <1>3

\* So has a set of days that does not reach below one of them.
LEMMA LeastDay ==
    ASSUME NEW first \in Int, NEW T, T \subseteq Int, T # {}, \A d \in T : first <= d
    PROVE  Min(T) \in T /\ \A d \in T : Min(T) <= d
<1> DEFINE Offsets == {n \in Nat : n + first \in T}
<1>1. Offsets # {}
  <2>1. PICK d \in T : TRUE
      OBVIOUS
  <2>2. d - first \in Nat /\ (d - first) + first = d
      OBVIOUS
  <2>q. QED BY <2>2
<1>2. PICK n \in Offsets : \A m \in Offsets : n <= m
    BY <1>1, LeastNumber, Offsets \subseteq Nat
<1>3. \A d \in T : n + first <= d
  <2> SUFFICES ASSUME NEW d \in T PROVE n + first <= d
      OBVIOUS
  <2>1. d - first \in Nat /\ (d - first) + first = d
      OBVIOUS
  <2>2. d - first \in Offsets
      BY <2>1
  <2>q. QED BY <1>2, <2>2
<1>4. \E x \in T : \A y \in T : x <= y
    BY <1>2, <1>3
<1>q. QED BY <1>4 DEF Min

-------------------------------------------------------------------------------
(* The calendar.  The recursive search has a fixed point, which is the first  *)
(* open day from where it starts; that there is no other is a least           *)
(* counterexample counted from the end of the year.                           *)

Open(cal) == {d \in cal.first .. cal.last : IsTradingDay(cal, d)}
From(cal, day) == {d \in Open(cal) : d >= day}
FirstOpening(cal, day) ==
    IF From(cal, day) = {} THEN Never ELSE Min(From(cal, day)) * DayLength + Opening

\* What the loop over the days has to be.
Searches(search, cal) ==
    search = [day \in cal.first .. cal.last + 1 |->
                 IF day > cal.last THEN Never
                 ELSE IF IsTradingDay(cal, day) THEN day * DayLength + Opening
                 ELSE search[day + 1]]

\* The first open day from an open day is that day, and from any other the one from
\* the day after.
LEMMA OneDayOn ==
    ASSUME NEW cal, cal.first \in Int, cal.last \in Int, NEW day \in cal.first .. cal.last
    PROVE  FirstOpening(cal, day) = IF IsTradingDay(cal, day) THEN day * DayLength + Opening
                                    ELSE FirstOpening(cal, day + 1)
<1>1. CASE IsTradingDay(cal, day)
  <2>1. day \in From(cal, day) /\ From(cal, day) \subseteq Int /\ \A d \in From(cal, day) : day <= d
      BY <1>1 DEF From, Open
  <2>2. Min(From(cal, day)) \in From(cal, day) /\ \A d \in From(cal, day) : Min(From(cal, day)) <= d
      BY <2>1, LeastDay
  <2>3. Min(From(cal, day)) = day
      BY <2>1, <2>2
  <2>q. QED BY <1>1, <2>1, <2>3 DEF FirstOpening
<1>2. CASE ~IsTradingDay(cal, day)
  <2>1. From(cal, day) = From(cal, day + 1)
      BY <1>2 DEF From, Open
  <2>q. QED BY <1>2, <2>1 DEF FirstOpening
<1>q. QED BY <1>1, <1>2

\* The loop finds the first open day from wherever it starts.
LEMMA SearchFinds ==
    ASSUME NEW cal, cal.first \in Int, cal.last \in Int,
           NEW search, Searches(search, cal), NEW day \in cal.first .. cal.last + 1
    PROVE  search[day] = FirstOpening(cal, day)
<1> DEFINE at(n) == cal.last + 1 - n
           Bad == {n \in Nat : at(n) \in cal.first .. cal.last + 1
                               /\ search[at(n)] # FirstOpening(cal, at(n))}
<1> DEFINE step(x) == IF x > cal.last THEN Never
                      ELSE IF IsTradingDay(cal, x) THEN x * DayLength + Opening
                      ELSE search[x + 1]
<1>0. \A x \in cal.first .. cal.last + 1 : search[x] = step(x)
  <2> DEFINE right == [x \in cal.first .. cal.last + 1 |-> step(x)]
  <2>1. search = right
      BY Zenon DEF Searches
  <2>2. \A x \in cal.first .. cal.last + 1 : right[x] = step(x)
    <3> HIDE DEF step
    <3>q. QED OBVIOUS
  <2>q. QED BY Zenon, <2>1, <2>2
<1>1. Bad = {}
  <2> SUFFICES ASSUME Bad # {} PROVE FALSE
      OBVIOUS
  <2>1. PICK n \in Bad : \A m \in Bad : n <= m
      BY LeastNumber, Bad \subseteq Nat
  <2>2. /\ n \in Nat /\ at(n) \in cal.first .. cal.last + 1
        /\ search[at(n)] # FirstOpening(cal, at(n))
      OBVIOUS
  <2>3. CASE n = 0
    <3>1. at(n) = cal.last + 1
        BY <2>3
    <3>2. search[at(n)] = Never
        BY <1>0, <2>2, <3>1
    <3>3. From(cal, at(n)) = {}
        BY <3>1 DEF From, Open
    <3>q. QED BY <2>2, <3>2, <3>3 DEF FirstOpening
  <2>4. CASE n # 0
    <3>1. n - 1 \in Nat /\ at(n - 1) = at(n) + 1 /\ at(n) \in cal.first .. cal.last
          /\ at(n - 1) \in cal.first .. cal.last + 1
        BY <2>2, <2>4
    <3>2. n - 1 \notin Bad
        BY <2>1, <2>2, <3>1
    <3>3. search[at(n) + 1] = FirstOpening(cal, at(n) + 1)
        BY <3>1, <3>2
    <3>4. search[at(n)] = IF IsTradingDay(cal, at(n)) THEN at(n) * DayLength + Opening
                          ELSE search[at(n) + 1]
        BY <1>0, <2>2, <3>1
    <3>5. FirstOpening(cal, at(n)) = IF IsTradingDay(cal, at(n)) THEN at(n) * DayLength + Opening
                                     ELSE FirstOpening(cal, at(n) + 1)
        BY <3>1, OneDayOn
    <3>q. QED BY <2>2, <3>3, <3>4, <3>5
  <2>q. QED BY <2>3, <2>4
<1>2. cal.last + 1 - day \in Nat /\ at(cal.last + 1 - day) = day
    OBVIOUS
<1>q. QED BY <1>1, <1>2

\* There is such a loop.
LEMMA SearchExists ==
    ASSUME NEW cal, cal.first \in Int, cal.last \in Int
    PROVE  \E search : Searches(search, cal)
<1> DEFINE search == [day \in cal.first .. cal.last + 1 |-> FirstOpening(cal, day)]
<1>1. ASSUME NEW day \in cal.first .. cal.last + 1
      PROVE  FirstOpening(cal, day) = IF day > cal.last THEN Never
                                      ELSE IF IsTradingDay(cal, day) THEN day * DayLength + Opening
                                      ELSE search[day + 1]
  <2>1. CASE day > cal.last
    <3>1. From(cal, day) = {}
        BY <2>1 DEF From, Open
    <3>q. QED BY <2>1, <3>1 DEF FirstOpening
  <2>2. CASE ~(day > cal.last)
    <3>1. day \in cal.first .. cal.last /\ day + 1 \in cal.first .. cal.last + 1
        BY <2>2
    <3>2. search[day + 1] = FirstOpening(cal, day + 1)
        BY <3>1
    <3>q. QED BY <2>2, <3>1, <3>2, OneDayOn
  <2>q. QED BY <2>1, <2>2
<1>2. Searches(search, cal)
    BY <1>1 DEF Searches
<1>q. QED BY <1>2

\* NextUnlock is the first opening after the day of the lock.
LEMMA NextUnlockMeans ==
    ASSUME NEW cal, cal.first \in Int, cal.last \in Int, NEW after, TradingDate(after) \in Int
    PROVE  NextUnlock(cal, after) = IF InYear(cal, TradingDate(after) + 1)
                                    THEN FirstOpening(cal, TradingDate(after) + 1) ELSE Never
<1> DEFINE tomorrow == TradingDate(after) + 1
           search == CHOOSE g : Searches(g, cal)
<1>1. Searches(search, cal)
    BY SearchExists
<1>2. NextUnlock(cal, after) = IF InYear(cal, tomorrow) THEN search[tomorrow] ELSE Never
    BY DEF NextUnlock, Searches
<1>3. InYear(cal, tomorrow) => search[tomorrow] = FirstOpening(cal, tomorrow)
  <2> HIDE DEF search
  <2>q. QED BY <1>1, SearchFinds DEF InYear
<1>q. QED BY <1>2, <1>3
-------------------------------------------------------------------------------
(* The questions.                                                             *)

\* A question is one that the service may have to ask.
Asked ==
    /\ question.about = "unlock" =>
          /\ question.cal \in Calendars /\ question.at \in Moments
          /\ Loads(question.cal) /\ InYear(question.cal, TradingDate(question.at))
    /\ question.about = "restart" =>
          /\ question.cache \in Caches /\ question.at \in Moments /\ question.later \in Moments
          /\ question.how \in {"returns", "dies", "fails"} /\ question.call \in 0 .. 3
          /\ question.later >= question.at
    /\ question.about = "basket" =>
          question.legs \in Baskets /\ ValidBasket(question.legs, "LIMIT")

LEMMA AskedAlways == Spec => []Asked
<1>1. Init => Asked
    BY DEF Init, Nothing, Asked
<1>2. Asked /\ [Next]_question => Asked'
  <2> SUFFICES ASSUME Asked, [Next]_question PROVE Asked'
      OBVIOUS
  <2>1. CASE AskUnlock
      BY <2>1 DEF AskUnlock, Asked
  <2>2. CASE AskRestart
      BY <2>2 DEF AskRestart, Asked
  <2>3. CASE AskBasket
      BY <2>3 DEF AskBasket, Asked
  <2>4. CASE Answered \/ UNCHANGED question
      BY <2>4 DEF Answered, Nothing, Asked
  <2>q. QED BY <2>1, <2>2, <2>3, <2>4 DEF Next
<1>q. QED BY <1>1, <1>2, PTL DEF Spec

\* For every calendar that loads and every moment of its year, the loop of NextUnlock
\* finds the first opening of a later date that is a trading day, and none exactly when
\* the year has no more.
THEOREM UnlockAlwaysNext == Spec => []UnlockIsNextOpening
<1>1. ASSUME Asked PROVE UnlockIsNextOpening
  <2> SUFFICES ASSUME question.about = "unlock",
                      NEW cal, cal = question.cal, NEW t, t = TradingDate(question.at),
                      NEW open, open = {d \in cal.first .. cal.last :
                            IF d % 7 \in {5, 6} THEN d \in cal.special ELSE d \notin cal.holidays}
               PROVE  NextUnlock(cal, question.at)
                        = IF {d \in open : d > t} = {} THEN Never
                          ELSE Min({d \in open : d > t}) * DayLength + Opening
      BY DEF UnlockIsNextOpening
  <2>1. /\ cal.first \in Int /\ cal.last \in Int /\ t \in Int /\ t \in cal.first .. cal.last
        /\ cal.holidays \cap cal.special = {}
      BY <1>1, RulesAssumption DEF Asked, TradingDate, DayLength, Loads, InYear
  <2>2. open = Open(cal)
    <3>1. \A d \in cal.first .. cal.last : d % 7 \in 0 .. 6 /\ (d % 7 < 5 <=> d % 7 \notin {5, 6})
        BY <2>1
    <3>q. QED BY <2>1, <3>1 DEF Open, IsTradingDay, InYear
  <2>3. {d \in open : d > t} = From(cal, t + 1)
      BY <2>1, <2>2 DEF From, Open
  <2>4. NextUnlock(cal, question.at) = IF InYear(cal, t + 1) THEN FirstOpening(cal, t + 1) ELSE Never
      BY <2>1, NextUnlockMeans
  <2>5. CASE InYear(cal, t + 1)
      BY <2>3, <2>4, <2>5 DEF FirstOpening
  <2>6. CASE ~InYear(cal, t + 1)
    <3>1. From(cal, t + 1) = {}
        BY <2>1, <2>6 DEF From, Open, InYear
    <3>q. QED BY <2>3, <2>4, <2>6, <3>1
  <2>q. QED BY <2>5, <2>6
<1>q. QED BY <1>1, AskedAlways, PTL

-------------------------------------------------------------------------------
(* The session cache.                                                         *)

\* What a restart makes of a directory whose cache is a record that a save wrote.
LEMMA LoadsRecord ==
    ASSUME NEW dir, NEW token, NEW issued \in Int, NEW now \in Int,
           dir.cache = Cached(token, issued, NextKiteExpiry(issued))
    PROVE  Load(dir, now) = IF now < NextKiteExpiry(issued)
                            THEN [says |-> "session", token |-> token] ELSE [says |-> "no session"]
<1>1. /\ dir.cache.kind = "record" /\ dir.cache.token = token /\ dir.cache.issued = issued
      /\ dir.cache.expires = NextKiteExpiry(issued)
    BY DEF Cached
<1>2. NextKiteExpiry(issued) \in Int /\ NextKiteExpiry(issued) > issued
    BY DEF NextKiteExpiry, TradingDate, DayLength, Flush
<1>3. dir.cache # Absent
    BY <1>1 DEF Absent
<1>4. Valid(dir.cache)
    BY <1>1, <1>2 DEF Valid
<1>5. Load(dir, now) = IF now >= dir.cache.expires THEN [says |-> "no session"]
                       ELSE [says |-> "session", token |-> dir.cache.token]
    BY <1>3, <1>4 DEF Load
<1>6. now >= dir.cache.expires <=> ~(now < NextKiteExpiry(issued))
    BY <1>1, <1>2
<1>q. QED BY Zenon, <1>1, <1>5, <1>6

\* Writing the temporary file leaves the cache alone.
LEMMA TemporaryWritten ==
    \A dir, x : DOMAIN dir = {"cache", "temporary"} =>
        /\ DOMAIN [dir EXCEPT !.temporary = x] = {"cache", "temporary"}
        /\ [dir EXCEPT !.temporary = x].cache = dir.cache
OBVIOUS

\* A rename writes the cache.
LEMMA Renamed ==
    \A dir, x, y : DOMAIN dir = {"cache", "temporary"} =>
        /\ DOMAIN [dir EXCEPT !.temporary = x, !.cache = y] = {"cache", "temporary"}
        /\ [dir EXCEPT !.temporary = x, !.cache = y].cache = y
<1> SUFFICES ASSUME NEW dir, NEW x, NEW y, DOMAIN dir = {"cache", "temporary"}
             PROVE  /\ DOMAIN [dir EXCEPT !.temporary = x, !.cache = y] = {"cache", "temporary"}
                    /\ [dir EXCEPT !.temporary = x, !.cache = y].cache = y
    OBVIOUS
<1> DEFINE one == [dir EXCEPT !.temporary = x]
<1>1. DOMAIN one = {"cache", "temporary"}
    BY TemporaryWritten
<1>2. [dir EXCEPT !.temporary = x, !.cache = y] = [one EXCEPT !.cache = y]
    OBVIOUS
<1> HIDE DEF one
<1>3. DOMAIN [one EXCEPT !.cache = y] = {"cache", "temporary"} /\ [one EXCEPT !.cache = y].cache = y
    BY <1>1
<1>q. QED BY <1>2, <1>3

\* However a save ends, the cache is as it was or holds the whole new record, and that
\* once the save has returned: only the rename touches it.
LEMMA SaveIsAtomic ==
    ASSUME NEW cache, NEW token, NEW issued, NEW call \in 0 .. 3, NEW how \in {"returns", "dies", "fails"},
           NEW left, left = Leaves([cache |-> cache, temporary |-> Absent], token, issued, call, how)
    PROVE  /\ left.cache \in {cache, Cached(token, issued, NextKiteExpiry(issued))}
           /\ how = "returns" => left.cache = Cached(token, issued, NextKiteExpiry(issued))
<1> DEFINE dir == [cache |-> cache, temporary |-> Absent]
           new == Cached(token, issued, NextKiteExpiry(issued))
           calls == Save(dir, token, issued)
           reached == IF call = 0 THEN dir ELSE calls[call]
<1>1. DOMAIN dir = {"cache", "temporary"} /\ dir.cache = cache
    OBVIOUS
<1>2. calls = <<[dir EXCEPT !.temporary = Torn], [dir EXCEPT !.temporary = new],
                [dir EXCEPT !.temporary = Absent, !.cache = new]>>
    BY DEF Save
<1>3. left = CASE how = "returns" -> calls[Len(calls)]
               [] how = "dies"    -> reached
               [] how = "fails"   -> IF call = Len(calls) THEN reached
                                     ELSE [reached EXCEPT !.temporary = Absent]
    BY DEF Leaves
<1> DEFINE created == [dir EXCEPT !.temporary = Torn]
           written == [dir EXCEPT !.temporary = new]
           renamed == [dir EXCEPT !.temporary = Absent, !.cache = new]
<1> HIDE DEF calls, dir, new
<1>4. /\ created.cache = cache /\ DOMAIN created = {"cache", "temporary"}
      /\ written.cache = cache /\ DOMAIN written = {"cache", "temporary"}
      /\ renamed.cache = new /\ DOMAIN renamed = {"cache", "temporary"}
    BY Zenon, <1>1, TemporaryWritten, Renamed
<1> HIDE DEF created, written, renamed
<1>5. /\ calls = <<created, written, renamed>>
      /\ Len(calls) = 3 /\ calls[1] = created /\ calls[2] = written /\ calls[3] = renamed
    BY <1>2 DEF created, written, renamed
<1>6. /\ reached.cache \in {cache, new}
      /\ DOMAIN reached = {"cache", "temporary"}
      /\ call = 3 => reached.cache = new
    BY <1>1, <1>4, <1>5
<1> HIDE DEF reached
<1>7. CASE how = "returns"
    BY <1>3, <1>4, <1>5, <1>7 DEF new
<1>8. CASE how = "dies"
    BY <1>3, <1>6, <1>8 DEF new
<1>9. CASE how = "fails"
  <2>1. [reached EXCEPT !.temporary = Absent].cache = reached.cache
      BY <1>6, TemporaryWritten
  <2>2. left.cache = reached.cache
      BY <1>3, <1>9, <2>1
  <2>q. QED BY <1>6, <1>9, <2>2 DEF new
<1>q. QED BY <1>7, <1>8, <1>9

\* However a save ends, a restart restores the new session or what was there before, until
\* the expiry in the record, and never an error with which main ends: sessioncache/file.go,
\* for every moment.  When that expiry is, is NextKiteExpiry's matter.
THEOREM RestartAlwaysFinds == Spec => []RestartFindsASession
<1>1. ASSUME Asked PROVE RestartFindsASession
  <2> DEFINE q == question
             left == Leaves([cache |-> q.cache, temporary |-> Absent], "new", q.at, q.call, q.how)
             found == Load(left, q.later)
             Offers(token, until) == found = IF q.later < until
                                             THEN [says |-> "session", token |-> token]
                                             ELSE [says |-> "no session"]
  <2>0. SUFFICES ASSUME question.about = "restart"
                 PROVE  \/ Offers("new", NextKiteExpiry(q.at))
                        \/ q.how # "returns" /\ q.cache = Absent /\ found.says = "no session"
                        \/ q.how # "returns" /\ q.cache # Absent /\ Offers("old", q.cache.expires)
      BY DEF RestartFindsASession, Found
  <2>1. /\ q.cache \in Caches /\ q.at \in Int /\ q.later \in Int
        /\ q.call \in 0 .. 3 /\ q.how \in {"returns", "dies", "fails"}
      BY <1>1, <2>0, RulesAssumption DEF Asked
  <2>2. /\ left.cache \in {q.cache, Cached("new", q.at, NextKiteExpiry(q.at))}
        /\ q.how = "returns" => left.cache = Cached("new", q.at, NextKiteExpiry(q.at))
      BY <2>1, SaveIsAtomic
  <2> HIDE DEF left
  <2>4. CASE left.cache = Cached("new", q.at, NextKiteExpiry(q.at))
    <3> DEFINE at == q.at
               later == q.later
    <3>0. at \in Int /\ later \in Int /\ left.cache = Cached("new", at, NextKiteExpiry(at))
        BY <2>1, <2>4
    <3> HIDE DEF at, later
    <3>1. Load(left, later) = IF later < NextKiteExpiry(at) THEN [says |-> "session", token |-> "new"]
                                                            ELSE [says |-> "no session"]
        BY <3>0, LoadsRecord
    <3>2. Offers("new", NextKiteExpiry(q.at))
        BY <3>1 DEF at, later
    <3>q. QED BY <3>2
  <2>5. CASE left.cache = q.cache /\ q.how # "returns" /\ q.cache = Absent
    <3>1. found.says = "no session"
        BY <2>5 DEF Load
    <3>q. QED BY <2>5, <3>1
  <2>6. CASE left.cache = q.cache /\ q.how # "returns" /\ q.cache # Absent
    <3>1. q.cache.issued \in Int /\ q.cache = Cached("old", q.cache.issued, NextKiteExpiry(q.cache.issued))
        BY <2>1, <2>6, RulesAssumption
    <3>2. q.cache.expires = NextKiteExpiry(q.cache.issued)
      <4> DEFINE e == NextKiteExpiry(q.cache.issued)
      <4>1. Cached("old", q.cache.issued, e).expires = e
          BY DEF Cached
      <4>q. QED BY Zenon, <3>1, <4>1
    <3>3. Offers("old", NextKiteExpiry(q.cache.issued))
      <4> DEFINE at == q.cache.issued
                 later == q.later
      <4>0. at \in Int /\ later \in Int /\ left.cache = Cached("old", at, NextKiteExpiry(at))
          BY <2>1, <2>6, <3>1
      <4> HIDE DEF at, later
      <4>1. Load(left, later) = IF later < NextKiteExpiry(at) THEN [says |-> "session", token |-> "old"]
                                                              ELSE [says |-> "no session"]
          BY <4>0, LoadsRecord
      <4>q. QED BY <4>1 DEF at, later
    <3>q. QED BY <2>6, <3>2, <3>3
  <2>q. QED BY <2>2, <2>4, <2>5, <2>6
<1>q. QED BY <1>1, AskedAlways, PTL

-------------------------------------------------------------------------------
(* Sums and greatest elements.  The fold behind SumFunction is a function on  *)
(* the subsets of the domain; an induction is the choice of a least           *)
(* counterexample.                                                            *)

Any(s) == CHOOSE x \in s : TRUE
UpTo(S, n) == {s \in SUBSET S : Cardinality(s) <= n}

\* What the fold on the subsets in D has to be.
Folds(iter, f, D) ==
    iter = [s \in D |-> IF s = {} THEN 0 ELSE f[Any(s)] + iter[s \ {Any(s)}]]

\* A subset without one of its elements is one smaller.
LEMMA Smaller ==
    ASSUME NEW S, IsFiniteSet(S), NEW s \in SUBSET S, s # {}
    PROVE  /\ Any(s) \in s /\ s \ {Any(s)} \in SUBSET S
           /\ Cardinality(s) \in Nat /\ Cardinality(s \ {Any(s)}) = Cardinality(s) - 1
<1>1. Any(s) \in s
    BY DEF Any
<1>2. IsFiniteSet(s)
    BY FS_Subset
<1>q. QED BY <1>1, <1>2, FS_CardinalityType, FS_RemoveElement

\* There is such a function on the subsets of any size.
LEMMA FoldsUpTo ==
    ASSUME NEW S, IsFiniteSet(S), NEW f
    PROVE  \A n \in Nat : \E iter : Folds(iter, f, UpTo(S, n))
<1> DEFINE Without == {n \in Nat : ~\E iter : Folds(iter, f, UpTo(S, n))}
<1> SUFFICES ASSUME Without # {} PROVE FALSE
    OBVIOUS
<1>1. PICK n \in Without : \A m \in Without : n <= m
    BY LeastNumber, Without \subseteq Nat
<1>2. n \in Nat /\ ~\E iter : Folds(iter, f, UpTo(S, n))
    OBVIOUS
<1>3. CASE n = 0
  <2>1. \A s \in UpTo(S, 0) : s = {}
    <3> SUFFICES ASSUME NEW s \in SUBSET S, Cardinality(s) <= 0 PROVE s = {}
        BY DEF UpTo
    <3>1. IsFiniteSet(s) /\ Cardinality(s) \in Nat
        BY FS_Subset, FS_CardinalityType
    <3>q. QED BY <3>1, FS_EmptySet
  <2>2. Folds([s \in UpTo(S, 0) |-> 0], f, UpTo(S, 0))
      BY <2>1 DEF Folds
  <2>q. QED BY <1>2, <1>3, <2>2
<1>4. CASE n # 0
  <2>1. n - 1 \in Nat /\ n - 1 \notin Without
      BY <1>1, <1>2, <1>4
  <2>2. PICK h : Folds(h, f, UpTo(S, n - 1))
      BY <2>1
  <2> DEFINE g == [s \in UpTo(S, n) |-> IF s = {} THEN 0 ELSE f[Any(s)] + h[s \ {Any(s)}]]
  <2>3. ASSUME NEW s \in UpTo(S, n), s # {} PROVE h[s \ {Any(s)}] = g[s \ {Any(s)}]
    <3>1. s \ {Any(s)} \in UpTo(S, n - 1) /\ s \ {Any(s)} \in UpTo(S, n)
        BY <1>2, <2>1, <2>3, Smaller DEF UpTo
    <3>q. QED BY <2>2, <3>1 DEF Folds
  <2>4. Folds(g, f, UpTo(S, n))
      BY <2>3 DEF Folds
  <2>q. QED BY <1>2, <2>4
<1>q. QED BY <1>3, <1>4

\* The sum of a function with a finite domain is what such a fold gives its domain.
LEMMA SumIsFold ==
    ASSUME NEW S, IsFiniteSet(S), NEW f, DOMAIN f = S
    PROVE  \E iter : Folds(iter, f, SUBSET S) /\ SumFunction(f) = iter[S]
<1> DEFINE iter == CHOOSE g : Folds(g, f, SUBSET S)
<1>1. SumFunction(f) = iter[S]
    BY DEF SumFunction, SumFunctionOnSet, FoldFunctionOnSet, MapThenFoldSet, Folds, Any
<1>2. SUBSET S = UpTo(S, Cardinality(S)) /\ Cardinality(S) \in Nat
    BY FS_Subset, FS_CardinalityType DEF UpTo
<1>3. \E g : Folds(g, f, UpTo(S, Cardinality(S)))
    BY <1>2, FoldsUpTo
<1>4. Folds(iter, f, SUBSET S)
    BY <1>2, <1>3
<1>q. QED BY <1>1, <1>4

Shifts(f, e, g, k) == \A i \in DOMAIN f : g[i] = f[i] + e[i] * k

\* Sums are linear.
LEMMA SumShift ==
    ASSUME NEW S, IsFiniteSet(S), NEW f \in [S -> Int], NEW e \in [S -> Int], NEW g \in [S -> Int],
           NEW k \in Int, Shifts(f, e, g, k)
    PROVE  /\ SumFunction(f) \in Int /\ SumFunction(e) \in Int
           /\ SumFunction(g) = SumFunction(f) + SumFunction(e) * k
<1>1. PICK F : Folds(F, f, SUBSET S) /\ SumFunction(f) = F[S]
    BY SumIsFold
<1>2. PICK E : Folds(E, e, SUBSET S) /\ SumFunction(e) = E[S]
    BY SumIsFold
<1>3. PICK G : Folds(G, g, SUBSET S) /\ SumFunction(g) = G[S]
    BY SumIsFold
<1> DEFINE Good(s) == F[s] \in Int /\ E[s] \in Int /\ G[s] = F[s] + E[s] * k
           Bad == {n \in Nat : \E s \in SUBSET S : Cardinality(s) = n /\ ~Good(s)}
<1>4. Bad = {}
  <2> SUFFICES ASSUME Bad # {} PROVE FALSE
      OBVIOUS
  <2>1. PICK n \in Bad : \A m \in Bad : n <= m
      BY LeastNumber, Bad \subseteq Nat
  <2>2. PICK s \in SUBSET S : Cardinality(s) = n /\ ~Good(s)
      OBVIOUS
  <2>3. CASE s = {}
    <3>1. F[s] = 0 /\ E[s] = 0 /\ G[s] = 0
        BY <1>1, <1>2, <1>3, <2>3 DEF Folds
    <3>2. Good(s)
        BY <3>1
    <3>q. QED BY <2>2, <3>2
  <2>4. CASE s # {}
    <3> DEFINE x == Any(s)
               r == s \ {Any(s)}
    <3>1. /\ x \in S /\ r \in SUBSET S /\ n \in Nat
          /\ Cardinality(r) = n - 1 /\ Cardinality(r) \in Nat
      <4>1. /\ x \in s /\ r \in SUBSET S
            /\ Cardinality(s) \in Nat /\ Cardinality(r) = Cardinality(s) - 1
          BY <2>4, Smaller
      <4>2. Cardinality(r) \in Nat
          BY <4>1, FS_Subset, FS_CardinalityType
      <4>q. QED BY <2>2, <4>1, <4>2
    <3>2. Good(r)
        BY <2>1, <3>1
    <3>3. F[s] = f[x] + F[r] /\ E[s] = e[x] + E[r] /\ G[s] = g[x] + G[r]
        BY <1>1, <1>2, <1>3, <2>4 DEF Folds
    <3>4. g[x] = f[x] + e[x] * k /\ f[x] \in Int /\ e[x] \in Int
        BY <3>1 DEF Shifts
    <3> HIDE DEF x, r
    <3>5. \A a, b, c, d \in Int : (a + b * k) + (c + d * k) = (a + c) + (b + d) * k
        OBVIOUS
    <3>6. G[s] = F[s] + E[s] * k
        BY <3>2, <3>3, <3>4, <3>5
    <3>7. F[s] \in Int /\ E[s] \in Int
        BY <3>2, <3>3, <3>4
    <3>q. QED BY <2>2, <3>6, <3>7
  <2>q. QED BY <2>3, <2>4
<1>5. Good(S)
  <2>1. S \in SUBSET S /\ Cardinality(S) \in Nat
      BY FS_CardinalityType
  <2> HIDE DEF Good
  <2>q. QED BY <1>4, <2>1
<1>q. QED BY <1>1, <1>2, <1>3, <1>5

\* A finite set of numbers that is not empty has a greatest one.
LEMMA GreatestNumber ==
    ASSUME NEW S, IsFiniteSet(S), S \subseteq Int, S # {}
    PROVE  Max(S) \in S /\ \A y \in S : Max(S) >= y
<1> DEFINE Has(T) == \E m \in T : \A y \in T : m >= y
           Bad == {n \in Nat : \E T \in SUBSET S : T # {} /\ Cardinality(T) = n /\ ~Has(T)}
<1>1. Bad = {}
  <2> SUFFICES ASSUME Bad # {} PROVE FALSE
      OBVIOUS
  <2>1. PICK n \in Bad : \A m \in Bad : n <= m
      BY LeastNumber, Bad \subseteq Nat
  <2>2. PICK T \in SUBSET S : T # {} /\ Cardinality(T) = n /\ ~Has(T)
      OBVIOUS
  <2> DEFINE x == Any(T)
             R == T \ {Any(T)}
  <2>3. /\ x \in T /\ R \in SUBSET S /\ n \in Nat
        /\ Cardinality(R) = n - 1 /\ Cardinality(R) \in Nat
    <3>1. /\ x \in T /\ R \in SUBSET S
          /\ Cardinality(T) \in Nat /\ Cardinality(R) = Cardinality(T) - 1
        BY <2>2, Smaller
    <3>2. Cardinality(R) \in Nat
        BY <3>1, FS_Subset, FS_CardinalityType
    <3>q. QED BY <2>2, <3>1, <3>2
  <2>4. CASE R = {}
    <3>1. \A y \in T : y = x
        BY <2>4
    <3>2. x \in Int
        BY <2>3
    <3> HIDE DEF x
    <3>3. \A y \in T : x >= y
        BY <3>1, <3>2
    <3>q. QED BY <2>2, <2>3, <3>3 DEF x
  <2>5. CASE R # {}
    <3>1. Has(R)
      <4>1. n - 1 \notin Bad /\ n - 1 \in Nat
          BY <2>1, <2>3
      <4> HIDE DEF R, Has
      <4>q. QED BY <2>3, <2>5, <4>1
    <3>2. PICK m \in R : \A y \in R : m >= y
        BY <3>1
    <3>3. x \in Int /\ m \in Int /\ T = R \cup {x} /\ m \in T /\ T \subseteq Int
        BY <2>2, <2>3
    <3>4. CASE m >= x
        BY <2>2, <3>2, <3>3, <3>4
    <3>5. CASE ~(m >= x)
      <4>1. \A y \in T : x >= y
          BY <3>2, <3>3, <3>5
      <4>q. QED BY <2>2, <2>3, <4>1
    <3>q. QED BY <3>4, <3>5
  <2>q. QED BY <2>4, <2>5
<1>2. Has(S)
  <2>1. S \in SUBSET S /\ Cardinality(S) \in Nat
      BY FS_CardinalityType
  <2> HIDE DEF Has
  <2>q. QED BY <1>1, <2>1
<1>q. QED BY <1>2 DEF Max

\* The values of a function on a finite set are finitely many.
LEMMA ValuesFinite ==
    ASSUME NEW S, IsFiniteSet(S), NEW f, DOMAIN f = S, f = [x \in S |-> f[x]]
    PROVE  IsFiniteSet({f[x] : x \in S})
<1> DEFINE T == {f[x] : x \in S}
<1>1. f \in [S -> T]
    BY Zenon
<1>2. \A t \in T : \E x \in S : f[x] = t
    OBVIOUS
<1>3. f \in Surjection(S, T)
    BY <1>1, <1>2 DEF Surjection
<1> HIDE DEF T
<1>4. IsFiniteSet(T)
    BY <1>3, FS_Surjection
<1>q. QED BY <1>4 DEF T

\* Two sets of numbers, one in the other and never exceeded by it, have one greatest.
LEMMA SameGreatest ==
    ASSUME NEW A, NEW B, IsFiniteSet(A), A # {}, A \subseteq B, B \subseteq Int,
           \A b \in B : \E a \in A : b <= a
    PROVE  Max(A) = Max(B)
<1>1. Max(A) \in A /\ \A y \in A : Max(A) >= y
    BY GreatestNumber
<1> DEFINE m == Max(A)
<1> HIDE DEF m
<1>2. m \in B /\ m \in Int /\ \A y \in B : m >= y
  <2>1. m \in A /\ \A y \in A : m >= y
      BY <1>1 DEF m
  <2>2. ASSUME NEW b \in B PROVE m >= b
    <3>1. PICK a \in A : b <= a
        OBVIOUS
    <3>2. m \in Int /\ a \in Int /\ b \in Int /\ m >= a
        BY <2>1
    <3>q. QED BY <3>1, <3>2
  <2>q. QED BY <2>1, <2>2
<1>3. \A c \in B : (\A y \in B : c >= y) => c = m
    BY <1>2
<1>4. Max(B) = m
    BY <1>2, <1>3 DEF Max
<1>q. QED BY <1>4 DEF m

-------------------------------------------------------------------------------
(* The maximum loss.  Between two levels the payoff is a straight line, which *)
(* is nowhere below both its ends, and above the last one it rises, because   *)
(* every short call has its long.  So no spot is worse than every level.      *)

Checked(leg) ==
    /\ leg.type \in {"CE", "PE"} /\ leg.side \in {"BUY", "SELL"}
    /\ leg.strike \in Nat /\ leg.quantity \in Nat /\ leg.price \in Nat
CheckedLegs(legs) ==
    /\ DOMAIN legs = 1 .. Len(legs) /\ Len(legs) \in 2 .. 4
    /\ \A i \in DOMAIN legs : Checked(legs[i])

Signed(leg) == (IF leg.side = "SELL" THEN -1 ELSE 1) * leg.quantity
Worth(leg, spot) == Signed(leg) * (Intrinsic(leg, spot) - leg.price)
Slope(leg, at) ==
    IF leg.type = "CE" THEN IF leg.strike <= at THEN 1 ELSE 0
                       ELSE IF leg.strike <= at THEN 0 ELSE -1
Tilt(legs, at) == SumFunction([i \in DOMAIN legs |-> Signed(legs[i]) * Slope(legs[i], at)])

\* An option is worth what it is in the money.
LEMMA IntrinsicIs ==
    ASSUME NEW leg, Checked(leg), NEW spot \in Int
    PROVE  /\ Intrinsic(leg, spot) \in Int
           /\ Intrinsic(leg, spot) = IF leg.type = "CE" THEN IF spot > leg.strike THEN spot - leg.strike ELSE 0
                                                        ELSE IF spot < leg.strike THEN leg.strike - spot ELSE 0
<1>1. ASSUME NEW x \in Int PROVE Max({0, x}) = IF x > 0 THEN x ELSE 0
  <2> DEFINE m == IF x > 0 THEN x ELSE 0
  <2>1. m \in {0, x} /\ m >= 0 /\ m >= x /\ \A c \in {0, x} : c >= 0 /\ c >= x => c = m
      OBVIOUS
  <2> HIDE DEF m
  <2>2. Max({0, x}) = m
      BY <2>1 DEF Max
  <2>q. QED BY <2>2 DEF m
<1>2. leg.strike \in Int /\ leg.type \in {"CE", "PE"}
    BY DEF Checked
<1>3. CASE leg.type = "PE"
  <2>1. Intrinsic(leg, spot) = IF leg.strike - spot > 0 THEN leg.strike - spot ELSE 0
      BY <1>1, <1>2, <1>3 DEF Intrinsic
  <2>q. QED BY <1>2, <1>3, <2>1
<1>4. CASE leg.type = "CE"
  <2>1. Intrinsic(leg, spot) = IF spot - leg.strike > 0 THEN spot - leg.strike ELSE 0
      BY <1>1, <1>2, <1>4 DEF Intrinsic
  <2>q. QED BY <1>2, <1>4, <2>1
<1>q. QED BY <1>2, <1>3, <1>4

\* A leg's sign, quantity and worth are numbers.
LEMMA LegTypes ==
    ASSUME NEW leg, Checked(leg), NEW spot \in Int
    PROVE  Signed(leg) \in Int /\ Worth(leg, spot) \in Int /\ Slope(leg, spot) \in {-1, 0, 1}
<1>1. Signed(leg) \in Int
    BY DEF Checked, Signed
<1>2. Intrinsic(leg, spot) - leg.price \in Int
    BY IntrinsicIs DEF Checked
<1>3. Worth(leg, spot) \in Int
    BY <1>1, <1>2 DEF Worth
<1>q. QED BY <1>1, <1>3 DEF Slope

\* A leg is worth a straight line between a level and the next one on.
LEMMA StraightLeg ==
    ASSUME NEW leg, Checked(leg), NEW at \in Nat, NEW spot \in Nat, at <= spot,
           leg.strike <= at \/ leg.strike >= spot
    PROVE  Worth(leg, spot) = Worth(leg, at) + (Signed(leg) * Slope(leg, at)) * (spot - at)
<1>1. /\ Signed(leg) \in Int /\ leg.price \in Int /\ Slope(leg, at) \in {-1, 0, 1}
      /\ Intrinsic(leg, spot) \in Int /\ Intrinsic(leg, at) \in Int
    BY LegTypes, IntrinsicIs DEF Checked
<1>2. Intrinsic(leg, spot) = Intrinsic(leg, at) + Slope(leg, at) * (spot - at)
  <2>1. leg.strike \in Nat /\ leg.type \in {"CE", "PE"}
      BY DEF Checked
  <2>2. CASE leg.type = "CE" /\ leg.strike <= at
      BY <2>1, <2>2, IntrinsicIs DEF Slope
  <2>3. CASE leg.type = "CE" /\ ~(leg.strike <= at)
      BY <2>1, <2>3, IntrinsicIs DEF Slope
  <2>4. CASE leg.type = "PE" /\ leg.strike <= at
      BY <2>1, <2>4, IntrinsicIs DEF Slope
  <2>5. CASE leg.type = "PE" /\ ~(leg.strike <= at)
      BY <2>1, <2>5, IntrinsicIs DEF Slope
  <2>q. QED BY <2>1, <2>2, <2>3, <2>4, <2>5
<1>3. \A c, i, p, d, k \in Int : c * ((i + d * k) - p) = c * (i - p) + (c * d) * k
    OBVIOUS
<1>4. spot - at \in Int /\ Slope(leg, at) \in Int
    BY <1>1
<1>q. QED BY <1>1, <1>2, <1>3, <1>4 DEF Worth

\* So is a basket, with the slopes of its legs together.
LEMMA StraightPayoff ==
    ASSUME NEW legs, CheckedLegs(legs), NEW at \in Nat, NEW spot \in Nat, at <= spot,
           \A i \in DOMAIN legs : legs[i].strike <= at \/ legs[i].strike >= spot
    PROVE  /\ Payoff(legs, at) \in Int /\ Tilt(legs, at) \in Int
           /\ Payoff(legs, spot) = Payoff(legs, at) + Tilt(legs, at) * (spot - at)
<1> DEFINE S == DOMAIN legs
           f == [i \in S |-> Worth(legs[i], at)]
           g == [i \in S |-> Worth(legs[i], spot)]
           e == [i \in S |-> Signed(legs[i]) * Slope(legs[i], at)]
           k == spot - at
<1>1. IsFiniteSet(S) /\ \A i \in S : Checked(legs[i])
    BY FS_Interval DEF CheckedLegs
<1>2. \A i \in S : f[i] \in Int /\ g[i] \in Int /\ e[i] \in Int
  <2> SUFFICES ASSUME NEW i \in S
               PROVE  /\ Worth(legs[i], at) \in Int /\ Worth(legs[i], spot) \in Int
                      /\ Signed(legs[i]) * Slope(legs[i], at) \in Int
      OBVIOUS
  <2>1. /\ Worth(legs[i], at) \in Int /\ Worth(legs[i], spot) \in Int
        /\ Signed(legs[i]) \in Int /\ Slope(legs[i], at) \in Int
      BY <1>1, LegTypes
  <2>q. QED BY <2>1
<1>3. f \in [S -> Int] /\ g \in [S -> Int] /\ e \in [S -> Int] /\ k \in Int
    BY <1>2
<1>4. Shifts(f, e, g, k)
    BY <1>1, StraightLeg DEF Shifts
<1>5. /\ SumFunction(f) = Payoff(legs, at) /\ SumFunction(g) = Payoff(legs, spot)
      /\ SumFunction(e) = Tilt(legs, at)
    BY DEF Payoff, Tilt, Worth, Signed
<1> HIDE DEF S, f, g, e, k
<1>6. /\ SumFunction(f) \in Int /\ SumFunction(e) \in Int
      /\ SumFunction(g) = SumFunction(f) + SumFunction(e) * k
    BY <1>1, <1>3, <1>4, SumShift
<1>q. QED BY <1>5, <1>6 DEF k

\* Above all strikes only calls count, and the longs among them cover the shorts.
LEMMA RisesAbove ==
    ASSUME NEW legs, CheckedLegs(legs), Paired(legs), NEW at \in Nat, \A i \in DOMAIN legs : legs[i].strike <= at
    PROVE  Tilt(legs, at) >= 0
<1> DEFINE S == DOMAIN legs
           Of(side) == [i \in S |-> IF legs[i].type = "CE" /\ legs[i].side = side
                                    THEN legs[i].quantity ELSE 0]
           f == Of("BUY")
           e == Of("SELL")
           g == [i \in S |-> Signed(legs[i]) * Slope(legs[i], at)]
<1>1. IsFiniteSet(S) /\ \A i \in S : Checked(legs[i])
    BY FS_Interval DEF CheckedLegs
<1>2. \A i \in S : f[i] \in Int /\ e[i] \in Int /\ g[i] \in Int /\ g[i] = f[i] + e[i] * (-1)
    BY <1>1 DEF Checked, Signed, Slope
<1>3. f \in [S -> Int] /\ e \in [S -> Int] /\ g \in [S -> Int] /\ Shifts(f, e, g, -1)
    BY <1>2 DEF Shifts
<1>4. /\ SumFunction(f) = Sum(legs, "CE", "BUY") /\ SumFunction(e) = Sum(legs, "CE", "SELL")
      /\ SumFunction(g) = Tilt(legs, at)
    BY DEF Sum, Tilt
<1>5. Sum(legs, "CE", "SELL") <= Sum(legs, "CE", "BUY")
    BY DEF Paired
<1> HIDE DEF S, f, g, e
<1>6. /\ SumFunction(f) \in Int /\ SumFunction(e) \in Int
      /\ SumFunction(g) = SumFunction(f) + SumFunction(e) * (-1)
    BY <1>1, <1>2, <1>3, SumShift
<1>q. QED BY <1>4, <1>5, <1>6

\* Levels are strikes and zero, finitely many numbers.
LEMMA LevelsFinite ==
    ASSUME NEW legs, CheckedLegs(legs)
    PROVE  IsFiniteSet(Levels(legs)) /\ Levels(legs) \subseteq Nat /\ 0 \in Levels(legs)
<1> DEFINE f == [i \in DOMAIN legs |-> legs[i].strike]
<1>1. IsFiniteSet(DOMAIN legs) /\ \A i \in DOMAIN legs : legs[i].strike \in Nat
    BY FS_Interval DEF CheckedLegs, Checked
<1>2. IsFiniteSet({f[i] : i \in DOMAIN legs})
  <2>1. DOMAIN f = DOMAIN legs /\ f = [i \in DOMAIN legs |-> f[i]]
      OBVIOUS
  <2> HIDE DEF f
  <2>q. QED BY <1>1, <2>1, ValuesFinite
<1>3. Levels(legs) = {f[i] : i \in DOMAIN legs} \cup {0}
    BY DEF Levels
<1> HIDE DEF f
<1>4. IsFiniteSet(Levels(legs))
    BY <1>2, <1>3, FS_AddElement
<1>q. QED BY <1>1, <1>4 DEF Levels

\* No spot is worse than every level: one of its two neighbours is as bad, or the last
\* one below it.
LEMMA NoSpotIsWorse ==
    ASSUME NEW legs, CheckedLegs(legs), Paired(legs), NEW spot \in Nat
    PROVE  \E level \in Levels(legs) : Payoff(legs, level) <= Payoff(legs, spot)
<1>1. /\ IsFiniteSet(Levels(legs)) /\ Levels(legs) \subseteq Nat /\ 0 \in Levels(legs)
      /\ \A i \in DOMAIN legs : legs[i].strike \in Levels(legs)
    BY LevelsFinite DEF Levels
<1> DEFINE below == {l \in Levels(legs) : l <= spot}
           above == {l \in Levels(legs) : l > spot}
           at == Max(below)
<1>2. at \in below /\ \A l \in below : at >= l
  <2>1. IsFiniteSet(below) /\ below \subseteq Int /\ below # {}
      BY <1>1, FS_Subset
  <2>q. QED BY <2>1, GreatestNumber
<1> HIDE DEF at
<1>3. at \in Levels(legs) /\ at \in Nat /\ at <= spot /\ \A l \in Levels(legs) : l <= at \/ l > spot
    BY <1>1, <1>2
<1>4. /\ Payoff(legs, at) \in Int /\ Tilt(legs, at) \in Int
      /\ Payoff(legs, spot) = Payoff(legs, at) + Tilt(legs, at) * (spot - at)
  <2>1. \A i \in DOMAIN legs : legs[i].strike <= at \/ legs[i].strike >= spot
      BY <1>1, <1>3
  <2>q. QED BY <1>3, <2>1, StraightPayoff
<1>5. CASE Tilt(legs, at) >= 0
  <2>1. spot - at \in Nat /\ Tilt(legs, at) \in Nat
      BY <1>3, <1>4, <1>5
  <2>2. Tilt(legs, at) * (spot - at) \in Nat
      BY <2>1
  <2>q. QED BY <1>3, <1>4, <2>2
<1>6. CASE above = {}
  <2>1. \A i \in DOMAIN legs : legs[i].strike <= at
      BY <1>1, <1>3, <1>6
  <2>q. QED BY <1>3, <1>5, <2>1, RisesAbove
<1>7. CASE above # {} /\ ~(Tilt(legs, at) >= 0)
  <2>1. PICK next \in above : \A l \in above : next <= l
      BY <1>1, <1>7, LeastNumber, above \subseteq Nat
  <2>2. next \in Levels(legs) /\ next \in Nat /\ next > spot
      BY <1>1, <2>1
  <2>3. \A i \in DOMAIN legs : legs[i].strike <= at \/ legs[i].strike >= next
      BY <1>1, <1>3, <2>1
  <2>4. Payoff(legs, next) = Payoff(legs, at) + Tilt(legs, at) * (next - at)
      BY <1>3, <2>2, <2>3, StraightPayoff
  <2>5. \A t \in Int, m, n \in Nat : ~(t >= 0) /\ m <= n => t * n <= t * m
    <3> SUFFICES ASSUME NEW t \in Int, NEW m \in Nat, NEW n \in Nat, ~(t >= 0), m <= n
                 PROVE  t * n <= t * m
        OBVIOUS
    <3>1. -t \in Nat /\ n - m \in Nat
        OBVIOUS
    <3>2. (-t) * (n - m) \in Nat
        BY <3>1
    <3>3. (-t) * (n - m) = t * m - t * n
        OBVIOUS
    <3>4. t * m \in Int /\ t * n \in Int
        OBVIOUS
    <3>q. QED BY <3>2, <3>3, <3>4
  <2>6. spot - at \in Nat /\ next - at \in Nat /\ spot - at <= next - at
      BY <1>3, <2>2
  <2>7. Tilt(legs, at) * (next - at) <= Tilt(legs, at) * (spot - at)
      BY <1>4, <1>7, <2>5, <2>6
  <2>8. Tilt(legs, at) * (next - at) \in Int /\ Tilt(legs, at) * (spot - at) \in Int
      BY <1>4, <2>6
  <2>q. QED BY <1>4, <2>2, <2>4, <2>7, <2>8
<1>q. QED BY <1>5, <1>6, <1>7

\* What the position is worth when every underlying ends at one spot.
LEMMA OutcomeIsPayoff ==
    ASSUME NEW legs, CheckedLegs(legs), NEW spot \in Nat, NEW spotOf,
           \A i \in DOMAIN legs : spotOf[legs[i].family] = spot
    PROVE  Outcome(legs, spotOf) = Payoff(legs, spot)
<1> DEFINE ends(leg) == spotOf[leg.family]
           worth(leg) == IF leg.type = "CE" THEN IF ends(leg) > leg.strike THEN ends(leg) - leg.strike ELSE 0
                                            ELSE IF ends(leg) < leg.strike THEN leg.strike - ends(leg) ELSE 0
           term(leg) == leg.quantity * (IF leg.side = "BUY" THEN worth(leg) - leg.price
                                                            ELSE leg.price - worth(leg))
<1>1. ASSUME NEW i \in DOMAIN legs PROVE term(legs[i]) = Worth(legs[i], spot)
  <2> DEFINE leg == legs[i]
  <2>1. Checked(leg) /\ ends(leg) = spot
      BY DEF CheckedLegs
  <2> HIDE DEF leg, ends
  <2>2. Intrinsic(leg, spot) = worth(leg) /\ Intrinsic(leg, spot) \in Int
      BY <2>1, IntrinsicIs
  <2> HIDE DEF worth
  <2>3. leg.quantity \in Int /\ leg.price \in Int /\ leg.side \in {"BUY", "SELL"}
      BY <2>1 DEF Checked
  <2>4. \A q, w, p \in Int : q * (p - w) = (-1 * q) * (w - p) /\ q * (w - p) = (1 * q) * (w - p)
      OBVIOUS
  <2>5. term(leg) = Worth(leg, spot)
    <3>1. CASE leg.side = "BUY"
      <4>1. term(leg) = leg.quantity * (worth(leg) - leg.price)
          BY <3>1
      <4>2. Worth(leg, spot) = (1 * leg.quantity) * (worth(leg) - leg.price)
          BY <2>2, <3>1 DEF Worth, Signed
      <4>q. QED BY <2>2, <2>3, <2>4, <4>1, <4>2
    <3>2. CASE leg.side = "SELL"
      <4>1. term(leg) = leg.quantity * (leg.price - worth(leg))
          BY <3>2
      <4>2. Signed(leg) = -1 * leg.quantity
          BY <2>3, <3>2 DEF Signed
      <4>3. Worth(leg, spot) = (-1 * leg.quantity) * (worth(leg) - leg.price)
          BY <2>2, <4>2 DEF Worth
      <4>q. QED BY <2>2, <2>3, <2>4, <4>1, <4>3
    <3>q. QED BY <2>3, <3>1, <3>2
  <2>q. QED BY <2>5 DEF leg, worth, ends
<1>2. [i \in DOMAIN legs |-> term(legs[i])] = [i \in DOMAIN legs |-> Worth(legs[i], spot)]
  <2> HIDE DEF term
  <2>q. QED BY <1>1
<1>3. Outcome(legs, spotOf) = SumFunction([i \in DOMAIN legs |-> term(legs[i])])
    BY DEF Outcome
<1>4. Payoff(legs, spot) = SumFunction([i \in DOMAIN legs |-> Worth(legs[i], spot)])
    BY DEF Payoff, Worth, Signed
<1>q. QED BY Zenon, <1>2, <1>3, <1>4

\* Legs that a question asks about were checked, and are a basket.
LEMMA AskedLegs ==
    ASSUME Asked, question.about = "basket"
    PROVE  CheckedLegs(question.legs) /\ Paired(question.legs) /\ OneFamily(question.legs)
<1> DEFINE legs == question.legs
<1>1. legs \in Baskets /\ ValidBasket(legs, "LIMIT")
    BY DEF Asked
<1>2. DOMAIN legs = 1 .. Len(legs) /\ \A i \in DOMAIN legs : Checked(legs[i])
    BY <1>1, RulesAssumption DEF Checked
<1>q. QED BY <1>1, <1>2 DEF CheckedLegs, ValidBasket

\* The maximum loss is the worst that an accepted LIMIT basket can come to, for every
\* basket and wherever the underlying ends: risk/basket.go looks at the strikes and zero
\* alone.
THEOREM MaxLossAlwaysWorst == Spec => []MaxLossIsWorst
<1>1. ASSUME Asked PROVE MaxLossIsWorst
  <2> DEFINE legs == question.legs
             strikes == {legs[i].strike : i \in DOMAIN legs}
             families == {legs[i].family : i \in DOMAIN legs}
             spots == 0 .. 2 * Max(strikes) + 1
             outcomes == {Outcome(legs, spotOf) : spotOf \in [families -> spots]}
             A == {0} \cup {- Payoff(legs, spot) : spot \in Levels(legs)}
             B == {0} \cup {- worth : worth \in outcomes}
  <2>0. SUFFICES ASSUME question.about = "basket" PROVE Max(A) = Max(B)
      BY DEF MaxLossIsWorst, MaxLoss
  <2>1. CheckedLegs(legs) /\ Paired(legs) /\ OneFamily(legs)
      BY <1>1, <2>0, AskedLegs
  <2>2. 1 \in DOMAIN legs /\ families = {legs[1].family}
      BY <2>1 DEF CheckedLegs, OneFamily
  <2> HIDE DEF legs
  <2>3. /\ IsFiniteSet(Levels(legs)) /\ Levels(legs) \subseteq Nat
        /\ Levels(legs) = strikes \cup {0}
      BY <2>1, LevelsFinite DEF Levels
  <2>4. Levels(legs) \subseteq spots /\ spots \subseteq Nat
    <3>1. strikes \subseteq Int /\ IsFiniteSet(strikes) /\ strikes # {}
        BY <2>2, <2>3, FS_Subset
    <3>2. Max(strikes) \in strikes /\ \A s \in strikes : Max(strikes) >= s
        BY <3>1, GreatestNumber
    <3> HIDE DEF strikes
    <3>q. QED BY <2>3, <3>2
  <2>5. \A spot \in Nat : Payoff(legs, spot) \in Int
    <3>1. \A spot \in Nat : \A i \in DOMAIN legs : legs[i].strike <= spot \/ legs[i].strike >= spot
        BY <2>1 DEF CheckedLegs, Checked
    <3>q. QED BY <2>1, <3>1, StraightPayoff
  <2>6. \A spotOf \in [families -> spots] :
            /\ spotOf[legs[1].family] \in spots
            /\ Outcome(legs, spotOf) = Payoff(legs, spotOf[legs[1].family])
    <3> SUFFICES ASSUME NEW spotOf \in [families -> spots]
                 PROVE  /\ spotOf[legs[1].family] \in spots
                        /\ Outcome(legs, spotOf) = Payoff(legs, spotOf[legs[1].family])
        OBVIOUS
    <3>1. spotOf[legs[1].family] \in spots
        BY <2>2
    <3>2. \A i \in DOMAIN legs : spotOf[legs[i].family] = spotOf[legs[1].family]
        BY <2>1 DEF OneFamily
    <3>3. spotOf[legs[1].family] \in Nat
        BY <2>4, <3>1
    <3>q. QED BY <2>1, <3>1, <3>2, <3>3, OutcomeIsPayoff
  <2> HIDE DEF families, spots
  <2>7. \A spot \in spots : \E spotOf \in [families -> spots] : spotOf[legs[1].family] = spot
    <3> SUFFICES ASSUME NEW spot \in spots
                 PROVE  \E spotOf \in [families -> spots] : spotOf[legs[1].family] = spot
        OBVIOUS
    <3>1. [f \in families |-> spot] \in [families -> spots]
          /\ [f \in families |-> spot][legs[1].family] = spot
        BY <2>2
    <3>q. QED BY <3>1
  <2>8. outcomes = {Payoff(legs, spot) : spot \in spots}
      BY <2>6, <2>7
  <2> HIDE DEF outcomes
  <2>9. A \subseteq B /\ B \subseteq Int
    <3>1. A \subseteq B
        BY <2>4, <2>8
    <3>2. B \subseteq Int
      <4> SUFFICES ASSUME NEW spot \in spots PROVE - Payoff(legs, spot) \in Int
          BY <2>8
      <4>q. QED BY <2>4, <2>5
    <3>q. QED BY <3>1, <3>2
  <2>10. \A b \in B : \E a \in A : b <= a
    <3> SUFFICES ASSUME NEW spot \in spots
                 PROVE  \E a \in A : - Payoff(legs, spot) <= a
        BY <2>8
    <3>1. PICK level \in Levels(legs) : Payoff(legs, level) <= Payoff(legs, spot)
        BY <2>1, <2>4, NoSpotIsWorse
    <3>2. Payoff(legs, level) \in Int /\ Payoff(legs, spot) \in Int
        BY <2>3, <2>4, <2>5
    <3>3. - Payoff(legs, spot) <= - Payoff(legs, level)
        BY <3>1, <3>2
    <3>q. QED BY <3>3
  <2>11. IsFiniteSet(A)
    <3> DEFINE f == [spot \in Levels(legs) |-> - Payoff(legs, spot)]
    <3>1. IsFiniteSet({f[spot] : spot \in Levels(legs)})
      <4>1. DOMAIN f = Levels(legs) /\ f = [spot \in Levels(legs) |-> f[spot]]
          OBVIOUS
      <4> HIDE DEF f
      <4>q. QED BY <2>3, <4>1, ValuesFinite
    <3>2. A = {f[spot] : spot \in Levels(legs)} \cup {0}
        OBVIOUS
    <3> HIDE DEF f, A
    <3>q. QED BY <3>1, <3>2, FS_AddElement
  <2> HIDE DEF A, B
  <2>12. A # {}
      BY DEF A
  <2>q. QED BY <2>9, <2>10, <2>11, <2>12, SameGreatest
<1>q. QED BY <1>1, AskedAlways, PTL

===============================================================================
