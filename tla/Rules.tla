-------------------------------- MODULE Rules ---------------------------------
(***************************************************************************)
(* The rules that are plain functions, put to the test: a state is a       *)
(* question that the service may have to ask one of them, and the          *)
(* properties compare the answer with what the rule is for.                *)
(***************************************************************************)
EXTENDS SessionCache, BasketRules

CONSTANTS
    Calendars,  \* candidate calendar files
    Moments,    \* at which a lock or a login may come
    Caches,     \* what an earlier run left of the session cache
    Baskets     \* candidate baskets, sequences of legs

\* A cache file was written by a save, so it expires as NextKiteExpiry says.  A leg has
\* passed ValidateBasket's own checks of its option type, side, strike and quantity.
ASSUME RulesAssumption ==
    /\ \A cal \in Calendars : {cal.first, cal.last} \subseteq Int
    /\ Moments \subseteq Int
    /\ \A file \in Caches \ {Absent} :
          file.issued \in Int /\ file = Cached("old", file.issued, NextKiteExpiry(file.issued))
    /\ \A legs \in Baskets :
          /\ DOMAIN legs = 1 .. Len(legs)
          /\ \A i \in DOMAIN legs :
                /\ legs[i].type \in {"CE", "PE"} /\ legs[i].side \in {"BUY", "SELL"}
                /\ {legs[i].strike, legs[i].quantity} \subseteq Nat \ {0} /\ legs[i].price \in Nat

VARIABLE question

Nothing == [about |-> "nothing"]

Init == question = Nothing

\* A lock at this moment: when may it end?
AskUnlock ==
    /\ question = Nothing
    /\ \E cal \in Calendars, at \in Moments :
          Loads(cal) /\ InYear(cal, TradingDate(at))
          /\ question' = [about |-> "unlock", cal |-> cal, at |-> at]

\* A login at this moment, a save that may be cut short, a restart later on.
AskRestart ==
    /\ question = Nothing
    /\ \E cache \in Caches, at \in Moments, how \in {"returns", "dies", "fails"}, call \in 0 .. 3 :
          \E later \in {m \in Moments : m >= at} :
             question' = [about |-> "restart", cache |-> cache, at |-> at, how |-> how,
                          call |-> call, later |-> later]

AskBasket ==
    /\ question = Nothing
    /\ \E legs \in Baskets :
          ValidBasket(legs, "LIMIT") /\ question' = [about |-> "basket", legs |-> legs]

Answered == question # Nothing /\ question' = Nothing

Next == AskUnlock \/ AskRestart \/ AskBasket \/ Answered

Spec == Init /\ [][Next]_question

-------------------------------------------------------------------------------
(* Properties.                                                                *)

\* NextUnlock gives the first opening of a later date than the lock's, on a weekday
\* that is no holiday or on a special session, and none when the year has no more.
UnlockIsNextOpening ==
    question.about = "unlock" =>
        LET cal == question.cal
            open == {d \in cal.first .. cal.last :
                        IF d % 7 \in {5, 6} THEN d \in cal.special ELSE d \notin cal.holidays}
            later == {d \in open : d > TradingDate(question.at)}
        IN NextUnlock(cal, question.at)
              = IF later = {} THEN Never ELSE Min(later) * DayLength + Opening

\* What a restart makes of the directory that the login's save has left.
Found(q) == Load(Leaves([cache |-> q.cache, temporary |-> Absent], "new", q.at, q.call, q.how), q.later)

\* However a save ends, a restart finds the new session or exactly what was there
\* before, each until the expiry in its record, and never a file that keeps the process
\* from starting; once the save has returned it is the new one.
RestartFindsASession ==
    question.about = "restart" =>
        LET q == question
            Offers(token, until) == Found(q) = IF q.later < until
                                               THEN [says |-> "session", token |-> token]
                                               ELSE [says |-> "no session"]
        IN \/ Offers("new", NextKiteExpiry(q.at))
           \/ q.how # "returns" /\ q.cache = Absent /\ Found(q).says = "no session"
           \/ q.how # "returns" /\ q.cache # Absent /\ Offers("old", q.cache.expires)

\* A cached session "expires at the next 06:00 IST boundary" (PRODUCT.md): no restart
\* uses it once a 06:00 has come since its login.
SessionEndsAtBoundary ==
    question.about = "restart" /\ Found(question) = [says |-> "session", token |-> "new"] =>
        \A moment \in question.at + 1 .. question.later : moment % DayLength # Flush

\* What the position that an accepted basket builds is worth at expiry, wherever each
\* underlying ends.
Outcome(legs, spotOf) ==
    SumFunction([i \in DOMAIN legs |->
        LET leg == legs[i]
            ends == spotOf[leg.family]
            worth == IF leg.type = "CE" THEN IF ends > leg.strike THEN ends - leg.strike ELSE 0
                                        ELSE IF ends < leg.strike THEN leg.strike - ends ELSE 0
        IN leg.quantity * (IF leg.side = "BUY" THEN worth - leg.price ELSE leg.price - worth)])

\* The maximum loss shown for an accepted LIMIT basket is its worst outcome, far below
\* and above its strikes too: none is worse, and one is that bad unless none loses.
MaxLossIsWorst ==
    question.about = "basket" =>
        LET legs == question.legs
            strikes == {legs[i].strike : i \in DOMAIN legs}
            families == {legs[i].family : i \in DOMAIN legs}
            outcomes == {Outcome(legs, spotOf) : spotOf \in [families -> 0 .. 2 * Max(strikes) + 1]}
        IN MaxLoss(legs) = Max({0} \cup {- worth : worth \in outcomes})
===============================================================================
