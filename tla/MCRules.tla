------------------------------- MODULE MCRules --------------------------------
EXTENDS Rules

\* Nine days from a Monday, with every choice of two holidays and special sessions
\* among a Wednesday, the weekend and the days about it.
NineDays ==
    {[first |-> 0, last |-> 8, holidays |-> h, special |-> s] :
        h \in UNION {kSubset(k, {2, 4, 5, 7, 8}) : k \in 0 .. 3},
        s \in UNION {kSubset(k, {2, 5, 6}) : k \in 0 .. 2}}

NineDaysLong == 0 .. 9 * DayLength - 1

\* No cache, one of the evening before, one that expires during the days.
Left == {Absent, Cached("old", -1, Flush), Cached("old", 1, DayLength + Flush)}

Legs(families, strikes, quantities, prices) ==
    [family : families, type : {"CE", "PE"}, side : {"BUY", "SELL"}, strike : strikes,
     quantity : quantities, price : prices]

\* Two legs of any kind, three of one price, four of one price and quantity: spreads,
\* ratio spreads, condors and butterflies among them, and what is refused.
Candidates ==
    [1 .. 2 -> Legs({"f1", "f2"}, {1, 3}, {1, 2}, {1, 2})]
    \cup [1 .. 3 -> Legs({"f1"}, {1, 3}, {1, 2}, {1})]
    \cup [1 .. 4 -> Legs({"f1"}, {1, 3}, {1}, {1})]
===============================================================================
