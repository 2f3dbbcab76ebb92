------------------------------- MODULE MCBasket -------------------------------
EXTENDS Basket

CONSTANTS b1, b2, s1, s2

\* The second leg of each side is two lots, so that it can fill in part.
TwoLots == [l \in Legs |-> IF l \in {b2, s2} THEN 2 ELSE 1]
===============================================================================
