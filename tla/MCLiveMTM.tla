------------------------------ MODULE MCLiveMTM -------------------------------
EXTENDS LiveMTM

\* A limit that trading one contract can breach, or two contracts moving.
Loss == -2

\* Nothing, one lot of some contracts: the first ones in a fixed order, as the
\* contracts are alike.
FirstLots ==
    LET first == CHOOSE t \in Tokens : TRUE IN
    {[t \in Tokens |-> 0], [t \in Tokens |-> 1], [t \in Tokens |-> IF t = first THEN 1 ELSE 0]}
===============================================================================
