----------------------------- MODULE BasketRules ------------------------------
(***************************************************************************)
(* risk/basket.go: which baskets are hedges, and the most one can lose.    *)
(*                                                                         *)
(* A leg is [family, type, side, strike, quantity, price].  Its family is  *)
(* exchange, underlying, expiry and product together; the lookup of the    *)
(* contract, lot multiples and tick alignment only refuse, and legs that   *)
(* they refuse are left out.                                               *)
(***************************************************************************)
EXTENDS Integers, Sequences, FiniteSetsExt, Functions

\* The quantity of one side of an option type.
Sum(legs, type, side) ==
    SumFunction([i \in DOMAIN legs |->
        IF legs[i].type = type /\ legs[i].side = side THEN legs[i].quantity ELSE 0])

PricedAs(legs, orderType) ==
    \A i \in DOMAIN legs : IF orderType = "LIMIT" THEN legs[i].price > 0 ELSE legs[i].price = 0

OneFamily(legs) == \A i \in DOMAIN legs : legs[i].family = legs[1].family

PairedOnly(legs) ==
    \A type \in {"CE", "PE"} : Sum(legs, type, "BUY") > 0 => Sum(legs, type, "SELL") > 0

\* Longs of a type are paired with shorts of it, and cover them.
Paired(legs) ==
    \A type \in {"CE", "PE"} :
        /\ Sum(legs, type, "BUY") > 0 => Sum(legs, type, "SELL") > 0
        /\ Sum(legs, type, "SELL") <= Sum(legs, type, "BUY")

ValidBasket(legs, orderType) ==
    /\ Len(legs) \in 2 .. 4
    /\ orderType \in {"LIMIT", "MARKET"}
    /\ \A i \in DOMAIN legs : legs[i].quantity > 0
    /\ PricedAs(legs, orderType)
    /\ OneFamily(legs)
    /\ \E i, j \in DOMAIN legs : legs[i].side = "BUY" /\ legs[j].side = "SELL"
    /\ Paired(legs)

Intrinsic(leg, spot) ==
    Max({0, IF leg.type = "PE" THEN leg.strike - spot ELSE spot - leg.strike})

\* basketPayoff at expiry, of every leg filled at its limit price
Payoff(legs, spot) ==
    SumFunction([i \in DOMAIN legs |->
        (IF legs[i].side = "SELL" THEN -1 ELSE 1) * legs[i].quantity
            * (Intrinsic(legs[i], spot) - legs[i].price)])

\* The levels at which the payoff is looked at.
Levels(legs) == {legs[i].strike : i \in DOMAIN legs} \cup {0}

\* MaxLossPaise of a LIMIT basket; a MARKET basket reports none.
MaxLoss(legs) == Max({0} \cup {- Payoff(legs, spot) : spot \in Levels(legs)})
===============================================================================
