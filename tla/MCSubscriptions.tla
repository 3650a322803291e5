--------------------------- MODULE MCSubscriptions ----------------------------
(* Subscriptions for TLC: a stablecoin, a token, and a pair of the two. *)
EXTENDS Subscriptions

CONSTANTS Usd, Coin, UsdCoin

MCOne == [t \in Token |-> IF t = Usd THEN 10 ELSE 100]
MCToken0 == [p \in Pair |-> Usd]
MCToken1 == [p \in Pair |-> Coin]
MCReserves == {<<7, 40>>, <<30, 3>>}
===============================================================================
