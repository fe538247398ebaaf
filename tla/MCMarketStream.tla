--------------------------- MODULE MCMarketStream ---------------------------
(* Small instances of MarketStream for TLC. *)
EXTENDS MarketStream

CONSTANTS t1, t2

AllOf(c) == [t \in Subscriptions |-> c]
TickersOrBooks == {AllOf("ticker"), AllOf("orderbook")}
SymbolOf == [t \in Subscriptions |-> IF t = t1 THEN "BTC" ELSE "ETH"]
=============================================================================
