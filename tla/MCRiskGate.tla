----------------------------- MODULE MCRiskGate -----------------------------
(* Small instances of RiskGate for TLC. *)
EXTENDS RiskGate, TLC

CONSTANTS r1, r2

RequestSymmetry == Permutations({r1, r2})

NoLimits ==
    [max_order_qty |-> None, max_order_notional |-> None,
     max_orders_per_minute |-> None, max_open_orders |-> None,
     max_net_qty_per_symbol |-> None]

RateLimited == [NoLimits EXCEPT !.max_orders_per_minute = 2]

BookLimited ==
    [NoLimits EXCEPT !.max_order_qty = 2, !.max_order_notional = 6,
                     !.max_open_orders = 3, !.max_net_qty_per_symbol = 3]

ConfigsChecked == {RateLimited, BookLimited}

Buy(symbol, qty, price) == [symbol |-> symbol, is_buy |-> TRUE, qty |-> qty, price |-> price]

Sell(symbol, qty, price) == [Buy(symbol, qty, price) EXCEPT !.is_buy = FALSE]

\* A single order, a pair, and one order whose notional is too large.
BatchesChecked ==
    {<<Buy("BTC", 1, None)>>, <<Buy("BTC", 1, None), Sell("ETH", 2, 3)>>,
     <<Sell("ETH", 2, 4)>>}
=============================================================================
