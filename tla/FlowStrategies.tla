--------------------------- MODULE FlowStrategies ---------------------------
(***************************************************************************)
(* The strategies that work through a programme rather than a signal: the  *)
(* order executors and schedulers, the hedgers, the portfolio and treasury *)
(* jobs, and the sentinel.  Those that read an account or a book take the  *)
(* venue as one more argument.                                             *)
(***************************************************************************)
EXTENDS TickEngine

Abs(x) == IF x < 0 THEN -x ELSE x

Lesser(a, b) == IF a < b THEN a ELSE b

-----------------------------------------------------------------------------
(* Time-weighted execution: one child order per interval.  A child counts  *)
(* as sent whatever the venue answered.                                    *)

TwapConfig == {[total_amount |-> 2, num_orders |-> 2]}

TwapReading == [mid : {100}] \cup {None}

TwapStart == [state |-> "Active", next_index |-> 0]

\* Mutant: a child that failed is sent again.
TwapRetries(c, m, r) ==
    IF m.next_index >= c.num_orders THEN <<>>
    ELSE <<Must(Order("primary", c.total_amount \div c.num_orders), m, [m EXCEPT !.next_index = @ + 1])>>

TwapTick(c, m, r) ==
    CASE m.state = "Complete" -> <<>>
      [] m.state = "Active" /\ m.next_index >= c.num_orders -> <<Set([m EXCEPT !.state = "Complete"])>>
      [] OTHER -> <<Try(Order("primary", c.total_amount \div c.num_orders), [m EXCEPT !.next_index = @ + 1])>>

-----------------------------------------------------------------------------
(* Volume-weighted execution: a share of every level near the mid.         *)

VwapConfig == {[total_amount |-> 2, price_spread |-> 1, volume_perc |-> 1]}

VwapReading ==
    [mid : {100}, levels : {<<>>, <<[px |-> 100, size |-> 1], [px |-> 105, size |-> 3]>>,
                            <<[px |-> 150, size |-> 1], [px |-> 95, size |-> 2]>>}] \cup {None}

\* The amounts of the orders, in the order of the levels.
PlanVwapOrders(c, r, remaining) ==
    LET near == SelectSeq(r.levels, LAMBDA l : 10 * Abs(l.px - r.mid) <= c.price_spread * r.mid)
        Take(orders, l) ==
            LET left == remaining - FoldLeft(LAMBDA a, b : a + b, 0, orders)
            IN  IF left <= 0 THEN orders ELSE Append(orders, Lesser(l.size * c.volume_perc, left))
    IN  FoldLeft(Take, <<>>, near)

VwapTick(c, remaining, r) ==
    LET orders == PlanVwapOrders(c, r, remaining)
        Sent(i) == FoldLeft(LAMBDA a, b : a + b, 0, SubSeq(orders, 1, i))
    IN  IF remaining <= 0 THEN <<>>
        ELSE [i \in DOMAIN orders |-> Try(Order("primary", orders[i]), remaining - Sent(i))]

-----------------------------------------------------------------------------
(* Level-based averaging: each level is bought once when the price reaches *)
(* it; the barriers end the executor and leave the position as it is.      *)

DcaExecutorConfig ==
    {[prices |-> <<120, 80>>, average_entry |-> 100, stop_loss |-> 3, take_profit |-> 5,
      trailing_activation |-> 1, trailing_delta |-> 2]}

DcaExecutorReading == [price : {70, 80, 110, 130, 150}] \cup {None}

DcaExecutorStart == [state |-> "Active", placed |-> {}, peak_pnl |-> 0]

LevelActivated(level, price) == price <= level

\* The profit in tenths of the average entry.
DcaPnl(c, r) == (10 * (r.price - c.average_entry)) \div c.average_entry

DcaBarrier(c, pnl, peak) ==
    CASE pnl <= -c.stop_loss -> "StopLoss"
      [] pnl >= c.take_profit -> "TakeProfit"
      [] pnl > -c.stop_loss /\ peak >= c.trailing_activation /\ pnl < peak - c.trailing_delta -> "TrailingStop"
      [] OTHER -> "Active"

DcaExecutorTick(c, m, r) ==
    LET due == SelectSeq(<<1, 2>>, LAMBDA i : i \notin m.placed /\ LevelActivated(c.prices[i], r.price))
        Placed(n) == [m EXCEPT !.placed = @ \cup {due[i] : i \in 1..n}]
        peak == IF DcaPnl(c, r) > m.peak_pnl THEN DcaPnl(c, r) ELSE m.peak_pnl
        end == [Placed(Len(due)) EXCEPT !.peak_pnl = peak, !.state = DcaBarrier(c, DcaPnl(c, r), peak)]
    IN  IF m.state # "Active" \/ end = m THEN <<>>
        ELSE Append([n \in DOMAIN due |-> Try(Order("primary", 1), Placed(n))], Set(end))

-----------------------------------------------------------------------------
(* The schedulers: one order per interval, with no memory of the last.     *)

DcaSchedulerConfig == [is_buy : BOOLEAN]

ClockReading == {"due"}

DcaSchedulerTick(c, m, r) == <<Must(Order("primary", IF c.is_buy THEN 1 ELSE -1), m, m)>>

\* What the generator drew: no entry, or an entry on one side.
RandomEntryConfig == {[qty |-> 1]}

RandomEntryReading == [is_buy : BOOLEAN] \cup {None}

RandomEntryTick(c, m, r) == <<Must(Order("primary", IF r.is_buy THEN 1 ELSE -1), m, m)>>

\* A conversion of min_amount, without reading the balance.
ConvertConfig == {[min_amount |-> 1]}

ConvertTick(c, m, r) == <<Must(Order("primary", c.min_amount), m, m)>>

-----------------------------------------------------------------------------
(* The perpetual hedge of a unit spot position, here two lots of half a    *)
(* unit, the largest order.  The threshold is in halves.                   *)

HedgeConfig == [threshold : {1, 2}, max_order_size : {1}]

HedgeReading == [spot_price : {100}, perp_price : {100}] \cup {None}

SpotPosition == 2

ComputeHedgeTrade(perp, threshold) ==
    LET drift == -SpotPosition - perp
        size == IF Abs(perp) > SpotPosition THEN Abs(perp) ELSE SpotPosition
    IN  IF 2 * Abs(drift) < threshold * size THEN None ELSE drift

HedgeTick(c, perp_position, r) ==
    LET trade == ComputeHedgeTrade(perp_position, c.threshold)
        qty == Lesser(Abs(trade), c.max_order_size) * (IF trade > 0 THEN 1 ELSE -1)
    IN  IF trade = None THEN <<>>
        ELSE <<[Try(Order("hedge", qty), perp_position) EXCEPT !.ok = perp_position + qty]>>
-----------------------------------------------------------------------------
(* The hedged grid.  Its memory is the side it believes rests at each      *)
(* price; a level that has left the book is taken for a fill and hedged.   *)
(* The hedges are sent in whatever order the hash map yields them.         *)

HedgeGridConfig == {[lower_price |-> 90, upper_price |-> 110, num_levels |-> 1]}

HedgeGridReading == [mid : {0, 100, 120}]

HedgeGridLevels(c) ==
    LET step == (c.upper_price - c.lower_price) \div c.num_levels
    IN  [i \in 1 .. c.num_levels + 1 |-> c.lower_price + (i - 1) * step]

\* Resting price -> side; of two orders at one price the later one counts.
LiveLevels(v) ==
    LET At(px) == SelectSeq(v.book, LAMBDA q : q.px = px)
    IN  [px \in {v.book[i].px : i \in DOMAIN v.book} |-> Last(At(px)).side]

\* Mutant: the hedge goes the way of the fill.
HedgeDoubles(side) == Order("hedge", Sign(side))

HedgeFill(side) == Order("hedge", -Sign(side))

HedgeGridTicks(c, believed, r, v) ==
    LET live == LiveLevels(v)
        levels == HedgeGridLevels(c)
        SideAt(px) == IF px \in DOMAIN live THEN live[px] ELSE IF px < r.mid THEN "bid" ELSE "ask"
        fresh == SelectSeq(levels, LAMBDA px : px \notin DOMAIN live)
        seeds == [i \in DOMAIN fresh |-> Must(Quote([side |-> SideAt(fresh[i]), px |-> fresh[i]]), <<>>, <<>>)]
        Hedge(px) == Must(HedgeFill(believed[px]), <<>>, <<>>)
        next == [px \in ToSet(levels) |-> SideAt(px)]
        quiet == fresh = <<>> /\ next = believed
    IN  IF r.mid <= 0 \/ quiet THEN {<<>>}
        ELSE {<<Set(<<>>)>> \o [i \in DOMAIN gone |-> Hedge(gone[i])] \o seeds \o <<Set(next)>> :
                gone \in SetToSeqs(DOMAIN believed \ DOMAIN live)}

-----------------------------------------------------------------------------
(* Portfolio rebalancing over two assets, net being what the account holds *)
(* of each at a price of 1.  Targets are in halves, the band in hundredths. *)

RebalanceConfig == {[targets |-> [primary |-> 1, hedge |-> 1], band_pct |-> 10]}

\* The preset takes its weights unchecked: they need not add up to one.
MarketCapConfig == [targets : [primary : {1}, hedge : {1, 2}], band_pct : {5}]

RebalanceReading == {"priced", None}

PlanTrades(targets, values) ==
    LET total == values["primary"] + values["hedge"]
    IN  [s \in Symbols |-> IF total <= 0 THEN 0 ELSE (total * targets[s]) \div 2 - values[s]]

\* In the order of the assets' names.
RebalanceTick(c, m, r, v) ==
    LET total == v.net["primary"] + v.net["hedge"]
        Outside(s) == 100 * Abs(2 * v.net[s] - total * c.targets[s]) > 2 * total * c.band_pct
        plan == PlanTrades(c.targets, v.net)
        trades == SelectSeq(<<"hedge", "primary">>, LAMBDA s : plan[s] # 0 /\ Outside(s))
    IN  [i \in DOMAIN trades |-> Must(Order(trades[i], plan[trades[i]]), m, m)]

-----------------------------------------------------------------------------
(* The treasury jobs.  net["primary"] is what the strategy has added to    *)
(* the balance it reads.                                                   *)

AutoborrowConfig == [min_balance : {2}, repay_above : {0, 1, 3}]

AutoborrowReading == [free : {0, 2, 4}] \cup {None}

AutoborrowTick(c, m, r, v) ==
    LET balance == r.free + v.net["primary"]
        Move(amount) == <<Must(Order("primary", amount), m, m)>>
    IN  CASE balance < c.min_balance -> Move(c.min_balance - balance)
          [] c.min_balance < balance /\ c.repay_above > 0 /\ balance > c.repay_above
                -> Move(c.min_balance - balance)
          [] OTHER -> <<>>

\* The two venues' balances are net; a transfer carries a key of its own, so the
\* venue never takes it for a repetition.  The share is in halves.
BalanceAlignConfig == {[primary_share |-> 1, threshold |-> 1]}

BalanceAlignTick(c, m, r, v) ==
    LET total == v.net["primary"] + v.net["hedge"]
        drift == v.net["primary"] - (total * c.primary_share) \div 2
    IN  IF Abs(drift) < c.threshold \/ total = 0 THEN <<>>
        ELSE <<Must(Transfer(drift), m, m)>>

\* Deposits are swept under a key made of the deposit's id, and remembered once
\* the transfer has been confirmed.
DepositTransferConfig == {[ignore_below |-> 2]}

Deposit(id, amount, completed) == [id |-> id, amount |-> amount, completed |-> completed]

DepositTransferReading ==
    {<<Deposit("d1", 2, FALSE)>>,
     <<Deposit("d2", 3, TRUE), Deposit("d1", 2, TRUE)>>,
     <<Deposit("d3", 1, TRUE), Deposit("d2", 3, TRUE), Deposit("zero", 0, TRUE), Deposit("d1", 2, TRUE)>>}

Sweepable(c, d) == d.completed /\ d.amount > 0 /\ d.amount >= c.ignore_below

\* Mutant: a deposit is remembered before its transfer is confirmed.
SweepEagerly(c, seen, r) ==
    LET due == SelectSeq(r, LAMBDA d : Sweepable(c, d) /\ d.id \notin seen)
        Seen(n) == seen \cup {due[i].id : i \in 1..n}
    IN  [n \in DOMAIN due |-> Must(Keyed(due[n].id, due[n].amount), Seen(n), Seen(n))]

DepositTransferTick(c, seen, r) ==
    LET due == SelectSeq(r, LAMBDA d : Sweepable(c, d) /\ d.id \notin seen)
        Seen(n) == seen \cup {due[i].id : i \in 1..n}
    IN  [n \in DOMAIN due |-> Must(Keyed(due[n].id, due[n].amount), Seen(n - 1), Seen(n))]

-----------------------------------------------------------------------------
(* The sentinel cancels every order once per outage.  Failures past the    *)
(* threshold are not told apart.                                           *)

SentinelConfig == [max_consecutive_failures : {0, 2}]

SentinelReading == {"healthy", "down"}

Healthy == [failures |-> 0, armed |-> FALSE]

\* Mutant: an outage stays armed although its cancel failed.
UnwindOnce(failed, fired) == <<Try(CancelAll, fired)>>

\* A cancel that fails is tried again on the next poll.
Unwind(failed, fired) == <<Set(fired), Must(CancelAll, failed, fired)>>

SentinelTick(c, health, r) ==
    LET failures == Lesser(health.failures + 1, c.max_consecutive_failures + 1)
        fire == failures >= c.max_consecutive_failures /\ ~health.armed
        failed == [failures |-> failures, armed |-> health.armed]
        fired == [failures |-> failures, armed |-> TRUE]
    IN  CASE r = "healthy" -> IF health = Healthy THEN <<>> ELSE <<Set(Healthy)>>
          [] r = "down" /\ fire -> Unwind(failed, fired)
          [] OTHER -> IF failed = health THEN <<>> ELSE <<Set(failed)>>
=============================================================================
