--------------------------- MODULE QuoteStrategies --------------------------
(***************************************************************************)
(* The market makers: on every poll they plan a ladder of quotes around a  *)
(* fair price, cancel what rests and place the new ladder.  Each has its   *)
(* parameters, what a tick can read, the quotes it plans, and its tick.    *)
(* Prices are whole numbers and rates are in tenths, on readings for which *)
(* every division is exact.  Sizes are left out: one quote is one lot.     *)
(* None of these strategies updates the inventory it skews by, so the      *)
(* inventory is the initial 0 and its terms vanish.                        *)
(***************************************************************************)
EXTENDS TickEngine

Bid(px) == [side |-> "bid", px |-> px]

Ask(px) == [side |-> "ask", px |-> px]

\* Mutant: the bid is quoted on the far side of the mid.
Above(px, t) == (px * (10 + t)) \div 10

\* px less, or more, t tenths of it.
Less(px, t) == (px * (10 - t)) \div 10

More(px, t) == (px * (10 + t)) \div 10

Mids == {100, 200}

Larger(a, b) == IF a > b THEN a ELSE b

-----------------------------------------------------------------------------
\* Mutant: the old ladder stays where it is.
QuoteOnTop(m, quotes) == [i \in DOMAIN quotes |-> Try(Quote(quotes[i]), m)]

(* Cancel-all first (an error ends the tick before anything is placed),    *)
(* then one order per quote, a refused one being logged.                   *)
CancelThenQuote(m, quotes) ==
    <<Must(CancelAll, m, m)>> \o [i \in DOMAIN quotes |-> Try(Quote(quotes[i]), m)]

-----------------------------------------------------------------------------
FixedMakerConfig == [bid_spread : 0..1, ask_spread : 0..1]

FixedMakerReading == [mid : Mids] \cup {None}

FixedMakerQuotes(c, r) == <<Bid(Less(r.mid, c.bid_spread)), Ask(More(r.mid, c.ask_spread))>>

FixedMakerTick(c, m, r) == CancelThenQuote(m, FixedMakerQuotes(c, r))

-----------------------------------------------------------------------------
PmmDynamicConfig == {[base_spread |-> 1, base_vol |-> 1]}

\* vol is None until two returns have been seen.
PmmDynamicReading == [mid : Mids, vol : (0..2) \cup {None}] \cup {None}

DynamicSpread(c, r) == (c.base_spread * (IF r.vol = None THEN c.base_vol ELSE r.vol)) \div c.base_vol

PmmDynamicTick(c, m, r) ==
    LET bid == Less(r.mid, DynamicSpread(c, r))
        ask == More(r.mid, DynamicSpread(c, r))
    IN  IF bid <= 0 \/ ask <= 0 \/ bid >= ask THEN <<>>
        ELSE CancelThenQuote(m, <<Bid(bid), Ask(ask)>>)

-----------------------------------------------------------------------------
PerpetualMmConfig == {[half_spread |-> 1, funding_threshold |-> 1]}

\* A funding rate that cannot be fetched is read as 0.
PerpetualMmReading == [mid : Mids, funding_rate : -1..1] \cup {None}

PerpetualMmQuotes(c, r) ==
    LET skew == CASE r.funding_rate >= c.funding_threshold -> -1
                  [] r.funding_rate <= -c.funding_threshold -> 1
                  [] OTHER -> 0
    IN  <<Bid(Less(r.mid, c.half_spread + c.half_spread * skew)),
          Ask(More(r.mid, c.half_spread - c.half_spread * skew))>>

PerpetualMmTick(c, m, r) == CancelThenQuote(m, PerpetualMmQuotes(c, r))

-----------------------------------------------------------------------------
ObiMmConfig == {[half_spread |-> 1, signal_weight |-> 1]}

\* The total sizes on the two sides of the book; no imbalance is defined when both are 0.
ObiMmReading == [mid : Mids, bids : 0..1, asks : 0..1] \cup {None}

ObiMmQuotes(c, r) ==
    LET obi == (r.bids - r.asks) \div (r.bids + r.asks)
        fair == More(r.mid, c.signal_weight * obi)
    IN  <<Bid(Less(fair, c.half_spread)), Ask(More(fair, c.half_spread))>>

ObiMmTick(c, m, r) ==
    IF r.bids + r.asks = 0 THEN <<>> ELSE CancelThenQuote(m, ObiMmQuotes(c, r))

-----------------------------------------------------------------------------
QueueMmConfig == {[half_spread |-> 1, spread_widen |-> 1]}

\* The composite of book pressure and trade impulse, times alpha, in tenths.
QueueMmReading == [mid : Mids, signal : -1..1] \cup {None}

QueueMmQuotes(c, r) ==
    LET fair == More(r.mid, r.signal)
    IN  <<Bid(Less(fair, c.half_spread + c.spread_widen * Larger(r.signal, 0))),
          Ask(More(fair, c.half_spread + c.spread_widen * Larger(-r.signal, 0)))>>

QueueMmTick(c, m, r) == CancelThenQuote(m, QueueMmQuotes(c, r))

-----------------------------------------------------------------------------
\* The volatility is the configured one until the average of returns has warmed up.
SimplifiedGlftMmConfig == {[sigma |-> 1, vol_to_spread |-> 10]}

SimplifiedGlftMmReading == [mid : Mids, sigma : (0..2) \cup {None}] \cup {None}

SimplifiedGlftMmQuotes(c, r) ==
    LET half_spread == c.vol_to_spread * (IF r.sigma = None THEN c.sigma ELSE r.sigma)
    IN  <<Bid(r.mid - half_spread), Ask(r.mid + half_spread)>>

SimplifiedGlftMmTick(c, m, r) == CancelThenQuote(m, SimplifiedGlftMmQuotes(c, r))

-----------------------------------------------------------------------------
(* The closed-form spreads are a function of the parameters and of the     *)
(* volatility estimate; a tick sees them as a number, or None where the    *)
(* formula is undefined (risk aversion at or above the decay).             *)

AvellanedaMmV2Config == {[qty |-> 1]}

AvellanedaMmV2Reading == [mid : Mids, spread : {0, 10, 150, None}] \cup {None}

AvellanedaMmV2Tick(c, m, r) ==
    IF r.spread = None THEN <<>>
    ELSE IF r.mid - r.spread <= 0 \/ r.spread <= 0 THEN <<>>
    ELSE CancelThenQuote(m, <<Bid(r.mid - r.spread), Ask(r.mid + r.spread)>>)

GlftMmConfig == {[qty |-> 1]}

GlftMmReading == [mid : Mids, bid_spread : {10, 150}, ask_spread : {10, 20}] \cup {None}

GlftMmQuotes(c, r) ==
    LET bid == r.mid - r.bid_spread
        ask == r.mid + r.ask_spread
    IN  IF bid <= 0 \/ ask <= 0 \/ bid >= ask THEN <<>> ELSE <<Bid(bid), Ask(ask)>>

GlftMmTick(c, m, r) ==
    IF GlftMmQuotes(c, r) = <<>> THEN <<>> ELSE CancelThenQuote(m, GlftMmQuotes(c, r))
-----------------------------------------------------------------------------
(* Quotes from the other venue's best bid and ask, unless that spread does *)
(* not pay; then the quotes that rest are left where they are.             *)

CrossExchangeMmConfig == {[min_profitability |-> 1, levels |-> 2, step_size |-> 1]}

CrossExchangeMmReading == [taker_bid : {90, 100}, taker_ask : {100, 110}] \cup {None}

CrossExchangeMmQuotes(c, r) ==
    LET center == (r.taker_bid + r.taker_ask) \div 2
        Offset(i) == c.min_profitability + c.step_size * i
    IN  [i \in 1..c.levels |-> Bid(Less(center, Offset(i)))]
          \o [i \in 1..c.levels |-> Ask(More(center, Offset(i)))]

CrossExchangeMmTick(c, m, r) ==
    LET skip == 10 * (r.taker_ask - r.taker_bid) < 2 * c.min_profitability * r.taker_bid
    IN  IF r.taker_bid >= r.taker_ask \/ skip THEN <<>>
        ELSE CancelThenQuote(m, CrossExchangeMmQuotes(c, r))

-----------------------------------------------------------------------------
(* The only maker that does not replace its ladder on every poll: it does  *)
(* so when the mid leaves the band around the mid of the previous poll.    *)

PureMarketMakingConfig == {[levels |-> 2, order_step_size |-> 1, price_band |-> 1]}

PureMarketMakingReading == [mid : {100, 110, 120}] \cup {None}

WithinPriceBand(current, reference, band) ==
    10 * current >= (10 - band) * reference /\ 10 * current <= (10 + band) * reference

PureMarketMakingQuotes(c, r) ==
    LET Level(i) == <<Bid(Less(r.mid, c.order_step_size * i)), Ask(More(r.mid, c.order_step_size * i))>>
    IN  FlattenSeq([i \in 1..c.levels |-> Level(i)])

PureMarketMakingTick(c, last_mid, r) ==
    LET requote == last_mid = None \/ ~WithinPriceBand(r.mid, last_mid, c.price_band)
    IN  IF requote THEN Append(CancelThenQuote(last_mid, PureMarketMakingQuotes(c, r)), Set(r.mid))
        ELSE IF last_mid = r.mid THEN <<>> ELSE <<Set(r.mid)>>

-----------------------------------------------------------------------------
\* A ladder of fixed prices, each a bid or an ask as the mid has it.
GridStrikeConfig == {[lower |-> 80, upper |-> 140, levels |-> 2]}

GridStrikeReading == [mid : {90, 110, 130}] \cup {None}

GridStrikeQuotes(c, r) ==
    LET Price(i) == c.lower + i * ((c.upper - c.lower) \div (c.levels + 1))
    IN  [i \in 1..c.levels |-> IF Price(i) < r.mid THEN Bid(Price(i)) ELSE Ask(Price(i))]

GridStrikeTick(c, m, r) == CancelThenQuote(m, GridStrikeQuotes(c, r))

\* A ladder between the Bollinger bands, empty when the close is outside them.
BollGridConfig == {[grid_num |-> 2]}

BollGridReading == [close : {90, 100, 120, 150}, lower : {70}, upper : {70, 130}] \cup {None}

BollGridQuotes(c, r) ==
    LET width == r.upper - r.lower
        Offset(i) == i * (width \div (c.grid_num + 1))
        Level(i) == SelectSeq(<<Bid(r.close - Offset(i)), Ask(r.close + Offset(i))>>,
                        LAMBDA q : IF q.side = "bid" THEN q.px > 0 /\ q.px >= r.lower
                                   ELSE q.px <= r.upper)
    IN  IF width <= 0 \/ r.close > r.upper \/ r.close < r.lower THEN <<>>
        ELSE FlattenSeq([i \in 1..c.grid_num |-> Level(i)])

\* The first refused order ends the tick.
BollGridTick(c, m, r) ==
    <<Must(CancelAll, m, m)>>
      \o [i \in DOMAIN BollGridQuotes(c, r) |-> Must(Quote(BollGridQuotes(c, r)[i]), m, m)]

-----------------------------------------------------------------------------
(* The cross-venue makers quote on the primary venue around the hedge      *)
(* venue's price and never cancel: every poll adds two quotes.             *)

CrossMakerConfig == {[spread |-> 1, inventory_cap |-> 1]}

CrossMakerReading == [fair : {0, 100, 200}] \cup {None}

CrossMakerTick(c, m, r) ==
    IF r.fair = 0 THEN <<>>
    ELSE <<Try(Quote(Bid(Less(r.fair, c.spread))), m), Try(Quote(Ask(More(r.fair, c.spread))), m)>>

CrossFixedMakerConfig == {[spread |-> 1]}

CrossFixedMakerReading == [fair : Mids] \cup {None}

\* One lot is traded on the hedge venue when the counts of resting bids and asks,
\* taken before the new quotes, differ.
CrossFixedMakerTick(c, m, r, v) ==
    LET Count(side) == Len(SelectSeq(v.book, LAMBDA q : q.side = side))
        lot == IF Count("ask") > Count("bid") THEN 1 ELSE -1
    IN  <<Try(Quote(Bid(Less(r.fair, c.spread))), m), Try(Quote(Ask(More(r.fair, c.spread))), m)>>
          \o (IF Count("ask") = Count("bid") THEN <<>> ELSE <<Must(Order("hedge", lot), m, m)>>)

CrossDepthMakerConfig == {[spread |-> 1]}

CrossDepthMakerReading == [bid : {90}, ask : {110}] \cup {None}

\* A refused bid ends the tick; a refused ask leaves the bid resting.
CrossDepthMakerTick(c, m, r) ==
    LET fair == (r.bid + r.ask) \div 2
    IN  <<Must(Quote(Bid(Less(fair, c.spread))), m, m), Must(Quote(Ask(More(fair, c.spread))), m, m)>>
=============================================================================
