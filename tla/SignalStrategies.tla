-------------------------- MODULE SignalStrategies --------------------------
(***************************************************************************)
(* The strategies that hold at most one position and trade it with market  *)
(* orders on a signal.  Each has three definitions: its parameters, what   *)
(* one tick can read from the market once the indicators have been run     *)
(* over the candles, and the steps of the tick.  Indicator values are      *)
(* small numbers around the thresholds they are compared with.             *)
(***************************************************************************)
EXTENDS TickEngine

-----------------------------------------------------------------------------
(* A position is a phase, and a signal is the phase to be in next.         *)

Phases == {"Flat", "Long", "Short"}

Direction == [Flat |-> 0, Long |-> 1, Short |-> -1]

\* Mutant: the phase is written whatever the venue answered.
TransitionAnyway(held, next) ==
    IF next = held THEN <<>>
    ELSE <<Try(Order("primary", Direction[next] - Direction[held]), next)>>

(* The phase is written after the venue has accepted the order.  A reversal *)
(* is two orders on the same side, and the strategy is flat between them.  *)
Transition(held, next) ==
    LET Leg(from, to) == Must(Order("primary", Direction[to] - Direction[from]), from, to)
    IN  CASE next = held -> <<>>
          [] next # held /\ "Flat" \in {held, next} -> <<Leg(held, next)>>
          [] OTHER -> <<Leg(held, "Flat"), Leg("Flat", next)>>

-----------------------------------------------------------------------------
SupertrendConfig == {[qty |-> 1]}

SupertrendReading == [st : {"Up", "Down", "Flat"}, fast : 0..1, slow : 0..1] \cup {None}

SupertrendTick(c, held, r) ==
    LET dema == IF r.fast > r.slow THEN "Up" ELSE IF r.fast < r.slow THEN "Down" ELSE "Flat"
        want == IF r.st = dema /\ dema = "Up" THEN "Long"
                ELSE IF r.st = dema /\ dema = "Down" THEN "Short" ELSE "Flat"
    IN  Transition(held, want)

-----------------------------------------------------------------------------
AdxTrendConfig == {[threshold |-> 1]}

AdxTrendReading == [adx : 0..2, plus_di : 0..1, minus_di : 0..1] \cup {None}

AdxTrendTick(c, held, r) ==
    LET against == IF held = "Long" THEN r.minus_di > r.plus_di ELSE r.plus_di > r.minus_di
    IN  Transition(held,
          IF held # "Flat" THEN IF r.adx < c.threshold \/ against THEN "Flat" ELSE held
          ELSE CASE r.adx <= c.threshold \/ r.plus_di = r.minus_di -> held
                 [] OTHER -> IF r.plus_di > r.minus_di THEN "Long" ELSE "Short")

-----------------------------------------------------------------------------
BbKeltnerConfig == {[qty |-> 1]}

\* The close and the Bollinger bands (width w around 0) against Keltner bands of width 1.
BbKeltnerReading == [close : -1..1, width : 0..1] \cup {None}

BbKeltnerTick(c, held, r) ==
    LET squeezed == r.width < 1
    IN  Transition(held,
          IF held # "Flat" THEN IF squeezed THEN held ELSE "Flat"
          ELSE CASE squeezed /\ r.close > r.width -> "Long"
                 [] squeezed /\ r.close < -r.width -> "Short"
                 [] OTHER -> held)

-----------------------------------------------------------------------------
CvdDivergenceConfig == {[z_threshold |-> 1]}

\* z is None while the deviation is zero; the code reads that as 0.
CvdDivergenceReading == [price_move : -1..1, z : -2..2] \cup {None}

CvdDivergenceTick(c, held, r) ==
    LET long == r.price_move < 0 /\ r.z > c.z_threshold
        short == r.price_move > 0 /\ r.z < -c.z_threshold
    IN  Transition(held, CASE long /\ held # "Short" -> "Long"
                           [] short /\ held # "Long" -> "Short"
                           [] OTHER -> "Flat")

-----------------------------------------------------------------------------
DarvasBoxConfig == {[qty |-> 1]}

(* bar is the close against the last bar's own low and high (-1 below, 1   *)
(* above), always 0 for bars as venues publish them, so that the exits are *)
(* never taken; close is against the box of the bars before it.            *)
DarvasBoxReading == [bar : {0}, close : -1..1, new_high : BOOLEAN, range : 0..1] \cup {None}

DarvasBoxTick(c, held, r) ==
    Transition(held,
      CASE held = "Long" -> IF r.bar < 0 THEN "Flat" ELSE held
        [] held = "Short" -> IF r.bar > 0 THEN "Flat" ELSE held
        [] held = "Flat" /\ r.range > 0 /\ r.new_high /\ r.close > 0 -> "Long"
        [] held = "Flat" /\ r.range > 0 /\ ~r.new_high /\ r.close < 0 -> "Short"
        [] OTHER -> held)

-----------------------------------------------------------------------------
DualThrustConfig == {[k1 |-> 1, k2 |-> 1]}

\* The close relative to the open, and the Donchian range.
DualThrustReading == [move : -2..2, range : 0..1] \cup {None}

DualThrustTick(c, held, r) ==
    Transition(held,
      CASE held = "Long" -> IF r.move < 0 THEN "Flat" ELSE held
        [] held = "Short" -> IF r.move > 0 THEN "Flat" ELSE held
        [] held = "Flat" /\ r.move > c.k1 * r.range -> "Long"
        [] held = "Flat" /\ r.move < -(c.k2 * r.range) -> "Short"
        [] OTHER -> held)

-----------------------------------------------------------------------------
IchimokuConfig == {[qty |-> 1]}

IchimokuReading ==
    [tenkan : 0..1, kijun : 0..1, close : 0..3, senkou_a : 1..2, senkou_b : 1..2] \cup {None}

IchimokuTick(c, held, r) ==
    LET above == r.close > r.senkou_a /\ r.close > r.senkou_b
        below == r.close < r.senkou_a /\ r.close < r.senkou_b
        bullish == r.senkou_a > r.senkou_b
        exit == (~above /\ ~below) \/ IF held = "Long" THEN r.tenkan < r.kijun ELSE r.tenkan > r.kijun
    IN  Transition(held,
          IF held # "Flat" THEN IF exit THEN "Flat" ELSE held
          ELSE CASE r.tenkan > r.kijun /\ above /\ bullish -> "Long"
                 [] r.tenkan < r.kijun /\ below /\ ~bullish -> "Short"
                 [] OTHER -> held)

-----------------------------------------------------------------------------
\* Nothing relates the two thresholds in the configuration.
MeanReversionConfig == [entry_threshold : {2}, exit_band : {1, 3}]

MeanReversionReading == [z : (-3..3) \cup {None}] \cup {None}

MeanReversionTick(c, held, r) ==
    LET z == IF r.z = None THEN 0 ELSE r.z
    IN  Transition(held,
          IF held # "Flat" THEN IF -c.exit_band < z /\ z < c.exit_band THEN "Flat" ELSE held
          ELSE CASE z > c.entry_threshold -> "Short"
                 [] z < -c.entry_threshold -> "Long"
                 [] OTHER -> held)

-----------------------------------------------------------------------------
\* The threshold in halves, so that half of it is a number; RSI about its middle.
MomentumFactorConfig == {[return_threshold |-> 2, velocity_band |-> 0]}

MomentumFactorReading == [raw_return : -3..3, rsi : -1..1] \cup {None}

MomentumFactorTick(c, held, r) ==
    Transition(held,
      CASE held = "Long" -> IF 2 * r.raw_return < c.return_threshold THEN "Flat" ELSE held
        [] held = "Short" -> IF 2 * r.raw_return > -c.return_threshold THEN "Flat" ELSE held
        [] held = "Flat" /\ r.raw_return > c.return_threshold /\ r.rsi > c.velocity_band -> "Long"
        [] held = "Flat" /\ r.raw_return < -c.return_threshold /\ r.rsi < -c.velocity_band -> "Short"
        [] OTHER -> held)
-----------------------------------------------------------------------------
(* The three strategies whose memory is one flag, has_position: they open  *)
(* long and close, and never go short.                                     *)

OpenOrClose(held, signal) ==
    Transition(held, CASE signal = "Buy" -> "Long" [] signal = "Sell" -> "Flat" [] OTHER -> held)

MacdBbConfig == {[qty |-> 1]}

MacdBbReading == [macd : 0..1, signal : 0..1, close : 0..3, lower : {1}, upper : {1, 2}] \cup {None}

MacdBbTick(c, held, r) ==
    OpenOrClose(held, CASE r.macd > r.signal /\ r.close <= r.lower -> "Buy"
                        [] r.macd < r.signal /\ r.close >= r.upper -> "Sell"
                        [] OTHER -> "NoTrade")

BollingerV2Config == {[squeeze_threshold |-> 1]}

BollingerV2Reading == [close : 0..3, lower : {1}, upper : {1, 2}] \cup {None}

BollingerV2Tick(c, held, r) ==
    OpenOrClose(held, CASE r.upper - r.lower < c.squeeze_threshold -> "NoTrade"
                        [] r.close <= r.lower -> "Buy"
                        [] r.close >= r.upper -> "Sell"
                        [] OTHER -> "NoTrade")

DmanV3Config == {[qty |-> 1]}

DmanV3Reading == [fast : 0..1, slow : 0..1, close : 0..1, trend : 0..1] \cup {None}

DmanV3Tick(c, held, r) ==
    OpenOrClose(held, CASE r.fast > r.slow /\ r.close > r.trend -> "Buy"
                        [] r.fast < r.slow /\ r.close <= r.trend -> "Sell"
                        [] OTHER -> "NoTrade")

-----------------------------------------------------------------------------
XfundingLiteConfig == [enter_threshold : {2}, exit_threshold : {1, 3}]

XfundingLiteReading == [rate : -2..3] \cup {None}

XfundingLiteTick(c, held, r) ==
    Transition(held,
      CASE held = "Flat" /\ r.rate >= c.enter_threshold -> "Short"
        [] held = "Short" /\ -c.exit_threshold < r.rate /\ r.rate < c.exit_threshold -> "Flat"
        [] OTHER -> held)

IrrConfig == {[entry_threshold |-> 1]}

\* The last line of the signal file that parses; None when there is none.
IrrReading == [signal : -2..2] \cup {None}

IrrTick(c, held, r) ==
    OpenOrClose(held, CASE r.signal > c.entry_threshold -> "Buy"
                        [] r.signal < -c.entry_threshold -> "Sell"
                        [] OTHER -> "NoTrade")

-----------------------------------------------------------------------------
(* Edge-triggered: the memory is the side of the last traded cross.        *)

EmaCrossConfig == {[qty |-> 1]}

EmaCrossReading == [fast : 0..1, slow : 0..1] \cup {None}

EmaCrossTick(c, cross_state, r) ==
    LET new_state == IF r.fast > r.slow THEN "FastAbove" ELSE "FastBelow"
        side == IF r.fast > r.slow THEN 1 ELSE -1
    IN  IF r.fast = r.slow \/ new_state = cross_state THEN <<>>
        ELSE <<Must(Order("primary", side), cross_state, new_state)>>

-----------------------------------------------------------------------------
(* Two legs, each logged when refused; the memory says the position is on  *)
(* (or off) whatever the venue answered.                                   *)

\* Mutant: the second leg is forgotten.
FirstLeg(before, first, second, after) == <<Try(first, after)>>

BothLegs(before, first, second, after) == <<Try(first, before), Try(second, after)>>

\* What a z-score or a basis x says, from flat and from a position.
Classify(x, entry, exit, has_position) ==
    CASE x = None -> "NoTrade"
      [] x # None /\ has_position -> IF -exit < x /\ x < exit THEN "Close" ELSE "NoTrade"
      [] x # None /\ ~has_position /\ x > entry -> "Short"
      [] x # None /\ ~has_position /\ x < -entry -> "Long"
      [] OTHER -> "NoTrade"

StatArbConfig == [entry_threshold : {2}, exit_threshold : {1, 3}]

\* The z-score of the spread; None until two spreads differ.
StatArbReading == [z : (-3..3) \cup {None}] \cup {None}

StatArbTick(c, pos, r) ==
    LET signal == Classify(r.z, c.entry_threshold, c.exit_threshold, pos # 0)
        Spread(a, after) == BothLegs(pos, Order("primary", a), Order("hedge", -a), after)
    IN  CASE signal = "NoTrade" -> <<>>
          [] signal = "Long" -> Spread(1, 1)
          [] signal = "Short" -> Spread(-1, -1)
          [] signal = "Close" -> Spread(-pos, 0)

SpotPerpArbConfig == [entry_threshold : {2}, exit_threshold : {1}]

SpotPerpArbReading == [basis : -3..3] \cup {None}

\* The close only clears the flag: no order takes the two legs off.
SpotPerpArbTick(c, has_position, r) ==
    LET signal == Classify(r.basis, c.entry_threshold, c.exit_threshold, has_position)
        Basis(spot) == BothLegs(has_position, Order("primary", spot), Order("hedge", -spot), TRUE)
    IN  CASE signal = "NoTrade" -> <<>>
          [] signal = "Short" -> Basis(1)
          [] signal = "Long" -> Basis(-1)
          [] signal = "Close" -> <<Set(FALSE)>>

\* The signal is followed by methods that are still empty: the position is recorded
\* and nothing is sent, neither the basis trade nor the maker ladder.
BasisMmConfig == {[threshold |-> 1]}

BasisMmReading == [z : (-2..2) \cup {None}] \cup {None}

BasisMmTick(c, pos, r) ==
    LET want == CASE r.z = None -> 0
                  [] r.z # None /\ r.z > c.threshold -> -1
                  [] r.z # None /\ r.z < -c.threshold -> 1
                  [] OTHER -> 0
    IN  IF want = pos \/ want = -pos THEN <<>> ELSE <<Set(want)>>

-----------------------------------------------------------------------------
(* No memory at all: every tick that still sees the spread trades it again. *)

AmmArbConfig == {[total_cost |-> 1, min_profit |-> 2, max_qty |-> 1]}

AmmArbReading == [cex : 1..3, amm : 1..3] \cup {None}

Gap(r) == IF r.cex < r.amm THEN r.amm - r.cex ELSE r.cex - r.amm

\* The least quantity that earns min_profit, and max_qty when none does.
ArbQty(c, r) == IF c.min_profit > c.max_qty * Gap(r) THEN c.max_qty ELSE c.min_profit \div Gap(r)

AmmArbTick(c, m, r) ==
    LET cheap == IF r.cex < r.amm THEN r.cex ELSE r.amm
        first == IF r.cex < r.amm THEN "primary" ELSE "hedge"
        second == IF r.cex < r.amm THEN "hedge" ELSE "primary"
    IN  IF Gap(r) < c.total_cost * cheap THEN <<>>
        ELSE BothLegs(m, Order(first, ArbQty(c, r)), Order(second, -ArbQty(c, r)), m)
=============================================================================
