----------------------------- MODULE Indicators -----------------------------
(***************************************************************************)
(* The incremental indicators the strategies feed with candles             *)
(* (indicators/*.rs).  Each has a start, a push and a value, as in the     *)
(* code, and is fed one bar at a time.  Prices are multiples of Scale,     *)
(* which is chosen so that every division of the code is exact for as many *)
(* bars as a run has.  A square root is never taken: a deviation is        *)
(* carried as its square, and the closes it is of are in ticks.            *)
(***************************************************************************)
EXTENDS Integers, Sequences, SequencesExt, FiniteSetsExt

CONSTANTS
    Unknown,
    Scale,     \* price units in one tick
    Window,    \* the window or period of every indicator
    Mult,      \* the band multiplier
    Bars,      \* the bars a venue may publish: [high, low, close], in ticks
    MaxBars    \* bound: how many are pushed

ASSUME IndicatorAssumption ==
    /\ Scale \in Nat \ {0} /\ Window \in Nat \ {0} /\ Mult \in Nat /\ MaxBars \in Nat
    /\ Unknown \notin Int

VARIABLES
    fed,       \* the bars pushed so far
    ema, dema, rsi, atr, donchian, adx, trend, closes

indicatorVars == <<fed, ema, dema, rsi, atr, donchian, adx, trend, closes>>

Magnitude(x) == IF x < 0 THEN -x ELSE x

Total(s) == FoldLeft(LAMBDA a, b : a + b, 0, s)

\* A rolling buffer of the last Window values.
Roll(buf, x) == IF Len(buf) >= Window THEN Append(Tail(buf), x) ELSE Append(buf, x)

-----------------------------------------------------------------------------
(* Ema: the mean of the first Window values, then v + (x - v) * 2/(w+1).   *)

EmaStart == [value |-> Unknown, seed |-> <<>>]

\* Mutant: the mean is taken one value too early.
EmaSeedEarly(e, x) ==
    IF e.value # Unknown THEN [e EXCEPT !.value = @ + ((x - @) * 2) \div (Window + 1)]
    ELSE IF Len(e.seed) + 1 < Window THEN [e EXCEPT !.seed = Append(@, x)]
    ELSE [value |-> Total(e.seed) \div Len(e.seed), seed |-> <<>>]

EmaPush(e, x) ==
    LET seed == Append(e.seed, x)
    IN  IF e.value # Unknown THEN [e EXCEPT !.value = @ + ((x - @) * 2) \div (Window + 1)]
        ELSE IF Len(seed) < Window THEN [e EXCEPT !.seed = seed]
        ELSE [value |-> Total(seed) \div Len(seed), seed |-> <<>>]

DemaStart == [ema1 |-> EmaStart, ema2 |-> EmaStart]

DemaPush(d, x) ==
    LET first == EmaPush(d.ema1, x)
    IN  [ema1 |-> first, ema2 |-> IF first.value = Unknown THEN d.ema2 ELSE EmaPush(d.ema2, first.value)]

DemaValue(d) == IF d.ema2.value = Unknown THEN Unknown ELSE 2 * d.ema1.value - d.ema2.value

-----------------------------------------------------------------------------
(* Rsi: averages of gains and losses.  The first change is taken as it is, *)
(* later ones are smoothed, and both averages are divided once more when   *)
(* the sample count equals the period.                                     *)

RsiStart == [prev |-> Unknown, gain |-> Unknown, loss |-> Unknown, samples |-> 0]

RsiPush(r, close) ==
    LET change == close - r.prev
        Smooth(avg, x) == IF avg = Unknown THEN x ELSE (avg * (Window - 1) + x) \div Window
        Seeded(avg) == IF r.samples + 1 = Window THEN avg \div Window ELSE avg
    IN  IF r.prev = Unknown THEN [r EXCEPT !.prev = close]
        ELSE [prev |-> close, samples |-> r.samples + 1,
              gain |-> Seeded(Smooth(r.gain, IF change > 0 THEN change ELSE 0)),
              loss |-> Seeded(Smooth(r.loss, IF change < 0 THEN -change ELSE 0))]

\* The value in percent as a fraction; 100 when nothing was lost.
RsiValue(r) ==
    CASE r.gain = Unknown -> Unknown
      [] r.gain # Unknown /\ r.loss = 0 -> [num |-> 100, den |-> 1]
      [] OTHER -> [num |-> 100 * r.gain, den |-> r.gain + r.loss]

-----------------------------------------------------------------------------
(* Atr: the average true range.                                            *)

TrueRange(prev, bar) ==
    IF prev = Unknown THEN Max({bar.high - bar.low, 0})
    ELSE Max({bar.high - bar.low, Magnitude(bar.high - prev), Magnitude(bar.low - prev)})

AtrStart == [value |-> Unknown, prev |-> Unknown, sum |-> 0, samples |-> 0]

AtrPush(a, bar) ==
    LET tr == TrueRange(a.prev, bar)
        seeded == [a EXCEPT !.prev = bar.close, !.sum = @ + tr, !.samples = @ + 1]
    IN  IF a.value # Unknown THEN [a EXCEPT !.prev = bar.close, !.value = (@ * (Window - 1) + tr) \div Window]
        ELSE IF seeded.samples < Window THEN seeded
        ELSE [seeded EXCEPT !.value = seeded.sum \div Window]

\* The Keltner channel pairs an Ema with an Atr.
KeltnerBand(side) == IF ema.value = Unknown \/ atr.value = Unknown THEN Unknown ELSE ema.value + side * Mult * atr.value

\* The Donchian channel is the rolling window itself.
DonchianUpper == Max({donchian[i].high : i \in DOMAIN donchian})

DonchianLower == Min({donchian[i].low : i \in DOMAIN donchian})

-----------------------------------------------------------------------------
(* Adx: directional movement smoothed next to the true range.              *)

AdxStart == [prev |-> Unknown, plus |-> 0, minus |-> 0, tr |-> 0, samples |-> 0]

AdxPush(a, bar) ==
    LET up == bar.high - a.prev.high
        down == a.prev.low - bar.low
        plus_dm == IF up > down /\ up > 0 THEN up ELSE 0
        minus_dm == IF down > up /\ down > 0 THEN down ELSE 0
        Next(sum, x) == CASE a.samples >= Window -> sum - sum \div Window + x
                          [] a.samples + 1 = Window -> (sum + x) \div Window
                          [] OTHER -> sum + x
    IN  IF a.prev = Unknown THEN [a EXCEPT !.prev = bar]
        ELSE [prev |-> bar, plus |-> Next(a.plus, plus_dm), minus |-> Next(a.minus, minus_dm),
              tr |-> Next(a.tr, TrueRange(a.prev.close, bar)), samples |-> a.samples + 1]

AdxReady(a) == a.samples >= Window

\* The index in percent as a fraction: the directional movement of this bar's
\* averages, itself not smoothed again.
AdxValue(a) ==
    IF a.tr = 0 \/ a.plus + a.minus = 0 THEN [num |-> 0, den |-> 1]
    ELSE [num |-> 100 * Magnitude(a.plus - a.minus), den |-> a.plus + a.minus]

-----------------------------------------------------------------------------
(* Supertrend: a band on either side of the bar's middle, kept from bar to *)
(* bar while the close stays on its far side, and a direction that flips   *)
(* when the close crosses the band of the bar before.                      *)

TrendStart == [atr |-> AtrStart, prev |-> Unknown, upper |-> Unknown, lower |-> Unknown,
               direction |-> "Flat", value |-> Unknown]

TrendPush(t, bar) ==
    LET a == AtrPush(t.atr, bar)
        middle == (bar.high + bar.low) \div 2
        seen == t.upper # Unknown
        upper == IF seen /\ t.prev <= t.upper /\ t.upper <= bar.close THEN t.upper
                 ELSE middle + Mult * a.value
        lower == IF seen /\ t.lower <= t.prev /\ bar.close <= t.lower THEN t.lower
                 ELSE middle - Mult * a.value
        direction == CASE ~seen -> "Up"
                       [] seen /\ t.direction = "Down" -> IF bar.close > t.upper THEN "Up" ELSE "Down"
                       [] OTHER -> IF bar.close < t.lower THEN "Down" ELSE "Up"
    IN  IF a.value = Unknown THEN [t EXCEPT !.atr = a, !.prev = bar.close]
        ELSE [atr |-> a, prev |-> bar.close, upper |-> upper, lower |-> lower,
              direction |-> direction, value |-> IF direction = "Down" THEN upper ELSE lower]

-----------------------------------------------------------------------------
(* Bollinger bands and z-score over the rolling closes, from the sum and   *)
(* the squared deviations: n * x - sum is n times the deviation of x.      *)

Deviation(buf, x) == Len(buf) * x - Total(buf)

Squares(buf) == Total([i \in DOMAIN buf |-> Deviation(buf, buf[i]) * Deviation(buf, buf[i])])

\* The z-score of the last close as [sign, its square]; Unknown without two closes
\* or without any deviation.
ZScore(buf) ==
    LET d == Deviation(buf, Last(buf))
    IN  IF Len(buf) < 2 THEN Unknown
        ELSE IF Squares(buf) = 0 THEN Unknown
        ELSE [up |-> d > 0, num |-> Len(buf) * d * d, den |-> Squares(buf)]

\* The last close is on or outside the upper (side = 1) or lower (-1) band.
OutsideBand(buf, side) ==
    LET d == side * Deviation(buf, Last(buf))
    IN  /\ Len(buf) = Window /\ Window >= 2
        /\ d >= 0
        /\ Len(buf) * d * d >= Mult * Mult * Squares(buf)

-----------------------------------------------------------------------------
IndicatorInit ==
    /\ fed = <<>>
    /\ ema = EmaStart /\ dema = DemaStart /\ rsi = RsiStart /\ atr = AtrStart
    /\ donchian = <<>> /\ adx = AdxStart /\ trend = TrendStart /\ closes = <<>>

Push(tick) ==
    LET bar == [f \in DOMAIN tick |-> Scale * tick[f]]
    IN
    /\ Len(fed) < MaxBars
    /\ fed' = Append(fed, bar)
    /\ ema' = EmaPush(ema, bar.close)
    /\ dema' = DemaPush(dema, bar.close)
    /\ rsi' = RsiPush(rsi, bar.close)
    /\ atr' = AtrPush(atr, bar)
    /\ donchian' = Roll(donchian, bar)
    /\ adx' = AdxPush(adx, bar)
    /\ trend' = TrendPush(trend, bar)
    /\ closes' = Roll(closes, tick.close)

IndicatorNext == \E tick \in Bars : Push(tick)

-----------------------------------------------------------------------------
(* Properties.                                                             *)

N == Len(fed)

\* The exponentially weighted mean of s, its first Window values counting as one
\* value, their mean.
EmaOf(s) ==
    LET M == Len(s) - Window
        seed == Total(SubSeq(s, 1, Window)) \div Window
        Weight(j) == 2 * (Window - 1) ^ (M - j) * (Window + 1) ^ (j - 1)
    IN  (seed * (Window - 1) ^ M + Total([j \in 1..M |-> Weight(j) * s[j + Window]]))
            \div (Window + 1) ^ M

\* The Ema is that mean of all it was fed, and the double Ema is twice the Ema less
\* the Ema of the Emas there have been: what the definition over the whole history
\* gives, with nothing lost or counted twice when the seed of the first or of the
\* second average is handed over (Ema::push, Dema::push, Dema::value).
EmaWeights ==
    LET all == [i \in 1..N |-> fed[i].close]
        Emas == [i \in 1 .. N - Window + 1 |-> EmaOf(SubSeq(all, 1, i + Window - 1))]
    IN  /\ ema.value = IF N < Window THEN Unknown ELSE EmaOf(all)
        /\ DemaValue(dema) = IF N < 2 * Window - 1 THEN Unknown ELSE 2 * EmaOf(all) - EmaOf(Emas)

\* The RSI is 100 exactly when no close has fallen since the first and 0 exactly
\* when closes have fallen and none has risen; it is between them otherwise, with
\* no division by zero on a flat market (Rsi::value).
RsiExtremes ==
    LET rose == \E i \in 2..N : fed[i].close > fed[i-1].close
        fell == \E i \in 2..N : fed[i].close < fed[i-1].close
        v == RsiValue(rsi)
    IN  IF N < 2 THEN v = Unknown
        ELSE /\ v.den > 0
             /\ (v.num = 100 * v.den) <=> ~fell
             /\ (v.num = 0) <=> (fell /\ ~rose)
             /\ 0 <= v.num /\ v.num <= 100 * v.den

\* The ATR is Wilder's: the mean of the first Window true ranges, from which every
\* later one takes its share 1/Window.  The Keltner channel is there from the bar on
\* that completes both its averages, and is never inside out (Atr::push,
\* KeltnerChannel::upper).
AtrAverages ==
    LET Of(i) == TrueRange(IF i = 1 THEN Unknown ELSE fed[i-1].close, fed[i])
        M == N - Window
        seed == Total([i \in 1..Window |-> Of(i)]) \div Window
        Weight(j) == (Window - 1) ^ (M - j) * Window ^ (j - 1)
    IN  /\ IF N < Window THEN atr.value = Unknown
           ELSE atr.value * Window ^ M
                  = seed * (Window - 1) ^ M + Total([j \in 1..M |-> Weight(j) * Of(j + Window)])
        /\ N < Window <=> KeltnerBand(1) = Unknown
        /\ N >= Window => KeltnerBand(-1) <= ema.value /\ ema.value <= KeltnerBand(1)

\* The Donchian channel is the highest high and the lowest low of the last Window
\* bars, no more and no fewer (DonchianChannel::push).
DonchianIsWindow ==
    N > 0 =>
      LET recent == (IF N > Window THEN N - Window + 1 ELSE 1) .. N
      IN  /\ DonchianUpper = Max({fed[i].high : i \in recent})
          /\ DonchianLower = Min({fed[i].low : i \in recent})

\* +DI and -DI share at most 100 percent: on bars whose close lies in their range
\* the smoothed movements never outgrow the smoothed true range, although the
\* seed is an average and the updates are sums (Adx::push).
DirectionalIndexes ==
    AdxReady(adx) =>
      /\ 0 <= adx.plus /\ 0 <= adx.minus /\ adx.plus + adx.minus <= adx.tr
      /\ 0 < AdxValue(adx).den /\ AdxValue(adx).num <= 100 * AdxValue(adx).den

\* The Supertrend line is a stop: at or below the close in an up-trend, at or above
\* it in a down-trend.  It needs a multiplier of at least half the period
\* (Supertrend::push).
SupertrendIsStop ==
    trend.value # Unknown /\ 2 * Mult >= Window =>
      /\ trend.direction = "Up" => trend.value <= trend.prev
      /\ trend.direction = "Down" => trend.value >= trend.prev

\* The last close is part of its own window, so its z-score is at most the square
\* root of the window less one and it can reach a Bollinger band only on a flat
\* window or when the multiplier is no larger than that: a threshold beyond it
\* never fires (ZScore::value, BollingerBands::compute).
LastCloseReach ==
    /\ closes # <<>> /\ ZScore(closes) # Unknown =>
         ZScore(closes).num <= (Len(closes) - 1) * ZScore(closes).den
    /\ \A side \in {-1, 1} : closes # <<>> /\ OutsideBand(closes, side) =>
         Squares(closes) = 0 \/ Mult * Mult <= Window - 1

\* The incremental indicators, pushed one bar at a time, agree with the history:
\* EMA, DEMA, ATR and Donchian have exactly the value their definition over all bars
\* gives, with no value lost, kept too long or counted twice at the hand-over from
\* the seed to the recursion.  RSI and ADX do not follow the textbook hand-over (see
\* RsiSeedsWithMeans and AdxPush), so of these only the extremes and the bounds that
\* the strategies' thresholds rely on are stated; of Supertrend that it is a stop, of
\* the z-score and the Bollinger bands how far the last close can reach.
IndicatorsAgree ==
    /\ EmaWeights /\ RsiExtremes /\ AtrAverages
    /\ DonchianIsWindow /\ DirectionalIndexes /\ SupertrendIsStop /\ LastCloseReach

\* rsi.rs:38 says "Seed phase: simple averages until `period` deltas seen": once
\* Window changes have been pushed the two averages are the means of the gains and
\* of the losses among them (Rsi::push).
RsiSeedsWithMeans ==
    LET Change(i) == fed[i + 1].close - fed[i].close
        Gain(i) == Max({Change(i), 0})
        Loss(i) == Max({-Change(i), 0})
    IN  N = Window + 1 =>
          /\ rsi.gain * Window = Total([i \in 1..Window |-> Gain(i)])
          /\ rsi.loss * Window = Total([i \in 1..Window |-> Loss(i)])
=============================================================================
