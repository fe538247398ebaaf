------------------------------ MODULE Monitors ------------------------------
(***************************************************************************)
(* The strategies that watch and never trade: apt_mm (whose place_ladder   *)
(* is empty), liquidity_mining (which estimates a volatility and adjusts   *)
(* nothing yet) and premium_monitor.  A tick reads one or two tickers, one *)
(* after the other; either read may fail, which ends the tick, and the     *)
(* strategy's memory is committed only after the last of them.             *)
(*                                                                         *)
(* Returns are in units of 1/Unit, and fractions are carried as their     *)
(* numerators and denominators.                                            *)
(***************************************************************************)
EXTENDS Indicators

CONSTANTS
    Quotes,     \* what a ticker may say: prices in ticks, 0 among them
    Unit        \* units in a return of 100 percent

ASSUME QuotesAssumption ==
    /\ Quotes \subseteq Nat
    /\ \A p \in Quotes \ {0} : Unit % p = 0

VARIABLES
    monitor,    \* the monitor this process hosts; Unknown before it is built
    first,      \* the first leg's price, while the second is being read
    memory,     \* what the monitor remembers between two ticks
    read        \* history: the last complete readings

monitorVars == <<monitor, first, memory, read>>

AptStart == [last_prices |-> Unknown, lead |-> <<>>, lag |-> <<>>]

LiqStart == [last_mid |-> Unknown, buf |-> <<>>]

PremiumStart == [last_premium |-> Unknown]

MonitorInit ==
    /\ monitor = Unknown /\ first = Unknown
    /\ memory = PremiumStart
    /\ read = <<>>

-----------------------------------------------------------------------------
(* apt_mm: the regression of the lead's returns on the lag's.              *)

\* A price was checked to be positive before it got here.
simple_return(prev, curr) == ((curr - prev) * Unit) \div prev

\* Mutant: only one of the two queues gives up its oldest return.
AptPushDrifts(m, y, x) ==
    LET lead == Append(m.lead, y)
    IN  [m EXCEPT !.lead = IF Len(lead) > Window THEN Tail(lead) ELSE lead,
                  !.lag = Append(@, x)]

AptPush(m, y, x) ==
    LET lead == Append(m.lead, y)
        lag  == Append(m.lag, x)
    IN  IF Len(lead) > Window THEN [m EXCEPT !.lead = Tail(lead), !.lag = Tail(lag)]
        ELSE [m EXCEPT !.lead = lead, !.lag = lag]

\* Deviations from the mean, times the number of values.
Deviations(s) == [i \in DOMAIN s |-> Len(s) * s[i] - Total(s)]

Products(s, t) == Total([i \in DOMAIN s |-> s[i] * t[i]])

\* Mutant: the covariance is divided by the variance of the lead.
AptModelOfLead(m) ==
    LET n == Len(m.lead)
        dy == Deviations(m.lead)
        dx == Deviations(m.lag)
        cov == Products(dy, dx)
        var == Products(dy, dy)
    IN  IF n < 2 \/ var = 0 THEN Unknown
        ELSE [alpha |-> var * Total(m.lead) - cov * Total(m.lag), beta |-> n * cov, den |-> n * var]

\* Unknown for fewer than two samples or a lag that did not vary; alpha and beta
\* are over the denominator den.
AptModel(m) ==
    LET n == Len(m.lead)
        dy == Deviations(m.lead)
        dx == Deviations(m.lag)
        cov == Products(dy, dx)
        var == Products(dx, dx)
    IN  IF n < 2 \/ var = 0 THEN Unknown
        ELSE [alpha |-> var * Total(m.lead) - cov * Total(m.lag), beta |-> n * cov, den |-> n * var]

\* What the model leaves unexplained of the i-th pair, over den.
Residual(m, model, i) == model.den * m.lead[i] - model.alpha - model.beta * m.lag[i]

(* The signal and the ladder that the tick computes from the model are     *)
(* dropped by the code, so that the tick's effect is on its memory alone.  *)
AptTick(m, lead, lag) ==
    [IF m.last_prices = Unknown THEN m
     ELSE AptPush(m, simple_return(m.last_prices[1], lead), simple_return(m.last_prices[2], lag))
       EXCEPT !.last_prices = <<lead, lag>>]

-----------------------------------------------------------------------------
(* liquidity_mining: the deviation of the last absolute moves.             *)

\* Mutant: the buffer holds one value more than the window.
VolPushLate(buf, x) == IF Len(buf) > Window THEN Append(Tail(buf), x) ELSE Append(buf, x)

VolPush(buf, x) ==
    LET all == Append(buf, x)
    IN  IF Len(all) > Window THEN Tail(all) ELSE all

\* The variance times the cube of the number of values; the code returns its
\* square root.
Vol(buf) == IF Len(buf) < 2 THEN Unknown ELSE Products(Deviations(buf), Deviations(buf))

LiqTick(m, mid) ==
    [last_mid |-> mid,
     buf |-> IF m.last_mid = Unknown THEN m.buf ELSE VolPush(m.buf, Magnitude(mid - m.last_mid))]

-----------------------------------------------------------------------------
(* premium_monitor: primary / hedge - 1, unknown when a leg quoted zero.   *)

\* Mutant: an unquotable cycle reads as a flat market.
PremiumFlat(p, h) == IF p = 0 \/ h = 0 THEN [num |-> 0, den |-> 1] ELSE [num |-> p - h, den |-> h]

Premium(p, h) == IF p = 0 \/ h = 0 THEN Unknown ELSE [num |-> p - h, den |-> h]

PremiumTick(p, h) == [last_premium |-> Premium(p, h)]

-----------------------------------------------------------------------------
(* The ticks.                                                              *)

StartMonitor ==
    /\ monitor = Unknown
    /\ \/ monitor' = "apt_mm" /\ memory' = AptStart
       \/ monitor' = "liquidity_mining" /\ memory' = LiqStart
       \/ monitor' = "premium_monitor" /\ memory' = PremiumStart
    /\ UNCHANGED <<first, read>>

Legs == IF monitor = "liquidity_mining" THEN 1 ELSE 2

\* fetch_mid and current_mid refuse a price that is not positive; ticker_last
\* takes what the ticker says.
Usable == IF monitor = "premium_monitor" THEN Quotes ELSE Quotes \ {0}

\* How many readings the history keeps.
Kept == IF monitor = "premium_monitor" THEN 1 ELSE Window + 1

ReadFirst(p) ==
    /\ monitor # Unknown /\ Legs = 2
    /\ first = Unknown
    /\ first' = p
    /\ UNCHANGED <<monitor, memory, read>>

\* The last leg is read: the tick commits.
ReadLast(p) ==
    /\ monitor # Unknown
    /\ Legs = 2 => first # Unknown
    /\ memory' = CASE monitor = "apt_mm" -> AptTick(memory, first, p)
                   [] monitor = "liquidity_mining" -> LiqTick(memory, p)
                   [] monitor = "premium_monitor" -> PremiumTick(first, p)
    /\ LET all == Append(read, <<first, p>>)
       IN  read' = IF Len(all) > Kept THEN Tail(all) ELSE all
    /\ first' = Unknown
    /\ UNCHANGED monitor

\* A ticker that fails, or has no usable price, ends the tick.
ReadFails ==
    /\ monitor # Unknown
    /\ first' = Unknown
    /\ UNCHANGED <<monitor, memory, read>>

MonitorNext ==
    \/ StartMonitor
    \/ \E p \in Usable : ReadFirst(p) \/ ReadLast(p)
    \/ ReadFails

-----------------------------------------------------------------------------
(* Properties                                                              *)

\* apt_mm: the regression is over pairs of returns that belong together: the
\* i-th lead return and the i-th lag return are of the same two consecutive
\* complete readings, for the last Window of them, whichever reads failed in
\* between (AptRegression::push, AptMm::tick).
PairsAligned ==
    monitor = "apt_mm" =>
        LET n == Len(memory.lead)
        IN  /\ Len(memory.lag) = n
            /\ n = IF Len(read) = 0 THEN 0 ELSE Min({Len(read) - 1, Window})
            /\ \A i \in 1 .. n :
                 LET at == Len(read) - n + i
                 IN  /\ memory.lead[i] * read[at - 1][1] = Unit * (read[at][1] - read[at - 1][1])
                     /\ memory.lag[i] * read[at - 1][2] = Unit * (read[at][2] - read[at - 1][2])

\* apt_mm: the line AptRegression::model fits is the least-squares line: its
\* residuals sum to zero and are orthogonal to the lag returns.  In particular
\* no residual is left, and no signal given, where the lead follows the lag.
LeastSquares ==
    (monitor = "apt_mm" /\ AptModel(memory) # Unknown) =>
        LET model == AptModel(memory)
            e == [i \in DOMAIN memory.lead |-> Residual(memory, model, i)]
        IN  Total(e) = 0 /\ Products(e, memory.lag) = 0

\* liquidity_mining: the volatility is that of the last Window moves between
\* complete readings, and of no older one (VolEstimator::push, vol): mean of
\* squares less square of mean, and unknown for fewer than two moves.
VolIsOfTheWindow ==
    monitor = "liquidity_mining" =>
        LET n == IF Len(read) = 0 THEN 0 ELSE Min({Len(read) - 1, Window})
            moves == [i \in 1 .. n |-> read[Len(read) - n + i][2] - read[Len(read) - n + i - 1][2]]
            sizes == [i \in 1 .. n |-> Magnitude(moves[i])]
        IN  Vol(memory.buf) = IF n < 2 THEN Unknown
                              ELSE n * n * Products(moves, moves) - n * Total(sizes) * Total(sizes)

\* premium_monitor: what it holds is the premium of its last complete
\* measurement, with both legs of the same tick, and it is unknown, never
\* flat, when that measurement had a leg at zero (PremiumMonitor::tick).
PremiumIsLastMeasured ==
    monitor = "premium_monitor" =>
        LET held == memory.last_premium
        IN  IF read = <<>> THEN held = Unknown
            ELSE LET p == Last(read)[1]
                     h == Last(read)[2]
                 IN  /\ (held = Unknown) = (p * h = 0)
                     /\ held # Unknown => /\ (held.num > 0) = (p > h)
                                       /\ h * (held.num + held.den) = p * held.den

\* Whichever reads fail, what a monitor measures is of complete ticks: two legs of
\* one tick, and of the last Window ticks (the tick of apt_mm, liquidity_mining
\* and premium_monitor).
MonitorsMeasure == PairsAligned /\ LeastSquares /\ VolIsOfTheWindow /\ PremiumIsLastMeasured
=============================================================================
