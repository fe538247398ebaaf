--------------------------- MODULE RiskGateProofs ---------------------------
(***************************************************************************)
(* The token bucket of the risk gate, for any limits, any number of        *)
(* concurrent submissions of any size and any clock.                       *)
(***************************************************************************)
EXTENDS RiskGate, TLAPS

USE DEF requestVars, bucketVars

Admission == [at : Nat, from : Nat, to : Nat]

\* The gate, its bucket and the submissions under way have their types.
GateTypes ==
    /\ limits \in RiskLimits
    /\ clock \in Nat /\ last \in Nat
    /\ tokens \in Nat
    /\ now \in [Requests -> Nat]
    /\ batch \in [Requests -> Seq(Intent)]
    /\ log \in Seq(Admission)

\* What refills between two times, in tokens.
Refill(from, to) == Rate * ((to - from) \div TicksPerMs)

\* The tokens left and those spent since an admission never come to more than a
\* full bucket and what refilled since.
Balance ==
    Rate # None =>
        /\ tokens <= Capacity
        /\ \A i \in 1 .. Len(log) :
              /\ log[i].at <= last
              /\ tokens + (Admitted - log[i].from) * Minute
                   <= Capacity + Refill(log[i].at, last)

BucketInv == GateTypes /\ Balance /\ RateBound
-----------------------------------------------------------------------------
(* Arithmetic.                                                             *)

\* A product of naturals grows with its second factor, and distributes.
LEMMA Products ==
    ASSUME NEW r \in Nat, NEW a \in Nat, NEW b \in Nat
    PROVE  /\ r * a \in Nat
           /\ a <= b => r * a <= r * b
           /\ r * (a + b) = r * a + r * b
OBVIOUS

\* Truncated division never gains from being done in two parts.
LEMMA DivisionLoses ==
    ASSUME NEW d \in Nat \ {0}, NEW a \in Nat, NEW b \in Nat
    PROVE  /\ a \div d \in Nat
           /\ (a \div d) + (b \div d) <= (a + b) \div d
OBVIOUS

\* The smaller and the larger of two numbers.
LEMMA OfTwo ==
    ASSUME NEW a \in Nat, NEW b \in Nat
    PROVE  /\ Min({a, b}) \in {a, b} /\ Min({a, b}) <= a /\ Min({a, b}) <= b
           /\ Max({a, b}) \in {a, b} /\ Max({a, b}) >= a /\ Max({a, b}) >= b
<1>1. \E x \in {a, b} : \A y \in {a, b} : x <= y
  <2>1. CASE a <= b  BY <2>1
  <2>2. CASE b <= a  BY <2>2
  <2> QED  BY <2>1, <2>2
<1>2. \E x \in {a, b} : \A y \in {a, b} : x >= y
  <2>1. CASE a <= b  BY <2>1
  <2>2. CASE b <= a  BY <2>2
  <2> QED  BY <2>1, <2>2
<1>3. Min({a, b}) \in {a, b} /\ \A y \in {a, b} : Min({a, b}) <= y
    BY <1>1, Zenon DEF Min
<1>4. Max({a, b}) \in {a, b} /\ \A y \in {a, b} : Max({a, b}) >= y
    BY <1>2, Zenon DEF Max
<1> QED  BY <1>3, <1>4

\* Refills are natural, and refilling at every look at the bucket never gives
\* more than refilling once.
LEMMA RefillsAdd ==
    ASSUME Rate \in Nat,
           NEW a \in Nat, NEW b \in Nat, NEW c \in Nat, a <= b, b <= c
    PROVE  /\ Refill(a, b) \in Nat /\ Refill(b, c) \in Nat /\ Refill(a, c) \in Nat
           /\ Refill(a, b) + Refill(b, c) <= Refill(a, c)
<1> DEFINE x == (b - a) \div TicksPerMs
           y == (c - b) \div TicksPerMs
           z == (c - a) \div TicksPerMs
<1>1. b - a \in Nat /\ c - b \in Nat /\ (b - a) + (c - b) = c - a
    OBVIOUS
<1>2. TicksPerMs \in Nat \ {0}
    BY GateAssumption
<1>3. x \in Nat /\ y \in Nat /\ z \in Nat /\ x + y <= z
    BY <1>1, <1>2, DivisionLoses
<1> HIDE DEF x, y, z
<1>4. /\ Rate * x \in Nat /\ Rate * y \in Nat /\ Rate * z \in Nat
      /\ Rate * x + Rate * y <= Rate * z
    BY <1>3, Products
<1> QED  BY <1>4 DEF Refill, x, y, z
-----------------------------------------------------------------------------
(* The bucket.                                                             *)

\* A submission under way is one of Batches.
LEMMA BatchesAreSequences == Batches \subseteq Seq(Intent)
BY GateAssumption

\* Looking at the bucket gives it no more than what refilled since the last
\* look, nor more than it holds, and never takes its time back.
LEMMA RefilledBounds ==
    ASSUME GateTypes, Balance, Rate # None, NEW r \in Requests
    PROVE  /\ Rate \in Nat /\ Capacity \in Nat
           /\ Refilled(r).last \in Nat /\ Refilled(r).last >= last
           /\ Refilled(r).tokens \in Nat /\ Refilled(r).tokens <= Capacity
           /\ Refilled(r).tokens <= tokens + Refill(last, Refilled(r).last)
<1> DEFINE at == Max({now[r], last})
           due == tokens + ((now[r] - last) \div TicksPerMs) * Rate
<1>1. Rate \in Nat /\ now[r] \in Nat /\ last \in Nat /\ tokens \in Nat
      /\ TicksPerMs \in Nat \ {0} /\ Minute \in Nat
    BY GateAssumption DEF GateTypes, RiskLimits, Limit, Rate
<1>2. Capacity \in Nat /\ tokens <= Capacity
    BY <1>1, Products DEF Capacity, Balance
<1>3. at \in {now[r], last} /\ at \in Nat /\ at >= last /\ at >= now[r]
    BY <1>1, OfTwo
<1>4. Refill(last, at) \in Nat
  <2>1. last <= last /\ last <= at
    BY <1>1, <1>3
  <2> QED  BY <1>1, <1>3, <2>1, RefillsAdd
<1>5. CASE now[r] < last
    BY <1>1, <1>2, <1>3, <1>4, <1>5 DEF Refilled
<1>6. CASE ~(now[r] < last)
  <2>1. at = now[r]
    BY <1>1, <1>3, <1>6
  <2>2. due = tokens + Refill(last, at) /\ due \in Nat
    BY <1>1, <1>4, <2>1 DEF Refill
  <2> HIDE DEF due
  <2>3. Min({due, Capacity}) \in Nat /\ Min({due, Capacity}) <= due
        /\ Min({due, Capacity}) <= Capacity
    BY <1>2, <2>2, OfTwo
  <2>4. Refilled(r).tokens = Min({due, Capacity}) /\ Refilled(r).last = at
    BY <1>6 DEF Refilled, due
  <2> HIDE DEF at
  <2> QED  BY <1>1, <1>2, <1>3, <2>2, <2>3, <2>4
<1> QED  BY <1>5, <1>6
-----------------------------------------------------------------------------
(* The invariant.                                                          *)

\* Steps that leave the bucket and the limits alone keep what is said of them.
LEMMA BucketFrame ==
    ASSUME Balance, RateBound, UNCHANGED <<limits, bucketVars>>
    PROVE  Balance' /\ RateBound'
BY DEF Balance, RateBound, Admitted, Orders, Rate, Capacity, Refill

\* The orders admitted so far are counted.
LEMMA AdmittedType ==
    ASSUME GateTypes
    PROVE  Admitted \in Nat
<1>1. log \in Seq(Admission)
    BY DEF GateTypes
<1>2. log # <<>> => log[Len(log)] \in Admission
    BY <1>1
<1> QED  BY <1>2 DEF Admitted, Admission

\* The history of a submission that is admitted.
LEMMA AdmittedGrows ==
    ASSUME GateTypes, NEW e \in Admission, log' = Append(log, e)
    PROVE  /\ Admitted \in Nat
           /\ log' \in Seq(Admission) /\ Len(log') = Len(log) + 1
           /\ \A i \in 1 .. Len(log) : log'[i] = log[i] /\ log[i] \in Admission
           /\ log'[Len(log) + 1] = e
           /\ Admitted' = e.to
<1>1. log \in Seq(Admission)
    BY DEF GateTypes
<1>2. log # <<>> => Len(log) \in 1 .. Len(log) /\ log[Len(log)] \in Admission
    BY <1>1
<1>3. Admitted \in Nat
    BY <1>2 DEF Admitted, Admission
<1>4. log' \in Seq(Admission) /\ Len(log') = Len(log) + 1 /\ log' # <<>>
    BY <1>1
<1>5. log'[Len(log) + 1] = e
    BY <1>1
<1>6. ASSUME NEW i \in 1 .. Len(log)
      PROVE  log'[i] = log[i] /\ log[i] \in Admission
    BY <1>1
<1>7. Admitted' = e.to
    BY <1>4, <1>5 DEF Admitted
<1> QED  BY <1>3, <1>4, <1>5, <1>6, <1>7

\* Spending from the bucket keeps the balance with every earlier admission,
\* whether or not it was enough.
LEMMA BalanceKept ==
    ASSUME GateTypes, Balance, Rate # None,
           NEW r \in Requests, NEW i \in 1 .. Len(log), NEW n \in Nat,
           n * Minute <= Refilled(r).tokens
    PROVE  /\ log[i].at <= Refilled(r).last
           /\ (Refilled(r).tokens - n * Minute)
                + (Admitted + n - log[i].from) * Minute
                <= Capacity + Refill(log[i].at, Refilled(r).last)
<1> DEFINE L == Refilled(r).last
           tk == Refilled(r).tokens
           at == log[i].at
           spent == Admitted - log[i].from
<1>1. log[i] \in Admission /\ Admitted \in Nat /\ last \in Nat /\ tokens \in Nat
      /\ Minute \in Nat
  <2>1. log \in Seq(Admission) /\ last \in Nat /\ tokens \in Nat
    BY DEF GateTypes
  <2>2. log[i] \in Admission /\ log[Len(log)] \in Admission
    BY <2>1
  <2> QED  BY <2>1, <2>2, GateAssumption DEF Admitted, Admission
<1>2. at \in Nat /\ spent \in Int
    BY <1>1 DEF Admission
<1>3. at <= last /\ tokens + spent * Minute <= Capacity + Refill(at, last)
    BY DEF Balance
<1>4. /\ Rate \in Nat /\ Capacity \in Nat
      /\ L \in Nat /\ L >= last
      /\ tk \in Nat /\ tk <= tokens + Refill(last, L)
    BY RefilledBounds
<1>5. /\ Refill(at, last) \in Nat /\ Refill(last, L) \in Nat
      /\ Refill(at, L) \in Nat
      /\ Refill(at, last) + Refill(last, L) <= Refill(at, L)
    BY <1>1, <1>2, <1>3, <1>4, RefillsAdd
<1>6. spent + n = Admitted + n - log[i].from
    BY <1>1 DEF Admission
<1>7. (spent + n) * Minute = spent * Minute + n * Minute
      /\ n * Minute \in Int /\ spent * Minute \in Int
    BY <1>1, <1>2
<1> HIDE DEF L, tk, at, spent
<1>8. (tk - n * Minute) + (spent + n) * Minute <= Capacity + Refill(at, L)
  <2> DEFINE m == n * Minute
             sm == spent * Minute
             both == (spent + n) * Minute
             up == Refill(at, last)
             on == Refill(last, L)
             all == Refill(at, L)
  <2>1. /\ m \in Int /\ sm \in Int /\ both = sm + m
        /\ up \in Nat /\ on \in Nat /\ all \in Nat /\ up + on <= all
        /\ tokens + sm <= Capacity + up /\ tk <= tokens + on
    BY <1>3, <1>4, <1>5, <1>7
  <2> HIDE DEF m, sm, both, up, on, all
  <2>2. (tk - m) + both <= Capacity + all
    BY <1>1, <1>4, <2>1
  <2> QED  BY <2>2 DEF m, both, all
<1>9. at <= L
    BY <1>1, <1>2, <1>3, <1>4
<1> QED  BY <1>6, <1>8, <1>9 DEF L, tk, at, spent

\* The step that takes the bucket's lock keeps the types and the balance.
LEMMA ConsumeKeeps ==
    ASSUME GateTypes, Balance, RateBound, NEW r \in Requests, Consume(r)
    PROVE  GateTypes' /\ Balance' /\ RateBound'
<1> DEFINE R == Refilled(r)
           n == Len(batch[r])
           k == Len(log)
<1>1. /\ Rate # None /\ UNCHANGED <<limits, clock, batch, now>>
      /\ last' = R.last
      /\ tokens' = R.tokens - (IF R.tokens >= n * Minute THEN n * Minute ELSE 0)
      /\ log' = IF R.tokens >= n * Minute
                THEN Append(log, [at |-> R.last, from |-> Admitted,
                                  to |-> Admitted + n])
                ELSE log
    BY DEF Consume
<1>2. /\ Rate \in Nat /\ Capacity \in Nat /\ Rate' = Rate /\ Capacity' = Capacity
      /\ R.last \in Nat /\ R.last >= last
      /\ R.tokens \in Nat /\ R.tokens <= Capacity
    BY <1>1, RefilledBounds DEF Rate, Capacity
<1>3. Minute \in Nat /\ n \in Nat /\ n * Minute \in Nat
  <2>1. Minute \in Nat /\ batch[r] \in Seq(Intent)
    BY GateAssumption DEF GateTypes
  <2> QED  BY <2>1
<1>4. log \in Seq(Admission) /\ k \in Nat
    BY DEF GateTypes
<1>5. \A a, b : Refill(a, b)' = Refill(a, b)
    BY <1>2 DEF Refill
<1>6. CASE R.tokens >= n * Minute
  <2> DEFINE e == [at |-> R.last, from |-> Admitted, to |-> Admitted + n]
  <2>1. tokens' = R.tokens - n * Minute /\ log' = Append(log, e)
    BY <1>1, <1>6
  <2>2. Admitted \in Nat
    BY AdmittedType
  <2>3. e \in Admission
    BY <1>2, <1>3, <2>2 DEF Admission
  <2> HIDE DEF e
  <2>4. /\ log' \in Seq(Admission) /\ Len(log') = k + 1
        /\ \A i \in 1 .. k : log'[i] = log[i] /\ log[i] \in Admission
        /\ log'[k + 1] = e /\ Admitted' = e.to
    BY <2>1, <2>3, AdmittedGrows
  <2>5. e.at = R.last /\ e.from = Admitted /\ e.to = Admitted + n
    BY DEF e
  <2>6. tokens' \in Nat /\ tokens' <= Capacity
    BY <1>2, <1>3, <1>6, <2>1
  <2>7. GateTypes'
    BY <1>1, <1>2, <2>4, <2>6 DEF GateTypes
  <2>8. ASSUME NEW i \in 1 .. Len(log')
        PROVE  /\ log'[i].at <= last'
               /\ tokens' + (Admitted' - log'[i].from) * Minute
                    <= Capacity + Refill(log'[i].at, last')
    <3>1. CASE i \in 1 .. k
      <4>1. /\ log[i].at <= R.last
            /\ (R.tokens - n * Minute) + (Admitted + n - log[i].from) * Minute
                 <= Capacity + Refill(log[i].at, R.last)
        BY <1>1, <1>3, <1>6, <3>1, BalanceKept
      <4>2. /\ log'[i] = log[i] /\ last' = R.last /\ Admitted' = Admitted + n
            /\ tokens' = R.tokens - n * Minute
        BY <1>1, <2>1, <2>4, <2>5, <3>1
      <4>3. Admitted' - log'[i].from = Admitted + n - log[i].from
        <5>1. log[i].from \in Nat
          BY <2>4, <3>1 DEF Admission
        <5>2. log'[i].from = log[i].from
          BY <4>2
        <5> QED  BY <1>3, <2>2, <4>2, <5>1, <5>2
      <4>4. Refill(log'[i].at, last') = Refill(log[i].at, R.last)
        BY <4>2
      <4>5. log'[i].at <= last'
        BY <4>1, <4>2
      <4> QED  BY <4>1, <4>2, <4>3, <4>4, <4>5
    <3>2. CASE i = k + 1
      <4>1. log'[i].at = last' /\ Admitted' - log'[i].from = n
        BY <1>1, <1>3, <2>2, <2>4, <2>5, <3>2
      <4>2. Refill(last', last') = 0
        BY <1>1, <1>2, GateAssumption DEF Refill
      <4>3. last' \in Nat
        BY <1>1, <1>2
      <4>4. tokens' + n * Minute <= Capacity + 0
        BY <1>2, <1>3, <2>1
      <4>5. log'[i].at <= last'
        BY <4>1, <4>3
      <4> QED  BY <4>1, <4>2, <4>4, <4>5, Zenon
    <3> QED  BY <1>4, <2>4, <3>1, <3>2
  <2>9. Balance'
    BY <1>2, <1>5, <2>6, <2>8 DEF Balance
  <2>10. ASSUME NEW i \in 1 .. Len(log'), NEW j \in 1 .. Len(log'), i <= j
         PROVE  (log'[j].to - log'[i].from) * Minute
                  <= Capacity + Refill(log'[i].at, log'[j].at)
    <3>1. CASE j \in 1 .. k
      <4>1. i \in 1 .. k
        BY <1>4, <2>10, <3>1
      <4>2. Orders(i, j) * Minute <= Capacity + Refill(log[i].at, log[j].at)
        BY <1>1, <2>10, <3>1, <4>1 DEF RateBound, Refill
      <4> QED  BY <2>4, <3>1, <4>1, <4>2 DEF Orders
    <3>2. CASE j = k + 1
      <4>1. log'[j].to = Admitted' /\ log'[j].at = last'
        BY <1>1, <2>4, <2>5, <3>2
      <4>2. tokens' + (Admitted' - log'[i].from) * Minute
              <= Capacity + Refill(log'[i].at, last')
        BY <2>8
      <4>3. log'[i] \in Admission /\ Admitted' \in Nat
        BY <1>3, <2>2, <2>4, <2>5
      <4>4. (Admitted' - log'[i].from) * Minute \in Int
        BY <1>3, <4>3 DEF Admission
      <4>5. Refill(log'[i].at, last') \in Int
        <5>1. last' - log'[i].at \in Nat
          <6>1. log'[i].at \in Nat /\ last' \in Nat
            BY <1>1, <1>2, <4>3 DEF Admission
          <6>2. log'[i].at <= last'
            BY <2>8
          <6> QED  BY <6>1, <6>2
        <5>2. (last' - log'[i].at) \div TicksPerMs \in Nat
          BY <5>1, DivisionLoses, GateAssumption
        <5> QED  BY <1>2, <5>2, Products DEF Refill
      <4> QED  BY <1>2, <2>6, <4>1, <4>2, <4>4, <4>5
    <3> QED  BY <1>4, <2>4, <3>1, <3>2
  <2>11. RateBound'
    BY <1>2, <2>10 DEF RateBound, Orders, Refill
  <2> QED  BY <2>7, <2>9, <2>11
<1>7. CASE ~(R.tokens >= n * Minute)
  <2>1. tokens' = R.tokens /\ log' = log
    BY <1>1, <1>2, <1>7
  <2>2. GateTypes'
    BY <1>1, <1>2, <2>1 DEF GateTypes
  <2>3. RateBound'
    BY <1>1, <1>2, <2>1 DEF RateBound, Orders
  <2>4. ASSUME NEW i \in 1 .. Len(log)
        PROVE  /\ log[i].at <= R.last
               /\ R.tokens + (Admitted - log[i].from) * Minute
                    <= Capacity + Refill(log[i].at, R.last)
    <3>1. 0 * Minute = 0 /\ log[i] \in Admission /\ Admitted \in Nat
      BY <1>3, <1>4, AdmittedType
    <3>2. R.tokens - 0 * Minute = R.tokens
          /\ Admitted + 0 - log[i].from = Admitted - log[i].from
      BY <1>2, <3>1 DEF Admission
    <3>3. 0 * Minute <= R.tokens
      BY <1>2, <3>1
    <3> QED  BY <1>1, <3>2, <3>3, BalanceKept
  <2>5. Admitted' = Admitted
    BY <2>1 DEF Admitted
  <2>6. Balance'
    BY <1>1, <1>2, <1>5, <2>1, <2>4, <2>5 DEF Balance
  <2> QED  BY <2>2, <2>3, <2>6
<1> QED  BY <1>6, <1>7

\* A step of the gate, of a submission or of the venue keeps the invariant: only
\* Consume touches the bucket.
LEMMA BucketStep == BucketInv /\ [Next]_vars => BucketInv'
<1> SUFFICES ASSUME GateTypes, Balance, RateBound, [Next]_vars
             PROVE  GateTypes' /\ Balance' /\ RateBound'
    BY DEF BucketInv
<1> DEFINE Still == UNCHANGED <<limits, bucketVars>>
           Typed == clock' \in Nat /\ now' \in [Requests -> Nat]
                    /\ batch' \in [Requests -> Seq(Intent)]
<1>1. ASSUME Still, Typed
      PROVE  GateTypes' /\ Balance' /\ RateBound'
    BY <1>1, BucketFrame DEF GateTypes
<1>2. ASSUME Still, UNCHANGED <<clock, now, batch>>
      PROVE  GateTypes' /\ Balance' /\ RateBound'
    BY <1>1, <1>2 DEF GateTypes
<1>3. ASSUME NEW r \in Requests, NEW b \in Batches, Submit(r, b)
      PROVE  GateTypes' /\ Balance' /\ RateBound'
  <2>1. b \in Seq(Intent)
    BY BatchesAreSequences
  <2>2. Typed
    BY <1>3, <2>1 DEF Submit, GateTypes
  <2> QED  BY <1>1, <1>3, <2>2 DEF Submit
<1>4. ASSUME NEW r \in Requests, ReadBook(r)
      PROVE  GateTypes' /\ Balance' /\ RateBound'
    BY <1>2, <1>4 DEF ReadBook
<1>5. ASSUME NEW r \in Requests, ReadFails(r)
      PROVE  GateTypes' /\ Balance' /\ RateBound'
    BY <1>2, <1>5 DEF ReadFails
<1>6. ASSUME NEW r \in Requests, Measure(r)
      PROVE  GateTypes' /\ Balance' /\ RateBound'
  <2>1. /\ now' = [now EXCEPT ![r] = clock]
        /\ UNCHANGED <<limits, clock, batch, bucketVars>>
    BY <1>6 DEF Measure
  <2>2. Typed
    BY <2>1 DEF GateTypes
  <2> QED  BY <1>1, <2>1, <2>2
<1>7. ASSUME NEW r \in Requests, ConsumeNothing(r)
      PROVE  GateTypes' /\ Balance' /\ RateBound'
    BY <1>2, <1>7 DEF ConsumeNothing
<1>8. ASSUME NEW r \in Requests, NEW legs, Arrive(r, legs)
      PROVE  GateTypes' /\ Balance' /\ RateBound'
  <2>1. UNCHANGED <<limits, clock, batch, now, bucketVars>>
    BY <1>8, Zenon DEF Arrive
  <2> QED  BY <1>2, <2>1
<1>9. ASSUME NEW o, Fill(o) \/ Leave(o)
      PROVE  GateTypes' /\ Balance' /\ RateBound'
  <2>1. UNCHANGED <<limits, clock, requestVars, bucketVars>>
    BY <1>9 DEF Fill, Leave
  <2> QED  BY <1>2, <2>1
<1>10. CASE Tick
  <2>1. Typed
    BY <1>10 DEF Tick, GateTypes
  <2> QED  BY <1>1, <1>10, <2>1 DEF Tick
<1>11. CASE UNCHANGED vars
    BY <1>2, <1>11 DEF vars
<1> QED
    BY <1>3, <1>4, <1>5, <1>6, <1>7, <1>8, <1>9, <1>10, <1>11, ConsumeKeeps
    DEF Next, Request

\* A gate starts with a full bucket and no admission.
LEMMA BucketInit == Init => BucketInv
<1> SUFFICES ASSUME Init
             PROVE  BucketInv
    OBVIOUS
<1>1. /\ limits \in RiskLimits /\ clock = 0 /\ last = 0 /\ tokens = Capacity
      /\ now = [r \in Requests |-> 0] /\ batch = [r \in Requests |-> <<>>]
      /\ log = <<>>
    BY GateAssumption DEF Init
<1>2. Minute \in Nat /\ (Rate = None \/ Rate \in Nat)
    BY <1>1, GateAssumption DEF RiskLimits, Limit, Rate
<1>3. Capacity \in Nat
    BY <1>2, Products DEF Capacity
<1>4. GateTypes
    BY <1>1, <1>3 DEF GateTypes
<1>5. Len(log) = 0
    BY <1>1
<1>6. Balance
    BY <1>1, <1>3, <1>5 DEF Balance
<1>7. RateBound
    BY <1>5 DEF RateBound
<1> QED  BY <1>4, <1>6, <1>7 DEF BucketInv

\* RATE, for any limits, batches, number of concurrent submissions, length of a
\* tick and time: between two admissions consume lets through no more than a
\* full bucket and what refilled in between.
THEOREM RateHolds == Spec => []RateBound
<1>1. BucketInv => RateBound
    BY DEF BucketInv
<1> QED  BY <1>1, BucketInit, BucketStep, PTL DEF Spec
=============================================================================
