------------------------------ MODULE RiskGate ------------------------------
(***************************************************************************)
(* The pre-trade risk gate (risk.rs): RiskGateway::admit reads the venue's *)
(* resting orders when a limit needs them, measures a submission against   *)
(* RiskLimits, spends its token bucket and only then forwards the          *)
(* submission.  The read, the time stamp, the bucket and the arrival at    *)
(* the venue are separate steps: other submissions, fills and cancels come *)
(* in between.                                                             *)
(*                                                                         *)
(* Time is counted in ticks, several to a millisecond, because the bucket  *)
(* truncates to milliseconds.  A minute has Minute milliseconds.           *)
(***************************************************************************)
EXTENDS Integers, Sequences, FiniteSets, Bags, FiniteSetsExt

CONSTANTS
    Requests,       \* the submissions that may be under way at once
    Batches,        \* what may be submitted: sequences of intents
    None,           \* an absent limit, an absent price
    Configs,        \* the RiskLimits a gateway may be built with
    Minute,         \* TOKENS_PER_ORDER: milliseconds in a minute
    TicksPerMs,
    MaxTime,        \* bound: ticks the clock runs for
    MaxOpen         \* bound: orders the venue's book ever holds

Limit == Nat \cup {None}

RiskLimits ==
    [max_order_qty : Limit, max_order_notional : Limit,
     max_orders_per_minute : Limit, max_open_orders : Limit,
     max_net_qty_per_symbol : Limit]

\* OrderIntent: qty is what the request says, without the sign of its side.
Intent == [symbol : STRING, is_buy : BOOLEAN, qty : Int, price : Nat \cup {None}]

ASSUME GateAssumption ==
    /\ Configs \subseteq RiskLimits
    /\ Batches \subseteq Seq(Intent)
    /\ {Minute, TicksPerMs} \subseteq Nat \ {0}

VARIABLES
    limits,         \* the gateway's RiskLimits
    clock,
    tokens, last,   \* the Bucket
    book,           \* the venue's resting orders: a bag of [symbol, is_buy, qty]
    pc, batch,      \* pc[r], batch[r]: where submission r is, and what it is
    seen,           \* seen[r]: the resting orders it read
    now,            \* now[r]: its Instant::now()
    verdict,        \* verdict[r]: the last RiskViolation, or "none"
    \* history
    log             \* the admissions: [at |-> the bucket's time, and how many
                    \* orders were admitted up to it: from |-> before, to |-> after]

requestVars == <<pc, batch, seen, now, verdict>>
bucketVars  == <<tokens, last, log>>
vars == <<limits, clock, book, requestVars, bucketVars>>

Rate == limits.max_orders_per_minute

Capacity == IF Rate = None THEN 0 ELSE Rate * Minute

Init ==
    /\ limits \in Configs
    /\ clock = 0 /\ book = EmptyBag
    /\ tokens = Capacity /\ last = 0
    /\ pc = [r \in Requests |-> "idle"]
    /\ batch = [r \in Requests |-> <<>>]
    /\ seen = [r \in Requests |-> EmptyBag]
    /\ now = [r \in Requests |-> 0]
    /\ verdict = [r \in Requests |-> "none"]
    /\ log = <<>>

Goto(r, l) == pc' = [pc EXCEPT ![r] = l]

Refuse(r, why) ==
    /\ Goto(r, "idle")
    /\ verdict' = [verdict EXCEPT ![r] = why]
-----------------------------------------------------------------------------
(* The limits                                                              *)

Abs(n) == IF n < 0 THEN -n ELSE n

Exceeds(n, limit) == limit # None /\ n > limit

OverQty(b) == \E i \in 1 .. Len(b) : Exceeds(b[i].qty, limits.max_order_qty)

\* A market order has no price and no notional.
OverNotional(b) ==
    \E i \in 1 .. Len(b) :
        b[i].price # None /\ Exceeds(b[i].price * b[i].qty, limits.max_order_notional)

NeedsBook == limits.max_open_orders # None \/ limits.max_net_qty_per_symbol # None

\* Mutant: only what rests is counted, not what is being submitted.
OverRestingOnly(b, resting) == Exceeds(BagCardinality(resting), limits.max_open_orders)

OverOpen(b, resting) == Exceeds(BagCardinality(resting) + Len(b), limits.max_open_orders)

SignedQty(o) == IF o.is_buy THEN o.qty ELSE -o.qty

RestingNet(resting, symbol) ==
    MapThenSumSet(LAMBDA o : resting[o] * SignedQty(o),
                  {o \in BagToSet(resting) : o.symbol = symbol})

Net(b, resting, symbol) ==
    RestingNet(resting, symbol)
    + FoldFunction(LAMBDA i, sum : sum + SignedQty(i), 0,
                   SelectSeq(b, LAMBDA i : i.symbol = symbol))

SymbolsOf(b) == {b[i].symbol : i \in 1 .. Len(b)}

\* Every symbol of the book is measured, not only those of the submission.
OverNet(b, resting) ==
    \E symbol \in SymbolsOf(b) \cup {o.symbol : o \in BagToSet(resting)} :
        Exceeds(Abs(Net(b, resting, symbol)), limits.max_net_qty_per_symbol)

\* RiskGate::admit up to the bucket: the first violation found.  (The size and
\* the notional check of one leg both come before the next leg's; which of the
\* two is reported is not told apart.)
Violation(b, resting) ==
    CASE OverQty(b) \/ OverNotional(b) -> "Size"
      [] OverOpen(b, resting) -> "OpenOrders"
      [] OverNet(b, resting) -> "NetQty"
      [] OTHER -> "none"
-----------------------------------------------------------------------------
(* create_order and batch_create_orders                                    *)

Submit(r, b) ==
    /\ pc[r] = "idle"
    /\ batch' = [batch EXCEPT ![r] = b]
    /\ seen' = [seen EXCEPT ![r] = EmptyBag]
    /\ verdict' = [verdict EXCEPT ![r] = "none"]
    /\ Goto(r, IF NeedsBook THEN "reading" ELSE "measuring")
    /\ UNCHANGED <<limits, clock, book, now, bucketVars>>

\* inner.fetch_open_orders
ReadBook(r) ==
    /\ pc[r] = "reading"
    /\ seen' = [seen EXCEPT ![r] = book]
    /\ Goto(r, "measuring")
    /\ UNCHANGED <<limits, clock, book, batch, now, verdict, bucketVars>>

\* The read fails: the submission is refused.
ReadFails(r) ==
    /\ pc[r] = "reading"
    /\ Refuse(r, "Unavailable")
    /\ UNCHANGED <<limits, clock, book, batch, seen, now, bucketVars>>

\* Instant::now(), and the checks that touch no shared state.
Measure(r) ==
    LET violation == Violation(batch[r], seen[r]) IN
    /\ pc[r] = "measuring"
    /\ now' = [now EXCEPT ![r] = clock]
    /\ IF violation = "none"
       THEN Goto(r, "consuming") /\ verdict' = verdict
       ELSE Refuse(r, violation)
    /\ UNCHANGED <<limits, clock, book, batch, seen, bucketVars>>

\* Mutant: the refill is credited without advancing the bucket's time.
RefilledTwice(r) ==
    [tokens |-> IF now[r] < last THEN tokens
                ELSE Min({tokens + ((now[r] - last) \div TicksPerMs)
                                     * Rate, Capacity}),
     last |-> last]

\* The bucket refilled up to now, unless another thread already took it further
\* (checked_duration_since).
Refilled(r) ==
    [tokens |-> IF now[r] < last THEN tokens
                ELSE Min({tokens + ((now[r] - last) \div TicksPerMs)
                                     * Rate, Capacity}),
     last |-> Max({now[r], last})]

\* The orders admitted so far.
Admitted == IF log = <<>> THEN 0 ELSE log[Len(log)].to

\* consume, under the bucket's lock.
Consume(r) ==
    LET refilled == Refilled(r)
        cost == Len(batch[r]) * Minute
        enough == refilled.tokens >= cost
    IN
    /\ pc[r] = "consuming" /\ Rate # None
    /\ last' = refilled.last
    /\ tokens' = refilled.tokens - (IF enough THEN cost ELSE 0)
    /\ log' = IF enough
              THEN Append(log, [at |-> refilled.last, from |-> Admitted,
                                to |-> Admitted + Len(batch[r])])
              ELSE log
    /\ IF enough THEN Goto(r, "sending") /\ verdict' = verdict
                 ELSE Refuse(r, "Rate")
    /\ UNCHANGED <<limits, clock, book, batch, seen, now>>

\* No rate limit is configured.
ConsumeNothing(r) ==
    /\ pc[r] = "consuming" /\ Rate = None
    /\ Goto(r, "sending")
    /\ UNCHANGED <<limits, clock, book, batch, seen, now, verdict, bucketVars>>

\* inner.create_order: what the venue rests of the submission.  A leg may be
\* rejected or filled at once; a lost request rests nothing.  A book that no
\* limit reads is left empty.
Arrive(r, legs) ==
    LET resting == [i \in legs |-> [symbol |-> batch[r][i].symbol,
                                    is_buy |-> batch[r][i].is_buy,
                                    qty |-> batch[r][i].qty]]
    IN
    /\ pc[r] = "sending" /\ legs \subseteq 1 .. Len(batch[r])
    /\ BagCardinality(book) + Cardinality(legs) <= IF NeedsBook THEN MaxOpen ELSE 0
    /\ book' = FoldSet(LAMBDA i, b : b (+) SetToBag({resting[i]}), book, legs)
    /\ Goto(r, "idle")
    /\ UNCHANGED <<limits, clock, batch, seen, now, verdict, bucketVars>>
-----------------------------------------------------------------------------
(* The venue and the clock                                                 *)

\* A resting order fills by one unit, or leaves the book (filled, cancelled).
Fill(o) ==
    LET rest == [o EXCEPT !.qty = @ - 1] IN
    /\ o \in BagToSet(book)
    /\ book' = (book (-) SetToBag({o}))
                 (+) (IF rest.qty = 0 THEN EmptyBag ELSE SetToBag({rest}))
    /\ UNCHANGED <<limits, clock, requestVars, bucketVars>>

Leave(o) ==
    /\ o \in BagToSet(book)
    /\ book' = book (-) SetToBag({o})
    /\ UNCHANGED <<limits, clock, requestVars, bucketVars>>

\* Time matters only to the bucket.
Tick ==
    /\ clock < MaxTime /\ Rate # None
    /\ clock' = clock + 1
    /\ UNCHANGED <<limits, book, requestVars, bucketVars>>
-----------------------------------------------------------------------------
Request(r) ==
    \/ \E b \in Batches : Submit(r, b)
    \/ ReadBook(r) \/ ReadFails(r) \/ Measure(r)
    \/ Consume(r) \/ ConsumeNothing(r)
    \/ \E legs \in SUBSET (1 .. Len(batch[r])) : Arrive(r, legs)

Next ==
    \/ \E r \in Requests : Request(r)
    \/ \E o \in BagToSet(book) : Fill(o) \/ Leave(o)
    \/ Tick

Spec == Init /\ [][Next]_vars
-----------------------------------------------------------------------------
(* Properties                                                              *)

\* The orders of the admissions from i to j.
Orders(i, j) == log[j].to - log[i].from

\* RATE.  Between any two admissions the gate lets through no more than one full
\* bucket and what refills in the time between them, whatever order concurrent
\* submissions reach the bucket in and however often it refuses (consume).
RateBound ==
    Rate # None => \A i, j \in 1 .. Len(log) : i <= j =>
        Orders(i, j) * Minute
          <= Capacity + Rate
                          * ((log[j].at - log[i].at) \div TicksPerMs)

\* OPEN ORDERS.  The book is read before the submission is sent, so submissions
\* under way at the same time do not see each other: the venue may hold more
\* than max_open_orders, but by no more than the largest batch for each of the
\* other submissions under way.  With one submission at a time the limit holds.
OpenOrdersBounded ==
    limits.max_open_orders # None => BagCardinality(book)
      <= limits.max_open_orders
           + (Cardinality(Requests) - 1) * Max({Len(b) : b \in Batches})
=============================================================================
