# longtrader: TLA+ models, model checking and proofs

longtrader is a strategy host. Strategies (in-process Rust ones, or external
clients through the SDKs) talk to `longtrader-worker` over a Connect/protobuf
contract; the worker gates their orders, forwards them to a venue adapter and
unwinds them when the strategy goes silent. This directory models the worker:
its control plane, the path of a call to the venue and back, the strategies it
hosts and the indicators they read, together with the clients' side of a call
and of an update stream.

## 1. The system

| Part | Source | State | Operations |
|---|---|---|---|
| Session control plane | `session/{state,lifecycle,gate,health,mod,service,events}.rs` | per session: a state byte, policy, tracked order ids, counters, `terminal_at` | AttachSession, SetKillSwitchPolicy, ReconcileState, StopStrategy, kill switch, retirement |
| Proxies | `session/proxy.rs` | none of its own | CreateOrder, CreateOrders (gate, forward, recover, attribute, unwind); the other trading, market-data and venue-op calls |
| Ports and adapters | `ports.rs`, `adapters/{mock,remote}.rs` | the mock is a venue under one lock; the remote adapter has none | one round trip per call, three for `sync_state` |
| Event bus | `session/mod.rs`, `service.rs` | sequence counter, replay ring (1024), broadcast channel (256) | publish, StreamStrategyEvents |
| Lease watchdog | `session/health.rs` | last heartbeat and lease per session, miss counter | L1 lease check (watchdog and guards), L2 gateway probe, L3 renewal |
| Risk gate | `risk.rs` | token bucket | admit on both submission paths |
| Overflow channel | `overflow.rs` | bounded buffer, notification, bounded mpsc | send, forward loop, close |
| Market data polling | `adapters/{mod,remote,mock}.rs` | one task per subscription, shared counter | tick, fetch, send, end |
| Strategies | `strategies/` | per strategy, in memory; the simple grid persists its ladder (`state_store.rs`) | one tick per poll: read the market, decide, send requests one by one |
| Indicators | `indicators/` | rolling buffers and running averages | push, value |
| Protocol clients, contract crate, CLI | `src/crates/`, `src/bin/longtrader-cli` | a buffer of received bytes | unary calls with a deadline, framing, the update stream |
| SDKs, catalog | `src/sdks/`, `src/crates/longtrader-catalog` | SDK sessions cache the host's state | heartbeats, local watchdogs |

Paths are below `src/bin/longtrader-worker/src/` unless they start elsewhere.
Every part is listed, modelled or not, under `components` in `PROJECT.json`.

**How they interact.** An RPC handler is a task of a multi-threaded runtime.
Handlers share a session through an atomic state byte (compare-and-swap) and a
few async mutexes, each held for one short critical section and never across a
venue call. The watchdog and the strategy guards trip sessions concurrently
with the handlers. A submission crosses the gate, then the risk gate, then the
venue, and is attributed on the way back.

**What is hard.** The gate is a point-in-time check; the tracked set is cloned
and then cancelled over seconds; the state is read before and after awaits;
answers of the venue are late, partial or lost; events are numbered, stored
and sent in three steps; leases, policies and heartbeats change between the
reads of one check; a budget is measured on a book that moves. A strategy acts
on what it remembers, while a request that failed for it may have executed or
may still arrive, and a restart empties its memory but not the venue's book.
The list, at the line where each bites, is `hazards` in `PROJECT.json`.

## 2. Modules

A step of a model is what a task does between two points at which another task
can interfere: one atomic access, one critical section, one venue round trip.

* **SessionLifecycle** (abstract). What a client may believe of a session: it
  takes one edge of the state machine at a time, terminal states are final,
  and each edge is announced once.
* **SessionControl**. The control plane and the order proxy over a venue.
  `Authorize`, `AnswerOk`/`AnswerErr`, `Recover`, `Record`, `UnwindCheck`,
  `UnwindDone` are a submission; `TripCas` to `TripCancelAllFailed` the kill
  switch; `StopStart` to `StopPublish` StopStrategy; `BeginRead` to
  `CompletePublish` ReconcileState. `tracked`, `scope`, `submitted`, `stamped`
  are the fields of `SessionHandle`; `rpc`, `trip`, `stop`, `rec` say where a
  task is; `pending` and `failed` are the cancels in flight and those reported.
  The venue (`VenueAccept`, `VenueLose`, `VenueClose`) and the answers to
  cancels (`CancelAcked`, `CancelFailed`) are independent: a cancel that timed
  out may or may not have taken effect.
* **SessionControlProofs**, **OrderProofs**, **LifecycleProofs**,
  **LeaseWatchdogProofs**, **RiskGateProofs**, **EventBusProofs**,
  **MarketStreamProofs**. The theorems (section 5).
* **EventBus**. `Number`, `Push`, `Send` are the steps of `publish`;
  `Subscribe`, `ReadWatermark`, `Replay`, `Yield`, `Recv`, `LagOut` those of
  `stream_strategy_events`; `Disconnect` makes a client resume with its token.
* **LeaseWatchdog**. `CheckPolicy`, `CheckState`, `CheckElapsed`, `CheckTrip`
  are one `check_lease_expiry`; `PassStart`, `LeasesDone`, `Probe`,
  `TripActive`, `TripsDone` one pass of the watchdog. Time is the age of the
  last heartbeat.
* **RiskGate**. `Submit`, `ReadBook`/`ReadFails`, `Measure`, `Consume`,
  `Arrive` are one submission; `Fill` and `Leave` move the venue's book. A
  quantity is what the request says; only the net exposure takes the side's sign
  (`SignedQty`) and a magnitude.
* **PolicyChannel** and **MarketStream**. The channel of `overflow.rs`, and the
  poll tasks, the proxy's choice of policy and the reader composed with it.

* **VenueAccess**. Every other call: `Issue` is the client's request with the
  proxy's refusals (capability, session gate, validation) and leaves the call
  `admitted`; `Send` puts it on the wire, so that a session can end between the
  gate and the request; `ExecuteMock`, `ExecuteRemote`, `ExecuteLate` are the
  adapter and the venue; `Answer` the way back (`ToPort`, `MapPort`, `ToUnified`
  are the conversions); `TimeOut` the worker's deadline, `GiveUp` the client's
  own. `SyncMock`, or `SyncRemote` with its three reads (`NextRead`), and
  `CompleteReconcile` are `sync_state` and its answer. `Fill`, `Fire` and
  `EndSession` happen meanwhile. The venue behind the remote adapter is external:
  it may refuse, lose, delay and garble, and it may be another worker, which sends
  a ledger entry's amount with its sign.
* **StreamClient**. Framing (`Body`, `Complete`, `LengthOf`), the `unfold` loop
  of `stream_updates` (`Decode`, `Read`) and the `stream` command that consumes
  it. `LinkEnds` cuts the body anywhere, `Interrupt` is the user's.
* **TickEngine**. The poll loop all strategies share. A tick is a list of steps,
  each a request with the memory to commit on success and on error, and whether
  an error ends the tick (`?`) or is logged: `Begin`, `Accepted`, `Refused`,
  `AnswerLost`, `TimedOut`, `Arrives`, `Restart`, `Fills`, `Moves`.
* **SignalStrategies**, **QuoteStrategies**, **FlowStrategies**. For each
  strategy its parameters, what a tick may read, and the steps of a tick: 19
  that trade a signal or a spread, 15 that quote, 14 that execute a programme,
  hedge or move funds.
* **StrategyHost**. The registry over them, and the properties.
* **GridStrategies**. `simple_grid` and `skewed_grid`, which track their own
  orders: `Seed`, `Restore`, `Reconcile`, `SeedSkewed`, `ReplanSkewed` start a
  rebalance, `PlaceOk` to `Killed` are its requests, `WriteTemp`, `RenameTemp`,
  `SaveFails` the state store, `Crash` a restart anywhere, `Damage` a state file
  that can no longer be read, which stops the grid (`RestoreFails`).
* **Indicators**. Push and value of each indicator. The properties compare EMA,
  DEMA, ATR and Donchian with their definitions over the whole history, and say of
  the others how far they can go.
* **Monitors**. `apt_mm`, `liquidity_mining` and `premium_monitor`, which only
  measure: `ReadFirst`, `ReadLast`, `ReadFails` are the reads of a tick.

The `MC*` modules hold model values, symmetry sets and the functions that
configurations substitute for constants. Two of them also put side by side
models that share no state: in `MCStrategies` a behaviour is a hosted strategy,
or the indicators, or a monitor; in `MCVenueAccess` it is calls or a stream.
That is a union of the behaviours, not their product, and nothing is claimed
about them together.

## 3. Runs

Passing runs:

| Run | Question | Distinct states |
|---|---|---|
| `kill_switch` | Does a trip that races a single order and a batch leave an attributed order resting and unreported? Are a stranger's orders safe? | 1.8 M |
| `stop` | Does an Ok of StopStrategy mean its cancels succeeded? Do stop, reconcile and trip implement SessionLifecycle? Is the invariant of the proof true? Do calls end, and tripped orders settle? | 40 k |
| `event_bus` | What can two publishers, a small ring, a small bus and a client that resumes lose or skip, and is the rest delivered? | 314 k |
| `lease` | Is a lease trip justified by silence, whatever arrives between the reads? Is silence noticed? Does a host-wide trip need consecutive misses, and leave nobody behind? | 66 k |
| `risk` | How much can concurrent submissions pass, by the rate limit and by the limits on the book? | 1.2 M |
| `stream` | What may the policies lose or reorder, are wake-ups lost, do tasks leak? | 376 k |
| `venue_access` | Do funds move once per key, is a refusal definite, is an answer the venue's, does a snapshot count a fill once, does anything reach the venue for a session that has not reconciled, are calls answered? Does a cut body or a late rejection confuse the reader of a stream? | 377 k |
| `strategies` | How far can a strategy's belief drift from the venue under lost answers and restarts, do ladders stack or cross, do executors account for what they sent, and does it converge? Do the indicators keep to their definitions and bounds? | 776 k |
| `grid` | What do fills, failed requests, failed saves, a damaged file and a crash do to a tracked ladder, its file and its orders, and does the grid heal? | 963 k |

A property that names several others (`NothingLost`, `NewestKept`, `LegsBalanced`,
`OneLadder`, `WorkAccounted`, `IndicatorsAgree`, `MonitorsMeasure`,
`AnswersAreTheVenues`, `StreamIsFaithful`) is their conjunction; each part has its
own comment. An operator whose comment starts with "Mutant" is a variant of the
operator after it with one plausible fault, which breaks a property or one named
part of it; no specification uses it.

Three runs state what a comment says of the code and end in a counterexample
(`findings` in `PROJECT.json`):

* `stop_unconditional`: StopStrategy answers Ok with the session still live when a
  reconcile wins its compare-and-swap.
* `rsi_seed`: `rsi.rs:38` announces simple averages over the first `period`
  changes. The code smooths from the second change on and divides both averages
  once more at the end of the seed, so that the first change alone has more than a
  third of the weight whatever the period. What the strategies rely on, a value
  from 0 to 100 with its extremes where they belong, holds (`RsiExtremes`).
* `grid_restart`: `persistence.rs:3` says that a restart resumes what was resting
  instead of seeding a second ladder. The file is written when the whole ladder
  has been placed, so a crash before that leaves orders that no file records.

What else the models show of the documented promises, without a run of its own.
Control plane:
an order recorded while a stop cancels, or whose single-order answer was lost,
is not among those the stop or the trip cancels; the late unwind does not read
the policy, so it cancels under scope NONE too; `orders_submitted` counts a
repeated id again; recovery by client order id does not tell two owners of one
id apart; events may be delivered twice at the handoff from replay to
subscription, and out of order with two publishers; `max_open_orders` is
overshot by concurrent submissions (`OpenOrdersBounded` says by how much); a
full bucket plus its refill pass more than one minute's worth in a minute
(`RateBound`); polled snapshots are numbered before they are fetched, so the
numbers are in order only within a subscription (`InOrderPerSubscription`);
an OHLCV event has no symbol, so under coalescing two symbols' candles share a
slot; a stop drops its cancel failures when the kill switch trips meanwhile
(`lifecycle.rs:226`, where `gate.rs:70` says they are reported); a policy that is
refused for its scope has already changed the lease (`session/mod.rs:144`,
against its comment at 137); a client that resumes can lose an event that a
later one overtook (`session/mod.rs:327`; the properties of `event_bus` except
exactly this case, `Overtaken`).

Calls: `map_port` reads a gRPC code out of a field in which the transport put an
HTTP status, so the venue's refusals arrive as internal errors; a malformed
reply to a request that executed is answered as an invalid argument
(`RefusalsAreDefinite` is about the statuses that can be trusted); trigger
orders and transfers are gated once, before the round trip, so what was admitted
before the end of a session takes effect after it; `service.rs` calls
the snapshot of a reconcile atomic, which holds for the mock and not for the
three reads of the remote adapter; a worker reports a ledger entry with its sign
and its direction, and the remote adapter of another one takes the amount for a
magnitude and negates it for "out" (`remote.rs:628`), so the sign flips at each
worker a chain adds (`ConversionsKeep` excepts amounts that arrive signed); an
update stream whose body stops without an
end-of-stream frame looks like a clean end.

Strategies: `simple_grid` persists the ladder it seeded and not its flips, so a
restart restores levels that are on the other leg of their rung than the order
that rests (`DiskAgrees`), and a failed save of the empty ladder after its kill
switch brings the old one back; executors start again from nothing
after a restart; `stat_arb` books a position although a leg was refused;
`spot_perp_arb` clears its position flag without an order; `ema_cross` trades
on the first reading after a restart; `darvas_box` never exits on well-formed
bars, and `bb_keltner_squeeze` enters while squeezed; the `cross_*` makers never
cancel, and a skipped tick of `cross_exchange_mm` or `avellaneda_mm_v2` leaves
stale quotes resting; the bands of the supertrend do not ratchet; ADX is an unsmoothed
DX whose averages are seeded with a mean and continued as a sum
(`adx.rs:59-70`), which for a period of n weighs the seed n times too little; `apt_mm` uses a regression of returns as if it were one of prices,
and neither it nor `liquidity_mining` acts on what it measures.

**Bounds.** One session is enough for the control plane's safety: handles share
nothing but the venue, and an operator's unscoped request plays the stranger.
One single order and one batch of two legs give a partial batch, a recovery
with a foreign and an anonymous order on the book, an order without a venue id,
and two submissions on either side of a trip. `stop` has one call of each kind,
which together with the trip are every pair that can compete for the state byte
except two calls of one kind, and one order, because liveness is checked on the
same graph; its safety properties are proved for any number of calls and orders. Four events over a ring and a bus of two overflow
both. Leases of 1 and 2 with ages to 3 let a lease lapse, be lengthened and be
shortened while the watchdog and a guard check one session, and while the probes
of the second tier fail and succeed; that a mass trip reaches each of several
sessions, in whatever states, is proved (section 5). `risk` starts
from either of two `RiskLimits`, so that the clock and the book are not
multiplied: a book that no limit reads stays empty and time stands still
without a rate. `Minute = 3` with two ticks to a millisecond gives truncation, a
full bucket and more than two refills. `stream` starts from tickers
(DropOldest), order books (Coalesce) or a blocking stream; three events over a
capacity of two overflow the buffer. `MaxMisses = 3` stands for `u32::MAX`. The
bounds are constants named in each module: `MaxSeq`, `MaxAge`, `MaxTime`,
`MaxOpen`.

`venue_access` has two calls, issued in the order of their numbers: a repeat of
a transfer under one key, a cancel against the trigger order it cancels, a
snapshot against a cancel. Requests that neither read nor write what another
one does (`Independent`) run as the only call of a behaviour, and listings of
triggers and of the ledger are asked for by the operator's client (`Listings`). The market moves
only once a call is about what moves. Capabilities are missing only with the
mock, where they are optional. The end of a session cancels all of its open
orders or none. A byte counts to `ByteBase = 3` in place of 256, so that a
length takes two bytes and payloads look like headers; two updates and a verdict
have every cut of a body. `strategies` gives each strategy two moves of the
market or fills, one failed answer and one restart; `NetBound` stops a strategy
that trades on without limit. The parameters and readings are small numbers on
both sides of each threshold. Indicators see every sequence of up to six bars of
five shapes with a window of three, which is seeding, the hand-over and two
windows of recursion; `Scale = 3888` makes all divisions exact. Monitors tick
without a bound, on four prices with zero among them. `grid` has three rungs,
two failures to trip, and four fills, moves, faults and restarts in any order;
the real thresholds are 5 and 10 failures.

**Deadlock.** It is checked wherever the model can always go on. The runs of
SessionControl and MarketStream have a finite workload that ends (all calls
returned, the stream closed) and say `CHECK_DEADLOCK FALSE`; that nothing stops
too early is what their liveness properties check. The runs of VenueAccess,
StrategyHost and GridStrategies say it too: there the bounds on calls, moves and
faults end a behaviour, and a strategy may have nothing left to do.

**Fairness.** Weak fairness, of each task by itself: the runtime polls a task
that is ready. Venue calls end because cancels have a timeout of ten seconds
(`CANCEL_ROUND_TRIP_TIMEOUT`), probes one of two, and the transport bounds every
other unary call. The venue's own actions, clients' calls, heartbeats and the
clock have no fairness. A reader of a stream is fair until it leaves. In
VenueAccess the worker's own steps and its deadline are fair, the venue and the
client are not; the reader of an update stream polls while the link is open. A
strategy's timer fires again and again (`Tick`, `Poll`), its requests are
answered or fail, and a late request arrives; the market, fills, faults and
restarts owe nothing. Convergence is claimed only for strategies with a goal
(`Convergent`).

## 4. Abstraction

Order ids, client ids, symbols and exchanges are model values; what the code
tells apart about an order is whether it has a client id (`Anonymous`), a venue
id (`Unidentified`), and the default exchange (`Elsewhere`). Messages, logging
and error texts are left out, and so are calls that are refused before they
touch state. The corrupt-state branches (`state()` is `None`) are unreachable:
the byte is only written by `transition`. Quantities and prices are small
integers. What a strategy computes from candles, books and rates is abstracted
to the reading it decides on; the indicators behind it are modelled on their
own. Orders of strategies that never look at their resting orders count as
executed when the venue takes them. Deviations are carried as squares, and
fractions as numerator and denominator, so that no property depends on rounding.
History variables (`announced`, `cause`, `shortest`, `outage`, `evidence`,
`condemned`, `overdue`, `log`, `pushed`, `known`, `missing`, `read`, `sent`) are
never read by a guard; `pushes` stands in `Pushed` for where a publisher is. The
fault counters of TickEngine and GridStrategies are read by the guards that
bound them, and by the properties that say how much a fault explains.

## 5. Proofs

The theorems hold for every set of sessions, requests, stops, reconciles, orders
and policies that satisfies `ControlAssumption`, and for every set of sessions
and leases, and every age and miss count, that satisfies the assumption of
LeaseWatchdog; likewise for every rate, clock and set of batches (RiskGate),
every ring and bus (EventBus) and every set of subscriptions, capacity and policy
(MarketStream). Each inductive invariant was model-checked on the instances of the
runs before it was proved. The proofs have one lemma per group of actions and one
step per action, split by conjunct where an action disturbs several.

| Theorem | Module | States |
|---|---|---|
| `TypesHold` | SessionControlProofs | `Spec => []TypeOK` |
| `KillSwitchInvHolds` | SessionControlProofs | `Spec => []KillSwitchInv` |
| `KillSwitchHolds` | SessionControlProofs | `Spec => []KillSwitchUnwinds` |
| `LifecycleImplemented` | LifecycleProofs | `Spec => ImplementsLifecycle` |
| `StopHolds` | OrderProofs | `Spec => []StopOkMeansCancelled` |
| `AttributionHolds` | OrderProofs | `Spec => []OwnOrdersOnly`, assuming `LegsApart` |
| `LeaseTypesHold` | LeaseWatchdogProofs | `Spec => []TypeOK` |
| `LeaseTripsJustified` | LeaseWatchdogProofs | `Spec => []LeaseTripNeedsSilence` |
| `OutageTripsJustified` | LeaseWatchdogProofs | `Spec => []OutageTripNeedsEvidence` |
| `OutageTripsComplete` | LeaseWatchdogProofs | `Spec => []OutageTripsAll` |
| `RateHolds` | RiskGateProofs | `Spec => []RateBound` |
| `NothingLostHolds` | EventBusProofs | `Spec => []NothingLost` |
| `NoForwardGapHolds` | EventBusProofs | `Spec => []NoForwardGap` |
| `InOrderHolds` | MarketStreamProofs | `Spec => []InOrderPerSubscription` |
| `NewestKeptHolds` | MarketStreamProofs | `Spec => []NewestKept`, assuming `KeysApart` |

**Kill switch.** KillSwitchUnwinds is not inductive: it speaks of the end of two
tasks. `KillSwitchInv` follows the order between them. A session that trips is
terminal before the tracked set is cloned (`TrippedIsFinal`); a submission tracks
before it reads the state again (`RecordedIsTracked`). So if the clone missed the
order, the second read finds a terminal state and the unwind has it in hand
(`UnwindCovers`); if the submission returned without an unwind, the clone was
made later and has it (`TripCovers`). `AttributedWasPlaced` says that an order
that left the book does not come back, `TripPending` that no cancel outlives its
trip. `KillSwitchInv` is also an invariant of run `stop`.

**Lifecycle.** The mapping makes an edge owed from the compare-and-swap to the
publication. A publication maps to `Announce` only if the edge was not announced
before and nobody else owes it. `LifecycleInv` gives both: a published or owed
edge starts at a state the session has left (`PublishedBehind`, `TripOwes`,
`StopOwes`, `BeginOwes`, `CompleteOwes`), so no swap can take it again, and it has
one owner (`OneOwner`). A stop swaps a state it found live (`SeenLive`), which
needs that it only knows issued sessions (`Issued`). Every step that neither
swaps nor publishes is `Quiet` and maps to a stutter.

**Stop.** `StopCovers` says where the cloned orders are until the call answers:
in flight or failed while it cancels, failed afterwards. `TrackedWasPlaced` keeps
the venue from accepting one of them again.

**Attribution.** Every resting order was accepted for a submission that asked for
it, and a submission attributes only what was accepted for it (`Attribution`). A
recovery goes by client_order_id, so the theorem assumes that no two submissions
ask for one order (`LegsApart`); without it a batch can recover another one's
order, as section 3 says.

**Lease and outage.** `LeaseInv` carries the silence a check has seen from its
read of the elapsed time to its trip, measured against the shortest lease the
session had meanwhile; `OutageInv` ties the counter of the watchdog to the misses
in a row, and the sessions of a mass trip to those that were active when it began.

**Rate.** `Balance` is the account of the token bucket: the tokens left and those
spent since any admission never come to more than a full bucket and what refilled
since. `BucketInv` adds the types and `RateBound` itself; the lemmas before it are
the arithmetic of truncated time, in which two refills never give more than one
over the same time.

**Event bus.** `BusInv` ties the ring and the bus to the order of the pushes
(`LogInv`) and says of every client what it has passed on the bus (`PassedInv`),
what its replay still holds (`ReplayInv`), that it has jumped over nothing
(`GapInv`), and that what precedes its resume token is known, missing or overtaken
(`KnownInv`). An event that a later number overtook is excepted throughout
(`Overtaken`), as in the properties.

**Market stream.** `OrderedInv` follows an event from its task through buffer, hand
and channel to the reader: each place is in order and everything in one is older
than anything in the place behind it (`OrderInv`). `StreamInv` adds what the
policies keep. Two subscriptions that share a key replace each other's events, so
`NewestKeptHolds` assumes that none do (`KeysApart`).

Only model-checked: liveness under fairness, which is outside the prover's reach,
as is what recursive definitions compute (the indicators); `OpenOrdersBounded`,
which counts a book that the venue changes by itself; and the safety properties
of VenueAccess, StreamClient, StrategyHost, Monitors and GridStrategies.

## 6. What is not modelled, and the plan

With reasons, under `components` in `PROJECT.json`. In short:

* **SDKs** (Python, TypeScript, Go). Other languages, three versions of one
  client: cached state, heartbeat, local lease watchdog. They are next: a client
  module against SessionLifecycle, with the local trip racing an answer that
  still carries the old state.
* **Browser stream reader**. The same loop as the native one over another source
  of chunks.
* **nav_recorder**. Keeps no state and changes none.
* **Configuration, parameter parsing, catalog, CLI printing, decimals, lease
  bounds**. Conversions between text, numbers and messages, without state.
* **Server set-up, L3 renewal, respawn of a dead watchdog**. Best-effort calls
  and supervision without local state.
* **Composition**. RiskGate in front of a strategy, and a strategy inside a
  session, are modelled apart: a refusal by the risk gate or the session gate is
  a `Refused` step of TickEngine.

Proofs to add, in order: `OpenOrdersBounded`; `FundsMoveOnce`; `StreamIsFaithful`.
