--------------------------- MODULE SessionControl ---------------------------
(***************************************************************************)
(* The session control plane of longtrader-worker (src/session): the       *)
(* session registry and its compare-and-swap state machine, the order      *)
(* submission gate, the attribution of orders to sessions, the kill switch *)
(* and StopStrategy, over a venue that answers late, partially or never.   *)
(*                                                                         *)
(* Every RPC handler is a task of a multi-threaded runtime.  A step of the *)
(* model is what a task does between two points where another task can     *)
(* interfere: one atomic load or compare-and-swap of the state byte, one   *)
(* critical section of a mutex, or one venue round trip.                   *)
(*                                                                         *)
(*   Requests     CreateOrder / CreateOrders calls (Batches: the latter);  *)
(*   Stoppers     StopStrategy calls in flight;                            *)
(*   Reconcilers  ReconcileState calls in flight;                          *)
(*   Sessions     also name the kill-switch task of that session, because  *)
(*                only the winner of its compare-and-swap does anything.   *)
(* Calls answered NotFound or InvalidArgument before they touch any state  *)
(* change nothing and are not steps.                                       *)
(***************************************************************************)
EXTENDS Naturals, FiniteSets

CONSTANTS
    Sessions, Requests, Stoppers, Reconcilers,
    Orders,        \* the orders the clients ever ask for
    Legs,          \* Legs[r]: the orders request r asks for
    Batches,       \* the requests that are CreateOrders calls
    Anonymous,     \* orders without a client_order_id
    Unidentified,  \* orders the venue answers without an order id
    Elsewhere,     \* orders whose request names an exchange other than the
                   \* worker's default one
    Policies,      \* the kill-switch scopes the clients ask for
    NoSession      \* the session of an operator's unscoped call

Scopes == {"SESSION_ORDERS", "ALL_ORDERS", "NONE"}

Tasks == Requests \cup Stoppers \cup Sessions

ASSUME ControlAssumption ==
    /\ IsFiniteSet(Orders)
    /\ Legs \in [Requests -> SUBSET Orders]
    /\ Batches \subseteq Requests
    /\ \A r \in Requests \ Batches : \E o \in Orders : Legs[r] = {o}
    /\ Anonymous \subseteq Orders
    /\ Unidentified \subseteq Orders
    /\ Elsewhere \subseteq Orders
    /\ Policies \subseteq Scopes
    /\ NoSession \notin Sessions
    /\ Requests \cap (Stoppers \cup Sessions) = {}
    /\ Stoppers \cap Sessions = {}

VARIABLES
    \* SessionManager and SessionHandle
    registry,   \* the sessions SessionManager::get finds
    state,      \* state[s]: SessionHandle.state, "None" before AttachSession
    stamped,    \* the sessions whose terminal_at is set
    scope,      \* scope[s]: SessionPolicy.scope
    tracked,    \* tracked[s]: SessionHandle.tracked_coids
    submitted,  \* submitted[s]: SessionHandle.orders_submitted
    announced,  \* announced[s]: the state changes published for s
    \* the venue
    venue,      \* venue[o]: "absent", "resting" or "gone"
    \* order submissions
    rpc,        \* rpc[r]: where request r is
    sess,       \* sess[r]: the session r was authorized for
    wire,       \* wire[r]: the legs of r that may still reach the venue
    accepted,   \* accepted[r]: the legs of r the venue accepted
    answered,   \* answered[r]: the orders r learned of and attributes
    \* kill switch, stops and reconciles
    trip,       \* trip[s]: where the kill-switch task of s is
    tripScope,  \* tripScope[s]: the scope that task executes
    stop,       \* stop[t]: where the StopStrategy call t is; its locals are
    target,     \*   target[t]: the session to stop
    wants,      \*   wants[t]: "cancel" iff cancel_open_orders
    snap,       \*   snap[t]: the tracked set it cloned
    seen,       \*   seen[t]: the state its compare-and-swap expects
    answer,     \*   answer[t]: Ok or CancelsFailed, once it returned
    reached,    \*   reached[t]: the state in that answer
    rec,        \* rec[t]: where the ReconcileState call t is
    recSess,    \*   recSess[t]: its session
    \* cancel fan-outs (cancel_coids) of all tasks
    pending,    \* pending[t]: cancels t has sent and not heard of
    failed      \* failed[t]: cancels t reports as failed

sessionVars == <<registry, state, stamped, scope, announced>>
orderVars   == <<tracked, submitted>>
requestVars == <<rpc, sess, wire, accepted, answered>>
tripVars    == <<trip, tripScope>>
stopVars    == <<stop, target, wants, snap, seen, answer, reached>>
recVars     == <<rec, recSess>>
cancelVars  == <<pending, failed>>
controlVars == <<sessionVars, orderVars>>
taskVars    == <<tripVars, stopVars, recVars, cancelVars>>
vars == <<sessionVars, orderVars, venue, requestVars, tripVars, stopVars,
          recVars, cancelVars>>

LiveStates == {"Attached", "Syncing", "Active"}
TerminalStates == {"KillSwitchTripped", "GracefulShutdown"}
States == LiveStates \cup TerminalStates

\* SessionPolicy::default
DefaultScope == "SESSION_ORDERS"

\* SessionState::is_terminal
Terminal(st) == st \in TerminalStates

Resting == {o \in Orders : venue[o] = "resting"}

Init ==
    /\ registry = {}
    /\ state = [s \in Sessions |-> "None"]
    /\ stamped = {}
    /\ scope = [s \in Sessions |-> DefaultScope]
    /\ tracked = [s \in Sessions |-> {}]
    /\ submitted = [s \in Sessions |-> 0]
    /\ announced = [s \in Sessions |-> {}]
    /\ venue = [o \in Orders |-> "absent"]
    /\ rpc = [r \in Requests |-> "idle"]
    /\ sess = [r \in Requests |-> NoSession]
    /\ wire = [r \in Requests |-> {}]
    /\ accepted = [r \in Requests |-> {}]
    /\ answered = [r \in Requests |-> {}]
    /\ trip = [s \in Sessions |-> "none"]
    /\ tripScope = [s \in Sessions |-> "NONE"]
    /\ stop = [t \in Stoppers |-> "idle"]
    /\ target = [t \in Stoppers |-> NoSession]
    /\ wants = [t \in Stoppers |-> "keep"]
    /\ snap = [t \in Stoppers |-> {}]
    /\ seen = [t \in Stoppers |-> "None"]
    /\ answer = [t \in Stoppers |-> "none"]
    /\ reached = [t \in Stoppers |-> "None"]
    /\ rec = [t \in Reconcilers |-> "idle"]
    /\ recSess = [t \in Reconcilers |-> NoSession]
    /\ pending = [t \in Tasks |-> {}]
    /\ failed = [t \in Tasks |-> {}]
-----------------------------------------------------------------------------
(* The registry.                                                           *)

\* AttachSession with a fresh id: the handle is inserted ATTACHED with the
\* policy the client sent, or the default one.
Attach(s, sc) ==
    /\ state[s] = "None"
    /\ registry' = registry \cup {s}
    /\ state' = [state EXCEPT ![s] = "Attached"]
    /\ scope' = [scope EXCEPT ![s] = sc]
    /\ UNCHANGED <<stamped, announced, orderVars, venue, requestVars,
                   taskVars>>

\* SetKillSwitchPolicy, and the policy of a reconnecting AttachSession: no
\* state is checked under the policy lock, so this lands on any session, a
\* tripping one included.
SetPolicy(s, sc) ==
    /\ s \in registry
    /\ scope' = [scope EXCEPT ![s] = sc]
    /\ UNCHANGED <<registry, state, stamped, announced, orderVars, venue,
                   requestVars, taskVars>>

\* The watchdog's sweep drops a session whose terminal stamp is old enough.
RetireTerminal(s) ==
    /\ s \in registry /\ s \in stamped
    /\ registry' = registry \ {s}
    /\ UNCHANGED <<state, stamped, scope, announced, orderVars, venue,
                   requestVars, taskVars>>

\* Mutant: the state is stored, not compared and swapped.
StoreState(s, expected, next) == state' = [state EXCEPT ![s] = next]

\* SessionHandle::transition: compare-and-swap of the state byte.
Transition(s, expected, next) ==
    /\ state[s] = expected
    /\ state' = [state EXCEPT ![s] = next]

\* publish_state_change
Publish(s, from, to) ==
    announced' = [announced EXCEPT ![s] = @ \cup {<<from, to>>}]
-----------------------------------------------------------------------------
(* The venue, as the worker's requests use it (external).                  *)

\* A leg on the wire is accepted.  A client_order_id is accepted once.
VenueAccept(r, o) ==
    /\ o \in wire[r] /\ venue[o] = "absent"
    /\ wire' = [wire EXCEPT ![r] = @ \ {o}]
    /\ accepted' = [accepted EXCEPT ![r] = @ \cup {o}]
    /\ venue' = [venue EXCEPT ![o] = "resting"]
    /\ UNCHANGED <<controlVars, rpc, sess, answered, taskVars>>

\* A leg on the wire is rejected, or never arrives.
VenueLose(r, o) ==
    /\ o \in wire[r]
    /\ wire' = [wire EXCEPT ![r] = @ \ {o}]
    /\ UNCHANGED <<controlVars, venue, rpc, sess, accepted, answered,
                   taskVars>>

\* A resting order leaves the book: a fill, an expiry, the client's own
\* CancelOrder, or a cancel that took effect after the worker gave up on it.
VenueClose(o) ==
    /\ venue[o] = "resting"
    /\ venue' = [venue EXCEPT ![o] = "gone"]
    /\ UNCHANGED <<controlVars, requestVars, taskVars>>

\* cancel_coids: one cancel of the fan-out of task t is confirmed.  It names
\* the default exchange, so it cannot reach an order that rests elsewhere.
CancelAcked(t, o) ==
    /\ o \in pending[t] /\ o \notin Elsewhere
    /\ pending' = [pending EXCEPT ![t] = @ \ {o}]
    /\ venue' = [venue EXCEPT ![o] = "gone"]
    /\ UNCHANGED <<controlVars, requestVars, tripVars, stopVars, recVars,
                   failed>>

\* cancel_coids: a failure is collected, never dropped.
ReportFailure(t, o) == failed' = [failed EXCEPT ![t] = @ \cup {o}]

\* Mutant: a cancel has no timeout, so it fails only on an order that is gone.
CancelNeverTimesOut(t, o) ==
    /\ o \in pending[t] /\ venue[o] = "gone"
    /\ pending' = [pending EXCEPT ![t] = @ \ {o}]
    /\ ReportFailure(t, o)
    /\ UNCHANGED <<controlVars, venue, requestVars, tripVars, stopVars,
                   recVars>>

\* cancel_coids: one cancel is refused, or CANCEL_ROUND_TRIP_TIMEOUT passes.
CancelFailed(t, o) ==
    /\ o \in pending[t]
    /\ pending' = [pending EXCEPT ![t] = @ \ {o}]
    /\ ReportFailure(t, o)
    /\ UNCHANGED <<controlVars, venue, requestVars, tripVars, stopVars,
                   recVars>>
-----------------------------------------------------------------------------
(* CreateOrder and CreateOrders (session/proxy.rs, session/gate.rs).       *)

\* authorize_order_submission for session s passes, and the request goes out.
Authorize(r, s) ==
    /\ rpc[r] = "idle"
    /\ s \in registry /\ state[s] = "Active"
    /\ rpc' = [rpc EXCEPT ![r] = "sending"]
    /\ sess' = [sess EXCEPT ![r] = s]
    /\ wire' = [wire EXCEPT ![r] = Legs[r]]
    /\ UNCHANGED <<controlVars, venue, accepted, answered, taskVars>>

\* A call without a session id is neither gated nor tracked.
SubmitUnscoped(r) ==
    /\ rpc[r] = "idle"
    /\ rpc' = [rpc EXCEPT ![r] = "sending"]
    /\ wire' = [wire EXCEPT ![r] = Legs[r]]
    /\ UNCHANGED <<controlVars, venue, sess, accepted, answered, taskVars>>

\* The venue confirms every leg.
AnswerOk(r) ==
    /\ rpc[r] = "sending" /\ accepted[r] = Legs[r]
    /\ answered' = [answered EXCEPT ![r] = Legs[r]]
    /\ rpc' = [rpc EXCEPT ![r] =
                  IF sess[r] = NoSession THEN "done" ELSE "answered"]
    /\ UNCHANGED <<controlVars, venue, sess, wire, accepted, taskVars>>

\* The gateway fails or times out, whatever the venue did with the legs: a
\* session's batch asks the venue what it holds, everything else gives up.
AnswerErr(r) ==
    /\ rpc[r] = "sending"
    /\ rpc' = [rpc EXCEPT ![r] =
                  IF r \in Batches /\ sess[r] # NoSession THEN "recovering"
                                                         ELSE "failed"]
    /\ UNCHANGED <<controlVars, venue, sess, wire, accepted, answered,
                   taskVars>>

\* Mutant: an empty client_order_id is a key and matches any anonymous order.
MatchesEmpty(r, o) ==
    o \in Legs[r] \/ (o \in Anonymous /\ Legs[r] \cap Anonymous # {})

\* The filter of accepted_batch_orders: a client_order_id of the batch.
Matches(r, o) == o \in Legs[r] \ Anonymous

\* accepted_batch_orders: the open orders that carry a client_order_id of the
\* batch, or nothing when the query fails as well.
Recover(r, found) ==
    /\ rpc[r] = "recovering"
    /\ found \in {{}, {o \in Resting : Matches(r, o)}}
    /\ answered' = [answered EXCEPT ![r] = found]
    /\ rpc' = [rpc EXCEPT ![r] = "answered"]
    /\ UNCHANGED <<controlVars, venue, sess, wire, accepted, taskVars>>

\* record_submitted_orders
Record(r) ==
    LET named == answered[r] \ Unidentified IN
    /\ rpc[r] = "answered"
    /\ tracked' = [tracked EXCEPT ![sess[r]] = @ \cup named]
    /\ submitted' = [submitted EXCEPT ![sess[r]] = @ + Cardinality(named)]
    /\ rpc' = [rpc EXCEPT ![r] = "recorded"]
    /\ UNCHANGED <<sessionVars, venue, sess, wire, accepted, answered,
                   taskVars>>

\* Mutant: the state is not read again after the round trip.
NeverLate(r) == FALSE

\* The session went terminal during the round trip.
Late(r) == Terminal(state[sess[r]])

\* unwind_late_submissions: the state is read again after the round trip.
UnwindCheck(r) ==
    /\ rpc[r] = "recorded"
    /\ rpc' = [rpc EXCEPT ![r] = IF Late(r) THEN "unwinding" ELSE "done"]
    /\ pending' = [pending EXCEPT ![r] =
                      IF Late(r) THEN answered[r] \ Unidentified ELSE {}]
    /\ UNCHANGED <<controlVars, venue, sess, wire, accepted, answered,
                   tripVars, stopVars, recVars, failed>>

\* join_all: the unwind has an outcome for every order.
UnwindDone(r) ==
    /\ rpc[r] = "unwinding" /\ pending[r] = {}
    /\ rpc' = [rpc EXCEPT ![r] = "done"]
    /\ UNCHANGED <<controlVars, venue, sess, wire, accepted, answered,
                   taskVars>>
-----------------------------------------------------------------------------
(* trip_kill_switch (session/health.rs).                                   *)

\* Only ACTIVE trips; a lost compare-and-swap changes nothing.
TripCas(s) ==
    /\ Transition(s, "Active", "KillSwitchTripped")
    /\ trip' = [trip EXCEPT ![s] = "publishing"]
    /\ UNCHANGED <<registry, stamped, scope, announced, orderVars, venue,
                   requestVars, tripScope, stopVars, recVars, cancelVars>>

TripPublish(s) ==
    /\ trip[s] = "publishing"
    /\ stamped' = stamped \cup {s}
    /\ Publish(s, "Active", "KillSwitchTripped")
    /\ trip' = [trip EXCEPT ![s] = "scoping"]
    /\ UNCHANGED <<registry, state, scope, orderVars, venue, requestVars,
                   tripScope, stopVars, recVars, cancelVars>>

\* The policy is read after the state changed, not when the lease expired.
TripReadScope(s) ==
    /\ trip[s] = "scoping"
    /\ tripScope' = [tripScope EXCEPT ![s] = scope[s]]
    /\ trip' = [trip EXCEPT ![s] = IF scope[s] = "NONE" THEN "done"
                                                       ELSE "collecting"]
    /\ UNCHANGED <<controlVars, venue, requestVars, stopVars, recVars,
                   cancelVars>>

\* SCOPE_SESSION_ORDERS: cancel_session_orders clones the tracked set.
TripCollect(s) ==
    /\ trip[s] = "collecting" /\ tripScope[s] = "SESSION_ORDERS"
    /\ pending' = [pending EXCEPT ![s] = tracked[s]]
    /\ trip' = [trip EXCEPT ![s] = "cancelling"]
    /\ UNCHANGED <<controlVars, venue, requestVars, tripScope, stopVars,
                   recVars, failed>>

TripCancelsDone(s) ==
    /\ trip[s] = "cancelling" /\ pending[s] = {}
    /\ trip' = [trip EXCEPT ![s] = "done"]
    /\ UNCHANGED <<controlVars, venue, requestVars, tripScope, stopVars,
                   recVars, cancelVars>>

\* SCOPE_ALL_ORDERS: one cancel-all of the default exchange.
TripCancelAll(s) ==
    /\ trip[s] = "collecting" /\ tripScope[s] = "ALL_ORDERS"
    /\ venue' = [o \in Orders |-> IF o \in Resting \ Elsewhere THEN "gone"
                                                              ELSE venue[o]]
    /\ trip' = [trip EXCEPT ![s] = "done"]
    /\ UNCHANGED <<controlVars, requestVars, tripScope, stopVars, recVars,
                   cancelVars>>

\* SCOPE_ALL_ORDERS, refused or timed out: the failure is logged for the whole
\* account.
TripCancelAllFailed(s) ==
    /\ trip[s] = "collecting" /\ tripScope[s] = "ALL_ORDERS"
    /\ failed' = [failed EXCEPT ![s] = Orders]
    /\ trip' = [trip EXCEPT ![s] = "done"]
    /\ UNCHANGED <<controlVars, venue, requestVars, tripScope, stopVars,
                   recVars, pending>>
-----------------------------------------------------------------------------
(* stop_session (session/lifecycle.rs), called by StopStrategy.            *)

StopGoto(t, pc) == stop' = [stop EXCEPT ![t] = pc]

\* A session found terminal is returned as it is; otherwise the call goes on.
StopStart(t, s, orders) ==
    /\ stop[t] = "idle"
    /\ s \in registry /\ ~Terminal(state[s])
    /\ StopGoto(t, IF orders = "cancel" THEN "collecting" ELSE "rereading")
    /\ target' = [target EXCEPT ![t] = s]
    /\ wants' = [wants EXCEPT ![t] = orders]
    /\ UNCHANGED <<controlVars, venue, requestVars, tripVars, snap, seen,
                   answer, reached, recVars, cancelVars>>

\* cancel_session_orders clones the tracked set.
StopCollect(t) ==
    /\ stop[t] = "collecting"
    /\ pending' = [pending EXCEPT ![t] = tracked[target[t]]]
    /\ snap' = [snap EXCEPT ![t] = tracked[target[t]]]
    /\ StopGoto(t, "cancelling")
    /\ UNCHANGED <<controlVars, venue, requestVars, tripVars, target, wants,
                   seen, answer, reached, recVars, failed>>

StopCancelsDone(t) ==
    /\ stop[t] = "cancelling" /\ pending[t] = {}
    /\ StopGoto(t, "rereading")
    /\ UNCHANGED <<controlVars, venue, requestVars, tripVars, target, wants,
                   snap, seen, answer, reached, recVars, cancelVars>>

\* The second read of the state finds the session live.
StopReread(t) ==
    /\ stop[t] = "rereading" /\ ~Terminal(state[target[t]])
    /\ seen' = [seen EXCEPT ![t] = state[target[t]]]
    /\ StopGoto(t, "swapping")
    /\ UNCHANGED <<controlVars, venue, requestVars, tripVars, target, wants,
                   snap, answer, reached, recVars, cancelVars>>

\* The call returns a with the state it loads last.
StopReturn(t, a) ==
    /\ answer' = [answer EXCEPT ![t] = a]
    /\ reached' = [reached EXCEPT ![t] = state[target[t]]]
    /\ StopGoto(t, "done")
    /\ UNCHANGED <<target, wants, snap, seen>>

\* Mutant: the answer does not look at the failed cancels.
AnswerAlwaysOk(t) == "ok"

\* What a stop that got to its compare-and-swap makes of its cancels.
CancelsAnswer(t) == IF failed[t] = {} THEN "ok" ELSE "cancels_failed"

\* The second read finds the session terminal: Ok, whatever the cancels said.
StopFoundTerminal(t) ==
    /\ stop[t] = "rereading" /\ Terminal(state[target[t]])
    /\ StopReturn(t, "ok")
    /\ UNCHANGED <<controlVars, venue, requestVars, tripVars, recVars,
                   cancelVars>>

StopCas(t) ==
    /\ stop[t] = "swapping"
    /\ Transition(target[t], seen[t], "GracefulShutdown")
    /\ StopGoto(t, "publishing")
    /\ UNCHANGED <<registry, stamped, scope, announced, orderVars, venue,
                   requestVars, tripVars, target, wants, snap, seen, answer,
                   reached, recVars, cancelVars>>

\* The compare-and-swap loses to any concurrent transition.  (The state never
\* comes back to a value it left, so the failing swap and the load of the
\* state answered are one step.)
StopLost(t) ==
    /\ stop[t] = "swapping" /\ state[target[t]] # seen[t]
    /\ StopReturn(t, CancelsAnswer(t))
    /\ UNCHANGED <<controlVars, venue, requestVars, tripVars, recVars,
                   cancelVars>>

StopPublish(t) ==
    /\ stop[t] = "publishing"
    /\ stamped' = stamped \cup {target[t]}
    /\ Publish(target[t], seen[t], "GracefulShutdown")
    /\ StopReturn(t, CancelsAnswer(t))
    /\ UNCHANGED <<registry, state, scope, orderVars, venue, requestVars,
                   tripVars, recVars, cancelVars>>
-----------------------------------------------------------------------------
(* ReconcileState (session/service.rs, session/lifecycle.rs).              *)

RecGoto(t, pc) == rec' = [rec EXCEPT ![t] = pc] /\ UNCHANGED recSess

\* The end of a call, which frees the client for another one.
RecReturn(t) ==
    /\ rec' = [rec EXCEPT ![t] = "idle"]
    /\ recSess' = [recSess EXCEPT ![t] = NoSession]

recUnchanged ==
    <<orderVars, venue, requestVars, tripVars, stopVars, cancelVars>>

\* begin_reconcile loads the state; a terminal one is refused.
BeginRead(t, s) ==
    /\ rec[t] = "idle"
    /\ s \in registry /\ state[s] \in LiveStates
    /\ rec' = [rec EXCEPT ![t] = IF state[s] = "Attached" THEN "beginning"
                                                         ELSE "snapshot"]
    /\ recSess' = [recSess EXCEPT ![t] = s]
    /\ UNCHANGED <<sessionVars, recUnchanged>>

BeginCas(t) ==
    /\ rec[t] = "beginning"
    /\ Transition(recSess[t], "Attached", "Syncing")
    /\ RecGoto(t, "beginPublish")
    /\ UNCHANGED <<registry, stamped, scope, announced, recUnchanged>>

\* A lost compare-and-swap is not an error: begin_reconcile returns Ok.
BeginLost(t) ==
    /\ rec[t] = "beginning" /\ state[recSess[t]] # "Attached"
    /\ RecGoto(t, "snapshot")
    /\ UNCHANGED <<sessionVars, recUnchanged>>

BeginPublish(t) ==
    /\ rec[t] = "beginPublish"
    /\ Publish(recSess[t], "Attached", "Syncing")
    /\ RecGoto(t, "snapshot")
    /\ UNCHANGED <<registry, state, stamped, scope, recUnchanged>>

\* sync_state answers, or fails and ends the call with the session SYNCING.
SyncState(t, ok) ==
    /\ rec[t] = "snapshot"
    /\ IF ok THEN RecGoto(t, "complete") ELSE RecReturn(t)
    /\ UNCHANGED <<sessionVars, recUnchanged>>

\* complete_reconcile looks the session up again and loads its state.
CompleteRead(t) ==
    LET s == recSess[t] IN
    /\ rec[t] = "complete"
    /\ IF s \in registry /\ state[s] = "Syncing" THEN RecGoto(t, "completing")
                                                ELSE RecReturn(t)
    /\ UNCHANGED <<sessionVars, recUnchanged>>

CompleteCas(t) ==
    /\ rec[t] = "completing"
    /\ Transition(recSess[t], "Syncing", "Active")
    /\ RecGoto(t, "completePublish")
    /\ UNCHANGED <<registry, stamped, scope, announced, recUnchanged>>

CompleteLost(t) ==
    /\ rec[t] = "completing" /\ state[recSess[t]] # "Syncing"
    /\ RecReturn(t)
    /\ UNCHANGED <<sessionVars, recUnchanged>>

CompletePublish(t) ==
    /\ rec[t] = "completePublish"
    /\ Publish(recSess[t], "Syncing", "Active")
    /\ RecReturn(t)
    /\ UNCHANGED <<registry, state, stamped, scope, recUnchanged>>
-----------------------------------------------------------------------------
Venue ==
    \/ \E r \in Requests, o \in Orders : VenueAccept(r, o) \/ VenueLose(r, o)
    \/ \E o \in Orders : VenueClose(o)

CancelOutcome(t) == \E o \in Orders : CancelAcked(t, o) \/ CancelFailed(t, o)

\* The steps a submission takes by itself once it is authorized.
RequestStep(r) ==
    \/ AnswerOk(r) \/ AnswerErr(r)
    \/ \E found \in SUBSET Orders : Recover(r, found)
    \/ Record(r) \/ UnwindCheck(r) \/ UnwindDone(r)

TripStep(s) ==
    \/ TripPublish(s) \/ TripReadScope(s) \/ TripCollect(s)
    \/ TripCancelsDone(s) \/ TripCancelAll(s) \/ TripCancelAllFailed(s)

StopStep(t) ==
    \/ StopCollect(t) \/ StopCancelsDone(t) \/ StopReread(t)
    \/ StopFoundTerminal(t) \/ StopCas(t) \/ StopLost(t) \/ StopPublish(t)

RecStep(t) ==
    \/ BeginCas(t) \/ BeginLost(t) \/ BeginPublish(t)
    \/ \E ok \in BOOLEAN : SyncState(t, ok)
    \/ CompleteRead(t) \/ CompleteCas(t) \/ CompleteLost(t)
    \/ CompletePublish(t)

\* What clients, operators and the lease watchdog may do at any time.
Call ==
    \/ \E s \in Sessions, sc \in Policies : Attach(s, sc) \/ SetPolicy(s, sc)
    \/ \E s \in Sessions : RetireTerminal(s) \/ TripCas(s)
    \/ \E r \in Requests, s \in Sessions : Authorize(r, s)
    \/ \E r \in Requests : SubmitUnscoped(r)
    \/ \E t \in Stoppers, s \in Sessions, w \in {"cancel", "keep"} :
          StopStart(t, s, w)
    \/ \E t \in Reconcilers, s \in Sessions : BeginRead(t, s)

Next ==
    \/ Call
    \/ Venue
    \/ \E t \in Tasks : CancelOutcome(t)
    \/ \E r \in Requests : RequestStep(r)
    \/ \E s \in Sessions : TripStep(s)
    \/ \E t \in Stoppers : StopStep(t)
    \/ \E t \in Reconcilers : RecStep(t)

Spec == Init /\ [][Next]_vars

\* A spawned task keeps running, and no venue call outlasts its timeout
\* (UNARY_TIMEOUT, CANCEL_ROUND_TRIP_TIMEOUT).  Nothing is assumed of the venue
\* and of the callers.
Fairness ==
    /\ \A t \in Tasks : WF_vars(CancelOutcome(t))
    /\ \A r \in Requests : WF_vars(RequestStep(r))
    /\ \A s \in Sessions : WF_vars(TripStep(s))
    /\ \A t \in Stoppers : WF_vars(StopStep(t))
    /\ \A t \in Reconcilers : WF_vars(RecStep(t))

FairSpec == Spec /\ Fairness
-----------------------------------------------------------------------------
(* What the control plane promises.                                        *)

SessionTypes ==
    /\ registry \in SUBSET Sessions
    /\ state \in [Sessions -> States \cup {"None"}]
    /\ stamped \in SUBSET Sessions
    /\ scope \in [Sessions -> Scopes]
    /\ announced \in [Sessions -> SUBSET ((States \cup {"None"}) \X States)]

OrderTypes ==
    /\ tracked \in [Sessions -> SUBSET Orders]
    /\ submitted \in [Sessions -> Nat]
    /\ venue \in [Orders -> {"absent", "resting", "gone"}]

RequestTypes ==
    /\ rpc \in [Requests -> {"idle", "sending", "recovering", "answered",
                              "recorded", "unwinding", "done", "failed"}]
    /\ sess \in [Requests -> Sessions \cup {NoSession}]
    /\ wire \in [Requests -> SUBSET Orders]
    /\ accepted \in [Requests -> SUBSET Orders]
    /\ answered \in [Requests -> SUBSET Orders]

TripTypes ==
    /\ trip \in [Sessions -> {"none", "publishing", "scoping", "collecting",
                               "cancelling", "done"}]
    /\ tripScope \in [Sessions -> Scopes]

StopTypes ==
    /\ stop \in [Stoppers -> {"idle", "collecting", "cancelling", "rereading",
                               "swapping", "publishing", "done"}]
    /\ target \in [Stoppers -> Sessions \cup {NoSession}]
    /\ wants \in [Stoppers -> {"cancel", "keep"}]
    /\ snap \in [Stoppers -> SUBSET Orders]
    /\ seen \in [Stoppers -> LiveStates \cup {"None"}]
    /\ answer \in [Stoppers -> {"none", "ok", "cancels_failed"}]
    /\ reached \in [Stoppers -> States \cup {"None"}]
    /\ \A t \in Stoppers : stop[t] # "idle" => target[t] \in Sessions

RecTypes ==
    /\ rec \in [Reconcilers ->
          {"idle", "beginning", "beginPublish", "snapshot", "complete",
           "completing", "completePublish"}]
    /\ recSess \in [Reconcilers -> Sessions \cup {NoSession}]
    /\ \A t \in Reconcilers : rec[t] # "idle" => recSess[t] \in Sessions

CancelTypes ==
    /\ pending \in [Tasks -> SUBSET Orders]
    /\ failed \in [Tasks -> SUBSET Orders]

\* The state of every handle, call and fan-out has its type.
TypeOK ==
    /\ SessionTypes /\ OrderTypes /\ RequestTypes /\ TripTypes
    /\ StopTypes /\ RecTypes /\ CancelTypes

\* The orders the kill switch of s is meant to reach, of those the worker knows
\* the venue gave it: by id, and for a cancel-all on the default exchange.
Reachable(s) ==
    CASE tripScope[s] = "SESSION_ORDERS" -> Orders \ Unidentified
      [] tripScope[s] = "ALL_ORDERS" -> Orders \ (Unidentified \cup Elsewhere)
      [] OTHER -> {}

\* KILL SWITCH.  Once the kill switch of a session and one of its submissions
\* have both run to their end, no order the submission learned of still rests,
\* unless one of the two reported its cancel as failed.  This is the promise of
\* trip_kill_switch and unwind_late_submissions together: the gate is a
\* point-in-time check, and an order that is recorded after the tracked set was
\* cloned must be caught by the second read of the state.
KillSwitchUnwinds ==
    \A s \in Sessions, r \in Requests :
        trip[s] = "done" /\ rpc[r] = "done" /\ sess[r] = s =>
            \A o \in answered[r] \cap Reachable(s) :
                venue[o] = "resting" => o \in failed[s] \cup failed[r]

\* Why it holds, one step at a time.  The state of a session that trips is
\* already final; ...
TrippedIsFinal ==
    \A s \in Sessions : trip[s] # "none" => state[s] = "KillSwitchTripped"

\* ... an order a submission attributes has reached the venue, so it cannot
\* appear on the book again once it has left it; ...
AttributedWasPlaced ==
    \A r \in Requests :
        /\ \A o \in accepted[r] \cup answered[r] : venue[o] # "absent"
        /\ rpc[r] \in {"recovering", "answered", "recorded", "unwinding"} =>
              sess[r] \in Sessions

\* ... it is tracked before the state is read again; ...
RecordedIsTracked ==
    \A r \in Requests :
        rpc[r] \in {"recorded", "unwinding", "done"} /\ sess[r] \in Sessions =>
            answered[r] \ Unidentified \subseteq tracked[sess[r]]

\* ... an unwind that is under way has every resting order in hand; ...
UnwindCovers ==
    \A r \in Requests : rpc[r] = "unwinding" =>
        (answered[r] \ Unidentified) \cap Resting
           \subseteq pending[r] \cup failed[r]

\* ... and so has the kill switch, from the moment it cloned the tracked set,
\* for every submission that returned without an unwind.
TripCovers ==
    \A s \in Sessions, r \in Requests :
        trip[s] \in {"cancelling", "done"} /\ rpc[r] = "done" /\ sess[r] = s =>
            answered[r] \cap Reachable(s) \cap Resting
               \subseteq pending[s] \cup failed[s] \cup failed[r]

TripPending ==
    \A s \in Sessions : trip[s] # "cancelling" => pending[s] = {}

\* The inductive invariant behind KillSwitchUnwinds: the handlers never lose
\* sight of an order between the gate, the tracked set, the kill switch and the
\* unwind.
KillSwitchInv ==
    /\ TrippedIsFinal
    /\ AttributedWasPlaced
    /\ RecordedIsTracked
    /\ UnwindCovers
    /\ TripCovers
    /\ TripPending

\* ATTRIBUTION.  A session tracks only orders that one of its own submissions
\* placed, so SCOPE_SESSION_ORDERS and StopStrategy never cancel a stranger's
\* order: neither an anonymous order that matches an empty client_order_id in
\* accepted_batch_orders nor an order without an id in record_submitted_orders.
OwnOrdersOnly ==
    \A s \in Sessions : \A o \in tracked[s] :
        \E r \in Requests : sess[r] = s /\ o \in accepted[r]

\* STOP.  A stop_session that gets as far as its compare-and-swap and answers
\* Ok leaves none of the orders it set out to cancel resting, whether it won
\* the swap or lost it to another stop, to a reconcile or to the kill switch.
StopOkMeansCancelled ==
    \A t \in Stoppers :
        stop[t] = "done" /\ answer[t] = "ok" /\ seen[t] # "None" =>
            \A o \in snap[t] : venue[o] # "resting"

\* LIFECYCLE.  Whatever the interleaving of reconciles, stops and trips, the
\* state byte follows the session state machine, a terminal state is final, and
\* every transition is published exactly once, by the task that made it.
OwedBy(s) ==
    {<<"Active", "KillSwitchTripped">> :
       u \in {v \in Sessions : v = s /\ trip[v] = "publishing"}}
    \cup {<<seen[t], "GracefulShutdown">> :
             t \in {u \in Stoppers : stop[u] = "publishing" /\ target[u] = s}}
    \cup {<<"Attached", "Syncing">> :
             t \in {u \in Reconcilers :
                      rec[u] = "beginPublish" /\ recSess[u] = s}}
    \cup {<<"Syncing", "Active">> :
             t \in {u \in Reconcilers :
                      rec[u] = "completePublish" /\ recSess[u] = s}}

Lifecycle == INSTANCE SessionLifecycle
             WITH owed <- [s \in Sessions |-> OwedBy(s)], told <- announced

\* SessionLifecycle, through the mapping above.
ImplementsLifecycle == Lifecycle!LifecycleSpec

\* CALLS RETURN.  Every submission, kill switch, stop and reconcile that starts
\* comes to its end although venue calls are lost, because every venue call has
\* a timeout and no task waits for another one.
CallsReturn ==
    /\ \A r \in Requests : rpc[r] = "sending" ~> rpc[r] \in {"done", "failed"}
    /\ \A s \in Sessions : state[s] = "KillSwitchTripped" ~> trip[s] = "done"
    /\ \A t \in Stoppers : stop[t] # "idle" ~> stop[t] = "done"
    /\ \A t \in Reconcilers : rec[t] # "idle" ~> rec[t] = "idle"

\* TRIPPED ORDERS SETTLE.  Once a session has tripped, every order a submission
\* of it has learned of, before or after the trip, ends up off the book or
\* reported as failed, unless the policy says to cancel nothing.
TrippedOrdersSettle ==
    \A s \in Sessions, r \in Requests, o \in Orders \ Unidentified :
        (state[s] = "KillSwitchTripped" /\ sess[r] = s /\ o \in answered[r])
          ~> \/ venue[o] = "gone"
             \/ o \in failed[s] \cup failed[r]
             \/ trip[s] = "done" /\ o \notin Reachable(s)
-----------------------------------------------------------------------------
(* What comments and docs of the repository say, and the code does not do.  *)

\* lifecycle.rs, stop_session: "The state transition is unconditional".  When a
\* call has answered, the session has reached a terminal state.
StopIsUnconditional ==
    \A t \in Stoppers : stop[t] = "done" => Terminal(reached[t])
=============================================================================
