----------------------------- MODULE OrderProofs -----------------------------
(***************************************************************************)
(* Which orders a session tracks and what StopStrategy makes of them, for  *)
(* any number of sessions, submissions, stops, reconciles and orders.      *)
(***************************************************************************)
EXTENDS SessionControlProofs

USE DEF controlVars, sessionVars, orderVars, requestVars, taskVars, tripVars,
        stopVars, recVars, cancelVars, recUnchanged

\* A tracked order, and one a stop set out to cancel, has reached the venue, so
\* it cannot appear on the book again once it has left it.
TrackedWasPlaced ==
    /\ \A s \in Sessions : \A o \in tracked[s] : venue[o] # "absent"
    /\ \A t \in Stoppers : \A o \in snap[t] : venue[o] # "absent"

\* A stop has every order it set out to cancel in hand until it answers.
StopCovers ==
    \A t \in Stoppers :
        /\ stop[t] \in {"idle", "collecting"} => snap[t] = {}
        /\ stop[t] \in {"idle", "collecting", "cancelling", "rereading"} =>
              seen[t] = "None"
        /\ stop[t] = "cancelling" =>
              snap[t] \cap Resting \subseteq pending[t] \cup failed[t]
        /\ stop[t] \in {"rereading", "swapping", "publishing"} =>
              snap[t] \cap Resting \subseteq failed[t]

StopInv == TrackedWasPlaced /\ StopCovers /\ StopOkMeansCancelled

\* No two submissions ask for the same order: a client_order_id is used once.
LegsApart ==
    \A r1, r2 \in Requests : r1 # r2 => Legs[r1] \cap Legs[r2] = {}

\* A submission attributes only orders accepted for it, those it asked for, and
\* it has a session only from the moment it is authorized.
AskedFor ==
    \A r \in Requests :
        /\ wire[r] \subseteq Legs[r] /\ accepted[r] \subseteq Legs[r]
        /\ answered[r] \subseteq accepted[r]
        /\ rpc[r] = "idle" => sess[r] = NoSession

\* A resting order was accepted for a submission.
RestingWasAccepted ==
    \A o \in Orders :
        venue[o] = "resting" => \E r \in Requests : o \in accepted[r]

Attribution == AskedFor /\ RestingWasAccepted /\ OwnOrdersOnly
-----------------------------------------------------------------------------
(* StopStrategy.                                                           *)

\* A step that leaves the orders, the stops and the cancels alone.
LEMMA StopFrame ==
    ASSUME StopInv, UNCHANGED <<tracked, venue, stopVars, cancelVars>>
    PROVE  StopInv'
BY DEF StopInv, TrackedWasPlaced, StopCovers, StopOkMeansCancelled, Resting

\* The venue: an order that left the book does not come back.
LEMMA StopVenue ==
    ASSUME TypeOK, StopInv, Venue
    PROVE  StopInv'
<1> USE TasksAreDistinct
       DEF StopInv, TrackedWasPlaced, StopCovers, StopOkMeansCancelled, Resting,
           TypeOK, OrderTypes, RequestTypes, StopTypes, CancelTypes
<1>1. ASSUME NEW r \in Requests, NEW o \in Orders, VenueAccept(r, o)
      PROVE  StopInv'
    BY <1>1 DEF VenueAccept
<1>2. ASSUME NEW r \in Requests, NEW o \in Orders, VenueLose(r, o)
      PROVE  StopInv'
    BY <1>2 DEF VenueLose
<1>3. ASSUME NEW o \in Orders, VenueClose(o)
      PROVE  StopInv'
    BY <1>3 DEF VenueClose
<1> HIDE DEF StopInv, TypeOK
<1> QED  BY <1>1, <1>2, <1>3 DEF Venue

\* An outcome of a cancel takes the order off the book or reports it.
LEMMA StopOutcome ==
    ASSUME TypeOK, StopInv, NEW t \in Tasks, CancelOutcome(t)
    PROVE  StopInv'
<1> USE TasksAreDistinct
       DEF StopInv, TrackedWasPlaced, StopCovers, StopOkMeansCancelled, Resting,
           TypeOK, OrderTypes, RequestTypes, StopTypes, CancelTypes
<1>1. ASSUME NEW o \in Orders, CancelAcked(t, o)
      PROVE  StopInv'
    BY <1>1 DEF CancelAcked
<1>2. ASSUME NEW o \in Orders, CancelFailed(t, o)
      PROVE  StopInv'
    BY <1>2 DEF CancelFailed, ReportFailure
<1> HIDE DEF StopInv, TypeOK
<1> QED  BY <1>1, <1>2 DEF CancelOutcome

\* A submission records orders the venue accepted, and unwinds by itself.
LEMMA StopRequest ==
    ASSUME TypeOK, KillSwitchInv, StopInv, NEW r \in Requests, RequestStep(r)
    PROVE  StopInv'
<1>1. CASE Record(r)
    BY <1>1, TasksAreDistinct
       DEF Record, StopInv, TrackedWasPlaced, StopCovers, StopOkMeansCancelled,
           Resting, TypeOK, OrderTypes, RequestTypes, KillSwitchInv,
           AttributedWasPlaced
<1>2. CASE UnwindCheck(r)
    BY <1>2, TasksAreDistinct
       DEF UnwindCheck, StopInv, TrackedWasPlaced, StopCovers,
           StopOkMeansCancelled, Resting, TypeOK, CancelTypes
<1> QED
    BY <1>1, <1>2, StopFrame
       DEF RequestStep, AnswerOk, AnswerErr, Recover, UnwindDone

\* A kill switch has its own cancels, or takes orders off the book.
LEMMA StopTrip ==
    ASSUME TypeOK, StopInv, NEW s \in Sessions, TripStep(s)
    PROVE  StopInv'
<1> USE TasksAreDistinct
       DEF StopInv, TrackedWasPlaced, StopCovers, StopOkMeansCancelled, Resting,
           TypeOK, OrderTypes, RequestTypes, StopTypes, CancelTypes
<1>1. CASE TripCollect(s)
    BY <1>1 DEF TripCollect
<1>2. CASE TripCancelAll(s)
    BY <1>2 DEF TripCancelAll
<1>3. CASE TripCancelAllFailed(s)
    BY <1>3 DEF TripCancelAllFailed
<1> HIDE DEF StopInv, TypeOK
<1> QED
    BY <1>1, <1>2, <1>3, StopFrame
       DEF TripStep, TripPublish, TripReadScope, TripCancelsDone

\* A call that starts.
LEMMA StopCall ==
    ASSUME TypeOK, StopInv, Call
    PROVE  StopInv'
<1> USE TasksAreDistinct
       DEF StopInv, TrackedWasPlaced, StopCovers, StopOkMeansCancelled, Resting,
           TypeOK, OrderTypes, RequestTypes, StopTypes, CancelTypes
<1>1. ASSUME NEW t \in Stoppers, NEW s \in Sessions,
             NEW w \in {"cancel", "keep"}, StopStart(t, s, w)
      PROVE  StopInv'
    BY <1>1 DEF StopStart, StopGoto
<1> HIDE DEF StopInv, TypeOK
<1> QED
    BY <1>1, StopFrame DEF Call, Attach, SetPolicy, RetireTerminal, TripCas,
       Authorize, SubmitUnscoped, BeginRead

\* A stop that has every outcome of its cancels answers Ok only when none of
\* them failed.
LEMMA StopAnswers ==
    ASSUME TypeOK, StopInv, NEW t \in Stoppers,
           stop[t] \in {"swapping", "publishing"},
           StopReturn(t, CancelsAnswer(t)),
           UNCHANGED <<tracked, venue, cancelVars>>
    PROVE  StopInv'
<1>1. /\ UNCHANGED <<snap, seen>>
      /\ stop'[t] = "done"
      /\ answer'[t] = "ok" => failed[t] = {}
      /\ \A u \in Stoppers : u # t => stop'[u] = stop[u] /\ answer'[u] = answer[u]
    BY DEF StopReturn, StopGoto, CancelsAnswer, TypeOK, StopTypes
<1>2. TrackedWasPlaced'
    BY <1>1 DEF StopInv, TrackedWasPlaced
<1>3. StopCovers'
    BY <1>1 DEF StopInv, StopCovers, Resting
<1>4. StopOkMeansCancelled'
  <2>1. answer'[t] = "ok" => \A o \in snap[t] : venue[o] # "resting"
    BY <1>1 DEF StopInv, StopCovers, Resting, TypeOK, StopTypes
  <2> QED  BY <1>1, <2>1 DEF StopInv, StopOkMeansCancelled
<1> QED  BY <1>2, <1>3, <1>4 DEF StopInv

\* A step of a stop: it answers Ok from its compare-and-swap on only when no
\* cancel failed.
LEMMA StopStop ==
    ASSUME TypeOK, StopInv, NEW t \in Stoppers, StopStep(t)
    PROVE  StopInv'
<1> USE TasksAreDistinct
       DEF StopInv, TrackedWasPlaced, StopCovers, StopOkMeansCancelled, Resting,
           TypeOK, OrderTypes, RequestTypes, StopTypes, CancelTypes
<1>1. CASE StopCollect(t)
    BY <1>1 DEF StopCollect, StopGoto
<1>2. CASE StopCancelsDone(t)
    BY <1>2 DEF StopCancelsDone, StopGoto
<1>3. CASE StopReread(t)
    BY <1>3 DEF StopReread, StopGoto
<1>4. CASE StopFoundTerminal(t)
    BY <1>4 DEF StopFoundTerminal, StopReturn, StopGoto
<1>5. CASE StopCas(t)
    BY <1>5 DEF StopCas, StopGoto
<1>6. CASE StopLost(t)
  <2>1. stop[t] = "swapping" /\ StopReturn(t, CancelsAnswer(t))
        /\ UNCHANGED <<tracked, venue, cancelVars>>
    BY <1>6 DEF StopLost
  <2> QED  BY <2>1, StopAnswers
<1>7. CASE StopPublish(t)
  <2>1. stop[t] = "publishing" /\ StopReturn(t, CancelsAnswer(t))
        /\ UNCHANGED <<tracked, venue, cancelVars>>
    BY <1>7 DEF StopPublish
  <2> QED  BY <2>1, StopAnswers
<1> HIDE DEF StopInv, TypeOK
<1> QED  BY <1>1, <1>2, <1>3, <1>4, <1>5, <1>6, <1>7 DEF StopStep

\* STOP.  For any number of stops, trips, reconciles and submissions: a
\* stop_session that gets as far as its compare-and-swap and answers Ok leaves
\* none of the orders it cloned from the tracked set resting.
THEOREM StopHolds == Spec => []StopOkMeansCancelled
<1>1. Init => StopInv
    BY DEF Init, StopInv, TrackedWasPlaced, StopCovers, StopOkMeansCancelled
<1>2. ASSUME TypeOK, KillSwitchInv, StopInv, [Next]_vars
      PROVE  StopInv'
  <2>1. CASE UNCHANGED vars
    BY <1>2, <2>1, StopFrame DEF vars
  <2>2. ASSUME NEW t \in Reconcilers, RecStep(t)
        PROVE  StopInv'
      BY <1>2, <2>2, StopFrame DEF RecStep, BeginCas, BeginLost, BeginPublish,
         SyncState, CompleteRead, CompleteCas, CompleteLost, CompletePublish
  <2> QED
    BY <1>2, <2>1, <2>2, StopCall, StopVenue, StopOutcome, StopRequest,
       StopTrip, StopStop DEF Next
<1>3. StopInv => StopOkMeansCancelled
    BY DEF StopInv
<1> QED  BY <1>1, <1>2, <1>3, TypesHold, KillSwitchInvHolds, PTL DEF Spec
-----------------------------------------------------------------------------
(* Attribution.                                                            *)

\* A step that leaves the tracked sets, the venue and the submissions alone.
LEMMA AttributionFrame ==
    ASSUME Attribution, UNCHANGED <<tracked, venue, requestVars>>
    PROVE  Attribution'
BY DEF Attribution, AskedFor, RestingWasAccepted, OwnOrdersOnly

\* A step that only takes orders off the book.
LEMMA OffTheBook ==
    ASSUME Attribution, UNCHANGED <<tracked, requestVars>>,
           \A o \in Orders : venue'[o] = "resting" => venue[o] = "resting"
    PROVE  Attribution'
BY DEF Attribution, AskedFor, RestingWasAccepted, OwnOrdersOnly

\* A step by which a submission learns at most of orders accepted for it.
LEMMA LearnsItsOwn ==
    ASSUME Attribution, UNCHANGED <<tracked, venue, sess, wire, accepted>>,
           \A r \in Requests : /\ answered'[r] \subseteq accepted[r]
                               /\ rpc'[r] = "idle" => rpc[r] = "idle"
    PROVE  Attribution'
<1>1. AskedFor'
  <2>1. wire' = wire /\ accepted' = accepted /\ sess' = sess
    OBVIOUS
  <2> SUFFICES ASSUME NEW r \in Requests
               PROVE  /\ wire'[r] \subseteq Legs[r]
                      /\ accepted'[r] \subseteq Legs[r]
                      /\ answered'[r] \subseteq accepted'[r]
                      /\ rpc'[r] = "idle" => sess'[r] = NoSession
    BY DEF AskedFor
  <2>2. /\ wire[r] \subseteq Legs[r] /\ accepted[r] \subseteq Legs[r]
        /\ rpc[r] = "idle" => sess[r] = NoSession
    BY DEF Attribution, AskedFor
  <2>3. /\ answered'[r] \subseteq accepted[r]
        /\ rpc'[r] = "idle" => rpc[r] = "idle"
    OBVIOUS
  <2> QED  BY Zenon, <2>1, <2>2, <2>3
<1>2. RestingWasAccepted'
    BY DEF Attribution, RestingWasAccepted
<1>3. OwnOrdersOnly'
    BY DEF Attribution, OwnOrdersOnly
<1> QED  BY <1>1, <1>2, <1>3 DEF Attribution

\* An order rests because a submission that asked for it was accepted.
LEMMA AttributionVenue ==
    ASSUME TypeOK, Attribution, Venue
    PROVE  Attribution'
<1>1. ASSUME NEW r \in Requests, NEW o \in Orders, VenueAccept(r, o)
      PROVE  Attribution'
  <2>1. /\ UNCHANGED <<tracked, rpc, sess, answered>>
        /\ o \in wire[r]
        /\ wire'[r] = wire[r] \ {o} /\ accepted'[r] = accepted[r] \cup {o}
        /\ \A q \in Requests : q # r => /\ wire'[q] = wire[q]
                                        /\ accepted'[q] = accepted[q]
        /\ \A p \in Orders : p # o => venue'[p] = venue[p]
    BY <1>1 DEF VenueAccept, TypeOK, OrderTypes, RequestTypes
  <2>2. AskedFor'
    <3>1. wire[r] \subseteq Legs[r] /\ accepted[r] \subseteq Legs[r]
          /\ answered[r] \subseteq accepted[r]
      BY DEF Attribution, AskedFor
    <3>2. wire'[r] \subseteq Legs[r] /\ accepted'[r] \subseteq Legs[r]
          /\ answered'[r] \subseteq accepted'[r]
      BY <2>1, <3>1
    <3> QED  BY <2>1, <3>2 DEF Attribution, AskedFor
  <2>3. \A q \in Requests : accepted[q] \subseteq accepted'[q]
    BY <2>1
  <2>4. RestingWasAccepted'
    BY <2>1, <2>3 DEF Attribution, RestingWasAccepted
  <2>5. OwnOrdersOnly'
    BY <2>1, <2>3 DEF Attribution, OwnOrdersOnly
  <2> QED  BY <2>2, <2>4, <2>5 DEF Attribution
<1>2. ASSUME NEW r \in Requests, NEW o \in Orders, VenueLose(r, o)
      PROVE  Attribution'
  <2>1. /\ UNCHANGED <<tracked, venue, rpc, sess, accepted, answered>>
        /\ \A q \in Requests : wire'[q] \subseteq wire[q]
    BY <1>2 DEF VenueLose, TypeOK, RequestTypes
  <2> QED
    BY <2>1 DEF Attribution, AskedFor, RestingWasAccepted, OwnOrdersOnly
<1>3. ASSUME NEW o \in Orders, VenueClose(o)
      PROVE  Attribution'
  <2>1. \A p \in Orders : venue'[p] = "resting" => venue[p] = "resting"
    BY <1>3 DEF VenueClose, TypeOK, OrderTypes
  <2> QED  BY <1>3, <2>1, OffTheBook DEF VenueClose
<1> QED  BY <1>1, <1>2, <1>3 DEF Venue

\* Cancels only take orders off the book.
LEMMA AttributionOutcome ==
    ASSUME TypeOK, Attribution, NEW t \in Tasks, CancelOutcome(t)
    PROVE  Attribution'
<1>1. ASSUME NEW o \in Orders, CancelAcked(t, o)
      PROVE  Attribution'
  <2>1. \A p \in Orders : venue'[p] = "resting" => venue[p] = "resting"
    BY <1>1 DEF CancelAcked, TypeOK, OrderTypes
  <2> QED  BY <1>1, <2>1, OffTheBook DEF CancelAcked
<1> QED  BY <1>1, AttributionFrame DEF CancelOutcome, CancelFailed

\* A submission learns of its own orders only: all of them from the answer, or
\* those that rest and carry a client_order_id of the batch.
LEMMA AttributionRequest ==
    ASSUME LegsApart, TypeOK, KillSwitchInv, Attribution,
           NEW r \in Requests, RequestStep(r)
    PROVE  Attribution'
<1>0. RequestTypes /\ AskedFor
    BY DEF TypeOK, Attribution
<1>1. CASE AnswerOk(r)
  <2>1. UNCHANGED <<tracked, venue, sess, wire, accepted>>
    BY <1>1 DEF AnswerOk
  <2>2. \A q \in Requests : /\ answered'[q] \subseteq accepted[q]
                            /\ rpc'[q] = "idle" => rpc[q] = "idle"
    BY <1>0, <1>1 DEF AnswerOk, RequestTypes, AskedFor
  <2> QED  BY <2>1, <2>2, LearnsItsOwn
<1>2. CASE AnswerErr(r)
  <2>1. UNCHANGED <<tracked, venue, sess, wire, accepted>>
    BY <1>2 DEF AnswerErr
  <2>2. \A q \in Requests : /\ answered'[q] \subseteq accepted[q]
                            /\ rpc'[q] = "idle" => rpc[q] = "idle"
    BY <1>0, <1>2 DEF AnswerErr, RequestTypes, AskedFor
  <2> QED  BY <2>1, <2>2, LearnsItsOwn
<1>3. ASSUME NEW found \in SUBSET Orders, Recover(r, found)
      PROVE  Attribution'
  <2>1. found \subseteq accepted[r]
    BY <1>3 DEF Recover, Matches, Resting, LegsApart, Attribution, AskedFor,
       RestingWasAccepted
  <2>2. UNCHANGED <<tracked, venue, sess, wire, accepted>>
    BY <1>3 DEF Recover
  <2>3. \A q \in Requests : /\ answered'[q] \subseteq accepted[q]
                            /\ rpc'[q] = "idle" => rpc[q] = "idle"
    BY <1>0, <1>3, <2>1 DEF Recover, RequestTypes, AskedFor
  <2> QED  BY <2>2, <2>3, LearnsItsOwn
<1>4. CASE Record(r)
  <2>1. sess[r] \in Sessions
    BY <1>4 DEF Record, KillSwitchInv, AttributedWasPlaced
  <2>2. /\ UNCHANGED <<venue, sess, wire, accepted, answered>>
        /\ \A q \in Requests : rpc'[q] = "idle" => rpc[q] = "idle"
    BY <1>0, <1>4 DEF Record, RequestTypes
  <2>3. \A s \in Sessions : \A o \in tracked'[s] :
           o \in tracked[s] \/ (s = sess[r] /\ o \in answered[r])
    BY <1>4, <2>1 DEF Record, TypeOK, OrderTypes
  <2>4. OwnOrdersOnly'
    <3>1. ASSUME NEW o \in answered[r]
          PROVE  sess[r] = sess'[r] /\ o \in accepted'[r]
      BY <1>0, <2>2 DEF AskedFor
    <3>2. ASSUME NEW s \in Sessions, NEW o \in tracked[s]
          PROVE  \E q \in Requests : sess'[q] = s /\ o \in accepted'[q]
      BY <2>2 DEF Attribution, OwnOrdersOnly
    <3>3. ASSUME NEW s \in Sessions, NEW o \in tracked'[s]
          PROVE  \E q \in Requests : sess'[q] = s /\ o \in accepted'[q]
      <4>1. CASE o \in tracked[s]
        BY <3>2, <4>1
      <4>2. CASE s = sess[r] /\ o \in answered[r]
        BY <3>1, <4>2
      <4> QED  BY <2>3, <4>1, <4>2
    <3> QED  BY <3>3 DEF OwnOrdersOnly
  <2> QED  BY <2>2, <2>4 DEF Attribution, AskedFor, RestingWasAccepted
<1>5. CASE UnwindCheck(r) \/ UnwindDone(r)
  <2>1. UNCHANGED <<tracked, venue, sess, wire, accepted>>
    BY <1>5 DEF UnwindCheck, UnwindDone
  <2>2. \A q \in Requests : /\ answered'[q] \subseteq accepted[q]
                            /\ rpc'[q] = "idle" => rpc[q] = "idle"
    BY <1>0, <1>5 DEF UnwindCheck, UnwindDone, RequestTypes, AskedFor
  <2> QED  BY <2>1, <2>2, LearnsItsOwn
<1> QED  BY <1>1, <1>2, <1>3, <1>4, <1>5 DEF RequestStep

\* A submission that is authorized had no session, so no order was its own.
LEMMA AttributionCall ==
    ASSUME TypeOK, Attribution, Call
    PROVE  Attribution'
<1>1. ASSUME NEW r \in Requests, NEW s \in Sessions, Authorize(r, s)
      PROVE  Attribution'
  <2>1. /\ UNCHANGED <<tracked, venue, accepted, answered>>
        /\ sess[r] = NoSession /\ rpc'[r] # "idle" /\ wire'[r] = Legs[r]
        /\ \A q \in Requests : q # r => /\ wire'[q] = wire[q]
                                        /\ sess'[q] = sess[q]
                                        /\ rpc'[q] = rpc[q]
    BY <1>1 DEF Authorize, TypeOK, RequestTypes, Attribution, AskedFor
  <2>2. \A v \in Sessions : v # NoSession
    BY TasksAreDistinct
  <2>3. OwnOrdersOnly'
    BY <2>1, <2>2 DEF Attribution, OwnOrdersOnly
  <2> QED  BY <2>1, <2>3 DEF Attribution, AskedFor, RestingWasAccepted
<1>2. ASSUME NEW r \in Requests, SubmitUnscoped(r)
      PROVE  Attribution'
  <2>1. /\ UNCHANGED <<tracked, venue, sess, accepted, answered>>
        /\ \A q \in Requests : /\ wire'[q] = wire[q] \/ wire'[q] = Legs[q]
                               /\ rpc'[q] = "idle" => rpc[q] = "idle"
    BY <1>2 DEF SubmitUnscoped, TypeOK, RequestTypes
  <2> QED
    BY <2>1 DEF Attribution, AskedFor, RestingWasAccepted, OwnOrdersOnly
<1> QED
    BY <1>1, <1>2, AttributionFrame DEF Call, Attach, SetPolicy,
       RetireTerminal, TripCas, StopStart, BeginRead

\* The kill switch takes orders off the book.
LEMMA AttributionTrip ==
    ASSUME TypeOK, Attribution, NEW s \in Sessions, TripStep(s)
    PROVE  Attribution'
<1>1. CASE TripCancelAll(s)
  <2>1. \A p \in Orders : venue'[p] = "resting" => venue[p] = "resting"
    BY <1>1 DEF TripCancelAll, TypeOK, OrderTypes
  <2> QED  BY <1>1, <2>1, OffTheBook DEF TripCancelAll
<1> QED
    BY <1>1, AttributionFrame DEF TripStep, TripPublish, TripReadScope,
       TripCollect, TripCancelsDone, TripCancelAllFailed

\* ATTRIBUTION.  As long as no client_order_id is used twice, and whatever the
\* venue answers late, in part or never: a session tracks only orders that one
\* of its own submissions placed (record_submitted_orders and
\* accepted_batch_orders), so no kill switch or stop cancels a stranger's order.
THEOREM AttributionHolds ==
    ASSUME LegsApart
    PROVE  Spec => []OwnOrdersOnly
<1>1. Init => Attribution
    BY LegsType DEF Init, Attribution, AskedFor, RestingWasAccepted,
       OwnOrdersOnly
<1>2. ASSUME TypeOK, KillSwitchInv, Attribution, [Next]_vars
      PROVE  Attribution'
  <2>1. CASE UNCHANGED vars
    BY <1>2, <2>1, AttributionFrame DEF vars
  <2>2. ASSUME NEW t \in Reconcilers, RecStep(t)
        PROVE  Attribution'
      BY <1>2, <2>2, AttributionFrame DEF RecStep, BeginCas, BeginLost,
         BeginPublish, SyncState, CompleteRead, CompleteCas, CompleteLost,
         CompletePublish
  <2>3. ASSUME NEW t \in Stoppers, StopStep(t)
        PROVE  Attribution'
      BY <1>2, <2>3, AttributionFrame DEF StopStep, StopCollect,
         StopCancelsDone, StopReread, StopFoundTerminal, StopCas, StopLost,
         StopPublish
  <2> QED
    BY <1>2, <2>1, <2>2, <2>3, LegsApart, AttributionCall, AttributionVenue,
       AttributionOutcome, AttributionRequest, AttributionTrip DEF Next
<1>3. Attribution => OwnOrdersOnly
    BY DEF Attribution
<1> QED  BY <1>1, <1>2, <1>3, TypesHold, KillSwitchInvHolds, PTL DEF Spec
=============================================================================
