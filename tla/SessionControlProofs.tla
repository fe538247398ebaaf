------------------------ MODULE SessionControlProofs ------------------------
(***************************************************************************)
(* Proofs about SessionControl, for any number of sessions, submissions,   *)
(* stops, reconciles and orders.                                           *)
(***************************************************************************)
EXTENDS SessionControl, FiniteSetTheorems, TLAPS

USE DEF controlVars, sessionVars, orderVars, requestVars, taskVars, tripVars,
        stopVars, recVars, cancelVars, recUnchanged

-----------------------------------------------------------------------------
(* Type correctness.                                                       *)

\* A request asks for orders.
LEMMA LegsType == Legs \in [Requests -> SUBSET Orders]
BY ControlAssumption

\* Counting the orders a submission attributes gives a natural number.
LEMMA CountIsNatural ==
    ASSUME NEW S \in SUBSET Orders
    PROVE  Cardinality(S) \in Nat
BY ControlAssumption, FS_Subset, FS_CardinalityType

\* A counter of a session that is increased stays a counter.
LEMMA CounterType ==
    ASSUME NEW S, NEW f \in [S -> Nat], NEW x, NEW n \in Nat
    PROVE  [f EXCEPT ![x] = @ + n] \in [S -> Nat]
<1> DEFINE g == [f EXCEPT ![x] = @ + n]
<1>1. ASSUME NEW y \in S PROVE g[y] \in Nat
  <2>1. CASE x = y  BY <2>1
  <2>2. CASE x # y  BY <2>2
  <2> QED  BY <2>1, <2>2
<1> QED  BY <1>1

\* What a step leaves alone keeps its type.
LEMMA TypesFrame ==
    ASSUME TypeOK,
           UNCHANGED sessionVars \/ SessionTypes',
           UNCHANGED <<orderVars, venue>> \/ OrderTypes',
           UNCHANGED requestVars \/ RequestTypes',
           UNCHANGED tripVars \/ TripTypes',
           UNCHANGED stopVars \/ StopTypes',
           UNCHANGED recVars \/ RecTypes',
           UNCHANGED cancelVars \/ CancelTypes'
    PROVE  TypeOK'
<1>1. SessionTypes'  BY DEF TypeOK, SessionTypes
<1>2. OrderTypes'  BY DEF TypeOK, OrderTypes
<1>3. RequestTypes'  BY DEF TypeOK, RequestTypes
<1>4. TripTypes'  BY DEF TypeOK, TripTypes
<1>5. StopTypes'  BY DEF TypeOK, StopTypes
<1>6. RecTypes'  BY DEF TypeOK, RecTypes
<1>7. CancelTypes'  BY DEF TypeOK, CancelTypes
<1> QED  BY <1>1, <1>2, <1>3, <1>4, <1>5, <1>6, <1>7 DEF TypeOK

\* Clients, operators and the watchdog start calls from well-typed states.
LEMMA CallTypes ==
    ASSUME TypeOK, Call
    PROVE  TypeOK'
<1> USE DEF TypeOK, SessionTypes, OrderTypes, RequestTypes, TripTypes, StopTypes,
            RecTypes, CancelTypes, States, LiveStates, TerminalStates, Tasks
<1>1. ASSUME NEW s \in Sessions, NEW sc \in Policies,
             Attach(s, sc)
      PROVE  TypeOK'
  <2> HIDE DEF TypeOK, OrderTypes, RequestTypes, TripTypes, StopTypes, RecTypes,
               CancelTypes
  <2>1. SessionTypes
    BY DEF TypeOK
  <2>2. SessionTypes'
    BY <1>1, <2>1, ControlAssumption DEF Attach
  <2> QED  BY <1>1, <2>2, TypesFrame DEF Attach
<1>2. ASSUME NEW s \in Sessions, NEW sc \in Policies,
             SetPolicy(s, sc)
      PROVE  TypeOK'
    BY <1>2, ControlAssumption DEF SetPolicy
<1>3. ASSUME NEW s \in Sessions,
             RetireTerminal(s)
      PROVE  TypeOK'
    BY <1>3 DEF RetireTerminal
<1>4. ASSUME NEW s \in Sessions,
             TripCas(s)
      PROVE  TypeOK'
    BY <1>4 DEF TripCas, Transition
<1>5. ASSUME NEW r \in Requests, NEW s \in Sessions,
             Authorize(r, s)
      PROVE  TypeOK'
    BY <1>5, LegsType DEF Authorize
<1>6. ASSUME NEW r \in Requests,
             SubmitUnscoped(r)
      PROVE  TypeOK'
    BY <1>6, LegsType DEF SubmitUnscoped
<1>7. ASSUME NEW t \in Stoppers, NEW s \in Sessions, NEW w \in {"cancel", "keep"},
             StopStart(t, s, w)
      PROVE  TypeOK'
  <2> HIDE DEF TypeOK, SessionTypes, OrderTypes, RequestTypes, TripTypes,
               RecTypes, CancelTypes
  <2>1. StopTypes
    BY DEF TypeOK
  <2>2. StopTypes'
    BY <1>7, <2>1 DEF StopStart, StopGoto
  <2> QED  BY <1>7, <2>2, TypesFrame DEF StopStart
<1>8. ASSUME NEW t \in Reconcilers, NEW s \in Sessions,
             BeginRead(t, s)
      PROVE  TypeOK'
  <2>1. RecTypes'  BY <1>8 DEF BeginRead
  <2> HIDE DEF TypeOK, RecTypes
  <2> QED  BY <1>8, <2>1, TypesFrame DEF BeginRead
<1> HIDE DEF TypeOK
<1> QED  BY <1>1, <1>2, <1>3, <1>4, <1>5, <1>6, <1>7, <1>8 DEF Call

\* The venue moves orders, and the legs of submissions.
LEMMA VenueTypes ==
    ASSUME TypeOK, Venue
    PROVE  TypeOK'
<1> USE DEF TypeOK, SessionTypes, OrderTypes, RequestTypes, TripTypes, StopTypes,
            RecTypes, CancelTypes, States, LiveStates, TerminalStates, Tasks
<1>1. ASSUME NEW r \in Requests, NEW o \in Orders,
             VenueAccept(r, o)
      PROVE  TypeOK'
    BY <1>1 DEF VenueAccept
<1>2. ASSUME NEW r \in Requests, NEW o \in Orders,
             VenueLose(r, o)
      PROVE  TypeOK'
    BY <1>2 DEF VenueLose
<1>3. ASSUME NEW o \in Orders,
             VenueClose(o)
      PROVE  TypeOK'
    BY <1>3 DEF VenueClose
<1> HIDE DEF TypeOK
<1> QED  BY <1>1, <1>2, <1>3 DEF Venue

\* One cancel of a fan-out has its outcome.
LEMMA CancelOutcomeTypes ==
    ASSUME TypeOK, NEW t \in Tasks, CancelOutcome(t)
    PROVE  TypeOK'
<1> USE DEF TypeOK, SessionTypes, OrderTypes, RequestTypes, TripTypes, StopTypes,
            RecTypes, CancelTypes, States, LiveStates, TerminalStates, Tasks
<1>1. ASSUME NEW o \in Orders,
             CancelAcked(t, o)
      PROVE  TypeOK'
    BY <1>1 DEF CancelAcked
<1>2. ASSUME NEW o \in Orders,
             CancelFailed(t, o)
      PROVE  TypeOK'
  <2> HIDE DEF TypeOK, SessionTypes, OrderTypes, RequestTypes, TripTypes,
               StopTypes, RecTypes
  <2>1. CancelTypes
    BY DEF TypeOK
  <2>2. CancelTypes'
    BY <1>2, <2>1 DEF CancelFailed, ReportFailure
  <2> QED  BY <1>2, <2>2, TypesFrame DEF CancelFailed
<1> HIDE DEF TypeOK
<1> QED  BY <1>1, <1>2 DEF CancelOutcome

\* A step of a submission.
LEMMA RequestTypesStep ==
    ASSUME TypeOK, NEW r \in Requests, RequestStep(r)
    PROVE  TypeOK'
<1> USE DEF TypeOK, SessionTypes, OrderTypes, RequestTypes, TripTypes, StopTypes,
            RecTypes, CancelTypes, States, LiveStates, TerminalStates, Tasks
<1>1. CASE AnswerOk(r)
    BY <1>1, LegsType DEF AnswerOk
<1>2. CASE AnswerErr(r)
    BY <1>2 DEF AnswerErr
<1>3. ASSUME NEW found \in SUBSET Orders,
             Recover(r, found)
      PROVE  TypeOK'
    BY <1>3 DEF Recover
<1>4. CASE Record(r)
  <2>1. answered[r] \ Unidentified \in SUBSET Orders
    OBVIOUS
  <2>2. Cardinality(answered[r] \ Unidentified) \in Nat
    BY <2>1, CountIsNatural
  <2>3. OrderTypes'
    <3>1. submitted \in [Sessions -> Nat]
      OBVIOUS
    <3>2. submitted' = [submitted EXCEPT ![sess[r]] =
                          @ + Cardinality(answered[r] \ Unidentified)]
      BY <1>4 DEF Record
    <3>3. submitted' \in [Sessions -> Nat]
      BY <2>2, <3>1, <3>2, CounterType
    <3> QED  BY <1>4, <2>1, <3>3 DEF Record
  <2>4. RequestTypes'
    BY <1>4 DEF Record
  <2>5. SessionTypes' /\ TripTypes' /\ StopTypes' /\ RecTypes' /\ CancelTypes'
    BY <1>4 DEF Record
  <2> QED  BY <2>3, <2>4, <2>5
<1>5. CASE UnwindCheck(r)
    BY <1>5 DEF UnwindCheck
<1>6. CASE UnwindDone(r)
    BY <1>6 DEF UnwindDone
<1> HIDE DEF TypeOK
<1> QED  BY <1>1, <1>2, <1>3, <1>4, <1>5, <1>6 DEF RequestStep

\* A step of a kill switch.
LEMMA TripTypesStep ==
    ASSUME TypeOK, NEW s \in Sessions, TripStep(s)
    PROVE  TypeOK'
<1>0. /\ SessionTypes /\ OrderTypes /\ RequestTypes /\ TripTypes
      /\ StopTypes /\ RecTypes /\ CancelTypes
    BY DEF TypeOK
<1>1. CASE TripPublish(s)
  <2>1. SessionTypes'
    BY <1>0, <1>1 DEF TripPublish, Publish, SessionTypes, States, LiveStates,
       TerminalStates
  <2>2. TripTypes'
    BY <1>0, <1>1 DEF TripPublish, TripTypes
  <2> QED  BY <1>1, <2>1, <2>2, TypesFrame DEF TripPublish
<1>2. CASE TripReadScope(s)
  <2>1. TripTypes'
    BY <1>0, <1>2 DEF TripReadScope, TripTypes, SessionTypes
  <2> QED  BY <1>2, <2>1, TypesFrame DEF TripReadScope
<1>3. CASE TripCollect(s)
  <2>1. TripTypes'
    BY <1>0, <1>3 DEF TripCollect, TripTypes
  <2>2. CancelTypes'
    BY <1>0, <1>3 DEF TripCollect, CancelTypes, Tasks, OrderTypes
  <2> QED  BY <1>3, <2>1, <2>2, TypesFrame DEF TripCollect
<1>4. CASE TripCancelsDone(s)
  <2>1. TripTypes'
    BY <1>0, <1>4 DEF TripCancelsDone, TripTypes
  <2> QED  BY <1>4, <2>1, TypesFrame DEF TripCancelsDone
<1>5. CASE TripCancelAll(s)
  <2>1. OrderTypes'
    BY <1>0, <1>5 DEF TripCancelAll, OrderTypes, Resting
  <2>2. TripTypes'
    BY <1>0, <1>5 DEF TripCancelAll, TripTypes
  <2> QED  BY <1>5, <2>1, <2>2, TypesFrame DEF TripCancelAll
<1>6. CASE TripCancelAllFailed(s)
  <2>1. TripTypes'
    BY <1>0, <1>6 DEF TripCancelAllFailed, TripTypes
  <2>2. CancelTypes'
    BY <1>0, <1>6 DEF TripCancelAllFailed, CancelTypes, Tasks
  <2> QED  BY <1>6, <2>1, <2>2, TypesFrame DEF TripCancelAllFailed
<1> QED  BY <1>1, <1>2, <1>3, <1>4, <1>5, <1>6 DEF TripStep

\* A step of a stop.
LEMMA StopTypesStep ==
    ASSUME TypeOK, NEW t \in Stoppers, StopStep(t)
    PROVE  TypeOK'
<1>0. /\ SessionTypes /\ OrderTypes /\ RequestTypes /\ TripTypes
      /\ StopTypes /\ RecTypes /\ CancelTypes
    BY DEF TypeOK
<1>1. CASE StopCollect(t)
  <2>1. StopTypes'
    BY <1>0, <1>1 DEF StopCollect, StopGoto, StopTypes, States, LiveStates,
       TerminalStates, OrderTypes
  <2>2. CancelTypes'
    BY <1>0, <1>1 DEF StopCollect, CancelTypes, Tasks, OrderTypes, StopTypes
  <2> QED  BY <1>1, <2>1, <2>2, TypesFrame DEF StopCollect
<1>2. CASE StopCancelsDone(t)
  <2>1. StopTypes'
    BY <1>0, <1>2 DEF StopCancelsDone, StopGoto, StopTypes, States, LiveStates,
       TerminalStates
  <2> QED  BY <1>2, <2>1, TypesFrame DEF StopCancelsDone
<1>3. CASE StopReread(t)
  <2>1. StopTypes'
    BY <1>0, <1>3 DEF StopReread, Terminal, StopGoto, StopTypes, States,
       LiveStates, TerminalStates, SessionTypes
  <2> QED  BY <1>3, <2>1, TypesFrame DEF StopReread
<1>4. CASE StopFoundTerminal(t)
  <2>1. StopTypes'
    BY <1>0, <1>4 DEF StopFoundTerminal, StopReturn, StopGoto, StopTypes,
       States, LiveStates, TerminalStates, SessionTypes
  <2> QED  BY <1>4, <2>1, TypesFrame DEF StopFoundTerminal
<1>5. CASE StopCas(t)
  <2>1. SessionTypes'
    BY <1>0, <1>5 DEF StopCas, Transition, SessionTypes, States, LiveStates,
       TerminalStates
  <2>2. StopTypes'
    BY <1>0, <1>5 DEF StopCas, StopGoto, StopTypes, States, LiveStates,
       TerminalStates
  <2> QED  BY <1>5, <2>1, <2>2, TypesFrame DEF StopCas
<1>6. CASE StopLost(t)
  <2>1. StopTypes'
    BY <1>0, <1>6 DEF StopLost, StopReturn, StopGoto, CancelsAnswer, StopTypes,
       States, LiveStates, TerminalStates, SessionTypes
  <2> QED  BY <1>6, <2>1, TypesFrame DEF StopLost
<1>7. CASE StopPublish(t)
  <2>1. SessionTypes'
    BY <1>0, <1>7 DEF StopPublish, Publish, SessionTypes, States, LiveStates,
       TerminalStates, StopTypes
  <2>2. StopTypes'
    BY <1>0, <1>7 DEF StopPublish, StopReturn, StopGoto, CancelsAnswer,
       StopTypes, States, LiveStates, TerminalStates, SessionTypes
  <2> QED  BY <1>7, <2>1, <2>2, TypesFrame DEF StopPublish
<1> QED  BY <1>1, <1>2, <1>3, <1>4, <1>5, <1>6, <1>7 DEF StopStep

\* A step of a reconcile.
LEMMA RecTypesStep ==
    ASSUME TypeOK, NEW t \in Reconcilers, RecStep(t)
    PROVE  TypeOK'
<1>0. SessionTypes /\ RecTypes
    BY DEF TypeOK
<1> USE <1>0 DEF SessionTypes, RecTypes, States, LiveStates, TerminalStates
<1>1. CASE BeginCas(t)
  <2>1. SessionTypes'  BY <1>1 DEF BeginCas, Transition
  <2>2. RecTypes'  BY <1>1 DEF BeginCas, RecGoto
  <2> QED  BY <1>1, <2>1, <2>2, TypesFrame DEF BeginCas
<1>2. CASE BeginLost(t)
  <2>1. SessionTypes'  BY <1>2 DEF BeginLost
  <2>2. RecTypes'  BY <1>2 DEF BeginLost, RecGoto
  <2> QED  BY <1>2, <2>1, <2>2, TypesFrame DEF BeginLost
<1>3. CASE BeginPublish(t)
  <2>1. SessionTypes'  BY <1>3 DEF BeginPublish, Publish
  <2>2. RecTypes'  BY <1>3 DEF BeginPublish, RecGoto
  <2> QED  BY <1>3, <2>1, <2>2, TypesFrame DEF BeginPublish
<1>4. ASSUME NEW ok \in BOOLEAN, SyncState(t, ok)
      PROVE  TypeOK'
  <2>1. SessionTypes'  BY <1>4 DEF SyncState
  <2>2. RecTypes'
    <3>1. CASE RecGoto(t, "complete")
      BY <1>4, <3>1 DEF SyncState, RecGoto
    <3>2. CASE RecReturn(t)
      BY <3>2 DEF RecReturn
    <3> QED  BY <1>4, <3>1, <3>2 DEF SyncState
  <2> QED  BY <1>4, <2>1, <2>2, TypesFrame DEF SyncState
<1>5. CASE CompleteRead(t)
  <2>1. SessionTypes'  BY <1>5 DEF CompleteRead
  <2>2. RecTypes'
    <3>1. CASE RecGoto(t, "completing")
      BY <1>5, <3>1 DEF CompleteRead, RecGoto
    <3>2. CASE RecReturn(t)
      BY <3>2 DEF RecReturn
    <3> QED  BY <1>5, <3>1, <3>2 DEF CompleteRead
  <2> QED  BY <1>5, <2>1, <2>2, TypesFrame DEF CompleteRead
<1>6. CASE CompleteCas(t)
  <2>1. SessionTypes'  BY <1>6 DEF CompleteCas, Transition
  <2>2. RecTypes'  BY <1>6 DEF CompleteCas, RecGoto
  <2> QED  BY <1>6, <2>1, <2>2, TypesFrame DEF CompleteCas
<1>7. CASE CompleteLost(t)
  <2>1. SessionTypes'  BY <1>7 DEF CompleteLost
  <2>2. RecTypes'  BY <1>7 DEF CompleteLost, RecReturn
  <2> QED  BY <1>7, <2>1, <2>2, TypesFrame DEF CompleteLost
<1>8. CASE CompletePublish(t)
  <2>1. SessionTypes'  BY <1>8 DEF CompletePublish, Publish
  <2>2. RecTypes'  BY <1>8 DEF CompletePublish, RecReturn
  <2> QED  BY <1>8, <2>1, <2>2, TypesFrame DEF CompletePublish
<1> QED  BY <1>1, <1>2, <1>3, <1>4, <1>5, <1>6, <1>7, <1>8 DEF RecStep

\* Every step of the control plane keeps the types.
LEMMA TypesStep ==
    ASSUME TypeOK, [Next]_vars
    PROVE  TypeOK'
<1>1. CASE UNCHANGED vars
    BY <1>1 DEF vars, TypeOK, SessionTypes, OrderTypes, RequestTypes, TripTypes,
                StopTypes, RecTypes, CancelTypes
<1> QED  BY <1>1, CallTypes, VenueTypes, CancelOutcomeTypes, RequestTypesStep,
            TripTypesStep, StopTypesStep, RecTypesStep DEF Next

\* TYPES.  The handles, calls and cancel fan-outs of the control plane have
\* their types in every reachable state, for any sets of sessions, calls and
\* orders.
THEOREM TypesHold == Spec => []TypeOK
<1>1. Init => TypeOK
  <2> SUFFICES ASSUME Init PROVE TypeOK
    OBVIOUS
  <2>1. SessionTypes  BY DEF Init, SessionTypes, DefaultScope, Scopes
  <2>2. OrderTypes /\ RequestTypes  BY DEF Init, OrderTypes, RequestTypes
  <2>3. TripTypes /\ RecTypes  BY DEF Init, TripTypes, RecTypes, Scopes
  <2>4. StopTypes  BY DEF Init, StopTypes
  <2>5. CancelTypes  BY DEF Init, CancelTypes
  <2> QED  BY <2>1, <2>2, <2>3, <2>4, <2>5 DEF TypeOK
<1> QED  BY <1>1, TypesStep, PTL DEF Spec

-----------------------------------------------------------------------------
(* The kill switch.                                                        *)

\* Steps that leave submissions, cancels, the venue and the kill switch alone
\* keep the invariant, as long as they never leave KILL_SWITCH_TRIPPED.
LEMMA KillSwitchFrame ==
    ASSUME KillSwitchInv,
           UNCHANGED <<tracked, venue, requestVars, tripVars, cancelVars>>,
           \A s \in Sessions : state[s] = "KillSwitchTripped" => state'[s] = state[s]
    PROVE  KillSwitchInv'
BY DEF KillSwitchInv, TrippedIsFinal, AttributedWasPlaced, RecordedIsTracked,
       UnwindCovers, TripCovers, TripPending, Reachable, Resting

\* The tasks are told apart: a kill switch, a stop and a submission have their
\* own cancel fan-outs.
LEMMA TasksAreDistinct ==
    /\ \A r \in Requests : r \in Tasks /\ r \notin Stoppers /\ r \notin Sessions
    /\ \A t \in Stoppers : t \in Tasks /\ t \notin Requests /\ t \notin Sessions
    /\ \A s \in Sessions : s \in Tasks /\ s \notin Requests /\ s \notin Stoppers
    /\ NoSession \notin Sessions
BY ControlAssumption DEF Tasks

\* What the venue does keeps the invariant: an order that was placed and left
\* the book never rests again.
LEMMA VenueKeeps ==
    ASSUME TypeOK, KillSwitchInv, Venue
    PROVE  KillSwitchInv'
<1> USE DEF KillSwitchInv, TrippedIsFinal, AttributedWasPlaced, RecordedIsTracked,
            UnwindCovers, TripCovers, TripPending, Reachable, Resting, Terminal,
            TerminalStates, TypeOK, SessionTypes, OrderTypes, RequestTypes, TripTypes,
            CancelTypes
<1> USE TasksAreDistinct
<1>1. ASSUME NEW r \in Requests, NEW o \in Orders,
             VenueAccept(r, o)
      PROVE  KillSwitchInv'
    BY <1>1 DEF VenueAccept
<1>2. ASSUME NEW r \in Requests, NEW o \in Orders,
             VenueLose(r, o)
      PROVE  KillSwitchInv'
    BY <1>2 DEF VenueLose
<1>3. ASSUME NEW o \in Orders,
             VenueClose(o)
      PROVE  KillSwitchInv'
    BY <1>3 DEF VenueClose
<1> HIDE DEF KillSwitchInv, TypeOK
<1> QED  BY <1>1, <1>2, <1>3 DEF Venue

\* An outcome of a cancel takes the order off the book or reports it.
LEMMA CancelOutcomeKeeps ==
    ASSUME TypeOK, KillSwitchInv, NEW t \in Tasks, CancelOutcome(t)
    PROVE  KillSwitchInv'
<1> USE DEF KillSwitchInv, TrippedIsFinal, AttributedWasPlaced, RecordedIsTracked,
            UnwindCovers, TripCovers, TripPending, Reachable, Resting, Terminal,
            TerminalStates, TypeOK, SessionTypes, OrderTypes, RequestTypes, TripTypes,
            CancelTypes
<1> USE TasksAreDistinct
<1>1. ASSUME NEW o \in Orders,
             CancelAcked(t, o)
      PROVE  KillSwitchInv'
    BY <1>1 DEF CancelAcked
<1>2. ASSUME NEW o \in Orders,
             CancelFailed(t, o)
      PROVE  KillSwitchInv'
    BY <1>2 DEF CancelFailed, ReportFailure
<1> HIDE DEF KillSwitchInv, TypeOK
<1> QED  BY <1>1, <1>2 DEF CancelOutcome

\* A submission is done either on a live session, whose kill switch has yet to
\* clone the tracked set, or after an unwind that covered all its orders.
LEMMA RequestKeeps ==
    ASSUME TypeOK, KillSwitchInv, NEW r \in Requests, RequestStep(r)
    PROVE  KillSwitchInv'
<1> USE DEF KillSwitchInv, TrippedIsFinal, AttributedWasPlaced, RecordedIsTracked,
            UnwindCovers, TripCovers, TripPending, Reachable, Resting, Terminal,
            TerminalStates, TypeOK, SessionTypes, OrderTypes, RequestTypes, TripTypes,
            CancelTypes
<1> USE TasksAreDistinct
<1>1. CASE AnswerOk(r)
    BY <1>1 DEF AnswerOk
<1>2. CASE AnswerErr(r)
    BY <1>2 DEF AnswerErr
<1>3. ASSUME NEW found \in SUBSET Orders,
             Recover(r, found)
      PROVE  KillSwitchInv'
    BY <1>3 DEF Recover
<1>4. CASE Record(r)
    BY <1>4 DEF Record
<1>5. CASE UnwindCheck(r)
    BY <1>5 DEF UnwindCheck, Late
<1>6. CASE UnwindDone(r)
    BY <1>6 DEF UnwindDone
<1> HIDE DEF KillSwitchInv, TypeOK
<1> QED  BY <1>1, <1>2, <1>3, <1>4, <1>5, <1>6 DEF RequestStep

\* The kill switch clones the tracked set after the submissions that returned on
\* the live session were recorded.
LEMMA TripKeeps ==
    ASSUME TypeOK, KillSwitchInv, NEW s \in Sessions, TripStep(s)
    PROVE  KillSwitchInv'
<1> USE DEF KillSwitchInv, TrippedIsFinal, AttributedWasPlaced, RecordedIsTracked,
            UnwindCovers, TripCovers, TripPending, Reachable, Resting, Terminal,
            TerminalStates, TypeOK, SessionTypes, OrderTypes, RequestTypes, TripTypes,
            CancelTypes
<1> USE TasksAreDistinct
<1>1. CASE TripPublish(s)
    BY <1>1 DEF TripPublish
<1>2. CASE TripReadScope(s)
    BY <1>2 DEF TripReadScope
<1>3. CASE TripCollect(s)
    BY <1>3 DEF TripCollect
<1>4. CASE TripCancelsDone(s)
    BY <1>4 DEF TripCancelsDone
<1>5. CASE TripCancelAll(s)
    BY <1>5 DEF TripCancelAll
<1>6. CASE TripCancelAllFailed(s)
    BY <1>6 DEF TripCancelAllFailed
<1> HIDE DEF KillSwitchInv, TypeOK
<1> QED  BY <1>1, <1>2, <1>3, <1>4, <1>5, <1>6 DEF TripStep

\* A call that starts, a policy change, or the retirement of a session.
LEMMA CallKeeps ==
    ASSUME TypeOK, KillSwitchInv, Call
    PROVE  KillSwitchInv'
<1>1. ASSUME NEW s \in Sessions, TripCas(s)
      PROVE  KillSwitchInv'
    BY <1>1, TasksAreDistinct
       DEF TripCas, Transition, KillSwitchInv, TrippedIsFinal, AttributedWasPlaced,
           RecordedIsTracked, UnwindCovers, TripCovers, TripPending, Reachable,
           Resting, TypeOK, SessionTypes, TripTypes
<1>2. ASSUME NEW r \in Requests, NEW s \in Sessions, Authorize(r, s)
      PROVE  KillSwitchInv'
    BY <1>2 DEF Authorize, KillSwitchInv, TrippedIsFinal, AttributedWasPlaced,
           RecordedIsTracked, UnwindCovers, TripCovers, TripPending, Reachable,
           Resting, TypeOK, RequestTypes
<1>3. ASSUME NEW r \in Requests, SubmitUnscoped(r)
      PROVE  KillSwitchInv'
    BY <1>3 DEF SubmitUnscoped, KillSwitchInv, TrippedIsFinal,
           AttributedWasPlaced, RecordedIsTracked, UnwindCovers, TripCovers,
           TripPending, Reachable, Resting, TypeOK, RequestTypes
<1>4. ASSUME NEW s \in Sessions, NEW sc \in Policies, Attach(s, sc)
      PROVE  KillSwitchInv'
  <2>1. UNCHANGED <<tracked, venue, requestVars, tripVars, cancelVars>>
    BY <1>4 DEF Attach
  <2>2. \A u \in Sessions : state[u] = "KillSwitchTripped" => state'[u] = state[u]
    BY <1>4 DEF Attach, TypeOK, SessionTypes
  <2> QED  BY <2>1, <2>2, KillSwitchFrame
<1>5. ASSUME NEW s \in Sessions, NEW sc \in Policies, SetPolicy(s, sc)
      PROVE  KillSwitchInv'
    BY <1>5, KillSwitchFrame DEF SetPolicy
<1>6. ASSUME NEW s \in Sessions, RetireTerminal(s)
      PROVE  KillSwitchInv'
    BY <1>6, KillSwitchFrame DEF RetireTerminal
<1>7. ASSUME NEW t \in Stoppers, NEW s \in Sessions, NEW w \in {"cancel", "keep"},
             StopStart(t, s, w)
      PROVE  KillSwitchInv'
    BY <1>7, KillSwitchFrame DEF StopStart
<1>8. ASSUME NEW t \in Reconcilers, NEW s \in Sessions, BeginRead(t, s)
      PROVE  KillSwitchInv'
    BY <1>8, KillSwitchFrame DEF BeginRead
<1> QED  BY <1>1, <1>2, <1>3, <1>4, <1>5, <1>6, <1>7, <1>8 DEF Call

\* A stop never leaves a terminal state, because its compare-and-swap expects a
\* live one, and its cancels are its own.
LEMMA StopKeeps ==
    ASSUME TypeOK, KillSwitchInv, NEW t \in Stoppers, StopStep(t)
    PROVE  KillSwitchInv'
<1>1. CASE StopCollect(t)
    BY <1>1, TasksAreDistinct
       DEF StopCollect, KillSwitchInv, TrippedIsFinal, AttributedWasPlaced,
           RecordedIsTracked, UnwindCovers, TripCovers, TripPending, Reachable,
           Resting, TypeOK, CancelTypes
<1>2. CASE StopCas(t)
  <2>1. UNCHANGED <<tracked, venue, requestVars, tripVars, cancelVars>>
    BY <1>2 DEF StopCas
  <2>2. \A u \in Sessions : state[u] = "KillSwitchTripped" => state'[u] = state[u]
    BY <1>2 DEF StopCas, Transition, TypeOK, SessionTypes, StopTypes, LiveStates
  <2> QED  BY <2>1, <2>2, KillSwitchFrame
<1>3. CASE StopCancelsDone(t) \/ StopReread(t) \/ StopFoundTerminal(t)
           \/ StopLost(t) \/ StopPublish(t)
    BY <1>3, KillSwitchFrame
       DEF StopCancelsDone, StopReread, StopFoundTerminal, StopLost, StopPublish
<1> QED  BY <1>1, <1>2, <1>3 DEF StopStep

\* A reconcile never leaves a terminal state either.
LEMMA RecKeeps ==
    ASSUME TypeOK, KillSwitchInv, NEW t \in Reconcilers, RecStep(t)
    PROVE  KillSwitchInv'
<1>1. UNCHANGED <<tracked, venue, requestVars, tripVars, cancelVars>>
    BY DEF RecStep, BeginCas, BeginLost, BeginPublish, SyncState, CompleteRead,
           CompleteCas, CompleteLost, CompletePublish
<1>2. CASE BeginCas(t) \/ CompleteCas(t)
  <2>1. \A u \in Sessions : state[u] = "KillSwitchTripped" => state'[u] = state[u]
    BY <1>2 DEF BeginCas, CompleteCas, Transition, TypeOK, SessionTypes
  <2> QED  BY <1>1, <2>1, KillSwitchFrame
<1>3. CASE UNCHANGED state
    BY <1>1, <1>3, KillSwitchFrame
<1>4. BeginCas(t) \/ CompleteCas(t) \/ UNCHANGED state
    BY DEF RecStep, BeginLost, BeginPublish, SyncState, CompleteRead,
           CompleteLost, CompletePublish
<1> QED  BY <1>2, <1>3, <1>4

\* The invariant behind the kill switch, for any number of sessions, submissions,
\* stops, reconciles and orders: the gate, the tracked set, trip_kill_switch and
\* unwind_late_submissions never lose sight of an order between them.
THEOREM KillSwitchInvHolds == Spec => []KillSwitchInv
<1>1. Init => KillSwitchInv
  <2> SUFFICES ASSUME Init PROVE KillSwitchInv
    OBVIOUS
  <2>1. TrippedIsFinal /\ TripCovers
    BY DEF Init, TrippedIsFinal, TripCovers
  <2>2. AttributedWasPlaced /\ RecordedIsTracked
    BY DEF Init, AttributedWasPlaced, RecordedIsTracked
  <2>3. UnwindCovers
    BY DEF Init, UnwindCovers
  <2>4. TripPending
    BY TasksAreDistinct DEF Init, TripPending, Tasks
  <2> QED  BY <2>1, <2>2, <2>3, <2>4 DEF KillSwitchInv
<1>2. ASSUME TypeOK, KillSwitchInv, [Next]_vars
      PROVE  KillSwitchInv'
  <2>1. CASE UNCHANGED vars
    BY <1>2, <2>1, KillSwitchFrame DEF vars
  <2>2. CASE Next
    BY <1>2, <2>2, CallKeeps, VenueKeeps, CancelOutcomeKeeps, RequestKeeps,
       TripKeeps, StopKeeps, RecKeeps DEF Next
  <2> QED  BY <1>2, <2>1, <2>2
<1> QED  BY <1>1, <1>2, TypesHold, PTL DEF Spec

\* KILL SWITCH.  For any number of sessions, submissions, stops, reconciles and
\* orders: when the kill switch of a session (trip_kill_switch) and a submission
\* of it (create_order, create_orders and unwind_late_submissions) have ended,
\* no order the submission learned of still rests on the venue, unless one of
\* the two reported its cancel as failed.
THEOREM KillSwitchHolds == Spec => []KillSwitchUnwinds
<1>1. KillSwitchInv => KillSwitchUnwinds
    BY DEF KillSwitchInv, TripCovers, TripPending, KillSwitchUnwinds, Resting,
           Reachable
<1> QED  BY <1>1, KillSwitchInvHolds, PTL
=============================================================================
