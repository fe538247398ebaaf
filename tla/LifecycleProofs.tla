-------------------------- MODULE LifecycleProofs --------------------------
(***************************************************************************)
(* SessionControl implements SessionLifecycle, for any number of sessions  *)
(* and of concurrent stops and reconciles.                                 *)
(***************************************************************************)
EXTENDS SessionControlProofs

USE DEF controlVars, sessionVars, orderVars, requestVars, taskVars, tripVars,
        stopVars, recVars, cancelVars, recUnchanged

\* What the lifecycle of a session is made of.
lifeVars == <<state, announced, trip, stop, target, seen, rec, recSess>>

\* The edges the tasks take.
BeginEdge == <<"Attached", "Syncing">>
CompleteEdge == <<"Syncing", "Active">>
TripEdge == <<"Active", "KillSwitchTripped">>
StopEdge(x) == <<x, "GracefulShutdown">>

\* An edge that is published starts at a state the session has left for good.
PublishedBehind ==
    \A s \in Sessions :
        /\ BeginEdge \in announced[s] =>
              state[s] \notin {"None", "Attached"}
        /\ CompleteEdge \in announced[s] =>
              state[s] \notin {"None", "Attached", "Syncing"}
        /\ TripEdge \in announced[s] =>
              state[s] = "KillSwitchTripped"
        /\ \A x \in LiveStates :
              StopEdge(x) \in announced[s] =>
                  state[s] = "GracefulShutdown"

\* So does an edge a task has taken and not published, and nobody has published
\* it in the task's place.
TripOwes ==
    \A s \in Sessions : trip[s] = "publishing" =>
        /\ state[s] = "KillSwitchTripped"
        /\ TripEdge \notin announced[s]

StopOwes ==
    \A t \in Stoppers : stop[t] = "publishing" =>
        /\ state[target[t]] = "GracefulShutdown"
        /\ \A x \in LiveStates :
              StopEdge(x) \notin announced[target[t]]

BeginOwes ==
    \A t \in Reconcilers : rec[t] = "beginPublish" =>
        /\ state[recSess[t]] \notin {"None", "Attached"}
        /\ BeginEdge \notin announced[recSess[t]]

CompleteOwes ==
    \A t \in Reconcilers : rec[t] = "completePublish" =>
        /\ state[recSess[t]] \notin {"None", "Attached", "Syncing"}
        /\ CompleteEdge \notin announced[recSess[t]]

\* An edge of a session is owed by one task only.
OneOwner ==
    /\ \A t, u \in Stoppers :
          stop[t] = "publishing" /\ stop[u] = "publishing"
            /\ target[t] = target[u] => t = u
    /\ \A t, u \in Reconcilers, pc \in {"beginPublish", "completePublish"} :
          rec[t] = pc /\ rec[u] = pc /\ recSess[t] = recSess[u] => t = u

\* A stop tries to swap, and publishes, a state it found live.
SeenLive ==
    \A t \in Stoppers :
        stop[t] \in {"swapping", "publishing"} => seen[t] \in LiveStates

LifecycleInv ==
    /\ PublishedBehind /\ TripOwes /\ StopOwes /\ BeginOwes /\ CompleteOwes
    /\ OneOwner /\ SeenLive
\* The registry, and every stop that is under way, knows issued sessions only.
Issued ==
    /\ \A s \in registry : state[s] # "None"
    /\ \A t \in Stoppers : stop[t] # "idle" => state[target[t]] # "None"

\* A call that is under way has its session.
TasksHaveSessions ==
    /\ \A t \in Stoppers : stop[t] # "idle" => target[t] \in Sessions
    /\ \A t \in Reconcilers : rec[t] # "idle" => recSess[t] \in Sessions

\* The part of TypeOK the lifecycle needs.
LifecycleTypes ==
    /\ state \in [Sessions -> States \cup {"None"}]
    /\ DOMAIN announced = Sessions
    /\ registry \subseteq Sessions
    /\ DOMAIN trip = Sessions
    /\ DOMAIN stop = Stoppers /\ DOMAIN target = Stoppers
    /\ DOMAIN seen = Stoppers
    /\ DOMAIN rec = Reconcilers /\ DOMAIN recSess = Reconcilers
    /\ TasksHaveSessions

\* A step that neither takes nor publishes an edge.
Quiet ==
    /\ UNCHANGED <<state, announced>>
    /\ \A s \in Sessions :
          (trip'[s] = "publishing") <=> (trip[s] = "publishing")
    /\ \A t \in Stoppers :
          /\ (stop'[t] = "publishing") <=> (stop[t] = "publishing")
          /\ stop[t] = "publishing" =>
                target'[t] = target[t] /\ seen'[t] = seen[t]
          /\ stop'[t] = "swapping" => seen'[t] \in LiveStates
    /\ \A t \in Reconcilers :
          /\ (rec'[t] = "beginPublish") <=> (rec[t] = "beginPublish")
          /\ (rec'[t] = "completePublish") <=> (rec[t] = "completePublish")
          /\ rec[t] \in {"beginPublish", "completePublish"} =>
                recSess'[t] = recSess[t]

\* A task takes the edge from one state of s to another, or publishes edge e.
Swaps(s, from, to) ==
    /\ s \in Sessions /\ state[s] = from /\ state'[s] = to
    /\ \A u \in Sessions : u # s => state'[u] = state[u]
    /\ announced' = announced

Publishes(s, e) ==
    /\ s \in Sessions /\ state' = state
    /\ \A x : x \in announced'[s] <=> x \in announced[s] \/ x = e
    /\ \A u \in Sessions : u # s => announced'[u] = announced[u]

\* The kill switch of s begins to owe its edge, or owes it no longer.
TripBegins(s) ==
    /\ trip'[s] = "publishing"
    /\ \A u \in Sessions : u # s => trip'[u] = trip[u]
    /\ UNCHANGED <<stop, target, seen, rec, recSess>>

TripEnds(s) ==
    /\ trip[s] = "publishing" /\ trip'[s] # "publishing"
    /\ \A u \in Sessions : u # s => trip'[u] = trip[u]
    /\ UNCHANGED <<stop, target, seen, rec, recSess>>

\* So does stop t, ...
StopBegins(t) ==
    /\ stop[t] = "swapping" /\ stop'[t] = "publishing"
    /\ \A u \in Stoppers : u # t => stop'[u] = stop[u]
    /\ UNCHANGED <<trip, target, seen, rec, recSess>>

StopEnds(t) ==
    /\ stop[t] = "publishing" /\ stop'[t] = "done"
    /\ \A u \in Stoppers : u # t => stop'[u] = stop[u]
    /\ UNCHANGED <<trip, target, seen, rec, recSess>>

\* ... and reconcile t, on its way from one point to another.
RecTurns(t, from, to) ==
    /\ rec[t] = from /\ rec'[t] = to
    /\ \A u \in Reconcilers :
          u # t => rec'[u] = rec[u] /\ recSess'[u] = recSess[u]
    /\ to # "idle" => recSess'[t] = recSess[t]
    /\ UNCHANGED <<trip, stop, target, seen>>

-----------------------------------------------------------------------------
(* The invariant.                                                          *)

\* The edges are told apart.
LEMMA EdgesDiffer ==
    /\ BeginEdge # CompleteEdge /\ BeginEdge # TripEdge
    /\ CompleteEdge # TripEdge
    /\ \A x : /\ StopEdge(x) # BeginEdge /\ StopEdge(x) # CompleteEdge
              /\ StopEdge(x) # TripEdge
    /\ \A x, y : StopEdge(x) = StopEdge(y) => x = y
BY DEF BeginEdge, CompleteEdge, TripEdge, StopEdge

\* Nothing is taken, owed or published at first.
LEMMA LifecycleInit == Init => LifecycleInv
BY DEF Init, LifecycleInv, PublishedBehind, TripOwes, StopOwes, BeginOwes,
       CompleteOwes, OneOwner, SeenLive, LiveStates

\* A step that leaves the lifecycle alone keeps the invariant.
LEMMA LifecycleFrame ==
    ASSUME LifecycleInv, UNCHANGED lifeVars
    PROVE  LifecycleInv'
BY DEF lifeVars, LifecycleInv, PublishedBehind, TripOwes, StopOwes, BeginOwes,
       CompleteOwes, OneOwner, SeenLive

\* The venue leaves the lifecycle alone.
LEMMA VenueAside == Venue => UNCHANGED lifeVars
BY DEF Venue, VenueAccept, VenueLose, VenueClose, lifeVars

\* The outcome of a cancel leaves it alone.
LEMMA CancelAside ==
    ASSUME NEW t, CancelOutcome(t)
    PROVE  UNCHANGED lifeVars
BY DEF CancelOutcome, CancelAcked, CancelFailed, lifeVars

\* A submission leaves it alone.
LEMMA RequestAside ==
    ASSUME NEW r, RequestStep(r)
    PROVE  UNCHANGED lifeVars
BY DEF RequestStep, AnswerOk, AnswerErr, Recover, Record, UnwindCheck,
       UnwindDone, lifeVars

\* So do the calls that neither attach a session nor start a task.
LEMMA CallAside ==
    ASSUME Call
    PROVE  \/ \E s \in Sessions, sc \in Policies : Attach(s, sc)
           \/ \E s \in Sessions : TripCas(s)
           \/ \E t \in Stoppers, s \in Sessions, w \in {"cancel", "keep"} :
                 StopStart(t, s, w)
           \/ \E t \in Reconcilers, s \in Sessions : BeginRead(t, s)
           \/ UNCHANGED lifeVars
BY DEF Call, SetPolicy, RetireTerminal, Authorize, SubmitUnscoped, lifeVars

\* A quiet step keeps the invariant.
LEMMA QuietLife ==
    ASSUME LifecycleInv, Quiet
    PROVE  LifecycleInv'
<1> USE DEF LifecycleInv, Quiet
<1>1. PublishedBehind'  BY DEF PublishedBehind
<1>2. TripOwes'  BY DEF TripOwes
<1>3. StopOwes'  BY DEF StopOwes
<1>4. BeginOwes'  BY DEF BeginOwes
<1>5. CompleteOwes'  BY DEF CompleteOwes
<1>6. OneOwner'  BY DEF OneOwner
<1>7. SeenLive'  BY DEF SeenLive
<1> QED  BY <1>1, <1>2, <1>3, <1>4, <1>5, <1>6, <1>7

\* TypeOK is more than is needed here.
LEMMA LifecycleTyped == TypeOK => LifecycleTypes
BY DEF TypeOK, SessionTypes, TripTypes, StopTypes, RecTypes, LifecycleTypes,
       TasksHaveSessions

\* A session is issued before the registry or a stop knows it, and no step takes
\* an issued session back.
LEMMA IssuedStep ==
    ASSUME LifecycleTypes, Issued, [Next]_vars
    PROVE  Issued'
<1> USE DEF LifecycleTypes, TasksHaveSessions, Issued
<1>1. ASSUME UNCHANGED <<state, registry, stop, target>>
      PROVE  Issued'
    BY <1>1
<1>2. ASSUME Call
      PROVE  Issued'
  <2>1. ASSUME NEW s \in Sessions, NEW sc \in Policies, Attach(s, sc)
        PROVE  Issued'
      BY <2>1 DEF Attach
  <2>2. ASSUME NEW s \in Sessions, RetireTerminal(s)
        PROVE  Issued'
      BY <2>2 DEF RetireTerminal
  <2>3. ASSUME NEW s \in Sessions, TripCas(s)
        PROVE  Issued'
      BY <2>3 DEF TripCas, Transition
  <2>4. ASSUME NEW t \in Stoppers, NEW s \in Sessions,
               NEW w \in {"cancel", "keep"}, StopStart(t, s, w)
        PROVE  Issued'
      BY <2>4 DEF StopStart, StopGoto
  <2> HIDE DEF Issued
  <2> QED  BY <1>1, <1>2, <2>1, <2>2, <2>3, <2>4
           DEF Call, SetPolicy, Authorize, SubmitUnscoped, BeginRead
<1>3. ASSUME NEW t \in Stoppers, StopStep(t)
      PROVE  Issued'
  <2>1. CASE StopCas(t)
    BY <2>1 DEF StopCas, StopGoto, Transition, TasksHaveSessions
  <2>2. CASE UNCHANGED <<state, registry, target>>
    <3>1. \A u \in Stoppers : stop'[u] # "idle" => stop[u] # "idle"
      BY <1>3 DEF StopStep, StopCollect, StopCancelsDone, StopReread,
         StopFoundTerminal, StopCas, StopLost, StopPublish, StopReturn, StopGoto
    <3> QED  BY <2>2, <3>1
  <2>3. StopCas(t) \/ UNCHANGED <<state, registry, target>>
    BY <1>3 DEF StopStep, StopCollect, StopCancelsDone, StopReread,
       StopFoundTerminal, StopLost, StopPublish, StopReturn
  <2> QED  BY <2>1, <2>2, <2>3
<1>4. ASSUME NEW t \in Reconcilers, RecStep(t)
      PROVE  Issued'
  <2>1. CASE BeginCas(t) \/ CompleteCas(t)
    <3>1. /\ UNCHANGED <<registry, stop, target>>
          /\ \A s \in Sessions : state[s] # "None" => state'[s] # "None"
      BY <2>1 DEF BeginCas, CompleteCas, Transition
    <3> QED  BY <3>1
  <2>2. BeginCas(t) \/ CompleteCas(t)
        \/ UNCHANGED <<state, registry, stop, target>>
    BY <1>4 DEF RecStep, BeginLost, BeginPublish, SyncState, CompleteRead,
       CompleteLost, CompletePublish
  <2> QED  BY <1>1, <2>1, <2>2
<1>5. ASSUME NEW s \in Sessions, TripStep(s)
      PROVE  UNCHANGED <<state, registry, stop, target>>
    BY <1>5 DEF TripStep, TripPublish, TripReadScope, TripCollect,
       TripCancelsDone, TripCancelAll, TripCancelAllFailed
<1>6. Venue => UNCHANGED <<state, registry, stop, target>>
    BY DEF Venue, VenueAccept, VenueLose, VenueClose
<1>7. ASSUME NEW t, CancelOutcome(t)
      PROVE  UNCHANGED <<state, registry, stop, target>>
    BY <1>7 DEF CancelOutcome, CancelAcked, CancelFailed
<1>8. ASSUME NEW r, RequestStep(r)
      PROVE  UNCHANGED <<state, registry, stop, target>>
    BY <1>8 DEF RequestStep, AnswerOk, AnswerErr, Recover, Record, UnwindCheck,
       UnwindDone
<1>9. UNCHANGED vars => UNCHANGED <<state, registry, stop, target>>
    BY DEF vars
<1> HIDE DEF Issued
<1> QED  BY <1>1, <1>2, <1>3, <1>4, <1>5, <1>6, <1>7, <1>8, <1>9 DEF Next

\* The steps of a kill switch after it published.
LEMMA TripQuiet ==
    ASSUME LifecycleTypes, LifecycleInv, NEW s \in Sessions,
           \/ TripReadScope(s) \/ TripCollect(s) \/ TripCancelsDone(s)
           \/ TripCancelAll(s) \/ TripCancelAllFailed(s)
    PROVE  Quiet
<1> USE DEF LifecycleTypes, TasksHaveSessions, LifecycleInv, SeenLive,
           Quiet, LiveStates
<1>1. CASE TripReadScope(s)
    BY <1>1 DEF TripReadScope
<1>2. CASE TripCollect(s)
    BY <1>2 DEF TripCollect
<1>3. CASE TripCancelsDone(s)
    BY <1>3 DEF TripCancelsDone
<1>4. CASE TripCancelAll(s)
    BY <1>4 DEF TripCancelAll
<1>5. CASE TripCancelAllFailed(s)
    BY <1>5 DEF TripCancelAllFailed
<1> QED  BY <1>1, <1>2, <1>3, <1>4, <1>5

\* The steps of a stop up to its swap, and a swap that is lost.
LEMMA StopQuiet ==
    ASSUME LifecycleTypes, LifecycleInv, Issued, NEW t \in Stoppers,
           \/ StopCollect(t) \/ StopCancelsDone(t) \/ StopReread(t)
           \/ StopFoundTerminal(t) \/ StopLost(t)
           \/ \E s \in Sessions, w \in {"cancel", "keep"} : StopStart(t, s, w)
    PROVE  Quiet
<1> USE DEF LifecycleTypes, TasksHaveSessions, LifecycleInv, SeenLive,
           Quiet, LiveStates
<1>1. CASE StopCollect(t)
    BY <1>1 DEF StopCollect, StopGoto
<1>2. CASE StopCancelsDone(t)
    BY <1>2 DEF StopCancelsDone, StopGoto
<1>3. CASE StopReread(t)
  <2>1. state[target[t]] \in LiveStates
    BY <1>3 DEF StopReread, Terminal, States, TerminalStates, Issued
  <2> QED  BY <1>3, <2>1 DEF StopReread, StopGoto
<1>4. CASE StopFoundTerminal(t)
    BY <1>4 DEF StopFoundTerminal, StopReturn, StopGoto
<1>5. CASE StopLost(t)
    BY <1>5 DEF StopLost, StopReturn, StopGoto
<1>6. ASSUME NEW s \in Sessions, NEW w \in {"cancel", "keep"},
             StopStart(t, s, w)
      PROVE  Quiet
    BY <1>6 DEF StopStart, StopGoto
<1> QED  BY <1>1, <1>2, <1>3, <1>4, <1>5, <1>6

\* The steps of a reconcile other than its swaps and what follows them.
LEMMA RecQuiet ==
    ASSUME LifecycleTypes, LifecycleInv, NEW t \in Reconcilers,
           \/ BeginLost(t) \/ CompleteRead(t) \/ CompleteLost(t)
           \/ \E ok \in BOOLEAN : SyncState(t, ok)
           \/ \E s \in Sessions : BeginRead(t, s)
    PROVE  Quiet
<1> USE DEF LifecycleTypes, TasksHaveSessions, LifecycleInv, SeenLive,
           Quiet, LiveStates
<1>1. CASE BeginLost(t)
    BY <1>1 DEF BeginLost, RecGoto
<1>2. CASE CompleteRead(t)
    BY <1>2 DEF CompleteRead, RecGoto, RecReturn
<1>3. CASE CompleteLost(t)
    BY <1>3 DEF CompleteLost, RecReturn
<1>4. ASSUME NEW ok \in BOOLEAN, SyncState(t, ok)
      PROVE  Quiet
    BY <1>4 DEF SyncState, RecGoto, RecReturn
<1>5. ASSUME NEW s \in Sessions, BeginRead(t, s)
      PROVE  Quiet
    BY <1>5 DEF BeginRead
<1> QED  BY <1>1, <1>2, <1>3, <1>4, <1>5

\* AttachSession starts a lifecycle.
LEMMA AttachLife ==
    ASSUME LifecycleTypes, LifecycleInv, NEW s \in Sessions,
           NEW sc \in Policies, Attach(s, sc)
    PROVE  LifecycleInv'
<1> USE DEF LifecycleTypes, LifecycleInv, LiveStates, Attach
<1>1. PublishedBehind'
    BY DEF PublishedBehind, TripOwes, StopOwes, BeginOwes, CompleteOwes,
           SeenLive
<1>2. TripOwes'  BY DEF TripOwes, PublishedBehind, SeenLive
<1>3. StopOwes'  BY DEF StopOwes, PublishedBehind, SeenLive, OneOwner
<1>4. BeginOwes'  BY DEF BeginOwes, PublishedBehind, OneOwner, SeenLive
<1>5. CompleteOwes'  BY DEF CompleteOwes, PublishedBehind, OneOwner, SeenLive
<1>6. OneOwner'
    BY DEF OneOwner, StopOwes, BeginOwes, CompleteOwes
<1>7. SeenLive'  BY DEF SeenLive
<1> QED  BY <1>1, <1>2, <1>3, <1>4, <1>5, <1>6, <1>7

\* The kill switch takes its edge: what changes.
LEMMA TripCasEffect ==
    ASSUME LifecycleTypes, NEW s \in Sessions, TripCas(s)
    PROVE  Swaps(s, "Active", "KillSwitchTripped") /\ TripBegins(s)
<1>1. Swaps(s, "Active", "KillSwitchTripped")
    BY DEF TripCas, Transition, LifecycleTypes, TasksHaveSessions, Swaps
<1>2. TripBegins(s)
    BY DEF TripCas, Transition, LifecycleTypes, TasksHaveSessions, TripBegins
<1> QED  BY <1>1, <1>2

\* The kill switch takes its edge and keeps the invariant.
LEMMA TripCasLife ==
    ASSUME LifecycleTypes, LifecycleInv, NEW s \in Sessions, TripCas(s)
    PROVE  LifecycleInv'
<1>0. /\ Swaps(s, "Active", "KillSwitchTripped")
      /\ TripBegins(s)
      /\ TasksHaveSessions
    BY TripCasEffect DEF LifecycleTypes
<1> USE <1>0 DEF LifecycleInv, TasksHaveSessions, Swaps, TripBegins,
             LiveStates
<1>1. PublishedBehind'  BY DEF PublishedBehind
<1>2. TripOwes'  BY DEF TripOwes, PublishedBehind
<1>3. StopOwes'  BY DEF StopOwes
<1>4. BeginOwes'  BY DEF BeginOwes
<1>5. CompleteOwes'  BY DEF CompleteOwes
<1>6. OneOwner'  BY DEF OneOwner
<1>7. SeenLive'  BY DEF SeenLive
<1> QED  BY <1>1, <1>2, <1>3, <1>4, <1>5, <1>6, <1>7

\* A stop takes its edge: what changes.
LEMMA StopCasEffect ==
    ASSUME LifecycleTypes, NEW t \in Stoppers, StopCas(t)
    PROVE  Swaps(target[t], seen[t], "GracefulShutdown") /\ StopBegins(t)
<1>1. Swaps(target[t], seen[t], "GracefulShutdown")
    BY DEF StopCas, Transition, StopGoto, LifecycleTypes, TasksHaveSessions,
           Swaps
<1>2. StopBegins(t)
    BY DEF StopCas, Transition, StopGoto, LifecycleTypes, TasksHaveSessions,
           StopBegins
<1> QED  BY <1>1, <1>2

\* A stop takes its edge and keeps the invariant.
LEMMA StopCasLife ==
    ASSUME LifecycleTypes, LifecycleInv, NEW t \in Stoppers, StopCas(t)
    PROVE  LifecycleInv'
<1>0. /\ Swaps(target[t], seen[t], "GracefulShutdown")
      /\ StopBegins(t)
      /\ TasksHaveSessions
    BY StopCasEffect DEF LifecycleTypes
<1> USE <1>0 DEF LifecycleInv, TasksHaveSessions, Swaps, StopBegins,
             LiveStates
<1>1. PublishedBehind'  BY DEF PublishedBehind, SeenLive
<1>2. TripOwes'  BY DEF TripOwes, SeenLive
<1>3. StopOwes'
  <2>1. \A x \in LiveStates : StopEdge(x) \notin announced'[target'[t]]
    BY DEF PublishedBehind, SeenLive
  <2>2. ASSUME NEW u \in Stoppers, stop'[u] = "publishing", u # t
        PROVE  /\ state'[target'[u]] = "GracefulShutdown"
               /\ \A x \in LiveStates :
                     StopEdge(x) \notin announced'[target'[u]]
    BY <2>2 DEF StopOwes, SeenLive
  <2> QED  BY <2>1, <2>2 DEF StopOwes
<1>4. BeginOwes'  BY DEF BeginOwes, SeenLive
<1>5. CompleteOwes'  BY DEF CompleteOwes, SeenLive
<1>6. OneOwner'  BY DEF OneOwner, StopOwes, SeenLive
<1>7. SeenLive'  BY DEF SeenLive
<1> QED  BY <1>1, <1>2, <1>3, <1>4, <1>5, <1>6, <1>7

\* begin_reconcile takes its edge: what changes.
LEMMA BeginCasEffect ==
    ASSUME LifecycleTypes, NEW t \in Reconcilers, BeginCas(t)
    PROVE  /\ Swaps(recSess[t], "Attached", "Syncing")
           /\ RecTurns(t, "beginning", "beginPublish")
<1>1. Swaps(recSess[t], "Attached", "Syncing")
    BY DEF BeginCas, Transition, RecGoto, LifecycleTypes, TasksHaveSessions,
           Swaps
<1>2. RecTurns(t, "beginning", "beginPublish")
    BY DEF BeginCas, Transition, RecGoto, LifecycleTypes, TasksHaveSessions,
           RecTurns
<1> QED  BY <1>1, <1>2

\* begin_reconcile takes its edge and keeps the invariant.
LEMMA BeginCasLife ==
    ASSUME LifecycleTypes, LifecycleInv, NEW t \in Reconcilers, BeginCas(t)
    PROVE  LifecycleInv'
<1>0. /\ Swaps(recSess[t], "Attached", "Syncing")
      /\ RecTurns(t, "beginning", "beginPublish")
      /\ TasksHaveSessions
    BY BeginCasEffect DEF LifecycleTypes
<1> USE <1>0 DEF LifecycleInv, TasksHaveSessions, Swaps, RecTurns,
             LiveStates
<1>1. PublishedBehind'  BY DEF PublishedBehind
<1>2. TripOwes'  BY DEF TripOwes
<1>3. StopOwes'  BY DEF StopOwes
<1>4. BeginOwes'
  <2>1. BeginEdge \notin announced'[recSess'[t]]
    BY DEF PublishedBehind
  <2>2. ASSUME NEW u \in Reconcilers, rec'[u] = "beginPublish", u # t
        PROVE  /\ state'[recSess'[u]] \notin {"None", "Attached"}
               /\ BeginEdge \notin announced'[recSess'[u]]
    BY <2>2 DEF BeginOwes
  <2> QED  BY <2>1, <2>2 DEF BeginOwes
<1>5. CompleteOwes'  BY DEF CompleteOwes
<1>6. OneOwner'
  <2>1. ASSUME NEW u \in Reconcilers, rec[u] = "beginPublish"
        PROVE  recSess[u] # recSess[t]
    BY <2>1 DEF BeginOwes
  <2>2. ASSUME NEW u \in Reconcilers, NEW v \in Reconcilers,
               NEW pc \in {"beginPublish", "completePublish"},
               rec'[u] = pc, rec'[v] = pc, recSess'[u] = recSess'[v]
        PROVE  u = v
    BY <2>1, <2>2 DEF OneOwner
  <2>3. stop' = stop /\ target' = target
    BY <1>0
  <2> HIDE <1>0
  <2> QED  BY <2>2, <2>3 DEF OneOwner
<1>7. SeenLive'  BY DEF SeenLive
<1> QED  BY <1>1, <1>2, <1>3, <1>4, <1>5, <1>6, <1>7

\* complete_reconcile takes its edge: what changes.
LEMMA CompleteCasEffect ==
    ASSUME LifecycleTypes, NEW t \in Reconcilers, CompleteCas(t)
    PROVE  /\ Swaps(recSess[t], "Syncing", "Active")
           /\ RecTurns(t, "completing", "completePublish")
<1>1. Swaps(recSess[t], "Syncing", "Active")
    BY DEF CompleteCas, Transition, RecGoto, LifecycleTypes, TasksHaveSessions,
           Swaps
<1>2. RecTurns(t, "completing", "completePublish")
    BY DEF CompleteCas, Transition, RecGoto, LifecycleTypes, TasksHaveSessions,
           RecTurns
<1> QED  BY <1>1, <1>2

\* complete_reconcile takes its edge and keeps the invariant.
LEMMA CompleteCasLife ==
    ASSUME LifecycleTypes, LifecycleInv, NEW t \in Reconcilers, CompleteCas(t)
    PROVE  LifecycleInv'
<1>0. /\ Swaps(recSess[t], "Syncing", "Active")
      /\ RecTurns(t, "completing", "completePublish")
      /\ TasksHaveSessions
    BY CompleteCasEffect DEF LifecycleTypes
<1> USE <1>0 DEF LifecycleInv, TasksHaveSessions, Swaps, RecTurns,
             LiveStates
<1>1. PublishedBehind'  BY DEF PublishedBehind
<1>2. TripOwes'  BY DEF TripOwes
<1>3. StopOwes'  BY DEF StopOwes
<1>4. BeginOwes'  BY DEF BeginOwes
<1>5. CompleteOwes'
  <2>1. CompleteEdge \notin announced'[recSess'[t]]
    BY DEF PublishedBehind
  <2>2. ASSUME NEW u \in Reconcilers, rec'[u] = "completePublish", u # t
        PROVE  /\ state'[recSess'[u]] \notin {"None", "Attached", "Syncing"}
               /\ CompleteEdge \notin announced'[recSess'[u]]
    BY <2>2 DEF CompleteOwes
  <2> QED  BY <2>1, <2>2 DEF CompleteOwes
<1>6. OneOwner'
  <2>1. ASSUME NEW u \in Reconcilers, rec[u] = "completePublish"
        PROVE  recSess[u] # recSess[t]
    BY <2>1 DEF CompleteOwes
  <2>2. ASSUME NEW u \in Reconcilers, NEW v \in Reconcilers,
               NEW pc \in {"beginPublish", "completePublish"},
               rec'[u] = pc, rec'[v] = pc, recSess'[u] = recSess'[v]
        PROVE  u = v
    BY <2>1, <2>2 DEF OneOwner
  <2>3. stop' = stop /\ target' = target
    BY <1>0
  <2> HIDE <1>0
  <2> QED  BY <2>2, <2>3 DEF OneOwner
<1>7. SeenLive'  BY DEF SeenLive
<1> QED  BY <1>1, <1>2, <1>3, <1>4, <1>5, <1>6, <1>7

\* The kill switch publishes its edge: what changes.
LEMMA TripPublishEffect ==
    ASSUME LifecycleTypes, NEW s \in Sessions, TripPublish(s)
    PROVE  Publishes(s, TripEdge) /\ TripEnds(s)
<1>1. Publishes(s, TripEdge)
    BY DEF TripPublish, TripEdge, Publish, LifecycleTypes, TasksHaveSessions,
           Publishes
<1>2. TripEnds(s)
    BY DEF TripPublish, Publish, LifecycleTypes, TasksHaveSessions, TripEnds
<1> QED  BY <1>1, <1>2

\* The kill switch publishes its edge and keeps the invariant.
LEMMA TripPublishLife ==
    ASSUME LifecycleTypes, LifecycleInv, NEW s \in Sessions, TripPublish(s)
    PROVE  LifecycleInv'
<1>0. /\ Publishes(s, TripEdge)
      /\ TripEnds(s)
      /\ TasksHaveSessions
    BY TripPublishEffect DEF LifecycleTypes
<1> USE <1>0, EdgesDiffer
    DEF LifecycleInv, TasksHaveSessions, Publishes, TripEnds,
             LiveStates
<1>1. PublishedBehind'  BY DEF PublishedBehind, TripOwes
<1>2. TripOwes'  BY DEF TripOwes, OneOwner
<1>3. StopOwes'  BY DEF StopOwes
<1>4. BeginOwes'  BY DEF BeginOwes
<1>5. CompleteOwes'  BY DEF CompleteOwes
<1>6. OneOwner'  BY DEF OneOwner
<1>7. SeenLive'  BY DEF SeenLive
<1> QED  BY <1>1, <1>2, <1>3, <1>4, <1>5, <1>6, <1>7

\* A stop publishes its edge: what changes.
LEMMA StopPublishEffect ==
    ASSUME LifecycleTypes, NEW t \in Stoppers, StopPublish(t)
    PROVE  Publishes(target[t], StopEdge(seen[t])) /\ StopEnds(t)
<1>1. Publishes(target[t], StopEdge(seen[t]))
    BY DEF StopPublish, StopEdge, Publish, StopReturn, StopGoto,
           LifecycleTypes, TasksHaveSessions, Publishes
<1>2. StopEnds(t)
    BY DEF StopPublish, Publish, StopReturn, StopGoto, LifecycleTypes,
           TasksHaveSessions, StopEnds
<1> QED  BY <1>1, <1>2

\* A stop publishes its edge and keeps the invariant.
LEMMA StopPublishLife ==
    ASSUME LifecycleTypes, LifecycleInv, NEW t \in Stoppers, StopPublish(t)
    PROVE  LifecycleInv'
<1>0. /\ Publishes(target[t], StopEdge(seen[t]))
      /\ StopEnds(t)
      /\ TasksHaveSessions
    BY StopPublishEffect DEF LifecycleTypes
<1> USE <1>0, EdgesDiffer
    DEF LifecycleInv, TasksHaveSessions, Publishes, StopEnds,
             LiveStates
<1>1. PublishedBehind'
    BY DEF PublishedBehind, SeenLive, StopOwes
<1>2. TripOwes'  BY DEF TripOwes, SeenLive
<1>3. StopOwes'
  <2>1. ASSUME NEW u \in Stoppers, stop'[u] = "publishing"
        PROVE  u # t /\ stop[u] = "publishing" /\ target'[u] = target[u]
    BY <2>1
  <2>2. ASSUME NEW u \in Stoppers, stop'[u] = "publishing"
        PROVE  target[u] \in Sessions /\ target[u] # target[t]
    BY <2>1, <2>2 DEF OneOwner
  <2>3. ASSUME NEW u \in Stoppers, stop'[u] = "publishing"
        PROVE  /\ state'[target[u]] = "GracefulShutdown"
               /\ announced'[target[u]] = announced[target[u]]
    BY <2>1, <2>2, <2>3 DEF StopOwes
  <2> QED  BY <2>1, <2>3 DEF StopOwes
<1>4. BeginOwes'  BY DEF BeginOwes, SeenLive
<1>5. CompleteOwes'  BY DEF CompleteOwes, SeenLive
<1>6. OneOwner'  BY DEF OneOwner
<1>7. SeenLive'  BY DEF SeenLive
<1> QED  BY <1>1, <1>2, <1>3, <1>4, <1>5, <1>6, <1>7

\* begin_reconcile publishes its edge: what changes.
LEMMA BeginPublishEffect ==
    ASSUME LifecycleTypes, NEW t \in Reconcilers, BeginPublish(t)
    PROVE  /\ Publishes(recSess[t], BeginEdge)
           /\ RecTurns(t, "beginPublish", "snapshot")
<1>1. Publishes(recSess[t], BeginEdge)
    BY DEF BeginPublish, BeginEdge, Publish, RecGoto, LifecycleTypes,
           TasksHaveSessions, Publishes
<1>2. RecTurns(t, "beginPublish", "snapshot")
    BY DEF BeginPublish, Publish, RecGoto, LifecycleTypes, TasksHaveSessions,
           RecTurns
<1> QED  BY <1>1, <1>2

\* begin_reconcile publishes its edge and keeps the invariant.
LEMMA BeginPublishLife ==
    ASSUME LifecycleTypes, LifecycleInv, NEW t \in Reconcilers, BeginPublish(t)
    PROVE  LifecycleInv'
<1>0. /\ Publishes(recSess[t], BeginEdge)
      /\ RecTurns(t, "beginPublish", "snapshot")
      /\ TasksHaveSessions
    BY BeginPublishEffect DEF LifecycleTypes
<1> USE <1>0, EdgesDiffer
    DEF LifecycleInv, TasksHaveSessions, Publishes, RecTurns,
             LiveStates
<1>1. PublishedBehind'  BY DEF PublishedBehind, BeginOwes
<1>2. TripOwes'  BY DEF TripOwes
<1>3. StopOwes'  BY DEF StopOwes
<1>4. BeginOwes'
  <2>1. ASSUME NEW u \in Reconcilers, rec'[u] = "beginPublish"
        PROVE  /\ u # t /\ rec[u] = "beginPublish"
               /\ recSess'[u] = recSess[u]
    BY <2>1
  <2>2. ASSUME NEW u \in Reconcilers, rec'[u] = "beginPublish"
        PROVE  recSess[u] \in Sessions /\ recSess[u] # recSess[t]
    BY <2>1, <2>2 DEF OneOwner
  <2>3. ASSUME NEW u \in Reconcilers, rec'[u] = "beginPublish"
        PROVE  announced'[recSess[u]] = announced[recSess[u]]
    BY <2>2, <2>3
  <2>4. state' = state
    BY <1>0
  <2> HIDE <1>0
  <2> QED  BY <2>1, <2>3, <2>4 DEF BeginOwes
<1>5. CompleteOwes'
  <2>1. ASSUME NEW u \in Reconcilers, rec'[u] = "completePublish"
        PROVE  /\ rec[u] = "completePublish" /\ recSess'[u] = recSess[u]
               /\ recSess[u] \in Sessions
    BY <2>1
  <2>2. ASSUME NEW u \in Sessions, CompleteEdge \notin announced[u]
        PROVE  CompleteEdge \notin announced'[u]
    BY <2>2
  <2> QED  BY <2>1, <2>2 DEF CompleteOwes
<1>6. OneOwner'
  <2>1. ASSUME NEW u \in Reconcilers,
               NEW pc \in {"beginPublish", "completePublish"}, rec'[u] = pc
        PROVE  rec[u] = pc /\ recSess'[u] = recSess[u]
    BY <2>1
  <2> HIDE <1>0
  <2>2. ASSUME NEW u \in Reconcilers, NEW v \in Reconcilers,
               NEW pc \in {"beginPublish", "completePublish"},
               rec'[u] = pc, rec'[v] = pc, recSess'[u] = recSess'[v]
        PROVE  u = v
    BY <2>1, <2>2 DEF OneOwner
  <2>3. stop' = stop /\ target' = target
    BY <1>0
  <2> QED  BY <2>2, <2>3 DEF OneOwner
<1>7. SeenLive'  BY DEF SeenLive
<1> QED  BY <1>1, <1>2, <1>3, <1>4, <1>5, <1>6, <1>7

\* complete_reconcile publishes its edge: what changes.
LEMMA CompletePublishEffect ==
    ASSUME LifecycleTypes, NEW t \in Reconcilers, CompletePublish(t)
    PROVE  /\ Publishes(recSess[t], CompleteEdge)
           /\ RecTurns(t, "completePublish", "idle")
<1>1. Publishes(recSess[t], CompleteEdge)
    BY DEF CompletePublish, CompleteEdge, Publish, RecReturn, LifecycleTypes,
           TasksHaveSessions, Publishes
<1>2. RecTurns(t, "completePublish", "idle")
    BY DEF CompletePublish, Publish, RecReturn, LifecycleTypes,
           TasksHaveSessions, RecTurns
<1> QED  BY <1>1, <1>2

\* complete_reconcile publishes its edge and keeps the invariant.
LEMMA CompletePublishLife ==
    ASSUME LifecycleTypes, LifecycleInv, NEW t \in Reconcilers,
           CompletePublish(t)
    PROVE  LifecycleInv'
<1>0. /\ Publishes(recSess[t], CompleteEdge)
      /\ RecTurns(t, "completePublish", "idle")
      /\ TasksHaveSessions
    BY CompletePublishEffect DEF LifecycleTypes
<1> USE <1>0, EdgesDiffer
    DEF LifecycleInv, TasksHaveSessions, Publishes, RecTurns,
             LiveStates
<1>1. PublishedBehind'
    BY DEF PublishedBehind, CompleteOwes
<1>2. TripOwes'  BY DEF TripOwes
<1>3. StopOwes'  BY DEF StopOwes
<1>4. BeginOwes'
  <2>1. ASSUME NEW u \in Reconcilers, rec'[u] = "beginPublish"
        PROVE  /\ rec[u] = "beginPublish" /\ recSess'[u] = recSess[u]
               /\ recSess[u] \in Sessions
    BY <2>1
  <2>2. ASSUME NEW u \in Sessions, BeginEdge \notin announced[u]
        PROVE  BeginEdge \notin announced'[u]
    BY <2>2
  <2> QED  BY <2>1, <2>2 DEF BeginOwes
<1>5. CompleteOwes'
  <2>1. ASSUME NEW u \in Reconcilers, rec'[u] = "completePublish"
        PROVE  /\ u # t /\ rec[u] = "completePublish"
               /\ recSess'[u] = recSess[u]
    BY <2>1
  <2>2. ASSUME NEW u \in Reconcilers, rec'[u] = "completePublish"
        PROVE  recSess[u] \in Sessions /\ recSess[u] # recSess[t]
    BY <2>1, <2>2 DEF OneOwner
  <2>3. ASSUME NEW u \in Reconcilers, rec'[u] = "completePublish"
        PROVE  announced'[recSess[u]] = announced[recSess[u]]
    BY <2>2, <2>3
  <2>4. state' = state
    BY <1>0
  <2> HIDE <1>0
  <2> QED  BY <2>1, <2>3, <2>4 DEF CompleteOwes
<1>6. OneOwner'
  <2>1. ASSUME NEW u \in Reconcilers,
               NEW pc \in {"beginPublish", "completePublish"}, rec'[u] = pc
        PROVE  rec[u] = pc /\ recSess'[u] = recSess[u]
    BY <2>1
  <2> HIDE <1>0
  <2>2. ASSUME NEW u \in Reconcilers, NEW v \in Reconcilers,
               NEW pc \in {"beginPublish", "completePublish"},
               rec'[u] = pc, rec'[v] = pc, recSess'[u] = recSess'[v]
        PROVE  u = v
    BY <2>1, <2>2 DEF OneOwner
  <2>3. stop' = stop /\ target' = target
    BY <1>0
  <2> QED  BY <2>2, <2>3 DEF OneOwner
<1>7. SeenLive'  BY DEF SeenLive
<1> QED  BY <1>1, <1>2, <1>3, <1>4, <1>5, <1>6, <1>7

\* Every step keeps the invariant.
LEMMA LifecycleStep ==
    ASSUME TypeOK, Issued, LifecycleInv, [Next]_vars
    PROVE  LifecycleInv'
<1>1. LifecycleTypes
    BY LifecycleTyped
<1>2. CASE Call
    BY <1>1, <1>2, CallAside, AttachLife, TripCasLife, StopQuiet, RecQuiet,
       QuietLife, LifecycleFrame
<1>3. ASSUME NEW s \in Sessions, TripStep(s)
      PROVE  LifecycleInv'
    BY <1>1, <1>3, TripPublishLife, TripQuiet, QuietLife DEF TripStep
<1>4. ASSUME NEW t \in Stoppers, StopStep(t)
      PROVE  LifecycleInv'
    BY <1>1, <1>4, StopCasLife, StopPublishLife, StopQuiet, QuietLife
       DEF StopStep
<1>5. ASSUME NEW t \in Reconcilers, RecStep(t)
      PROVE  LifecycleInv'
    BY <1>1, <1>5, BeginCasLife, CompleteCasLife, BeginPublishLife,
       CompletePublishLife, RecQuiet, QuietLife DEF RecStep
<1>6. CASE UNCHANGED vars
    BY <1>6, LifecycleFrame DEF vars, lifeVars
<1> QED
    BY <1>2, <1>3, <1>4, <1>5, <1>6, VenueAside, CancelAside, RequestAside,
       LifecycleFrame DEF Next
-----------------------------------------------------------------------------
(* The refinement.                                                         *)

\* What it takes to owe an edge.
Owes(s, e) ==
    \/ trip[s] = "publishing" /\ e = TripEdge
    \/ \E t \in Stoppers : /\ stop[t] = "publishing" /\ target[t] = s
                           /\ e = StopEdge(seen[t])
    \/ \E t \in Reconcilers : /\ rec[t] = "beginPublish" /\ recSess[t] = s
                              /\ e = BeginEdge
    \/ \E t \in Reconcilers : /\ rec[t] = "completePublish" /\ recSess[t] = s
                              /\ e = CompleteEdge

\* OwedBy collects those edges, before a step and after it.
LEMMA OwedMember ==
    ASSUME NEW s \in Sessions, NEW e
    PROVE  /\ e \in OwedBy(s) <=> Owes(s, e)
           /\ e \in OwedBy(s)' <=> Owes(s, e)'
<1>1. e \in OwedBy(s) <=> Owes(s, e)
    BY Zenon DEF OwedBy, Owes, BeginEdge, CompleteEdge, TripEdge, StopEdge
<1>2. e \in OwedBy(s)' <=> Owes(s, e)'
    BY Zenon DEF OwedBy, Owes, BeginEdge, CompleteEdge, TripEdge, StopEdge
<1> QED  BY <1>1, <1>2

\* A quiet step leaves what is owed as it is.
LEMMA QuietOwes ==
    ASSUME Quiet
    PROVE  \A s \in Sessions : OwedBy(s)' = OwedBy(s)
<1> SUFFICES ASSUME NEW s \in Sessions
             PROVE  OwedBy(s)' = OwedBy(s)
    OBVIOUS
<1>1. ASSUME NEW e
      PROVE  e \in OwedBy(s)' <=> e \in OwedBy(s)
  <2>1. Owes(s, e)' <=> Owes(s, e)
    BY DEF Quiet, Owes
  <2> QED  BY <2>1, OwedMember
<1> QED  BY <1>1

\* A task that takes an edge takes it in SessionLifecycle.
LEMMA TakeMaps ==
    ASSUME NEW s \in Sessions, NEW e,
           state[s] = e[1], state' = [state EXCEPT ![s] = e[2]],
           announced' = announced,
           \A u \in Sessions : \A x :
              x \in OwedBy(u)' <=> x \in OwedBy(u) \/ (u = s /\ x = e)
    PROVE  Lifecycle!Take(s, e)
<1> DEFINE owed == [u \in Sessions |-> OwedBy(u)]
<1>1. ASSUME NEW u \in Sessions
      PROVE  OwedBy(u)' = IF u = s THEN OwedBy(u) \cup {e} ELSE OwedBy(u)
    OBVIOUS
<1>2. owed' = [owed EXCEPT ![s] = @ \cup {e}]
    BY <1>1
<1> QED  BY <1>2 DEF Lifecycle!Take

\* A task that publishes an edge announces it in SessionLifecycle.
LEMMA AnnounceMaps ==
    ASSUME NEW s \in Sessions, NEW e, LifecycleTypes,
           e \in OwedBy(s), e \notin announced[s], state' = state,
           announced' = [announced EXCEPT ![s] = @ \cup {e}],
           \A u \in Sessions : \A x :
              x \in OwedBy(u)' <=> x \in OwedBy(u) /\ ~(u = s /\ x = e)
    PROVE  Lifecycle!Announce(s, e)
<1> DEFINE owed == [u \in Sessions |-> OwedBy(u)]
<1>1. ASSUME NEW u \in Sessions
      PROVE  OwedBy(u)' = IF u = s THEN OwedBy(u) \ {e} ELSE OwedBy(u)
    OBVIOUS
<1>2. owed' = [owed EXCEPT ![s] = @ \ {e}]
    BY <1>1
<1> QED  BY <1>2 DEF Lifecycle!Announce

\* A quiet step stutters.
LEMMA QuietStutters ==
    ASSUME Quiet
    PROVE  UNCHANGED Lifecycle!lifecycleVars
<1>1. [s \in Sessions |-> OwedBy(s)]' = [s \in Sessions |-> OwedBy(s)]
    BY QuietOwes
<1> QED  BY <1>1 DEF Lifecycle!lifecycleVars, Quiet

\* AttachSession issues the session in SessionLifecycle.
LEMMA AttachMaps ==
    ASSUME NEW s \in Sessions, NEW sc \in Policies, Attach(s, sc)
    PROVE  Lifecycle!Issue(s)
BY DEF Attach, OwedBy, Lifecycle!Issue

\* The kill switch takes its edge: so it does in SessionLifecycle.
LEMMA TripCasMaps ==
    ASSUME LifecycleTypes, LifecycleInv, NEW s \in Sessions, TripCas(s)
    PROVE  Lifecycle!Take(s, TripEdge)
<1> DEFINE e == TripEdge
<1>1. /\ Swaps(s, "Active", "KillSwitchTripped")
      /\ TripBegins(s)
    BY TripCasEffect
<1>2. ASSUME NEW u \in Sessions, NEW x
      PROVE  x \in OwedBy(u)' <=> x \in OwedBy(u) \/ (u = s /\ x = e)
  <2>1. Owes(u, x)' <=> Owes(u, x) \/ (u = s /\ x = e)
    BY <1>1 DEF Owes, TripBegins
  <2> QED  BY <2>1, OwedMember
<1>3. /\ s \in Sessions /\ state[s] = e[1]
      /\ state' = [state EXCEPT ![s] = e[2]] /\ announced' = announced
    BY <1>1 DEF Swaps, TripCas, Transition, TripEdge
<1>4. Lifecycle!Take(s, e)
  <2> HIDE DEF e
  <2> QED  BY <1>2, <1>3, TakeMaps
<1> QED  BY <1>4

\* A stop takes its edge: so it does in SessionLifecycle.
LEMMA StopCasMaps ==
    ASSUME LifecycleTypes, LifecycleInv, NEW t \in Stoppers, StopCas(t)
    PROVE  Lifecycle!Take(target[t], StopEdge(seen[t]))
<1> DEFINE s == target[t]
           e == StopEdge(seen[t])
<1>1. /\ Swaps(s, seen[t], "GracefulShutdown")
      /\ StopBegins(t)
    BY StopCasEffect
<1>2. ASSUME NEW u \in Sessions, NEW x
      PROVE  x \in OwedBy(u)' <=> x \in OwedBy(u) \/ (u = s /\ x = e)
  <2>1. Owes(u, x)' <=> Owes(u, x) \/ (u = s /\ x = e)
    BY <1>1 DEF Owes, StopBegins
  <2> QED  BY <2>1, OwedMember
<1>3. /\ s \in Sessions /\ state[s] = e[1]
      /\ state' = [state EXCEPT ![s] = e[2]] /\ announced' = announced
    BY <1>1 DEF Swaps, StopCas, Transition, StopEdge
<1>4. Lifecycle!Take(s, e)
  <2> HIDE DEF e, s
  <2> QED  BY <1>2, <1>3, TakeMaps
<1> QED  BY <1>4

\* begin_reconcile takes its edge: so it does in SessionLifecycle.
LEMMA BeginCasMaps ==
    ASSUME LifecycleTypes, LifecycleInv, NEW t \in Reconcilers, BeginCas(t)
    PROVE  Lifecycle!Take(recSess[t], BeginEdge)
<1> DEFINE s == recSess[t]
           e == BeginEdge
<1>1. /\ Swaps(s, "Attached", "Syncing")
      /\ RecTurns(t, "beginning", "beginPublish")
    BY BeginCasEffect
<1>2. ASSUME NEW u \in Sessions, NEW x
      PROVE  x \in OwedBy(u)' <=> x \in OwedBy(u) \/ (u = s /\ x = e)
  <2>1. Owes(u, x)' <=> Owes(u, x) \/ (u = s /\ x = e)
    BY <1>1 DEF Owes, RecTurns
  <2> QED  BY <2>1, OwedMember
<1>3. /\ s \in Sessions /\ state[s] = e[1]
      /\ state' = [state EXCEPT ![s] = e[2]] /\ announced' = announced
    BY <1>1 DEF Swaps, BeginCas, Transition, BeginEdge
<1>4. Lifecycle!Take(s, e)
  <2> HIDE DEF e, s
  <2> QED  BY <1>2, <1>3, TakeMaps
<1> QED  BY <1>4

\* complete_reconcile takes its edge: so it does in SessionLifecycle.
LEMMA CompleteCasMaps ==
    ASSUME LifecycleTypes, LifecycleInv, NEW t \in Reconcilers, CompleteCas(t)
    PROVE  Lifecycle!Take(recSess[t], CompleteEdge)
<1> DEFINE s == recSess[t]
           e == CompleteEdge
<1>1. /\ Swaps(s, "Syncing", "Active")
      /\ RecTurns(t, "completing", "completePublish")
    BY CompleteCasEffect
<1>2. ASSUME NEW u \in Sessions, NEW x
      PROVE  x \in OwedBy(u)' <=> x \in OwedBy(u) \/ (u = s /\ x = e)
  <2>1. Owes(u, x)' <=> Owes(u, x) \/ (u = s /\ x = e)
    BY <1>1 DEF Owes, RecTurns
  <2> QED  BY <2>1, OwedMember
<1>3. /\ s \in Sessions /\ state[s] = e[1]
      /\ state' = [state EXCEPT ![s] = e[2]] /\ announced' = announced
    BY <1>1 DEF Swaps, CompleteCas, Transition, CompleteEdge
<1>4. Lifecycle!Take(s, e)
  <2> HIDE DEF e, s
  <2> QED  BY <1>2, <1>3, TakeMaps
<1> QED  BY <1>4

\* The kill switch publishes its edge: so it does in SessionLifecycle.
LEMMA TripPublishMaps ==
    ASSUME LifecycleTypes, LifecycleInv, NEW s \in Sessions, TripPublish(s)
    PROVE  Lifecycle!Announce(s, TripEdge)
<1> DEFINE e == TripEdge
<1>1. /\ Publishes(s, TripEdge)
      /\ TripEnds(s)
    BY TripPublishEffect
<1>2. ASSUME NEW u \in Sessions, NEW x
      PROVE  x \in OwedBy(u)' <=> x \in OwedBy(u) /\ ~(u = s /\ x = e)
  <2>1. Owes(u, x)' <=> Owes(u, x) /\ ~(u = s /\ x = e)
    BY <1>1, EdgesDiffer DEF Owes, TripEnds
  <2> QED  BY <2>1, OwedMember
<1>3. e \in OwedBy(s)
    BY <1>1, OwedMember DEF Publishes, TripEnds, Owes
<1>4. e \notin announced[s]
    BY <1>1 DEF TripEnds, LifecycleInv, TripOwes
<1>5. /\ s \in Sessions /\ state' = state
      /\ announced' = [announced EXCEPT ![s] = @ \cup {e}]
    BY <1>1 DEF Publishes, TripPublish, Publish, TripEdge
<1>6. Lifecycle!Announce(s, e)
  <2> HIDE DEF e
  <2> QED  BY <1>2, <1>3, <1>4, <1>5, AnnounceMaps
<1> QED  BY <1>6

\* A stop publishes its edge: so it does in SessionLifecycle.
LEMMA StopPublishMaps ==
    ASSUME LifecycleTypes, LifecycleInv, NEW t \in Stoppers, StopPublish(t)
    PROVE  Lifecycle!Announce(target[t], StopEdge(seen[t]))
<1> DEFINE s == target[t]
           e == StopEdge(seen[t])
<1>1. /\ Publishes(s, StopEdge(seen[t]))
      /\ StopEnds(t)
    BY StopPublishEffect
<1>2. \A v \in Stoppers : stop[v] = "publishing" /\ target[v] = s => v = t
    BY <1>1 DEF StopEnds, LifecycleInv, OneOwner
<1>3. ASSUME NEW u \in Sessions, NEW x
      PROVE  x \in OwedBy(u)' <=> x \in OwedBy(u) /\ ~(u = s /\ x = e)
  <2>1. Owes(u, x)' => Owes(u, x) /\ ~(u = s /\ x = e)
    BY <1>1, <1>2, EdgesDiffer DEF Owes, StopEnds
  <2>2. Owes(u, x) /\ ~(u = s /\ x = e) => Owes(u, x)'
    BY <1>1, EdgesDiffer DEF Owes, StopEnds
  <2> QED  BY <2>1, <2>2, OwedMember
<1>4. e \in OwedBy(s)
    BY <1>1, OwedMember DEF Publishes, StopEnds, Owes
<1>5. e \notin announced[s]
    BY <1>1 DEF StopEnds, LifecycleInv, StopOwes, SeenLive
<1>6. /\ s \in Sessions /\ state' = state
      /\ announced' = [announced EXCEPT ![s] = @ \cup {e}]
    BY <1>1 DEF Publishes, StopPublish, Publish, StopEdge
<1>7. Lifecycle!Announce(s, e)
  <2> HIDE DEF e, s
  <2> QED  BY <1>3, <1>4, <1>5, <1>6, AnnounceMaps
<1> QED  BY <1>7

\* begin_reconcile publishes its edge: so it does in SessionLifecycle.
LEMMA BeginPublishMaps ==
    ASSUME LifecycleTypes, LifecycleInv, NEW t \in Reconcilers, BeginPublish(t)
    PROVE  Lifecycle!Announce(recSess[t], BeginEdge)
<1> DEFINE s == recSess[t]
           e == BeginEdge
<1>1. /\ Publishes(s, BeginEdge)
      /\ RecTurns(t, "beginPublish", "snapshot")
    BY BeginPublishEffect
<1>2. \A v \in Reconcilers : rec[v] = "beginPublish" /\ recSess[v] = s => v = t
    BY <1>1 DEF RecTurns, LifecycleInv, OneOwner
<1>3. ASSUME NEW u \in Sessions, NEW x
      PROVE  x \in OwedBy(u)' <=> x \in OwedBy(u) /\ ~(u = s /\ x = e)
  <2>1. Owes(u, x)' => Owes(u, x) /\ ~(u = s /\ x = e)
    BY <1>1, <1>2, EdgesDiffer DEF Owes, RecTurns
  <2>2. Owes(u, x) /\ ~(u = s /\ x = e) => Owes(u, x)'
    BY <1>1, EdgesDiffer DEF Owes, RecTurns
  <2> QED  BY <2>1, <2>2, OwedMember
<1>4. e \in OwedBy(s)
    BY <1>1, OwedMember DEF Publishes, RecTurns, Owes
<1>5. e \notin announced[s]
    BY <1>1 DEF RecTurns, LifecycleInv, BeginOwes
<1>6. /\ s \in Sessions /\ state' = state
      /\ announced' = [announced EXCEPT ![s] = @ \cup {e}]
    BY <1>1 DEF Publishes, BeginPublish, Publish, BeginEdge
<1>7. Lifecycle!Announce(s, e)
  <2> HIDE DEF e, s
  <2> QED  BY <1>3, <1>4, <1>5, <1>6, AnnounceMaps
<1> QED  BY <1>7

\* complete_reconcile publishes its edge: so it does in SessionLifecycle.
LEMMA CompletePublishMaps ==
    ASSUME LifecycleTypes, LifecycleInv, NEW t \in Reconcilers,
           CompletePublish(t)
    PROVE  Lifecycle!Announce(recSess[t], CompleteEdge)
<1> DEFINE s == recSess[t]
           e == CompleteEdge
<1>1. /\ Publishes(s, CompleteEdge)
      /\ RecTurns(t, "completePublish", "idle")
    BY CompletePublishEffect
<1>2. \A v \in Reconcilers : rec[v] = "completePublish" /\ recSess[v] = s
         => v = t
    BY <1>1 DEF RecTurns, LifecycleInv, OneOwner
<1>3. ASSUME NEW u \in Sessions, NEW x
      PROVE  x \in OwedBy(u)' <=> x \in OwedBy(u) /\ ~(u = s /\ x = e)
  <2>1. Owes(u, x)' => Owes(u, x) /\ ~(u = s /\ x = e)
    BY <1>1, <1>2, EdgesDiffer DEF Owes, RecTurns
  <2>2. Owes(u, x) /\ ~(u = s /\ x = e) => Owes(u, x)'
    BY <1>1, EdgesDiffer DEF Owes, RecTurns
  <2> QED  BY <2>1, <2>2, OwedMember
<1>4. e \in OwedBy(s)
    BY <1>1, OwedMember DEF Publishes, RecTurns, Owes
<1>5. e \notin announced[s]
    BY <1>1 DEF RecTurns, LifecycleInv, CompleteOwes
<1>6. /\ s \in Sessions /\ state' = state
      /\ announced' = [announced EXCEPT ![s] = @ \cup {e}]
    BY <1>1 DEF Publishes, CompletePublish, Publish, CompleteEdge
<1>7. Lifecycle!Announce(s, e)
  <2> HIDE DEF e, s
  <2> QED  BY <1>3, <1>4, <1>5, <1>6, AnnounceMaps
<1> QED  BY <1>7

\* Every step maps to a step of SessionLifecycle, or to none.
LEMMA LifecycleMaps ==
    ASSUME TypeOK, Issued, LifecycleInv, [Next]_vars
    PROVE  [Lifecycle!LifecycleNext]_Lifecycle!lifecycleVars
<1> DEFINE Goal == [Lifecycle!LifecycleNext]_Lifecycle!lifecycleVars
<1> SUFFICES Goal
    OBVIOUS
<1>1. LifecycleTypes
    BY LifecycleTyped
<1>2. ASSUME NEW s \in Sessions, Lifecycle!Issue(s)
      PROVE  Goal
    BY <1>2 DEF Lifecycle!LifecycleNext
<1>3. ASSUME NEW s \in Sessions, NEW e \in Lifecycle!Edges,
             Lifecycle!Take(s, e) \/ Lifecycle!Announce(s, e)
      PROVE  Goal
    BY <1>3 DEF Lifecycle!LifecycleNext
<1>4. Quiet => Goal
    BY QuietStutters
<1>5. ASSUME UNCHANGED lifeVars
      PROVE  Goal
  <2>1. Quiet
    BY <1>5 DEF lifeVars, Quiet, LifecycleInv, SeenLive
  <2> QED  BY <1>4, <2>1
<1>6. /\ TripEdge \in Lifecycle!Edges
      /\ BeginEdge \in Lifecycle!Edges
      /\ CompleteEdge \in Lifecycle!Edges
      /\ \A x \in LiveStates : StopEdge(x) \in Lifecycle!Edges
    BY DEF Lifecycle!Edges, Lifecycle!LiveStates, LiveStates, BeginEdge,
           CompleteEdge, TripEdge, StopEdge
<1> HIDE DEF Goal
<1>7. CASE Call
  <2>1. ASSUME NEW s \in Sessions, NEW sc \in Policies, Attach(s, sc)
        PROVE  Goal
      BY <1>2, <2>1, AttachMaps
  <2>2. ASSUME NEW s \in Sessions, TripCas(s)
        PROVE  Goal
      BY <1>1, <1>3, <1>6, <2>2, TripCasMaps
  <2>3. ASSUME NEW t \in Stoppers, NEW s \in Sessions,
               NEW w \in {"cancel", "keep"}, StopStart(t, s, w)
        PROVE  Goal
      BY <1>1, <1>4, <2>3, StopQuiet
  <2>4. ASSUME NEW t \in Reconcilers, NEW s \in Sessions, BeginRead(t, s)
        PROVE  Goal
      BY <1>1, <1>4, <2>4, RecQuiet
  <2> QED  BY <1>5, <1>7, <2>1, <2>2, <2>3, <2>4, CallAside
<1>8. ASSUME NEW s \in Sessions, TripStep(s)
      PROVE  Goal
    BY <1>1, <1>3, <1>4, <1>6, <1>8, TripPublishMaps, TripQuiet DEF TripStep
<1>9. ASSUME NEW t \in Stoppers, StopStep(t)
      PROVE  Goal
  <2>1. CASE StopCas(t) \/ StopPublish(t)
    <3>1. target[t] \in Sessions /\ seen[t] \in LiveStates
        BY <1>1, <2>1 DEF StopCas, StopPublish, LifecycleTypes,
           TasksHaveSessions, LifecycleInv, SeenLive
    <3> QED  BY <1>1, <1>3, <1>6, <2>1, <3>1, StopCasMaps, StopPublishMaps
  <2> QED  BY <1>1, <1>4, <1>9, <2>1, StopQuiet DEF StopStep
<1>10. ASSUME NEW t \in Reconcilers, RecStep(t)
       PROVE  Goal
  <2>1. CASE BeginCas(t) \/ CompleteCas(t) \/ BeginPublish(t)
             \/ CompletePublish(t)
    <3>1. recSess[t] \in Sessions
        BY <1>1, <2>1 DEF BeginCas, CompleteCas, BeginPublish,
           CompletePublish, LifecycleTypes, TasksHaveSessions
    <3> QED  BY <1>1, <1>3, <1>6, <2>1, <3>1, BeginCasMaps, CompleteCasMaps,
                BeginPublishMaps, CompletePublishMaps
  <2> QED  BY <1>1, <1>4, <1>10, <2>1, RecQuiet DEF RecStep
<1>11. CASE UNCHANGED vars
  <2>1. UNCHANGED lifeVars
    BY <1>11 DEF vars, lifeVars
  <2> QED  BY <1>5, <2>1
<1> QED
    BY <1>5, <1>7, <1>8, <1>9, <1>10, <1>11, VenueAside, CancelAside,
       RequestAside DEF Next

\* LIFECYCLE, for every instance: whatever the interleaving of attaches,
\* reconciles, stops and trips (SessionHandle::transition and
\* publish_state_change in lifecycle.rs and health.rs), a session moves along
\* the edges of SessionLifecycle only, and every edge is published exactly once.
THEOREM LifecycleImplemented == Spec => ImplementsLifecycle
<1>1. Init => Issued /\ LifecycleInv
  <2>1. Init => Issued
    BY DEF Init, Issued
  <2> QED  BY <2>1, LifecycleInit
<1>2. Init => Lifecycle!LifecycleInit
  <2>1. ASSUME Init, NEW s \in Sessions
        PROVE  OwedBy(s) = {}
    <3>1. ASSUME NEW e PROVE ~Owes(s, e)
        BY <2>1 DEF Init, Owes
    <3> QED  BY <3>1, OwedMember
  <2>2. ASSUME Init
        PROVE  [s \in Sessions |-> OwedBy(s)] = [s \in Sessions |-> {}]
      BY <2>1, <2>2
  <2> QED  BY <2>2 DEF Init, Lifecycle!LifecycleInit
<1>3. TypeOK /\ Issued /\ LifecycleInv /\ [Next]_vars
        => Issued' /\ LifecycleInv'
    BY IssuedStep, LifecycleStep, LifecycleTyped
<1>4. TypeOK /\ Issued /\ LifecycleInv /\ [Next]_vars
        => [Lifecycle!LifecycleNext]_Lifecycle!lifecycleVars
    BY LifecycleMaps
<1> QED
    BY <1>1, <1>2, <1>3, <1>4, TypesHold, PTL
       DEF Spec, ImplementsLifecycle, Lifecycle!LifecycleSpec
============================================================================
