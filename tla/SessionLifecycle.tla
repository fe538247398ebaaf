-------------------------- MODULE SessionLifecycle --------------------------
(***************************************************************************)
(* What the session control plane promises about the state of a session,   *)
(* whoever observes it: a session moves only along the edges below, a      *)
(* terminal state is final, and every edge that is taken is announced on   *)
(* the session's event bus exactly once, some time after it was taken.     *)
(*                                                                         *)
(* The promise is the one of bin/longtrader-worker/src/session/state.rs    *)
(* and of the doc comments of lifecycle.rs ("no second publish",           *)
(* "terminal sessions are never resurrected").  SessionControl implements  *)
(* it with compare-and-swap transitions taken by concurrent tasks.         *)
(***************************************************************************)
CONSTANT Sessions

VARIABLES
    state,  \* state[s]: the state of session s, "None" before AttachSession
    owed,   \* owed[s]: the edges s has taken that are not announced yet
    told    \* told[s]: the edges of s announced on the event bus

lifecycleVars == <<state, owed, told>>

LiveStates == {"Attached", "Syncing", "Active"}

\* SessionState::is_terminal
Terminal(st) == st \in {"KillSwitchTripped", "GracefulShutdown"}

\* SessionState
SessionStates == LiveStates \cup {"KillSwitchTripped", "GracefulShutdown"}

\* The transitions the handlers make with SessionHandle::transition.  A stop
\* leaves any live state; only an ACTIVE session trips its kill switch.
Edges ==
    {<<"Attached", "Syncing">>, <<"Syncing", "Active">>,
     <<"Active", "KillSwitchTripped">>}
    \cup (LiveStates \X {"GracefulShutdown"})

LifecycleInit ==
    /\ state = [s \in Sessions |-> "None"]
    /\ owed = [s \in Sessions |-> {}]
    /\ told = [s \in Sessions |-> {}]

\* AttachSession issues a session.
Issue(s) ==
    /\ state[s] = "None"
    /\ state' = [state EXCEPT ![s] = "Attached"]
    /\ UNCHANGED <<owed, told>>

\* The session takes an edge and owes its announcement.
Take(s, e) ==
    /\ state[s] = e[1]
    /\ state' = [state EXCEPT ![s] = e[2]]
    /\ owed' = [owed EXCEPT ![s] = @ \cup {e}]
    /\ UNCHANGED told

\* An owed edge is published, and is owed no more.
Announce(s, e) ==
    /\ e \in owed[s]
    /\ e \notin told[s]
    /\ owed' = [owed EXCEPT ![s] = @ \ {e}]
    /\ told' = [told EXCEPT ![s] = @ \cup {e}]
    /\ UNCHANGED state

LifecycleNext ==
    \E s \in Sessions :
        \/ Issue(s)
        \/ \E e \in Edges : Take(s, e) \/ Announce(s, e)

LifecycleSpec == LifecycleInit /\ [][LifecycleNext]_lifecycleVars
=============================================================================
