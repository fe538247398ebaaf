---------------------------- MODULE LeaseWatchdog ----------------------------
(***************************************************************************)
(* The lease watchdog of longtrader-worker (session/health.rs): the L1     *)
(* check of every session's heartbeat lease, made by the watchdog's pass   *)
(* and by strategy-side lease guards at the same time, and the L2 probe    *)
(* of the gateway, which trips every ACTIVE session after                  *)
(* HEALTH_PROBE_FAILURE_THRESHOLD consecutive misses.                      *)
(*                                                                         *)
(* Time is the age of a session's last heartbeat, in units in which the    *)
(* leases are small numbers.  What a tripped kill switch then cancels is   *)
(* SessionControl's subject; here it is one compare-and-swap.              *)
(***************************************************************************)
EXTENDS Naturals, FiniteSets, FiniteSetsExt

CONSTANTS
    Sessions,
    Checkers,   \* the tasks that call check_lease_expiry: watchdog and guards
    Watchdog,   \* the one of them that is the watchdog's own pass
    Leases,     \* the lease_timeouts clients ask for (within bounds)
    MaxAge,     \* bound: older heartbeats are not told apart
    Threshold,  \* HEALTH_PROBE_FAILURE_THRESHOLD
    MaxMisses   \* u32::MAX, where the miss counter saturates

ASSUME LeaseAssumption ==
    /\ Watchdog \in Checkers
    /\ Leases \subseteq 1 .. MaxAge - 1
    /\ Leases # {}
    /\ MaxAge \in Nat
    /\ Threshold \in Nat \ {0} /\ MaxMisses \in Nat /\ Threshold <= MaxMisses

VARIABLES
    state,      \* "None", "Waiting" (ATTACHED or SYNCING), "Active", "Tripped"
                \* or "Stopped"
    age,        \* age[s]: last_seen.elapsed()
    lease,      \* lease[s]: SessionPolicy.lease_timeout
    pass,       \* where the watchdog's pass is
    todo,       \* the sessions the phase of the pass has yet to see to
    check,      \* check[w][s]: where the check_lease_expiry of s by w is
    read,       \* read[w][s]: the lease that check read
    misses,     \* SessionManager.health_failures
    \* history
    cause,      \* cause[s]: what tripped s
    shortest,   \* shortest[s]: the shortest lease s ever had
    overdue,    \* overdue[s]: s was ACTIVE and older than shortest[s]
    outage,     \* how many probes failed since the last one that succeeded
    evidence,   \* evidence[s]: outage when L2 tripped s
    condemned   \* the sessions that were ACTIVE when L2 decided to trip

checkVars   == <<check, read>>
historyVars == <<cause, shortest, outage, evidence, condemned, overdue>>
vars == <<state, age, lease, pass, todo, checkVars, misses,
          historyVars>>

Init ==
    /\ state = [s \in Sessions |-> "None"]
    /\ age = [s \in Sessions |-> 0]
    /\ lease = [s \in Sessions |-> Max(Leases)]
    /\ pass = "asleep" /\ todo = {}
    /\ check = [w \in Checkers |-> [s \in Sessions |-> "idle"]]
    /\ read = [w \in Checkers |-> [s \in Sessions |-> 0]]
    /\ misses = 0
    /\ cause = [s \in Sessions |-> "none"]
    /\ shortest = [s \in Sessions |-> MaxAge]
    /\ overdue = [s \in Sessions |-> FALSE]
    /\ outage = 0
    /\ evidence = [s \in Sessions |-> 0]
    /\ condemned = {}

\* The history of what is overdue, after a step that may add to it.
Observe ==
    overdue' = [s \in Sessions |->
                  overdue[s] \/ (state'[s] = "Active" /\ age'[s] > shortest'[s])]

Set(f, s, v) == [f EXCEPT ![s] = v]
-----------------------------------------------------------------------------
(* Clients                                                                 *)

\* AttachSession: the default lease, or the one the client sent.
Attach(s, l) ==
    /\ state[s] = "None"
    /\ state' = Set(state, s, "Waiting")
    /\ lease' = Set(lease, s, l)
    /\ shortest' = Set(shortest, s, l)
    /\ UNCHANGED <<age, pass, todo, checkVars, misses, cause, outage, evidence,
                   condemned, overdue>>

\* ReconcileState completes; it does not touch last_seen.
Activate(s) ==
    /\ state[s] = "Waiting"
    /\ state' = Set(state, s, "Active")
    /\ UNCHANGED <<age, lease, pass, todo, checkVars, misses, cause, shortest,
                   outage, evidence, condemned>>
    /\ Observe

StopStrategy(s) ==
    /\ state[s] \in {"Waiting", "Active"}
    /\ state' = Set(state, s, "Stopped")
    /\ UNCHANGED <<age, lease, pass, todo, checkVars, misses, historyVars>>

\* KeepAlive, or a reconnecting AttachSession: touch, in any state.
KeepAlive(s) ==
    /\ state[s] # "None"
    /\ age' = Set(age, s, 0)
    /\ UNCHANGED <<state, lease, pass, todo, checkVars, misses, historyVars>>

\* apply_policy under the policy lock: the lease is written first; a scope
\* discriminant the worker does not know rejects the call after that, so that a
\* refused policy has the same effect here as an accepted one.
SetPolicy(s, l) ==
    /\ state[s] # "None"
    /\ lease' = Set(lease, s, l)
    /\ shortest' = Set(shortest, s, Min({shortest[s], l}))
    /\ UNCHANGED <<state, age, pass, todo, checkVars, misses, cause, outage,
                   evidence, condemned>>
    /\ Observe

Tick ==
    /\ \E s \in Sessions : age[s] < MaxAge
    /\ age' = [s \in Sessions |-> IF state[s] = "None" \/ age[s] = MaxAge
                                  THEN age[s] ELSE age[s] + 1]
    /\ UNCHANGED <<state, lease, pass, todo, checkVars, misses, cause, shortest,
                   outage, evidence, condemned>>
    /\ Observe
-----------------------------------------------------------------------------
(* check_lease_expiry, by the watchdog's task for s or by a guard          *)

CheckGoto(w, s, pc) == check' = [check EXCEPT ![w][s] = pc]

\* The watchdog checks the sessions of its snapshot; a guard ticks at any time.
CheckPolicy(w, s) ==
    /\ check[w][s] = "idle" /\ state[s] # "None"
    /\ IF w = Watchdog
       THEN pass = "leases" /\ s \in todo /\ todo' = todo \ {s}
       ELSE todo' = todo
    /\ read' = [read EXCEPT ![w][s] = lease[s]]
    /\ CheckGoto(w, s, "state")
    /\ UNCHANGED <<state, age, lease, pass, misses, historyVars>>

CheckState(w, s) ==
    /\ check[w][s] = "state"
    /\ CheckGoto(w, s, IF state[s] = "Active" THEN "elapsed" ELSE "idle")
    /\ UNCHANGED <<state, age, lease, pass, todo, read, misses, historyVars>>

\* Mutant: a heartbeat exactly as old as the lease already counts as silence.
ExpiredEarly(w, s) == age[s] >= read[w][s]

Expired(w, s) == age[s] > read[w][s]

CheckElapsed(w, s) ==
    /\ check[w][s] = "elapsed"
    /\ CheckGoto(w, s, IF Expired(w, s) THEN "tripping" ELSE "idle")
    /\ UNCHANGED <<state, age, lease, pass, todo, read, misses, historyVars>>

\* trip_kill_switch: load and compare-and-swap of ACTIVE, a no-op otherwise.
\* A guard ends after it.
CheckTrip(w, s) ==
    /\ check[w][s] = "tripping"
    /\ CheckGoto(w, s, IF w = Watchdog THEN "idle" ELSE "done")
    /\ state' = IF state[s] = "Active" THEN Set(state, s, "Tripped") ELSE state
    /\ cause' = IF state[s] = "Active" THEN Set(cause, s, "L1") ELSE cause
    /\ UNCHANGED <<age, lease, pass, todo, read, misses, shortest, outage,
                   evidence, condemned, overdue>>
-----------------------------------------------------------------------------
(* watchdog_loop                                                           *)

\* Mutant: only the sessions that are not silent are looked at.
Responsive == {s \in Sessions : state[s] # "None" /\ age[s] <= lease[s]}

\* The handles of the pass: a snapshot of the registry.
Handles == {s \in Sessions : state[s] # "None"}

PassStart ==
    /\ pass = "asleep"
    /\ pass' = "leases"
    /\ todo' = Handles
    /\ UNCHANGED <<state, age, lease, checkVars, misses, historyVars>>

\* All L1 tasks of the pass have been joined.
LeasesDone ==
    /\ pass = "leases" /\ todo = {}
    /\ \A s \in Sessions : check[Watchdog][s] = "idle"
    /\ pass' = "probing"
    /\ UNCHANGED <<state, age, lease, todo, checkVars, misses, historyVars>>

\* Mutant: a long outage is counted without saturation.
CountOverflowing(ok) == IF ok THEN 0 ELSE misses + 1

\* Mutant: a probe that succeeds does not reset the counter.
CountMisses(ok) == IF ok THEN misses ELSE Min({misses + 1, MaxMisses})

\* note_health_probe: the counter after the probe.
NoteProbe(ok) == IF ok THEN 0 ELSE Min({misses + 1, MaxMisses})

\* gateway_health_check answers, fails or times out, and the pass decides.
Probe(ok) ==
    LET tripped == NoteProbe(ok) >= Threshold
        active == {s \in Sessions : state[s] = "Active"}
    IN
    /\ pass = "probing"
    /\ misses' = NoteProbe(ok)
    /\ outage' = IF ok THEN 0 ELSE Min({outage + 1, MaxMisses})
    /\ pass' = IF tripped THEN "tripping" ELSE "asleep"
    /\ todo' = IF tripped THEN active ELSE {}
    /\ condemned' = IF tripped THEN active ELSE {}
    /\ UNCHANGED <<state, age, lease, checkVars, cause, shortest, evidence,
                   overdue>>

\* Mutant: the mass trip spares a session whose own lease has not lapsed.
TripSilent(s) ==
    /\ pass = "tripping" /\ s \in todo
    /\ todo' = todo \ {s}
    /\ state' = IF state[s] = "Active" /\ age[s] > lease[s]
                THEN Set(state, s, "Tripped") ELSE state
    /\ UNCHANGED <<age, lease, pass, checkVars, misses, historyVars>>

\* One trip of the mass trip.
TripActive(s) ==
    /\ pass = "tripping" /\ s \in todo
    /\ todo' = todo \ {s}
    /\ state' = IF state[s] = "Active" THEN Set(state, s, "Tripped") ELSE state
    /\ cause' = IF state[s] = "Active" THEN Set(cause, s, "L2") ELSE cause
    /\ evidence' = IF state[s] = "Active" THEN Set(evidence, s, outage)
                                          ELSE evidence
    /\ UNCHANGED <<age, lease, pass, checkVars, misses, shortest, outage,
                   condemned, overdue>>

TripsDone ==
    /\ pass = "tripping" /\ todo = {}
    /\ pass' = "asleep"
    /\ UNCHANGED <<state, age, lease, todo, checkVars, misses, historyVars>>
-----------------------------------------------------------------------------
Client ==
    \E s \in Sessions :
        \/ \E l \in Leases :
             Attach(s, l) \/ SetPolicy(s, l)
        \/ Activate(s) \/ StopStrategy(s) \/ KeepAlive(s)

CheckStep(w, s) ==
    CheckState(w, s) \/ CheckElapsed(w, s) \/ CheckTrip(w, s)

WatchdogStep ==
    \/ PassStart \/ LeasesDone \/ TripsDone
    \/ \E ok \in BOOLEAN : Probe(ok)
    \/ \E s \in Sessions : TripActive(s) \/ CheckPolicy(Watchdog, s)

Next ==
    \/ Client \/ Tick \/ WatchdogStep
    \/ \E w \in Checkers, s \in Sessions : CheckStep(w, s)
    \/ \E w \in Checkers \ {Watchdog}, s \in Sessions : CheckPolicy(w, s)

Spec == Init /\ [][Next]_vars

\* The watchdog's task and the checks it spawned keep running (every venue call
\* in them has a timeout).  No client has to do anything.
Fairness ==
    /\ WF_vars(WatchdogStep)
    /\ \A w \in Checkers, s \in Sessions : WF_vars(CheckStep(w, s))

FairSpec == Spec /\ Fairness
-----------------------------------------------------------------------------
(* Properties                                                              *)

\* Types; in particular the miss counter saturates instead of wrapping.
TypeOK ==
    /\ state \in [Sessions -> {"None", "Waiting", "Active", "Tripped", "Stopped"}]
    /\ age \in [Sessions -> 0 .. MaxAge]
    /\ lease \in [Sessions -> Leases]
    /\ pass \in {"asleep", "leases", "probing", "tripping"}
    /\ todo \subseteq Sessions
    /\ check \in [Checkers -> [Sessions ->
                    {"idle", "state", "elapsed", "tripping", "done"}]]
    /\ read \in [Checkers -> [Sessions -> Leases \cup {0}]]
    /\ misses \in 0 .. MaxMisses
    /\ cause \in [Sessions -> {"none", "L1", "L2"}]
    /\ outage \in 0 .. MaxMisses /\ evidence \in [Sessions -> 0 .. MaxMisses]
    /\ condemned \subseteq Sessions
    /\ overdue \in [Sessions -> BOOLEAN]
    /\ shortest \in [Sessions -> Leases \cup {MaxAge}]

\* However watchdog, guards, heartbeats and policy changes interleave, the lease
\* tier trips a session only if, while ACTIVE, it was silent for longer than
\* some lease it had been given (check_lease_expiry, trip_kill_switch).
LeaseTripNeedsSilence ==
    \A s \in Sessions : cause[s] = "L1" => overdue[s]

\* The gateway tier trips a session only on a run of at least Threshold failed
\* probes with no successful one between them (note_health_probe: "Consecutive,
\* not per-tick"), and the counter is the length of that run, which saturates in
\* a long outage instead of wrapping round to health.
OutageTripNeedsEvidence ==
    /\ misses = outage
    /\ \A s \in Sessions : cause[s] = "L2" => evidence[s] >= Threshold

\* When the mass trip of a pass is over, no session that was ACTIVE when the
\* outage was declared is still ACTIVE, whatever raced it (watchdog_loop).
OutageTripsAll ==
    pass = "asleep" => \A s \in condemned : state[s] # "Active"

\* An ACTIVE session that has gone silent for longer than any lease is taken out
\* of ACTIVE or heard from again: leases are enforced.
SilenceTrips ==
    \A s \in Sessions :
        (state[s] = "Active" /\ age[s] = MaxAge)
            ~> (state[s] # "Active" \/ age[s] < MaxAge)
=============================================================================
