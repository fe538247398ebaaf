------------------------ MODULE LeaseWatchdogProofs ------------------------
(***************************************************************************)
(* Proofs about LeaseWatchdog, for any sessions, checkers, leases and      *)
(* thresholds.                                                             *)
(***************************************************************************)
EXTENDS LeaseWatchdog, WellFoundedInduction, TLAPS

USE DEF checkVars, historyVars

-----------------------------------------------------------------------------
(* The inductive invariants.                                               *)

\* A lease a session has is no shorter than the shortest it ever had, and so is
\* the lease a check has read and not yet compared.
LeasesKnown ==
    \A s \in Sessions :
        state[s] # "None" =>
            /\ shortest[s] \in Leases /\ shortest[s] <= lease[s]
            /\ \A w \in Checkers : check[w][s] \in {"state", "elapsed"} =>
                  read[w][s] \in Leases /\ shortest[s] <= read[w][s]

\* A check is of an attached session, and past its look at the state the session
\* is not one that could still become ACTIVE.
ChecksAttached ==
    \A w \in Checkers, s \in Sessions :
        /\ check[w][s] # "idle" => state[s] # "None"
        /\ check[w][s] \in {"elapsed", "tripping"} => state[s] # "Waiting"

\* Silence is noticed by the history, and a check that is about to trip an ACTIVE
\* session has seen it.
SilenceSeen ==
    \A s \in Sessions :
        state[s] = "Active" =>
            /\ age[s] > shortest[s] => overdue[s]
            /\ \A w \in Checkers : check[w][s] = "tripping" => overdue[s]

LeaseInv == LeasesKnown /\ ChecksAttached /\ SilenceSeen /\ LeaseTripNeedsSilence

\* While the mass trip runs the outage is still on, and a condemned session was
\* ACTIVE and has left that state unless its trip is still to come.
OutageInv ==
    /\ OutageTripNeedsEvidence
    /\ pass = "tripping" => misses >= Threshold
    /\ \A s \in condemned : state[s] \notin {"None", "Waiting"}
    /\ pass = "tripping" => \A s \in condemned : s \in todo \/ state[s] # "Active"
    /\ OutageTripsAll

-----------------------------------------------------------------------------
(* The operators.                                                          *)

\* The smaller of two numbers is one of them and no larger than either.
LEMMA MinOfTwo ==
    ASSUME NEW a \in Nat, NEW b \in Nat
    PROVE  Min({a, b}) \in {a, b} /\ Min({a, b}) <= a /\ Min({a, b}) <= b
<1>1. \E x \in {a, b} : \A y \in {a, b} : x <= y
  <2>1. CASE a <= b  BY <2>1
  <2>2. CASE b <= a  BY <2>2
  <2> QED  BY <2>1, <2>2
<1> QED  BY <1>1, Zenon DEF Min

\* There is a longest lease: the default one.
LEMMA LongestLease == Max(Leases) \in Leases
<1> DEFINE R == OpToRel(<, Nat)
           T == {MaxAge - l : l \in Leases}
<1>1. Leases \subseteq 1 .. MaxAge - 1 /\ Leases # {} /\ MaxAge \in Nat
    BY LeaseAssumption
<1>2. T \subseteq Nat /\ T # {}
  <2>1. ASSUME NEW l \in Leases PROVE MaxAge - l \in Nat
      BY <1>1
  <2>2. T \subseteq Nat
      BY <2>1
  <2>3. PICK l \in Leases : TRUE
      BY <1>1
  <2>4. MaxAge - l \in T
      OBVIOUS
  <2> QED  BY <2>2, <2>4
<1>3. PICK t \in T : \A u \in T : ~ (<<u, t>> \in R)
    BY <1>2, NatLessThanWellFounded, WFMin, Zenon
<1>4. PICK m \in Leases : t = MaxAge - m
    OBVIOUS
<1>5. ASSUME NEW l \in Leases PROVE m >= l
  <2>1. MaxAge - l \in T /\ MaxAge - l \in Nat /\ t \in Nat
      BY <1>2, <1>5
  <2>2. ~ (MaxAge - l < t)
      BY <2>1, <1>3 DEF OpToRel
  <2> QED  BY <2>1, <2>2, <1>1, <1>4
<1>6. \E x \in Leases : \A y \in Leases : x >= y
    BY <1>5
<1> QED  BY <1>6, Zenon DEF Max

-----------------------------------------------------------------------------
(* Type correctness.                                                       *)

\* The shortest lease of a session stays one of its leases.
LEMMA ShortestType ==
    ASSUME NEW a \in Leases \cup {MaxAge}, NEW l \in Leases
    PROVE  Min({a, l}) \in Leases \cup {MaxAge}
BY MinOfTwo, LeaseAssumption

\* A counter that saturates stays within its width.
LEMMA CounterType ==
    ASSUME NEW n \in 0 .. MaxMisses
    PROVE  Min({n + 1, MaxMisses}) \in 0 .. MaxMisses
BY MinOfTwo, LeaseAssumption

\* Clients and time keep the types.
LEMMA ClientTypes ==
    ASSUME TypeOK, Client \/ Tick
    PROVE  TypeOK'
<1> USE DEF TypeOK, Set
<1>1. ASSUME NEW s \in Sessions, NEW l \in Leases, Attach(s, l) PROVE TypeOK'
    BY <1>1 DEF Attach
<1>2. ASSUME NEW s \in Sessions, NEW l \in Leases, SetPolicy(s, l) PROVE TypeOK'
  <2>1. Min({shortest[s], l}) \in Leases \cup {MaxAge}
      BY ShortestType
  <2>2. shortest' \in [Sessions -> Leases \cup {MaxAge}] /\ lease' \in [Sessions -> Leases]
      BY <1>2, <2>1 DEF SetPolicy
  <2>3. overdue' \in [Sessions -> BOOLEAN]
      BY <1>2 DEF SetPolicy, Observe
  <2> QED  BY <1>2, <2>2, <2>3 DEF SetPolicy
<1>3. ASSUME NEW s \in Sessions, Activate(s) PROVE TypeOK'
    BY <1>3 DEF Activate, Observe
<1>4. ASSUME NEW s \in Sessions, StopStrategy(s) PROVE TypeOK'
    BY <1>4 DEF StopStrategy
<1>5. ASSUME NEW s \in Sessions, KeepAlive(s) PROVE TypeOK'
    BY <1>5, LeaseAssumption DEF KeepAlive
<1>6. ASSUME Tick PROVE TypeOK'
  <2>1. ASSUME NEW s \in Sessions, age[s] # MaxAge PROVE age[s] + 1 \in 0 .. MaxAge
    <3>1. age[s] \in 0 .. MaxAge /\ MaxAge \in Nat
        BY LeaseAssumption
    <3> HIDE DEF TypeOK
    <3> QED  BY <3>1, <2>1
  <2>2. age' \in [Sessions -> 0 .. MaxAge]
      BY <1>6, <2>1 DEF Tick
  <2>3. overdue' \in [Sessions -> BOOLEAN]
      BY <1>6 DEF Tick, Observe
  <2> QED  BY <1>6, <2>2, <2>3 DEF Tick
<1> HIDE DEF TypeOK
<1> QED  BY <1>1, <1>2, <1>3, <1>4, <1>5, <1>6 DEF Client

\* The lease checks keep the types.
LEMMA CheckTypes ==
    ASSUME TypeOK, NEW w \in Checkers, NEW s \in Sessions,
           CheckPolicy(w, s) \/ CheckStep(w, s)
    PROVE  TypeOK'
<1> USE DEF TypeOK, Set, CheckGoto
<1>1. CASE CheckPolicy(w, s)  BY <1>1 DEF CheckPolicy
<1>2. CASE CheckState(w, s)  BY <1>2 DEF CheckState
<1>3. CASE CheckElapsed(w, s)  BY <1>3 DEF CheckElapsed
<1>4. CASE CheckTrip(w, s)  BY <1>4 DEF CheckTrip
<1> HIDE DEF TypeOK
<1> QED  BY <1>1, <1>2, <1>3, <1>4 DEF CheckStep

\* The pass of the watchdog keeps the types.
LEMMA PassTypes ==
    ASSUME TypeOK, WatchdogStep
    PROVE  TypeOK'
<1> USE DEF TypeOK, Set
<1>1. CASE PassStart  BY <1>1 DEF PassStart, Handles
<1>2. CASE LeasesDone  BY <1>2 DEF LeasesDone
<1>3. CASE TripsDone  BY <1>3 DEF TripsDone
<1>4. ASSUME NEW ok \in BOOLEAN, Probe(ok) PROVE TypeOK'
  <2>1. 0 \in 0 .. MaxMisses
      BY LeaseAssumption
  <2>2. misses' \in 0 .. MaxMisses /\ outage' \in 0 .. MaxMisses
      BY <1>4, <2>1, CounterType DEF Probe, NoteProbe
  <2>3. todo' \subseteq Sessions /\ condemned' \subseteq Sessions
        /\ pass' \in {"asleep", "leases", "probing", "tripping"}
      BY <1>4 DEF Probe
  <2> QED  BY <1>4, <2>2, <2>3 DEF Probe
<1>5. ASSUME NEW s \in Sessions, TripActive(s) PROVE TypeOK'
    BY <1>5 DEF TripActive
<1> HIDE DEF TypeOK
<1>6. ASSUME NEW s \in Sessions, CheckPolicy(Watchdog, s) PROVE TypeOK'
    BY <1>6, CheckTypes, LeaseAssumption
<1> QED  BY <1>1, <1>2, <1>3, <1>4, <1>5, <1>6 DEF WatchdogStep

\* Every step keeps the types.
LEMMA NextTypes ==
    ASSUME TypeOK, [Next]_vars
    PROVE  TypeOK'
<1>1. CASE UNCHANGED vars  BY <1>1 DEF vars, TypeOK
<1> QED  BY <1>1, ClientTypes, CheckTypes, PassTypes DEF Next

\* The state of the watchdog, of its counter and of every check is well typed in
\* every reachable state; the miss counter (health_failures) stays in its width.
THEOREM LeaseTypesHold == Spec => []TypeOK
<1>1. Init => TypeOK
    BY LongestLease, LeaseAssumption DEF Init, TypeOK
<1>2. TypeOK /\ [Next]_vars => TypeOK'
    BY NextTypes
<1> QED  BY <1>1, <1>2, PTL DEF Spec

-----------------------------------------------------------------------------
(* The lease tier.                                                         *)

\* Leases and ages are numbers, and no lease is 0.
LEMMA Numbers ==
    ASSUME TypeOK, NEW s \in Sessions
    PROVE  /\ age[s] \in Nat /\ shortest[s] \in Nat /\ lease[s] \in Nat \ {0}
           /\ \A w \in Checkers : read[w][s] \in Nat
           /\ Leases \subseteq Nat \ {0}
<1>1. Leases \subseteq Nat \ {0} /\ MaxAge \in Nat
    BY LeaseAssumption
<1>2. age[s] \in 0 .. MaxAge /\ shortest[s] \in Leases \cup {MaxAge} /\ lease[s] \in Leases
    BY DEF TypeOK
<1>3. \A w \in Checkers : read[w][s] \in Leases \cup {0}
    BY DEF TypeOK
<1>4. age[s] \in Nat
    BY <1>1, <1>2
<1>5. shortest[s] \in Nat /\ lease[s] \in Nat \ {0}
    BY <1>1, <1>2
<1>6. ASSUME NEW w \in Checkers PROVE read[w][s] \in Nat
  <2>1. CASE read[w][s] \in Leases  BY <2>1, <1>1
  <2>2. CASE read[w][s] = 0  BY <2>2
  <2> QED  BY <2>1, <2>2, <1>3
<1> QED  BY <1>1, <1>4, <1>5, <1>6

\* What clients do, and the passing of time, keep the invariant of the lease tier.
LEMMA ClientLease ==
    ASSUME TypeOK, TypeOK', LeaseInv, Client \/ Tick
    PROVE  LeaseInv'
<1> USE Numbers DEF LeaseInv, LeasesKnown, ChecksAttached, SilenceSeen, LeaseTripNeedsSilence,
        TypeOK, Set
<1>1. ASSUME NEW s \in Sessions, NEW l \in Leases, Attach(s, l) PROVE LeaseInv'
    BY <1>1 DEF Attach
<1>2. ASSUME NEW s \in Sessions, NEW l \in Leases, SetPolicy(s, l) PROVE LeaseInv'
  <2>1. /\ Min({shortest[s], l}) \in {shortest[s], l}
        /\ Min({shortest[s], l}) <= shortest[s] /\ Min({shortest[s], l}) <= l
      BY MinOfTwo
  <2>2. ChecksAttached'
      BY <1>2 DEF SetPolicy
  <2>3. shortest[s] \in Leases /\ shortest[s] \in Nat /\ l \in Nat
      BY <1>2 DEF SetPolicy
  <2>4. shortest'[s] \in Leases /\ shortest'[s] <= lease'[s] /\ shortest'[s] <= shortest[s]
      BY <1>2, <2>1, <2>3 DEF SetPolicy
  <2>5. ASSUME NEW w \in Checkers, check[w][s] \in {"state", "elapsed"}
        PROVE  read[w][s] \in Leases /\ shortest'[s] <= read[w][s]
    <3>1. read[w][s] \in Leases /\ shortest[s] <= read[w][s]
        BY <1>2, <2>5 DEF SetPolicy
    <3>2. shortest'[s] \in Nat /\ read[w][s] \in Nat
        BY <2>4
    <3> HIDE DEF TypeOK, LeaseInv
    <3> QED  BY <3>1, <3>2, <2>3, <2>4
  <2>6. \A q \in Sessions \ {s} : shortest'[q] = shortest[q] /\ lease'[q] = lease[q]
      BY <1>2 DEF SetPolicy
  <2>7. LeasesKnown' /\ ChecksAttached'
      BY <1>2, <2>2, <2>4, <2>5, <2>6 DEF SetPolicy
  <2>8. SilenceSeen' /\ LeaseTripNeedsSilence'
      BY <1>2 DEF SetPolicy, Observe
  <2> QED  BY <2>7, <2>8
<1>3. ASSUME NEW s \in Sessions, Activate(s) PROVE LeaseInv'
  <2>1. LeasesKnown' /\ ChecksAttached'
      BY <1>3 DEF Activate
  <2>2. \A q \in Sessions : overdue[q] => overdue'[q]
      BY <1>3 DEF Activate, Observe
  <2>3. LeaseTripNeedsSilence'
      BY <1>3, <2>2 DEF Activate
  <2>4. ASSUME NEW q \in Sessions, state'[q] = "Active"
        PROVE  age'[q] > shortest'[q] => overdue'[q]
      BY <1>3, <2>4 DEF Activate, Observe
  <2>5. ASSUME NEW q \in Sessions, state'[q] = "Active",
               NEW w \in Checkers, check'[w][q] = "tripping"
        PROVE  overdue'[q]
      BY <1>3, <2>2, <2>5 DEF Activate
  <2>6. SilenceSeen'
      BY <2>4, <2>5
  <2> QED  BY <2>1, <2>3, <2>6
<1>4. ASSUME NEW s \in Sessions, StopStrategy(s) PROVE LeaseInv'
    BY <1>4 DEF StopStrategy
<1>5. ASSUME NEW s \in Sessions, KeepAlive(s) PROVE LeaseInv'
    BY <1>5 DEF KeepAlive
<1>6. ASSUME Tick PROVE LeaseInv'
    BY <1>6 DEF Tick, Observe
<1> HIDE DEF LeaseInv
<1> QED  BY <1>1, <1>2, <1>3, <1>4, <1>5, <1>6 DEF Client

\* So do the steps of a check: the lease it read is one the session had, and the
\* age it compared was seen by the history.
LEMMA CheckLease ==
    ASSUME TypeOK, LeaseInv, NEW w \in Checkers, NEW s \in Sessions,
           CheckPolicy(w, s) \/ CheckStep(w, s)
    PROVE  LeaseInv'
<1> USE Numbers DEF LeaseInv, LeasesKnown, ChecksAttached, SilenceSeen, LeaseTripNeedsSilence,
        TypeOK, Set, CheckGoto
<1>1. CASE CheckPolicy(w, s)  BY <1>1 DEF CheckPolicy
<1>2. CASE CheckState(w, s)  BY <1>2 DEF CheckState
<1>3. CASE CheckElapsed(w, s)
  <2>1. /\ UNCHANGED <<state, age, lease, read, cause, shortest, overdue>>
        /\ check[w][s] = "elapsed"
        /\ check'[w][s] \in {"idle", "tripping"}
        /\ check'[w][s] = "tripping" => Expired(w, s)
        /\ \A v \in Checkers, u \in Sessions :
              v # w \/ u # s => check'[v][u] = check[v][u]
    BY <1>3 DEF CheckElapsed
  <2>2. state[s] = "Active" /\ Expired(w, s) => overdue[s]
    <3>1. read[w][s] \in Nat /\ shortest[s] \in Nat /\ age[s] \in Nat
          /\ shortest[s] <= read[w][s]
      BY <2>1
    <3> QED  BY <3>1 DEF Expired
  <2> HIDE <1>3 DEF TypeOK, LeaseInv, LeasesKnown, ChecksAttached, SilenceSeen,
           LeaseTripNeedsSilence
  <2>3. LeasesKnown'  BY <2>1 DEF LeaseInv, LeasesKnown
  <2>4. ChecksAttached'  BY <2>1 DEF LeaseInv, ChecksAttached
  <2>5. SilenceSeen'  BY <2>1, <2>2 DEF LeaseInv, SilenceSeen
  <2>6. LeaseTripNeedsSilence'  BY <2>1 DEF LeaseInv, LeaseTripNeedsSilence
  <2> QED  BY <2>3, <2>4, <2>5, <2>6 DEF LeaseInv
<1>4. CASE CheckTrip(w, s)  BY <1>4 DEF CheckTrip
<1> HIDE DEF LeaseInv
<1> QED  BY <1>1, <1>2, <1>3, <1>4 DEF CheckStep

\* So does the pass, whose mass trip only takes sessions out of ACTIVE.
LEMMA PassLease ==
    ASSUME TypeOK, LeaseInv, WatchdogStep
    PROVE  LeaseInv'
<1> USE DEF LeaseInv, LeasesKnown, ChecksAttached, SilenceSeen, LeaseTripNeedsSilence,
        TypeOK, Set
<1>1. CASE PassStart  BY <1>1 DEF PassStart
<1>2. CASE LeasesDone  BY <1>2 DEF LeasesDone
<1>3. CASE TripsDone  BY <1>3 DEF TripsDone
<1>4. ASSUME NEW ok \in BOOLEAN, Probe(ok) PROVE LeaseInv'
    BY <1>4 DEF Probe
<1>5. ASSUME NEW s \in Sessions, TripActive(s) PROVE LeaseInv'
    BY <1>5 DEF TripActive
<1> HIDE DEF LeaseInv
<1>6. ASSUME NEW s \in Sessions, CheckPolicy(Watchdog, s) PROVE LeaseInv'
    BY <1>6, CheckLease, LeaseAssumption
<1> QED  BY <1>1, <1>2, <1>3, <1>4, <1>5, <1>6 DEF WatchdogStep

\* However heartbeats, policies, stops, the watchdog and the guards interleave,
\* the lease tier trips only a session that, while ACTIVE, was silent for longer
\* than a lease it had been given (check_lease_expiry, trip_kill_switch).
THEOREM LeaseTripsJustified == Spec => []LeaseTripNeedsSilence
<1>1. Init => LeaseInv
    BY DEF Init, LeaseInv, LeasesKnown, ChecksAttached, SilenceSeen, LeaseTripNeedsSilence
<1>2. TypeOK /\ TypeOK' /\ LeaseInv /\ [Next]_vars => LeaseInv'
  <2> SUFFICES ASSUME TypeOK, TypeOK', LeaseInv, [Next]_vars PROVE LeaseInv'
      OBVIOUS
  <2>1. CASE UNCHANGED vars
      BY <2>1 DEF vars, LeaseInv, LeasesKnown, ChecksAttached, SilenceSeen,
         LeaseTripNeedsSilence
  <2> QED  BY <2>1, ClientLease, CheckLease, PassLease DEF Next
<1>3. LeaseInv => LeaseTripNeedsSilence
    BY DEF LeaseInv
<1> QED  BY <1>1, <1>2, <1>3, LeaseTypesHold, PTL DEF Spec

-----------------------------------------------------------------------------
(* The gateway tier.                                                       *)

\* What clients and checks do never makes a condemned session ACTIVE again, and
\* leaves the outage alone.
LEMMA OthersOutage ==
    ASSUME TypeOK, OutageInv,
           \/ Client \/ Tick
           \/ \E w \in Checkers, s \in Sessions : CheckPolicy(w, s) \/ CheckStep(w, s)
    PROVE  OutageInv'
<1>1. /\ UNCHANGED <<pass, misses, outage, evidence, condemned>>
      /\ pass = "leases" \/ UNCHANGED todo
    BY DEF Client, Attach, SetPolicy, Activate, StopStrategy, KeepAlive, Tick,
       CheckPolicy, CheckStep, CheckState, CheckElapsed, CheckTrip
<1>2. /\ \A s \in Sessions : state[s] \notin {"None", "Waiting"} =>
            /\ state'[s] \notin {"None", "Waiting"}
            /\ state[s] # "Active" => state'[s] # "Active"
      /\ \A s \in Sessions : cause'[s] = "L2" => cause[s] = "L2"
  <2> DEFINE Onward ==
        /\ \A s \in Sessions : state[s] \notin {"None", "Waiting"} =>
              /\ state'[s] \notin {"None", "Waiting"}
              /\ state[s] # "Active" => state'[s] # "Active"
        /\ \A s \in Sessions : cause'[s] = "L2" => cause[s] = "L2"
  <2>1. ASSUME NEW s \in Sessions, NEW l \in Leases, Attach(s, l)
        PROVE  Onward
    BY <2>1 DEF Attach, Set, TypeOK
  <2>2. ASSUME NEW s \in Sessions, Activate(s)
        PROVE  Onward
    BY <2>2 DEF Activate, Set, TypeOK
  <2>3. ASSUME NEW s \in Sessions, StopStrategy(s)
        PROVE  Onward
    BY <2>3 DEF StopStrategy, Set, TypeOK
  <2>4. ASSUME NEW w \in Checkers, NEW s \in Sessions, CheckTrip(w, s)
        PROVE  Onward
    <3>1. CASE state[s] = "Active"
      BY <2>4, <3>1 DEF CheckTrip, Set, TypeOK
    <3>2. CASE state[s] # "Active"
      BY <2>4, <3>2 DEF CheckTrip
    <3> QED  BY <3>1, <3>2
  <2>5. ASSUME UNCHANGED <<state, cause>>
        PROVE  Onward
    BY <2>5
  <2>6. SUFFICES Onward
    OBVIOUS
  <2> HIDE DEF Onward
  <2> QED
    BY <2>1, <2>2, <2>3, <2>4, <2>5 DEF Client, SetPolicy, KeepAlive, Tick,
       CheckPolicy, CheckStep, CheckState, CheckElapsed
<1>3. condemned \subseteq Sessions
    BY DEF TypeOK
<1> QED
    BY <1>1, <1>2, <1>3 DEF OutageInv, OutageTripNeedsEvidence, OutageTripsAll

\* The pass keeps the invariant of the gateway tier: a probe condemns the sessions
\* that are ACTIVE, and each trip takes one of them out of ACTIVE.
LEMMA PassOutage ==
    ASSUME TypeOK, OutageInv, WatchdogStep
    PROVE  OutageInv'
<1> USE DEF OutageInv, OutageTripNeedsEvidence, OutageTripsAll, TypeOK, Set
<1>1. CASE PassStart  BY <1>1 DEF PassStart
<1>2. CASE LeasesDone  BY <1>2 DEF LeasesDone
<1>3. CASE TripsDone  BY <1>3 DEF TripsDone
<1>4. ASSUME NEW ok \in BOOLEAN, Probe(ok) PROVE OutageInv'
    BY <1>4 DEF Probe, NoteProbe
<1>5. ASSUME NEW s \in Sessions, TripActive(s) PROVE OutageInv'
    BY <1>5 DEF TripActive
<1> HIDE DEF OutageInv, TypeOK
<1>6. ASSUME NEW s \in Sessions, CheckPolicy(Watchdog, s) PROVE OutageInv'
    BY <1>6, OthersOutage, LeaseAssumption
<1> QED  BY <1>1, <1>2, <1>3, <1>4, <1>5, <1>6 DEF WatchdogStep

\* The invariant of the gateway tier holds in every reachable state.
LEMMA OutageInvHolds == Spec => []OutageInv
<1>1. Init => OutageInv
    BY DEF Init, OutageInv, OutageTripNeedsEvidence, OutageTripsAll
<1>2. TypeOK /\ OutageInv /\ [Next]_vars => OutageInv'
  <2> SUFFICES ASSUME TypeOK, OutageInv, [Next]_vars PROVE OutageInv'
      OBVIOUS
  <2>1. CASE UNCHANGED vars
      BY <2>1 DEF vars, OutageInv, OutageTripNeedsEvidence, OutageTripsAll
  <2> QED  BY <2>1, OthersOutage, PassOutage DEF Next
<1> QED  BY <1>1, <1>2, LeaseTypesHold, PTL DEF Spec

\* Over any sequence of probe results, the gateway tier trips a session only on a
\* run of at least HEALTH_PROBE_FAILURE_THRESHOLD failed probes, and the counter
\* is the length of that run (note_health_probe).
THEOREM OutageTripsJustified == Spec => []OutageTripNeedsEvidence
<1>1. OutageInv => OutageTripNeedsEvidence
    BY DEF OutageInv
<1> QED  BY <1>1, OutageInvHolds, PTL

\* A mass trip leaves none of the sessions ACTIVE that were when it was decided,
\* whatever attaches, reconciles, stops and lease checks race it (watchdog_loop).
THEOREM OutageTripsComplete == Spec => []OutageTripsAll
<1>1. OutageInv => OutageTripsAll
    BY DEF OutageInv
<1> QED  BY <1>1, OutageInvHolds, PTL

=============================================================================
