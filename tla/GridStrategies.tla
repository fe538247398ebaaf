--------------------------- MODULE GridStrategies ---------------------------
(***************************************************************************)
(* The two grid strategies of the worker, which track their own orders:    *)
(* simple_grid, with fill flips, a kill-switch and a ladder kept in a      *)
(* state file across restarts, and skewed_grid, which re-plans its ladder  *)
(* around the mid.                                                         *)
(*                                                                         *)
(* A rebalance works on a copy of the ladder (work) and stores it at its   *)
(* end (levels); in between it awaits the venue once per request, and any  *)
(* of these may be refused, lost or late.  The process may die between     *)
(* any two steps, the two of a save included.                              *)
(***************************************************************************)
EXTENDS Integers, Sequences, FiniteSets, SequencesExt

CONSTANTS
    None,                   \* no state file written yet
    Damaged,                \* a state file that cannot be read or parsed
    num_levels,             \* steps of simple_grid's band, which has one more rung
    max_consecutive_errors, \* failed placements of a rebalance that trip the kill-switch
    MaxEvents,              \* bound: fills, moves of the mid, faults and restarts together
    MaxFaults,              \* bound: requests and saves that fail
    MaxCrashes              \* bound: restarts of the process

ASSUME GridAssumption ==
    /\ None # Damaged
    /\ num_levels \in Nat \ {0}
    /\ max_consecutive_errors \in Nat \ {0}
    /\ MaxEvents \in Nat /\ MaxFaults \in Nat /\ MaxCrashes \in Nat

VARIABLES
    kind,     \* which grid this process hosts, fixed at start
    levels,   \* the tracked ladder, empty after a restart
    pc,       \* where the rebalance is: sleep, stale, place, cancel, save or rename
    work,     \* the ladder as the running rebalance sees it
    todo,     \* the levels it still has to place
    cancels,  \* the levels it still has to cancel
    errors,   \* placements that failed in this rebalance
    file,     \* the ladder in the state file
    book,     \* the orders resting at the venue
    late,     \* requests whose caller timed out and which are still coming
    mid,      \* the market's price, which skewed_grid reads on every poll
    net,      \* the signed quantity of all fills
    moves,    \* how often the market has moved or an order has filled
    seeds,    \* fresh ladders started so far
    refused,  \* placements the venue refused
    unsure,   \* placements that failed for the caller only, and cancels refused or late
    unsaved,  \* saves that failed and state files that were damaged
    crashes   \* restarts so far

market == <<mid, net, moves>>
faults == <<refused, unsure, unsaved>>
vars == <<kind, levels, pc, work, todo, cancels, errors, file, book, late,
          market, seeds, faults, crashes>>

Faults == refused + unsure + unsaved
Events == moves + Faults + crashes

-----------------------------------------------------------------------------
(* Levels.  coid is the client order id and placed says whether the level  *)
(* also has the venue's order id, which only an accepted placement gives.  *)
(* An id is fresh when nothing in the system has it; a ULID is.            *)

lower_price == 0
upper_price == num_levels
InBand(price) == price \in lower_price .. upper_price

Coids(ladder) == {l.coid : l \in ToSet(ladder)}

\* simple_grid is run with a state_file; skewed_grid has none.
stateful == kind = "simple_grid"

Recorded == IF file \in {None, Damaged} THEN <<>> ELSE file

FreshCoids(n) ==
    LET used == Coids(levels) \cup Coids(Recorded) \cup {o.coid : o \in book}
                  \cup {r.order.coid : r \in late}
    IN  SetToSortSeq((1 .. Cardinality(used) + n) \ used, <)

Level(price, side, coid) == [price |-> price, side |-> side, coid |-> coid, placed |-> FALSE]

OrderOf(level) == [coid |-> level.coid, price |-> level.price, side |-> level.side]

Sign(side) == IF side = "Buy" THEN 1 ELSE -1

-----------------------------------------------------------------------------
(* simple_grid: which orders a rebalance wants.                            *)

SideFor(price, current) == IF price < current THEN "Buy" ELSE "Sell"

CalculateLevels(current) ==
    LET coids == FreshCoids(num_levels + 1)
    IN  [i \in 1 .. num_levels + 1 |-> Level(i - 1, SideFor(i - 1, current), coids[i])]

Alive(level) == \E o \in book : o.coid = level.coid \/ o.price = level.price

\* Mutant: the re-quoted leg keeps its side.
SameSide(level) == level.side

OppositeSide(level) == IF level.side = "Sell" THEN "Buy" ELSE "Sell"

OppositePrice(level) == IF level.side = "Sell" THEN level.price - 1 ELSE level.price + 1

\* Mutant: a level that could not be placed waits for a fill that never comes.
PlacedFlips == {i \in DOMAIN levels : levels[i].placed /\ ~Alive(levels[i]) /\ InBand(OppositePrice(levels[i]))}

\* The levels a rebalance replaces by the opposite leg one step away.
Flips == {i \in DOMAIN levels : ~Alive(levels[i]) /\ InBand(OppositePrice(levels[i]))}

Flipped ==
    LET coids == FreshCoids(Cardinality(Flips))
        Nth(i) == Cardinality({j \in Flips : j <= i})
    IN  [i \in DOMAIN levels |->
           IF i \in Flips
           THEN Level(OppositePrice(levels[i]), OppositeSide(levels[i]), coids[Nth(i)])
           ELSE levels[i]]

\* No file and an empty ladder both mean there is nothing to restore; levels outside
\* the band are dropped.  A file that cannot be read or parsed is an error instead,
\* which ends the rebalance before it has changed anything.
RestoreFails == file = Damaged

RestoreLevels == SelectSeq(Recorded, LAMBDA l : InBand(l.price))

-----------------------------------------------------------------------------
(* skewed_grid: no fill is ever reported to it (record_fill has no caller) *)
(* so its inventory stays zero and the reservation price is the mid.  One  *)
(* level per side.                                                         *)

PlanSkewedGrid == <<mid - 1, mid + 1>>

Desired == ToSet(PlanSkewedGrid)

Prices(ladder) == {l.price : l \in ToSet(ladder)}

\* The missing prices of the plan as levels to place.
Missing(prices) ==
    LET wanted == SetToSortSeq(prices, <)
        coids == FreshCoids(Len(wanted))
    IN  [i \in DOMAIN wanted |-> Level(wanted[i], SideFor(wanted[i], mid), coids[i])]

-----------------------------------------------------------------------------
Init ==
    /\ kind \in {"simple_grid", "skewed_grid"}
    /\ levels = <<>> /\ work = <<>> /\ todo = <<>> /\ cancels = <<>>
    /\ pc = "sleep"
    /\ errors = 0
    /\ file = None
    /\ book = {} /\ late = {}
    /\ mid = lower_price
    /\ net = 0 /\ moves = 0 /\ seeds = 0
    /\ refused = 0 /\ unsure = 0 /\ unsaved = 0
    /\ crashes = 0

(* The poll, simple_grid: an empty ladder is restored or seeded, and one   *)
(* that is not is compared with the orders the venue reports.  The price   *)
(* matters only to a seed.  While the restore fails, every poll ends there *)
(* and the grid stands still.                                              *)
Restore ==
    /\ kind = "simple_grid" /\ pc = "sleep" /\ levels = <<>>
    /\ ~RestoreFails /\ RestoreLevels # <<>>
    /\ levels' = RestoreLevels
    /\ UNCHANGED <<kind, pc, work, todo, cancels, errors, file, book, late,
                   market, seeds, faults, crashes>>

Seed ==
    /\ kind = "simple_grid" /\ pc = "sleep" /\ levels = <<>>
    /\ ~RestoreFails /\ RestoreLevels = <<>>
    /\ \E current \in lower_price .. upper_price + 1 : work' = CalculateLevels(current)
    /\ todo' = work'
    /\ pc' = "place"
    /\ seeds' = seeds + 1
    /\ UNCHANGED <<kind, levels, cancels, errors, file, book, late, market, faults, crashes>>

Reconcile ==
    /\ kind = "simple_grid" /\ pc = "sleep" /\ levels # <<>>
    /\ Flips # {}
    /\ work' = Flipped
    /\ todo' = SelectSeq(work', LAMBDA l : l.coid \notin Coids(levels))
    /\ pc' = "place"
    /\ UNCHANGED <<kind, levels, cancels, errors, file, book, late,
                   market, seeds, faults, crashes>>

\* The poll, skewed_grid: levels whose price left the plan are cancelled, then the missing ones placed.
SeedSkewed ==
    /\ kind = "skewed_grid" /\ pc = "sleep" /\ levels = <<>>
    /\ todo' = Missing(Desired)
    /\ pc' = "place"
    /\ seeds' = seeds + 1
    /\ UNCHANGED <<kind, levels, work, cancels, errors, file, book, late,
                   market, faults, crashes>>

ReplanSkewed ==
    /\ kind = "skewed_grid" /\ pc = "sleep" /\ levels # <<>>
    /\ Prices(levels) # Desired
    /\ work' = SelectSeq(levels, LAMBDA l : l.price \in Desired)
    /\ cancels' = SelectSeq(levels, LAMBDA l : l.price \notin Desired)
    /\ todo' = Missing(Desired \ Prices(levels))
    /\ pc' = "stale"
    /\ UNCHANGED <<kind, levels, errors, file, book, late, market, seeds, faults, crashes>>

-----------------------------------------------------------------------------
(* Placing.  simple_grid goes through its levels in order and already has  *)
(* them in the ladder; skewed_grid's plan is a hash set when it re-plans,  *)
(* and a level enters the ladder once it is placed.                        *)

Turns(seq) == IF kind = "skewed_grid" /\ levels # <<>> THEN DOMAIN seq ELSE DOMAIN seq \cap {1}

Booked(ladder, level) ==
    IF kind = "skewed_grid" THEN Append(ladder, [level EXCEPT !.placed = TRUE])
    ELSE [i \in DOMAIN ladder |->
            IF ladder[i].coid = level.coid THEN [level EXCEPT !.placed = TRUE] ELSE ladder[i]]

AnyFault == Faults < MaxFaults /\ Events < MaxEvents

PlaceOk ==
    /\ pc = "place"
    /\ \E i \in Turns(todo) :
         /\ book' = book \cup {OrderOf(todo[i])}
         /\ work' = Booked(work, todo[i])
         /\ todo' = RemoveAt(todo, i)
    /\ UNCHANGED <<kind, levels, pc, cancels, errors, file, late, market, seeds, faults, crashes>>

\* The caller sees an error: the venue refused, or executed and the answer was lost, or will execute.
PlaceFails ==
    /\ pc = "place" /\ AnyFault
    /\ \E i \in Turns(todo) :
         /\ todo' = RemoveAt(todo, i)
         /\ \/ refused' = refused + 1 /\ UNCHANGED <<book, late, unsure>>
            \/ /\ book' = book \cup {OrderOf(todo[i])}
               /\ unsure' = unsure + 1
               /\ UNCHANGED <<late, refused>>
            \/ /\ late' = late \cup {[op |-> "create", order |-> OrderOf(todo[i])]}
               /\ unsure' = unsure + 1
               /\ UNCHANGED <<book, refused>>
    /\ errors' = errors + 1
    /\ UNCHANGED <<kind, levels, pc, work, cancels, file, market, seeds, unsaved, crashes>>

-----------------------------------------------------------------------------
(* Cancelling, of the stale levels and in the kill-switch: an error is     *)
(* logged.  A level without the venue's order id is skipped.               *)

CancelDone(i) ==
    /\ cancels' = RemoveAt(cancels, i)
    /\ UNCHANGED <<kind, levels, pc, work, todo, errors, file, market, seeds,
                   refused, unsaved, crashes>>

Addressed(level) == {o \in book : o.coid = level.coid}

CancelOk ==
    /\ pc \in {"stale", "cancel"}
    /\ \E i \in Turns(cancels) :
         /\ book' = book \ Addressed(cancels[i])
         /\ CancelDone(i)
    /\ UNCHANGED <<late, unsure>>

CancelFails ==
    /\ pc \in {"stale", "cancel"} /\ AnyFault
    /\ \E i \in Turns(cancels) :
         /\ Addressed(cancels[i]) # {}
         /\ \/ UNCHANGED late
            \/ late' = late \cup {[op |-> "cancel", order |-> OrderOf(cancels[i])]}
         /\ CancelDone(i)
    /\ unsure' = unsure + 1
    /\ UNCHANGED book

\* The stale levels are gone; the missing ones follow.
StaleGone ==
    /\ pc = "stale" /\ cancels = <<>>
    /\ pc' = "place"
    /\ UNCHANGED <<kind, levels, work, todo, cancels, errors, file, book, late,
                   market, seeds, faults, crashes>>

-----------------------------------------------------------------------------
(* The end of a rebalance.  simple_grid saves after a seed and after the   *)
(* kill-switch, never after a flip; the save writes and syncs a temporary  *)
(* file, renames it and ignores its own failure.                           *)

Commit(ladder) ==
    /\ levels' = ladder
    /\ work' = <<>>
    /\ errors' = 0
    /\ pc' = "sleep"

\* Mutant: the ladder the kill-switch dropped stays in the state file.
PersistSeedsOnly(ladder) ==
    IF stateful /\ ladder # <<>>
    THEN work' = ladder /\ pc' = "save" /\ UNCHANGED <<levels, errors>>
    ELSE Commit(ladder)

PersistLevels(ladder) ==
    IF stateful
    THEN work' = ladder /\ pc' = "save" /\ UNCHANGED <<levels, errors>>
    ELSE Commit(ladder)

Trips == errors >= max_consecutive_errors

\* Mutant: the kill-switch drops the ladder without cancelling it.
NothingToCancel(ladder) == <<>>

CancelTracked(ladder) == SelectSeq(ladder, LAMBDA l : l.placed)

Placed ==
    /\ pc = "place" /\ todo = <<>>
    /\ IF Trips THEN /\ cancels' = CancelTracked(work)
                     /\ pc' = "cancel"
                     /\ UNCHANGED <<levels, work, errors>>
       ELSE /\ IF levels = <<>> THEN PersistLevels(work) ELSE Commit(work)
            /\ UNCHANGED cancels
    /\ UNCHANGED <<kind, todo, file, book, late, market, seeds, faults, crashes>>

Killed ==
    /\ pc = "cancel" /\ cancels = <<>>
    /\ PersistLevels(<<>>)
    /\ UNCHANGED <<kind, todo, cancels, file, book, late, market, seeds, faults, crashes>>

WriteTemp ==
    /\ pc = "save"
    /\ pc' = "rename"
    /\ UNCHANGED <<kind, levels, work, todo, cancels, errors, file, book, late,
                   market, seeds, faults, crashes>>

RenameTemp ==
    /\ pc = "rename"
    /\ file' = work
    /\ Commit(work)
    /\ UNCHANGED <<kind, todo, cancels, book, late, market, seeds, faults, crashes>>

SaveFails ==
    /\ pc \in {"save", "rename"} /\ AnyFault
    /\ unsaved' = unsaved + 1
    /\ Commit(work)
    /\ UNCHANGED <<kind, todo, cancels, file, book, late, market, seeds,
                   refused, unsure, crashes>>

-----------------------------------------------------------------------------
(* The venue, the market and the machine.                                  *)

Arrives ==
    /\ \E r \in late :
         /\ late' = late \ {r}
         /\ book' = IF r.op = "create" THEN book \cup {r.order}
                    ELSE {o \in book : o.coid # r.order.coid}
    /\ UNCHANGED <<kind, levels, pc, work, todo, cancels, errors, file,
                   market, seeds, faults, crashes>>

Fill ==
    /\ Events < MaxEvents
    /\ moves' = moves + 1
    /\ \E o \in book : book' = book \ {o} /\ net' = net + Sign(o.side)
    /\ UNCHANGED <<kind, levels, pc, work, todo, cancels, errors, file, late,
                   mid, seeds, faults, crashes>>

MidMoves ==
    /\ kind = "skewed_grid" /\ pc = "sleep"
    /\ Events < MaxEvents
    /\ moves' = moves + 1
    /\ mid' \in (lower_price .. upper_price + 1) \ {mid}
    /\ UNCHANGED <<kind, levels, pc, work, todo, cancels, errors, file, book, late,
                   net, seeds, faults, crashes>>

\* A placement under way when the process dies may still execute.
Crash ==
    /\ crashes < MaxCrashes /\ Events < MaxEvents
    /\ crashes' = crashes + 1
    /\ levels' = <<>> /\ work' = <<>> /\ todo' = <<>> /\ cancels' = <<>>
    /\ errors' = 0
    /\ pc' = "sleep"
    /\ \/ UNCHANGED book
       \/ pc = "place" /\ \E i \in Turns(todo) : book' = book \cup {OrderOf(todo[i])}
    /\ UNCHANGED <<kind, file, late, market, seeds, faults>>

\* The file is damaged, on the disk or by hand, before it is read again.
Damage ==
    /\ pc = "sleep" /\ levels = <<>>
    /\ file \notin {None, Damaged} /\ AnyFault
    /\ file' = Damaged
    /\ unsaved' = unsaved + 1
    /\ UNCHANGED <<kind, levels, pc, work, todo, cancels, errors, book, late,
                   market, seeds, refused, unsure, crashes>>

Poll == Restore \/ Seed \/ Reconcile \/ SeedSkewed \/ ReplanSkewed

Answered == PlaceOk \/ CancelOk \/ StaleGone \/ Placed \/ Killed \/ WriteTemp \/ RenameTemp

Next ==
    \/ Poll \/ Answered
    \/ PlaceFails \/ CancelFails \/ SaveFails
    \/ Arrives \/ Fill \/ MidMoves \/ Crash \/ Damage

Spec == Init /\ [][Next]_vars

(* The loop polls every three seconds (simple_grid) or poll_secs, every    *)
(* call returns within its timeout, and a request under way gets there.    *)
FairSpec == Spec /\ WF_vars(Poll) /\ WF_vars(Answered) /\ WF_vars(Arrives)

-----------------------------------------------------------------------------
(* Properties.                                                             *)

Rungs == num_levels + 1

Unresting(level) == ~\E o \in book : o.coid = level.coid

Tracked == Coids(levels) \cup Coids(work) \cup Coids(cancels)

(* Every order resting at the venue belongs to a level the process still   *)
(* tracks, except one per answer that was lost or late, one per cancel the *)
(* venue refused and the ladder a dead process left behind: neither the    *)
(* kill-switch, nor a flip, nor a re-plan forgets an order it could have   *)
(* cancelled.                                                              *)
OrphansAccounted ==
    Cardinality({o \in book : o.coid \notin Tracked}) <= unsure + Rungs * crashes

(* Every fill of simple_grid flips exactly one level: the position is what *)
(* the ladder has turned from buying to selling since it was seeded, plus  *)
(* the fills of the levels that no longer rest, up to one lot for every    *)
(* placement that failed, as long as the process lives and its saves       *)
(* succeed (a kill-switch whose save fails restores what it cancelled).    *)
FillsConserved ==
    LET Selling(ladder) == Cardinality({i \in DOMAIN ladder : ladder[i].side = "Sell"})
        Unseen(side) == Cardinality({i \in DOMAIN levels : levels[i].side = side /\ Unresting(levels[i])})
        drift == net - (Selling(levels) - Selling(Recorded)) - (Unseen("Buy") - Unseen("Sell"))
    IN  kind = "simple_grid" /\ pc = "sleep" /\ levels # <<>> /\ Recorded # <<>>
          /\ seeds = 1 /\ crashes = 0 /\ unsaved = 0
        => drift \in -(refused + unsure) .. refused + unsure

\* A rung is quoted on one of two legs, which its fills swap.
Legs(level) == {<<level.price, level.side>>, <<OppositePrice(level), OppositeSide(level)>>}

OnRung(l, level) == <<l.price, l.side>> \in Legs(level)

(* While saves succeed, the file and the process hold the same rungs.  A   *)
(* level in memory is the saved one or, since flips are not saved, one of  *)
(* the two legs of that rung under an id the file does not have; what one  *)
(* seeded ladder has resting is on its saved rungs, so that a restart      *)
(* finds every order by its rung, if not by its id; and what the           *)
(* kill-switch cancelled does not come back while the process lives        *)
(* (persist_levels, restore_levels).                                       *)
DiskAgrees ==
    stateful /\ pc = "sleep" /\ unsaved = 0 =>
      /\ levels # <<>> =>
           /\ Len(levels) = Len(Recorded)
           /\ \A i \in DOMAIN levels :
                \/ levels[i] = Recorded[i]
                \/ OnRung(levels[i], Recorded[i]) /\ levels[i].coid \notin Coids(Recorded)
      /\ seeds = 1 /\ Recorded # <<>> =>
           \A o \in book : \E i \in DOMAIN Recorded : OnRung(o, Recorded[i])
      /\ crashes = 0 /\ levels = <<>> => Recorded = <<>>

(* persistence.rs:3-5 says "after a restart it must resume what the        *)
(* previous process left resting instead of seeding a second ladder on top *)
(* of it": with no request and no save failing, every order at the venue   *)
(* belongs to a level of the ladder the process has settled on.            *)
RestartResumes ==
    kind = "simple_grid" /\ pc = "sleep" /\ levels # <<>> /\ Faults = 0 =>
      \A o \in book : o.coid \in Coids(levels)

(* Once the faults and the fills are over the grid heals: simple_grid has  *)
(* a ladder again in which every level rests or could only be re-quoted    *)
(* outside the band, unless a damaged state file has stopped it for good,  *)
(* and skewed_grid tracks a level at every price of its plan.              *)
Heals ==
    <>[](pc = "sleep" =>
           IF kind = "simple_grid"
           THEN /\ levels # <<>> \/ RestoreFails
                /\ \A l \in ToSet(levels) : Alive(l) \/ ~InBand(OppositePrice(l))
           ELSE Prices(levels) = Desired)
=============================================================================
