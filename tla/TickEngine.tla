----------------------------- MODULE TickEngine -----------------------------
(***************************************************************************)
(* The poll loop every strategy of the worker runs.                        *)
(*                                                                         *)
(* A strategy is `loop { tick().await; sleep }` (strategies/mod.rs,        *)
(* trait Strategy).  One tick reads the market once, decides, and then     *)
(* sends the venue a fixed list of requests, one at a time, committing     *)
(* its own memory as the answers come in.  The model keeps that shape:     *)
(* Tick computes the list of the tick (a sequence of steps) from the       *)
(* market and the strategy's memory, and the answer actions consume it.    *)
(* What each strategy puts in the list is defined in SignalStrategies,     *)
(* QuoteStrategies and FlowStrategies; StrategyHost puts them together.    *)
(*                                                                         *)
(* A step is a record:                                                     *)
(*   req    the request, or Nothing for a purely local update              *)
(*   ok     the strategy's memory once the venue has accepted it           *)
(*   err    the strategy's memory once an error came back                  *)
(*   abort  TRUE for `create_order(..).await?` (an error ends the tick),   *)
(*          FALSE for `if let Err(err) = ..` (logged, the tick goes on).   *)
(*                                                                         *)
(* The venue may refuse a request, execute it and lose the answer, or      *)
(* execute it after the caller has timed out; the process may die at any   *)
(* point and start again with empty memory.                                *)
(***************************************************************************)
EXTENDS Integers, Sequences, FiniteSets, SequencesExt

CONSTANTS
    None,        \* an absent reading: warm-up, or a value the venue did not send
    MaxMoves,    \* bound: how often the market changes
    MaxFaults,   \* bound: refused, lost and late answers together
    MaxCrashes,  \* bound: restarts of the process
    NetBound     \* bound: no new tick once an exposure has grown past this

ASSUME BoundsAssumption ==
    /\ MaxMoves \in Nat
    /\ MaxFaults \in Nat
    /\ MaxCrashes \in Nat
    /\ NetBound \in Nat

VARIABLES
    strat,    \* the strategy this process hosts, fixed at start
    cfg,      \* its parameters, fixed at start
    mem,      \* the strategy's in-memory state, lost in a crash
    prog,     \* the steps left of the current tick; <<>> while sleeping
    market,   \* what the next tick will read from the market
    venue,    \* what the venue has executed and what rests on its book
    late,     \* requests whose caller timed out and which are still coming
    moves,    \* how often the market has changed
    refused,  \* answers that were an honest refusal
    unsure,   \* answers that were an error although the request executes
    crashes   \* restarts so far

vars == <<strat, cfg, mem, prog, market, venue, late, moves, refused, unsure, crashes>>

faultVars == <<refused, unsure, crashes>>

-----------------------------------------------------------------------------
(* The venue.  net is the signed quantity it has executed for us, per      *)
(* instrument; orders of strategies that never look at their resting       *)
(* orders count as executed at once.  book is the sequence of resting      *)
(* quotes on the primary instrument; keys are the idempotency keys it has  *)
(* honoured and moved the amount it has moved for them.                    *)

Symbols == {"primary", "hedge"}

Sides == {"bid", "ask"}

Sign(side) == IF side = "bid" THEN 1 ELSE -1

EmptyVenue == [net |-> [s \in Symbols |-> 0], book |-> <<>>, keys |-> {}, moved |-> 0]

Nothing == [op |-> "none"]

Order(sym, qty) == [op |-> "order", sym |-> sym, qty |-> qty]

Quote(q) == [op |-> "quote", quote |-> q]

CancelAll == [op |-> "cancel_all"]

\* From the primary account to the hedge account.
Transfer(qty) == [op |-> "transfer", qty |-> qty]

Keyed(key, qty) == [op |-> "keyed", key |-> key, qty |-> qty]

Execute(v, r) ==
    CASE r.op = "none" -> v
      [] r.op = "order" -> [v EXCEPT !.net[r.sym] = @ + r.qty]
      [] r.op = "quote" -> [v EXCEPT !.book = Append(@, r.quote)]
      [] r.op = "cancel_all" -> [v EXCEPT !.book = <<>>]
      [] r.op = "transfer" -> [v EXCEPT !.net["primary"] = @ - r.qty, !.net["hedge"] = @ + r.qty]
      [] r.op = "keyed" -> IF r.key \in v.keys THEN v
                           ELSE [v EXCEPT !.keys = @ \cup {r.key}, !.moved = @ + r.qty]

-----------------------------------------------------------------------------
(* The steps of a tick.                                                    *)

\* `create_order(..).await?`: an error ends the tick with the memory unchanged.
Must(req, before, after) == [req |-> req, ok |-> after, err |-> before, abort |-> TRUE]

\* `if let Err(err) = create_order(..).await { log }`: the tick goes on, and the
\* memory is the same whatever the venue answered.
Try(req, after) == [req |-> req, ok |-> after, err |-> after, abort |-> FALSE]

\* An assignment to the strategy's memory, with no request.
Set(after) == [req |-> Nothing, ok |-> after, err |-> after, abort |-> FALSE]

Sleeping == prog = <<>>

Small ==
    /\ \A s \in Symbols : venue.net[s] \in -NetBound .. NetBound
    /\ Len(venue.book) <= NetBound

\* The poll fires: the tick reads the market and starts on its steps.
Begin(steps) ==
    /\ Sleeping
    /\ Small
    /\ steps # <<>>
    /\ prog' = steps
    /\ UNCHANGED <<strat, cfg, mem, market, venue, late, moves, faultVars>>

\* The venue takes the request and its answer arrives.
Accepted ==
    /\ ~Sleeping
    /\ venue' = Execute(venue, Head(prog).req)
    /\ mem' = Head(prog).ok
    /\ prog' = Tail(prog)
    /\ UNCHANGED <<strat, cfg, market, late, moves, faultVars>>

Failed ==
    /\ ~Sleeping
    /\ Head(prog).req # Nothing
    /\ refused + unsure < MaxFaults
    /\ mem' = Head(prog).err
    /\ prog' = IF Head(prog).abort THEN <<>> ELSE Tail(prog)
    /\ UNCHANGED <<strat, cfg, market, moves, crashes>>

\* The venue refuses the request.
Refused ==
    /\ Failed
    /\ refused' = refused + 1
    /\ UNCHANGED <<venue, late, unsure>>

\* The venue executes the request but the caller sees an error.
AnswerLost ==
    /\ Failed
    /\ venue' = Execute(venue, Head(prog).req)
    /\ unsure' = unsure + 1
    /\ UNCHANGED <<late, refused>>

\* The caller times out; the request reaches the venue later.
TimedOut ==
    /\ Failed
    /\ late' = Append(late, Head(prog).req)
    /\ unsure' = unsure + 1
    /\ UNCHANGED <<venue, refused>>

Arrives ==
    /\ late # <<>>
    /\ venue' = Execute(venue, Head(late))
    /\ late' = Tail(late)
    /\ UNCHANGED <<strat, cfg, mem, prog, market, moves, faultVars>>

(* The process dies and is started again: whatever request it was waiting  *)
(* for may or may not have executed, and its memory is the initial one.    *)
Restart(initial) ==
    /\ crashes < MaxCrashes
    /\ crashes' = crashes + 1
    /\ mem' = initial
    /\ prog' = <<>>
    /\ \/ UNCHANGED venue
       \/ ~Sleeping /\ venue' = Execute(venue, Head(prog).req)
    /\ UNCHANGED <<strat, cfg, market, late, moves, refused, unsure>>

\* A resting quote is filled.
Fills ==
    /\ moves < MaxMoves
    /\ moves' = moves + 1
    /\ \E i \in DOMAIN venue.book :
         venue' = [venue EXCEPT !.book = RemoveAt(@, i),
                                !.net["primary"] = @ + Sign(venue.book[i].side)]
    /\ UNCHANGED <<strat, cfg, mem, prog, market, late, faultVars>>

\* The market moves; a tick reads it only when it starts.
Moves(readings) ==
    /\ Sleeping
    /\ moves < MaxMoves
    /\ moves' = moves + 1
    /\ market' \in readings \ {market}
    /\ UNCHANGED <<strat, cfg, mem, prog, venue, late, faultVars>>
=============================================================================
