------------------------------ MODULE EventBus ------------------------------
(***************************************************************************)
(* The event log of one session (SessionHandle::publish, replay_after and  *)
(* stream_strategy_events): events are numbered by an atomic counter, kept *)
(* in a bounded replay ring behind a mutex and fanned out on a bounded     *)
(* broadcast bus.  The three are three steps: another publisher, or a      *)
(* stream that is being opened, can come in between any two of them.       *)
(*                                                                         *)
(* Publishers are the tasks that publish on the session at the same time   *)
(* (ReportLog streams, state changes); a client has one stream at a time   *)
(* and reopens it with the resume_token of the last event it received.     *)
(***************************************************************************)
EXTENDS Naturals, Sequences, Functions

CONSTANTS
    Publishers, Clients,
    RingCapacity,  \* EVENT_RING_CAPACITY
    BusCapacity,   \* the capacity of the broadcast channel
    MaxSeq         \* bound: how many events are ever published

ASSUME BusAssumption ==
    /\ RingCapacity \in Nat \ {0}
    /\ BusCapacity \in Nat \ {0}
    /\ MaxSeq \in Nat

VARIABLES
    seq,        \* SessionHandle.seq
    mine,       \* mine[p]: the number of the event p is publishing, or 0
    ring,       \* SessionHandle.ring, oldest first
    pushes,     \* what was ever pushed on the ring, in order (history)
    bus,        \* what was sent on events_tx, in order
    stream,     \* stream[c]: "closed", "opening", "marked" or "live"
    after,      \* after[c]: the resume_token the stream was opened with
    replay,     \* replay[c]: the snapshot of the ring c has yet to be sent
    next,       \* next[c]: how far into the bus c has received
    watermark,  \* watermark[c]: current_seq() as c read it
    got,        \* got[c]: what this stream delivered, in order
    missing,    \* missing[c]: the events the ring had dropped at the replay
    known       \* known[c]: every event c received on any of its streams

publishVars == <<seq, mine, ring, pushes, bus>>
streamVars  == <<stream, after, replay, next, watermark, got, missing, known>>
vars == <<publishVars, streamVars>>

Init ==
    /\ seq = 0 /\ mine = [p \in Publishers |-> 0]
    /\ ring = <<>> /\ pushes = <<>> /\ bus = <<>>
    /\ stream = [c \in Clients |-> "closed"]
    /\ after = [c \in Clients |-> 0]
    /\ replay = [c \in Clients |-> <<>>]
    /\ next = [c \in Clients |-> 0]
    /\ watermark = [c \in Clients |-> 0]
    /\ got = [c \in Clients |-> <<>>]
    /\ missing = [c \in Clients |-> {}]
    /\ known = [c \in Clients |-> {}]
-----------------------------------------------------------------------------
(* publish                                                                 *)

\* seq.fetch_add
Number(p) ==
    /\ mine[p] = 0 /\ seq < MaxSeq
    /\ seq' = seq + 1
    /\ mine' = [mine EXCEPT ![p] = seq + 1]
    /\ UNCHANGED <<ring, pushes, bus, streamVars>>

\* The event is in the ring or was dropped from it: the push has happened.
Pushed(e) == e \in Range(pushes)

\* ring.lock().await: pop_front at capacity, then push_back.
Push(p) ==
    LET full == Len(ring) >= RingCapacity IN
    /\ mine[p] # 0 /\ ~Pushed(mine[p])
    /\ ring' = Append(IF full THEN Tail(ring) ELSE ring, mine[p])
    /\ pushes' = Append(pushes, mine[p])
    /\ UNCHANGED <<seq, mine, bus, streamVars>>

\* events_tx.send
Send(p) ==
    /\ mine[p] # 0 /\ Pushed(mine[p])
    /\ bus' = Append(bus, mine[p])
    /\ mine' = [mine EXCEPT ![p] = 0]
    /\ UNCHANGED <<seq, ring, pushes, streamVars>>
-----------------------------------------------------------------------------
(* stream_strategy_events                                                  *)

\* Mutant: replayed events carry the watermark as their resume_token.
SubscribeAtWatermark(c) ==
    /\ stream[c] = "closed"
    /\ stream' = [stream EXCEPT ![c] = "opening"]
    /\ after' = [after EXCEPT ![c] = IF got[c] = <<>> THEN @ ELSE watermark[c]]
    /\ next' = [next EXCEPT ![c] = Len(bus)]
    /\ got' = [got EXCEPT ![c] = <<>>]
    /\ UNCHANGED <<publishVars, replay, watermark, missing, known>>

\* handle.subscribe(), for a client that resumes after token.
Subscribe(c) ==
    /\ stream[c] = "closed"
    /\ stream' = [stream EXCEPT ![c] = "opening"]
    /\ after' = [after EXCEPT ![c] = IF got[c] = <<>> THEN @ ELSE got[c][Len(got[c])]]
    /\ next' = [next EXCEPT ![c] = Len(bus)]
    /\ got' = [got EXCEPT ![c] = <<>>]
    /\ UNCHANGED <<publishVars, replay, watermark, missing, known>>

\* handle.current_seq()
ReadWatermark(c) ==
    /\ stream[c] = "opening"
    /\ watermark' = [watermark EXCEPT ![c] = seq]
    /\ stream' = [stream EXCEPT ![c] = "marked"]
    /\ UNCHANGED <<publishVars, after, replay, next, got, missing, known>>

\* What the stream yields of the snapshot: after the token (replay_after), up to
\* the watermark (the loop that yields).  Neither changes while the stream is
\* open, so both are asked when the loop comes to e.
Wanted(c, e) == e > after[c] /\ e <= watermark[c]

\* The events the ring has dropped and the replay should have had.
Dropped(c) == {e \in Range(pushes) \ Range(ring) : e <= watermark[c]}

\* Mutant: the subscription is taken after the snapshot of the ring.
ReplayThenSubscribe(c) ==
    /\ stream[c] = "marked"
    /\ replay' = [replay EXCEPT ![c] = ring]
    /\ missing' = [missing EXCEPT ![c] = Dropped(c)]
    /\ next' = [next EXCEPT ![c] = Len(bus)]
    /\ stream' = [stream EXCEPT ![c] = "live"]
    /\ UNCHANGED <<publishVars, after, watermark, got, known>>

\* replay_after, under the ring lock.
Replay(c) ==
    /\ stream[c] = "marked"
    /\ replay' = [replay EXCEPT ![c] = ring]
    /\ missing' = [missing EXCEPT ![c] = Dropped(c)]
    /\ stream' = [stream EXCEPT ![c] = "live"]
    /\ UNCHANGED <<publishVars, after, next, watermark, got, known>>

\* The stream hands event e to the client.
Deliver(c, e) ==
    /\ got' = [got EXCEPT ![c] = Append(@, e)]
    /\ known' = [known EXCEPT ![c] = @ \cup {e}]
    /\ UNCHANGED <<publishVars, stream, after, watermark, missing>>

\* The next event of the replay, yielded or passed over; all of the replay comes
\* before anything is received.
Yield(c) ==
    /\ stream[c] = "live" /\ replay[c] # <<>>
    /\ IF Wanted(c, Head(replay[c]))
       THEN Deliver(c, Head(replay[c]))
       ELSE UNCHANGED <<publishVars, stream, after, watermark, got, missing, known>>
    /\ replay' = [replay EXCEPT ![c] = Tail(@)]
    /\ next' = next

\* RecvError::Lagged: the bus has overwritten what c should receive next.
Lagged(c) == Len(bus) - next[c] > BusCapacity

\* Mutant: the receiver is polled beside the replay, not after it.
ReceivingEarly(c) == stream[c] = "live" /\ next[c] < Len(bus)

Receiving(c) == stream[c] = "live" /\ replay[c] = <<>> /\ next[c] < Len(bus)

\* rx.recv()
Recv(c) ==
    /\ Receiving(c) /\ ~Lagged(c)
    /\ Deliver(c, bus[next[c] + 1])
    /\ next' = [next EXCEPT ![c] = @ + 1]
    /\ replay' = replay

\* The stream ends: on lag by the worker, at any time by the client.
Close(c) ==
    /\ stream' = [stream EXCEPT ![c] = "closed"]
    /\ replay' = [replay EXCEPT ![c] = <<>>]
    /\ UNCHANGED <<publishVars, after, next, watermark, got, missing, known>>

\* Mutant: a lagged stream is left open.
LagWait(c) == Receiving(c) /\ Lagged(c) /\ UNCHANGED vars

LagOut(c) == Receiving(c) /\ Lagged(c) /\ Close(c)

Disconnect(c) == stream[c] # "closed" /\ Close(c)
-----------------------------------------------------------------------------
PublishStep(p) == Number(p) \/ Push(p) \/ Send(p)
StreamStep(c) == ReadWatermark(c) \/ Replay(c) \/ Yield(c) \/ Recv(c) \/ LagOut(c)

Next ==
    \/ \E p \in Publishers : PublishStep(p)
    \/ \E c \in Clients : Subscribe(c) \/ StreamStep(c) \/ Disconnect(c)

Spec == Init /\ [][Next]_vars

\* A publish that took a number is carried through, and an open stream keeps
\* delivering.  Nobody has to publish or to connect.
Fairness ==
    /\ \A p \in Publishers : WF_vars(Push(p) \/ Send(p))
    /\ \A c \in Clients : WF_vars(StreamStep(c))

FairSpec == Spec /\ Fairness
-----------------------------------------------------------------------------
(* What the event stream promises.                                         *)

\* An open stream that has received all there is to receive.
CaughtUp(c) ==
    stream[c] = "live" /\ replay[c] = <<>> /\ next[c] = Len(bus)

\* HANDOFF.  However publishers interleave with the opening of a stream
\* (subscribe, read the watermark, replay), a stream that has caught up has
\* delivered every event after its resume_token, except those the ring had
\* already dropped.  This is the handoff stream_strategy_events describes;
\* lag (the bus overwriting events) must end the stream rather than skip.
HandoffLosesNothing ==
    \A c \in Clients : CaughtUp(c) =>
        \A e \in Range(bus) :
            e > after[c] /\ e \notin missing[c] => e \in Range(got[c])

\* A later event was pushed or sent before e: publish orders neither.
Overtaken(e) ==
    \E s \in {pushes, bus} : \E i \in 1 .. Len(s) :
        s[i] > e /\ e \notin Range(SubSeq(s, 1, i))

\* RESUME.  A client that reconnects any number of times with its last
\* resume_token knows, once caught up, every event that was not overtaken by a
\* later one and that the ring did not drop before it could ask for it.
ResumeLosesNothing ==
    \A c \in Clients : CaughtUp(c) =>
        \A e \in Range(bus) : e \in known[c] \cup missing[c] \/ Overtaken(e)

\* Neither the opening of a stream (stream_strategy_events) nor any number of
\* reconnects loses an event, but for the two exceptions named above.
NothingLost == HandoffLosesNothing /\ ResumeLosesNothing

\* GAPS.  When a stream delivers an event it has already delivered all those
\* before it, back to the resume_token, except the ones that were overtaken or
\* that the ring had dropped before the replay: there is no other gap for
\* is_sequence_gap to report.
NoForwardGap ==
    \A c \in Clients : \A i \in 1 .. Len(got[c]) :
        \A e \in after[c] + 1 .. got[c][i] - 1 :
            e \in Range(SubSeq(got[c], 1, i)) \cup missing[c] \/ Overtaken(e)

\* DELIVERY.  An event that was sent reaches every stream that was open, or the
\* stream ends.
EventuallyDelivered ==
    \A c \in Clients, i \in 1 .. MaxSeq :
        (stream[c] = "live" /\ next[c] < i /\ i <= Len(bus))
          ~> (stream[c] # "live" \/ next[c] >= i)
=============================================================================
