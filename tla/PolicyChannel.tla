---------------------------- MODULE PolicyChannel ----------------------------
(***************************************************************************)
(* The backpressure channel of a stream (overflow.rs): senders push        *)
(* through an overflow policy into a bounded buffer, a forward loop moves  *)
(* the buffer into a bounded mpsc channel, and a Notify wakes the loop.    *)
(* The actions here are the channel's; MarketStream adds who uses it.      *)
(***************************************************************************)
EXTENDS Naturals, Sequences, FiniteSetsExt

CONSTANT
    cap      \* the capacity, of the buffer and of the mpsc channel

ASSUME ChannelAssumption == cap \in Nat \ {0}

VARIABLES
    policy,         \* PipeState.policy: "DropOldest", "Coalesce" or "Block"
    buf,            \* PipeState.buf: [key, item], oldest first
    source_closed,  \* PipeState.source_closed
    permit,         \* the permit PipeState.notify holds
    fwd,            \* where forward_loop is: "check", "drain", "send",
                    \* "park" and "wait" (for the permit), "last" and "flush"
                    \* (drain and send of the closed source) or "done"
    hand,           \* what forward_loop took from buf and has yet to send
    chan,           \* the mpsc channel
    rx,             \* the receiver: "open" or "dropped"
    got,            \* what the receiver got, in order
    pushed          \* what was pushed or sent, in order

loopVars == <<fwd, hand>>
rxVars == <<rx, got>>
channelVars == <<policy, buf, source_closed, permit, loopVars, chan, rxVars, pushed>>

\* policy_channel; a source without producers is closed from the start.
ChannelInit(p, closed) ==
    /\ policy = p
    /\ buf = <<>> /\ hand = <<>> /\ chan = <<>> /\ got = <<>> /\ pushed = <<>>
    /\ source_closed = closed /\ permit = closed
    /\ fwd = "check" /\ rx = "open"
-----------------------------------------------------------------------------
(* PolicySender                                                            *)

\* Mutant: nothing is dropped at capacity.
DropNone(s) == s

\* Mutant: at capacity the newest item is the one that goes.
DropNewest(s) == IF Len(s) > cap THEN SubSeq(s, 1, cap) ELSE s

\* while buf.len() > cap: pop_front
DropOldest(s) == IF Len(s) > cap THEN Tail(s) ELSE s

\* buf after an item is pushed through the policy: Coalesce replaces the first
\* item with the same key.
Pushed(entry) ==
    LET slots == {i \in 1 .. Len(buf) : buf[i].key = entry.key} IN
    IF policy = "Coalesce" /\ slots # {}
    THEN [buf EXCEPT ![Min(slots)] = entry]
    ELSE DropOldest(Append(buf, entry))

\* send, under the buffer's lock; notify_one is a step of its own.
Push(entry) ==
    /\ policy # "Block"
    /\ buf' = Pushed(entry)
    /\ pushed' = Append(pushed, entry)
    /\ UNCHANGED <<policy, source_closed, permit, loopVars, chan, rxVars>>

\* send with OverflowPolicy::Block: the bounded channel itself.
SendBlocking(entry) ==
    /\ policy = "Block" /\ rx = "open" /\ Len(chan) < cap
    /\ chan' = Append(chan, entry)
    /\ pushed' = Append(pushed, entry)
    /\ UNCHANGED <<policy, buf, source_closed, permit, loopVars, rxVars>>

\* Mutant: the notification reaches a loop that is waiting and is not kept.
NotifyWaiting ==
    /\ permit' = (fwd = "wait")
    /\ UNCHANGED <<policy, buf, source_closed, loopVars, chan, rxVars, pushed>>

\* notify_one: wakes the loop, now or when it next waits.
NotifyOne ==
    /\ permit' = TRUE
    /\ UNCHANGED <<policy, buf, source_closed, loopVars, chan, rxVars, pushed>>

\* close; its notify_one is a step of its own.
CloseSource ==
    /\ source_closed' = TRUE
    /\ UNCHANGED <<policy, buf, permit, loopVars, chan, rxVars, pushed>>
-----------------------------------------------------------------------------
(* forward_loop                                                            *)

FwdCheck ==
    /\ fwd = "check"
    /\ fwd' = IF source_closed THEN "last" ELSE "drain"
    /\ UNCHANGED <<policy, buf, source_closed, permit, hand, chan, rxVars, pushed>>

\* mem::take of the buffer under its lock.
FwdTake ==
    /\ fwd \in {"drain", "last"}
    /\ hand' = buf /\ buf' = <<>>
    /\ fwd' = CASE fwd = "last" -> "flush"
                [] buf = <<>> -> "park"
                [] OTHER -> "send"
    /\ UNCHANGED <<policy, source_closed, permit, chan, rxVars, pushed>>

\* Mutant: the items taken are sent newest first.
FwdSendNewest ==
    /\ fwd \in {"send", "flush"} /\ hand # <<>>
    /\ rx = "open" /\ Len(chan) < cap
    /\ chan' = Append(chan, hand[Len(hand)])
    /\ hand' = SubSeq(hand, 1, Len(hand) - 1)
    /\ UNCHANGED <<policy, buf, source_closed, permit, fwd, rxVars, pushed>>

\* tx.send().await of the next item taken: waits while the channel is full.
FwdSend ==
    /\ fwd \in {"send", "flush"} /\ hand # <<>>
    /\ rx = "open" /\ Len(chan) < cap
    /\ chan' = Append(chan, Head(hand))
    /\ hand' = Tail(hand)
    /\ UNCHANGED <<policy, buf, source_closed, permit, fwd, rxVars, pushed>>

\* The receiver is gone: the loop returns.
FwdAbort ==
    /\ fwd \in {"send", "flush"} /\ hand # <<>> /\ rx = "dropped"
    /\ fwd' = "done"
    /\ UNCHANGED <<policy, buf, source_closed, permit, hand, chan, rxVars, pushed>>

FwdSent ==
    /\ fwd \in {"send", "flush"} /\ hand = <<>>
    /\ fwd' = IF fwd = "flush" THEN "done" ELSE "check"
    /\ UNCHANGED <<policy, buf, source_closed, permit, hand, chan, rxVars, pushed>>

\* notify.notified().await: takes the permit, or waits for it.
FwdPark ==
    /\ fwd = "park" /\ ~permit
    /\ fwd' = "wait"
    /\ UNCHANGED <<policy, buf, source_closed, permit, hand, chan, rxVars, pushed>>

FwdWake ==
    /\ fwd \in {"park", "wait"} /\ permit
    /\ permit' = FALSE /\ fwd' = "check"
    /\ UNCHANGED <<policy, buf, source_closed, hand, chan, rxVars, pushed>>

Forward ==
    FwdCheck \/ FwdTake \/ FwdSend \/ FwdAbort \/ FwdSent \/ FwdPark \/ FwdWake
-----------------------------------------------------------------------------
(* The receiver                                                            *)

Recv ==
    /\ rx = "open" /\ chan # <<>>
    /\ got' = Append(got, Head(chan)) /\ chan' = Tail(chan)
    /\ UNCHANGED <<policy, buf, source_closed, permit, loopVars, rx, pushed>>

DropReceiver ==
    /\ rx = "open" /\ rx' = "dropped"
    /\ UNCHANGED <<policy, buf, source_closed, permit, loopVars, chan, got, pushed>>
-----------------------------------------------------------------------------
\* What the receiver has got or still can get.
Held == Range(got) \cup Range(chan) \cup Range(hand) \cup Range(buf)
=============================================================================
