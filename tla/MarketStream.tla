---------------------------- MODULE MarketStream ----------------------------
(***************************************************************************)
(* A market data stream (stream_market_data of the proxy, poll_market_data *)
(* and poll_snapshot of the adapters): one polling task per subscription   *)
(* fetches snapshots, numbers them from one counter and sends them into    *)
(* one PolicyChannel; the last task to end closes the channel.             *)
(***************************************************************************)
EXTENDS PolicyChannel, FiniteSets

CONSTANTS
    Subscriptions,  \* the pollable subscriptions of the request
    Channels,       \* the requests: what channels the subscriptions are for
    symbol,         \* symbol[t]: the symbol subscription t is for
    MaxSeq          \* bound: how many snapshots are polled

ASSUME StreamAssumption ==
    /\ IsFiniteSet(Subscriptions)
    /\ Channels \subseteq [Subscriptions -> {"ticker", "orderbook", "trades", "ohlcv"}]

VARIABLES
    channel,     \* channel[t]: the channel of subscription t
    seq,         \* the counter the events are numbered from
    live_tasks,
    task,        \* task[t]: where the polling task of t is
    number       \* number[t]: header.sequence of the event t is working on

taskVars == <<channel, seq, live_tasks, task, number>>
vars == <<channelVars, taskVars>>

\* Mutant: the symbol is left out of the key.
KeyOfChannel(t) == <<channel[t], "">>

\* market_event_key: an OHLCV event has no symbol.
market_event_key(t) ==
    <<channel[t], IF channel[t] = "ohlcv" THEN "" ELSE symbol[t]>>

\* stream_market_data: the policy of the whole stream.
StreamPolicy ==
    IF \E t \in Subscriptions : channel[t] = "orderbook"
    THEN "Coalesce" ELSE "DropOldest"

\* poll_market_data takes any policy; Block is for streams that may not drop.
Init ==
    /\ channel \in Channels
    /\ \E p \in {StreamPolicy, "Block"} : ChannelInit(p, Subscriptions = {})
    /\ seq = 0 /\ live_tasks = Cardinality(Subscriptions)
    /\ task = [t \in Subscriptions |-> "asleep"]
    /\ number = [t \in Subscriptions |-> 0]

Goto(t, l) == task' = [task EXCEPT ![t] = l]

Entry(t) == [key |-> market_event_key(t), from |-> t, seq |-> number[t]]

\* The tick: the task ends if the receiver is gone, else it takes a number and
\* fetches.
Wake(t) ==
    /\ task[t] = "asleep" /\ rx = "open" /\ seq < MaxSeq
    /\ seq' = seq + 1
    /\ number' = [number EXCEPT ![t] = seq + 1]
    /\ Goto(t, "fetching")
    /\ UNCHANGED <<channel, channelVars, live_tasks>>

NoticeDrop(t) ==
    /\ task[t] \in {"asleep", "sending"} /\ rx = "dropped"
    /\ Goto(t, "leaving")
    /\ UNCHANGED <<channel, channelVars, seq, live_tasks, number>>

Fetched(t) ==
    /\ task[t] = "fetching"
    /\ Goto(t, "sending")
    /\ UNCHANGED <<channel, channelVars, seq, live_tasks, number>>

\* The fetch fails or times out: its number is used up.
FetchFails(t) ==
    /\ task[t] = "fetching"
    /\ Goto(t, "asleep")
    /\ UNCHANGED <<channel, channelVars, seq, live_tasks, number>>

\* send with Block waits for room in the channel.
SendBlock(t) ==
    /\ task[t] = "sending" /\ SendBlocking(Entry(t))
    /\ Goto(t, "asleep")
    /\ UNCHANGED <<channel, seq, live_tasks, number>>

\* send with the other policies: the receiver is there, go for the lock.
SendStart(t) ==
    /\ task[t] = "sending" /\ rx = "open" /\ policy # "Block"
    /\ Goto(t, "pushing")
    /\ UNCHANGED <<channel, channelVars, seq, live_tasks, number>>

SendPush(t) ==
    /\ task[t] = "pushing" /\ Push(Entry(t))
    /\ Goto(t, "notifying")
    /\ UNCHANGED <<channel, seq, live_tasks, number>>

SendNotify(t) ==
    /\ task[t] = "notifying" /\ NotifyOne
    /\ Goto(t, "asleep")
    /\ UNCHANGED <<channel, seq, live_tasks, number>>

\* Mutant: the counter is compared with what it becomes, not with what it was.
LeaveOffByOne(t) ==
    /\ task[t] = "leaving"
    /\ live_tasks' = live_tasks - 1
    /\ Goto(t, IF live_tasks = 0 THEN "closing" ELSE "done")
    /\ UNCHANGED <<channel, channelVars, seq, number>>

\* live_tasks.fetch_sub: the last task to leave closes the channel.
Leave(t) ==
    /\ task[t] = "leaving"
    /\ live_tasks' = live_tasks - 1
    /\ Goto(t, IF live_tasks = 1 THEN "closing" ELSE "done")
    /\ UNCHANGED <<channel, channelVars, seq, number>>

TaskClose(t) ==
    /\ task[t] = "closing" /\ CloseSource
    /\ Goto(t, "closed")
    /\ UNCHANGED <<channel, seq, live_tasks, number>>

TaskCloseNotify(t) ==
    /\ task[t] = "closed" /\ NotifyOne
    /\ Goto(t, "done")
    /\ UNCHANGED <<channel, seq, live_tasks, number>>

Task(t) ==
    \/ Wake(t) \/ NoticeDrop(t) \/ Fetched(t) \/ FetchFails(t)
    \/ SendBlock(t) \/ SendStart(t) \/ SendPush(t) \/ SendNotify(t)
    \/ Leave(t) \/ TaskClose(t) \/ TaskCloseNotify(t)

Next ==
    \/ \E t \in Subscriptions : Task(t)
    \/ (Forward \/ Recv \/ DropReceiver) /\ UNCHANGED taskVars

Spec == Init /\ [][Next]_vars

\* The runtime runs every task (a fetch has a timeout), the client receives
\* until it goes.
Fairness ==
    /\ \A t \in Subscriptions : WF_vars(Task(t))
    /\ WF_vars(Forward /\ UNCHANGED taskVars)
    /\ WF_vars(Recv /\ UNCHANGED taskVars)

FairSpec == Spec /\ Fairness
-----------------------------------------------------------------------------
(* Properties                                                              *)

\* The latest entry of a subscription, among the entries s.
Latest(t, s) == {e \in s : e.from = t /\ \A f \in s : f.from = t => f.seq <= e.seq}

\* NEWEST.  Whatever is dropped or coalesced, the receiver of a book stream has
\* got or can still get the newest snapshot of every subscription, as long as
\* the subscriptions' keys fit the buffer (Coalesce).
NewestPerSubscription ==
    rx = "open" /\ policy = "Coalesce" /\ Cardinality(Subscriptions) <= cap =>
        \A t \in Subscriptions : Latest(t, Range(pushed)) \subseteq Held

\* WINDOW.  A ticker stream loses none of the last cap events that were pushed
\* (DropOldest).
NewestWindow ==
    rx = "open" /\ policy = "DropOldest" =>
        \A i \in 1 .. Len(pushed) : i + cap > Len(pushed) => pushed[i] \in Held

\* The buffer never holds more than cap events, and what it drops to stay within
\* that is never the newest: the policies of overflow.rs keep both promises,
\* whatever poll tasks, forward loop and receiver do meanwhile.
NewestKept == Len(buf) <= cap /\ NewestPerSubscription /\ NewestWindow

\* ORDER.  The events of one subscription reach the receiver in the order of
\* their sequence numbers, none twice, whatever the buffer, the forward loop's
\* batch and the channel hold in between.
InOrderPerSubscription ==
    \A i, j \in 1 .. Len(got) :
        i < j /\ got[i].from = got[j].from => got[i].seq < got[j].seq

\* WAKE-UP.  What is in the buffer is taken out of it by the forward loop, or
\* the receiver goes: no notification is lost between a push and the wait.
BufferDrains == buf # <<>> ~> (buf = <<>> \/ rx = "dropped")

\* NO LEAK.  When the receiver is dropped, every polling task and the forward
\* loop end.
TasksEnd ==
    rx = "dropped" ~>
        (fwd = "done" /\ \A t \in Subscriptions : task[t] = "done")
=============================================================================
