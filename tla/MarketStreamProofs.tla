------------------------- MODULE MarketStreamProofs -------------------------
(***************************************************************************)
(* What a market data stream keeps and in which order it delivers, for any *)
(* number of subscriptions, any capacity and any policy.                   *)
(***************************************************************************)
EXTENDS MarketStream, FiniteSetTheorems, WellFoundedInduction, TLAPS

USE DEF loopVars, rxVars, channelVars, taskVars
-----------------------------------------------------------------------------
(* The inductive invariant.                                                *)

Kinds == {"ticker", "orderbook", "trades", "ohlcv"}

Keys == Kinds \X ({symbol[t] : t \in Subscriptions} \cup {""})

Entries == [key : Keys, from : Subscriptions, seq : Nat]

\* Where a polling task can be.
Places == {"asleep", "fetching", "sending", "pushing", "notifying", "leaving",
           "closing", "closed", "done"}

\* The channel and the tasks have their types.
ChannelTypes ==
    /\ policy \in {"DropOldest", "Coalesce", "Block"}
    /\ buf \in Seq(Entries) /\ hand \in Seq(Entries) /\ chan \in Seq(Entries)
    /\ got \in Seq(Entries) /\ pushed \in Seq(Entries)

TaskTypes ==
    /\ channel \in Channels /\ seq \in Nat /\ number \in [Subscriptions -> Nat]
    /\ task \in [Subscriptions -> Places]

\* Before it is sent, the event a task works on is newer than all it has sent.
Unsent == {"fetching", "sending", "pushing"}

\* What was sent carries the key of its subscription and a number its task took.
SentInv ==
    /\ \A t \in Subscriptions : number[t] <= seq
    /\ \A e \in Range(pushed) :
          /\ e.key = market_event_key(e.from)
          /\ e.seq <= number[e.from]
          /\ task[e.from] \in Unsent => e.seq < number[e.from]

\* Places of the forward loop with empty hands.
EmptyHanded == {"check", "drain", "last", "park", "wait"}

\* Nothing is in the channel that was not sent, the forward loop takes the
\* buffer only with empty hands, and Block uses neither.
PlacesInv ==
    /\ Held \subseteq Range(pushed)
    /\ fwd \in EmptyHanded => hand = <<>>
    /\ policy = "Block" => buf = <<>> /\ hand = <<>>

\* The events of one subscription are in the order of their numbers within s ...
Ordered(s) ==
    \A i, j \in 1 .. Len(s) : i < j /\ s[i].from = s[j].from => s[i].seq < s[j].seq

\* ... and every one in the set A is before every one in the set B.
Before(A, B) == \A e \in A, f \in B : e.from = f.from => e.seq < f.seq

\* Along the way of an event: the buffer, the batch of the forward loop, the
\* channel, the receiver.
OrderInv ==
    /\ Ordered(pushed) /\ Ordered(got) /\ Ordered(chan) /\ Ordered(hand) /\ Ordered(buf)
    /\ Before(Range(got), Range(chan)) /\ Before(Range(got), Range(hand))
    /\ Before(Range(got), Range(buf)) /\ Before(Range(chan), Range(hand))
    /\ Before(Range(chan), Range(buf)) /\ Before(Range(hand), Range(buf))

\* A coalescing buffer has one event of a key; a dropping one has the last of
\* what was pushed.
BufferInv ==
    /\ Len(buf) <= cap
    /\ policy = "Coalesce" =>
          \A i, j \in 1 .. Len(buf) : buf[i].key = buf[j].key => i = j
    /\ policy = "DropOldest" =>
          /\ Len(buf) <= Len(pushed)
          /\ \A k \in 1 .. Len(buf) : buf[k] = pushed[Len(pushed) - Len(buf) + k]

\* What the channel keeps.
PipeInv == ChannelTypes /\ PlacesInv /\ BufferInv /\ OrderInv

\* No two subscriptions share a key: two for candles would (market_event_key),
\* and two for the same symbol and channel.
KeysApart ==
    \A c \in Channels : \A t, u \in Subscriptions :
        t # u => c[t] # c[u] \/ (c[t] # "ohlcv" /\ symbol[t] # symbol[u])

OrderedInv == TaskTypes /\ SentInv /\ PipeInv

StreamInv == OrderedInv /\ NewestPerSubscription /\ NewestWindow
-----------------------------------------------------------------------------
(* Sequences of events.                                                    *)

\* What the elements of a sequence are.
LEMMA RangeMeans ==
    ASSUME NEW s \in Seq(Entries)
    PROVE  \A e : e \in Range(s) <=> \E i \in 1 .. Len(s) : s[i] = e
BY DEF Range

\* push_back.
LEMMA AppendFacts ==
    ASSUME NEW s \in Seq(Entries), NEW x \in Entries
    PROVE  /\ Append(s, x) \in Seq(Entries) /\ Len(Append(s, x)) = Len(s) + 1
           /\ \A i \in 1 .. Len(s) : Append(s, x)[i] = s[i]
           /\ Append(s, x)[Len(s) + 1] = x
           /\ Range(Append(s, x)) = Range(s) \cup {x}
<1> DEFINE t == Append(s, x)
<1>1. /\ t \in Seq(Entries) /\ Len(t) = Len(s) + 1 /\ Len(s) \in Nat
      /\ \A i \in 1 .. Len(s) : t[i] = s[i]
      /\ t[Len(s) + 1] = x
    OBVIOUS
<1> HIDE DEF t
<1>2. \A e : e \in Range(s) <=> \E i \in 1 .. Len(s) : s[i] = e
    BY RangeMeans, Zenon
<1>3. \A e : e \in Range(t) <=> \E i \in 1 .. Len(t) : t[i] = e
    BY <1>1, RangeMeans, Zenon
<1>4. \A i : i \in 1 .. Len(t) <=> i \in 1 .. Len(s) \/ i = Len(s) + 1
    BY <1>1
<1>5. ASSUME NEW e
      PROVE  e \in Range(t) <=> e \in Range(s) \/ e = x
    BY <1>1, <1>2, <1>3, <1>4, Zenon
<1>6. Range(t) = Range(s) \cup {x}
    BY <1>5
<1> QED  BY <1>1, <1>6 DEF t

\* pop_front.
LEMMA TailFacts ==
    ASSUME NEW s \in Seq(Entries), s # <<>>
    PROVE  /\ Head(s) = s[1] /\ Head(s) \in Entries /\ Len(s) \in Nat /\ Len(s) >= 1
           /\ Tail(s) \in Seq(Entries) /\ Len(Tail(s)) = Len(s) - 1
           /\ \A i \in 1 .. Len(s) - 1 : i + 1 \in 1 .. Len(s) /\ Tail(s)[i] = s[i + 1]
           /\ Range(s) = Range(Tail(s)) \cup {Head(s)}
<1> DEFINE t == Tail(s)
           x == Head(s)
<1>1. /\ x = s[1] /\ x \in Entries /\ Len(s) \in Nat /\ Len(s) >= 1
      /\ t \in Seq(Entries) /\ Len(t) = Len(s) - 1
      /\ \A i \in 1 .. Len(s) - 1 : t[i] = s[i + 1]
    OBVIOUS
<1> HIDE DEF t, x
<1>2. \A i \in 1 .. Len(s) - 1 : i + 1 \in 1 .. Len(s)
    BY <1>1
<1>3. \A e : e \in Range(s) <=> \E i \in 1 .. Len(s) : s[i] = e
    BY RangeMeans, Zenon
<1>4. \A e : e \in Range(t) <=> \E i \in 1 .. Len(t) : t[i] = e
    BY <1>1, RangeMeans, Zenon
<1>5. ASSUME NEW i \in 1 .. Len(s)
      PROVE  s[i] = x \/ s[i] \in Range(t)
  <2>1. CASE i = 1  BY <1>1, <2>1
  <2>2. CASE i # 1
    <3>1. i - 1 \in 1 .. Len(s) - 1 /\ (i - 1) + 1 = i
      BY <1>1, <2>2
    <3>2. i - 1 \in 1 .. Len(t) /\ t[i - 1] = s[i]
      BY <1>1, <3>1
    <3> QED  BY <1>4, <3>2, Zenon
  <2> QED  BY <2>1, <2>2
<1>6. ASSUME NEW i \in 1 .. Len(t)
      PROVE  t[i] \in Range(s)
  <2>1. i + 1 \in 1 .. Len(s) /\ t[i] = s[i + 1]
    BY <1>1, <1>2
  <2> QED  BY <1>3, <2>1, Zenon
<1>7. x \in Range(s)
  <2>1. 1 \in 1 .. Len(s)
    BY <1>1
  <2> QED  BY <1>1, <1>3, <2>1, Zenon
<1>8. ASSUME NEW e
      PROVE  e \in Range(s) <=> e \in Range(t) \/ e = x
    BY <1>3, <1>4, <1>5, <1>6, <1>7, Zenon
<1>9. Range(s) = Range(t) \cup {x}
    BY <1>8
<1> QED  BY <1>1, <1>2, <1>9 DEF t, x

\* An element is replaced.
Replaced(s, k, x) == [s EXCEPT ![k] = x]

\* What a replacement leaves, and what it brings.
LEMMA ReplaceFacts ==
    ASSUME NEW s \in Seq(Entries), NEW k \in 1 .. Len(s), NEW x \in Entries
    PROVE  /\ Replaced(s, k, x) \in Seq(Entries) /\ Len(Replaced(s, k, x)) = Len(s)
           /\ \A i \in 1 .. Len(s) :
                Replaced(s, k, x)[i] = IF i = k THEN x ELSE s[i]
           /\ Range(Replaced(s, k, x)) \subseteq Range(s) \cup {x}
           /\ x \in Range(Replaced(s, k, x))
           /\ \A e \in Range(s) : e # s[k] => e \in Range(Replaced(s, k, x))
<1> DEFINE t == Replaced(s, k, x)
<1>1. /\ t \in Seq(Entries) /\ Len(t) = Len(s) /\ Len(s) \in Nat
      /\ \A i \in 1 .. Len(s) : t[i] = IF i = k THEN x ELSE s[i]
    BY DEF Replaced
<1> HIDE DEF t
<1>2. \A e : e \in Range(s) <=> \E i \in 1 .. Len(s) : s[i] = e
    BY RangeMeans, Zenon
<1>3. \A e : e \in Range(t) <=> \E i \in 1 .. Len(s) : t[i] = e
  <2>1. \A e : e \in Range(t) <=> \E i \in 1 .. Len(t) : t[i] = e
    BY <1>1, RangeMeans, Zenon
  <2> QED  BY <1>1, <2>1
<1>4. ASSUME NEW e \in Range(t)
      PROVE  e \in Range(s) \/ e = x
  <2>1. PICK i \in 1 .. Len(s) : t[i] = e
    BY <1>3, Zenon
  <2>2. e = x \/ e = s[i]
    BY <1>1, <2>1
  <2> QED  BY <1>2, <2>2, Zenon
<1>5. x \in Range(t)
    BY <1>1, <1>3
<1>6. ASSUME NEW e \in Range(s), e # s[k]
      PROVE  e \in Range(t)
    BY <1>1, <1>2, <1>3, <1>6
<1> QED  BY <1>1, <1>4, <1>5, <1>6 DEF t

\* Nothing is in the empty sequence, and it is in order.
LEMMA EmptyFacts == Range(<<>>) = {} /\ Ordered(<<>>)
BY DEF Range, Ordered
-----------------------------------------------------------------------------
(* Order.                                                                  *)

\* Order between sets is inherited by their parts.
LEMMA BeforeParts ==
    ASSUME NEW A, NEW B, Before(A, B), NEW C \in SUBSET A, NEW D \in SUBSET B
    PROVE  Before(C, D)
BY DEF Before

\* An event goes to the end of what comes before it.
LEMMA AppendOrdered ==
    ASSUME NEW s \in Seq(Entries), NEW x \in Entries, Ordered(s),
           Before(Range(s), {x})
    PROVE  Ordered(Append(s, x))
<1> DEFINE t == Append(s, x)
           n == Len(s)
<1>1. /\ t \in Seq(Entries) /\ Len(t) = n + 1 /\ n \in Nat
      /\ \A i \in 1 .. n : t[i] = s[i]
      /\ t[n + 1] = x
    BY AppendFacts
<1>2. \A i \in 1 .. n : s[i] \in Range(s)
    BY RangeMeans
<1> HIDE DEF t, n
<1>3. ASSUME NEW i \in 1 .. Len(t), NEW j \in 1 .. Len(t), i < j, t[i].from = t[j].from
      PROVE  t[i].seq < t[j].seq
  <2>1. i \in 1 .. n /\ (j \in 1 .. n \/ j = n + 1)
    BY <1>1, <1>3
  <2>2. CASE j \in 1 .. n
    BY <1>1, <1>3, <2>1, <2>2 DEF Ordered, n
  <2>3. CASE j = n + 1
    <3>1. t[i] \in Range(s) /\ t[j] = x
      BY <1>1, <1>2, <2>1, <2>3
    <3> QED  BY <1>3, <3>1 DEF Before
  <2> QED  BY <2>1, <2>2, <2>3
<1> QED  BY <1>3 DEF Ordered, t

\* The rest of a sequence in order is in order, and after its head.
LEMMA TailOrdered ==
    ASSUME NEW s \in Seq(Entries), s # <<>>, Ordered(s)
    PROVE  Ordered(Tail(s)) /\ Before({Head(s)}, Range(Tail(s)))
<1> DEFINE t == Tail(s)
           n == Len(s)
<1>1. /\ Head(s) = s[1] /\ n \in Nat /\ n >= 1
      /\ t \in Seq(Entries) /\ Len(t) = n - 1
      /\ \A i \in 1 .. n - 1 : i + 1 \in 1 .. n /\ t[i] = s[i + 1]
    BY TailFacts
<1>2. \A e : e \in Range(t) <=> \E i \in 1 .. Len(t) : t[i] = e
    BY <1>1, RangeMeans, Zenon
<1> HIDE DEF t, n
<1>3. ASSUME NEW i \in 1 .. Len(t), NEW j \in 1 .. Len(t), i < j, t[i].from = t[j].from
      PROVE  t[i].seq < t[j].seq
  <2>1. /\ i + 1 \in 1 .. n /\ j + 1 \in 1 .. n /\ i + 1 < j + 1
        /\ t[i] = s[i + 1] /\ t[j] = s[j + 1]
    BY <1>1, <1>3
  <2> QED  BY <1>3, <2>1 DEF Ordered, n
<1>4. ASSUME NEW f \in Range(t), s[1].from = f.from
      PROVE  s[1].seq < f.seq
  <2>1. PICK j \in 1 .. Len(t) : t[j] = f
    BY <1>2
  <2>2. 1 \in 1 .. n /\ j + 1 \in 1 .. n /\ 1 < j + 1 /\ f = s[j + 1]
    BY <1>1, <2>1
  <2> QED  BY <1>4, <2>2 DEF Ordered, n
<1>5. Ordered(t)
    BY <1>3 DEF Ordered
<1>6. Before({Head(s)}, Range(t))
    BY <1>1, <1>4 DEF Before
<1> QED  BY <1>5, <1>6 DEF t

\* The head of b moves to the end of a.
LEMMA MoveHead ==
    ASSUME NEW a \in Seq(Entries), NEW b \in Seq(Entries), b # <<>>,
           Ordered(a), Ordered(b), Before(Range(a), Range(b))
    PROVE  /\ Ordered(Append(a, Head(b))) /\ Ordered(Tail(b))
           /\ Before(Range(Append(a, Head(b))), Range(Tail(b)))
           /\ Range(Append(a, Head(b))) = Range(a) \cup {Head(b)}
           /\ Range(b) = Range(Tail(b)) \cup {Head(b)}
<1>1. Range(b) = Range(Tail(b)) \cup {Head(b)} /\ Head(b) \in Entries
    BY TailFacts
<1>2. Range(Append(a, Head(b))) = Range(a) \cup {Head(b)}
    BY <1>1, AppendFacts
<1>3. Ordered(Tail(b)) /\ Before({Head(b)}, Range(Tail(b)))
    BY TailOrdered
<1>4. Before(Range(a), {Head(b)})
    BY <1>1, BeforeParts
<1>5. Ordered(Append(a, Head(b)))
    BY <1>1, <1>4, AppendOrdered
<1>6. Before(Range(a), Range(Tail(b)))
    BY <1>1, BeforeParts
<1>7. Before(Range(a) \cup {Head(b)}, Range(Tail(b)))
    BY <1>3, <1>6 DEF Before
<1> QED  BY <1>1, <1>2, <1>3, <1>5, <1>7
-----------------------------------------------------------------------------
(* The buffer.                                                             *)

\* Coalesce finds the first item of the key.
LEMMA SlotIsOne ==
    ASSUME NEW I \in SUBSET Nat, I # {}
    PROVE  Min(I) \in I
<1> DEFINE R == OpToRel(<, Nat)
<1>1. PICK x \in I : \A y \in I : ~(<<y, x>> \in R)
    BY NatLessThanWellFounded, WFMin, Zenon
<1>2. ASSUME NEW y \in I
      PROVE  x <= y
  <2>1. x \in Nat /\ y \in Nat
    OBVIOUS
  <2>2. ~(y < x)
    BY <1>1, <2>1, Zenon DEF OpToRel
  <2> QED  BY <2>1, <2>2
<1> QED  BY <1>2, Zenon DEF Min

\* A Coalesce buffer without the key has fewer items than there are
\* subscriptions.
LEMMA RoomForKey ==
    ASSUME ChannelTypes, SentInv, PlacesInv, BufferInv, policy = "Coalesce",
           NEW t \in Subscriptions,
           \A i \in 1 .. Len(buf) : buf[i].key # market_event_key(t)
    PROVE  Len(buf) + 1 <= Cardinality(Subscriptions)
<1> DEFINE n == Len(buf)
           K == {market_event_key(u) : u \in Subscriptions}
           k == [i \in 1 .. n + 1 |-> IF i \in 1 .. n THEN buf[i].key
                                      ELSE market_event_key(t)]
<1>1. n \in Nat /\ buf \in Seq(Entries)
    BY DEF ChannelTypes
<1>2. ASSUME NEW i \in 1 .. n
      PROVE  buf[i].key \in K
  <2>1. buf[i] \in Range(buf)
    BY <1>1, RangeMeans
  <2>2. buf[i] \in Range(pushed)
    BY <2>1 DEF PlacesInv, Held
  <2>3. buf[i].from \in Subscriptions
    <3>1. buf[i] \in Entries
      BY <1>1
    <3> QED  BY <3>1 DEF Entries
  <2>4. buf[i].key = market_event_key(buf[i].from)
    BY <2>2 DEF SentInv
  <2> QED  BY <2>3, <2>4
<1>3. k \in [1 .. n + 1 -> K]
    BY <1>1, <1>2
<1>4. ASSUME NEW i \in 1 .. n + 1, NEW j \in 1 .. n + 1, k[i] = k[j]
      PROVE  i = j
  <2>1. (i \in 1 .. n \/ i = n + 1) /\ (j \in 1 .. n \/ j = n + 1) /\ ~(n + 1 \in 1 .. n)
    BY <1>1
  <2>2. CASE i \in 1 .. n /\ j \in 1 .. n
    BY <1>4, <2>2 DEF BufferInv
  <2>3. CASE i \in 1 .. n /\ j = n + 1
    BY <1>4, <2>1, <2>3
  <2>4. CASE i = n + 1 /\ j \in 1 .. n
    BY <1>4, <2>1, <2>4
  <2> QED  BY <2>1, <2>2, <2>3, <2>4
<1>5. k \in Injection(1 .. n + 1, K)
    BY <1>3, <1>4 DEF Injection, IsInjective
<1>6. IsFiniteSet(K) /\ Cardinality(K) <= Cardinality(Subscriptions)
  <2> DEFINE f == [u \in Subscriptions |-> market_event_key(u)]
  <2>1. f \in Surjection(Subscriptions, K)
    BY DEF Surjection
  <2> HIDE DEF f, K
  <2> QED  BY <2>1, StreamAssumption, FS_Surjection
<1>7. IsFiniteSet(1 .. n + 1) /\ Cardinality(1 .. n + 1) = n + 1
    BY <1>1, FS_Interval
<1> HIDE DEF k, K, n
<1>8. Cardinality(1 .. n + 1) <= Cardinality(K)
    BY <1>5, <1>6, <1>7, FS_Injection
<1>9. Cardinality(K) \in Nat /\ Cardinality(Subscriptions) \in Nat
    BY <1>6, StreamAssumption, FS_CardinalityType
<1> QED  BY <1>1, <1>6, <1>7, <1>8, <1>9 DEF n

\* while buf.len() > cap: pop_front, after one push_back.
LEMMA DropOldestFacts ==
    ASSUME NEW b \in Seq(Entries), NEW x \in Entries, Len(b) <= cap, Ordered(b),
           Before(Range(b), {x})
    PROVE  LET d == DropOldest(Append(b, x))
               cut == IF Len(b) = cap THEN 1 ELSE 0
           IN  /\ d \in Seq(Entries) /\ Len(d) = Len(b) + 1 - cut /\ Len(d) <= cap
               /\ \A k \in 1 .. Len(d) : /\ k + cut \in 1 .. Len(b) + 1
                                         /\ d[k] = Append(b, x)[k + cut]
               /\ Range(d) \subseteq Range(b) \cup {x} /\ x \in Range(d)
               /\ Len(b) < cap => Range(d) = Range(b) \cup {x}
               /\ Ordered(d)
<1> DEFINE a == Append(b, x)
           d == DropOldest(a)
           cut == IF Len(b) = cap THEN 1 ELSE 0
<1>1. /\ a \in Seq(Entries) /\ Len(a) = Len(b) + 1 /\ a[Len(b) + 1] = x
      /\ Range(a) = Range(b) \cup {x}
    BY AppendFacts
<1>2. Ordered(a)
    BY AppendOrdered
<1>3. Len(b) \in Nat /\ cap \in Nat /\ cap >= 1
    BY ChannelAssumption
<1> HIDE DEF a
<1>4. CASE Len(b) = cap
  <2>1. d = Tail(a) /\ cut = 1 /\ a # <<>>
    BY <1>1, <1>3, <1>4 DEF DropOldest
  <2> HIDE DEF d, cut
  <2>2. /\ d \in Seq(Entries) /\ Len(d) = Len(a) - 1 /\ Len(d) = cap
        /\ \A k \in 1 .. Len(d) : k + 1 \in 1 .. Len(a) /\ d[k] = a[k + 1]
        /\ Range(a) = Range(d) \cup {Head(a)}
    BY <1>1, <1>3, <1>4, <2>1, TailFacts
  <2>3. Ordered(d)
    BY <1>1, <1>2, <2>1, TailOrdered
  <2>4. d[cap] = x /\ cap \in 1 .. Len(d)
    BY <1>1, <1>3, <1>4, <2>2
  <2>5. x \in Range(d)
    BY <2>2, <2>4, RangeMeans
  <2>6. Len(d) = Len(b) + 1 - cut /\ Len(d) <= cap /\ ~(Len(b) < cap)
    <3>1. Len(d) = cap /\ cut = 1
      BY <2>1, <2>2
    <3> QED  BY <1>3, <1>4, <3>1
  <2>7. \A k \in 1 .. Len(d) : k + cut \in 1 .. Len(b) + 1 /\ d[k] = a[k + cut]
    BY <1>1, <2>1, <2>2
  <2> QED  BY <1>1, <2>2, <2>3, <2>5, <2>6, <2>7 DEF d, cut, a
<1>5. CASE Len(b) # cap
  <2>1. d = a /\ cut = 0
    BY <1>1, <1>3, <1>5 DEF DropOldest
  <2> HIDE DEF d, cut
  <2>2. Len(d) = Len(b) + 1 - cut /\ Len(d) <= cap
    BY <1>1, <1>3, <1>5, <2>1
  <2>3. \A k \in 1 .. Len(d) : k + cut \in 1 .. Len(b) + 1 /\ d[k] = a[k + cut]
    BY <1>1, <1>3, <2>1
  <2> QED  BY <1>1, <1>2, <2>1, <2>2, <2>3 DEF d, cut, a
<1> QED  BY <1>4, <1>5

\* The event a task is about to push is new.
LEMMA EntryIsNew ==
    ASSUME ChannelTypes, TaskTypes, SentInv, NEW t \in Subscriptions,
           task[t] \in Unsent
    PROVE  /\ Entry(t) \in Entries /\ Entry(t).key = market_event_key(t)
           /\ Entry(t).from = t /\ Entry(t).seq = number[t]
           /\ Before(Range(pushed), {Entry(t)})
<1> DEFINE x == Entry(t)
<1>1. x.key = market_event_key(t) /\ x.from = t /\ x.seq = number[t]
    BY DEF Entry
<1>2. number[t] \in Nat
    BY DEF TaskTypes
<1>3. channel[t] \in Kinds
    BY StreamAssumption DEF TaskTypes, Kinds
<1>4. market_event_key(t) \in Keys
    BY <1>3 DEF market_event_key, Keys
<1>5. x \in Entries
    BY <1>2, <1>4 DEF Entry, Entries
<1> HIDE DEF x
<1>6. ASSUME NEW e \in Range(pushed), e.from = x.from
      PROVE  e.seq < x.seq
    BY <1>1, <1>6 DEF SentInv
<1>7. Before(Range(pushed), {x})
    BY <1>6 DEF Before
<1> QED  BY <1>1, <1>5, <1>7 DEF x

\* With one event of a key, there is one of a subscription.
LEMMA OneKeyOrdered ==
    ASSUME NEW s \in Seq(Entries),
           \A i \in 1 .. Len(s) : s[i].key = market_event_key(s[i].from),
           \A i, j \in 1 .. Len(s) : s[i].key = s[j].key => i = j
    PROVE  Ordered(s)
<1>1. ASSUME NEW i \in 1 .. Len(s), NEW j \in 1 .. Len(s), i < j
      PROVE  s[i].from # s[j].from
  <2>1. s[i].key # s[j].key
    BY <1>1
  <2> QED  BY <2>1
<1> QED  BY <1>1 DEF Ordered

\* send, under the buffer's lock, keeps the buffer.
LEMMA PushedBuffer ==
    ASSUME ChannelTypes, TaskTypes, SentInv, PlacesInv, BufferInv, OrderInv,
           NEW t \in Subscriptions, task[t] \in Unsent, Push(Entry(t))
    PROVE  /\ buf' \in Seq(Entries)
           /\ Range(buf') \subseteq Range(buf) \cup {Entry(t)}
           /\ Entry(t) \in Range(buf')
           /\ BufferInv' /\ Ordered(buf')
<1> DEFINE x == Entry(t)
           slots == {i \in 1 .. Len(buf) : buf[i].key = x.key}
           a == Append(buf, x)
           d == DropOldest(a)
           cut == IF Len(buf) = cap THEN 1 ELSE 0
           n == Len(pushed)
<1>1. /\ x \in Entries /\ x.key = market_event_key(t) /\ x.from = t
      /\ Before(Range(pushed), {x})
    BY EntryIsNew
<1>2. /\ policy' = policy /\ pushed' = Append(pushed, x)
      /\ buf' = IF policy = "Coalesce" /\ slots # {} THEN [buf EXCEPT ![Min(slots)] = x]
                ELSE d
    BY DEF Push, Pushed
<1>3. /\ buf \in Seq(Entries) /\ Len(buf) \in Nat /\ Len(buf) <= cap
      /\ pushed \in Seq(Entries) /\ n \in Nat
    BY DEF ChannelTypes, BufferInv
<1>4. Range(buf) \subseteq Range(pushed)
    BY DEF PlacesInv, Held
<1> HIDE DEF x
<1>5. \A i \in 1 .. Len(buf) : buf[i].key = market_event_key(buf[i].from)
  <2>1. \A i \in 1 .. Len(buf) : buf[i] \in Range(buf)
    BY <1>3, RangeMeans
  <2> QED  BY <1>4, <2>1 DEF SentInv
<1>6. CASE policy = "Coalesce" /\ slots # {}
  <2> DEFINE k == Min(slots)
  <2>1. k \in slots
    <3>1. slots \in SUBSET Nat
      OBVIOUS
    <3> QED  BY <1>6, <3>1, SlotIsOne
  <2>2. k \in 1 .. Len(buf) /\ buf[k].key = x.key
    BY <2>1
  <2> HIDE DEF k
  <2>3. buf' = [buf EXCEPT ![k] = x]
    BY <1>2, <1>6 DEF k
  <2>4. /\ buf' \in Seq(Entries) /\ Len(buf') = Len(buf)
        /\ \A i \in 1 .. Len(buf) : buf'[i] = IF i = k THEN x ELSE buf[i]
        /\ Range(buf') \subseteq Range(buf) \cup {x} /\ x \in Range(buf')
    <3>1. buf \in Seq(Entries) /\ x \in Entries
      BY <1>1, <1>3
    <3>2. buf' = Replaced(buf, k, x)
      BY <2>3 DEF Replaced
    <3> DEFINE b == Replaced(buf, k, x)
    <3>3. b \in Seq(Entries) /\ Len(b) = Len(buf)
      BY <2>2, <3>1, ReplaceFacts
    <3>4. \A i \in 1 .. Len(buf) : b[i] = IF i = k THEN x ELSE buf[i]
      BY <2>2, <3>1, ReplaceFacts
    <3>5. Range(b) \subseteq Range(buf) \cup {x} /\ x \in Range(b)
      BY <2>2, <3>1, ReplaceFacts
    <3> HIDE DEF b
    <3>6. buf' = b
      BY <3>2 DEF b
    <3> QED  BY <3>3, <3>4, <3>5, <3>6
  <2>5. \A i \in 1 .. Len(buf) : buf'[i].key = buf[i].key
    BY <2>2, <2>4
  <2>6. \A i, j \in 1 .. Len(buf) : buf[i].key = buf[j].key => i = j
    BY <1>6 DEF BufferInv
  <2>7. \A i, j \in 1 .. Len(buf') : buf'[i].key = buf'[j].key => i = j
    BY <2>4, <2>5, <2>6
  <2>8. \A i \in 1 .. Len(buf') : buf'[i].key = market_event_key(buf'[i].from)
    BY <1>1, <1>5, <2>4
  <2>9. Ordered(buf')
    BY <2>4, <2>7, <2>8, OneKeyOrdered
  <2>10. BufferInv'
    BY <1>2, <1>3, <1>6, <2>4, <2>7 DEF BufferInv
  <2> QED  BY <2>4, <2>9, <2>10 DEF x
<1>7. CASE ~(policy = "Coalesce" /\ slots # {})
  <2>1. buf' = d
    BY <1>2, <1>7
  <2>2. Ordered(buf)
    BY DEF OrderInv
  <2>3. Before(Range(buf), {x})
    BY <1>1, <1>4, BeforeParts
  <2>4. /\ d \in Seq(Entries) /\ Len(d) = Len(buf) + 1 - cut /\ Len(d) <= cap
        /\ \A k \in 1 .. Len(d) : k + cut \in 1 .. Len(buf) + 1 /\ d[k] = a[k + cut]
        /\ Range(d) \subseteq Range(buf) \cup {x} /\ x \in Range(d)
        /\ Ordered(d)
    BY <1>1, <1>3, <2>2, <2>3, DropOldestFacts
  <2>5. /\ Len(a) = Len(buf) + 1 /\ a[Len(buf) + 1] = x
        /\ \A i \in 1 .. Len(buf) : a[i] = buf[i]
    BY <1>1, <1>3, AppendFacts
  <2>6. cut \in {0, 1} /\ cap \in Nat
    BY ChannelAssumption
  <2> HIDE DEF a, d, cut
  <2>7. ASSUME policy = "Coalesce"
        PROVE  \A i, j \in 1 .. Len(d) : d[i].key = d[j].key => i = j
    <3>1. \A i \in 1 .. Len(buf) : buf[i].key # x.key
      BY <1>7, <2>7
    <3>2. \A i, j \in 1 .. Len(buf) : buf[i].key = buf[j].key => i = j
      BY <2>7 DEF BufferInv
    <3>3. ASSUME NEW i \in 1 .. Len(buf) + 1, NEW j \in 1 .. Len(buf) + 1,
                 a[i].key = a[j].key
          PROVE  i = j
      <4>1. /\ i \in 1 .. Len(buf) \/ i = Len(buf) + 1
            /\ j \in 1 .. Len(buf) \/ j = Len(buf) + 1
        BY <1>3
      <4> QED  BY <2>5, <3>1, <3>2, <3>3, <4>1
    <3>4. ASSUME NEW i \in 1 .. Len(d), NEW j \in 1 .. Len(d), d[i].key = d[j].key
          PROVE  i = j
      <4>1. i + cut = j + cut
        BY <2>4, <3>3, <3>4
      <4> QED  BY <2>6, <4>1
    <3> QED  BY <3>4
  <2>8. ASSUME policy = "DropOldest"
        PROVE  /\ Len(d) <= Len(pushed')
               /\ \A k \in 1 .. Len(d) : d[k] = pushed'[Len(pushed') - Len(d) + k]
    <3>1. /\ Len(buf) <= n
          /\ \A k \in 1 .. Len(buf) : buf[k] = pushed[n - Len(buf) + k]
      BY <2>8 DEF BufferInv
    <3>2. /\ Len(pushed') = n + 1 /\ pushed'[n + 1] = x
          /\ \A i \in 1 .. n : pushed'[i] = pushed[i]
      BY <1>1, <1>2, <1>3, AppendFacts
    <3>3. Len(d) <= Len(pushed')
      BY <1>3, <2>4, <2>6, <3>1, <3>2
    <3>4. ASSUME NEW k \in 1 .. Len(d)
          PROVE  d[k] = pushed'[Len(pushed') - Len(d) + k]
      <4>1. k + cut \in 1 .. Len(buf) + 1 /\ d[k] = a[k + cut]
        BY <2>4
      <4>2. CASE k + cut \in 1 .. Len(buf)
        <5>1. d[k] = pushed[n - Len(buf) + (k + cut)]
          BY <2>5, <3>1, <4>1, <4>2
        <5>2. n - Len(buf) + (k + cut) = Len(pushed') - Len(d) + k
          <6>1. Len(d) = Len(buf) + 1 - cut /\ Len(pushed') = n + 1
            BY <2>4, <3>2
          <6> QED  BY <1>3, <2>6, <6>1
        <5>3. n - Len(buf) + (k + cut) \in 1 .. n
          BY <1>3, <3>1, <4>2
        <5> QED  BY <3>2, <5>1, <5>2, <5>3
      <4>3. CASE k + cut = Len(buf) + 1
        <5>1. Len(pushed') - Len(d) + k = n + 1
          <6>1. Len(d) = Len(buf) + 1 - cut /\ Len(pushed') = n + 1
            BY <2>4, <3>2
          <6> QED  BY <1>3, <2>6, <4>3, <6>1
        <5> QED  BY <2>5, <3>2, <4>1, <4>3, <5>1
      <4> QED  BY <1>3, <4>1, <4>2, <4>3
    <3> QED  BY <3>3, <3>4
  <2>9. BufferInv'
    BY <1>2, <2>1, <2>4, <2>7, <2>8 DEF BufferInv
  <2> QED  BY <2>1, <2>4, <2>9 DEF x
<1> QED  BY <1>6, <1>7
-----------------------------------------------------------------------------
(* The steps of the tasks.                                                 *)

\* A step that numbers and sends nothing.
LEMMA CalmStep ==
    ASSUME TaskTypes, SentInv, UNCHANGED <<channel, seq, number, pushed>>,
           task' \in [Subscriptions -> Places],
           \A u \in Subscriptions : task'[u] \in Unsent => task[u] \in Unsent,
           ChannelTypes
    PROVE  TaskTypes' /\ SentInv'
<1>1. TaskTypes'
    BY DEF TaskTypes
<1>2. \A t \in Subscriptions : number'[t] <= seq'
    BY DEF SentInv
<1>3. ASSUME NEW e \in Range(pushed')
      PROVE  /\ e.key = market_event_key(e.from)'
             /\ e.seq <= number'[e.from]
             /\ task'[e.from] \in Unsent => e.seq < number'[e.from]
  <2>1. e \in Range(pushed)
    OBVIOUS
  <2>2. e.from \in Subscriptions
    <3>1. e \in Entries
      BY <2>1 DEF ChannelTypes, Range
    <3> QED  BY <3>1 DEF Entries
  <2>3. /\ e.key = market_event_key(e.from) /\ e.seq <= number[e.from]
        /\ task[e.from] \in Unsent => e.seq < number[e.from]
    BY <2>1 DEF SentInv
  <2>4. market_event_key(e.from)' = market_event_key(e.from)
    BY DEF market_event_key
  <2> QED  BY <2>2, <2>3, <2>4
<1> QED  BY <1>1, <1>2, <1>3 DEF SentInv

\* A task takes a number.
LEMMA WakeStep ==
    ASSUME ChannelTypes, TaskTypes, SentInv, NEW t \in Subscriptions, Wake(t)
    PROVE  TaskTypes' /\ SentInv'
<1>1. seq \in Nat /\ seq' = seq + 1 /\ channel' = channel /\ pushed' = pushed
    BY DEF Wake, TaskTypes
<1>2. /\ number' \in [Subscriptions -> Nat] /\ number'[t] = seq + 1
      /\ \A u \in Subscriptions : u # t => number'[u] = number[u]
    BY <1>1 DEF Wake, TaskTypes
<1>3. /\ task' \in [Subscriptions -> Places]
      /\ \A u \in Subscriptions : u # t => task'[u] = task[u]
  <2>1. /\ task' = [task EXCEPT ![t] = "fetching"] /\ task \in [Subscriptions -> Places]
        /\ "fetching" \in Places
    BY DEF Wake, Goto, TaskTypes, Places
  <2> QED  BY <2>1
<1>4. TaskTypes'
    BY <1>1, <1>2, <1>3 DEF TaskTypes
<1>5. \A u \in Subscriptions : number[u] \in Nat /\ number[u] <= seq
    BY DEF SentInv, TaskTypes
<1>6. \A u \in Subscriptions : number'[u] <= seq'
    BY <1>1, <1>2, <1>5
<1>7. ASSUME NEW e \in Range(pushed')
      PROVE  /\ e.key = market_event_key(e.from)'
             /\ e.seq <= number'[e.from]
             /\ task'[e.from] \in Unsent => e.seq < number'[e.from]
  <2>1. e \in Range(pushed)
    BY <1>1
  <2>2. e.from \in Subscriptions /\ e.seq \in Nat
    <3>1. e \in Entries
      BY <2>1 DEF ChannelTypes, Range
    <3> QED  BY <3>1 DEF Entries
  <2>3. /\ e.key = market_event_key(e.from) /\ e.seq <= number[e.from]
        /\ task[e.from] \in Unsent => e.seq < number[e.from]
    BY <2>1 DEF SentInv
  <2>4. market_event_key(e.from)' = market_event_key(e.from)
    BY <1>1 DEF market_event_key
  <2>5. CASE e.from # t
    BY <1>2, <1>3, <2>2, <2>3, <2>4, <2>5
  <2>6. CASE e.from = t
    <3>1. number[t] \in Nat /\ number[t] <= seq /\ e.seq <= number[t]
      BY <1>5, <2>3, <2>6
    <3>2. e.seq < seq + 1
      BY <1>1, <2>2, <3>1
    <3>3. e.seq <= seq + 1
      BY <1>1, <2>2, <3>1
    <3> QED  BY <1>2, <2>3, <2>4, <2>6, <3>2, <3>3
  <2> QED  BY <2>5, <2>6
<1> QED  BY <1>4, <1>6, <1>7 DEF SentInv

\* A task sends its event.
LEMMA SentStep ==
    ASSUME ChannelTypes, TaskTypes, SentInv, NEW t \in Subscriptions,
           task[t] \in Unsent, pushed' = Append(pushed, Entry(t)),
           UNCHANGED <<channel, seq, number>>, NEW l \in Places \ Unsent, Goto(t, l)
    PROVE  /\ TaskTypes' /\ SentInv' /\ pushed' \in Seq(Entries)
           /\ Range(pushed') = Range(pushed) \cup {Entry(t)}
<1> DEFINE x == Entry(t)
<1>1. x \in Entries /\ x.key = market_event_key(t) /\ x.from = t /\ x.seq = number[t]
    BY EntryIsNew
<1> HIDE DEF x
<1>2. /\ pushed' \in Seq(Entries) /\ Range(pushed') = Range(pushed) \cup {x}
  <2>1. pushed \in Seq(Entries) /\ pushed' = Append(pushed, x)
    BY DEF ChannelTypes, x
  <2> QED  BY <1>1, <2>1, AppendFacts
<1>3. /\ task' \in [Subscriptions -> Places] /\ task'[t] = l
      /\ \A u \in Subscriptions : u # t => task'[u] = task[u]
    BY DEF Goto, TaskTypes
<1>4. TaskTypes'
    BY <1>3 DEF TaskTypes
<1>5. \A u \in Subscriptions : number'[u] <= seq'
    BY DEF SentInv
<1>6. \A u : market_event_key(u)' = market_event_key(u)
    BY DEF market_event_key
<1>7. number'[t] = number[t] /\ number[t] \in Nat
    BY DEF TaskTypes
<1>8. ASSUME NEW e \in Range(pushed')
      PROVE  /\ e.key = market_event_key(e.from)'
             /\ e.seq <= number'[e.from]
             /\ task'[e.from] \in Unsent => e.seq < number'[e.from]
  <2>1. CASE e = x
    <3>1. e.seq <= number'[t] /\ task'[t] \notin Unsent
      BY <1>1, <1>3, <1>7, <2>1
    <3> QED  BY <1>1, <1>6, <2>1, <3>1
  <2>2. CASE e \in Range(pushed)
    <3>1. e.from \in Subscriptions
      <4>1. e \in Entries
        BY <2>2 DEF ChannelTypes, Range
      <4> QED  BY <4>1 DEF Entries
    <3>2. /\ e.key = market_event_key(e.from) /\ e.seq <= number[e.from]
          /\ task[e.from] \in Unsent => e.seq < number[e.from]
      BY <2>2 DEF SentInv
    <3>3. task'[e.from] \in Unsent => task[e.from] \in Unsent
      BY <1>3, <3>1
    <3> QED  BY <1>6, <3>2, <3>3
  <2> QED  BY <1>2, <2>1, <2>2
<1>9. SentInv'
    BY <1>5, <1>8 DEF SentInv
<1> QED  BY <1>2, <1>4, <1>9 DEF x

\* Where the task of t goes.
LEMMA GotoFacts ==
    ASSUME TaskTypes, NEW t \in Subscriptions, NEW l \in Places, Goto(t, l),
           l \in Unsent => task[t] \in Unsent
    PROVE  /\ task' \in [Subscriptions -> Places]
           /\ \A u \in Subscriptions : task'[u] \in Unsent => task[u] \in Unsent
<1>1. task' = [task EXCEPT ![t] = l] /\ task \in [Subscriptions -> Places]
    BY DEF Goto, TaskTypes
<1> QED  BY <1>1

\* Every step keeps the numbers of what was sent.
LEMMA SentNext ==
    ASSUME ChannelTypes, TaskTypes, SentInv, [Next]_vars
    PROVE  TaskTypes' /\ SentInv' /\ pushed' \in Seq(Entries)
<1> DEFINE Calm ==
        /\ UNCHANGED <<channel, seq, number, pushed>>
        /\ task' \in [Subscriptions -> Places]
        /\ \A u \in Subscriptions : task'[u] \in Unsent => task[u] \in Unsent
<1>1. ASSUME Calm
      PROVE  TaskTypes' /\ SentInv' /\ pushed' \in Seq(Entries)
  <2>1. TaskTypes' /\ SentInv'
    BY <1>1, CalmStep
  <2> QED  BY <1>1, <2>1 DEF ChannelTypes
<1>2. ASSUME NEW t \in Subscriptions, NEW l \in Places, Goto(t, l),
             l \in Unsent => task[t] \in Unsent,
             UNCHANGED <<channel, seq, number, pushed>>
      PROVE  Calm
    BY <1>2, GotoFacts
<1> HIDE DEF Calm
<1>3. ASSUME NEW t \in Subscriptions, NEW l \in Places \ Unsent, Goto(t, l),
             task[t] \in Unsent, pushed' = Append(pushed, Entry(t)),
             UNCHANGED <<channel, seq, number>>
      PROVE  TaskTypes' /\ SentInv' /\ pushed' \in Seq(Entries)
    BY <1>3, SentStep
<1>4. ASSUME NEW t \in Subscriptions, Task(t)
      PROVE  TaskTypes' /\ SentInv' /\ pushed' \in Seq(Entries)
  <2>1. CASE Wake(t)
    <3>1. pushed' \in Seq(Entries)
      BY <2>1 DEF Wake, ChannelTypes
    <3> QED  BY <2>1, <3>1, WakeStep
  <2>2. CASE NoticeDrop(t)
    <3>1. Goto(t, "leaving") /\ UNCHANGED <<channel, seq, number, pushed>>
      BY <2>2 DEF NoticeDrop
    <3>2. "leaving" \in Places /\ "leaving" \notin Unsent
      BY DEF Places, Unsent
    <3> QED  BY <1>1, <1>2, <3>1, <3>2
  <2>3. CASE Fetched(t)
    <3>1. Goto(t, "sending") /\ UNCHANGED <<channel, seq, number, pushed>>
      BY <2>3 DEF Fetched
    <3>2. task[t] \in Unsent /\ "sending" \in Places
      BY <2>3 DEF Fetched, Unsent, Places
    <3> QED  BY <1>1, <1>2, <3>1, <3>2
  <2>4. CASE FetchFails(t)
    <3>1. Goto(t, "asleep") /\ UNCHANGED <<channel, seq, number, pushed>>
      BY <2>4 DEF FetchFails
    <3>2. "asleep" \in Places /\ "asleep" \notin Unsent
      BY DEF Places, Unsent
    <3> QED  BY <1>1, <1>2, <3>1, <3>2
  <2>5. CASE SendBlock(t)
    <3>1. /\ Goto(t, "asleep") /\ UNCHANGED <<channel, seq, number>>
          /\ pushed' = Append(pushed, Entry(t))
      BY <2>5 DEF SendBlock, SendBlocking
    <3>2. task[t] \in Unsent /\ "asleep" \in Places \ Unsent
      BY <2>5 DEF SendBlock, Unsent, Places
    <3> QED  BY <1>3, <3>1, <3>2
  <2>6. CASE SendStart(t)
    <3>1. Goto(t, "pushing") /\ UNCHANGED <<channel, seq, number, pushed>>
      BY <2>6 DEF SendStart
    <3>2. task[t] \in Unsent /\ "pushing" \in Places
      BY <2>6 DEF SendStart, Unsent, Places
    <3> QED  BY <1>1, <1>2, <3>1, <3>2
  <2>7. CASE SendPush(t)
    <3>1. /\ Goto(t, "notifying") /\ UNCHANGED <<channel, seq, number>>
          /\ pushed' = Append(pushed, Entry(t))
      BY <2>7 DEF SendPush, Push
    <3>2. task[t] \in Unsent /\ "notifying" \in Places \ Unsent
      BY <2>7 DEF SendPush, Unsent, Places
    <3> QED  BY <1>3, <3>1, <3>2
  <2>8. CASE SendNotify(t)
    <3>1. Goto(t, "asleep") /\ UNCHANGED <<channel, seq, number, pushed>>
      BY <2>8 DEF SendNotify, NotifyOne
    <3>2. "asleep" \in Places /\ "asleep" \notin Unsent
      BY DEF Places, Unsent
    <3> QED  BY <1>1, <1>2, <3>1, <3>2
  <2>9. CASE Leave(t)
    <3> DEFINE l == IF live_tasks = 1 THEN "closing" ELSE "done"
    <3>1. Goto(t, l) /\ UNCHANGED <<channel, seq, number, pushed>>
      BY <2>9 DEF Leave
    <3>2. l \in Places /\ l \notin Unsent
      BY DEF Unsent, Places
    <3> HIDE DEF l
    <3> QED  BY <1>1, <1>2, <3>1, <3>2
  <2>10. CASE TaskClose(t)
    <3>1. Goto(t, "closed") /\ UNCHANGED <<channel, seq, number, pushed>>
      BY <2>10 DEF TaskClose, CloseSource
    <3>2. "closed" \in Places /\ "closed" \notin Unsent
      BY DEF Places, Unsent
    <3> QED  BY <1>1, <1>2, <3>1, <3>2
  <2>11. CASE TaskCloseNotify(t)
    <3>1. Goto(t, "done") /\ UNCHANGED <<channel, seq, number, pushed>>
      BY <2>11 DEF TaskCloseNotify, NotifyOne
    <3>2. "done" \in Places /\ "done" \notin Unsent
      BY DEF Places, Unsent
    <3> QED  BY <1>1, <1>2, <3>1, <3>2
  <2> QED  BY <1>4, <2>1, <2>2, <2>3, <2>4, <2>5, <2>6, <2>7, <2>8, <2>9, <2>10,
              <2>11 DEF Task
<1>5. ASSUME UNCHANGED taskVars, pushed' = pushed
      PROVE  TaskTypes' /\ SentInv' /\ pushed' \in Seq(Entries)
    BY <1>1, <1>5 DEF Calm, TaskTypes
<1>6. ASSUME Forward \/ Recv \/ DropReceiver
      PROVE  pushed' = pushed
    BY <1>6 DEF Forward, FwdCheck, FwdTake, FwdSend, FwdAbort, FwdSent, FwdPark,
                FwdWake, Recv, DropReceiver
<1>7. CASE UNCHANGED vars
    BY <1>5, <1>7 DEF vars
<1> QED  BY <1>4, <1>5, <1>6, <1>7 DEF Next
-----------------------------------------------------------------------------
(* The steps of the channel.                                               *)

\* A step that moves nothing.
LEMMA QuietStep ==
    ASSUME PipeInv, UNCHANGED <<policy, buf, hand, chan, got, pushed>>,
           fwd' \in EmptyHanded => hand = <<>>
    PROVE  PipeInv' /\ Held' = Held
<1>1. Held' = Held
    BY DEF Held
<1>2. ChannelTypes'
    BY DEF PipeInv, ChannelTypes
<1>3. PlacesInv'
    BY <1>1 DEF PipeInv, PlacesInv, EmptyHanded
<1>4. BufferInv'
    BY DEF PipeInv, BufferInv
<1>5. OrderInv'
    BY DEF PipeInv, OrderInv
<1> QED  BY <1>1, <1>2, <1>3, <1>4, <1>5 DEF PipeInv

\* mem::take of the buffer.
LEMMA TakeStep ==
    ASSUME PipeInv, FwdTake
    PROVE  PipeInv' /\ Held' = Held
<1>1. /\ hand = <<>> /\ hand' = buf /\ buf' = <<>>
      /\ UNCHANGED <<policy, chan, got, pushed>>
      /\ fwd' \in EmptyHanded => buf = <<>>
    BY DEF FwdTake, PipeInv, PlacesInv, EmptyHanded
<1>2. Range(hand) = {} /\ Range(buf') = {} /\ Range(hand') = Range(buf) /\ Ordered(buf')
    BY <1>1, EmptyFacts
<1>3. Held' = Held
    BY <1>1, <1>2 DEF Held
<1>4. ChannelTypes'
  <2>1. buf' \in Seq(Entries) /\ hand' \in Seq(Entries)
    BY <1>1 DEF PipeInv, ChannelTypes
  <2> QED  BY <1>1, <2>1 DEF PipeInv, ChannelTypes
<1>5. PlacesInv'
    BY <1>1, <1>3 DEF PipeInv, PlacesInv, EmptyHanded
<1>6. BufferInv'
  <2>1. Len(buf') = 0 /\ 1 .. 0 = {} /\ Len(pushed) \in Nat /\ cap \in Nat
    BY <1>1, ChannelAssumption DEF PipeInv, ChannelTypes
  <2>2. Len(buf') <= cap /\ Len(buf') <= Len(pushed')
    BY <1>1, <2>1
  <2> QED  BY <2>1, <2>2 DEF BufferInv
<1>7. OrderInv'
  <2>1. \A A : Before(A, Range(buf'))
    BY <1>2 DEF Before
  <2>2. /\ Ordered(hand') /\ Before(Range(got), Range(hand'))
        /\ Before(Range(chan), Range(hand'))
    BY <1>1, <1>2 DEF PipeInv, OrderInv
  <2>3. /\ Ordered(pushed') /\ Ordered(got') /\ Ordered(chan')
        /\ Before(Range(got'), Range(chan'))
    BY <1>1 DEF PipeInv, OrderInv
  <2> QED  BY <1>1, <1>2, <2>1, <2>2, <2>3 DEF OrderInv
<1> QED  BY <1>3, <1>4, <1>5, <1>6, <1>7 DEF PipeInv

\* tx.send().await of one item of the batch.
LEMMA ForwardStep ==
    ASSUME PipeInv, FwdSend
    PROVE  PipeInv' /\ Held' = Held
<1> DEFINE x == Head(hand)
<1>1. /\ hand # <<>> /\ chan' = Append(chan, x) /\ hand' = Tail(hand)
      /\ UNCHANGED <<policy, buf, got, pushed, fwd>>
    BY DEF FwdSend
<1>2. /\ chan \in Seq(Entries) /\ hand \in Seq(Entries) /\ Ordered(chan) /\ Ordered(hand)
      /\ Before(Range(chan), Range(hand))
    BY DEF PipeInv, ChannelTypes, OrderInv
<1>3. /\ Ordered(chan') /\ Ordered(hand') /\ Before(Range(chan'), Range(hand'))
      /\ Range(chan') = Range(chan) \cup {x} /\ Range(hand) = Range(hand') \cup {x}
    BY <1>1, <1>2, MoveHead
<1>4. chan' \in Seq(Entries) /\ hand' \in Seq(Entries)
  <2>1. x \in Entries /\ hand' \in Seq(Entries)
    BY <1>1, <1>2, TailFacts
  <2> QED  BY <1>1, <1>2, <2>1, AppendFacts
<1> HIDE DEF x
<1>5. Held' = Held
    BY <1>1, <1>3 DEF Held
<1>6. ChannelTypes'
    BY <1>1, <1>4 DEF PipeInv, ChannelTypes
<1>7. PlacesInv'
    BY <1>1, <1>5 DEF PipeInv, PlacesInv
<1>8. BufferInv'
    BY <1>1 DEF PipeInv, BufferInv
<1>9. OrderInv'
  <2>1. Before(Range(got), Range(chan'))
    BY <1>3 DEF PipeInv, OrderInv, Before
  <2>2. Before(Range(got), Range(hand'))
    BY <1>3 DEF PipeInv, OrderInv, Before
  <2>3. Before(Range(chan'), Range(buf))
    BY <1>3 DEF PipeInv, OrderInv, Before
  <2>4. Before(Range(hand'), Range(buf))
    BY <1>3 DEF PipeInv, OrderInv, Before
  <2> QED  BY <1>1, <1>3, <2>1, <2>2, <2>3, <2>4 DEF PipeInv, OrderInv
<1> QED  BY <1>5, <1>6, <1>7, <1>8, <1>9 DEF PipeInv

\* The receiver gets the next item.
LEMMA RecvStep ==
    ASSUME PipeInv, Recv
    PROVE  PipeInv' /\ Held' = Held
<1> DEFINE x == Head(chan)
<1>1. /\ chan # <<>> /\ got' = Append(got, x) /\ chan' = Tail(chan)
      /\ UNCHANGED <<policy, buf, hand, pushed, fwd>>
    BY DEF Recv
<1>2. /\ got \in Seq(Entries) /\ chan \in Seq(Entries) /\ Ordered(got) /\ Ordered(chan)
      /\ Before(Range(got), Range(chan))
    BY DEF PipeInv, ChannelTypes, OrderInv
<1>3. /\ Ordered(got') /\ Ordered(chan') /\ Before(Range(got'), Range(chan'))
      /\ Range(got') = Range(got) \cup {x} /\ Range(chan) = Range(chan') \cup {x}
    BY <1>1, <1>2, MoveHead
<1>4. got' \in Seq(Entries) /\ chan' \in Seq(Entries)
  <2>1. x \in Entries /\ chan' \in Seq(Entries)
    BY <1>1, <1>2, TailFacts
  <2> QED  BY <1>1, <1>2, <2>1, AppendFacts
<1> HIDE DEF x
<1>5. Held' = Held
    BY <1>1, <1>3 DEF Held
<1>6. ChannelTypes'
    BY <1>1, <1>4 DEF PipeInv, ChannelTypes
<1>7. PlacesInv'
    BY <1>1, <1>5 DEF PipeInv, PlacesInv
<1>8. BufferInv'
    BY <1>1 DEF PipeInv, BufferInv
<1>9. OrderInv'
  <2>1. Before(Range(got'), Range(hand))
    BY <1>3 DEF PipeInv, OrderInv, Before
  <2>2. Before(Range(got'), Range(buf))
    BY <1>3 DEF PipeInv, OrderInv, Before
  <2>3. Before(Range(chan'), Range(hand))
    BY <1>3 DEF PipeInv, OrderInv, Before
  <2>4. Before(Range(chan'), Range(buf))
    BY <1>3 DEF PipeInv, OrderInv, Before
  <2> QED  BY <1>1, <1>3, <2>1, <2>2, <2>3, <2>4 DEF PipeInv, OrderInv
<1> QED  BY <1>5, <1>6, <1>7, <1>8, <1>9 DEF PipeInv

\* send with OverflowPolicy::Block.
LEMMA BlockStep ==
    ASSUME OrderedInv, NEW t \in Subscriptions, SendBlock(t)
    PROVE  PipeInv'
<1> DEFINE x == Entry(t)
<1>1. /\ policy = "Block" /\ chan' = Append(chan, x) /\ pushed' = Append(pushed, x)
      /\ UNCHANGED <<policy, buf, hand, got, fwd>> /\ task[t] \in Unsent
    BY DEF SendBlock, SendBlocking, Unsent
<1>2. x \in Entries /\ Before(Range(pushed), {x})
    BY <1>1, EntryIsNew DEF OrderedInv, PipeInv
<1> HIDE DEF x
<1>3. chan \in Seq(Entries) /\ pushed \in Seq(Entries) /\ Ordered(chan) /\ Ordered(pushed)
    BY DEF OrderedInv, PipeInv, ChannelTypes, OrderInv
<1>4. buf = <<>> /\ hand = <<>> /\ Held \subseteq Range(pushed)
    BY <1>1 DEF OrderedInv, PipeInv, PlacesInv
<1>5. /\ chan' \in Seq(Entries) /\ pushed' \in Seq(Entries)
      /\ Range(chan') = Range(chan) \cup {x} /\ Range(pushed') = Range(pushed) \cup {x}
    BY <1>1, <1>2, <1>3, AppendFacts
<1>6. Before(Range(chan), {x}) /\ Before(Range(got), {x})
  <2>1. Range(chan) \subseteq Range(pushed) /\ Range(got) \subseteq Range(pushed)
    BY <1>4 DEF Held
  <2> QED  BY <1>2, <2>1, BeforeParts
<1>7. Ordered(chan') /\ Ordered(pushed')
    BY <1>1, <1>2, <1>3, <1>6, AppendOrdered
<1>8. ChannelTypes'
    BY <1>1, <1>5 DEF OrderedInv, PipeInv, ChannelTypes
<1>9. PlacesInv'
  <2>1. Held' \subseteq Range(pushed')
    BY <1>1, <1>4, <1>5 DEF Held
  <2> QED  BY <1>1, <1>4, <2>1 DEF PlacesInv
<1>10. BufferInv'
    BY <1>1 DEF OrderedInv, PipeInv, BufferInv
<1>11. OrderInv'
  <2>1. Range(hand') = {} /\ Range(buf') = {} /\ Ordered(hand') /\ Ordered(buf')
    BY <1>1, <1>4, EmptyFacts
  <2>2. \A A : Before(A, Range(hand')) /\ Before(A, Range(buf'))
    BY <2>1 DEF Before
  <2>3. Before(Range(got), Range(chan)) /\ Ordered(got)
    BY DEF OrderedInv, PipeInv, OrderInv
  <2>4. Before(Range(got), Range(chan'))
    BY <1>5, <1>6, <2>3 DEF Before
  <2>5. Before(Range(got'), Range(chan')) /\ Ordered(got')
    BY <1>1, <2>3, <2>4
  <2> QED  BY <1>7, <2>1, <2>2, <2>5 DEF OrderInv
<1> QED  BY <1>8, <1>9, <1>10, <1>11 DEF PipeInv

\* send with the other policies.
LEMMA PushStep ==
    ASSUME OrderedInv, NEW t \in Subscriptions, SendPush(t)
    PROVE  PipeInv'
<1> DEFINE x == Entry(t)
<1>1. /\ policy # "Block" /\ pushed' = Append(pushed, x) /\ Push(x)
      /\ UNCHANGED <<policy, hand, chan, got, fwd>> /\ task[t] \in Unsent
    BY DEF SendPush, Push, Unsent
<1>2. x \in Entries /\ Before(Range(pushed), {x})
    BY <1>1, EntryIsNew DEF OrderedInv, PipeInv
<1>3. /\ buf' \in Seq(Entries) /\ Range(buf') \subseteq Range(buf) \cup {x}
      /\ BufferInv' /\ Ordered(buf')
    BY <1>1, PushedBuffer DEF OrderedInv, PipeInv
<1> HIDE DEF x
<1>4. pushed \in Seq(Entries) /\ Ordered(pushed) /\ Held \subseteq Range(pushed)
    BY DEF OrderedInv, PipeInv, ChannelTypes, PlacesInv, OrderInv
<1>5. /\ pushed' \in Seq(Entries) /\ Range(pushed') = Range(pushed) \cup {x}
    BY <1>1, <1>2, <1>4, AppendFacts
<1>6. Ordered(pushed')
    BY <1>1, <1>2, <1>4, AppendOrdered
<1>7. Before(Range(got), {x}) /\ Before(Range(chan), {x}) /\ Before(Range(hand), {x})
  <2>1. /\ Range(chan) \subseteq Range(pushed) /\ Range(got) \subseteq Range(pushed)
        /\ Range(hand) \subseteq Range(pushed)
    BY <1>4 DEF Held
  <2> QED  BY <1>2, <2>1, BeforeParts
<1>8. ChannelTypes'
    BY <1>1, <1>3, <1>5 DEF OrderedInv, PipeInv, ChannelTypes
<1>9. PlacesInv'
  <2>1. Held' \subseteq Held \cup {x}
    BY <1>1, <1>3 DEF Held
  <2>2. fwd' \in EmptyHanded => hand' = <<>>
    BY <1>1 DEF OrderedInv, PipeInv, PlacesInv
  <2> QED  BY <1>1, <1>4, <1>5, <2>1, <2>2 DEF PlacesInv
<1>10. OrderInv'
  <2>1. /\ Before(Range(got), Range(buf)) /\ Before(Range(chan), Range(buf))
        /\ Before(Range(hand), Range(buf))
    BY DEF OrderedInv, PipeInv, OrderInv
  <2>2. Before(Range(got), Range(buf'))
    BY <1>3, <1>7, <2>1 DEF Before
  <2>3. Before(Range(chan), Range(buf'))
    BY <1>3, <1>7, <2>1 DEF Before
  <2>4. Before(Range(hand), Range(buf'))
    BY <1>3, <1>7, <2>1 DEF Before
  <2>5. /\ Ordered(got) /\ Ordered(chan) /\ Ordered(hand)
        /\ Before(Range(got), Range(chan)) /\ Before(Range(got), Range(hand))
        /\ Before(Range(chan), Range(hand))
    BY DEF OrderedInv, PipeInv, OrderInv
  <2> QED  BY <1>1, <1>3, <1>6, <2>2, <2>3, <2>4, <2>5 DEF OrderInv
<1> QED  BY <1>3, <1>8, <1>9, <1>10 DEF PipeInv

\* Every step but a send moves what is held, and loses nothing.
LEMMA MoveNext ==
    ASSUME OrderedInv, [Next]_vars
    PROVE  \/ \E t \in Subscriptions : SendBlock(t) \/ SendPush(t)
           \/ /\ PipeInv' /\ Held' = Held
              /\ UNCHANGED <<policy, pushed>> /\ (rx' = "open" => rx = "open")
<1> DEFINE Moved == /\ PipeInv' /\ Held' = Held
                    /\ UNCHANGED <<policy, pushed>> /\ (rx' = "open" => rx = "open")
<1>1. PipeInv /\ (fwd \in EmptyHanded => hand = <<>>)
    BY DEF OrderedInv, PipeInv, PlacesInv
<1>2. ASSUME UNCHANGED <<policy, buf, hand, chan, got, pushed>>,
             fwd' = fwd \/ hand = <<>> \/ fwd' \notin EmptyHanded,
             rx' = rx \/ rx' = "dropped"
      PROVE  Moved
  <2>1. fwd' \in EmptyHanded => hand = <<>>
    BY <1>1, <1>2
  <2>2. PipeInv' /\ Held' = Held
    BY <1>1, <1>2, <2>1, QuietStep
  <2> QED  BY <1>2, <2>2
<1>3. ASSUME NEW t \in Subscriptions, Task(t)
      PROVE  SendBlock(t) \/ SendPush(t) \/ Moved
  <2>1. CASE \/ Wake(t) \/ NoticeDrop(t) \/ Fetched(t) \/ FetchFails(t)
             \/ SendStart(t) \/ Leave(t)
    BY <1>2, <2>1 DEF Wake, NoticeDrop, Fetched, FetchFails, SendStart, Leave
  <2>2. CASE SendNotify(t) \/ TaskClose(t) \/ TaskCloseNotify(t)
    BY <1>2, <2>2 DEF SendNotify, TaskClose, TaskCloseNotify, NotifyOne, CloseSource
  <2> QED  BY <1>3, <2>1, <2>2 DEF Task
<1>4. ASSUME Forward
      PROVE  Moved
  <2>1. CASE FwdCheck \/ FwdPark \/ FwdWake
    <3>1. hand = <<>>
      BY <1>1, <2>1 DEF FwdCheck, FwdPark, FwdWake, EmptyHanded
    <3> QED  BY <1>2, <2>1, <3>1 DEF FwdCheck, FwdPark, FwdWake
  <2>2. CASE FwdTake
    <3>1. UNCHANGED <<policy, pushed, rx>>
      BY <2>2 DEF FwdTake
    <3> QED  BY <1>1, <2>2, <3>1, TakeStep
  <2>3. CASE FwdSend
    <3>1. UNCHANGED <<policy, pushed, rx>>
      BY <2>3 DEF FwdSend
    <3> QED  BY <1>1, <2>3, <3>1, ForwardStep
  <2>4. CASE FwdAbort
    <3>1. fwd' \notin EmptyHanded
      BY <2>4 DEF FwdAbort, EmptyHanded
    <3> QED  BY <1>2, <2>4, <3>1 DEF FwdAbort
  <2>5. CASE FwdSent
    BY <1>2, <2>5 DEF FwdSent
  <2> QED  BY <1>4, <2>1, <2>2, <2>3, <2>4, <2>5 DEF Forward
<1>5. CASE Recv
  <2>1. UNCHANGED <<policy, pushed, rx>>
    BY <1>5 DEF Recv
  <2> QED  BY <1>1, <1>5, <2>1, RecvStep
<1>6. CASE DropReceiver
    BY <1>2, <1>6 DEF DropReceiver
<1>7. CASE UNCHANGED vars
    BY <1>2, <1>7 DEF vars
<1> QED  BY <1>3, <1>4, <1>5, <1>6, <1>7 DEF Next

\* The order is kept by every step.
LEMMA OrderedNext ==
    ASSUME OrderedInv, [Next]_vars
    PROVE  OrderedInv'
<1>1. TaskTypes' /\ SentInv'
    BY SentNext DEF OrderedInv, PipeInv
<1>2. PipeInv'
    BY MoveNext, BlockStep, PushStep
<1> QED  BY <1>1, <1>2 DEF OrderedInv

\* A new stream is in order.
LEMMA OrderedInit ==
    ASSUME Init
    PROVE  OrderedInv
<1>1. /\ channel \in Channels /\ seq = 0
      /\ task = [t \in Subscriptions |-> "asleep"]
      /\ number = [t \in Subscriptions |-> 0]
      /\ policy \in {StreamPolicy, "Block"} /\ fwd = "check"
      /\ buf = <<>> /\ hand = <<>> /\ chan = <<>> /\ got = <<>> /\ pushed = <<>>
    BY DEF Init, ChannelInit
<1>2. TaskTypes
    BY <1>1 DEF TaskTypes, Places
<1>3. ChannelTypes
    BY <1>1 DEF ChannelTypes, StreamPolicy
<1>4. /\ Range(pushed) = {} /\ Range(got) = {} /\ Range(chan) = {} /\ Range(hand) = {}
      /\ Range(buf) = {} /\ Ordered(pushed) /\ Ordered(got) /\ Ordered(chan)
      /\ Ordered(hand) /\ Ordered(buf)
    BY <1>1, EmptyFacts
<1>5. SentInv
    BY <1>1, <1>4 DEF SentInv
<1>6. PlacesInv
    BY <1>1, <1>4 DEF PlacesInv, Held
<1>7. BufferInv
  <2>1. Len(buf) = 0 /\ 1 .. 0 = {} /\ Len(pushed) = 0 /\ cap \in Nat
    BY <1>1, ChannelAssumption
  <2>2. Len(buf) <= cap /\ Len(buf) <= Len(pushed)
    BY <2>1
  <2> QED  BY <2>1, <2>2 DEF BufferInv
<1>8. OrderInv
    BY <1>4 DEF OrderInv, Before
<1> QED  BY <1>2, <1>3, <1>5, <1>6, <1>7, <1>8 DEF OrderedInv, PipeInv

\* ORDER.  For any subscriptions, capacity and policy, the receiver gets the
\* events of one subscription in the order of their sequence numbers.
THEOREM InOrderHolds == Spec => []InOrderPerSubscription
<1>1. Init => OrderedInv
    BY OrderedInit
<1>2. OrderedInv /\ [Next]_vars => OrderedInv'
    BY OrderedNext
<1>3. OrderedInv => InOrderPerSubscription
    BY DEF OrderedInv, PipeInv, OrderInv, Ordered, InOrderPerSubscription
<1> QED  BY <1>1, <1>2, <1>3, PTL DEF Spec
-----------------------------------------------------------------------------
(* What is kept.                                                           *)

\* A full DropOldest buffer gives one event up, another one none.
LEMMA DropOldestPush ==
    ASSUME OrderedInv, NEW t \in Subscriptions, SendPush(t), policy = "DropOldest"
    PROVE  Len(buf') = IF Len(buf) = cap THEN cap ELSE Len(buf) + 1
<1> DEFINE x == Entry(t)
           d == DropOldest(Append(buf, x))
<1>1. buf' = d /\ task[t] \in Unsent
    BY DEF SendPush, Push, Pushed, Unsent
<1>2. x \in Entries /\ Before(Range(pushed), {x})
    BY <1>1, EntryIsNew DEF OrderedInv, PipeInv
<1> HIDE DEF x
<1>3. /\ buf \in Seq(Entries) /\ Len(buf) <= cap /\ Ordered(buf)
      /\ Range(buf) \subseteq Range(pushed)
    BY DEF OrderedInv, PipeInv, ChannelTypes, BufferInv, OrderInv, PlacesInv, Held
<1>4. Before(Range(buf), {x})
    BY <1>2, <1>3, BeforeParts
<1>5. Len(d) = Len(buf) + 1 - (IF Len(buf) = cap THEN 1 ELSE 0)
    BY <1>2, <1>3, <1>4, DropOldestFacts
<1>6. Len(buf) \in Nat /\ cap \in Nat
    BY <1>3, ChannelAssumption
<1> HIDE DEF d
<1> QED  BY <1>1, <1>5, <1>6

\* While there is room for every key, Coalesce gives up only an event of the key
\* it pushes.
LEMMA CoalescePush ==
    ASSUME OrderedInv, NEW t \in Subscriptions, SendPush(t), policy = "Coalesce",
           Cardinality(Subscriptions) <= cap
    PROVE  \A e \in Range(buf) : e.key # market_event_key(t) => e \in Range(buf')
<1> DEFINE x == Entry(t)
           slots == {i \in 1 .. Len(buf) : buf[i].key = x.key}
<1>1. /\ buf' = IF slots # {} THEN [buf EXCEPT ![Min(slots)] = x]
                ELSE DropOldest(Append(buf, x))
      /\ task[t] \in Unsent
    BY DEF SendPush, Push, Pushed, Unsent
<1>2. x \in Entries /\ x.key = market_event_key(t) /\ Before(Range(pushed), {x})
    BY <1>1, EntryIsNew DEF OrderedInv, PipeInv
<1> HIDE DEF x
<1>3. /\ buf \in Seq(Entries) /\ Len(buf) <= cap /\ Ordered(buf)
      /\ Range(buf) \subseteq Range(pushed)
    BY DEF OrderedInv, PipeInv, ChannelTypes, BufferInv, OrderInv, PlacesInv, Held
<1>4. CASE slots # {}
  <2> DEFINE k == Min(slots)
  <2>1. k \in slots
    <3>1. slots \in SUBSET Nat
      OBVIOUS
    <3> QED  BY <1>4, <3>1, SlotIsOne
  <2>2. k \in 1 .. Len(buf) /\ buf[k].key = x.key
    BY <2>1
  <2> HIDE DEF k
  <2>3. buf' = Replaced(buf, k, x)
    BY <1>1, <1>4 DEF k, Replaced
  <2> DEFINE b == Replaced(buf, k, x)
  <2>4. \A e \in Range(buf) : e # buf[k] => e \in Range(b)
    BY <1>2, <1>3, <2>2, ReplaceFacts
  <2> HIDE DEF b
  <2>5. buf' = b
    BY <2>3 DEF b
  <2> QED  BY <1>2, <2>2, <2>4, <2>5
<1>5. CASE slots = {}
  <2>1. \A i \in 1 .. Len(buf) : buf[i].key # market_event_key(t)
    BY <1>2, <1>5
  <2>2. Len(buf) + 1 <= Cardinality(Subscriptions)
    BY <2>1, RoomForKey DEF OrderedInv, PipeInv
  <2>3. Len(buf) < cap
    <3>1. Len(buf) \in Nat /\ cap \in Nat /\ Cardinality(Subscriptions) \in Nat
      BY <1>3, ChannelAssumption, StreamAssumption, FS_CardinalityType
    <3> QED  BY <2>2, <3>1
  <2>4. Before(Range(buf), {x})
    BY <1>2, <1>3, BeforeParts
  <2> DEFINE d == DropOldest(Append(buf, x))
  <2>5. Range(d) = Range(buf) \cup {x}
    BY <1>2, <1>3, <2>3, <2>4, DropOldestFacts
  <2> HIDE DEF d
  <2>6. buf' = d
    BY <1>1, <1>5 DEF d
  <2> QED  BY <2>5, <2>6
<1> QED  BY <1>4, <1>5

\* A push keeps the newest event of every subscription.
LEMMA PushKeepsNewest ==
    ASSUME KeysApart, StreamInv, NEW t \in Subscriptions, SendPush(t)
    PROVE  NewestPerSubscription'
<1> DEFINE x == Entry(t)
<1> SUFFICES ASSUME rx' = "open", policy' = "Coalesce", Cardinality(Subscriptions) <= cap,
                    NEW u \in Subscriptions, NEW e \in Latest(u, Range(pushed'))
             PROVE  e \in Held'
    BY DEF NewestPerSubscription, Latest
<1>1. /\ rx = "open" /\ policy = "Coalesce" /\ pushed' = Append(pushed, x) /\ Push(x)
      /\ UNCHANGED <<hand, chan, got>> /\ task[t] \in Unsent
    BY DEF SendPush, Push, Unsent
<1>2. x \in Entries /\ x.from = t /\ Before(Range(pushed), {x})
    BY <1>1, EntryIsNew DEF StreamInv, OrderedInv, PipeInv
<1>3. x \in Range(buf')
    BY <1>1, PushedBuffer DEF StreamInv, OrderedInv, PipeInv
<1>4. \A f \in Range(buf) : f.key # market_event_key(t) => f \in Range(buf')
    BY <1>1, CoalescePush DEF StreamInv
<1> HIDE DEF x
<1>5. pushed \in Seq(Entries) /\ Range(pushed') = Range(pushed) \cup {x}
  <2>1. pushed \in Seq(Entries)
    BY DEF StreamInv, OrderedInv, PipeInv, ChannelTypes
  <2> QED  BY <1>1, <1>2, <2>1, AppendFacts
<1>6. /\ e \in Range(pushed) \cup {x} /\ e.from = u
      /\ \A f \in Range(pushed) \cup {x} : f.from = u => f.seq <= e.seq
    BY <1>5 DEF Latest
<1>7. CASE e = x
    BY <1>3, <1>7 DEF Held
<1>8. CASE e # x
  <2>1. e \in Range(pushed)
    BY <1>6, <1>8
  <2>2. e.seq \in Nat /\ x.seq \in Nat
    <3>1. e \in Entries
      BY <1>5, <2>1 DEF Range
    <3> QED  BY <1>2, <3>1 DEF Entries
  <2>3. u # t
    <3>1. ASSUME u = t
          PROVE  FALSE
      <4>1. x.seq <= e.seq /\ e.seq < x.seq
        BY <1>2, <1>6, <2>1, <3>1 DEF Before
      <4> QED  BY <2>2, <4>1
    <3> QED  BY <3>1
  <2>4. e \in Latest(u, Range(pushed))
    BY <1>6, <2>1 DEF Latest
  <2>5. e \in Held
    BY <1>1, <2>4 DEF StreamInv, NewestPerSubscription
  <2>6. e.key # market_event_key(t)
    <3>1. e.key = market_event_key(u) /\ channel \in Channels
      BY <1>6, <2>1 DEF StreamInv, OrderedInv, SentInv, TaskTypes
    <3>2. channel[u] # channel[t] \/ (channel[u] # "ohlcv" /\ symbol[u] # symbol[t])
      BY <2>3, <3>1 DEF KeysApart
    <3>3. market_event_key(u) # market_event_key(t)
      BY <3>2 DEF market_event_key
    <3> QED  BY <3>1, <3>3
  <2>7. CASE e \in Range(buf)
    BY <1>4, <2>6, <2>7 DEF Held
  <2>8. CASE e \in Range(got) \cup Range(chan) \cup Range(hand)
    BY <1>1, <2>8 DEF Held
  <2> QED  BY <2>5, <2>7, <2>8 DEF Held
<1> QED  BY <1>7, <1>8

\* A push keeps the last cap events.
LEMMA PushKeepsWindow ==
    ASSUME StreamInv, NEW t \in Subscriptions, SendPush(t)
    PROVE  NewestWindow'
<1> DEFINE x == Entry(t)
           n == Len(pushed)
           b == Len(buf)
<1> SUFFICES ASSUME rx' = "open", policy' = "DropOldest",
                    NEW i \in 1 .. Len(pushed'), i + cap > Len(pushed')
             PROVE  pushed'[i] \in Held'
    BY DEF NewestWindow
<1>1. /\ rx = "open" /\ policy = "DropOldest" /\ pushed' = Append(pushed, x) /\ Push(x)
      /\ UNCHANGED <<hand, chan, got>> /\ task[t] \in Unsent
    BY DEF SendPush, Push, Unsent
<1>2. x \in Entries
    BY <1>1, EntryIsNew DEF StreamInv, OrderedInv, PipeInv
<1>3. buf' \in Seq(Entries) /\ x \in Range(buf') /\ BufferInv'
    BY <1>1, PushedBuffer DEF StreamInv, OrderedInv, PipeInv
<1>4. Len(buf') = IF b = cap THEN cap ELSE b + 1
    BY <1>1, DropOldestPush DEF StreamInv
<1> HIDE DEF x
<1>5. /\ buf \in Seq(Entries) /\ pushed \in Seq(Entries) /\ Ordered(pushed)
      /\ b \in Nat /\ n \in Nat /\ cap \in Nat
    BY ChannelAssumption DEF StreamInv, OrderedInv, PipeInv, ChannelTypes, OrderInv
<1>6. /\ b <= cap /\ b <= n /\ \A k \in 1 .. b : buf[k] = pushed[n - b + k]
    BY <1>1 DEF StreamInv, OrderedInv, PipeInv, BufferInv
<1>7. /\ Len(pushed') = n + 1 /\ pushed'[n + 1] = x
      /\ \A j \in 1 .. n : pushed'[j] = pushed[j]
    BY <1>1, <1>2, <1>5, AppendFacts
<1>8. \A k \in 1 .. Len(buf') : buf'[k] = pushed'[n + 1 - Len(buf') + k]
  <2>1. policy' = "DropOldest" /\ Len(pushed') = n + 1
    BY <1>7
  <2> QED  BY <1>3, <2>1 DEF BufferInv
<1> HIDE DEF n, b
<1>9. CASE i = n + 1
    BY <1>3, <1>7, <1>9 DEF Held
<1>10. CASE i # n + 1
  <2>1. i \in 1 .. n /\ i + cap > n + 1 /\ i + cap > n
    <3>1. i \in Int /\ 1 <= i /\ i <= n + 1 /\ i + cap > n + 1
      BY <1>5, <1>7
    <3> QED  BY <1>5, <1>10, <3>1
  <2>2. pushed[i] \in Held
    BY <1>1, <2>1 DEF StreamInv, NewestWindow, n
  <2>3. CASE pushed[i] \in Range(got) \cup Range(chan) \cup Range(hand)
    BY <1>1, <1>7, <2>1, <2>3 DEF Held
  <2>4. CASE pushed[i] \in Range(buf)
    <3>1. PICK k \in 1 .. b : buf[k] = pushed[i]
      BY <1>5, <2>4, RangeMeans DEF b
    <3>2. n - b + k \in 1 .. n
      BY <1>5, <1>6
    <3>3. n - b + k = i
      <4> DEFINE j == n - b + k
      <4>1. pushed[j] = pushed[i] /\ j \in 1 .. n
        BY <1>6, <3>1, <3>2
      <4> HIDE DEF j
      <4>2. pushed[i].seq \in Nat
        <5>1. pushed[i] \in Entries
          BY <1>5, <2>1 DEF n
        <5> QED  BY <5>1 DEF Entries
      <4>3. ~(pushed[i].seq < pushed[i].seq)
        BY <4>2
      <4>4. ~(j < i) /\ ~(i < j)
        BY <1>5, <2>1, <4>1, <4>3 DEF Ordered, n
      <4>5. j = i
        BY <1>5, <2>1, <4>1, <4>4
      <4> QED  BY <4>5 DEF j
    <3> DEFINE m == i - (n + 1 - Len(buf'))
    <3>4. m \in 1 .. Len(buf') /\ n + 1 - Len(buf') + m = i
      <4>1. k \in Int /\ 1 <= k /\ k <= b /\ i \in Int /\ i <= n /\ i + cap > n + 1
        BY <1>5, <2>1
      <4>2. CASE b = cap
        <5>1. Len(buf') = cap
          BY <1>4, <4>2
        <5> QED  BY <1>5, <4>1, <5>1
      <4>3. CASE b # cap
        <5>1. Len(buf') = b + 1
          BY <1>4, <4>3
        <5> QED  BY <1>5, <3>3, <4>1, <5>1
      <4> QED  BY <4>2, <4>3
    <3> HIDE DEF m
    <3>5. buf'[m] = pushed'[i]
      BY <1>8, <3>4
    <3>6. pushed'[i] \in Range(buf')
      BY <1>3, <3>4, <3>5, RangeMeans
    <3> QED  BY <3>6 DEF Held
  <2> QED  BY <2>2, <2>3, <2>4 DEF Held
<1> QED  BY <1>9, <1>10

\* What is kept is kept by every step.
LEMMA StreamNext ==
    ASSUME KeysApart, StreamInv, [Next]_vars
    PROVE  StreamInv'
<1>1. OrderedInv'
    BY OrderedNext DEF StreamInv
<1>2. CASE \E t \in Subscriptions : SendPush(t)
    BY <1>1, <1>2, PushKeepsNewest, PushKeepsWindow DEF StreamInv
<1>3. CASE \E t \in Subscriptions : SendBlock(t)
  <2>1. policy' = "Block"
    BY <1>3 DEF SendBlock, SendBlocking
  <2> QED  BY <1>1, <2>1 DEF StreamInv, NewestPerSubscription, NewestWindow
<1>4. CASE /\ Held' = Held /\ UNCHANGED <<policy, pushed>>
           /\ (rx' = "open" => rx = "open")
  <2>1. NewestPerSubscription'
    BY <1>4 DEF StreamInv, NewestPerSubscription, Latest
  <2>2. NewestWindow'
    BY <1>4 DEF StreamInv, NewestWindow
  <2> QED  BY <1>1, <2>1, <2>2 DEF StreamInv
<1> QED  BY <1>2, <1>3, <1>4, MoveNext DEF StreamInv

\* NEWEST and WINDOW.  For any capacity and any subscriptions whose keys are
\* apart, the buffer stays within the capacity and the policies never give up
\* the newest snapshot of a book or one of the last cap events of another
\* stream.
THEOREM NewestKeptHolds ==
    ASSUME KeysApart
    PROVE  Spec => []NewestKept
<1>1. Init => StreamInv
  <2> SUFFICES ASSUME Init  PROVE StreamInv
    OBVIOUS
  <2>1. OrderedInv
    BY OrderedInit
  <2>2. pushed = <<>>
    BY DEF Init, ChannelInit
  <2>3. Range(pushed) = {} /\ 1 .. Len(pushed) = {}
    BY <2>2, EmptyFacts
  <2> QED  BY <2>1, <2>3 DEF StreamInv, NewestPerSubscription, NewestWindow, Latest
<1>2. StreamInv /\ [Next]_vars => StreamInv'
    BY StreamNext
<1>3. StreamInv => NewestKept
    BY DEF StreamInv, OrderedInv, PipeInv, BufferInv, NewestKept
<1> QED  BY <1>1, <1>2, <1>3, PTL DEF Spec
=============================================================================
