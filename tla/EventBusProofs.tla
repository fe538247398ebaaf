--------------------------- MODULE EventBusProofs ---------------------------
(***************************************************************************)
(* The handoff and the resumption of event streams, for any number of      *)
(* publishers and clients, any ring and any bus.                           *)
(***************************************************************************)
EXTENDS EventBus, TLAPS

USE DEF publishVars, streamVars
-----------------------------------------------------------------------------
(* The inductive invariant.                                                *)

\* The log and the streams have their types.
LogTypes ==
    /\ seq \in Nat /\ mine \in [Publishers -> Nat]
    /\ ring \in Seq(Nat) /\ pushes \in Seq(Nat) /\ bus \in Seq(Nat)

StreamTypes ==
    /\ stream \in [Clients -> {"closed", "opening", "marked", "live"}]
    /\ after \in [Clients -> Nat] /\ next \in [Clients -> Nat]
    /\ watermark \in [Clients -> Nat]
    /\ replay \in [Clients -> Seq(Nat)] /\ got \in [Clients -> Seq(Nat)]
    /\ missing \in [Clients -> SUBSET Nat] /\ known \in [Clients -> SUBSET Nat]

\* Every number in use was taken from the counter, every event is pushed once,
\* the ring is the end of what was pushed, and nothing is sent before its push.
LogInv ==
    /\ \A p \in Publishers : mine[p] <= seq
    /\ \A i \in 1 .. Len(pushes) : 1 <= pushes[i] /\ pushes[i] <= seq
    /\ \A i, j \in 1 .. Len(pushes) : pushes[i] = pushes[j] => i = j
    /\ Len(ring) <= Len(pushes)
    /\ \A k \in 1 .. Len(ring) : ring[k] = pushes[Len(pushes) - Len(ring) + k]
    /\ \A j \in 1 .. Len(bus) : Pushed(bus[j])

\* While a stream opens it has delivered nothing, and what the bus had before
\* the subscription is not above the watermark.
OpeningInv(c) ==
    /\ next[c] <= Len(bus) /\ watermark[c] <= seq
    /\ stream[c] \in {"opening", "marked"} => got[c] = <<>>
    /\ stream[c] = "marked" => \A j \in 1 .. next[c] : bus[j] <= watermark[c]

\* What the ring has dropped does not come back.
MissingInv(c) ==
    \A e \in missing[c] : Pushed(e) /\ e \notin Range(ring) /\ e <= watermark[c]

\* What the stream has passed on the bus it has delivered, or it is missing, or
\* the replay still has it.
PassedInv(c) ==
    stream[c] = "live" => \A j \in 1 .. next[c] : bus[j] > after[c] =>
        \/ bus[j] \in Range(got[c]) \cup missing[c]
        \/ bus[j] <= watermark[c] /\ bus[j] \in Range(replay[c])

\* The replay has no gap that is not one of the ring's or of publish's.
ReplayInv(c) ==
    stream[c] = "live" => \A k \in 1 .. Len(replay[c]) :
        replay[c][k] <= watermark[c] =>
            \A e \in after[c] + 1 .. replay[c][k] - 1 :
                \/ e \in Range(got[c]) \cup missing[c]
                \/ Overtaken(e)
                \/ \E m \in 1 .. k - 1 : replay[c][m] = e

\* NoForwardGap of one stream.
GapInv(c) ==
    \A i \in 1 .. Len(got[c]) : \A e \in after[c] + 1 .. got[c][i] - 1 :
        e \in Range(SubSeq(got[c], 1, i)) \cup missing[c] \/ Overtaken(e)

\* What is before the resume_token is known, missing or was overtaken.
KnownInv(c) ==
    /\ Range(got[c]) \subseteq known[c]
    /\ \A e \in 1 .. after[c] : e \in known[c] \cup missing[c] \/ Overtaken(e)

ClientInv(c) ==
    OpeningInv(c) /\ MissingInv(c) /\ PassedInv(c) /\ ReplayInv(c) /\ GapInv(c)
      /\ KnownInv(c)

BusInv ==
    LogTypes /\ StreamTypes /\ LogInv /\ \A c \in Clients : ClientInv(c)
-----------------------------------------------------------------------------
(* Sequences.                                                              *)

\* What the sequence library's Append does to the elements and to their set.
LEMMA AppendFacts ==
    ASSUME NEW s \in Seq(Nat), NEW x \in Nat
    PROVE  /\ Append(s, x) \in Seq(Nat) /\ Len(Append(s, x)) = Len(s) + 1
           /\ \A i \in 1 .. Len(s) : Append(s, x)[i] = s[i]
           /\ Append(s, x)[Len(s) + 1] = x
           /\ Range(Append(s, x)) = Range(s) \cup {x}
<1>1. /\ Append(s, x) \in Seq(Nat) /\ Len(Append(s, x)) = Len(s) + 1
      /\ \A i \in 1 .. Len(s) : Append(s, x)[i] = s[i]
      /\ Append(s, x)[Len(s) + 1] = x
    OBVIOUS
<1>2. DOMAIN s = 1 .. Len(s) /\ DOMAIN Append(s, x) = 1 .. (Len(s) + 1)
      /\ Len(s) \in Nat
    BY <1>1
<1>3. 1 .. (Len(s) + 1) = (1 .. Len(s)) \cup {Len(s) + 1}
    BY <1>2
<1>4. Range(Append(s, x)) = {Append(s, x)[i] : i \in (1 .. Len(s)) \cup {Len(s) + 1}}
    BY <1>2, <1>3 DEF Range
<1>5. Range(s) = {s[i] : i \in 1 .. Len(s)}
    BY <1>2 DEF Range
<1>6. Range(Append(s, x)) = Range(s) \cup {x}
    BY <1>1, <1>4, <1>5
<1> QED  BY <1>1, <1>6

\* A sequence that is not empty is its head and its tail.
LEMMA TailFacts ==
    ASSUME NEW s \in Seq(Nat), s # <<>>
    PROVE  /\ Head(s) = s[1] /\ Head(s) \in Nat /\ Len(s) \in Nat /\ Len(s) >= 1
           /\ Tail(s) \in Seq(Nat) /\ Len(Tail(s)) = Len(s) - 1
           /\ \A i \in 1 .. Len(s) - 1 : Tail(s)[i] = s[i + 1]
OBVIOUS

\* Membership in a sequence, by position.
LEMMA InSequence ==
    ASSUME NEW s \in Seq(Nat)
    PROVE  \A e : e \in Range(s) <=> \E i \in 1 .. Len(s) : s[i] = e
BY DEF Range

\* Nothing is in the empty sequence.
LEMMA NothingInEmpty == Range(<<>>) = {}
BY DEF Range

\* Membership in the first n elements.
LEMMA InPrefix ==
    ASSUME NEW s \in Seq(Nat), NEW n \in 1 .. Len(s)
    PROVE  \A e : e \in Range(SubSeq(s, 1, n)) <=> \E i \in 1 .. n : s[i] = e
<1> DEFINE t == SubSeq(s, 1, n)
<1>1. t \in Seq(Nat) /\ Len(t) = n /\ \A i \in 1 .. n : t[i] = s[i]
    OBVIOUS
<1> HIDE DEF t
<1>2. \A e : e \in Range(t) <=> \E i \in 1 .. Len(t) : t[i] = e
    BY <1>1, InSequence
<1>3. \A e : e \in Range(t) <=> \E i \in 1 .. n : s[i] = e
    BY <1>1, <1>2
<1> QED  BY <1>3 DEF t

\* A larger element stands in s where e has not been.
Passes(s, e) == \E i \in 1 .. Len(s) : s[i] > e /\ \A k \in 1 .. i : s[k] # e

\* What Overtaken says of two sequences, by position.
LEMMA OvertakenMeans ==
    ASSUME NEW s1 \in Seq(Nat), NEW s2 \in Seq(Nat), NEW e
    PROVE  (\E s \in {s1, s2} : \E i \in 1 .. Len(s) :
                s[i] > e /\ e \notin Range(SubSeq(s, 1, i)))
             <=> Passes(s1, e) \/ Passes(s2, e)
<1>1. ASSUME NEW s \in Seq(Nat), NEW i \in 1 .. Len(s)
      PROVE  e \notin Range(SubSeq(s, 1, i)) <=> \A k \in 1 .. i : s[k] # e
  <2>1. e \in Range(SubSeq(s, 1, i)) <=> \E k \in 1 .. i : s[k] = e
    BY InPrefix, Zenon
  <2> QED  BY <2>1
<1>2. ASSUME NEW s \in Seq(Nat)
      PROVE  Passes(s, e) <=> \E i \in 1 .. Len(s) :
                                s[i] > e /\ e \notin Range(SubSeq(s, 1, i))
    BY <1>1 DEF Passes
<1> QED  BY <1>2, Zenon

\* What was overtaken stays so, for both sequences only grow.
LEMMA PassesGrows ==
    ASSUME NEW s \in Seq(Nat), NEW x \in Nat, NEW e, Passes(s, e)
    PROVE  Passes(Append(s, x), e)
<1>1. PICK i \in 1 .. Len(s) : s[i] > e /\ \A k \in 1 .. i : s[k] # e
    BY DEF Passes
<1>2. i \in 1 .. Len(Append(s, x)) /\ \A k \in 1 .. i : k \in 1 .. Len(s)
    BY AppendFacts
<1>3. \A k \in 1 .. i : Append(s, x)[k] = s[k]
    BY <1>2, AppendFacts
<1>4. Append(s, x)[i] = s[i]
    BY AppendFacts
<1> QED  BY <1>1, <1>2, <1>3, <1>4 DEF Passes
-----------------------------------------------------------------------------
(* publish.                                                                *)

\* Pushed, by position.
LEMMA PushedMeans ==
    ASSUME pushes \in Seq(Nat)
    PROVE  \A e : Pushed(e) <=> \E i \in 1 .. Len(pushes) : pushes[i] = e
BY InSequence DEF Pushed

\* What a step of a publisher does to the log, as far as streams can tell.
Grows ==
    /\ seq <= seq'
    /\ Len(bus) <= Len(bus') /\ \A j \in 1 .. Len(bus) : bus'[j] = bus[j]
    /\ \A e : Pushed(e) => Pushed(e)'
    /\ \A e : Pushed(e) /\ e \notin Range(ring) => e \notin Range(ring')
    /\ \A e : Overtaken(e) => Overtaken(e)'

\* seq.fetch_add
LEMMA NumberStep ==
    ASSUME LogTypes, LogInv, NEW p \in Publishers, Number(p)
    PROVE  LogTypes' /\ LogInv' /\ Grows
<1>1. /\ seq' = seq + 1 /\ mine' = [mine EXCEPT ![p] = seq + 1]
      /\ ring' = ring /\ pushes' = pushes /\ bus' = bus
    BY DEF Number
<1>2. seq \in Nat /\ mine \in [Publishers -> Nat] /\ pushes \in Seq(Nat)
      /\ bus \in Seq(Nat)
    BY DEF LogTypes
<1>3. LogTypes'
    BY <1>1, <1>2 DEF LogTypes
<1>4. ASSUME NEW q \in Publishers
      PROVE  mine'[q] <= seq'
  <2>1. mine[q] \in Nat /\ mine[q] <= seq
    BY <1>2 DEF LogInv
  <2>2. mine'[q] = IF q = p THEN seq + 1 ELSE mine[q]
    BY <1>1, <1>2
  <2> QED  BY <1>1, <1>2, <2>1, <2>2
<1>5. ASSUME NEW i \in 1 .. Len(pushes)
      PROVE  1 <= pushes[i] /\ pushes[i] <= seq'
  <2>1. pushes[i] \in Nat /\ 1 <= pushes[i] /\ pushes[i] <= seq
    BY <1>2 DEF LogInv
  <2> QED  BY <1>1, <1>2, <2>1
<1>6. \A e : Pushed(e)' <=> Pushed(e)
    BY <1>1 DEF Pushed
<1>7. LogInv'
    BY <1>1, <1>4, <1>5, <1>6 DEF LogInv
<1>8. \A e : Overtaken(e)' <=> Overtaken(e)
    BY <1>1 DEF Overtaken
<1>9. seq <= seq' /\ Len(bus) <= Len(bus')
    BY <1>1, <1>2
<1> QED  BY <1>1, <1>3, <1>6, <1>7, <1>8, <1>9 DEF Grows

\* ring.lock().await: what the ring holds is still the end of what was pushed.
LEMMA PushedRing ==
    ASSUME LogTypes, LogInv, NEW p \in Publishers, Push(p)
    PROVE  /\ ring' \in Seq(Nat) /\ Len(ring') <= Len(pushes')
           /\ \A k \in 1 .. Len(ring') :
                ring'[k] = pushes'[Len(pushes') - Len(ring') + k]
           /\ Range(ring') \subseteq Range(ring) \cup {mine[p]}
<1> DEFINE old == IF Len(ring) >= RingCapacity THEN Tail(ring) ELSE ring
           cut == Len(ring) - Len(old)
           x == mine[p]
<1>1. ring' = Append(old, x) /\ pushes' = Append(pushes, x)
    BY DEF Push
<1>2. /\ ring \in Seq(Nat) /\ pushes \in Seq(Nat) /\ x \in Nat
      /\ Len(ring) \in Nat /\ Len(pushes) \in Nat /\ Len(ring) <= Len(pushes)
    BY DEF LogTypes, LogInv
<1>3. /\ old \in Seq(Nat) /\ cut \in {0, 1} /\ Len(old) = Len(ring) - cut
      /\ Len(old) \in Nat
      /\ \A k \in 1 .. Len(old) : k + cut \in 1 .. Len(ring) /\ old[k] = ring[k + cut]
  <2>1. CASE Len(ring) >= RingCapacity
    <3>1. ring # <<>>
      BY <1>2, <2>1, BusAssumption
    <3>2. old = Tail(ring)
      BY <2>1
    <3> HIDE DEF old
    <3>3. old \in Seq(Nat) /\ Len(old) = Len(ring) - 1 /\ cut = 1
          /\ \A k \in 1 .. Len(ring) - 1 : old[k] = ring[k + 1]
      BY <1>2, <3>1, <3>2, TailFacts
    <3>4. \A k \in 1 .. Len(ring) - 1 : k + 1 \in 1 .. Len(ring)
      BY <1>2
    <3>5. Len(ring) - 1 \in Nat
      BY <1>2, <3>3
    <3> QED  BY <3>3, <3>4, <3>5
  <2>2. CASE ~(Len(ring) >= RingCapacity)
    BY <1>2, <2>2
  <2> QED  BY <2>1, <2>2
<1> HIDE DEF old, cut, x
<1>4. /\ ring' \in Seq(Nat) /\ Len(ring') = Len(old) + 1
      /\ \A k \in 1 .. Len(old) : ring'[k] = old[k]
      /\ ring'[Len(old) + 1] = x
      /\ Range(ring') = Range(old) \cup {x}
    BY <1>1, <1>2, <1>3, AppendFacts
<1>5. /\ Len(pushes') = Len(pushes) + 1
      /\ \A i \in 1 .. Len(pushes) : pushes'[i] = pushes[i]
      /\ pushes'[Len(pushes) + 1] = x
    BY <1>1, <1>2, AppendFacts
<1>6. Len(ring') <= Len(pushes')
    BY <1>2, <1>3, <1>4, <1>5
<1>7. ASSUME NEW k \in 1 .. Len(ring')
      PROVE  ring'[k] = pushes'[Len(pushes') - Len(ring') + k]
  <2>1. CASE k \in 1 .. Len(old)
    <3>1. k + cut \in 1 .. Len(ring)
      BY <1>3, <2>1
    <3>2. ring[k + cut] = pushes[Len(pushes) - Len(ring) + (k + cut)]
      BY <3>1 DEF LogInv
    <3>3. /\ Len(pushes) - Len(ring) + (k + cut) = Len(pushes') - Len(ring') + k
          /\ Len(pushes) - Len(ring) + (k + cut) \in 1 .. Len(pushes)
      BY <1>2, <1>3, <1>4, <1>5, <2>1
    <3>4. ring'[k] = ring[k + cut]
      BY <1>3, <1>4, <2>1
    <3> QED  BY <1>5, <3>2, <3>3, <3>4
  <2>2. CASE k = Len(old) + 1
    <3>1. Len(pushes') - Len(ring') + k = Len(pushes) + 1
      BY <1>2, <1>3, <1>4, <1>5, <2>2
    <3> QED  BY <1>4, <1>5, <2>2, <3>1
  <2> QED  BY <1>3, <1>4, <2>1, <2>2
<1>8. Range(old) \subseteq Range(ring)
  <2>1. ASSUME NEW k \in 1 .. Len(old)
        PROVE  \E i \in 1 .. Len(ring) : ring[i] = old[k]
    <3>1. k + cut \in 1 .. Len(ring) /\ old[k] = ring[k + cut]
      BY <1>3
    <3> QED  BY <3>1
  <2>2. \A e : e \in Range(old) <=> \E k \in 1 .. Len(old) : old[k] = e
    BY <1>3, InSequence, Zenon
  <2>3. \A e : e \in Range(ring) <=> \E k \in 1 .. Len(ring) : ring[k] = e
    BY <1>2, InSequence, Zenon
  <2> QED  BY <2>1, <2>2, <2>3
<1> QED  BY <1>4, <1>6, <1>7, <1>8 DEF x

\* ring.lock().await keeps the log, and grows it.
LEMMA PushStep ==
    ASSUME LogTypes, LogInv, NEW p \in Publishers, Push(p)
    PROVE  LogTypes' /\ LogInv' /\ Grows
<1> DEFINE x == mine[p]
           n == Len(pushes)
<1>1. /\ x # 0 /\ ~Pushed(x) /\ pushes' = Append(pushes, x)
      /\ seq' = seq /\ mine' = mine /\ bus' = bus
    BY DEF Push
<1>2. /\ seq \in Nat /\ mine \in [Publishers -> Nat] /\ x \in Nat
      /\ pushes \in Seq(Nat) /\ bus \in Seq(Nat) /\ n \in Nat
    BY DEF LogTypes
<1>3. 1 <= x /\ x <= seq
    BY <1>1, <1>2 DEF LogInv
<1> HIDE DEF x
<1>4. /\ pushes' \in Seq(Nat) /\ Len(pushes') = n + 1
      /\ \A i \in 1 .. n : pushes'[i] = pushes[i]
      /\ pushes'[n + 1] = x
      /\ Range(pushes') = Range(pushes) \cup {x}
    BY <1>1, <1>2, AppendFacts
<1>5. /\ ring' \in Seq(Nat) /\ Len(ring') <= Len(pushes')
      /\ \A k \in 1 .. Len(ring') :
           ring'[k] = pushes'[Len(pushes') - Len(ring') + k]
      /\ Range(ring') \subseteq Range(ring) \cup {x}
    BY PushedRing DEF x
<1>6. \A e : Pushed(e)' <=> Pushed(e) \/ e = x
    BY <1>4 DEF Pushed
<1>7. LogTypes'
    BY <1>1, <1>2, <1>4, <1>5 DEF LogTypes
<1>8. ASSUME NEW i \in 1 .. Len(pushes')
      PROVE  1 <= pushes'[i] /\ pushes'[i] <= seq'
  <2>1. i \in 1 .. n \/ i = n + 1
    BY <1>2, <1>4
  <2>2. CASE i \in 1 .. n  BY <1>1, <1>4, <2>2 DEF LogInv
  <2>3. CASE i = n + 1     BY <1>1, <1>3, <1>4, <2>3
  <2> QED  BY <2>1, <2>2, <2>3
<1>9. ASSUME NEW i \in 1 .. Len(pushes'), NEW j \in 1 .. Len(pushes'),
             pushes'[i] = pushes'[j]
      PROVE  i = j
  <2>1. ASSUME NEW k \in 1 .. n
        PROVE  pushes[k] # x
    BY <1>1, <1>2, PushedMeans
  <2>2. (i \in 1 .. n \/ i = n + 1) /\ (j \in 1 .. n \/ j = n + 1)
    BY <1>2, <1>4
  <2>3. CASE i \in 1 .. n /\ j \in 1 .. n
    BY <1>4, <1>9, <2>3 DEF LogInv
  <2>4. CASE i \in 1 .. n /\ j = n + 1
    BY <1>4, <1>9, <2>1, <2>4
  <2>5. CASE i = n + 1 /\ j \in 1 .. n
    BY <1>4, <1>9, <2>1, <2>5
  <2> QED  BY <2>2, <2>3, <2>4, <2>5
<1>10. \A q \in Publishers : mine'[q] <= seq'
    BY <1>1 DEF LogInv
<1>11. ASSUME NEW j \in 1 .. Len(bus)
       PROVE  Pushed(bus[j])'
  <2>1. Pushed(bus[j])
    BY DEF LogInv
  <2>2. Range(pushes) \subseteq Range(pushes') /\ bus'[j] = bus[j]
    BY <1>1, <1>4
  <2> QED  BY <2>1, <2>2 DEF Pushed
<1>12. LogInv'
    BY <1>1, <1>5, <1>8, <1>9, <1>10, <1>11 DEF LogInv
<1>13. ASSUME NEW e, Overtaken(e)
       PROVE  Overtaken(e)'
  <2>1. Passes(pushes, e) \/ Passes(bus, e)
    BY <1>2, <1>13, OvertakenMeans DEF Overtaken
  <2>2. Passes(pushes, e) => Passes(pushes', e)
    BY <1>1, <1>2, PassesGrows
  <2>3. Overtaken(e)' <=> Passes(pushes', e) \/ Passes(bus', e)
    BY <1>1, <1>2, <1>4, OvertakenMeans DEF Overtaken
  <2> QED  BY <1>1, <2>1, <2>2, <2>3
<1>14. ASSUME NEW e, Pushed(e), e \notin Range(ring)
       PROVE  e \notin Range(ring')
    BY <1>1, <1>5, <1>14
<1>15. seq <= seq' /\ Len(bus) <= Len(bus') /\ \A j \in 1 .. Len(bus) : bus'[j] = bus[j]
    BY <1>1, <1>2
<1>16. \A e : Pushed(e) => Pushed(e)'
    BY <1>6
<1>17. Grows
    BY <1>13, <1>14, <1>15, <1>16, Zenon DEF Grows
<1> QED  BY <1>7, <1>12, <1>17

\* events_tx.send keeps the log, and grows it.
LEMMA SendStep ==
    ASSUME LogTypes, LogInv, NEW p \in Publishers, Send(p)
    PROVE  LogTypes' /\ LogInv' /\ Grows
<1> DEFINE x == mine[p]
           n == Len(bus)
<1>1. /\ Pushed(x) /\ bus' = Append(bus, x) /\ mine' = [mine EXCEPT ![p] = 0]
      /\ seq' = seq /\ ring' = ring /\ pushes' = pushes
    BY DEF Send
<1>2. /\ seq \in Nat /\ mine \in [Publishers -> Nat] /\ x \in Nat
      /\ pushes \in Seq(Nat) /\ bus \in Seq(Nat) /\ n \in Nat
    BY DEF LogTypes
<1> HIDE DEF x
<1>3. /\ bus' \in Seq(Nat) /\ Len(bus') = n + 1
      /\ \A i \in 1 .. n : bus'[i] = bus[i]
      /\ bus'[n + 1] = x
    BY <1>1, <1>2, AppendFacts
<1>4. LogTypes'
    BY <1>1, <1>2, <1>3 DEF LogTypes
<1>5. \A e : Pushed(e)' <=> Pushed(e)
    BY <1>1 DEF Pushed
<1>6. ASSUME NEW j \in 1 .. Len(bus')
      PROVE  Pushed(bus'[j])
  <2>1. j \in 1 .. n \/ j = n + 1
    BY <1>2, <1>3
  <2>2. CASE j \in 1 .. n  BY <1>3, <2>2 DEF LogInv
  <2>3. CASE j = n + 1     BY <1>1, <1>3, <2>3
  <2> QED  BY <2>1, <2>2, <2>3
<1>7. ASSUME NEW q \in Publishers
      PROVE  mine'[q] <= seq'
  <2>1. mine[q] \in Nat /\ mine[q] <= seq
    BY <1>2 DEF LogInv
  <2>2. mine'[q] = IF q = p THEN 0 ELSE mine[q]
    BY <1>1, <1>2
  <2> QED  BY <1>1, <1>2, <2>1, <2>2
<1>8. LogInv'
    BY <1>1, <1>5, <1>6, <1>7 DEF LogInv
<1>9. ASSUME NEW e, Overtaken(e)
      PROVE  Overtaken(e)'
  <2>1. Passes(pushes, e) \/ Passes(bus, e)
    BY <1>2, <1>9, OvertakenMeans DEF Overtaken
  <2>2. Passes(bus, e) => Passes(bus', e)
    BY <1>1, <1>2, PassesGrows
  <2>3. Overtaken(e)' <=> Passes(pushes', e) \/ Passes(bus', e)
    BY <1>1, <1>2, <1>3, OvertakenMeans DEF Overtaken
  <2> QED  BY <1>1, <2>1, <2>2, <2>3
<1>10. seq <= seq' /\ Len(bus) <= Len(bus')
    BY <1>1, <1>2, <1>3
<1>11. Grows
    BY <1>1, <1>3, <1>5, <1>9, <1>10 DEF Grows
<1> QED  BY <1>4, <1>8, <1>11
-----------------------------------------------------------------------------
(* Streams.                                                                *)

\* A step that is not of client c.
Kept(c) ==
    /\ stream'[c] = stream[c] /\ after'[c] = after[c] /\ replay'[c] = replay[c]
    /\ next'[c] = next[c] /\ watermark'[c] = watermark[c] /\ got'[c] = got[c]
    /\ missing'[c] = missing[c] /\ known'[c] = known[c]

\* The log's growth, or a step of another client, takes nothing from c.
LEMMA ClientFrame ==
    ASSUME LogTypes, LogTypes', StreamTypes, Grows, NEW c \in Clients, Kept(c), ClientInv(c)
    PROVE  ClientInv(c)'
<1>1. /\ next[c] \in Nat /\ watermark[c] \in Nat /\ Len(bus) \in Nat /\ seq \in Nat
      /\ next[c] <= Len(bus) /\ watermark[c] <= seq
    BY DEF LogTypes, StreamTypes, ClientInv, OpeningInv
<1>2. next[c] <= Len(bus') /\ watermark[c] <= seq'
      /\ \A j \in 1 .. next[c] : bus'[j] = bus[j]
  <2>1. \A j \in 1 .. next[c] : j \in 1 .. Len(bus)
    BY <1>1
  <2>2. seq <= seq' /\ Len(bus) <= Len(bus')
        /\ \A j \in 1 .. Len(bus) : bus'[j] = bus[j]
    BY DEF Grows
  <2>3. Len(bus') \in Nat /\ seq' \in Nat
    BY DEF LogTypes
  <2> QED  BY <1>1, <2>1, <2>2, <2>3
<1>3. OpeningInv(c)'
    BY <1>2 DEF Kept, ClientInv, OpeningInv
<1>4. MissingInv(c)'
  <2> SUFFICES ASSUME NEW e \in missing[c]
               PROVE  Pushed(e)' /\ e \notin Range(ring') /\ e <= watermark[c]
    BY DEF MissingInv, Kept
  <2>1. Pushed(e) /\ e \notin Range(ring) /\ e <= watermark[c]
    BY DEF ClientInv, MissingInv
  <2> QED  BY <2>1 DEF Grows
<1>5. PassedInv(c)'
    BY <1>2 DEF Kept, ClientInv, PassedInv
<1>6. \A e : Overtaken(e) => Overtaken(e)'
    BY DEF Grows
<1>7. ReplayInv(c)'
  <2> SUFFICES ASSUME stream[c] = "live", NEW k \in 1 .. Len(replay[c]),
                      replay[c][k] <= watermark[c],
                      NEW e \in after[c] + 1 .. replay[c][k] - 1
               PROVE  \/ e \in Range(got[c]) \cup missing[c]
                      \/ Overtaken(e)'
                      \/ \E m \in 1 .. k - 1 : replay[c][m] = e
    BY DEF ReplayInv, Kept
  <2>1. \/ e \in Range(got[c]) \cup missing[c]
        \/ Overtaken(e)
        \/ \E m \in 1 .. k - 1 : replay[c][m] = e
    BY DEF ClientInv, ReplayInv
  <2> QED  BY <1>6, <2>1
<1>8. GapInv(c)'
  <2> SUFFICES ASSUME NEW i \in 1 .. Len(got[c]),
                      NEW e \in after[c] + 1 .. got[c][i] - 1
               PROVE  e \in Range(SubSeq(got[c], 1, i)) \cup missing[c]
                      \/ Overtaken(e)'
    BY DEF GapInv, Kept
  <2>1. e \in Range(SubSeq(got[c], 1, i)) \cup missing[c] \/ Overtaken(e)
    BY DEF ClientInv, GapInv
  <2> QED  BY <1>6, <2>1
<1>9. KnownInv(c)'
  <2> SUFFICES ASSUME NEW e \in 1 .. after[c]
               PROVE  e \in known[c] \cup missing[c] \/ Overtaken(e)'
    BY DEF KnownInv, Kept, ClientInv
  <2>1. e \in known[c] \cup missing[c] \/ Overtaken(e)
    BY DEF ClientInv, KnownInv
  <2> QED  BY <1>6, <2>1
<1> QED  BY <1>3, <1>4, <1>5, <1>7, <1>8, <1>9 DEF ClientInv

\* Nothing of the log changes, so nothing is taken from it.
LEMMA StillGrows ==
    ASSUME LogTypes, UNCHANGED publishVars
    PROVE  /\ LogTypes' /\ Grows
           /\ \A e : Overtaken(e)' <=> Overtaken(e)
           /\ \A e : Pushed(e)' <=> Pushed(e)
<1>1. seq' = seq /\ mine' = mine /\ ring' = ring /\ pushes' = pushes /\ bus' = bus
    OBVIOUS
<1>2. \A e : Overtaken(e)' <=> Overtaken(e)
    BY <1>1 DEF Overtaken
<1>3. \A e : Pushed(e)' <=> Pushed(e)
    BY <1>1 DEF Pushed
<1>4. LogTypes'
    BY <1>1 DEF LogTypes
<1>5. seq <= seq' /\ Len(bus) <= Len(bus')
    BY <1>1 DEF LogTypes
<1> QED  BY <1>1, <1>2, <1>3, <1>4, <1>5 DEF Grows

\* handle.subscribe(): all that c received is on this side of its new token.
LEMMA SubscribeStep ==
    ASSUME LogTypes, StreamTypes, LogInv, NEW c \in Clients, Subscribe(c),
           ClientInv(c)
    PROVE  ClientInv(c)'
<1> DEFINE token == IF got[c] = <<>> THEN after[c] ELSE got[c][Len(got[c])]
<1>1. /\ stream'[c] = "opening" /\ after'[c] = token /\ next'[c] = Len(bus)
      /\ got'[c] = <<>> /\ UNCHANGED publishVars
      /\ watermark' = watermark /\ missing' = missing /\ known' = known
    BY DEF Subscribe, StreamTypes
<1>2. \A e : Overtaken(e)' <=> Overtaken(e)
    BY <1>1, StillGrows
<1>3. \A e : Pushed(e)' <=> Pushed(e)
    BY <1>1, StillGrows
<1>4. /\ got[c] \in Seq(Nat) /\ after[c] \in Nat /\ known[c] \subseteq Nat
      /\ Len(bus) \in Nat /\ Len(got[c]) \in Nat
    BY DEF StreamTypes, LogTypes
<1>5. OpeningInv(c)'
    BY <1>1, <1>4 DEF ClientInv, OpeningInv
<1>6. MissingInv(c)'
    BY <1>1, <1>3 DEF ClientInv, MissingInv
<1>7. PassedInv(c)' /\ ReplayInv(c)'
    BY <1>1 DEF PassedInv, ReplayInv
<1>8. GapInv(c)'
  <2>1. got'[c] = <<>>
    BY <1>1
  <2>2. 1 .. Len(<<>>) = {}
    OBVIOUS
  <2> QED  BY <2>1, <2>2, Zenon DEF GapInv
<1>9. Range(got'[c]) = {}
    BY <1>1, NothingInEmpty
<1>10. ASSUME NEW e \in 1 .. token
       PROVE  e \in known[c] \cup missing[c] \/ Overtaken(e)
  <2>1. CASE got[c] = <<>> \/ e <= after[c]
    <3>1. e \in 1 .. after[c]
      BY <1>4, <2>1
    <3> QED  BY <3>1 DEF ClientInv, KnownInv
  <2>2. CASE got[c] # <<>> /\ ~(e <= after[c])
    <3> DEFINE n == Len(got[c])
    <3>1. n \in 1 .. n /\ got[c][n] \in Nat /\ token = got[c][n]
      BY <1>4, <2>2
    <3>2. got[c][n] \in Range(got[c]) /\ Range(got[c]) \subseteq known[c]
      BY <1>4, <3>1, InSequence DEF ClientInv, KnownInv
    <3>3. CASE e = got[c][n]
      BY <3>2, <3>3
    <3>4. CASE e # got[c][n]
      <4>1. e \in after[c] + 1 .. got[c][n] - 1
        BY <1>4, <2>2, <3>1, <3>4
      <4>2. e \in Range(SubSeq(got[c], 1, n)) \cup missing[c] \/ Overtaken(e)
        BY <3>1, <4>1 DEF ClientInv, GapInv
      <4>3. e \in Range(SubSeq(got[c], 1, n)) => e \in Range(got[c])
        <5>1. e \in Range(SubSeq(got[c], 1, n)) <=> \E i \in 1 .. n : got[c][i] = e
          BY <1>4, <3>1, InPrefix, Zenon
        <5>2. e \in Range(got[c]) <=> \E i \in 1 .. n : got[c][i] = e
          BY <1>4, InSequence, Zenon
        <5> QED  BY <5>1, <5>2
      <4> QED  BY <3>2, <4>2, <4>3
    <3> QED  BY <3>3, <3>4
  <2> QED  BY <2>1, <2>2
<1>11. KnownInv(c)'
    BY <1>1, <1>2, <1>9, <1>10 DEF KnownInv
<1> QED  BY <1>5, <1>6, <1>7, <1>8, <1>11 DEF ClientInv

\* handle.current_seq(): the bus has nothing above the counter.
LEMMA ReadWatermarkStep ==
    ASSUME LogTypes, StreamTypes, LogInv, NEW c \in Clients, ReadWatermark(c),
           ClientInv(c)
    PROVE  ClientInv(c)'
<1>1. /\ stream[c] = "opening" /\ stream'[c] = "marked" /\ watermark'[c] = seq
      /\ UNCHANGED <<publishVars, after, replay, next, got, missing, known>>
    BY DEF ReadWatermark, StreamTypes
<1>2. \A e : Overtaken(e)' <=> Overtaken(e)
    BY <1>1, StillGrows
<1>3. \A e : Pushed(e)' <=> Pushed(e)
    BY <1>1, StillGrows
<1>4. seq \in Nat /\ watermark[c] \in Nat /\ watermark[c] <= seq
      /\ next[c] \in Nat /\ next[c] <= Len(bus) /\ Len(bus) \in Nat
      /\ missing[c] \subseteq Nat
    BY DEF LogTypes, StreamTypes, ClientInv, OpeningInv
<1>5. ASSUME NEW j \in 1 .. next[c]
      PROVE  bus[j] <= seq
  <2>1. j \in 1 .. Len(bus)
    BY <1>4
  <2>2. Pushed(bus[j]) /\ pushes \in Seq(Nat)
    BY <2>1 DEF LogInv, LogTypes
  <2>3. PICK i \in 1 .. Len(pushes) : pushes[i] = bus[j]
    BY <2>2, PushedMeans
  <2> QED  BY <2>3 DEF LogInv
<1>6. OpeningInv(c)'
    BY <1>1, <1>4, <1>5 DEF ClientInv, OpeningInv
<1>7. ASSUME NEW e \in missing[c]
      PROVE  Pushed(e) /\ e \notin Range(ring) /\ e <= seq
    BY <1>4 DEF ClientInv, MissingInv
<1>8. MissingInv(c)'
    BY <1>1, <1>3, <1>7 DEF MissingInv
<1>9. PassedInv(c)' /\ ReplayInv(c)'
    BY <1>1 DEF PassedInv, ReplayInv
<1>10. GapInv(c)'
    BY <1>1, <1>2 DEF ClientInv, GapInv
<1>11. KnownInv(c)'
    BY <1>1, <1>2 DEF ClientInv, KnownInv
<1> QED  BY <1>6, <1>8, <1>9, <1>10, <1>11 DEF ClientInv

\* replay_after, under the ring lock.  What the bus had before the subscription
\* is in the snapshot or was dropped, and an event of the snapshot has before it
\* there all that was pushed before it and not dropped.
LEMMA ReplayStep ==
    ASSUME LogTypes, StreamTypes, LogInv, NEW c \in Clients, Replay(c),
           ClientInv(c)
    PROVE  ClientInv(c)'
<1>1. /\ stream[c] = "marked" /\ stream'[c] = "live" /\ replay'[c] = ring
      /\ missing'[c] = Dropped(c)
      /\ UNCHANGED <<publishVars, after, next, watermark, got, known>>
    BY DEF Replay, StreamTypes
<1>2. \A e : Overtaken(e)' <=> Overtaken(e)
    BY <1>1, StillGrows
<1>3. \A e : Pushed(e)' <=> Pushed(e)
    BY <1>1, StillGrows
<1>4. /\ ring \in Seq(Nat) /\ pushes \in Seq(Nat) /\ bus \in Seq(Nat)
      /\ next[c] \in Nat /\ next[c] <= Len(bus) /\ Len(bus) \in Nat
      /\ got[c] = <<>> /\ after[c] \in Nat /\ watermark[c] \in Nat
      /\ Len(ring) \in Nat /\ Len(pushes) \in Nat /\ Len(ring) <= Len(pushes)
  <2>1. /\ ring \in Seq(Nat) /\ pushes \in Seq(Nat) /\ bus \in Seq(Nat)
        /\ Len(ring) \in Nat /\ Len(pushes) \in Nat /\ Len(bus) \in Nat
    BY DEF LogTypes
  <2>2. next[c] \in Nat /\ after[c] \in Nat /\ watermark[c] \in Nat
    BY DEF StreamTypes
  <2>3. Len(ring) <= Len(pushes)
    BY DEF LogInv
  <2>4. next[c] <= Len(bus) /\ got[c] = <<>>
    BY <1>1 DEF ClientInv, OpeningInv
  <2> QED  BY <2>1, <2>2, <2>3, <2>4
<1>5. \A e : e \in Dropped(c) <=> Pushed(e) /\ e \notin Range(ring) /\ e <= watermark[c]
    BY DEF Dropped, Pushed
<1>6. OpeningInv(c)'
    BY <1>1 DEF ClientInv, OpeningInv
<1>7. MissingInv(c)'
    BY <1>1, <1>3, <1>5 DEF MissingInv
<1>8. missing[c] \subseteq Dropped(c)
    BY <1>5 DEF ClientInv, MissingInv
<1>9. ASSUME NEW j \in 1 .. next[c]
      PROVE  bus[j] <= watermark[c] /\ bus[j] \in Range(ring) \cup Dropped(c)
  <2>1. bus[j] <= watermark[c]
    BY <1>1 DEF ClientInv, OpeningInv
  <2>2. Pushed(bus[j])
    <3>1. j \in 1 .. Len(bus)
      BY <1>4
    <3> QED  BY <3>1 DEF LogInv
  <2> QED  BY <1>5, <2>1, <2>2
<1>10. PassedInv(c)'
    BY <1>1, <1>9 DEF PassedInv
<1>11. ASSUME NEW k \in 1 .. Len(ring), ring[k] <= watermark[c],
              NEW e \in after[c] + 1 .. ring[k] - 1
       PROVE  e \in Dropped(c) \/ Overtaken(e) \/ \E m \in 1 .. k - 1 : ring[m] = e
  <2> DEFINE d == Len(pushes) - Len(ring)
  <2>1. d \in Nat /\ d + k \in 1 .. Len(pushes) /\ ring[k] \in Nat
        /\ ring[k] = pushes[d + k] /\ e \in Nat /\ e < ring[k] /\ e <= watermark[c]
    <3>1. Len(pushes) \in Nat /\ Len(ring) \in Nat /\ Len(ring) <= Len(pushes)
          /\ after[c] \in Nat /\ watermark[c] \in Nat
      BY <1>4
    <3>2. d \in Nat /\ d + k \in 1 .. Len(pushes)
      BY <3>1
    <3>3. ring[k] \in Nat
      <4>1. ring \in Seq(Nat)
        BY <1>4
      <4> QED  BY <4>1
    <3>4. ring[k] = pushes[d + k]
      BY DEF LogInv
    <3>5. e \in Nat /\ e < ring[k] /\ e <= watermark[c]
      BY <1>11, <3>1, <3>3
    <3> QED  BY <3>2, <3>3, <3>4, <3>5
  <2>2. SUFFICES ASSUME ~Overtaken(e)
                 PROVE  e \in Dropped(c) \/ \E m \in 1 .. k - 1 : ring[m] = e
    OBVIOUS
  <2> HIDE DEF d
  <2>3. ~Passes(pushes, e)
    BY <1>4, <2>2, OvertakenMeans DEF Overtaken
  <2>4. PICK i \in 1 .. (d + k) : pushes[i] = e
    BY <2>1, <2>3 DEF Passes
  <2>5. i # d + k
    BY <2>1, <2>4
  <2>6. CASE i > d
    <3>1. i - d \in 1 .. k - 1 /\ i - d \in 1 .. Len(ring) /\ d + (i - d) = i
      BY <1>4, <2>1, <2>4, <2>5, <2>6
    <3>2. ring[i - d] = pushes[d + (i - d)]
      BY <3>1 DEF LogInv, d
    <3> QED  BY <2>4, <3>1, <3>2
  <2>7. CASE i <= d
    <3>1. i \in 1 .. Len(pushes)
      BY <2>1, <2>4
    <3>2. Pushed(e)
      BY <1>4, <2>4, <3>1, PushedMeans
    <3>3. ASSUME NEW m \in 1 .. Len(ring)
          PROVE  ring[m] # e
      <4>1. d + m \in 1 .. Len(pushes) /\ d + m # i
        <5>1. Len(pushes) \in Nat /\ Len(ring) \in Nat /\ Len(ring) <= Len(pushes)
          BY <1>4
        <5>2. d \in Nat /\ i \in Nat /\ i <= d
          BY <2>1, <2>7
        <5>3. d + m \in 1 .. Len(pushes)
          BY <5>1 DEF d
        <5> QED  BY <5>2, <5>3
      <4>2. ring[m] = pushes[d + m]
        BY DEF LogInv, d
      <4>3. pushes[d + m] # pushes[i]
        BY <3>1, <4>1 DEF LogInv
      <4> QED  BY <2>4, <4>2, <4>3
    <3>4. e \notin Range(ring)
      BY <1>4, <3>3, InSequence
    <3> QED  BY <1>5, <2>1, <3>2, <3>4
  <2> QED  BY <2>1, <2>6, <2>7
<1>12. ReplayInv(c)'
    BY <1>1, <1>2, <1>11 DEF ReplayInv
<1>13. GapInv(c)'
  <2>1. got'[c] = <<>>
    BY <1>1, <1>4
  <2>2. 1 .. Len(<<>>) = {}
    OBVIOUS
  <2> QED  BY <2>1, <2>2, Zenon DEF GapInv
<1>14. KnownInv(c)'
    BY <1>1, <1>2, <1>8 DEF ClientInv, KnownInv
<1> QED  BY <1>6, <1>7, <1>10, <1>12, <1>13, <1>14 DEF ClientInv

\* An event is delivered that leaves no gap but the ring's and publish's.
LEMMA DeliverKeeps ==
    ASSUME StreamTypes, NEW c \in Clients, NEW x \in Nat,
           ClientInv(c), UNCHANGED publishVars, \A e : Overtaken(e)' <=> Overtaken(e),
           got'[c] = Append(got[c], x), known'[c] = known[c] \cup {x},
           after'[c] = after[c], missing'[c] = missing[c],
           \A e \in after[c] + 1 .. x - 1 :
               e \in Range(got[c]) \cup missing[c] \/ Overtaken(e)
    PROVE  /\ GapInv(c)' /\ KnownInv(c)'
           /\ Range(got'[c]) = Range(got[c]) \cup {x}
<1> DEFINE g == got[c]
           n == Len(got[c])
           h == got'[c]
<1>1. g \in Seq(Nat) /\ n \in Nat /\ after[c] \in Nat
  <2>1. got[c] \in Seq(Nat) /\ after[c] \in Nat
    BY DEF StreamTypes
  <2> QED  BY <2>1
<1>2. /\ h \in Seq(Nat) /\ Len(h) = n + 1 /\ h[n + 1] = x
      /\ \A i \in 1 .. n : h[i] = g[i]
      /\ Range(h) = Range(g) \cup {x}
    BY <1>1, AppendFacts
<1> HIDE DEF h
<1>3. ASSUME NEW i \in 1 .. Len(h), NEW e \in after[c] + 1 .. h[i] - 1
      PROVE  e \in Range(SubSeq(h, 1, i)) \cup missing[c] \/ Overtaken(e)
  <2>1. i \in 1 .. n \/ i = n + 1
    BY <1>1, <1>2
  <2>2. e \in Range(SubSeq(h, 1, i)) <=> \E k \in 1 .. i : h[k] = e
    BY <1>2, InPrefix, Zenon
  <2>3. CASE i \in 1 .. n
    <3>1. e \in Range(SubSeq(g, 1, i)) \cup missing[c] \/ Overtaken(e)
      BY <1>2, <2>3 DEF ClientInv, GapInv
    <3>2. e \in Range(SubSeq(g, 1, i)) <=> \E k \in 1 .. i : g[k] = e
      BY <1>1, <2>3, InPrefix, Zenon
    <3>3. \A k \in 1 .. i : k \in 1 .. n
      <4>1. n \in Nat
        BY <1>1
      <4> QED  BY <2>3, <4>1
    <3>4. \A k \in 1 .. i : h[k] = g[k]
      BY <1>2, <3>3
    <3> QED  BY <2>2, <3>1, <3>2, <3>4
  <2>4. CASE i = n + 1
    <3>1. e \in Range(g) \cup missing[c] \/ Overtaken(e)
      BY <1>2, <2>4
    <3>2. e \in Range(g) <=> \E k \in 1 .. n : g[k] = e
      BY <1>1, InSequence, Zenon
    <3>3. \A k \in 1 .. n : k \in 1 .. i /\ h[k] = g[k]
      BY <1>1, <1>2, <2>4
    <3> QED  BY <2>2, <3>1, <3>2, <3>3
  <2> QED  BY <2>1, <2>3, <2>4
<1>4. GapInv(c)'
    BY <1>3 DEF GapInv, h
<1>5. KnownInv(c)'
    BY <1>2 DEF ClientInv, KnownInv, h
<1> QED  BY <1>2, <1>4, <1>5 DEF h

\* The next event of the replay is yielded or passed over.
LEMMA YieldStep ==
    ASSUME LogTypes, StreamTypes, LogInv, NEW c \in Clients, Yield(c),
           ClientInv(c)
    PROVE  ClientInv(c)'
<1> DEFINE s == replay[c]
           t == Tail(replay[c])
           x == Head(replay[c])
<1>1. /\ stream[c] = "live" /\ s # <<>> /\ replay'[c] = t
      /\ UNCHANGED <<publishVars, stream, after, watermark, missing, next>>
    BY DEF Yield, Deliver, StreamTypes
<1>2. \A e : Overtaken(e)' <=> Overtaken(e)
    BY <1>1, StillGrows
<1>3. \A e : Pushed(e)' <=> Pushed(e)
    BY <1>1, StillGrows
<1>4. /\ s \in Seq(Nat) /\ got[c] \in Seq(Nat) /\ after[c] \in Nat
      /\ watermark[c] \in Nat
    BY DEF StreamTypes
<1>5. /\ x = s[1] /\ x \in Nat /\ Len(s) \in Nat /\ Len(s) >= 1
      /\ t \in Seq(Nat) /\ Len(t) = Len(s) - 1
      /\ \A i \in 1 .. Len(s) - 1 : t[i] = s[i + 1]
    BY <1>1, <1>4, TailFacts
<1> HIDE DEF s, t, x
<1>6. \/ /\ Wanted(c, x)
         /\ got'[c] = Append(got[c], x) /\ known'[c] = known[c] \cup {x}
      \/ ~Wanted(c, x) /\ got'[c] = got[c] /\ known'[c] = known[c]
    BY DEF Yield, Deliver, StreamTypes, x
<1>7. ASSUME Wanted(c, x), NEW e \in after[c] + 1 .. x - 1
      PROVE  e \in Range(got[c]) \cup missing[c] \/ Overtaken(e)
  <2>1. 1 \in 1 .. Len(s) /\ s[1] <= watermark[c] /\ e \in after[c] + 1 .. s[1] - 1
    BY <1>5, <1>7 DEF Wanted
  <2>2. \/ e \in Range(got[c]) \cup missing[c] \/ Overtaken(e)
        \/ \E m \in 1 .. 1 - 1 : s[m] = e
    BY <1>1, <2>1 DEF ClientInv, ReplayInv, s
  <2>3. 1 .. 1 - 1 = {}
    OBVIOUS
  <2> QED  BY <2>2, <2>3
<1>8. /\ GapInv(c)' /\ KnownInv(c)'
      /\ Range(got'[c]) = Range(got[c]) \cup (IF Wanted(c, x) THEN {x} ELSE {})
  <2>1. CASE Wanted(c, x)
    <3>1. /\ got'[c] = Append(got[c], x) /\ known'[c] = known[c] \cup {x}
          /\ after'[c] = after[c] /\ missing'[c] = missing[c]
          /\ UNCHANGED publishVars
      BY <1>1, <1>6, <2>1
    <3>2. \A e \in after[c] + 1 .. x - 1 :
              e \in Range(got[c]) \cup missing[c] \/ Overtaken(e)
      BY <1>7, <2>1
    <3> QED  BY <1>2, <1>5, <2>1, <3>1, <3>2, DeliverKeeps
  <2>2. CASE ~Wanted(c, x)
    <3>1. got'[c] = got[c] /\ known'[c] = known[c]
          /\ after'[c] = after[c] /\ missing'[c] = missing[c]
      BY <1>1, <1>6, <2>2
    <3>2. GapInv(c)'
      BY <1>2, <3>1 DEF ClientInv, GapInv
    <3>3. KnownInv(c)'
      BY <1>2, <3>1 DEF ClientInv, KnownInv
    <3> QED  BY <2>2, <3>1, <3>2, <3>3
  <2> QED  BY <2>1, <2>2
<1>9. OpeningInv(c)'
    BY <1>1 DEF ClientInv, OpeningInv
<1>10. MissingInv(c)'
    BY <1>1, <1>3 DEF ClientInv, MissingInv
<1>11. \A e : e \in Range(s) => e = x \/ e \in Range(t)
  <2>1. ASSUME NEW i \in 1 .. Len(s)
        PROVE  s[i] = x \/ \E k \in 1 .. Len(t) : t[k] = s[i]
    <3>1. CASE i = 1  BY <1>5, <3>1
    <3>2. CASE i # 1
      <4>1. i - 1 \in 1 .. Len(s) - 1 /\ (i - 1) + 1 = i
        BY <1>5, <3>2
      <4>2. t[i - 1] = s[i] /\ i - 1 \in 1 .. Len(t)
        BY <1>5, <4>1
      <4> QED  BY <4>2
    <3> QED  BY <3>1, <3>2
  <2>2. \A e : e \in Range(s) <=> \E i \in 1 .. Len(s) : s[i] = e
    BY <1>4, InSequence, Zenon
  <2>3. \A e : e \in Range(t) <=> \E i \in 1 .. Len(t) : t[i] = e
    BY <1>5, InSequence, Zenon
  <2> QED  BY <2>1, <2>2, <2>3
<1>12. ASSUME NEW j \in 1 .. next[c], bus[j] > after[c]
       PROVE  \/ bus[j] \in Range(got'[c]) \cup missing[c]
              \/ bus[j] <= watermark[c] /\ bus[j] \in Range(t)
  <2>1. \/ bus[j] \in Range(got[c]) \cup missing[c]
        \/ bus[j] <= watermark[c] /\ bus[j] \in Range(s)
    BY <1>1, <1>12 DEF ClientInv, PassedInv, s
  <2>2. bus[j] <= watermark[c] /\ bus[j] = x => Wanted(c, x)
    BY <1>12 DEF Wanted
  <2> QED  BY <1>8, <1>11, <2>1, <2>2
<1>13. PassedInv(c)'
    BY <1>1, <1>12 DEF PassedInv
<1>14. ASSUME NEW k \in 1 .. Len(t), t[k] <= watermark[c],
              NEW e \in after[c] + 1 .. t[k] - 1
       PROVE  \/ e \in Range(got'[c]) \cup missing[c]
              \/ Overtaken(e)
              \/ \E m \in 1 .. k - 1 : t[m] = e
  <2>1. k + 1 \in 1 .. Len(s) /\ t[k] = s[k + 1] /\ (k + 1) - 1 = k
    BY <1>5
  <2>2. \/ e \in Range(got[c]) \cup missing[c] \/ Overtaken(e)
        \/ \E m \in 1 .. (k + 1) - 1 : s[m] = e
    BY <1>1, <1>14, <2>1 DEF ClientInv, ReplayInv, s
  <2>3. ASSUME NEW m \in 1 .. k, s[m] = e
        PROVE  e \in Range(got'[c]) \/ \E l \in 1 .. k - 1 : t[l] = e
    <3>1. CASE m = 1
      <4>1. Wanted(c, x)
        <5>1. t[k] \in Nat /\ x = e
          BY <1>5, <2>3, <3>1
        <5>2. after[c] \in Nat /\ watermark[c] \in Nat
          BY <1>4
        <5>3. e > after[c] /\ e <= watermark[c]
          BY <1>14, <5>1, <5>2
        <5> QED  BY <5>1, <5>3 DEF Wanted
      <4> QED  BY <1>5, <1>8, <2>3, <3>1, <4>1
    <3>2. CASE m # 1
      <4>1. m - 1 \in 1 .. k - 1 /\ m - 1 \in 1 .. Len(s) - 1 /\ (m - 1) + 1 = m
        BY <1>5, <2>1, <3>2
      <4>2. t[m - 1] = s[m]
        BY <1>5, <4>1
      <4> QED  BY <2>3, <4>1, <4>2
    <3> QED  BY <3>1, <3>2
  <2> QED  BY <1>8, <2>1, <2>2, <2>3
<1>15. ReplayInv(c)'
    BY <1>1, <1>2, <1>14 DEF ReplayInv
<1> QED  BY <1>8, <1>9, <1>10, <1>13, <1>15 DEF ClientInv

\* rx.recv(): an event that was not overtaken was sent before the one received,
\* so the stream has passed it.
LEMMA RecvStep ==
    ASSUME LogTypes, StreamTypes, LogInv, NEW c \in Clients, Recv(c),
           ClientInv(c)
    PROVE  ClientInv(c)'
<1> DEFINE n == next[c] + 1
           x == bus[next[c] + 1]
<1>1. /\ stream[c] = "live" /\ replay[c] = <<>> /\ next[c] < Len(bus)
      /\ got'[c] = Append(got[c], x) /\ known'[c] = known[c] \cup {x}
      /\ next'[c] = n
      /\ UNCHANGED <<publishVars, stream, after, watermark, missing, replay>>
    BY DEF Recv, Receiving, Deliver, StreamTypes
<1>2. \A e : Overtaken(e)' <=> Overtaken(e)
    BY <1>1, StillGrows
<1>3. \A e : Pushed(e)' <=> Pushed(e)
    BY <1>1, StillGrows
<1>4. /\ bus \in Seq(Nat) /\ pushes \in Seq(Nat) /\ got[c] \in Seq(Nat)
      /\ after[c] \in Nat /\ next[c] \in Nat /\ Len(bus) \in Nat
    BY DEF LogTypes, StreamTypes
<1>5. n \in 1 .. Len(bus) /\ n \in Nat
  <2>1. next[c] \in Nat /\ Len(bus) \in Nat /\ next[c] < Len(bus)
    BY <1>1, <1>4
  <2> QED  BY <2>1
<1>6. x \in Nat /\ x = bus[n]
    BY <1>4, <1>5
<1> HIDE DEF n, x
<1>7. ASSUME NEW j \in 1 .. next[c], bus[j] > after[c]
      PROVE  bus[j] \in Range(got[c]) \cup missing[c]
  <2>1. \/ bus[j] \in Range(got[c]) \cup missing[c]
        \/ bus[j] \in Range(replay[c])
    BY <1>1, <1>7 DEF ClientInv, PassedInv
  <2>2. Range(replay[c]) = {}
    BY <1>1, NothingInEmpty
  <2> QED  BY <2>1, <2>2
<1>8. ASSUME NEW e \in after[c] + 1 .. x - 1
      PROVE  e \in Range(got[c]) \cup missing[c] \/ Overtaken(e)
  <2>1. e \in Nat /\ e > after[c] /\ bus[n] > e
    BY <1>4, <1>6
  <2>2. CASE Passes(bus, e)
    BY <1>4, <2>2, OvertakenMeans DEF Overtaken
  <2>3. CASE ~Passes(bus, e)
    <3>1. PICK k \in 1 .. n : bus[k] = e
      BY <1>5, <2>1, <2>3 DEF Passes
    <3>2. k # n
      BY <1>6, <2>1, <3>1
    <3>3. k \in 1 .. next[c]
      BY <1>4, <3>1, <3>2 DEF n
    <3> QED  BY <1>7, <2>1, <3>1, <3>3
  <2> QED  BY <2>2, <2>3
<1>9. /\ GapInv(c)' /\ KnownInv(c)'
      /\ Range(got'[c]) = Range(got[c]) \cup {x}
  <2>1. after'[c] = after[c] /\ missing'[c] = missing[c]
    BY <1>1
  <2> QED  BY <1>1, <1>2, <1>6, <1>8, <2>1, DeliverKeeps
<1>10. OpeningInv(c)'
  <2>1. n <= Len(bus)
    BY <1>5
  <2> QED  BY <1>1, <2>1 DEF ClientInv, OpeningInv
<1>11. MissingInv(c)'
    BY <1>1, <1>3 DEF ClientInv, MissingInv
<1>12. ASSUME NEW j \in 1 .. n, bus[j] > after[c]
       PROVE  bus[j] \in Range(got'[c]) \cup missing[c]
  <2>1. j \in 1 .. next[c] \/ j = n
    <3>1. next[c] \in Nat
      BY <1>4
    <3> QED  BY <3>1 DEF n
  <2> QED  BY <1>6, <1>7, <1>9, <1>12, <2>1
<1>13. PassedInv(c)'
    BY <1>1, <1>12 DEF PassedInv
<1>14. ReplayInv(c)'
  <2>1. Len(replay'[c]) = 0
    BY <1>1
  <2> QED  BY <2>1 DEF ReplayInv
<1> QED  BY <1>9, <1>10, <1>11, <1>13, <1>14 DEF ClientInv

\* A stream that ends leaves what it delivered.
LEMMA CloseStep ==
    ASSUME LogTypes, StreamTypes, NEW c \in Clients, Close(c), ClientInv(c)
    PROVE  ClientInv(c)'
<1>1. /\ stream'[c] = "closed"
      /\ UNCHANGED <<publishVars, after, next, watermark, got, missing, known>>
    BY DEF Close, StreamTypes
<1>2. \A e : Overtaken(e)' <=> Overtaken(e)
    BY <1>1, StillGrows
<1>3. \A e : Pushed(e)' <=> Pushed(e)
    BY <1>1, StillGrows
<1>4. OpeningInv(c)'
    BY <1>1 DEF ClientInv, OpeningInv
<1>5. MissingInv(c)'
    BY <1>1, <1>3 DEF ClientInv, MissingInv
<1>6. PassedInv(c)' /\ ReplayInv(c)'
    BY <1>1 DEF PassedInv, ReplayInv
<1>7. GapInv(c)'
    BY <1>1, <1>2 DEF ClientInv, GapInv
<1>8. KnownInv(c)'
    BY <1>1, <1>2 DEF ClientInv, KnownInv
<1> QED  BY <1>4, <1>5, <1>6, <1>7, <1>8 DEF ClientInv
-----------------------------------------------------------------------------
(* The invariant holds.                                                    *)

\* Each step of a client is on its own stream only, and keeps the types.
LEMMA ClientStepFrame ==
    ASSUME LogTypes, StreamTypes, NEW c \in Clients,
           Subscribe(c) \/ StreamStep(c) \/ Disconnect(c)
    PROVE  /\ UNCHANGED publishVars /\ StreamTypes'
           /\ \A d \in Clients \ {c} : Kept(d)
<1> DEFINE Goal == /\ UNCHANGED publishVars /\ StreamTypes'
                   /\ \A d \in Clients \ {c} : Kept(d)
<1> SUFFICES Goal
    OBVIOUS
<1>1. /\ Len(bus) \in Nat /\ seq \in Nat /\ ring \in Seq(Nat)
      /\ \A i \in 1 .. Len(bus) : bus[i] \in Nat
    BY DEF LogTypes
<1>2. /\ got[c] \in Seq(Nat) /\ replay[c] \in Seq(Nat) /\ after[c] \in Nat
      /\ next[c] \in Nat /\ known[c] \subseteq Nat
    BY DEF StreamTypes
<1>3. CASE Subscribe(c)
  <2>1. (IF got[c] = <<>> THEN after[c] ELSE got[c][Len(got[c])]) \in Nat
    BY <1>2
  <2>2. after' \in [Clients -> Nat] /\ \A d \in Clients \ {c} : after'[d] = after[d]
    BY <1>3, <2>1 DEF Subscribe, StreamTypes
  <2>3. /\ stream' = [stream EXCEPT ![c] = "opening"]
        /\ next' = [next EXCEPT ![c] = Len(bus)] /\ got' = [got EXCEPT ![c] = <<>>]
        /\ UNCHANGED <<publishVars, replay, watermark, missing, known>>
    BY <1>3 DEF Subscribe
  <2>4. StreamTypes'
    BY <1>1, <2>2, <2>3 DEF StreamTypes
  <2>5. \A d \in Clients \ {c} : Kept(d)
    BY <2>2, <2>3 DEF StreamTypes, Kept
  <2> QED  BY <2>3, <2>4, <2>5
<1>4. CASE ReadWatermark(c)
    BY <1>1, <1>4 DEF ReadWatermark, StreamTypes, Kept
<1>5. CASE Replay(c)
  <2>1. Dropped(c) \subseteq Nat
    <3>1. Range(pushes) \subseteq Nat
      <4>1. pushes \in Seq(Nat)
        BY DEF LogTypes
      <4> QED  BY <4>1 DEF Range
    <3> QED  BY <3>1 DEF Dropped
  <2> QED  BY <1>1, <1>5, <2>1 DEF Replay, StreamTypes, Kept
<1>6. ASSUME NEW e \in Nat, Deliver(c, e)
      PROVE  /\ got' \in [Clients -> Seq(Nat)] /\ known' \in [Clients -> SUBSET Nat]
             /\ \A d \in Clients \ {c} : got'[d] = got[d] /\ known'[d] = known[d]
  <2>1. Append(got[c], e) \in Seq(Nat) /\ known[c] \cup {e} \subseteq Nat
    BY <1>2, AppendFacts
  <2> QED  BY <1>6, <2>1 DEF Deliver, StreamTypes
<1>7. CASE Yield(c)
  <2>1. Head(replay[c]) \in Nat /\ Tail(replay[c]) \in Seq(Nat)
    BY <1>2, <1>7, TailFacts DEF Yield
  <2>2. replay' \in [Clients -> Seq(Nat)] /\ \A d \in Clients \ {c} : replay'[d] = replay[d]
    BY <1>7, <2>1 DEF Yield, StreamTypes
  <2>3. UNCHANGED <<publishVars, stream, after, watermark, missing, next>>
    BY <1>7 DEF Yield, Deliver
  <2>4. /\ got' \in [Clients -> Seq(Nat)] /\ known' \in [Clients -> SUBSET Nat]
        /\ \A d \in Clients \ {c} : got'[d] = got[d] /\ known'[d] = known[d]
    BY <1>6, <1>7, <2>1 DEF Yield, StreamTypes
  <2> QED  BY <2>2, <2>3, <2>4 DEF StreamTypes, Kept
<1>8. CASE Recv(c)
  <2>1. next[c] + 1 \in 1 .. Len(bus)
    <3>1. next[c] \in Nat /\ Len(bus) \in Nat
      BY <1>1, <1>2
    <3>2. next[c] < Len(bus)
      BY <1>8 DEF Recv, Receiving
    <3> QED  BY <3>1, <3>2
  <2>2. bus[next[c] + 1] \in Nat /\ next[c] + 1 \in Nat
    <3>1. bus[next[c] + 1] \in Nat
      BY <1>1, <2>1
    <3>2. next[c] \in Nat
      BY <1>2
    <3> QED  BY <3>1, <3>2
  <2>3. next' \in [Clients -> Nat] /\ \A d \in Clients \ {c} : next'[d] = next[d]
    BY <1>8, <2>2 DEF Recv, StreamTypes
  <2>4. UNCHANGED <<publishVars, stream, after, watermark, missing, replay>>
    BY <1>8 DEF Recv, Deliver
  <2>5. /\ got' \in [Clients -> Seq(Nat)] /\ known' \in [Clients -> SUBSET Nat]
        /\ \A d \in Clients \ {c} : got'[d] = got[d] /\ known'[d] = known[d]
    BY <1>6, <1>8, <2>2 DEF Recv
  <2> QED  BY <2>3, <2>4, <2>5 DEF StreamTypes, Kept
<1>9. CASE Close(c)
  <2>1. /\ stream' = [stream EXCEPT ![c] = "closed"]
        /\ replay' = [replay EXCEPT ![c] = <<>>]
        /\ UNCHANGED <<publishVars, after, next, watermark, got, missing, known>>
    BY <1>9 DEF Close
  <2>2. StreamTypes'
    BY <2>1 DEF StreamTypes
  <2>3. \A d \in Clients \ {c} : Kept(d)
    BY <2>1 DEF StreamTypes, Kept
  <2> QED  BY <2>1, <2>2, <2>3
<1> HIDE DEF Goal
<1> QED
    BY <1>3, <1>4, <1>5, <1>7, <1>8, <1>9 DEF StreamStep, LagOut, Disconnect

\* Every step keeps the invariant.
LEMMA BusStep == BusInv /\ [Next]_vars => BusInv'
<1> SUFFICES ASSUME LogTypes, StreamTypes, LogInv, \A c \in Clients : ClientInv(c),
                    [Next]_vars
             PROVE  LogTypes' /\ StreamTypes' /\ LogInv'
                    /\ \A c \in Clients : ClientInv(c)'
    BY DEF BusInv
<1>1. ASSUME NEW p \in Publishers, PublishStep(p)
      PROVE  LogTypes' /\ StreamTypes' /\ LogInv'
             /\ \A c \in Clients : ClientInv(c)'
  <2>1. UNCHANGED streamVars
    BY <1>1 DEF PublishStep, Number, Push, Send
  <2>2. LogTypes' /\ LogInv' /\ Grows
    BY <1>1, NumberStep, PushStep, SendStep DEF PublishStep
  <2>3. StreamTypes'
    BY <2>1 DEF StreamTypes
  <2>4. \A c \in Clients : Kept(c)
    BY <2>1 DEF Kept
  <2> QED  BY <2>2, <2>3, <2>4, ClientFrame
<1>2. ASSUME UNCHANGED publishVars
      PROVE  LogTypes' /\ LogInv' /\ Grows
  <2>1. \A e : Pushed(e)' <=> Pushed(e)
    BY <1>2, StillGrows
  <2>2. LogInv'
    BY <1>2, <2>1 DEF LogInv
  <2> QED  BY <1>2, <2>2, StillGrows
<1>3. ASSUME NEW c \in Clients, Subscribe(c) \/ StreamStep(c) \/ Disconnect(c)
      PROVE  LogTypes' /\ StreamTypes' /\ LogInv'
             /\ \A d \in Clients : ClientInv(d)'
  <2>1. UNCHANGED publishVars /\ StreamTypes' /\ \A d \in Clients \ {c} : Kept(d)
    BY <1>3, ClientStepFrame
  <2>2. LogTypes' /\ LogInv' /\ Grows
    BY <1>2, <2>1
  <2>3. ClientInv(c)'
    BY <1>3, SubscribeStep, ReadWatermarkStep, ReplayStep, YieldStep, RecvStep,
       CloseStep
    DEF StreamStep, LagOut, Disconnect
  <2>4. ASSUME NEW d \in Clients \ {c}
        PROVE  ClientInv(d)'
    BY <2>1, <2>2, ClientFrame
  <2> QED  BY <2>1, <2>2, <2>3, <2>4
<1>4. CASE UNCHANGED vars
  <2>1. UNCHANGED publishVars /\ UNCHANGED streamVars
    BY <1>4 DEF vars
  <2>2. LogTypes' /\ LogInv' /\ Grows
    BY <1>2, <2>1
  <2>3. StreamTypes' /\ \A c \in Clients : Kept(c)
    BY <2>1 DEF StreamTypes, Kept
  <2> QED  BY <2>2, <2>3, ClientFrame
<1> QED  BY <1>1, <1>3, <1>4 DEF Next

\* A session starts with an empty log and no stream.
LEMMA BusInit == Init => BusInv
<1> SUFFICES ASSUME Init
             PROVE  BusInv
    OBVIOUS
<1>1. LogTypes /\ StreamTypes
    BY DEF Init, LogTypes, StreamTypes
<1>2. Len(pushes) = 0 /\ Len(ring) = 0 /\ Len(bus) = 0
    BY DEF Init
<1>3. LogInv
  <2>1. \A p \in Publishers : mine[p] <= seq
    BY DEF Init
  <2> QED  BY <1>2, <2>1 DEF LogInv
<1>4. ASSUME NEW c \in Clients
      PROVE  ClientInv(c)
  <2>1. /\ stream[c] = "closed" /\ after[c] = 0 /\ next[c] = 0
        /\ watermark[c] = 0 /\ seq = 0 /\ got[c] = <<>> /\ missing[c] = {}
    BY DEF Init
  <2>2. Len(got[c]) = 0 /\ Range(got[c]) = {}
    BY <2>1, NothingInEmpty
  <2>3. OpeningInv(c)
    BY <1>2, <2>1 DEF OpeningInv
  <2>4. MissingInv(c) /\ PassedInv(c) /\ ReplayInv(c)
    BY <2>1 DEF MissingInv, PassedInv, ReplayInv
  <2>5. GapInv(c)
    <3>1. 1 .. Len(got[c]) = {}
      BY <2>2
    <3> QED  BY <3>1, Zenon DEF GapInv
  <2>6. KnownInv(c)
    <3>1. 1 .. after[c] = {}
      BY <2>1
    <3> QED  BY <2>2, <3>1, Zenon DEF KnownInv
  <2> QED  BY <2>3, <2>4, <2>5, <2>6 DEF ClientInv
<1> QED  BY <1>1, <1>3, <1>4 DEF BusInv

\* What the invariant says of a stream that has caught up.
LEMMA CaughtUpHas ==
    ASSUME BusInv, NEW c \in Clients, CaughtUp(c), NEW e \in Range(bus)
    PROVE  /\ e > after[c] => e \in Range(got[c]) \cup missing[c]
           /\ e \in known[c] \cup missing[c] \/ Overtaken(e)
<1>1. bus \in Seq(Nat) /\ pushes \in Seq(Nat) /\ after[c] \in Nat
    BY DEF BusInv, LogTypes, StreamTypes
<1>2. PICK j \in 1 .. Len(bus) : bus[j] = e
    BY <1>1, InSequence
<1>3. e \in Nat
    BY <1>1, <1>2
<1>4. ASSUME e > after[c]
      PROVE  e \in Range(got[c]) \cup missing[c]
  <2>1. j \in 1 .. next[c] /\ stream[c] = "live" /\ replay[c] = <<>>
    BY <1>2 DEF CaughtUp
  <2>2. bus[j] \in Range(got[c]) \cup missing[c] \/ bus[j] \in Range(replay[c])
    BY <1>2, <1>4, <2>1 DEF BusInv, ClientInv, PassedInv
  <2> QED  BY <1>2, <2>1, <2>2, NothingInEmpty
<1>5. ASSUME ~(e > after[c])
      PROVE  e \in known[c] \cup missing[c] \/ Overtaken(e)
  <2>1. Pushed(e)
    BY <1>2 DEF BusInv, LogInv
  <2>2. PICK i \in 1 .. Len(pushes) : pushes[i] = e
    BY <1>1, <2>1, PushedMeans
  <2>3. 1 <= e
    BY <2>2 DEF BusInv, LogInv
  <2>4. e \in 1 .. after[c]
    BY <1>1, <1>3, <1>5, <2>3
  <2> QED  BY <2>4 DEF BusInv, ClientInv, KnownInv
<1>6. Range(got[c]) \subseteq known[c]
    BY DEF BusInv, ClientInv, KnownInv
<1> QED  BY <1>4, <1>5, <1>6

\* HANDOFF and RESUME, for any number of publishers, clients and reconnects, any
\* ring and any bus: stream_strategy_events loses no event but those the ring
\* had dropped and those a later event overtook.
THEOREM NothingLostHolds == Spec => []NothingLost
<1>1. BusInv => NothingLost
    BY CaughtUpHas DEF NothingLost, HandoffLosesNothing, ResumeLosesNothing
<1> QED  BY <1>1, BusInit, BusStep, PTL DEF Spec

\* GAPS, for the same instances: a stream that delivers an event has delivered
\* every earlier one since its resume_token that was neither dropped nor
\* overtaken.
THEOREM NoForwardGapHolds == Spec => []NoForwardGap
<1>1. BusInv => NoForwardGap
    BY DEF BusInv, ClientInv, GapInv, NoForwardGap
<1> QED  BY <1>1, BusInit, BusStep, PTL DEF Spec
=============================================================================
