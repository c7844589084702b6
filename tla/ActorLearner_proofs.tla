------------------------- MODULE ActorLearner_proofs -------------------------
(***************************************************************************)
(* Proofs about ActorLearner, for every capacity of the buffers, length of *)
(* the demonstration, number of workers and number of chunks a policy      *)
(* takes, and without any of the bounds of a run.                          *)
(*                                                                         *)
(* What is in flight on a stream is one message, the first part of it      *)
(* received and the rest still to come (InTransit); so what is handed over *)
(* is whole.  The inductive invariant carries the order of the episodes    *)
(* and of the policies along their queues (EpisodeOrder, PolicyOrder) and  *)
(* says what the newest transition of a buffer leads to (Successors).      *)
(***************************************************************************)
EXTENDS ActorLearner, SequenceTheorems, TLAPS

Transitions == [state : Nat, next : Nat, end : Ends, nan : BOOLEAN, help : BOOLEAN]

(* Each transition leads to the one after it and only the last may end an   *)
(* episode.                                                                *)
Unbroken(steps) ==
  \A k \in 1..(Len(steps) - 1) :
    steps[k].end = "none" /\ steps[k + 1].state = steps[k].next

(* What the actor queues: the transitions of one episode, to its end.      *)
Complete(steps) == Unbroken(steps) /\ Len(steps) > 0 /\ steps[Len(steps)].end # "none"

Episodes == {m \in [number : Nat, steps : Seq(Transitions)] : Complete(m.steps)}

ChunksOf(messages) ==
  [transfer : {"BEGIN", "MIDDLE", "END"}, part : Nat, of : Nat, message : messages]

(* A message of which "done" has been received and "left" is still to come. *)
InTransit(done, left) ==
  /\ left = <<>> => done = <<>>
  /\ left # <<>> => done \o left = Chunks(MessageOf(left), Len(done) + Len(left))

Slots == [state : Nat, next : Nat, end : Ends]

Rings ==
  {b \in [slots : [0..(Capacity - 1) -> Slots], position : 0..(Capacity - 1), size : 0..Capacity] :
     b.size < Capacity => b.position = b.size}

---------------------------------------------------------------------------
(* The parts of the inductive invariant.                                   *)

LearnerTypes ==
  /\ acting \in {"acting", "finished", "raised", "down"}
  /\ stream \in [Streams -> {"closed", "waiting", "open"}]
  /\ clock \in Nat /\ nan \in BOOLEAN /\ weights \in Nat /\ version \in Nat
  /\ sent \in Nat /\ before \in Nat /\ taken \in Nat
  /\ episode \in Seq(Transitions) /\ batch \in Seq(Transitions)
  /\ outQueue \in Seq(Episodes)
  /\ sending \in Seq(ChunksOf(Episodes)) /\ received \in Seq(ChunksOf(Episodes))
  /\ inQueue \in Seq(Seq(ChunksOf(Episodes)))
  /\ pushQueue \in Seq(Nat)
  /\ pushing \in Seq(ChunksOf(Nat)) /\ fetched \in Seq(ChunksOf(Nat))
  /\ paramQueue \in Seq(Seq(ChunksOf(Nat)))
  /\ online \in Rings /\ offline \in Rings

(* The numbers of the episodes in each place, each newer than all those    *)
(* further on its way.                                                     *)
InNumber(k) == MessageOf(inQueue[k]).number

EpisodeOrder ==
  /\ taken <= sent
  /\ \A k \in DOMAIN inQueue :
       /\ Whole(inQueue[k]) /\ InNumber(k) \in (taken + 1)..sent
       /\ \A j \in 1..(k - 1) : InNumber(j) < InNumber(k)
  /\ sending # <<>> =>
       /\ MessageOf(sending).number \in (taken + 1)..sent
       /\ \A k \in DOMAIN inQueue : InNumber(k) < MessageOf(sending).number
  /\ \A k \in DOMAIN outQueue :
       /\ outQueue[k].number \in (taken + 1)..sent
       /\ \A j \in 1..(k - 1) : outQueue[j].number < outQueue[k].number
       /\ \A j \in DOMAIN inQueue : InNumber(j) < outQueue[k].number
       /\ sending # <<>> => MessageOf(sending).number < outQueue[k].number

(* While the stream of transitions lives, an episode of this actor is      *)
(* somewhere.                                                              *)
NoneLost ==
  stream["transitions"] # "closed" =>
    \A n \in (before + 1)..sent :
      \/ n <= taken
      \/ \E k \in DOMAIN inQueue : InNumber(k) = n
      \/ sending # <<>> /\ MessageOf(sending).number = n
      \/ \E k \in DOMAIN outQueue : outQueue[k].number = n

(* The policies in each place, in the same way.                            *)
Fetched(k) == MessageOf(paramQueue[k])

PolicyOrder ==
  /\ weights <= version
  /\ \A k \in DOMAIN paramQueue :
       /\ Whole(paramQueue[k]) /\ Fetched(k) \in (weights + 1)..version
       /\ \A j \in 1..(k - 1) : Fetched(j) < Fetched(k)
  /\ pushing # <<>> =>
       /\ MessageOf(pushing) \in (weights + 1)..version
       /\ \A k \in DOMAIN paramQueue : Fetched(k) < MessageOf(pushing)
  /\ \A k \in DOMAIN pushQueue :
       /\ pushQueue[k] \in (weights + 1)..version
       /\ \A j \in 1..(k - 1) : pushQueue[j] < pushQueue[k]
       /\ \A j \in DOMAIN paramQueue : Fetched(j) < pushQueue[k]
       /\ pushing # <<>> => MessageOf(pushing) < pushQueue[k]

(* The episode being played leads to the current observation.              *)
Playing ==
  /\ \A k \in DOMAIN episode : episode[k].end = "none"
  /\ Unbroken(episode)
  /\ episode # <<>> => episode[Len(episode)].next = clock

(* The slots in use, in the order they were written in: each but the newest *)
(* is followed by what it leads to.                                        *)
Linked(b, gone) ==
  \A i \in 0..(b.size - 1) :
    \/ i = Newest(b)
    \/ b.slots[i].end # "none"
    \/ b.slots[i].next \in gone
    \/ SampledNext(b, i) = b.slots[i].next

(* The newest leads to what is stored next, if that follows at all.        *)
LeadsOn(b, gone, rest) ==
  b.size > 0 =>
    LET newest == b.slots[Newest(b)]
    IN newest.end # "none" \/ newest.next \in gone
         \/ (rest # <<>> /\ newest.next = rest[1].state)

Successors ==
  /\ batch # <<>> => Complete(batch)
  /\ Linked(online, missing) /\ LeadsOn(online, missing, batch)
  /\ Linked(offline, unassisted) /\ LeadsOn(offline, unassisted, batch)

LearnerInv ==
  /\ LearnerTypes
  /\ InTransit(received, sending) /\ InTransit(fetched, pushing)
  /\ EpisodeOrder /\ NoneLost /\ PolicyOrder /\ Playing /\ Successors

---------------------------------------------------------------------------
(* Messages on a stream.                                                   *)

LEMMA ChunksFacts ==
  ASSUME NEW M, NEW m \in M, NEW n \in Nat \ {0}
  PROVE  /\ Chunks(m, n) \in Seq(ChunksOf(M))
         /\ Len(Chunks(m, n)) = n /\ Chunks(m, n) # <<>>
         /\ MessageOf(Chunks(m, n)) = m
         /\ InTransit(<<>>, Chunks(m, n))
<1>1. Chunks(m, n) \in Seq(ChunksOf(M)) /\ Len(Chunks(m, n)) = n
  BY DEF Chunks, ChunksOf
<1>2. Chunks(m, n)[1].message = m /\ Chunks(m, n) # <<>>
  BY <1>1 DEF Chunks
<1>3. <<>> \o Chunks(m, n) = Chunks(m, n)
  BY <1>1
<1> QED BY <1>1, <1>2, <1>3 DEF InTransit, MessageOf

(* The chunks of a message in flight, one by one.                          *)
LEMMA TransitFacts ==
  ASSUME NEW M, NEW done \in Seq(ChunksOf(M)), NEW left \in Seq(ChunksOf(M)),
         left # <<>>, InTransit(done, left)
  PROVE  LET n == Len(done) + Len(left)
             m == MessageOf(left)
         IN /\ \A k \in 1..Len(done) : done[k] = Chunks(m, n)[k]
            /\ \A k \in 1..Len(left) : left[k] = Chunks(m, n)[Len(done) + k]
            /\ m \in M
<1> DEFINE n == Len(done) + Len(left)
           m == MessageOf(left)
<1>1. done \o left = Chunks(m, n)
  BY DEF InTransit
<1>2. Len(done) \in Nat /\ Len(left) \in Nat \ {0}
  OBVIOUS
<1>3. \A k \in 1..Len(done) : (done \o left)[k] = done[k]
  BY <1>2
<1>4. \A k \in 1..Len(left) : (done \o left)[Len(done) + k] = left[k]
  BY <1>2
<1>5. left[1] \in ChunksOf(M)
  BY <1>2
<1>6. m \in M
  BY <1>5 DEF MessageOf, ChunksOf
<1> QED BY <1>1, <1>3, <1>4, <1>6

LEMMA NextChunk ==
  ASSUME NEW M, NEW done \in Seq(ChunksOf(M)), NEW left \in Seq(ChunksOf(M)),
         left # <<>>, InTransit(done, left)
  PROVE  LET after == BufferAfter(done, Head(left))
             bytes == Append(done, Head(left))
         IN /\ after \in Seq(ChunksOf(M)) /\ Tail(left) \in Seq(ChunksOf(M))
            /\ InTransit(after, Tail(left))
            /\ Tail(left) # <<>> =>
                 HandedOver(done, Head(left)) = <<>> /\ MessageOf(Tail(left)) = MessageOf(left)
            /\ Tail(left) = <<>> =>
                 /\ HandedOver(done, Head(left)) = <<bytes>>
                 /\ bytes \in Seq(ChunksOf(M)) /\ Whole(bytes)
                 /\ MessageOf(bytes) = MessageOf(left)
<1> DEFINE d == Len(done)
           n == Len(done) + Len(left)
           m == MessageOf(left)
           c == Head(left)
           rest == Tail(left)
           bytes == Append(done, c)
<1>1. d \in Nat /\ n \in Nat \ {0} /\ d < n /\ Len(rest) = n - d - 1 /\ Len(bytes) = d + 1
  OBVIOUS
<1>2. /\ \A k \in 1..d : done[k] = Chunks(m, n)[k]
      /\ \A k \in 1..Len(left) : left[k] = Chunks(m, n)[d + k]
      /\ m \in M
  BY TransitFacts
<1>3. rest \in Seq(ChunksOf(M)) /\ c \in ChunksOf(M) /\ bytes \in Seq(ChunksOf(M))
  OBVIOUS
<1>4. \A k \in 1..Len(rest) : rest[k] = left[k + 1]
  OBVIOUS
<1>5. c = Chunks(m, n)[d + 1]
  BY <1>1, <1>2
<1>6. \A k \in 1..(d + 1) : bytes[k] = Chunks(m, n)[k]
  BY <1>1, <1>2, <1>5
<1>7. c.transfer = (IF d + 1 = n THEN "END" ELSE IF d = 0 THEN "BEGIN" ELSE "MIDDLE")
  BY <1>1, <1>5 DEF Chunks
<1>8. \A k \in 1..n : Chunks(m, n)[k].part = k /\ Chunks(m, n)[k].of = n
                       /\ Chunks(m, n)[k].message = m
  BY DEF Chunks
<1> HIDE DEF n, m, c, rest, bytes, d
<1>9. CASE rest = <<>>
  <2>1. d + 1 = n
    BY <1>1, <1>9
  <2>2. c.transfer = "END"
    BY <2>1, <1>7
  <2>3. HandedOver(done, c) = <<bytes>> /\ BufferAfter(done, c) = <<>>
    BY <2>2 DEF HandedOver, BufferAfter, bytes
  <2>4. Whole(bytes) /\ MessageOf(bytes) = m
    BY <2>1, <1>1, <1>3, <1>6, <1>8 DEF Whole, MessageOf
  <2>5. InTransit(<<>>, rest)
    BY <1>9 DEF InTransit
  <2> QED BY <2>3, <2>4, <2>5, <1>3, <1>9 DEF m, c, rest, bytes
<1>10. CASE rest # <<>>
  <2>1. d + 1 < n
    BY <1>1, <1>3, <1>10
  <2>2. HandedOver(done, c) = <<>>
    BY <2>1, <1>7, <1>1 DEF HandedOver
  <2>3. BufferAfter(done, c) = bytes
    <3>1. CASE d = 0
      <4>1. done = <<>>
        BY <3>1 DEF d
      <4>2. c.transfer = "BEGIN"
        BY <3>1, <2>1, <1>7
      <4>3. bytes = <<c>>
        BY <4>1 DEF bytes
      <4> QED BY <4>2, <4>3 DEF BufferAfter
    <3>2. CASE d # 0
      <4>1. c.transfer = "MIDDLE"
        BY <3>2, <2>1, <1>7, <1>1
      <4> QED BY <4>1 DEF BufferAfter, bytes
    <3> QED BY <3>1, <3>2
  <2>4. MessageOf(rest) = m
    <3>1. rest[1] = left[2]
      BY <1>4, <1>1, <2>1
    <3>2. left[2] = Chunks(m, n)[d + 2]
      BY <1>2, <1>1, <2>1 DEF n, d
    <3> QED BY <3>1, <3>2, <1>8, <2>1, <1>1 DEF MessageOf
  <2>5. bytes \o rest = Chunks(m, n)
    <3> DEFINE cat == bytes \o rest
    <3>1. cat \in Seq(ChunksOf(M)) /\ Len(cat) = n
      <4>1. cat \in Seq(ChunksOf(M)) /\ Len(cat) = Len(bytes) + Len(rest)
        BY <1>3
      <4> QED BY <4>1, <1>1
    <3>2. Chunks(m, n) \in Seq(ChunksOf(M)) /\ Len(Chunks(m, n)) = n
      BY ChunksFacts, <1>1, <1>2
    <3>3. ASSUME NEW k \in 1..n PROVE cat[k] = Chunks(m, n)[k]
      <4>1. CASE k <= d + 1
        BY <4>1, <1>1, <1>3, <1>6
      <4>2. CASE k > d + 1
        <5>1. k - d - 1 \in 1..Len(rest) /\ k - d \in 1..Len(left)
          BY <4>2, <1>1 DEF n, d
        <5>2. cat[k] = rest[k - d - 1]
          BY <5>1, <4>2, <1>1, <1>3
        <5>3. rest[k - d - 1] = left[k - d]
          BY <5>1, <1>4, <1>1
        <5>4. left[k - d] = Chunks(m, n)[k]
          BY <5>1, <1>2, <1>1
        <5> QED BY <5>2, <5>3, <5>4
      <4> QED BY <4>1, <4>2, <1>1
    <3> QED BY <3>1, <3>2, <3>3
  <2>6. InTransit(bytes, rest)
    <3>1. Len(bytes) + Len(rest) = n
      BY <1>1
    <3> QED BY <3>1, <2>4, <2>5, <1>10 DEF InTransit
  <2> QED BY <2>2, <2>3, <2>4, <2>6, <1>3, <1>10 DEF m, c, rest, bytes
<1> QED BY <1>9, <1>10 DEF m, c, rest, bytes

---------------------------------------------------------------------------
(* The ring of a replay buffer.                                            *)

LEMMA RingIndex ==
  ASSUME NEW i \in 0..(Capacity - 1)
  PROVE  /\ (i + 1) % Capacity = (IF i = Capacity - 1 THEN 0 ELSE i + 1)
         /\ (i - 1) % Capacity = (IF i = 0 THEN Capacity - 1 ELSE i - 1)
<1>1. Capacity \in Nat \ {0}
  BY BufferAssumption
<1>2. \A n \in Int, q \in Int, r \in 0..(Capacity - 1) : n = q * Capacity + r => n % Capacity = r
  BY <1>1, Z3
<1>3. i + 1 = 0 * Capacity + (i + 1) /\ i - 1 = 0 * Capacity + (i - 1)
  BY <1>1
<1>4. i = Capacity - 1 => i + 1 = 1 * Capacity + 0
  BY <1>1
<1>5. i = 0 => i - 1 = (-1) * Capacity + (Capacity - 1)
  BY <1>1
<1>6. (i + 1) % Capacity = (IF i = Capacity - 1 THEN 0 ELSE i + 1)
  <2>1. CASE i = Capacity - 1
    BY <2>1, <1>1, <1>2, <1>4
  <2>2. CASE i # Capacity - 1
    BY <2>2, <1>1, <1>2, <1>3
  <2> QED BY <2>1, <2>2
<1>7. (i - 1) % Capacity = (IF i = 0 THEN Capacity - 1 ELSE i - 1)
  <2>1. CASE i = 0
    BY <2>1, <1>1, <1>2, <1>5
  <2>2. CASE i # 0
    BY <2>2, <1>1, <1>2, <1>3
  <2> QED BY <2>1, <2>2
<1> QED BY <1>6, <1>7

LEMMA RingPlaces ==
  ASSUME NEW b \in Rings
  PROVE  /\ Capacity \in Nat \ {0}
         /\ b.position \in 0..(Capacity - 1) /\ b.size \in 0..Capacity
         /\ b.size < Capacity => b.position = b.size
         /\ Newest(b) = (IF b.position = 0 THEN Capacity - 1 ELSE b.position - 1)
         /\ Newest(b) \in 0..(Capacity - 1)
         /\ b.slots \in [0..(Capacity - 1) -> Slots]
<1>1. /\ b.position \in 0..(Capacity - 1) /\ b.size \in 0..Capacity
      /\ b.size < Capacity => b.position = b.size
      /\ b.slots \in [0..(Capacity - 1) -> Slots]
  BY DEF Rings
<1>2. Newest(b) = (IF b.position = 0 THEN Capacity - 1 ELSE b.position - 1)
  BY <1>1, RingIndex DEF Newest
<1> QED BY <1>1, <1>2, BufferAssumption

(* What sample() needs follows from the links.                             *)
LEMMA LinkedIsEnough ==
  ASSUME NEW b \in Rings, NEW gone, Linked(b, gone)
  PROVE  NextIsSuccessor(b, gone)
<1> SUFFICES ASSUME NEW i \in Sampled(b)
             PROVE  \/ b.slots[i].end # "none"
                    \/ b.size = Capacity /\ i = Newest(b)
                    \/ b.slots[i].next \in gone
                    \/ SampledNext(b, i) = b.slots[i].next
  BY DEF NextIsSuccessor
<1>1. i \in 0..(b.size - 1) /\ (b.size < Capacity => i # b.size - 1)
  BY RingPlaces DEF Sampled
<1>2. b.size < Capacity => i # Newest(b)
  BY <1>1, RingPlaces
<1> QED BY <1>1, <1>2, RingPlaces DEF Linked

(* Storing the transition that the newest one leads to keeps the links.    *)
LEMMA AddTransitionFacts ==
  ASSUME NEW b \in Rings, NEW t \in Transitions, NEW gone, Linked(b, gone),
         b.size > 0 =>
           LET newest == b.slots[Newest(b)]
           IN newest.end # "none" \/ newest.next \in gone \/ newest.next = t.state
  PROVE  LET after == AddTransition(b, t)
         IN /\ after \in Rings /\ Linked(after, gone) /\ after.size > 0
            /\ after.slots[Newest(after)] = [state |-> t.state, next |-> t.next, end |-> t.end]
<1> DEFINE after == AddTransition(b, t)
           p == b.position
           slot == [state |-> t.state, next |-> t.next, end |-> t.end]
<1>1. slot \in Slots
  BY DEF Transitions, Slots
<1>2. /\ after.slots = [b.slots EXCEPT ![p] = slot]
      /\ after.position = (IF p = Capacity - 1 THEN 0 ELSE p + 1)
      /\ after.size = (IF b.size < Capacity THEN b.size + 1 ELSE Capacity)
  BY RingPlaces, RingIndex DEF AddTransition
<1>3. after \in Rings
  <2>1. after.slots \in [0..(Capacity - 1) -> Slots]
    BY <1>1, <1>2, RingPlaces
  <2>2. /\ after.position \in 0..(Capacity - 1) /\ after.size \in 0..Capacity
        /\ after.size < Capacity => after.position = after.size
    BY <1>2, RingPlaces
  <2>3. after = [slots |-> after.slots, position |-> after.position, size |-> after.size]
    BY DEF AddTransition
  <2> HIDE DEF after
  <2> QED BY <2>1, <2>2, <2>3 DEF Rings
<1> HIDE DEF after, slot
<1>4. Newest(after) = p /\ after.size > 0 /\ after.slots[p] = slot
  BY <1>2, <1>3, RingPlaces
<1>5. Linked(after, gone)
  <2> SUFFICES ASSUME NEW i \in 0..(after.size - 1), i # p
               PROVE  \/ after.slots[i].end # "none"
                      \/ after.slots[i].next \in gone
                      \/ SampledNext(after, i) = after.slots[i].next
    BY <1>4 DEF Linked
  <2>1. i \in 0..(Capacity - 1) /\ i \in 0..(b.size - 1) /\ after.slots[i] = b.slots[i]
    BY <1>2, RingPlaces
  <2>2. SampledNext(after, i) = after.slots[IF i = Capacity - 1 THEN 0 ELSE i + 1].state
    BY <2>1, RingIndex DEF SampledNext
  <2>3. SampledNext(b, i) = b.slots[IF i = Capacity - 1 THEN 0 ELSE i + 1].state
    BY <2>1, RingIndex DEF SampledNext
  <2>4. CASE i = Newest(b)
    <3>1. (IF i = Capacity - 1 THEN 0 ELSE i + 1) = p
      BY <2>4, RingPlaces
    <3>2. SampledNext(after, i) = t.state
      BY <3>1, <2>2, <1>4 DEF slot
    <3> QED BY <3>2, <2>1, <2>4, RingPlaces
  <2>5. CASE i # Newest(b)
    <3>1. (IF i = Capacity - 1 THEN 0 ELSE i + 1) # p
      BY <2>1, <2>5, RingPlaces
    <3>2. SampledNext(after, i) = SampledNext(b, i)
      BY <3>1, <2>1, <2>2, <2>3, <1>2, RingPlaces
    <3> QED BY <3>2, <2>1, <2>5 DEF Linked
  <2> QED BY <2>4, <2>5
<1> QED BY <1>3, <1>4, <1>5 DEF after, slot

(* The two buffers a learner starts with.                                  *)
LEMMA FirstRings ==
  ASSUME NEW gone
  PROVE  /\ EmptyBuffer \in Rings /\ EmptyBuffer.size = 0 /\ Linked(EmptyBuffer, gone)
         /\ FromDataset \in Rings /\ Linked(FromDataset, gone)
         /\ FromDataset.slots[Newest(FromDataset)].end # "none"
<1> USE BufferAssumption
<1>1. EmptyBuffer \in Rings /\ EmptyBuffer.size = 0
  BY DEF EmptyBuffer, Rings, Slots, Nothing, Ends
<1>2. Linked(EmptyBuffer, gone)
  BY <1>1 DEF Linked
<1>3. /\ FromDataset.size = OfflineFrames
      /\ FromDataset.position = (IF OfflineFrames = Capacity THEN 0 ELSE OfflineFrames)
  <2>1. (OfflineFrames - 1 + 1) % Capacity = (IF OfflineFrames = Capacity THEN 0 ELSE OfflineFrames)
    BY RingIndex
  <2> QED BY <2>1 DEF FromDataset
<1>4. FromDataset \in Rings
  <2>1. FromDataset.slots \in [0..(Capacity - 1) -> Slots]
    BY DEF FromDataset, Slots, Nothing, Ends
  <2>2. FromDataset = [slots |-> FromDataset.slots, position |-> FromDataset.position,
                       size |-> FromDataset.size]
    BY DEF FromDataset
  <2> QED BY <2>1, <2>2, <1>3 DEF Rings
<1>5. Newest(FromDataset) = OfflineFrames - 1
  BY <1>3, <1>4, RingPlaces
<1>6. FromDataset.slots[OfflineFrames - 1].end # "none"
  BY DEF FromDataset
<1>7. Linked(FromDataset, gone)
  <2> SUFFICES ASSUME NEW i \in 0..(OfflineFrames - 1), i # OfflineFrames - 1
               PROVE  SampledNext(FromDataset, i) = FromDataset.slots[i].next
    BY <1>3, <1>5 DEF Linked
  <2>1. SampledNext(FromDataset, i) = FromDataset.slots[i + 1].state
    BY RingIndex DEF SampledNext
  <2>2. FromDataset.slots[i].next = i + 2 /\ FromDataset.slots[i + 1].state = i + 2
    BY DEF FromDataset
  <2> QED BY <2>1, <2>2
<1> QED BY <1>1, <1>2, <1>4, <1>5, <1>6, <1>7

---------------------------------------------------------------------------
(* The invariant holds at first and is kept by every step.                 *)

LEMMA Appended ==
  ASSUME NEW S, NEW s \in Seq(S), NEW x \in S
  PROVE  LET t == Append(s, x)
         IN /\ t \in Seq(S) /\ t = s \o <<x>>
            /\ Len(s) \in Nat /\ DOMAIN s = 1..Len(s) /\ DOMAIN t = 1..(Len(s) + 1)
            /\ t[Len(s) + 1] = x
            /\ \A k \in DOMAIN s : k \in DOMAIN t /\ k # Len(s) + 1 /\ t[k] = s[k]
            /\ \A k \in DOMAIN t : k # Len(s) + 1 => k \in DOMAIN s
            /\ \A k \in DOMAIN t : \A j \in 1..(k - 1) : j \in DOMAIN s
OBVIOUS

LEMMA Unqueued ==
  ASSUME NEW S, NEW s \in Seq(S), s # <<>>
  PROVE  LET t == Tail(s)
         IN /\ t \in Seq(S) /\ Head(s) = s[1] /\ Head(s) \in S /\ 1 \in DOMAIN s
            /\ \A k \in DOMAIN t : k \in Nat /\ k + 1 \in DOMAIN s /\ t[k] = s[k + 1]
            /\ \A k \in DOMAIN t : \A j \in 1..(k - 1) : j \in DOMAIN t
            /\ \A k \in DOMAIN s : k \in Nat \ {0}
            /\ \A k \in DOMAIN s : k # 1 => k - 1 \in DOMAIN t /\ t[k - 1] = s[k]
OBVIOUS

(* A queue, a stream, the actor or a buffer that a step leaves alone.      *)
LEMMA Unmoved ==
  ASSUME LearnerInv
  PROVE  /\ UNCHANGED <<sending, received>> => InTransit(received, sending)'
         /\ UNCHANGED <<pushing, fetched>> => InTransit(fetched, pushing)'
         /\ UNCHANGED <<outQueue, sending, inQueue, taken, sent>> => EpisodeOrder'
         /\ UNCHANGED <<outQueue, sending, inQueue, taken, sent, stream, before>> => NoneLost'
         /\ UNCHANGED <<weights, paramQueue, pushing, pushQueue, version>> => PolicyOrder'
         /\ UNCHANGED <<episode, clock>> => Playing'
         /\ UNCHANGED <<batch, online, offline, missing, unassisted>> => Successors'
<1>1. UNCHANGED <<sending, received>> => InTransit(received, sending)'
  BY DEF LearnerInv, InTransit
<1>2. UNCHANGED <<pushing, fetched>> => InTransit(fetched, pushing)'
  BY DEF LearnerInv, InTransit
<1>3. UNCHANGED <<outQueue, sending, inQueue, taken, sent>> => EpisodeOrder'
  BY DEF LearnerInv, EpisodeOrder, InNumber
<1>4. UNCHANGED <<outQueue, sending, inQueue, taken, sent, stream, before>> => NoneLost'
  BY DEF LearnerInv, NoneLost, InNumber
<1>5. UNCHANGED <<weights, paramQueue, pushing, pushQueue, version>> => PolicyOrder'
  BY DEF LearnerInv, PolicyOrder, Fetched
<1>6. UNCHANGED <<episode, clock>> => Playing'
  BY DEF LearnerInv, Playing
<1>7. UNCHANGED <<batch, online, offline, missing, unassisted>> => Successors'
  BY DEF LearnerInv, Successors, LeadsOn
<1> QED BY <1>1, <1>2, <1>3, <1>4, <1>5, <1>6, <1>7

LEMMA LearnerStarts ==
  ASSUME LearnerInit
  PROVE  LearnerInv
<1> USE DEF LearnerInit
<1>1. LearnerTypes
  <2>1. offline \in Rings /\ online \in Rings
    BY FirstRings
  <2>2. clock \in Nat
    BY BufferAssumption
  <2>3. stream \in [Streams -> {"closed", "waiting", "open"}]
    OBVIOUS
  <2>4. pushQueue \in Seq(Nat)
    OBVIOUS
  <2>5. nan \in BOOLEAN
    BY Zenon
  <2>6. \A S : <<>> \in Seq(S)
    OBVIOUS
  <2>7. /\ weights \in Nat /\ version \in Nat /\ sent \in Nat /\ before \in Nat /\ taken \in Nat
        /\ acting \in {"acting", "finished", "raised", "down"}
    OBVIOUS
  <2>8. /\ episode = <<>> /\ batch = <<>> /\ outQueue = <<>> /\ sending = <<>> /\ received = <<>>
        /\ inQueue = <<>> /\ pushing = <<>> /\ fetched = <<>> /\ paramQueue = <<>>
    OBVIOUS
  <2> QED BY <2>1, <2>2, <2>3, <2>4, <2>5, <2>6, <2>7, <2>8, Zenon DEF LearnerTypes
<1>2. InTransit(received, sending) /\ InTransit(fetched, pushing)
  BY DEF InTransit
<1>3. EpisodeOrder /\ NoneLost
  BY DEF EpisodeOrder, NoneLost
<1>4. PolicyOrder
  BY DEF PolicyOrder, Fetched
<1>5. Playing
  BY DEF Playing, Unbroken
<1>6. Successors
  <2>1. Linked(online, missing) /\ LeadsOn(online, missing, batch)
    BY FirstRings DEF LeadsOn
  <2>2. Linked(offline, unassisted) /\ LeadsOn(offline, unassisted, batch)
    BY FirstRings DEF LeadsOn
  <2> QED BY <2>1, <2>2 DEF Successors
<1> QED BY <1>1, <1>2, <1>3, <1>4, <1>5, <1>6 DEF LearnerInv

LEMMA StartActorKeeps ==
  ASSUME LearnerInv, StartActor
  PROVE  LearnerInv'
<1> USE DEF StartActor, upVars, downVars, storeVars, pushVars
<1>1. LearnerTypes'
  <2>1. stream' \in [Streams -> {"closed", "waiting", "open"}]
    OBVIOUS
  <2>2. clock' \in Nat /\ before' \in Nat
    BY DEF LearnerInv, LearnerTypes
  <2>3. nan' \in BOOLEAN
    BY Zenon
  <2> QED BY <2>1, <2>2, <2>3 DEF LearnerInv, LearnerTypes
<1>2. InTransit(received, sending)' /\ InTransit(fetched, pushing)'
  BY Unmoved
<1>3. EpisodeOrder'
  BY DEF LearnerInv, EpisodeOrder, InNumber
<1>4. NoneLost'
  <2>1. sent \in Nat
    BY DEF LearnerInv, LearnerTypes
  <2> QED BY <2>1 DEF NoneLost
<1>5. PolicyOrder'
  <2>1. weights \in Nat /\ version \in Nat
    BY DEF LearnerInv, LearnerTypes
  <2>2. \A v \in (weights + 1)..version : v \in (0 + 1)..version
    BY <2>1
  <2>3. paramQueue' = <<>> /\ DOMAIN <<>> = {}
    OBVIOUS
  <2> QED BY <2>1, <2>2, <2>3 DEF LearnerInv, PolicyOrder
<1>6. Playing'
  BY DEF Playing, Unbroken
<1>7. Successors'
  BY Unmoved
<1> QED BY <1>1, <1>2, <1>3, <1>4, <1>5, <1>6, <1>7 DEF LearnerInv

LEMMA HandleKeeps ==
  ASSUME LearnerInv, NEW s \in Streams, Handle(s)
  PROVE  LearnerInv'
<1> USE DEF Handle, actorVars, upVars, downVars, storeVars, pushVars, lifeVars
<1>1. LearnerTypes'
  BY DEF LearnerInv, LearnerTypes
<1>2. NoneLost'
  <2>1. "transitions" \in Streams
    BY DEF Streams
  <2>2. stream'["transitions"] # "closed" => stream["transitions"] # "closed"
    BY <2>1 DEF LearnerInv, LearnerTypes
  <2> QED BY <2>2 DEF LearnerInv, NoneLost, InNumber
<1> QED BY <1>1, <1>2, Unmoved DEF LearnerInv

LEMMA CutStreamsKeeps ==
  ASSUME LearnerInv, CutStreams,
         acting' \in {"acting", "finished", "raised", "down"},
         UNCHANGED <<clock, nan, episode, weights, paramQueue, outQueue, inQueue, storeVars, pushVars,
                     lifeVars, sent, taken>>
  PROVE  LearnerInv'
<1> USE DEF CutStreams, storeVars, pushVars, lifeVars
<1>1. LearnerTypes'
  <2>1. stream' \in [Streams -> {"closed", "waiting", "open"}]
    OBVIOUS
  <2> QED BY <2>1 DEF LearnerInv, LearnerTypes
<1>2. InTransit(received, sending)' /\ InTransit(fetched, pushing)'
  BY DEF InTransit
<1>3. EpisodeOrder'
  BY DEF LearnerInv, EpisodeOrder, InNumber
<1>4. NoneLost'
  BY DEF NoneLost, Streams
<1>5. PolicyOrder'
  BY DEF LearnerInv, PolicyOrder, Fetched
<1> QED BY <1>1, <1>2, <1>3, <1>4, <1>5, Unmoved DEF LearnerInv

LEMMA NextEpisodeKeeps ==
  ASSUME LearnerInv, NextEpisode
  PROVE  LearnerInv'
<1> USE DEF NextEpisode, downVars, storeVars, pushVars, lifeVars
<1> DEFINE m == Head(outQueue)
           n == Len(m.steps)
<1>1. outQueue \in Seq(Episodes) /\ outQueue # <<>>
  BY DEF LearnerInv, LearnerTypes
<1>2. m \in Episodes /\ m = outQueue[1] /\ outQueue' \in Seq(Episodes)
  BY <1>1
<1>3. n \in Nat \ {0}
  BY <1>2 DEF Episodes, Complete
<1>4. /\ sending' = Chunks(m, n) /\ sending' \in Seq(ChunksOf(Episodes)) /\ sending' # <<>>
      /\ MessageOf(sending') = m /\ InTransit(<<>>, sending')
  BY <1>2, <1>3, ChunksFacts
<1>5. /\ Len(outQueue') = Len(outQueue) - 1
      /\ \A k \in DOMAIN outQueue' : k + 1 \in DOMAIN outQueue /\ outQueue'[k] = outQueue[k + 1]
      /\ \A k \in DOMAIN outQueue : k # 1 => k - 1 \in DOMAIN outQueue' /\ outQueue'[k - 1] = outQueue[k]
      /\ DOMAIN outQueue = 1..Len(outQueue) /\ DOMAIN outQueue' = 1..Len(outQueue')
  BY <1>1
<1> HIDE DEF m, n
<1>6. LearnerTypes'
  BY <1>2, <1>4 DEF LearnerInv, LearnerTypes
<1>7. InTransit(received, sending)'
  BY <1>4 DEF LearnerInv, InTransit
<1>8. EpisodeOrder'
  <2>1. /\ m.number = outQueue[1].number /\ m.number \in (taken + 1)..sent
        /\ \A k \in DOMAIN inQueue : InNumber(k) < m.number
    BY <1>1, <1>2, <1>5 DEF LearnerInv, EpisodeOrder
  <2>2. \A k \in DOMAIN outQueue' : m.number < outQueue'[k].number
    BY <2>1, <1>1, <1>5 DEF LearnerInv, EpisodeOrder
  <2>3. ASSUME NEW k \in DOMAIN outQueue'
        PROVE  /\ outQueue'[k].number \in (taken + 1)..sent
               /\ \A j \in 1..(k - 1) : outQueue'[j].number < outQueue'[k].number
               /\ \A j \in DOMAIN inQueue : InNumber(j) < outQueue'[k].number
    <3>1. k + 1 \in DOMAIN outQueue /\ outQueue'[k] = outQueue[k + 1] /\ k \in Nat
      BY <1>5
    <3>2. \A j \in 1..(k - 1) : j + 1 \in 1..(k + 1 - 1) /\ outQueue'[j] = outQueue[j + 1]
      BY <3>1, <1>5
    <3> QED BY <3>1, <3>2 DEF LearnerInv, EpisodeOrder
  <2> QED BY <2>1, <2>2, <2>3, <1>4 DEF LearnerInv, EpisodeOrder, InNumber
<1>9. NoneLost'
  <2> SUFFICES ASSUME stream["transitions"] # "closed", NEW e \in (before + 1)..sent
               PROVE  \/ e <= taken
                      \/ \E k \in DOMAIN inQueue : InNumber(k) = e
                      \/ m.number = e
                      \/ \E k \in DOMAIN outQueue' : outQueue'[k].number = e
    BY <1>4 DEF NoneLost, InNumber
  <2>1. \/ e <= taken
        \/ \E k \in DOMAIN inQueue : InNumber(k) = e
        \/ \E k \in DOMAIN outQueue : outQueue[k].number = e
    BY DEF LearnerInv, NoneLost
  <2> QED BY <2>1, <1>2, <1>5
<1> QED BY <1>6, <1>7, <1>8, <1>9, Unmoved DEF LearnerInv

LEMMA SendChunkKeeps ==
  ASSUME LearnerInv, SendChunk
  PROVE  LearnerInv'
<1> USE DEF SendChunk, actorVars, downVars, storeVars, pushVars, lifeVars
<1> DEFINE bytes == Append(received, Head(sending))
           m == MessageOf(sending)
<1>1. /\ received \in Seq(ChunksOf(Episodes)) /\ sending \in Seq(ChunksOf(Episodes)) /\ sending # <<>>
      /\ InTransit(received, sending) /\ inQueue \in Seq(Seq(ChunksOf(Episodes)))
  BY DEF LearnerInv, LearnerTypes
<1>2. /\ received' \in Seq(ChunksOf(Episodes)) /\ sending' \in Seq(ChunksOf(Episodes))
      /\ InTransit(received', sending')
      /\ sending' # <<>> => HandedOver(received, Head(sending)) = <<>> /\ MessageOf(sending') = m
      /\ sending' = <<>> =>
           /\ HandedOver(received, Head(sending)) = <<bytes>>
           /\ bytes \in Seq(ChunksOf(Episodes)) /\ Whole(bytes) /\ MessageOf(bytes) = m
  <2>1. received' = BufferAfter(received, Head(sending)) /\ sending' = Tail(sending)
    OBVIOUS
  <2>2. /\ BufferAfter(received, Head(sending)) \in Seq(ChunksOf(Episodes))
        /\ Tail(sending) \in Seq(ChunksOf(Episodes))
        /\ InTransit(BufferAfter(received, Head(sending)), Tail(sending))
    BY <1>1, NextChunk
  <2>3. Tail(sending) # <<>> => HandedOver(received, Head(sending)) = <<>> /\ MessageOf(Tail(sending)) = m
    BY <1>1, NextChunk
  <2>4. Tail(sending) = <<>> =>
           /\ HandedOver(received, Head(sending)) = <<bytes>>
           /\ bytes \in Seq(ChunksOf(Episodes)) /\ Whole(bytes) /\ MessageOf(bytes) = m
    <3> SUFFICES ASSUME Tail(sending) = <<>>
                 PROVE  /\ HandedOver(received, Head(sending)) = <<bytes>>
                        /\ bytes \in Seq(ChunksOf(Episodes)) /\ Whole(bytes) /\ MessageOf(bytes) = m
      OBVIOUS
    <3>1. HandedOver(received, Head(sending)) = <<bytes>>
      BY <1>1, NextChunk
    <3>2. bytes \in Seq(ChunksOf(Episodes))
      BY <1>1
    <3>3. Whole(bytes)
      BY <1>1, NextChunk
    <3>4. MessageOf(bytes) = m
      BY <1>1, NextChunk
    <3> QED BY <3>1, <3>2, <3>3, <3>4
  <2> QED BY <2>1, <2>2, <2>3, <2>4
<1>3. /\ m.number \in (taken + 1)..sent
      /\ \A k \in DOMAIN inQueue : InNumber(k) < m.number
      /\ \A k \in DOMAIN outQueue : m.number < outQueue[k].number
  BY <1>1 DEF LearnerInv, EpisodeOrder
<1> HIDE DEF bytes, m
<1>4. CASE sending' # <<>>
  <2>1. inQueue' = inQueue
    BY <1>1, <1>2, <1>4
  <2>2. LearnerTypes'
    BY <1>2, <2>1 DEF LearnerInv, LearnerTypes
  <2>3. EpisodeOrder'
    BY <1>2, <1>3, <1>4, <2>1 DEF LearnerInv, EpisodeOrder, InNumber
  <2>4. NoneLost'
    BY <1>1, <1>2, <1>4, <2>1 DEF LearnerInv, NoneLost, InNumber, m
  <2> QED BY <1>2, <2>2, <2>3, <2>4, Unmoved DEF LearnerInv
<1>5. CASE sending' = <<>>
  <2> PICK last \in Nat : last = Len(inQueue) + 1
    BY <1>1
  <2>1. /\ inQueue' \in Seq(Seq(ChunksOf(Episodes))) /\ last \in DOMAIN inQueue'
        /\ inQueue'[last] = bytes
        /\ \A k \in DOMAIN inQueue' : k # last => k \in DOMAIN inQueue /\ inQueue'[k] = inQueue[k]
        /\ \A k \in DOMAIN inQueue : k \in DOMAIN inQueue' /\ inQueue'[k] = inQueue[k]
        /\ \A k \in DOMAIN inQueue' : \A j \in 1..(k - 1) : j \in DOMAIN inQueue
    <3>1. bytes \in Seq(ChunksOf(Episodes)) /\ inQueue' = inQueue \o <<bytes>>
      BY <1>2, <1>5
    <3>2. inQueue' = Append(inQueue, bytes)
      BY <1>1, <3>1, Appended
    <3>3. last \in 1..last
      OBVIOUS
    <3>4. /\ Append(inQueue, bytes) \in Seq(Seq(ChunksOf(Episodes)))
          /\ Append(inQueue, bytes)[last] = bytes
          /\ \A k \in DOMAIN inQueue : k \in DOMAIN Append(inQueue, bytes) /\ Append(inQueue, bytes)[k] = inQueue[k]
      BY <1>1, <3>1, Appended
    <3>5. /\ DOMAIN Append(inQueue, bytes) = 1..last
      BY <1>1, <3>1, Appended
    <3>6. \A k \in DOMAIN Append(inQueue, bytes) : k # last => k \in DOMAIN inQueue /\ Append(inQueue, bytes)[k] = inQueue[k]
      BY <1>1, <3>1, Appended
    <3>7. \A k \in DOMAIN Append(inQueue, bytes) : \A j \in 1..(k - 1) : j \in DOMAIN inQueue
      BY <1>1, <3>1, Appended
    <3> QED BY <3>2, <3>3, <3>4, <3>5, <3>6, <3>7
  <2>2. LearnerTypes'
    BY <1>2, <2>1 DEF LearnerInv, LearnerTypes
  <2>3. /\ InNumber(last)' = m.number
        /\ \A k \in DOMAIN inQueue : InNumber(k)' = InNumber(k)
    BY <1>2, <1>5, <2>1 DEF InNumber
  <2>4. EpisodeOrder'
    <3>1. ASSUME NEW k \in DOMAIN inQueue'
          PROVE  /\ Whole(inQueue'[k]) /\ InNumber(k)' \in (taken + 1)..sent
                 /\ \A j \in 1..(k - 1) : InNumber(j)' < InNumber(k)'
      <4>1. CASE k = last
        <5>1. \A j \in 1..(k - 1) : j \in DOMAIN inQueue
          BY <2>1
        <5> HIDE DEF InNumber
        <5> QED BY <4>1, <5>1, <1>2, <1>3, <1>5, <2>1, <2>3
      <4>2. CASE k # last
        <5>1. k \in DOMAIN inQueue /\ \A j \in 1..(k - 1) : j \in DOMAIN inQueue
          BY <4>2, <2>1
        <5> QED BY <5>1, <2>1, <2>3 DEF LearnerInv, EpisodeOrder
      <4> QED BY <4>1, <4>2
    <3>2. ASSUME NEW k \in DOMAIN outQueue, NEW j \in DOMAIN inQueue'
          PROVE  InNumber(j)' < outQueue[k].number
      <4>1. CASE j = last
        BY <4>1, <1>3, <2>3
      <4>2. CASE j # last
        BY <4>2, <2>1, <2>3 DEF LearnerInv, EpisodeOrder
      <4> QED BY <4>1, <4>2
    <3>3. \A k \in DOMAIN outQueue :
            /\ outQueue[k].number \in (taken + 1)..sent
            /\ \A j \in 1..(k - 1) : outQueue[j].number < outQueue[k].number
      BY DEF LearnerInv, EpisodeOrder
    <3>4. taken <= sent
      BY DEF LearnerInv, EpisodeOrder
    <3> HIDE DEF InNumber
    <3> QED BY <3>1, <3>2, <3>3, <3>4, <1>5 DEF EpisodeOrder
  <2>5. NoneLost'
    <3> SUFFICES ASSUME stream["transitions"] # "closed", NEW e \in (before + 1)..sent
                 PROVE  \/ e <= taken
                        \/ \E k \in DOMAIN inQueue' : InNumber(k)' = e
                        \/ \E k \in DOMAIN outQueue : outQueue[k].number = e
      BY <1>5 DEF NoneLost
    <3>1. \/ e <= taken
          \/ \E k \in DOMAIN inQueue : InNumber(k) = e
          \/ m.number = e
          \/ \E k \in DOMAIN outQueue : outQueue[k].number = e
      BY DEF LearnerInv, NoneLost, m
    <3> QED BY <3>1, <2>1, <2>3
  <2> QED BY <1>2, <2>2, <2>4, <2>5, Unmoved DEF LearnerInv
<1> QED BY <1>4, <1>5

LEMMA EndTransitionsKeeps ==
  ASSUME LearnerInv, EndTransitions
  PROVE  LearnerInv'
<1> USE DEF EndTransitions, actorVars, upVars, downVars, storeVars, pushVars, lifeVars
<1>1. LearnerTypes'
  BY DEF LearnerInv, LearnerTypes
<1>2. NoneLost'
  <2>1. stream'["transitions"] = "closed"
    BY DEF LearnerInv, LearnerTypes, Streams
  <2> QED BY <2>1 DEF NoneLost
<1> QED BY <1>1, <1>2, Unmoved DEF LearnerInv

LEMMA ActorEndsKeeps ==
  ASSUME LearnerInv, ActorEnds
  PROVE  LearnerInv'
<1> USE DEF ActorEnds, upVars, downVars, storeVars, pushVars, lifeVars
<1>1. LearnerTypes'
  BY DEF LearnerInv, LearnerTypes
<1> QED BY <1>1, Unmoved DEF LearnerInv

LEMMA TakeEpisodeKeeps ==
  ASSUME LearnerInv, TakeEpisode
  PROVE  LearnerInv'
<1> USE DEF TakeEpisode, actorVars, upVars, downVars, pushVars, lifeVars
<1> DEFINE bytes == Head(inQueue)
           m == MessageOf(bytes)
<1>1. inQueue \in Seq(Seq(ChunksOf(Episodes))) /\ inQueue # <<>>
  BY DEF LearnerInv, LearnerTypes
<1>2. bytes \in Seq(ChunksOf(Episodes)) /\ bytes = inQueue[1] /\ 1 \in DOMAIN inQueue
  BY <1>1
<1>3. bytes[1] \in ChunksOf(Episodes)
  <2>1. bytes # <<>>
    BY DEF Whole
  <2> QED BY <2>1, <1>2
<1>4. m \in Episodes /\ taken' = m.number /\ batch' = m.steps
  BY <1>3 DEF MessageOf, ChunksOf
<1>5. m.number = InNumber(1) /\ m.number \in Nat /\ m.steps \in Seq(Transitions) /\ Complete(m.steps)
  BY <1>2, <1>4 DEF InNumber, Episodes
<1>6. m.number \in (taken + 1)..sent /\ taken \in Nat /\ sent \in Nat
  BY <1>2, <1>5 DEF LearnerInv, LearnerTypes, EpisodeOrder
<1>7. /\ inQueue' \in Seq(Seq(ChunksOf(Episodes)))
      /\ \A k \in DOMAIN inQueue' : k \in Nat /\ k + 1 \in DOMAIN inQueue /\ inQueue'[k] = inQueue[k + 1]
      /\ \A k \in DOMAIN inQueue : k # 1 => k - 1 \in DOMAIN inQueue' /\ inQueue'[k - 1] = inQueue[k]
      /\ \A k \in DOMAIN inQueue' : \A j \in 1..(k - 1) : j \in DOMAIN inQueue'
      /\ \A k \in DOMAIN inQueue : k \in Nat \ {0}
  BY <1>1
<1> HIDE DEF bytes, m
<1>8. \A k \in DOMAIN inQueue' : InNumber(k)' = InNumber(k + 1)
  BY <1>7 DEF InNumber
<1>9. LearnerTypes'
  BY <1>4, <1>5, <1>7 DEF LearnerInv, LearnerTypes
<1>10. EpisodeOrder'
  <2>1. ASSUME NEW k \in DOMAIN inQueue'
        PROVE  /\ Whole(inQueue'[k]) /\ InNumber(k)' \in (m.number + 1)..sent
               /\ \A j \in 1..(k - 1) : InNumber(j)' < InNumber(k)'
               /\ sending # <<>> => InNumber(k)' < MessageOf(sending).number
    <3>1. /\ k + 1 \in DOMAIN inQueue /\ 1 \in 1..(k + 1 - 1)
          /\ \A j \in 1..(k - 1) : j + 1 \in 1..(k + 1 - 1)
      BY <1>7
    <3>2. /\ Whole(inQueue[k + 1]) /\ InNumber(k + 1) \in (taken + 1)..sent
          /\ \A j \in 1..(k + 1 - 1) : InNumber(j) < InNumber(k + 1)
          /\ sending # <<>> => InNumber(k + 1) < MessageOf(sending).number
      BY <3>1 DEF LearnerInv, EpisodeOrder
    <3>3. InNumber(k + 1) \in (m.number + 1)..sent
      BY <3>1, <3>2, <1>5, <1>6
    <3> QED BY <3>1, <3>2, <3>3, <1>7, <1>8
  <2>2. sending # <<>> => MessageOf(sending).number \in (m.number + 1)..sent
    BY <1>2, <1>5, <1>6 DEF LearnerInv, EpisodeOrder
  <2>3. ASSUME NEW k \in DOMAIN outQueue
        PROVE  /\ outQueue[k].number \in (m.number + 1)..sent
               /\ \A j \in 1..(k - 1) : outQueue[j].number < outQueue[k].number
               /\ \A j \in DOMAIN inQueue' : InNumber(j)' < outQueue[k].number
               /\ sending # <<>> => MessageOf(sending).number < outQueue[k].number
    <3>1. /\ outQueue[k].number \in (taken + 1)..sent
          /\ \A j \in 1..(k - 1) : outQueue[j].number < outQueue[k].number
          /\ \A j \in DOMAIN inQueue : InNumber(j) < outQueue[k].number
          /\ sending # <<>> => MessageOf(sending).number < outQueue[k].number
      BY DEF LearnerInv, EpisodeOrder
    <3> QED BY <3>1, <1>2, <1>5, <1>6, <1>7, <1>8
  <2> HIDE DEF InNumber
  <2> QED BY <2>1, <2>2, <2>3, <1>4, <1>6 DEF EpisodeOrder
<1>11. NoneLost'
  <2> SUFFICES ASSUME stream["transitions"] # "closed", NEW e \in (before + 1)..sent
               PROVE  \/ e <= m.number
                      \/ \E k \in DOMAIN inQueue' : InNumber(k)' = e
                      \/ sending # <<>> /\ MessageOf(sending).number = e
                      \/ \E k \in DOMAIN outQueue : outQueue[k].number = e
    BY <1>4 DEF NoneLost
  <2>1. \/ e <= taken
        \/ \E k \in DOMAIN inQueue : InNumber(k) = e
        \/ sending # <<>> /\ MessageOf(sending).number = e
        \/ \E k \in DOMAIN outQueue : outQueue[k].number = e
    BY DEF LearnerInv, NoneLost
  <2>2. e \in Int
    BY DEF LearnerInv, LearnerTypes
  <2>3. CASE e <= taken
    BY <2>2, <2>3, <1>6
  <2>4. CASE \E k \in DOMAIN inQueue : InNumber(k) = e
    <3>1. PICK k \in DOMAIN inQueue : InNumber(k) = e
      BY <2>4
    <3>2. CASE k = 1
      BY <3>1, <3>2, <1>5, <2>2
    <3>3. CASE k # 1
      <4>1. k - 1 \in DOMAIN inQueue' /\ InNumber(k - 1)' = InNumber(k)
        BY <3>3, <1>7 DEF InNumber
      <4> QED BY <4>1, <3>1
    <3> QED BY <3>2, <3>3
  <2> QED BY <2>1, <2>3, <2>4
<1>12. Successors'
  <2>1. /\ batch = <<>> /\ Linked(online, missing) /\ LeadsOn(online, missing, batch)
        /\ Linked(offline, unassisted) /\ LeadsOn(offline, unassisted, batch)
    BY DEF LearnerInv, Successors
  <2>2. LeadsOn(online', missing', batch') /\ LeadsOn(offline', unassisted', batch')
    BY <2>1 DEF LeadsOn
  <2> QED BY <2>1, <2>2, <1>4, <1>5 DEF Successors
<1> QED BY <1>9, <1>10, <1>11, <1>12, Unmoved DEF LearnerInv

LEMMA ActStepKeeps ==
  ASSUME LearnerInv, ActStep
  PROVE  LearnerInv'
<1> USE DEF upVars, downVars, storeVars, pushVars, lifeVars
<1>1. PICK end \in Ends, nan2 \in BOOLEAN, help \in BOOLEAN :
        LET transition == [state |-> clock, next |-> clock + 1, end |-> end,
                           nan |-> nan \/ nan2, help |-> help]
            steps == Append(episode, transition)
        IN IF end = "none"
           THEN /\ episode' = steps /\ clock' = clock + 1 /\ nan' = nan2
                /\ UNCHANGED <<weights, paramQueue, outQueue, sent>>
           ELSE /\ IF paramQueue = <<>>
                   THEN UNCHANGED weights
                   ELSE weights' = MessageOf(paramQueue[Len(paramQueue)])
                /\ paramQueue' = <<>>
                /\ outQueue' = Append(outQueue, [number |-> sent + 1, steps |-> steps])
                /\ sent' = sent + 1
                /\ episode' = <<>> /\ clock' = clock + 2 /\ nan' = FALSE
  BY DEF ActStep
<1>2. UNCHANGED <<acting, stream, stale, upVars, downVars, inQueue, storeVars, pushVars, lifeVars, taken>>
  BY DEF ActStep
<1>3. /\ episode \in Seq(Transitions) /\ clock \in Nat /\ sent \in Nat /\ outQueue \in Seq(Episodes)
      /\ taken \in Nat /\ taken <= sent
  BY DEF LearnerInv, LearnerTypes, EpisodeOrder
<1> DEFINE transition == [state |-> clock, next |-> clock + 1, end |-> end,
                          nan |-> nan \/ nan2, help |-> help]
           steps == Append(episode, transition)
<1>4. transition \in Transitions
  <2>1. nan \/ nan2 \in BOOLEAN
    BY DEF LearnerInv, LearnerTypes
  <2>2. clock \in Nat /\ clock + 1 \in Nat
    BY <1>3
  <2> QED BY <2>1, <2>2 DEF Transitions
<1>5. transition.state = clock /\ transition.next = clock + 1 /\ transition.end = end
  OBVIOUS
<1> HIDE DEF transition
<1>6. /\ steps \in Seq(Transitions) /\ Len(steps) = Len(episode) + 1 /\ Len(episode) \in Nat
      /\ DOMAIN episode = 1..Len(episode) /\ DOMAIN steps = 1..(Len(episode) + 1)
      /\ steps[Len(steps)] = transition /\ \A k \in 1..Len(episode) : steps[k] = episode[k]
  BY <1>3, <1>4
<1> HIDE DEF steps
<1>7. Unbroken(steps)
  <2> SUFFICES ASSUME NEW k \in 1..(Len(steps) - 1)
               PROVE  steps[k].end = "none" /\ steps[k + 1].state = steps[k].next
    BY DEF Unbroken
  <2>1. k \in DOMAIN episode /\ steps[k] = episode[k]
    BY <1>6
  <2>2. steps[k].end = "none"
    BY <2>1 DEF LearnerInv, Playing
  <2>3. CASE k = Len(episode)
    <3>1. steps[k + 1] = transition /\ episode # <<>>
      BY <2>3, <1>6
    <3> QED BY <3>1, <2>1, <2>2, <2>3, <1>5 DEF LearnerInv, Playing
  <2>4. CASE k # Len(episode)
    <3>1. k \in 1..(Len(episode) - 1) /\ k + 1 \in 1..Len(episode)
      <4>1. k \in 1..Len(episode) /\ Len(episode) \in Nat
        BY <1>6
      <4> QED BY <4>1, <2>4
    <3> QED BY <3>1, <2>1, <2>2, <1>6 DEF LearnerInv, Playing, Unbroken
  <2> QED BY <2>3, <2>4
<1>8. CASE end = "none"
  <2>1. /\ episode' = steps /\ clock' = clock + 1 /\ nan' = nan2
        /\ UNCHANGED <<weights, paramQueue, outQueue, sent>>
    BY <1>1, <1>8 DEF steps, transition
  <2>2. LearnerTypes'
    <3>1. clock' \in Nat
      BY <2>1, <1>3
    <3>2. nan' \in BOOLEAN
      BY <2>1
    <3> QED BY <3>1, <3>2, <2>1, <1>2, <1>6 DEF LearnerInv, LearnerTypes
  <2>3. Playing'
    <3>1. \A k \in DOMAIN steps : steps[k].end = "none"
      <4> SUFFICES ASSUME NEW k \in DOMAIN steps PROVE steps[k].end = "none"
        OBVIOUS
      <4>1. CASE k = Len(steps)
        BY <4>1, <1>5, <1>6, <1>8
      <4>2. CASE k # Len(steps)
        <5>1. k \in DOMAIN episode /\ steps[k] = episode[k]
          BY <4>2, <1>6
        <5> QED BY <5>1 DEF LearnerInv, Playing
      <4> QED BY <4>1, <4>2
    <3> QED BY <3>1, <2>1, <1>5, <1>6, <1>7 DEF Playing
  <2> QED BY <2>1, <2>2, <2>3, <1>2, Unmoved DEF LearnerInv
<1>9. CASE end # "none"
  <2> DEFINE m == [number |-> sent + 1, steps |-> steps]
  <2>1. /\ IF paramQueue = <<>> THEN UNCHANGED weights
           ELSE weights' = MessageOf(paramQueue[Len(paramQueue)])
        /\ paramQueue' = <<>> /\ outQueue' = Append(outQueue, m) /\ sent' = sent + 1
        /\ episode' = <<>> /\ clock' = clock + 2 /\ nan' = FALSE
    BY <1>1, <1>9 DEF steps, transition
  <2>2. m \in Episodes /\ m.number = sent + 1
    <3>1. Complete(steps)
      BY <1>5, <1>6, <1>7, <1>9 DEF Complete
    <3> QED BY <3>1, <1>3, <1>6 DEF Episodes
  <2> HIDE DEF m
  <2> PICK last \in Nat : last = Len(outQueue) + 1
    BY <1>3
  <2>3. /\ outQueue' \in Seq(Episodes) /\ last \in DOMAIN outQueue' /\ outQueue'[last] = m
        /\ \A k \in DOMAIN outQueue : k \in DOMAIN outQueue' /\ outQueue'[k] = outQueue[k]
    BY <1>3, <2>1, <2>2
  <2>4. \A k \in DOMAIN outQueue' : k # last => k \in DOMAIN outQueue /\ outQueue'[k] = outQueue[k]
    BY <1>3, <2>1, <2>2
  <2>5. \A k \in DOMAIN outQueue' : \A j \in 1..(k - 1) : j \in DOMAIN outQueue
    BY <1>3, <2>1, <2>2
  <2>6. /\ weights' \in Nat /\ weights' <= version /\ weights <= weights' /\ version \in Nat
        /\ pushing # <<>> => MessageOf(pushing) \in (weights' + 1)..version
        /\ \A k \in DOMAIN pushQueue : pushQueue[k] \in (weights' + 1)..version
    <3>1. weights \in Nat /\ version \in Nat /\ paramQueue \in Seq(Seq(ChunksOf(Nat)))
      BY DEF LearnerInv, LearnerTypes
    <3>2. CASE paramQueue = <<>>
      BY <3>1, <3>2, <2>1 DEF LearnerInv, PolicyOrder
    <3>3. CASE paramQueue # <<>>
      <4> PICK k \in DOMAIN paramQueue : k = Len(paramQueue)
        BY <3>1, <3>3
      <4>1. weights' = Fetched(k)
        BY <2>1, <3>3 DEF Fetched
      <4>2. Fetched(k) \in (weights + 1)..version
        BY DEF LearnerInv, PolicyOrder
      <4>3. pushing # <<>> => MessageOf(pushing) \in (weights + 1)..version /\ Fetched(k) < MessageOf(pushing)
        BY DEF LearnerInv, PolicyOrder
      <4>4. \A i \in DOMAIN pushQueue : pushQueue[i] \in (weights + 1)..version /\ Fetched(k) < pushQueue[i]
        BY DEF LearnerInv, PolicyOrder
      <4> HIDE DEF Fetched
      <4> QED BY <3>1, <4>1, <4>2, <4>3, <4>4
    <3> QED BY <3>2, <3>3
  <2>7. LearnerTypes'
    <3>1. clock' \in Nat /\ sent' \in Nat
      BY <2>1, <1>3
    <3>2. nan' \in BOOLEAN
      BY <2>1, Zenon
    <3>3. episode' \in Seq(Transitions) /\ paramQueue' \in Seq(Seq(ChunksOf(Nat)))
      BY <2>1
    <3> QED BY <3>1, <3>2, <3>3, <2>3, <2>6, <1>2 DEF LearnerInv, LearnerTypes
  <2>8. EpisodeOrder'
    <3>1. \A k \in DOMAIN inQueue : InNumber(k)' = InNumber(k)
      BY <1>2 DEF InNumber
    <3>2. \A e \in (taken + 1)..sent : e \in (taken + 1)..(sent + 1) /\ e < sent + 1
      BY <1>3
    <3>3. sent + 1 \in (taken + 1)..(sent + 1) /\ taken <= sent + 1
      BY <1>3
    <3>4. ASSUME NEW k \in DOMAIN inQueue
          PROVE  /\ Whole(inQueue[k]) /\ InNumber(k) \in (taken + 1)..sent
                 /\ \A j \in 1..(k - 1) : InNumber(j) < InNumber(k)
                 /\ sending # <<>> => InNumber(k) < MessageOf(sending).number
      BY DEF LearnerInv, EpisodeOrder
    <3>5. sending # <<>> => MessageOf(sending).number \in (taken + 1)..sent
      BY DEF LearnerInv, EpisodeOrder
    <3>6. ASSUME NEW k \in DOMAIN outQueue'
          PROVE  /\ outQueue'[k].number \in (taken + 1)..(sent + 1)
                 /\ \A j \in 1..(k - 1) : outQueue'[j].number < outQueue'[k].number
                 /\ \A j \in DOMAIN inQueue : InNumber(j) < outQueue'[k].number
                 /\ sending # <<>> => MessageOf(sending).number < outQueue'[k].number
      <4>1. \A j \in DOMAIN outQueue : outQueue[j].number \in (taken + 1)..sent
        BY DEF LearnerInv, EpisodeOrder
      <4> HIDE DEF InNumber
      <4>2. CASE k = last
        <5>1. outQueue'[k].number = sent + 1
          BY <4>2, <2>2, <2>3
        <5>2. \A j \in 1..(k - 1) : outQueue'[j].number < sent + 1
          BY <2>3, <2>5, <3>2, <4>1
        <5>3. \A j \in DOMAIN inQueue : InNumber(j) < sent + 1
          BY <3>2, <3>4
        <5> QED BY <5>1, <5>2, <5>3, <3>2, <3>3, <3>5
      <4>3. CASE k # last
        <5>1. k \in DOMAIN outQueue /\ outQueue'[k] = outQueue[k]
          BY <4>3, <2>4
        <5>2. \A j \in 1..(k - 1) : outQueue'[j] = outQueue[j]
          BY <2>3, <2>5
        <5>3. /\ \A j \in 1..(k - 1) : outQueue[j].number < outQueue[k].number
              /\ \A j \in DOMAIN inQueue : InNumber(j) < outQueue[k].number
              /\ sending # <<>> => MessageOf(sending).number < outQueue[k].number
          BY <5>1 DEF LearnerInv, EpisodeOrder
        <5> QED BY <5>1, <5>2, <5>3, <4>1, <3>2
      <4> QED BY <4>2, <4>3
    <3>7. UNCHANGED <<inQueue, sending, taken>> /\ sent' = sent + 1
      BY <1>2, <2>1
    <3>8. \A k \in DOMAIN inQueue' :
            /\ Whole(inQueue'[k]) /\ InNumber(k)' \in (taken' + 1)..sent'
            /\ \A j \in 1..(k - 1) : InNumber(j)' < InNumber(k)'
      <4>1. \A j : InNumber(j)' = InNumber(j)
        BY <3>7 DEF InNumber
      <4> HIDE DEF InNumber
      <4> QED BY <4>1, <3>2, <3>4, <3>7
    <3>9. sending' # <<>> =>
            /\ MessageOf(sending').number \in (taken' + 1)..sent'
            /\ \A k \in DOMAIN inQueue' : InNumber(k)' < MessageOf(sending').number
      BY <3>1, <3>2, <3>4, <3>5, <3>7
    <3>10. \A k \in DOMAIN outQueue' : \A j \in DOMAIN inQueue' : InNumber(j)' < outQueue'[k].number
      BY <3>1, <3>6, <3>7
    <3> HIDE DEF InNumber
    <3> QED BY <3>3, <3>6, <3>7, <3>8, <3>9, <3>10 DEF EpisodeOrder
  <2>9. NoneLost'
    <3>1. UNCHANGED <<stream, before, taken, inQueue, sending>>
      BY <1>2
    <3> SUFFICES ASSUME stream["transitions"] # "closed", NEW e \in (before + 1)..(sent + 1)
                 PROVE  \/ e <= taken
                        \/ \E k \in DOMAIN inQueue : InNumber(k) = e
                        \/ sending # <<>> /\ MessageOf(sending).number = e
                        \/ \E k \in DOMAIN outQueue' : outQueue'[k].number = e
      BY <2>1, <3>1 DEF NoneLost, InNumber
    <3>2. before \in Nat
      BY DEF LearnerInv, LearnerTypes
    <3>3. CASE e = sent + 1
      BY <3>3, <2>2, <2>3
    <3>4. CASE e # sent + 1
      <4>1. e \in (before + 1)..sent
        BY <3>2, <3>4, <1>3
      <4> QED BY <4>1, <2>3 DEF LearnerInv, NoneLost
    <3> QED BY <3>3, <3>4
  <2>10. PolicyOrder'
    <3>1. UNCHANGED <<version, pushing, pushQueue>> /\ paramQueue' = <<>> /\ DOMAIN <<>> = {}
      BY <1>2, <2>1
    <3> QED BY <3>1, <2>6 DEF LearnerInv, PolicyOrder
  <2>11. Playing'
    BY <2>1 DEF Playing, Unbroken
  <2> QED BY <2>7, <2>8, <2>9, <2>10, <2>11, <1>2, Unmoved DEF LearnerInv
<1> QED BY <1>8, <1>9

LEMMA PushParametersKeeps ==
  ASSUME LearnerInv, PushParameters
  PROVE  LearnerInv'
<1> USE DEF PushParameters, actorVars, upVars, storeVars, lifeVars
<1> DEFINE v == pushQueue[Len(pushQueue)]
<1>1. pushQueue \in Seq(Nat) /\ pushQueue # <<>> /\ PolicyParts \in Nat \ {0}
  BY LearnerAssumption DEF LearnerInv, LearnerTypes
<1>2. v \in Nat /\ Len(pushQueue) \in DOMAIN pushQueue
  BY <1>1
<1>3. /\ v \in (weights + 1)..version
      /\ \A k \in DOMAIN paramQueue : Fetched(k) < v
  BY <1>2 DEF LearnerInv, PolicyOrder
<1> HIDE DEF v
<1>4. /\ pushing' = Chunks(v, PolicyParts) /\ pushing' \in Seq(ChunksOf(Nat)) /\ pushing' # <<>>
      /\ MessageOf(pushing') = v /\ InTransit(<<>>, pushing')
  <2>1. pushing' = Chunks(v, PolicyParts)
    BY DEF v
  <2>2. /\ Chunks(v, PolicyParts) \in Seq(ChunksOf(Nat)) /\ Chunks(v, PolicyParts) # <<>>
        /\ MessageOf(Chunks(v, PolicyParts)) = v /\ InTransit(<<>>, Chunks(v, PolicyParts))
    BY <1>1, <1>2, ChunksFacts
  <2> HIDE DEF PushParameters
  <2> QED BY <2>1, <2>2
<1>5. LearnerTypes'
  <2>1. pushQueue' \in Seq(Nat)
    OBVIOUS
  <2> QED BY <2>1, <1>4 DEF LearnerInv, LearnerTypes
<1>6. InTransit(fetched, pushing)'
  BY <1>4 DEF LearnerInv, InTransit
<1>7. PolicyOrder'
  <2>1. pushQueue' = <<>> /\ DOMAIN <<>> = {}
    OBVIOUS
  <2>2. \A k : Fetched(k)' = Fetched(k)
    BY DEF Fetched
  <2>3. \A k \in DOMAIN paramQueue :
          /\ Whole(paramQueue[k]) /\ Fetched(k) \in (weights + 1)..version
          /\ \A j \in 1..(k - 1) : Fetched(j) < Fetched(k)
    BY DEF LearnerInv, PolicyOrder
  <2>4. weights <= version
    BY DEF LearnerInv, PolicyOrder
  <2> HIDE DEF Fetched
  <2> QED BY <2>1, <2>2, <2>3, <2>4, <1>3, <1>4 DEF PolicyOrder
<1> QED BY <1>5, <1>6, <1>7, Unmoved DEF LearnerInv

LEMMA StalePushKeeps ==
  ASSUME LearnerInv, StalePush
  PROVE  LearnerInv'
<1> USE DEF StalePush, actorVars, upVars, downVars, storeVars, lifeVars
<1>1. LearnerTypes'
  <2>1. pushQueue' \in Seq(Nat)
    OBVIOUS
  <2> QED BY <2>1 DEF LearnerInv, LearnerTypes
<1>2. PolicyOrder'
  BY DEF LearnerInv, PolicyOrder, Fetched
<1> QED BY <1>1, <1>2, Unmoved DEF LearnerInv

LEMMA FetchChunkKeeps ==
  ASSUME LearnerInv, FetchChunk
  PROVE  LearnerInv'
<1> USE DEF upVars, storeVars, pushVars, lifeVars
<1>1. /\ fetched \in Seq(ChunksOf(Nat)) /\ pushing \in Seq(ChunksOf(Nat)) /\ pushing # <<>>
      /\ InTransit(fetched, pushing) /\ paramQueue \in Seq(Seq(ChunksOf(Nat)))
  BY DEF LearnerInv, LearnerTypes, FetchChunk
<1>2. UNCHANGED <<acting, clock, nan, episode, weights, outQueue, stale, sending, received, inQueue, batch,
                  online, offline, missing, unassisted, version, pushQueue, lives, before, sent, taken>>
  BY DEF FetchChunk
<1>3. CASE acting = "raised"
  <2>1. /\ stream' = [stream EXCEPT !["parameters"] = "closed"]
        /\ pushing' = <<>> /\ fetched' = <<>> /\ paramQueue' = paramQueue
    BY <1>3 DEF FetchChunk
  <2>2. LearnerTypes'
    <3>1. stream' \in [Streams -> {"closed", "waiting", "open"}]
      BY <2>1 DEF LearnerInv, LearnerTypes
    <3> QED BY <3>1, <2>1, <1>2 DEF LearnerInv, LearnerTypes
  <2>3. InTransit(fetched, pushing)'
    BY <2>1 DEF InTransit
  <2>4. NoneLost'
    <3>1. stream'["transitions"] # "closed" => stream["transitions"] # "closed"
      BY <2>1 DEF LearnerInv, LearnerTypes, Streams
    <3> QED BY <3>1, <1>2 DEF LearnerInv, NoneLost, InNumber
  <2>5. PolicyOrder'
    BY <2>1, <1>2 DEF LearnerInv, PolicyOrder, Fetched
  <2> QED BY <1>2, <2>2, <2>3, <2>4, <2>5, Unmoved DEF LearnerInv
<1>4. CASE acting # "raised"
  <2> DEFINE bytes == Append(fetched, Head(pushing))
             m == MessageOf(pushing)
  <2>1. /\ fetched' = BufferAfter(fetched, Head(pushing))
        /\ paramQueue' = paramQueue \o HandedOver(fetched, Head(pushing))
        /\ pushing' = Tail(pushing) /\ stream' = stream
    BY <1>4 DEF FetchChunk
  <2>2. /\ fetched' \in Seq(ChunksOf(Nat)) /\ pushing' \in Seq(ChunksOf(Nat))
        /\ InTransit(fetched', pushing')
    BY <1>1, <2>1, NextChunk
  <2>3. pushing' # <<>> => HandedOver(fetched, Head(pushing)) = <<>> /\ MessageOf(pushing') = m
    BY <1>1, <2>1, NextChunk
  <2>4. ASSUME pushing' = <<>>
        PROVE  /\ HandedOver(fetched, Head(pushing)) = <<bytes>>
               /\ bytes \in Seq(ChunksOf(Nat)) /\ Whole(bytes) /\ MessageOf(bytes) = m
    <3>1. Tail(pushing) = <<>>
      BY <2>1, <2>4
    <3>2. HandedOver(fetched, Head(pushing)) = <<bytes>>
      BY <3>1, <1>1, NextChunk
    <3>3. bytes \in Seq(ChunksOf(Nat))
      BY <1>1
    <3>4. Whole(bytes)
      BY <3>1, <1>1, NextChunk
    <3>5. MessageOf(bytes) = m
      BY <3>1, <1>1, NextChunk
    <3> QED BY <3>2, <3>3, <3>4, <3>5
  <2>5. /\ m \in (weights + 1)..version
        /\ \A k \in DOMAIN paramQueue : Fetched(k) < m
        /\ \A k \in DOMAIN pushQueue : m < pushQueue[k]
    BY <1>1 DEF LearnerInv, PolicyOrder
  <2> HIDE DEF bytes, m
  <2>6. CASE pushing' # <<>>
    <3>1. paramQueue' = paramQueue
      BY <1>1, <2>1, <2>3, <2>6
    <3>2. LearnerTypes'
      BY <2>1, <2>2, <3>1, <1>2 DEF LearnerInv, LearnerTypes
    <3>3. PolicyOrder'
      <4>1. \A k : Fetched(k)' = Fetched(k)
        BY <3>1 DEF Fetched
      <4>2. MessageOf(pushing') = m
        BY <2>3, <2>6
      <4>3. \A k \in DOMAIN paramQueue :
              /\ Whole(paramQueue[k]) /\ Fetched(k) \in (weights + 1)..version
              /\ \A j \in 1..(k - 1) : Fetched(j) < Fetched(k)
        BY DEF LearnerInv, PolicyOrder
      <4>4. \A k \in DOMAIN pushQueue :
              /\ pushQueue[k] \in (weights + 1)..version
              /\ \A j \in 1..(k - 1) : pushQueue[j] < pushQueue[k]
              /\ \A j \in DOMAIN paramQueue : Fetched(j) < pushQueue[k]
        BY DEF LearnerInv, PolicyOrder
      <4>5. weights <= version
        BY DEF LearnerInv, PolicyOrder
      <4>6. UNCHANGED <<weights, version, pushQueue, paramQueue>>
        BY <1>2, <3>1
      <4> HIDE DEF Fetched
      <4> QED BY <4>1, <4>2, <4>3, <4>4, <4>5, <4>6, <2>5 DEF PolicyOrder
    <3> QED BY <1>2, <2>1, <2>2, <3>2, <3>3, Unmoved DEF LearnerInv
  <2>7. CASE pushing' = <<>>
    <3> PICK last \in Nat : last = Len(paramQueue) + 1
      BY <1>1
    <3>1. bytes \in Seq(ChunksOf(Nat)) /\ paramQueue' = Append(paramQueue, bytes)
      BY <1>1, <2>1, <2>4, <2>7, Appended
    <3>2. /\ paramQueue' \in Seq(Seq(ChunksOf(Nat))) /\ last \in DOMAIN paramQueue'
          /\ paramQueue'[last] = bytes
      BY <1>1, <3>1, Appended
    <3>3. \A k \in DOMAIN paramQueue' : k # last => k \in DOMAIN paramQueue /\ paramQueue'[k] = paramQueue[k]
      BY <1>1, <3>1, Appended
    <3>4. \A k \in DOMAIN paramQueue' : \A j \in 1..(k - 1) : j \in DOMAIN paramQueue
      BY <1>1, <3>1, Appended
    <3>5. \A k \in DOMAIN paramQueue : paramQueue'[k] = paramQueue[k]
      BY <1>1, <3>1, Appended
    <3>6. LearnerTypes'
      BY <2>1, <2>2, <3>2, <1>2 DEF LearnerInv, LearnerTypes
    <3>7. Fetched(last)' = m /\ \A k \in DOMAIN paramQueue : Fetched(k)' = Fetched(k)
      BY <2>4, <2>7, <3>2, <3>5 DEF Fetched
    <3>8. PolicyOrder'
      <4>1. ASSUME NEW k \in DOMAIN paramQueue'
            PROVE  /\ Whole(paramQueue'[k]) /\ Fetched(k)' \in (weights + 1)..version
                   /\ \A j \in 1..(k - 1) : Fetched(j)' < Fetched(k)'
                   /\ \A j \in DOMAIN pushQueue : Fetched(k)' < pushQueue[j]
        <5>1. CASE k = last
          <6>1. Whole(paramQueue'[k]) /\ Fetched(k)' = m
            BY <5>1, <2>4, <2>7, <3>2, <3>7
          <6>2. \A j \in 1..(k - 1) : Fetched(j)' < m
            BY <3>4, <3>7, <2>5
          <6> HIDE DEF Fetched
          <6> QED BY <6>1, <6>2, <2>5
        <5>2. CASE k # last
          <6>1. k \in DOMAIN paramQueue /\ paramQueue'[k] = paramQueue[k] /\ Fetched(k)' = Fetched(k)
            BY <5>2, <3>3, <3>7
          <6>2. \A j \in 1..(k - 1) : Fetched(j)' = Fetched(j)
            BY <3>4, <3>7
          <6>3. /\ Whole(paramQueue[k]) /\ Fetched(k) \in (weights + 1)..version
                /\ \A j \in 1..(k - 1) : Fetched(j) < Fetched(k)
                /\ \A j \in DOMAIN pushQueue : Fetched(k) < pushQueue[j]
            BY <6>1 DEF LearnerInv, PolicyOrder
          <6> HIDE DEF Fetched
          <6> QED BY <6>1, <6>2, <6>3
        <5> QED BY <5>1, <5>2
      <4>2. \A k \in DOMAIN pushQueue :
              /\ pushQueue[k] \in (weights + 1)..version
              /\ \A j \in 1..(k - 1) : pushQueue[j] < pushQueue[k]
        BY DEF LearnerInv, PolicyOrder
      <4>3. weights <= version
        BY DEF LearnerInv, PolicyOrder
      <4>4. UNCHANGED <<weights, version, pushQueue>>
        BY <1>2
      <4> HIDE DEF Fetched
      <4> QED BY <4>1, <4>2, <4>3, <4>4, <2>7 DEF PolicyOrder
    <3> QED BY <1>2, <2>1, <2>2, <3>6, <3>8, Unmoved DEF LearnerInv
  <2> QED BY <2>6, <2>7
<1> QED BY <1>3, <1>4

LEMMA PushPolicyKeeps ==
  ASSUME LearnerInv, PushPolicy
  PROVE  LearnerInv'
<1> USE DEF PushPolicy, actorVars, upVars, downVars, storeVars, lifeVars
<1>1. /\ pushQueue \in Seq(Nat) /\ version \in Nat /\ version' = version + 1
      /\ pushQueue' = Append(pushQueue, version + 1)
  BY DEF LearnerInv, LearnerTypes
<1> PICK last \in Nat : last = Len(pushQueue) + 1
  BY <1>1
<1>2. pushQueue' \in Seq(Nat) /\ pushQueue'[last] = version + 1
  BY <1>1
<1>3. \A k \in DOMAIN pushQueue' : k # last => k \in DOMAIN pushQueue /\ pushQueue'[k] = pushQueue[k]
  BY <1>1
<1>4. \A k \in DOMAIN pushQueue' : \A j \in 1..(k - 1) : j \in DOMAIN pushQueue /\ pushQueue'[j] = pushQueue[j]
  BY <1>1
<1>5. LearnerTypes'
  BY <1>1, <1>2 DEF LearnerInv, LearnerTypes
<1>6. PolicyOrder'
  <2>1. UNCHANGED <<weights, paramQueue, pushing>>
    OBVIOUS
  <2>2. weights \in Nat /\ weights <= version
    BY DEF LearnerInv, LearnerTypes, PolicyOrder
  <2>3. \A w \in (weights + 1)..version : w \in (weights + 1)..(version + 1) /\ w < version + 1
    BY <1>1, <2>2
  <2>4. version + 1 \in (weights + 1)..(version + 1) /\ weights <= version + 1
    BY <1>1, <2>2
  <2>5. ASSUME NEW k \in DOMAIN paramQueue
        PROVE  /\ Whole(paramQueue[k]) /\ Fetched(k) \in (weights + 1)..version
               /\ \A j \in 1..(k - 1) : Fetched(j) < Fetched(k)
               /\ pushing # <<>> => Fetched(k) < MessageOf(pushing)
    BY DEF LearnerInv, PolicyOrder
  <2>6. pushing # <<>> => MessageOf(pushing) \in (weights + 1)..version
    BY DEF LearnerInv, PolicyOrder
  <2>7. ASSUME NEW k \in DOMAIN pushQueue'
        PROVE  /\ pushQueue'[k] \in (weights + 1)..(version + 1)
               /\ \A j \in 1..(k - 1) : pushQueue'[j] < pushQueue'[k]
               /\ \A j \in DOMAIN paramQueue : Fetched(j) < pushQueue'[k]
               /\ pushing # <<>> => MessageOf(pushing) < pushQueue'[k]
    <3>1. \A j \in DOMAIN pushQueue : pushQueue[j] \in (weights + 1)..version
      BY DEF LearnerInv, PolicyOrder
    <3>2. CASE k = last
      <4> HIDE DEF Fetched
      <4> QED BY <3>1, <3>2, <1>2, <1>4, <2>3, <2>4, <2>5, <2>6
    <3>3. CASE k # last
      <4>1. k \in DOMAIN pushQueue /\ pushQueue'[k] = pushQueue[k]
        BY <3>3, <1>3
      <4>2. /\ \A j \in 1..(k - 1) : pushQueue[j] < pushQueue[k]
            /\ \A j \in DOMAIN paramQueue : Fetched(j) < pushQueue[k]
            /\ pushing # <<>> => MessageOf(pushing) < pushQueue[k]
        BY <4>1 DEF LearnerInv, PolicyOrder
      <4> HIDE DEF Fetched
      <4> QED BY <4>1, <4>2, <3>1, <1>4, <2>3
    <3> QED BY <3>2, <3>3
  <2>8. \A k : Fetched(k)' = Fetched(k)
    BY <2>1 DEF Fetched
  <2> HIDE DEF Fetched, PushPolicy
  <2> QED BY <2>1, <2>3, <2>4, <2>5, <2>6, <2>7, <2>8, <1>1 DEF PolicyOrder
<1> QED BY <1>5, <1>6, Unmoved DEF LearnerInv

LEMMA StoreTransitionKeeps ==
  ASSUME LearnerInv, StoreTransition
  PROVE  LearnerInv'
<1> USE DEF actorVars, upVars, downVars, pushVars, lifeVars
<1>1. /\ batch \in Seq(Transitions) /\ batch # <<>> /\ Complete(batch)
      /\ online \in Rings /\ offline \in Rings
      /\ Linked(online, missing) /\ LeadsOn(online, missing, batch)
      /\ Linked(offline, unassisted) /\ LeadsOn(offline, unassisted, batch)
  BY DEF LearnerInv, LearnerTypes, Successors, StoreTransition
<1> PICK t \in Transitions : t = Head(batch)
  BY <1>1
<1> DEFINE kept == [state |-> t.state, next |-> t.next, end |-> t.end]
<1>2. /\ IF t.nan THEN missing' = missing \cup {t.state} /\ UNCHANGED online
         ELSE online' = AddTransition(online, t) /\ UNCHANGED missing
      /\ IF t.nan \/ ~t.help THEN unassisted' = unassisted \cup {t.state} /\ UNCHANGED offline
         ELSE offline' = AddTransition(offline, t) /\ UNCHANGED unassisted
      /\ batch' = Tail(batch)
  BY DEF StoreTransition
<1>3. UNCHANGED <<actorVars, stream, stale, upVars, downVars, inQueue, pushVars, lifeVars, sent, taken>>
  BY DEF StoreTransition
<1>4. t \in Transitions /\ t = batch[1] /\ batch' \in Seq(Transitions) /\ Len(batch') = Len(batch) - 1
  BY <1>1, <1>2
<1>5. \A k \in 1..Len(batch') : batch'[k] = batch[k + 1]
  BY <1>1, <1>2
<1>6. Len(batch) \in Nat \ {0} /\ (batch' # <<>> <=> Len(batch) > 1)
  BY <1>1, <1>4
<1>7. batch' # <<>> => Complete(batch') /\ t.end = "none" /\ batch'[1].state = t.next
  <2> SUFFICES ASSUME batch' # <<>>
               PROVE  Complete(batch') /\ t.end = "none" /\ batch'[1].state = t.next
    OBVIOUS
  <2>1. \A k \in 1..(Len(batch) - 1) : batch[k].end = "none" /\ batch[k + 1].state = batch[k].next
    BY <1>1 DEF Complete, Unbroken
  <2>2. t.end = "none" /\ batch'[1].state = t.next
    BY <1>4, <1>5, <1>6, <2>1
  <2>3. Unbroken(batch')
    <3> SUFFICES ASSUME NEW k \in 1..(Len(batch') - 1)
                 PROVE  batch'[k].end = "none" /\ batch'[k + 1].state = batch'[k].next
      BY DEF Unbroken
    <3>1. k + 1 \in 1..(Len(batch) - 1) /\ batch'[k] = batch[k + 1] /\ batch'[k + 1] = batch[k + 1 + 1]
      BY <1>4, <1>5, <1>6
    <3> QED BY <3>1, <2>1
  <2>4. batch'[Len(batch')].end # "none"
    <3>1. batch'[Len(batch')] = batch[Len(batch)]
      BY <1>4, <1>5, <1>6
    <3> QED BY <3>1, <1>1 DEF Complete
  <2> QED BY <2>2, <2>3, <2>4, <1>4, <1>6 DEF Complete
<1>8. batch' = <<>> => t.end # "none"
  BY <1>1, <1>4, <1>6 DEF Complete
(* Either buffer, whether it takes the transition or leaves it out.        *)
<1>9. ASSUME NEW b \in Rings, NEW gone, Linked(b, gone), LeadsOn(b, gone, batch)
      PROVE  /\ Linked(b, gone \cup {t.state}) /\ LeadsOn(b, gone \cup {t.state}, batch')
             /\ AddTransition(b, t) \in Rings /\ Linked(AddTransition(b, t), gone)
             /\ LeadsOn(AddTransition(b, t), gone, batch')
  <2>1. b.size > 0 =>
          LET newest == b.slots[Newest(b)]
          IN newest.end # "none" \/ newest.next \in gone \/ newest.next = t.state
    BY <1>4, <1>9 DEF LeadsOn
  <2>2. Linked(b, gone \cup {t.state})
    BY <1>9 DEF Linked
  <2>3. LeadsOn(b, gone \cup {t.state}, batch')
    BY <2>1 DEF LeadsOn
  <2>4. /\ AddTransition(b, t) \in Rings /\ Linked(AddTransition(b, t), gone)
        /\ AddTransition(b, t).slots[Newest(AddTransition(b, t))] = kept
    BY <2>1, <1>4, <1>9, AddTransitionFacts
  <2>5. kept.end = t.end /\ kept.next = t.next
    OBVIOUS
  <2> HIDE DEF kept
  <2>6. LeadsOn(AddTransition(b, t), gone, batch')
    BY <2>4, <2>5, <1>7, <1>8 DEF LeadsOn
  <2> QED BY <2>2, <2>3, <2>4, <2>6
<1>10. /\ online' \in Rings /\ Linked(online', missing') /\ LeadsOn(online', missing', batch')
  <2>1. CASE t.nan
    BY <2>1, <1>1, <1>2, <1>9
  <2>2. CASE ~t.nan
    BY <2>2, <1>1, <1>2, <1>9
  <2> QED BY <2>1, <2>2
<1>11. /\ offline' \in Rings /\ Linked(offline', unassisted') /\ LeadsOn(offline', unassisted', batch')
  <2>1. CASE t.nan \/ ~t.help
    BY <2>1, <1>1, <1>2, <1>9
  <2>2. CASE ~(t.nan \/ ~t.help)
    BY <2>2, <1>1, <1>2, <1>9
  <2> QED BY <2>1, <2>2
<1>12. LearnerTypes'
  BY <1>3, <1>4, <1>10, <1>11 DEF LearnerInv, LearnerTypes
<1>13. Successors'
  BY <1>7, <1>10, <1>11 DEF Successors
<1> QED BY <1>3, <1>12, <1>13, Unmoved DEF LearnerInv

---------------------------------------------------------------------------
LEMMA LearnerInductive == LearnerSpec => []LearnerInv
<1>1. LearnerInit => LearnerInv
  BY LearnerStarts
<1>2. LearnerInv /\ [LearnerNext]_alVars => LearnerInv'
  <2> SUFFICES ASSUME LearnerInv, [LearnerNext]_alVars
               PROVE  LearnerInv'
    OBVIOUS
  <2>1. CASE StartActor
    BY <2>1, StartActorKeeps
  <2>2. CASE ActorDies
    <3>1. CutStreams /\ acting' \in {"acting", "finished", "raised", "down"}
      BY <2>2 DEF ActorDies
    <3>2. UNCHANGED <<clock, nan, episode, weights, paramQueue, outQueue, inQueue, storeVars, pushVars,
                      lifeVars, sent, taken>>
      BY <2>2 DEF ActorDies
    <3> QED BY <3>1, <3>2, CutStreamsKeeps
  <2>3. CASE ConnectionLost
    <3>1. CutStreams /\ acting' \in {"acting", "finished", "raised", "down"}
      BY <2>3 DEF ConnectionLost, actorVars, LearnerInv, LearnerTypes
    <3>2. UNCHANGED <<clock, nan, episode, weights, paramQueue, outQueue, inQueue, storeVars, pushVars,
                      lifeVars, sent, taken>>
      BY <2>3 DEF ConnectionLost, actorVars
    <3> QED BY <3>1, <3>2, CutStreamsKeeps
  <2>4. CASE ActStep
    BY <2>4, ActStepKeeps
  <2>5. CASE ActorEnds
    BY <2>5, ActorEndsKeeps
  <2>6. CASE \E s \in Streams : Handle(s)
    BY <2>6, HandleKeeps
  <2>7. CASE NextEpisode
    BY <2>7, NextEpisodeKeeps
  <2>8. CASE SendChunk
    BY <2>8, SendChunkKeeps
  <2>9. CASE EndTransitions
    BY <2>9, EndTransitionsKeeps
  <2>10. CASE PushParameters
    BY <2>10, PushParametersKeeps
  <2>11. CASE StalePush
    BY <2>11, StalePushKeeps
  <2>12. CASE FetchChunk
    BY <2>12, FetchChunkKeeps
  <2>13. CASE TakeEpisode
    BY <2>13, TakeEpisodeKeeps
  <2>14. CASE StoreTransition
    BY <2>14, StoreTransitionKeeps
  <2>15. CASE PushPolicy
    BY <2>15, PushPolicyKeeps
  <2>16. CASE UNCHANGED alVars
    <3> USE DEF alVars, actorVars, upVars, downVars, storeVars, pushVars, lifeVars
    <3>1. LearnerTypes'
      BY <2>16 DEF LearnerInv, LearnerTypes
    <3>2. UNCHANGED <<sending, received, pushing, fetched, outQueue, inQueue, taken, sent, stream, before,
                      weights, paramQueue, pushQueue, version, episode, clock, batch, online, offline,
                      missing, unassisted>>
      BY <2>16
    <3> QED BY <3>1, <3>2, Unmoved DEF LearnerInv
  <2> QED BY <2>1, <2>2, <2>3, <2>4, <2>5, <2>6, <2>7, <2>8, <2>9, <2>10, <2>11, <2>12, <2>13,
             <2>14, <2>15, <2>16 DEF LearnerNext
<1> QED BY <1>1, <1>2, PTL DEF LearnerSpec

---------------------------------------------------------------------------
(* The properties, which are about the queues end to end.                  *)

Above(low, s) ==
  \A k \in 1..Len(s) : s[k] > low /\ \A j \in 1..(k - 1) : s[j] < s[k]

LEMMA JoinedAbove ==
  ASSUME NEW low \in Int, NEW a \in Seq(Int), NEW b \in Seq(Int), Above(low, a), Above(low, b),
         \A i \in 1..Len(a), j \in 1..Len(b) : a[i] < b[j]
  PROVE  /\ a \o b \in Seq(Int) /\ Above(low, a \o b)
         /\ \A i \in 1..Len(a \o b) :
              (\E k \in 1..Len(a) : (a \o b)[i] = a[k]) \/ (\E k \in 1..Len(b) : (a \o b)[i] = b[k])
         /\ \A k \in 1..Len(a) : \E i \in 1..Len(a \o b) : (a \o b)[i] = a[k]
         /\ \A k \in 1..Len(b) : \E i \in 1..Len(a \o b) : (a \o b)[i] = b[k]
<1> DEFINE c == a \o b
<1>1. c \in Seq(Int) /\ Len(c) = Len(a) + Len(b) /\ Len(a) \in Nat /\ Len(b) \in Nat
  OBVIOUS
<1>2. \A k \in 1..Len(a) : c[k] = a[k]
  BY <1>1
<1>3. \A k \in 1..Len(b) : c[Len(a) + k] = b[k]
  BY <1>1
<1>4. \A k \in 1..Len(c) : k \in 1..Len(a) \/ (k > Len(a) /\ k - Len(a) \in 1..Len(b) /\ c[k] = b[k - Len(a)])
  BY <1>1, <1>3
<1>5. \A k \in 1..Len(b) : Len(a) + k \in 1..Len(c)
  BY <1>1
<1> HIDE DEF c
<1>6. Above(low, c)
  <2> SUFFICES ASSUME NEW k \in 1..Len(c)
               PROVE  c[k] > low /\ \A j \in 1..(k - 1) : c[j] < c[k]
    BY DEF Above
  <2>1. CASE k \in 1..Len(a)
    <3>1. \A j \in 1..(k - 1) : j \in 1..Len(a)
      BY <2>1, <1>1
    <3> QED BY <2>1, <3>1, <1>2 DEF Above
  <2>2. CASE k > Len(a)
    <3>1. k - Len(a) \in 1..Len(b) /\ c[k] = b[k - Len(a)]
      BY <2>2, <1>1, <1>4
    <3>2. c[k] > low
      BY <3>1 DEF Above
    <3>3. ASSUME NEW j \in 1..(k - 1) PROVE c[j] < c[k]
      <4>1. j \in 1..Len(c)
        BY <1>1
      <4>2. CASE j \in 1..Len(a)
        BY <4>2, <3>1, <1>2
      <4>3. CASE j > Len(a)
        <5>1. j - Len(a) \in 1..(k - Len(a) - 1) /\ c[j] = b[j - Len(a)]
          BY <4>1, <4>3, <1>1, <1>4
        <5> QED BY <5>1, <3>1 DEF Above
      <4> QED BY <4>1, <4>2, <4>3, <1>1
    <3> QED BY <3>2, <3>3
  <2>3. k \in 1..Len(a) \/ k > Len(a)
    BY <1>4
  <2> QED BY <2>1, <2>2, <2>3
<1>7. \A k \in 1..Len(a) : k \in 1..Len(c)
  BY <1>1
<1> QED BY <1>1, <1>2, <1>3, <1>4, <1>5, <1>6, <1>7 DEF c

Among(x, s) == x \in {s[k] : k \in DOMAIN s}

(* Three places in a row, as on the way of the episodes and of the policies. *)
LEMMA ThreePlaces ==
  ASSUME NEW low \in Int, NEW a \in Seq(Int), NEW b \in Seq(Int), NEW c \in Seq(Int),
         Above(low, a), Above(low, b), Above(low, c),
         \A i \in 1..Len(a), j \in 1..Len(b) : a[i] < b[j],
         \A i \in 1..Len(a), j \in 1..Len(c) : a[i] < c[j],
         \A i \in 1..Len(b), j \in 1..Len(c) : b[i] < c[j]
  PROVE  LET all == a \o b \o c
         IN /\ \A k \in DOMAIN all : all[k] > (IF k = 1 THEN low ELSE all[k - 1])
            /\ \A x : (\E k \in 1..Len(a) : a[k] = x) => Among(x, all)
            /\ \A x : (\E k \in 1..Len(b) : b[k] = x) => Among(x, all)
            /\ \A x : (\E k \in 1..Len(c) : c[k] = x) => Among(x, all)
<1> DEFINE ab == a \o b
           all == ab \o c
<1>1. /\ ab \in Seq(Int) /\ Above(low, ab)
      /\ \A i \in 1..Len(ab) :
           (\E k \in 1..Len(a) : ab[i] = a[k]) \/ (\E k \in 1..Len(b) : ab[i] = b[k])
      /\ \A k \in 1..Len(a) : \E i \in 1..Len(ab) : ab[i] = a[k]
      /\ \A k \in 1..Len(b) : \E i \in 1..Len(ab) : ab[i] = b[k]
  BY JoinedAbove
<1> HIDE DEF ab
<1>2. \A i \in 1..Len(ab), j \in 1..Len(c) : ab[i] < c[j]
  BY <1>1
<1>3. /\ all \in Seq(Int) /\ Above(low, all)
      /\ \A k \in 1..Len(ab) : \E i \in 1..Len(all) : all[i] = ab[k]
      /\ \A k \in 1..Len(c) : \E i \in 1..Len(all) : all[i] = c[k]
  BY <1>1, <1>2, JoinedAbove
<1> HIDE DEF all
<1>4. DOMAIN all = 1..Len(all) /\ Len(all) \in Nat
  BY <1>3
<1>5. ASSUME NEW k \in DOMAIN all
      PROVE  all[k] > (IF k = 1 THEN low ELSE all[k - 1])
  <2>1. k \in 1..Len(all) /\ (k # 1 => k - 1 \in 1..(k - 1) /\ k - 1 \in 1..Len(all))
    BY <1>4
  <2>2. all[k] > low /\ \A j \in 1..(k - 1) : all[j] < all[k]
    BY <2>1, <1>3 DEF Above
  <2>3. \A j \in 1..Len(all) : all[j] \in Int
    BY <1>3
  <2> QED BY <2>1, <2>2, <2>3
<1>6. \A k \in 1..Len(a) : \E i \in DOMAIN all : all[i] = a[k]
  <2> SUFFICES ASSUME NEW k \in 1..Len(a) PROVE \E i \in DOMAIN all : all[i] = a[k]
    OBVIOUS
  <2>1. PICK j \in 1..Len(ab) : ab[j] = a[k]
    BY <1>1
  <2>2. \E i \in 1..Len(all) : all[i] = ab[j]
    BY <1>3
  <2> QED BY <2>1, <2>2, <1>4
<1>7. \A k \in 1..Len(b) : \E i \in DOMAIN all : all[i] = b[k]
  <2> SUFFICES ASSUME NEW k \in 1..Len(b) PROVE \E i \in DOMAIN all : all[i] = b[k]
    OBVIOUS
  <2>1. PICK j \in 1..Len(ab) : ab[j] = b[k]
    BY <1>1
  <2>2. \E i \in 1..Len(all) : all[i] = ab[j]
    BY <1>3
  <2> QED BY <2>1, <2>2, <1>4
<1>8. \A k \in 1..Len(c) : \E i \in DOMAIN all : all[i] = c[k]
  BY <1>3, <1>4
<1>9. \A x : (\E k \in 1..Len(a) : a[k] = x) => Among(x, all)
  BY <1>6 DEF Among
<1>10. \A x : (\E k \in 1..Len(b) : b[k] = x) => Among(x, all)
  BY <1>7 DEF Among
<1>11. \A x : (\E k \in 1..Len(c) : c[k] = x) => Among(x, all)
  BY <1>8 DEF Among
<1> QED BY <1>5, <1>9, <1>10, <1>11 DEF all, ab

LEMMA InvGivesEpisodes ==
  ASSUME LearnerInv
  PROVE  EpisodesArriveWhole
<1> DEFINE a == [k \in DOMAIN inQueue |-> MessageOf(inQueue[k]).number]
           b == IF sending = <<>> THEN <<>> ELSE <<MessageOf(sending).number>>
           c == [k \in DOMAIN outQueue |-> outQueue[k].number]
<1>1. /\ taken \in Nat /\ sent \in Nat /\ before \in Nat
      /\ inQueue \in Seq(Seq(ChunksOf(Episodes))) /\ outQueue \in Seq(Episodes)
  BY DEF LearnerInv, LearnerTypes
<1>2. DOMAIN inQueue = 1..Len(inQueue) /\ DOMAIN outQueue = 1..Len(outQueue)
      /\ Len(inQueue) \in Nat /\ Len(outQueue) \in Nat
  BY <1>1
<1>3. /\ \A k \in DOMAIN inQueue : InNumber(k) \in (taken + 1)..sent
      /\ \A k \in DOMAIN inQueue : \A j \in 1..(k - 1) : InNumber(j) < InNumber(k)
      /\ \A k \in DOMAIN inQueue : Whole(inQueue[k])
      /\ sending # <<>> => MessageOf(sending).number \in (taken + 1)..sent
      /\ sending # <<>> => \A k \in DOMAIN inQueue : InNumber(k) < MessageOf(sending).number
      /\ \A k \in DOMAIN outQueue :
           /\ outQueue[k].number \in (taken + 1)..sent
           /\ \A j \in 1..(k - 1) : outQueue[j].number < outQueue[k].number
           /\ \A j \in DOMAIN inQueue : InNumber(j) < outQueue[k].number
           /\ sending # <<>> => MessageOf(sending).number < outQueue[k].number
  BY DEF LearnerInv, EpisodeOrder
<1>4. \A n \in (taken + 1)..sent : n \in Int /\ n > taken
  BY <1>1
<1>5. a \in Seq(Int) /\ Len(a) = Len(inQueue) /\ \A k \in 1..Len(a) : a[k] = InNumber(k)
  <2>1. \A k \in 1..Len(inQueue) : MessageOf(inQueue[k]).number \in Int
    BY <1>2, <1>3, <1>4 DEF InNumber
  <2> QED BY <2>1, <1>2 DEF InNumber
<1>6. c \in Seq(Int) /\ Len(c) = Len(outQueue) /\ \A k \in 1..Len(c) : c[k] = outQueue[k].number
  <2>1. \A k \in 1..Len(outQueue) : outQueue[k].number \in Int
    BY <1>2, <1>3, <1>4
  <2> QED BY <2>1, <1>2
<1>7. /\ b \in Seq(Int) /\ (sending = <<>> => Len(b) = 0)
      /\ sending # <<>> => Len(b) = 1 /\ b[1] = MessageOf(sending).number
  BY <1>3, <1>4
<1> HIDE DEF a, b, c, InNumber
<1>8. Above(taken, a)
  BY <1>2, <1>3, <1>4, <1>5 DEF Above
<1>9. Above(taken, b)
  BY <1>3, <1>4, <1>7 DEF Above
<1>10. Above(taken, c)
  <2> SUFFICES ASSUME NEW k \in 1..Len(c)
               PROVE  c[k] > taken /\ \A j \in 1..(k - 1) : c[j] < c[k]
    BY DEF Above
  <2>1. k \in DOMAIN outQueue /\ \A j \in 1..(k - 1) : j \in 1..Len(c)
    BY <1>2, <1>6
  <2> QED BY <2>1, <1>3, <1>4, <1>6
<1>11. \A j \in 1..Len(b) : j = 1 /\ sending # <<>>
  <2>1. CASE sending = <<>>
    <3>1. Len(b) = 0
      BY <2>1, <1>7
    <3> QED BY <3>1
  <2>2. CASE sending # <<>>
    <3>1. Len(b) = 1
      BY <2>2, <1>7
    <3> QED BY <3>1, <2>2
  <2> QED BY <2>1, <2>2
<1>12. /\ \A i \in 1..Len(a), j \in 1..Len(b) : a[i] < b[j]
       /\ \A i \in 1..Len(a), j \in 1..Len(c) : a[i] < c[j]
       /\ \A i \in 1..Len(b), j \in 1..Len(c) : b[i] < c[j]
  BY <1>2, <1>3, <1>5, <1>6, <1>7, <1>11
<1>13. OnTheirWay = a \o b \o c
  BY DEF OnTheirWay, a, b, c
<1> DEFINE all == a \o b \o c
<1>14. \A k \in DOMAIN all : all[k] > (IF k = 1 THEN taken ELSE all[k - 1])
  <2>1. taken \in Int /\ a \in Seq(Int) /\ b \in Seq(Int) /\ c \in Seq(Int)
    BY <1>1, <1>5, <1>6, <1>7
  <2> QED BY <2>1, <1>8, <1>9, <1>10, <1>12, ThreePlaces
<1>15. /\ \A x : (\E k \in 1..Len(a) : a[k] = x) => Among(x, all)
       /\ \A x : (\E k \in 1..Len(b) : b[k] = x) => Among(x, all)
       /\ \A x : (\E k \in 1..Len(c) : c[k] = x) => Among(x, all)
  <2>1. taken \in Int /\ a \in Seq(Int) /\ b \in Seq(Int) /\ c \in Seq(Int)
    BY <1>1, <1>5, <1>6, <1>7
  <2> QED BY <2>1, <1>8, <1>9, <1>10, <1>12, ThreePlaces
<1> HIDE DEF all
<1>16. ASSUME stream["transitions"] = "open", NEW n \in (before + 1)..sent
       PROVE  n \in (1..taken) \/ Among(n, all)
  <2>1. \/ n <= taken
        \/ \E k \in DOMAIN inQueue : InNumber(k) = n
        \/ sending # <<>> /\ MessageOf(sending).number = n
        \/ \E k \in DOMAIN outQueue : outQueue[k].number = n
    BY <1>16 DEF LearnerInv, NoneLost
  <2>2. n \in Nat /\ n >= 1
    BY <1>1
  <2>3. CASE n <= taken
    BY <2>2, <2>3, <1>1
  <2>4. CASE \E k \in DOMAIN inQueue : InNumber(k) = n
    BY <2>4, <1>2, <1>5, <1>15
  <2>5. CASE sending # <<>> /\ MessageOf(sending).number = n
    <3>1. 1 \in 1..Len(b) /\ b[1] = n
      <4>1. Len(b) = 1 /\ b[1] = MessageOf(sending).number
        BY <2>5, <1>7
      <4> QED BY <4>1, <2>5
    <3> QED BY <3>1, <1>15
  <2>6. CASE \E k \in DOMAIN outQueue : outQueue[k].number = n
    BY <2>6, <1>2, <1>6, <1>15
  <2> QED BY <2>1, <2>3, <2>4, <2>5, <2>6
<1>17. OnTheirWay = all
  BY <1>13 DEF all
<1> QED BY <1>3, <1>14, <1>16, <1>17 DEF EpisodesArriveWhole, Among

LEMMA InvGivesPolicies ==
  ASSUME LearnerInv
  PROVE  PolicyIsNewer
<1> DEFINE a == [k \in DOMAIN paramQueue |-> MessageOf(paramQueue[k])]
           b == IF pushing = <<>> THEN <<>> ELSE <<MessageOf(pushing)>>
<1>1. /\ weights \in Nat /\ version \in Nat
      /\ paramQueue \in Seq(Seq(ChunksOf(Nat))) /\ pushQueue \in Seq(Nat)
  BY DEF LearnerInv, LearnerTypes
<1>2. DOMAIN paramQueue = 1..Len(paramQueue) /\ DOMAIN pushQueue = 1..Len(pushQueue)
      /\ Len(paramQueue) \in Nat /\ Len(pushQueue) \in Nat
  BY <1>1
<1>3. /\ \A k \in DOMAIN paramQueue : Fetched(k) \in (weights + 1)..version
      /\ \A k \in DOMAIN paramQueue : \A j \in 1..(k - 1) : Fetched(j) < Fetched(k)
      /\ \A k \in DOMAIN paramQueue : Whole(paramQueue[k])
      /\ pushing # <<>> => MessageOf(pushing) \in (weights + 1)..version
      /\ pushing # <<>> => \A k \in DOMAIN paramQueue : Fetched(k) < MessageOf(pushing)
      /\ \A k \in DOMAIN pushQueue :
           /\ pushQueue[k] \in (weights + 1)..version
           /\ \A j \in 1..(k - 1) : pushQueue[j] < pushQueue[k]
           /\ \A j \in DOMAIN paramQueue : Fetched(j) < pushQueue[k]
           /\ pushing # <<>> => MessageOf(pushing) < pushQueue[k]
  BY DEF LearnerInv, PolicyOrder
<1>4. \A n \in (weights + 1)..version : n \in Int /\ n > weights
  BY <1>1
<1>5. a \in Seq(Int) /\ Len(a) = Len(paramQueue) /\ \A k \in 1..Len(a) : a[k] = Fetched(k)
  <2>1. \A k \in 1..Len(paramQueue) : MessageOf(paramQueue[k]) \in Int
    BY <1>2, <1>3, <1>4 DEF Fetched
  <2> QED BY <2>1, <1>2 DEF Fetched
<1>6. pushQueue \in Seq(Int)
  BY <1>1
<1>7. /\ b \in Seq(Int) /\ (pushing = <<>> => Len(b) = 0)
      /\ pushing # <<>> => Len(b) = 1 /\ b[1] = MessageOf(pushing)
  BY <1>3, <1>4
<1> HIDE DEF a, b, Fetched
<1>8. Above(weights, a)
  BY <1>2, <1>3, <1>4, <1>5 DEF Above
<1>9. Above(weights, b)
  BY <1>3, <1>4, <1>7 DEF Above
<1>10. Above(weights, pushQueue)
  BY <1>2, <1>3, <1>4, <1>6 DEF Above
<1>11. \A j \in 1..Len(b) : j = 1 /\ pushing # <<>>
  <2>1. CASE pushing = <<>>
    <3>1. Len(b) = 0
      BY <2>1, <1>7
    <3> QED BY <3>1
  <2>2. CASE pushing # <<>>
    <3>1. Len(b) = 1
      BY <2>2, <1>7
    <3> QED BY <3>1, <2>2
  <2> QED BY <2>1, <2>2
<1>12. /\ \A i \in 1..Len(a), j \in 1..Len(b) : a[i] < b[j]
       /\ \A i \in 1..Len(a), j \in 1..Len(pushQueue) : a[i] < pushQueue[j]
       /\ \A i \in 1..Len(b), j \in 1..Len(pushQueue) : b[i] < pushQueue[j]
  BY <1>2, <1>3, <1>5, <1>6, <1>7, <1>11
<1> DEFINE coming == a \o b \o pushQueue
<1>13. \A k \in DOMAIN coming : coming[k] > (IF k = 1 THEN weights ELSE coming[k - 1])
  <2>1. weights \in Int /\ a \in Seq(Int) /\ b \in Seq(Int)
    BY <1>1, <1>5, <1>7
  <2> QED BY <2>1, <1>6, <1>8, <1>9, <1>10, <1>12, ThreePlaces
<1> QED BY <1>3, <1>13 DEF PolicyIsNewer, a, b

LEMMA InvGivesSamples ==
  ASSUME LearnerInv
  PROVE  SamplesFollowTheRollout
<1>1. /\ online \in Rings /\ offline \in Rings
      /\ Linked(online, missing) /\ Linked(offline, unassisted)
  BY DEF LearnerInv, LearnerTypes, Successors
<1> QED BY <1>1, LinkedIsEnough DEF SamplesFollowTheRollout

(* What arrives at the learner is whole episodes, oldest first, and while   *)
(* the stream of transitions lives every episode of the running actor is    *)
(* taken or on its way, whatever is cut, restarted or left on a stale       *)
(* stream (send_bytes_in_chunks, receive_bytes_in_chunks, rl/actor.py).     *)
THEOREM EpisodesWholeTheorem == LearnerSpec => []EpisodesArriveWhole
<1>1. LearnerInv => EpisodesArriveWhole
  BY InvGivesEpisodes
<1> QED BY <1>1, LearnerInductive, PTL

(* The policy the actor loads next is newer than the one it plays: no       *)
(* restart, stale StreamParameters or cut stream brings back an older one.  *)
THEOREM PolicyIsNewerTheorem == LearnerSpec => []PolicyIsNewer
<1>1. LearnerInv => PolicyIsNewer
  BY InvGivesPolicies
<1> QED BY <1>1, LearnerInductive, PTL

(* The next state a buffer derives for a sample is the one the actor saw,   *)
(* whatever was lost, for every capacity and demonstration.                 *)
THEOREM SamplesTheorem == LearnerSpec => []SamplesFollowTheRollout
<1>1. LearnerInv => SamplesFollowTheRollout
  BY InvGivesSamples
<1> QED BY <1>1, LearnerInductive, PTL

(* The three together: the property the run checks.                        *)
THEOREM LearnerFollowsActorTheorem == LearnerSpec => []LearnerFollowsActor
<1> QED BY EpisodesWholeTheorem, PolicyIsNewerTheorem, SamplesTheorem, PTL DEF LearnerFollowsActor

=============================================================================
