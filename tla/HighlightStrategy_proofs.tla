------------------------ MODULE HighlightStrategy_proofs ------------------------
(***************************************************************************)
(* Proofs about HighlightStrategy, for every size of the ring, every cap   *)
(* on its bytes and every size of a frame, and without the bounds of a     *)
(* run.                                                                    *)
(*                                                                         *)
(* The ring's count of bytes is not the size of what it holds: the deque   *)
(* drops frames the count keeps.  The invariant says what both are, as     *)
(* functions of the number of frames since the last live recording.        *)
(***************************************************************************)
EXTENDS HighlightStrategy, SequenceTheorems, TLAPS

Least(a, b) == IF a <= b THEN a ELSE b

(* How many frames fit under the cap.                                      *)
Cap == MaxBytes \div FrameBytes

(* How many of n frames the ring still holds.                              *)
Held(n) == Least(n, Least(MaxFrames, Cap))

(* The ring after n frames, the newest of them numbered t.                 *)
Window(n, t) ==
  [frames |-> [i \in 1..Held(n) |-> t - Held(n) + i], bytes |-> Least(n, Cap) * FrameBytes]

-----------------------------------------------------------------------------
(* Sequences of integers given as functions.                               *)
LEMMA Enumerated ==
  ASSUME NEW S, NEW n \in Nat, NEW f \in [1..n -> S]
  PROVE  f \in Seq(S) /\ Len(f) = n
<1>1. f \in Seq(S)
  BY SeqDef
<1>2. DOMAIN f = 1..Len(f) /\ Len(f) \in Nat
  BY <1>1, LenProperties
<1> QED BY <1>1, <1>2

(* A sequence is the function of its elements.                             *)
LEMMA SameSequence ==
  ASSUME NEW s \in Seq(Int), NEW f \in [1..Len(s) -> Int], \A i \in 1..Len(s) : f[i] = s[i]
  PROVE  s = f
<1>1. Len(s) \in Nat
  BY LenProperties
<1>2. f \in Seq(Int) /\ Len(f) = Len(s)
  BY <1>1, Enumerated
<1> QED BY <1>2, SeqEqual

-----------------------------------------------------------------------------
(* The ring.                                                               *)

(* At least one frame fits, and Cap is the largest number that does.       *)
LEMMA CapFits ==
  /\ Cap \in Nat \ {0}
  /\ Cap * FrameBytes <= MaxBytes
  /\ Cap * FrameBytes + FrameBytes > MaxBytes
<1>1. /\ MaxBytes = FrameBytes * (MaxBytes \div FrameBytes) + (MaxBytes % FrameBytes)
      /\ MaxBytes % FrameBytes \in 0..(FrameBytes - 1)
      /\ MaxBytes \div FrameBytes \in Int
  BY RingAssumption
<1>2. Cap \in Int /\ Cap * FrameBytes = FrameBytes * Cap
  BY <1>1, RingAssumption DEF Cap
<1>3. Cap * FrameBytes <= MaxBytes /\ Cap * FrameBytes + FrameBytes > MaxBytes
  BY <1>1, <1>2, RingAssumption DEF Cap
<1>4. Cap >= 1
  <2>1. SUFFICES ASSUME Cap <= 0 PROVE FALSE
    BY <1>2
  <2>2. Cap * FrameBytes <= 0 /\ Cap * FrameBytes \in Int
    BY <2>1, <1>2, RingAssumption
  <2> HIDE DEF Cap
  <2> QED BY <2>2, <1>3, RingAssumption
<1> QED BY <1>2, <1>3, <1>4

(* What the ring holds is typed.                                           *)
LEMMA HeldBounds ==
  ASSUME NEW n \in Nat
  PROVE  Held(n) \in Nat /\ Held(n) <= n /\ Held(n) <= MaxFrames /\ Held(n) <= Cap
BY CapFits, RingAssumption DEF Held, Least

(* The definition, for rewriting.                                          *)
LEMMA WindowIs ==
  ASSUME NEW n \in Nat, NEW t \in Nat
  PROVE  Window(n, t) = [frames |-> [i \in 1..Held(n) |-> t - Held(n) + i],
                         bytes |-> Least(n, Cap) * FrameBytes]
BY DEF Window

(* A window of frames numbered from 1 on is a ring.                        *)
LEMMA WindowTyped ==
  ASSUME NEW n \in Nat, NEW t \in Nat, n <= t
  PROVE  Window(n, t) \in [frames : Seq(Nat), bytes : Nat]
<1>1. [i \in 1..Held(n) |-> t - Held(n) + i] \in Seq(Nat)
  <2>1. \A i \in 1..Held(n) : t - Held(n) + i \in Nat
    BY HeldBounds
  <2>2. [i \in 1..Held(n) |-> t - Held(n) + i] \in [1..Held(n) -> Nat]
    BY <2>1
  <2> QED BY <2>2, HeldBounds, Enumerated
<1>2. Least(n, Cap) * FrameBytes \in Nat
  <2>1. Least(n, Cap) \in Nat
    BY CapFits DEF Least
  <2> QED BY <2>1, RingAssumption
<1> QED BY <1>1, <1>2 DEF Window

(* The window of no frames is the empty ring, whatever came before.        *)
LEMMA EmptyWindow ==
  ASSUME NEW t \in Nat
  PROVE  Window(0, t) = EmptyRing
<1>1. Held(0) = 0 /\ Least(0, Cap) = 0
  BY CapFits, RingAssumption DEF Held, Least
<1>2. [i \in 1..0 |-> t - 0 + i] = <<>>
  OBVIOUS
<1> QED BY <1>1, <1>2, RingAssumption DEF Window, EmptyRing

(* The eviction loop drops one frame when the count is at the cap.         *)
LEMMA EvictsOne ==
  ASSUME NEW n \in Nat, NEW t \in Nat
  PROVE  Evicted(Window(n, t)) = IF n < Cap THEN 0 ELSE 1
<1> DEFINE r == Window(n, t)
           fits(k) == r.bytes - k * FrameBytes + FrameBytes <= MaxBytes
           good(k) == /\ fits(k) \/ k = Len(r.frames)
                      /\ \A j \in 0..(k - 1) : ~fits(j)
<1>1. r.bytes = Least(n, Cap) * FrameBytes /\ Len(r.frames) = Held(n)
  BY HeldBounds DEF Window
<1>2. CASE n < Cap
  <2>1. n * FrameBytes + FrameBytes <= MaxBytes
    <3>1. (n + 1) * FrameBytes <= Cap * FrameBytes
      BY <1>2, CapFits, RingAssumption
    <3>2. (n + 1) * FrameBytes = n * FrameBytes + FrameBytes
      BY RingAssumption
    <3>3. n * FrameBytes \in Nat /\ Cap * FrameBytes \in Nat
      BY CapFits, RingAssumption
    <3> QED BY <3>1, <3>2, <3>3, CapFits, RingAssumption
  <2>2. fits(0)
    BY <2>1, <1>1, <1>2, CapFits, RingAssumption DEF Least
  <2>3. \A k \in 0..Len(r.frames) : good(k) <=> k = 0
    <3> HIDE DEF fits, r
    <3> QED BY <2>2, <1>1, HeldBounds
  <2>4. Evicted(r) = CHOOSE k \in 0..Len(r.frames) : good(k)
    BY DEF Evicted
  <2>5. 0 \in 0..Len(r.frames)
    BY <1>1, HeldBounds
  <2> HIDE DEF good, fits, r
  <2>6. Evicted(r) = 0
    BY <2>3, <2>4, <2>5
  <2> QED BY <2>6, <1>2 DEF r
<1>3. CASE ~(n < Cap)
  <2>1. r.bytes = Cap * FrameBytes /\ Len(r.frames) >= 1 /\ Len(r.frames) \in Nat
    BY <1>1, <1>3, CapFits, RingAssumption, HeldBounds DEF Least, Held
  <2>2. ~fits(0) /\ fits(1)
    <3>1. Cap * FrameBytes \in Nat
      BY CapFits, RingAssumption
    <3> QED BY <2>1, <3>1, CapFits, RingAssumption
  <2>3. \A k \in 0..Len(r.frames) : good(k) <=> k = 1
    <3> HIDE DEF fits, r
    <3> QED BY <2>1, <2>2
  <2>4. Evicted(r) = CHOOSE k \in 0..Len(r.frames) : good(k)
    BY DEF Evicted
  <2>5. 1 \in 0..Len(r.frames)
    BY <2>1
  <2> HIDE DEF good, fits, r
  <2>6. Evicted(r) = 1
    BY <2>3, <2>4, <2>5
  <2> QED BY <2>6, <1>3 DEF r
<1> QED BY <1>2, <1>3

(* append() turns the window of n frames into that of n + 1: the bytes it  *)
(* never takes off the count make the loop evict one frame at a time, and  *)
(* then the deque is never full.                                           *)
LEMMA AppendKeepsWindow ==
  ASSUME NEW n \in Nat, NEW t \in Nat, NEW m \in Nat, NEW u \in Nat,
         n <= t, m = n + 1, u = t + 1
  PROVE  AppendFrame(Window(n, t), u) = Window(m, u)
<1> DEFINE frames == [i \in 1..Held(n) |-> t - Held(n) + i]
           k == Evicted(Window(n, t))
           rest == SubSeq(frames, k + 1, Len(frames))
<1>0. Window(n, t).frames = frames /\ Window(n, t).bytes = Least(n, Cap) * FrameBytes
  BY DEF Window
<1>1. /\ frames \in Seq(Int) /\ Len(frames) = Held(n) /\ Held(n) \in Nat
      /\ \A i \in 1..Held(n) : frames[i] = t - Held(n) + i /\ frames[i] \in Int
  <2>1. Held(n) \in Nat
    BY HeldBounds
  <2>2. frames \in [1..Held(n) -> Int]
    BY <2>1
  <2> QED BY <2>1, <2>2, Enumerated
<1>2. AppendFrame(Window(n, t), u) =
        [frames |-> Pushed(rest, u),
         bytes |-> Least(n, Cap) * FrameBytes - k * FrameBytes + FrameBytes]
  BY <1>0 DEF AppendFrame
<1>3. CASE n < Cap
  <2>1. k = 0
    BY <1>3, EvictsOne
  <2>2. rest = frames
    <3>1. rest = [i \in 1..Held(n) |-> frames[i]]
      BY <2>1, <1>1, HeldBounds, SubSeqProperties
    <3> QED BY <3>1
  <2>3. Pushed(frames, u) = [i \in 1..Held(m) |-> u - Held(m) + i]
    <3>1. CASE n >= MaxFrames
      <4>1. Held(n) = MaxFrames /\ Held(m) = MaxFrames
        BY <3>1, <1>3, CapFits, RingAssumption DEF Held, Least
      <4>2. Tail(frames) \in Seq(Int) /\ Len(Tail(frames)) = MaxFrames - 1
            /\ \A i \in 1..(MaxFrames - 1) : Tail(frames)[i] = t - MaxFrames + i + 1
        <5> HIDE DEF frames
        <5>1. frames # <<>>
          BY <4>1, <1>1, RingAssumption
        <5> QED BY <5>1, <4>1, <1>1, RingAssumption, HeadTailProperties
      <4>3. Pushed(frames, u) = Append(Tail(frames), u)
        BY <4>1, <1>1 DEF Pushed
      <4>4. /\ Len(Append(Tail(frames), u)) = MaxFrames
            /\ Append(Tail(frames), u) \in Seq(Int)
            /\ \A i \in 1..MaxFrames : Append(Tail(frames), u)[i] = u - MaxFrames + i
        <5> HIDE DEF frames
        <5>2. /\ Append(Tail(frames), u) \in Seq(Int)
              /\ Len(Append(Tail(frames), u)) = MaxFrames
              /\ \A i \in 1..(MaxFrames - 1) : Append(Tail(frames), u)[i] = Tail(frames)[i]
              /\ Append(Tail(frames), u)[MaxFrames] = u
          BY <4>2, RingAssumption, AppendProperties
        <5> QED BY <4>2, <5>2, RingAssumption
      <4> HIDE DEF frames
      <4>5. Append(Tail(frames), u) = [i \in 1..MaxFrames |-> u - MaxFrames + i]
        <5>1. [i \in 1..MaxFrames |-> u - MaxFrames + i] \in [1..MaxFrames -> Int]
          BY RingAssumption
        <5> QED BY <4>4, <5>1, SameSequence
      <4> QED BY <4>1, <4>3, <4>5
    <3>2. CASE n < MaxFrames
      <4>1. Held(n) = n /\ Held(m) = m /\ Len(frames) # MaxFrames
        <5> HIDE DEF frames
        <5>1. Held(n) = n /\ Held(m) = m
          BY <3>2, <1>3, CapFits, RingAssumption DEF Held, Least
        <5> QED BY <5>1, <3>2, <1>1, RingAssumption
      <4>2. Pushed(frames, u) = Append(frames, u)
        BY <4>1 DEF Pushed
      <4>3. Append(frames, u) = [i \in 1..m |-> u - m + i]
        BY <4>1, <1>1
      <4> QED BY <4>1, <4>2, <4>3
    <3> QED BY <3>1, <3>2, RingAssumption
  <2>4. Least(n, Cap) * FrameBytes - 0 * FrameBytes + FrameBytes = Least(m, Cap) * FrameBytes
    <3>1. Least(n, Cap) = n /\ Least(m, Cap) = m
      BY <1>3, CapFits DEF Least
    <3> QED BY <3>1, RingAssumption
  <2>5. Window(m, u) = [frames |-> [i \in 1..Held(m) |-> u - Held(m) + i],
                                bytes |-> Least(m, Cap) * FrameBytes]
    BY WindowIs
  <2> HIDE DEF k, rest, frames
  <2> QED BY <1>2, <2>1, <2>2, <2>3, <2>4, <2>5
<1>4. CASE ~(n < Cap)
  <2>1. k = 1
    BY <1>4, EvictsOne
  <2>2. /\ Held(n) = Held(m) /\ Held(n) >= 1 /\ Held(n) \in Nat /\ Held(n) <= MaxFrames
        /\ Least(n, Cap) = Cap /\ Least(m, Cap) = Cap
    BY <1>4, CapFits, RingAssumption DEF Held, Least
  <2>3. /\ Len(rest) = Held(n) - 1 /\ rest \in Seq(Int)
        /\ \A i \in 1..(Held(n) - 1) : rest[i] = t - Held(n) + i + 1
    <3> HIDE DEF frames
    <3>1. \A i \in 2..Held(n) : frames[i] \in Int
      BY <1>1
    <3>2. rest = SubSeq(frames, 2, Held(n))
      BY <2>1, <1>1
    <3>3. /\ rest \in Seq(Int) /\ Len(rest) = IF 2 <= Held(n) THEN Held(n) - 2 + 1 ELSE 0
          /\ \A i \in 1..(Held(n) - 2 + 1) : rest[i] = frames[2 + i - 1]
      <4> HIDE DEF rest
      <4> QED BY ONLY <2>2, <3>1, <3>2, SubSeqProperties
    <3>4. Held(n) - 2 + 1 = Held(n) - 1 /\ \A i \in 1..(Held(n) - 1) : 2 + i - 1 = i + 1
      BY <2>2
    <3>5. \A i \in 1..(Held(n) - 1) : rest[i] = frames[i + 1] /\ i + 1 \in 1..Held(n)
      BY <2>2, <3>3, <3>4
    <3>6. Len(rest) = Held(n) - 1
      BY <2>2, <3>3
    <3>7. ASSUME NEW i \in 1..(Held(n) - 1) PROVE rest[i] = t - Held(n) + i + 1
      <4>1. rest[i] = t - Held(n) + (i + 1)
        BY <3>5, <1>1
      <4> HIDE DEF rest
      <4> QED BY <4>1, <2>2
    <3> QED BY <3>3, <3>6, <3>7
  <2>4. Pushed(rest, u) = Append(rest, u)
    <3> HIDE DEF rest
    <3> QED BY <2>2, <2>3, RingAssumption DEF Pushed
  <2>5. /\ Len(Append(rest, u)) = Held(n) /\ Append(rest, u) \in Seq(Int)
        /\ \A i \in 1..Held(n) : Append(rest, u)[i] = u - Held(n) + i
    <3> HIDE DEF rest
    <3> QED BY <2>2, <2>3, AppendProperties
  <2>6. Append(rest, u) = [i \in 1..Held(m) |-> u - Held(m) + i]
    <3> HIDE DEF rest
    <3> QED BY <2>2, <2>5, SameSequence
  <2>7. Cap * FrameBytes - 1 * FrameBytes + FrameBytes = Cap * FrameBytes
    BY CapFits, RingAssumption
  <2>8. Window(m, u) = [frames |-> [i \in 1..Held(m) |-> u - Held(m) + i],
                                bytes |-> Least(m, Cap) * FrameBytes]
    BY WindowIs
  <2> HIDE DEF k, rest, frames
  <2> QED BY <1>2, <2>1, <2>2, <2>4, <2>6, <2>7, <2>8
<1> QED BY <1>3, <1>4

(* The count of the statement is the one of the window.                    *)
LEMMA SmallestIsHeld ==
  ASSUME NEW n \in Nat
  PROVE  Smallest({n, MaxFrames, MaxBytes \div FrameBytes}) = Held(n)
<1> DEFINE S == {n, MaxFrames, Cap}
<1>1. Held(n) \in S /\ \A y \in S : Held(n) <= y
  BY CapFits, RingAssumption DEF Held, Least
<1>2. \A x \in S : (\A y \in S : x <= y) => x = Held(n)
  BY <1>1, CapFits, RingAssumption
<1>3. Smallest(S) = Held(n)
  <2> HIDE DEF S
  <2> QED BY <1>1, <1>2 DEF Smallest
<1> QED BY <1>3 DEF Cap

-----------------------------------------------------------------------------
(* The inductive invariant.                                                *)

Last(s) == s[Len(s)]

(* TypeOK in three parts: flags, program counters, and data.               *)
Flags ==
  /\ stopReq \in BOOLEAN /\ saveReq \in BOOLEAN /\ pushReq \in BOOLEAN /\ live \in BOOLEAN
  /\ broken \in BOOLEAN /\ finalized \in BOOLEAN /\ failed \in BOOLEAN

Counters ==
  /\ lock \in {"free", "control", "worker"}
  /\ queued \in Nat
  /\ wpc \in {"idle", "lock", "check", "upload", "clear"}
  /\ pc \in {"check", "tick", "record", "toggle", "flush", "store", "save", "saving", "mark",
             "tail", "exit", "drain", "final", "done", "raised"}
  /\ back \in {"check", "exit"}
  /\ ticks \in Nat /\ begun \in Nat \ {0}

Data ==
  /\ hub \in [episodes : Nat, sealed : BOOLEAN]
  /\ ring \in [frames : Seq(Nat), bytes : Nat]
  /\ buffer \in Seq(Nat)
  /\ episodes \in Seq(Seq(Nat))

Types == Flags /\ Counters /\ Data

(* The parts make up TypeOK.                                               *)
LEMMA TypesAreTypeOK == Types <=> TypeOK
BY Zenon DEF Types, Flags, Counters, Data, TypeOK, WorkerTypeOK

(* The last frame of the last episode.                                     *)
LastSaved == Last(episodes[Len(episodes)])

(* Where the current frame has been counted and not yet kept.              *)
Fresh == pc \in {"record", "toggle", "flush", "store"}

Looping == pc \in {"check", "tick"} \/ Fresh

(* The newest frame that has been kept.                                    *)
Seen == IF Fresh THEN ticks - 1 ELSE ticks

(* Where a save has just succeeded, or none will follow.                   *)
Ends == {"mark", "exit", "drain", "final", "done", "raised"}

(* A failure leaves the loop; live recording is left by a save only.       *)
Places ==
  /\ Fresh => begun <= ticks
  /\ begun <= ticks + 1
  /\ Looping \/ pc = "mark" => ~failed
  /\ pc \in {"save", "saving"} /\ back = "check" => ~failed
  /\ pc \in {"save", "saving", "mark"} => live
  /\ pc = "flush" => ~live

RingIs ==
  /\ live => ring = EmptyRing
  /\ ~live /\ ~failed => ring = Window(Seen - begun + 1, Seen)

(* The buffer is what has been recorded live, after the last episode.      *)
BufferIs ==
  /\ Contiguous(buffer)
  /\ buffer # <<>> => begun <= buffer[1] /\ Last(buffer) <= ticks
  /\ ~live /\ Looping => buffer = <<>>
  /\ live /\ Looping /\ buffer # <<>> => Last(buffer) = Seen
  /\ pc = "mark" => buffer = <<>>

EpisodesAre ==
  /\ \A i \in 1..Len(episodes) : episodes[i] # <<>>
  /\ episodes # <<>> => LastSaved <= ticks
  /\ episodes # <<>> /\ pc \notin Ends => LastSaved < begun
  /\ EpisodesAreStretches

HighlightInv == Types /\ Places /\ RingIs /\ BufferIs /\ EpisodesAre

-----------------------------------------------------------------------------
(* Stretches of the rollout.                                               *)

(* A stretch stays one when the next frame is appended.                    *)
LEMMA AppendContiguous ==
  ASSUME NEW s \in Seq(Nat), NEW x \in Nat, Contiguous(s), s # <<>> => x = Last(s) + 1
  PROVE  /\ Append(s, x) \in Seq(Nat) /\ Append(s, x) # <<>> /\ Contiguous(Append(s, x))
         /\ Last(Append(s, x)) = x
         /\ Append(s, x)[1] = IF s = <<>> THEN x ELSE s[1]
<1> DEFINE a == Append(s, x)
<1>1. /\ a \in Seq(Nat) /\ a # <<>> /\ Len(a) = Len(s) + 1 /\ Len(s) \in Nat
      /\ \A i \in 1..Len(s) : a[i] = s[i]
      /\ a[Len(s) + 1] = x
  BY AppendProperties, LenProperties
<1>2. s = <<>> <=> Len(s) = 0
  BY EmptySeq
<1> HIDE DEF a
<1>3. ASSUME NEW i \in 1..(Len(a) - 1) PROVE a[i + 1] = a[i] + 1
  <2>1. CASE i = Len(s)
    BY <2>1, <1>1, <1>2 DEF Last
  <2>2. CASE i # Len(s)
    <3>1. i \in 1..(Len(s) - 1) /\ i + 1 \in 1..Len(s)
      BY <2>2, <1>1
    <3> QED BY <3>1, <1>1 DEF Contiguous
  <2> QED BY <2>1, <2>2
<1>4. Contiguous(a) /\ Last(a) = x
  BY <1>1, <1>3 DEF Contiguous, Last
<1>5. a[1] = IF s = <<>> THEN x ELSE s[1]
  BY <1>1, <1>2
<1> QED BY <1>1, <1>4, <1>5 DEF a

(* A window is a stretch that ends with its newest frame.                  *)
LEMMA WindowContiguous ==
  ASSUME NEW n \in Nat, NEW t \in Nat, n <= t, NEW k \in 0..Held(n)
  PROVE  LET s == SubSeq(Window(n, t).frames, 1, k) IN
         /\ s \in Seq(Nat) /\ Len(s) = k /\ Contiguous(s)
         /\ s # <<>> => t - n + 1 <= s[1] /\ Last(s) <= t
         /\ k = Held(n) => s = Window(n, t).frames /\ (s # <<>> => Last(s) = t)
<1> DEFINE w == Window(n, t).frames
           s == SubSeq(w, 1, k)
<1>1. /\ w \in Seq(Nat) /\ Len(w) = Held(n) /\ Held(n) \in Nat /\ Held(n) <= n
      /\ \A i \in 1..Held(n) : w[i] = t - Held(n) + i /\ w[i] \in Nat
  <2>1. w = [i \in 1..Held(n) |-> t - Held(n) + i]
    BY DEF Window
  <2>2. Held(n) \in Nat /\ Held(n) <= n
    BY HeldBounds
  <2>3. w \in [1..Held(n) -> Nat]
    BY <2>1, <2>2
  <2>4. w \in Seq(Nat) /\ Len(w) = Held(n)
    BY <2>2, <2>3, Enumerated
  <2>5. ASSUME NEW i \in 1..Held(n) PROVE w[i] = t - Held(n) + i /\ w[i] \in Nat
    BY <2>1, <2>3
  <2> HIDE DEF w
  <2> QED BY <2>2, <2>4, <2>5
<1> HIDE DEF w
<1>2. s \in Seq(Nat) /\ Len(s) = k /\ \A i \in 1..k : s[i] = t - Held(n) + i
  <2>1. \A i \in 1..k : w[i] \in Nat /\ w[i] = t - Held(n) + i
    BY <1>1
  <2>2. /\ s \in Seq(Nat) /\ Len(s) = IF 1 <= k THEN k - 1 + 1 ELSE 0
        /\ \A i \in 1..(k - 1 + 1) : s[i] = w[1 + i - 1]
    BY <2>1, <1>1, SubSeqProperties
  <2> HIDE DEF s
  <2>3. \A i \in 1..k : s[i] = w[i]
    BY <2>2, <1>1
  <2>4. Len(s) = k
    BY <2>2, <1>1
  <2> QED BY <2>1, <2>2, <2>3, <2>4
<1> HIDE DEF s
<1>3. Contiguous(s)
  <2>1. ASSUME NEW i \in 1..(k - 1) PROVE s[i + 1] = s[i] + 1
    <3>1. s[i + 1] = t - Held(n) + (i + 1) /\ s[i] = t - Held(n) + i
      BY <1>2, <1>1
    <3> QED BY <3>1, <1>1
  <2> QED BY <2>1, <1>2 DEF Contiguous
<1>4. s # <<>> => k >= 1
  BY <1>2, <1>1, EmptySeq
<1>5. s # <<>> => t - n + 1 <= s[1] /\ Last(s) = t - Held(n) + k
  BY <1>1, <1>2, <1>4 DEF Last
<1>6. k = Held(n) => s = w
  BY <1>1, <1>2, SeqEqual
<1>7. s # <<>> => Last(s) <= t /\ (k = Held(n) => Last(s) = t)
  BY <1>1, <1>5
<1> QED BY <1>1, <1>2, <1>3, <1>5, <1>6, <1>7 DEF s, w

-----------------------------------------------------------------------------
(* The initial state and the steps.                                        *)

(* Nothing is held, recorded or saved.                                     *)
LEMMA InitEstablishesHighlightInv ==
  ASSUME Init
  PROVE  HighlightInv
<1> USE DEF Init, WorkerInit
<1>1. ring = Window(0, 0)
  BY EmptyWindow
<1>2. Types
  <2>1. Flags
    BY Zenon DEF Flags
  <2>2. Counters
    BY DEF Counters
  <2>3. Data
    BY EmptySeq DEF Data, EmptyRing
  <2> QED BY <2>1, <2>2, <2>3 DEF Types
<1>3. Places /\ RingIs
  BY <1>1 DEF Places, RingIs, Fresh, Looping, Seen
<1>4. Len(buffer) = 0 /\ Len(episodes) = 0
  BY EmptySeq
<1>5. BufferIs /\ EpisodesAre
  BY <1>4 DEF BufferIs, EpisodesAre, EpisodesAreStretches, Contiguous
<1> QED BY <1>2, <1>3, <1>5 DEF HighlightInv

(* The steps that neither record nor drop a frame keep the data invariants,*)
(* given where they lead.                                                  *)
LEMMA QuietKeepsStretches ==
  ASSUME RingIs, BufferIs, EpisodesAre,
         UNCHANGED <<live, ring, ticks, begun, buffer, episodes>>,
         Fresh' = Fresh \/ live \/ failed',
         Looping' => Looping /\ Fresh' = Fresh,
         pc' # "mark" \/ pc = "mark",
         pc \in Ends => pc' \in Ends,
         failed => failed'
  PROVE  RingIs' /\ BufferIs' /\ EpisodesAre'
<1>1. RingIs'
  BY DEF RingIs, Seen
<1>2. BufferIs'
  BY DEF BufferIs, Seen
<1>3. EpisodesAre'
  BY DEF EpisodesAre, EpisodesAreStretches, LastSaved
<1> QED BY <1>1, <1>2, <1>3

(* Flags and program counters keep their types.                            *)
LEMMA FlagsTyped ==
  ASSUME Types, Next
  PROVE  Flags'
<1> USE DEF Types, Flags, Goto, keyVars, recVars, dataVars
<1>1. CASE Keys
  BY <1>1, Zenon DEF Keys, PressSave, PressPush, PressEscape
<1>2. CASE Loop
  BY <1>2, Zenon DEF Loop, CheckLoop, TickFails, Tick, SeeToggle, ClearToggle, FlushRing, FlushFails,
     StoreFrame
<1>3. CASE Save
  BY <1>3, Zenon DEF Save, SaveLock, SaveSucceeds, SaveFails, StopLive
<1>4. CASE Closing
  BY <1>4, Zenon DEF Closing, EnterTail, LeaveManager, Teardown, FinalPush, FinalPushFails
<1>5. CASE Upload
  BY <1>5, Zenon DEF Upload
<1> QED BY <1>1, <1>2, <1>3, <1>4, <1>5, Zenon DEF Next

(* Program counters, the lock and the counts keep their types.             *)
LEMMA CountersTyped ==
  ASSUME Types, Next
  PROVE  Counters'
<1> USE DEF Types, Counters, Goto, keyVars, recVars, dataVars, workerVars
<1>1. CASE Keys
  BY <1>1 DEF Keys, PressSave, PressPush, PressEscape
<1>2. CASE Loop
  BY <1>2 DEF Loop, CheckLoop, TickFails, Tick, SeeToggle, ClearToggle, FlushRing, FlushFails,
     StoreFrame, SubmitPush
<1>3. CASE Save
  BY <1>3 DEF Save, SaveLock, SaveSucceeds, SaveFails, StopLive
<1>4. CASE Closing
  BY <1>4 DEF Closing, EnterTail, LeaveManager, Teardown, FinalPush, FinalPushFails
<1>5. CASE Upload
  BY <1>5 DEF Upload, PushStart, PushLock, PushCheck, PushUploads, PushFails, PushDone
<1> QED BY <1>1, <1>2, <1>3, <1>4, <1>5 DEF Next

(* The Hub's copy keeps its type.                                          *)
LEMMA HubTyped ==
  ASSUME Types, Next
  PROVE  hub' \in [episodes : Nat, sealed : BOOLEAN]
<1>1. HubCopy(Len(episodes), finalized) \in [episodes : Nat, sealed : BOOLEAN]
  <2>1. Len(episodes) \in Nat /\ finalized \in BOOLEAN
    BY LenProperties, Zenon DEF Types, Data, Flags
  <2> QED BY <2>1, Zenon DEF HubCopy
<1>2. hub' = hub \/ hub' = HubCopy(Len(episodes), finalized)
  BY Zenon DEF Next, Keys, Loop, Save, Closing, Upload, PressSave, PressPush, PressEscape, CheckLoop,
     TickFails, Tick, SeeToggle, ClearToggle, FlushRing, FlushFails, StoreFrame, SubmitPush, SaveLock,
     SaveSucceeds, SaveFails, StopLive, EnterTail, LeaveManager, Teardown, FinalPush, FinalPushFails,
     PushStart, PushLock, PushCheck, PushUploads, PushFails, PushDone, workerVars
<1> QED BY <1>1, <1>2 DEF Types, Data

(* Places.                                                                 *)
LEMMA PlacesKept ==
  ASSUME Types, Places, Next
  PROVE  Places'
<1> USE DEF Types, Counters, Places, Fresh, Looping, Goto, keyVars, recVars, dataVars
<1>1. CASE Keys \/ Upload
  <2>1. UNCHANGED <<pc, back, live, ticks, begun, failed>>
    BY <1>1 DEF Keys, PressSave, PressPush, PressEscape, Upload
  <2> QED BY <2>1
<1>2. CASE Loop
  BY <1>2 DEF Loop, CheckLoop, TickFails, Tick, SeeToggle, ClearToggle, FlushRing, FlushFails,
     StoreFrame
<1>3. CASE Save
  BY <1>3 DEF Save, SaveLock, SaveSucceeds, SaveFails, StopLive
<1>4. CASE Closing
  BY <1>4 DEF Closing, EnterTail, LeaveManager, Teardown, FinalPush, FinalPushFails
<1> QED BY <1>1, <1>2, <1>3, <1>4 DEF Next

-----------------------------------------------------------------------------
(* The steps that count, record or save a frame.                           *)

DataTypes ==
  ring \in [frames : Seq(Nat), bytes : Nat] /\ buffer \in Seq(Nat) /\ episodes \in Seq(Seq(Nat))

Kept == DataTypes /\ RingIs /\ BufferIs /\ EpisodesAre

(* The last frame of the last episode is a number: no episode is empty.    *)
LEMMA LastSavedTyped ==
  ASSUME episodes \in Seq(Seq(Nat)), EpisodesAre, episodes # <<>>
  PROVE  LastSaved \in Nat
<1>1. Len(episodes) \in 1..Len(episodes)
  BY EmptySeq
<1>2. episodes[Len(episodes)] \in Seq(Nat) /\ episodes[Len(episodes)] # <<>>
  BY <1>1, ElementOfSeq DEF EpisodesAre
<1> QED BY <1>2, EmptySeq, ElementOfSeq DEF Last, LastSaved

(* A new frame of the policy is counted and not yet kept.                  *)
LEMMA TickKeeps ==
  ASSUME HighlightInv, Tick
  PROVE  Kept'
<1> USE DEF HighlightInv, Types, Counters, Data, Tick, dataVars
<1>1. UNCHANGED <<live, ring, begun, buffer, episodes, failed>> /\ pc = "tick"
  OBVIOUS
<1>2. ticks' >= ticks /\ Seen' = Seen /\ Looping /\ Looping' /\ pc' \notin {"mark", "flush"}
  <2>1. pc = "tick" /\ ((pc' = "check" /\ ticks' = ticks) \/ (pc' = "record" /\ ticks' = ticks + 1))
    BY Zenon
  <2> QED BY ONLY <2>1, ticks \in Nat DEF Seen, Fresh, Looping
<1>3. RingIs'
  BY <1>1, <1>2 DEF RingIs
<1>4. Len(buffer) \in Nat /\ (buffer # <<>> => Last(buffer) \in Nat)
  BY LenProperties, EmptySeq, ElementOfSeq DEF Last
<1>5. BufferIs'
  BY <1>1, <1>2, <1>4 DEF BufferIs, Contiguous, Last
<1>6. episodes # <<>> => LastSaved \in Nat
  BY LastSavedTyped
<1>7. EpisodesAre'
  BY <1>1, <1>2, <1>6 DEF EpisodesAre, EpisodesAreStretches, Contiguous, LastSaved, Last, Ends
<1> QED BY <1>1, <1>3, <1>5, <1>7 DEF Kept, DataTypes

(* A recorded frame goes on where the buffer ends.                         *)
LEMMA RecordKeeps ==
  ASSUME HighlightInv, Fresh, live, buffer' = Append(buffer, ticks),
         UNCHANGED <<live, ring, ticks, begun, episodes>>,
         Seen' = ticks, pc' # "mark", failed => failed'
  PROVE  Kept'
<1> USE DEF HighlightInv, Types, Counters, Data
<1>1. ticks \in Nat /\ buffer \in Seq(Nat) /\ Looping /\ Seen = ticks - 1 /\ begun <= ticks
  BY DEF Looping, Seen, Places
<1>2. Contiguous(buffer) /\ (buffer # <<>> => ticks = Last(buffer) + 1)
  <2>1. buffer # <<>> => Last(buffer) = ticks - 1 /\ Last(buffer) \in Nat
    BY <1>1, EmptySeq, ElementOfSeq DEF BufferIs, Last
  <2> QED BY <1>1, <2>1 DEF BufferIs
<1>3. /\ buffer' \in Seq(Nat) /\ buffer' # <<>> /\ Contiguous(buffer') /\ Last(buffer') = ticks
      /\ buffer'[1] = IF buffer = <<>> THEN ticks ELSE buffer[1]
  BY <1>1, <1>2, AppendContiguous
<1>4. begun <= buffer'[1]
  BY <1>1, <1>3 DEF BufferIs
<1>5. BufferIs'
  <2>1. UNCHANGED <<live, begun, ticks>> /\ Seen' = ticks /\ pc' # "mark" /\ live /\ ticks <= ticks
    OBVIOUS
  <2> QED BY ONLY <1>3, <1>4, <2>1 DEF BufferIs, Contiguous, Last
<1>6. RingIs'
  BY DEF RingIs
<1>7. EpisodesAre'
  <2>1. episodes # <<>> => LastSaved < begun /\ LastSaved <= ticks
    BY DEF EpisodesAre, Ends, Fresh
  <2>2. episodes # <<>> => LastSaved < buffer'[1]
    <3>1. episodes # <<>> => LastSaved \in Nat
      BY LastSavedTyped
    <3>2. buffer'[1] \in Nat
      BY <1>3, EmptySeq, ElementOfSeq
    <3> QED BY <2>1, <3>1, <3>2, <1>4, <1>1
  <2> QED BY <2>1, <2>2, <1>3 DEF EpisodesAre, EpisodesAreStretches, Contiguous, LastSaved, Last
<1> QED BY <1>3, <1>5, <1>6, <1>7 DEF Kept, DataTypes

(* The frames of the ring, all or the first of them, become the buffer.    *)
LEMMA FlushKeeps ==
  ASSUME HighlightInv, FlushRing \/ FlushFails
  PROVE  Kept'
<1> USE DEF HighlightInv, Types, Counters, Data, Goto
<1> DEFINE n == Seen - begun + 1
<1>1. /\ ~live /\ ~failed /\ Looping /\ Fresh /\ buffer = <<>> /\ Seen = ticks - 1
      /\ ring = Window(n, Seen) /\ n \in Nat /\ Seen \in Nat /\ n <= Seen
  BY DEF FlushRing, FlushFails, Places, RingIs, BufferIs, Looping, Fresh, Seen
<1>2. PICK k \in 0..Held(n) : /\ buffer' = SubSeq(Window(n, Seen).frames, 1, k)
                              /\ FlushRing => k = Held(n)
  <2>1. Len(ring.frames) = Held(n)
    BY <1>1, HeldBounds DEF Window
  <2>2. \A q \in Seq(Nat) : <<>> \o q = q
    BY ConcatEmptySeq
  <2>3. \A k \in 0..Held(n) : SubSeq(Window(n, Seen).frames, 1, k) \in Seq(Nat)
    BY <1>1, WindowContiguous
  <2>4. Held(n) \in 0..Held(n)
    BY <1>1, HeldBounds
  <2>5. CASE FlushRing
    <3>1. buffer' = ring.frames
      BY <2>5, <1>1, <2>2 DEF FlushRing
    <3>2. SubSeq(Window(n, Seen).frames, 1, Held(n)) = Window(n, Seen).frames
      BY <1>1, <2>4, WindowContiguous
    <3> HIDE DEF n
    <3> QED BY <3>1, <3>2, <2>4, <1>1
  <2>6. CASE FlushFails /\ ~FlushRing
    <3>1. PICK k \in 0..Len(ring.frames) : buffer' = buffer \o SubSeq(ring.frames, 1, k)
      BY <2>6 DEF FlushFails
    <3> HIDE DEF n
    <3> QED BY <3>1, <2>1, <2>2, <2>3, <2>6, <1>1
  <2> QED BY <2>5, <2>6
<1> HIDE DEF n
<1>3. /\ buffer' \in Seq(Nat) /\ Contiguous(buffer')
      /\ buffer' # <<>> => Seen - n + 1 <= buffer'[1] /\ Last(buffer') <= Seen
      /\ FlushRing => (buffer' # <<>> => Last(buffer') = Seen)
  <2> DEFINE q == SubSeq(Window(n, Seen).frames, 1, k)
  <2>1. /\ q \in Seq(Nat) /\ Contiguous(q)
        /\ q # <<>> => Seen - n + 1 <= q[1] /\ Last(q) <= Seen
        /\ k = Held(n) => (q # <<>> => Last(q) = Seen)
    <3>1. n \in Nat /\ Seen \in Nat /\ n <= Seen /\ k \in 0..Held(n)
      BY <1>1
    <3> QED BY ONLY <3>1, WindowContiguous, Zenon
  <2>2. buffer' = q /\ (FlushRing => k = Held(n))
    BY <1>2
  <2> HIDE DEF q
  <2> QED BY ONLY <2>1, <2>2
<1>4. /\ UNCHANGED <<ticks, begun, episodes>> /\ ring' = EmptyRing
      /\ (FlushRing /\ live' /\ pc' = "store") \/ (failed' /\ pc' = "tail")
  <2>1. CASE FlushRing
    BY ONLY <2>1, Zenon DEF FlushRing, Goto
  <2>2. CASE FlushFails
    BY ONLY <2>2, Zenon DEF FlushFails, Goto
  <2> QED BY <2>1, <2>2, Zenon
<1>5. /\ Seen - n + 1 = begun /\ ticks = Seen + 1
  BY <1>1 DEF n
<1>6. buffer' # <<>> => buffer'[1] \in Nat /\ Last(buffer') \in Nat
  BY <1>3, EmptySeq, ElementOfSeq DEF Last
<1>7. buffer' # <<>> => begun <= buffer'[1] /\ Last(buffer') <= ticks
  BY <1>3, <1>5, <1>6, <1>1
<1>8. BufferIs'
  <2>1. Seen' = IF pc' = "store" THEN ticks - 1 ELSE ticks
    BY <1>4 DEF Seen, Fresh
  <2>2. pc' = "tail" => ~Looping'
    BY DEF Looping, Fresh
  <2> QED BY <1>1, <1>3, <1>4, <1>7, <2>1, <2>2 DEF BufferIs, Contiguous, Last
<1>9. RingIs'
  BY <1>4 DEF RingIs
<1>10. EpisodesAre'
  <2>1. episodes # <<>> => LastSaved < begun /\ LastSaved <= ticks
    BY <1>1 DEF EpisodesAre, Ends, Fresh
  <2>2. episodes # <<>> => LastSaved \in Nat
    BY LastSavedTyped
  <2>3. episodes # <<>> /\ buffer' # <<>> => LastSaved < buffer'[1]
    BY <2>1, <2>2, <1>6, <1>7
  <2> QED BY <2>1, <2>3, <1>3, <1>4 DEF EpisodesAre, EpisodesAreStretches, Contiguous, LastSaved, Last
<1>11. ring' \in [frames : Seq(Nat), bytes : Nat]
  BY <1>4, EmptySeq DEF EmptyRing
<1> QED BY <1>3, <1>4, <1>8, <1>9, <1>10, <1>11 DEF Kept, DataTypes

(* The frame goes to the buffer of a live recording, else to the ring.     *)
LEMMA StoreKeeps ==
  ASSUME HighlightInv, StoreFrame
  PROVE  Kept'
<1>1. /\ Fresh /\ ~Fresh' /\ pc' = "check" /\ Seen' = ticks'
      /\ UNCHANGED <<live, ticks, begun, episodes, failed>>
  BY DEF StoreFrame, Goto, Fresh, Seen, dataVars
<1>2. CASE live
  <2>1. buffer' = Append(buffer, ticks) /\ ring' = ring
    BY <1>2 DEF StoreFrame
  <2> QED BY <1>1, <1>2, <2>1, RecordKeeps
<1>3. CASE ~live
  <2>1. buffer' = buffer /\ ring' = AppendFrame(ring, ticks)
    BY <1>3 DEF StoreFrame
  <2>2. /\ ~failed /\ ring = Window(ticks - 1 - begun + 1, ticks - 1) /\ begun <= ticks
        /\ ticks \in Nat /\ begun \in Nat \ {0} /\ buffer = <<>>
    BY <1>1, <1>3 DEF HighlightInv, Types, Counters, Places, Looping, RingIs, Seen, BufferIs
  <2> DEFINE n == ticks - 1 - begun + 1
             t == ticks - 1
             m == ticks - begun + 1
  <2>3. n \in Nat /\ t \in Nat /\ m \in Nat /\ n <= t /\ m <= ticks /\ m = n + 1 /\ ticks = t + 1
    BY <2>2
  <2>4. ring' = Window(m, ticks)
    <3> HIDE DEF n, t, m
    <3>1. ring = Window(n, t)
      BY <2>2 DEF n, t
    <3> QED BY <2>1, <2>2, <2>3, <3>1, AppendKeepsWindow
  <2>5. ring' \in [frames : Seq(Nat), bytes : Nat]
    <3> HIDE DEF m
    <3> QED BY <2>2, <2>3, <2>4, WindowTyped
  <2>6. RingIs'
    BY <1>1, <1>3, <2>4 DEF RingIs
  <2>7. BufferIs'
    BY <1>1, <1>3, <2>1, <2>2 DEF HighlightInv, BufferIs, Contiguous
  <2>8. EpisodesAre'
    BY <1>1, <2>1, <2>2 DEF HighlightInv, EpisodesAre, EpisodesAreStretches, Contiguous, LastSaved,
                             Last, Ends, Fresh
  <2>9. buffer' \in Seq(Nat) /\ episodes' \in Seq(Seq(Nat))
    BY <1>1, <2>1 DEF HighlightInv, Types, Data
  <2> QED BY <2>5, <2>6, <2>7, <2>8, <2>9 DEF Kept, DataTypes
<1> QED BY <1>2, <1>3

(* The saved buffer is later than every episode before it.                 *)
LEMMA SaveKeeps ==
  ASSUME HighlightInv, SaveSucceeds
  PROVE  Kept'
<1> DEFINE e == Append(episodes, buffer)
<1>1. /\ pc = "saving" /\ live /\ buffer # <<>> /\ buffer' = <<>> /\ episodes' = e
      /\ UNCHANGED <<live, ring, ticks, begun, failed>> /\ pc' \in {"mark", "exit"}
  BY DEF SaveSucceeds, Goto, HighlightInv, Places, recVars
<1>2. /\ episodes \in Seq(Seq(Nat)) /\ buffer \in Seq(Nat) /\ ticks \in Nat /\ begun \in Nat
      /\ ring \in [frames : Seq(Nat), bytes : Nat]
  BY DEF HighlightInv, Types, Data, Counters
<1>3. Contiguous(buffer) /\ begun <= buffer[1] /\ Last(buffer) <= ticks /\ buffer[1] \in Nat
  BY <1>1, <1>2, EmptySeq, ElementOfSeq DEF HighlightInv, BufferIs
<1>4. episodes # <<>> => LastSaved < buffer[1]
  <2>1. episodes # <<>> => LastSaved < begun /\ LastSaved \in Nat
    BY <1>1, <1>2, LastSavedTyped DEF HighlightInv, EpisodesAre, Ends
  <2> QED BY <2>1, <1>2, <1>3
<1>5. /\ e \in Seq(Seq(Nat)) /\ e # <<>> /\ Len(e) = Len(episodes) + 1 /\ Len(episodes) \in Nat
      /\ \A i \in 1..Len(episodes) : e[i] = episodes[i]
      /\ e[Len(e)] = buffer
  BY <1>2, AppendProperties, LenProperties
<1> HIDE DEF e
<1>6. \A i \in 1..Len(e) : e[i] # <<>> /\ Contiguous(e[i])
  <2> SUFFICES ASSUME NEW i \in 1..Len(e) PROVE e[i] # <<>> /\ Contiguous(e[i])
    OBVIOUS
  <2>1. CASE i = Len(e)
    BY <2>1, <1>1, <1>3, <1>5
  <2>2. CASE i # Len(e)
    <3>1. i \in 1..Len(episodes) /\ e[i] = episodes[i]
      BY <2>2, <1>5
    <3> QED BY <3>1 DEF HighlightInv, EpisodesAre, EpisodesAreStretches
  <2> QED BY <2>1, <2>2
<1>7. ASSUME NEW i \in 1..(Len(e) - 1) PROVE e[i][Len(e[i])] < e[i + 1][1]
  <2>1. CASE i = Len(episodes)
    <3>1. e[i] = episodes[Len(episodes)] /\ e[i + 1] = buffer /\ episodes # <<>>
      BY <2>1, <1>5, EmptySeq
    <3> QED BY <3>1, <1>4 DEF LastSaved, Last
  <2>2. CASE i # Len(episodes)
    <3>1. i \in 1..(Len(episodes) - 1) /\ i + 1 \in 1..Len(episodes)
      BY <2>2, <1>5
    <3>2. episodes[i][Len(episodes[i])] < episodes[i + 1][1]
      BY <3>1 DEF HighlightInv, EpisodesAre, EpisodesAreStretches
    <3>3. e[i] = episodes[i] /\ e[i + 1] = episodes[i + 1]
      BY <3>1, <1>5
    <3> QED BY <3>2, <3>3
  <2> QED BY <2>1, <2>2
<1>8. Len(buffer') = 0
  BY <1>1, EmptySeq
<1>9. BufferIs'
  BY <1>1, <1>8 DEF BufferIs, Contiguous
<1>10. RingIs'
  BY <1>1 DEF HighlightInv, RingIs
<1>11. EpisodesAre'
  <2>1. LastSaved' <= ticks'
    BY <1>1, <1>3, <1>5 DEF LastSaved, Last
  <2>2. pc' \in Ends
    BY <1>1 DEF Ends
  <2>3. Contiguous(buffer)'
    BY <1>8 DEF Contiguous
  <2> QED BY <1>1, <1>6, <1>7, <2>1, <2>2, <2>3 DEF EpisodesAre, EpisodesAreStretches, Contiguous, Ends
<1> QED BY <1>1, <1>2, <1>5, <1>9, <1>10, <1>11, EmptySeq DEF Kept, DataTypes

(* The window starts anew, empty, after the frame that ended the episode.  *)
LEMMA StopKeeps ==
  ASSUME HighlightInv, StopLive
  PROVE  Kept'
<1>1. /\ live /\ ~live' /\ ring = EmptyRing /\ buffer = <<>> /\ pc' = "check" /\ begun' = ticks + 1
      /\ UNCHANGED <<ring, ticks, buffer, episodes, failed>> /\ Seen' = ticks'
  BY DEF StopLive, Goto, HighlightInv, Places, RingIs, BufferIs, dataVars, Seen, Fresh
<1>2. /\ episodes \in Seq(Seq(Nat)) /\ buffer \in Seq(Nat) /\ ticks \in Nat
      /\ ring \in [frames : Seq(Nat), bytes : Nat]
  BY DEF HighlightInv, Types, Data, Counters
<1>3. RingIs'
  <2>1. ticks - (ticks + 1) + 1 = 0
    BY <1>2
  <2> QED BY <1>1, <1>2, <2>1, EmptyWindow DEF RingIs
<1>4. BufferIs'
  BY <1>1 DEF HighlightInv, BufferIs, Contiguous
<1>5. EpisodesAre'
  <2>1. episodes # <<>> => LastSaved \in Nat /\ LastSaved <= ticks
    BY <1>2, LastSavedTyped DEF HighlightInv, EpisodesAre
  <2>2. episodes # <<>> => LastSaved < begun'
    BY <2>1, <1>1, <1>2
  <2> QED BY <1>1, <2>1, <2>2 DEF HighlightInv, EpisodesAre, EpisodesAreStretches, LastSaved, Last
<1> QED BY <1>1, <1>2, <1>3, <1>4, <1>5 DEF Kept, DataTypes

(* Every step keeps the ring, the buffer and the episodes as they must be. *)
LEMMA NextKeeps ==
  ASSUME HighlightInv, Next
  PROVE  Kept'
<1> DEFINE Quiet ==
      /\ UNCHANGED <<live, ring, ticks, begun, buffer, episodes>>
      /\ Fresh' = Fresh \/ live \/ failed'
      /\ Looping' => Looping /\ Fresh' = Fresh
      /\ pc' # "mark" \/ pc = "mark"
      /\ pc \in Ends => pc' \in Ends
      /\ failed => failed'
<1>1. ASSUME Quiet PROVE Kept'
  <2>1. RingIs' /\ BufferIs' /\ EpisodesAre'
    BY <1>1, QuietKeepsStretches DEF HighlightInv
  <2> QED BY <1>1, <2>1 DEF HighlightInv, Types, Data, Kept, DataTypes
<1>2. CASE Tick
  BY <1>2, TickKeeps
<1>3. CASE FlushRing \/ FlushFails
  BY <1>3, FlushKeeps
<1>4. CASE StoreFrame
  BY <1>4, StoreKeeps
<1>5. CASE SaveSucceeds
  BY <1>5, SaveKeeps
<1>6. CASE StopLive
  BY <1>6, StopKeeps
<1>7. CASE ClearToggle
  <2>1. CASE live
    <3>1. /\ Fresh /\ buffer' = Append(buffer, ticks) /\ UNCHANGED <<live, ring, ticks, begun, episodes>>
          /\ Seen' = ticks /\ pc' # "mark" /\ failed' = failed
      BY <1>7, <2>1 DEF ClearToggle, Goto, Fresh, Seen, recVars
    <3> QED BY <2>1, <3>1, RecordKeeps
  <2>2. CASE ~live
    <3>1. Quiet
      BY <1>7, <2>2 DEF ClearToggle, Goto, Fresh, Looping, Ends, recVars
    <3> HIDE DEF Quiet
    <3> QED BY <1>1, <3>1
  <2> QED BY <2>1, <2>2
<1>8. CASE Keys \/ Upload
  <2>1. Quiet
    <3>1. UNCHANGED <<pc, live, ring, ticks, begun, buffer, episodes, failed>>
      BY <1>8, Zenon DEF Keys, PressSave, PressPush, PressEscape, Upload, recVars, dataVars
    <3> QED BY <3>1, Zenon DEF Fresh, Looping, Ends
  <2> HIDE DEF Quiet
  <2> QED BY <1>1, <2>1
<1>9. CASE CheckLoop \/ TickFails \/ SeeToggle
  <2>1. Quiet
    BY <1>9 DEF CheckLoop, TickFails, SeeToggle, Goto, Fresh, Looping, Ends, recVars, dataVars
  <2> HIDE DEF Quiet
  <2> QED BY <1>1, <2>1
<1>10. CASE SaveLock \/ SaveFails
  <2>1. Quiet
    BY <1>10 DEF SaveLock, SaveFails, Goto, Fresh, Looping, Ends, recVars, dataVars
  <2> HIDE DEF Quiet
  <2> QED BY <1>1, <2>1
<1>11. CASE Closing
  <2>1. Quiet
    BY <1>11 DEF Closing, EnterTail, LeaveManager, Teardown, FinalPush, FinalPushFails, Goto, Fresh,
                 Looping, Ends, recVars, dataVars
  <2> HIDE DEF Quiet
  <2> QED BY <1>1, <2>1
<1> QED BY <1>2, <1>3, <1>4, <1>5, <1>6, <1>7, <1>8, <1>9, <1>10, <1>11 DEF Next, Loop, Save

-----------------------------------------------------------------------------
(* Every step keeps the invariant.                                         *)
LEMMA HighlightInvKept ==
  ASSUME HighlightInv, [Next]_vars
  PROVE  HighlightInv'
<1>1. CASE Next
  <2>1. Flags' /\ Counters' /\ hub' \in [episodes : Nat, sealed : BOOLEAN]
    BY <1>1, FlagsTyped, CountersTyped, HubTyped DEF HighlightInv
  <2>2. Places'
    BY <1>1, PlacesKept DEF HighlightInv
  <2>3. Kept'
    BY <1>1, NextKeeps
  <2> QED BY <2>1, <2>2, <2>3, Zenon DEF HighlightInv, Kept, DataTypes, Types, Data
<1>2. CASE UNCHANGED vars
  <2> USE <1>2 DEF vars, keyVars, recVars, dataVars, workerVars
  <2>1. Types'
    <3>1. Flags'
      BY Zenon DEF HighlightInv, Types, Flags
    <3>2. Counters'
      BY DEF HighlightInv, Types, Counters
    <3>3. Data'
      BY Zenon DEF HighlightInv, Types, Data
    <3> QED BY <3>1, <3>2, <3>3 DEF Types
  <2>3. Places'
    BY Zenon DEF HighlightInv, Places, Fresh, Looping
  <2>2. RingIs' /\ BufferIs' /\ EpisodesAre'
    BY Zenon DEF HighlightInv, RingIs, BufferIs, EpisodesAre, EpisodesAreStretches, LastSaved,
                 Seen, Fresh, Looping
  <2> QED BY <2>1, <2>2, <2>3, Zenon DEF HighlightInv
<1> QED BY <1>1, <1>2

(* HighlightInv holds in every reachable state of HighlightStrategy.       *)
THEOREM HighlightInductive == Spec => []HighlightInv
<1>1. Init => HighlightInv
  BY InitEstablishesHighlightInv
<1>2. HighlightInv /\ [Next]_vars => HighlightInv'
  BY HighlightInvKept
<1> QED BY <1>1, <1>2, PTL DEF Spec

(* Every variable keeps its type, however long the session lasts.          *)
THEOREM HighlightTypeCorrect == Spec => []TypeOK
<1>1. HighlightInv => TypeOK
  BY TypesAreTypeOK DEF HighlightInv
<1> QED BY <1>1, HighlightInductive, PTL

(* Every episode is an unbroken stretch of the rollout and no frame is in  *)
(* two of them, whatever is pressed, fails or is uploaded meanwhile.       *)
THEOREM StretchesUnbroken == Spec => []EpisodesAreStretches
<1>1. HighlightInv => EpisodesAreStretches
  BY DEF HighlightInv, EpisodesAre
<1> QED BY <1>1, HighlightInductive, PTL

(* What the invariant says of the ring is what RingKeepsWindow says.       *)
LEMMA InvKeepsWindow ==
  ASSUME HighlightInv
  PROVE  RingKeepsWindow
<1> SUFFICES ASSUME HighlightInv, ~live, ~failed, pc = "check"
             PROVE  LET held == Smallest({ticks - begun + 1, MaxFrames, MaxBytes \div FrameBytes})
                    IN ring.frames = [i \in 1..held |-> ticks - held + i]
  BY DEF RingKeepsWindow
<1>1. ring = Window(ticks - begun + 1, ticks) /\ ticks - begun + 1 \in Nat /\ ticks \in Nat
  BY DEF HighlightInv, Types, Counters, Places, RingIs, Seen, Fresh
<1>2. Smallest({ticks - begun + 1, MaxFrames, MaxBytes \div FrameBytes}) = Held(ticks - begun + 1)
  BY <1>1, SmallestIsHeld
<1> QED BY <1>1, <1>2 DEF Window

(* The ring holds the newest frames, as many as fit both limits: the bytes *)
(* it does not take off its count never cost a frame, for any sizes.       *)
THEOREM RingHoldsWindow == Spec => []RingKeepsWindow
<1>1. HighlightInv => RingKeepsWindow
  BY InvKeepsWindow
<1> QED BY <1>1, HighlightInductive, PTL

=============================================================================
