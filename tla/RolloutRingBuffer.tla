------------------------- MODULE RolloutRingBuffer -------------------------
(***************************************************************************)
(* The frame buffer of the highlight strategy (rollout/ring_buffer.py): a  *)
(* deque of at most MaxFrames frames, kept under MaxBytes by a running     *)
(* count of bytes.  A buffer is [frames, bytes].  All frames of a session  *)
(* have the same features, hence the same size FrameBytes.                 *)
(***************************************************************************)
EXTENDS Integers, Sequences

CONSTANTS
  MaxFrames,  (* int(max_seconds * fps)                                    *)
  MaxBytes,   (* the memory cap                                            *)
  FrameBytes  (* _estimate_frame_bytes of a frame: at least 1              *)

ASSUME RingAssumption ==
  /\ MaxFrames \in Nat \ {0} /\ FrameBytes \in Nat \ {0}
  /\ MaxBytes \in Nat /\ MaxBytes >= FrameBytes

EmptyRing == [frames |-> <<>>, bytes |-> 0]

\* How many frames the eviction loop drops to make room for one more.
Evicted(ring) ==
  LET fits(k) == ring.bytes - k * FrameBytes + FrameBytes <= MaxBytes
  IN CHOOSE k \in 0..Len(ring.frames) :
       /\ fits(k) \/ k = Len(ring.frames)
       /\ \A j \in 0..(k - 1) : ~fits(j)

\* A deque with a maxlen drops its first element when it is full.
Pushed(frames, f) ==
  Append(IF Len(frames) = MaxFrames THEN Tail(frames) ELSE frames, f)

\* Faulty variant: the loop stops one frame late.
AppendUnderCap(ring, f) ==
  LET k == IF Evicted(ring) > 0 THEN Len(ring.frames) ELSE 0
  IN [frames |-> Pushed(SubSeq(ring.frames, k + 1, Len(ring.frames)), f),
      bytes  |-> ring.bytes - k * FrameBytes + FrameBytes]

\* append(): the frames dropped by the deque are not taken off the count.
AppendFrame(ring, f) ==
  LET k == Evicted(ring)
  IN [frames |-> Pushed(SubSeq(ring.frames, k + 1, Len(ring.frames)), f),
      bytes  |-> ring.bytes - k * FrameBytes + FrameBytes]

=============================================================================
