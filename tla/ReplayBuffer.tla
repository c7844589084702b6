---------------------------- MODULE ReplayBuffer ----------------------------
(***************************************************************************)
(* The replay buffers of the learner (rl/buffer.py, ReplayBuffer with      *)
(* optimize_memory, as rl/learner.py always builds it): a ring of          *)
(* transitions that does not store next states.  The next state of a       *)
(* sampled transition is the state in the slot after it.                   *)
(*                                                                         *)
(* A transition names the observations it leads from and to; the buffer    *)
(* keeps "next" only in this model, to compare what sample() derives.      *)
(***************************************************************************)
LOCAL INSTANCE Integers

CONSTANTS
  Capacity,      (* capacity of a buffer                                   *)
  OfflineFrames  (* length of the demonstration the offline one starts with *)

ASSUME BufferAssumption ==
  /\ Capacity \in Nat \ {0} /\ OfflineFrames \in 1..Capacity

Ends == {"none", "done", "truncated"}

Nothing == [state |-> 0, next |-> 0, end |-> "none"]

EmptyBuffer == [slots |-> [i \in 0..(Capacity - 1) |-> Nothing], position |-> 0, size |-> 0]

AddTransition(b, t) ==
  [slots    |-> [b.slots EXCEPT ![b.position] = [state |-> t.state, next |-> t.next, end |-> t.end]],
   position |-> (b.position + 1) % Capacity,
   size     |-> IF b.size < Capacity THEN b.size + 1 ELSE Capacity]

(* from_lerobot_dataset(): one demonstration of the frames 1..OfflineFrames; *)
(* its last frame is done and leads to itself.                             *)
FromDataset ==
  [slots |-> [i \in 0..(Capacity - 1) |->
                IF i < OfflineFrames - 1 THEN [state |-> i + 1, next |-> i + 2, end |-> "none"]
                ELSE IF i = OfflineFrames - 1 THEN [state |-> i + 1, next |-> i + 1, end |-> "done"]
                ELSE Nothing],
   position |-> OfflineFrames % Capacity,
   size     |-> OfflineFrames]

\* A faulty variant: the newest transition is drawn before the ring is full.
SampledWithNewest(b) == 0..(b.size - 1)

(* The slots sample() draws from: all but the newest until the ring is full. *)
Sampled(b) ==
  IF b.size < Capacity THEN 0..(b.size - 2) ELSE 0..(Capacity - 1)

SampledNext(b, i) == b.slots[(i + 1) % Capacity].state

(* The slot written last.                                                  *)
Newest(b) == (b.position - 1) % Capacity

(* A sample the critic bootstraps from leads where the rollout went, unless *)
(* its episode was truncated, it is the newest of a full ring, or what came *)
(* next was never stored.                                                   *)
NextIsSuccessor(b, missing) ==
  \A i \in Sampled(b) :
    \/ b.slots[i].end # "none"
    \/ b.size = Capacity /\ i = Newest(b)
    \/ b.slots[i].next \in missing
    \/ SampledNext(b, i) = b.slots[i].next

=============================================================================
