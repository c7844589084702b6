---------------------------- MODULE Policy_proofs ----------------------------
(***************************************************************************)
(* Proofs about RTCEngine, about DemoMatcher and about their composition   *)
(* with ActorLearner in MCRTC.                                             *)
(*                                                                         *)
(* RTCEngine, for every size of chunk, threshold, trained delay and number *)
(* of warmups, and any set of instructions.  The inductive invariant has   *)
(* two halves.  ThreadInv is about the program counters, the epoch and the *)
(* locals of the RTC thread: which facts read in one critical section are  *)
(* still true in a later one.  QueueInv is about the actions in the queue  *)
(* and the one sent last.                                                  *)
(*                                                                         *)
(* DemoMatcher, for every band, window, penalty and set of costs.  What    *)
(* the matcher keeps is one row; the invariant says what the row is worth  *)
(* (Optimal): on top of the offset, the cost of the cheapest path to each  *)
(* chunk that a path reaches.  Sums and the time grid are defined by       *)
(* recursion; what is shown of them is shown by induction over the set of  *)
(* numbers for which it holds.                                             *)
(***************************************************************************)
EXTENDS MCRTC, ActorLearner_proofs, FiniteSetTheorems, WellFoundedInduction

Actions == [chunk : Nat, step : Nat, task : Instructions, epoch : Nat, warm : BOOLEAN]

(* What may stand in a field before an instruction is known.               *)
Noted == Instructions \cup {""}

Sent == [chunk : Nat, step : Nat, task : Noted, epoch : Nat, warm : BOOLEAN]

Locals == [obs : Nat, epoch : Nat, prev : Nat, delay : Nat, task : Noted,
           measured : Nat, warm : BOOLEAN]

-----------------------------------------------------------------------------
(* The threads.                                                            *)

Scalars ==
  /\ mode \in Modes
  /\ task \in Instructions /\ dispatched \in Instructions
  /\ epoch \in 1..(MaxResets + 1)
  /\ cpc \in {"idle", "reset", "discard", "resume", "notify", "act", "flush", "flushed"}
  /\ rpc \in {"top", "size", "leftover", "task", "predict", "merge", "warm", "dead"}
  /\ count \in 0..MaxChunks /\ errors \in 0..MaxErrors /\ discards \in 0..MaxDiscards
  /\ maxLatency \in Nat
  /\ loc \in Locals

Flags ==
  /\ taskChanged \in BOOLEAN /\ active \in BOOLEAN /\ warmDone \in BOOLEAN
  /\ flushed \in BOOLEAN /\ failed \in BOOLEAN

(* What the guards promise about the counters further on.                  *)
Margins ==
  /\ cpc \in {"reset", "flush"} => epoch <= MaxResets
  /\ rpc \in {"leftover", "task", "predict"} => count < MaxChunks
  /\ rpc = "merge" => count >= 1
  /\ rpc # "dead" => errors < MaxErrors /\ discards < MaxDiscards

(* The held observation is of the current epoch, and the one an inference  *)
(* works on is of the epoch it has noted.                                  *)
OneEpoch ==
  /\ obs = None \/ obs = epoch
  /\ rpc \in {"size", "leftover", "task", "predict", "merge"} => loc.obs = loc.epoch

(* The instruction an inference runs under is known before it begins.      *)
TaskTaken == rpc \in {"predict", "merge"} => loc.task \in Instructions

(* A trained prefix never exceeds the training or the actions left over.   *)
PrefixClamped ==
  rpc \in {"task", "predict", "merge"} /\ mode = "trained" =>
    loc.delay <= TrainMax /\ loc.delay <= loc.prev

(* Once the warmup is over no further chunk is a warmup chunk.             *)
WarmupIsPast ==
  /\ rpc = "merge" /\ loc.warm => count <= Warmups
  /\ warmDone => rpc = "dead" \/ (count >= Warmups /\ (rpc = "merge" => ~loc.warm))
  /\ flushed \/ cpc \in {"flush", "flushed"} => warmDone

ThreadInv ==
  /\ Scalars /\ Flags /\ Margins /\ OneEpoch /\ TaskTaken /\ PrefixClamped /\ WarmupIsPast
  /\ TrainedPrefixIsBacked

-----------------------------------------------------------------------------
(* The queue.                                                              *)

QueueTypes ==
  /\ queue \in Seq(Actions) /\ labels \in Seq(Instructions)
  /\ Len(labels) = Len(queue)
  /\ index \in 0..Len(queue)
  /\ last \in Sent

Earlier(a, b) == a.chunk < b.chunk \/ (a.chunk = b.chunk /\ a.step < b.step)

(* The queue is in the order its actions were computed in, and everything  *)
(* in it is older than the chunk about to be merged.                       *)
QueueOrdered ==
  /\ \A i \in 1..Len(queue) :
       /\ queue[i].chunk \in 1..count /\ queue[i].step \in 1..ChunkSize
       /\ rpc = "merge" => queue[i].chunk < count
  /\ \A i, j \in 1..Len(queue) : i < j => Earlier(queue[i], queue[j])
  /\ last.chunk <= count
  /\ rpc = "merge" => last.chunk < count
  /\ \A i \in 1..Len(queue) : i > index => Earlier(last, queue[i])

QueueOfEpoch == \A i \in 1..Len(queue) : queue[i].epoch = epoch

QueueLabelled == \A i \in 1..Len(queue) : labels[i] = queue[i].task

(* After the flush no warmup action is left, nor was one ever sent.        *)
QueueCold ==
  /\ flushed \/ cpc = "flushed" \/ Warmups = 0 => \A i \in 1..Len(queue) : queue[i].warm = FALSE
  /\ last.warm = FALSE

QueueInv == QueueTypes /\ QueueOrdered /\ QueueOfEpoch /\ QueueLabelled /\ QueueCold

RTCInv == ThreadInv /\ QueueInv

-----------------------------------------------------------------------------
(* The initial state satisfies both halves.                                *)
LEMMA InitEstablishesRTCInv ==
  ASSUME Init
  PROVE  RTCInv
<1> USE RTCAssumption DEF Init, None
<1>1. Scalars
  <2>1. "" \in Noted
    BY DEF Noted
  <2>2. Idle \in Locals
    BY <2>1 DEF Idle, Locals
  <2> QED BY <2>2 DEF Scalars
<1>2. Flags
  BY Zenon DEF Flags
<1>3. Margins /\ OneEpoch /\ TaskTaken /\ PrefixClamped /\ TrainedPrefixIsBacked
  BY DEF Margins, OneEpoch, TaskTaken, PrefixClamped, TrainedPrefixIsBacked
<1>4. WarmupIsPast
  <2>1. rpc = "top" /\ cpc = "idle" /\ count = 0 /\ ~flushed /\ (warmDone => Warmups = 0)
    BY Zenon
  <2> QED BY ONLY <2>1 DEF WarmupIsPast
<1>5. QueueTypes
  <2>1. "" \in Noted
    BY DEF Noted
  <2>2. last \in Sent
    BY <2>1 DEF Sent, NoAction
  <2> QED BY <2>2 DEF QueueTypes
<1>6. QueueOrdered /\ QueueOfEpoch /\ QueueLabelled /\ QueueCold
  <2>1. queue = <<>> /\ count = 0 /\ rpc = "top" /\ last.chunk = 0 /\ last.warm = FALSE
    BY DEF NoAction
  <2> QED BY ONLY <2>1 DEF QueueOrdered, QueueOfEpoch, QueueLabelled, QueueCold
<1> QED BY <1>1, <1>2, <1>3, <1>4, <1>5, <1>6 DEF RTCInv, ThreadInv, QueueInv

(* set_task, resets, the warmup gate and the pops keep the threads' half.  *)
LEMMA ControlKeepsThreadInv ==
  ASSUME RTCInv, SetTask \/ Control
  PROVE  ThreadInv'
<1> USE RTCAssumption
        DEF RTCInv, ThreadInv, Scalars, Margins, OneEpoch, TaskTaken, PrefixClamped,
            WarmupIsPast, TrainedPrefixIsBacked, QueueInv, QueueTypes, None,
            taskVars, queueVars, rtcVars, tallyVars, Ctl, DiscardTaskChange
<1>1. Flags'
  BY Zenon DEF Flags, SetTask, Control, ResetBegin, ResetState, ResetEnd, Resume, Pause, Notify,
     WarmupWait, WarmupFlush, WarmupFlushed, GetAction
<1>2. CASE SetTask        BY <1>1, <1>2 DEF SetTask
<1>3. CASE ResetBegin     BY <1>1, <1>3 DEF ResetBegin
<1>4. CASE ResetState     BY <1>1, <1>4 DEF ResetState, ClearAndBump
<1>5. CASE ResetEnd       BY <1>1, <1>5 DEF ResetEnd
<1>6. CASE Resume         BY <1>1, <1>6 DEF Resume
<1>7. CASE Pause          BY <1>1, <1>7 DEF Pause
<1>8. CASE Notify         BY <1>1, <1>8 DEF Notify
<1>9. CASE WarmupWait     BY <1>1, <1>9 DEF WarmupWait
<1>10. CASE WarmupFlush   BY <1>1, <1>10 DEF WarmupFlush
<1>11. CASE WarmupFlushed BY <1>1, <1>11 DEF WarmupFlushed
<1>12. CASE GetAction
  <2>1. dispatched' \in Instructions
    <3>1. CASE index < Len(queue)
      <4>1. index + 1 \in 1..Len(labels)
        BY <3>1
      <4>2. labels[index + 1] \in Instructions
        BY <4>1, ElementOfSeq
      <4> QED BY <3>1, <4>2, <1>12 DEF GetAction
    <3>2. CASE ~(index < Len(queue))
      BY <3>2, <1>12 DEF GetAction
    <3> QED BY <3>1, <3>2
  <2> QED BY <1>1, <2>1, <1>12 DEF GetAction
<1> QED BY <1>2, <1>3, <1>4, <1>5, <1>6, <1>7, <1>8, <1>9, <1>10, <1>11, <1>12 DEF Control

(* A snapshot starts a turn with well-typed locals.                        *)
LEMMA SnapshotTyped ==
  ASSUME RTCInv, Snapshot \/ AfterQuery
  PROVE  loc' \in Locals
<1>1. obs \in Nat /\ epoch \in Nat
  BY RTCAssumption DEF RTCInv, ThreadInv, Scalars, OneEpoch, None
<1>2. loc' = [Idle EXCEPT !.obs = obs, !.epoch = epoch]
  BY DEF Snapshot, AfterQuery
<1>3. "" \in Noted
  BY DEF Noted
<1> QED BY <1>1, <1>2, <1>3 DEF Idle, None, Locals

(* The prefix of a trained inference, once clamped, fits the training and  *)
(* the actions that were left over when it was read.                       *)
LEMMA LeftOverClamped ==
  ASSUME RTCInv, ReadLeftOver
  PROVE  /\ loc' \in Locals
         /\ loc'.obs = loc.obs /\ loc'.epoch = loc.epoch
         /\ mode = "trained" => loc'.delay <= loc'.prev /\ loc'.delay <= TrainMax
<1>1. QSize \in Nat
  <2>1. Len(queue) \in Nat /\ index \in 0..Len(queue)
    BY LenProperties DEF RTCInv, QueueInv, QueueTypes
  <2> QED BY <2>1 DEF QSize
<1>2. EstimateDelay(QSize) \in Nat
  BY RTCAssumption DEF EstimateDelay, RTCInv, ThreadInv, Scalars
<1>3. /\ ClampDelay(EstimateDelay(QSize), QSize) \in Nat
      /\ ClampDelay(EstimateDelay(QSize), QSize) <= TrainMax
      /\ ClampDelay(EstimateDelay(QSize), QSize) <= QSize
  BY <1>1, <1>2, RTCAssumption DEF ClampDelay, Smaller
<1> QED BY <1>1, <1>2, <1>3 DEF ReadLeftOver, Locals, RTCInv, ThreadInv, Scalars

(* An inference either is a warmup or, in the trained mode, goes on to the *)
(* merge only when its prefix covers the steps that passed.                *)
LEMMA PredictOutcome ==
  ASSUME Predict
  PROVE  \E measured \in 1..(ChunkSize + 1), warm \in BOOLEAN :
           /\ warm <=> count + 1 <= Warmups
           /\ loc' = [loc EXCEPT !.measured = measured, !.warm = warm]
           /\ rpc' = "merge" /\ mode = "trained" /\ ~warm => CanMerge(measured)
<1>1. PICK measured \in 1..(ChunkSize + 1) : Predict!(measured)
  BY Zenon DEF Predict
<1>2. loc' = [loc EXCEPT !.measured = measured, !.warm = (count + 1 <= Warmups)]
  BY <1>1, Zenon
<1>3. rpc' = "merge" /\ mode = "trained" /\ ~(count + 1 <= Warmups) => CanMerge(measured)
  BY <1>1, Zenon DEF Rtc
<1>4. (count + 1 <= Warmups) \in BOOLEAN
  OBVIOUS
<1> QED BY <1>2, <1>3, <1>4, Zenon

(* An inference keeps the threads' half: the last warmup is counted before *)
(* the next one begins, and a merge follows only a backed prefix.          *)
LEMMA PredictKeepsThreadInv ==
  ASSUME RTCInv, Predict
  PROVE  ThreadInv'
<1>1. PICK measured \in 1..(ChunkSize + 1), warm \in BOOLEAN :
        /\ warm <=> count + 1 <= Warmups
        /\ loc' = [loc EXCEPT !.measured = measured, !.warm = warm]
        /\ rpc' = "merge" /\ mode = "trained" /\ ~warm => CanMerge(measured)
  BY PredictOutcome
<1>2. loc \in Locals /\ count \in Nat /\ measured \in Nat
  BY RTCAssumption DEF RTCInv, ThreadInv, Scalars
<1>3. loc' \in Locals
  BY <1>1, <1>2 DEF Locals
<1>4. /\ rpc = "predict" /\ rpc' \in {"dead", "top", "merge"}
      /\ mode' = mode /\ count' = count + 1
  BY Zenon DEF Predict, Rtc
<1>5. Scalars'
  BY <1>3, RTCAssumption
     DEF Predict, Rtc, RTCInv, ThreadInv, Scalars, Margins, tallyVars, taskVars, queueVars, Larger
<1>6. Flags'
  BY ONLY Predict, RTCInv, Zenon DEF Predict, RTCInv, ThreadInv, Flags, taskVars
<1>7. Margins' /\ OneEpoch' /\ TaskTaken'
  BY RTCAssumption DEF Predict, Rtc, RTCInv, ThreadInv, Scalars, Locals, Margins, OneEpoch, TaskTaken,
     taskVars, queueVars
<1>8. PrefixClamped'
  BY <1>1, <1>2, <1>4 DEF RTCInv, ThreadInv, PrefixClamped, Locals
<1>9. TrainedPrefixIsBacked'
  BY <1>1, <1>2, <1>4, RTCAssumption
     DEF RTCInv, ThreadInv, PrefixClamped, Locals, TrainedPrefixIsBacked, CanMerge, Smaller
<1>10. WarmupIsPast'
  <2>1. warmDone' => warmDone \/ rpc' = "dead"
    BY Zenon DEF Predict, Rtc
  <2>2. cpc' = cpc /\ flushed' = flushed /\ (warmDone => warmDone')
    BY Zenon DEF Predict
  <2>3. loc'.warm = warm
    BY <1>1, <1>2 DEF Locals
  <2>4. warmDone => count >= Warmups
    BY <1>4 DEF RTCInv, ThreadInv, WarmupIsPast
  <2>5. rpc' = "merge" /\ loc'.warm => count' <= Warmups
    BY ONLY <1>1, <1>4, <2>3
  <2>6. warmDone' => rpc' = "dead" \/ (count' >= Warmups /\ (rpc' = "merge" => ~loc'.warm))
    BY ONLY <1>1, <1>2, <1>4, <2>1, <2>3, <2>4, RTCAssumption
  <2>7. flushed' \/ cpc' \in {"flush", "flushed"} => warmDone'
    BY <2>2, Zenon DEF RTCInv, ThreadInv, WarmupIsPast
  <2> QED BY <2>5, <2>6, <2>7 DEF WarmupIsPast
<1> QED BY <1>5, <1>6, <1>7, <1>8, <1>9, <1>10 DEF ThreadInv

(* A failing inference keeps the threads' half: the run of errors stays    *)
(* below its limit until it ends the thread.                               *)
LEMMA PredictFailsKeepsThreadInv ==
  ASSUME RTCInv, PredictFails
  PROVE  ThreadInv'
<1> USE RTCAssumption
        DEF RTCInv, ThreadInv, Scalars, Margins, None, taskVars, queueVars, rtcVars, tallyVars, Rtc
<1>1. Scalars'
  BY DEF PredictFails
<1>2. Flags'
  BY ONLY PredictFails, RTCInv DEF RTCInv, ThreadInv, PredictFails, Flags
<1>3. Margins' /\ OneEpoch' /\ TaskTaken' /\ PrefixClamped' /\ TrainedPrefixIsBacked'
  BY DEF PredictFails, OneEpoch, TaskTaken, PrefixClamped, TrainedPrefixIsBacked
<1>4. WarmupIsPast'
  <2>1. CASE errors + 1 >= MaxErrors
    BY <2>1 DEF PredictFails, WarmupIsPast
  <2>2. CASE ~(errors + 1 >= MaxErrors)
    <3>1. warmDone' = warmDone
      BY <2>2, Zenon DEF PredictFails, Flags
    <3> QED BY <2>2, <3>1 DEF PredictFails, WarmupIsPast
  <2> QED BY <2>1, <2>2
<1> QED BY <1>1, <1>2, <1>3, <1>4 DEF ThreadInv

(* A turn of the RTC thread keeps the threads' half: an inference finds    *)
(* the observation, the task and the prefix it has noted.                  *)
LEMMA RtcKeepsThreadInv ==
  ASSUME RTCInv, RtcLoop
  PROVE  ThreadInv'
<1> USE RTCAssumption
        DEF RTCInv, ThreadInv, Scalars, Margins, OneEpoch, TaskTaken, PrefixClamped,
            WarmupIsPast, TrainedPrefixIsBacked, None,
            taskVars, queueVars, rtcVars, tallyVars, Rtc
<1>1. CASE Snapshot \/ AfterQuery
  <2>1. loc' \in Locals
    BY <1>1, SnapshotTyped
  <2>2. Flags'
    BY <1>1, Zenon DEF Flags, Snapshot, AfterQuery
  <2>3. loc'.obs = obs /\ loc'.epoch = epoch
    BY <1>1 DEF Snapshot, AfterQuery, Idle
  <2> QED BY <1>1, <2>1, <2>2, <2>3 DEF Snapshot, AfterQuery
<1>2. CASE CheckSize
  <2>1. Flags'
    BY <1>2, Zenon DEF Flags, CheckSize
  <2> QED BY <1>2, <2>1 DEF CheckSize
<1>3. CASE ReadLeftOver
  <2>1. Flags'
    BY <1>3, Zenon DEF Flags, ReadLeftOver
  <2>2. /\ loc' \in Locals
        /\ loc'.obs = loc.obs /\ loc'.epoch = loc.epoch
        /\ mode = "trained" => loc'.delay <= loc'.prev /\ loc'.delay <= TrainMax
    BY <1>3, LeftOverClamped
  <2>3. /\ rpc = "leftover" /\ rpc' = "task"
        /\ UNCHANGED <<mode, task, dispatched, obs, epoch, cpc, count, errors, discards, maxLatency,
                       warmDone, flushed>>
    BY <1>3 DEF ReadLeftOver
  <2> QED BY <2>1, <2>2, <2>3
<1>4. CASE TakeTask
  <2>1. Flags'
    BY <1>4, Zenon DEF Flags, TakeTask
  <2>2. loc' \in Locals
    BY <1>4 DEF TakeTask, Locals, Noted
  <2>3. loc'.obs = loc.obs /\ loc'.epoch = loc.epoch /\ loc'.delay = loc.delay /\ loc'.prev = loc.prev
        /\ loc'.task = task
    BY <1>4 DEF TakeTask, Locals
  <2> QED BY <1>4, <2>1, <2>2, <2>3 DEF TakeTask
<1>5. CASE Predict
  BY <1>5, PredictKeepsThreadInv
<1>6. CASE PredictFails
  BY <1>6, PredictFailsKeepsThreadInv
<1>7. CASE MergeChunk
  <2>1. Flags'
    BY <1>7, Zenon DEF Flags, MergeChunk
  <2> QED BY <1>7, <2>1 DEF MergeChunk
<1>8. CASE FinishWarmup
  <2>1. Flags'
    BY <1>8, Zenon DEF Flags, FinishWarmup
  <2>2. loc' \in Locals
    BY <1>8 DEF FinishWarmup, Idle, Locals, Noted
  <2> QED BY <1>8, <2>1, <2>2 DEF FinishWarmup
<1> QED BY <1>1, <1>2, <1>3, <1>4, <1>5, <1>6, <1>7, <1>8 DEF RtcLoop

-----------------------------------------------------------------------------
(* The queue.                                                              *)

(* Merging leaves the unconsumed actions, if any, in front of the end of   *)
(* the chunk, each with its label.                                         *)
LEMMA MergeShape ==
  ASSUME QueueTypes, NEW chunk \in Seq(Actions), NEW delay \in Nat, NEW label \in Instructions,
         Merge(chunk, delay, label)
  PROVE  /\ queue' \in Seq(Actions) /\ labels' \in Seq(Instructions)
         /\ Len(labels') = Len(queue') /\ index' = 0
         /\ \E kept, skip \in Nat :
              \A i \in 1..Len(queue') :
                \/ /\ i <= kept /\ index + i \in 1..Len(queue)
                   /\ queue'[i] = queue[index + i] /\ labels'[i] = labels[index + i]
                \/ /\ i > kept /\ skip + i - kept \in 1..Len(chunk)
                   /\ queue'[i] = chunk[skip + i - kept] /\ labels'[i] = label
<1>1. /\ Len(queue) \in Nat /\ Len(chunk) \in Nat /\ Len(labels) = Len(queue)
      /\ index \in 0..Len(queue)
      /\ queue \in Seq(Actions) /\ labels \in Seq(Instructions)
  BY LenProperties DEF QueueTypes
<1>2. CASE mode = "off"
  <2> DEFINE kept == Len(queue) - index
             old == SubSeq(queue, index + 1, Len(queue))
             oldLabels == SubSeq(labels, index + 1, Len(queue))
             new == [i \in 1..Len(chunk) |-> label]
  <2>1. queue' = old \o chunk /\ labels' = oldLabels \o new /\ index' = 0
    BY <1>1, <1>2 DEF Merge, AppendChunk
  <2>2. old \in Seq(Actions) /\ Len(old) = kept /\ \A i \in 1..kept : old[i] = queue[index + i]
    <3>1. \A i \in (index + 1)..Len(queue) : queue[i] \in Actions
      BY <1>1, ElementOfSeq
    <3>2. index + 1 \in Int /\ Len(queue) \in Int
      BY <1>1
    <3>3. /\ old \in Seq(Actions)
          /\ Len(old) = IF index + 1 <= Len(queue) THEN Len(queue) - (index + 1) + 1 ELSE 0
          /\ \A i \in 1..(Len(queue) - (index + 1) + 1) : old[i] = queue[(index + 1) + i - 1]
      BY <3>1, <3>2, SubSeqProperties
    <3> HIDE DEF old, oldLabels
    <3>4. ASSUME NEW i \in 1..kept PROVE old[i] = queue[index + i]
      <4>1. i \in 1..(Len(queue) - (index + 1) + 1) /\ (index + 1) + i - 1 = index + i
        BY <1>1
      <4> QED BY <3>3, <4>1
    <3>5. Len(old) = kept
      BY <1>1, <3>3
    <3> QED BY <3>3, <3>4, <3>5
  <2>3. oldLabels \in Seq(Instructions) /\ Len(oldLabels) = kept
        /\ \A i \in 1..kept : oldLabels[i] = labels[index + i]
    <3>1. \A i \in (index + 1)..Len(queue) : labels[i] \in Instructions
      BY <1>1, ElementOfSeq
    <3>2. index + 1 \in Int /\ Len(queue) \in Int
      BY <1>1
    <3>3. /\ oldLabels \in Seq(Instructions)
          /\ Len(oldLabels) = IF index + 1 <= Len(queue) THEN Len(queue) - (index + 1) + 1 ELSE 0
          /\ \A i \in 1..(Len(queue) - (index + 1) + 1) : oldLabels[i] = labels[(index + 1) + i - 1]
      BY <3>1, <3>2, SubSeqProperties
    <3> HIDE DEF old, oldLabels
    <3>4. ASSUME NEW i \in 1..kept PROVE oldLabels[i] = labels[index + i]
      <4>1. i \in 1..(Len(queue) - (index + 1) + 1) /\ (index + 1) + i - 1 = index + i
        BY <1>1
      <4> QED BY <3>3, <4>1
    <3>5. Len(oldLabels) = kept
      BY <1>1, <3>3
    <3> QED BY <3>3, <3>4, <3>5
  <2>4. new \in Seq(Instructions) /\ Len(new) = Len(chunk) /\ \A i \in 1..Len(chunk) : new[i] = label
    BY <1>1
  <2> HIDE DEF old, oldLabels, new
  <2>5. /\ queue' \in Seq(Actions) /\ Len(queue') = kept + Len(chunk)
        /\ \A i \in 1..(kept + Len(chunk)) : queue'[i] = IF i <= kept THEN old[i] ELSE chunk[i - kept]
    <3>1. /\ old \o chunk \in Seq(Actions)
          /\ Len(old \o chunk) = Len(old) + Len(chunk)
          /\ \A i \in 1..(Len(old) + Len(chunk)) :
               (old \o chunk)[i] = IF i <= Len(old) THEN old[i] ELSE chunk[i - Len(old)]
      BY <2>2, ConcatProperties, Zenon
    <3> QED BY <2>1, <2>2, <3>1, Zenon
  <2>6. /\ labels' \in Seq(Instructions) /\ Len(labels') = kept + Len(chunk)
        /\ \A i \in 1..(kept + Len(chunk)) : labels'[i] = IF i <= kept THEN oldLabels[i] ELSE new[i - kept]
    BY <2>1, <2>3, <2>4, ConcatProperties
  <2>7. ASSUME NEW i \in 1..Len(queue')
        PROVE  \/ /\ i <= kept /\ index + i \in 1..Len(queue)
                  /\ queue'[i] = queue[index + i] /\ labels'[i] = labels[index + i]
               \/ /\ i > kept /\ 0 + i - kept \in 1..Len(chunk)
                  /\ queue'[i] = chunk[0 + i - kept] /\ labels'[i] = label
    <3>1. i \in 1..(kept + Len(chunk))
      BY <2>5
    <3>2. CASE i <= kept
      <4>1. i \in 1..kept /\ index + i \in 1..Len(queue)
        BY <1>1, <3>1, <3>2
      <4>2. queue'[i] = queue[index + i] /\ labels'[i] = labels[index + i]
        BY <3>1, <3>2, <4>1, <2>2, <2>3, <2>5, <2>6, Zenon
      <4> QED BY <3>2, <4>1, <4>2
    <3>3. CASE i > kept
      <4>1. i - kept \in 1..Len(chunk) /\ ~(i <= kept) /\ 0 + i - kept = i - kept
        BY <1>1, <3>1, <3>3
      <4>2. queue'[i] = chunk[i - kept] /\ labels'[i] = label
        BY <3>1, <4>1, <2>4, <2>5, <2>6, Zenon
      <4> QED BY <3>3, <4>1, <4>2
    <3> QED BY <1>1, <3>1, <3>2, <3>3
  <2>8. kept \in Nat /\ 0 \in Nat
    BY <1>1
  <2> QED BY <2>1, <2>5, <2>6, <2>7, <2>8
<1>3. CASE mode # "off"
  <2> DEFINE skip == Smaller(delay, Len(chunk))
  <2>1. skip \in 0..Len(chunk)
    BY <1>1 DEF Smaller
  <2>2. /\ queue' = SubSeq(chunk, skip + 1, Len(chunk))
        /\ labels' = [i \in 1..(Len(chunk) - skip) |-> label]
        /\ index' = 0
    BY <1>3 DEF Merge, Replace
  <2> HIDE DEF skip
  <2>3. /\ queue' \in Seq(Actions) /\ Len(queue') = Len(chunk) - skip
        /\ \A i \in 1..(Len(chunk) - skip) : queue'[i] = chunk[skip + i]
    <3>1. \A i \in (skip + 1)..Len(chunk) : chunk[i] \in Actions
      BY <1>1, <2>1, ElementOfSeq
    <3> QED BY <1>1, <2>1, <2>2, <3>1, SubSeqProperties
  <2>4. /\ labels' \in Seq(Instructions) /\ Len(labels') = Len(chunk) - skip
        /\ \A i \in 1..(Len(chunk) - skip) : labels'[i] = label
    BY <1>1, <2>1, <2>2
  <2>5. ASSUME NEW i \in 1..Len(queue')
        PROVE  /\ i > 0 /\ skip + i - 0 \in 1..Len(chunk)
               /\ queue'[i] = chunk[skip + i - 0] /\ labels'[i] = label
    BY <1>1, <2>1, <2>3, <2>4
  <2>6. skip \in Nat /\ 0 \in Nat
    BY <1>1, <2>1
  <2> QED BY <2>2, <2>3, <2>4, <2>5, <2>6
<1> QED BY <1>2, <1>3

(* The chunk of one inference: typed, in order, all of one origin.         *)
LEMMA NewChunkShape ==
  ASSUME RTCInv, rpc = "merge"
  PROVE  /\ NewChunk \in Seq(Actions) /\ Len(NewChunk) = ChunkSize
         /\ \A i \in 1..ChunkSize :
              /\ NewChunk[i].chunk = count /\ NewChunk[i].step = i
              /\ NewChunk[i].task = loc.task /\ NewChunk[i].epoch = loc.obs
              /\ NewChunk[i].warm = loc.warm
<1>1. /\ count \in Nat /\ loc.task \in Instructions /\ loc.obs \in Nat /\ loc.warm \in BOOLEAN
      /\ ChunkSize \in Nat
  BY RTCAssumption DEF RTCInv, ThreadInv, Scalars, TaskTaken, Locals
<1>2. \A i \in 1..ChunkSize :
        [chunk |-> count, step |-> i, task |-> loc.task, epoch |-> loc.obs, warm |-> loc.warm] \in Actions
  BY <1>1 DEF Actions
<1>3. NewChunk \in [1..ChunkSize -> Actions]
  BY <1>2 DEF NewChunk
<1>4. NewChunk \in Seq(Actions) /\ Len(NewChunk) = ChunkSize
  BY <1>1, <1>3
<1> QED BY <1>4 DEF NewChunk

(* A merge keeps the queue's half: the chunk is of the current epoch, of   *)
(* one instruction, newer than what it follows, and no warmup after one.   *)
LEMMA MergeKeepsQueueInv ==
  ASSUME RTCInv, MergeChunk, loc.epoch = epoch
  PROVE  QueueInv'
<1>1. /\ rpc = "merge" /\ rpc' = "warm" /\ count' = count /\ last' = last /\ epoch' = epoch
      /\ flushed' = flushed /\ cpc' = cpc /\ Merge(NewChunk, loc.measured, loc.task)
  BY DEF MergeChunk, Rtc, tallyVars
<1>2. /\ loc.measured \in Nat /\ loc.task \in Instructions /\ loc.obs = epoch /\ loc.warm \in BOOLEAN
      /\ count \in Nat /\ count >= 1 /\ ChunkSize \in Nat
  BY <1>1, RTCAssumption DEF RTCInv, ThreadInv, Scalars, TaskTaken, OneEpoch, Locals, Margins
<1>3. /\ NewChunk \in Seq(Actions) /\ Len(NewChunk) = ChunkSize
      /\ \A i \in 1..ChunkSize :
           /\ NewChunk[i].chunk = count /\ NewChunk[i].step = i
           /\ NewChunk[i].task = loc.task /\ NewChunk[i].epoch = loc.obs
           /\ NewChunk[i].warm = loc.warm
  BY <1>1, NewChunkShape
<1>4. QueueTypes /\ index \in Nat /\ Len(queue) \in Nat
  <2>1. QueueTypes
    BY DEF RTCInv, QueueInv
  <2>2. Len(queue) \in Nat /\ index \in 0..Len(queue)
    BY <2>1, LenProperties DEF QueueTypes
  <2> QED BY <2>1, <2>2
<1>5. /\ queue' \in Seq(Actions) /\ labels' \in Seq(Instructions)
      /\ Len(labels') = Len(queue') /\ index' = 0
  BY <1>1, <1>2, <1>3, <1>4, MergeShape
<1>6. PICK kept \in Nat, skip \in Nat :
        \A i \in 1..Len(queue') :
          \/ /\ i <= kept /\ index + i \in 1..Len(queue)
             /\ queue'[i] = queue[index + i] /\ labels'[i] = labels[index + i]
          \/ /\ i > kept /\ skip + i - kept \in 1..Len(NewChunk)
             /\ queue'[i] = NewChunk[skip + i - kept] /\ labels'[i] = loc.task
  BY <1>1, <1>2, <1>3, <1>4, MergeShape
<1>7. Len(queue') \in Nat
  BY <1>5, LenProperties
<1>8. QueueTypes'
  BY <1>1, <1>4, <1>5, <1>7 DEF QueueTypes
<1>9. ASSUME NEW i \in 1..Len(queue')
      PROVE  /\ queue'[i].epoch = epoch /\ labels'[i] = queue'[i].task
             /\ queue'[i].chunk \in 1..count /\ queue'[i].step \in 1..ChunkSize
             /\ queue'[i].chunk < count \/ i > kept
             /\ Earlier(last, queue'[i])
             /\ flushed \/ cpc = "flushed" \/ Warmups = 0 => queue'[i].warm = FALSE
  <2>1. CASE i <= kept
    <3>1. /\ index + i \in 1..Len(queue) /\ index + i > index
          /\ queue'[i] = queue[index + i] /\ labels'[i] = labels[index + i]
      BY <1>4, <1>6, <2>1
    <3> QED BY <3>1, <1>1 DEF RTCInv, QueueInv, QueueOfEpoch, QueueLabelled, QueueOrdered, QueueCold
  <2>2. CASE i > kept
    <3>1. /\ skip + i - kept \in 1..ChunkSize
          /\ queue'[i] = NewChunk[skip + i - kept] /\ labels'[i] = loc.task
      BY <1>3, <1>6, <2>2
    <3>2. Earlier(last, queue'[i])
      BY <3>1, <1>1, <1>3 DEF Earlier, RTCInv, QueueInv, QueueOrdered
    <3>3. flushed \/ cpc = "flushed" \/ Warmups = 0 => loc.warm = FALSE
      <4>1. warmDone \/ Warmups = 0 => ~loc.warm
        BY <1>1, <1>2 DEF RTCInv, ThreadInv, WarmupIsPast
      <4>2. flushed \/ cpc = "flushed" => warmDone
        BY DEF RTCInv, ThreadInv, WarmupIsPast
      <4> QED BY <1>2, <4>1, <4>2
    <3>4. queue'[i].warm = FALSE \/ ~(flushed \/ cpc = "flushed" \/ Warmups = 0)
      BY <3>1, <3>3, <1>3
    <3> QED BY <3>1, <3>2, <3>4, <2>2, <1>2, <1>3
  <2> QED BY <1>6, <2>1, <2>2
<1>10. ASSUME NEW i \in 1..Len(queue'), NEW j \in 1..Len(queue'), i < j
       PROVE  Earlier(queue'[i], queue'[j])
  <2>1. CASE j <= kept
    <3>1. /\ index + i \in 1..Len(queue) /\ index + j \in 1..Len(queue) /\ index + i < index + j
          /\ queue'[i] = queue[index + i] /\ queue'[j] = queue[index + j]
      BY <1>4, <1>6, <1>7, <1>10, <2>1
    <3> QED BY <3>1 DEF RTCInv, QueueInv, QueueOrdered
  <2>2. CASE j > kept
    <3>1. /\ skip + j - kept \in 1..ChunkSize /\ queue'[j] = NewChunk[skip + j - kept]
      BY <1>3, <1>6, <2>2
    <3>2. queue'[j].chunk = count /\ queue'[j].step = skip + j - kept
      BY <3>1, <1>3
    <3>3. CASE i <= kept
      <4>1. queue'[i].chunk < count
        <5>1. ~(i > kept)
          BY <1>7, <3>3
        <5> QED BY <1>9, <5>1, Zenon
      <4> QED BY <3>2, <4>1 DEF Earlier
    <3>4. CASE i > kept
      <4>1. /\ skip + i - kept \in 1..ChunkSize /\ queue'[i] = NewChunk[skip + i - kept]
        BY <1>3, <1>6, <3>4
      <4>2. queue'[i].chunk = count /\ queue'[i].step = skip + i - kept
        BY <4>1, <1>3
      <4>3. skip + i - kept < skip + j - kept
        BY <1>10, <1>7
      <4> QED BY <3>2, <4>2, <4>3 DEF Earlier
    <3> QED BY <1>7, <3>3, <3>4
  <2> QED BY <1>7, <2>1, <2>2
<1>11. QueueOrdered'
  <2>1. last'.chunk <= count' /\ rpc' # "merge"
    BY <1>1 DEF RTCInv, QueueInv, QueueOrdered
  <2> QED BY <2>1, <1>1, <1>9, <1>10, Zenon DEF QueueOrdered
<1>12. QueueOfEpoch' /\ QueueLabelled'
  BY <1>1, <1>9, Zenon DEF QueueOfEpoch, QueueLabelled
<1>13. QueueCold'
  BY <1>1, <1>9, Zenon DEF QueueCold, RTCInv, QueueInv
<1> QED BY <1>8, <1>11, <1>12, <1>13 DEF QueueInv

(* A reset empties the queue, so nothing of the old epoch is left in it.   *)
LEMMA ResetKeepsQueueInv ==
  ASSUME RTCInv, ResetState
  PROVE  QueueInv'
<1>1. /\ queue' = <<>> /\ labels' = <<>> /\ index' = 0
      /\ last' = last /\ count' = count /\ rpc' = rpc
  BY DEF ResetState, ClearAndBump, Clear, rtcVars, tallyVars
<1>2. QueueTypes'
  BY <1>1 DEF RTCInv, QueueInv, QueueTypes
<1>3. QueueOrdered' /\ QueueOfEpoch' /\ QueueLabelled' /\ QueueCold'
  <2>1. Len(queue') = 0
    BY <1>1
  <2> QED
    BY <1>1, <2>1 DEF RTCInv, QueueInv, QueueOrdered, QueueOfEpoch, QueueLabelled, QueueCold
<1> QED BY <1>2, <1>3 DEF QueueInv

(* A pop sends the next action of the queue, later than the one before.    *)
LEMMA PopKeepsQueueInv ==
  ASSUME RTCInv, GetAction
  PROVE  QueueInv'
<1>1. /\ queue' = queue /\ labels' = labels /\ count' = count /\ rpc' = rpc /\ epoch' = epoch
      /\ flushed' = flushed /\ cpc = "act" /\ cpc' = "notify" /\ (flushed \/ Warmups = 0)
  BY DEF GetAction, Ctl, rtcVars, tallyVars
<1>2. CASE index < Len(queue)
  <2>1. index + 1 \in 1..Len(queue) /\ index + 1 \in 0..Len(queue) /\ index + 1 > index /\ index \in Nat
    <3>1. Len(queue) \in Nat /\ index \in 0..Len(queue)
      BY LenProperties DEF RTCInv, QueueInv, QueueTypes
    <3> QED BY <1>2, <3>1
  <2>2. last' = queue[index + 1] /\ index' = index + 1
    BY <1>2 DEF GetAction
  <2>3. last' \in Actions
    BY <2>1, <2>2, ElementOfSeq DEF RTCInv, QueueInv, QueueTypes
  <2>4. QueueTypes'
    <3>1. last' \in Sent
      BY <2>3 DEF Actions, Sent, Noted
    <3> QED BY <1>1, <2>1, <2>2, <3>1 DEF RTCInv, QueueInv, QueueTypes
  <2>5. QueueOrdered'
    BY <1>1, <2>1, <2>2 DEF RTCInv, QueueInv, QueueOrdered
  <2>6. last'.warm = FALSE
    BY <1>1, <2>1, <2>2, Zenon DEF RTCInv, QueueInv, QueueCold
  <2>7. QueueOfEpoch' /\ QueueLabelled' /\ QueueCold'
    BY <1>1, <2>6, Zenon DEF RTCInv, QueueInv, QueueOfEpoch, QueueLabelled, QueueCold
  <2> QED BY <2>4, <2>5, <2>7 DEF QueueInv
<1>3. CASE ~(index < Len(queue))
  <2>1. index' = index /\ last' = last
    BY <1>3 DEF GetAction
  <2> QED
    BY <1>1, <2>1, Zenon
       DEF RTCInv, QueueInv, QueueTypes, QueueOrdered, QueueOfEpoch, QueueLabelled, QueueCold
<1> QED BY <1>2, <1>3

(* An inference raises the number of the chunk to come above the queue's.  *)
LEMMA PredictKeepsQueueInv ==
  ASSUME RTCInv, Predict
  PROVE  QueueInv'
<1>1. /\ queue' = queue /\ labels' = labels /\ index' = index /\ last' = last /\ epoch' = epoch
      /\ flushed' = flushed /\ cpc' = cpc /\ count' = count + 1
  BY Zenon DEF Predict, queueVars
<1>2. count \in Nat
  BY RTCAssumption DEF RTCInv, ThreadInv, Scalars
<1>3. last.chunk \in Nat /\ last.chunk <= count
  BY DEF RTCInv, QueueInv, QueueTypes, QueueOrdered, Sent
<1>4. QueueTypes'
  BY <1>1, Zenon DEF RTCInv, QueueInv, QueueTypes
<1>5. QueueOrdered'
  <2>1. \A i \in 1..Len(queue) : queue[i].chunk \in 1..count' /\ queue[i].chunk < count'
    BY <1>1, <1>2 DEF RTCInv, QueueInv, QueueOrdered
  <2>2. last'.chunk < count' /\ last'.chunk <= count'
    BY <1>1, <1>2, <1>3
  <2> QED BY <1>1, <2>1, <2>2, Zenon DEF RTCInv, QueueInv, QueueOrdered
<1>6. QueueOfEpoch' /\ QueueLabelled' /\ QueueCold'
  BY <1>1, Zenon DEF RTCInv, QueueInv, QueueOfEpoch, QueueLabelled, QueueCold
<1> QED BY <1>4, <1>5, <1>6 DEF QueueInv

(* A step that leaves the queue, the epoch and the count alone, begins no  *)
(* merge and ends no flush keeps the queue's half.                         *)
LEMMA QuietKeepsQueueInv ==
  ASSUME RTCInv, UNCHANGED <<queue, labels, index, last, epoch, count>>,
         rpc' = "merge" => rpc = "merge",
         flushed' \/ cpc' = "flushed" => flushed \/ cpc = "flushed"
  PROVE  QueueInv'
BY Zenon DEF RTCInv, QueueInv, QueueTypes, QueueOrdered, QueueOfEpoch, QueueLabelled, QueueCold

(* Every step keeps the queue's half.                                      *)
LEMMA NextKeepsQueueInv ==
  ASSUME RTCInv, Next
  PROVE  QueueInv'
<1> USE DEF taskVars, queueVars, rtcVars, tallyVars, Ctl, Rtc
<1>1. CASE SetTask
  BY <1>1, QuietKeepsQueueInv, Zenon DEF SetTask
<1>2. CASE Control
  <2>1. CASE ResetState
    BY <2>1, ResetKeepsQueueInv
  <2>2. CASE GetAction
    BY <2>2, PopKeepsQueueInv
  <2>3. CASE ResetBegin \/ ResetEnd \/ Resume \/ Pause \/ Notify
    <3>1. /\ UNCHANGED <<queue, labels, index, last, epoch, count, rpc, flushed>>
          /\ cpc' # "flushed"
      BY <2>3 DEF ResetBegin, ResetEnd, Resume, Pause, Notify
    <3> QED BY <3>1, QuietKeepsQueueInv
  <2>4. CASE WarmupWait \/ WarmupFlush \/ WarmupFlushed
    <3>1. /\ UNCHANGED <<queue, labels, index, last, epoch, count, rpc>>
          /\ flushed' \/ cpc' = "flushed" => flushed \/ cpc = "flushed"
      BY <2>4 DEF WarmupWait, WarmupFlush, WarmupFlushed
    <3> QED BY <3>1, QuietKeepsQueueInv
  <2> QED BY <1>2, <2>1, <2>2, <2>3, <2>4 DEF Control
<1>3. CASE RtcLoop
  <2>1. CASE Predict
    BY <2>1, PredictKeepsQueueInv
  <2>2. CASE MergeChunk
    <3>1. CASE loc.epoch = epoch
      BY <2>2, <3>1, MergeKeepsQueueInv
    <3>2. CASE loc.epoch # epoch
      <4>1. /\ UNCHANGED <<queue, labels, index, last, epoch, count, flushed, cpc>>
            /\ rpc' # "merge"
        BY <2>2, <3>2 DEF MergeChunk
      <4> QED BY <4>1, QuietKeepsQueueInv
    <3> QED BY <3>1, <3>2
  <2>3. CASE Snapshot \/ AfterQuery \/ CheckSize \/ ReadLeftOver \/ TakeTask \/ PredictFails \/ FinishWarmup
    <3>1. /\ UNCHANGED <<queue, labels, index, last, epoch, count, flushed, cpc>>
          /\ rpc' # "merge"
      BY <2>3 DEF Snapshot, AfterQuery, CheckSize, ReadLeftOver, TakeTask, PredictFails, FinishWarmup
    <3> QED BY <3>1, QuietKeepsQueueInv
  <2> QED BY <1>3, <2>1, <2>2, <2>3 DEF RtcLoop
<1> QED BY <1>1, <1>2, <1>3 DEF Next

(* RTCInv holds in every reachable state of RTCEngine.                     *)
THEOREM RTCInductive == Spec => []RTCInv
<1>1. Init => RTCInv
  BY InitEstablishesRTCInv
<1>2. RTCInv /\ [Next]_vars => RTCInv'
  <2> SUFFICES ASSUME RTCInv, [Next]_vars PROVE RTCInv'
    OBVIOUS
  <2>1. CASE Next
    <3>1. ThreadInv'
      BY <2>1, ControlKeepsThreadInv, RtcKeepsThreadInv DEF Next
    <3>2. QueueInv'
      BY <2>1, NextKeepsQueueInv
    <3> QED BY <3>1, <3>2 DEF RTCInv
  <2>2. CASE UNCHANGED vars
    <3> USE <2>2 DEF vars, taskVars, queueVars, rtcVars, tallyVars
    <3>1. ThreadInv'
      <4>1. Flags'
        BY Zenon DEF RTCInv, ThreadInv, Flags
      <4>2. Scalars' /\ Margins' /\ OneEpoch' /\ TaskTaken' /\ PrefixClamped'
        BY DEF RTCInv, ThreadInv, Scalars, Margins, OneEpoch, TaskTaken, PrefixClamped
      <4>3. WarmupIsPast' /\ TrainedPrefixIsBacked'
        BY DEF RTCInv, ThreadInv, WarmupIsPast, TrainedPrefixIsBacked
      <4> QED BY <4>1, <4>2, <4>3 DEF ThreadInv
    <3>2. QueueInv'
      BY QuietKeepsQueueInv, Zenon
    <3> QED BY <3>1, <3>2 DEF RTCInv
  <2> QED BY <2>1, <2>2
<1> QED BY <1>1, <1>2, PTL DEF Spec

-----------------------------------------------------------------------------
(* Every variable of the engine keeps its type; the runs of errors and of  *)
(* discarded chunks never pass the limits that end the thread.             *)
THEOREM EngineTypeCorrect == Spec => []TypeOK
<1>1. RTCInv => TypeOK
  <2> SUFFICES ASSUME RTCInv PROVE TypeOK
    OBVIOUS
  <2> USE RTCAssumption DEF RTCInv, ThreadInv, QueueInv
  <2>1. /\ Len(queue) \in Nat /\ DOMAIN queue = 1..Len(queue)
        /\ DOMAIN labels = 1..Len(queue) /\ index \in 0..Len(queue)
    BY LenProperties DEF QueueTypes
  <2>2. \A i \in DOMAIN queue : queue[i].chunk \in 1..MaxChunks /\ queue[i].step \in 1..ChunkSize
    BY <2>1 DEF QueueOrdered, Scalars
  <2>3. \A i \in DOMAIN labels : labels[i] \in Instructions
    BY <2>1, ElementOfSeq DEF QueueTypes
  <2>4. obs \in 0..epoch
    BY DEF OneEpoch, Scalars, None
  <2>5. {active, warmDone, flushed, failed} \subseteq BOOLEAN /\ taskChanged \in BOOLEAN
    BY Zenon DEF Flags
  <2> QED BY <2>1, <2>2, <2>3, <2>4, <2>5, Zenon DEF TypeOK, Scalars
<1> QED BY <1>1, RTCInductive, PTL

(* _reset_epoch: a chunk whose inference began before a reset is never in  *)
(* the queue after it, wherever the RTC thread was when the reset came.    *)
THEOREM NoStaleActions == Spec => []NoActionFromBeforeReset
<1>1. RTCInv => NoActionFromBeforeReset
  <2> SUFFICES ASSUME RTCInv PROVE NoActionFromBeforeReset
    OBVIOUS
  <2>1. DOMAIN queue = 1..Len(queue)
    BY LenProperties DEF RTCInv, QueueInv, QueueTypes
  <2> QED BY <2>1 DEF RTCInv, QueueInv, QueueOfEpoch, NoActionFromBeforeReset
<1> QED BY <1>1, RTCInductive, PTL

(* An action is labelled with the instruction its inference ran under: the *)
(* dispatched task never runs ahead of the actions, whatever set_task does.*)
THEOREM LabelsNameGenerators == Spec => []LabelIsGenerator
<1>1. RTCInv => LabelIsGenerator
  <2> SUFFICES ASSUME RTCInv PROVE LabelIsGenerator
    OBVIOUS
  <2>1. DOMAIN queue = 1..Len(queue) /\ Len(labels) = Len(queue)
    BY LenProperties DEF RTCInv, QueueInv, QueueTypes
  <2> QED BY <2>1 DEF RTCInv, QueueInv, QueueLabelled, LabelIsGenerator
<1> QED BY <1>1, RTCInductive, PTL

(* A trained chunk is merged only over steps its prefix covered.           *)
THEOREM PrefixIsBacked == Spec => []TrainedPrefixIsBacked
<1>1. RTCInv => TrainedPrefixIsBacked
  BY DEF RTCInv, ThreadInv
<1> QED BY <1>1, RTCInductive, PTL

(* The warmup gate and its flush: no warmup action reaches the robot.      *)
THEOREM NoWarmupActed == Spec => []WarmupNeverActed
<1>1. RTCInv => WarmupNeverActed
  BY DEF RTCInv, QueueInv, QueueCold, WarmupNeverActed
<1> QED BY <1>1, RTCInductive, PTL

(* The robot plays the chunks forward, across merges, appends and resets.  *)
THEOREM PlaysChunksForward == Spec => PlaysForward
<1>1. RTCInv /\ [Next]_vars =>
        [last' # last => \/ last'.chunk > last.chunk
                         \/ last'.chunk = last.chunk /\ last'.step > last.step]_vars
  <2> SUFFICES ASSUME RTCInv, Next, last' # last
               PROVE  \/ last'.chunk > last.chunk
                      \/ last'.chunk = last.chunk /\ last'.step > last.step
    OBVIOUS
  <2>1. GetAction
    <3> USE DEF taskVars, queueVars, rtcVars, tallyVars
    <3>1. ~SetTask
      BY DEF SetTask
    <3>2. Control => GetAction
      BY DEF Control, ResetBegin, ResetState, ResetEnd, Resume, Pause, Notify, WarmupWait,
         WarmupFlush, WarmupFlushed
    <3>3. ~RtcLoop
      BY Zenon DEF RtcLoop, Snapshot, AfterQuery, CheckSize, ReadLeftOver, TakeTask, Predict,
         PredictFails, MergeChunk, FinishWarmup
    <3> QED BY <3>1, <3>2, <3>3 DEF Next
  <2>2. index < Len(queue) /\ last' = queue[index + 1]
    BY <2>1 DEF GetAction
  <2>3. index + 1 \in 1..Len(queue) /\ index + 1 > index
    <3>1. Len(queue) \in Nat /\ index \in 0..Len(queue)
      BY LenProperties DEF RTCInv, QueueInv, QueueTypes
    <3> QED BY <2>2, <3>1
  <2>4. Earlier(last, last')
    BY <2>2, <2>3 DEF RTCInv, QueueInv, QueueOrdered
  <2>5. queue[index + 1] \in Actions /\ last \in Sent
    BY <2>3, ElementOfSeq DEF RTCInv, QueueInv, QueueTypes
  <2>6. last.chunk \in Nat /\ last'.chunk \in Nat /\ last.step \in Nat /\ last'.step \in Nat
    BY <2>2, <2>5 DEF Actions, Sent
  <2> QED BY <2>4, <2>6 DEF Earlier
<1> QED BY <1>1, RTCInductive, PTL DEF Spec, PlaysForward


---------------------------------------------------------------------------
(* Induction and minima.                                                   *)

\* A set of numbers that is not empty has a least one.
LEMMA LeastIsThere ==
  ASSUME NEW S, S \subseteq Nat, S # {}
  PROVE  Least(S) \in S /\ \A y \in S : Least(S) <= y
<1> DEFINE R == OpToRel(<, Nat)
<1>1. IsWellFoundedOn(R, Nat)
  BY NatLessThanWellFounded
<1>2. PICK x \in S : \A y \in S : <<y, x>> \notin R
  <2> HIDE DEF R
  <2> QED BY <1>1, WFMin
<1>3. \A y \in S : ~(y < x)
  BY <1>2 DEF OpToRel
<1> HIDE DEF R
<1>4. \A y \in S : x <= y
  BY <1>3
<1> QED BY <1>4 DEF Least

\* Induction: a set with 0 and the successor of each of its numbers has them all.
LEMMA SetInduction ==
  ASSUME NEW S, 0 \in S, \A n \in Nat : n \in S => n + 1 \in S
  PROVE  Nat \subseteq S
<1> SUFFICES ASSUME Nat \ S # {} PROVE FALSE
  OBVIOUS
<1>1. PICK x \in Nat \ S : \A y \in Nat \ S : x <= y
  BY LeastIsThere
<1>2. x # 0 /\ x - 1 \in Nat /\ x - 1 < x /\ (x - 1) + 1 = x
  BY <1>1
<1> QED BY <1>1, <1>2

---------------------------------------------------------------------------
(* Sums.                                                                   *)

Runs(s, c, n) == s[0] = 0 /\ \A k \in 1..n : s[k] = s[k - 1] + c[k]

IsSums(s, c, n) == s \in [0..n -> Nat] /\ Runs(s, c, n)

\* There is one way to sum up.
LEMMA SameSums ==
  ASSUME NEW n \in Nat, NEW c, NEW s, NEW t, Runs(s, c, n), Runs(t, c, n)
  PROVE  \A k \in 0..n : t[k] = s[k]
<1> DEFINE S == {k \in Nat : k <= n => t[k] = s[k]}
<1>1. 0 \in S
  BY DEF Runs
<1>2. \A k \in Nat : k \in S => k + 1 \in S
  <2> SUFFICES ASSUME NEW k \in Nat, k <= n => t[k] = s[k], k + 1 <= n
               PROVE  t[k + 1] = s[k + 1]
    OBVIOUS
  <2>1. k + 1 \in 1..n /\ (k + 1) - 1 = k
    OBVIOUS
  <2> QED BY <2>1 DEF Runs
<1>3. Nat \subseteq S
  <2> HIDE DEF S
  <2> QED BY <1>1, <1>2, SetInduction
<1> QED BY <1>3

LEMMA SumsExist ==
  ASSUME NEW c \in Seq(Nat)
  PROVE  \E s : IsSums(s, c, Len(c))
<1> DEFINE S == {n \in Nat : n <= Len(c) => \E s : IsSums(s, c, n)}
<1>1. 0 \in S
  <2>1. IsSums([k \in 0..0 |-> 0], c, 0)
    BY DEF IsSums, Runs
  <2> QED BY <2>1
<1>2. \A n \in Nat : n \in S => n + 1 \in S
  <2> SUFFICES ASSUME NEW n \in Nat, n \in S, n + 1 <= Len(c)
               PROVE  \E s : IsSums(s, c, n + 1)
    OBVIOUS
  <2>1. PICK s : IsSums(s, c, n)
    OBVIOUS
  <2> DEFINE t == [k \in 0..(n + 1) |-> IF k <= n THEN s[k] ELSE s[n] + c[n + 1]]
  <2>2. c[n + 1] \in Nat
    OBVIOUS
  <2>3. t \in [0..(n + 1) -> Nat] /\ t[0] = 0
    BY <2>1, <2>2 DEF IsSums, Runs
  <2>4. ASSUME NEW k \in 1..(n + 1) PROVE t[k] = t[k - 1] + c[k]
    <3>1. k - 1 \in 0..n /\ t[k - 1] = s[k - 1]
      OBVIOUS
    <3>2. CASE k <= n
      BY <2>1, <3>1, <3>2 DEF IsSums, Runs
    <3>3. CASE k = n + 1
      BY <3>1, <3>3
    <3> QED BY <3>2, <3>3
  <2> HIDE DEF t
  <2>5. IsSums(t, c, n + 1)
    BY <2>3, <2>4 DEF IsSums, Runs
  <2> QED BY <2>5
<1>3. Nat \subseteq S
  <2> HIDE DEF S
  <2> QED BY <1>1, <1>2, SetInduction
<1> QED BY <1>3

LEMMA SumsAre ==
  ASSUME NEW c \in Seq(Nat)
  PROVE  IsSums(M!Sums(c), c, Len(c))
<1>1. PICK s : IsSums(s, c, Len(c))
  BY SumsExist
<1>2. s = [n \in 0..Len(c) |-> IF n = 0 THEN 0 ELSE s[n - 1] + c[n]]
  BY <1>1 DEF IsSums, Runs
<1>3. M!Sums(c) = [n \in 0..Len(c) |-> IF n = 0 THEN 0 ELSE M!Sums(c)[n - 1] + c[n]]
  BY <1>2 DEF M!Sums
<1> DEFINE t == M!Sums(c)
<1>4. t = [n \in 0..Len(c) |-> t[n]] /\ Runs(t, c, Len(c))
  BY <1>3 DEF Runs
<1> HIDE DEF t
<1>5. \A n \in 0..Len(c) : t[n] = s[n]
  <2>1. Runs(s, c, Len(c)) /\ Len(c) \in Nat
    BY <1>1 DEF IsSums
  <2>2. Runs(t, c, Len(c))
    BY <1>4
  <2> QED BY <2>1, <2>2, SameSums
<1>6. IsSums(t, c, Len(c))
  <2>1. \A n \in 0..Len(c) : t[n] \in Nat
    BY <1>1, <1>5 DEF IsSums
  <2> QED BY <1>4, <2>1 DEF IsSums
<1> QED BY <1>6 DEF t

\* The sum of a sequence that is made longer.
LEMMA SumsAppend ==
  ASSUME NEW c \in Seq(Nat), NEW d \in Seq(Nat), Len(d) = Len(c) + 1,
         \A k \in 1..Len(c) : d[k] = c[k]
  PROVE  /\ M!Sums(d)[Len(d)] = M!Sums(c)[Len(c)] + d[Len(d)]
         /\ M!Sums(c)[Len(c)] \in Nat
<1> DEFINE s == M!Sums(c)
           t == M!Sums(d)
<1>2. IsSums(s, c, Len(c)) /\ IsSums(t, d, Len(c) + 1)
  BY SumsAre
<1> HIDE DEF s, t
<1>3. Runs(t, c, Len(c))
  BY <1>2 DEF IsSums, Runs
<1>5. \A n \in 0..Len(c) : t[n] = s[n]
  BY <1>2, <1>3, SameSums DEF IsSums
<1>6. t[Len(c)] = s[Len(c)] /\ s[Len(c)] \in Nat
  BY <1>2, <1>5 DEF IsSums
<1>7. t[Len(c) + 1] = t[Len(c)] + d[Len(c) + 1]
  <2>1. Len(c) + 1 \in 1..(Len(c) + 1) /\ (Len(c) + 1) - 1 = Len(c)
    OBVIOUS
  <2> QED BY <1>2, <2>1 DEF IsSums, Runs
<1> QED BY <1>6, <1>7 DEF s, t

---------------------------------------------------------------------------
(* Warping paths.                                                          *)

\* Local costs of some of the chunks in v.
Rows(v) == UNION {[S -> Nat] : S \in SUBSET v}

\* M!Paths, M!Steps and M!PathCost of the updates m over the valid chunks v.
PathSet(v, m) ==
  {p \in [0..Len(m) -> v] :
     /\ p[0] = M!Least(v)
     /\ \A k \in 1..Len(m) : p[k] \in DOMAIN m[k] /\ p[k] - p[k - 1] \in 0..MaxAdvance}

StepAt(p, m, k) == m[k][p[k]] + M!Penalty(p[k] - p[k - 1], k = 1)

StepsOf(p, m) == [k \in 1..Len(m) |-> StepAt(p, m, k)]

CostOf(p, m) == M!Sums(StepsOf(p, m))[Len(m)]

LEMMA PenaltyIsNat ==
  ASSUME NEW a \in 0..MaxAdvance, NEW first
  PROVE  M!Penalty(a, first) \in Nat
<1>1. StayPenalty \in Nat /\ SkipPenalty \in Nat /\ MaxAdvance \in Nat
  BY WarpingAssumption
<1>2. CASE a = 0
  BY <1>1, <1>2 DEF M!Penalty
<1>3. CASE a # 0
  <2>1. a - 1 \in Nat
    BY <1>1, <1>3
  <2>2. \A x, y \in Nat : x * y \in Nat
    OBVIOUS
  <2>3. SkipPenalty * (a - 1) \in Nat
    BY <1>1, <2>1, <2>2
  <2> QED BY <1>3, <2>3 DEF M!Penalty
<1> QED BY <1>2, <1>3

LEMMA RowFacts ==
  ASSUME NEW v, NEW row \in Rows(v)
  PROVE  DOMAIN row \subseteq v /\ \A j \in DOMAIN row : row[j] \in Nat
BY DEF Rows

LEMMA StepsAre ==
  ASSUME NEW v, v \subseteq Nat, NEW m \in Seq(Rows(v)), NEW p \in PathSet(v, m)
  PROVE  /\ StepsOf(p, m) \in Seq(Nat) /\ Len(StepsOf(p, m)) = Len(m)
         /\ \A k \in 1..Len(m) : StepsOf(p, m)[k] = StepAt(p, m, k)
<1>1. \A k \in 1..Len(m) : StepAt(p, m, k) \in Nat
  <2> TAKE k \in 1..Len(m)
  <2>1. m[k] \in Rows(v)
    OBVIOUS
  <2>2. p[k] \in DOMAIN m[k] /\ p[k] - p[k - 1] \in 0..MaxAdvance
    BY DEF PathSet
  <2>3. m[k][p[k]] \in Nat
    BY <2>1, <2>2, RowFacts
  <2>4. M!Penalty(p[k] - p[k - 1], k = 1) \in Nat
    BY <2>2, PenaltyIsNat
  <2> QED BY <2>3, <2>4 DEF StepAt
<1>2. Len(m) \in Nat
  OBVIOUS
<1> QED BY <1>1, <1>2 DEF StepsOf

\* A path that is one update longer costs what that update adds.
LEMMA CostGrows ==
  ASSUME NEW v, v \subseteq Nat, NEW m \in Seq(Rows(v)), NEW row \in Rows(v),
         NEW p \in PathSet(v, m), NEW q \in PathSet(v, Append(m, row)),
         \A k \in 0..Len(m) : q[k] = p[k]
  PROVE  /\ CostOf(p, m) \in Nat
         /\ CostOf(q, Append(m, row)) = CostOf(p, m) + StepAt(q, Append(m, row), Len(m) + 1)
<1> DEFINE n == Len(m)
           longer == Append(m, row)
           c == StepsOf(p, m)
           d == StepsOf(q, longer)
<1>1. longer \in Seq(Rows(v)) /\ Len(longer) = n + 1 /\ n \in Nat
      /\ \A k \in 1..n : longer[k] = m[k]
  OBVIOUS
<1>2. c \in Seq(Nat) /\ Len(c) = n /\ \A k \in 1..n : c[k] = StepAt(p, m, k)
  BY StepsAre
<1>3. d \in Seq(Nat) /\ Len(d) = n + 1 /\ \A k \in 1..(n + 1) : d[k] = StepAt(q, longer, k)
  <2> HIDE DEF longer
  <2> QED BY <1>1, StepsAre DEF longer
<1>4. ASSUME NEW k \in 1..n PROVE d[k] = c[k]
  <2>1. k \in 1..(n + 1) /\ q[k] = p[k] /\ q[k - 1] = p[k - 1] /\ longer[k] = m[k]
    BY <1>1
  <2>2. StepAt(q, longer, k) = StepAt(p, m, k)
    BY <2>1 DEF StepAt
  <2>3. c[k] = StepAt(p, m, k) /\ d[k] = StepAt(q, longer, k)
    BY <1>2, <1>3, <2>1
  <2> QED BY <2>2, <2>3
<1>5. /\ M!Sums(d)[n + 1] = M!Sums(c)[n] + d[n + 1]
      /\ M!Sums(c)[n] \in Nat
  <2> HIDE DEF longer, c, d
  <2> QED BY <1>1, <1>2, <1>3, <1>4, SumsAppend
<1> QED BY <1>1, <1>3, <1>5 DEF CostOf

\* A path goes on to a chunk of the next update that it can reach.
Extended(p, n, j) == [k \in 0..(n + 1) |-> IF k <= n THEN p[k] ELSE j]

LEMMA PathExtends ==
  ASSUME NEW v, v \subseteq Nat, NEW m \in Seq(Rows(v)), NEW row \in Rows(v),
         NEW p \in PathSet(v, m), NEW j \in DOMAIN row, j - p[Len(m)] \in 0..MaxAdvance
  PROVE  Extended(p, Len(m), j) \in PathSet(v, Append(m, row))
<1> DEFINE n == Len(m)
           longer == Append(m, row)
           q == Extended(p, n, j)
<1>1. Len(longer) = n + 1 /\ n \in Nat /\ longer[n + 1] = row /\ \A k \in 1..n : longer[k] = m[k]
  OBVIOUS
<1>2. j \in v
  BY RowFacts
<1>3. q \in [0..(n + 1) -> v] /\ q[0] = M!Least(v)
  BY <1>1, <1>2 DEF PathSet, Extended
<1>4. ASSUME NEW k \in 1..(n + 1) PROVE q[k] \in DOMAIN longer[k] /\ q[k] - q[k - 1] \in 0..MaxAdvance
  <2>1. CASE k <= n
    <3>1. k \in 1..n /\ longer[k] = m[k] /\ q[k] = p[k] /\ q[k - 1] = p[k - 1]
      BY <1>1, <2>1 DEF Extended
    <3>2. p[k] \in DOMAIN m[k] /\ p[k] - p[k - 1] \in 0..MaxAdvance
      BY <3>1 DEF PathSet
    <3> QED BY <3>1, <3>2
  <2>2. CASE k = n + 1
    BY <1>1, <2>2 DEF Extended
  <2> QED BY <1>1, <2>1, <2>2
<1>5. q \in PathSet(v, longer)
  <2> HIDE DEF longer, q
  <2> QED BY <1>1, <1>3, <1>4 DEF PathSet
<1> QED BY <1>1, <1>5

\* Without its last update a path is a path.
LEMMA PathShortens ==
  ASSUME NEW v, v \subseteq Nat, NEW m \in Seq(Rows(v)), NEW row \in Rows(v),
         NEW q \in PathSet(v, Append(m, row))
  PROVE  /\ q[Len(m) + 1] \in DOMAIN row /\ q[Len(m) + 1] - q[Len(m)] \in 0..MaxAdvance
         /\ \E p \in PathSet(v, m) : \A k \in 0..Len(m) : q[k] = p[k]
<1> DEFINE n == Len(m)
           longer == Append(m, row)
           p == [k \in 0..n |-> q[k]]
<1>1. Len(longer) = n + 1 /\ n \in Nat /\ longer[n + 1] = row /\ \A k \in 1..n : longer[k] = m[k]
  OBVIOUS
<1>2. /\ q \in [0..(n + 1) -> v] /\ q[0] = M!Least(v)
      /\ \A k \in 1..(n + 1) : q[k] \in DOMAIN longer[k] /\ q[k] - q[k - 1] \in 0..MaxAdvance
  <2> HIDE DEF longer
  <2> QED BY <1>1 DEF PathSet, longer
<1>3. q[n + 1] \in DOMAIN row /\ q[n + 1] - q[n] \in 0..MaxAdvance
  <2>1. n + 1 \in 1..(n + 1) /\ (n + 1) - 1 = n
    BY <1>1
  <2> HIDE DEF longer
  <2> QED BY <1>1, <1>2, <2>1
<1>4. p \in PathSet(v, m)
  <2>1. p \in [0..n -> v] /\ p[0] = M!Least(v)
    BY <1>1, <1>2
  <2>2. ASSUME NEW k \in 1..n PROVE p[k] \in DOMAIN m[k] /\ p[k] - p[k - 1] \in 0..MaxAdvance
    BY <1>1, <1>2
  <2> QED BY <2>1, <2>2 DEF PathSet
<1>5. \A k \in 0..n : q[k] = p[k]
  OBVIOUS
<1> QED BY <1>3, <1>4, <1>5

---------------------------------------------------------------------------
(* One row.                                                                *)

LEMMA LeastIs == \A S : M!Least(S) = Least(S)
BY DEF M!Least, Least

LEMMA BestIsThere ==
  ASSUME NEW v, v \subseteq Nat, NEW row \in Rows(v), DOMAIN row # {}
  PROVE  /\ M!BestOf(row) \in DOMAIN row
         /\ \A k \in DOMAIN row : row[M!BestOf(row)] <= row[k]
<1> DEFINE R == {row[k] : k \in DOMAIN row}
           S == {k \in DOMAIN row : row[k] = Least(R)}
<1>1. \A k \in DOMAIN row : k \in Nat /\ row[k] \in Nat
  BY RowFacts
<1>2. Least(R) \in R /\ \A y \in R : Least(R) <= y
  <2>1. R \subseteq Nat /\ R # {}
    BY <1>1
  <2> HIDE DEF R
  <2> QED BY <2>1, LeastIsThere
<1>3. Least(S) \in S /\ \A y \in S : Least(S) <= y
  <2>1. S \subseteq Nat /\ S # {}
    BY <1>1, <1>2
  <2> HIDE DEF S
  <2> QED BY <2>1, LeastIsThere
<1> DEFINE j == Least(S)
<1>4. j \in DOMAIN row /\ \A k \in DOMAIN row : row[j] <= row[k] /\ (row[j] = row[k] => j <= k)
  <2>1. j \in DOMAIN row /\ row[j] = Least(R)
    BY <1>3
  <2>2. \A k \in DOMAIN row : Least(R) <= row[k]
    BY <1>2
  <2>3. \A k \in DOMAIN row : row[k] = Least(R) => j <= k
    BY <1>3
  <2> QED BY <2>1, <2>2, <2>3
<1> HIDE DEF j
<1>5. \A k \in DOMAIN row : row[j] < row[k] \/ (row[j] = row[k] /\ j <= k)
  BY <1>1, <1>4
<1>6. /\ M!BestOf(row) \in DOMAIN row
      /\ \A k \in DOMAIN row :
           row[M!BestOf(row)] < row[k] \/ (row[M!BestOf(row)] = row[k] /\ M!BestOf(row) <= k)
  BY <1>4, <1>5 DEF M!BestOf
<1> QED BY <1>1, <1>6

\* A row, on top of an offset, holds the cost of the cheapest path to each chunk
\* that a path reaches.
Optimal(v, m, row, off) ==
  /\ \A p \in PathSet(v, m) :
       p[Len(m)] \in DOMAIN row /\ off + row[p[Len(m)]] <= CostOf(p, m)
  /\ \A j \in DOMAIN row :
       \E p \in PathSet(v, m) : p[Len(m)] = j /\ CostOf(p, m) = off + row[j]

\* The costs of the ways to a chunk.
Ways(row, j, first) == {row[j - a] + M!Penalty(a, first) : a \in M!Advances(row, j)}

LEMMA NextRowIs ==
  ASSUME NEW v, v \subseteq Nat, NEW row \in Rows(v), NEW local \in Rows(v), NEW first
  PROVE  /\ M!NextRow(row, local, first) \in Rows(v)
         /\ \A j : j \in DOMAIN M!NextRow(row, local, first)
                     <=> j \in DOMAIN local /\ M!Advances(row, j) # {}
         /\ \A j \in DOMAIN M!NextRow(row, local, first) :
              /\ \E a \in M!Advances(row, j) :
                   M!NextRow(row, local, first)[j] = local[j] + row[j - a] + M!Penalty(a, first)
              /\ \A a \in M!Advances(row, j) :
                   M!NextRow(row, local, first)[j] <= local[j] + row[j - a] + M!Penalty(a, first)
<1> DEFINE r == M!NextRow(row, local, first)
<1>1. \A j : j \in DOMAIN r <=> j \in DOMAIN local /\ M!Advances(row, j) # {}
  BY DEF M!NextRow
<1>2. \A j \in DOMAIN r : r[j] = local[j] + M!Least(Ways(row, j, first))
  BY DEF M!NextRow, Ways
<1>3. ASSUME NEW j, M!Advances(row, j) # {}
      PROVE  /\ \E a \in M!Advances(row, j) : M!Least(Ways(row, j, first)) = row[j - a] + M!Penalty(a, first)
             /\ \A a \in M!Advances(row, j) : M!Least(Ways(row, j, first)) <= row[j - a] + M!Penalty(a, first)
             /\ M!Least(Ways(row, j, first)) \in Nat
  <2>1. \A a \in M!Advances(row, j) : row[j - a] \in Nat /\ M!Penalty(a, first) \in Nat
    BY RowFacts, PenaltyIsNat DEF M!Advances
  <2> DEFINE S == Ways(row, j, first)
  <2>2. S \subseteq Nat /\ S # {}
    BY <1>3, <2>1 DEF Ways
  <2>3. M!Least(S) \in S /\ \A y \in S : M!Least(S) <= y
    <3> HIDE DEF S
    <3> QED BY <2>2, LeastIsThere, LeastIs
  <2> QED BY <2>2, <2>3 DEF Ways
<1>4. \A j \in DOMAIN r : local[j] \in Nat /\ j \in v
  BY <1>1, RowFacts
<1>5. \A j \in DOMAIN r : r[j] \in Nat
  <2> HIDE DEF r
  <2> QED BY <1>1, <1>2, <1>3, <1>4
<1>6. r \in Rows(v)
  <2>1. r = [j \in DOMAIN r |-> r[j]]
    BY DEF M!NextRow
  <2> HIDE DEF r
  <2> QED BY <1>4, <1>5, <2>1 DEF Rows
<1>7. ASSUME NEW j \in DOMAIN r
      PROVE  /\ \E a \in M!Advances(row, j) : r[j] = local[j] + row[j - a] + M!Penalty(a, first)
             /\ \A a \in M!Advances(row, j) : r[j] <= local[j] + row[j - a] + M!Penalty(a, first)
  <2>1. \A a \in M!Advances(row, j) : row[j - a] \in Nat /\ M!Penalty(a, first) \in Nat
    BY RowFacts, PenaltyIsNat DEF M!Advances
  <2> HIDE DEF r
  <2> QED BY <1>1, <1>2, <1>3, <1>4, <2>1
<1> QED BY <1>1, <1>6, <1>7

LEMMA RowIsOptimal ==
  ASSUME NEW v, v \subseteq Nat, NEW m \in Seq(Rows(v)), NEW row \in Rows(v), NEW local \in Rows(v),
         NEW off \in Nat, Optimal(v, m, row, off)
  PROVE  Optimal(v, Append(m, local), M!NextRow(row, local, Len(m) = 0), off)
<1> DEFINE n == Len(m)
           longer == Append(m, local)
           first == Len(m) = 0
           r == M!NextRow(row, local, first)
<1>1. Len(longer) = n + 1 /\ n \in Nat /\ longer[n + 1] = local
  OBVIOUS
<1>2. /\ \A j : j \in DOMAIN r <=> j \in DOMAIN local /\ M!Advances(row, j) # {}
      /\ \A j \in DOMAIN r :
           /\ \E a \in M!Advances(row, j) : r[j] = local[j] + row[j - a] + M!Penalty(a, first)
           /\ \A a \in M!Advances(row, j) : r[j] <= local[j] + row[j - a] + M!Penalty(a, first)
  <2> HIDE DEF first
  <2> QED BY NextRowIs
<1>3. \A q : StepAt(q, longer, n + 1) = local[q[n + 1]] + M!Penalty(q[n + 1] - q[n], first)
  <2>1. (n + 1 = 1) = first /\ (n + 1) - 1 = n
    BY <1>1
  <2> QED BY <1>1, <2>1 DEF StepAt
<1>4. r \in Rows(v)
  BY NextRowIs
<1> HIDE DEF longer, r, first
<1>5. /\ \A k \in DOMAIN row : k \in Nat /\ row[k] \in Nat
      /\ \A k \in DOMAIN local : k \in Nat /\ local[k] \in Nat
      /\ \A k \in DOMAIN r : k \in Nat /\ r[k] \in Nat
  BY <1>4, RowFacts
<1>6. ASSUME NEW q \in PathSet(v, longer)
      PROVE  q[n + 1] \in DOMAIN r /\ off + r[q[n + 1]] <= CostOf(q, longer)
  <2>1. q[n + 1] \in DOMAIN local /\ q[n + 1] - q[n] \in 0..MaxAdvance
    BY PathShortens DEF longer
  <2>2. PICK p \in PathSet(v, m) : \A k \in 0..n : q[k] = p[k]
    BY PathShortens DEF longer
  <2>3. p[n] = q[n] /\ p[n] \in DOMAIN row /\ off + row[p[n]] <= CostOf(p, m)
    BY <1>1, <2>2 DEF Optimal
  <2>4. /\ CostOf(p, m) \in Nat
        /\ CostOf(q, longer) = CostOf(p, m) + StepAt(q, longer, n + 1)
    BY <2>2, CostGrows DEF longer
  <2> DEFINE j == q[n + 1]
             a == q[n + 1] - q[n]
  <2>5. j \in Nat /\ p[n] \in Nat /\ row[p[n]] \in Nat /\ local[j] \in Nat
    BY <1>5, <2>1, <2>3
  <2>6. a \in 0..MaxAdvance /\ j - a = p[n] /\ M!Penalty(a, first) \in Nat
    BY <2>1, <2>3, <2>5, PenaltyIsNat
  <2>7. a \in M!Advances(row, j)
    BY <2>3, <2>6 DEF M!Advances
  <2>8. j \in DOMAIN r /\ r[j] <= local[j] + row[j - a] + M!Penalty(a, first)
    BY <1>2, <2>1, <2>7
  <2>9. r[j] \in Nat
    BY <1>5, <2>8
  <2>10. CostOf(q, longer) = CostOf(p, m) + (local[j] + M!Penalty(a, first))
    BY <1>3, <2>4
  <2> DEFINE penalty == M!Penalty(a, first)
             from == row[p[n]]
             cost == CostOf(p, m)
  <2>11. r[j] <= local[j] + from + penalty /\ CostOf(q, longer) = cost + (local[j] + penalty)
    BY <2>6, <2>8, <2>10
  <2>12. off + from <= cost /\ cost \in Nat /\ from \in Nat /\ penalty \in Nat
    BY <2>3, <2>4, <2>5, <2>6
  <2> HIDE DEF j, a, penalty, from, cost
  <2>13. off + r[j] <= CostOf(q, longer)
    BY <2>5, <2>9, <2>11, <2>12
  <2> QED BY <2>8, <2>13 DEF j
<1>7. ASSUME NEW j \in DOMAIN r
      PROVE  \E q \in PathSet(v, longer) : q[n + 1] = j /\ CostOf(q, longer) = off + r[j]
  <2>1. PICK a \in M!Advances(row, j) : r[j] = local[j] + row[j - a] + M!Penalty(a, first)
    BY <1>2
  <2>2. a \in 0..MaxAdvance /\ j - a \in DOMAIN row /\ j \in DOMAIN local
    BY <1>2 DEF M!Advances
  <2>3. PICK p \in PathSet(v, m) : p[n] = j - a /\ CostOf(p, m) = off + row[j - a]
    BY <2>2 DEF Optimal
  <2>4. j \in Nat /\ row[j - a] \in Nat /\ local[j] \in Nat /\ M!Penalty(a, first) \in Nat
    BY <1>5, <2>2, PenaltyIsNat
  <2>5. a \in Int /\ j - (j - a) = a
    BY <2>2, <2>4
  <2> DEFINE q == Extended(p, n, j)
  <2>6. q \in PathSet(v, longer) /\ q[n + 1] = j /\ \A k \in 0..n : q[k] = p[k]
    <3>1. j - p[Len(m)] \in 0..MaxAdvance
      BY <2>2, <2>3, <2>5
    <3>2. q \in PathSet(v, longer)
      BY <2>2, <3>1, PathExtends DEF longer
    <3> QED BY <1>1, <3>2 DEF Extended
  <2> HIDE DEF q
  <2>7. CostOf(q, longer) = CostOf(p, m) + StepAt(q, longer, n + 1)
    BY <2>6, CostGrows DEF longer
  <2>8. q[n] = j - a
    BY <1>1, <2>3, <2>6
  <2>9. CostOf(q, longer) = (off + row[j - a]) + (local[j] + M!Penalty(a, first))
    BY <1>3, <2>3, <2>5, <2>6, <2>7, <2>8
  <2>10. CostOf(q, longer) = off + r[j]
    BY <2>1, <2>4, <2>9
  <2> QED BY <2>6, <2>10
<1>8. Optimal(v, longer, r, off)
  BY <1>1, <1>6, <1>7 DEF Optimal
<1> QED BY <1>8 DEF longer, r, first

LEMMA NormalizedIs ==
  ASSUME NEW v, v \subseteq Nat, NEW row \in Rows(v), DOMAIN row # {}
  PROVE  /\ M!Normalized(row) \in Rows(v) /\ DOMAIN M!Normalized(row) = DOMAIN row
         /\ \A j \in DOMAIN row : M!Normalized(row)[j] = row[j] - row[M!BestOf(row)]
<1> DEFINE best == row[M!BestOf(row)]
<1>1. best \in Nat /\ \A j \in DOMAIN row : row[j] \in Nat /\ best <= row[j]
  BY BestIsThere, RowFacts
<1> HIDE DEF best
<1>2. \A j \in DOMAIN row : row[j] - best \in Nat
  BY <1>1
<1>3. M!Normalized(row) = [j \in DOMAIN row |-> row[j] - best]
  BY DEF M!Normalized, best
<1>4. DOMAIN row \in SUBSET v
  BY RowFacts
<1> QED BY <1>2, <1>3, <1>4 DEF Rows, best

\* Normalising a row loses nothing.
LEMMA NormalizedIsOptimal ==
  ASSUME NEW v, v \subseteq Nat, NEW m, NEW row \in Rows(v), DOMAIN row # {}, NEW off \in Nat,
         Optimal(v, m, row, off)
  PROVE  Optimal(v, m, M!Normalized(row), off + row[M!BestOf(row)])
<1> DEFINE best == row[M!BestOf(row)]
           r == M!Normalized(row)
<1>1. DOMAIN r = DOMAIN row /\ \A j \in DOMAIN row : r[j] = row[j] - best
  BY NormalizedIs
<1>2. best \in Nat /\ \A j \in DOMAIN row : row[j] \in Nat
  BY BestIsThere, RowFacts
<1> HIDE DEF best, r
<1>3. \A j \in DOMAIN row : (off + best) + r[j] = off + row[j]
  BY <1>1, <1>2
<1>4. Optimal(v, m, r, off + best)
  BY <1>1, <1>3 DEF Optimal
<1> QED BY <1>4 DEF best, r

---------------------------------------------------------------------------
(* The history.                                                            *)

\* The first of the newest n elements.
From(l, n) == IF l > n THEN l - n + 1 ELSE 1

IsLatest(r, s, n, S) ==
  /\ r \in Seq(S) /\ Len(r) = Len(s) - From(Len(s), n) + 1
  /\ From(Len(s), n) \in 1..(Len(s) + 1) /\ Len(s) \in Nat
  /\ \A k \in 1..(Len(s) - From(Len(s), n) + 1) : r[k] = s[From(Len(s), n) + k - 1]

LEMMA CardinalityIs == \A S : M!Cardinality(S) = Cardinality(S)
BY DEF M!Cardinality, Cardinality

LEMMA FromFacts ==
  ASSUME NEW l \in Nat, NEW n \in Nat \ {0}
  PROVE  From(l, n) \in 1..(l + 1) /\ (l > 0 => From(l, n) \in 1..l)
BY DEF From

LEMMA FromAfterAppend ==
  ASSUME NEW l \in Nat, NEW n \in Nat \ {0}, NEW k, k = l - From(l, n) + 1
  PROVE  /\ (k + 1) - From(k + 1, n) = (l + 1) - From(l + 1, n)
         /\ From(l + 1, n) = From(k + 1, n) + From(l, n) - 1
         /\ k \in Nat /\ From(k + 1, n) \in 1..(k + 1)
BY DEF From

LEMMA FromTwice ==
  ASSUME NEW l \in Nat, NEW n \in Nat \ {0}, NEW k, k = l - From(l, n + 1) + 1
  PROVE  /\ k - From(k, n) = l - From(l, n)
         /\ From(l, n) = From(k, n) + From(l, n + 1) - 1
         /\ k \in Nat /\ From(k, n) \in 1..(k + 1)
BY DEF From

LEMMA LatestFacts ==
  ASSUME NEW S, NEW s \in Seq(S), NEW n \in Nat \ {0}
  PROVE  IsLatest(M!Latest(s, n), s, n, S)
<1> DEFINE a == From(Len(s), n)
<1>1. Len(s) \in Nat /\ a \in 1..(Len(s) + 1)
  BY DEF From
<1>2. M!Latest(s, n) = SubSeq(s, a, Len(s))
  BY DEF M!Latest, From
<1> HIDE DEF a
<1>3. \A k \in a..Len(s) : s[k] \in S
  BY <1>1
<1>4. /\ SubSeq(s, a, Len(s)) \in Seq(S)
      /\ Len(SubSeq(s, a, Len(s))) = IF a <= Len(s) THEN Len(s) - a + 1 ELSE 0
      /\ \A k \in 1..(Len(s) - a + 1) : SubSeq(s, a, Len(s))[k] = s[a + k - 1]
  BY <1>1, <1>3, SubSeqProperties
<1> QED BY <1>1, <1>2, <1>4 DEF a, IsLatest

\* Forgetting the oldest frames before or after another one is appended.
LEMMA LatestOfAppend ==
  ASSUME NEW S, NEW s \in Seq(S), NEW x \in S, NEW n \in Nat \ {0}
  PROVE  M!Latest(Append(M!Latest(s, n), x), n) = M!Latest(Append(s, x), n)
<1> DEFINE r == M!Latest(s, n)
           u == Append(r, x)
           w == Append(s, x)
           a == From(Len(s), n)
<1>1. IsLatest(r, s, n, S)
  BY LatestFacts
<1> HIDE DEF r
<1>2. /\ r \in Seq(S) /\ Len(r) = Len(s) - a + 1 /\ Len(s) \in Nat
      /\ \A k \in 1..(Len(s) - a + 1) : r[k] = s[a + k - 1]
  BY <1>1 DEF IsLatest
<1>3. /\ u \in Seq(S) /\ Len(u) = Len(r) + 1 /\ u[Len(r) + 1] = x /\ \A k \in 1..Len(r) : u[k] = r[k]
      /\ w \in Seq(S) /\ Len(w) = Len(s) + 1 /\ w[Len(s) + 1] = x /\ \A k \in 1..Len(s) : w[k] = s[k]
  BY <1>2
<1> HIDE DEF u, w
<1>4. IsLatest(M!Latest(u, n), u, n, S) /\ IsLatest(M!Latest(w, n), w, n, S)
  BY <1>3, LatestFacts
<1> DEFINE b == From(Len(u), n)
<1>5. Len(u) - b = Len(w) - From(Len(w), n) /\ From(Len(w), n) = b + a - 1 /\ b \in 1..Len(u)
      /\ a \in 1..(Len(s) + 1) /\ Len(r) \in Nat
  <2>1. Len(r) = Len(s) - a + 1 /\ Len(s) \in Nat
    BY <1>2
  <2>2. Len(u) = Len(r) + 1 /\ Len(w) = Len(s) + 1
    BY <1>3
  <2>3. a \in 1..(Len(s) + 1)
    BY <2>1, FromFacts
  <2>4. /\ (Len(r) + 1) - From(Len(r) + 1, n) = (Len(s) + 1) - From(Len(s) + 1, n)
        /\ From(Len(s) + 1, n) = From(Len(r) + 1, n) + a - 1
        /\ Len(r) \in Nat /\ From(Len(r) + 1, n) \in 1..(Len(r) + 1)
    BY <2>1, FromAfterAppend
  <2> QED BY <2>2, <2>3, <2>4
<1> HIDE DEF a, b
<1>6. ASSUME NEW k \in 1..(Len(u) - b + 1)
      PROVE  u[b + k - 1] = w[From(Len(w), n) + k - 1]
  <2> DEFINE i == b + k - 1
  <2>1. i \in 1..(Len(r) + 1) /\ From(Len(w), n) + k - 1 = i + a - 1
    BY <1>3, <1>5
  <2> HIDE DEF i
  <2>2. ASSUME i = Len(r) + 1 PROVE u[i] = w[From(Len(w), n) + k - 1]
    <3>1. i + a - 1 = Len(s) + 1
      BY <1>2, <1>5, <2>2
    <3>2. u[i] = x /\ w[i + a - 1] = x
      BY <1>3, <2>2, <3>1
    <3> QED BY <2>1, <3>2
  <2>3. ASSUME i \in 1..Len(r) PROVE u[i] = w[From(Len(w), n) + k - 1]
    <3>1. i + a - 1 \in 1..Len(s) /\ a + i - 1 = i + a - 1 /\ i \in 1..(Len(s) - a + 1)
      BY <1>2, <1>5, <2>3
    <3>2. u[i] = s[i + a - 1] /\ w[i + a - 1] = s[i + a - 1]
      BY <1>2, <1>3, <2>3, <3>1
    <3> QED BY <2>1, <3>2
  <2>4. i = Len(r) + 1 \/ i \in 1..Len(r)
    BY <1>5, <2>1
  <2>5. u[i] = w[From(Len(w), n) + k - 1]
    BY <2>2, <2>3, <2>4
  <2> QED BY <2>5 DEF i
<1>7. /\ M!Latest(u, n) \in Seq(S) /\ M!Latest(w, n) \in Seq(S)
      /\ Len(M!Latest(u, n)) = Len(M!Latest(w, n))
      /\ \A k \in 1..Len(M!Latest(u, n)) : M!Latest(u, n)[k] = M!Latest(w, n)[k]
  BY <1>4, <1>5, <1>6 DEF IsLatest, b
<1>8. M!Latest(u, n) = M!Latest(w, n)
  BY <1>7, SeqEqual
<1> QED BY <1>8 DEF u, w, r

\* The newest of the newest.
LEMMA LatestOfLatest ==
  ASSUME NEW S, NEW s \in Seq(S), NEW n \in Nat \ {0}
  PROVE  M!Latest(M!Latest(s, n + 1), n) = M!Latest(s, n)
<1> DEFINE r == M!Latest(s, n + 1)
           a == From(Len(s), n + 1)
           b == From(Len(r), n)
<1>1. IsLatest(r, s, n + 1, S)
  BY LatestFacts
<1> HIDE DEF r
<1>2. /\ r \in Seq(S) /\ Len(r) = Len(s) - a + 1 /\ Len(s) \in Nat
      /\ \A k \in 1..(Len(s) - a + 1) : r[k] = s[a + k - 1]
  BY <1>1 DEF IsLatest
<1>4. IsLatest(M!Latest(r, n), r, n, S) /\ IsLatest(M!Latest(s, n), s, n, S)
  BY <1>2, LatestFacts
<1>5. Len(r) - b = Len(s) - From(Len(s), n) /\ From(Len(s), n) = b + a - 1 /\ b \in 1..(Len(r) + 1)
      /\ a \in 1..(Len(s) + 1) /\ Len(r) \in Nat
  <2>1. Len(r) = Len(s) - a + 1 /\ Len(s) \in Nat
    BY <1>2
  <2>2. a \in 1..(Len(s) + 1)
    BY <2>1, FromFacts
  <2> QED BY <2>1, <2>2, FromTwice
<1> HIDE DEF a, b
<1>6. ASSUME NEW k \in 1..(Len(r) - b + 1)
      PROVE  r[b + k - 1] = s[From(Len(s), n) + k - 1]
  <2> DEFINE i == b + k - 1
  <2>1. i \in 1..(Len(s) - a + 1) /\ a + i - 1 = From(Len(s), n) + k - 1
    BY <1>2, <1>5
  <2> HIDE DEF i
  <2> QED BY <1>2, <2>1 DEF i
<1>7. /\ M!Latest(r, n) \in Seq(S) /\ M!Latest(s, n) \in Seq(S)
      /\ Len(M!Latest(r, n)) = Len(M!Latest(s, n))
      /\ \A k \in 1..Len(M!Latest(r, n)) : M!Latest(r, n)[k] = M!Latest(s, n)[k]
  BY <1>4, <1>5, <1>6 DEF IsLatest, b
<1>8. M!Latest(r, n) = M!Latest(s, n)
  BY <1>7, SeqEqual
<1> QED BY <1>8 DEF r

\* What the history keeps is enough to tell whether the newest chunk is valid.
LEMMA ReadyIsValid ==
  ASSUME NEW s \in Seq(BOOLEAN), s # <<>>
  PROVE  /\ M!IsReady(M!Latest(s, WindowSize + 1)) <=> M!ChunkValid(s)
         /\ M!ChunkValid(M!Latest(s, WindowSize + 1)) <=> M!ChunkValid(s)
<1> DEFINE r == M!Latest(s, WindowSize + 1)
           a == From(Len(s), WindowSize + 1)
           w == M!Latest(s, WindowSize)
<1>1. WindowSize \in Nat \ {0} /\ WindowSize + 1 \in Nat \ {0} /\ Required \in Nat
  BY WarpingAssumption
<1>2. M!Latest(r, WindowSize) = w
  BY <1>1, LatestOfLatest
<1>3. /\ r \in Seq(BOOLEAN) /\ Len(r) = Len(s) - a + 1 /\ Len(s) \in Nat
      /\ \A k \in 1..(Len(s) - a + 1) : r[k] = s[a + k - 1]
  <2>1. IsLatest(r, s, WindowSize + 1, BOOLEAN)
    BY <1>1, LatestFacts
  <2> QED BY <2>1 DEF IsLatest
<1>4. Len(s) \in Nat \ {0} /\ Len(r) \in Nat \ {0} /\ a \in 1..Len(s)
  <2>1. Len(s) \in Nat \ {0}
    OBVIOUS
  <2>2. a \in 1..Len(s)
    <3>1. Len(s) \in Nat /\ Len(s) > 0 /\ WindowSize + 1 \in Nat \ {0}
      BY <1>1, <2>1
    <3> HIDE DEF a
    <3> QED BY ONLY <3>1, FromFacts DEF a
  <2> QED BY <1>3, <2>1, <2>2
<1>5. r[Len(r)] = s[Len(s)] /\ r # <<>>
  <2>1. Len(r) \in 1..(Len(s) - a + 1) /\ a + Len(r) - 1 = Len(s)
    BY <1>3, <1>4
  <2>2. r[Len(r)] = s[a + Len(r) - 1]
    BY <1>3, <2>1
  <2>3. r # <<>>
    BY <1>4
  <2> QED BY <2>1, <2>2, <2>3
<1>6. M!CountValid(w) >= Required => Len(w) >= Required
  <2>1. w \in Seq(BOOLEAN) /\ Len(w) \in Nat
    <3>1. IsLatest(w, s, WindowSize, BOOLEAN)
      BY <1>1, LatestFacts
    <3> HIDE DEF w
    <3> QED BY <3>1 DEF IsLatest
  <2> HIDE DEF w
  <2>2. IsFiniteSet(1..Len(w)) /\ Cardinality(1..Len(w)) = Len(w)
    <3>1. 1 \in Int /\ Len(w) \in Int
      BY <2>1
    <3>2. IsFiniteSet(1..Len(w)) /\ Cardinality(1..Len(w)) = IF 1 > Len(w) THEN 0 ELSE Len(w) - 1 + 1
      BY <3>1, FS_Interval
    <3> QED BY <2>1, <3>2
  <2>3. Cardinality({k \in 1..Len(w) : w[k]}) <= Len(w) /\ Cardinality({k \in 1..Len(w) : w[k]}) \in Nat
    <3> DEFINE T == {k \in 1..Len(w) : w[k]}
    <3>1. T \in SUBSET (1..Len(w))
      OBVIOUS
    <3> HIDE DEF T
    <3> QED BY <2>2, <3>1, FS_Subset, FS_CardinalityType DEF T
  <2>4. M!CountValid(w) = Cardinality({k \in 1..Len(w) : w[k]})
    BY CardinalityIs, Zenon DEF M!CountValid
  <2> QED BY <1>1, <2>1, <2>3, <2>4
<1> HIDE DEF r, w
<1>7. M!ChunkValid(s) <=> M!CountValid(w) >= Required /\ s[Len(s)]
  BY DEF M!ChunkValid, w
<1>8. M!ChunkValid(r) <=> M!CountValid(w) >= Required /\ s[Len(s)]
  BY <1>2, <1>5 DEF M!ChunkValid
<1>9. M!IsReady(r) <=> M!CountValid(w) >= Required /\ s[Len(s)]
  BY <1>2, <1>5, <1>6 DEF M!IsReady
<1> QED BY <1>7, <1>8, <1>9 DEF r

\* The observations that are matched.
ValidOnes(s) == {k \in 1..Len(s) : M!ChunkValid(SubSeq(s, 1, k))}

LEMMA ValidOnesGrow ==
  ASSUME NEW s \in Seq(BOOLEAN), NEW x \in BOOLEAN
  PROVE  /\ Cardinality(ValidOnes(s)) \in Nat
         /\ M!ChunkValid(Append(s, x)) => Cardinality(ValidOnes(Append(s, x))) = Cardinality(ValidOnes(s)) + 1
         /\ ~M!ChunkValid(Append(s, x)) => Cardinality(ValidOnes(Append(s, x))) = Cardinality(ValidOnes(s))
<1> DEFINE w == Append(s, x)
           n == Len(s)
<1>1. /\ w \in Seq(BOOLEAN) /\ Len(w) = n + 1 /\ n \in Nat
      /\ \A k \in 1..n : w[k] = s[k]
  OBVIOUS
<1> HIDE DEF w
<1>2. ASSUME NEW k \in 1..n PROVE SubSeq(w, 1, k) = SubSeq(s, 1, k)
  <2>1. /\ SubSeq(w, 1, k) \in Seq(BOOLEAN) /\ Len(SubSeq(w, 1, k)) = k
        /\ \A i \in 1..k : SubSeq(w, 1, k)[i] = w[i]
    BY <1>1
  <2>2. /\ SubSeq(s, 1, k) \in Seq(BOOLEAN) /\ Len(SubSeq(s, 1, k)) = k
        /\ \A i \in 1..k : SubSeq(s, 1, k)[i] = s[i]
    OBVIOUS
  <2>3. \A i \in 1..k : SubSeq(w, 1, k)[i] = SubSeq(s, 1, k)[i]
    BY <1>1, <2>1, <2>2
  <2> QED BY <2>1, <2>2, <2>3, SeqEqual
<1>3. SubSeq(w, 1, n + 1) = w
  BY <1>1, SubSeqFull
<1>4. IsFiniteSet(ValidOnes(s)) /\ n + 1 \notin ValidOnes(s)
  <2>1. ValidOnes(s) \in SUBSET (1..n) /\ IsFiniteSet(1..n)
    BY <1>1, FS_Interval DEF ValidOnes
  <2> QED BY <1>1, <2>1, FS_Subset
<1>5. Cardinality(ValidOnes(s)) \in Nat
  BY <1>4, FS_CardinalityType
<1>9. ASSUME NEW k \in 1..n PROVE k \in ValidOnes(w) <=> k \in ValidOnes(s)
  <2>1. k \in 1..Len(w) /\ k \in 1..Len(s)
    BY <1>1
  <2> QED BY <1>2, <2>1, Zenon DEF ValidOnes
<1>10. n + 1 \in ValidOnes(w) <=> M!ChunkValid(w)
  <2>1. n + 1 \in 1..Len(w)
    BY <1>1
  <2> QED BY <1>3, <2>1, Zenon DEF ValidOnes
<1>11. ValidOnes(w) \subseteq (1..n) \cup {n + 1} /\ ValidOnes(s) \subseteq 1..n
  BY <1>1 DEF ValidOnes
<1>6. M!ChunkValid(w) => ValidOnes(w) = ValidOnes(s) \cup {n + 1}
  BY <1>9, <1>10, <1>11
<1>7. ~M!ChunkValid(w) => ValidOnes(w) = ValidOnes(s)
  BY <1>9, <1>10, <1>11
<1>8. Cardinality(ValidOnes(s) \cup {n + 1}) = Cardinality(ValidOnes(s)) + 1
  BY <1>4, FS_AddElement
<1> QED BY <1>5, <1>6, <1>7, <1>8 DEF w


---------------------------------------------------------------------------
(* The time grid.                                                          *)

\* The body of the loop.
FirstLook(t) == [picked |-> <<>>, target |-> t[1]]

NextLook(look, t, n) ==
  IF t[n] < look.target THEN look
  ELSE [picked |-> Append(look.picked, n),
        target |-> look.target + Period * ((t[n] - look.target) \div Period + 1)]

IsLooked(L, t, n) ==
  /\ L = [k \in 0..n |-> L[k]] /\ L[0] = FirstLook(t)
  /\ \A k \in 1..n : L[k] = NextLook(L[k - 1], t, k)

LEMMA LookedExists ==
  ASSUME NEW t, NEW l \in Nat
  PROVE  \E L : IsLooked(L, t, l)
<1> DEFINE S == {n \in Nat : \E L : IsLooked(L, t, n)}
<1>1. 0 \in S
  <2>1. IsLooked([k \in 0..0 |-> FirstLook(t)], t, 0)
    BY DEF IsLooked
  <2> QED BY <2>1
<1>2. \A n \in Nat : n \in S => n + 1 \in S
  <2> SUFFICES ASSUME NEW n \in Nat, n \in S
               PROVE  \E L : IsLooked(L, t, n + 1)
    OBVIOUS
  <2>1. PICK K : IsLooked(K, t, n)
    OBVIOUS
  <2> DEFINE L == [k \in 0..(n + 1) |-> IF k <= n THEN K[k] ELSE NextLook(K[n], t, n + 1)]
  <2>2. L = [k \in 0..(n + 1) |-> L[k]]
    OBVIOUS
  <2>3. L[0] = FirstLook(t)
    BY <2>1 DEF IsLooked
  <2>4. ASSUME NEW k \in 1..(n + 1) PROVE L[k] = NextLook(L[k - 1], t, k)
    <3>1. k - 1 \in 0..n /\ L[k - 1] = K[k - 1]
      OBVIOUS
    <3>2. CASE k <= n
      <4>1. k \in 1..n /\ L[k] = K[k]
        BY <3>2
      <4>2. K[k] = NextLook(K[k - 1], t, k)
        BY <2>1, <4>1 DEF IsLooked
      <4> QED BY <3>1, <4>1, <4>2
    <3>3. CASE k = n + 1
      <4>1. L[n + 1] = NextLook(K[n], t, n + 1) /\ (n + 1) - 1 = n
        OBVIOUS
      <4> QED BY <3>1, <3>3, <4>1
    <3> QED BY <3>2, <3>3
  <2> HIDE DEF L
  <2>5. IsLooked(L, t, n + 1)
    BY <2>2, <2>3, <2>4 DEF IsLooked
  <2> QED BY <2>5
<1>3. Nat \subseteq S
  <2> HIDE DEF S
  <2> QED BY <1>1, <1>2, SetInduction
<1> QED BY <1>3

LEMMA LookedIs ==
  ASSUME NEW t, Len(t) \in Nat
  PROVE  IsLooked(Looked(t), t, Len(t))
<1>1. PICK L : IsLooked(L, t, Len(t))
  BY LookedExists
<1>2. L = [n \in 0..Len(t) |->
             IF n = 0 THEN [picked |-> <<>>, target |-> t[1]]
             ELSE IF t[n] < L[n - 1].target THEN L[n - 1]
             ELSE [picked |-> Append(L[n - 1].picked, n),
                   target |-> L[n - 1].target + Period * ((t[n] - L[n - 1].target) \div Period + 1)]]
  <2> DEFINE R(n) == IF n = 0 THEN [picked |-> <<>>, target |-> t[1]]
                     ELSE IF t[n] < L[n - 1].target THEN L[n - 1]
                     ELSE [picked |-> Append(L[n - 1].picked, n),
                           target |-> L[n - 1].target + Period * ((t[n] - L[n - 1].target) \div Period + 1)]
  <2>1. ASSUME NEW n \in 0..Len(t) PROVE L[n] = R(n)
    <3>1. CASE n = 0
      <4>1. L[0] = FirstLook(t)
        BY <1>1 DEF IsLooked
      <4> QED BY <3>1, <4>1 DEF FirstLook
    <3>2. CASE n # 0
      <4>1. L[n] = NextLook(L[n - 1], t, n)
        <5>1. n \in 1..Len(t)
          BY <3>2
        <5> QED BY <1>1, <5>1 DEF IsLooked
      <4> QED BY <3>2, <4>1 DEF NextLook
    <3> QED BY <3>1, <3>2
  <2>2. L = [n \in 0..Len(t) |-> L[n]]
    BY <1>1 DEF IsLooked
  <2> HIDE DEF R
  <2>3. L = [n \in 0..Len(t) |-> R(n)]
    BY <2>1, <2>2
  <2> QED BY <2>3 DEF R
<1>3. Looked(t) = [n \in 0..Len(t) |->
             IF n = 0 THEN [picked |-> <<>>, target |-> t[1]]
             ELSE IF t[n] < Looked(t)[n - 1].target THEN Looked(t)[n - 1]
             ELSE [picked |-> Append(Looked(t)[n - 1].picked, n),
                   target |-> Looked(t)[n - 1].target
                                + Period * ((t[n] - Looked(t)[n - 1].target) \div Period + 1)]]
  BY <1>2 DEF Looked
<1> DEFINE K == Looked(t)
<1> HIDE DEF K
<1>4. K = [n \in 0..Len(t) |->
             IF n = 0 THEN [picked |-> <<>>, target |-> t[1]]
             ELSE IF t[n] < K[n - 1].target THEN K[n - 1]
             ELSE [picked |-> Append(K[n - 1].picked, n),
                   target |-> K[n - 1].target + Period * ((t[n] - K[n - 1].target) \div Period + 1)]]
  BY <1>3 DEF K
<1>5. IsLooked(K, t, Len(t))
  <2>1. K = [k \in 0..Len(t) |-> K[k]]
    BY <1>4
  <2>2. K[0] = FirstLook(t)
    BY <1>4 DEF FirstLook
  <2>3. ASSUME NEW k \in 1..Len(t) PROVE K[k] = NextLook(K[k - 1], t, k)
    <3>1. k \in 0..Len(t) /\ k # 0
      OBVIOUS
    <3> QED BY <1>4, <3>1 DEF NextLook
  <2> QED BY <2>1, <2>2, <2>3 DEF IsLooked
<1> QED BY <1>5 DEF K

\* Dividing what has passed since the first frame.
LEMMA PeriodFacts ==
  ASSUME NEW p \in Nat \ {0}, NEW x \in Nat, NEW y \in Nat, y <= x
  PROVE  /\ x \div p \in Nat /\ y \div p \in Nat
         /\ x < p * (y \div p + 1) => x \div p = y \div p
         /\ ~(x < p * (y \div p + 1)) =>
              /\ x \div p > y \div p
              /\ p * (y \div p + 1) + p * ((x - p * (y \div p + 1)) \div p + 1) = p * (x \div p + 1)
<1> DEFINE q == y \div p
           r == x \div p
<1>1. q \in Nat /\ r \in Nat /\ p * q <= y /\ p * r <= x /\ x < p * r + p /\ y < p * q + p
  OBVIOUS
<1> HIDE DEF q, r
<1>2. q <= r
  BY <1>1
<1>3. x < p * (q + 1) => r = q
  BY <1>1, <1>2
<1>4. ASSUME ~(x < p * (q + 1))
      PROVE  r > q /\ p * (q + 1) + p * ((x - p * (q + 1)) \div p + 1) = p * (r + 1)
  <2>1. r > q
    BY <1>1, <1>4
  <2>2. (x - p * (q + 1)) \div p = r - (q + 1)
    <3> DEFINE z == x - p * (q + 1)
               d == r - (q + 1)
    <3>1. z \in Int /\ d \in Int /\ p * d <= z /\ z < p * d + p
      BY <1>1
    <3> HIDE DEF z, d
    <3>2. z \div p = d
      BY <3>1
    <3> QED BY <3>2 DEF z, d
  <2> QED BY <1>1, <2>1, <2>2
<1> QED BY <1>1, <1>3, <1>4 DEF q, r

\* The frames that are picked are the first of their periods.
Passed(t, i) == (t[i] - t[1]) \div Period

FirstOfPeriod(t, i) == i = 1 \/ Passed(t, i) > Passed(t, i - 1)

OnTheGrid(look, t, n) ==
  /\ look.picked \in Seq(1..n)
  /\ \A k \in 1..Len(look.picked) : FirstOfPeriod(t, look.picked[k])
  /\ n = 0 => look.target = t[1]
  /\ n > 0 => look.target = t[1] + Period * (Passed(t, n) + 1)

LEMMA TimelineFacts ==
  ASSUME NEW t \in Timelines
  PROVE  /\ Len(t) = DemoFrames /\ \A i \in 1..DemoFrames : t[i] \in Nat /\ t[1] <= t[i]
         /\ \A i \in 1..(DemoFrames - 1) : t[i] <= t[i + 1]
<1>1. /\ t \in [1..DemoFrames -> 0..Horizon] /\ DemoFrames \in Nat /\ Horizon \in Nat
      /\ \A i \in 1..(DemoFrames - 1) : t[i] < t[i + 1]
  BY WarpingAssumption DEF Timelines
<1>2. \A i \in 1..DemoFrames : t[i] \in Nat
  BY <1>1
<1> DEFINE S == {n \in Nat : n + 1 <= DemoFrames => t[1] <= t[n + 1]}
<1>3. 0 \in S
  BY <1>1, <1>2
<1>4. \A n \in Nat : n \in S => n + 1 \in S
  <2> SUFFICES ASSUME NEW n \in Nat, n + 1 <= DemoFrames => t[1] <= t[n + 1], n + 2 <= DemoFrames
               PROVE  t[1] <= t[n + 2]
    OBVIOUS
  <2>1. n + 1 \in 1..(DemoFrames - 1) /\ (n + 1) + 1 = n + 2
    BY <1>1
  <2>2. t[n + 1] < t[n + 2] /\ t[1] <= t[n + 1]
    BY <1>1, <2>1
  <2> QED BY <1>1, <1>2, <2>1, <2>2
<1>5. Nat \subseteq S
  <2> HIDE DEF S
  <2> QED BY <1>3, <1>4, SetInduction
<1>6. ASSUME NEW i \in 1..DemoFrames PROVE t[1] <= t[i]
  <2>1. i - 1 \in Nat /\ (i - 1) + 1 = i
    BY <1>1
  <2>2. i - 1 \in S
    <3> HIDE DEF S
    <3> QED BY <1>5, <2>1
  <2> QED BY <1>1, <2>1, <2>2
<1>7. Len(t) = DemoFrames
  BY <1>1
<1>8. \A i \in 1..(DemoFrames - 1) : t[i] <= t[i + 1]
  BY <1>1, <1>2
<1> QED BY <1>2, <1>6, <1>7, <1>8

LEMMA PickOneMore ==
  ASSUME NEW t, NEW n \in Nat \ {0}, NEW picked \in Seq(1..n),
         \A k \in 1..Len(picked) : FirstOfPeriod(t, picked[k]), FirstOfPeriod(t, n)
  PROVE  /\ Append(picked, n) \in Seq(1..n)
         /\ \A k \in 1..Len(Append(picked, n)) : FirstOfPeriod(t, Append(picked, n)[k])
OBVIOUS

LEMMA LookOn ==
  ASSUME NEW t \in Timelines, NEW n \in Nat, n + 1 <= DemoFrames, NEW look, OnTheGrid(look, t, n)
  PROVE  OnTheGrid(NextLook(look, t, n + 1), t, n + 1)
<1> DEFINE next == NextLook(look, t, n + 1)
           x == t[n + 1] - t[1]
<1>1. Period \in Nat \ {0} /\ DemoFrames \in Nat
  BY WarpingAssumption
<1>2. t[1] \in Nat /\ t[n + 1] \in Nat /\ x \in Nat /\ Passed(t, n + 1) = x \div Period
  BY <1>1, TimelineFacts DEF Passed
<1>3. look.picked \in Seq(1..(n + 1)) /\ \A k \in 1..Len(look.picked) : FirstOfPeriod(t, look.picked[k])
  BY DEF OnTheGrid
<1> HIDE DEF x
<1>4. CASE n = 0
  <2>1. look.target = t[1] /\ ~(t[n + 1] < look.target)
    BY <1>2, <1>4 DEF OnTheGrid
  <2>2. next = [picked |-> Append(look.picked, n + 1),
                target |-> t[1] + Period * ((t[1] - t[1]) \div Period + 1)]
    BY <1>4, <2>1 DEF NextLook
  <2>3. t[1] - t[1] = 0 /\ x = 0
    BY <1>2, <1>4 DEF x
  <2>4. next.target = t[1] + Period * (Passed(t, n + 1) + 1)
    BY <1>2, <2>2, <2>3
  <2>5. next.picked \in Seq(1..(n + 1)) /\ \A k \in 1..Len(next.picked) : FirstOfPeriod(t, next.picked[k])
    <3>1. FirstOfPeriod(t, n + 1) /\ n + 1 \in Nat \ {0}
      BY <1>4 DEF FirstOfPeriod
    <3>2. next.picked = Append(look.picked, n + 1)
      BY <2>2
    <3> HIDE DEF next
    <3> QED BY <1>3, <3>1, <3>2, PickOneMore
  <2> HIDE DEF next
  <2>6. OnTheGrid(next, t, n + 1)
    BY <1>4, <2>4, <2>5 DEF OnTheGrid
  <2> QED BY <2>6 DEF next
<1>5. CASE n > 0
  <2> DEFINE y == t[n] - t[1]
             past == Period * (y \div Period + 1)
  <2>1. y \in Nat /\ y <= x /\ Passed(t, n) = y \div Period /\ t[n] \in Nat
    <3>1. n \in 1..(DemoFrames - 1) /\ n \in 1..DemoFrames
      BY <1>1, <1>5
    <3> QED BY <1>2, <3>1, TimelineFacts DEF Passed, x
  <2>2. look.target = t[1] + past
    BY <1>5, <2>1 DEF OnTheGrid
  <2> HIDE DEF y
  <2>3. /\ x \div Period \in Nat /\ y \div Period \in Nat
        /\ x < past => x \div Period = y \div Period
        /\ ~(x < past) =>
             /\ x \div Period > y \div Period
             /\ past + Period * ((x - past) \div Period + 1) = Period * (x \div Period + 1)
    BY <1>1, <1>2, <2>1, PeriodFacts
  <2>4. past \in Nat
    BY <1>1, <2>3
  <2>5. (t[n + 1] < look.target <=> x < past) /\ t[n + 1] - look.target = x - past
    <3> HIDE DEF past
    <3> QED BY <1>2, <2>2, <2>4 DEF x
  <2>6. CASE x < past
    <3>1. next = look
      BY <2>5, <2>6 DEF NextLook
    <3>2. look.target = t[1] + Period * (Passed(t, n + 1) + 1)
      BY <1>2, <2>2, <2>3, <2>6
    <3>3. OnTheGrid(look, t, n + 1)
      BY <1>3, <3>2 DEF OnTheGrid
    <3> QED BY <3>1, <3>3
  <2>7. CASE ~(x < past)
    <3>1. next = [picked |-> Append(look.picked, n + 1),
                  target |-> look.target + Period * ((x - past) \div Period + 1)]
      BY <2>5, <2>7 DEF NextLook
    <3>2. next.target = t[1] + Period * (Passed(t, n + 1) + 1)
      <4>1. next.target = t[1] + past + Period * ((x - past) \div Period + 1)
        BY <2>2, <3>1
      <4> DEFINE more == Period * ((x - past) \div Period + 1)
      <4>2. more \in Int
        BY <1>1, <1>2, <2>4
      <4>3. past + more = Period * (Passed(t, n + 1) + 1)
        BY <1>2, <2>3, <2>7
      <4> HIDE DEF more, past, next
      <4> QED BY <1>2, <2>4, <4>1, <4>2, <4>3 DEF more
    <3>3. FirstOfPeriod(t, n + 1)
      <4>1. (n + 1) - 1 = n
        OBVIOUS
      <4> QED BY <1>2, <2>1, <2>3, <2>7, <4>1 DEF FirstOfPeriod
    <3>4. next.picked \in Seq(1..(n + 1)) /\ \A k \in 1..Len(next.picked) : FirstOfPeriod(t, next.picked[k])
      <4>1. next.picked = Append(look.picked, n + 1) /\ n + 1 \in Nat \ {0}
        BY <3>1
      <4> HIDE DEF next
      <4> QED BY <1>3, <3>3, <4>1, PickOneMore
    <3> HIDE DEF next
    <3>5. OnTheGrid(next, t, n + 1)
      BY <3>2, <3>4 DEF OnTheGrid
    <3> QED BY <3>5 DEF next
  <2> QED BY <2>6, <2>7
<1> QED BY <1>4, <1>5

LEMMA AnchorsAreOnTheGrid ==
  ASSUME NEW t \in Timelines
  PROVE  /\ AlignmentIndices(t) \in Seq(1..DemoFrames)
         /\ \A k \in 1..Len(AlignmentIndices(t)) : FirstOfPeriod(t, AlignmentIndices(t)[k])
<1> DEFINE L == Looked(t)
           S == {n \in Nat : n <= DemoFrames => OnTheGrid(L[n], t, n)}
<1>1. Len(t) = DemoFrames /\ DemoFrames \in Nat
  BY WarpingAssumption, TimelineFacts
<1>2. IsLooked(L, t, DemoFrames)
  BY <1>1, LookedIs
<1> HIDE DEF L
<1>3. 0 \in S
  <2>1. L[0] = [picked |-> <<>>, target |-> t[1]]
    BY <1>2 DEF IsLooked, FirstLook
  <2>2. OnTheGrid(L[0], t, 0)
    BY <2>1 DEF OnTheGrid
  <2> QED BY <2>2
<1>4. \A n \in Nat : n \in S => n + 1 \in S
  <2> SUFFICES ASSUME NEW n \in Nat, n \in S, n + 1 <= DemoFrames
               PROVE  OnTheGrid(L[n + 1], t, n + 1)
    OBVIOUS
  <2>1. OnTheGrid(L[n], t, n)
    BY <1>1
  <2>2. L[n + 1] = NextLook(L[n], t, n + 1)
    <3>1. n + 1 \in 1..DemoFrames /\ (n + 1) - 1 = n
      BY <1>1
    <3> QED BY <1>2, <3>1 DEF IsLooked
  <2> QED BY <2>1, <2>2, LookOn
<1>5. Nat \subseteq S
  <2> HIDE DEF S
  <2> QED BY <1>3, <1>4, SetInduction
<1>6. OnTheGrid(L[DemoFrames], t, DemoFrames)
  BY <1>1, <1>5
<1> QED BY <1>1, <1>6 DEF OnTheGrid, AlignmentIndices, L


---------------------------------------------------------------------------
(* The inductive invariant of the matcher.                                 *)

MatcherInv ==
  /\ demo \in UsableDemos /\ raised = FALSE
  /\ matched \in Seq(Rows(demo.valid)) /\ updates = Len(matched)
  /\ prev \in Rows(demo.valid) /\ offset \in Nat
  /\ anchor \in DOMAIN prev /\ prev[anchor] = 0
  /\ Optimal(demo.valid, matched, prev, offset)
  /\ seen \in Seq(BOOLEAN) /\ recent = M!Latest(seen, WindowSize + 1)
  /\ updates = Cardinality(ValidOnes(seen))

LEMMA DemoFacts ==
  ASSUME NEW d \in UsableDemos
  PROVE  /\ d.valid \subseteq Nat /\ d.valid # {} /\ Len(d.anchors) \in Nat
         /\ \A k \in d.valid : k \in 1..Len(d.anchors) /\ FirstOfPeriod(d.times, d.anchors[k])
<1>1. PICK t \in Timelines, frames \in [1..DemoFrames -> BOOLEAN] : d = CacheOf(t, frames)
  BY DEF UsableDemos, Caches
<1> DEFINE a == AlignmentIndices(t)
           flags == [k \in 1..Len(a) |-> frames[a[k]]]
<1>2. a \in Seq(1..DemoFrames) /\ \A k \in 1..Len(a) : FirstOfPeriod(t, a[k])
  BY AnchorsAreOnTheGrid
<1>3. d.times = t /\ d.anchors = a /\ d.valid = ValidChunks(flags)
  BY <1>1 DEF CacheOf
<1> HIDE DEF a
<1>4. Len(a) \in Nat /\ Len(flags) = Len(a)
  BY <1>2
<1> HIDE DEF flags
<1>5. ValidChunks(flags) \subseteq 1..Len(a)
  BY <1>4 DEF ValidChunks
<1>6. d.valid # {}
  BY DEF UsableDemos
<1> QED BY <1>2, <1>3, <1>4, <1>5, <1>6

\* At the beginning of an episode the only path ends where it begins.
LEMMA FirstRowIsOptimal ==
  ASSUME NEW v, v \subseteq Nat, v # {}
  PROVE  /\ M!FirstRow(v) \in Rows(v) /\ M!Least(v) \in DOMAIN M!FirstRow(v)
         /\ M!FirstRow(v)[M!Least(v)] = 0
         /\ Optimal(v, <<>>, M!FirstRow(v), 0)
<1> DEFINE first == M!Least(v)
           row == M!FirstRow(v)
<1>1. first \in v
  BY LeastIsThere, LeastIs
<1>2. row = [j \in {first} |-> 0]
  BY DEF M!FirstRow
<1> HIDE DEF first, row
<1>3. row \in Rows(v) /\ DOMAIN row = {first} /\ row[first] = 0
  BY <1>1, <1>2 DEF Rows
<1>4. <<>> \in Seq(Rows(v)) /\ Len(<<>>) = 0
  OBVIOUS
<1>5. ASSUME NEW p \in PathSet(v, <<>>) PROVE p[0] = first /\ CostOf(p, <<>>) = 0
  <2>1. StepsOf(p, <<>>) \in Seq(Nat) /\ Len(StepsOf(p, <<>>)) = 0
    BY <1>4, StepsAre
  <2>2. IsSums(M!Sums(StepsOf(p, <<>>)), StepsOf(p, <<>>), 0)
    BY <2>1, SumsAre
  <2>3. p[0] = first
    BY DEF PathSet, first
  <2> QED BY <1>4, <2>2, <2>3 DEF IsSums, Runs, CostOf
<1>6. [k \in 0..0 |-> first] \in PathSet(v, <<>>)
  <2>1. [k \in 0..0 |-> first] \in [0..0 -> v] /\ [k \in 0..0 |-> first][0] = first
    BY <1>1
  <2> QED BY <1>4, <2>1 DEF PathSet, first
<1>7. Optimal(v, <<>>, row, 0)
  <2>1. ASSUME NEW p \in PathSet(v, <<>>)
        PROVE  p[Len(<<>>)] \in DOMAIN row /\ 0 + row[p[Len(<<>>)]] <= CostOf(p, <<>>)
    BY <1>3, <1>4, <1>5
  <2>2. ASSUME NEW j \in DOMAIN row
        PROVE  \E p \in PathSet(v, <<>>) : p[Len(<<>>)] = j /\ CostOf(p, <<>>) = 0 + row[j]
    BY <1>3, <1>4, <1>5, <1>6
  <2> QED BY <2>1, <2>2 DEF Optimal
<1> QED BY <1>3, <1>7 DEF first, row

LEMMA NothingSeen ==
  /\ <<>> \in Seq(BOOLEAN) /\ M!Latest(<<>>, WindowSize + 1) = <<>>
  /\ Cardinality(ValidOnes(<<>>)) = 0
<1>1. WindowSize \in Nat
  BY WarpingAssumption
<1>2. M!Latest(<<>>, WindowSize + 1) = <<>>
  BY <1>1 DEF M!Latest
<1>3. ValidOnes(<<>>) = {}
  BY DEF ValidOnes
<1> QED BY <1>2, <1>3, FS_EmptySet

LEMMA MatcherInit == M!Init => MatcherInv
<1> SUFFICES ASSUME M!Init PROVE MatcherInv
  OBVIOUS
<1> USE DEF M!Init
<1>1. demo \in UsableDemos /\ raised = FALSE
  OBVIOUS
<1>2. demo.valid \subseteq Nat /\ demo.valid # {}
  BY <1>1, DemoFacts
<1>3. /\ prev \in Rows(demo.valid) /\ anchor \in DOMAIN prev /\ prev[anchor] = 0
      /\ Optimal(demo.valid, <<>>, prev, 0)
  BY <1>2, FirstRowIsOptimal
<1>4. matched = <<>> /\ <<>> \in Seq(Rows(demo.valid)) /\ Len(<<>>) = 0
  OBVIOUS
<1> QED BY <1>1, <1>3, <1>4, NothingSeen DEF MatcherInv

LEMMA BeginEpisodeKept ==
  ASSUME demo' \in UsableDemos, raised' = FALSE, M!BeginEpisode
  PROVE  MatcherInv'
<1> USE DEF M!BeginEpisode
<1>2. demo'.valid \subseteq Nat /\ demo'.valid # {}
  BY DemoFacts
<1>3. /\ prev' \in Rows(demo'.valid) /\ anchor' \in DOMAIN prev' /\ prev'[anchor'] = 0
      /\ Optimal(demo'.valid, <<>>, prev', 0)
  BY <1>2, FirstRowIsOptimal
<1>4. matched' = <<>> /\ <<>> \in Seq(Rows(demo'.valid)) /\ Len(<<>>) = 0
  OBVIOUS
<1> QED BY <1>3, <1>4, NothingSeen DEF MatcherInv

\* What an observation does to the history.
LEMMA FlagAppended ==
  ASSUME MatcherInv, NEW frame \in BOOLEAN, M!AppendFlag(frame)
  PROVE  /\ seen' \in Seq(BOOLEAN) /\ recent' = M!Latest(seen', WindowSize + 1)
         /\ (M!IsReady(recent') <=> M!ChunkValid(seen')) /\ (M!ChunkValid(recent') <=> M!ChunkValid(seen'))
         /\ M!ChunkValid(seen') => Cardinality(ValidOnes(seen')) = updates + 1
         /\ ~M!ChunkValid(seen') => Cardinality(ValidOnes(seen')) = updates
<1>1. /\ seen \in Seq(BOOLEAN) /\ recent = M!Latest(seen, WindowSize + 1)
      /\ updates = Cardinality(ValidOnes(seen))
  BY DEF MatcherInv
<1>2. recent' = M!Latest(Append(recent, frame), WindowSize + 1) /\ seen' = Append(seen, frame)
  BY DEF M!AppendFlag
<1>3. WindowSize + 1 \in Nat \ {0}
  BY WarpingAssumption
<1>4. recent' = M!Latest(seen', WindowSize + 1)
  BY <1>1, <1>2, <1>3, LatestOfAppend
<1>5. seen' \in Seq(BOOLEAN) /\ seen' # <<>>
  BY <1>1, <1>2
<1>6. (M!IsReady(recent') <=> M!ChunkValid(seen')) /\ (M!ChunkValid(recent') <=> M!ChunkValid(seen'))
  BY <1>4, <1>5, ReadyIsValid, Zenon
<1>7. /\ M!ChunkValid(seen') => Cardinality(ValidOnes(seen')) = updates + 1
      /\ ~M!ChunkValid(seen') => Cardinality(ValidOnes(seen')) = updates
  BY <1>1, <1>2, ValidOnesGrow
<1> QED BY <1>4, <1>5, <1>6, <1>7

LEMMA ReplanUnmatchedKept ==
  ASSUME MatcherInv, NEW frame \in BOOLEAN, M!AppendFlag(frame), ~M!IsReady(recent'),
         UNCHANGED <<demo, anchor, prev, offset, updates, matched, raised>>
  PROVE  MatcherInv'
<1>1. /\ seen' \in Seq(BOOLEAN) /\ recent' = M!Latest(seen', WindowSize + 1)
      /\ Cardinality(ValidOnes(seen')) = updates
  BY FlagAppended
<1> QED BY <1>1 DEF MatcherInv

\* The chunk that is active can always be matched again.
LEMMA NeverStrands ==
  ASSUME MatcherInv, NEW local \in M!LocalCosts, NEW first
  PROVE  local \in Rows(demo.valid) /\ anchor \in DOMAIN M!NextRow(prev, local, first)
<1>1. /\ demo.valid \subseteq Nat /\ Len(demo.anchors) \in Nat
      /\ \A k \in demo.valid : k \in 1..Len(demo.anchors)
  BY DemoFacts DEF MatcherInv
<1>2. prev \in Rows(demo.valid) /\ anchor \in DOMAIN prev
  BY DEF MatcherInv
<1>3. anchor \in demo.valid
  BY <1>2, RowFacts
<1>4. Costs \subseteq Nat /\ ForwardWindow \in Nat /\ MaxAdvance \in Nat
  BY WarpingAssumption
<1> DEFINE band == M!Band(anchor, Len(demo.anchors)) \cap demo.valid
<1>5. local \in [band -> Costs]
  BY DEF M!LocalCosts
<1>6. local \in Rows(demo.valid)
  <2> HIDE DEF band
  <2>1. local \in [band -> Nat]
    BY <1>4, <1>5
  <2>2. band \in SUBSET demo.valid
    BY DEF band
  <2> QED BY <2>1, <2>2 DEF Rows
<1>7. anchor \in DOMAIN local
  BY <1>1, <1>3, <1>4, <1>5 DEF M!Band
<1>8. 0 \in M!Advances(prev, anchor)
  BY <1>1, <1>2, <1>3, <1>4 DEF M!Advances
<1> QED BY <1>1, <1>2, <1>6, <1>7, <1>8, NextRowIs

LEMMA ReplanMatchedKept ==
  ASSUME MatcherInv, NEW frame \in BOOLEAN, M!ReplanMatched(frame)
  PROVE  MatcherInv'
<1>1. M!AppendFlag(frame) /\ M!IsReady(recent') /\ demo' = demo
  BY DEF M!ReplanMatched, M!demoVars
<1>2. /\ seen' \in Seq(BOOLEAN) /\ recent' = M!Latest(seen', WindowSize + 1)
      /\ M!ChunkValid(recent') /\ Cardinality(ValidOnes(seen')) = updates + 1
  BY <1>1, FlagAppended
<1>3. PICK local \in M!LocalCosts :
        LET row == M!NextRow(prev, local, updates = 0) IN
        IF M!ChunkValid(recent') /\ DOMAIN row # {}
        THEN /\ M!AdvanceTo(row)
             /\ updates' = updates + 1
             /\ matched' = Append(matched, local)
             /\ replans' = replans + 1
             /\ UNCHANGED raised
        ELSE raised' = TRUE /\ UNCHANGED <<M!matcherVars, replans>>
  BY DEF M!ReplanMatched
<1> DEFINE v == demo.valid
           row == M!NextRow(prev, local, updates = 0)
<1>4. local \in Rows(v) /\ DOMAIN row # {}
  BY NeverStrands
<1>5. /\ M!AdvanceTo(row) /\ updates' = updates + 1 /\ matched' = Append(matched, local)
      /\ raised' = raised
  BY <1>2, <1>3, <1>4
<1>6. /\ v \subseteq Nat /\ matched \in Seq(Rows(v)) /\ prev \in Rows(v) /\ offset \in Nat
      /\ updates = Len(matched) /\ Optimal(v, matched, prev, offset)
  BY DemoFacts DEF MatcherInv
<1>7. row \in Rows(v) /\ Optimal(v, matched', row, offset)
  <2>1. row = M!NextRow(prev, local, Len(matched) = 0)
    BY <1>6
  <2> HIDE DEF v, row
  <2> QED BY <1>4, <1>5, <1>6, <2>1, NextRowIs, RowIsOptimal
<1> HIDE DEF row
<1> DEFINE best == M!BestOf(row)
<1>8. anchor' = best /\ offset' = offset + row[best] /\ prev' = M!Normalized(row)
  BY <1>5 DEF M!AdvanceTo
<1>9. best \in DOMAIN row /\ row[best] \in Nat
  BY <1>4, <1>6, <1>7, BestIsThere, RowFacts
<1>10. /\ prev' \in Rows(v) /\ DOMAIN prev' = DOMAIN row
       /\ \A j \in DOMAIN row : prev'[j] = row[j] - row[best]
  BY <1>4, <1>6, <1>7, <1>8, NormalizedIs
<1>11. Optimal(v, matched', prev', offset')
  BY <1>4, <1>6, <1>7, <1>8, NormalizedIsOptimal
<1>12. matched' \in Seq(Rows(v)) /\ updates' = Len(matched')
  BY <1>4, <1>5, <1>6
<1> HIDE DEF v, best
<1>13. anchor' \in DOMAIN prev' /\ prev'[anchor'] = 0 /\ offset' \in Nat
  BY <1>6, <1>8, <1>9, <1>10
<1>14. raised' = FALSE /\ demo' \in UsableDemos /\ demo'.valid = v
  BY <1>1, <1>5 DEF MatcherInv, v
<1> QED BY <1>2, <1>5, <1>10, <1>11, <1>12, <1>13, <1>14 DEF MatcherInv

LEMMA MatcherStepKept == MatcherInv /\ M!Next => MatcherInv'
<1> SUFFICES ASSUME MatcherInv, M!Next PROVE MatcherInv'
  OBVIOUS
<1>1. CASE M!SetDemo
  <2>1. demo' \in UsableDemos /\ raised' = FALSE /\ M!BeginEpisode
    BY <1>1 DEF M!SetDemo, MatcherInv
  <2> QED BY <2>1, BeginEpisodeKept
<1>2. CASE M!SetDemoFails
  BY <1>2 DEF M!SetDemoFails, M!matcherVars, M!historyVars, MatcherInv
<1>3. CASE M!Reset
  <2>1. demo' \in UsableDemos /\ raised' = FALSE /\ M!BeginEpisode
    BY <1>3 DEF M!Reset, M!demoVars, MatcherInv
  <2> QED BY <2>1, BeginEpisodeKept
<1>4. CASE M!Replan
  <2>1. PICK frame \in BOOLEAN :
          M!ReplanUnmatched(frame) \/ M!ReplanFails(frame) \/ M!ReplanMatched(frame)
    BY <1>4 DEF M!Replan
  <2>2. CASE M!ReplanUnmatched(frame)
    BY <2>2, ReplanUnmatchedKept DEF M!ReplanUnmatched, M!demoVars, M!matcherVars
  <2>3. CASE M!ReplanFails(frame)
    BY <2>3, ReplanUnmatchedKept DEF M!ReplanFails, M!demoVars, M!matcherVars
  <2>4. CASE M!ReplanMatched(frame)
    BY <2>4, ReplanMatchedKept
  <2> QED BY <2>1, <2>2, <2>3, <2>4
<1> QED BY <1>1, <1>2, <1>3, <1>4 DEF M!Next

LEMMA MatcherInvIsOptimal == MatcherInv => MatchIsOptimal
<1> SUFFICES ASSUME MatcherInv PROVE MatchIsOptimal
  OBVIOUS
<1>1. /\ demo \in UsableDemos /\ raised = FALSE /\ updates = Len(matched)
      /\ prev \in Rows(demo.valid) /\ anchor \in DOMAIN prev /\ prev[anchor] = 0 /\ offset \in Nat
      /\ Optimal(demo.valid, matched, prev, offset)
  BY DEF MatcherInv
<1>2. M!Paths = PathSet(demo.valid, matched)
  BY <1>1 DEF M!Paths, PathSet
<1>3. \A p : M!PathCost(p) = CostOf(p, matched)
  BY <1>1 DEF M!PathCost, CostOf, M!Steps, StepsOf, StepAt
<1>4. ASSUME NEW p \in M!Paths PROVE offset <= M!PathCost(p)
  <2>1. p[updates] \in DOMAIN prev /\ offset + prev[p[updates]] <= M!PathCost(p)
    BY <1>1, <1>2, <1>3 DEF Optimal
  <2>2. prev[p[updates]] \in Nat
    BY <1>1, <2>1, RowFacts
  <2>3. M!PathCost(p) \in Int
    <3>1. demo.valid \subseteq Nat /\ matched \in Seq(Rows(demo.valid))
      BY <1>1, DemoFacts DEF MatcherInv
    <3>2. StepsOf(p, matched) \in Seq(Nat) /\ Len(StepsOf(p, matched)) = Len(matched) /\ Len(matched) \in Nat
      BY <1>2, <3>1, StepsAre
    <3>3. IsSums(M!Sums(StepsOf(p, matched)), StepsOf(p, matched), Len(matched))
      BY <3>2, SumsAre
    <3> QED BY <1>3, <3>2, <3>3 DEF IsSums, CostOf
  <2> QED BY <1>1, <2>1, <2>2, <2>3
<1>5. \E p \in M!Paths : p[updates] = anchor /\ offset = M!PathCost(p)
  BY <1>1, <1>2, <1>3 DEF Optimal
<1>6. updates = M!Cardinality({k \in 1..Len(seen) : M!ChunkValid(SubSeq(seen, 1, k))})
  BY CardinalityIs DEF MatcherInv, ValidOnes
<1>7. M!OnGrid(demo.anchors[anchor])
  <2>1. anchor \in demo.valid
    BY <1>1, RowFacts
  <2>2. FirstOfPeriod(demo.times, demo.anchors[anchor])
    BY <1>1, <2>1, DemoFacts
  <2> QED BY <2>2 DEF M!OnGrid, FirstOfPeriod, Passed
<1> QED BY <1>1, <1>4, <1>5, <1>6, <1>7 DEF MatchIsOptimal, M!MatchIsOptimal

---------------------------------------------------------------------------
(* The matcher.                                                            *)

\* OnlineDTWMatcher: no exception, and between two replannings the row it has kept is
\* worth the whole history of the episode, whose valid observations it has counted.
THEOREM MatcherInductive == M!Spec => []MatcherInv
<1>1. MatcherInv /\ [M!Next]_(M!vars) => MatcherInv'
  <2> SUFFICES ASSUME MatcherInv, UNCHANGED M!vars PROVE MatcherInv'
    BY MatcherStepKept
  <2> QED BY DEF M!vars, M!demoVars, M!matcherVars, M!historyVars, MatcherInv
<1> QED BY <1>1, MatcherInit, PTL DEF M!Spec

---------------------------------------------------------------------------
(* The composition.                                                        *)

\* Whatever runs, each of the three goes through a behaviour of its own.
THEOREM PolicyRunsItsParts == PolicySpec => Spec /\ M!Spec /\ LearnerSpec
<1>1. PolicyInit => Init /\ M!Init /\ LearnerInit
  BY DEF PolicyInit
<1>2. [PolicyNext]_allVars => [Next]_vars /\ [M!Next]_(M!vars) /\ [LearnerNext]_alVars
  <2> SUFFICES ASSUME [PolicyNext]_allVars
               PROVE  [Next]_vars /\ [M!Next]_(M!vars) /\ [LearnerNext]_alVars
    OBVIOUS
  <2>1. UNCHANGED matching => UNCHANGED M!vars
    BY DEF matching, M!vars, M!demoVars, M!matcherVars, M!historyVars
  <2>2. CASE EngineStep
    BY <2>1, <2>2 DEF EngineStep
  <2>3. CASE MatcherStep
    BY <2>3 DEF MatcherStep
  <2>4. CASE LearningStep
    BY <2>1, <2>4 DEF LearningStep
  <2>5. CASE UNCHANGED allVars
    BY <2>1, <2>5 DEF allVars
  <2> QED BY <2>2, <2>3, <2>4, <2>5 DEF PolicyNext
<1> QED BY <1>1, <1>2, PTL DEF PolicySpec, Spec, M!Spec, LearnerSpec

\* OnlineDTWMatcher.update: whatever the distances, the chunk that is reported ends
\* the cheapest forward alignment of the observations that count, at a cost that
\* normalising the rows has not changed, and the search never strands.
THEOREM MatchStaysOptimal == PolicySpec => []MatchIsOptimal
BY PolicyRunsItsParts, MatcherInductive, MatcherInvIsOptimal, PTL

\* What is proved of the engine holds while a policy is played in this way.
THEOREM PolicyEngineIsSafe ==
  PolicySpec => /\ []TypeOK /\ []NoActionFromBeforeReset /\ []LabelIsGenerator
                /\ []TrainedPrefixIsBacked /\ []WarmupNeverActed /\ PlaysForward
BY PolicyRunsItsParts, EngineTypeCorrect, NoStaleActions, LabelsNameGenerators, PrefixIsBacked,
   NoWarmupActed, PlaysChunksForward, PTL

\* And what is proved of learning, while a policy is trained.
THEOREM PolicyLearningIsSafe == PolicySpec => []LearnerFollowsActor
BY PolicyRunsItsParts, LearnerFollowsActorTheorem, PTL

=============================================================================
