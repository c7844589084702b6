----------------------------- MODULE RTCEngine -----------------------------
(***************************************************************************)
(* The asynchronous inference backend (RTCInferenceEngine,                 *)
(* rollout/inference/rtc.py) and its action queue (ActionQueue,            *)
(* policies/rtc/action_queue.py).                                          *)
(*                                                                         *)
(* Two threads share the queue: the control thread (the strategy's loop    *)
(* and the resets around it) pops actions and publishes observations; the  *)
(* RTC thread turns an observation into a chunk of actions and merges it.  *)
(* Each action below is one critical section of queue.lock, _obs_lock or   *)
(* _task_lock, or the lock-free stretch up to the next one.                *)
(*                                                                         *)
(* An action is a record of where it comes from: the inference that made   *)
(* it, its place in the chunk, the instruction and the observation epoch   *)
(* that inference used, and whether it was a compile warmup.  queue and    *)
(* original_queue always have the same length, and None is an empty queue. *)
(* Latencies are counted in control steps.  The index read before the      *)
(* inference is left out: it only decides whether a line is logged.        *)
(***************************************************************************)
EXTENDS Naturals, Sequences

CONSTANTS
  Modes,        (* subset of {"trained", "guided", "off"} ("off": append)  *)
  ChunkSize,    (* actions in a chunk                                      *)
  Threshold,    (* _rtc_queue_threshold                                    *)
  TrainMax,     (* rtc_training_max_delay of the checkpoint                *)
  Warmups,      (* _compile_warmup_inferences, 0 when not compiled         *)
  MaxErrors,    (* _RTC_MAX_CONSECUTIVE_ERRORS                             *)
  MaxDiscards,  (* _RTC_MAX_CONSECUTIVE_DISCARDS                           *)
  Instructions, (* what set_task may be called with                        *)
  MaxChunks,    (* bound: inferences in a behaviour                        *)
  MaxResets     (* bound: engine resets in a behaviour                     *)

ASSUME RTCAssumption ==
  /\ ChunkSize \in Nat \ {0} /\ Threshold \in Nat /\ Warmups \in Nat
  /\ TrainMax \in 1..Threshold    (* _validate_trained_rtc_rollout_config  *)
  /\ MaxErrors \in Nat \ {0} /\ MaxDiscards \in Nat \ {0}
  /\ MaxChunks \in Nat /\ MaxResets \in Nat

None == 0   \* no observation is published; epochs start at 1

VARIABLES
  mode,       (* cfg.enabled and cfg.mode                                  *)
  task, taskChanged, dispatched,   (* _task, _task_changed, _dispatched_task *)
  queue, labels, index,            (* queue, _task_queue, last_index       *)
  obs,        (* the epoch in which the held observation was published     *)
  epoch,      (* _reset_epoch, from 1                                      *)
  active,     (* _policy_active                                            *)
  warmDone,   (* _compile_warmup_done                                      *)
  flushed,    (* _warmup_flushed of the strategy                           *)
  failed,     (* _rtc_error                                                *)
  cpc,        (* where the control thread is                               *)
  rpc,        (* where the RTC thread is                                   *)
  loc,        (* locals of one turn of _rtc_loop                           *)
  count, errors, discards, maxLatency,   (* locals of _rtc_loop            *)
  last        (* history: the action get_action returned last              *)

queueVars == <<queue, labels, index>>
taskVars  == <<task, taskChanged, dispatched>>
tallyVars == <<count, errors, discards, maxLatency>>
rtcVars   == <<rpc, loc, tallyVars>>
vars == <<mode, taskVars, queueVars, obs, epoch, active, warmDone, flushed, failed, cpc,
          rtcVars, last>>

NoAction == [chunk |-> 0, step |-> 0, task |-> "", epoch |-> 0, warm |-> FALSE]

Idle == [obs |-> None, epoch |-> 0, prev |-> 0, delay |-> 0, task |-> "",
         measured |-> 0, warm |-> FALSE]

Smaller(a, b) == IF a < b THEN a ELSE b
Larger(a, b)  == IF a > b THEN a ELSE b

QSize == Len(queue) - index

TypeOK ==
  /\ mode \in Modes
  /\ task \in Instructions /\ dispatched \in Instructions /\ taskChanged \in BOOLEAN
  /\ index \in 0..Len(queue)
  /\ \A i \in DOMAIN queue : queue[i].chunk \in 1..MaxChunks /\ queue[i].step \in 1..ChunkSize
  /\ \A i \in DOMAIN labels : labels[i] \in Instructions
  /\ epoch \in 1..(MaxResets + 1) /\ obs \in 0..epoch
  /\ {active, warmDone, flushed, failed} \subseteq BOOLEAN
  /\ cpc \in {"idle", "reset", "discard", "resume", "notify", "act", "flush", "flushed"}
  /\ rpc \in {"top", "size", "leftover", "task", "predict", "merge", "warm", "dead"}
  /\ count \in 0..MaxChunks /\ errors \in 0..MaxErrors /\ discards \in 0..MaxDiscards

Init ==
  /\ mode \in Modes
  /\ task \in Instructions /\ dispatched = task /\ taskChanged = FALSE
  /\ queue = <<>> /\ labels = <<>> /\ index = 0
  /\ obs = None /\ epoch = 1 /\ active = FALSE
  /\ warmDone = (Warmups = 0) /\ flushed = FALSE /\ failed = FALSE
  /\ cpc = "idle" /\ rpc = "top" /\ loc = Idle
  /\ count = 0 /\ errors = 0 /\ discards = 0 /\ maxLatency = 0
  /\ last = NoAction

---------------------------------------------------------------------------
(* The action queue.                                                       *)

Clear == queue' = <<>> /\ labels' = <<>> /\ index' = 0

\* Faulty variant: the consumption index survives the replacement.
ReplaceKeepIndex(chunk, delay, label) ==
  LET skip == Smaller(delay, Len(chunk)) IN
    /\ queue' = SubSeq(chunk, skip + 1, Len(chunk))
    /\ labels' = [i \in 1..(Len(chunk) - skip) |-> label]
    /\ UNCHANGED index

\* RTC on: the chunk replaces the queue, less the steps its inference took.
Replace(chunk, delay, label) ==
  LET skip == Smaller(delay, Len(chunk)) IN
    /\ queue' = SubSeq(chunk, skip + 1, Len(chunk))
    /\ labels' = [i \in 1..(Len(chunk) - skip) |-> label]
    /\ index' = 0

\* Faulty variant: the consumed actions are appended to again.
AppendConsumed(chunk, label) ==
  /\ queue' = queue \o chunk
  /\ labels' = labels \o [i \in 1..Len(chunk) |-> label]
  /\ index' = 0

\* RTC off: the chunk goes behind what is left of the queue.
AppendChunk(chunk, label) ==
  /\ queue' = SubSeq(queue, index + 1, Len(queue)) \o chunk
  /\ labels' = SubSeq(labels, index + 1, Len(labels)) \o [i \in 1..Len(chunk) |-> label]
  /\ index' = 0

Merge(chunk, delay, label) ==
  IF mode = "off" THEN AppendChunk(chunk, label) ELSE Replace(chunk, delay, label)

---------------------------------------------------------------------------
(* Any thread.                                                             *)

SetTask ==
  /\ task' \in Instructions \ {task}
  /\ taskChanged' = TRUE
  /\ UNCHANGED <<mode, dispatched, queueVars, obs, epoch, active, warmDone, flushed, failed,
                 cpc, rtcVars, last>>

---------------------------------------------------------------------------
(* The control thread: reset, resume, then ticks until the segment ends.   *)

Ctl(from, to) == cpc = from /\ cpc' = to

\* reset(), called before a segment and after the compile warmup.  The policy is
\* reset first, with no lock held; then the queue, the observation and the epoch
\* change together under _obs_lock; then the task edge is dropped.
ResetBegin ==
  /\ Ctl("idle", "reset")
  /\ epoch <= MaxResets
  /\ UNCHANGED <<mode, taskVars, queueVars, obs, epoch, active, warmDone, flushed, failed,
                 rtcVars, last>>

ClearAndBump ==
  /\ Clear
  /\ obs' = None
  /\ epoch' = epoch + 1

ResetState ==
  /\ \/ Ctl("reset", "discard")
     \/ Ctl("flush", "flushed")
  /\ ClearAndBump
  /\ UNCHANGED <<mode, taskVars, active, warmDone, flushed, failed, rtcVars, last>>

DiscardTaskChange ==
  /\ taskChanged' = FALSE
  /\ dispatched' = task

ResetEnd ==
  /\ Ctl("discard", "resume")
  /\ DiscardTaskChange
  /\ UNCHANGED <<mode, task, queueVars, obs, epoch, active, warmDone, flushed, failed, rtcVars, last>>

Resume ==
  /\ Ctl("resume", "notify")
  /\ active' = TRUE
  /\ UNCHANGED <<mode, taskVars, queueVars, obs, epoch, warmDone, flushed, failed, rtcVars, last>>

Pause ==
  /\ Ctl("notify", "idle")
  /\ active' = FALSE
  /\ UNCHANGED <<mode, taskVars, queueVars, obs, epoch, warmDone, flushed, failed, rtcVars, last>>

\* _process_observation_and_notify; on ticks that reuse the cached observation
\* nothing is published.
Notify ==
  /\ Ctl("notify", "act")
  /\ obs' \in {obs, epoch}
  /\ UNCHANGED <<mode, taskVars, queueVars, epoch, active, warmDone, flushed, failed, rtcVars, last>>

\* Faulty variant: what the warmup inferences left in the queue is acted on.
WarmupUnflushed ==
  /\ cpc = "act" /\ warmDone /\ ~flushed
  /\ cpc' = "act"
  /\ flushed' = TRUE
  /\ UNCHANGED <<mode, taskVars, queueVars, obs, epoch, active, warmDone, failed, rtcVars, last>>

\* _handle_warmup: no action before the engine is ready, then one flush.
WarmupWait ==
  /\ cpc = "act" /\ ~warmDone
  /\ cpc' = "notify"
  /\ UNCHANGED <<mode, taskVars, queueVars, obs, epoch, active, warmDone, flushed, failed, rtcVars, last>>

WarmupFlush ==
  /\ cpc = "act" /\ warmDone /\ ~flushed /\ Warmups > 0
  /\ epoch <= MaxResets
  /\ cpc' = "flush"
  /\ UNCHANGED <<mode, taskVars, queueVars, obs, epoch, active, warmDone, flushed, failed, rtcVars, last>>

WarmupFlushed ==
  /\ Ctl("flushed", "act")
  /\ DiscardTaskChange
  /\ flushed' = TRUE
  /\ active' = TRUE
  /\ UNCHANGED <<mode, task, queueVars, obs, epoch, warmDone, failed, rtcVars, last>>

\* get_action: pop the next action and its label under queue.lock, then record
\* the label as the dispatched task.
GetAction ==
  /\ Ctl("act", "notify")
  /\ warmDone /\ (flushed \/ Warmups = 0)
  /\ IF index < Len(queue)
     THEN /\ last' = queue[index + 1]
          /\ dispatched' = labels[index + 1]
          /\ index' = index + 1
     ELSE UNCHANGED <<last, dispatched, index>>
  /\ UNCHANGED <<mode, task, taskChanged, queue, labels, obs, epoch, active, warmDone, flushed,
                 failed, rtcVars>>

---------------------------------------------------------------------------
(* The RTC thread: one turn of _rtc_loop.                                  *)

Rtc(from, to) == rpc = from /\ rpc' = to

Snapshot ==
  /\ active /\ obs # None
  /\ Rtc("top", "size")
  /\ loc' = [Idle EXCEPT !.obs = obs, !.epoch = epoch]
  /\ UNCHANGED <<mode, taskVars, queueVars, obs, epoch, active, warmDone, flushed, failed, cpc,
                 tallyVars, last>>

\* A text query was served (module QueryChannel): the snapshot is taken again.
AfterQuery ==
  /\ Rtc("size", IF obs = None THEN "top" ELSE "size")
  /\ loc' = [Idle EXCEPT !.obs = obs, !.epoch = epoch]
  /\ UNCHANGED <<mode, taskVars, queueVars, obs, epoch, active, warmDone, flushed, failed, cpc,
                 tallyVars, last>>

CheckSize ==
  /\ Rtc("size", IF QSize <= Threshold /\ count < MaxChunks THEN "leftover" ELSE "top")
  /\ UNCHANGED <<mode, taskVars, queueVars, obs, epoch, active, warmDone, flushed, failed, cpc,
                 loc, tallyVars, last>>

EstimateDelay(prev) ==
  IF maxLatency > 0 THEN maxLatency
  ELSE IF mode = "trained" /\ prev > 0 THEN TrainMax ELSE 0

\* Faulty variant: the prefix is not clamped to what the queue can back.
ClampToTraining(delay, prev) == Smaller(delay, TrainMax)

ClampDelay(delay, prev) == Smaller(delay, Smaller(TrainMax, prev))

ReadLeftOver ==
  /\ Rtc("leftover", "task")
  /\ LET estimate == EstimateDelay(QSize) IN
       loc' = [loc EXCEPT !.prev = QSize,
                          !.delay = IF mode = "trained" THEN ClampDelay(estimate, QSize) ELSE estimate]
  /\ UNCHANGED <<mode, taskVars, queueVars, obs, epoch, active, warmDone, flushed, failed, cpc,
                 tallyVars, last>>

TakeTask ==
  /\ Rtc("task", "predict")
  /\ loc' = [loc EXCEPT !.task = task]
  /\ taskChanged' = FALSE
  /\ UNCHANGED <<mode, task, dispatched, queueVars, obs, epoch, active, warmDone, flushed, failed,
                 cpc, tallyVars, last>>

\* Whether a trained chunk still covers the steps that elapsed.
CanMerge(measured) ==
  loc.prev = 0 \/ (measured <= TrainMax /\ measured <= loc.delay)

\* The inference returns a chunk after `measured` control steps.
Predict ==
  \E measured \in 1..(ChunkSize + 1) :
    LET warm    == count + 1 <= Warmups
        initial == mode = "trained" /\ loc.prev = 0
        discard == ~warm /\ mode = "trained" /\ ~CanMerge(measured)
        fatal   == discard /\ discards + 1 >= MaxDiscards
    IN
      /\ Rtc("predict", IF fatal THEN "dead" ELSE IF discard THEN "top" ELSE "merge")
      /\ count' = count + 1
      /\ errors' = 0
      /\ maxLatency' = IF warm \/ initial THEN 0 ELSE Larger(maxLatency, measured)
      /\ discards' = IF discard THEN discards + 1 ELSE 0
      /\ failed' = fatal
      /\ warmDone' = (warmDone \/ fatal)
      /\ loc' = [loc EXCEPT !.measured = measured, !.warm = warm]
      /\ UNCHANGED <<mode, taskVars, queueVars, obs, epoch, active, flushed, cpc, last>>

\* The inference raises; a run of MaxErrors of them ends the thread.
PredictFails ==
  /\ Rtc("predict", IF errors + 1 >= MaxErrors THEN "dead" ELSE "top")
  /\ errors' = errors + 1
  /\ failed' = (errors + 1 >= MaxErrors)
  /\ warmDone' = (warmDone \/ failed')
  /\ UNCHANGED <<mode, taskVars, queueVars, obs, epoch, active, flushed, cpc, loc, count, discards,
                 maxLatency, last>>

NewChunk ==
  [i \in 1..ChunkSize |-> [chunk |-> count, step |-> i, task |-> loc.task,
                           epoch |-> loc.obs, warm |-> loc.warm]]

\* Faulty variant: the chunk is labelled with the task of the moment.
MergeRelabelled ==
  /\ Rtc("merge", "warm")
  /\ IF loc.epoch = epoch
     THEN Merge(NewChunk, loc.measured, task)
     ELSE UNCHANGED queueVars
  /\ UNCHANGED <<mode, taskVars, obs, epoch, active, warmDone, flushed, failed, cpc, loc, tallyVars, last>>

\* Faulty variant: the epoch is not compared before the merge.
MergeStale ==
  /\ Rtc("merge", "warm")
  /\ Merge(NewChunk, loc.measured, loc.task)
  /\ UNCHANGED <<mode, taskVars, obs, epoch, active, warmDone, flushed, failed, cpc, loc, tallyVars, last>>

\* Under _obs_lock: a chunk whose inference began before a reset is dropped.
MergeChunk ==
  /\ Rtc("merge", "warm")
  /\ IF loc.epoch = epoch
     THEN Merge(NewChunk, loc.measured, loc.task)
     ELSE UNCHANGED queueVars
  /\ UNCHANGED <<mode, taskVars, obs, epoch, active, warmDone, flushed, failed, cpc, loc, tallyVars, last>>

FinishWarmup ==
  /\ Rtc("warm", "top")
  /\ warmDone' = (warmDone \/ (loc.warm /\ count >= Warmups))
  /\ loc' = Idle
  /\ UNCHANGED <<mode, taskVars, queueVars, obs, epoch, active, flushed, failed, cpc, tallyVars, last>>

---------------------------------------------------------------------------
Control ==
  \/ ResetBegin \/ ResetState \/ ResetEnd \/ Resume \/ Pause \/ Notify
  \/ WarmupWait \/ WarmupFlush \/ WarmupFlushed \/ GetAction

RtcLoop ==
  \/ Snapshot \/ AfterQuery \/ CheckSize \/ ReadLeftOver \/ TakeTask
  \/ Predict \/ PredictFails \/ MergeChunk \/ FinishWarmup

Next == SetTask \/ Control \/ RtcLoop

Spec == Init /\ [][Next]_vars

---------------------------------------------------------------------------
(* Safety.                                                                 *)

\* No action computed before a reset is in the queue after it: every queued
\* action comes from an observation of the current epoch.
NoActionFromBeforeReset ==
  \A i \in DOMAIN queue : queue[i].epoch = epoch

\* Actions and labels stay in lockstep, and each action is labelled with the
\* instruction its own inference ran under, whatever set_task does meanwhile.
LabelIsGenerator ==
  /\ Len(labels) = Len(queue)
  /\ \A i \in DOMAIN queue : labels[i] = queue[i].task

\* A trained chunk that is merged over previous actions skips only steps its
\* own prefix covered, each backed by an action that was still queued.
TrainedPrefixIsBacked ==
  rpc = "merge" /\ mode = "trained" /\ loc.prev > 0 /\ ~loc.warm =>
    loc.measured <= loc.delay /\ loc.delay <= Smaller(loc.prev, TrainMax)

\* What a compile warmup computed is never sent to the robot.
WarmupNeverActed == ~last.warm

\* The robot plays the chunks forward: a later action never comes from an
\* older chunk, nor again from the same or an earlier step of its chunk.
PlaysForward ==
  [][last' # last => \/ last'.chunk > last.chunk
                     \/ last'.chunk = last.chunk /\ last'.step > last.step]_vars

=============================================================================
