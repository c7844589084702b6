--------------------------- MODULE DAggerStrategy ---------------------------
(***************************************************************************)
(* Human-in-the-loop recording (DAggerStrategy and DAggerEvents,           *)
(* rollout/strategies/dagger.py).                                          *)
(*                                                                         *)
(* Threads: the key or pedal thread requests phase transitions; the        *)
(* control thread consumes them, drives the robot and records; one worker  *)
(* thread uploads (module UploadWorker).                                   *)
(*                                                                         *)
(* Two recording modes: "continuous" (record_autonomous) saves an episode  *)
(* when it has lasted long enough, "corrections" saves one per correction. *)
(* A frame is the number of the correction it was recorded in, 0 for an    *)
(* autonomous one; an episode is the set of its frames.  Actions, poses    *)
(* and the smooth handovers are left out: a handover may only raise.       *)
(***************************************************************************)
EXTENDS Sequences, UploadWorker

CONSTANTS
  NumEpisodes,     (* num_episodes: the target of corrections mode         *)
  UploadEvery,     (* upload_every_n_episodes                              *)
  Stride,          (* interpolator.multiplier: ticks per recorded frame    *)
  MaxCorrections,  (* bound: corrections in a behaviour                    *)
  MaxEpisodes,     (* bound: episodes recorded in continuous mode          *)
  MaxQueued        (* bound: on-demand uploads waiting at once             *)

ASSUME DAggerAssumption ==
  /\ NumEpisodes \in Nat \ {0} /\ UploadEvery \in Nat \ {0} /\ Stride \in Nat \ {0}

VARIABLES
  mode,        (* the recording mode: fixed by the configuration           *)
  pc,          (* where the control thread is                              *)
  back,        (* where it goes on after a save                            *)
  phase,       (* _phase                                                   *)
  request,     (* _pending_transition                                      *)
  uploadReq,   (* upload_requested                                         *)
  stopReq,     (* stop_recording or the shutdown event                     *)
  tick,        (* correction_tick % Stride                                 *)
  recorded,    (* recorded: corrections saved by the loop                  *)
  since,       (* episodes_since_push                                      *)
  buffer,      (* the frames in the episode buffer                         *)
  broken,      (* a failed save has taken the buffer apart                 *)
  episodes,    (* the committed episodes                                   *)
  needsPush,   (* _needs_push                                              *)
  finalized,   (* dataset.finalize() has run                               *)
  corrections, (* history: corrections begun                               *)
  failed,      (* history: a save or the robot has raised                  *)
  late         (* history: a save has raised after it counted its episode  *)

dataVars  == <<buffer, broken, episodes>>
inputVars == <<request, uploadReq, stopReq>>
bookVars  == <<tick, recorded, since, needsPush>>
loopVars  == <<mode, pc, back, phase, bookVars, dataVars, finalized>>
histVars  == <<corrections, failed, late>>
vars      == <<loopVars, inputVars, histVars, workerVars>>

Phases == {"AUTONOMOUS", "PAUSED", "CORRECTING"}
Events == {"pause_resume", "correction"}

(* _DAGGER_TRANSITIONS                                                     *)
Transition(p, e) ==
  CASE p = "AUTONOMOUS" /\ e = "pause_resume" -> "PAUSED"
    [] p = "PAUSED"     /\ e = "pause_resume" -> "AUTONOMOUS"
    [] p = "PAUSED"     /\ e = "correction"   -> "CORRECTING"
    [] p = "CORRECTING" /\ e = "correction"   -> "PAUSED"
    [] OTHER -> "none"

\* The frames recorded in the current phase.
FrameNow == IF phase = "CORRECTING" THEN corrections ELSE 0

TypeOK ==
  /\ WorkerTypeOK
  /\ mode \in {"continuous", "corrections"}
  /\ pc \in {"check", "consume", "upload", "act", "rotate", "save", "saving", "mark", "push",
             "tail", "exit", "drain", "final", "done", "raised"}
  /\ back \in {"check", "upload", "exit"}
  /\ phase \in Phases
  /\ request \in Events \cup {"none"}
  /\ uploadReq \in BOOLEAN /\ stopReq \in BOOLEAN
  /\ tick \in 0..(Stride - 1)
  /\ recorded \in 0..NumEpisodes
  /\ since \in 0..UploadEvery
  /\ buffer \in SUBSET Nat
  /\ broken \in BOOLEAN
  /\ episodes \in Seq(SUBSET Nat)
  /\ needsPush \in BOOLEAN /\ finalized \in BOOLEAN
  /\ corrections \in Nat
  /\ failed \in BOOLEAN /\ late \in BOOLEAN

\* run() resets the engine and the events and resumes the engine first.
Init ==
  /\ WorkerInit
  /\ mode \in {"continuous", "corrections"}
  /\ pc = "check" /\ back = "check"
  /\ phase = "AUTONOMOUS" /\ request = "none"
  /\ uploadReq = FALSE /\ stopReq = FALSE
  /\ tick = 0 /\ recorded = 0 /\ since = 0
  /\ buffer = {} /\ broken = FALSE /\ episodes = <<>>
  /\ needsPush = FALSE /\ finalized = FALSE
  /\ corrections = 0 /\ failed = FALSE /\ late = FALSE

Goto(from, to) == pc = from /\ pc' = to

---------------------------------------------------------------------------
(* The key or pedal thread.                                                *)

\* request_transition: only a transition that is valid now is enqueued; a
\* second key before the loop looks overwrites the first.
RequestTransition(e) ==
  /\ Transition(phase, e) # "none"
  /\ Transition(phase, e) = "CORRECTING" => corrections < MaxCorrections
  /\ request' = e
  /\ UNCHANGED <<loopVars, uploadReq, stopReq, histVars, workerVars>>

RequestUpload ==
  /\ ~uploadReq /\ queued < MaxQueued
  /\ uploadReq' = TRUE
  /\ UNCHANGED <<loopVars, request, stopReq, histVars, workerVars>>

\* Escape, or the process shutdown event.
RequestStop ==
  /\ ~stopReq
  /\ stopReq' = TRUE
  /\ UNCHANGED <<loopVars, request, uploadReq, histVars, workerVars>>

---------------------------------------------------------------------------
(* One tick of the control loop.                                           *)

\* The loop condition and the duration limit, which may be reached any time.
CheckLoop ==
  /\ pc = "check"
  /\ \/ pc' = "tail"
     \/ /\ ~stopReq
        /\ mode = "corrections" => recorded < NumEpisodes
        /\ pc' = "consume"
  /\ UNCHANGED <<mode, back, phase, bookVars, dataVars, finalized, inputVars, histVars,
                 workerVars>>

\* Where a tick goes on once transitions are processed.
AfterTransition == IF mode = "corrections" THEN "upload" ELSE "act"

NoTransition ==
  /\ request = "none"
  /\ Goto("consume", AfterTransition)
  /\ UNCHANGED <<mode, back, phase, bookVars, dataVars, finalized, inputVars, histVars,
                 workerVars>>

\* The end of a correction is saved before the tick goes on (corrections mode).
EndsCorrection == mode = "corrections" /\ phase = "CORRECTING"

\* Faulty variant: the recording stride goes on where the last correction left it.
ConsumeKeepsTick ==
  /\ pc = "consume" /\ request # "none"
  /\ request' = "none"
  /\ phase' = Transition(phase, request)
  /\ corrections' = IF phase' = "CORRECTING" THEN corrections + 1 ELSE corrections
  /\ pc' = IF EndsCorrection THEN "save" ELSE AfterTransition
  /\ back' = IF EndsCorrection THEN "upload" ELSE back
  /\ UNCHANGED <<mode, tick, recorded, since, needsPush, dataVars, finalized, uploadReq, stopReq,
                 failed, late, workerVars>>

\* consume_transition and _apply_transition: the request is cleared and the
\* phase changes in one critical section; the engine runs only in AUTONOMOUS.
ConsumeTransition ==
  /\ pc = "consume" /\ request # "none"
  /\ request' = "none"
  /\ phase' = Transition(phase, request)
  /\ corrections' = IF phase' = "CORRECTING" THEN corrections + 1 ELSE corrections
  /\ tick' = IF phase' = "CORRECTING" THEN 0 ELSE tick
  /\ pc' = IF EndsCorrection THEN "save" ELSE AfterTransition
  /\ back' = IF EndsCorrection THEN "upload" ELSE back
  /\ UNCHANGED <<mode, recorded, since, needsPush, dataVars, finalized, uploadReq, stopReq,
                 failed, late, workerVars>>

\* A handover talks to the teleoperator and the robot and may raise, after the
\* phase has changed and, on the way to PAUSED, the engine has been paused.
TransitionFails ==
  /\ request # "none"
  /\ Goto("consume", "tail")
  /\ request' = "none"
  /\ phase' = Transition(phase, request)
  /\ corrections' = IF phase' = "CORRECTING" THEN corrections + 1 ELSE corrections
  /\ failed' = TRUE
  /\ UNCHANGED <<mode, back, bookVars, dataVars, finalized, uploadReq, stopReq, late, workerVars>>

\* _background_push: not while a correction is going on.
BackgroundPush == IF phase = "CORRECTING" THEN UNCHANGED workerVars ELSE SubmitPush

OnDemandUpload ==
  /\ Goto("upload", "act")
  /\ uploadReq' = FALSE
  /\ IF uploadReq THEN BackgroundPush ELSE UNCHANGED workerVars
  /\ UNCHANGED <<mode, back, phase, bookVars, dataVars, finalized, request, stopReq,
                 histVars>>

\* A correction is recorded every Stride-th tick, an autonomous frame when the
\* policy has given a new action (continuous mode), a pause never.
Records ==
  CASE phase = "CORRECTING" -> tick = 0
    [] phase = "AUTONOMOUS" /\ mode = "continuous" -> Len(episodes) < MaxEpisodes
    [] OTHER -> FALSE

\* Faulty variant: a rotation may come due in the middle of a correction.
ActAnyRotation ==
  /\ Goto("act", IF mode = "continuous" THEN "rotate" ELSE "check")
  /\ \/ Records /\ buffer' = buffer \cup {FrameNow}
     \/ (Records => phase = "AUTONOMOUS") /\ UNCHANGED buffer
  /\ tick' = IF phase = "CORRECTING" THEN (tick + 1) % Stride ELSE tick
  /\ UNCHANGED <<mode, back, phase, recorded, since, needsPush, broken, episodes, finalized,
                 inputVars, histVars, workerVars>>

Act ==
  /\ Goto("act", IF mode = "continuous" /\ phase # "CORRECTING" THEN "rotate" ELSE "check")
  /\ \/ Records /\ buffer' = buffer \cup {FrameNow}
     \/ (Records => phase = "AUTONOMOUS") /\ UNCHANGED buffer
  /\ tick' = IF phase = "CORRECTING" THEN (tick + 1) % Stride ELSE tick
  /\ UNCHANGED <<mode, back, phase, recorded, since, needsPush, broken, episodes, finalized,
                 inputVars, histVars, workerVars>>

\* The robot, the teleoperator or the policy raises.
ActFails ==
  /\ Goto("act", "tail")
  /\ failed' = TRUE
  /\ UNCHANGED <<mode, back, phase, bookVars, dataVars, finalized, inputVars, corrections, late,
                 workerVars>>

\* The episode has lasted long enough or not; whether it has frames is not
\* looked at.
Rotate ==
  /\ pc = "rotate"
  /\ pc' \in {"save", "check"}
  /\ back' = "check"
  /\ UNCHANGED <<mode, phase, bookVars, dataVars, finalized, inputVars, histVars, workerVars>>

---------------------------------------------------------------------------
(* Saving an episode under _episode_lock.                                  *)

SaveLock ==
  /\ Goto("save", "saving")
  /\ lock = "free"
  /\ lock' = "control"
  /\ UNCHANGED <<mode, back, phase, bookVars, dataVars, finalized, inputVars, histVars,
                 queued, wpc, hub>>

SaveSucceeds ==
  /\ Goto("saving", "mark")
  /\ buffer # {} /\ ~broken
  /\ episodes' = Append(episodes, buffer)
  /\ buffer' = {}
  /\ lock' = "free"
  /\ UNCHANGED <<mode, back, phase, bookVars, broken, finalized, inputVars, histVars,
                 queued, wpc, hub>>

\* save_episode raises: on an empty or a taken apart buffer always, on another
\* possibly, and then it has taken it apart.  In the finally block the
\* exception is suppressed, elsewhere it ends the loop.
SaveFails ==
  /\ Goto("saving", IF back = "exit" THEN "exit" ELSE "tail")
  /\ broken' = (broken \/ buffer # {})
  /\ failed' = (failed \/ back # "exit" \/ buffer # {})
  /\ lock' = "free"
  /\ UNCHANGED <<mode, back, phase, bookVars, buffer, episodes, finalized, inputVars,
                 corrections, late, queued, wpc, hub>>

\* save_episode raises once the metadata has counted the episode: the dataset has
\* it, and the bookkeeping after the save is passed over.
SaveFailsLate ==
  /\ Goto("saving", IF back = "exit" THEN "exit" ELSE "tail")
  /\ buffer # {} /\ ~broken
  /\ episodes' = Append(episodes, buffer)
  /\ buffer' = {}
  /\ broken' = TRUE
  /\ failed' = TRUE /\ late' = TRUE
  /\ lock' = "free"
  /\ UNCHANGED <<mode, back, phase, bookVars, finalized, inputVars, corrections, queued, wpc, hub>>

\* Faulty variant: a rotated episode is left to the upload that follows it.
MarkCorrections ==
  /\ pc = "mark"
  /\ needsPush' = (needsPush \/ back # "check")
  /\ recorded' = IF back = "upload" THEN recorded + 1 ELSE recorded
  /\ since' = IF back = "check" THEN since + 1 ELSE since
  /\ pc' = IF back = "check" THEN "push" ELSE back
  /\ UNCHANGED <<mode, back, phase, tick, dataVars, finalized, inputVars, histVars,
                 workerVars>>

\* The bookkeeping after a save: corrections count towards the target, rotated
\* episodes towards the next upload.
Mark ==
  /\ pc = "mark"
  /\ needsPush' = TRUE
  /\ recorded' = IF back = "upload" THEN recorded + 1 ELSE recorded
  /\ since' = IF back = "check" THEN since + 1 ELSE since
  /\ pc' = IF back = "check" THEN "push" ELSE back
  /\ UNCHANGED <<mode, back, phase, tick, dataVars, finalized, inputVars, histVars,
                 workerVars>>

Push ==
  /\ Goto("push", "check")
  /\ IF since >= UploadEvery
     THEN since' = 0 /\ BackgroundPush
     ELSE UNCHANGED <<since, workerVars>>
  /\ UNCHANGED <<mode, back, phase, tick, recorded, needsPush, dataVars, finalized,
                 inputVars, histVars>>

\* The finally block: pause the engine and save what is in the buffer.
EnterTail ==
  /\ Goto("tail", "save")
  /\ back' = "exit"
  /\ UNCHANGED <<mode, phase, bookVars, dataVars, finalized, inputVars, histVars, workerVars>>

---------------------------------------------------------------------------
(* The end of run() and teardown().                                        *)

\* VideoEncodingManager.__exit__ finalizes the dataset, uploads or not.
LeaveManager ==
  /\ Goto("exit", "drain")
  /\ finalized' = TRUE
  /\ UNCHANGED <<mode, back, phase, bookVars, dataVars, inputVars, histVars, workerVars>>

\* The executor is shut down; finalize() is idempotent.
Teardown ==
  /\ Drained
  /\ Goto("drain", IF needsPush THEN "final" ELSE "done")
  /\ UNCHANGED <<mode, back, phase, bookVars, dataVars, finalized, inputVars, histVars,
                 workerVars>>

FinalPush ==
  /\ Goto("final", "done")
  /\ hub' = HubCopy(Len(episodes), finalized)
  /\ UNCHANGED <<mode, back, phase, bookVars, dataVars, finalized, inputVars, histVars,
                 lock, queued, wpc>>

\* push_to_hub raises and nothing in teardown catches it.
FinalPushFails ==
  /\ Goto("final", "raised")
  /\ UNCHANGED <<mode, back, phase, bookVars, dataVars, finalized, inputVars, histVars,
                 workerVars>>

---------------------------------------------------------------------------
(* The upload thread.                                                      *)

Upload ==
  /\ PushStart \/ PushLock \/ PushCheck(Len(episodes)) \/ PushUploads(Len(episodes), finalized)
     \/ PushFails
  /\ UNCHANGED <<loopVars, inputVars, histVars>>

UploadDone ==
  /\ PushDone
  /\ needsPush' = FALSE
  /\ UNCHANGED <<mode, pc, back, phase, tick, recorded, since, dataVars, finalized,
                 inputVars, histVars>>

---------------------------------------------------------------------------
Keys == RequestUpload \/ RequestStop \/ \E e \in Events : RequestTransition(e)

Loop ==
  \/ CheckLoop \/ NoTransition \/ ConsumeTransition \/ TransitionFails \/ OnDemandUpload
  \/ Act \/ ActFails \/ Rotate \/ Push

Save == SaveLock \/ SaveSucceeds \/ SaveFails \/ SaveFailsLate \/ Mark

Closing == EnterTail \/ LeaveManager \/ Teardown \/ FinalPush \/ FinalPushFails

Worker == Upload \/ UploadDone

Next == Keys \/ Loop \/ Save \/ Closing \/ Worker

Spec == Init /\ [][Next]_vars

\* The control thread and the upload thread keep running, and an upload ends;
\* nobody has to press a key.
Fairness == WF_vars(Loop \/ Save \/ Closing) /\ WF_vars(Worker)

---------------------------------------------------------------------------
(* Safety.                                                                 *)

\* A correction is never cut in two: its frames are in one episode, or in the
\* buffer, whatever rotates, fails or stops meanwhile.
CorrectionsStayWhole ==
  \A c \in 1..corrections :
    /\ \A i, j \in 1..Len(episodes) : c \in episodes[i] /\ c \in episodes[j] => i = j
    /\ c \in buffer => \A i \in 1..Len(episodes) : c \notin episodes[i]

\* In corrections mode each correction is an episode of its own: one that has
\* ended is saved with its frames before anything else is recorded, and the
\* save never meets an empty buffer.
EndedCorrectionIsSaved ==
  mode = "corrections" =>
    /\ \A i \in 1..Len(episodes) : episodes[i] = {i}
    /\ pc \in {"save", "saving"} /\ back = "upload" => buffer = {corrections}
    /\ ~failed /\ phase # "CORRECTING" /\ buffer = {} => Len(episodes) = corrections

\* The episodes whose save returned; a save that raised late was the last.
Saved == Len(episodes) - (IF late THEN 1 ELSE 0)

\* An episode that was saved and that the Hub does not have is remembered in
\* _needs_push, however the saves and the uploads interleave.
UnpushedRemembered == hub.episodes < Saved => needsPush \/ pc = "mark"

---------------------------------------------------------------------------
(* What the documents say and the code does not do.                        *)

\* docs/source/inference.mdx:72: teardown pushes the dataset to the Hub; and
\* lerobot_dataset.py:535: without finalize() the dataset is invalid.  So the
\* copy the session leaves on the Hub is one of the finalized dataset.
HubHoldsFinalDataset ==
  pc = "done" /\ hub.episodes > 0 => hub.sealed

=============================================================================
