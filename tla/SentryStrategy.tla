--------------------------- MODULE SentryStrategy ---------------------------
(***************************************************************************)
(* Continuous recording with background uploads (SentryStrategy,           *)
(* rollout/strategies/sentry.py).                                          *)
(*                                                                         *)
(* The control thread records frames, saves an episode when it has lasted  *)
(* long enough and when a segment ends, and queues an upload every         *)
(* UploadEvery episodes.  One worker thread runs the uploads.  Both take   *)
(* _episode_lock, so an upload never sees an episode being written.        *)
(*                                                                         *)
(* The dataset is its number of committed episodes; saves and uploads may  *)
(* fail.  A save that fails after it has written rows leaves the dataset   *)
(* corrupt on disk, which the code remembers in _dataset_poisoned.         *)
(***************************************************************************)
EXTENDS Naturals

CONSTANTS
  UploadEvery,  (* upload_every_n_episodes                                 *)
  MaxEpisodes   (* bound: episodes in a behaviour                          *)

ASSUME SentryAssumption == UploadEvery \in Nat \ {0} /\ MaxEpisodes \in Nat

VARIABLES
  pc,          (* where the control thread is                              *)
  back,        (* where it goes on after a save: the loop or the tail      *)
  wpc,         (* where the push worker is                                 *)
  lock,        (* who holds _episode_lock                                  *)
  queued,      (* uploads submitted and not started                        *)
  frames,      (* the episode buffer holds frames                          *)
  saved,       (* episodes committed to the dataset                        *)
  since,       (* _episodes_since_push                                     *)
  needsPush,   (* _needs_push                                              *)
  poisoned,    (* _dataset_poisoned                                        *)
  finalized,   (* dataset.finalize() has run                               *)
  released,    (* _teardown_hardware has run                               *)
  corrupt,     (* history: a save failed after writing rows                *)
  pushed,      (* history: episodes the Hub has                            *)
  hubCorrupt   (* history: an upload began on a corrupt dataset            *)

dataVars == <<frames, saved, corrupt>>
pushVars == <<wpc, queued, pushed, hubCorrupt>>
bookVars == <<since, needsPush, poisoned>>
endVars  == <<finalized, released>>
vars     == <<pc, back, lock, dataVars, pushVars, bookVars, endVars>>

TypeOK ==
  /\ pc \in {"idle", "loop", "tail", "save", "saving", "failed", "register", "push",
             "drain", "finalize", "final", "release", "done", "raised"}
  /\ back \in {"loop", "idle"}
  /\ wpc \in {"idle", "lock", "check", "upload", "clear"}
  /\ lock \in {"free", "control", "worker"}
  /\ queued \in Nat
  /\ saved \in 0..MaxEpisodes
  /\ pushed \in 0..MaxEpisodes
  /\ since \in 0..UploadEvery
  /\ frames \in BOOLEAN /\ needsPush \in BOOLEAN /\ poisoned \in BOOLEAN
  /\ finalized \in BOOLEAN /\ released \in BOOLEAN
  /\ corrupt \in BOOLEAN /\ hubCorrupt \in BOOLEAN

Init ==
  /\ pc = "idle" /\ back = "idle" /\ wpc = "idle" /\ lock = "free"
  /\ queued = 0 /\ frames = FALSE /\ saved = 0 /\ since = 0 /\ pushed = 0
  /\ needsPush = FALSE /\ poisoned = FALSE /\ finalized = FALSE /\ released = FALSE
  /\ corrupt = FALSE /\ hubCorrupt = FALSE

Goto(from, to) == pc = from /\ pc' = to

---------------------------------------------------------------------------
(* run(): one segment.                                                     *)

\* Faulty variant: a segment starts on a dataset whose save has failed.
StartAnySegment ==
  /\ Goto("idle", "loop")
  /\ UNCHANGED <<back, lock, dataVars, pushVars, bookVars, endVars>>

\* A poisoned dataset is refused.
StartSegment ==
  /\ ~poisoned
  /\ Goto("idle", "loop")
  /\ UNCHANGED <<back, lock, dataVars, pushVars, bookVars, endVars>>

\* MaxEpisodes bounds the behaviour: no frame is recorded past it.
RecordFrame ==
  /\ Goto("loop", "loop")
  /\ saved < MaxEpisodes
  /\ frames' = TRUE
  /\ UNCHANGED <<back, lock, saved, corrupt, pushVars, bookVars, endVars>>

\* The episode has lasted long enough; whether it has frames is not looked at.
Rotate ==
  /\ Goto("loop", "save")
  /\ back' = "loop"
  /\ UNCHANGED <<lock, dataVars, pushVars, bookVars, endVars>>

\* The loop ends (stop, duration or an error): run()'s finally block.
EndSegment ==
  /\ Goto("loop", "tail")
  /\ UNCHANGED <<back, lock, dataVars, pushVars, bookVars, endVars>>

SaveTail ==
  /\ pc = "tail"
  /\ pc' = IF ~poisoned /\ frames THEN "save" ELSE "idle"
  /\ back' = "idle"
  /\ UNCHANGED <<lock, dataVars, pushVars, bookVars, endVars>>

---------------------------------------------------------------------------
(* _checked_save_episode and _register_saved_episode.                      *)

SaveLock ==
  /\ lock = "free"
  /\ Goto("save", "saving")
  /\ lock' = "control"
  /\ UNCHANGED <<back, dataVars, pushVars, bookVars, endVars>>

SaveSucceeds ==
  /\ frames
  /\ Goto("saving", "register")
  /\ lock' = "free"
  /\ saved' = saved + 1
  /\ frames' = FALSE
  /\ UNCHANGED <<back, corrupt, pushVars, bookVars, endVars>>

\* save_episode raises: on an empty buffer before it writes anything, otherwise
\* possibly with rows already written.  Leaving the with block frees the lock.
SaveFails ==
  /\ Goto("saving", "failed")
  /\ lock' = "free"
  /\ corrupt' \in (IF frames THEN {TRUE, corrupt} ELSE {corrupt})
  /\ UNCHANGED <<back, frames, saved, pushVars, bookVars, endVars>>

\* The handler poisons the dataset, clears the buffer and raises again; the
\* finally block then sees the poison.
PoisonDataset ==
  /\ Goto("failed", IF back = "loop" THEN "tail" ELSE "idle")
  /\ poisoned' = TRUE
  /\ frames' = FALSE
  /\ UNCHANGED <<back, lock, saved, corrupt, pushVars, since, needsPush, endVars>>

\* Faulty variant: an episode is remembered only when it triggers an upload.
RegisterOnUpload ==
  /\ pc = "register"
  /\ since' = since + 1
  /\ needsPush' = (needsPush \/ since' >= UploadEvery)
  /\ pc' = IF since' >= UploadEvery THEN "push" ELSE back
  /\ UNCHANGED <<back, lock, dataVars, pushVars, poisoned, endVars>>

RegisterEpisode ==
  /\ pc = "register"
  /\ since' = since + 1
  /\ needsPush' = TRUE
  /\ pc' = IF since' >= UploadEvery THEN "push" ELSE back
  /\ UNCHANGED <<back, lock, dataVars, pushVars, poisoned, endVars>>

\* Faulty variant: the count of episodes since the last upload is not reset.
BackgroundPushKeepsCount ==
  /\ Goto("push", back)
  /\ queued' = IF poisoned THEN queued ELSE queued + 1
  /\ UNCHANGED <<back, lock, dataVars, wpc, pushed, hubCorrupt, bookVars, endVars>>

BackgroundPush ==
  /\ Goto("push", back)
  /\ queued' = IF poisoned THEN queued ELSE queued + 1
  /\ since' = 0
  /\ UNCHANGED <<back, lock, dataVars, wpc, pushed, hubCorrupt, needsPush, poisoned, endVars>>

---------------------------------------------------------------------------
(* The push worker: one _push at a time.                                   *)

PushStart ==
  /\ wpc = "idle" /\ queued > 0
  /\ wpc' = "lock"
  /\ queued' = queued - 1
  /\ UNCHANGED <<pc, back, lock, dataVars, pushed, hubCorrupt, bookVars, endVars>>

PushLock ==
  /\ wpc = "lock" /\ lock = "free"
  /\ wpc' = "check"
  /\ lock' = "worker"
  /\ UNCHANGED <<pc, back, dataVars, queued, pushed, hubCorrupt, bookVars, endVars>>

\* Faulty variant: the poison is looked at only when the push is queued.
PushUnchecked ==
  /\ wpc = "check"
  /\ wpc' = "upload"
  /\ hubCorrupt' = (hubCorrupt \/ corrupt)
  /\ UNCHANGED <<pc, back, lock, dataVars, queued, pushed, bookVars, endVars>>

\* Poisoned while queued: skip.
PushCheck ==
  /\ wpc = "check"
  /\ IF poisoned
     THEN wpc' = "idle" /\ lock' = "free" /\ UNCHANGED hubCorrupt
     ELSE wpc' = "upload" /\ hubCorrupt' = (hubCorrupt \/ corrupt) /\ UNCHANGED lock
  /\ UNCHANGED <<pc, back, dataVars, queued, pushed, bookVars, endVars>>

PushUploads ==
  /\ wpc = "upload"
  /\ wpc' = "clear"
  /\ pushed' = saved
  /\ UNCHANGED <<pc, back, lock, dataVars, queued, hubCorrupt, bookVars, endVars>>

\* Faulty variant: a failed upload does not release the lock.
PushFailsLocked ==
  /\ wpc = "upload"
  /\ wpc' = "idle"
  /\ UNCHANGED <<pc, back, lock, dataVars, queued, pushed, hubCorrupt, bookVars, endVars>>

\* A failed upload is logged; _needs_push stays set.
PushFails ==
  /\ wpc = "upload"
  /\ wpc' = "idle"
  /\ lock' = "free"
  /\ UNCHANGED <<pc, back, dataVars, queued, pushed, hubCorrupt, bookVars, endVars>>

PushDone ==
  /\ wpc = "clear"
  /\ wpc' = "idle"
  /\ lock' = "free"
  /\ needsPush' = FALSE
  /\ UNCHANGED <<pc, back, dataVars, queued, pushed, hubCorrupt, since, poisoned, endVars>>

---------------------------------------------------------------------------
(* teardown().                                                             *)

Teardown ==
  /\ Goto("idle", "drain")
  /\ UNCHANGED <<back, lock, dataVars, pushVars, bookVars, endVars>>

\* Faulty variant: only the uploads already started are waited for.
DrainStarted ==
  /\ wpc = "idle"
  /\ Goto("drain", "finalize")
  /\ UNCHANGED <<back, lock, dataVars, pushVars, bookVars, endVars>>

\* executor.shutdown(wait=True)
Drain ==
  /\ wpc = "idle" /\ queued = 0
  /\ Goto("drain", "finalize")
  /\ UNCHANGED <<back, lock, dataVars, pushVars, bookVars, endVars>>

Finalize ==
  /\ Goto("finalize", IF ~poisoned /\ needsPush THEN "final" ELSE "release")
  /\ finalized' = TRUE
  /\ UNCHANGED <<back, lock, dataVars, pushVars, bookVars, released>>

FinalPush ==
  /\ Goto("final", "release")
  /\ pushed' = saved
  /\ hubCorrupt' = (hubCorrupt \/ corrupt)
  /\ UNCHANGED <<back, lock, dataVars, wpc, queued, bookVars, endVars>>

\* push_to_hub raises and nothing in teardown catches it.
FinalPushFails ==
  /\ Goto("final", "raised")
  /\ hubCorrupt' = (hubCorrupt \/ corrupt)
  /\ UNCHANGED <<back, lock, dataVars, wpc, queued, pushed, bookVars, endVars>>

TeardownHardware ==
  /\ Goto("release", "done")
  /\ released' = TRUE
  /\ UNCHANGED <<back, lock, dataVars, pushVars, bookVars, finalized>>

---------------------------------------------------------------------------
Save == SaveLock \/ SaveSucceeds \/ SaveFails \/ PoisonDataset \/ RegisterEpisode \/ BackgroundPush

Closing == Drain \/ Finalize \/ FinalPush \/ FinalPushFails \/ TeardownHardware

Worker == PushStart \/ PushLock \/ PushCheck \/ PushUploads \/ PushFails \/ PushDone

Next ==
  \/ StartSegment \/ RecordFrame \/ Rotate \/ EndSegment \/ SaveTail
  \/ Save \/ Worker \/ Teardown \/ Closing

Spec == Init /\ [][Next]_vars

Fairness == WF_vars(Worker) /\ WF_vars(Save) /\ WF_vars(Closing)

FairSpec == Spec /\ Fairness

---------------------------------------------------------------------------
(* Safety.                                                                 *)

\* An episode the Hub does not have is remembered: _needs_push stays set until
\* an upload that includes it, however saves and queued uploads interleave.
UnpushedRemembered ==
  pushed < saved => needsPush \/ pc = "register"

\* At the end every committed episode is on the Hub, unless a save or the last
\* upload failed.
AllPushedAtTheEnd ==
  pc = "done" => pushed = saved \/ poisoned

\* Nothing is written to a dataset after a save has failed on it.
NoSaveAfterFailure ==
  [][poisoned => saved' = saved /\ pc' # "saving"]_vars

\* An upload never runs while an episode is written, nor on a dataset being
\* closed.
UploadAlone ==
  wpc \in {"upload", "clear"} =>
    pc \notin {"saving", "finalize", "final", "release", "done", "raised"}

\* Once the dataset is known to be poisoned no further upload begins.
PoisonedNeverPushed ==
  [][poisoned => ~(wpc' = "upload" /\ wpc # "upload") /\ pc' # "final"]_vars

\* Teardown always ends: the queued uploads are waited for and never block it.
TeardownEnds == pc = "drain" ~> pc \in {"done", "raised"}

---------------------------------------------------------------------------
(* What the comments say and the code does not do.                         *)

\* sentry.py:78 and 316: a dataset whose save failed mid-write is not uploaded.
CorruptNeverPushed == ~hubCorrupt

=============================================================================
