------------------------- MODULE HighlightStrategy -------------------------
(***************************************************************************)
(* On-demand recording from a ring buffer (HighlightStrategy,              *)
(* rollout/strategies/highlight.py).                                       *)
(*                                                                         *)
(* The key thread sets the save, push and stop flags; the control thread   *)
(* keeps the last frames in the ring, or records them live between two     *)
(* presses of the save key; one worker thread uploads (UploadWorker).      *)
(* Frames are numbered as the policy produces them; an episode is the      *)
(* sequence of its frames.                                                 *)
(***************************************************************************)
EXTENDS RolloutRingBuffer, UploadWorker

CONSTANTS
  MaxTicks,   (* bound: frames in a behaviour                              *)
  MaxQueued   (* bound: uploads waiting at once                            *)

VARIABLES
  pc,         (* where the control thread is                               *)
  back,       (* where it goes on after a save: the loop or the end        *)
  stopReq,    (* the shutdown event                                        *)
  saveReq,    (* _save_requested                                           *)
  pushReq,    (* _push_requested                                           *)
  live,       (* _recording_live                                           *)
  ring,       (* _ring                                                     *)
  ticks,      (* the number of the current frame                           *)
  buffer,     (* the dataset's episode buffer                              *)
  broken,     (* a failed save has taken the buffer apart                  *)
  episodes,   (* the committed episodes                                    *)
  finalized,  (* dataset.finalize() has run                                *)
  begun,      (* history: the first frame after the last live recording    *)
  failed      (* history: a save, the robot or the policy has raised       *)

dataVars == <<buffer, broken, episodes>>
keyVars  == <<stopReq, saveReq, pushReq>>
recVars  == <<live, ring, ticks, begun>>
vars     == <<pc, back, keyVars, recVars, dataVars, finalized, failed, workerVars>>

TypeOK ==
  /\ WorkerTypeOK
  /\ pc \in {"check", "tick", "record", "toggle", "flush", "store", "save", "saving", "mark",
             "tail", "exit", "drain", "final", "done", "raised"}
  /\ back \in {"check", "exit"}
  /\ stopReq \in BOOLEAN /\ saveReq \in BOOLEAN /\ pushReq \in BOOLEAN
  /\ live \in BOOLEAN
  /\ ring \in [frames : Seq(Nat), bytes : Nat]
  /\ ticks \in Nat /\ begun \in Nat \ {0}
  /\ buffer \in Seq(Nat)
  /\ episodes \in Seq(Seq(Nat))
  /\ broken \in BOOLEAN /\ finalized \in BOOLEAN /\ failed \in BOOLEAN

Init ==
  /\ WorkerInit
  /\ pc = "check" /\ back = "check"
  /\ stopReq = FALSE /\ saveReq = FALSE /\ pushReq = FALSE
  /\ live = FALSE /\ ring = EmptyRing /\ ticks = 0 /\ begun = 1
  /\ buffer = <<>> /\ broken = FALSE /\ episodes = <<>>
  /\ finalized = FALSE /\ failed = FALSE

Goto(from, to) == pc = from /\ pc' = to

---------------------------------------------------------------------------
(* The key thread.                                                         *)

PressSave ==
  /\ ~saveReq
  /\ saveReq' = TRUE
  /\ UNCHANGED <<pc, back, stopReq, pushReq, recVars, dataVars, finalized, failed, workerVars>>

PressPush ==
  /\ ~pushReq /\ queued < MaxQueued
  /\ pushReq' = TRUE
  /\ UNCHANGED <<pc, back, stopReq, saveReq, recVars, dataVars, finalized, failed, workerVars>>

\* Escape takes a pending save back and ends the session.
PressEscape ==
  /\ ~stopReq
  /\ saveReq' = FALSE
  /\ stopReq' = TRUE
  /\ UNCHANGED <<pc, back, pushReq, recVars, dataVars, finalized, failed, workerVars>>

---------------------------------------------------------------------------
(* One tick of the control loop.                                           *)

\* The shutdown event, or the duration limit, which may be reached any time.
CheckLoop ==
  /\ pc = "check"
  /\ \/ pc' = "tail"
     \/ ~stopReq /\ pc' = "tick"
  /\ UNCHANGED <<back, keyVars, recVars, dataVars, finalized, failed, workerVars>>

\* The robot, the policy or the dataset raises.
TickFails ==
  /\ pc \in {"tick", "store"} \/ (pc = "toggle" /\ live)
  /\ pc' = "tail"
  /\ saveReq' = (saveReq /\ pc # "toggle")
  /\ failed' = TRUE
  /\ UNCHANGED <<back, stopReq, pushReq, recVars, dataVars, finalized, workerVars>>

\* No action this tick, or an action: a requested upload is submitted, and
\* when the action is a new one of the policy its frame is handled.
Tick ==
  /\ pc = "tick"
  /\ \/ pc' = "check" /\ UNCHANGED <<pushReq, ticks, workerVars>>
     \/ /\ pushReq' = FALSE
        /\ IF pushReq THEN SubmitPush ELSE UNCHANGED workerVars
        /\ \/ pc' = "check" /\ UNCHANGED ticks
           \/ ticks < MaxTicks /\ ticks' = ticks + 1 /\ pc' = "record"
  /\ UNCHANGED <<back, stopReq, saveReq, live, ring, begun, dataVars, finalized, failed>>

SeeToggle ==
  /\ Goto("record", IF saveReq THEN "toggle" ELSE "store")
  /\ UNCHANGED <<back, keyVars, recVars, dataVars, finalized, failed, workerVars>>

\* Not atomic with the look at the flag: a press in between is erased.
ClearToggle ==
  /\ Goto("toggle", IF live THEN "save" ELSE "flush")
  /\ saveReq' = FALSE
  /\ buffer' = IF live THEN Append(buffer, ticks) ELSE buffer
  /\ back' = "check"
  /\ UNCHANGED <<stopReq, pushReq, recVars, broken, episodes, finalized, failed, workerVars>>

\* Faulty variant: the drained frames stay in the ring.
FlushKeepsRing ==
  /\ Goto("flush", "store")
  /\ buffer' = buffer \o ring.frames
  /\ live' = TRUE
  /\ UNCHANGED <<back, keyVars, ring, ticks, begun, broken, episodes, finalized, failed, workerVars>>

\* drain() and one add_frame per drained frame.
FlushRing ==
  /\ Goto("flush", "store")
  /\ buffer' = buffer \o ring.frames
  /\ ring' = EmptyRing
  /\ live' = TRUE
  /\ UNCHANGED <<back, keyVars, ticks, begun, broken, episodes, finalized, failed, workerVars>>

\* add_frame raises while the drained frames are being added.
FlushFails ==
  /\ Goto("flush", "tail")
  /\ \E n \in 0..Len(ring.frames) : buffer' = buffer \o SubSeq(ring.frames, 1, n)
  /\ ring' = EmptyRing
  /\ failed' = TRUE
  /\ UNCHANGED <<back, keyVars, live, ticks, begun, broken, episodes, finalized, workerVars>>

StoreFrame ==
  /\ Goto("store", "check")
  /\ IF live
     THEN buffer' = Append(buffer, ticks) /\ UNCHANGED ring
     ELSE ring' = AppendFrame(ring, ticks) /\ UNCHANGED buffer
  /\ UNCHANGED <<back, keyVars, live, ticks, begun, broken, episodes, finalized, failed, workerVars>>

---------------------------------------------------------------------------
(* Saving an episode under _episode_lock.                                  *)

SaveLock ==
  /\ Goto("save", "saving")
  /\ lock = "free"
  /\ lock' = "control"
  /\ UNCHANGED <<back, keyVars, recVars, dataVars, finalized, failed, queued, wpc, hub>>

SaveSucceeds ==
  /\ Goto("saving", IF back = "check" THEN "mark" ELSE "exit")
  /\ buffer # <<>> /\ ~broken
  /\ episodes' = Append(episodes, buffer)
  /\ buffer' = <<>>
  /\ lock' = "free"
  /\ UNCHANGED <<back, keyVars, recVars, broken, finalized, failed, queued, wpc, hub>>

\* In the finally block the exception is suppressed, elsewhere it ends the loop.
SaveFails ==
  /\ Goto("saving", IF back = "check" THEN "tail" ELSE "exit")
  /\ broken' = (broken \/ buffer # <<>>)
  /\ failed' = TRUE
  /\ lock' = "free"
  /\ UNCHANGED <<back, keyVars, recVars, buffer, episodes, finalized, queued, wpc, hub>>

\* The episode is closed and its last frame consumed.
StopLive ==
  /\ Goto("mark", "check")
  /\ live' = FALSE
  /\ begun' = ticks + 1
  /\ UNCHANGED <<back, keyVars, ring, ticks, dataVars, finalized, failed, workerVars>>

\* The finally block saves a recording that is still live.
EnterTail ==
  /\ Goto("tail", IF live THEN "save" ELSE "exit")
  /\ back' = "exit"
  /\ UNCHANGED <<keyVars, recVars, dataVars, finalized, failed, workerVars>>

---------------------------------------------------------------------------
(* The end of run(), and teardown().                                       *)

\* VideoEncodingManager.__exit__ finalizes the dataset, uploads or not.
LeaveManager ==
  /\ Goto("exit", "drain")
  /\ finalized' = TRUE
  /\ UNCHANGED <<back, keyVars, recVars, dataVars, failed, workerVars>>

Teardown ==
  /\ Drained
  /\ Goto("drain", IF Len(episodes) = 0 THEN "done" ELSE "final")
  /\ UNCHANGED <<back, keyVars, recVars, dataVars, finalized, failed, workerVars>>

FinalPush ==
  /\ Goto("final", "done")
  /\ hub' = HubCopy(Len(episodes), finalized)
  /\ UNCHANGED <<back, keyVars, recVars, dataVars, finalized, failed, lock, queued, wpc>>

FinalPushFails ==
  /\ Goto("final", "raised")
  /\ UNCHANGED <<back, keyVars, recVars, dataVars, finalized, failed, workerVars>>

Upload ==
  /\ PushStart \/ PushLock \/ PushCheck(Len(episodes)) \/ PushUploads(Len(episodes), finalized)
     \/ PushFails \/ PushDone
  /\ UNCHANGED <<pc, back, keyVars, recVars, dataVars, finalized, failed>>

---------------------------------------------------------------------------
Keys == PressSave \/ PressPush \/ PressEscape

Loop ==
  \/ CheckLoop \/ TickFails \/ Tick \/ SeeToggle \/ ClearToggle \/ FlushRing \/ FlushFails
  \/ StoreFrame

Save == SaveLock \/ SaveSucceeds \/ SaveFails \/ StopLive

Closing == EnterTail \/ LeaveManager \/ Teardown \/ FinalPush \/ FinalPushFails

Next == Keys \/ Loop \/ Save \/ Closing \/ Upload

Spec == Init /\ [][Next]_vars

\* The control thread and the upload thread keep running, and an upload ends;
\* nobody has to press a key.
Fairness == WF_vars(Loop \/ Save \/ Closing) /\ WF_vars(Upload)

---------------------------------------------------------------------------
(* Safety.                                                                 *)

Contiguous(s) == \A i \in 1..(Len(s) - 1) : s[i + 1] = s[i] + 1

\* Every episode is an unbroken stretch of the rollout, from the ring's oldest
\* frame to the one that ended it, and no frame is in two episodes.
EpisodesAreStretches ==
  /\ \A i \in 1..Len(episodes) : Contiguous(episodes[i])
  /\ \A i \in 1..(Len(episodes) - 1) : episodes[i][Len(episodes[i])] < episodes[i + 1][1]
  /\ Contiguous(buffer)
  /\ buffer # <<>> /\ episodes # <<>> =>
       LET last == episodes[Len(episodes)] IN last[Len(last)] < buffer[1]

Smallest(S) == CHOOSE x \in S : \A y \in S : x <= y

\* The ring holds the newest frames since the last live recording, as many as
\* fit: the bytes it does not take off its count never cost a frame.
RingKeepsWindow ==
  ~live /\ ~failed /\ pc = "check" =>
    LET held == Smallest({ticks - begun + 1, MaxFrames, MaxBytes \div FrameBytes})
    IN ring.frames = [i \in 1..held |-> ticks - held + i]

=============================================================================
