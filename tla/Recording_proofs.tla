------------------------- MODULE Recording_proofs -------------------------
(***************************************************************************)
(* Proofs about recording: about DAggerStrategy, for every target of       *)
(* corrections, upload cadence and recording stride, and about the         *)
(* composition MCRecording, whose other parts, HighlightStrategy and       *)
(* DatasetFiles, have their own proofs.  No bound of a run is used.        *)
(*                                                                         *)
(* The inductive invariant of DAggerStrategy says who holds the episode    *)
(* lock, where in the loop a phase or a mode can be met, what the          *)
(* bookkeeping owes the Hub, and how many of the corrections begun are     *)
(* episodes, buffered or lost.                                             *)
(***************************************************************************)
EXTENDS MCRecording, SequenceTheorems, TLAPS

(* TypeOK in three parts: flags, program counters with counts, and data.   *)
Flags ==
  /\ uploadReq \in BOOLEAN /\ stopReq \in BOOLEAN /\ broken \in BOOLEAN
  /\ needsPush \in BOOLEAN /\ finalized \in BOOLEAN /\ failed \in BOOLEAN /\ late \in BOOLEAN

Scalars ==
  /\ lock \in {"free", "control", "worker"}
  /\ queued \in Nat
  /\ wpc \in {"idle", "lock", "check", "upload", "clear"}
  /\ mode \in {"continuous", "corrections"}
  /\ pc \in {"check", "consume", "upload", "act", "rotate", "save", "saving", "mark", "push",
             "tail", "exit", "drain", "final", "done", "raised"}
  /\ back \in {"check", "upload", "exit"}
  /\ phase \in Phases
  /\ request \in Events \cup {"none"}
  /\ tick \in 0..(Stride - 1)
  /\ recorded \in 0..NumEpisodes
  /\ since \in 0..UploadEvery
  /\ corrections \in Nat

Data ==
  /\ hub \in [episodes : Nat, sealed : BOOLEAN]
  /\ buffer \in SUBSET Nat
  /\ episodes \in Seq(SUBSET Nat)

(* The lock is held exactly in the critical sections of the two threads;   *)
(* after the drain nothing is uploaded in the background any more.         *)
LockOwner ==
  /\ lock = "control" <=> pc = "saving"
  /\ lock = "worker" <=> wpc \in {"check", "upload", "clear"}
  /\ pc \in {"final", "done", "raised"} => wpc = "idle" /\ queued = 0

(* The Hub is never ahead of the dataset, and exactly level between an     *)
(* upload and the clearing of _needs_push; nothing is saved after a save   *)
(* that raised late.                                                       *)
Bookkeeping ==
  /\ hub.episodes <= Len(episodes)
  /\ wpc = "clear" => hub.episodes = Len(episodes)
  /\ late => broken

InSave == pc \in {"save", "saving", "mark"}

(* Where the modes and the phases can be met; a transition that waits is   *)
(* still one of the phase it was asked in.                                 *)
Places ==
  /\ request # "none" => Transition(phase, request) # "none"
  /\ pc \in {"rotate", "push"} => mode = "continuous" /\ phase # "CORRECTING"
  /\ pc = "upload" => mode = "corrections"
  /\ InSave /\ back = "check" => mode = "continuous" /\ phase # "CORRECTING"
  /\ InSave /\ back = "upload" => mode = "corrections" /\ phase # "CORRECTING"
  /\ mode = "corrections" /\ (pc = "consume" \/ (InSave /\ back = "upload")) => recorded < NumEpisodes
  /\ pc # "push" => since < UploadEvery

(* Frames are of corrections begun, and the one going on is saved nowhere. *)
Frames ==
  /\ buffer \subseteq 0..corrections
  /\ \A i \in 1..Len(episodes) : episodes[i] \subseteq 0..corrections
  /\ phase = "CORRECTING" /\ pc \in {"check", "consume", "upload", "act"} =>
       \A i \in 1..Len(episodes) : corrections \notin episodes[i]

(* Corrections mode: every correction begun is an episode, but for the one *)
(* that is being recorded, or that a failure has lost.                     *)
Accounted ==
  mode = "corrections" =>
    /\ \A i \in 1..Len(episodes) : episodes[i] = {i}
    /\ Len(episodes) <= corrections
    /\ buffer = {} \/ (buffer = {corrections} /\ Len(episodes) + 1 = corrections)
    /\ pc \in {"check", "consume"} /\ phase = "CORRECTING" => buffer = {corrections}
    /\ pc \in {"upload", "act"} /\ phase = "CORRECTING" =>
         buffer = {corrections} \/ (tick = 0 /\ Len(episodes) + 1 = corrections)
    /\ pc \in {"check", "consume", "upload", "act"} /\ phase # "CORRECTING" =>
         buffer = {} /\ Len(episodes) = corrections
    /\ pc \in {"save", "saving"} /\ back = "upload" => buffer = {corrections}
    /\ pc = "mark" /\ back = "upload" => buffer = {} /\ Len(episodes) = corrections
    /\ ~failed /\ phase # "CORRECTING" /\ buffer = {} => Len(episodes) = corrections

DAggerInv ==
  /\ Flags /\ Scalars /\ Data /\ LockOwner /\ Bookkeeping /\ Places /\ Frames /\ Accounted
  /\ UnpushedRemembered /\ CorrectionsStayWhole

-----------------------------------------------------------------------------
(* The initial state: nothing recorded, nothing owed.                      *)
LEMMA InitEstablishesDAggerInv ==
  ASSUME Init
  PROVE  DAggerInv
<1> USE DAggerAssumption DEF Init, WorkerInit
<1>1. Flags
  BY Zenon DEF Flags
<1>2. Scalars
  BY DEF Scalars, Phases
<1>3. Data
  BY DEF Data
<1>4. LockOwner /\ Bookkeeping /\ Places
  BY DEF LockOwner, Bookkeeping, Places, InSave
<1>5. Frames /\ Accounted /\ UnpushedRemembered /\ CorrectionsStayWhole
  <2>1. /\ buffer = {} /\ Len(episodes) = 0 /\ corrections = 0 /\ hub.episodes = 0
        /\ pc = "check" /\ phase = "AUTONOMOUS" /\ late = FALSE
    OBVIOUS
  <2> QED BY ONLY <2>1 DEF Frames, Accounted, UnpushedRemembered, Saved, CorrectionsStayWhole
<1> QED BY <1>1, <1>2, <1>3, <1>4, <1>5 DEF DAggerInv

-----------------------------------------------------------------------------
(* Types and places.                                                       *)

(* Flags keep their type in every step.                                    *)
LEMMA FlagsTyped ==
  ASSUME Flags, Next
  PROVE  Flags'
<1> USE DEF Flags, bookVars, dataVars, inputVars, loopVars, histVars
<1>1. CASE Keys
  BY <1>1, Zenon DEF Keys, RequestTransition, RequestUpload, RequestStop
<1>2. CASE Loop
  BY <1>2, Zenon DEF Loop, CheckLoop, NoTransition, ConsumeTransition, TransitionFails, OnDemandUpload,
     Act, ActFails, Rotate, Push
<1>3. CASE Save
  BY <1>3, Zenon DEF Save, SaveLock, SaveSucceeds, SaveFails, SaveFailsLate, Mark
<1>4. CASE Closing
  BY <1>4, Zenon DEF Closing, EnterTail, LeaveManager, Teardown, FinalPush, FinalPushFails
<1>5. CASE Worker
  BY <1>5, Zenon DEF Worker, Upload, UploadDone
<1> QED BY <1>1, <1>2, <1>3, <1>4, <1>5, Zenon DEF Next

(* The frames kept and the Hub's copy keep their types.                    *)
LEMMA DataTyped ==
  ASSUME DAggerInv, Next
  PROVE  Data'
<1> USE DEF DAggerInv, Data, bookVars, dataVars, inputVars, loopVars, histVars, workerVars, SubmitPush
<1>1. HubCopy(Len(episodes), finalized) \in [episodes : Nat, sealed : BOOLEAN]
  <2>1. Len(episodes) \in Nat
    BY LenProperties
  <2>2. finalized \in BOOLEAN
    BY Zenon DEF Flags
  <2> QED BY <2>1, <2>2, Zenon DEF HubCopy
<1>2. CASE Keys
  BY <1>2 DEF Keys, RequestTransition, RequestUpload, RequestStop
<1>3. CASE Loop
  <2>1. FrameNow \in Nat
    BY DEF FrameNow, Scalars
  <2>2. CASE Act
    BY <2>1, <2>2 DEF Act
  <2>3. CASE CheckLoop \/ NoTransition \/ ConsumeTransition \/ TransitionFails \/ OnDemandUpload \/ ActFails
             \/ Rotate \/ Push
    <3>1. UNCHANGED <<buffer, episodes, hub>>
      BY <2>3 DEF CheckLoop, NoTransition, ConsumeTransition, TransitionFails, OnDemandUpload, ActFails,
         Rotate, Push, BackgroundPush
    <3> QED BY <3>1
  <2> QED BY <1>3, <2>2, <2>3 DEF Loop
<1>4. CASE Save
  <2>1. CASE SaveSucceeds \/ SaveFailsLate
    <3>1. UNCHANGED hub /\ buffer' = {} /\ episodes' = Append(episodes, buffer)
      BY <2>1 DEF SaveSucceeds, SaveFailsLate
    <3> QED BY <3>1, AppendProperties
  <2>2. CASE SaveLock \/ SaveFails \/ Mark
    BY <2>2 DEF SaveLock, SaveFails, Mark
  <2> QED BY <1>4, <2>1, <2>2 DEF Save
<1>5. CASE Closing
  BY <1>1, <1>5 DEF Closing, EnterTail, LeaveManager, Teardown, FinalPush, FinalPushFails
<1>6. CASE Worker
  BY <1>1, <1>6 DEF Worker, Upload, UploadDone, PushStart, PushLock, PushCheck, PushUploads, PushFails, PushDone
<1> QED BY <1>2, <1>3, <1>4, <1>5, <1>6 DEF Next

(* Program counters and counts: their types, who holds the lock, and where *)
(* the modes and the phases can be met.                                    *)
Sched == Scalars /\ LockOwner /\ Places

(* Keys and the loop keep them: the phase only moves along the table.      *)
LEMMA LoopKeepsSched ==
  ASSUME DAggerInv, Keys \/ Loop
  PROVE  Sched'
<1> USE DAggerAssumption
        DEF DAggerInv, Sched, Scalars, LockOwner, Places, InSave, Phases, Events, Goto,
            bookVars, dataVars, inputVars, loopVars, histVars, workerVars
<1>1. CASE Keys
  BY <1>1 DEF Keys, RequestTransition, RequestUpload, RequestStop
<1>2. CASE CheckLoop    BY <1>2 DEF CheckLoop
<1>3. CASE NoTransition BY <1>3 DEF NoTransition, AfterTransition
<1>4. CASE ConsumeTransition \/ TransitionFails
  <2>1. /\ phase' = Transition(phase, request) /\ phase' \in Phases
        /\ phase = "CORRECTING" => phase' = "PAUSED"
    BY <1>4 DEF Transition, ConsumeTransition, TransitionFails
  <2> QED BY <1>4, <2>1 DEF ConsumeTransition, TransitionFails, AfterTransition, EndsCorrection
<1>5. CASE OnDemandUpload BY <1>5 DEF OnDemandUpload, BackgroundPush, SubmitPush
<1>6. CASE Act
  <2>1. (tick + 1) % Stride \in 0..(Stride - 1)
    OBVIOUS
  <2> QED BY <1>6, <2>1 DEF Act
<1>7. CASE ActFails     BY <1>7 DEF ActFails
<1>8. CASE Rotate       BY <1>8 DEF Rotate
<1>9. CASE Push         BY <1>9 DEF Push, BackgroundPush, SubmitPush
<1> QED BY <1>1, <1>2, <1>3, <1>4, <1>5, <1>6, <1>7, <1>8, <1>9 DEF Loop

(* Saves, the end and the upload thread keep them: the lock has one owner. *)
LEMMA RestKeepsSched ==
  ASSUME DAggerInv, Save \/ Closing \/ Worker
  PROVE  Sched'
<1> USE DAggerAssumption
        DEF DAggerInv, Sched, Scalars, LockOwner, Places, InSave, Phases, Events, Goto,
            bookVars, dataVars, inputVars, loopVars, histVars, workerVars
<1>1. CASE SaveLock     BY <1>1 DEF SaveLock
<1>2. CASE SaveSucceeds BY <1>2 DEF SaveSucceeds
<1>3. CASE SaveFails \/ SaveFailsLate
  BY <1>3 DEF SaveFails, SaveFailsLate
<1>4. CASE Mark         BY <1>4 DEF Mark
<1>5. CASE Closing
  BY <1>5 DEF Closing, EnterTail, LeaveManager, Teardown, Drained, FinalPush, FinalPushFails
<1>6. CASE Worker
  BY <1>6 DEF Worker, Upload, UploadDone, PushStart, PushLock, PushCheck, PushUploads, PushFails, PushDone
<1> QED BY <1>1, <1>2, <1>3, <1>4, <1>5, <1>6 DEF Save

-----------------------------------------------------------------------------
(* What the Hub has.                                                       *)

Owed == Bookkeeping /\ UnpushedRemembered

(* No episode is committed between an upload and the clearing of           *)
(* _needs_push: both threads would hold the lock.                          *)
LEMMA NextKeepsOwed ==
  ASSUME DAggerInv, Next
  PROVE  Owed'
<1> USE DEF Owed, Bookkeeping, UnpushedRemembered, Saved
<1>1. /\ Len(episodes) \in Nat /\ hub.episodes \in Nat /\ hub.episodes <= Len(episodes)
      /\ wpc = "clear" => hub.episodes = Len(episodes)
      /\ late => broken
  BY LenProperties DEF DAggerInv, Data
<1>2. hub.episodes < Saved => needsPush \/ pc = "mark"
  BY DEF DAggerInv
<1>3. CASE Keys
  <2>1. UNCHANGED <<hub, episodes, needsPush, pc, wpc, late, broken>>
    BY <1>3 DEF Keys, RequestTransition, RequestUpload, RequestStop, loopVars, bookVars, dataVars, histVars, workerVars
  <2> QED BY <1>1, <1>2, <2>1
<1>4. CASE Loop
  <2>1. UNCHANGED <<hub, episodes, needsPush, wpc, late, broken>> /\ pc # "mark"
    BY <1>4 DEF Loop, CheckLoop, NoTransition, ConsumeTransition, TransitionFails, OnDemandUpload, Act,
       ActFails, Rotate, Push, BackgroundPush, SubmitPush, Goto, bookVars, dataVars, histVars, workerVars
  <2> QED BY <1>1, <1>2, <2>1
<1>5. CASE SaveSucceeds \/ SaveFailsLate
  <2>1. /\ pc = "saving" /\ ~broken /\ UNCHANGED <<hub, wpc, needsPush>>
        /\ \/ pc' = "mark" /\ UNCHANGED <<late, broken>>
           \/ late' = TRUE /\ broken' = TRUE
    BY <1>5 DEF SaveSucceeds, SaveFailsLate, Goto, bookVars, histVars
  <2>2. Len(episodes') = Len(episodes) + 1
    <3>1. episodes \in Seq(SUBSET Nat) /\ buffer \in SUBSET Nat /\ episodes' = Append(episodes, buffer)
      BY <1>5 DEF SaveSucceeds, SaveFailsLate, DAggerInv, Data
    <3> QED BY <3>1, AppendProperties
  <2>3. wpc # "clear"
    BY <2>1 DEF DAggerInv, LockOwner
  <2> QED BY <1>1, <1>2, <2>1, <2>2, <2>3
<1>6. CASE SaveLock \/ SaveFails
  <2>1. UNCHANGED <<hub, episodes, needsPush, wpc, late>> /\ pc # "mark"
    BY <1>6 DEF SaveLock, SaveFails, Goto, bookVars, dataVars, histVars
  <2>2. broken => broken'
    BY <1>6, Zenon DEF SaveLock, SaveFails, dataVars
  <2> QED BY <1>1, <1>2, <2>1, <2>2
<1>7. CASE Mark
  <2>1. UNCHANGED <<hub, episodes, wpc, late, broken>> /\ needsPush'
    BY <1>7 DEF Mark, dataVars, histVars, workerVars
  <2> QED BY <1>1, <2>1
<1>8. CASE EnterTail \/ LeaveManager \/ Teardown \/ FinalPushFails
  <2>1. UNCHANGED <<hub, episodes, needsPush, wpc, late, broken>> /\ pc # "mark"
    BY <1>8 DEF EnterTail, LeaveManager, Teardown, FinalPushFails, Goto, bookVars, dataVars, histVars, workerVars
  <2> QED BY <1>1, <1>2, <2>1
<1>9. CASE FinalPush
  <2>1. hub'.episodes = Len(episodes) /\ UNCHANGED <<episodes, wpc, late, broken>>
    BY <1>9 DEF FinalPush, HubCopy, dataVars, histVars
  <2> QED BY <1>1, <2>1
<1>10. CASE Upload
  <2>1. UNCHANGED <<episodes, needsPush, pc, late, broken>>
    BY <1>10 DEF Upload, loopVars, bookVars, dataVars, histVars
  <2>2. CASE PushUploads(Len(episodes), finalized)
    <3>1. hub'.episodes = Len(episodes)
      BY <2>2 DEF PushUploads, HubCopy
    <3> QED BY <1>1, <2>1, <3>1
  <2>3. CASE PushStart \/ PushLock \/ PushCheck(Len(episodes)) \/ PushFails
    <3>1. hub' = hub /\ wpc' # "clear"
      BY <2>3 DEF PushStart, PushLock, PushCheck, PushFails
    <3> QED BY <1>1, <1>2, <2>1, <3>1
  <2> QED BY <1>10, <2>2, <2>3 DEF Upload
<1>11. CASE UploadDone
  <2>1. UNCHANGED <<hub, episodes, late, broken>> /\ wpc = "clear" /\ wpc' = "idle"
    BY <1>11 DEF UploadDone, PushDone, dataVars, histVars
  <2> QED BY <1>1, <2>1
<1> QED BY <1>3, <1>4, <1>5, <1>6, <1>7, <1>8, <1>9, <1>10, <1>11 DEF Next, Save, Closing, Worker

-----------------------------------------------------------------------------
(* Where the corrections are.                                              *)

Whole == Frames /\ CorrectionsStayWhole

(* A frame is recorded in the tick that looked at the phase: an action of  *)
(* the loop, in the correction going on or in none.                        *)
LEMMA ActKeepsCorrections ==
  ASSUME DAggerInv, Act
  PROVE  Whole' /\ Accounted'
<1>1. /\ pc = "act" /\ pc' \in {"rotate", "check"}
      /\ UNCHANGED <<mode, phase, episodes, corrections, failed, back>>
      /\ mode = "corrections" => pc' = "check"
  BY DEF Act, Goto, histVars
<1>2. /\ mode \in {"continuous", "corrections"} /\ phase \in Phases /\ corrections \in Nat
      /\ buffer \subseteq 0..corrections /\ Len(episodes) \in Nat
  BY LenProperties DEF DAggerInv, Scalars, Frames, Data
<1>3. buffer' = buffer \/ buffer' = buffer \cup {FrameNow}
  BY DEF Act
<1>4. phase = "CORRECTING" => \A i \in 1..Len(episodes) : corrections \notin episodes[i]
  BY <1>1 DEF DAggerInv, Frames
<1>5. Frames'
  <2>1. FrameNow \in 0..corrections
    BY <1>2 DEF FrameNow
  <2>2. buffer' \subseteq 0..corrections
    BY <1>2, <1>3, <2>1
  <2>3. \A i \in 1..Len(episodes) : episodes[i] \subseteq 0..corrections
    BY DEF DAggerInv, Frames
  <2> QED BY <1>1, <1>4, <2>2, <2>3, Zenon DEF Frames
<1>6. CorrectionsStayWhole'
  <2>1. ASSUME NEW c \in 1..corrections, c \in buffer' PROVE \A i \in 1..Len(episodes) : c \notin episodes[i]
    <3>1. CASE c \in buffer
      BY <3>1 DEF DAggerInv, CorrectionsStayWhole
    <3>2. CASE c \notin buffer
      <4>1. c = corrections /\ phase = "CORRECTING"
        BY <1>3, <2>1, <3>2 DEF FrameNow
      <4> QED BY <1>4, <4>1
    <3> QED BY <3>1, <3>2
  <2> QED BY <1>1, <2>1, Zenon DEF DAggerInv, CorrectionsStayWhole
<1>7. Accounted'
  <2> SUFFICES ASSUME mode = "corrections" PROVE Accounted'
    BY <1>1 DEF Accounted
  <2>1. CASE phase = "CORRECTING"
    <3>1. buffer = {corrections} \/ (tick = 0 /\ Len(episodes) + 1 = corrections)
      BY <1>1, <2>1 DEF DAggerInv, Accounted
    <3>2. buffer = {} \/ buffer = {corrections}
      BY DEF DAggerInv, Accounted
    <3>3. buffer' = {corrections}
      <4>1. CASE buffer = {corrections}
        BY <1>3, <2>1, <4>1 DEF FrameNow
      <4>2. CASE tick = 0 /\ buffer = {}
        BY <2>1, <4>2 DEF Act, Records, FrameNow
      <4> QED BY <3>1, <3>2, <4>1, <4>2
    <3> QED BY <1>1, <1>2, <2>1, <3>1, <3>2, <3>3 DEF DAggerInv, Accounted
  <2>2. CASE phase # "CORRECTING"
    <3>1. buffer' = buffer
      BY <2>2 DEF Act, Records
    <3> QED BY <1>1, <1>2, <2>2, <3>1 DEF DAggerInv, Accounted
  <2> QED BY <2>1, <2>2
<1> QED BY <1>5, <1>6, <1>7 DEF Whole

(* A saved buffer becomes the next episode, even if the save raises then.  *)
LEMMA SaveKeepsCorrections ==
  ASSUME DAggerInv, SaveSucceeds \/ SaveFailsLate
  PROVE  Whole' /\ Accounted'
<1>1. /\ pc = "saving" /\ pc' \in {"mark", "tail", "exit"}
      /\ UNCHANGED <<mode, phase, corrections, back, tick>>
      /\ buffer # {} /\ buffer' = {} /\ episodes' = Append(episodes, buffer)
  BY DEF SaveSucceeds, SaveFailsLate, Goto, bookVars, histVars
<1>2. /\ Len(episodes) \in Nat /\ Len(episodes') = Len(episodes) + 1 /\ corrections \in Nat
      /\ \A i \in 1..Len(episodes) : episodes'[i] = episodes[i]
      /\ episodes'[Len(episodes) + 1] = buffer
      /\ buffer \subseteq 0..corrections
  <2>1. episodes \in Seq(SUBSET Nat) /\ buffer \in SUBSET Nat
    BY DEF DAggerInv, Data
  <2> QED BY <1>1, <2>1, LenProperties, AppendProperties DEF DAggerInv, Scalars, Frames
<1>3. ASSUME NEW i \in 1..Len(episodes')
      PROVE  i \in 1..Len(episodes) \/ i = Len(episodes) + 1
  BY <1>2
<1>4. Frames'
  BY <1>1, <1>2, <1>3 DEF DAggerInv, Frames
<1>5. CorrectionsStayWhole'
  <2>1. ASSUME NEW c \in 1..corrections, NEW i \in 1..Len(episodes'), NEW j \in 1..Len(episodes'),
               c \in episodes'[i], c \in episodes'[j]
        PROVE  i = j
    <3>1. c \in buffer => \A k \in 1..Len(episodes) : c \notin episodes[k]
      BY DEF DAggerInv, CorrectionsStayWhole
    <3>2. \A k, l \in 1..Len(episodes) : c \in episodes[k] /\ c \in episodes[l] => k = l
      BY DEF DAggerInv, CorrectionsStayWhole
    <3> QED BY <1>2, <1>3, <2>1, <3>1, <3>2
  <2> QED BY <1>1, <2>1 DEF CorrectionsStayWhole
<1>6. Accounted'
  <2> SUFFICES ASSUME mode = "corrections" PROVE Accounted'
    BY <1>1 DEF Accounted
  <2>1. /\ buffer = {corrections} /\ Len(episodes) + 1 = corrections
        /\ \A i \in 1..Len(episodes) : episodes[i] = {i}
    BY <1>1 DEF DAggerInv, Accounted
  <2>2. \A i \in 1..Len(episodes') : episodes'[i] = {i}
    BY <1>2, <1>3, <2>1
  <2> QED BY <1>1, <1>2, <2>1, <2>2 DEF Accounted
<1> QED BY <1>4, <1>5, <1>6 DEF Whole

(* A correction that begins has a number of its own; one that ends goes to *)
(* the save with its frames.                                               *)
LEMMA TransitionKeepsCorrections ==
  ASSUME DAggerInv, ConsumeTransition \/ TransitionFails
  PROVE  Whole' /\ Accounted'
<1>1. /\ pc = "consume" /\ UNCHANGED <<mode, episodes, buffer>>
      /\ phase' = Transition(phase, request)
      /\ corrections' = IF phase' = "CORRECTING" THEN corrections + 1 ELSE corrections
  BY DEF ConsumeTransition, TransitionFails, Goto, dataVars
<1>2. /\ phase = "CORRECTING" => phase' = "PAUSED"
      /\ phase' \in Phases /\ corrections \in Nat /\ Len(episodes) \in Nat
      /\ buffer \subseteq 0..corrections
      /\ \A i \in 1..Len(episodes) : episodes[i] \subseteq 0..corrections
  <2>1. request # "none" => phase' \in Phases /\ (phase = "CORRECTING" => phase' = "PAUSED")
    BY <1>1 DEF DAggerInv, Places, Scalars, Transition, Phases, Events
  <2>2. request # "none"
    BY DEF ConsumeTransition, TransitionFails
  <2> QED BY <2>1, <2>2, LenProperties DEF DAggerInv, Scalars, Data, Frames
<1>3. \/ corrections' = corrections
      \/ /\ corrections' = corrections + 1 /\ corrections' \notin buffer
         /\ \A i \in 1..Len(episodes) : corrections' \notin episodes[i]
  BY <1>1, <1>2
<1>4. Frames'
  <2>1. buffer' \subseteq 0..corrections' /\ \A i \in 1..Len(episodes') : episodes'[i] \subseteq 0..corrections'
    BY <1>1, <1>2
  <2>2. phase' = "CORRECTING" => \A i \in 1..Len(episodes') : corrections' \notin episodes'[i]
    BY <1>1, <1>2
  <2> QED BY <2>1, <2>2 DEF Frames
<1>5. CorrectionsStayWhole'
  <2>1. ASSUME NEW c \in 1..corrections'
        PROVE  /\ \A i, j \in 1..Len(episodes) : c \in episodes[i] /\ c \in episodes[j] => i = j
               /\ c \in buffer => \A i \in 1..Len(episodes) : c \notin episodes[i]
    <3>1. CASE c \in 1..corrections
      BY <3>1 DEF DAggerInv, CorrectionsStayWhole
    <3>2. CASE c = corrections'
      BY <1>2, <1>3, <3>2 DEF DAggerInv, CorrectionsStayWhole
    <3> QED BY <1>2, <1>3, <3>1, <3>2
  <2> QED BY <1>1, <2>1, Zenon DEF CorrectionsStayWhole
<1>6. Accounted'
  <2> SUFFICES ASSUME mode = "corrections" PROVE Accounted'
    BY <1>1 DEF Accounted
  <2>1. /\ \A i \in 1..Len(episodes) : episodes[i] = {i}
        /\ phase = "CORRECTING" => buffer = {corrections} /\ Len(episodes) + 1 = corrections
        /\ phase # "CORRECTING" => buffer = {} /\ Len(episodes) = corrections
    BY <1>1, <1>2 DEF DAggerInv, Accounted
  <2>2. CASE phase = "CORRECTING"
    <3>1. phase' = "PAUSED" /\ corrections' = corrections
      BY <1>1, <1>2, <2>2
    <3>2. (pc' = "save" /\ back' = "upload") \/ pc' = "tail"
      BY <2>2 DEF ConsumeTransition, TransitionFails, EndsCorrection, Goto
    <3> QED BY <1>1, <1>2, <2>1, <2>2, <3>1, <3>2 DEF Accounted
  <2>3. CASE phase # "CORRECTING"
    <3>1. (pc' = "upload" /\ (phase' = "CORRECTING" => tick' = 0)) \/ pc' = "tail"
      BY <2>3 DEF ConsumeTransition, TransitionFails, EndsCorrection, AfterTransition, Goto
    <3> QED BY <1>1, <1>2, <2>1, <2>3, <3>1 DEF Accounted
  <2> QED BY <2>2, <2>3
<1> QED BY <1>4, <1>5, <1>6 DEF Whole

(* Every other step leaves the frames where they are, and moves the        *)
(* control thread where what the places say of them still holds.           *)
LEMMA QuietKeepsCorrections ==
  ASSUME DAggerInv,
         UNCHANGED <<mode, phase, episodes, buffer, corrections, tick>>,
         failed => failed',
         \/ UNCHANGED <<pc, back>>
         \/ pc = "check" /\ pc' \in {"consume", "tail"}
         \/ pc = "consume" /\ pc' \in {"upload", "act"}
         \/ pc \in {"upload", "act"} /\ pc' \in {"act", "tail"}
         \/ pc \in {"rotate", "push"}
         \/ pc = "save" /\ pc' = "saving" /\ back' = back
         \/ pc = "mark" /\ pc' = (IF back = "check" THEN "push" ELSE back)
         \/ pc' \in {"save"} /\ back' = "exit"
         \/ pc' \in {"tail", "exit", "drain", "final", "done", "raised"}
  PROVE  Whole' /\ Accounted'
<1>1. mode \in {"continuous", "corrections"} /\ back \in {"check", "upload", "exit"}
  BY DEF DAggerInv, Scalars
<1>2. /\ pc \in {"rotate", "push"} => mode = "continuous" /\ phase # "CORRECTING"
      /\ pc = "mark" /\ back # "exit" => phase # "CORRECTING"
      /\ pc = "mark" /\ back = "check" => mode = "continuous"
  BY DEF DAggerInv, Places, InSave, Scalars
<1>3. CorrectionsStayWhole'
  BY Zenon DEF DAggerInv, CorrectionsStayWhole
<1>4. Frames'
  <2>1. phase = "CORRECTING" /\ pc' \in {"check", "consume", "upload", "act"} =>
          pc \in {"check", "consume", "upload", "act"}
    BY <1>1, <1>2
  <2> QED BY <2>1, Zenon DEF DAggerInv, Frames
<1>5. Accounted'
  <2> SUFFICES ASSUME mode = "corrections" PROVE Accounted'
    BY DEF Accounted
  <2> QED BY <1>1, <1>2 DEF DAggerInv, Accounted
<1> QED BY <1>3, <1>4, <1>5 DEF Whole

(* Every step keeps the corrections whole and accounted for.               *)
LEMMA NextKeepsCorrections ==
  ASSUME DAggerInv, Next
  PROVE  Whole' /\ Accounted'
<1> USE DEF Goto, bookVars, dataVars, inputVars, loopVars, histVars
<1>1. CASE Keys \/ Worker
  <2>1. UNCHANGED <<mode, phase, episodes, buffer, corrections, tick, failed, pc, back>>
    BY <1>1 DEF Keys, RequestTransition, RequestUpload, RequestStop, Worker, Upload, UploadDone
  <2> QED BY <2>1, QuietKeepsCorrections
<1>2. CASE ConsumeTransition \/ TransitionFails
  BY <1>2, TransitionKeepsCorrections
<1>3. CASE Act
  BY <1>3, ActKeepsCorrections
<1>4. CASE SaveSucceeds \/ SaveFailsLate
  BY <1>4, SaveKeepsCorrections
<1>5. CASE CheckLoop
  BY <1>5, QuietKeepsCorrections DEF CheckLoop
<1>6. CASE NoTransition
  BY <1>6, QuietKeepsCorrections DEF NoTransition, AfterTransition
<1>7. CASE OnDemandUpload
  BY <1>7, QuietKeepsCorrections DEF OnDemandUpload
<1>8. CASE ActFails
  BY <1>8, QuietKeepsCorrections DEF ActFails
<1>9. CASE Rotate \/ Push
  BY <1>9, QuietKeepsCorrections DEF Rotate, Push
<1>10. CASE SaveLock
  BY <1>10, QuietKeepsCorrections DEF SaveLock
<1>11. CASE SaveFails
  <2>1. /\ UNCHANGED <<mode, phase, episodes, buffer, corrections, tick>> /\ pc' \in {"exit", "tail"}
        /\ failed => failed'
    BY <1>11, Zenon DEF SaveFails
  <2> QED BY <2>1, QuietKeepsCorrections, Zenon
<1>12. CASE Mark
  BY <1>12, QuietKeepsCorrections DEF Mark
<1>13. CASE EnterTail
  BY <1>13, QuietKeepsCorrections DEF EnterTail
<1>14. CASE LeaveManager \/ Teardown \/ FinalPush \/ FinalPushFails
  BY <1>14, QuietKeepsCorrections DEF LeaveManager, Teardown, FinalPush, FinalPushFails
<1> QED BY <1>1, <1>2, <1>3, <1>4, <1>5, <1>6, <1>7, <1>8, <1>9, <1>10, <1>11, <1>12, <1>13, <1>14
     DEF Next, Loop, Save, Closing

-----------------------------------------------------------------------------
(* Every step keeps the invariant.                                         *)
LEMMA DAggerInvKept ==
  ASSUME DAggerInv, [Next]_vars
  PROVE  DAggerInv'
<1>1. CASE Next
  <2>1. Flags' /\ Data'
    BY <1>1, FlagsTyped, DataTyped DEF DAggerInv
  <2>2. Sched'
    BY <1>1, LoopKeepsSched, RestKeepsSched DEF Next
  <2>3. Owed' /\ Whole' /\ Accounted'
    BY <1>1, NextKeepsOwed, NextKeepsCorrections
  <2> QED BY <2>1, <2>2, <2>3, Zenon DEF DAggerInv, Sched, Owed, Whole
<1>2. CASE UNCHANGED vars
  <2> USE <1>2 DEF vars, loopVars, bookVars, dataVars, inputVars, histVars, workerVars
  <2>1. Flags' /\ Data'
    BY Zenon DEF DAggerInv, Flags, Data
  <2>2. Sched'
    BY DEF DAggerInv, Sched, Scalars, LockOwner, Places, InSave
  <2>3. Owed'
    BY Zenon DEF DAggerInv, Owed, Bookkeeping, UnpushedRemembered, Saved
  <2>4. Whole' /\ Accounted'
    BY QuietKeepsCorrections, Zenon
  <2> QED BY <2>1, <2>2, <2>3, <2>4, Zenon DEF DAggerInv, Sched, Owed, Whole
<1> QED BY <1>1, <1>2

(* DAggerInv holds in every reachable state of DAggerStrategy.             *)
THEOREM DAggerInductive == Spec => []DAggerInv
<1>1. Init => DAggerInv
  BY InitEstablishesDAggerInv
<1>2. DAggerInv /\ [Next]_vars => DAggerInv'
  BY DAggerInvKept
<1> QED BY <1>1, <1>2, PTL DEF Spec

(* Every variable keeps its type: corrections never pass num_episodes, the *)
(* upload counter never passes upload_every_n_episodes.                    *)
THEOREM DAggerTypeCorrect == Spec => []TypeOK
<1>1. DAggerInv => TypeOK
  BY Zenon DEF DAggerInv, TypeOK, WorkerTypeOK, Flags, Scalars, Data
<1> QED BY <1>1, DAggerInductive, PTL

(* A correction is never split over two episodes, nor half saved and half  *)
(* buffered, whatever rotates, fails or stops meanwhile.                   *)
THEOREM CorrectionsWhole == Spec => []CorrectionsStayWhole
<1>1. DAggerInv => CorrectionsStayWhole
  BY DEF DAggerInv
<1> QED BY <1>1, DAggerInductive, PTL

(* Corrections mode: a correction that has ended is an episode of its own, *)
(* and the save at its end never meets an empty buffer.                    *)
THEOREM EndedCorrectionSaved == Spec => []EndedCorrectionIsSaved
<1>1. DAggerInv => EndedCorrectionIsSaved
  BY DEF DAggerInv, Accounted, EndedCorrectionIsSaved
<1> QED BY <1>1, DAggerInductive, PTL

(* _needs_push remembers what the Hub lacks, however the saves of the      *)
(* control thread and the uploads of the worker interleave.                *)
THEOREM DAggerUnpushedRemembered == Spec => []UnpushedRemembered
<1>1. DAggerInv => UnpushedRemembered
  BY DEF DAggerInv
<1> QED BY <1>1, DAggerInductive, PTL

-----------------------------------------------------------------------------
(* The composition: the part that runs keeps its invariant, and the files  *)
(* keep theirs while another part runs.                                    *)

HP == INSTANCE HighlightStrategy_proofs WITH buffer <- clip, episodes <- clips
FP == INSTANCE DatasetFiles_proofs

RecordingInv ==
  /\ part \in {"dagger", "highlight", "files"}
  /\ part = "dagger" => DAggerInv
  /\ part = "highlight" => HP!HighlightInv
  /\ FP!FilesInv

(* The assumption of DatasetLayout, as the proofs of DatasetFiles see it.  *)
LEMMA FilesAssumption ==
  /\ ChunkSize \in Nat \ {0} /\ BufferSize \in Nat \ {0} /\ Lengths \subseteq Nat \ {0}
  /\ None \notin FP!File /\ None \notin FP!EpisodeRow
BY LayoutAssumption DEF File, EpisodeRow, FP!File, FP!EpisodeRow

(* The steps of the two parts are those their proofs are about.            *)
LEMMA SameHighlight == H!Next => HP!Next
<1>1. H!Keys => HP!Keys
  BY Zenon
  DEF H!Keys, HP!Keys, H!PressSave, HP!PressSave, H!PressPush, HP!PressPush, H!PressEscape,
      HP!PressEscape, H!keyVars, HP!keyVars, H!recVars, HP!recVars, H!dataVars, HP!dataVars,
      H!workerVars, HP!workerVars
<1>2. H!Loop => HP!Loop
  BY Zenon
  DEF H!Loop, HP!Loop, H!CheckLoop, HP!CheckLoop, H!TickFails, HP!TickFails, H!Tick, HP!Tick,
      H!SeeToggle, HP!SeeToggle, H!ClearToggle, HP!ClearToggle, H!FlushRing, HP!FlushRing,
      H!FlushFails, HP!FlushFails, H!StoreFrame, HP!StoreFrame, H!Goto, HP!Goto, H!SubmitPush,
      HP!SubmitPush, H!EmptyRing, HP!EmptyRing, H!AppendFrame, HP!AppendFrame, H!Pushed,
      HP!Pushed, H!Evicted, HP!Evicted, H!keyVars, HP!keyVars, H!recVars, HP!recVars, H!dataVars,
      HP!dataVars, H!workerVars, HP!workerVars
<1>3. H!Save => HP!Save
  BY Zenon
  DEF H!Save, HP!Save, H!SaveLock, HP!SaveLock, H!SaveSucceeds, HP!SaveSucceeds, H!SaveFails,
      HP!SaveFails, H!StopLive, HP!StopLive, H!Goto, HP!Goto, H!keyVars, HP!keyVars, H!recVars,
      HP!recVars, H!dataVars, HP!dataVars, H!workerVars, HP!workerVars
<1>4. H!Closing => HP!Closing
  BY Zenon
  DEF H!Closing, HP!Closing, H!EnterTail, HP!EnterTail, H!LeaveManager, HP!LeaveManager,
      H!Teardown, HP!Teardown, H!FinalPush, HP!FinalPush, H!FinalPushFails, HP!FinalPushFails,
      H!Goto, HP!Goto, H!Drained, HP!Drained, H!HubCopy, HP!HubCopy, H!keyVars, HP!keyVars,
      H!recVars, HP!recVars, H!dataVars, HP!dataVars, H!workerVars, HP!workerVars
<1>5. H!Upload => HP!Upload
  BY Zenon
  DEF H!Upload, HP!Upload, H!PushStart, HP!PushStart, H!PushLock, HP!PushLock, H!PushCheck,
      HP!PushCheck, H!PushUploads, HP!PushUploads, H!PushFails, HP!PushFails, H!PushDone,
      HP!PushDone, H!HubCopy, HP!HubCopy, H!keyVars, HP!keyVars, H!recVars, HP!recVars,
      H!dataVars, HP!dataVars, H!workerVars, HP!workerVars
<1> QED BY <1>1, <1>2, <1>3, <1>4, <1>5 DEF H!Next, HP!Next

LEMMA SameFiles == F!Next => FP!Next
<1>1. F!BeginSave => FP!BeginSave
  BY Zenon
  DEF F!BeginSave, FP!BeginSave, F!Goto, FP!Goto, F!dataVars, FP!dataVars, F!metaVars,
      FP!metaVars, F!histVars, FP!histVars
<1>2. F!SaveData => FP!SaveData
  BY Zenon
  DEF F!SaveData, FP!SaveData, F!Goto, FP!Goto, F!SessionFile, FP!SessionFile, F!NextFile,
      FP!NextFile, F!FirstFile, FP!FirstFile, F!Put, FP!Put, F!dataVars, FP!dataVars, F!metaVars,
      FP!metaVars, F!histVars, FP!histVars
<1>3. F!SaveVideo => FP!SaveVideo
  BY Zenon
  DEF F!SaveVideo, FP!SaveVideo, F!Goto, FP!Goto, F!SessionFile, FP!SessionFile, F!NextFile,
      FP!NextFile, F!FirstFile, FP!FirstFile, F!Put, FP!Put, F!dataVars, FP!dataVars, F!metaVars,
      FP!metaVars, F!histVars, FP!histVars
<1>4. F!RollOver => FP!RollOver
  BY Zenon
  DEF F!RollOver, FP!RollOver, F!Goto, FP!Goto, F!SessionFile, FP!SessionFile, F!NextFile,
      FP!NextFile, F!FirstFile, FP!FirstFile, F!Put, FP!Put, F!RowAt, FP!RowAt,
      F!SetMetaWriter, FP!SetMetaWriter, F!Closed, FP!Closed, F!Flushed, FP!Flushed,
      F!MetaWriter, FP!MetaWriter, F!dataVars, FP!dataVars, F!histVars, FP!histVars
<1>5. F!BufferRow => FP!BufferRow
  BY Zenon
  DEF F!BufferRow, FP!BufferRow, F!Goto, FP!Goto, F!dataVars, FP!dataVars, F!histVars,
      FP!histVars
<1>6. F!FlushFull => FP!FlushFull
  BY Zenon
  DEF F!FlushFull, FP!FlushFull, F!Goto, FP!Goto, F!SetMetaWriter, FP!SetMetaWriter, F!Flushed,
      FP!Flushed, F!MetaWriter, FP!MetaWriter, F!Put, FP!Put, F!dataVars, FP!dataVars,
      F!histVars, FP!histVars
<1>7. F!CountEpisode \/ F!FinishSave => FP!CountEpisode \/ FP!FinishSave
  BY Zenon
  DEF F!CountEpisode, FP!CountEpisode, F!FinishSave, FP!FinishSave, F!Goto, FP!Goto, F!dataVars,
      FP!dataVars, F!metaVars, FP!metaVars, F!histVars, FP!histVars
<1>8. F!SaveFails => FP!SaveFails
  BY Zenon
  DEF F!SaveFails, FP!SaveFails, F!dataVars, FP!dataVars, F!metaVars, FP!metaVars
<1>9. F!Finalize => FP!Finalize
  BY Zenon
  DEF F!Finalize, FP!Finalize, F!SetMetaWriter, FP!SetMetaWriter, F!Closed, FP!Closed, F!Flushed,
      FP!Flushed, F!MetaWriter, FP!MetaWriter, F!Put, FP!Put, F!histVars, FP!histVars
<1>10. F!FinalizeFails => FP!FinalizeFails
  BY Zenon
  DEF F!FinalizeFails, FP!FinalizeFails, F!SetMetaWriter, FP!SetMetaWriter, F!Flushed,
      FP!Flushed, F!MetaWriter, FP!MetaWriter, F!Put, FP!Put, F!histVars, FP!histVars
<1>11. F!Resume => FP!Resume
  BY Zenon
  DEF F!Resume, FP!Resume, F!Goto, FP!Goto, F!LastFile, FP!LastFile, F!Before, FP!Before,
      F!histVars, FP!histVars
<1> QED BY <1>1, <1>2, <1>3, <1>4, <1>5, <1>6, <1>7, <1>8, <1>9, <1>10, <1>11
     DEF F!Next, FP!Next, F!SaveEpisode, FP!SaveEpisode, F!SaveMetadata, FP!SaveMetadata

(* What the strategies and the files promise initially.                    *)
LEMMA RecordingInitInv ==
  ASSUME RecordingInit
  PROVE  RecordingInv
<1>1. FP!Init
  BY DEF RecordingInit, F!Init, FP!Init
<1>2. FP!FilesInv
  BY <1>1, FilesAssumption, FP!FilesInit
<1>3. part = "dagger" => DAggerInv
  BY InitEstablishesDAggerInv DEF RecordingInit
<1>4. part = "highlight" => HP!HighlightInv
  <2>1. part = "highlight" => HP!Init
    BY DEF RecordingInit, H!Init, H!WorkerInit, H!EmptyRing, HP!Init, HP!WorkerInit, HP!EmptyRing
  <2>2. QED BY <2>1, RingAssumption, HP!InitEstablishesHighlightInv
<1>5. part \in {"dagger", "highlight", "files"}
  BY DEF RecordingInit
<1>6. QED BY <1>2, <1>3, <1>4, <1>5 DEF RecordingInv

(* A step of the strategy that runs is one of its own specification.       *)
LEMMA RecordingInvKept ==
  ASSUME RecordingInv, [RecordingNext]_allVars
  PROVE  RecordingInv'
<1>1. part' = part
  BY DEF RecordingNext, DAggerStep, HighlightStep, FilesStep, allVars
<1>2. FP!FilesInv'
  <2>1. [FP!Next]_FP!vars
    <3>1. CASE FilesStep
      BY <3>1, SameFiles DEF FilesStep
    <3>2. CASE DAggerStep \/ HighlightStep \/ UNCHANGED allVars
      <4>1. UNCHANGED filesOnly
        BY <3>2 DEF DAggerStep, HighlightStep, allVars
      <4>2. QED BY <4>1 DEF filesOnly, FP!vars, FP!dataVars, FP!metaVars, FP!histVars
    <3>3. QED BY <3>1, <3>2 DEF RecordingNext
  <2>2. FP!FilesInv
    BY DEF RecordingInv
  <2>3. QED BY <2>1, <2>2, FilesAssumption, FP!FilesInvKept
<1>3. part' = "dagger" => DAggerInv'
  <2> SUFFICES ASSUME part = "dagger" PROVE DAggerInv'
    BY <1>1
  <2>1. [Next]_vars
    <3>1. CASE DAggerStep
      BY <3>1 DEF DAggerStep
    <3>2. CASE UNCHANGED allVars
      BY <3>2 DEF allVars, daggerOnly, shared, vars, loopVars, inputVars, histVars, dataVars
    <3>3. QED BY <3>1, <3>2 DEF RecordingNext, HighlightStep, FilesStep
  <2>2. QED BY <2>1, DAggerInvKept DEF RecordingInv
<1>4. part' = "highlight" => HP!HighlightInv'
  <2> SUFFICES ASSUME part = "highlight" PROVE HP!HighlightInv'
    BY <1>1
  <2>1. [HP!Next]_HP!vars
    <3>1. CASE HighlightStep
      BY <3>1, SameHighlight DEF HighlightStep
    <3>2. CASE UNCHANGED allVars
      BY <3>2 DEF allVars, highlightOnly, shared, workerVars, HP!vars, HP!keyVars, HP!recVars,
                  HP!dataVars, HP!workerVars
    <3>3. QED BY <3>1, <3>2 DEF RecordingNext, DAggerStep, FilesStep
  <2>2. HP!HighlightInv
    BY DEF RecordingInv
  <2>3. QED BY <2>1, <2>2, RingAssumption, HP!HighlightInvKept
<1>5. QED BY <1>1, <1>2, <1>3, <1>4 DEF RecordingInv

(* RecordingInv holds in every reachable state of the composition.         *)
THEOREM RecordingInductive == RecordingSpec => []RecordingInv
<1>1. RecordingInit => RecordingInv
  BY RecordingInitInv
<1>2. RecordingInv /\ [RecordingNext]_allVars => RecordingInv'
  BY RecordingInvKept
<1> QED BY <1>1, <1>2, PTL DEF RecordingSpec

(* Every variable of the part that runs keeps its type.                    *)
THEOREM RecordingTypeCorrect == RecordingSpec => []RecordingTypeOK
<1>1. RecordingInv => RecordingTypeOK
  <2> SUFFICES ASSUME RecordingInv PROVE RecordingTypeOK
    OBVIOUS
  <2>1. part = "dagger" => TypeOK
    BY Zenon DEF RecordingInv, DAggerInv, TypeOK, WorkerTypeOK, Flags, Scalars, Data
  <2>2. part = "highlight" => H!TypeOK
    <3>1. HP!HighlightInv => HP!Types
      BY DEF HP!HighlightInv
    <3>2. HP!Types => H!TypeOK
      BY Zenon DEF HP!Types, HP!Flags, HP!Counters, HP!Data, H!TypeOK, H!WorkerTypeOK
    <3> QED BY <3>1, <3>2 DEF RecordingInv
  <2>3. F!TypeOK
    <3>1. FP!TypeOK
      BY DEF RecordingInv, FP!FilesInv
    <3>2. FP!File = F!File /\ FP!EpisodeRow = F!EpisodeRow
      BY DEF FP!File, F!File, FP!EpisodeRow, F!EpisodeRow
    <3> QED BY <3>1, <3>2 DEF FP!TypeOK, F!TypeOK
  <2> QED BY <2>1, <2>2, <2>3 DEF RecordingTypeOK, RecordingInv
<1> QED BY <1>1, RecordingInductive, PTL

(* Highlight: every episode is an unbroken stretch of the rollout and no   *)
(* frame is in two of them, whatever is pressed, fails or is uploaded.     *)
THEOREM RecordedStretches == RecordingSpec => []EpisodesAreStretches
<1>1. HP!HighlightInv => H!EpisodesAreStretches
  BY Zenon DEF HP!HighlightInv, HP!EpisodesAre, HP!EpisodesAreStretches, HP!Contiguous,
               H!EpisodesAreStretches, H!Contiguous
<1>2. RecordingInv => EpisodesAreStretches
  BY <1>1 DEF RecordingInv, EpisodesAreStretches
<1> QED BY <1>2, RecordingInductive, PTL

(* Highlight: the ring holds the newest frames, as many as fit both limits *)
(* and for any sizes.                                                      *)
THEOREM RecordedWindow == RecordingSpec => []RingKeepsWindow
<1>1. HP!HighlightInv => HP!RingKeepsWindow
  BY RingAssumption, HP!InvKeepsWindow
<1>2. HP!RingKeepsWindow => H!RingKeepsWindow
  BY Zenon DEF HP!RingKeepsWindow, HP!Smallest, H!RingKeepsWindow, H!Smallest
<1>3. RecordingInv => RingKeepsWindow
  BY <1>1, <1>2 DEF RecordingInv, RingKeepsWindow
<1> QED BY <1>3, RecordingInductive, PTL

(* Whatever rolls over, raises anywhere in a save or is resumed: each      *)
(* episode that info.json counts has one row in the metadata, in order,    *)
(* with its rows and its video where it says they are; any other row is of *)
(* a save that raised after it was buffered and before it was counted.     *)
THEOREM RecordedFilesAgree == RecordingSpec => []FilesMatchMetadata
<1>1. FP!FilesInv => FP!FilesMatchMetadata
  BY DEF FP!FilesInv
<1>2. FP!FilesMatchMetadata => F!FilesMatchMetadata
  <2>1. /\ FP!Listed = F!Listed /\ FP!Committed = F!Committed /\ FP!Slack = F!Slack
        /\ FP!InOrder(metaFiles, FP!Slack) = F!InOrder(metaFiles, F!Slack)
        /\ FP!InOrder(dataFiles, FP!Slack) = F!InOrder(dataFiles, F!Slack)
    BY Zenon DEF FP!Listed, F!Listed, FP!Committed, F!Committed, FP!Pending, F!Pending, FP!Slack,
                 F!Slack, FP!RowsIn, F!RowsIn, FP!RowsOf, F!RowsOf, FP!InOrder, F!InOrder,
                 FP!Before, F!Before
  <2>2. FP!EpisodesInOrder => F!EpisodesInOrder
    BY <2>1, Zenon DEF FP!EpisodesInOrder, F!EpisodesInOrder
  <2>3. FP!DataMatchesMetadata => F!DataMatchesMetadata
    BY <2>1, Zenon DEF FP!DataMatchesMetadata, F!DataMatchesMetadata, FP!RowsIn, F!RowsIn,
                       FP!RowsOf, F!RowsOf, FP!DataOf, F!DataOf
  <2>4. FP!VideoSegmentsTile => F!VideoSegmentsTile
    BY <2>1, Zenon DEF FP!VideoSegmentsTile, F!VideoSegmentsTile
  <2> QED BY <2>2, <2>3, <2>4 DEF FP!FilesMatchMetadata, F!FilesMatchMetadata
<1>3. RecordingInv => FilesMatchMetadata
  BY <1>1, <1>2 DEF RecordingInv, FilesMatchMetadata
<1> QED BY <1>3, RecordingInductive, PTL

(* A finalized dataset has every episode that info.json counts in its      *)
(* files, once, in order and in the file its row names, wherever saves     *)
(* raised before; the rows of those that raised uncounted are the only     *)
(* others.                                                                 *)
THEOREM RecordedIsComplete == RecordingSpec => []FinalizedIsComplete
<1>1. FP!FilesInv => FP!FinalizedIsComplete
  BY FilesAssumption, FP!InvIsComplete
<1>2. FP!FinalizedIsComplete => F!FinalizedIsComplete
  BY Zenon DEF FP!FinalizedIsComplete, FP!RowsIn, FP!RowsOf, FP!InOrder, FP!Before, FP!Slack,
               F!FinalizedIsComplete, F!RowsIn, F!RowsOf, F!InOrder, F!Before, F!Slack
<1>3. RecordingInv => FinalizedIsComplete
  BY <1>1, <1>2 DEF RecordingInv, FinalizedIsComplete
<1> QED BY <1>3, RecordingInductive, PTL

=============================================================================
