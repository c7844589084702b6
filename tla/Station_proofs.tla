---------------------------- MODULE Station_proofs ----------------------------
(***************************************************************************)
(* Proofs about the two parts of a station that records without an         *)
(* operator.                                                               *)
(*                                                                         *)
(* SentryStrategy, for every upload cadence and every bound on the         *)
(* episodes.  One inductive invariant, SentryInv, carries the type         *)
(* invariant and the four safety properties; its parts say who holds the   *)
(* episode lock, what the bookkeeping still owes the Hub, and where the    *)
(* control thread can be once a save has failed.                           *)
(*                                                                         *)
(* Camera, for any number of connections, frames and tolerated failures.   *)
(* The frames readers hold are all different and newer than what they      *)
(* replace (FramesDiffer, OwnFrames); without a reader that has outlived   *)
(* its connection at most one reader is alive (OneReader).                 *)
(***************************************************************************)
EXTENDS SentryStrategy, Camera, TLAPS

(* The lock is held exactly in the two critical sections.                  *)
LockOwner ==
  /\ lock = "control" <=> pc = "saving"
  /\ lock = "worker" <=> wpc \in {"check", "upload", "clear"}

(* Past the drain the worker has nothing left to do.                       *)
WorkerDrained ==
  pc \in {"finalize", "final", "release", "done", "raised"} => wpc = "idle" /\ queued = 0

(* The Hub is never ahead; between an upload and the clearing of           *)
(* _needs_push no episode is committed; a finished teardown owes nothing.  *)
Bookkeeping ==
  /\ pushed <= saved
  /\ wpc = "clear" => pushed = saved
  /\ pc \in {"release", "done"} => pushed = saved \/ poisoned
  /\ pc # "push" => since < UploadEvery
  /\ frames => saved < MaxEpisodes

(* After a failed save the control thread is never near another one.       *)
PoisonStops ==
  poisoned => pc \in {"idle", "tail", "drain", "finalize", "release", "done"}

SentryInv == TypeOK /\ LockOwner /\ WorkerDrained /\ Bookkeeping /\ PoisonStops /\ UnpushedRemembered

-----------------------------------------------------------------------------
(* The initial state satisfies the inductive invariant: nothing recorded,   *)
(* nothing queued, the lock free.                                           *)
LEMMA InitEstablishesSentryInv ==
  ASSUME Init
  PROVE  SentryInv
<1> USE SentryAssumption DEF Init
<1>1. TypeOK
  <2>1. /\ frames \in BOOLEAN /\ needsPush \in BOOLEAN /\ poisoned \in BOOLEAN
        /\ finalized \in BOOLEAN /\ released \in BOOLEAN
        /\ corrupt \in BOOLEAN /\ hubCorrupt \in BOOLEAN
    BY Zenon
  <2>2. queued \in Nat /\ saved \in 0..MaxEpisodes /\ pushed \in 0..MaxEpisodes /\ since \in 0..UploadEvery
    BY SMT
  <2> QED BY <2>1, <2>2, Zenon DEF TypeOK
<1>2. LockOwner /\ WorkerDrained /\ PoisonStops
  BY DEF LockOwner, WorkerDrained, PoisonStops
<1>3. Bookkeeping /\ UnpushedRemembered
  BY DEF Bookkeeping, UnpushedRemembered
<1> QED BY <1>1, <1>2, <1>3 DEF SentryInv

(* Recording keeps the inductive invariant: starting, frames, rotation and  *)
(* the tail of a segment.                                                   *)
LEMMA SegmentKeepsSentryInv ==
  ASSUME SentryInv, StartSegment \/ RecordFrame \/ Rotate \/ EndSegment \/ SaveTail \/ Teardown
  PROVE  SentryInv'
<1> USE SentryAssumption
        DEF SentryInv, TypeOK, LockOwner, WorkerDrained, Bookkeeping, PoisonStops, UnpushedRemembered,
            dataVars, pushVars, bookVars, endVars, Goto
<1>1. CASE StartSegment BY <1>1 DEF StartSegment
<1>2. CASE RecordFrame  BY <1>2 DEF RecordFrame
<1>3. CASE Rotate       BY <1>3 DEF Rotate
<1>4. CASE EndSegment   BY <1>4 DEF EndSegment
<1>5. CASE SaveTail     BY <1>5 DEF SaveTail
<1>6. CASE Teardown     BY <1>6 DEF Teardown
<1> QED BY <1>1, <1>2, <1>3, <1>4, <1>5, <1>6

(* Saving keeps the inductive invariant: the lock is taken only when free,  *)
(* a committed episode is owed until it is registered, a failure poisons.   *)
LEMMA SaveKeepsSentryInv ==
  ASSUME SentryInv, Save
  PROVE  SentryInv'
<1> USE SentryAssumption
        DEF SentryInv, TypeOK, LockOwner, WorkerDrained, Bookkeeping, PoisonStops, UnpushedRemembered,
            dataVars, pushVars, bookVars, endVars, Goto
<1>1. CASE SaveLock        BY <1>1 DEF SaveLock
<1>2. CASE SaveSucceeds
  <2>1. frames
    BY ONLY <1>2, Zenon DEF SaveSucceeds
  <2>2. saved < MaxEpisodes
    BY <2>1
  <2>3. saved' \in 0..MaxEpisodes /\ saved' = saved + 1
    BY <1>2, <2>2 DEF SaveSucceeds
  <2>4. frames' = FALSE
    BY ONLY <1>2, Zenon DEF SaveSucceeds
  <2>5. TypeOK'
    BY <1>2, <2>3, <2>4 DEF SaveSucceeds
  <2>6. LockOwner' /\ WorkerDrained' /\ PoisonStops'
    BY <1>2 DEF SaveSucceeds
  <2>7. Bookkeeping'
    BY <1>2, <2>3, <2>4 DEF SaveSucceeds
  <2>8. UnpushedRemembered'
    BY <1>2 DEF SaveSucceeds
  <2> QED BY ONLY <2>5, <2>6, <2>7, <2>8 DEF SentryInv
<1>3. CASE SaveFails       BY <1>3 DEF SaveFails
<1>4. CASE PoisonDataset   BY <1>4 DEF PoisonDataset
<1>5. CASE RegisterEpisode BY <1>5 DEF RegisterEpisode
<1>6. CASE BackgroundPush  BY <1>6 DEF BackgroundPush
<1> QED BY <1>1, <1>2, <1>3, <1>4, <1>5, <1>6 DEF Save

(* The push worker keeps the inductive invariant.                           *)
LEMMA WorkerKeepsSentryInv ==
  ASSUME SentryInv, Worker
  PROVE  SentryInv'
<1> USE SentryAssumption
        DEF SentryInv, TypeOK, LockOwner, WorkerDrained, Bookkeeping, PoisonStops, UnpushedRemembered,
            dataVars, pushVars, bookVars, endVars
<1>1. CASE PushStart   BY <1>1 DEF PushStart
<1>2. CASE PushLock    BY <1>2 DEF PushLock
<1>3. CASE PushCheck   BY <1>3 DEF PushCheck
<1>4. CASE PushUploads BY <1>4 DEF PushUploads
<1>5. CASE PushFails   BY <1>5 DEF PushFails
<1>6. CASE PushDone
  <2>1. ~(pushed' < saved')
    BY <1>6 DEF PushDone
  <2>2. needsPush' \in BOOLEAN
    BY ONLY <1>6, Zenon DEF PushDone
  <2>3. TypeOK'
    BY <1>6, <2>2 DEF PushDone
  <2>4. LockOwner' /\ WorkerDrained' /\ Bookkeeping' /\ PoisonStops'
    BY <1>6 DEF PushDone
  <2> QED BY ONLY <2>1, <2>3, <2>4 DEF SentryInv, UnpushedRemembered
<1> QED BY <1>1, <1>2, <1>3, <1>4, <1>5, <1>6 DEF Worker

(* Closing keeps the inductive invariant: it begins with an empty queue.    *)
LEMMA ClosingKeepsSentryInv ==
  ASSUME SentryInv, Closing
  PROVE  SentryInv'
<1> USE SentryAssumption
        DEF SentryInv, TypeOK, LockOwner, WorkerDrained, Bookkeeping, PoisonStops, UnpushedRemembered,
            dataVars, pushVars, bookVars, endVars, Goto
<1>1. CASE Drain            BY <1>1 DEF Drain
<1>2. CASE Finalize         BY <1>2 DEF Finalize
<1>3. CASE FinalPush        BY <1>3 DEF FinalPush
<1>4. CASE FinalPushFails   BY <1>4 DEF FinalPushFails
<1>5. CASE TeardownHardware BY <1>5 DEF TeardownHardware
<1> QED BY <1>1, <1>2, <1>3, <1>4, <1>5 DEF Closing

(* SentryInv holds in every reachable state of SentryStrategy.              *)
THEOREM SentryInductive == Spec => []SentryInv
<1>1. Init => SentryInv
  BY InitEstablishesSentryInv
<1>2. SentryInv /\ [Next]_vars => SentryInv'
  <2> SUFFICES ASSUME SentryInv, [Next]_vars PROVE SentryInv'
    OBVIOUS
  <2>1. CASE StartSegment \/ RecordFrame \/ Rotate \/ EndSegment \/ SaveTail \/ Teardown
    BY <2>1, SegmentKeepsSentryInv
  <2>2. CASE Save    BY <2>2, SaveKeepsSentryInv
  <2>3. CASE Worker  BY <2>3, WorkerKeepsSentryInv
  <2>4. CASE Closing BY <2>4, ClosingKeepsSentryInv
  <2>5. CASE UNCHANGED vars
    BY <2>5 DEF vars, dataVars, pushVars, bookVars, endVars, SentryInv, TypeOK, LockOwner,
       WorkerDrained, Bookkeeping, PoisonStops, UnpushedRemembered
  <2> QED BY <2>1, <2>2, <2>3, <2>4, <2>5 DEF Next
<1> QED BY <1>1, <1>2, PTL DEF Spec

-----------------------------------------------------------------------------
(* Every variable of the strategy keeps its type, the upload counter never  *)
(* passes upload_every_n_episodes included.                                 *)
THEOREM SentryTypeCorrect == Spec => []TypeOK
<1>1. SentryInv => TypeOK
  BY DEF SentryInv
<1> QED BY <1>1, SentryInductive, PTL

(* An upload never overlaps save_episode() or the closing of the dataset:   *)
(* the worker holds _episode_lock, and teardown drains it first.            *)
THEOREM UploadsRunAlone == Spec => []UploadAlone
<1>1. SentryInv => UploadAlone
  BY DEF SentryInv, LockOwner, WorkerDrained, UploadAlone
<1> QED BY <1>1, SentryInductive, PTL

(* _needs_push remembers every committed episode the Hub lacks: the clear   *)
(* after an upload cannot swallow an episode saved meanwhile.               *)
THEOREM UnpushedIsRemembered == Spec => []UnpushedRemembered
<1>1. SentryInv => UnpushedRemembered
  BY DEF SentryInv
<1> QED BY <1>1, SentryInductive, PTL

(* teardown() returns only with every committed episode uploaded, unless a  *)
(* save has failed.                                                         *)
THEOREM TeardownPushesAll == Spec => []AllPushedAtTheEnd
<1>1. SentryInv => AllPushedAtTheEnd
  BY DEF SentryInv, Bookkeeping, AllPushedAtTheEnd
<1> QED BY <1>1, SentryInductive, PTL

(* The poison latch: once a save has failed no step writes an episode.      *)
THEOREM PoisonStopsSaving == Spec => NoSaveAfterFailure
<1>1. SentryInv /\ [Next]_vars => [poisoned => saved' = saved /\ pc' # "saving"]_vars
  <2> SUFFICES ASSUME SentryInv, Next, poisoned PROVE saved' = saved /\ pc' # "saving"
    OBVIOUS
  <2> USE DEF SentryInv, PoisonStops, dataVars, pushVars, bookVars, endVars, Goto
  <2>1. CASE StartSegment \/ RecordFrame \/ Rotate \/ EndSegment \/ SaveTail \/ Teardown
    BY <2>1 DEF StartSegment, RecordFrame, Rotate, EndSegment, SaveTail, Teardown
  <2>2. CASE Save
    BY <2>2 DEF Save, SaveLock, SaveSucceeds, SaveFails, PoisonDataset, RegisterEpisode, BackgroundPush
  <2>3. CASE Worker
    BY <2>3 DEF Worker, PushStart, PushLock, PushCheck, PushUploads, PushFails, PushDone
  <2>4. CASE Closing
    BY <2>4 DEF Closing, Drain, Finalize, FinalPush, FinalPushFails, TeardownHardware
  <2> QED BY <2>1, <2>2, <2>3, <2>4 DEF Next
<1> QED BY <1>1, SentryInductive, PTL DEF Spec, NoSaveAfterFailure

(* Once the poison is known, neither the worker nor teardown begins another *)
(* upload.                                                                  *)
THEOREM PoisonStopsUploads == Spec => PoisonedNeverPushed
<1>1. SentryInv /\ [Next]_vars
        => [poisoned => ~(wpc' = "upload" /\ wpc # "upload") /\ pc' # "final"]_vars
  <2> SUFFICES ASSUME SentryInv, Next, poisoned
               PROVE  ~(wpc' = "upload" /\ wpc # "upload") /\ pc' # "final"
    OBVIOUS
  <2> USE DEF SentryInv, PoisonStops, dataVars, pushVars, bookVars, endVars, Goto
  <2>1. CASE StartSegment \/ RecordFrame \/ Rotate \/ EndSegment \/ SaveTail \/ Teardown
    BY <2>1 DEF StartSegment, RecordFrame, Rotate, EndSegment, SaveTail, Teardown
  <2>2. CASE Save
    BY <2>2 DEF Save, SaveLock, SaveSucceeds, SaveFails, PoisonDataset, RegisterEpisode, BackgroundPush
  <2>3. CASE Worker
    BY <2>3 DEF Worker, PushStart, PushLock, PushCheck, PushUploads, PushFails, PushDone
  <2>4. CASE Closing
    BY <2>4 DEF Closing, Drain, Finalize, FinalPush, FinalPushFails, TeardownHardware
  <2> QED BY <2>1, <2>2, <2>3, <2>4 DEF Next
<1> QED BY <1>1, SentryInductive, PTL DEF Spec, PoisonedNeverPushed

---------------------------------------------------------------------------
(* Camera.                                                                 *)

(* Which reader and which capture there are at each place of the caller.   *)
CallerPlace ==
  /\ caller = "idle" => (capture <=> thread # 0)
  /\ caller \in {"warm", "check", "wait", "take"} => capture /\ thread # 0
  /\ caller \in {"start", "spawn"} => capture
  /\ caller = "rejoin" => ~capture
  /\ caller \in {"start", "spawn", "release", "rejoin"} => thread = 0
  /\ caller # "idle" => opens # 0

(* A reader that has not been started is dead.                             *)
NotStarted ==
  \A t \in Readers :
    t > opens \/ (t = opens /\ caller \in {"start", "spawn"}) => reading[t] = "dead"

(* Numbers of frames come from the clock.                                  *)
ClockBounds ==
  /\ latest <= clock /\ spent <= clock /\ handed <= clock /\ opened <= clock
  /\ \A t \in Readers : grabbed[t] <= clock

(* A frame on its way to the lock is not there yet, nor anywhere else.     *)
FramesDiffer ==
  \A t \in Readers : reading[t] = "store" =>
    /\ grabbed[t] # 0 /\ grabbed[t] # latest /\ grabbed[t] # spent
    /\ \A u \in Readers : u # t /\ reading[u] = "store" => grabbed[u] # grabbed[t]

(* A frame taken when no reader had its event still to set stays silent.   *)
SpentIsSilent ==
  latest = spent /\ latest # 0 /\ ~raced =>
    ~signalled /\ \A t \in Readers : reading[t] # "signal"

(* Only the reader of the connection, or of the one that is being closed.  *)
OneReader ==
  /\ \A t \in Readers : t # opens => reading[t] = "dead"
  /\ thread = 0 /\ caller \notin {"release", "rejoin"} =>
       \A t \in Readers : reading[t] = "dead"

(* What that reader holds and has stored is of this connection.            *)
OwnFrames ==
  /\ latest # 0 => latest >= handed
  /\ thread # 0 => /\ latest # 0 => latest > opened
                   /\ signalled => latest # 0
  /\ caller = "spawn" => latest = 0 /\ ~signalled
  /\ \A t \in Readers :
       /\ reading[t] = "store" => /\ grabbed[t] > handed /\ grabbed[t] > latest
                                  /\ thread # 0 => grabbed[t] > opened
       /\ reading[t] = "signal" => /\ thread # 0 => latest # 0
                                   /\ latest = spent /\ latest # 0 => ~signalled

CameraInv ==
  /\ CameraTypeOK /\ CallerPlace /\ NotStarted /\ ClockBounds /\ FramesDiffer
  /\ FreshFrameIsSignalled /\ SpentIsSilent
  /\ outlived = {} => OneReader /\ OwnFrames

-----------------------------------------------------------------------------
(* The camera starts disconnected, without frame, event or reader.         *)
LEMMA InitEstablishesCameraInv ==
  ASSUME CameraInit
  PROVE  CameraInv
<1> USE CameraAssumption DEF CameraInit
<1>1. CameraTypeOK
  <2>1. warming \in BOOLEAN /\ capture \in BOOLEAN /\ signalled \in BOOLEAN /\ raced \in BOOLEAN
    BY Zenon
  <2>2. told \in [Readers -> BOOLEAN]
    BY Zenon
  <2>3. /\ opens \in 0..MaxConnects /\ thread \in {0, opens}
        /\ grabbed \in [Readers -> Nat] /\ failures \in [Readers -> 0..(MaxFailures + 1)]
        /\ reading \in [Readers -> {"test", "read", "grab", "store", "signal", "dead"}]
    BY DEF Readers
  <2> QED BY <2>1, <2>2, <2>3 DEF CameraTypeOK
<1>2. CallerPlace /\ NotStarted /\ ClockBounds /\ FramesDiffer /\ FreshFrameIsSignalled /\ SpentIsSilent
  BY DEF CallerPlace, NotStarted, ClockBounds, FramesDiffer, FreshFrameIsSignalled, SpentIsSilent
<1>3. OneReader /\ OwnFrames
  BY DEF OneReader, OwnFrames
<1> QED BY <1>1, <1>2, <1>3 DEF CameraInv

(* A step of a reader keeps the invariant.                                 *)
LEMMA ReaderKeepsCameraInv ==
  ASSUME CameraInv, NEW t \in Readers, ReadLoop(t)
  PROVE  CameraInv'
<1> USE CameraAssumption DEF CameraInv, frameVars, callVars
<1>1. CASE TestStop(t)
  <2> USE <1>1 DEF TestStop
  <2>1. CameraTypeOK' BY DEF CameraTypeOK
  <2>2. (CallerPlace /\ NotStarted /\ ClockBounds /\ FramesDiffer /\ FreshFrameIsSignalled /\ SpentIsSilent)'
    BY DEF CameraTypeOK, CallerPlace, NotStarted, ClockBounds, FramesDiffer, FreshFrameIsSignalled, SpentIsSilent
  <2>3. (outlived = {} => OneReader /\ OwnFrames)'
    BY DEF CameraTypeOK, OneReader, OwnFrames
  <2> QED BY <2>1, <2>2, <2>3
<1>2. CASE BeginRead(t)
  <2> USE <1>2 DEF BeginRead
  <2>1. CameraTypeOK' BY DEF CameraTypeOK
  <2>2. (CallerPlace /\ NotStarted /\ ClockBounds /\ FramesDiffer /\ FreshFrameIsSignalled /\ SpentIsSilent)'
    BY DEF CameraTypeOK, CallerPlace, NotStarted, ClockBounds, FramesDiffer, FreshFrameIsSignalled, SpentIsSilent
  <2>3. (outlived = {} => OneReader /\ OwnFrames)'
    BY DEF CameraTypeOK, OneReader, OwnFrames
  <2> QED BY <2>1, <2>2, <2>3
<1>3. CASE Grab(t)
  <2> USE <1>3 DEF Grab
  <2>1. CameraTypeOK' BY DEF CameraTypeOK
  <2>2. (CallerPlace /\ NotStarted /\ ClockBounds)'
    BY DEF CameraTypeOK, CallerPlace, NotStarted, ClockBounds
  <2>3. FramesDiffer'
    BY DEF CameraTypeOK, ClockBounds, FramesDiffer
  <2>4. (FreshFrameIsSignalled /\ SpentIsSilent)'
    BY DEF CameraTypeOK, FreshFrameIsSignalled, SpentIsSilent
  <2>5. (outlived = {} => OneReader /\ OwnFrames)'
    BY DEF CameraTypeOK, ClockBounds, OneReader, OwnFrames
  <2> QED BY <2>1, <2>2, <2>3, <2>4, <2>5
<1>4. CASE FailRead(t)
  <2> USE <1>4 DEF FailRead
  <2>1. CameraTypeOK' BY DEF CameraTypeOK
  <2>2. (CallerPlace /\ NotStarted /\ ClockBounds /\ FramesDiffer /\ FreshFrameIsSignalled /\ SpentIsSilent)'
    BY DEF CameraTypeOK, CallerPlace, NotStarted, ClockBounds, FramesDiffer, FreshFrameIsSignalled, SpentIsSilent
  <2>3. (outlived = {} => OneReader /\ OwnFrames)'
    BY DEF CameraTypeOK, OneReader, OwnFrames
  <2> QED BY <2>1, <2>2, <2>3
<1>5. CASE StoreFrame(t)
  <2> USE <1>5 DEF StoreFrame
  <2>1. CameraTypeOK' BY DEF CameraTypeOK
  <2>2. (CallerPlace /\ NotStarted /\ ClockBounds)'
    BY DEF CameraTypeOK, CallerPlace, NotStarted, ClockBounds
  <2>3. FramesDiffer'
    BY DEF CameraTypeOK, FramesDiffer
  <2>4. (FreshFrameIsSignalled /\ SpentIsSilent)'
    BY DEF CameraTypeOK, FramesDiffer, FreshFrameIsSignalled, SpentIsSilent
  <2>5. (outlived = {} => OneReader /\ OwnFrames)'
    <3> SUFFICES ASSUME outlived = {} PROVE OneReader' /\ OwnFrames'
      OBVIOUS
    <3>1. t = opens /\ \A u \in Readers : u # t => reading[u] = "dead"
      BY DEF OneReader
    <3>2. latest' = grabbed[t] /\ grabbed[t] \in Nat /\ grabbed[t] # 0 /\ grabbed[t] # spent
      BY DEF CameraTypeOK, FramesDiffer
    <3>3. \A u \in Readers : reading'[u] = IF u = t THEN "signal" ELSE "dead"
      BY <3>1 DEF CameraTypeOK
    <3>4. OneReader'
      BY <3>1, <3>3 DEF CameraTypeOK, OneReader
    <3>5. OwnFrames'
      <4>1. caller # "spawn"
        BY <3>1 DEF CallerPlace, OneReader
      <4> QED BY <3>2, <3>3, <4>1 DEF CameraTypeOK, OwnFrames
    <3> QED BY <3>4, <3>5
  <2> QED BY <2>1, <2>2, <2>3, <2>4, <2>5
<1>6. CASE SignalFrame(t)
  <2> USE <1>6 DEF SignalFrame
  <2>1. CameraTypeOK' BY DEF CameraTypeOK
  <2>2. (CallerPlace /\ NotStarted /\ ClockBounds /\ FramesDiffer)'
    BY DEF CameraTypeOK, CallerPlace, NotStarted, ClockBounds, FramesDiffer
  <2>3. (FreshFrameIsSignalled /\ SpentIsSilent)'
    BY DEF CameraTypeOK, FreshFrameIsSignalled, SpentIsSilent
  <2>4. (outlived = {} => OneReader /\ OwnFrames)'
    BY DEF CameraTypeOK, OneReader, OwnFrames
  <2> QED BY <2>1, <2>2, <2>3, <2>4
<1> QED BY <1>1, <1>2, <1>3, <1>4, <1>5, <1>6 DEF ReadLoop

(* The steps that leave the frame and its event alone keep the invariant.  *)
LEMMA CallsKeepCameraInv ==
  ASSUME CameraInv,
         \/ Connect \/ WarmUp \/ CallAsyncRead \/ CheckReader \/ AwaitFrame \/ ReadLatest
         \/ Disconnect \/ StopReader \/ ReleaseCapture \/ JoinAgain
  PROVE  CameraInv'
<1> USE CameraAssumption DEF CameraInv, frameVars, readerVars, Raise
<1>1. CameraTypeOK'
  <2>1. CASE Connect
    BY <2>1 DEF CameraTypeOK, Connect, CallerPlace, Readers
  <2>2. CASE WarmUp \/ CallAsyncRead \/ CheckReader \/ AwaitFrame \/ ReadLatest \/ Disconnect
    <3>1. /\ warming' \in BOOLEAN
          /\ UNCHANGED <<capture, signalled, raced, told, reading, grabbed, failures, outlived>>
      BY <2>2, Zenon
      DEF CameraTypeOK, WarmUp, CallAsyncRead, CheckReader, AwaitFrame, ReadLatest, Disconnect, callVars
    <3>2. /\ caller' \in {"idle", "stop", "check", "wait", "take"}
          /\ UNCHANGED <<opens, thread, latest, spent, opened, clock>>
          /\ handed' \in Nat
      BY <2>2
      DEF CameraTypeOK, WarmUp, CallAsyncRead, CheckReader, AwaitFrame, ReadLatest, Disconnect
    <3> QED BY <3>1, <3>2 DEF CameraTypeOK
  <2>3. CASE StopReader
    BY <2>3 DEF CameraTypeOK, StopReader, Readers
  <2>4. CASE ReleaseCapture
    BY <2>4 DEF CameraTypeOK, ReleaseCapture
  <2>5. CASE JoinAgain
    <3>1. opens \in Readers
      BY <2>5 DEF JoinAgain, CameraTypeOK, CallerPlace, Readers
    <3>2. outlived' \subseteq Readers
      BY <2>5, <3>1 DEF JoinAgain, CameraTypeOK
    <3>3. /\ caller' = "idle"
          /\ UNCHANGED <<warming, capture, signalled, raced, opens, thread, latest, handed, spent, opened,
                         clock, reading, told, grabbed, failures>>
      BY <2>5, Zenon DEF JoinAgain
    <3> QED BY <3>2, <3>3 DEF CameraTypeOK
  <2> QED BY <2>1, <2>2, <2>3, <2>4, <2>5
<1>2. CallerPlace'
  BY DEF CameraTypeOK, Connect, WarmUp, CallAsyncRead, CheckReader, AwaitFrame, ReadLatest, Disconnect,
         StopReader, ReleaseCapture, JoinAgain, CallerPlace
<1>3. NotStarted'
  <2>1. CASE Connect
    BY <2>1 DEF CameraTypeOK, Connect, NotStarted, Readers
  <2>2. CASE ~Connect
    <3>1. UNCHANGED <<opens, reading>> /\ caller' \notin {"start", "spawn"}
      BY <2>2
      DEF WarmUp, CallAsyncRead, CheckReader, AwaitFrame, ReadLatest, Disconnect, StopReader,
          ReleaseCapture, JoinAgain
    <3> QED BY <3>1 DEF NotStarted
  <2> QED BY <2>1, <2>2
<1>4. (ClockBounds /\ FramesDiffer /\ FreshFrameIsSignalled /\ SpentIsSilent)'
  BY DEF CameraTypeOK, Connect, WarmUp, CallAsyncRead, CheckReader, AwaitFrame, ReadLatest, Disconnect,
         StopReader, ReleaseCapture, JoinAgain, ClockBounds, FramesDiffer, FreshFrameIsSignalled,
         SpentIsSilent
<1>5. (outlived = {} => OneReader)'
  BY DEF CameraTypeOK, Connect, WarmUp, CallAsyncRead, CheckReader, AwaitFrame, ReadLatest, Disconnect,
         StopReader, ReleaseCapture, JoinAgain, CallerPlace, OneReader, Alive
<1>6. (outlived = {} => OwnFrames)'
  BY DEF CameraTypeOK, Connect, WarmUp, CallAsyncRead, CheckReader, AwaitFrame, ReadLatest, Disconnect,
         StopReader, ReleaseCapture, JoinAgain, CallerPlace, OwnFrames
<1> QED BY <1>1, <1>2, <1>3, <1>4, <1>5, <1>6

(* The steps that clear the event, and the start of a reader, keep it.     *)
LEMMA ClearingKeepsCameraInv ==
  ASSUME CameraInv, ClearFrame \/ StartReadThread \/ CallRead \/ TakeFrame
  PROVE  CameraInv'
<1> USE CameraAssumption DEF CameraInv, frameVars, readerVars, ClearEvent, Raise
<1>1. CASE ClearFrame
  <2> USE <1>1 DEF ClearFrame
  <2>1. CameraTypeOK' BY DEF CameraTypeOK
  <2>2. (CallerPlace /\ NotStarted /\ ClockBounds /\ FramesDiffer /\ FreshFrameIsSignalled /\ SpentIsSilent)'
    BY DEF CameraTypeOK, CallerPlace, NotStarted, ClockBounds, FramesDiffer, FreshFrameIsSignalled, SpentIsSilent
  <2>3. (outlived = {} => OneReader /\ OwnFrames)'
    BY DEF CameraTypeOK, CallerPlace, OneReader, OwnFrames
  <2> QED BY <2>1, <2>2, <2>3
<1>2. CASE StartReadThread
  <2> USE <1>2 DEF StartReadThread
  <2>1. opens \in Readers
    BY DEF CameraTypeOK, CallerPlace, Readers
  <2>2. CameraTypeOK' BY <2>1 DEF CameraTypeOK
  <2>3. (CallerPlace /\ NotStarted)'
    BY <2>1 DEF CameraTypeOK, CallerPlace, NotStarted, Readers
  <2>4. (ClockBounds /\ FramesDiffer)'
    BY <2>1 DEF CameraTypeOK, ClockBounds, FramesDiffer
  <2>5. (FreshFrameIsSignalled /\ SpentIsSilent)'
    BY <2>1 DEF CameraTypeOK, NotStarted, FreshFrameIsSignalled, SpentIsSilent
  <2>6. (outlived = {} => OneReader /\ OwnFrames)'
    BY <2>1 DEF CameraTypeOK, CallerPlace, OneReader, OwnFrames
  <2> QED BY <2>2, <2>3, <2>4, <2>5, <2>6
<1>3. CASE CallRead
  <2> USE <1>3 DEF CallRead
  <2>1. CameraTypeOK' BY DEF CameraTypeOK
  <2>2. (CallerPlace /\ NotStarted /\ ClockBounds /\ FramesDiffer /\ FreshFrameIsSignalled /\ SpentIsSilent)'
    BY DEF CameraTypeOK, CallerPlace, NotStarted, ClockBounds, FramesDiffer, FreshFrameIsSignalled, SpentIsSilent
  <2>3. (outlived = {} => OneReader /\ OwnFrames)'
    BY DEF CameraTypeOK, CallerPlace, OneReader, OwnFrames
  <2> QED BY <2>1, <2>2, <2>3
<1>4. CASE TakeFrame
  <2> USE <1>4 DEF TakeFrame
  <2>1. CameraTypeOK' BY DEF CameraTypeOK
  <2>2. (CallerPlace /\ NotStarted /\ ClockBounds /\ FramesDiffer /\ FreshFrameIsSignalled /\ SpentIsSilent)'
    BY DEF CameraTypeOK, CallerPlace, NotStarted, ClockBounds, FramesDiffer, FreshFrameIsSignalled, SpentIsSilent
  <2>3. (outlived = {} => OneReader)'
    BY DEF CameraTypeOK, CallerPlace, OneReader
  <2>4. (outlived = {} => OwnFrames)'
    BY DEF CameraTypeOK, OwnFrames
  <2> QED BY <2>1, <2>2, <2>3, <2>4
<1> QED BY <1>1, <1>2, <1>3, <1>4

-----------------------------------------------------------------------------
(* The invariant is inductive.                                             *)
THEOREM CameraInductive == CameraSpec => []CameraInv
<1>1. CameraInv /\ [CameraNext]_cameraVars => CameraInv'
  <2> SUFFICES ASSUME CameraInv, [CameraNext]_cameraVars PROVE CameraInv'
    OBVIOUS
  <2>1. CASE \E t \in Readers : ReadLoop(t)
    BY <2>1, ReaderKeepsCameraInv
  <2>2. CASE \/ Connect \/ WarmUp \/ CallAsyncRead \/ CheckReader \/ AwaitFrame \/ ReadLatest
             \/ Disconnect \/ StopReader \/ ReleaseCapture \/ JoinAgain
    BY <2>2, CallsKeepCameraInv
  <2>3. CASE ClearFrame \/ StartReadThread \/ CallRead \/ TakeFrame
    BY <2>3, ClearingKeepsCameraInv
  <2>4. CASE UNCHANGED cameraVars
    BY <2>4 DEF cameraVars, frameVars, readerVars, callVars, CameraInv, CameraTypeOK, CallerPlace,
                NotStarted, ClockBounds, FramesDiffer, FreshFrameIsSignalled, SpentIsSilent, OneReader, OwnFrames
  <2> QED BY <2>1, <2>2, <2>3, <2>4 DEF CameraNext
<1> QED BY <1>1, InitEstablishesCameraInv, PTL DEF CameraSpec

(* What async_read() and read_latest() hand over (camera_opencv.py) is new, *)
(* of this connection and in order, with the exceptions the property names. *)
THEOREM CallersGetFreshFrames == CameraSpec => []CallerGetsFreshFrames
<1>1. CameraInv => CallerGetsFreshFrames
  <2> SUFFICES ASSUME CameraInv PROVE CallerGetsFreshFrames
    OBVIOUS
  <2>1. RepeatsAreRaced
    BY DEF CameraInv, SpentIsSilent, OwnFrames, RepeatsAreRaced
  <2>2. FramesAreOfThisConnection
    BY DEF CameraInv, OwnFrames, FramesAreOfThisConnection
  <2> QED BY <2>1, <2>2 DEF CameraInv, CallerGetsFreshFrames
<1> QED BY <1>1, CameraInductive, PTL

=============================================================================
