------------------------------- MODULE Camera -------------------------------
(***************************************************************************)
(* A camera read in the background (OpenCVCamera,                          *)
(* cameras/opencv/camera_opencv.py).                                       *)
(*                                                                         *)
(* A reader thread stores each frame under frame_lock and then, outside    *)
(* the lock, sets new_frame_event.  async_read() waits for the event and   *)
(* takes the frame; disconnect() joins the reader for two seconds, twice,  *)
(* and goes on if it is still alive.  Such a reader outlives its           *)
(* connection and may store a frame in the next one.                       *)
(*                                                                         *)
(* A frame is its number in the order of capture; 0 is None.  The reader   *)
(* of the n-th connection is n.  One thread calls the camera's methods.    *)
(***************************************************************************)
EXTENDS Integers

CONSTANTS
  MaxFailures,  (* consecutive failures a reader logs and counts: 10        *)
  MaxConnects,  (* bound: calls of connect()                               *)
  MaxFrames     (* bound: frames captured                                  *)

ASSUME CameraAssumption == MaxFailures \in Nat /\ MaxConnects \in Nat /\ MaxFrames \in Nat

VARIABLES
  caller,      (* where the caller is in a method                          *)
  warming,     (* it is in the warmup of connect()                         *)
  capture,     (* videocapture is there, and open                          *)
  thread,      (* the reader of self.thread; 0: None                       *)
  latest,      (* latest_frame                                             *)
  signalled,   (* new_frame_event                                          *)
  reading,     (* where each reader is                                     *)
  told,        (* the stop_event of each reader                            *)
  grabbed,     (* the frame each reader holds                              *)
  failures,    (* failure_count of each reader                             *)
  opens,       (* history: calls of connect(); the newest reader           *)
  clock,       (* history: frames captured                                 *)
  opened,      (* history: frames captured when the newest reader started  *)
  handed,      (* history: the last frame a caller was given               *)
  spent,       (* history: latest_frame when the event was last cleared    *)
  raced,       (* history: a reader had its event still to set at that time *)
  outlived     (* history: readers alive when their disconnect() returned  *)

frameVars  == <<latest, signalled, spent, raced>>
readerVars == <<reading, told, grabbed, failures, clock>>
callVars   == <<caller, warming, capture, thread, opens, opened, handed, outlived>>
cameraVars == <<frameVars, readerVars, callVars>>

Readers == 1..MaxConnects
Alive(t) == reading[t] # "dead"

CameraTypeOK ==
  /\ caller \in {"idle", "start", "spawn", "warm", "check", "wait", "take", "stop", "clear",
                 "release", "rejoin"}
  /\ warming \in BOOLEAN /\ capture \in BOOLEAN /\ signalled \in BOOLEAN /\ raced \in BOOLEAN
  /\ opens \in 0..MaxConnects /\ thread \in {0, opens}
  /\ latest \in Nat /\ handed \in Nat /\ spent \in Nat /\ opened \in Nat /\ clock \in Nat
  /\ reading \in [Readers -> {"test", "read", "grab", "store", "signal", "dead"}]
  /\ told \in [Readers -> BOOLEAN]
  /\ grabbed \in [Readers -> Nat]
  /\ failures \in [Readers -> 0..(MaxFailures + 1)]
  /\ outlived \subseteq Readers

CameraInit ==
  /\ caller = "idle" /\ warming = FALSE /\ capture = FALSE /\ thread = 0
  /\ latest = 0 /\ signalled = FALSE
  /\ reading = [t \in Readers |-> "dead"] /\ told = [t \in Readers |-> FALSE]
  /\ grabbed = [t \in Readers |-> 0] /\ failures = [t \in Readers |-> 0]
  /\ opens = 0 /\ clock = 0 /\ opened = 0 /\ handed = 0 /\ spent = 0 /\ raced = FALSE
  /\ outlived = {}

---------------------------------------------------------------------------
(* The reader's loop.                                                      *)

TestStop(t) ==
  /\ reading[t] = "test"
  /\ reading' = [reading EXCEPT ![t] = IF told[t] THEN "dead" ELSE "read"]
  /\ UNCHANGED <<frameVars, told, grabbed, failures, clock, callVars>>

\* Whatever capture there is: an old reader may read the one of a new connection.
BeginRead(t) ==
  /\ reading[t] = "read"
  /\ reading' = [reading EXCEPT ![t] = IF capture THEN "grab" ELSE "dead"]
  /\ UNCHANGED <<frameVars, told, grabbed, failures, clock, callVars>>

\* A read may outlast the release of its capture and still return a frame.
Grab(t) ==
  /\ reading[t] = "grab" /\ clock < MaxFrames
  /\ clock' = clock + 1
  /\ grabbed' = [grabbed EXCEPT ![t] = clock + 1]
  /\ reading' = [reading EXCEPT ![t] = "store"]
  /\ UNCHANGED <<frameVars, told, failures, callVars>>

\* The hardware, the frame's size, or a capture set to None after the look at it.
FailRead(t) ==
  /\ reading[t] = "grab"
  /\ IF failures[t] <= MaxFailures
     THEN /\ failures' = [failures EXCEPT ![t] = @ + 1]
          /\ reading' = [reading EXCEPT ![t] = "test"]
     ELSE reading' = [reading EXCEPT ![t] = "dead"] /\ UNCHANGED failures
  /\ UNCHANGED <<frameVars, told, grabbed, clock, callVars>>

StoreFrame(t) ==
  /\ reading[t] = "store"
  /\ latest' = grabbed[t]
  /\ reading' = [reading EXCEPT ![t] = "signal"]
  /\ UNCHANGED <<signalled, spent, raced, told, grabbed, failures, clock, callVars>>

SignalFrame(t) ==
  /\ reading[t] = "signal"
  /\ signalled' = TRUE
  /\ failures' = [failures EXCEPT ![t] = 0]
  /\ reading' = [reading EXCEPT ![t] = "test"]
  /\ UNCHANGED <<latest, spent, raced, told, grabbed, clock, callVars>>

ReadLoop(t) ==
  TestStop(t) \/ BeginRead(t) \/ Grab(t) \/ FailRead(t) \/ StoreFrame(t) \/ SignalFrame(t)

---------------------------------------------------------------------------
(* connect().                                                              *)

\* A capture that does not open changes nothing; settings that fail are cleaned up.
Connect ==
  /\ caller = "idle" /\ ~capture /\ opens < MaxConnects
  /\ capture' = TRUE /\ opens' = opens + 1
  /\ caller' \in {"start", "stop"}
  /\ UNCHANGED <<frameVars, readerVars, warming, thread, opened, handed, outlived>>

\* Faulty variant: the event is left set.
ClearFrameOnly ==
  /\ caller \in {"start", "clear"}
  /\ caller' = IF caller = "start" THEN "spawn" ELSE "release"
  /\ thread' = 0
  /\ latest' = 0 /\ UNCHANGED signalled
  /\ spent' = 0 /\ raced' = (\E t \in Readers : reading[t] = "signal")
  /\ UNCHANGED <<readerVars, warming, capture, opens, opened, handed, outlived>>

\* The end of _stop_read_thread(), under frame_lock: whether the reader has ended or
\* not, it is forgotten, and with it its frame and its event.
ClearFrame ==
  /\ caller \in {"start", "clear"}
  /\ caller' = IF caller = "start" THEN "spawn" ELSE "release"
  /\ thread' = 0
  /\ latest' = 0 /\ signalled' = FALSE
  /\ spent' = 0 /\ raced' = (\E t \in Readers : reading[t] = "signal")
  /\ UNCHANGED <<readerVars, warming, capture, opens, opened, handed, outlived>>

\* With warmup=False, or none configured, connect() returns.
StartReadThread ==
  /\ caller = "spawn"
  /\ thread' = opens /\ opened' = clock
  /\ reading' = [reading EXCEPT ![opens] = "test"]
  /\ \E warmup \in BOOLEAN :
       warming' = warmup /\ caller' = (IF warmup THEN "warm" ELSE "idle")
  /\ UNCHANGED <<frameVars, told, grabbed, failures, clock, capture, opens, handed, outlived>>

\* The warmup reads until its time is over, and then needs a frame to be there.
WarmUp ==
  /\ caller = "warm"
  /\ \/ caller' = "check" /\ UNCHANGED warming
     \/ caller' = (IF latest = 0 THEN "stop" ELSE "idle") /\ warming' = FALSE
  /\ UNCHANGED <<frameVars, readerVars, capture, thread, opens, opened, handed, outlived>>

---------------------------------------------------------------------------
(* read(), async_read(), read_latest().                                    *)

\* An exception; in the warmup, connect() cleans up before it raises.
Raise ==
  /\ caller' = (IF warming THEN "stop" ELSE "idle") /\ warming' = FALSE
  /\ UNCHANGED <<capture, thread, opens, opened, outlived>>

ClearEvent ==
  /\ signalled' = FALSE
  /\ spent' = latest /\ raced' = (\E t \in Readers : reading[t] = "signal")

CallAsyncRead ==
  /\ caller = "idle" /\ capture
  /\ caller' = "check"
  /\ UNCHANGED <<frameVars, readerVars, warming, capture, thread, opens, opened, handed, outlived>>

CallRead ==
  /\ caller = "idle" /\ capture /\ thread # 0 /\ Alive(thread)
  /\ caller' = "check" /\ ClearEvent
  /\ UNCHANGED <<latest, readerVars, warming, capture, thread, opens, opened, handed, outlived>>

CheckReader ==
  /\ caller = "check"
  /\ IF thread # 0 /\ Alive(thread)
     THEN /\ caller' = (IF signalled THEN "take" ELSE "wait")
          /\ UNCHANGED <<warming, capture, thread, opens, opened, outlived>>
     ELSE Raise
  /\ UNCHANGED <<frameVars, readerVars, handed>>

\* The wait ends with the event or with its time.
AwaitFrame ==
  /\ caller = "wait"
  /\ \/ signalled /\ caller' = "take" /\ UNCHANGED <<warming, capture, thread, opens, opened, outlived>>
     \/ Raise
  /\ UNCHANGED <<frameVars, readerVars, handed>>

TakeFrame ==
  /\ caller = "take" /\ ClearEvent
  /\ IF latest = 0
     THEN Raise /\ UNCHANGED handed
     ELSE /\ handed' = latest
          /\ caller' = (IF warming THEN "warm" ELSE "idle")
          /\ UNCHANGED <<warming, capture, thread, opens, opened, outlived>>
  /\ UNCHANGED <<latest, readerVars>>

\* A frame that is too old, or none, raises and changes nothing.
ReadLatest ==
  /\ caller = "idle" /\ capture /\ thread # 0 /\ Alive(thread) /\ latest # 0
  /\ handed' = latest
  /\ UNCHANGED <<frameVars, readerVars, caller, warming, capture, thread, opens, opened, outlived>>

---------------------------------------------------------------------------
(* disconnect() and _cleanup_resources().                                  *)

Disconnect ==
  /\ caller = "idle" /\ (capture \/ thread # 0)
  /\ caller' = "stop"
  /\ UNCHANGED <<frameVars, readerVars, warming, capture, thread, opens, opened, handed, outlived>>

\* The join that follows may give up at any moment.
StopReader ==
  /\ caller = "stop"
  /\ told' = IF thread = 0 THEN told ELSE [told EXCEPT ![thread] = TRUE]
  /\ caller' = "clear"
  /\ UNCHANGED <<frameVars, reading, grabbed, failures, clock, warming, capture, thread, opens, opened,
                 handed, outlived>>

ReleaseCapture ==
  /\ caller = "release"
  /\ capture' = FALSE /\ caller' = "rejoin"
  /\ UNCHANGED <<frameVars, readerVars, warming, thread, opens, opened, handed, outlived>>

\* The second join: the reader has ended, or its two seconds are over.
JoinAgain ==
  /\ caller = "rejoin"
  /\ caller' = "idle"
  /\ outlived' = outlived \cup {t \in {opens} : Alive(t)}
  /\ UNCHANGED <<frameVars, readerVars, warming, capture, thread, opens, opened, handed>>

---------------------------------------------------------------------------
CameraNext ==
  \/ \E t \in Readers : ReadLoop(t)
  \/ Connect \/ ClearFrame \/ StartReadThread \/ WarmUp
  \/ CallAsyncRead \/ CallRead \/ CheckReader \/ AwaitFrame \/ TakeFrame \/ ReadLatest
  \/ Disconnect \/ StopReader \/ ReleaseCapture \/ JoinAgain

CameraSpec == CameraInit /\ [][CameraNext]_cameraVars

---------------------------------------------------------------------------
\* No wakeup is lost: a frame no call has taken or dropped is signalled, or is about
\* to be.
FreshFrameIsSignalled ==
  latest # spent => signalled \/ \E t \in Readers : reading[t] = "signal"

\* The event announces a frame that was taken only if its reader had not yet set the
\* event when it was; and then it does not do so again.
RepeatsAreRaced ==
  signalled /\ latest = spent /\ latest # 0 =>
    /\ raced
    /\ outlived = {} => \A t \in Readers : reading[t] # "signal"

\* Unless a reader has outlived the two joins of its disconnect(), a connection shows
\* its own frames only, an event has a frame, and no frame is older than the last.
FramesAreOfThisConnection ==
  outlived = {} =>
    /\ latest # 0 => latest >= handed
    /\ thread # 0 => /\ latest # 0 => latest > opened
                     /\ signalled => latest # 0

\* What a caller is given is new, of this connection, and in order.
CallerGetsFreshFrames ==
  CameraTypeOK /\ FreshFrameIsSignalled /\ RepeatsAreRaced /\ FramesAreOfThisConnection

=============================================================================
