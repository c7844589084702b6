------------------------- MODULE RolloutController -------------------------
(***************************************************************************)
(* The interactive rollout: RolloutController (rollout/controller.py)      *)
(* driving a strategy's restartable run() and an inference engine.         *)
(*                                                                         *)
(* Threads:                                                                *)
(*   - operators call the control methods, one at a time under             *)
(*     _control_lock; a method of several effects is several steps (opc);  *)
(*   - the serve thread runs serve(), the segments of the strategy and the *)
(*     robot resets (spc);                                                 *)
(*   - the thread that owns the policy serves the text queries (svc, see   *)
(*     QueryChannel): the RTC background thread, or with an inline backend *)
(*     the serve thread itself inside pump_query.                          *)
(*                                                                         *)
(* _wake is left out: the idle wait has a timeout, so waking early changes *)
(* when the loop goes on and not whether it does.                          *)
(***************************************************************************)
EXTENDS QueryChannel

VARIABLES
  inline,        (* control_thread_owns_policy: fixed by the backend       *)
  startReq,      (* _start_requested                                       *)
  resetReq,      (* _reset_requested                                       *)
  stopReq,       (* _stop_requested                                        *)
  segStop,       (* the local flag of the segment's LinkedEvent            *)
  shutdown,      (* its parent, the process shutdown event                 *)
  running,       (* _running                                               *)
  stopped,       (* _stopped                                               *)
  stratFailed,   (* _strategy_failure_traceback is not None                *)
  engineFailed,  (* RTC engine: _rtc_error                                 *)
  active,        (* RTC engine: _policy_active                             *)
  obs,           (* RTC engine: an observation is published                *)
  dropped,       (* the query _run_segment dropped (local)                 *)
  spc,           (* where the serve thread is                              *)
  opc,           (* where the control method holding the lock is           *)
  arg,           (* its argument: the task of set_task                     *)
  quiet,         (* the operators have issued their last command           *)
  asked,         (* history: the questions ask() accepted                  *)
  reported,      (* history: QUERY_ANSWERED events emitted per question    *)
  lastCmd        (* history: last of start, reset, stop to take effect     *)

flagVars == <<startReq, resetReq, stopReq, segStop, shutdown, running, stopped,
              stratFailed, engineFailed>>
histVars == <<asked, reported, lastCmd>>
ctlVars  == <<inline, flagVars, active, obs, dropped, spc, opc, arg, quiet, histVars>>
vars     == <<channelVars, ctlVars>>

ServePCs == {"check", "reset?", "resetting", "start?", "arm", "idle", "wait",
             "clear", "begin", "tick", "observe", "poll", "service", "serving", "deliver",
             "pause", "end1", "end2", "end3", "end4", "report", "ended", "exit", "done"}

OperatorPCs == {"free", "start", "reset1", "reset2", "reset3", "reset4",
                "stop1", "stop2", "set1", "set2"}

(* The strategy's control loop, entered by SEGMENT_STARTED.                *)
Loop == {"tick", "observe", "poll", "service", "serving", "deliver"}

(* LinkedEvent.is_set                                                      *)
SegmentStopSet == segStop \/ shutdown

(* _run_segment holds _control_lock from _running.clear() to the end of    *)
(* its finally block.                                                      *)
ServeHoldsLock == spc \in {"end2", "end3", "end4"}

TypeOK ==
  /\ ChannelTypeOK
  /\ inline \in BOOLEAN
  /\ startReq \in BOOLEAN /\ resetReq \in BOOLEAN /\ stopReq \in BOOLEAN
  /\ segStop \in BOOLEAN /\ shutdown \in BOOLEAN
  /\ running \in BOOLEAN /\ stopped \in BOOLEAN
  /\ stratFailed \in BOOLEAN /\ engineFailed \in BOOLEAN
  /\ active \in BOOLEAN /\ obs \in BOOLEAN /\ quiet \in BOOLEAN
  /\ dropped \in Queries \cup {None}
  /\ spc \in ServePCs
  /\ opc \in OperatorPCs
  /\ arg \in Tasks
  /\ asked \in SUBSET Questions
  /\ reported \in [Questions -> Nat]
  /\ lastCmd \in {"none", "start", "reset", "stop"}

Init ==
  /\ ChannelInit
  /\ inline \in BOOLEAN
  /\ startReq = FALSE /\ resetReq = FALSE /\ stopReq = FALSE
  /\ segStop = FALSE /\ shutdown = FALSE
  /\ running = FALSE /\ stopped = FALSE
  /\ stratFailed = FALSE /\ engineFailed = FALSE
  /\ active = FALSE /\ obs = FALSE
  /\ dropped = None
  /\ spc = "check" /\ opc = "free" /\ arg = InitialTask
  /\ quiet = FALSE
  /\ asked = {} /\ reported = [q \in Questions |-> 0] /\ lastCmd = "none"

---------------------------------------------------------------------------
(* Control methods.                                                        *)

\* An operator enters a control method: the lock is free.
Call(first) ==
  /\ opc = "free" /\ ~ServeHoldsLock /\ ~quiet
  /\ opc' = first

Step(from, to) == opc = from /\ opc' = to

Start ==
  /\ ~stopped /\ ~stopReq /\ ~engineFailed /\ ~stratFailed /\ ~running
  /\ Call("start")
  /\ UNCHANGED <<channelVars, inline, flagVars, active, obs, dropped, spc, arg, quiet, histVars>>

StartRequest ==
  /\ Step("start", "free")
  /\ startReq' = TRUE
  /\ lastCmd' = "start"
  /\ UNCHANGED <<channelVars, inline, resetReq, stopReq, segStop, shutdown, running, stopped,
                 stratFailed, engineFailed, active, obs, dropped, spc, arg, quiet, asked, reported>>

\* Faulty variant: a pending start is not cancelled.
ResetKeepsStart ==
  /\ ~stopped /\ ~stopReq
  /\ Call("reset1")
  /\ UNCHANGED <<channelVars, inline, flagVars, active, obs, dropped, spc, arg, quiet, histVars>>

\* reset(): cancel a pending start, stop the sequencer, restore the task,
\* raise the request and only then end the segment.
Reset ==
  /\ ~stopped /\ ~stopReq
  /\ Call("reset1")
  /\ startReq' = FALSE
  /\ UNCHANGED <<channelVars, inline, resetReq, stopReq, segStop, shutdown, running, stopped,
                 stratFailed, engineFailed, active, obs, dropped, spc, arg, quiet, histVars>>

ResetStopAutosteer ==
  /\ Step("reset1", "reset2")
  /\ StopAutosteer
  /\ UNCHANGED <<inline, flagVars, active, obs, dropped, spc, arg, quiet, histVars>>

ResetRestoreTask ==
  /\ Step("reset2", "reset3")
  /\ SetTask(InitialTask)
  /\ UNCHANGED <<inline, flagVars, active, obs, dropped, spc, arg, quiet, histVars>>

ResetRequest ==
  /\ Step("reset3", "reset4")
  /\ resetReq' = TRUE
  /\ UNCHANGED <<channelVars, inline, startReq, stopReq, segStop, shutdown, running, stopped,
                 stratFailed, engineFailed, active, obs, dropped, spc, arg, quiet, histVars>>

\* Faulty variant: the request is raised but the segment is not ended.
ResetLeavesSegment ==
  /\ Step("reset4", "free")
  /\ lastCmd' = "reset"
  /\ UNCHANGED <<channelVars, inline, flagVars, active, obs, dropped, spc, arg, quiet, asked,
                 reported>>

ResetEndSegment ==
  /\ Step("reset4", "free")
  /\ segStop' = TRUE
  /\ lastCmd' = "reset"
  /\ UNCHANGED <<channelVars, inline, startReq, resetReq, stopReq, shutdown, running, stopped,
                 stratFailed, engineFailed, active, obs, dropped, spc, arg, quiet, asked, reported>>

Stop ==
  /\ ~stopped
  /\ Call("stop1")
  /\ startReq' = FALSE
  /\ UNCHANGED <<channelVars, inline, resetReq, stopReq, segStop, shutdown, running, stopped,
                 stratFailed, engineFailed, active, obs, dropped, spc, arg, quiet, histVars>>

StopRequest ==
  /\ Step("stop1", "stop2")
  /\ stopReq' = TRUE
  /\ UNCHANGED <<channelVars, inline, startReq, resetReq, segStop, shutdown, running, stopped,
                 stratFailed, engineFailed, active, obs, dropped, spc, arg, quiet, histVars>>

StopEndSegment ==
  /\ Step("stop2", "free")
  /\ segStop' = TRUE
  /\ lastCmd' = "stop"
  /\ UNCHANGED <<channelVars, inline, startReq, resetReq, stopReq, shutdown, running, stopped,
                 stratFailed, engineFailed, active, obs, dropped, spc, arg, quiet, asked, reported>>

\* set_task(t): the sequencer would overwrite the instruction, so it stops first.
SetTaskBegin ==
  /\ ~stopped /\ ~stopReq
  /\ Call("set1")
  /\ arg' \in NewTasks
  /\ UNCHANGED <<channelVars, inline, flagVars, active, obs, dropped, spc, quiet, histVars>>

SetTaskStopAutosteer ==
  /\ Step("set1", "set2")
  /\ StopAutosteer
  /\ UNCHANGED <<inline, flagVars, active, obs, dropped, spc, arg, quiet, histVars>>

SetTaskApply ==
  /\ Step("set2", "free")
  /\ SetTask(arg)
  /\ arg' = InitialTask
  /\ UNCHANGED <<inline, flagVars, active, obs, dropped, spc, quiet, histVars>>

\* Faulty variant: a question is taken whether or not a segment runs.
AskWhileIdle(q) ==
  /\ q \notin asked
  /\ Call("free")
  /\ Ask(q)
  /\ asked' = asked \cup {q}
  /\ UNCHANGED <<inline, flagVars, active, obs, dropped, spc, arg, quiet, reported, lastCmd>>

\* ask(), autosteer() and stop_autosteer() have one critical section each.
AskQuestion(q) ==
  /\ running /\ q \notin asked
  /\ Call("free")
  /\ Ask(q)
  /\ asked' = asked \cup {q}
  /\ UNCHANGED <<inline, flagVars, active, obs, dropped, spc, arg, quiet, reported, lastCmd>>

Autosteer(g) ==
  /\ running
  /\ Call("free")
  /\ StartAutosteer(g)
  /\ UNCHANGED <<inline, flagVars, active, obs, dropped, spc, arg, quiet, histVars>>

CallStopAutosteer ==
  /\ goal # None
  /\ Call("free")
  /\ StopAutosteer
  /\ UNCHANGED <<inline, flagVars, active, obs, dropped, spc, arg, quiet, histVars>>

\* The process-wide shutdown event (a signal handler sets it).
ParentShutdown ==
  /\ ~shutdown
  /\ shutdown' = TRUE
  /\ UNCHANGED <<channelVars, inline, startReq, resetReq, stopReq, segStop, running, stopped,
                 stratFailed, engineFailed, active, obs, dropped, spc, opc, arg, quiet, histVars>>

\* From here on no operator calls a control method.
OperatorsLeave ==
  /\ ~quiet
  /\ quiet' = TRUE
  /\ UNCHANGED <<channelVars, inline, flagVars, active, obs, dropped, spc, opc, arg, histVars>>

---------------------------------------------------------------------------
(* The serve loop.                                                         *)

Goto(from, to) == spc = from /\ spc' = to

\* Faulty variant: a stop request is left to the segments.
ServeCheckNoStop ==
  /\ Goto("check", IF shutdown \/ engineFailed \/ stratFailed THEN "exit" ELSE "reset?")
  /\ UNCHANGED <<channelVars, inline, flagVars, active, obs, dropped, opc, arg, quiet, histVars>>

ServeCheck ==
  /\ Goto("check", IF shutdown \/ engineFailed \/ stratFailed \/ stopReq THEN "exit" ELSE "reset?")
  /\ UNCHANGED <<channelVars, inline, flagVars, active, obs, dropped, opc, arg, quiet, histVars>>

ServeReset ==
  /\ Goto("reset?", IF resetReq THEN "resetting" ELSE "start?")
  /\ resetReq' = FALSE
  /\ UNCHANGED <<channelVars, inline, startReq, stopReq, segStop, shutdown, running, stopped,
                 stratFailed, engineFailed, active, obs, dropped, opc, arg, quiet, histVars>>

\* _reset_robot: pause the engine and drive the robot home; the move may fail,
\* or be skipped, and no flag cuts it short.
ResetRobot ==
  /\ Goto("resetting", "check")
  /\ active' = FALSE
  /\ UNCHANGED <<channelVars, inline, flagVars, obs, dropped, opc, arg, quiet, histVars>>

ServeStart ==
  /\ Goto("start?", IF startReq THEN "arm" ELSE "idle")
  /\ UNCHANGED <<channelVars, inline, flagVars, active, obs, dropped, opc, arg, quiet, histVars>>

\* Under _control_lock: read the request again, consume it, mark the run.
ServeArm ==
  /\ opc = "free"
  /\ Goto("arm", IF startReq THEN "clear" ELSE "check")
  /\ running' = startReq
  /\ startReq' = FALSE
  /\ UNCHANGED <<channelVars, inline, resetReq, stopReq, segStop, shutdown, stopped,
                 stratFailed, engineFailed, active, obs, dropped, opc, arg, quiet, histVars>>

Reported == [q \in Questions |-> reported[q] + ready[q]]

\* Faulty variant: an idle serve loop delivers nothing.
IdleNoPump ==
  /\ Goto("idle", "wait")
  /\ UNCHANGED <<channelVars, inline, flagVars, active, obs, dropped, opc, arg, quiet, histVars>>

IdlePump ==
  /\ Goto("idle", "wait")
  /\ DeliverAnswers
  /\ reported' = Reported
  /\ UNCHANGED <<inline, flagVars, active, obs, dropped, opc, arg, quiet, asked, lastCmd>>

ServeWait ==
  /\ Goto("wait", "check")
  /\ UNCHANGED <<channelVars, inline, flagVars, active, obs, dropped, opc, arg, quiet, histVars>>

ServeExit ==
  /\ Goto("exit", "done")
  /\ stopped' = TRUE
  /\ UNCHANGED <<channelVars, inline, startReq, resetReq, stopReq, segStop, shutdown, running,
                 stratFailed, engineFailed, active, obs, dropped, opc, arg, quiet, histVars>>

---------------------------------------------------------------------------
(* One segment: _run_segment around strategy.run().                        *)

SegmentClear ==
  /\ Goto("clear", "begin")
  /\ segStop' = FALSE
  /\ UNCHANGED <<channelVars, inline, startReq, resetReq, stopReq, shutdown, running, stopped,
                 stratFailed, engineFailed, active, obs, dropped, opc, arg, quiet, histVars>>

\* Faulty variant: a dying engine's signal is not checked for again.
InterruptedByRequest == stopReq \/ resetReq \/ shutdown

Interrupted == stopReq \/ resetReq \/ shutdown \/ engineFailed

\* The request flags are checked, the control state is reset and run() resumes the engine.
SegmentBegin ==
  /\ Goto("begin", IF Interrupted THEN "end1" ELSE "tick")
  /\ active' = (active \/ ~Interrupted)
  /\ obs' = (obs /\ Interrupted)
  /\ UNCHANGED <<channelVars, inline, flagVars, dropped, opc, arg, quiet, histVars>>

\* The loop condition; it may also leave because its duration has elapsed.
TickCheck ==
  /\ spc = "tick"
  /\ spc' \in (IF SegmentStopSet THEN {"pause"} ELSE {"observe", "pause"})
  /\ UNCHANGED <<channelVars, inline, flagVars, active, obs, dropped, opc, arg, quiet, histVars>>

\* Observe and act; robot or policy errors leave run() as an exception.
TickObserve ==
  /\ spc = "observe"
  /\ \/ /\ spc' = "poll"
        /\ obs' = TRUE
        /\ UNCHANGED stratFailed
     \/ /\ spc' = "pause"
        /\ stratFailed' = TRUE
        /\ UNCHANGED obs
  /\ UNCHANGED <<channelVars, inline, startReq, resetReq, stopReq, segStop, shutdown, running,
                 stopped, engineFailed, active, dropped, opc, arg, quiet, histVars>>

TickPoll ==
  /\ Goto("poll", IF inline THEN "service" ELSE "deliver")
  /\ PollAutosteer
  /\ UNCHANGED <<inline, flagVars, active, obs, dropped, opc, arg, quiet, histVars>>

\* An inline backend serves the query before pump_query goes on.
TickService ==
  /\ Goto("service", IF pending # None THEN "serving" ELSE "deliver")
  /\ TakeQuery("top", "top")
  /\ UNCHANGED <<inline, flagVars, active, obs, dropped, opc, arg, quiet, histVars>>

TickServed ==
  /\ svc = "top"
  /\ Goto("serving", "deliver")
  /\ UNCHANGED <<channelVars, inline, flagVars, active, obs, dropped, opc, arg, quiet, histVars>>

TickDeliver ==
  /\ Goto("deliver", "tick")
  /\ DeliverAnswers
  /\ reported' = Reported
  /\ UNCHANGED <<inline, flagVars, active, obs, dropped, opc, arg, quiet, asked, lastCmd>>

SegmentPause ==
  /\ Goto("pause", "end1")
  /\ active' = FALSE
  /\ UNCHANGED <<channelVars, inline, flagVars, obs, dropped, opc, arg, quiet, histVars>>

\* The finally block takes _control_lock and clears _running with it held.
SegmentNotRunning ==
  /\ opc = "free"
  /\ Goto("end1", "end2")
  /\ running' = FALSE
  /\ UNCHANGED <<channelVars, inline, startReq, resetReq, stopReq, segStop, shutdown, stopped,
                 stratFailed, engineFailed, active, obs, dropped, opc, arg, quiet, histVars>>

SegmentStopAutosteer ==
  /\ Goto("end2", "end3")
  /\ StopAutosteer
  /\ UNCHANGED <<inline, flagVars, active, obs, dropped, opc, arg, quiet, histVars>>

\* Faulty variant: the pending query is noted but stays in the channel.
SegmentKeepsPending ==
  /\ Goto("end3", "end4")
  /\ dropped' = pending
  /\ UNCHANGED <<channelVars, inline, flagVars, active, obs, opc, arg, quiet, histVars>>

SegmentDropPending ==
  /\ Goto("end3", "end4")
  /\ dropped' = pending
  /\ DropPendingQuery
  /\ UNCHANGED <<inline, flagVars, active, obs, opc, arg, quiet, histVars>>

\* Faulty variant: all undelivered answers are dropped, not only the subtasks.
SegmentDropAllReady ==
  /\ Goto("end4", "report")
  /\ DeliverAnswers
  /\ UNCHANGED <<inline, flagVars, active, obs, dropped, opc, arg, quiet, histVars>>

SegmentDropReady ==
  /\ Goto("end4", "report")
  /\ DropReadySubtaskAnswers
  /\ UNCHANGED <<inline, flagVars, active, obs, dropped, opc, arg, quiet, histVars>>

\* Only a dropped question is reported, as an error answer.
SegmentReport ==
  /\ Goto("report", "ended")
  /\ reported' = [q \in Questions |-> reported[q] + (IF q = dropped THEN 1 ELSE 0)]
  /\ dropped' = None
  /\ UNCHANGED <<channelVars, inline, flagVars, active, obs, opc, arg, quiet, asked, lastCmd>>

\* SEGMENT_ENDED is emitted here unless the segment was interrupted or failed.
SegmentEnded ==
  /\ Goto("ended", "check")
  /\ UNCHANGED <<channelVars, inline, flagVars, active, obs, dropped, opc, arg, quiet, histVars>>

---------------------------------------------------------------------------
(* The thread that owns the policy.                                        *)

\* Top of _rtc_loop: go on only while active and with an observation.
RtcSnapshot ==
  /\ ~inline /\ active /\ obs
  /\ svc = "top" /\ svc' = "claim"
  /\ UNCHANGED <<task, goal, due, pending, inFlight, ready, query, ok, ctlVars>>

RtcTakeQuery == ~inline /\ TakeQuery("claim", "chunk") /\ UNCHANGED ctlVars

\* Where _service_query returns to.
Served == IF inline THEN "top" ELSE "reread"

ServeQuery ==
  /\ GenerateText \/ ApplySubtask(Served) \/ FailSubtask(Served) \/ PublishAnswer(Served)
  /\ UNCHANGED ctlVars

\* After a generation the observation is read again: a reset may have dropped it.
RtcReread ==
  /\ svc = "reread"
  /\ svc' = IF obs THEN "chunk" ELSE "top"
  /\ UNCHANGED <<task, goal, due, pending, inFlight, ready, query, ok, ctlVars>>

\* The chunk path (module RTCEngine) comes back, or ends in a fatal error.
RtcChunk ==
  /\ svc = "chunk"
  /\ svc' = "top"
  /\ UNCHANGED <<task, goal, due, pending, inFlight, ready, query, ok, ctlVars>>

RtcFatal ==
  /\ svc = "chunk"
  /\ svc' = "dying"
  /\ engineFailed' = TRUE
  /\ UNCHANGED <<task, goal, due, pending, inFlight, ready, query, ok, inline, startReq, resetReq,
                 stopReq, segStop, shutdown, running, stopped, stratFailed, active, obs, dropped,
                 spc, opc, arg, quiet, histVars>>

\* The engine's shutdown event is the segment's LinkedEvent, so set() is local.
RtcSignal ==
  /\ svc = "dying"
  /\ svc' = "dead"
  /\ segStop' = TRUE
  /\ UNCHANGED <<task, goal, due, pending, inFlight, ready, query, ok, inline, startReq, resetReq,
                 stopReq, shutdown, running, stopped, stratFailed, engineFailed, active, obs,
                 dropped, spc, opc, arg, quiet, histVars>>

IntervalPasses == IntervalElapses /\ UNCHANGED ctlVars

---------------------------------------------------------------------------
OperatorStep ==
  \/ StartRequest
  \/ ResetStopAutosteer \/ ResetRestoreTask \/ ResetRequest \/ ResetEndSegment
  \/ StopRequest \/ StopEndSegment
  \/ SetTaskStopAutosteer \/ SetTaskApply

OperatorCall ==
  \/ Start \/ Reset \/ Stop \/ SetTaskBegin \/ CallStopAutosteer
  \/ \E q \in Questions : AskQuestion(q)
  \/ \E g \in Goals : Autosteer(g)

Environment == ParentShutdown \/ OperatorsLeave \/ IntervalPasses

Serve ==
  \/ ServeCheck \/ ServeReset \/ ResetRobot \/ ServeStart \/ ServeArm
  \/ IdlePump \/ ServeWait \/ ServeExit
  \/ SegmentClear \/ SegmentBegin
  \/ TickCheck \/ TickObserve \/ TickPoll \/ TickService \/ TickServed \/ TickDeliver
  \/ SegmentPause \/ SegmentNotRunning \/ SegmentStopAutosteer
  \/ SegmentDropPending \/ SegmentDropReady \/ SegmentReport \/ SegmentEnded

PolicyThread ==
  RtcSnapshot \/ RtcTakeQuery \/ ServeQuery \/ RtcReread \/ RtcChunk \/ RtcFatal \/ RtcSignal

Next == OperatorCall \/ OperatorStep \/ Environment \/ Serve \/ PolicyThread

Spec == Init /\ [][Next]_vars

\* Threads keep running; operators need not call anything, but they leave at last.
FairSpec ==
  /\ Spec
  /\ WF_vars(Serve)
  /\ WF_vars(PolicyThread)
  /\ WF_vars(OperatorStep)
  /\ WF_vars(OperatorsLeave)

---------------------------------------------------------------------------
(* Safety.                                                                 *)

\* An accepted question is in exactly one place until it is reported, and it
\* is reported once: _run_segment's drop, the claim, the publication and the
\* two delivery points neither lose it nor answer it twice.
Places(q) ==
  (IF pending = q THEN 1 ELSE 0) + (IF Serving /\ query = q THEN 1 ELSE 0)
  + (IF dropped = q THEN 1 ELSE 0) + ready[q]

AskedOnceReportedOnce ==
  \A q \in Questions : Places(q) + reported[q] = IF q \in asked THEN 1 ELSE 0

\* A stop or reset request, or a dead engine, always ends the loop that is
\* running: the segment's event is set, or its setter is about to set it.
\* (The ordering note in _run_segment: clear first, check second; flag first,
\* event second.)
InterruptNeverLost ==
  spc \in Loop =>
    /\ stopReq \/ resetReq => segStop \/ opc \in {"stop2", "reset4"}
    /\ engineFailed => segStop \/ svc = "dying"

\* No query and no sequencer outlives its segment: none waits for the next
\* run to be answered from a different scene.
ChannelOnlyInSegment ==
  /\ pending # None => running \/ spc \in {"end2", "end3"}
  /\ goal # None => running \/ spc = "end2"

\* The sequencer never has two turns at once: one queued while another is
\* being generated, or a question answered as a turn of it.
OneTurnAtATime ==
  pending \in Goals => ~(Serving /\ query \in Goals)

\* The instruction changes only by an operator, while no sequencer is on, or
\* by a turn of the very sequencer that is on: a generation that outlives its
\* sequencer never overwrites what the operator set.
OnlyLiveSequencerSteers ==
  [][task' # task => \/ opc \in {"reset2", "set2"} /\ goal = None
                     \/ svc = "resolve" /\ goal = query]_vars

\* A segment starts only for a start() that no later reset() or stop() has
\* taken back (last command wins).
CancelledStartNeverRuns ==
  [][spc = "begin" /\ spc' = "tick" => lastCmd = "start"]_vars

\* What has become of a question, for the operator who asked it.
QuestionStatus(q) ==
  IF q \notin asked THEN "new"
  ELSE IF pending = q THEN "waiting"
  ELSE IF reported[q] = 0 THEN "taken" ELSE "reported"

Statuses == [q \in Questions |-> QuestionStatus(q)]

Desk == INSTANCE QuestionDesk WITH open <- running, status <- Statuses

\* The controller, its engine and its policy thread implement the question desk:
\* what segments, resets and interleaved deliveries do to a question is one of
\* the five steps the abstract specification allows.
ImplementsQuestionDesk == Desk!DeskSpec

---------------------------------------------------------------------------
(* Liveness, under FairSpec.                                               *)

\* stop() ends serve().
StopEndsServe == stopReq ~> stopped

\* A reset that was requested is carried out, unless serve() ends first.
ResetIsServed == resetReq ~> (spc = "resetting" \/ stopped)

\* An accepted question is reported, unless serve() ends first.
QuestionIsReported ==
  \A q \in Questions : q \in asked ~> (reported[q] > 0 \/ stopped)

---------------------------------------------------------------------------
(* What the comments say and the code does not do.                         *)

\* controller.py:423: the idle pump does not announce a subtask once its
\* sequencer has ended with the segment.
NoLateAnnouncement ==
  spc = "idle" => \A g \in Goals : ready[g] = 0

\* controller.py:231: a start that was accepted is run, unless a later
\* command, a failure or the shutdown takes it back.
AcceptedStartRuns ==
  (lastCmd = "start" /\ startReq) ~> (spc \in Loop \/ lastCmd # "start" \/ stopped)

=============================================================================
