----------------------- MODULE RolloutController_proofs -----------------------
(***************************************************************************)
(* Proofs about RolloutController, for any sets of questions, goals,       *)
(* subtasks and instructions.                                              *)
(*                                                                         *)
(* The safety properties are proved from one inductive invariant in two    *)
(* halves: ControlInv (types, flags, program counters, the channel) and,   *)
(* on top of it, AskedOnceReportedOnce (the accounting of the questions).  *)
(* The refinement of QuestionDesk comes last.                              *)
(***************************************************************************)
EXTENDS RolloutController, TLAPS

(* Next of the serve and policy threads, by the part of the code.          *)
ServeLoop ==
  \/ ServeCheck \/ ServeReset \/ ResetRobot \/ ServeStart \/ ServeArm
  \/ IdlePump \/ ServeWait \/ ServeExit

SegmentStep ==
  \/ SegmentClear \/ SegmentBegin \/ SegmentPause \/ SegmentNotRunning
  \/ SegmentStopAutosteer \/ SegmentDropPending \/ SegmentDropReady
  \/ SegmentReport \/ SegmentEnded

Tick == TickCheck \/ TickObserve \/ TickPoll \/ TickService \/ TickServed \/ TickDeliver

RtcStep == RtcSnapshot \/ RtcTakeQuery \/ RtcReread \/ RtcChunk \/ RtcFatal \/ RtcSignal

(* _query_in_flight says that a claimed query is not published yet.        *)
InFlightIsServing == inFlight <=> Serving

(* What is being served is a query; only a turn of the sequencer is        *)
(* resolved into a task.                                                   *)
ServedQuery ==
  /\ Serving => query \in Queries
  /\ svc = "resolve" => query \in Goals

(* _running is set exactly from the arming to the finally block.           *)
Segment == {"clear", "begin", "pause", "end1"} \cup Loop

RunningInSegment == running <=> spc \in Segment

DroppedOnce == dropped # None => spc \in {"end4", "report"}

(* reset() and set_task() change the task with the sequencer off: no       *)
(* autosteer() gets in between, for they hold the lock.                    *)
SteerOff == opc \in {"reset2", "set2"} => goal = None

(* A pending start is the last command; one that was consumed may have     *)
(* been overtaken, but then the overtaking request is up.                  *)
LastCommand ==
  /\ startReq => lastCmd = "start"
  /\ opc \in {"reset1", "reset2", "reset3", "reset4", "stop1", "stop2"} => ~startReq
  /\ spc \in {"clear", "begin"} => lastCmd = "start" \/ resetReq \/ stopReq
  /\ spc \in {"clear", "begin"} /\ opc = "reset4" => resetReq
  /\ opc = "stop2" => stopReq

ControlInv ==
  /\ TypeOK
  /\ InFlightIsServing /\ ServedQuery /\ RunningInSegment /\ DroppedOnce /\ SteerOff /\ LastCommand
  /\ InterruptNeverLost /\ ChannelOnlyInSegment /\ OneTurnAtATime

-----------------------------------------------------------------------------
(* _take_query empties the slot and marks what it took as in flight.       *)
LEMMA TakeQueryFacts ==
  ASSUME TypeOK, InFlightIsServing,
         NEW from \in {"top", "claim"}, NEW otherwise \in {"top", "chunk"},
         TakeQuery(from, otherwise)
  PROVE  /\ svc = from /\ svc' \in {"generate", otherwise}
         /\ query' = pending /\ query' \in Queries \cup {None} /\ pending' = None
         /\ inFlight' \in BOOLEAN
         /\ inFlight' <=> svc' = "generate"
         /\ svc' = "generate" <=> pending # None
         /\ UNCHANGED <<task, goal, due, ready, ok>>
<1> USE DEF TypeOK, ChannelTypeOK
<1>1. svc = from /\ query' = pending /\ pending' = None /\ UNCHANGED <<task, goal, due, ready, ok>>
  BY DEF TakeQuery
<1>2. ~inFlight
  BY <1>1, Zenon DEF InFlightIsServing, Serving
<1>3. CASE pending = None
  <2>1. svc' = otherwise /\ inFlight' = inFlight
    BY <1>3 DEF TakeQuery
  <2> QED BY <1>1, <1>2, <1>3, <2>1
<1>4. CASE pending # None
  <2>1. svc' = "generate" /\ inFlight' = TRUE
    BY <1>4 DEF TakeQuery
  <2> QED BY <1>1, <1>4, <2>1
<1> QED BY <1>3, <1>4

(* The initial state satisfies the control invariant.                      *)
LEMMA InitEstablishesControlInv ==
  ASSUME Init
  PROVE  ControlInv
BY QueryAssumption
   DEF Init, ChannelInit, ControlInv, TypeOK, ChannelTypeOK, NoAnswers, InFlightIsServing, ServedQuery,
       RunningInSegment, DroppedOnce, SteerOff, LastCommand, InterruptNeverLost, ChannelOnlyInSegment,
       OneTurnAtATime, Queries, Tasks, Serving, Loop, Segment, ServePCs, OperatorPCs

(* Entering a control method keeps the control invariant.                 *)
LEMMA CallKeepsControlInv ==
  ASSUME ControlInv, OperatorCall
  PROVE  ControlInv'
<1> USE QueryAssumption
        DEF ControlInv, TypeOK, ChannelTypeOK, InFlightIsServing, ServedQuery, RunningInSegment,
            DroppedOnce, SteerOff, LastCommand, InterruptNeverLost, ChannelOnlyInSegment, OneTurnAtATime,
            Queries, Tasks, Serving, Loop, Segment, ServePCs, OperatorPCs, channelVars, servingVars,
            ctlVars, flagVars, histVars, Call, Step, Goto
<1>1. CASE Start
  BY <1>1 DEF Start
<1>2. CASE Reset
  <2>1. ~startReq' /\ startReq' \in BOOLEAN
    BY ONLY <1>2, Zenon DEF Reset
  <2> QED BY <1>2, <2>1 DEF Reset
<1>3. CASE Stop
  <2>1. ~startReq' /\ startReq' \in BOOLEAN
    BY ONLY <1>3, Zenon DEF Stop
  <2> QED BY <1>3, <2>1 DEF Stop
<1>4. CASE SetTaskBegin
  BY <1>4 DEF SetTaskBegin
<1>5. CASE CallStopAutosteer
  BY <1>5 DEF CallStopAutosteer, StopAutosteer
<1>6. ASSUME NEW q \in Questions, AskQuestion(q) PROVE ControlInv'
  BY <1>6 DEF AskQuestion, Ask, CanQueue
<1>7. ASSUME NEW g \in Goals, Autosteer(g) PROVE ControlInv'
  BY <1>7 DEF Autosteer, StartAutosteer
<1> QED BY ONLY OperatorCall, <1>1, <1>2, <1>3, <1>4, <1>5, <1>6, <1>7 DEF OperatorCall

(* The later steps of a control method keep it.                           *)
LEMMA OperatorKeepsControlInv ==
  ASSUME ControlInv, OperatorStep
  PROVE  ControlInv'
<1> USE QueryAssumption
        DEF ControlInv, TypeOK, ChannelTypeOK, InFlightIsServing, ServedQuery, RunningInSegment,
            DroppedOnce, SteerOff, LastCommand, InterruptNeverLost, ChannelOnlyInSegment, OneTurnAtATime,
            Queries, Tasks, Serving, Loop, Segment, ServePCs, OperatorPCs, channelVars, servingVars,
            ctlVars, flagVars, histVars, Call, Step, Goto
<1>1. CASE StartRequest
  BY <1>1 DEF StartRequest
<1>2. CASE ResetStopAutosteer
  BY <1>2 DEF ResetStopAutosteer, StopAutosteer
<1>3. CASE ResetRestoreTask
  BY <1>3 DEF ResetRestoreTask, SetTask
<1>4. CASE ResetRequest
  BY <1>4 DEF ResetRequest
<1>5. CASE ResetEndSegment
  BY <1>5 DEF ResetEndSegment
<1>6. CASE StopRequest
  BY <1>6 DEF StopRequest
<1>7. CASE StopEndSegment
  BY <1>7 DEF StopEndSegment
<1>8. CASE SetTaskStopAutosteer
  BY <1>8 DEF SetTaskStopAutosteer, StopAutosteer
<1>9. CASE SetTaskApply
  BY <1>9 DEF SetTaskApply, SetTask
<1> QED BY ONLY OperatorStep, <1>1, <1>2, <1>3, <1>4, <1>5, <1>6, <1>7, <1>8, <1>9 DEF OperatorStep

(* So do the shutdown signal, the end of the commands and the clock.      *)
LEMMA EnvironmentKeepsControlInv ==
  ASSUME ControlInv, Environment
  PROVE  ControlInv'
<1> USE QueryAssumption
        DEF ControlInv, TypeOK, ChannelTypeOK, InFlightIsServing, ServedQuery, RunningInSegment,
            DroppedOnce, SteerOff, LastCommand, InterruptNeverLost, ChannelOnlyInSegment, OneTurnAtATime,
            Queries, Tasks, Serving, Loop, Segment, ServePCs, OperatorPCs, channelVars, servingVars,
            ctlVars, flagVars, histVars, Call, Step, Goto
<1>1. CASE ParentShutdown
  BY <1>1 DEF ParentShutdown
<1>2. CASE OperatorsLeave
  BY <1>2 DEF OperatorsLeave
<1>3. CASE IntervalPasses
  BY <1>3 DEF IntervalPasses, IntervalElapses
<1> QED BY ONLY Environment, <1>1, <1>2, <1>3 DEF Environment

(* The serve loop outside a segment keeps it.                              *)
LEMMA IdleKeepsControlInv ==
  ASSUME ControlInv, ServeLoop
  PROVE  ControlInv'
<1> USE QueryAssumption
        DEF ControlInv, TypeOK, ChannelTypeOK, InFlightIsServing, ServedQuery, RunningInSegment,
            DroppedOnce, SteerOff, LastCommand, InterruptNeverLost, ChannelOnlyInSegment, OneTurnAtATime,
            Queries, Tasks, Serving, Loop, Segment, ServePCs, OperatorPCs, channelVars, servingVars,
            ctlVars, flagVars, histVars, Call, Step, Goto
<1>1. CASE ServeCheck
  BY <1>1 DEF ServeCheck
<1>2. CASE ServeReset
  <2>1. ~resetReq' /\ resetReq' \in BOOLEAN
    BY ONLY <1>2, Zenon DEF ServeReset
  <2> QED BY <1>2, <2>1 DEF ServeReset
<1>3. CASE ResetRobot
  <2>1. ~active' /\ active' \in BOOLEAN
    BY ONLY <1>3, Zenon DEF ResetRobot
  <2> QED BY <1>3, <2>1 DEF ResetRobot
<1>4. CASE ServeStart
  BY <1>4 DEF ServeStart
<1>5. CASE ServeArm
  <2>1. ~startReq' /\ startReq' \in BOOLEAN /\ running' = startReq
    BY ONLY <1>5, Zenon DEF ServeArm
  <2>2. CASE startReq
    BY <1>5, <2>1, <2>2 DEF ServeArm
  <2>3. CASE ~startReq
    BY <1>5, <2>1, <2>3 DEF ServeArm
  <2> QED BY ONLY <2>2, <2>3
<1>6. CASE IdlePump
  BY <1>6 DEF IdlePump, DeliverAnswers, Reported, NoAnswers
<1>7. CASE ServeWait
  BY <1>7 DEF ServeWait
<1>8. CASE ServeExit
  BY <1>8 DEF ServeExit
<1> QED BY ONLY ServeLoop, <1>1, <1>2, <1>3, <1>4, <1>5, <1>6, <1>7, <1>8 DEF ServeLoop

(* The steps of _run_segment around the strategy keep it.                  *)
LEMMA SegmentKeepsControlInv ==
  ASSUME ControlInv, SegmentStep
  PROVE  ControlInv'
<1> USE QueryAssumption
        DEF ControlInv, TypeOK, ChannelTypeOK, InFlightIsServing, ServedQuery, RunningInSegment,
            DroppedOnce, SteerOff, LastCommand, InterruptNeverLost, ChannelOnlyInSegment, OneTurnAtATime,
            Queries, Tasks, Serving, Loop, Segment, ServePCs, OperatorPCs, channelVars, servingVars,
            ctlVars, flagVars, histVars, Call, Step, Goto
<1>1. CASE SegmentClear
  <2>1. ~segStop' /\ segStop' \in BOOLEAN
    BY ONLY <1>1, Zenon DEF SegmentClear
  <2> QED BY <1>1, <2>1 DEF SegmentClear
<1>2. CASE SegmentBegin
  BY <1>2 DEF SegmentBegin, Interrupted
<1>3. CASE SegmentPause
  <2>1. ~active' /\ active' \in BOOLEAN
    BY ONLY <1>3, Zenon DEF SegmentPause
  <2> QED BY <1>3, <2>1 DEF SegmentPause
<1>4. CASE SegmentNotRunning
  <2>1. ~running' /\ running' \in BOOLEAN
    BY ONLY <1>4, Zenon DEF SegmentNotRunning
  <2> QED BY <1>4, <2>1 DEF SegmentNotRunning
<1>5. CASE SegmentStopAutosteer
  BY <1>5 DEF SegmentStopAutosteer, StopAutosteer
<1>6. CASE SegmentDropPending
  BY <1>6 DEF SegmentDropPending, DropPendingQuery
<1>7. CASE SegmentDropReady
  BY <1>7 DEF SegmentDropReady, DropReadySubtaskAnswers
<1>8. CASE SegmentReport
  BY <1>8 DEF SegmentReport
<1>9. CASE SegmentEnded
  BY <1>9 DEF SegmentEnded
<1> QED BY ONLY SegmentStep, <1>1, <1>2, <1>3, <1>4, <1>5, <1>6, <1>7, <1>8, <1>9 DEF SegmentStep

(* The ticks of the strategy keep it.                                      *)
LEMMA TickKeepsControlInv ==
  ASSUME ControlInv, Tick
  PROVE  ControlInv'
<1> USE QueryAssumption
        DEF ControlInv, TypeOK, ChannelTypeOK, InFlightIsServing, ServedQuery, RunningInSegment,
            DroppedOnce, SteerOff, LastCommand, InterruptNeverLost, ChannelOnlyInSegment, OneTurnAtATime,
            Queries, Tasks, Serving, Loop, Segment, ServePCs, OperatorPCs, channelVars, servingVars,
            ctlVars, flagVars, histVars, Call, Step, Goto
<1>1. CASE TickCheck
  BY <1>1 DEF TickCheck, SegmentStopSet
<1>2. CASE TickObserve
  <2>1. obs' \in BOOLEAN /\ stratFailed' \in BOOLEAN /\ spc = "observe" /\ spc' \in {"poll", "pause"}
    <3>1. obs' = obs \/ obs' = TRUE
      BY ONLY <1>2, Zenon DEF TickObserve
    <3>2. stratFailed' = stratFailed \/ stratFailed' = TRUE
      BY ONLY <1>2, Zenon DEF TickObserve
    <3>3. obs \in BOOLEAN /\ stratFailed \in BOOLEAN
      OBVIOUS
    <3>4. spc = "observe" /\ spc' \in {"poll", "pause"}
      BY <1>2 DEF TickObserve
    <3> QED BY ONLY <3>1, <3>2, <3>3, <3>4, Zenon
  <2>2. UNCHANGED <<channelVars, inline, startReq, resetReq, stopReq, segStop, shutdown, running,
                    stopped, engineFailed, active, dropped, opc, arg, quiet, histVars>>
    BY <1>2 DEF TickObserve
  <2> QED BY <2>1, <2>2
<1>3. CASE TickPoll
  BY <1>3 DEF TickPoll, PollAutosteer
<1>4. CASE TickService
  <2>1. TakeQuery("top", "top")
    BY <1>4 DEF TickService
  <2>2. spc = "service" /\ spc' \in {"serving", "deliver"}
    BY <1>4 DEF TickService
  <2>3. UNCHANGED <<inline, flagVars, active, obs, dropped, opc, arg, quiet, histVars>>
    BY ONLY <1>4 DEF TickService
  <2> QED BY <2>2, <2>3, TakeQueryFacts, <2>1
<1>5. CASE TickServed
  BY <1>5 DEF TickServed
<1>6. CASE TickDeliver
  BY <1>6 DEF TickDeliver, DeliverAnswers, Reported, NoAnswers
<1> QED BY ONLY Tick, <1>1, <1>2, <1>3, <1>4, <1>5, <1>6 DEF Tick

(* The RTC thread keeps it outside the service of a query...               *)
LEMMA RtcKeepsControlInv ==
  ASSUME ControlInv, RtcStep
  PROVE  ControlInv'
<1> USE QueryAssumption
        DEF ControlInv, TypeOK, ChannelTypeOK, InFlightIsServing, ServedQuery, RunningInSegment,
            DroppedOnce, SteerOff, LastCommand, InterruptNeverLost, ChannelOnlyInSegment, OneTurnAtATime,
            Queries, Tasks, Serving, Loop, Segment, ServePCs, OperatorPCs, channelVars, servingVars,
            ctlVars, flagVars, histVars, Call, Step, Goto
<1>1. CASE RtcSnapshot
  BY <1>1 DEF RtcSnapshot
<1>2. CASE RtcTakeQuery
  <2>1. TakeQuery("claim", "chunk") /\ UNCHANGED ctlVars
    BY ONLY <1>2 DEF RtcTakeQuery
  <2> QED BY <2>1, TakeQueryFacts
<1>3. CASE RtcReread
  BY <1>3 DEF RtcReread
<1>4. CASE RtcChunk
  BY <1>4 DEF RtcChunk
<1>5. CASE RtcFatal
  BY <1>5 DEF RtcFatal
<1>6. CASE RtcSignal
  BY <1>6 DEF RtcSignal
<1> QED BY ONLY RtcStep, <1>1, <1>2, <1>3, <1>4, <1>5, <1>6 DEF RtcStep

(* ... and while it generates, applies and publishes.                      *)
LEMMA QueryKeepsControlInv ==
  ASSUME ControlInv, ServeQuery
  PROVE  ControlInv'
<1> USE QueryAssumption
        DEF ControlInv, TypeOK, ChannelTypeOK, InFlightIsServing, ServedQuery, RunningInSegment,
            DroppedOnce, SteerOff, LastCommand, InterruptNeverLost, ChannelOnlyInSegment, OneTurnAtATime,
            Queries, Tasks, Serving, Loop, Segment, ServePCs, OperatorPCs, channelVars, servingVars,
            ctlVars, flagVars, histVars, Call, Step, Goto
<1> ctlVars' = ctlVars
  BY ONLY ServeQuery DEF ServeQuery
<1>1. CASE GenerateText
  <2>1. /\ svc = "generate" /\ svc' \in {"resolve", "publish"} /\ (svc' = "resolve" => query \in Goals)
        /\ UNCHANGED <<task, goal, due, pending, inFlight, ready, query>>
    BY <1>1 DEF GenerateText
  <2>2. ok' \in BOOLEAN
    BY ONLY <1>1, Zenon DEF GenerateText
  <2> QED BY <2>1, <2>2
<1>2. ASSUME svc = "resolve", DiscardTurn(Served) PROVE ControlInv'
  <2>1. ~inFlight' /\ inFlight' \in BOOLEAN
    BY ONLY <1>2, Zenon DEF DiscardTurn
  <2>2. svc' \in {"top", "reread"} /\ query' = None /\ UNCHANGED <<task, goal, due, pending, ready, ok>>
    BY ONLY <1>2 DEF DiscardTurn, Served
  <2> QED BY <1>2, <2>1, <2>2
<1>3. CASE ApplySubtask(Served)
  <2>1. CASE SequencerLive
    <3>1. due' = FALSE
      BY ONLY <1>3, <2>1 DEF ApplySubtask
    <3>2. due' \in BOOLEAN
      BY ONLY <3>1, Zenon
    <3>3. /\ svc = "resolve" /\ task' \in Subtasks /\ svc' = "publish"
          /\ UNCHANGED <<goal, pending, inFlight, ready, query, ok>>
      BY ONLY <1>3, <2>1 DEF ApplySubtask
    <3> QED BY <3>2, <3>3
  <2>2. CASE ~SequencerLive
    BY ONLY <1>2, <1>3, <2>2 DEF ApplySubtask
  <2> QED BY ONLY <2>1, <2>2
<1>4. CASE FailSubtask(Served)
  <2>1. CASE SequencerLive
    BY <1>4, <2>1 DEF FailSubtask
  <2>2. CASE ~SequencerLive
    BY ONLY <1>2, <1>4, <2>2 DEF FailSubtask
  <2> QED BY ONLY <2>1, <2>2
<1>5. CASE PublishAnswer(Served)
  <2>1. ~inFlight' /\ inFlight' \in BOOLEAN
    BY ONLY <1>5, Zenon DEF PublishAnswer
  <2>2. /\ svc = "publish" /\ svc' \in {"top", "reread"} /\ query' = None
        /\ UNCHANGED <<task, goal, due, pending, ok>>
    BY ONLY <1>5 DEF PublishAnswer, Served
  <2>3. ready' \in [Queries -> Nat]
    BY <1>5 DEF PublishAnswer
  <2> QED BY <2>1, <2>2, <2>3
<1> QED BY ONLY ServeQuery, <1>1, <1>3, <1>4, <1>5 DEF ServeQuery

(* A stuttering step keeps it.                                             *)
LEMMA StutterKeepsControlInv ==
  ASSUME ControlInv, UNCHANGED vars
  PROVE  ControlInv'
BY DEF ControlInv, TypeOK, ChannelTypeOK, InFlightIsServing, ServedQuery, RunningInSegment, DroppedOnce,
   SteerOff, LastCommand, InterruptNeverLost, ChannelOnlyInSegment, OneTurnAtATime, Serving, vars,
   channelVars, ctlVars, flagVars, histVars

(* Every step of the system keeps the control invariant.                   *)
LEMMA NextKeepsControlInv ==
  ASSUME ControlInv, [Next]_vars
  PROVE  ControlInv'
<1>1. CASE OperatorCall BY <1>1, CallKeepsControlInv
<1>2. CASE OperatorStep BY <1>2, OperatorKeepsControlInv
<1>3. CASE Environment  BY <1>3, EnvironmentKeepsControlInv
<1>4. CASE Serve
  <2>1. ServeLoop \/ SegmentStep \/ Tick
    BY <1>4 DEF Serve, ServeLoop, SegmentStep, Tick
  <2> QED BY <2>1, IdleKeepsControlInv, SegmentKeepsControlInv, TickKeepsControlInv
<1>5. CASE PolicyThread
  <2>1. RtcStep \/ ServeQuery
    BY <1>5 DEF PolicyThread, RtcStep
  <2> QED BY <2>1, RtcKeepsControlInv, QueryKeepsControlInv
<1>6. CASE UNCHANGED vars BY <1>6, StutterKeepsControlInv
<1> QED BY <1>1, <1>2, <1>3, <1>4, <1>5, <1>6 DEF Next

(* ControlInv holds in every reachable state of RolloutController.         *)
THEOREM ControlInductive == Spec => []ControlInv
<1>1. Init => ControlInv
  BY InitEstablishesControlInv
<1>2. ControlInv /\ [Next]_vars => ControlInv'
  BY NextKeepsControlInv
<1> QED BY <1>1, <1>2, PTL DEF Spec

-----------------------------------------------------------------------------
(* Every variable of the controller and of the channel keeps its type.     *)
THEOREM ControllerTypeCorrect == Spec => []TypeOK
<1>1. ControlInv => TypeOK
  BY DEF ControlInv
<1> QED BY <1>1, ControlInductive, PTL

(* A stop, a reset or a dead engine is never lost on a running loop: the   *)
(* clear-then-check of _run_segment against flag-then-event of its callers. *)
THEOREM InterruptsAreNeverLost == Spec => []InterruptNeverLost
<1>1. ControlInv => InterruptNeverLost
  BY DEF ControlInv
<1> QED BY <1>1, ControlInductive, PTL

(* Neither a query nor a sequencer outlives the segment it was started in. *)
THEOREM ChannelEndsWithSegment == Spec => []ChannelOnlyInSegment
<1>1. ControlInv => ChannelOnlyInSegment
  BY DEF ControlInv
<1> QED BY <1>1, ControlInductive, PTL

(* The sequencer has one turn at a time.                                   *)
THEOREM SequencerTakesTurns == Spec => []OneTurnAtATime
<1>1. ControlInv => OneTurnAtATime
  BY DEF ControlInv
<1> QED BY <1>1, ControlInductive, PTL

(* The instruction is changed by an operator with the sequencer off, or by *)
(* the live sequencer: never by a generation that outlived its own.        *)
THEOREM TaskHasOneWriter == Spec => OnlyLiveSequencerSteers
<1> DEFINE Steer == \/ opc \in {"reset2", "set2"} /\ goal = None
                    \/ svc = "resolve" /\ goal = query
<1>1. ControlInv /\ [Next]_vars => [task' # task => Steer]_vars
  <2> SUFFICES ASSUME ControlInv, Next, task' # task PROVE Steer
    OBVIOUS
  <2> USE DEF channelVars, servingVars, ctlVars
  <2>1. CASE OperatorCall
    BY <2>1 DEF OperatorCall, Start, Reset, Stop, SetTaskBegin, CallStopAutosteer, StopAutosteer,
       AskQuestion, Ask, Autosteer, StartAutosteer
  <2>2. CASE OperatorStep
    <3>1. opc \in {"reset2", "set2"}
      BY <2>2 DEF OperatorStep, StartRequest, ResetStopAutosteer, ResetRestoreTask, ResetRequest,
         ResetEndSegment, StopRequest, StopEndSegment, SetTaskStopAutosteer, SetTaskApply, StopAutosteer,
         Step
    <3> QED BY <3>1 DEF ControlInv, SteerOff
  <2>3. CASE Environment
    BY <2>3 DEF Environment, ParentShutdown, OperatorsLeave, IntervalPasses, IntervalElapses
  <2>4. CASE Serve
    BY <2>4 DEF Serve, ServeCheck, ServeReset, ResetRobot, ServeStart, ServeArm, IdlePump, ServeWait,
       ServeExit, SegmentClear, SegmentBegin, TickCheck, TickObserve, TickPoll, TickService, TickServed,
       TickDeliver, SegmentPause, SegmentNotRunning, SegmentStopAutosteer, SegmentDropPending,
       SegmentDropReady, SegmentReport, SegmentEnded, DeliverAnswers, PollAutosteer, TakeQuery,
       StopAutosteer, DropPendingQuery, DropReadySubtaskAnswers
  <2>5. CASE PolicyThread
    BY <2>5 DEF PolicyThread, RtcSnapshot, RtcTakeQuery, TakeQuery, ServeQuery, RtcReread, RtcChunk,
       RtcFatal, RtcSignal, GenerateText, ApplySubtask, FailSubtask, DiscardTurn, SequencerLive,
       PublishAnswer
  <2> QED BY <2>1, <2>2, <2>3, <2>4, <2>5 DEF Next
<1> QED BY <1>1, ControlInductive, PTL DEF Spec, OnlyLiveSequencerSteers

(* Last command wins: a segment starts only for a start() that no later    *)
(* reset() or stop() has taken back.                                       *)
THEOREM LastCommandWins == Spec => CancelledStartNeverRuns
<1>1. ControlInv /\ [Next]_vars => [spc = "begin" /\ spc' = "tick" => lastCmd = "start"]_vars
  <2> SUFFICES ASSUME ControlInv, Next, spc = "begin", spc' = "tick" PROVE lastCmd = "start"
    OBVIOUS
  <2>1. SegmentBegin
    <3> USE DEF ctlVars, Goto
    <3>1. ~OperatorCall
      BY DEF OperatorCall, Start, Reset, Stop, SetTaskBegin, CallStopAutosteer, AskQuestion, Autosteer
    <3>2. ~OperatorStep
      BY DEF OperatorStep, StartRequest, ResetStopAutosteer, ResetRestoreTask, ResetRequest,
         ResetEndSegment, StopRequest, StopEndSegment, SetTaskStopAutosteer, SetTaskApply
    <3>3. ~Environment
      BY DEF Environment, ParentShutdown, OperatorsLeave, IntervalPasses
    <3>4. ~PolicyThread
      BY DEF PolicyThread, RtcSnapshot, RtcTakeQuery, ServeQuery, RtcReread, RtcChunk, RtcFatal, RtcSignal
    <3>5. Serve => SegmentBegin
      BY DEF Serve, ServeCheck, ServeReset, ResetRobot, ServeStart, ServeArm, IdlePump, ServeWait,
         ServeExit, SegmentClear, TickCheck, TickObserve, TickPoll, TickService, TickServed,
         TickDeliver, SegmentPause, SegmentNotRunning, SegmentStopAutosteer, SegmentDropPending,
         SegmentDropReady, SegmentReport, SegmentEnded
    <3> QED BY <3>1, <3>2, <3>3, <3>4, <3>5 DEF Next
  <2>2. ~Interrupted
    BY <2>1 DEF SegmentBegin, Goto
  <2> QED BY <2>2 DEF Interrupted, ControlInv, LastCommand
<1> QED BY <1>1, ControlInductive, PTL DEF Spec, CancelledStartNeverRuns

-----------------------------------------------------------------------------
(* The accounting of one question.                                         *)

Balanced(q) == Places(q) + reported[q] = IF q \in asked THEN 1 ELSE 0

accountVars == <<pending, query, dropped, ready, asked, reported>>

(* A step that moves no query keeps every balance.                         *)
LEMMA FrameKeepsBalance ==
  ASSUME NEW q \in Questions, Balanced(q), UNCHANGED accountVars, Serving' <=> Serving
  PROVE  Balanced(q)'
BY DEF Balanced, Places, accountVars

(* The control methods: only ask() accepts a question, one never seen, and *)
(* into an empty slot.                                                     *)
LEMMA OperatorKeepsBalance ==
  ASSUME ControlInv, NEW q \in Questions, Balanced(q), OperatorCall \/ OperatorStep \/ Environment
  PROVE  Balanced(q)'
<1>1. ASSUME NEW p \in Questions, AskQuestion(p) PROVE Balanced(q)'
  <2>1. /\ pending = None /\ pending' = p /\ p \notin asked /\ asked' = asked \cup {p}
        /\ UNCHANGED <<svc, query, dropped, ready, reported>>
    BY ONLY <1>1 DEF AskQuestion, Ask, CanQueue, servingVars
  <2>2. q # None
    BY QueryAssumption DEF Queries
  <2>3. Serving' <=> Serving
    BY <2>1 DEF Serving
  <2>4. reported[q] \in Nat /\ ready[q] \in Nat
    BY DEF ControlInv, TypeOK, ChannelTypeOK, Queries
  <2> QED BY ONLY Balanced(q), <2>1, <2>2, <2>3, <2>4 DEF Balanced, Places
<1>2. ASSUME ~(\E p \in Questions : AskQuestion(p)) PROVE Balanced(q)'
  <2>1. UNCHANGED accountVars /\ UNCHANGED svc
    <3> USE DEF accountVars, channelVars, servingVars, ctlVars, histVars
    <3>1. CASE OperatorCall
      BY <1>2, <3>1 DEF OperatorCall, Start, Reset, Stop, SetTaskBegin, CallStopAutosteer, StopAutosteer,
         Autosteer, StartAutosteer
    <3>2. CASE OperatorStep
      BY <3>2 DEF OperatorStep, StartRequest, ResetStopAutosteer, ResetRestoreTask, ResetRequest,
         ResetEndSegment, StopRequest, StopEndSegment, SetTaskStopAutosteer, SetTaskApply, StopAutosteer,
         SetTask
    <3>3. CASE Environment
      BY <3>3 DEF Environment, ParentShutdown, OperatorsLeave, IntervalPasses, IntervalElapses
    <3> QED BY <3>1, <3>2, <3>3
  <2> QED BY <2>1, FrameKeepsBalance DEF Serving
<1> QED BY <1>1, <1>2

(* pump_query's delivery reports what is ready and empties it.             *)
LEMMA DeliveryKeepsBalance ==
  ASSUME ControlInv, NEW q \in Questions, Balanced(q),
         DeliverAnswers, reported' = Reported, UNCHANGED <<dropped, asked>>
  PROVE  Balanced(q)'
<1>1. ready'[q] = 0 /\ reported'[q] = reported[q] + ready[q]
  BY DEF DeliverAnswers, NoAnswers, Reported, Queries
<1>2. reported[q] \in Nat /\ ready[q] \in Nat
  BY DEF ControlInv, TypeOK, ChannelTypeOK, Queries
<1>3. UNCHANGED <<pending, query, dropped, asked>> /\ (Serving' <=> Serving)
  BY DEF DeliverAnswers, servingVars, Serving
<1> QED BY ONLY <1>1, <1>2, <1>3, Balanced(q) DEF Balanced, Places

(* _take_query moves the query from the slot to the thread that serves it. *)
LEMMA TakeQueryKeepsBalance ==
  ASSUME ControlInv, NEW q \in Questions, Balanced(q),
         NEW from \in {"top", "claim"}, NEW otherwise \in {"top", "chunk"},
         TakeQuery(from, otherwise), UNCHANGED <<dropped, asked, reported>>
  PROVE  Balanced(q)'
<1>1. /\ svc = from /\ svc' \in {"generate", otherwise}
      /\ query' = pending /\ pending' = None
      /\ svc' = "generate" <=> pending # None
      /\ UNCHANGED ready
  BY TakeQueryFacts DEF ControlInv
<1>2. ~Serving /\ (Serving' <=> pending # None)
  BY <1>1 DEF Serving
<1>3. q # None
  BY QueryAssumption DEF Queries
<1>4. reported[q] \in Nat /\ ready[q] \in Nat
  BY DEF ControlInv, TypeOK, ChannelTypeOK, Queries
<1> QED BY ONLY <1>1, <1>2, <1>3, <1>4, Balanced(q), UNCHANGED <<dropped, asked, reported>>
        DEF Balanced, Places

(* The serve thread: the two delivery points, the inline service, the drop *)
(* of the pending query at the end of a segment and its report.            *)
LEMMA ServeKeepsBalance ==
  ASSUME ControlInv, NEW q \in Questions, Balanced(q), Serve
  PROVE  Balanced(q)'
<1> DEFINE Moves == \/ IdlePump \/ TickDeliver \/ TickPoll \/ TickService
                    \/ SegmentDropPending \/ SegmentDropReady \/ SegmentReport
<1>0. /\ reported[q] \in Nat /\ ready[q] \in Nat /\ q # None /\ q \in Queries /\ q \notin Goals
      /\ None \notin Queries
  BY QueryAssumption DEF ControlInv, TypeOK, ChannelTypeOK, Queries
<1>1. CASE ~Moves
  <2>1. UNCHANGED accountVars /\ UNCHANGED svc
    BY <1>1 DEF accountVars, channelVars, servingVars, histVars, Serve, ServeCheck, ServeReset, ResetRobot,
       ServeStart, ServeArm, ServeWait, ServeExit, SegmentClear, SegmentBegin, TickCheck, TickObserve,
       TickServed, SegmentPause, SegmentNotRunning, SegmentStopAutosteer, SegmentEnded, StopAutosteer
  <2> QED BY <2>1, FrameKeepsBalance DEF Serving
<1>2. CASE IdlePump \/ TickDeliver
  BY <1>2, DeliveryKeepsBalance DEF IdlePump, TickDeliver
<1>3. CASE TickPoll
  <2>0. /\ pending' = pending \/ (pending = None /\ goal # None /\ pending' = goal)
        /\ UNCHANGED <<svc, query, dropped, ready, asked, reported>>
    BY ONLY <1>3 DEF TickPoll, PollAutosteer, servingVars, histVars
  <2>1. /\ pending' = pending \/ (pending = None /\ pending' \in Goals)
        /\ UNCHANGED <<svc, query, dropped, ready, asked, reported>>
    BY <2>0 DEF ControlInv, TypeOK, ChannelTypeOK
  <2>2. Serving' <=> Serving
    BY <2>1 DEF Serving
  <2> QED BY ONLY <1>0, <2>1, <2>2, Balanced(q) DEF Balanced, Places
<1>4. CASE TickService
  BY <1>4, TakeQueryKeepsBalance DEF TickService, histVars
<1>5. CASE SegmentDropPending
  <2>1. /\ dropped' = pending /\ pending' = None /\ dropped = None
        /\ UNCHANGED <<svc, query, ready, asked, reported>>
    BY <1>5 DEF SegmentDropPending, DropPendingQuery, servingVars, histVars, Goto, ControlInv, DroppedOnce
  <2>2. Serving' <=> Serving
    BY <2>1 DEF Serving
  <2> QED BY ONLY <1>0, <2>1, <2>2, Balanced(q) DEF Balanced, Places
<1>6. CASE SegmentDropReady
  <2>1. ready'[q] = ready[q] /\ UNCHANGED <<svc, query, pending, dropped, asked, reported>>
    BY <1>0, <1>6 DEF SegmentDropReady, DropReadySubtaskAnswers, servingVars, histVars
  <2>2. Serving' <=> Serving
    BY <2>1 DEF Serving
  <2> QED BY ONLY <1>0, <2>1, <2>2, Balanced(q) DEF Balanced, Places
<1>7. CASE SegmentReport
  <2>1. /\ reported'[q] = reported[q] + (IF q = dropped THEN 1 ELSE 0)
        /\ dropped' = None /\ UNCHANGED <<svc, query, pending, ready, asked>>
    BY <1>7 DEF SegmentReport, channelVars
  <2>2. Serving' <=> Serving
    BY <2>1 DEF Serving
  <2> QED BY ONLY <1>0, <2>1, <2>2, Balanced(q) DEF Balanced, Places
<1> QED BY <1>1, <1>2, <1>3, <1>4, <1>5, <1>6, <1>7

(* The policy thread: a claimed question is published once; a turn that is *)
(* discarded is never a question.                                          *)
LEMMA PolicyKeepsBalance ==
  ASSUME ControlInv, NEW q \in Questions, Balanced(q), PolicyThread
  PROVE  Balanced(q)'
<1>0. /\ reported[q] \in Nat /\ ready[q] \in Nat /\ q # None /\ q \in Queries /\ q \notin Goals
  BY QueryAssumption DEF ControlInv, TypeOK, ChannelTypeOK, Queries
<1>1. CASE RtcSnapshot \/ RtcReread \/ RtcChunk \/ RtcFatal \/ RtcSignal
  <2>1. UNCHANGED accountVars /\ ~Serving /\ ~Serving'
    BY <1>1 DEF RtcSnapshot, RtcReread, RtcChunk, RtcFatal, RtcSignal, accountVars, ctlVars, histVars,
       Serving
  <2> QED BY <2>1, FrameKeepsBalance
<1>2. CASE RtcTakeQuery
  BY <1>2, TakeQueryKeepsBalance DEF RtcTakeQuery, ctlVars, histVars
<1>3. CASE ServeQuery
  <2>0. UNCHANGED <<dropped, asked, reported>> /\ Served \in {"top", "reread"}
    BY <1>3 DEF ServeQuery, ctlVars, histVars, Served
  <2>1. CASE GenerateText
    <3>1. UNCHANGED accountVars /\ Serving /\ Serving'
      BY <2>0, <2>1 DEF GenerateText, accountVars, Serving
    <3> QED BY <3>1, FrameKeepsBalance
  <2>2. ASSUME svc = "resolve", DiscardTurn(Served) PROVE Balanced(q)'
    <3>1. query # q /\ query' # q /\ UNCHANGED <<pending, ready>>
      BY <1>0, <2>2 DEF DiscardTurn, ControlInv, ServedQuery
    <3> QED BY ONLY <1>0, <2>0, <3>1, Balanced(q) DEF Balanced, Places
  <2>3. CASE ApplySubtask(Served) \/ FailSubtask(Served)
    <3>1. CASE SequencerLive
      <4>1. UNCHANGED accountVars /\ Serving /\ Serving'
        BY <2>0, <2>3, <3>1 DEF ApplySubtask, FailSubtask, accountVars, Serving
      <4> QED BY <4>1, FrameKeepsBalance
    <3>2. CASE ~SequencerLive
      BY <2>2, <2>3, <3>2 DEF ApplySubtask, FailSubtask
    <3> QED BY <3>1, <3>2
  <2>4. CASE PublishAnswer(Served)
    <3>1. /\ Serving /\ ~Serving' /\ UNCHANGED pending
          /\ ready'[q] = ready[q] + (IF query = q THEN 1 ELSE 0)
      BY <1>0, <2>0, <2>4 DEF PublishAnswer, Serving, ControlInv, TypeOK, ChannelTypeOK
    <3> QED BY ONLY <1>0, <2>0, <3>1, Balanced(q) DEF Balanced, Places
  <2> QED BY <1>3, <2>1, <2>3, <2>4 DEF ServeQuery
<1> QED BY <1>1, <1>2, <1>3 DEF PolicyThread

(* Every question ask() accepts is in exactly one place until it is        *)
(* reported, and it is reported once: neither the drop at the end of a     *)
(* segment, nor a claim, nor a delivery loses it or answers it twice.      *)
THEOREM QuestionsAreAccountedFor == Spec => []AskedOnceReportedOnce
<1>1. Init => AskedOnceReportedOnce
  <2> SUFFICES ASSUME Init, NEW q \in Questions PROVE Balanced(q)
    BY DEF AskedOnceReportedOnce, Balanced
  <2>1. q # None /\ pending = None /\ dropped = None /\ ~Serving /\ q \notin asked
    BY QueryAssumption DEF Init, ChannelInit, Serving, Queries
  <2>2. ready[q] = 0 /\ reported[q] = 0
    BY DEF Init, ChannelInit, NoAnswers, Queries
  <2> QED BY ONLY <2>1, <2>2 DEF Balanced, Places
<1>2. ControlInv /\ AskedOnceReportedOnce /\ [Next]_vars => AskedOnceReportedOnce'
  <2> SUFFICES ASSUME ControlInv, AskedOnceReportedOnce, [Next]_vars, NEW q \in Questions
               PROVE  Balanced(q)'
    BY DEF AskedOnceReportedOnce, Balanced
  <2>1. Balanced(q)
    BY DEF AskedOnceReportedOnce, Balanced
  <2>2. CASE OperatorCall \/ OperatorStep \/ Environment
    BY <2>1, <2>2, OperatorKeepsBalance
  <2>3. CASE Serve
    BY <2>1, <2>3, ServeKeepsBalance
  <2>4. CASE PolicyThread
    BY <2>1, <2>4, PolicyKeepsBalance
  <2>5. CASE UNCHANGED vars
    BY <2>1, <2>5, FrameKeepsBalance DEF vars, channelVars, ctlVars, histVars, accountVars, Serving
  <2> QED BY <2>2, <2>3, <2>4, <2>5 DEF Next
<1> QED BY <1>1, <1>2, ControlInductive, PTL DEF Spec

---------------------------------------------------------------------------
(* RolloutController implements QuestionDesk.  A step of the controller     *)
(* moves a question at the desk only when it changes running, pending,     *)
(* asked or reported.  The lemmas below show for each action that does     *)
(* which abstract step it is; the balance of the questions                 *)
(* (AskedOnceReportedOnce) gives their guards.                             *)

deskView == <<running, pending, asked, reported>>

(* What the balance of a question says of the desk.                        *)
LEMMA StatusFacts ==
  ASSUME ControlInv, AskedOnceReportedOnce, NEW q \in Questions
  PROVE  /\ q # None
         /\ ready[q] \in Nat /\ reported[q] \in Nat
         /\ q \notin asked => pending # q /\ dropped # q /\ ready[q] = 0 /\ reported[q] = 0
         /\ pending = q => q \in asked /\ dropped # q /\ ready[q] = 0 /\ reported[q] = 0
         /\ dropped = q => q \in asked /\ pending # q /\ ready[q] = 0 /\ reported[q] = 0
         /\ ready[q] > 0 => q \in asked /\ pending # q /\ ready[q] = 1 /\ reported[q] = 0
<1>1. ready[q] \in Nat /\ reported[q] \in Nat
  BY DEF ControlInv, TypeOK, ChannelTypeOK, Queries
<1>2. Places(q) + reported[q] = IF q \in asked THEN 1 ELSE 0
  BY DEF AskedOnceReportedOnce
<1>3. q # None
  BY QueryAssumption DEF Queries
<1> QED BY ONLY <1>1, <1>2, <1>3 DEF Places

(* A step that leaves the four variables alone does nothing at the desk.   *)
LEMMA FrameIsStutter ==
  ASSUME UNCHANGED deskView
  PROVE  UNCHANGED Desk!deskVars
BY DEF deskView, Desk!deskVars, Statuses, QuestionStatus

(* A step that changes nothing but a goal in the slot is none either.      *)
LEMMA GoalIsStutter ==
  ASSUME UNCHANGED <<running, asked, reported>>,
         pending \notin Questions, pending' \notin Questions
  PROVE  UNCHANGED Desk!deskVars
<1>1. \A q \in Questions : QuestionStatus(q)' = QuestionStatus(q)
  BY DEF QuestionStatus
<1> QED BY <1>1 DEF Desk!deskVars, Statuses

(* ask() accepts a question at an open desk.                               *)
LEMMA AskIsAccept ==
  ASSUME ControlInv, AskedOnceReportedOnce, NEW q \in Questions, AskQuestion(q)
  PROVE  Desk!DeskNext
<1>1. /\ running /\ running' = running /\ pending = None /\ pending' = q
      /\ asked' = asked \cup {q} /\ reported' = reported /\ q \notin asked
  BY DEF AskQuestion, Ask, CanQueue, flagVars
<1>2. \A p \in Questions : p # None
  BY StatusFacts
<1>3. \A p \in Questions : QuestionStatus(p) # "waiting"
  BY <1>1, <1>2 DEF QuestionStatus
<1>4. QuestionStatus(q) = "new" /\ QuestionStatus(q)' = "waiting"
  BY <1>1 DEF QuestionStatus
<1>5. \A p \in Questions \ {q} : QuestionStatus(p)' = QuestionStatus(p)
  BY <1>1, <1>2 DEF QuestionStatus
<1>6. Statuses' = [Statuses EXCEPT ![q] = "waiting"]
  BY <1>4, <1>5 DEF Statuses
<1>7. Desk!Accept(q)
  BY <1>1, <1>3, <1>4, <1>6 DEF Desk!Accept, Desk!NobodyWaits, Statuses
<1> QED BY <1>7 DEF Desk!DeskNext

(* The claim of a query and the drop at the end of a segment both empty    *)
(* the slot: they take up a waiting question.                              *)
LEMMA EmptySlotIsTakeUp ==
  ASSUME ControlInv, AskedOnceReportedOnce, UNCHANGED <<running, asked, reported>>, pending' = None
  PROVE  [Desk!DeskNext]_(Desk!deskVars)
<1>1. \A p \in Questions : p # None
  BY StatusFacts
<1>2. CASE pending \notin Questions
  BY <1>1, <1>2, GoalIsStutter
<1>3. CASE pending \in Questions
  <2> DEFINE q == pending
  <2>1. q \in asked /\ reported[q] = 0
    BY <1>3, StatusFacts
  <2>2. QuestionStatus(q) = "waiting"
    BY <2>1 DEF QuestionStatus
  <2>3. \A p \in Questions : QuestionStatus(p)' = IF p = pending THEN "taken" ELSE QuestionStatus(p)
    BY <1>1, <1>3, <2>1 DEF QuestionStatus
  <2>4. Statuses' = [Statuses EXCEPT ![q] = "taken"]
    BY <1>3, <2>3 DEF Statuses
  <2>5. Desk!TakeUp(q)
    BY <1>3, <2>2, <2>4 DEF Desk!TakeUp, Statuses
  <2> QED BY <1>3, <2>5 DEF Desk!DeskNext
<1> QED BY <1>2, <1>3

(* Emitting events reports questions that were taken up.                   *)
LEMMA EmissionIsReport ==
  ASSUME ControlInv, AskedOnceReportedOnce, NEW S \in SUBSET Questions,
         UNCHANGED <<running, asked, pending>>,
         \A q \in S : q \in asked /\ pending # q /\ reported[q] = 0 /\ reported'[q] > 0,
         \A q \in Questions \ S : reported'[q] = reported[q]
  PROVE  Desk!DeskNext
<1>1. \A q \in S : QuestionStatus(q) = "taken" /\ QuestionStatus(q)' = "reported"
  BY DEF QuestionStatus
<1>2. \A q \in Questions \ S : QuestionStatus(q)' = QuestionStatus(q)
  BY DEF QuestionStatus
<1>3. Desk!Report(S)
  BY <1>1, <1>2 DEF Desk!Report, Statuses
<1> QED BY <1>3 DEF Desk!DeskNext

(* Both delivery points report every answer that is ready.                 *)
LEMMA DeliveryIsReport ==
  ASSUME ControlInv, AskedOnceReportedOnce, UNCHANGED <<running, asked, pending>>,
         reported' = Reported
  PROVE  Desk!DeskNext
<1> DEFINE S == {q \in Questions : ready[q] > 0}
<1>1. \A q \in Questions : reported'[q] = reported[q] + ready[q]
  BY DEF Reported
<1>2. \A q \in S : q \in asked /\ pending # q /\ reported[q] = 0 /\ reported'[q] > 0
  BY <1>1, StatusFacts
<1>3. \A q \in Questions \ S : reported'[q] = reported[q]
  BY <1>1, StatusFacts
<1> QED BY <1>2, <1>3, EmissionIsReport

(* The refusal at the end of a segment reports the question it dropped.    *)
LEMMA RefusalIsReport ==
  ASSUME ControlInv, AskedOnceReportedOnce, SegmentReport
  PROVE  Desk!DeskNext
<1> DEFINE S == {q \in Questions : q = dropped}
<1>1. UNCHANGED <<running, asked, pending>>
  BY DEF SegmentReport, channelVars, flagVars
<1>2. \A q \in Questions : reported'[q] = reported[q] + (IF q = dropped THEN 1 ELSE 0)
  BY DEF SegmentReport
<1>3. \A q \in S : q \in asked /\ pending # q /\ reported[q] = 0 /\ reported'[q] > 0
  BY <1>2, StatusFacts
<1>4. \A q \in Questions \ S : reported'[q] = reported[q]
  BY <1>2, StatusFacts
<1> QED BY <1>1, <1>3, <1>4, EmissionIsReport

(* Arming a segment opens the desk, its finally block closes it.           *)
LEMMA ArmIsOpen ==
  ASSUME ControlInv, AskedOnceReportedOnce, ServeArm
  PROVE  [Desk!DeskNext]_(Desk!deskVars)
<1>1. UNCHANGED <<pending, asked, reported>> /\ running' = startReq /\ spc = "arm"
  BY DEF ServeArm, Goto, channelVars, histVars
<1>2. ~running
  BY <1>1 DEF ControlInv, RunningInSegment, Segment, Loop
<1>3. running \in BOOLEAN /\ running' \in BOOLEAN
  BY <1>1 DEF ControlInv, TypeOK
<1>4. UNCHANGED Statuses
  BY <1>1 DEF Statuses, QuestionStatus
<1>5. CASE ~running'
  BY <1>2, <1>3, <1>4, <1>5 DEF Desk!deskVars
<1>6. CASE running'
  <2>1. pending = None
    BY <1>1, <1>2 DEF ControlInv, ChannelOnlyInSegment
  <2>2. \A q \in Questions : QuestionStatus(q) # "waiting"
    BY <2>1, StatusFacts DEF QuestionStatus
  <2>3. Desk!Open
    BY <1>2, <1>3, <1>4, <1>6, <2>2 DEF Desk!Open, Desk!NobodyWaits, Statuses
  <2> QED BY <2>3 DEF Desk!DeskNext
<1> QED BY <1>5, <1>6

(* The end of a segment closes the desk's window.                          *)
LEMMA EndIsClose ==
  ASSUME ControlInv, SegmentNotRunning
  PROVE  Desk!DeskNext
<1>1. UNCHANGED <<pending, asked, reported>> /\ running' = FALSE /\ spc = "end1"
  BY DEF SegmentNotRunning, Goto, channelVars, histVars
<1>2. running
  BY <1>1 DEF ControlInv, RunningInSegment, Segment
<1>3. UNCHANGED Statuses
  BY <1>1 DEF Statuses, QuestionStatus
<1>4. Desk!Close
  BY <1>1, <1>2, <1>3 DEF Desk!Close
<1> QED BY <1>4 DEF Desk!DeskNext

-----------------------------------------------------------------------------
(* The threads, one after the other.                                       *)

(* The operators' calls and their later steps.                             *)
LEMMA OperatorAtDesk ==
  ASSUME ControlInv, AskedOnceReportedOnce, OperatorCall \/ OperatorStep \/ Environment
  PROVE  [Desk!DeskNext]_(Desk!deskVars)
<1> USE DEF channelVars, servingVars, flagVars, histVars, ctlVars
<1>1. CASE OperatorCall
  <2>1. CASE \E q \in Questions : AskQuestion(q)
    BY <2>1, AskIsAccept
  <2>2. CASE Start \/ Reset \/ Stop \/ SetTaskBegin
    <3>1. UNCHANGED deskView
      BY <2>2 DEF Start, Reset, Stop, SetTaskBegin, deskView
    <3> QED BY <3>1, FrameIsStutter
  <2>3. CASE CallStopAutosteer \/ \E g \in Goals : Autosteer(g)
    <3>1. UNCHANGED deskView
      BY <2>3 DEF CallStopAutosteer, StopAutosteer, Autosteer, StartAutosteer, deskView
    <3> QED BY <3>1, FrameIsStutter
  <2> QED BY <1>1, <2>1, <2>2, <2>3 DEF OperatorCall
<1>2. CASE OperatorStep
  <2>1. UNCHANGED deskView
    BY <1>2 DEF OperatorStep, StartRequest, ResetStopAutosteer, ResetRestoreTask, ResetRequest,
       ResetEndSegment, StopRequest, StopEndSegment, SetTaskStopAutosteer, SetTaskApply, StopAutosteer,
       SetTask, deskView
  <2> QED BY <2>1, FrameIsStutter
<1>3. CASE Environment
  <2>1. UNCHANGED deskView
    BY <1>3 DEF Environment, ParentShutdown, OperatorsLeave, IntervalPasses, IntervalElapses, deskView
  <2> QED BY <2>1, FrameIsStutter
<1> QED BY <1>1, <1>2, <1>3

(* The serve loop and the pump.                                            *)
LEMMA ServeAtDesk ==
  ASSUME ControlInv, AskedOnceReportedOnce, Serve
  PROVE  [Desk!DeskNext]_(Desk!deskVars)
<1> USE DEF channelVars, servingVars, flagVars, histVars
<1>1. CASE ServeArm
  BY <1>1, ArmIsOpen
<1>2. CASE SegmentNotRunning
  BY <1>2, EndIsClose
<1>3. CASE SegmentReport
  BY <1>3, RefusalIsReport
<1>4. CASE IdlePump \/ TickDeliver
  <2>1. UNCHANGED <<running, asked, pending>> /\ reported' = Reported
    BY <1>4 DEF IdlePump, TickDeliver, DeliverAnswers
  <2> QED BY <2>1, DeliveryIsReport
<1>5. CASE TickService \/ SegmentDropPending
  <2>1. UNCHANGED <<running, asked, reported>> /\ pending' = None
    BY <1>5 DEF TickService, TakeQuery, SegmentDropPending, DropPendingQuery
  <2> QED BY <2>1, EmptySlotIsTakeUp
<1>6. CASE TickPoll
  <2>1. UNCHANGED <<running, asked, reported>>
    BY <1>6 DEF TickPoll, PollAutosteer
  <2>2. CASE pending' = pending
    BY <2>1, <2>2, FrameIsStutter DEF deskView
  <2>3. CASE pending' # pending
    <3>1. pending = None /\ pending' = goal /\ goal \in Goals
      BY <1>6, <2>3 DEF TickPoll, PollAutosteer, ControlInv, TypeOK, ChannelTypeOK
    <3>2. pending \notin Questions /\ pending' \notin Questions
      BY <3>1, QueryAssumption DEF Queries
    <3> QED BY <2>1, <3>2, GoalIsStutter
  <2> QED BY <2>2, <2>3
<1>7. CASE \/ ServeCheck \/ ServeReset \/ ResetRobot \/ ServeStart \/ ServeWait \/ ServeExit
           \/ SegmentClear \/ SegmentBegin \/ TickCheck \/ TickObserve \/ TickServed
           \/ SegmentPause \/ SegmentStopAutosteer \/ SegmentDropReady \/ SegmentEnded
  <2>1. UNCHANGED deskView
    BY <1>7 DEF ServeCheck, ServeReset, ResetRobot, ServeStart, ServeWait, ServeExit, SegmentClear,
       SegmentBegin, TickCheck, TickObserve, TickServed, SegmentPause, SegmentStopAutosteer,
       SegmentDropReady, SegmentEnded, StopAutosteer, DropReadySubtaskAnswers, deskView
  <2> QED BY <2>1, FrameIsStutter
<1> QED BY <1>1, <1>2, <1>3, <1>4, <1>5, <1>6, <1>7 DEF Serve

(* The thread that owns the policy.                                        *)
LEMMA PolicyAtDesk ==
  ASSUME ControlInv, AskedOnceReportedOnce, PolicyThread
  PROVE  [Desk!DeskNext]_(Desk!deskVars)
<1> USE DEF channelVars, servingVars, flagVars, histVars, ctlVars
<1>1. CASE RtcTakeQuery
  <2>1. UNCHANGED <<running, asked, reported>> /\ pending' = None
    BY <1>1 DEF RtcTakeQuery, TakeQuery
  <2> QED BY <2>1, EmptySlotIsTakeUp
<1>2. CASE RtcSnapshot \/ ServeQuery \/ RtcReread \/ RtcChunk \/ RtcFatal \/ RtcSignal
  <2>1. UNCHANGED deskView
    BY <1>2 DEF RtcSnapshot, ServeQuery, RtcReread, RtcChunk, RtcFatal, RtcSignal, GenerateText,
       ApplySubtask, FailSubtask, DiscardTurn, PublishAnswer, deskView
  <2> QED BY <2>1, FrameIsStutter
<1> QED BY <1>1, <1>2 DEF PolicyThread

-----------------------------------------------------------------------------
(* The controller implements the question desk: a question is accepted     *)
(* only while a segment runs and none waits, is taken up before the next   *)
(* segment, and is reported once, in every interleaving of the operators,  *)
(* the serve thread and the policy thread.                                 *)
THEOREM ControllerIsQuestionDesk == Spec => ImplementsQuestionDesk
<1>1. Init => Desk!DeskInit
  <2> SUFFICES ASSUME Init PROVE Desk!DeskInit
    OBVIOUS
  <2>1. running = FALSE /\ asked = {}
    BY DEF Init
  <2> QED BY <2>1 DEF Desk!DeskInit, Statuses, QuestionStatus
<1>2. ControlInv /\ AskedOnceReportedOnce /\ [Next]_vars => [Desk!DeskNext]_(Desk!deskVars)
  <2> SUFFICES ASSUME ControlInv, AskedOnceReportedOnce, [Next]_vars
               PROVE  [Desk!DeskNext]_(Desk!deskVars)
    OBVIOUS
  <2>1. CASE UNCHANGED vars
    <3>1. UNCHANGED deskView
      BY <2>1 DEF vars, channelVars, ctlVars, flagVars, histVars, deskView
    <3> QED BY <3>1, FrameIsStutter
  <2> QED BY <2>1, OperatorAtDesk, ServeAtDesk, PolicyAtDesk DEF Next
<1> QED BY <1>1, <1>2, ControlInductive, QuestionsAreAccountedFor, PTL
        DEF Spec, ImplementsQuestionDesk, Desk!DeskSpec

=============================================================================
