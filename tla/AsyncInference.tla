--------------------------- MODULE AsyncInference ---------------------------
(***************************************************************************)
(* Remote inference: a robot client streaming observations to a policy     *)
(* server and playing the action chunks it sends back                      *)
(* (async_inference/robot_client.py and policy_server.py).                 *)
(*                                                                         *)
(* Two client threads, each with at most one call in flight: the control   *)
(* loop acts and sends observations (cpc; the states "check" to "put" are  *)
(* the server's handler of its SendObservations), the receiver asks for    *)
(* actions (rpc; the states "get" to "infer" are the handler of its        *)
(* GetActions).  The module covers one session, after Ready().  A call     *)
(* that breaks ends its handler too, and the channel's retries are left    *)
(* out: there is never more than one handler of each kind.                 *)
(*                                                                         *)
(* An action is its timestep.  An observation is its timestep, its must-go *)
(* mark and the pose it shows; two observations are similar when they show *)
(* the same pose.                                                          *)
(***************************************************************************)
EXTENDS Integers, Sequences

CONSTANTS
  ChunkSize,  (* actions_per_chunk                                         *)
  Threshold,  (* largest queue at which an observation is sent             *)
  Poses,      (* classes of similar joint positions                        *)
  Faults,     (* subset of {"link", "policy", "robot", "iteration"}        *)
  MaxStep     (* bound: the timestep after which nothing more is asked for *)

ASSUME AsyncAssumption ==
  /\ ChunkSize \in Nat \ {0} /\ Threshold \in 0..ChunkSize /\ MaxStep \in Nat \ {0}
  /\ Poses # {}

VARIABLES
  actions,     (* client: action_queue                                     *)
  latest,      (* client: latest_action                                    *)
  mustGo,      (* client: the must_go event                                *)
  pose,        (* where the robot is                                       *)
  cpc,         (* the control loop, or the handler it waits for            *)
  timedAction, (* the action popped and not recorded yet (local)           *)
  observation, (* the observation being sent (local)                       *)
  rpc,         (* the receiver, or the handler it waits for; "ended" by an *)
               (* exception or by client.stop()                            *)
  obs,         (* the observation being predicted (local of GetActions)    *)
  incoming,    (* what is left of the chunk being aggregated (local)       *)
  future,      (* future_action_queue (local)                              *)
  obsQueue,    (* server: observation_queue, of maxsize 1                  *)
  predicted,   (* server: _predicted_timesteps                             *)
  lastObs,     (* server: last_processed_obs                               *)
  performed,   (* history: the timesteps the robot has executed            *)
  raced,       (* history: those it executed while a chunk was aggregated  *)
  failed       (* history: a call or a prediction has failed               *)

clientVars  == <<actions, latest, mustGo, pose>>
controlVars == <<cpc, timedAction, observation>>
receiveVars == <<rpc, obs, incoming, future>>
serverVars  == <<obsQueue, predicted, lastObs>>
histVars    == <<performed, raced, failed>>
vars == <<clientVars, controlVars, receiveVars, serverVars, histVars>>

(* The last observation is of a timestep before MaxStep.                   *)
Steps == 0..(MaxStep + ChunkSize - 2)

NoObs == [step |-> -1, go |-> FALSE, pose |-> CHOOSE p \in Poses : TRUE]
Observations == [step : Steps, go : BOOLEAN, pose : Poses]

TypeOK ==
  /\ actions \in Seq(Steps) /\ future \in Seq(Steps) /\ incoming \in Seq(Steps)
  /\ latest \in Steps \cup {-1} /\ timedAction \in Steps \cup {-1}
  /\ mustGo \in BOOLEAN /\ pose \in Poses
  /\ cpc \in {"available", "pop", "perform", "ready", "capture", "check", "full", "evict", "put",
              "sent", "raised"}
  /\ rpc \in {"get", "mark", "preprocess", "infer", "index", "filter", "swap", "set", "ended"}
  /\ {observation, obs, lastObs} \subseteq Observations \cup {NoObs}
  /\ obsQueue \in Seq(Observations) /\ Len(obsQueue) <= 1
  /\ predicted \subseteq Steps /\ performed \subseteq Steps /\ raced \subseteq Steps
  /\ failed \in BOOLEAN

Init ==
  /\ actions = <<>> /\ latest = -1 /\ mustGo = TRUE /\ pose \in Poses
  /\ cpc = "available" /\ timedAction = -1 /\ observation = NoObs
  /\ rpc = "get" /\ obs = NoObs /\ incoming = <<>> /\ future = <<>>
  /\ obsQueue = <<>> /\ predicted = {} /\ lastObs = NoObs
  /\ performed = {} /\ raced = {} /\ failed = FALSE

(* The receiver is comparing the incoming chunk with latest_action.        *)
Aggregating == rpc \in {"filter", "swap"}

Control(from, to) == cpc = from /\ cpc' = to
Receive(from, to) == rpc = from /\ rpc' = to

---------------------------------------------------------------------------
(* The control loop: act, then send an observation.                        *)

ActionsAvailable ==
  /\ Control("available", IF actions # <<>> THEN "pop" ELSE "ready")
  /\ UNCHANGED <<clientVars, timedAction, observation, receiveVars, serverVars, histVars>>

\* get_nowait: raises when the receiver has swapped in an empty queue.  Popping
\* from a queue the receiver iterates over may raise in the receiver.
PopAction ==
  /\ cpc = "pop"
  /\ IF actions = <<>>
     THEN /\ cpc' = "raised"
          /\ UNCHANGED <<actions, timedAction, rpc, raced>>
     ELSE /\ cpc' = "perform"
          /\ timedAction' = Head(actions)
          /\ actions' = Tail(actions)
          /\ rpc' \in {rpc} \cup (IF rpc = "index" /\ "iteration" \in Faults THEN {"ended"} ELSE {})
          /\ raced' = IF Aggregating THEN raced \cup {Head(actions)} ELSE raced
  /\ UNCHANGED <<latest, mustGo, pose, observation, obs, incoming, future, serverVars, performed, failed>>

\* send_action, and only then latest_action.
PerformAction ==
  /\ Control("perform", "ready")
  /\ latest' = timedAction
  /\ pose' \in Poses
  /\ performed' = performed \cup {timedAction}
  /\ UNCHANGED <<actions, mustGo, timedAction, observation, receiveVars, serverVars, raced, failed>>

ReadyToSend ==
  /\ Control("ready", IF Len(actions) <= Threshold /\ latest < MaxStep THEN "capture" ELSE "available")
  /\ UNCHANGED <<clientVars, timedAction, observation, receiveVars, serverVars, histVars>>

CaptureObservation ==
  /\ Control("capture", "check")
  /\ observation' = [step |-> IF latest < 0 THEN 0 ELSE latest, go |-> mustGo /\ actions = <<>>,
                     pose |-> pose]
  /\ UNCHANGED <<clientVars, timedAction, receiveVars, serverVars, histVars>>

\* The robot raises: in get_observation it is logged and the tick goes on, in
\* send_action it ends the control loop with the action not recorded.
RobotFails ==
  /\ "robot" \in Faults
  /\ Control("capture", "available") \/ Control("perform", "raised")
  /\ UNCHANGED <<clientVars, timedAction, observation, receiveVars, serverVars, histVars>>

\* The call fails before the handler runs, or its answer is lost.
SendFails ==
  /\ "link" \in Faults
  /\ Control("check", "sent")
  /\ failed' = TRUE
  /\ UNCHANGED <<clientVars, timedAction, observation, receiveVars, serverVars, performed, raced>>

\* After the send, and whether or not it succeeded.
ClearMustGo ==
  /\ Control("sent", "available")
  /\ mustGo' = (mustGo /\ ~observation.go)
  /\ observation' = NoObs
  /\ UNCHANGED <<actions, latest, pose, timedAction, receiveVars, serverVars, histVars>>

---------------------------------------------------------------------------
(* The server's handler of SendObservations.                               *)

SanityChecks(o) == o.step \notin predicted /\ o.pose # lastObs.pose

EnqueueCheck ==
  /\ Control("check",
       IF observation.go \/ lastObs = NoObs \/ SanityChecks(observation) THEN "full" ELSE "sent")
  /\ UNCHANGED <<clientVars, timedAction, observation, receiveVars, serverVars, histVars>>

\* Faulty variant: the queue is not emptied to make room.
EnqueueNoEvict ==
  /\ Control("full", "put")
  /\ UNCHANGED <<clientVars, timedAction, observation, receiveVars, serverVars, histVars>>

EnqueueFull ==
  /\ Control("full", IF obsQueue # <<>> THEN "evict" ELSE "put")
  /\ UNCHANGED <<clientVars, timedAction, observation, receiveVars, serverVars, histVars>>

\* get_nowait: raises when GetActions has just taken the observation, and the
\* call fails with the new observation lost.
EnqueueEvict ==
  /\ Control("evict", IF obsQueue # <<>> THEN "put" ELSE "sent")
  /\ obsQueue' = <<>>
  /\ UNCHANGED <<clientVars, timedAction, observation, receiveVars, predicted, lastObs, histVars>>

EnqueuePut ==
  /\ obsQueue = <<>>
  /\ Control("put", "sent")
  /\ obsQueue' = <<observation>>
  /\ UNCHANGED <<clientVars, timedAction, observation, receiveVars, predicted, lastObs, histVars>>

---------------------------------------------------------------------------
(* The server's handler of GetActions.  While the queue is empty it times  *)
(* out, answers Empty and is called again, which is a stuttering step.     *)

GetObservation ==
  /\ obsQueue # <<>>
  /\ Receive("get", "mark")
  /\ obs' = Head(obsQueue)
  /\ obsQueue' = <<>>
  /\ UNCHANGED <<clientVars, controlVars, incoming, future, predicted, lastObs, histVars>>

MarkPredicted ==
  /\ Receive("mark", "preprocess")
  /\ predicted' = predicted \cup {obs.step}
  /\ UNCHANGED <<clientVars, controlVars, obs, incoming, future, obsQueue, lastObs, histVars>>

Preprocess ==
  /\ Receive("preprocess", "infer")
  /\ lastObs' = obs
  /\ UNCHANGED <<clientVars, controlVars, obs, incoming, future, obsQueue, predicted, histVars>>

\* An exception is logged and answered as if there had been no observation.
PredictionFails ==
  /\ "policy" \in Faults
  /\ rpc \in {"preprocess", "infer"}
  /\ rpc' = "get"
  /\ obs' = NoObs
  /\ failed' = TRUE
  /\ UNCHANGED <<clientVars, controlVars, incoming, future, serverVars, performed, raced>>

\* Faulty variant: the chunk starts after the observation's own timestep.
ChunkShifted(step) == [i \in 1..ChunkSize |-> step + i]

TimeActionChunk(step) == [i \in 1..ChunkSize |-> step + i - 1]

Infer ==
  /\ Receive("infer", "index")
  /\ incoming' = TimeActionChunk(obs.step)
  /\ obs' = NoObs
  /\ UNCHANGED <<clientVars, controlVars, future, serverVars, histVars>>

\* The answer is lost: the receiver logs it and asks again.
ReceiveFails ==
  /\ "link" \in Faults
  /\ Receive("index", "get")
  /\ incoming' = <<>>
  /\ failed' = TRUE
  /\ UNCHANGED <<clientVars, controlVars, obs, future, serverVars, performed, raced>>

---------------------------------------------------------------------------
(* The receiver: _aggregate_action_queues.                                 *)

\* current_action_queue is read from the queue without the lock.
IndexQueue ==
  /\ Receive("index", "filter")
  /\ future' = <<>>
  /\ raced' = IF cpc = "perform" THEN raced \cup {timedAction} ELSE raced
  /\ UNCHANGED <<clientVars, controlVars, obs, incoming, serverVars, performed, failed>>

\* Faulty variant: the action being executed is taken again.
FilterKeepsLatest ==
  /\ rpc = "filter"
  /\ IF incoming = <<>>
     THEN rpc' = "swap" /\ UNCHANGED <<incoming, future>>
     ELSE /\ future' = IF Head(incoming) < latest THEN future ELSE Append(future, Head(incoming))
          /\ incoming' = Tail(incoming)
          /\ UNCHANGED rpc
  /\ UNCHANGED <<clientVars, controlVars, obs, serverVars, histVars>>

\* latest_action is read again for every action of the chunk.
FilterAction ==
  /\ rpc = "filter"
  /\ IF incoming = <<>>
     THEN rpc' = "swap" /\ UNCHANGED <<incoming, future>>
     ELSE /\ future' = IF Head(incoming) <= latest THEN future ELSE Append(future, Head(incoming))
          /\ incoming' = Tail(incoming)
          /\ UNCHANGED rpc
  /\ UNCHANGED <<clientVars, controlVars, obs, serverVars, histVars>>

SwapQueue ==
  /\ Receive("swap", "set")
  /\ actions' = future
  /\ future' = <<>>
  /\ UNCHANGED <<latest, mustGo, pose, controlVars, obs, incoming, serverVars, histVars>>

\* Faulty variant: the next empty queue does not trigger must-go processing.
ReceivedNoMustGo ==
  /\ Receive("set", "get")
  /\ UNCHANGED <<clientVars, controlVars, obs, incoming, future, serverVars, histVars>>

SetMustGo ==
  /\ Receive("set", "get")
  /\ mustGo' = TRUE
  /\ UNCHANGED <<actions, latest, pose, controlVars, obs, incoming, future, serverVars, histVars>>

\* client.stop() follows the end of the control loop: the receiver asks no more.
ReceiverStops ==
  /\ cpc = "raised"
  /\ Receive("get", "ended")
  /\ UNCHANGED <<clientVars, controlVars, obs, incoming, future, serverVars, histVars>>

---------------------------------------------------------------------------
ControlLoop ==
  \/ ActionsAvailable \/ PopAction \/ PerformAction \/ ReadyToSend
  \/ CaptureObservation \/ ClearMustGo
  \/ EnqueueCheck \/ EnqueueFull \/ EnqueueEvict \/ EnqueuePut

Receiver ==
  \/ GetObservation \/ MarkPredicted \/ Preprocess \/ Infer
  \/ IndexQueue \/ FilterAction \/ SwapQueue \/ SetMustGo \/ ReceiverStops

Failures == SendFails \/ RobotFails \/ PredictionFails \/ ReceiveFails

Next == ControlLoop \/ Receiver \/ Failures

Spec == Init /\ [][Next]_vars

\* Threads keep running.  Strong for the get: every put() notifies the waiting
\* GetActions, and the control loop sleeps for a tick before it sends again.
FairSpec ==
  Spec /\ WF_vars(ControlLoop) /\ WF_vars(Receiver) /\ SF_vars(GetObservation)

---------------------------------------------------------------------------
\* A timestep is queued again after it was executed only when the execution
\* overlapped an aggregation; outside that window nothing is executed twice.
OnlyRacedRepeats ==
  \A i \in DOMAIN actions : actions[i] \in performed => actions[i] \in raced

\* The handler never blocks in put(), whatever GetActions takes meanwhile.
PutNeverBlocks == cpc = "put" => obsQueue = <<>>

\* An observation the server has queued brings the must-go event back, unless
\* a prediction or the link fails or the receiver has ended.
MustGoReturns == obsQueue # <<>> ~> mustGo \/ rpc = "ended" \/ failed

---------------------------------------------------------------------------
(* What a comment says and the code does not do.                           *)

\* robot_client.py:440: with no actions left in the queue, an observation goes
\* through processing, so new actions come.
StarvationEnds ==
  actions = <<>> /\ latest < MaxStep ~> actions # <<>> \/ latest >= MaxStep

=============================================================================
