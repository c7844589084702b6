------------------------ MODULE AsyncInference_proofs ------------------------
(***************************************************************************)
(* Proofs about AsyncInference, for every chunk size, threshold, set of    *)
(* poses, set of faults and bound on the timesteps.                        *)
(*                                                                         *)
(* That only raced timesteps are queued again needs an order: the queue    *)
(* and what is aggregated are ascending, and whatever was executed at or   *)
(* after a timestep that is still to come was executed in a race.          *)
(***************************************************************************)
EXTENDS AsyncInference, SequenceTheorems, TLAPS

(* An observation that is sent is of a timestep still asked for.           *)
Asked == {o \in Observations : o.step \in 0..(MaxStep - 1)}

AsyncTypes ==
  /\ actions \in Seq(Steps) /\ future \in Seq(Steps) /\ incoming \in Seq(Steps)
  /\ latest \in Steps \cup {-1} /\ timedAction \in Steps \cup {-1}
  /\ mustGo \in BOOLEAN /\ pose \in Poses
  /\ cpc \in {"available", "pop", "perform", "ready", "capture", "check", "full", "evict", "put",
              "sent", "raised"}
  /\ rpc \in {"get", "mark", "preprocess", "infer", "index", "filter", "swap", "set", "ended"}
  /\ observation \in Asked \cup {NoObs} /\ obs \in Asked \cup {NoObs} /\ lastObs \in Asked \cup {NoObs}
  /\ obsQueue \in Seq(Asked) /\ Len(obsQueue) <= 1
  /\ predicted \subseteq Steps /\ performed \subseteq Steps /\ raced \subseteq Steps
  /\ failed \in BOOLEAN

(* What each thread holds where it is.                                     *)
Held ==
  /\ cpc = "perform" => timedAction \in Steps
  /\ cpc = "capture" => latest < MaxStep
  /\ cpc \in {"check", "full", "evict", "put", "sent"} => observation \in Asked
  /\ rpc \in {"mark", "preprocess", "infer"} => obs \in Asked
  /\ rpc \notin {"filter", "swap"} => future = <<>>
  /\ cpc = "put" => obsQueue = <<>>

(* Every timestep executed at or after t was executed in a race.           *)
Clean(t) == \A z \in performed : z >= t => z \in raced

(* Queues are ascending, and aggregated actions go behind the future queue.*)
Ascending ==
  /\ \A i, j \in 1..Len(actions) : i < j => actions[i] < actions[j]
  /\ \A i, j \in 1..Len(future) : i < j => future[i] < future[j]
  /\ \A i, j \in 1..Len(incoming) : i < j => incoming[i] < incoming[j]
  /\ \A i \in 1..Len(future), j \in 1..Len(incoming) : future[i] < incoming[j]

RacedOnly ==
  /\ \A z \in performed : z > latest => z \in raced
  /\ \A i \in 1..Len(actions) : Clean(actions[i])
  /\ \A i \in 1..Len(future) : Clean(future[i])
  /\ cpc = "perform" =>
       /\ Clean(timedAction)
       /\ timedAction \in raced \/ \A i \in 1..Len(actions) : timedAction < actions[i]
       /\ Aggregating => timedAction \in raced

AsyncInv == AsyncTypes /\ Held /\ Ascending /\ RacedOnly

-----------------------------------------------------------------------------
(* The initial state: nothing queued, nothing executed.                    *)
LEMMA InitEstablishesAsyncInv ==
  ASSUME Init
  PROVE  AsyncInv
<1> USE AsyncAssumption
<1>1. AsyncTypes
  <2>1. mustGo \in BOOLEAN /\ failed \in BOOLEAN /\ pose \in Poses
    BY Zenon DEF Init
  <2>2. /\ actions = <<>> /\ future = <<>> /\ incoming = <<>> /\ obsQueue = <<>>
        /\ latest = -1 /\ timedAction = -1 /\ cpc = "available" /\ rpc = "get"
        /\ observation = NoObs /\ obs = NoObs /\ lastObs = NoObs
        /\ predicted = {} /\ performed = {} /\ raced = {}
    BY Zenon DEF Init
  <2> QED BY <2>1, <2>2 DEF AsyncTypes
<1>2. Held /\ Ascending /\ RacedOnly
  <2>1. /\ actions = <<>> /\ future = <<>> /\ incoming = <<>>
        /\ cpc = "available" /\ rpc = "get" /\ performed = {}
    BY Zenon DEF Init
  <2> QED BY ONLY <2>1 DEF Held, Ascending, RacedOnly, Clean
<1> QED BY <1>1, <1>2 DEF AsyncInv

-----------------------------------------------------------------------------
(* Types.                                                                  *)

(* The observation sent is of a timestep before MaxStep.                   *)
LEMMA CaptureIsAsked ==
  ASSUME AsyncInv, CaptureObservation
  PROVE  observation' \in Asked
<1> DEFINE step == IF latest < 0 THEN 0 ELSE latest
           go == mustGo /\ actions = <<>>
<1>1. step \in 0..(MaxStep - 1) /\ step \in Steps
  BY AsyncAssumption DEF AsyncInv, AsyncTypes, Held, CaptureObservation, Control, Steps
<1>2. go \in BOOLEAN /\ pose \in Poses
  BY Zenon DEF AsyncInv, AsyncTypes
<1>3. observation' = [step |-> step, go |-> go, pose |-> pose]
  BY Zenon DEF CaptureObservation
<1> HIDE DEF step, go
<1>4. observation' \in Observations /\ observation'.step = step
  BY <1>1, <1>2, <1>3 DEF Observations
<1> QED BY <1>1, <1>4 DEF Asked

(* Flags keep their type in every step.                                    *)
LEMMA FlagsTyped ==
  ASSUME AsyncInv, Next
  PROVE  mustGo' \in BOOLEAN /\ failed' \in BOOLEAN
<1> USE DEF AsyncInv, AsyncTypes, clientVars, controlVars, receiveVars, serverVars, histVars
<1>1. mustGo \in BOOLEAN /\ failed \in BOOLEAN
  BY Zenon
<1>2. CASE ControlLoop
  BY <1>1, <1>2, Zenon
     DEF ControlLoop, ActionsAvailable, PopAction, PerformAction, ReadyToSend, CaptureObservation,
         ClearMustGo, EnqueueCheck, EnqueueFull, EnqueueEvict, EnqueuePut
<1>3. CASE Receiver
  BY <1>1, <1>3, Zenon
     DEF Receiver, GetObservation, MarkPredicted, Preprocess, Infer, IndexQueue, FilterAction,
         SwapQueue, SetMustGo, ReceiverStops
<1>4. CASE Failures
  BY <1>1, <1>4, Zenon DEF Failures, SendFails, RobotFails, PredictionFails, ReceiveFails
<1> QED BY <1>2, <1>3, <1>4, Zenon DEF Next

(* A chunk is of consecutive timesteps from the observation's on.          *)
LEMMA ChunkShape ==
  ASSUME NEW step \in 0..(MaxStep - 1)
  PROVE  /\ TimeActionChunk(step) \in Seq(Steps) /\ Len(TimeActionChunk(step)) = ChunkSize
         /\ \A i \in 1..ChunkSize : TimeActionChunk(step)[i] = step + i - 1
<1>1. ChunkSize \in Nat /\ \A i \in 1..ChunkSize : step + i - 1 \in Steps
  BY AsyncAssumption DEF Steps
<1>2. TimeActionChunk(step) \in [1..ChunkSize -> Steps]
  BY <1>1 DEF TimeActionChunk
<1>3. TimeActionChunk(step) \in Seq(Steps) /\ Len(TimeActionChunk(step)) = ChunkSize
  BY <1>1, <1>2
<1> QED BY <1>3 DEF TimeActionChunk

(* The control loop keeps the types and what the threads hold.             *)
LEMMA ControlKeepsTypes ==
  ASSUME AsyncInv, ControlLoop
  PROVE  AsyncTypes' /\ Held'
<1>1. mustGo' \in BOOLEAN /\ failed' \in BOOLEAN
  BY FlagsTyped DEF Next
<1> USE <1>1, AsyncAssumption
        DEF AsyncInv, AsyncTypes, Held, Control, clientVars, controlVars, receiveVars, serverVars, histVars
<1>2. CASE ActionsAvailable BY <1>2 DEF ActionsAvailable
<1>3. CASE PopAction
  <2>1. CASE actions = <<>>
    BY <1>3, <2>1 DEF PopAction
  <2>2. CASE actions # <<>>
    <3>1. Head(actions) \in Steps /\ Tail(actions) \in Seq(Steps)
      BY <2>2, HeadTailProperties
    <3>2. /\ timedAction' = Head(actions) /\ actions' = Tail(actions) /\ cpc' = "perform"
          /\ raced' \in {raced, raced \cup {Head(actions)}}
          /\ rpc' \in {rpc, "ended"} /\ (rpc' = rpc \/ rpc = "index")
      BY <1>3, <2>2 DEF PopAction
    <3> QED BY <1>3, <3>1, <3>2 DEF PopAction
  <2> QED BY <2>1, <2>2
<1>4. CASE PerformAction    BY <1>4 DEF PerformAction
<1>5. CASE ReadyToSend      BY <1>5 DEF ReadyToSend
<1>6. CASE CaptureObservation
  BY <1>6, CaptureIsAsked DEF CaptureObservation
<1>7. CASE ClearMustGo      BY <1>7 DEF ClearMustGo
<1>8. CASE EnqueueCheck     BY <1>8 DEF EnqueueCheck
<1>9. CASE EnqueueFull      BY <1>9 DEF EnqueueFull
<1>10. CASE EnqueueEvict    BY <1>10 DEF EnqueueEvict
<1>11. CASE EnqueuePut      BY <1>11 DEF EnqueuePut
<1> QED BY <1>2, <1>3, <1>4, <1>5, <1>6, <1>7, <1>8, <1>9, <1>10, <1>11 DEF ControlLoop

(* The receiver and the failures keep them too.                            *)
LEMMA ReceiverKeepsTypes ==
  ASSUME AsyncInv, Receiver \/ Failures
  PROVE  AsyncTypes' /\ Held'
<1>1. mustGo' \in BOOLEAN /\ failed' \in BOOLEAN
  BY FlagsTyped DEF Next
<1> USE <1>1, AsyncAssumption
        DEF AsyncInv, AsyncTypes, Held, Receive, clientVars, controlVars, receiveVars, serverVars, histVars
<1>2. CASE GetObservation
  <2>1. Head(obsQueue) \in Asked
    BY <1>2, HeadTailProperties DEF GetObservation
  <2> QED BY <1>2, <2>1 DEF GetObservation
<1>3. CASE MarkPredicted
  <2>1. obs.step \in Steps
    BY <1>3 DEF MarkPredicted, Asked, Observations
  <2> QED BY <1>3, <2>1 DEF MarkPredicted
<1>4. CASE Preprocess BY <1>4 DEF Preprocess
<1>5. CASE Infer
  <2>1. obs.step \in 0..(MaxStep - 1)
    BY <1>5 DEF Infer, Asked
  <2>2. TimeActionChunk(obs.step) \in Seq(Steps)
    BY <2>1, ChunkShape
  <2> QED BY <1>5, <2>2 DEF Infer
<1>6. CASE IndexQueue BY <1>6 DEF IndexQueue
<1>7. CASE FilterAction
  <2>1. CASE incoming = <<>>
    BY <1>7, <2>1 DEF FilterAction
  <2>2. CASE incoming # <<>>
    <3>1. Head(incoming) \in Steps /\ Tail(incoming) \in Seq(Steps)
      BY <2>2, HeadTailProperties
    <3>2. Append(future, Head(incoming)) \in Seq(Steps)
      BY <3>1, AppendProperties
    <3> QED BY <1>7, <2>2, <3>1, <3>2 DEF FilterAction
  <2> QED BY <2>1, <2>2
<1>8. CASE SwapQueue BY <1>8 DEF SwapQueue
<1>9. CASE SetMustGo \/ ReceiverStops BY <1>9 DEF SetMustGo, ReceiverStops
<1>10. CASE Failures BY <1>10 DEF Failures, SendFails, RobotFails, PredictionFails, ReceiveFails, Control
<1> QED BY <1>2, <1>3, <1>4, <1>5, <1>6, <1>7, <1>8, <1>9, <1>10 DEF Receiver

-----------------------------------------------------------------------------
(* Order.                                                                  *)

OrderInv == Ascending /\ RacedOnly

(* A pop in front of an ascending queue: what stays is later, and a pop    *)
(* while a chunk is aggregated is a race.                                  *)
LEMMA PopKeepsOrder ==
  ASSUME AsyncInv, PopAction
  PROVE  OrderInv'
<1>1. /\ latest' = latest /\ incoming' = incoming /\ future' = future /\ performed' = performed
      /\ cpc = "pop"
  BY DEF PopAction
<1>2. CASE actions = <<>>
  <2>1. actions' = actions /\ raced' = raced /\ cpc' = "raised"
    BY <1>2 DEF PopAction
  <2> QED BY <1>1, <2>1, Zenon DEF AsyncInv, OrderInv, Ascending, RacedOnly, Clean
<1>3. CASE actions # <<>>
  <2>1. /\ timedAction' = Head(actions) /\ actions' = Tail(actions)
        /\ (rpc' = rpc \/ rpc' = "ended")
        /\ raced' = IF Aggregating THEN raced \cup {Head(actions)} ELSE raced
    BY <1>3 DEF PopAction
  <2>2. /\ Len(actions') = Len(actions) - 1 /\ Len(actions) \in Nat /\ 1 \in 1..Len(actions)
        /\ timedAction' = actions[1]
        /\ \A i \in 1..Len(actions') : i + 1 \in 1..Len(actions) /\ actions'[i] = actions[i + 1]
    <3>1. actions \in Seq(Steps) /\ Len(actions) \in Nat /\ Len(actions) # 0
      BY <1>3, LenProperties DEF AsyncInv, AsyncTypes
    <3>2. Len(Tail(actions)) = Len(actions) - 1 /\ \A i \in 1..Len(Tail(actions)) : Tail(actions)[i] = actions[i + 1]
      BY <1>3, <3>1, HeadTailProperties
    <3>3. Head(actions) = actions[1]
      BY <1>3, <3>1
    <3> QED BY <2>1, <3>1, <3>2, <3>3
  <2>3. Ascending'
    <3>1. \A i, j \in 1..Len(actions') : i < j => actions'[i] < actions'[j]
      BY <2>2 DEF AsyncInv, Ascending
    <3> QED BY <1>1, <3>1, Zenon DEF AsyncInv, Ascending
  <2>4. \A i \in 1..Len(actions') : timedAction' < actions'[i]
    <3>1. ASSUME NEW i \in 1..Len(actions') PROVE actions[1] < actions[i + 1]
      <4>1. i + 1 \in 1..Len(actions) /\ 1 < i + 1
        BY <2>2
      <4> QED BY <2>2, <4>1, Zenon DEF AsyncInv, Ascending
    <3> QED BY <2>2, <3>1
  <2>5. raced \subseteq raced' /\ (Aggregating' => timedAction' \in raced')
    BY <2>1 DEF Aggregating
  <2>6. \A i \in 1..Len(actions) : \A z \in performed : z >= actions[i] => z \in raced'
    BY <2>5, Zenon DEF AsyncInv, RacedOnly, Clean
  <2>7. \A i \in 1..Len(actions') : \A z \in performed : z >= actions'[i] => z \in raced'
    BY <2>2, <2>6, Zenon
  <2>8. \A z \in performed : z >= timedAction' => z \in raced'
    BY <2>2, <2>6, Zenon
  <2>9. RacedOnly'
    BY <1>1, <2>4, <2>5, <2>7, <2>8, Zenon DEF AsyncInv, RacedOnly, Clean
  <2> QED BY <2>3, <2>9 DEF OrderInv
<1> QED BY <1>2, <1>3

(* The execution of the popped action.                                     *)
LEMMA PerformKeepsOrder ==
  ASSUME AsyncInv, PerformAction
  PROVE  OrderInv'
<1>1. /\ latest' = timedAction /\ performed' = performed \cup {timedAction}
      /\ UNCHANGED <<actions, future, incoming, raced, rpc>> /\ cpc = "perform" /\ cpc' = "ready"
  BY DEF PerformAction, Control, receiveVars
<1>2. Clean(timedAction) /\ timedAction \in Steps
  BY <1>1 DEF AsyncInv, RacedOnly, Held
<1>3. timedAction \in raced \/ \A i \in 1..Len(actions) : timedAction < actions[i]
  BY <1>1 DEF AsyncInv, RacedOnly
<1>4. \A z \in performed' : z > latest' => z \in raced'
  BY <1>1, <1>2 DEF Clean, Steps, AsyncInv, AsyncTypes
<1>5. ASSUME NEW i \in 1..Len(actions) PROVE \A z \in performed' : z >= actions[i] => z \in raced
  <2>1. actions[i] \in Steps /\ performed \subseteq Steps
    BY ElementOfSeq DEF AsyncInv, AsyncTypes
  <2>2. Clean(actions[i])
    BY DEF AsyncInv, RacedOnly
  <2> QED BY <1>1, <1>2, <1>3, <2>1, <2>2 DEF Clean, Steps
<1>6. ASSUME NEW i \in 1..Len(future) PROVE \A z \in performed' : z >= future[i] => z \in raced
  <2>1. Clean(future[i])
    BY DEF AsyncInv, RacedOnly
  <2>2. Len(future) # 0
    <3>1. Len(future) \in Nat
      BY LenProperties DEF AsyncInv, AsyncTypes
    <3> QED BY <3>1
  <2>3. Aggregating
    BY <2>2 DEF AsyncInv, Held, Aggregating
  <2>4. timedAction \in raced
    BY <1>1, <2>3 DEF AsyncInv, RacedOnly
  <2> QED BY <1>1, <2>1, <2>4 DEF Clean
<1>7. Ascending'
  BY <1>1, Zenon DEF AsyncInv, Ascending
<1>8. RacedOnly'
  BY <1>1, <1>4, <1>5, <1>6, Zenon DEF RacedOnly, Clean
<1> QED BY <1>7, <1>8 DEF OrderInv

(* A chunk that arrives is ascending and nothing is aggregated yet.        *)
LEMMA ArrivalKeepsOrder ==
  ASSUME AsyncInv, Infer \/ ReceiveFails
  PROVE  OrderInv'
<1>1. /\ UNCHANGED <<actions, future, latest, performed, raced, timedAction, cpc>>
      /\ rpc' \in {"index", "get"} /\ rpc \in {"infer", "index"}
  BY DEF Infer, ReceiveFails, Receive, clientVars, controlVars, histVars
<1>2. Len(future) = 0
  BY <1>1 DEF AsyncInv, Held
<1>3. \A i, j \in 1..Len(incoming') : i < j => incoming'[i] < incoming'[j]
  <2>1. CASE Infer
    <3>1. obs.step \in 0..(MaxStep - 1)
      BY <2>1 DEF Infer, Receive, AsyncInv, Held, Asked
    <3>2. incoming' = TimeActionChunk(obs.step)
      BY <2>1 DEF Infer
    <3>3. Len(incoming') = ChunkSize /\ \A i \in 1..ChunkSize : incoming'[i] = obs.step + i - 1
      BY <3>1, <3>2, ChunkShape
    <3> QED BY <3>1, <3>3, AsyncAssumption
  <2>2. CASE ReceiveFails
    BY <2>2 DEF ReceiveFails
  <2> QED BY <2>1, <2>2
<1>4. Ascending'
  BY <1>1, <1>2, <1>3 DEF AsyncInv, Ascending
<1>5. RacedOnly'
  <2>1. ~Aggregating'
    BY <1>1 DEF Aggregating
  <2> QED BY <1>1, <2>1, Zenon DEF AsyncInv, RacedOnly, Clean
<1> QED BY <1>4, <1>5 DEF OrderInv

(* The aggregation begins: an action popped and not recorded is in a race. *)
LEMMA IndexKeepsOrder ==
  ASSUME AsyncInv, IndexQueue
  PROVE  OrderInv'
<1>1. /\ UNCHANGED <<actions, incoming, latest, performed, timedAction, cpc>> /\ future' = <<>>
      /\ raced \subseteq raced' /\ (cpc = "perform" => timedAction \in raced')
  BY DEF IndexQueue, Receive, clientVars, controlVars
<1>2. Ascending'
  <2>1. Len(future') = 0
    BY <1>1
  <2> QED BY <1>1, <2>1 DEF AsyncInv, Ascending
<1>3. RacedOnly'
  <2>1. \A i \in 1..Len(future') : Clean(future[i])'
    BY <1>1
  <2> QED BY <1>1, <2>1, Zenon DEF AsyncInv, RacedOnly, Clean
<1> QED BY <1>2, <1>3 DEF OrderInv

(* An action is taken over when it is after latest_action; so everything   *)
(* executed at or after it was executed in a race.                         *)
LEMMA FilterKeepsOrder ==
  ASSUME AsyncInv, FilterAction
  PROVE  OrderInv'
<1>1. UNCHANGED <<actions, latest, performed, raced, timedAction, cpc>> /\ rpc = "filter"
  BY DEF FilterAction, clientVars, controlVars, histVars
<1>2. Aggregating
  BY <1>1 DEF Aggregating
<1>3. CASE incoming = <<>>
  <2>1. UNCHANGED <<future, incoming>>
    BY <1>3 DEF FilterAction
  <2> QED BY <1>1, <1>2, <2>1, Zenon DEF AsyncInv, OrderInv, Ascending, RacedOnly, Clean
<1>4. CASE incoming # <<>>
  <2>1. /\ future' = IF Head(incoming) <= latest THEN future ELSE Append(future, Head(incoming))
        /\ incoming' = Tail(incoming)
    BY <1>4 DEF FilterAction
  <2>2. /\ Len(incoming') = Len(incoming) - 1 /\ Len(incoming) \in Nat /\ 1 \in 1..Len(incoming)
        /\ Head(incoming) = incoming[1] /\ incoming[1] \in Steps
        /\ \A i \in 1..Len(incoming') : i + 1 \in 1..Len(incoming) /\ incoming'[i] = incoming[i + 1]
    <3>1. incoming \in Seq(Steps) /\ Len(incoming) \in Nat /\ Len(incoming) # 0
      BY <1>4, LenProperties DEF AsyncInv, AsyncTypes
    <3>2. /\ Len(Tail(incoming)) = Len(incoming) - 1
          /\ \A i \in 1..Len(Tail(incoming)) : Tail(incoming)[i] = incoming[i + 1]
      BY <1>4, <3>1, HeadTailProperties
    <3>3. Head(incoming) = incoming[1] /\ incoming[1] \in Steps
      BY <1>4, <3>1, ElementOfSeq
    <3> QED BY <2>1, <3>1, <3>2, <3>3
  <2>3. \A i, j \in 1..Len(incoming') : i < j => incoming'[i] < incoming'[j]
    BY <2>2 DEF AsyncInv, Ascending
  <2>4. \A j \in 1..Len(incoming') : incoming[1] < incoming'[j]
    <3>1. ASSUME NEW j \in 1..Len(incoming') PROVE incoming[1] < incoming[j + 1]
      <4>1. j + 1 \in 1..Len(incoming) /\ 1 < j + 1
        BY <2>2
      <4> QED BY <2>2, <4>1, Zenon DEF AsyncInv, Ascending
    <3> QED BY <2>2, <3>1
  <2>5. CASE Head(incoming) <= latest
    <3>1. future' = future
      BY <2>1, <2>5
    <3>2. \A i \in 1..Len(future'), j \in 1..Len(incoming') : future'[i] < incoming'[j]
      BY <2>2, <3>1 DEF AsyncInv, Ascending
    <3>3. Ascending'
      BY <1>1, <2>3, <3>1, <3>2, Zenon DEF AsyncInv, Ascending
    <3>4. RacedOnly'
      BY <1>1, <1>2, <3>1, Zenon DEF AsyncInv, RacedOnly, Clean
    <3> QED BY <3>3, <3>4 DEF OrderInv
  <2>6. CASE ~(Head(incoming) <= latest)
    <3>1. /\ Len(future) \in Nat /\ Len(future') = Len(future) + 1
          /\ \A i \in 1..Len(future) : future'[i] = future[i]
          /\ future'[Len(future) + 1] = incoming[1]
      <4>1. future \in Seq(Steps) /\ Len(future) \in Nat
        BY LenProperties DEF AsyncInv, AsyncTypes
      <4>2. future' = Append(future, incoming[1])
        BY <2>1, <2>2, <2>6
      <4> QED BY <2>2, <4>1, <4>2, AppendProperties
    <3>2. \A i \in 1..Len(future) : future[i] < incoming[1]
      BY <2>2 DEF AsyncInv, Ascending
    <3>3. Clean(incoming[1])
      <4>1. latest \in Int /\ incoming[1] \in Int /\ \A z \in performed : z \in Int
        BY <2>2 DEF AsyncInv, AsyncTypes, Steps
      <4> QED BY <2>2, <2>6, <4>1 DEF AsyncInv, RacedOnly, Clean
    <3>4. \A i, j \in 1..Len(future') : i < j => future'[i] < future'[j]
      <4>1. ASSUME NEW i \in 1..Len(future'), NEW j \in 1..Len(future'), i < j
            PROVE  future'[i] < future'[j]
        <5>1. i \in 1..Len(future)
          BY <3>1, <4>1
        <5>2. CASE j \in 1..Len(future)
          BY <3>1, <4>1, <5>1, <5>2 DEF AsyncInv, Ascending
        <5>3. CASE j = Len(future) + 1
          BY <3>1, <3>2, <5>1, <5>3
        <5> QED BY <3>1, <5>2, <5>3
      <4> QED BY <4>1
    <3>5. \A i \in 1..Len(future'), j \in 1..Len(incoming') : future'[i] < incoming'[j]
      <4>1. ASSUME NEW i \in 1..Len(future'), NEW j \in 1..Len(incoming')
            PROVE  future'[i] < incoming'[j]
        <5>1. CASE i \in 1..Len(future)
          BY <2>2, <3>1, <5>1 DEF AsyncInv, Ascending
        <5>2. CASE i = Len(future) + 1
          BY <2>4, <3>1, <5>2
        <5> QED BY <3>1, <5>1, <5>2
      <4> QED BY <4>1
    <3>6. Ascending'
      BY <1>1, <2>3, <3>4, <3>5, Zenon DEF AsyncInv, Ascending
    <3>7. \A i \in 1..Len(future') : Clean(future'[i])
      <4>1. ASSUME NEW i \in 1..Len(future') PROVE Clean(future'[i])
        <5>1. CASE i \in 1..Len(future)
          BY <3>1, <5>1 DEF AsyncInv, RacedOnly
        <5>2. CASE i = Len(future) + 1
          BY <3>1, <3>3, <5>2
        <5> QED BY <3>1, <5>1, <5>2
      <4> QED BY <4>1
    <3>8. RacedOnly'
      BY <1>1, <1>2, <3>7, Zenon DEF AsyncInv, RacedOnly, Clean
    <3> QED BY <3>6, <3>8 DEF OrderInv
  <2> QED BY <2>5, <2>6
<1> QED BY <1>3, <1>4

(* The swap: an action in execution has been in a race since it began.     *)
LEMMA SwapKeepsOrder ==
  ASSUME AsyncInv, SwapQueue
  PROVE  OrderInv'
<1>1. /\ actions' = future /\ future' = <<>> /\ rpc = "swap" /\ rpc' = "set"
      /\ UNCHANGED <<incoming, latest, performed, raced, timedAction, cpc>>
  BY DEF SwapQueue, Receive, controlVars, histVars
<1>2. Aggregating /\ ~Aggregating' /\ Len(future') = 0
  BY <1>1 DEF Aggregating
<1>3. Ascending'
  BY <1>1, <1>2 DEF AsyncInv, Ascending
<1>4. RacedOnly'
  <2>1. \A i \in 1..Len(future') : Clean(future[i])'
    BY <1>2
  <2> QED BY <1>1, <1>2, <2>1, Zenon DEF AsyncInv, RacedOnly, Clean
<1> QED BY <1>3, <1>4 DEF OrderInv

(* Every other step leaves the order alone.                                *)
LEMMA QuietKeepsOrder ==
  ASSUME AsyncInv, UNCHANGED <<actions, future, incoming, latest, performed, raced>>,
         cpc' = "perform" => cpc = "perform" /\ timedAction' = timedAction,
         Aggregating' => Aggregating
  PROVE  OrderInv'
BY Zenon DEF AsyncInv, OrderInv, Ascending, RacedOnly, Clean

(* Every step keeps the order.                                             *)
LEMMA NextKeepsOrder ==
  ASSUME AsyncInv, Next
  PROVE  OrderInv'
<1> USE DEF Control, Receive, clientVars, controlVars, receiveVars, serverVars, histVars, Aggregating
<1>1. CASE PopAction     BY <1>1, PopKeepsOrder
<1>2. CASE PerformAction BY <1>2, PerformKeepsOrder
<1>3. CASE Infer \/ ReceiveFails BY <1>3, ArrivalKeepsOrder
<1>4. CASE IndexQueue    BY <1>4, IndexKeepsOrder
<1>5. CASE FilterAction  BY <1>5, FilterKeepsOrder
<1>6. CASE SwapQueue     BY <1>6, SwapKeepsOrder
<1>7. CASE ActionsAvailable \/ ReadyToSend \/ CaptureObservation \/ ClearMustGo \/ EnqueueCheck
           \/ EnqueueFull \/ EnqueueEvict \/ EnqueuePut \/ SendFails \/ RobotFails
  <2>1. /\ UNCHANGED <<actions, future, incoming, latest, performed, raced, rpc>> /\ cpc' # "perform"
    BY <1>7 DEF ActionsAvailable, ReadyToSend, CaptureObservation, ClearMustGo, EnqueueCheck,
       EnqueueFull, EnqueueEvict, EnqueuePut, SendFails, RobotFails
  <2> QED BY <2>1, QuietKeepsOrder
<1>8. CASE GetObservation \/ MarkPredicted \/ Preprocess \/ SetMustGo \/ ReceiverStops
           \/ PredictionFails
  <2>1. /\ UNCHANGED <<actions, future, incoming, latest, performed, raced, cpc, timedAction>>
        /\ rpc' \notin {"filter", "swap"}
    BY <1>8 DEF GetObservation, MarkPredicted, Preprocess, SetMustGo, ReceiverStops, PredictionFails
  <2> QED BY <2>1, QuietKeepsOrder
<1> QED BY <1>1, <1>2, <1>3, <1>4, <1>5, <1>6, <1>7, <1>8 DEF Next, ControlLoop, Receiver, Failures

(* AsyncInv holds in every reachable state of AsyncInference.              *)
THEOREM AsyncInductive == Spec => []AsyncInv
<1>1. Init => AsyncInv
  BY InitEstablishesAsyncInv
<1>2. AsyncInv /\ [Next]_vars => AsyncInv'
  <2> SUFFICES ASSUME AsyncInv, [Next]_vars PROVE AsyncInv'
    OBVIOUS
  <2>1. CASE Next
    BY <2>1, ControlKeepsTypes, ReceiverKeepsTypes, NextKeepsOrder DEF Next, AsyncInv, OrderInv
  <2>2. CASE UNCHANGED vars
    <3> USE <2>2 DEF vars, clientVars, controlVars, receiveVars, serverVars, histVars
    <3>1. mustGo' \in BOOLEAN /\ failed' \in BOOLEAN
      BY Zenon DEF AsyncInv, AsyncTypes
    <3>2. AsyncTypes' /\ Held'
      BY <3>1 DEF AsyncInv, AsyncTypes, Held
    <3>3. OrderInv'
      BY QuietKeepsOrder, Zenon DEF Aggregating
    <3> QED BY <3>2, <3>3 DEF AsyncInv, OrderInv
  <2> QED BY <2>1, <2>2
<1> QED BY <1>1, <1>2, PTL DEF Spec

-----------------------------------------------------------------------------
(* Every variable keeps its type, and the observation queue its one place. *)
THEOREM AsyncTypeCorrect == Spec => []TypeOK
<1>1. AsyncInv => TypeOK
  <2> SUFFICES ASSUME AsyncInv PROVE TypeOK
    OBVIOUS
  <2>1. Asked \subseteq Observations
    BY DEF Asked
  <2>2. obsQueue \in Seq(Observations)
    BY <2>1, SeqMonotonic DEF AsyncInv, AsyncTypes
  <2>3. {observation, obs, lastObs} \subseteq Observations \cup {NoObs}
    BY <2>1 DEF AsyncInv, AsyncTypes
  <2>4. mustGo \in BOOLEAN /\ failed \in BOOLEAN
    BY Zenon DEF AsyncInv, AsyncTypes
  <2> QED BY <2>2, <2>3, <2>4, Zenon DEF AsyncInv, AsyncTypes, TypeOK
<1> QED BY <1>1, AsyncInductive, PTL

(* observation_queue: the put of SendObservations never waits, although    *)
(* GetActions takes from the queue between the check and the put.          *)
THEOREM PutIsFree == Spec => []PutNeverBlocks
<1>1. AsyncInv => PutNeverBlocks
  BY DEF AsyncInv, Held, PutNeverBlocks
<1> QED BY <1>1, AsyncInductive, PTL

(* The filter against latest_action: a timestep comes back after it was    *)
(* executed only if the execution overlapped an aggregation.               *)
THEOREM RepeatsAreRaced == Spec => []OnlyRacedRepeats
<1>1. AsyncInv => OnlyRacedRepeats
  <2> SUFFICES ASSUME AsyncInv, NEW i \in DOMAIN actions, actions[i] \in performed
               PROVE  actions[i] \in raced
    BY DEF OnlyRacedRepeats
  <2>1. i \in 1..Len(actions) /\ actions[i] \in Steps
    BY LenProperties, ElementOfSeq DEF AsyncInv, AsyncTypes
  <2>2. actions[i] >= actions[i]
    BY <2>1 DEF Steps
  <2> QED BY <2>1, <2>2, Zenon DEF AsyncInv, RacedOnly, Clean
<1> QED BY <1>1, AsyncInductive, PTL

=============================================================================
