---------------------------- MODULE ActorLearner ----------------------------
(***************************************************************************)
(* Distributed reinforcement learning: an actor process that plays the     *)
(* policy and a learner process that trains it (rl/actor.py,               *)
(* rl/learner.py, rl/learner_service.py), over gRPC streams of messages    *)
(* cut into chunks (transport/utils.py).                                   *)
(*                                                                         *)
(* A message is a record; its bytes are the sequence of its chunks.  A     *)
(* chunk goes from the generator of one side to the receiver of the other  *)
(* in one step: a chunk in flight and one not yet sent are lost alike when *)
(* the stream is cut.  An observation is a number, new at every step.      *)
(***************************************************************************)
EXTENDS Integers, Sequences, FiniteSets, ReplayBuffer

CONSTANTS
  Warmup,      (* online_step_before_learning                              *)
  MaxWorkers,  (* MAX_WORKERS of the learner's server                      *)
  PolicyParts, (* the chunks a policy's parameters take; a step takes one  *)
  MaxSteps,    (* bound: environment steps                                 *)
  MaxVersions, (* bound: policies pushed                                   *)
  MaxLives     (* bound: starts of the actor                               *)

ASSUME LearnerAssumption == PolicyParts \in Nat \ {0}

VARIABLES
  acting,       (* actor: "acting", "finished", "raised" or "down"         *)
  clock,        (* actor: the current observation                          *)
  nan,          (* actor: the current observation holds a NaN              *)
  episode,      (* actor: list_transition_to_send_to_learner               *)
  weights,      (* actor: the version of the policy it plays; 0: its own   *)
  paramQueue,   (* actor: parameters_queue                                 *)
  outQueue,     (* actor: transitions_queue                                *)
  stream,       (* the state of each stream                                *)
  stale,        (* server: StreamParameters generators nobody reads        *)
  sending,      (* what transitions_stream has left to yield               *)
  received,     (* bytes_buffer of the handler of SendTransitions          *)
  pushing,      (* what StreamParameters has left to yield                 *)
  fetched,      (* bytes_buffer of receive_policy                          *)
  inQueue,      (* learner: transition_queue                               *)
  batch,        (* learner: what is left of the episode being stored       *)
  online, offline, (* learner: the replay buffers                          *)
  version,      (* learner: the last policy it pushed                      *)
  pushQueue,    (* learner: parameters_queue                               *)
  missing,      (* history: observations the online buffer left out        *)
  unassisted,   (* history: those the offline buffer left out              *)
  lives,        (* history: starts of the actor                            *)
  sent,         (* history: the last episode the actor has queued          *)
  before,       (* history: the last one of its earlier lives              *)
  taken         (* history: the last episode the learner has taken         *)

actorVars  == <<acting, clock, nan, episode, weights, paramQueue, outQueue>>
upVars     == <<sending, received>>
downVars   == <<pushing, fetched>>
storeVars  == <<batch, online, offline, missing, unassisted>>
pushVars   == <<version, pushQueue>>
lifeVars   == <<lives, before>>
alVars     == <<actorVars, stream, stale, upVars, downVars, inQueue, storeVars, pushVars, lifeVars,
                sent, taken>>

Streams == {"parameters", "transitions", "interactions"}

(* The chunks send_bytes_in_chunks() cuts a message into.                  *)
Chunks(message, n) ==
  [k \in 1..n |-> [transfer |-> IF k = n THEN "END" ELSE IF k = 1 THEN "BEGIN" ELSE "MIDDLE",
                   part |-> k, of |-> n, message |-> message]]

(* One iteration of receive_bytes_in_chunks(): a first chunk empties the   *)
(* buffer, and so does a message handed over.                              *)
BufferAfter(buffer, chunk) ==
  CASE chunk.transfer = "BEGIN"  -> <<chunk>>
    [] chunk.transfer = "MIDDLE" -> Append(buffer, chunk)
    [] chunk.transfer = "END"    -> <<>>

HandedOver(buffer, chunk) == IF chunk.transfer = "END" THEN <<Append(buffer, chunk)>> ELSE <<>>

(* Bytes that decode: every chunk of one message, once and in order.       *)
Whole(bytes) ==
  /\ bytes # <<>> /\ bytes[1].of = Len(bytes)
  /\ \A k \in DOMAIN bytes : bytes[k].part = k /\ bytes[k].message = bytes[1].message

MessageOf(bytes) == bytes[1].message

---------------------------------------------------------------------------
(* The server's pool: a call is handled once a worker is free for it.      *)

Busy == stale + Cardinality({s \in Streams : stream[s] = "open"})

LearnerInit ==
  /\ acting = "down" /\ clock = OfflineFrames + 1 /\ nan = FALSE
  /\ episode = <<>> /\ weights = 0 /\ paramQueue = <<>> /\ outQueue = <<>>
  /\ stream = [s \in Streams |-> "closed"] /\ stale = 0
  /\ sending = <<>> /\ received = <<>> /\ pushing = <<>> /\ fetched = <<>>
  /\ inQueue = <<>> /\ batch = <<>> /\ online = EmptyBuffer /\ offline = FromDataset
  /\ version = 1 /\ pushQueue = <<1>>
  /\ missing = {} /\ unassisted = {} /\ lives = 0 /\ sent = 0 /\ before = 0 /\ taken = 0

\* actor_cli(): Ready() has answered, the three threads have opened their streams.
StartActor ==
  /\ acting = "down" /\ lives < MaxLives /\ Busy < MaxWorkers
  /\ acting' = "acting" /\ clock' = clock + 1 /\ nan' = FALSE
  /\ episode' = <<>> /\ weights' = 0 /\ paramQueue' = <<>> /\ outQueue' = <<>>
  /\ stream' = [s \in Streams |-> "waiting"]
  /\ lives' = lives + 1 /\ before' = sent
  /\ UNCHANGED <<stale, upVars, downVars, inQueue, storeVars, pushVars, sent, taken>>

Handle(s) ==
  /\ stream[s] = "waiting" /\ Busy < MaxWorkers
  /\ stream' = [stream EXCEPT ![s] = "open"]
  /\ UNCHANGED <<actorVars, stale, upVars, downVars, inQueue, storeVars, pushVars, lifeVars, sent, taken>>

(* Every stream ends, with what it had of a message.  A StreamParameters   *)
(* that is not at a yield does not notice.                                 *)
CutStreams ==
  /\ stream' = [s \in Streams |-> "closed"]
  /\ stale' = stale + (IF stream["parameters"] = "open" /\ pushing = <<>> THEN 1 ELSE 0)
  /\ sending' = <<>> /\ received' = <<>> /\ pushing' = <<>> /\ fetched' = <<>>

\* The actor's process dies with its queues.
ActorDies ==
  /\ acting # "down"
  /\ acting' = "down"
  /\ CutStreams
  /\ UNCHANGED <<clock, nan, episode, weights, paramQueue, outQueue, inQueue, storeVars, pushVars,
                 lifeVars, sent, taken>>

\* An RpcError ends the actor's three threads; act_with_policy goes on.
ConnectionLost ==
  /\ \E s \in Streams : stream[s] # "closed"
  /\ CutStreams
  /\ UNCHANGED <<actorVars, inQueue, storeVars, pushVars, lifeVars, sent, taken>>

---------------------------------------------------------------------------
(* The actor's policy loop.                                                *)

\* A step of the environment that ends in the observation clock + 1.  At the end
\* of an episode the newest parameters are loaded, the episode is queued for the
\* sender, and the environment is reset.
ActStep ==
  /\ acting = "acting" /\ clock < MaxSteps
  /\ \E end \in Ends, nan2, help \in BOOLEAN :
       LET transition == [state |-> clock, next |-> clock + 1, end |-> end,
                          nan |-> nan \/ nan2, help |-> help]
           steps == Append(episode, transition)
       IN IF end = "none"
          THEN /\ episode' = steps /\ clock' = clock + 1 /\ nan' = nan2
               /\ UNCHANGED <<weights, paramQueue, outQueue, sent>>
          ELSE /\ IF paramQueue = <<>>
                  THEN UNCHANGED weights
                  ELSE weights' = MessageOf(paramQueue[Len(paramQueue)])
               /\ paramQueue' = <<>>
               /\ outQueue' = Append(outQueue, [number |-> sent + 1, steps |-> steps])
               /\ sent' = sent + 1
               /\ episode' = <<>> /\ clock' = clock + 2 /\ nan' = FALSE
  /\ UNCHANGED <<acting, stream, stale, upVars, downVars, inQueue, storeVars, pushVars, lifeVars, taken>>

\* act_with_policy returns: the threads go on.  It raises: they are told to stop.
ActorEnds ==
  /\ acting = "acting" /\ acting' \in {"finished", "raised"}
  /\ UNCHANGED <<clock, nan, episode, weights, paramQueue, outQueue, stream, stale, upVars, downVars,
                 inQueue, storeVars, pushVars, lifeVars, sent, taken>>

---------------------------------------------------------------------------
(* The stream of transitions.                                              *)

NextEpisode ==
  /\ stream["transitions"] = "open" /\ acting # "raised" /\ sending = <<>> /\ outQueue # <<>>
  /\ sending' = Chunks(Head(outQueue), Len(Head(outQueue).steps))
  /\ outQueue' = Tail(outQueue)
  /\ UNCHANGED <<acting, clock, nan, episode, weights, paramQueue, stream, stale, received, downVars,
                 inQueue, storeVars, pushVars, lifeVars, sent, taken>>

SendChunk ==
  /\ sending # <<>>
  /\ received' = BufferAfter(received, Head(sending))
  /\ inQueue' = inQueue \o HandedOver(received, Head(sending))
  /\ sending' = Tail(sending)
  /\ UNCHANGED <<actorVars, stream, stale, downVars, storeVars, pushVars, lifeVars, sent, taken>>

\* Told to stop, the generator ends after the message it is at.
EndTransitions ==
  /\ stream["transitions"] = "open" /\ acting = "raised" /\ sending = <<>>
  /\ stream' = [stream EXCEPT !["transitions"] = "closed"]
  /\ UNCHANGED <<actorVars, stale, upVars, downVars, inQueue, storeVars, pushVars, lifeVars, sent, taken>>

---------------------------------------------------------------------------
(* The stream of parameters.                                               *)

PushParameters ==
  /\ stream["parameters"] = "open" /\ pushing = <<>> /\ pushQueue # <<>>
  /\ pushing' = Chunks(pushQueue[Len(pushQueue)], PolicyParts)
  /\ pushQueue' = <<>>
  /\ UNCHANGED <<actorVars, stream, stale, upVars, fetched, inQueue, storeVars, version, lifeVars, sent,
                 taken>>

\* A generator nobody reads takes the newest parameters, yields, and is dropped.
StalePush ==
  /\ stale > 0 /\ pushQueue # <<>>
  /\ stale' = stale - 1 /\ pushQueue' = <<>>
  /\ UNCHANGED <<actorVars, stream, upVars, downVars, inQueue, storeVars, version, lifeVars, sent, taken>>

\* receive_policy: told to stop, it returns at the next chunk, which cancels the call.
FetchChunk ==
  /\ pushing # <<>>
  /\ IF acting = "raised"
     THEN /\ stream' = [stream EXCEPT !["parameters"] = "closed"]
          /\ pushing' = <<>> /\ fetched' = <<>>
          /\ UNCHANGED paramQueue
     ELSE /\ fetched' = BufferAfter(fetched, Head(pushing))
          /\ paramQueue' = paramQueue \o HandedOver(fetched, Head(pushing))
          /\ pushing' = Tail(pushing)
          /\ UNCHANGED stream
  /\ UNCHANGED <<acting, clock, nan, episode, weights, outQueue, stale, upVars, inQueue, storeVars,
                 pushVars, lifeVars, sent, taken>>

---------------------------------------------------------------------------
(* The learner's loop.                                                     *)

TakeEpisode ==
  /\ batch = <<>> /\ inQueue # <<>> /\ Whole(Head(inQueue))
  /\ batch' = MessageOf(Head(inQueue)).steps
  /\ taken' = MessageOf(Head(inQueue)).number
  /\ inQueue' = Tail(inQueue)
  /\ UNCHANGED <<actorVars, stream, stale, upVars, downVars, online, offline, missing, unassisted, pushVars,
                 lifeVars, sent>>

\* A transition with a NaN is skipped; one of an intervention is stored twice.
StoreTransition ==
  /\ batch # <<>>
  /\ LET t == Head(batch)
     IN /\ IF t.nan
           THEN missing' = missing \cup {t.state} /\ UNCHANGED online
           ELSE online' = AddTransition(online, t) /\ UNCHANGED missing
        /\ IF t.nan \/ ~t.help
           THEN unassisted' = unassisted \cup {t.state} /\ UNCHANGED offline
           ELSE offline' = AddTransition(offline, t) /\ UNCHANGED unassisted
  /\ batch' = Tail(batch)
  /\ UNCHANGED <<actorVars, stream, stale, upVars, downVars, inQueue, pushVars, lifeVars, sent, taken>>

\* A training step after which the policy is due to be pushed.  An episode that
\* arrives between the look at the queue and the push commutes with it.
PushPolicy ==
  /\ batch = <<>> /\ inQueue = <<>> /\ online.size >= Warmup /\ version < MaxVersions
  /\ version' = version + 1
  /\ pushQueue' = Append(pushQueue, version + 1)
  /\ UNCHANGED <<actorVars, stream, stale, upVars, downVars, inQueue, storeVars, lifeVars, sent, taken>>

---------------------------------------------------------------------------
LearnerNext ==
  \/ StartActor \/ ActorDies \/ ConnectionLost \/ ActStep \/ ActorEnds
  \/ \E s \in Streams : Handle(s)
  \/ NextEpisode \/ SendChunk \/ EndTransitions
  \/ PushParameters \/ StalePush \/ FetchChunk
  \/ TakeEpisode \/ StoreTransition \/ PushPolicy

LearnerSpec == LearnerInit /\ [][LearnerNext]_alVars

---------------------------------------------------------------------------
(* The numbers of the episodes on their way, oldest first.                 *)
OnTheirWay ==
  [k \in DOMAIN inQueue |-> MessageOf(inQueue[k]).number]
    \o (IF sending = <<>> THEN <<>> ELSE <<MessageOf(sending).number>>)
    \o [k \in DOMAIN outQueue |-> outQueue[k].number]

\* What arrives is whole episodes, oldest first; none is lost while the stream that
\* carries it lives.
EpisodesArriveWhole ==
  /\ \A k \in DOMAIN inQueue : Whole(inQueue[k])
  /\ \A k \in DOMAIN OnTheirWay : OnTheirWay[k] > (IF k = 1 THEN taken ELSE OnTheirWay[k - 1])
  /\ stream["transitions"] = "open" =>
       (before + 1)..sent \subseteq (1..taken) \cup {OnTheirWay[k] : k \in DOMAIN OnTheirWay}

\* The policy that comes next is never older than the one the actor plays.
PolicyIsNewer ==
  LET coming == [k \in DOMAIN paramQueue |-> MessageOf(paramQueue[k])]
                  \o (IF pushing = <<>> THEN <<>> ELSE <<MessageOf(pushing)>>) \o pushQueue
  IN /\ \A k \in DOMAIN paramQueue : Whole(paramQueue[k])
     /\ \A k \in DOMAIN coming : coming[k] > (IF k = 1 THEN weights ELSE coming[k - 1])

\* Whichever transitions are lost with a connection, an actor or a NaN, a sample's
\* next state is the one the actor saw, but at the places NextIsSuccessor names.
SamplesFollowTheRollout ==
  /\ NextIsSuccessor(online, missing)
  /\ NextIsSuccessor(offline, unassisted)

\* The learner trains on what the actor did, and the actor plays what it trained.
LearnerFollowsActor == EpisodesArriveWhole /\ PolicyIsNewer /\ SamplesFollowTheRollout

=============================================================================
