---------------------------- MODULE QueryChannel ----------------------------
(***************************************************************************)
(* The instruction and the text-query channel of a rollout inference       *)
(* engine (class InferenceEngine, rollout/inference/base.py).              *)
(*                                                                         *)
(* The channel holds one pending query: an operator question (VQA) or a    *)
(* turn of the autosteer sequencer, which asks the policy for the next     *)
(* subtask of a goal.  The thread that owns the policy claims the query,   *)
(* generates a text without any lock, applies it when it is a subtask, and *)
(* publishes an answer that only the control thread delivers.  What an     *)
(* answer says and the order of the deliveries are left out: answers are   *)
(* counted by the query they answer.                                       *)
(*                                                                         *)
(* Every action below is one critical section of _query_lock or            *)
(* _task_lock (or one lock-free stretch between two of them), so what      *)
(* other threads can do between two critical sections is an interleaving   *)
(* of the composed specification (RolloutController).                      *)
(***************************************************************************)
EXTENDS Naturals

CONSTANTS
  Questions,    (* operator questions; each is asked at most once          *)
  Goals,        (* autosteer goals                                         *)
  Subtasks,     (* what the policy's text head may answer to a goal        *)
  InitialTask,  (* the instruction the rollout was launched with           *)
  NewTasks,     (* the instructions an operator may set                    *)
  None          (* Python's None                                           *)

(* A query is the question or the goal itself: membership is its kind.     *)
Queries == Questions \cup Goals
Tasks   == {InitialTask} \cup NewTasks \cup Subtasks

ASSUME QueryAssumption ==
  /\ Questions \cap Goals = {}
  /\ None \notin Queries \cup Tasks

VARIABLES
  task,      (* _task                                                      *)
  goal,      (* _autosteer_goal                                            *)
  due,       (* whether the clock has passed _autosteer_due_at             *)
  pending,   (* _pending_query                                             *)
  inFlight,  (* _query_in_flight                                           *)
  ready,     (* _ready_answers, counted by the query they answer           *)
  svc,       (* where the policy-owning thread is in its loop              *)
  query,     (* the query it has claimed (local of _service_query)         *)
  ok         (* whether the generation gave a text (local)                 *)

channelVars == <<task, goal, due, pending, inFlight, ready, svc, query, ok>>
servingVars == <<svc, query, ok>>

NoAnswers == [q \in Queries |-> 0]

ChannelTypeOK ==
  /\ task \in Tasks
  /\ goal \in Goals \cup {None}
  /\ due \in BOOLEAN
  /\ pending \in Queries \cup {None}
  /\ inFlight \in BOOLEAN
  /\ ready \in [Queries -> Nat]
  /\ svc \in {"top", "claim", "generate", "resolve", "publish", "reread", "chunk", "dying", "dead"}
  /\ query \in Queries \cup {None}
  /\ ok \in BOOLEAN

ChannelInit ==
  /\ task = InitialTask
  /\ goal = None
  /\ due = FALSE
  /\ pending = None
  /\ inFlight = FALSE
  /\ ready = NoAnswers
  /\ svc = "top"
  /\ query = None
  /\ ok = FALSE

---------------------------------------------------------------------------
(* Operations any thread may call.                                         *)

SetTask(t) ==
  /\ task' = t
  /\ UNCHANGED <<goal, due, pending, inFlight, ready, servingVars>>

\* True when the single-slot channel takes the question.
CanQueue == pending = None

Ask(q) ==
  /\ CanQueue
  /\ pending' = q
  /\ UNCHANGED <<task, goal, due, inFlight, ready, servingVars>>

StartAutosteer(g) ==
  /\ goal' = g
  /\ due' = TRUE
  /\ UNCHANGED <<task, pending, inFlight, ready, servingVars>>

StopAutosteer ==
  /\ goal' = None
  /\ UNCHANGED <<task, due, pending, inFlight, ready, servingVars>>

DropPendingQuery ==
  /\ pending' = None
  /\ UNCHANGED <<task, goal, due, inFlight, ready, servingVars>>

DropReadySubtaskAnswers ==
  /\ ready' = [q \in Queries |-> IF q \in Goals THEN 0 ELSE ready[q]]
  /\ UNCHANGED <<task, goal, due, pending, inFlight, servingVars>>

---------------------------------------------------------------------------
(* Steps of pump_query on the control thread.                              *)

\* Faulty variant: the turn being generated is not looked at.
PollWhileInFlight ==
  /\ pending' = IF goal # None /\ due /\ pending = None THEN goal ELSE pending
  /\ UNCHANGED <<task, goal, due, inFlight, ready, servingVars>>

PollAutosteer ==
  /\ pending' = IF goal # None /\ due /\ pending = None /\ ~inFlight THEN goal ELSE pending
  /\ UNCHANGED <<task, goal, due, inFlight, ready, servingVars>>

DeliverAnswers ==
  /\ ready' = NoAnswers
  /\ UNCHANGED <<task, goal, due, pending, inFlight, servingVars>>

---------------------------------------------------------------------------
(* Steps of _service_query on the thread that owns the policy.             *)

TakeQuery(from, otherwise) ==
  /\ svc = from
  /\ query' = pending
  /\ pending' = None
  /\ IF pending # None
     THEN svc' = "generate" /\ inFlight' = TRUE
     ELSE svc' = otherwise  /\ UNCHANGED inFlight
  /\ UNCHANGED <<task, goal, due, ready, ok>>

\* The policy answers, or raises or returns something that is not a text.
GenerateText ==
  /\ svc = "generate"
  /\ ok' \in BOOLEAN
  /\ svc' = IF query \in Goals THEN "resolve" ELSE "publish"
  /\ UNCHANGED <<task, goal, due, pending, inFlight, ready, query>>

SequencerLive == goal = query

\* A turn whose sequencer stopped or was retargeted publishes no answer.
DiscardTurn(done) ==
  /\ svc' = done
  /\ inFlight' = FALSE
  /\ query' = None
  /\ UNCHANGED <<task, goal, due, pending, ready, ok>>

\* Faulty variant: the subtask is applied without looking at the sequencer.
ApplyStaleSubtask(done) ==
  /\ svc = "resolve"
  /\ ok
  /\ task' \in Subtasks
  /\ due' = FALSE
  /\ svc' = "publish"
  /\ UNCHANGED <<goal, pending, inFlight, ready, query, ok>>

ApplySubtask(done) ==
  /\ svc = "resolve"
  /\ ok
  /\ IF SequencerLive
     THEN /\ task' \in Subtasks
          /\ due' = FALSE
          /\ svc' = "publish"
          /\ UNCHANGED <<goal, pending, inFlight, ready, query, ok>>
     ELSE DiscardTurn(done)

\* Faulty variant: an unusable text becomes the instruction.
ApplyUnusable(done) ==
  /\ svc = "resolve"
  /\ ~ok
  /\ IF SequencerLive
     THEN /\ task' = None
          /\ due' = FALSE
          /\ svc' = "publish"
          /\ UNCHANGED <<goal, pending, inFlight, ready, query, ok>>
     ELSE DiscardTurn(done)

\* Without a usable text the sequencer stops instead of retrying for ever.
FailSubtask(done) ==
  /\ svc = "resolve"
  /\ ~ok
  /\ IF SequencerLive
     THEN /\ goal' = None
          /\ svc' = "publish"
          /\ UNCHANGED <<task, due, pending, inFlight, ready, query, ok>>
     ELSE DiscardTurn(done)

PublishAnswer(done) ==
  /\ svc = "publish"
  /\ inFlight' = FALSE
  /\ ready' = [ready EXCEPT ![query] = @ + 1]
  /\ query' = None
  /\ svc' = done
  /\ UNCHANGED <<task, goal, due, pending, ok>>

\* The replanning interval has elapsed since the last subtask was applied.
IntervalElapses ==
  /\ ~due
  /\ goal # None
  /\ due' = TRUE
  /\ UNCHANGED <<task, goal, pending, inFlight, ready, servingVars>>

Serving == svc \in {"generate", "resolve", "publish"}

=============================================================================
