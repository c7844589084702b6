# A verification project for LeRobot's rollout stack (SmolICL)

The repository is a fork of LeRobot: a library of robot policies, datasets and
drivers, extended with an in-context policy (`policies/smolvla_icl`).  Most of
it is tensor arithmetic and device I/O.  What it has of concurrency, ordering,
failure handling and delicate bookkeeping lies where a policy meets a robot and
a dataset: the *rollout* stack with its recording strategies, the *asynchronous
inference* client and server, the *actor and learner* of reinforcement
learning, the *files of a dataset*, and the *stage matching* of the in-context
policy.  This project models those, checks them with TLC and proves what it can
with TLAPS.

Paths below are relative to `src/lerobot/src/lerobot/`.

## Inventory

| Component | State | Operations and interactions | What is hard | What makes it correct |
|---|---|---|---|---|
| Interactive controller, `rollout/controller.py` | start, reset and stop requests, running, stopped, the segment's event linked to the process's | control methods under `_control_lock` from any thread; `serve()` runs segments of the strategy and robot resets; emits events | flags written by one thread, consumed by another; an event cleared while others set it | no interrupt is lost, last command wins, stop ends serve |
| Inference engine base, `rollout/inference/base.py` | task, one pending query, in-flight flag, ready answers, autosteer goal | `ask`, `autosteer`, `set_task` from any thread; `pump_query` on the control thread; `_service_query` on the thread that owns the policy | a generation of seconds between a claim and its application | a question is answered once; a stale plan never overwrites an instruction |
| RTC engine, `rollout/inference/rtc.py`, and action queue, `policies/rtc/action_queue.py` | queue, labels, index, held observation, reset epoch, error and discard counts | a background thread turns observations into chunks and merges them; the control thread pops, publishes, resets | chunks in flight across resets and task changes; delays measured after the fact | no action crosses a reset, labels tell the generator, prefixes are backed |
| Sync engine, `rollout/inference/sync.py` | the policy | everything inline on the control thread | little | the label is the instruction of the inference |
| Strategy framework, `rollout/strategies/core.py`, `base.py` | cached observation, warmup flag | the control loop, engine resets, the warmup gate | engine resets around a live background thread | nothing computed during the warmup is acted on |
| Sentry, `rollout/strategies/sentry.py` | episode buffer, upload queue, needs-push, poison | records, rotates, saves, uploads in the background, tears down | saves against uploads, failures in either | no episode is forgotten, a failure stops both |
| DAgger, `rollout/strategies/dagger.py` | phase, pending transition, recorded and unpushed counts, episode buffer, needs-push | key and pedal threads request transitions; the control thread records, saves, rotates; uploads in the background | phases that change at any tick, saves that fail, uploads that clear a flag late | a correction is one episode, no episode is forgotten |
| Highlight, `rollout/strategies/highlight.py`, and ring buffer, `rollout/ring_buffer.py` | save, push and stop flags, live recording, the ring and its byte count | as DAgger; a press turns the ring into an episode and goes on live | a flag looked at and cleared in two steps, a count that drifts | episodes are stretches of the rollout, the ring keeps the newest frames |
| Robot client and policy server, `async_inference/` | client: action queue, latest action, must-go event; server: observation queue of one, predicted timesteps, last processed observation | two client threads, each with a remote call in flight; gRPC handlers on the server | read-compute-swap on the action queue, filtering, lost calls | the queue never blocks, an action is executed once, actions keep coming |
| RL actor and learner, `rl/`, `transport/` | episode, parameter and transition queues, streams, replay buffers | processes connected by gRPC streams of chunked bytes; a pool of three workers | cut streams, a generator nobody reads, next states that are not stored | whole episodes in order, newer policies only, samples follow the rollout |
| Demonstration alignment, `policies/smolvla_icl/` | one row of an online time warping, a running offset, a history of observations | one update per replanning; a new demonstration or a reset in between | a sliding band, invalid chunks, normalised rows | the match is the cheapest forward alignment |
| Datasets, `datasets/` | data, video and episodes files, open writers, buffered metadata, totals | an episode is saved in seven steps, each of which may raise; finalize; resume | roll-over, a failure half-way, sessions | files agree with metadata, a finalized dataset is complete |
| Cameras, `cameras/opencv/` | the latest frame and its event, the capture, the reader's stop event and failure count | a reader thread stores frames; the caller connects, waits for a frame or peeks, disconnects | an event set outside the lock, joins that give up | no lost wakeup, new frames in order and of this connection |
| Other cameras, motors, robots, teleoperators, processors, environments, rewards, training, scripts | buffers, devices | | device I/O | outside this project (see the end) |

## The modules

    QueryChannel            the task and the text queries of an engine
      RolloutController       EXTENDS QueryChannel: controller + serve loop + the
                              strategy's loop + the policy-owning thread
        MCController
        RolloutController_proofs
    QuestionDesk            what an operator may expect of a question: the abstract
                            specification RolloutController implements
    RTCEngine               the RTC thread, the control thread, the action queue
    DemoWarping             grid, chunk validity, one row of the warping
      DemoMatcher             demonstrations, episodes, replannings
    ReplayBuffer            the ring of transitions
      ActorLearner            actor, streams, server, learner
        ActorLearner_proofs
    MCRTC                   RTCEngine, DemoMatcher or ActorLearner
      Policy_proofs           of RTCEngine, of DemoMatcher and of the composition
    SentryStrategy          the control thread and the upload worker
      MCSentry
    Camera                  the reader thread and the caller
    MCStation               SentryStrategy or Camera
      Station_proofs          of both
    UploadWorker            background uploads of the next two
      DAggerStrategy          the key, control and upload threads
        MCDAgger
      HighlightStrategy       the same, EXTENDS RolloutRingBuffer
        HighlightStrategy_proofs
    DatasetLayout           where a dataset's files are
      DatasetFiles            saves, roll-over, finalize, resume
        DatasetFiles_proofs
    MCRecording             DAggerStrategy, HighlightStrategy or DatasetFiles
      Recording_proofs        of DAggerStrategy and of the composition
    AsyncInference          robot client and policy server
      MCAsync
      AsyncInference_proofs

`MCRTC`, `MCStation` and `MCRecording` put parts side by side: a behaviour runs one of them,
chosen in its initial state, and leaves the others idle.  The parts of `MCRTC`
are alternatives (a policy is played by the RTC engine, by a replanning loop,
or by an actor); of `MCRecording`, the strategies are alternatives too, and
they meet the dataset through the single act of saving an episode, which
`DatasetFiles` details.  In `MCStation` the camera and the strategy that records
from it share no state: a recorded frame of `SentryStrategy` carries no content.

One convention runs through all of them: a thread is a program counter, and an
action is one critical section of a lock, one access to an event or a flag, or
the lock-free stretch up to the next one.  What another thread can do between
two critical sections is therefore an interleaving of the model.  An operation
of several effects (`reset()` has five) is several actions.  Operators named
"Faulty variant" in the modules are plausible mistakes in the definition that
follows them; no specification uses them.  They are there so that it can be
checked that every property notices one.

### QueryChannel and RolloutController

`QueryChannel` has one operator per operation of `InferenceEngine`'s query
channel.  A query is identified with the question or the goal it carries;
`pending`, `inFlight`, `goal`, `task` are the attributes of those names, `due`
says whether the clock has passed `_autosteer_due_at`, and `ready` counts the
undelivered answers by query.  What an answer says and the order of deliveries
are left out.  `svc`, `query`, `ok` are where the policy-owning thread is in
`_service_query` and its locals.  A text that raises, is empty or is not a
string is one outcome of `GenerateText`.

`RolloutController` composes it with three threads.  Operators call control
methods one at a time (`opc`); `start` is a guard and a request, `reset` and
`stop` are split at every flag they write.  The serve thread (`spc`) goes
through `serve()`, `_run_segment()`, the strategy's `run()` and
`pump_query()`.  The policy thread is the RTC background thread or, with
`inline`, the serve thread itself inside `pump_query`.  `RtcChunk` and
`RtcFatal` stand for the whole chunk path, which `RTCEngine` details.

Abstractions: `_wake` only shortens a wait that has a timeout, so it is left
out; a segment may end by its duration at any tick; the robot and the policy
may fail at any tick; the return move of a reset succeeds, fails or is skipped
without telling them apart; each question is asked at most once, so that a
count of reports means something; of the events only `QUERY_ANSWERED` is
recorded.  The observation throttle and the warmup gate are in `RTCEngine`.

### QuestionDesk

What all this machinery amounts to for the one who asks: a desk that opens and
closes, takes a question only while it is open and nobody waits, takes up or
refuses the waiting question before it opens again, and reports it once.  The
refinement mapping is `open <- running` and `status <- Statuses`, where
`QuestionStatus` reads a question's status off `asked`, `pending` and
`reported`.  Which thread holds the question, whether an answer is being
generated or is ready, and what a segment or a reset does to it, is below the
abstraction: those steps stutter.

### RTCEngine

An action is a record of its origin: inference, place in the chunk, the
instruction and the observation epoch it was computed from, and whether the
inference was a warmup.  Latencies are whole control steps, drawn from
`1..ChunkSize+1`: within the prefix, beyond it, and beyond the chunk.
`mode` covers the trained and the guided RTC modes and RTC off (append).  It
folds `enabled` and `mode` of the configuration into one: `enabled = False` with
`mode = "trained"`, which passes validation and appends while it still clamps,
resets latency and discards as trained (`rtc.py:459`, `515`, `525`), is not
modelled.  The
index read before an inference only decides a log line and is left out.  The
control thread's part is a reset, a resume, then ticks; the chunk path is read
lock section by lock section: size, left-over, task, inference, merge, warmup.
`RTCAssumption` repeats what `context.py` validates (the trained delay is
between 1 and the queue threshold).

### SentryStrategy

The dataset is its number of committed episodes.  `save_episode` may fail
before or after it has written rows (`corrupt`, which the code cannot see); a save that counts its episode and raises afterwards is one of
these failures, since the poison stops everything after it; an upload may fail; the poison, the needs-push event and the lock are as in the
code.  Uploading to the Hub is on: with it off no worker exists and there is
nothing to order.  `finalize()` is taken not to fail.

### Camera

`OpenCVCamera`, whose reader loop the RealSense and ZMQ cameras repeat.  A frame
is its number in the order of capture.  The reader of the n-th connection is n,
so that one which outlives its connection is told apart from the next: both
bounded joins may give up at any moment, a read may outlast the release of its
capture and fail or return a frame, and the old reader uses whatever capture
`self.videocapture` is when it gets there.  The store (under `frame_lock`) and
the set of the event (outside it) are two steps; taking the frame and clearing
the event are one, since a set between them is as good as one before.  `read()`
is its clear followed by `async_read()`; the warmup is a series of
`async_read()`s whose exception is cleaned up after.  One thread calls the
camera's methods, as the robots do.  `capture` takes `isOpened()` to be true
from a successful open to the release.

### UploadWorker, DAggerStrategy and HighlightStrategy

`UploadWorker` is the executor behind `_background_push` of both strategies:
a task takes the episode lock, skips an empty dataset, uploads and lets go.
The Hub's copy is how many episodes it has and whether it was taken from a
finalized dataset.

`DAggerStrategy` has both recording modes (`mode`).  `pc` follows the control
thread through the loop: stop check, transition, on-demand upload, the action
with its recording, rotation, save, the marks after it, the upload.  The key
thread's `request_transition` is one critical section of `DAggerEvents`.  A
frame is the number of the correction it was recorded in, 0 for an autonomous
one, and an episode the set of its frames: what tells a whole correction from a
split one.  The handovers can only raise.  A save may fail before or after the
buffer is taken apart (`broken`), or when the metadata has already counted its
episode (`SaveFailsLate`): the dataset then has an episode that `_needs_push`
is not set for, and the session saves nothing any more.  `late` remembers it,
and `UnpushedRemembered` speaks of the episodes whose save returned.

`HighlightStrategy` numbers the frames.  The toggle is looked at (`SeeToggle`)
and cleared (`ClearToggle`) in two steps, and the ring is drained into the
buffer in one step or up to a frame that fails.  `RolloutRingBuffer` keeps the
deque and the byte count apart, as the code does: a frame dropped by the
deque's `maxlen` stays in the count.
Its failing save is one that did not count the episode; the one that raises
after the count is told apart in `DAggerStrategy` only (`SaveFailsLate`).

### DatasetLayout and DatasetFiles

A save is the code's steps, in its order: take the buffer apart (`BeginSave`),
write the rows (`SaveData`), add the video (`SaveVideo`), make the row of the
episode and roll over to the next episodes file (`RollOver`), put it in the
metadata buffer (`BufferRow`), flush a full buffer (`FlushFull`), count the
episode in info.json (`CountEpisode`), write the statistics and begin a new
buffer (`FinishSave`).  Each of the three kinds of file rolls over when it is
full, which depends on sizes on disk and may therefore be the case at any save.

Each step may raise (`SaveFails`), and what the steps before it have done stays:
rows of frames and video that no metadata names (`corrupt`), or a row of the
metadata that info.json does not count (`orphans`), when the flush or
`write_info` raises after the row was buffered.  `finalize()` flushes that row
and closes the writers; it may raise too, after which `__del__` calls it again.
`resume` reads the episodes files back and goes on in new files, behind the last
row it finds and with the index that info.json gives, so the index of an orphan
is given once more.  The properties therefore tell three kinds of rows apart:
`Listed` is everything in the files and the buffer, `Pending` the row of the
save going on, `Committed` the rest without the orphans; `Slack` is the one
repetition of an index that is allowed after an orphan.  That there should be no
orphans is `RowsAreCounted`, which the code does not keep (see below).

One camera, encoded with each episode; tasks, statistics and images are left
out.  A write that is cut short is taken to have written nothing that can be
read; a process that dies without `finalize()` leaves parquet files without
footers, which no session can resume.

### DemoWarping and DemoMatcher

A demonstration is what the cache makes of its timestamps and its valid frames
(every combination within the bounds); a cost is a number from a small set; an
infinite cost is a chunk outside a row's domain.  `ReplanMatched` is one
`update()`, with the exceptions it can raise; `SetDemoFails` is the
demonstration whose matcher cannot be built.  The encoders that turn images
into distances are left out, and so is the rounding of floating point.

### ReplayBuffer and ActorLearner

Messages are cut into chunks and put together again by the code's rules, and a
chunk goes from generator to receiver in one step.  `CutStreams` is what a
lost connection or a dead actor does to all three streams;
`stale` counts the generators of `StreamParameters` that nobody reads any more
and that hold a worker until the next policy.  The channel's `retryPolicy`
(`transport/utils.py:154-190`), which may reopen a call that has not delivered
anything yet, is left out: a cut is final for all three streams.  The buffers are rings without
next states; what `sample()` derives is compared with the observation the actor
saw.  Training is a step after which a policy may be pushed.

### AsyncInference

One session after `Ready()`.  The client's control loop and the server's
`SendObservations` handler it waits for share a program counter, and so do the
receiver and `GetActions`.  An action is its timestep; two observations are
similar when they show the same pose, and the robot may or may not have moved
after an action.  `Faults` switches on lost calls (`link`), failing predictions
(`policy`), a robot that raises (`robot`: caught around the observation, not
around the action) and the `RuntimeError` of a deque popped during an iteration
(`iteration`).  When the control loop has ended by an exception, `client.stop()`
ends the receiver before its next call.  There is never more than one handler
of each kind: a call that breaks ends its handler too, and gRPC's own retries
are left out.  `_enqueue_observation`'s filter is one step: it reads two
fields that only `GetActions` writes, and each order of those reads has the
outcome of one of the two orders of the steps.

## What TLC checks

| Run | Instance | Shows |
|---|---|---|
| `controller_safety` | 1 question, 1 goal, 1 subtask, 1 operator instruction, both backends; 3.9 million states | type correctness; every accepted question is in exactly one place or reported once; no stop, reset or engine failure is lost; nothing in the channel outlives its segment; one sequencer turn at a time; the instruction is written by an operator or by the live sequencer only; a cancelled start never runs; the whole implements `QuestionDesk` |
| `controller_live` | 1 question; 296 000 states | stop ends `serve()`, a reset is carried out, a question is reported |
| `controller_lost_start` | no queries | **violated**: an accepted start that never runs |
| `controller_late_announcement` | as `controller_safety` | **violated**: a subtask announced after its sequencer |
| `rtc_engine` | engine: chunks of 3, threshold 2, trained delay 2, 1 warmup, 2 errors, 2 discards, 2 instructions, 4 chunks, 3 resets, all modes.  Matcher: 4 frames within 6 time units, period 2, window of 3, 4 replannings, costs 0 and 2.  Learning: 2 lives of the actor, 7 steps, buffers of 2, 3 workers, 2 policies of 2 chunks.  2.1 million states | no queued action is older than the last reset; labels are generators; trained prefixes are backed; warmup actions are never sent; the robot plays forward.  The match is the cheapest alignment, against a definition that enumerates all paths, and never strands.  Episodes arrive whole and in order, policies only get newer, and a sample's next state is the one the actor saw, except at the places the property names |
| `sentry` | strategy: uploads every 2, up to 6 episodes.  Camera: 2 connections, 4 frames, readers that end at the second failure in a row.  625 000 states | unpushed episodes are remembered; at the end everything is pushed unless poisoned; uploads run alone; a known failure stops saves and uploads; teardown ends.  No wakeup of a camera's caller is lost; a frame is handed out again only when its reader had yet to set the event, and then once; unless a reader outlives both joins, frames are of this connection and in order |
| `sentry_corrupt_push` | uploads every episode | **violated**: a corrupt dataset is uploaded |
| `recording` | DAgger: 2 corrections, an upload per episode, a frame every 2 ticks, both modes.  Highlight: ring of 2 frames, 7 bytes, frames of 2 bytes, 5 frames.  Files: 2 files per chunk, metadata buffer of 2, 3 episodes of 1 or 2 frames, 2 sessions, a raise in any step.  332 000 states | a correction is one whole episode and, once ended, saved unless a failure lost it; saved and unpushed episodes are remembered; a highlight is an unbroken stretch and no frame is in two; the ring holds the newest frames that fit; counted episodes are listed once and in order, with their rows and video where the metadata says, over roll-over, sessions and raises in any step of a save; video segments tile their files; a finalized dataset lists all it counts and beside them only rows of saves that raised; a stop ends the session |
| `recording_uncounted_row` | the files of `recording` | **violated**: a finalized dataset lists an episode that info.json does not count |
| `dagger_unsealed_upload` | 1 correction | **violated**: the Hub's last copy is of a dataset that was not finalized |
| `async_inference` | chunks of 3, 2 poses, all faults, 4 timesteps; 2.1 million states | a timestep is queued again after its execution only if that execution overlapped an aggregation; `put()` never blocks; the must-go event comes back |
| `async_starvation` | no faults | **violated**: the client starves |

### The bounds

*Controller.*  One question, goal and subtask are enough for every race the
code distinguishes: the channel has one slot, and a stale turn needs a goal
that was stopped (the same goal started again is the case the code itself does
not distinguish, see below).  The number of segments, resets and control calls
is not bounded at all.  The proofs remove the bounds.
*RTC.*  Four chunks reach a warmup, a first chunk, a merge over left-over
actions and a discard or an error; three resets reach one before, during and
after an inference, the warmup flush being one of them.
*Sentry.*  Six episodes with an upload every two let two uploads queue behind
a third.  `MaxEpisodes` stops the recording, not the saving.
*Camera.*  Two connections let a reader of the first meet the second; four
frames let each reader race with a caller and store once more.  The proof
removes these bounds.
*Async.*  `MaxStep` stops the asking when the robot is past it; three steps and
chunks of three let two chunks overlap, and two poses suffice because
similarity is looked at for one pair at a time.
*Recording.*  Two corrections in either mode, with a rotation, an upload and a
stop at any point between and inside them, give every pair of a correction and
something that could split it.  A ring of two frames under a cap of three and a
half lets the deque drop frames before the count reaches the cap, five frames
carry it past; the proof removes these bounds.  Two files per chunk directory
and three episodes reach a roll-over of the directory, a metadata buffer of two
one that is full and one that is not; two sessions with a save that raises in
either reach a resume after a failure and the repetition of an index; the proof
removes these bounds too.
*Matching.*  Four frames on a grid of two within six time units have gaps, two
frames in one period, and invalid chunks at both ends and in the middle; four
replannings exceed the window by one.
*Learning.*  Seven steps over two lives fill a ring of two several times and
cut an episode in the middle of its chunks; two chunks per policy cut a policy;
three workers are the code's own number.

`CHECK_DEADLOCK FALSE` is in the configurations because all of these programs
end: `serve()` is one-shot, teardown returns, bounded chunks run out.

### Fairness

Threads that are not blocked keep running: weak fairness of the serve loop, of
the policy thread, of a control method that has begun, of the upload workers and
of the loops, saves and teardowns of the strategies, and of the two client
threads.  For the strategies this includes that an upload ends, in success or
failure; nobody owes a key.  Operators owe
nothing: no call of a control method is fair.  `OperatorsLeave` says that they
stop calling at last: `_control_lock` is not a fair lock, and a thread that
calls without end could keep `_run_segment` from it, which no run of the
program does.  In `AsyncInference` the get of an observation is strongly fair:
each `put()` notifies the waiting `get()`, and the control loop sleeps a tick
before it may evict the observation.  The matcher, the files and the learner are
checked for safety only: a training loop of hours justifies no bound worth
stating.

## What the comments say and the code does not do

* **A lost start.**  `serve()` reads the reset request and then the start
  request, without the lock.  `reset(); start()` between the two reads makes it
  spend the start on a segment that returns at once because the reset is
  pending; `start()` promised a run (`controller.py:231`).  Run
  `controller_lost_start`.
* **A late announcement.**  The segment's end drops the ready subtask answers
  (`controller.py:423`) once, but the policy thread may publish one just after.
  Run `controller_late_announcement`.
* **A corrupt upload.**  The poison is set after the episode lock is released
  (`sentry.py:207-210`); a queued upload slips in between.  Run
  `sentry_corrupt_push`.
* **Hardware left on.**  A failing last upload leaves `teardown()` early
  (`sentry.py:283`), although it promises to disconnect (`sentry.py:257`).
  No run is spent on it: it follows from reading `FinalPushFails`, which ends in
  `"raised"` with `released` still FALSE.
* **Starvation.**  The must-go event is cleared after the send
  (`robot_client.py:450`), erasing the set of an answer that came in between;
  a robot that stands still never gets another action.  Run `async_starvation`.
* **An unsealed copy.**  An upload queued during the session copies the dataset
  while its writers are open and clears `_needs_push` (`dagger.py:802`); when
  nothing is saved after it, teardown uploads nothing once the dataset is
  finalized.  The docstring of `finalize()` says that without it the parquet
  files lack footers.  Run `dagger_unsealed_upload`.
* **An uncounted row.**  The row of an episode is buffered
  (`dataset_metadata.py:632`) before the flush (`636`) and the count in info.json
  (`670-675`).  When one of these raises, `finalize()` still writes the row: the
  dataset lists an episode more than it counts, which
  `policies/smolvla_icl/data/libero_manifest.py:545` refuses, and a session
  resumed on it repeats the index.  Run `recording_uncounted_row`.

One more is kept as a property that says exactly when it happens, `RepeatsAreRaced`
of `Camera`, instead of a run of its own: `async_read()` may return a frame it has
returned before.  The reader sets the event after it has left the lock
(`camera_opencv.py:479`); a caller that an earlier frame has woken takes the new
one in between, clears the event, and is woken for it again.
`cameras/camera.py:129-130` says that it blocks "if the latest frame was already
consumed by a previous `async_read` call".  In the same way `read()` may return a
frame captured before it was called (`camera_opencv.py:406`).

The models also reach the following, about which the repository says nothing,
so no run claims a violation: a camera's reader that outlives both joins of its
`disconnect()` stores an old frame in the next connection, or sets its event
without a frame, which raises the internal error of `camera_opencv.py:577`; the
client's control loop ends with `queue.Empty`
when a chunk of stale actions swaps in an empty queue between the check and the
pop (`robot_client.py:391`); the receiver ends with a `RuntimeError` when the
deque it iterates over is popped (`robot_client.py:252`); a timestep popped and
not yet recorded is queued and executed again (`robot_client.py:259`); the
server loses an observation when its `get_nowait` races `GetActions`
(`policy_server.py:303`); `set_demo` with an unusable demonstration raises when
it has replaced everything but the matcher (`modeling_smolvla_icl.py:1044`), so
the policy holds the new demonstration and the matcher of the old one; a
sample's derived next state is another episode's at a truncated end, in the
newest slot of a full ring and after a skipped transition (`rl/buffer.py:256`);
after a restart of the actor a stale `StreamParameters` can hold one of the
three workers the streams need (`learner_service.py:42`), and the actor does
not reopen a cut stream; a rotation that comes due without a recorded frame
saves an empty buffer, which raises and ends the loop (`dagger.py:475`,
`sentry.py:166`); an upload queued between corrections may run during the next
one (`dagger.py:787`); a failing last upload leaves the teardown of DAgger and
of highlight, as that of sentry, before the hardware is released.

Met while reading and not modelled: after a normal end of `act_with_policy` the
joins at `rl/actor.py:213` wait for threads nobody has told to stop; an
exception in the producer of the buffer's asynchronous iterator leaves its
consumer waiting (`rl/buffer.py:362`); batched video encoding looks for the
episodes file with the indices of a data file (`dataset_writer.py:405`).

## What is proved

All with TLAPS, for every value of the constants.

`RolloutController_proofs`, from `QueryAssumption` (questions and goals are
disjoint, `None` is neither a query nor a task): the seven safety properties of
`controller_safety`.  None of them is inductive by itself, so six of the seven
follow from

    ControlInv == TypeOK /\ InFlightIsServing /\ ServedQuery /\ RunningInSegment
                  /\ DroppedOnce /\ SteerOff /\ LastCommand
                  /\ InterruptNeverLost /\ ChannelOnlyInSegment /\ OneTurnAtATime

`InFlightIsServing` makes the flag the exact shadow of the policy thread's
place, which the poll's guard needs to keep turns apart.  `RunningInSegment`
ties `_running` to the serve thread's place, so that a question accepted under
the control lock is inside a segment.  `SteerOff` says that between
`stop_autosteer` and `set_task` of one control method no sequencer comes back
(the lock is held), and `LastCommand` that a start request is set only while
the last command is a start.  The step is one lemma per group of actions.  The
seventh, that every question is reported once, is a balance: `Balanced(q)` says
that the places of `q` and its reports add up to one exactly when it was asked,
and each action moves `q` from one place to another.

The same module, from the same assumption: `RolloutController` implements
`QuestionDesk`.  A step that leaves `running`, `pending`, `asked` and `reported`
alone stutters at the desk; each of the few others is matched with its abstract
step.  The guards of the abstract steps come from the balance above: a question
is reported once because, while it is ready, it is nowhere else and not yet
reported, and the desk opens only when nobody waits because the channel is
empty outside a segment.

`Policy_proofs`, from `RTCAssumption`: type correctness, the four safety
properties and the action property of `rtc_engine` about the engine, from
`RTCInv == ThreadInv /\ QueueInv`.  `ThreadInv` says which facts the RTC thread
has read in one lock section are still true in a later one: the observation an
inference works on is of the epoch it has noted (`OneEpoch`), the prefix is
clamped to what was left over when it looked (`PrefixClamped`), and once the
warmup is over no chunk is a warmup chunk (`WarmupIsPast`).  `QueueInv` orders
the queue by inference and place, puts everything in it behind the action sent
last and before the chunk about to be merged, and gives each action its label,
epoch and warmth; merging, replacing and clearing are one lemma each.

The same module, from `WarpingAssumption` (the configuration's own validation;
costs are natural numbers): `MatchIsOptimal`, from `MatcherInv`.  The matcher
keeps one row and a running offset, and the property speaks of all paths since
the episode began; the invariant closes the gap by saying what the row is worth
(`Optimal`): every path ends at a chunk of the row and costs at least the offset
and what the row has there, and some path costs no more.  A new row keeps this
because a path is a shorter path and one advance, and normalising keeps it
because it moves the minimum from the row to the offset.  The active chunk is
valid, in the row, and the first of the next band, so the next update can at
least stay there, and no band strands.  Of the history the invariant says that it is
the latest `WindowSize + 1` flags, which decide validity as all of them would,
so that the number of updates is the number of observations a matching of the
whole episode would count; `AnchorsAreOnTheGrid` shows that an anchor is the
first frame of its period.  The sum of a path's costs and the loop over the
grid are recursive functions; each lemma about them puts the numbers for which
it holds in a set and shows by the least number outside that there is none.

`PolicyRunsItsParts` says that a behaviour of `MCRTC` is a behaviour of the
engine, one of the matcher and one of the learner, so every safety and action
property of `rtc_engine` is a theorem about the specification TLC runs.

`AsyncInference_proofs`, from `AsyncAssumption`: `TypeOK`, `PutNeverBlocks` and
`OnlyRacedRepeats`, from `AsyncInv`.  `Held` says that only the handler fills
the server's queue and that it has emptied it before the put; `Ascending` that
what is aggregated comes in order and behind the future queue; `RacedOnly` that
every timestep executed at or after one that is queued, being aggregated or
about to be executed, was executed during an aggregation.

`HighlightStrategy_proofs`, from `RingAssumption`: `EpisodesAreStretches` and
`RingKeepsWindow`.  The byte count is not the size of what the ring holds, so
the invariant gives both in closed form: after n frames the ring has the last
`min(n, MaxFrames, Cap)` of them and the count is `min(n, Cap) * FrameBytes`,
with `Cap` the number of frames that fit under the cap.  `AppendKeepsWindow`
shows that one append keeps this form: at the cap the eviction loop drops
exactly one frame, and then the deque is never full.

`Recording_proofs`, from `DAggerAssumption`: the types and the three safety
properties of `recording` about DAgger.  The invariant says in which phase and
mode each place of the loop is met (`Places`), that the correction going on is
in no episode yet (`Frames`), and accounts for every correction begun: in
corrections mode it is an episode, or in the buffer, or a failure has lost it
(`Accounted`).  A save that raised late has broken the buffer, so it was the last
(`Bookkeeping`): that is what bounds the debt `_needs_push` does not remember to
one episode.

`DatasetFiles_proofs`, from `LayoutAssumption`: the types,
`FilesMatchMetadata` and `FinalizedIsComplete`, from

    FilesInv == TypeOK /\ EpisodeSoFar /\ LastIsLast /\ MetaPlaces /\ DataPlaces
                /\ VideoPlaces /\ FilesMatchMetadata

`EpisodeSoFar` says what the save going on has reached: its index is the number
of counted episodes, and once it has its row the frames of all other rows come
before it.  `LastIsLast` says that the last row, counted or not, lies furthest
in all three kinds of file, so that the places a save or a resumed session
computes from it are behind every row; its episode is the last one counted, or
the next one if it is pending or an orphan, which is why an index is repeated at
most once.  The three `Places` tie the open writers and the rows on disk to it:
a writer is in the file of the last row of its session or of the episode being
saved, what is buffered belongs to that file and goes by ascending index behind
everything on disk, and as long as no save has failed between its data and its
row (`corrupt`) the files hold the listed rows and those of the save going on,
and nothing else.  After such a failure a file may be opened again that has
frames of no episode; no listed row is in it.

`Recording_proofs` also lifts the two modules above to the composition
`MCRecording`: the part that runs keeps its invariant, the idle parts keep
theirs, and a step of highlight or of the files is a step of the instance that
`MCRecording` makes of it.  So `EpisodesAreStretches`, `RingKeepsWindow`,
`FilesMatchMetadata` and `FinalizedIsComplete` hold of the specification that
TLC runs.

`ActorLearner_proofs`, from `LearnerAssumption` and `BufferAssumption`:
`EpisodesArriveWhole`, `PolicyIsNewer`, `SamplesFollowTheRollout` and
`LearnerFollowsActor`, from

    LearnerInv == LearnerTypes /\ InTransit /\ EpisodeOrder /\ NoneLost
                  /\ PolicyOrder /\ Playing /\ Successors

`InTransit` says of each stream where its message is cut: what the receiver has
put together and what the generator has still to send are the two parts of one
message; a cut drops both at once.  The numbers of the episodes grow from the
last one taken by the learner back through its queue and the stream to the
actor's queue (`EpisodeOrder`), and while the stream of transitions lives every
episode of this actor is in one of these places (`NoneLost`).  `PolicyOrder`
says the same of policies on their way from the learner to the actor.
`Successors` is what `sample()` relies on without checking it: the slot
after a transition that does not end its episode holds the observation the
actor saw next, unless that one was never stored; of the newest slot this is
the first of the batch that is still being stored.

`Station_proofs`, from `CameraAssumption` (the constants are natural numbers):
`CallerGetsFreshFrames`, from `CameraInv`.  The frames under way are all
different and not yet seen (`FramesDiffer`), so that a store always announces
something new; a frame taken while no reader had its event to set stays silent
(`SpentIsSilent`); and as long as no reader has outlived its connection at most
one is alive (`OneReader`), the one whose frames are newer than all the others
(`OwnFrames`).

The same module, from `SentryAssumption` (the upload period is a positive
number): all six safety properties of `sentry`.  The invariant adds `LockOwner`
(who holds the lock is read off the program counters), `WorkerDrained` (after
the drain the worker is idle for good), `Bookkeeping` (the Hub never has more
than was saved; the count of episodes since the last upload) and `PoisonStops`.

Only model-checked: the liveness properties (fairness and ENABLED are outside
the proof system).  Every type invariant, safety invariant and action property
of the passing runs is stated by a theorem.

## Plan

1. *(done)* the rollout core: query channel, controller, RTC engine, sentry,
   the asynchronous client and server; proofs of the controller and of sentry.
2. *(done)* the question desk, checked and proved to be implemented; proofs of
   the RTC engine and of asynchronous inference.
3. *(done)* DAgger and highlight with their uploads, checked and proved; the
   dataset's files over sessions; the demonstration matching against a
   reference; the actor and the learner with their streams and buffers; the
   camera with its reader thread, checked and proved.
4. *(done)* proofs of the dataset's files, of the actor and the learner, of the
   demonstration matching, and of the compositions.
5. *(open)* `Ready` and a second client of the asynchronous server, in an
   instance small enough to check; batched video encoding; the other cameras.

## Not modelled, and why

Network code of the policies and rewards, processors and transforms: arithmetic
without control state.  Of the datasets: batched encoding, image writer threads,
readers, statistics and the dataset tools.  The episodic strategy: a sequential
loop on one thread.  Of asynchronous inference: `Ready` of a second client (two
sessions exceed what can be checked), gRPC's retries, two overlapping handlers of
one kind.  Of the RTC engine: `enabled = False` in the trained mode.  Of a dataset's
sessions: a resume when no episode was counted (the code then reads no row and
starts over in the first files), a process that dies without `finalize()`.  Of the learner: the channel's
retries, the training algorithm, the asynchronous iterator, checkpoints.  Motors, robots,
teleoperators, environments: device drivers and vendor libraries.  Of the
cameras: settings, discovery, image conversion, and the ZMQ, RealSense and
Reachy cameras, which repeat the reader loop around other libraries.
Training, jobs, scripts, configuration: sequential set-up code.  The interactive
prompt only calls the control methods, whose calls the model makes in every
order.  PROJECT.json lists each part with its status, and the hazards with the
properties that cover them.
