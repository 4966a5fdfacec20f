# TLA+ models of LeRobot (vla-moe-diversity)

This directory holds specifications of the concurrent and stateful parts of
the repository, the TLC configurations that check them, and machine-checked
proofs about them. Paths below are relative to the repository root; the Python
package is `src/lerobot/`.

## 1. Inventory of the system

| Component | State it keeps | Operations | How it meets the others | What is hard | What makes it correct |
|---|---|---|---|---|---|
| **async_inference** (`robot_client.py`, `policy_server.py`, `helpers.py`, `configs.py`) | client: action queue, `latest_action`, `action_chunk_size`, `must_go`, shutdown event; server: one-place observation queue, predicted timesteps, last processed observation, policy | client: handshake, control loop, receiver loop, merge, stop; server: `Ready`, `SendPolicyInstructions`, `SendObservations`, `GetActions` | four gRPC calls; two client threads share the queue; handlers run on a pool of four threads | two threads on one queue, part of it outside the lock; test-then-act on the server queue; orphan handlers; resets under running handlers; retries | queue in order and bounded, no action far out of order, accepted observations are answered, must-go really goes, clean shutdown |
| **transport** (`utils.py`, generated stubs) | a byte buffer per stream | chunking, reassembly, retry policy | carries the bytes of async_inference and rl | a stream cut, or joined, in the middle; empty payloads | what is reassembled is what was sent |
| **policies/rtc** (`action_queue.py`, `latency_tracker.py`, `action_interpolator.py`) | processed and original queue, consumption index | `get`, `merge`, `clear`, `get_left_over` | an inference thread and an actor thread share it | index read before inference, used after it | the delay dropped is the delay that passed; no action skipped or repeated |
| **rl** (`actor.py`, `learner.py`, `learner_service.py`, `queue.py`, `process.py`) | three queues per side, shutdown event, buffers, optimisation and interaction step | act, push/stream transitions, interactions, parameters; optimise, checkpoint, resume | gRPC streams between two programs, threads or processes inside each | loss at shutdown, streams that end while queues fill, crash during a checkpoint | every transition pushed is stored once and in order; parameters only get newer; resume finds what was saved |
| **rl/buffer.py** | ring of transitions, position, size; prefetch thread and queue | `add`, `sample`, iterators, to/from dataset | the learner fills and samples it | seam of the ring with `optimize_memory`; a consumer waiting on a dead producer | `next_state` of a sample is the state that followed it |
| **datasets** (writer, metadata, image writer, video encoder, reader, sampler, aggregate, tools) | episode buffer, chunk and file indices, worker queues, statistics | `add_frame`, `save_episode`, `clear`, `finalize`, aggregate, delete, split | recording scripts write, training reads | roll-over of chunk and file, one encode of several failing, crash before the footer, worker threads and sentinels | frame ranges partition the dataset; metadata agree with data; every image queued is written before encoding |
| **cameras** (opencv, realsense, zmq, reachy2) | latest frame, lock, event, thread | connect, `read`, `async_read`, `read_latest`, disconnect | polled by robots | stale frame, event cleared between set and read, stop during a read | a frame returned by `async_read` is newer than the call before |
| **motors** (motors_bus and four vendors) | calibration, torque, comm handlers | sync/single read and write with retries, calibrate, connect | robots and teleoperators | registers, memory and file written one after another, any write may fail, the program may be killed | an arm that runs is measured and scaled by one calibration, the one on disk |
| **robots**, **teleoperators** | last command, watchdog time | `connect`, `get_observation`, `send_action`, keyboard listeners | scripts drive them; LeKiwi splits host and client over ZMQ | lost and conflated commands, watchdog | the base stops when commands stop |
| **scripts** (`lerobot_record`, `lerobot_train`, `lerobot_eval`, ...) and `utils/` | events (`exit_early`, `rerecord_episode`, `stop_recording`), step, checkpoint directory | record loop, train loop, checkpoint, resume | glue of all the above | event set by a listener thread at any time, crash between checkpoint and link | each kept episode saved once; `last` always names a whole checkpoint |
| **processor** | steps with state (the cached robot state of relative actions), feature contracts | run, save, load, hot-swap | between robot, dataset and policy | order and state of steps: preprocessing at every step, prediction at some | an offset is added to the state it was predicted from |
| **mixture-of-experts action head** (`policies/smolvla/moe.py`, `policies/pi0/modeling_pi0.py`, driven by `scripts/lerobot_train.py` and `lerobot_eval.py`) | expert assignment in each layer, `_last_router_aux`, `last_aux` of each adapter, `_last_moe_aux_data`, the context variable of the task index, the deque of predicted actions | route, forward, aggregate losses, recompute for the backward pass, `select_action`, `reset` | train and eval loops, or a pool of evaluation threads, on one policy object | results travel through attributes; layers run again in the backward pass; threads share the object | the losses of a step are those of its batch; one expert assignment per call; a task executes its own chunks |
| **other policies** (act, diffusion, smolvla, sac, ...) | tensors, action deque | `select_action`, `forward`, `reset` | called by scripts and servers | numerical | an action chunk is consumed in order |
| **envs, configs, optim, model, data_processing, templates, examples, benchmarks, slurm, docs, tests** | - | - | - | - | - |

## 2. Modules

| Module | Models | State and actions in terms of the code |
|---|---|---|
| `AsyncData` | `helpers.py`, parts of `policy_server.py` | timed observations, `observations_similar`, `_time_action_chunk` as operators |
| `RobotClient` | `robot_client.py` | `cpc` and `rpc` are the program counters of the control loop (main thread) and of `receive_actions`; one action per stretch of code between two points where the other thread can be seen: `action_queue_lock`, `latest_action_lock`, `must_go`, a gRPC call. The merge is five steps (take the deque, iterate, compare each action, build, swap) because only the first and the last hold the lock |
| `PolicyServer` | `policy_server.py` | the handlers run on `Sessions`, `Senders` and `Getters` (the pool); `full`, `get_nowait` and `put` on the observation queue are separate steps; `Ready` replaces queue object and predicted set one after the other under running handlers |
| `AsyncInference` | client and server joined by their calls | a step of one component with the other unchanged, or a call or its answer that moves both; a failed call leaves its handler running as an orphan; a retried call (transport/utils.py) starts a second handler |
| `MCAsyncInference` | - | `AsyncInference` with two history variables for two properties |
| `AsyncInferenceProofs` | - | theorems about `RobotClient`, `PolicyServer`, the two joined, and `MCAsyncInference` |
| `ActionQueue` | `policies/rtc/action_queue.py` | `queue`, `originalQueue`, `lastIndex`; an operator or action per method that takes the lock |
| `RtcControl` | `examples/rtc/eval_with_real_robot.py` | `threadPc` is the inference thread (index, left-over, re-anchoring, inference, merge as separate steps), `Tick` one turn of the actor thread with its interpolator |
| `ReplayBuffer` | `rl/buffer.py`, and what `rl/learner.py` does to it | the columns of the ring, `position`, `size`; `mpc` is the learner's thread (receive, add column by column, take a batch, checkpoint), `ppc` the prefetch thread (`sample` read by read, `put` with time-out) |
| `TransitionLog` | what `rl/buffer.py` promises | the newest transitions, oldest first, and a saved copy of them; `ReplayBuffer` is shown to implement it |
| `ReplayBufferProofs` | - | theorems about `ReplayBuffer`, and that it implements `TransitionLog` |
| `MoePolicy` | `smolvla/moe.py`, `pi0/modeling_pi0.py`, train and eval scripts | `pc`, `layer` and `step` of the training thread and of each evaluation task; the attributes through which routing and losses travel |
| `ActorLearner` | `rl/actor.py`, `rl/learner_service.py`, `rl/process.py`, `rl/queue.py`, the receiver of `rl/learner.py`, chunking of `transport/utils.py` | two programs and three streams: `outbox`, `chunks`, `inbox` are a stream's queue, what is on its way and what is being put together; `call` is its state, `orphans` the handlers of streams whose caller has gone; signals, joins and an actor started again are actions |
| `ActorLearnerProofs` | - | theorems about `ActorLearner` |
| `DatasetWriter` | `dataset_writer.py`, `dataset_metadata.py`, `LeRobotDataset.resume` | buffer, data and video files, metadata rows, totals of `info.json`; an operator or action per method |
| `RecordSession` | `lerobot_record.py`, `control_utils.py` over `DatasetWriter` | `recordPc` walks through `record_loop` and `record`; `save_episode` is four steps, for it may fail between them; `PressKey` sets the events at any moment |
| `StreamingEncoder` | `StreamingVideoEncoder` of `video_utils.py` | the recording thread and the camera's encoder thread, the bounded queue between them, sentinel, stop event and result |
| `DatasetReader` | `dataset_reader.py`, `sampler.py`, `load_episodes` | operators: rows loaded, window and padding, image by timestamp, indices of the sampler, files to download |
| `Aggregate` | `aggregate.py` | one action per file merged, with the offsets and file numbers the code carries from source to source |
| `DatasetTools` | `delete_episodes`, `split_dataset` of `dataset_tools.py` above `Aggregate` | a dataset made of some episodes of another: rows, videos and metadata renumbered by three operators, as by three functions of the code |
| `StreamingDataset` | `streaming_dataset.py` | a `Backtrackable` per shard with its two buffers; `DrawShard` is one turn of `__iter__` with `make_frame`; `WellFormed` says what recordings leave in a dataset |
| `CameraReader` | `camera_opencv.py` | `reader` is the program counter of the background thread of each connection, `robotPc` of the caller's; lock sections and the event are separate steps |
| `LeKiwiHost` | `lekiwi_host.py` | one iteration in three steps (receive, watchdog, observe) that take time; commands and stops may be lost |
| `SoFollower` | `so_follower.py` over `motors_bus.py` and `feetech.py`, `robot.py`, `lerobot_calibrate.py` | sessions of programs with one arm: `armPc` walks through `connect`, `calibrate`, `configure` and `disconnect`, and `todo` are the register writes that the present operation has left, any of which may raise, having reached the motor or not; registers and `calibrationFile` outlive a program, `calibration` and `busCalibration` do not |
| `ComponentProofs` | - | theorems about `StreamingEncoder`, `RecordSession`, `CameraReader`, `LeKiwiHost` and `SoFollower`, and the types of all that `MCComponents` puts side by side |
| `RelativeActions` | `relative_action_processor.py`, `predict_action`, `rollout`, the server's `_predict_action_chunk` | `lastState` is the state the preprocessor caches, `queuedOffsets` the rest of a chunk in the policy; whole chunks or one action at a time; the robot moves at any moment |
| `ActionProofs` | - | theorems about `RtcControl`, `ActionQueue` and `RelativeActions` |
| `Evaluation` | `rollout` and `eval_policy` of `lerobot_eval.py` | one action per step of the vector of environments, `CompileBatch` and `CompileInfo` for the results |
| `Checkpoints` | `train_utils.py`, the loop of `lerobot_train.py` | a step of training, one action per file of a checkpoint, unlink and link of `last`, crash at any point, resume from `last` or another |
| `TrainingProofs` | - | theorems about `MoePolicy`, `Evaluation`, `Checkpoints` and `StreamingDataset` |
| `DatasetProofs` | - | theorems about `Aggregate` and `DatasetTools`, and the types of all that `MCTraining` puts side by side |
| `SequenceLemmas` | - | lemmas: induction over a number, what `FlattenSeq` and `SubSeq` give of joined and extended sequences |
| `MCInference`, `MCComponents`, `MCTraining` | - | modules that share no state, checked in one run: every behaviour is one of one part |

Definitions whose comment begins with *Mutant* are plausible mistakes in the
definition that follows them. No specification uses them: putting one in the place of the
real definition must make a run fail, which shows that the property can.

### What is abstracted

- *Async inference.* Actions are their timesteps, observations a timestep, a pose and the
  must-go flag: the aggregate function, tensors and pickles are left out. Similarity of two
  observations is equality of poses. `SendPolicyInstructions` is one step, because the
  client waits for it alone. An idle handler is chosen by `IdleSender`: the threads of the pool
  are interchangeable. Senders and getters are two pools of their own; the code has one of
  four workers, more than the client's two threads need, orphans aside.
- *RTC.* Time is counted in turns of the actor; a delay is the number of turns an inference
  took plus the rounding `Overrun` allows. An action carries the turn it was predicted for
  (`due`), which is how lateness can be stated. `ClearQueue` is an action of its own: nothing in
  the example calls `clear`, the HIL example does.
- *Replay buffer.* A state is the number of the transition that starts in it; a batch is one row
  (rows are drawn independently); each access to a tensor is a step. The contents of prefetched
  batches are left out once `put`, and so are augmentation, rewards and `complementary_info`.
- *Mixture of experts.* A tensor is the number of the call it was computed for. A layer's
  position stands for the index by which the discriminator knows it. `torch.utils.checkpoint` is external: it
  calls `forward_func` again, then every layer again, from the last to the first; it may stop the
  former early, and may raise when a layer saves fewer tensors than before.
- *Actor and learner.* A transition is the run of the actor and its step; parameters are numbers. A
  payload is cut into at most `MaxParts` chunks. gRPC is external: a stream holds a worker from call to end, and the handler of
  `StreamParameters` notices that its caller has gone when it next yields. Messages about episodes, which are logged, have a
  stream but no contents; NaN, the offline buffer and the training step are left out.
- *Recording.* One camera; whether a size limit is reached is a choice, so that files roll over anywhere.
  Metadata rows are written at once, for a process that is killed between their flushes is not modelled; an
  interrupt or a failing encoder, after which `finalize` runs, is. Batch encoding (`batch_encoding_size > 1`) and image features are left out.
- *Datasets made of others.* A frame is the recording, episode and number it had; a size and a duration are counted
  in frames. Every dataset carries the episodes it ought to hold (`contents`), from which the property
  computes what reading must give. Statistics are left out.
- *Streaming.* Frames are tensors by name; the loaded dataset of `DatasetReader` is the reference.
- *SO arm.* Of the registers, the torque and the three of the calibration; a few positions stand for 4096. The lock
  of the permanent memory goes with the torque, the gains of `configure` are written in one step that may raise.
  Reads change nothing: one that fails is `Raises`.
- *Relative actions.* One joint that is not excluded. The server's handlers predict one after the other; two at
  once would share `_last_state` too (`PolicyServer` has them, without the states).
- *Camera.* Time is left out, so every timeout may happen; RealSense and ZMQ repeat the protocol.
- *Evaluation.* A reward is the step it was given for, so that a sum is the set of steps counted.
- *Checkpoints.* A file is the state it was saved from, missing or torn.

## 3. Runs

| Run | Question | Result |
|---|---|---|
| `inference` | Joined, does the asynchronous server answer as `RobotClient` assumes, and does the client keep its queue? With RTC, does the robot execute the right action at the right time while two threads share the queue? Are relative actions added to their own state? | `ClientRefined` (every behaviour of the pair is one of the client with an open environment), `QueueIsOneChunk`, `QuietMergeIsFresh`; `QueuesAligned`, `PrefixForesees`, `ExecutedInOrder`, `ExecutedOnTime`, the last with the bound that rounding and the unmeasured ticks allow; `ChunksAnchored`, for chunks postprocessed as a whole, hold |
| `async_faults` | Two launches, a failed or retried call, orphans of the first launch | `PolicyOfSession` holds: a client never gets actions of the policy of another |
| `async_liveness` | Does work end? | `WorkAnswered`, `SendEnds`, `ShutdownTerminates` hold under fairness |
| `replay_buffer` | Ring, prefetch thread, checkpoint and resume | `SampledWhole`, `SampledNext` (with its named exceptions), `CheckpointFaithful`, `PrefetchServes` hold, and `KeepsNewest`: the ring implements `TransitionLog` |
| `training` | Pi0 mixture of experts in training with evaluations between; datasets merged, cut, split, and what was made of them again; a streamed pass; batches of an evaluation; checkpoints under crashes | `LossesOfThisBatch`, `OneAssignmentAlone`, `ExecutesOwnActions`, `DatasetsReadBack`, `StreamedOnce`, `EvaluatedEpisodes`, `ResumesWhole` hold, with the exceptions section 5 names |
| `components` | Streams of actor and learner; recording sessions; streaming encoder; camera thread; LeKiwi watchdog; sessions of an SO arm | `StoredInOrder`, `LoadsNewest`, `EpisodesArrive`, `ActorStops`, `SavedEpisodesReadBack`, `VideoFitsEpisode`, `RecordingEnds`, `EncodedInOrder`, `FinishReturns`, `ReadsFreshFrame`, `BaseStopped`, `ReadsAsCalibrated` hold, with the exceptions section 5 names |
| `mustgo_enqueued` | tests: "An observation with `must_go=True` is always enqueued." | violated: `full()` is true, `GetActions` takes the old observation, `get_nowait()` raises |
| `receiver_dies` | the lock protects queue operations | violated: `actionQueue` changes under the iteration of the receiver, whose thread dies |
| `lost_rearm` | after actions are received, the next empty queue triggers must-go | violated: the control loop clears the event that the receiver has just set |
| `eval_mask` | a comment of `eval_policy`: results after the first done step "won't be included" | violated: the mask keeps `done_indices + 1`, the first step of the episode that the environment began by itself |
| `parallel_eval` | one expert assignment for the whole denoising loop | violated when `max_parallel_tasks > 1`: threads overwrite each other's routing |
| `relative_steps` | `docs/source/action_representations.mdx`: all actions of a chunk share the state at the moment of prediction | violated: `predict_action` and `rollout` preprocess at every step, and a queued action is added to a newer state than the one it was predicted from |

### Bounds, and why they are enough

- *Async.* `ActionsPerChunk = 2` and `Horizon = 2` (three timesteps) let a chunk be partly
  stale, wholly stale and fresh; two poses let observations be similar or not; `ThresholdNum/ThresholdDen = 1/2`
  makes the client send with one action left, 0 only when it has none. One worker for each
  kind of call suffices without faults, for the client waits for each call; the fault runs make
  a second handler through an orphan (`MaxRpcFaults = 1`) or a second session. `async_liveness`
  has two senders, so that two may contend for the one-place queue. The faults and liveness runs
  use one action per chunk and one pose: their properties do not depend on what is in a chunk.
- *RTC.* `ChunkSize = 4` with a threshold of 1 leaves room for delays from none to a whole
  chunk; three chunks make a replacement of a replacement; `Multiplier = 2` turns interpolation on;
  10 turns let the third chunk replace what is left of the second, late or early, and be executed.
- *Replay buffer.* Four transitions into three slots wrap the ring once, and place the
  seam; with a crash, also in a buffer filled from a dataset. `QueueSize = 1` makes the queue full.
  `CHECK_DEADLOCK FALSE`: a learner waits for ever in `get` when the prefetch thread has died of an exception (hazard at
  `buffer.py:376`), and the run stops at its bounds.
- *Mixture of experts.* Two layers tell positions apart, two denoising steps show that an assignment is reused,
  two actions per chunk that order matters, four calls suffice for train, evaluate twice, train;
  every combination of whole-expert or per-layer, checkpointing, labels and parallel tasks is
  an initial state.
- *Actor and learner.* Two steps and two chunks cut a payload in the middle; two parameter versions can be
  overtaken; one fault breaks a stream, and with an actor started again its handler is the orphan
  that, with the two others, fills the pool of `MaxWorkers = 3`, the code's own number.
- *Recording.* Two episodes of at most two frames, two sessions and one key: a take given up, one saved, a save torn
  and a session resumed after it. More keys only repeat the reset and the discarding of a take.
- *Relative actions.* Two states, two offsets and chunks of two: the second action of a chunk can meet another state.
- *SO arm.* Two motors, one of them the full-turn one, and three programs: a session interrupted, one that finds what
  it left, one that finds what that left. A turn has 8 steps and offsets reach 3, as 4096 and 2047, so that the
  last position has an offset too large; a range of one position is refused.
- *Encoder, camera, host.* A queue of two and five frames are enough to fill it and lose one; two episodes show that nothing is
  carried over. Two connections make a leftover thread, three shots a frame before, during and after a read.
  Ten units of time hold three timeouts of three.
- *Datasets.* Recordings of three frames in episodes of one and two, laid out in one file of each kind, with a file more of
  one kind or of all; two limits of the sizes make merged files roll over or not, kind by kind; two datasets are made, so that what was merged is cut and what
  was cut is merged. Three pairs of fractions: halves, one that rounds to nothing, one that leaves a rest.
- *Streaming.* Six rows in one or two shards, a shuffle buffer of two, a history of three and a lookahead of
  two with windows from -3 to 2: past both buffers and over the ends of both episodes.
- *Evaluation.* Three episodes on two environments: a last batch with one too many. Three steps let one environment be done
  while the other goes on, with a second and a third episode.
- *Checkpoints.* Five steps saved every two (and at the last), three runs: a crash, and another while a checkpoint is written again.

### Fairness

Weak fairness of each thread's local steps and of each handler: the operating system runs
every thread that can go on, and no loop of the code is left out of its own thread's
scheduling. Calls of the client are fair too: gRPC delivers them or fails them, and a failure is
never assumed to happen. The steps of the environment (interrupts, failures, captures that raise,
timeouts of `get`) have no fairness. `WorkAnswered` says what it excuses: a later
observation may displace the one waiting, so it is stated for observations no other follows. In
`ReplayBuffer` adding, sampling and a learner that waits for a batch are fair; whether transitions
arrive, batches are asked for or iterators are closed is left open.

In `components` each thread or process of the link, the session's own steps, and both threads of
the encoder are weakly fair; faults, signals, keys and failing encoders are not. Strong fairness of
`ResetIteration(TRUE)` says that time passes: a reset that is iterated again and again is over at last.

### Refinements

- `KeepsNewest == KeptLog!LogSpec` (run `replay_buffer`): under the mapping that unrolls the ring from its oldest
  slot and leaves out a row being overwritten, every step of the buffer, tensor by tensor, is a
  step of `TransitionLog` or a stutter. The log discards its oldest entry before it stores another,
  because the code writes the new row over the old one. TLC checks it for three slots,
  `RingIsLog` proves it for every capacity.
- `ClientRefined` (run `inference`): in one launch, every behaviour of client and server joined is one of the client with an
  open environment; `PairImplementsClient` proves it for every number of workers, faults and retried calls.
  With several launches it is not claimed: the client begins anew while the server and its handlers go on.

## 4. Theorems

All are checked by TLAPS for every value of the constants that satisfies the named assumptions, which
say no more than that counts are positive, that sets of values are disjoint, and that `None` or a missing tensor is
no value of the kind it stands in for; the datasets streamed are well formed (below). `PairImplementsClient` has one hypothesis more, `MaxSessions = 1`. Each property
below is also checked by a run; the inductive invariants were checked by TLC on the bounds of the runs before they were proved.

*Async inference* (`AsyncInferenceProofs`).

- `TypeCorrect`, `QueueAlwaysOneChunk`, from `ClientSpec`. `QueueIsOneChunk` is not inductive, for
  the receiver builds the next queue while the control loop pops from the present one. `QueueInv`
  says of a merge in progress that what is kept so far (`future`) and what is still to be seen (`incoming`) are
  each in order, and that the first `Precedes` the second within one chunk. `MoveHead` moves one
  action from one to the other; `TailOneChunk` covers a pop; the other steps leave the queue alone.
- `PairTypeCorrect`, `PairQueueAlwaysOneChunk`: the same of client and server joined, in every launch. `ServerInv` adds to the
  types that the queue objects number as many as the `Ready` handlers that have made one (`ObjectsCounted`), which bounds them,
  and that a handler holds the observation it works on (`HandlersHold`), which types the chunk it returns.
- `AlwaysPolicyOfSession`: `CallsHeld` says that an open call has its thread of the client waiting for it, `Handshake` that
  from the return of `SendPolicyInstructions` on, the policy loaded is that of the client's launch. Handlers of earlier launches may be
  anywhere; the policy is set by that call alone.
- `PairImplementsClient`: step by step, with `ObservationsSent`: the server has no observation but those the
  client has sent, so that its chunk is one the open environment of `RobotClient` may give.
- `AlwaysQuietMergeIsFresh`, of `MCSafety`: `QuietSoFar` says of every step of a merge what the property says of its last.

*RTC and relative actions* (`ActionProofs`).

- `RtcTypeCorrect`, `QueuesStayAligned`: `TypeInv` is the type invariant with
  `QueuesAligned` and the fact that a request in progress has its chunk counted; alignment is needed for the type itself, because `merge` cuts both queues by the same index.
- `AlwaysInOrder`: `OrderInv` adds three parts. `QueueInOrder`: what
  remains follows action by action, or, without RTC, chunk after chunk. `QueueEndsChunk`: the queue ends
  with the last action of the newest merged chunk, so that an appended chunk follows it.
  `ExecutedBeforeQueue`: the action executed last stands just before the next one, or the next one comes after it, and
  its chunk is one of those merged. One lemma per kind of step: replace, append, take, clear, other.
- `AlwaysForesees`: `PrefixForesees` is inductive with `TypeInv`: the actor moves one action from what is queued to
  what was executed (`MoveNext`), and their concatenation stays.
- `AlwaysOnTime`: `TimeInv` adds that neighbours in the queue are due `Multiplier` ticks apart (`DuesInStep`), that the
  next one is due now, up to the margin (`NextOnTime`), and what the delay measured has to do with the ticks that
  passed (`DelayMeasured`). `DelayBounds` turns the rounding of the delay into two inequalities; `MergeOnTime` is the step where they are needed.
- `AlwaysAnchored`: `ChunksAnchored` is inductive with `PredictedFromLast`, that what waits to be
  postprocessed was predicted from the state that is cached; the robot may move in between, the preprocessor may not run.

*Replay buffer* (`ReplayBufferProofs`), from one invariant, `RingInv`.

- `BufferTypeCorrect`. `Window` gives `size` and `position` as functions of the number of transitions added, `SlotsFilled` says that a
  slot holds every column of the newest transition with that place (`EntryAt`), `SlotWritten` which columns of the slot at `position`
  the add in progress has overwritten.
- `AlwaysSampledWhole`, `AlwaysSampledNext`: `BeingSampled`, `TestedFull`, `RowRead` and `NextRead` say of a sample in progress
  what its columns so far are, unless its slot was touched; a slot read early and one read late agree because nothing but an
  add writes, and an add marks the slot.
- `AlwaysCheckpointFaithful`: what `to_lerobot_dataset` walks through from the seam is the log's end (`ToDatasetIs`); `AllProper` says what the
  transitions added, stored and saved have in common.
- `RingIsLog`: `Spec => KeepsNewest`, each write a step of `TransitionLog` or a stutter.
- The lemmas on remainders (`ModUnique`, `ModInjective`, `NewestStep`, `Position`) are what counting around a ring needs.

*Actor and learner* (`ActorLearnerProofs`).

- `AlwaysStoredInOrder`. `PayloadsWhole`: what `receive_bytes_in_chunks` has put together is a beginning of one payload,
  so that END completes what BEGIN began, wherever a stream was cut. `OrderInv` then follows the transitions from the store back
  to what has arrived, what was sent, what was pushed and the episode in progress: each place goes on where the one before ends,
  or begins a run.
- `AlwaysLoadsNewest`: `VersionsGrow`, the same of the parameters, the other way.
- `LinkTypeCorrect`, with `PoolInv`: an orphan handler is left by an earlier run, one at most by each, and
  handlers hold no more workers than there are; it rests on theorems about cardinality.

*Devices* (`ComponentProofs`).

- `HostTypeCorrect`, `AlwaysBaseStopped`: `HostInv` adds that the time kept is that of the command obeyed last, and that while the watchdog
  counts a silence as dealt with, the base stands or the stop was lost.
- `CameraTypeCorrect`, `AlwaysReadsFreshFrame`: `CameraInv` numbers the frames (`FramesCounted`), says which threads
  may still run (`OwnThread`) and that a set event means a frame not yet seen (`FreshOnceSet`), but for the
  exceptions of the property: the frame returned once more because its event was set late, and a thread left over from an
  earlier connection.
- `ArmTypeCorrect`, `AlwaysReadsAsCalibrated`: the writes an operation has left may fail anywhere, so the invariant is about
  what is still to come: each register has its value or a write in `todo` that brings it (`CalibrationComes`, `TorqueComes`), and
  `FilesKept` and `Calibrated` relate file, robot and bus at each point. One lemma per operation, for every number of motors.
- `ComponentsTypeCorrect`, of `MCComponents`: a step of one part is a step or a stutter of each (`OfEachPart`), so that `PartsInv`, the invariants of
  all the parts, is kept, and with it the types of all.

*Recording* (`ComponentProofs`).

- `EncoderTypeCorrect`, `AlwaysEncodedInOrder`: `NothingLost`: what is encoded followed by what waits is what was accepted, and the
  sentinel comes last; `VideoDone` carries it to the result.
- `AlwaysVideoFits`: `SavingInv` counts the images on disk (`ImagesLeft`, those of a discarded take included), or the frames streamed
  (`StreamFed`), against those of the buffer, and carries the length through the steps of a save (`LengthComes`), for all sessions, keys and
  failures.
- `RecordTypeCorrect`: a frame is one of a take that may have begun, so `SessionInv` counts the takes: one at the start of each session, one
  after each episode saved and one for each key that asks for a take again (`TakesAllowed`), with those still to begin. `SavingInv` and `ReadInv` keep their types by it.
- `AlwaysReadBack`: `SavedEpisodesReadBack` compares what the metadata point at in the files with the history, and is not inductive: between
  the rows of an episode and its metadata row the files hold more than the metadata know of. In `ReadInv`, `Committed` is what the data
  files hold up to the last one the metadata name, `FilesKnown` says that at most one file follows it, so that a roll-over starts a fresh one, and `RowsEnd` that, while
  nothing torn was resumed, these rows end with the last episode, and during a save all rows end with those of the buffer. `RowsRead` and `VideosRead` are the property of each saved episode, `VideosKnown` what
  is known of the video files. One lemma per kind of step and of file. Rows and images live in files that are sequences of sequences: `JoinsExists`, `FlattenAppend` and
  `PartIs` of `SequenceLemmas` say what `FlattenSeq` and `SubSeq` give when one of them grows, by induction over their number.

*Training and evaluation* (`TrainingProofs`).

- `CheckpointsTypeCorrect`, `AlwaysResumesWhole`: `StepsNamed` (a checkpoint holds its own step or nothing), `SaveInProgress` (the files written so far are
  those of the present state) and `KeptOrUnfinished`: a checkpoint that is not whole lacks its last file, so that it becomes
  whole only with that one.
- `MoeTypeCorrect`, `AlwaysLossesOfThisBatch`, `AlwaysOneAssignmentAlone`, `AlwaysExecutesOwnActions`, from `MoeInv`: `Turns` and
  `Progress` say which threads may be where, `LossesInOrder` which layers have left their losses so far, `Assigned` and `UsedOwn` which assignment
  each layer of a call has used, `ChunkIsOwn` that the deque of actions is the rest of a chunk of its task. What `Collected`, a recursive function, gives of the list
  of layers is proved by induction over the number of layers (`CollectedAll`, `CollectedNone`). The library's
  induction theorem cannot be instantiated here, so `ByInduction` of `SequenceLemmas` states induction about a set of numbers, from `LeastNumber`.
- `EvalTypeCorrect`, `AlwaysEvaluatedEpisodes`: `RolloutInv` says what the columns of a rollout hold of each environment: only steps of its seeded
  episode while that goes on (`Going`), or those up to where it ended, and the first of the next (`DoneAt`). `MaskIs` shows that
  `argmax` finds that column. `ResultsInv` says the property of each result so far, with `EpisodeOf` computed by
  quotient and remainder (`EpisodeIs`, `EpisodeAmong`), and counts results and seeds, so that the strict `zip` does not raise with seeds.
- `StreamTypeCorrect`, `AlwaysStreamedOnce`, for every dataset that satisfies `StreamedAssumption`, every shuffle buffer, history, lookahead and set
  of offsets. The assumption is what recording, merging and cutting leave when all that was saved is there: rows numbered through the files, those of an
  episode one after the other in one data file, a place for its images in one video file; a save cut short by a crash is not covered. The number of files, the lengths
  of episodes and images nobody points at are left open. In `StreamInv`, `At` says that the two buffers of a shard and what it has left are the rows before
  and after the last one drawn, without a gap (`AdvanceIs`, `FillIs`), and `GivenRight` and `GivenOnce` that the frames in the buffer and those yielded are of the rows
  drawn, each once. That a window is the loaded dataset's has its own chain: `FlattenPlaces` finds each row of the files in the rows of the dataset,
  `EpisodeTogether` the rows of its episode next to it, `WantedIs` shows that enough is read ahead, `ReachedIs` and `WindowIs` that the window ends
  where the episode does, `ImagesAre` the same of the images.

*Datasets made of others* (`DatasetProofs`), for every choice of recordings, of their layouts in files, of the limits at which a file is full, of
fractions and of how many datasets are made.

- `AggregateTypeCorrect`, `AlwaysDatasetsReadBack`, from `ToolsInv`. `DatasetsReadBack` reads items; of a dataset at rest the invariant says instead how
  it lies in its files (`Good`): the episodes follow one another (`EpisodesRight`), the rows of each are those recorded
  (`RowsRight`), in the data file named (`FilesRight`), and so are the frames of its video (`VideosRight`). `GoodReadsBack` shows that such a dataset
  reads back, whole or by the episode, that the files downloaded suffice and that the sampler fits.
- A merge in progress: `MergeTyped` says that the files left to copy are the last of those the metadata name (`LeftOf`), and that for each file
  copied the destination remembers one that exists, with a place in it. `MergeRight` says that what the merge began with is still right, and that the frames, rows and episodes
  copied so far are those of the source with their indices moved (`VideosMoved`, `RowsMoved`, `RowsFiled`, `EpisodesMoved`); `SourceComplete` puts
  these together when the last file of a source is done. One lemma per kind of step (`VideoStep`, `DataStep`, `MetadataStep`, ...).
  `MergeTyped` does not need the sources' metadata to name the right files, `MergeRight` does; this is the exception of the property.
- Deleting and splitting: `KeptGood`, that some episodes of a good dataset, renumbered by the three functions, are again a good one. It rests on `KeptBegins`
  (where each episode kept begins), `ReindexedData` (rows), `KeptVideos` (what is left of each video file) and `KeptMetadata`. `FractionsAre` shows that
  the parts of a split are disjoint, not empty and within the dataset, so that `SplitStep` may use `KeptGood` of each.
- Files are sequences of sequences. `BeginsExist` gives the places where each begins, by induction over their number, and `FlattenLays` finds each of
  their elements at its place in `FlattenSeq`, so that the lemmas above speak of places and of no fold.
- `TrainingTypeCorrect`, of `MCTraining`, as `ComponentsTypeCorrect`: every part behaves as it specifies (`PartsBehave`), and its types follow from
  `MoeTypeCorrect`, `AggregateTypeCorrect`, `StreamTypeCorrect`, `EvalTypeCorrect` and `CheckpointsTypeCorrect`.

Only model-checked, and why:

- liveness under fairness, which the provers cannot treat: `WorkAnswered`, `SendEnds`, `ShutdownTerminates`, `PrefetchServes`,
  `EpisodesArrive`, `ActorStops`, `RecordingEnds`, `FinishReturns`.

Every invariant, action property and refinement that a passing run checks is stated by a theorem.

## 5. Findings beside the violated runs

Seen while modelling, without a statement in the repository that a run could hold against the code; the hazards of
`PROJECT.json` name the lines. Where a property excepts one of these, its comment says so.

*Async inference and RTC.*
- `control_loop` may die of `queue.Empty` (`robot_client.py:470`): a merge of stale actions only empties the queue between
  `actions_available` and `get_nowait`. A merge that races with an action in progress brings executed actions back.
- A handler of the previous client puts its observation in the queue of the next session; a late orphan `Ready` resets a
  running session. A must-go observation waiting is displaced by any later one.
- The RTC inference thread dies by `sys.exit` in its thread without setting `shutdown_event`, and the actor starves.

- With relative actions and `n_action_steps > 1`, `select_action` gives actions that are offsets from an older state than the one
  the postprocessor adds (run `relative_steps`); resetting the two processors does not forget the state.

*Replay buffer, actor and learner.*
- A transition written while the prefetch thread samples its slot is read torn. With `optimize_memory` the newest slot of a full ring is sampled
  with the oldest state as its next one; a NaN transition skipped, a truncated episode and the junction of a resumed run give a wrong next state too.
- Interventions never reach the offline buffer: `learner.py` looks in `complementary_info`, where `actor.py` puts only
  `discrete_penalty`. The interaction step saved with a checkpoint is 0 when no message was queued in the last turn.
- The actor joins `receive_policy`, which looks at the stop event only when parameters arrive: told to stop, it waits for a learner
  that pushes none. A handler of `StreamParameters` whose actor has gone holds its worker until it next yields; with three workers, a restarted
  actor's transitions may then wait for a worker while the learner waits for transitions.

*Recording.*
- A save that fails after its rows are written leaves rows that no metadata mention; what a resumed recording saves after
  them is read at the wrong rows.
- `clear_episode_buffer` removes images of `image_keys` only: PNG files of a take given up stay, and lengthen the video of
  the next take when that is shorter.
- Without a teleoperator the reset loop goes on by `continue` before it takes the time, and only a key ends it.
- Batch encoding names the metadata file by the data file's chunk and index (`dataset_writer.py:335`), and needs
  `_meta.episodes`, which is not loaded while a new dataset is recorded.
- `finish_episode` puts its sentinel without timeout: a dead encoder behind a full queue blocks it. Frames
  dropped for a full queue shift the rest of the video against the rows.

*Datasets.*
- `update_meta_data` names the metadata file by the one last written, before `append_or_create_parquet_file` decides whether to
  begin the next. When the rows do begin the next, delete and split of the merged dataset raise, and merging it again loses episodes or raises.
- With several video files, the streamed dataset looks for images at `index / fps`, which is a place in the dataset and not
  in the file: it gives other images, or the decoder raises and the rest of the shard is dropped in silence. The same
  happens in one video file behind the images of a discarded take, which move those of later episodes. Its
  clamp to the inclusive `to_timestamp` gives the first image of the next episode, not marked as padding.
  Its argument `episodes` is not used, nor are shards divided between the workers of a loader. Padded values repeat the last row found
  among the deltas asked for, which differs from the loaded dataset when the deltas are sparse.
- The sampler's indices are places in the whole dataset, the loader uses them as places among the selected
  episodes: with `dataset.episodes` set, training reads other rows or an index out of range (`lerobot_train.py:360`).
- The last named split takes the remainder, even when its fraction asks for less.

*Training and evaluation.*
- With activation checkpointing and per-layer routing, the task loss is computed in the forward pass and not in its recomputation.
- Evaluation without a seed on several environments raises in `zip(strict=True)`, for one `None` is kept per batch. The maximum of
  negative rewards is 0, because the mask multiplies by 0.
- A crash between `unlink` and `symlink_to` leaves no `last`. A run resumed from an older checkpoint writes later ones again
  in place; a crash then leaves a checkpoint whose files come from two runs, and it loads.

*Devices.*
- `async_read` may return the same frame twice, because the event is set after the lock is released. A camera thread that outlives the two seconds of `disconnect` uses
  the event and the device of the next connection.
- `torque_disabled` "guarantees torque is re-enabled", but `disable_torque` runs before its `try`, and `enable_torque` may
  raise half-way: some motors then stay without torque. Programs end in that case, so no arm runs so.
- A motor at position 4095 in the middle of its range has the homing offset 2048, which `encode_sign_magnitude`
  refuses: `set_half_turn_homings` raises, after the calibration in the registers was reset.
- `_save_calibration` opens the file for writing first: a program killed there leaves a file from which the robot cannot be
  constructed, until it is removed.
- The watchdog sends one stop for each silence, by `sync_write`, which waits for no answer: one that is lost is not sent again.

## 6. Not modelled

The component list of `PROJECT.json` gives the reason for each part. Most of the package's lines are neural networks (a dozen policies, several
of them vendored models), statistics, image and video codecs, drivers of motors, robots and input devices, configuration and
command lines. They compute values or talk to hardware in straight lines: a model of them would repeat their formulas,
and has no interleaving or order that a property could be about. What the repository does with state over time,
across threads, processes or crashes, is what the modules cover; still left out there are:

- killed recording processes (metadata rows are flushed ten at a time), batch encoding, image features, several cameras;
- the naive iterator of the buffer, concatenation with the offline buffer, the learner's optimisation steps;
- features added or removed, conversion of datasets to videos, several datasets at once;
- the queue of actions of other policies, which is the one of `MoePolicy`; the HIL example, which shares the RTC queue;
- packets, normalisation and retries of the motors, one thread on a serial bus; motors of the other vendors, and the
  other robots and teleoperators, whose `calibrate` and `configure` repeat those of the SO arm.

## 7. Plan

Done: async client, server and composition; the RTC queue with its threads; the replay buffer with its
abstract log; mixture of experts; actor and learner; recording; cameras, host and SO arm; relative actions; datasets read, merged,
edited and streamed; evaluation and checkpoints. Proofs of client, server and their composition, RTC, relative actions, the
replay buffer with its refinement, actor and learner, devices, encoder, length of videos and what is read back of a recording, mixture of experts, checkpoints, evaluation, the streamed pass, and the datasets made of others.

Next, should the project go on:

1. The refinement of the client by client and server joined over several launches: it needs a client with an environment that remembers the handlers of earlier launches.
2. Recording processes that are killed, with metadata rows flushed ten at a time, as a crash of `RecordSession`.
3. A merge of sources whose metadata name other files than those that hold them, once the code decides what it should give.
