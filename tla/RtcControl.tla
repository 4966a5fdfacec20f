------------------------------ MODULE RtcControl ------------------------------
(***************************************************************************)
(* The two threads around an ActionQueue, as eval_with_real_robot.py runs  *)
(* them: get_actions asks the policy for a chunk when the queue runs low   *)
(* and merges it; actor_control takes an action from the queue every       *)
(* Multiplier ticks and interpolates between.                              *)
(*                                                                         *)
(* Time is counted in ticks of the actor.  The requester's thread runs at  *)
(* any speed: any number of ticks pass between two of its steps.  Only the *)
(* latency it measures is tied to the ticks that passed meanwhile: a tick  *)
(* takes its share of 1 / fps, save that the actor, when send_action is    *)
(* slow, falls behind by up to Overrun ticks during one request.           *)
(***************************************************************************)
EXTENDS ActionQueue

CONSTANTS
    ChunkSize,   \* actions in a chunk
    Threshold,   \* cfg.action_queue_size_to_get_new_actions
    Multiplier,  \* cfg.interpolation_multiplier
    Overrun,     \* ticks the actor may fall behind while a chunk is computed
    MaxChunks,   \* bound: requests made
    MaxTicks,    \* bound: ticks of the actor
    MaxClears    \* bound: calls of clear()

ASSUME RtcAssumption ==
    /\ ChunkSize \in Nat \ {0}
    /\ Threshold \in Nat
    /\ Multiplier \in Nat \ {0}
    /\ Overrun \in Nat
    /\ MaxChunks \in Nat /\ MaxTicks \in Nat /\ MaxClears \in Nat

Actions == [chunk : 1 .. MaxChunks, step : 1 .. ChunkSize, due : Int]

ASSUME NoTensorAssumption == NoTensor \notin Seq(Actions) /\ NoTensor \notin Actions

VARIABLES
    relative,     \* the policy's preprocessor makes actions relative
    shutdownEvent, \* shutdown_event is set
    threadPc,     \* where the get_actions thread is
    chunks,       \* requests begun
    began,        \* current_time: the tick at which the request began
    indexBefore,  \* action_index_before_inference
    prefix,       \* prev_actions
    newDelay,     \* new_delay
    apc,          \* where the actor thread is
    buffered,     \* actions left in the interpolator's buffer
    hasPrev,      \* the interpolator has seen an action
    clock,        \* ticks so far (history)
    executed,     \* the action taken last, None after a clear (history)
    ran,          \* actions taken since prefix was read (history)
    slip,         \* ticks since the latency was measured (history)
    error,        \* slip when the chunk in the queue was merged (history)
    clears        \* calls of clear() so far

requester == <<threadPc, chunks, began, indexBefore, prefix, newDelay>>
actor     == <<apc, buffered, hasPrev>>
config    == <<relative, shutdownEvent, clears>>
vars == <<queueVars, requester, actor, config, clock, executed, ran, slip, error>>

\* An action: the chunk it belongs to, its place there, and the tick it is
\* meant for, its chunk starting at the tick of the request.
PredictChunk(c, t) ==
    [i \in 1 .. ChunkSize |->
        [chunk |-> c, step |-> i, due |-> t + Multiplier * (i - 1)]]

Init ==
    /\ QueueInit
    /\ relative \in BOOLEAN /\ shutdownEvent = FALSE
    /\ threadPc = "check" /\ chunks = 0 /\ began = 0
    /\ indexBefore = 0 /\ prefix = NoTensor /\ newDelay = 0
    /\ apc = "run" /\ buffered = 0 /\ hasPrev = FALSE
    /\ clock = 0 /\ executed = NoTensor /\ ran = <<>> /\ slip = 0 /\ error = 0
    /\ clears = 0

(***************************************************************************)
(* get_actions.                                                            *)
(***************************************************************************)
GetActionsThreshold == IF enabled THEN Threshold ELSE 0

RequestChunk ==
    /\ threadPc = "check" /\ ~shutdownEvent /\ chunks < MaxChunks
    /\ QSize <= GetActionsThreshold
    /\ chunks' = chunks + 1
    /\ began' = clock
    /\ threadPc' = "index"
    /\ UNCHANGED <<queueVars, indexBefore, prefix, newDelay, actor, config,
                   clock, executed, ran, slip, error>>

ReadIndex ==
    /\ threadPc = "index"
    /\ indexBefore' = lastIndex
    /\ threadPc' = "leftover"
    /\ UNCHANGED <<queueVars, chunks, began, prefix, newDelay, actor, config,
                   clock, executed, ran, slip, error>>

ReadLeftOver ==
    /\ threadPc = "leftover"
    /\ prefix' = GetLeftOver
    /\ ran' = <<>>
    /\ threadPc' = "reanchor"
    /\ UNCHANGED <<queueVars, chunks, began, indexBefore, newDelay, actor, config,
                   clock, executed, slip, error>>

\* For relative actions the prefix is read again, and its processed form used.
Reanchors == relative /\ prefix # NoTensor /\ GetProcessedLeftOver \notin {NoTensor, <<>>}

ReanchorPrefix ==
    /\ threadPc = "reanchor"
    /\ prefix' = IF Reanchors THEN GetProcessedLeftOver ELSE prefix
    /\ ran' = IF Reanchors THEN <<>> ELSE ran
    /\ threadPc' = "infer"
    /\ UNCHANGED <<queueVars, chunks, began, indexBefore, newDelay, actor, config,
                   clock, executed, slip, error>>

\* ceil(latency / time_per_chunk), for a latency within a tick of n ticks, or
\* up to Overrun longer: never zero.
Delays(n) ==
    {Greater(1, (n - 1 + k) \div Multiplier + 1) : k \in 0 .. 1 + Overrun}

PredictActionChunk ==
    /\ threadPc = "infer"
    /\ newDelay' \in Delays(clock - began)
    /\ slip' = 0
    /\ threadPc' = "merge"
    /\ UNCHANGED <<queueVars, chunks, began, indexBefore, prefix, actor, config,
                   clock, executed, ran, error>>

MergeChunk ==
    /\ threadPc = "merge"
    /\ Merge(PredictChunk(chunks, began), newDelay, indexBefore)
    /\ error' = slip
    /\ threadPc' = "check"
    /\ UNCHANGED <<chunks, began, indexBefore, prefix, newDelay, actor, config,
                   clock, executed, ran, slip>>

GetActionsEnds ==
    /\ threadPc = "check" /\ shutdownEvent
    /\ threadPc' = "done"
    /\ UNCHANGED <<queueVars, chunks, began, indexBefore, prefix, newDelay, actor, config,
                   clock, executed, ran, slip, error>>

\* An exception ends the thread; nothing sets shutdown_event for it.
GetActionsFails ==
    /\ threadPc \in {"reanchor", "infer"}
    /\ threadPc' = "done"
    /\ UNCHANGED <<queueVars, chunks, began, indexBefore, prefix, newDelay, actor, config,
                   clock, executed, ran, slip, error>>

(***************************************************************************)
(* actor_control: one iteration of its loop is one tick.                   *)
(***************************************************************************)
NeedsNewAction == buffered = 0

\* Send the action, or fail to, and sleep until the next tick.
Tick ==
    /\ apc = "run" /\ ~shutdownEvent /\ clock < MaxTicks
    /\ clock' = clock + 1
    /\ slip' = IF threadPc = "merge" THEN slip + 1 ELSE slip
    /\ apc' \in {"run", "done"}
    /\ UNCHANGED <<requester, config, error>>

\* Mutant: the interpolator hands out one action more than it was given.
TakeActionTwice ==
    /\ NeedsNewAction
    /\ Tick
    /\ Get
    /\ executed' = NextAction
    /\ ran' = Append(ran, NextAction)
    /\ buffered' = IF hasPrev THEN Multiplier ELSE 0
    /\ hasPrev' = TRUE

TakeAction ==
    /\ NeedsNewAction
    /\ Tick
    /\ Get
    /\ executed' = NextAction
    /\ ran' = Append(ran, NextAction)
    /\ buffered' = IF hasPrev THEN Multiplier - 1 ELSE 0
    /\ hasPrev' = TRUE

\* The robot is left as it is.
Starve ==
    /\ NeedsNewAction /\ ~HasAction
    /\ Tick
    /\ apc' = "run"
    /\ UNCHANGED <<queueVars, buffered, hasPrev, executed, ran>>

Interpolate ==
    /\ ~NeedsNewAction
    /\ Tick
    /\ buffered' = buffered - 1
    /\ UNCHANGED <<queueVars, hasPrev, executed, ran>>

ActorEnds ==
    /\ apc = "run" /\ shutdownEvent
    /\ apc' = "done"
    /\ UNCHANGED <<queueVars, requester, buffered, hasPrev, config,
                   clock, executed, ran, slip, error>>

\* The owner of the queue empties it.
ClearQueue ==
    /\ clears < MaxClears
    /\ clears' = clears + 1
    /\ Clear
    /\ executed' = NoTensor
    /\ UNCHANGED <<requester, actor, relative, shutdownEvent, clock, ran, slip, error>>

\* demo_cli: the duration is over, or a signal has come.
SetShutdownEvent ==
    /\ ~shutdownEvent
    /\ shutdownEvent' = TRUE
    /\ UNCHANGED <<queueVars, requester, actor, relative, clears,
                   clock, executed, ran, slip, error>>

\* Both threads are joined, and the robot disconnected.
Ended == threadPc = "done" /\ apc = "done" /\ shutdownEvent /\ UNCHANGED vars

Next ==
    \/ RequestChunk \/ ReadIndex \/ ReadLeftOver \/ ReanchorPrefix
    \/ PredictActionChunk \/ MergeChunk \/ GetActionsEnds \/ GetActionsFails
    \/ TakeAction \/ Starve \/ Interpolate \/ ActorEnds
    \/ ClearQueue \/ SetShutdownEvent \/ Ended

Spec == Init /\ [][Next]_vars

(***************************************************************************)
(* Properties.                                                             *)
(***************************************************************************)

\* Every variable keeps to the values the two threads give it.
RtcTypeOK ==
    /\ enabled \in BOOLEAN /\ relative \in BOOLEAN /\ shutdownEvent \in BOOLEAN
    /\ queue \in Seq(Actions) \cup {NoTensor}
    /\ originalQueue \in Seq(Actions) \cup {NoTensor}
    /\ lastIndex \in Nat
    /\ threadPc \in {"check", "index", "leftover", "reanchor", "infer", "merge", "done"}
    /\ chunks \in 0 .. MaxChunks
    /\ began \in Nat
    /\ indexBefore \in Nat
    /\ prefix \in Seq(Actions) \cup {NoTensor}
    /\ newDelay \in Nat
    /\ apc \in {"run", "done"}
    /\ buffered \in 0 .. Multiplier - 1
    /\ hasPrev \in BOOLEAN
    /\ clock \in Nat
    /\ executed \in Actions \cup {NoTensor}
    /\ ran \in Seq(Actions)
    /\ slip \in Nat /\ error \in Nat
    /\ clears \in 0 .. MaxClears

\* The action that follows a in the stream of all chunks.
Follows(b, a) ==
    \/ b.chunk = a.chunk /\ b.step = a.step + 1
    \/ b.chunk = a.chunk + 1 /\ a.step = ChunkSize /\ b.step = 1

Later(b, a) == b.chunk > a.chunk \/ (b.chunk = a.chunk /\ b.step = a.step + 1)

\* The robot never executes an action twice, nor one of an older chunk after
\* one of a newer: with RTC a chunk is followed without a gap until a newer
\* one replaces it; without RTC, all of every chunk is executed in order.
TakenInOrder ==
    executed # NoTensor /\ executed' \notin {executed, NoTensor} =>
        IF enabled THEN Later(executed', executed) ELSE Follows(executed', executed)

ExecutedInOrder == [][TakenInOrder]_vars

\* With RTC, each action is executed at the tick its chunk meant it for, up to
\* the rounding of the delay and of the interpolator, however the two threads
\* interleave: what merge drops is the time that has passed.  Late by the
\* ticks between the measurement and the merge, and no more; early by what the
\* actor fell behind and the rounding (the first action of all, which is not
\* interpolated, lasts one tick only).
OnTime ==
    executed' \notin {executed, NoTensor} /\ enabled =>
        /\ clock - executed'.due <= Multiplier - 1 + error
        /\ executed'.due - clock <= 2 * (Multiplier - 1) + 1 + Overrun

ExecutedOnTime == [][OnTime]_vars

\* While a chunk is computed, the prefix the policy was given is exactly what
\* the robot has executed since, followed by what it still has queued.
PrefixForesees ==
    threadPc \in {"reanchor", "infer", "merge"} /\ prefix # NoTensor /\ queue # NoTensor =>
        prefix = ran \o GetLeftOver
==============================================================================
