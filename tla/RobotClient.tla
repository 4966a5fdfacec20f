----------------------------- MODULE RobotClient -----------------------------
(***************************************************************************)
(* The robot client of async_inference/robot_client.py: a control loop on  *)
(* the main thread and a daemon thread that receives action chunks, which  *)
(* share a queue of actions, the timestep of the latest action executed,   *)
(* the size of the largest chunk seen and the must_go event.               *)
(*                                                                         *)
(* Each action is one step of a thread between two points where the other  *)
(* thread can run: the code inside a "with lock" block, or one access to   *)
(* an attribute that no lock protects.  The policy server is open here:    *)
(* any call may fail, and a call to GetActions may return a chunk for any  *)
(* observation this launch has sent.  AsyncInference closes the system.    *)
(***************************************************************************)
EXTENDS AsyncData

CONSTANTS
    ThresholdNum, ThresholdDen  \* config.chunk_size_threshold, as a fraction

ASSUME ThresholdAssumption ==
    ThresholdDen \in Nat \ {0} /\ ThresholdNum \in 0 .. ThresholdDen

VARIABLES
    session,          \* which launch of the client program is running
    running,          \* shutdown_event is not set
    channelOpen,      \* the gRPC channel is open
    mustGo,           \* the must_go event
    latestAction,     \* timestep of the latest executed action, -1 at first
    actionChunkSize,  \* length of the largest chunk received, -1 at first
    actionQueue,      \* timesteps of the queued actions
    pose,             \* the pose of the robot
    cpc,              \* where the main thread is
    popped,           \* main thread: the timestep of the action it executes
    obs,              \* main thread: the observation it captured last
    sent,             \* timesteps of the observations sent (history)
    rpc,              \* where the receiver thread is
    incoming,         \* receiver: actions of its chunk not looked at yet
    iterated,         \* receiver: the queue as its iteration over it began
    future            \* receiver: the queue it is building

process   == <<session, running, channelOpen>>
shared    == <<mustGo, latestAction, actionChunkSize, actionQueue>>
control   == <<cpc, popped, obs, pose, sent>>
receiver  == <<rpc, incoming, iterated, future>>
clientVars == <<process, shared, control, receiver>>

\* The main thread, from the handshake of start() to the end of async_client.
BootPoints == {"ready", "instructions", "spawn"}
LoopPoints ==
    {"barrier", "top", "pop", "act", "gauge", "capture", "flag", "sending", "clear"}
ControlPoints == BootPoints \cup LoopPoints \cup {"stop", "close", "join", "exit"}

MergePoints == {"aggregate", "iterate", "merge", "swap", "arm"}
ReceiverPoints ==
    {"unborn", "barrier", "top", "call", "waiting", "done", "dead"} \cup MergePoints

\* Steps that leave the other thread's local state, and the process, alone.
ControlStep  == UNCHANGED <<process, receiver>>
ReceiverStep == UNCHANGED <<process, control>>

FirstObservation(s) ==
    [timestep |-> 0, pose |-> pose, mustGo |-> FALSE, session |-> s]

ClientInit ==
    /\ session = 1
    /\ running = TRUE
    /\ channelOpen = TRUE
    /\ mustGo = TRUE
    /\ latestAction = -1
    /\ actionChunkSize = -1
    /\ actionQueue = <<>>
    /\ pose \in Poses
    /\ cpc = "ready"
    /\ popped = -1
    /\ obs = FirstObservation(1)
    /\ sent = {}
    /\ rpc = "unborn"
    /\ incoming = <<>>
    /\ iterated = <<>>
    /\ future = <<>>

(***************************************************************************)
(* start(): the Ready and SendPolicyInstructions calls, then the receiver  *)
(* thread, then the barrier where both threads meet.                       *)
(***************************************************************************)
ReadyReturns ==
    /\ cpc = "ready"
    /\ cpc' = "instructions"
    /\ UNCHANGED <<shared, popped, obs, pose, sent>> /\ ControlStep

InstructionsReturn ==
    /\ cpc = "instructions"
    /\ running' = TRUE
    /\ cpc' = "spawn"
    /\ UNCHANGED <<session, channelOpen, shared, popped, obs, pose, sent, receiver>>

\* start() returns False, or an interrupt reaches it: no stop() follows.
StartFails ==
    /\ cpc \in BootPoints
    /\ cpc' = "exit"
    /\ UNCHANGED <<shared, popped, obs, pose, sent>> /\ ControlStep

SpawnReceiver ==
    /\ cpc = "spawn"
    /\ cpc' = "barrier"
    /\ rpc' = "barrier"
    /\ incoming' = <<>> /\ iterated' = <<>> /\ future' = <<>>
    /\ UNCHANGED <<process, shared, popped, obs, pose, sent>>

PassBarrier ==
    /\ cpc = "barrier" /\ rpc = "barrier"
    /\ cpc' = "top"
    /\ rpc' = "top"
    /\ UNCHANGED <<process, shared, popped, obs, pose, sent, incoming, iterated, future>>

(***************************************************************************)
(* control_loop(): execute an action when there is one, then send an       *)
(* observation when the queue has run low.                                 *)
(***************************************************************************)
ActionsAvailable ==
    /\ cpc = "top" /\ actionQueue # <<>>
    /\ cpc' = "pop"
    /\ UNCHANGED <<shared, popped, obs, pose, sent>> /\ ControlStep

NoActionsAvailable ==
    /\ cpc = "top" /\ actionQueue = <<>>
    /\ cpc' = "gauge"
    /\ UNCHANGED <<shared, popped, obs, pose, sent>> /\ ControlStep

PopAction ==
    /\ cpc = "pop" /\ actionQueue # <<>>
    /\ popped' = Head(actionQueue)
    /\ actionQueue' = Tail(actionQueue)
    /\ cpc' = "act"
    /\ UNCHANGED <<mustGo, latestAction, actionChunkSize, obs, pose, sent>> /\ ControlStep

\* get_nowait() raises Empty: nothing catches it but the finally clause.
PopRaisesEmpty ==
    /\ cpc = "pop" /\ actionQueue = <<>>
    /\ cpc' = "stop"
    /\ UNCHANGED <<shared, popped, obs, pose, sent>> /\ ControlStep

\* robot.send_action moves the robot, then latest_action is set.
PerformAction ==
    /\ cpc = "act"
    /\ latestAction' = popped
    /\ pose' \in Poses
    /\ cpc' = "gauge"
    /\ UNCHANGED <<mustGo, actionChunkSize, actionQueue, popped, obs, sent>> /\ ControlStep

\* qsize / action_chunk_size <= threshold; with -1 the quotient is never positive.
ReadyToSendObservation ==
    \/ actionChunkSize = -1
    \/ Len(actionQueue) * ThresholdDen <= ThresholdNum * actionChunkSize

NotReadyToSend ==
    /\ cpc = "gauge"
    /\ ~ReadyToSendObservation
    /\ cpc' = "top"
    /\ UNCHANGED <<shared, popped, obs, pose, sent>> /\ ControlStep

ReadyToSend ==
    /\ cpc = "gauge"
    /\ ReadyToSendObservation
    /\ cpc' = "capture"
    /\ UNCHANGED <<shared, popped, obs, pose, sent>> /\ ControlStep

CaptureObservation ==
    /\ cpc = "capture" /\ latestAction <= Horizon
    /\ obs' = [timestep |-> IF latestAction < 0 THEN 0 ELSE latestAction,
               pose |-> pose, mustGo |-> FALSE, session |-> session]
    /\ cpc' = "flag"
    /\ UNCHANGED <<shared, popped, pose, sent>> /\ ControlStep

\* robot.get_observation raises: the except clause of the method swallows it.
CaptureFails ==
    /\ cpc = "capture"
    /\ cpc' = "top"
    /\ UNCHANGED <<shared, popped, obs, pose, sent>> /\ ControlStep

\* With action_queue_lock held; SendObservations is called right after it.
FlagMustGo ==
    /\ cpc = "flag"
    /\ obs' = [obs EXCEPT !.mustGo = mustGo /\ actionQueue = <<>>]
    /\ sent' = sent \cup {obs.timestep}
    /\ cpc' = "sending"
    /\ UNCHANGED <<shared, popped, pose>> /\ ControlStep

\* The call returns, or send_observation catches the RpcError: both go on.
SendReturns ==
    /\ cpc = "sending"
    /\ cpc' = "clear"
    /\ UNCHANGED <<shared, popped, obs, pose, sent>> /\ ControlStep

ClearMustGo ==
    /\ cpc = "clear"
    /\ mustGo' = IF obs.mustGo THEN FALSE ELSE mustGo
    /\ cpc' = "top"
    /\ UNCHANGED <<latestAction, actionChunkSize, actionQueue, popped, obs, pose, sent>>
    /\ ControlStep

(***************************************************************************)
(* The finally clause of async_client, after an exception that the control *)
(* loop does not catch: a KeyboardInterrupt, or a failure of the robot.    *)
(***************************************************************************)
Interrupt ==
    /\ cpc \in LoopPoints
    /\ cpc' = "stop"
    /\ UNCHANGED <<shared, popped, obs, pose, sent>> /\ ControlStep

SetShutdown ==
    /\ cpc = "stop"
    /\ running' = FALSE
    /\ cpc' = "close"
    /\ UNCHANGED <<session, channelOpen, shared, popped, obs, pose, sent, receiver>>

CloseChannel ==
    /\ cpc = "close"
    /\ channelOpen' = FALSE
    /\ cpc' = "join"
    /\ UNCHANGED <<session, running, shared, popped, obs, pose, sent, receiver>>

JoinReceiver ==
    /\ cpc = "join" /\ rpc \in {"done", "dead"}
    /\ cpc' = "exit"
    /\ UNCHANGED <<shared, popped, obs, pose, sent>> /\ ControlStep

\* A second interrupt, while join() waits: the daemon thread dies with the process.
InterruptJoin ==
    /\ cpc = "join"
    /\ cpc' = "exit"
    /\ rpc' = "dead"
    /\ UNCHANGED <<process, shared, popped, obs, pose, sent, incoming, iterated, future>>

\* The operator launches the program again: __init__ from the start.
Relaunch ==
    /\ cpc = "exit" /\ session < MaxSessions
    /\ session' = session + 1
    /\ running' = TRUE /\ channelOpen' = TRUE
    /\ mustGo' = TRUE
    /\ latestAction' = -1 /\ actionChunkSize' = -1
    /\ actionQueue' = <<>>
    /\ cpc' = "ready" /\ popped' = -1
    /\ obs' = FirstObservation(session + 1)
    /\ sent' = {}
    /\ rpc' = "unborn"
    /\ incoming' = <<>> /\ iterated' = <<>> /\ future' = <<>>
    /\ UNCHANGED pose

(***************************************************************************)
(* receive_actions(): one GetActions call after the other; a chunk is      *)
(* merged by _aggregate_action_queues, one action at a time.               *)
(***************************************************************************)
CheckRunning ==
    /\ rpc = "top"
    /\ rpc' = IF running THEN "call" ELSE "done"
    /\ UNCHANGED <<shared, incoming, iterated, future>> /\ ReceiverStep

CallGetActions ==
    /\ rpc = "call" /\ channelOpen
    /\ rpc' = "waiting"
    /\ UNCHANGED <<shared, incoming, iterated, future>> /\ ReceiverStep

\* A call on a closed channel raises ValueError, which nothing catches.
CallOnClosedChannel ==
    /\ rpc = "call" /\ ~channelOpen
    /\ rpc' = "dead"
    /\ UNCHANGED <<shared, incoming, iterated, future>> /\ ReceiverStep

\* The server answered Empty, or the call failed with an RpcError.
ReceiveNothing ==
    /\ rpc = "waiting"
    /\ rpc' = "top"
    /\ UNCHANGED <<shared, incoming, iterated, future>> /\ ReceiverStep

Larger(m, n) == IF m < n THEN n ELSE m

\* Mutant: timesteps start after the observation's, not at it.
ReceiveChunkOneLate(t) ==
    /\ rpc = "waiting" /\ channelOpen
    /\ incoming' = TimeActionChunk(t + 1)
    /\ actionChunkSize' = Larger(actionChunkSize, ActionsPerChunk)
    /\ rpc' = "aggregate"
    /\ UNCHANGED <<mustGo, latestAction, actionQueue, iterated, future>> /\ ReceiverStep

ReceiveChunk(t) ==
    /\ rpc = "waiting" /\ channelOpen
    /\ incoming' = TimeActionChunk(t)
    /\ actionChunkSize' = Larger(actionChunkSize, ActionsPerChunk)
    /\ rpc' = "aggregate"
    /\ UNCHANGED <<mustGo, latestAction, actionQueue, iterated, future>> /\ ReceiverStep

\* The deque is read under the lock, and iterated over outside it.
BeginIteration ==
    /\ rpc = "aggregate"
    /\ iterated' = actionQueue
    /\ rpc' = "iterate"
    /\ UNCHANGED <<shared, incoming, future>> /\ ReceiverStep

FinishIteration ==
    /\ rpc = "iterate" /\ actionQueue = iterated
    /\ future' = <<>>
    /\ iterated' = <<>>
    /\ rpc' = "merge"
    /\ UNCHANGED <<shared, incoming>> /\ ReceiverStep

\* RuntimeError, deque mutated during iteration: only RpcError is caught.
IterationRaises ==
    /\ rpc = "iterate" /\ actionQueue # iterated
    /\ rpc' = "dead"
    /\ UNCHANGED <<shared, incoming, iterated, future>> /\ ReceiverStep

\* Mutant: the loop does not go on to the next action after skipping one.
MergeOneStuckOnStale ==
    /\ rpc = "merge" /\ incoming # <<>>
    /\ Head(incoming) > latestAction
    /\ future' = Append(future, Head(incoming))
    /\ incoming' = Tail(incoming)
    /\ UNCHANGED <<shared, rpc, iterated>> /\ ReceiverStep

\* Mutant: the action executed last is not skipped.
MergeOneKeepingLatest ==
    /\ rpc = "merge" /\ incoming # <<>>
    /\ future' = IF Head(incoming) < latestAction
                 THEN future
                 ELSE Append(future, Head(incoming))
    /\ incoming' = Tail(incoming)
    /\ UNCHANGED <<shared, rpc, iterated>> /\ ReceiverStep

MergeOne ==
    /\ rpc = "merge" /\ incoming # <<>>
    /\ future' = IF Head(incoming) <= latestAction
                 THEN future
                 ELSE Append(future, Head(incoming))
    /\ incoming' = Tail(incoming)
    /\ UNCHANGED <<shared, rpc, iterated>> /\ ReceiverStep

FinishMerge ==
    /\ rpc = "merge" /\ incoming = <<>>
    /\ rpc' = "swap"
    /\ UNCHANGED <<shared, incoming, iterated, future>> /\ ReceiverStep

\* Mutant: the new actions are put behind the queued ones.
SwapQueueAppending ==
    /\ rpc = "swap"
    /\ actionQueue' = actionQueue \o future
    /\ future' = <<>>
    /\ rpc' = "arm"
    /\ UNCHANGED <<mustGo, latestAction, actionChunkSize, incoming, iterated>> /\ ReceiverStep

SwapQueue ==
    /\ rpc = "swap"
    /\ actionQueue' = future
    /\ future' = <<>>
    /\ rpc' = "arm"
    /\ UNCHANGED <<mustGo, latestAction, actionChunkSize, incoming, iterated>> /\ ReceiverStep

ArmMustGo ==
    /\ rpc = "arm"
    /\ mustGo' = TRUE
    /\ rpc' = "top"
    /\ UNCHANGED <<latestAction, actionChunkSize, actionQueue, incoming, iterated, future>>
    /\ ReceiverStep

------------------------------------------------------------------------------
LoopStep ==
    \/ ActionsAvailable \/ NoActionsAvailable \/ PopAction \/ PopRaisesEmpty
    \/ PerformAction \/ NotReadyToSend \/ ReadyToSend
    \/ CaptureObservation \/ CaptureFails \/ FlagMustGo \/ ClearMustGo

StopStep == SetShutdown \/ CloseChannel \/ JoinReceiver

MergeStep ==
    \/ BeginIteration \/ FinishIteration \/ IterationRaises
    \/ MergeOne \/ FinishMerge \/ SwapQueue \/ ArmMustGo

\* The steps the client takes on its own, with no word from the server.
ClientLocal ==
    \/ StartFails \/ SpawnReceiver \/ PassBarrier
    \/ LoopStep \/ Interrupt \/ StopStep \/ InterruptJoin \/ Relaunch
    \/ CheckRunning \/ CallOnClosedChannel \/ MergeStep

\* The client program has ended and the bound allows no other launch.
Exited == cpc = "exit" /\ session = MaxSessions /\ UNCHANGED clientVars

ClientNext ==
    \/ ClientLocal
    \/ ReadyReturns \/ InstructionsReturn
    \/ SendReturns
    \/ CallGetActions \/ ReceiveNothing
    \/ \E t \in sent : ReceiveChunk(t)
    \/ Exited

\* Both threads are scheduled, and closing the channel cancels a pending call.
CallCancelled == ~channelOpen /\ ReceiveNothing

ReceiverLocal == CheckRunning \/ CallGetActions \/ CallOnClosedChannel \/ CallCancelled \/ MergeStep

ClientFairness ==
    /\ WF_clientVars(LoopStep)
    /\ WF_clientVars(StopStep)
    /\ WF_clientVars(ReceiverLocal)

ClientSpec == ClientInit /\ [][ClientNext]_clientVars /\ ClientFairness

(***************************************************************************)
(* Properties.                                                             *)
(***************************************************************************)

\* Every variable keeps to the values robot_client.py gives it.
ClientTypeOK ==
    /\ session \in Sessions
    /\ running \in BOOLEAN /\ channelOpen \in BOOLEAN
    /\ mustGo \in BOOLEAN
    /\ latestAction \in Timesteps \cup {-1}
    /\ actionChunkSize \in {-1, ActionsPerChunk}
    /\ actionQueue \in Seq(Timesteps)
    /\ pose \in Poses
    /\ cpc \in ControlPoints
    /\ popped \in Timesteps \cup {-1}
    /\ obs \in Observations
    /\ sent \subseteq 0 .. Horizon
    /\ rpc \in ReceiverPoints
    /\ incoming \in Seq(Timesteps)
    /\ iterated \in Seq(Timesteps)
    /\ future \in Seq(Timesteps)

\* Timesteps that can stand in one queue: in order, and within one chunk.
OneChunk(q) ==
    \A i, j \in DOMAIN q : i < j => q[i] < q[j] /\ q[j] < q[i] + ActionsPerChunk

\* However the two threads interleave, the queue _aggregate_action_queues
\* builds while the control loop moves latest_action holds each timestep once,
\* in order, and never mixes actions of chunks further apart than one chunk.
QueueIsOneChunk == OneChunk(actionQueue)

\* After the control loop has ended, stop() and join() end the program, even
\* with a GetActions call pending or a merge going on.  It is not so when the
\* interrupt finds the receiver alone at the start barrier.
ShutdownTerminates == (cpc = "stop" /\ rpc # "barrier") ~> cpc = "exit"

==============================================================================
