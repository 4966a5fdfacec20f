------------------------ MODULE AsyncInferenceProofs ------------------------
(***************************************************************************)
(* Theorems about the robot client, alone with an open environment and     *)
(* joined with the policy server, for every chunk length, threshold,       *)
(* horizon, number of launches, of workers and of faults:                  *)
(*   the variables of both keep their types,                               *)
(*   the queue of actions is in order and no wider than one chunk,         *)
(*   a client is served by the policy it asked for,                        *)
(*   a merge during which no action is executed leaves only newer ones,    *)
(*   and, in one launch, client and server together are the client with    *)
(*   the open environment that RobotClient assumes.                        *)
(***************************************************************************)
EXTENDS MCAsyncInference, SequenceTheorems, FiniteSetTheorems, TLAPS

USE DataAssumption, ThresholdAssumption

\* A chunk predicted for a timestep within the horizon holds valid timesteps.
LEMMA ChunkType ==
    ASSUME NEW t \in 0 .. Horizon
    PROVE  TimeActionChunk(t) \in Seq(Timesteps)
<1>1. \A i \in 1 .. ActionsPerChunk : t + i - 1 \in Timesteps
    BY DEF Timesteps
<1> QED
    BY <1>1 DEF TimeActionChunk

\* A chunk has the actions of its policy.
LEMMA ChunkLength ==
    ASSUME NEW t \in 0 .. Horizon
    PROVE  DOMAIN TimeActionChunk(t) = 1 .. ActionsPerChunk
BY DEF TimeActionChunk

\* The client before it is launched.
LEMMA InitType == ClientInit => ClientTypeOK
BY DEF ClientInit, ClientTypeOK, FirstObservation, Observations, Timesteps, Sessions,
       ControlPoints, BootPoints, ReceiverPoints

\* The steps of the handshake, the end of the program and its next launch.
LEMMA ProcessType ==
    ASSUME ClientTypeOK,
           \/ ReadyReturns \/ InstructionsReturn \/ StartFails \/ SpawnReceiver
           \/ PassBarrier \/ Interrupt \/ StopStep \/ InterruptJoin \/ Relaunch
           \/ UNCHANGED clientVars
    PROVE  ClientTypeOK'
<1> USE DEF ClientTypeOK, ControlStep, process, shared, receiver, control, ControlPoints,
        BootPoints, LoopPoints, ReceiverPoints
<1>1. CASE ReadyReturns BY <1>1 DEF ReadyReturns
<1>2. CASE InstructionsReturn BY <1>2 DEF InstructionsReturn
<1>3. CASE StartFails BY <1>3 DEF StartFails
<1>4. CASE SpawnReceiver BY <1>4 DEF SpawnReceiver
<1>5. CASE PassBarrier BY <1>5 DEF PassBarrier
<1>6. CASE Interrupt BY <1>6 DEF Interrupt
<1>7. CASE StopStep BY <1>7 DEF StopStep, SetShutdown, CloseChannel, JoinReceiver
<1>8. CASE InterruptJoin BY <1>8 DEF InterruptJoin
<1>9. CASE Relaunch
    <2>1. session + 1 \in Sessions BY <1>9 DEF Relaunch, Sessions
    <2>2. obs' \in Observations
        BY <1>9, <2>1 DEF Relaunch, FirstObservation, Observations, Timesteps
    <2> QED BY <1>9, <2>1, <2>2 DEF Relaunch, Timesteps
<1>10. CASE UNCHANGED clientVars BY <1>10 DEF clientVars
<1> QED BY <1>1, <1>2, <1>3, <1>4, <1>5, <1>6, <1>7, <1>8, <1>9, <1>10

\* The steps of the control loop.
LEMMA LoopType ==
    ASSUME ClientTypeOK, LoopStep \/ SendReturns
    PROVE  ClientTypeOK'
<1> USE DEF ClientTypeOK, ControlStep, process, shared, receiver, control, ControlPoints,
        BootPoints, LoopPoints
<1>1. CASE ActionsAvailable BY <1>1 DEF ActionsAvailable
<1>2. CASE NoActionsAvailable BY <1>2 DEF NoActionsAvailable
<1>3. CASE PopAction BY <1>3 DEF PopAction
<1>4. CASE PopRaisesEmpty BY <1>4 DEF PopRaisesEmpty
<1>5. CASE PerformAction BY <1>5 DEF PerformAction
<1>6. CASE NotReadyToSend BY <1>6 DEF NotReadyToSend
<1>7. CASE ReadyToSend BY <1>7 DEF ReadyToSend
<1>8. CASE CaptureObservation
    BY <1>8 DEF CaptureObservation, Observations, Timesteps
<1>9. CASE CaptureFails BY <1>9 DEF CaptureFails
<1>10. CASE FlagMustGo BY <1>10 DEF FlagMustGo, Observations
<1>11. CASE SendReturns BY <1>11 DEF SendReturns
<1>12. CASE ClearMustGo BY <1>12 DEF ClearMustGo
<1> QED
    BY <1>1, <1>2, <1>3, <1>4, <1>5, <1>6, <1>7, <1>8, <1>9, <1>10, <1>11, <1>12
    DEF LoopStep

\* The steps of the receiver thread.
LEMMA ReceiverType ==
    ASSUME ClientTypeOK,
           \/ CheckRunning \/ CallGetActions \/ CallOnClosedChannel
           \/ ReceiveNothing \/ MergeStep
           \/ \E t \in 0 .. Horizon : ReceiveChunk(t)
    PROVE  ClientTypeOK'
<1> USE DEF ClientTypeOK, ReceiverStep, process, shared, receiver, control, ReceiverPoints,
        MergePoints
<1>1. CASE CheckRunning BY <1>1 DEF CheckRunning
<1>2. CASE CallGetActions BY <1>2 DEF CallGetActions
<1>3. CASE CallOnClosedChannel BY <1>3 DEF CallOnClosedChannel
<1>4. CASE ReceiveNothing BY <1>4 DEF ReceiveNothing
<1>5. CASE BeginIteration BY <1>5 DEF BeginIteration
<1>6. CASE FinishIteration BY <1>6 DEF FinishIteration
<1>7. CASE IterationRaises BY <1>7 DEF IterationRaises
<1>8. CASE MergeOne BY <1>8 DEF MergeOne
<1>9. CASE FinishMerge BY <1>9 DEF FinishMerge
<1>10. CASE SwapQueue BY <1>10 DEF SwapQueue
<1>11. CASE ArmMustGo BY <1>11 DEF ArmMustGo
<1>12. ASSUME NEW t \in 0 .. Horizon, ReceiveChunk(t) PROVE ClientTypeOK'
    <2>1. incoming' \in Seq(Timesteps) BY <1>12, ChunkType DEF ReceiveChunk
    <2>2. actionChunkSize' \in {-1, ActionsPerChunk} BY <1>12 DEF ReceiveChunk, Larger
    <2> QED BY <1>12, <2>1, <2>2 DEF ReceiveChunk
<1> QED
    BY <1>1, <1>2, <1>3, <1>4, <1>5, <1>6, <1>7, <1>8, <1>9, <1>10, <1>11, <1>12
    DEF MergeStep

\* Every state of every run of the client keeps to ClientTypeOK, whatever the
\* server answers and however the two threads interleave.
THEOREM TypeCorrect == ClientSpec => []ClientTypeOK
<1>1. ClientTypeOK => sent \subseteq 0 .. Horizon
    BY DEF ClientTypeOK
<1>2. ClientTypeOK /\ [ClientNext]_clientVars => ClientTypeOK'
    BY <1>1, ProcessType, LoopType, ReceiverType DEF ClientNext, ClientLocal, Exited
<1> QED BY InitType, <1>2, PTL DEF ClientSpec

------------------------------------------------------------------------------
(***************************************************************************)
(* QueueIsOneChunk is not inductive: the queue is swapped for the one the  *)
(* receiver builds.  The strengthening says of a merge in progress that    *)
(* what it has kept is in order, and comes before all it has still to see. *)
(***************************************************************************)
Precedes(p, q) ==
    \A i \in DOMAIN p, j \in DOMAIN q : p[i] < q[j] /\ q[j] < p[i] + ActionsPerChunk

QueueInv ==
    /\ OneChunk(actionQueue)
    /\ OneChunk(incoming)
    /\ OneChunk(future)
    /\ Precedes(future, incoming)
    /\ rpc \in {"merge", "swap", "dead"} \/ future = <<>>

\* An empty queue is of one chunk, and precedes every other.
LEMMA EmptyOneChunk ==
    /\ OneChunk(<<>>)
    /\ \A q : Precedes(<<>>, q)
    /\ \A q : Precedes(q, <<>>)
BY DEF OneChunk, Precedes

\* A chunk fresh from the server is one chunk.
LEMMA FreshOneChunk ==
    ASSUME NEW t \in 0 .. Horizon
    PROVE  OneChunk(TimeActionChunk(t))
<1>1. \A i \in 1 .. ActionsPerChunk : TimeActionChunk(t)[i] = t + i - 1
    BY DEF TimeActionChunk
<1> QED BY <1>1, ChunkLength DEF OneChunk

\* Popping the next action leaves one chunk, and keeps what precedes it before it.
LEMMA TailOneChunk ==
    ASSUME NEW q \in Seq(Timesteps), q # <<>>, OneChunk(q)
    PROVE  /\ OneChunk(Tail(q))
           /\ \A p \in Seq(Timesteps) : Precedes(p, q) => Precedes(p, Tail(q))
<1>1. DOMAIN Tail(q) = 1 .. Len(q) - 1 /\ \A i \in 1 .. Len(q) - 1 : Tail(q)[i] = q[i + 1]
    OBVIOUS
<1>2. DOMAIN q = 1 .. Len(q) /\ Len(q) \in Nat
    OBVIOUS
<1>3. OneChunk(Tail(q)) BY <1>1, <1>2 DEF OneChunk
<1>4. ASSUME NEW p \in Seq(Timesteps), Precedes(p, q) PROVE Precedes(p, Tail(q))
    <2>1. \A i \in DOMAIN p, j \in 1 .. Len(q) - 1 :
              p[i] < q[j + 1] /\ q[j + 1] < p[i] + ActionsPerChunk
        BY <1>2, <1>4 DEF Precedes
    <2> QED BY <1>1, <2>1 DEF Precedes
<1> QED BY <1>3, <1>4

\* Moving the head of q to the end of p keeps both in order.
LEMMA MoveHead ==
    ASSUME NEW p \in Seq(Timesteps), NEW q \in Seq(Timesteps), q # <<>>,
           OneChunk(p), OneChunk(q), Precedes(p, q)
    PROVE  OneChunk(Append(p, Head(q))) /\ Precedes(Append(p, Head(q)), Tail(q))
<1> DEFINE r == Append(p, Head(q))
<1>1. Len(p) \in Nat /\ DOMAIN p = 1 .. Len(p) OBVIOUS
<1>2. Len(q) \in Nat /\ DOMAIN q = 1 .. Len(q) /\ 1 \in DOMAIN q /\ Head(q) = q[1] OBVIOUS
<1>3. DOMAIN r = 1 .. Len(p) + 1 OBVIOUS
<1>4. \A i \in 1 .. Len(p) : r[i] = p[i] OBVIOUS
<1>5. r[Len(p) + 1] = q[1] OBVIOUS
<1>6. DOMAIN Tail(q) = 1 .. Len(q) - 1 /\ \A i \in 1 .. Len(q) - 1 : Tail(q)[i] = q[i + 1]
    OBVIOUS
<1> HIDE DEF r
<1>7. \A i \in 1 .. Len(p) : p[i] < q[1] /\ q[1] < p[i] + ActionsPerChunk
    BY <1>1, <1>2 DEF Precedes
<1>8. OneChunk(r)
    <2> SUFFICES ASSUME NEW i \in DOMAIN r, NEW j \in DOMAIN r, i < j
                 PROVE  r[i] < r[j] /\ r[j] < r[i] + ActionsPerChunk
        BY DEF OneChunk
    <2>1. i \in 1 .. Len(p) BY <1>1, <1>3
    <2>2. CASE j = Len(p) + 1 BY <1>4, <1>5, <1>7, <2>1, <2>2
    <2>3. CASE j \in 1 .. Len(p) BY <1>1, <1>4, <2>1, <2>3 DEF OneChunk
    <2> QED BY <1>1, <1>3, <2>2, <2>3
<1>9. Precedes(r, Tail(q))
    <2> SUFFICES ASSUME NEW i \in DOMAIN r, NEW j \in DOMAIN Tail(q)
                 PROVE  r[i] < Tail(q)[j] /\ Tail(q)[j] < r[i] + ActionsPerChunk
        BY DEF Precedes
    <2>1. Tail(q)[j] = q[j + 1] /\ j + 1 \in DOMAIN q /\ 1 < j + 1 BY <1>2, <1>6
    <2>2. CASE i = Len(p) + 1 BY <1>2, <1>5, <2>1, <2>2 DEF OneChunk
    <2>3. CASE i \in 1 .. Len(p) BY <1>1, <1>4, <2>1, <2>3 DEF Precedes
    <2> QED BY <1>1, <1>3, <2>2, <2>3
<1> QED BY <1>8, <1>9 DEF r

\* Every step of the two threads keeps the queue of one chunk.
LEMMA QueueInvInductive ==
    ASSUME ClientTypeOK, QueueInv,
           \/ ClientLocal \/ ReadyReturns \/ InstructionsReturn \/ SendReturns
           \/ CallGetActions \/ ReceiveNothing \/ UNCHANGED clientVars
           \/ \E t \in 0 .. Horizon : ReceiveChunk(t)
    PROVE  QueueInv'
<1> USE DEF ControlStep, ReceiverStep, process, shared, receiver, control
<1>1. CASE UNCHANGED <<actionQueue, incoming, future, rpc>>
    BY <1>1 DEF QueueInv
<1>2. CASE PopAction
    <2>1. OneChunk(actionQueue') BY <1>2, TailOneChunk DEF PopAction, ClientTypeOK, QueueInv
    <2> QED BY <1>2, <2>1 DEF PopAction, QueueInv
<1>3. CASE Relaunch
    BY <1>3, EmptyOneChunk DEF Relaunch, QueueInv
<1>4. CASE UNCHANGED <<actionQueue, incoming, future>> /\ rpc \notin {"merge", "swap", "dead"}
    BY <1>4, EmptyOneChunk DEF QueueInv
<1>5. ASSUME NEW t \in 0 .. Horizon, ReceiveChunk(t) PROVE QueueInv'
    <2>1. incoming' = TimeActionChunk(t) /\ future' = <<>> /\ actionQueue' = actionQueue
        BY <1>5 DEF ReceiveChunk, QueueInv
    <2> QED BY <1>5, <2>1, FreshOneChunk, EmptyOneChunk DEF QueueInv
<1>6. CASE FinishIteration
    BY <1>6, EmptyOneChunk DEF FinishIteration, QueueInv
<1>7. CASE MergeOne
    <2>1. OneChunk(incoming') BY <1>7, TailOneChunk DEF MergeOne, ClientTypeOK, QueueInv
    <2>2. OneChunk(future') /\ Precedes(future', incoming')
        <3>1. CASE future' = future
            BY <1>7, <3>1, TailOneChunk DEF MergeOne, ClientTypeOK, QueueInv
        <3>2. CASE future' = Append(future, Head(incoming))
            BY <1>7, <3>2, MoveHead DEF MergeOne, ClientTypeOK, QueueInv
        <3> QED BY <1>7, <3>1, <3>2 DEF MergeOne
    <2> QED BY <1>7, <2>1, <2>2 DEF MergeOne, QueueInv
<1>8. CASE FinishMerge BY <1>8 DEF FinishMerge, QueueInv
<1>9. CASE SwapQueue
    BY <1>9, EmptyOneChunk DEF SwapQueue, QueueInv
<1>10. CASE ClientLocal
    <2>1. CASE LoopStep
        BY <1>1, <1>2, <2>1
        DEF LoopStep, ActionsAvailable, NoActionsAvailable, PopRaisesEmpty, PerformAction,
            NotReadyToSend, ReadyToSend, CaptureObservation, CaptureFails, FlagMustGo,
            ClearMustGo
    <2>2. CASE MergeStep
        BY <1>4, <1>6, <1>7, <1>8, <1>9, <2>2
        DEF MergeStep, BeginIteration, IterationRaises, ArmMustGo
    <2>3. CASE StopStep \/ StartFails \/ Interrupt
        BY <1>1, <2>3
        DEF StopStep, SetShutdown, CloseChannel, JoinReceiver, StartFails, Interrupt
    <2>4. CASE SpawnReceiver \/ InterruptJoin
        BY <2>4, EmptyOneChunk DEF SpawnReceiver, InterruptJoin, QueueInv
    <2>5. CASE PassBarrier \/ CheckRunning \/ CallOnClosedChannel
        BY <1>4, <2>5 DEF PassBarrier, CheckRunning, CallOnClosedChannel
    <2> QED BY <1>3, <1>10, <2>1, <2>2, <2>3, <2>4, <2>5 DEF ClientLocal
<1>11. CASE ReadyReturns \/ InstructionsReturn \/ SendReturns \/ UNCHANGED clientVars
    BY <1>1, <1>11 DEF ReadyReturns, InstructionsReturn, SendReturns, clientVars
<1>12. CASE CallGetActions \/ ReceiveNothing
    BY <1>4, <1>12 DEF CallGetActions, ReceiveNothing
<1> QED BY <1>5, <1>10, <1>11, <1>12

\* The action queue always holds distinct timesteps, in order, within the length
\* of one chunk: for every chunk length and every interleaving of the two threads.
THEOREM QueueAlwaysOneChunk == ClientSpec => []QueueIsOneChunk
<1>1. ClientInit => QueueInv
    BY EmptyOneChunk DEF ClientInit, QueueInv
<1>2. ClientTypeOK /\ QueueInv /\ [ClientNext]_clientVars => QueueInv'
    BY QueueInvInductive DEF ClientNext, Exited, ClientTypeOK
<1>3. QueueInv => QueueIsOneChunk BY DEF QueueInv, QueueIsOneChunk
<1> QED BY TypeCorrect, <1>1, <1>2, <1>3, PTL DEF ClientSpec
------------------------------------------------------------------------------
(***************************************************************************)
(* Client and server joined.  Each step of the pair is, for the client,    *)
(* one of its own steps, an answer it was waiting for, or none; and for    *)
(* the server a step of a handler, a call from the client, or none.        *)
(***************************************************************************)
ChunkArrives ==
    \E g \in Getters :
        getCall = g /\ gpc[g] = "reply" /\ ReceiveChunk(gobs[g].timestep)

ClientPart ==
    \/ ClientLocal \/ ReadyReturns \/ InstructionsReturn \/ SendReturns
    \/ CallGetActions \/ ReceiveNothing \/ UNCHANGED clientVars
    \/ ChunkArrives

ServerPart ==
    \/ ServerLocal
    \/ cpc = "ready" /\ BeginReset(session) /\ UNCHANGED clientVars
    \/ \E n \in Sessions : AnswerReady(n)
    \/ LoadPolicy(session) /\ InstructionsReturn
    \/ \E s \in Senders : \/ InvokeSend(s, obs) /\ cpc = "sending" /\ UNCHANGED clientVars
                          \/ EndSend(s)
    \/ \E g \in Getters : InvokeGet(g) \/ EndGet(g)
    \/ UNCHANGED serverVars

\* Every step of the pair has its two parts.
LEMMA StepInParts ==
    ASSUME [AsyncNext]_asyncVars
    PROVE  ClientPart /\ ServerPart
<1> USE DEF ClientPart, ServerPart, ServerUnchanged, ClientUnchanged
<1>1. CASE ClientAlone BY <1>1 DEF ClientAlone, CallCancelled
<1>2. CASE ServerAlone BY <1>2 DEF ServerAlone
<1>3. CASE CallReady BY <1>3 DEF CallReady
<1>4. CASE SendPolicyInstructions BY <1>4 DEF SendPolicyInstructions
<1>5. ASSUME NEW n \in Sessions, ReadyAnswered(n) PROVE ClientPart /\ ServerPart
    BY <1>5 DEF ReadyAnswered
<1>6. ASSUME NEW s \in Senders, CallSend(s) \/ SendAnswered(s) PROVE ClientPart /\ ServerPart
    BY <1>6 DEF CallSend, SendAnswered
<1>7. ASSUME NEW g \in Getters, CallGet(g) \/ GetAnswered(g) \/ OrphanGetEnds(g)
      PROVE  ClientPart /\ ServerPart
    BY <1>7 DEF CallGet, GetAnswered, OrphanGetEnds, ChunkArrives
<1>8. CASE RpcFault
    BY <1>8 DEF RpcFault, SendFails, SendRetried, GetFails, GetRetried
<1>9. CASE AllEnded BY <1>9 DEF AllEnded, Exited
<1>10. CASE UNCHANGED asyncVars BY <1>10 DEF asyncVars
<1> QED
    BY <1>1, <1>2, <1>3, <1>4, <1>5, <1>6, <1>7, <1>8, <1>9, <1>10 DEF AsyncNext, RpcStep

(***************************************************************************)
(* The types of the server's variables.  Its objects are named by counting *)
(* resets, and stay within Objects because each session resets once:       *)
(* ObjectsCounted.  That a timestep is marked only within the horizon      *)
(* rests on the observation the handler holds: HandlersHold.               *)
(***************************************************************************)
Past(points) == {n \in Sessions : readyPc[n] \in points}

ObjectsCounted ==
    /\ queueObject = Cardinality(Past({"set", "clear", "reply", "done"}))
    /\ predictedObject = Cardinality(Past({"clear", "reply", "done"}))

HandlersHold ==
    /\ \A s \in Senders : spc[s] # "idle" => sobs[s] # None
    /\ \A g \in Getters :
          gpc[g] \in {"mark", "prepare", "predict", "reply"} => gobs[g] # None

ServerInv == ServerTypeOK /\ ObjectsCounted /\ HandlersHold

\* A set of sessions has at most MaxSessions elements, and one more when one is added.
LEMMA SessionsCounted ==
    ASSUME NEW S \in SUBSET Sessions
    PROVE  /\ Cardinality(S) \in Objects
           /\ \A n \in Sessions \ S : Cardinality(S \cup {n}) = Cardinality(S) + 1
<1>1. IsFiniteSet(Sessions) /\ Cardinality(Sessions) = MaxSessions
    BY DataAssumption, FS_Interval DEF Sessions
<1>2. IsFiniteSet(S) /\ Cardinality(S) <= Cardinality(Sessions)
    BY <1>1, FS_Subset
<1>3. Cardinality(S) \in Nat BY <1>2, FS_CardinalityType
<1>4. \A n \in Sessions \ S : Cardinality(S \cup {n}) = Cardinality(S) + 1
    BY <1>2, FS_AddElement
<1> QED BY <1>1, <1>2, <1>3, <1>4, DataAssumption DEF Objects

\* The handlers of Ready count the objects they make.
LEMMA ObjectsCountedInductive ==
    ASSUME ServerTypeOK, ClientTypeOK, ObjectsCounted, ServerPart
    PROVE  ObjectsCounted' /\ queueObject' \in Objects /\ predictedObject' \in Objects
<1> DEFINE Q == Past({"set", "clear", "reply", "done"})
           P == Past({"clear", "reply", "done"})
<1>1. readyPc \in [Sessions -> ReadyPoints] /\ session \in Sessions
    BY DEF ServerTypeOK, ClientTypeOK
<1>2. Q' \in SUBSET Sessions /\ P' \in SUBSET Sessions BY DEF Past
<1>3. SUFFICES ObjectsCounted'
    BY <1>2, <1>3, SessionsCounted DEF ObjectsCounted
<1>4. CASE UNCHANGED <<queueObject, predictedObject>> /\ Q' = Q /\ P' = P
    BY <1>4 DEF ObjectsCounted
<1>5. ASSUME NEW n \in Sessions, ReplaceQueue(n) PROVE ObjectsCounted'
    <2>1. readyPc[n] = "queue" /\ readyPc' = [readyPc EXCEPT ![n] = "set"]
          /\ queueObject' = queueObject + 1 /\ predictedObject' = predictedObject
        BY <1>5 DEF ReplaceQueue, ReadyTo
    <2>2. Q' = Q \cup {n} /\ n \in Sessions \ Q /\ P' = P BY <1>1, <2>1 DEF Past
    <2>3. Q \in SUBSET Sessions BY DEF Past
    <2>4. Cardinality(Q') = Cardinality(Q) + 1 BY <2>2, <2>3, SessionsCounted
    <2> QED BY <2>1, <2>2, <2>4 DEF ObjectsCounted
<1>6. ASSUME NEW n \in Sessions, ReplacePredicted(n) PROVE ObjectsCounted'
    <2>1. readyPc[n] = "set" /\ readyPc' = [readyPc EXCEPT ![n] = "clear"]
          /\ predictedObject' = predictedObject + 1 /\ queueObject' = queueObject
        BY <1>6 DEF ReplacePredicted, ReadyTo
    <2>2. P' = P \cup {n} /\ n \in Sessions \ P /\ Q' = Q BY <1>1, <2>1 DEF Past
    <2>3. P \in SUBSET Sessions BY DEF Past
    <2>4. Cardinality(P') = Cardinality(P) + 1 BY <2>2, <2>3, SessionsCounted
    <2> QED BY <2>1, <2>2, <2>4 DEF ObjectsCounted
<1>7. ASSUME NEW n \in Sessions, BeginReset(n) \/ EndReset(n) \/ AnswerReady(n)
      PROVE  ObjectsCounted'
    <2>1. CASE BeginReset(n)
        <3>1. readyPc[n] = "idle" /\ readyPc' = [readyPc EXCEPT ![n] = "queue"]
              /\ UNCHANGED <<queueObject, predictedObject>>
            BY <2>1 DEF BeginReset, ReadyTo
        <3>2. Q' = Q /\ P' = P BY <1>1, <3>1 DEF Past
        <3> QED BY <1>4, <3>1, <3>2
    <2>2. CASE EndReset(n)
        <3>1. readyPc[n] = "clear" /\ readyPc' = [readyPc EXCEPT ![n] = "reply"]
              /\ UNCHANGED <<queueObject, predictedObject>>
            BY <2>2 DEF EndReset, ReadyTo
        <3>2. Q' = Q /\ P' = P BY <1>1, <3>1 DEF Past
        <3> QED BY <1>4, <3>1, <3>2
    <2>3. CASE AnswerReady(n)
        <3>1. readyPc[n] = "reply" /\ readyPc' = [readyPc EXCEPT ![n] = "done"]
              /\ UNCHANGED <<queueObject, predictedObject>>
            BY <2>3 DEF AnswerReady, ReadyTo, resettable
        <3>2. Q' = Q /\ P' = P BY <1>1, <3>1 DEF Past
        <3> QED BY <1>4, <3>1, <3>2
    <2> QED BY <1>7, <2>1, <2>2, <2>3
<1>8. CASE UNCHANGED <<queueObject, predictedObject, readyPc>>
    BY <1>4, <1>8 DEF Past
<1>9. ASSUME NEW s \in Senders,
             EnqueueStep(s) \/ EndSend(s) \/ InvokeSend(s, obs)
      PROVE  UNCHANGED <<queueObject, predictedObject, readyPc>>
    BY <1>9
    DEF EnqueueStep, EndSend, InvokeSend, ReceiveBytes, AcceptUnchecked, BeginSanityChecks,
        FinishSanityChecks, TestFull, PopOldest, PopOldestRaises, PutObservation, PutBlocks,
        PutUnblocks, SenderStep, resettable
<1>10. ASSUME NEW g \in Getters, InferStep(g) \/ EndGet(g) \/ InvokeGet(g)
       PROVE  UNCHANGED <<queueObject, predictedObject, readyPc>>
    BY <1>10
    DEF InferStep, EndGet, InvokeGet, TakeObservation, GetTimesOut, MarkPredicted, Preprocess,
        Predict, InferenceRaises, GetterStep, resettable
<1>11. ASSUME LoadPolicy(session) PROVE UNCHANGED <<queueObject, predictedObject, readyPc>>
    BY <1>11 DEF LoadPolicy, resettable
<1>12. CASE UNCHANGED serverVars
    BY <1>8, <1>12 DEF serverVars, resettable
<1>13. CASE ServerLocal
    BY <1>5, <1>6, <1>7, <1>8, <1>9, <1>10, <1>13 DEF ServerLocal, ResetStep
<1> QED
    BY <1>1, <1>7, <1>8, <1>9, <1>10, <1>11, <1>12, <1>13 DEF ServerPart

\* The types of the server's variables, its two object counters aside.
ServerRest ==
    /\ shutdown \in BOOLEAN
    /\ slots \in [Objects -> Observations \cup {None}]
    /\ predicted \in [Objects -> SUBSET (0 .. Horizon)]
    /\ lastProcessed \in Observations \cup {None}
    /\ policy \in 0 .. MaxSessions
    /\ readyPc \in [Sessions -> ReadyPoints]
    /\ spc \in [Senders -> SenderPoints]
    /\ sobs \in [Senders -> Observations \cup {None}]
    /\ sref \in [Senders -> Objects]
    /\ sprev \in [Senders -> Observations \cup {None}]
    /\ gpc \in [Getters -> GetterPoints]
    /\ gobs \in [Getters -> Observations \cup {None}]
    /\ gref \in [Getters -> Objects]
    /\ faults \in 0 .. MaxFaults

\* The steps of Ready and of SendPolicyInstructions.
LEMMA ResetType ==
    ASSUME ServerTypeOK, HandlersHold, NEW n \in Sessions,
           \/ BeginReset(n) \/ ResetStep(n) \/ AnswerReady(n) \/ LoadPolicy(n)
           \/ UNCHANGED serverVars
    PROVE  ServerRest' /\ HandlersHold'
<1> USE DEF ServerTypeOK, ServerRest, HandlersHold, ReadyTo, NoHandlerStep, senderVars,
        getterVars, contents, resettable, ReadyPoints
<1>1. CASE BeginReset(n) BY <1>1 DEF BeginReset
<1>2. CASE ReplaceQueue(n) BY <1>2 DEF ReplaceQueue
<1>3. CASE ReplacePredicted(n) BY <1>3 DEF ReplacePredicted
<1>4. CASE EndReset(n) BY <1>4 DEF EndReset
<1>5. CASE AnswerReady(n) BY <1>5 DEF AnswerReady
<1>6. CASE LoadPolicy(n) BY <1>6 DEF LoadPolicy, Sessions
<1>7. CASE UNCHANGED serverVars BY <1>7 DEF serverVars
<1> QED BY <1>1, <1>2, <1>3, <1>4, <1>5, <1>6, <1>7 DEF ResetStep

\* The steps of SendObservations.
LEMMA SenderType ==
    ASSUME ServerTypeOK, HandlersHold, NEW s \in Senders,
           EnqueueStep(s) \/ EndSend(s) \/ \E o \in Observations : InvokeSend(s, o)
    PROVE  ServerRest' /\ HandlersHold'
<1> USE DEF ServerTypeOK, ServerRest, HandlersHold, SenderStep, getterVars, contents,
        resettable, SenderPoints
<1>1. CASE ReceiveBytes(s) BY <1>1 DEF ReceiveBytes
<1>2. CASE AcceptUnchecked(s) BY <1>2 DEF AcceptUnchecked
<1>3. CASE BeginSanityChecks(s) BY <1>3 DEF BeginSanityChecks
<1>4. CASE FinishSanityChecks(s) BY <1>4 DEF FinishSanityChecks, Objects
<1>5. CASE TestFull(s) BY <1>5 DEF TestFull
<1>6. CASE PopOldest(s) BY <1>6 DEF PopOldest
<1>7. CASE PopOldestRaises(s) BY <1>7 DEF PopOldestRaises
<1>8. CASE PutObservation(s) BY <1>8 DEF PutObservation
<1>9. CASE PutBlocks(s) BY <1>9 DEF PutBlocks
<1>10. CASE PutUnblocks(s) BY <1>10 DEF PutUnblocks, Objects
<1>11. CASE EndSend(s) BY <1>11 DEF EndSend
<1>12. ASSUME NEW o \in Observations, InvokeSend(s, o) PROVE ServerRest' /\ HandlersHold'
    BY <1>12, ServerAssumption DEF InvokeSend
<1> QED
    BY <1>1, <1>2, <1>3, <1>4, <1>5, <1>6, <1>7, <1>8, <1>9, <1>10, <1>11, <1>12
    DEF EnqueueStep

\* The steps of GetActions.
LEMMA GetterType ==
    ASSUME ServerTypeOK, HandlersHold, NEW g \in Getters,
           InferStep(g) \/ EndGet(g) \/ InvokeGet(g)
    PROVE  ServerRest' /\ HandlersHold'
<1> USE DEF ServerTypeOK, ServerRest, HandlersHold, GetterStep, senderVars, contents,
        resettable, GetterPoints
<1>1. CASE TakeObservation(g) BY <1>1 DEF TakeObservation, Objects
<1>2. CASE GetTimesOut(g) BY <1>2 DEF GetTimesOut, Objects
<1>3. CASE MarkPredicted(g)
    <2>1. gobs[g].timestep \in 0 .. Horizon BY <1>3 DEF MarkPredicted, Observations
    <2> QED BY <1>3, <2>1 DEF MarkPredicted
<1>4. CASE Preprocess(g) BY <1>4 DEF Preprocess
<1>5. CASE Predict(g) BY <1>5 DEF Predict
<1>6. CASE InferenceRaises(g) BY <1>6, ServerAssumption DEF InferenceRaises
<1>7. CASE EndGet(g) BY <1>7 DEF EndGet
<1>8. CASE InvokeGet(g) BY <1>8 DEF InvokeGet
<1> QED BY <1>1, <1>2, <1>3, <1>4, <1>5, <1>6, <1>7, <1>8 DEF InferStep

\* A step of the pair keeps the types of the server.
LEMMA ServerInvInductive ==
    ASSUME ServerInv, ClientTypeOK, ServerPart
    PROVE  ServerInv'
<1> USE DEF ServerInv
<1>1. session \in Sessions /\ obs \in Observations BY DEF ClientTypeOK
<1>2. ServerRest' /\ HandlersHold'
    BY <1>1, ResetType, SenderType, GetterType DEF ServerPart, ServerLocal
<1>3. ObjectsCounted' /\ queueObject' \in Objects /\ predictedObject' \in Objects
    BY ObjectsCountedInductive
<1> QED BY <1>2, <1>3 DEF ServerRest, ServerTypeOK

\* A step of the pair keeps the types of the client, and its queue of one chunk.
LEMMA ClientPartKeeps ==
    ASSUME ClientTypeOK, ServerInv, ClientPart
    PROVE  ClientTypeOK' /\ (QueueInv => QueueInv')
<1>1. ChunkArrives => \E t \in 0 .. Horizon : ReceiveChunk(t)
    BY DEF ChunkArrives, ServerInv, HandlersHold, ServerTypeOK, Observations
<1>2. ClientTypeOK'
    BY <1>1, ProcessType, LoopType, ReceiverType DEF ClientPart, ClientLocal
<1>3. QueueInv => QueueInv'
    BY <1>1, QueueInvInductive DEF ClientPart
<1> QED BY <1>2, <1>3

\* What holds of client and server joined.
PairInv == ClientTypeOK /\ QueueInv /\ ServerInv

\* The server before its first call.
LEMMA ServerInvInit == ServerInit => ServerInv
<1> SUFFICES ASSUME ServerInit PROVE ServerInv
    OBVIOUS
<1>1. ServerTypeOK
    <2>1. 0 \in Objects /\ 0 \in 0 .. MaxSessions /\ 0 \in 0 .. MaxFaults
        BY DataAssumption, ServerAssumption DEF Objects
    <2> QED
        BY <2>1 DEF ServerInit, ServerTypeOK, ReadyPoints, SenderPoints, GetterPoints
<1>2. Past({"set", "clear", "reply", "done"}) = {} /\ Past({"clear", "reply", "done"}) = {}
    BY DEF ServerInit, Past
<1>3. ObjectsCounted BY <1>2, FS_EmptySet DEF ServerInit, ObjectsCounted
<1>4. HandlersHold BY DEF ServerInit, HandlersHold
<1> QED BY <1>1, <1>3, <1>4 DEF ServerInv

\* PairInv holds in every state of client and server joined.
LEMMA PairInvAlways == AsyncSafety => []PairInv
<1>1. AsyncInit => PairInv
    BY InitType, ServerInvInit, EmptyOneChunk DEF AsyncInit, PairInv, ClientInit, QueueInv
<1>2. PairInv /\ [AsyncNext]_asyncVars => PairInv'
    BY StepInParts, ServerInvInductive, ClientPartKeeps DEF PairInv
<1> QED BY <1>1, <1>2, PTL DEF AsyncSafety

\* Every state of every run of client and server joined keeps to the types of both,
\* whatever call fails or is retried, and however many clients came before.
THEOREM PairTypeCorrect == AsyncSafety => [](ClientTypeOK /\ ServerTypeOK)
<1>1. PairInv => ClientTypeOK /\ ServerTypeOK BY DEF PairInv, ServerInv
<1> QED BY <1>1, PairInvAlways, PTL

\* The action queue is in order and no wider than one chunk when the server answers,
\* in every launch, also while handlers of earlier launches run on.
THEOREM PairQueueAlwaysOneChunk == AsyncSafety => []QueueIsOneChunk
<1>1. PairInv => QueueIsOneChunk BY DEF PairInv, QueueInv, QueueIsOneChunk
<1> QED BY <1>1, PairInvAlways, PTL

(***************************************************************************)
(* PolicyOfSession.  A reset of an earlier launch may end after the Ready  *)
(* of this one was answered, but none of them can begin again: once this   *)
(* launch's Ready is answered, no reset has the server shut down, and its  *)
(* SendPolicyInstructions loads its policy.  Only then does the receiver   *)
(* thread exist, whose call the property is about.                         *)
(***************************************************************************)
CallsHeld ==
    /\ sendCall \in Senders \cup {None} /\ (sendCall # None => cpc = "sending")
    /\ getCall \in Getters \cup {None} /\ (getCall # None => rpc = "waiting")

Handshake ==
    /\ \A n \in Sessions : n > session => readyPc[n] = "idle"
    /\ readyPc[session] \in {"reply", "done"} => ~shutdown
    /\ cpc = "instructions" => readyPc[session] = "done"
    /\ cpc \notin {"ready", "instructions", "exit"} \/ rpc # "unborn" => policy = session
    /\ cpc \in BootPoints => rpc = "unborn"

\* A call in progress has its thread of the client waiting for it.
LEMMA CallsHeldInductive ==
    ASSUME CallsHeld, [AsyncNext]_asyncVars
    PROVE  CallsHeld'
<1> USE RpcAssumption DEF CallsHeld
<1>1. CASE ClientAlone BY <1>1 DEF ClientAlone, Rebind
<1>2. CASE ServerAlone
    BY <1>2 DEF ServerAlone, ClientUnchanged, clientVars, control, receiver, calls
<1>3. CASE CallReady
    BY <1>3 DEF CallReady, ClientUnchanged, clientVars, control, receiver, calls
<1>4. CASE SendPolicyInstructions
    <2>1. sendCall = None /\ UNCHANGED <<sendCall, getCall, rpc>>
        BY <1>4 DEF SendPolicyInstructions, InstructionsReturn, receiver, calls
    <2> QED BY <2>1
<1>5. ASSUME NEW n \in Sessions, ReadyAnswered(n) PROVE CallsHeld'
    <2>1. CASE UNCHANGED clientVars
        BY <1>5, <2>1 DEF ReadyAnswered, clientVars, control, receiver, calls
    <2>2. CASE ReadyReturns
        BY <1>5, <2>2 DEF ReadyAnswered, ReadyReturns, ControlStep, receiver, calls
    <2> QED BY <1>5, <2>1, <2>2 DEF ReadyAnswered, ClientUnchanged
<1>6. ASSUME NEW s \in Senders, CallSend(s) PROVE CallsHeld'
    BY <1>6 DEF CallSend, ClientUnchanged, clientVars, control, receiver
<1>7. ASSUME NEW s \in Senders, SendAnswered(s) PROVE CallsHeld'
    BY <1>7 DEF SendAnswered, Rebind
<1>8. ASSUME NEW g \in Getters, CallGet(g) PROVE CallsHeld'
    BY <1>8 DEF CallGet, ClientUnchanged, clientVars, control, receiver
<1>9. ASSUME NEW g \in Getters, GetAnswered(g) PROVE CallsHeld'
    BY <1>9 DEF GetAnswered, Rebind
<1>10. ASSUME NEW g \in Getters, OrphanGetEnds(g) PROVE CallsHeld'
    BY <1>10 DEF OrphanGetEnds, ClientUnchanged, clientVars, control, receiver, calls
<1>11. CASE SendFails
    BY <1>11 DEF SendFails, SendReturns, ControlStep, receiver
<1>12. CASE SendRetried
    BY <1>12 DEF SendRetried, ClientUnchanged, clientVars, control, receiver
<1>13. CASE GetFails
    BY <1>13 DEF GetFails, ReceiveNothing, ReceiverStep, control
<1>14. CASE GetRetried
    BY <1>14 DEF GetRetried, ClientUnchanged, clientVars, control, receiver
<1>15. CASE AllEnded
    BY <1>15 DEF AllEnded, Exited, clientVars, control, receiver, calls
<1>16. CASE UNCHANGED asyncVars
    BY <1>16 DEF asyncVars, clientVars, control, receiver, calls
<1> QED
    BY <1>1, <1>2, <1>3, <1>4, <1>5, <1>6, <1>7, <1>8, <1>9, <1>10, <1>11, <1>12, <1>13, <1>14,
       <1>15, <1>16
    DEF AsyncNext, RpcStep, RpcFault

\* What a step of the client alone, other than a new launch, does to the handshake.
LEMMA HandshakeKept ==
    ASSUME ClientLocal \/ CallGetActions \/ ReceiveNothing, ~Relaunch
    PROVE  /\ session' = session
           /\ cpc' \in BootPoints => cpc' = cpc
           /\ cpc = "exit" => cpc' = "exit"
           /\ cpc \in {"ready", "instructions"} => cpc' \in {cpc, "exit"}
           /\ rpc' # "unborn" => rpc # "unborn" \/ cpc \in {"spawn", "join"}
           /\ rpc = "unborn" => rpc' = "unborn" \/ cpc' \in {"barrier", "exit"}
<1> USE DEF BootPoints, ControlStep, ReceiverStep, process, receiver, control
<1>1. CASE StartFails \/ SpawnReceiver \/ PassBarrier \/ Interrupt \/ InterruptJoin
    BY <1>1 DEF StartFails, SpawnReceiver, PassBarrier, Interrupt, InterruptJoin, LoopPoints
<1>2. CASE LoopStep
    BY <1>2
    DEF LoopStep, ActionsAvailable, NoActionsAvailable, PopAction, PopRaisesEmpty,
        PerformAction, NotReadyToSend, ReadyToSend, CaptureObservation, CaptureFails,
        FlagMustGo, ClearMustGo
<1>3. CASE StopStep
    BY <1>3 DEF StopStep, SetShutdown, CloseChannel, JoinReceiver
<1>4. CASE \/ CheckRunning \/ CallOnClosedChannel \/ MergeStep
           \/ CallGetActions \/ ReceiveNothing
    BY <1>4
    DEF CheckRunning, CallOnClosedChannel, MergeStep, CallGetActions, ReceiveNothing,
        BeginIteration, FinishIteration, IterationRaises, MergeOne, FinishMerge, SwapQueue,
        ArmMustGo
<1> QED BY <1>1, <1>2, <1>3, <1>4 DEF ClientLocal

\* What a step of the server alone does to the handshake.
LEMMA ResetsEnd ==
    ASSUME ServerTypeOK, ServerLocal
    PROVE  /\ policy' = policy
           /\ \A n \in Sessions :
                 readyPc[n] \in {"idle", "reply", "done"} => readyPc'[n] = readyPc[n]
           /\ \A n \in Sessions :
                 readyPc'[n] \in {"reply", "done"} =>
                     readyPc[n] \in {"reply", "done"} \/ ~shutdown'
           /\ shutdown' => shutdown
<1>1. ASSUME NEW s \in Senders, EnqueueStep(s) PROVE UNCHANGED <<readyPc, shutdown, policy>>
    BY <1>1
    DEF EnqueueStep, ReceiveBytes, AcceptUnchecked, BeginSanityChecks, FinishSanityChecks,
        TestFull, PopOldest, PopOldestRaises, PutObservation, PutBlocks, PutUnblocks,
        SenderStep, resettable
<1>2. ASSUME NEW g \in Getters, InferStep(g) PROVE UNCHANGED <<readyPc, shutdown, policy>>
    BY <1>2
    DEF InferStep, TakeObservation, GetTimesOut, MarkPredicted, Preprocess, Predict,
        InferenceRaises, GetterStep, resettable
<1>3. CASE UNCHANGED <<readyPc, shutdown, policy>>
    BY <1>3
<1>4. ASSUME NEW n \in Sessions, ResetStep(n)
      PROVE  /\ policy' = policy
             /\ \A m \in Sessions :
                   readyPc[m] \in {"idle", "reply", "done"} => readyPc'[m] = readyPc[m]
             /\ \A m \in Sessions :
                   readyPc'[m] \in {"reply", "done"} =>
                       readyPc[m] \in {"reply", "done"} \/ ~shutdown'
             /\ shutdown' => shutdown
    <2>1. CASE ReplaceQueue(n) BY <2>1 DEF ReplaceQueue, ReadyTo, ServerTypeOK
    <2>2. CASE ReplacePredicted(n) BY <2>2 DEF ReplacePredicted, ReadyTo, ServerTypeOK
    <2>3. CASE EndReset(n) BY <2>3 DEF EndReset, ReadyTo, ServerTypeOK
    <2> QED BY <1>4, <2>1, <2>2, <2>3 DEF ResetStep
<1> QED BY <1>1, <1>2, <1>3, <1>4 DEF ServerLocal

\* Steps that leave alone all that the handshake is about.
LEMMA HandshakeUntouched ==
    ASSUME Handshake, UNCHANGED <<session, cpc, rpc, readyPc, shutdown, policy>>
    PROVE  Handshake'
BY DEF Handshake

\* The handshake of a launch is its own, whatever earlier launches have left running.
LEMMA HandshakeInductive ==
    ASSUME ClientTypeOK, ServerTypeOK, Handshake, [AsyncNext]_asyncVars
    PROVE  Handshake'
<1> USE DEF process, control, receiver, resettable
<1>1. session \in Sessions /\ readyPc \in [Sessions -> ReadyPoints]
    BY DEF ClientTypeOK, ServerTypeOK
<1>2. CASE ClientAlone
    <2>1. UNCHANGED <<readyPc, shutdown, policy>>
        BY <1>2 DEF ClientAlone, ServerUnchanged, serverVars
    <2>2. CASE Relaunch
        <3>1. session + 1 \in Sessions BY <1>1, <2>2, DataAssumption DEF Relaunch, Sessions
        <3>2. session' = session + 1 /\ cpc' = "ready" /\ rpc' = "unborn" BY <2>2 DEF Relaunch
        <3>3. readyPc[session + 1] = "idle"
            BY <1>1, <3>1 DEF Handshake, Sessions
        <3>4. \A n \in Sessions : n > session + 1 => readyPc[n] = "idle"
            BY <1>1 DEF Handshake, Sessions
        <3> QED BY <2>1, <3>2, <3>3, <3>4 DEF Handshake
    <2>3. CASE ~Relaunch
        <3>1. ClientLocal \/ CallGetActions \/ ReceiveNothing
            BY <1>2 DEF ClientAlone, CallCancelled
        <3>2. cpc' \in BootPoints => cpc' = cpc /\ rpc' = "unborn"
            BY <2>3, <3>1, HandshakeKept DEF Handshake, BootPoints
        <3>3. \/ cpc' \notin {"ready", "instructions", "exit"}
              \/ rpc' # "unborn"
              => cpc \notin {"ready", "instructions", "exit"} \/ rpc # "unborn"
            BY <2>3, <3>1, HandshakeKept
        <3>4. session' = session BY <2>3, <3>1, HandshakeKept
        <3>5. cpc' = "instructions" => cpc = "instructions" BY <3>2 DEF BootPoints
        <3> QED BY <2>1, <3>2, <3>3, <3>4, <3>5 DEF Handshake
    <2> QED BY <2>2, <2>3
<1>3. CASE ServerAlone
    <2>1. ServerLocal /\ UNCHANGED <<session, cpc, rpc>>
        BY <1>3 DEF ServerAlone, ClientUnchanged, clientVars
    <2>2. readyPc'[session] \in {"reply", "done"} => ~shutdown'
        BY <1>1, <2>1, ResetsEnd DEF Handshake
    <2>3. \A n \in Sessions : n > session => readyPc'[n] = "idle"
        BY <2>1, ResetsEnd DEF Handshake
    <2>4. readyPc[session] = "done" => readyPc'[session] = "done"
        BY <1>1, <2>1, ResetsEnd
    <2>5. policy' = policy BY <2>1, ResetsEnd
    <2> QED BY <2>1, <2>2, <2>3, <2>4, <2>5 DEF Handshake
<1>4. CASE CallReady
    <2>1. /\ cpc = "ready" /\ readyPc[session] = "idle"
          /\ readyPc' = [readyPc EXCEPT ![session] = "queue"]
          /\ UNCHANGED <<session, cpc, rpc, policy>>
        BY <1>4 DEF CallReady, BeginReset, ReadyTo, ClientUnchanged, clientVars
    <2>2. readyPc'[session] = "queue" BY <1>1, <2>1
    <2>3. \A n \in Sessions : n > session => readyPc'[n] = readyPc[n]
        BY <1>1, <2>1 DEF Sessions
    <2> QED BY <2>1, <2>2, <2>3 DEF Handshake
<1>5. ASSUME NEW n \in Sessions, ReadyAnswered(n) PROVE Handshake'
    <2>1. /\ readyPc[n] = "reply"
          /\ readyPc' = [readyPc EXCEPT ![n] = "done"]
          /\ UNCHANGED <<shutdown, policy>>
        BY <1>5 DEF ReadyAnswered, AnswerReady, ReadyTo
    <2>2. readyPc'[n] = "done" /\ \A m \in Sessions \ {n} : readyPc'[m] = readyPc[m]
        BY <1>1, <2>1
    <2>3. UNCHANGED <<session, rpc>>
        BY <1>5 DEF ReadyAnswered, ReadyReturns, ControlStep, ClientUnchanged, clientVars
    <2>4. \/ n = session /\ cpc = "ready" /\ cpc' = "instructions"
          \/ cpc' = cpc
        BY <1>5 DEF ReadyAnswered, ReadyReturns, ClientUnchanged, clientVars
    <2>5. \A m \in Sessions : m > session => readyPc'[m] = "idle"
        BY <2>1, <2>2 DEF Handshake
    <2>6. readyPc'[session] \in {"reply", "done"} => ~shutdown'
        BY <1>1, <2>1, <2>2 DEF Handshake
    <2>7. cpc' = "instructions" => readyPc'[session] = "done"
        BY <1>1, <2>2, <2>4 DEF Handshake
    <2>8. cpc' \in BootPoints => rpc' = "unborn"
        BY <2>3, <2>4 DEF Handshake, BootPoints
    <2> QED BY <2>1, <2>3, <2>4, <2>5, <2>6, <2>7, <2>8 DEF Handshake
<1>6. CASE SendPolicyInstructions
    <2>1. /\ cpc = "instructions" /\ cpc' = "spawn"
          /\ UNCHANGED <<session, rpc, readyPc, shutdown>>
          /\ policy' = IF shutdown THEN policy ELSE session
        BY <1>6 DEF SendPolicyInstructions, LoadPolicy, InstructionsReturn
    <2>2. ~shutdown BY <2>1 DEF Handshake
    <2> QED BY <2>1, <2>2 DEF Handshake, BootPoints
<1>7. ASSUME NEW s \in Senders, CallSend(s) PROVE Handshake'
    BY <1>7, HandshakeUntouched DEF CallSend, InvokeSend, SenderStep, ClientUnchanged, clientVars
<1>8. SendReturns => cpc \notin BootPoints /\ cpc' = "clear" /\ cpc = "sending"
                     /\ UNCHANGED <<session, rpc>>
    BY DEF SendReturns, ControlStep, BootPoints
<1>9. SendReturns /\ UNCHANGED <<readyPc, shutdown, policy>> => Handshake'
    BY <1>8 DEF Handshake, BootPoints
<1>10. ASSUME NEW s \in Senders, SendAnswered(s) PROVE Handshake'
    BY <1>9, <1>10, HandshakeUntouched
    DEF SendAnswered, EndSend, SenderStep, ClientUnchanged, clientVars
<1>11. ASSUME NEW t, ReceiveChunk(t) \/ ReceiveNothing,
              UNCHANGED <<readyPc, shutdown, policy>>
       PROVE  Handshake'
    BY <1>11 DEF ReceiveChunk, ReceiveNothing, ReceiverStep, Handshake
<1>12. ASSUME NEW g \in Getters, CallGet(g) PROVE Handshake'
    BY <1>12, HandshakeUntouched DEF CallGet, InvokeGet, GetterStep, ClientUnchanged, clientVars
<1>13. ASSUME NEW g \in Getters, GetAnswered(g) PROVE Handshake'
    BY <1>11, <1>13 DEF GetAnswered, EndGet, GetterStep
<1>14. ASSUME NEW g \in Getters, OrphanGetEnds(g) PROVE Handshake'
    BY <1>14, HandshakeUntouched DEF OrphanGetEnds, EndGet, GetterStep, ClientUnchanged, clientVars
<1>15. CASE RpcFault
    BY <1>9, <1>11, <1>15, HandshakeUntouched
    DEF RpcFault, SendFails, SendRetried, GetFails, GetRetried, ServerUnchanged, serverVars,
        ClientUnchanged, clientVars
<1>16. CASE AllEnded \/ UNCHANGED asyncVars
    BY <1>16, HandshakeUntouched DEF AllEnded, Exited, asyncVars, serverVars, clientVars
<1> QED
    BY <1>2, <1>3, <1>4, <1>5, <1>6, <1>7, <1>10, <1>12, <1>13, <1>14, <1>15, <1>16
    DEF AsyncNext, RpcStep

\* Whatever policy an earlier launch has left loaded, and whatever handlers it has left
\* running, the inference whose actions a client waits for is made by its own policy.
THEOREM AlwaysPolicyOfSession == AsyncSafety => []PolicyOfSession
<1>1. AsyncInit => CallsHeld /\ Handshake
    BY DataAssumption
    DEF AsyncInit, ClientInit, ServerInit, CallsHeld, Handshake, Sessions, BootPoints
<1>2. PairInv /\ CallsHeld /\ Handshake /\ [AsyncNext]_asyncVars => CallsHeld' /\ Handshake'
    BY CallsHeldInductive, HandshakeInductive DEF PairInv, ServerInv
<1>3. CallsHeld /\ Handshake => PolicyOfSession
    BY RpcAssumption DEF CallsHeld, Handshake, PolicyOfSession
<1> QED BY PairInvAlways, <1>1, <1>2, <1>3, PTL DEF AsyncSafety

(***************************************************************************)
(* ClientRefined.  RobotClient lets GetActions return a chunk for any      *)
(* observation sent.  The server returns one for the observation its       *)
(* handler took from the queue, which a sender put there, which the client *)
(* gave it: each of these was sent in this launch, when there is one.      *)
(***************************************************************************)
ObservationsSent ==
    /\ \A x \in Objects : slots[x] # None => slots[x].timestep \in sent
    /\ \A s \in Senders : sobs[s] # None => sobs[s].timestep \in sent
    /\ \A g \in Getters : gobs[g] # None => gobs[g].timestep \in sent
    /\ cpc = "sending" => obs.timestep \in sent

\* In one launch the client forgets nothing it has sent, and what it is sending is sent.
LEMMA SentGrows ==
    ASSUME MaxSessions = 1, ClientTypeOK, ClientPart,
           cpc = "sending" => obs.timestep \in sent
    PROVE  sent \subseteq sent' /\ (cpc' = "sending" => obs'.timestep \in sent')
<1> USE DEF ControlStep, ReceiverStep, control, receiver
<1>1. CASE Relaunch BY <1>1 DEF Relaunch, ClientTypeOK, Sessions
<1>2. CASE FlagMustGo
    <2>1. obs'.timestep = obs.timestep BY <1>2 DEF FlagMustGo, ClientTypeOK, Observations
    <2> QED BY <1>2, <2>1 DEF FlagMustGo
<1>3. CASE \/ StartFails \/ SpawnReceiver \/ PassBarrier \/ Interrupt \/ InterruptJoin
           \/ StopStep \/ ReadyReturns \/ InstructionsReturn \/ SendReturns
    BY <1>3
    DEF StartFails, SpawnReceiver, PassBarrier, Interrupt, InterruptJoin, StopStep, SetShutdown,
        CloseChannel, JoinReceiver, ReadyReturns, InstructionsReturn, SendReturns
<1>4. CASE LoopStep
    BY <1>2, <1>4
    DEF LoopStep, ActionsAvailable, NoActionsAvailable, PopAction, PopRaisesEmpty,
        PerformAction, NotReadyToSend, ReadyToSend, CaptureObservation, CaptureFails,
        ClearMustGo
<1>5. UNCHANGED control => sent \subseteq sent' /\ (cpc' = "sending" => obs'.timestep \in sent')
    OBVIOUS
<1>6. CASE CheckRunning \/ CallOnClosedChannel \/ MergeStep \/ CallGetActions \/ ReceiveNothing
    BY <1>5, <1>6
    DEF CheckRunning, CallOnClosedChannel, MergeStep, CallGetActions, ReceiveNothing,
        BeginIteration, FinishIteration, IterationRaises, MergeOne, FinishMerge, SwapQueue,
        ArmMustGo
<1>7. CASE ChunkArrives BY <1>5, <1>7 DEF ChunkArrives, ReceiveChunk
<1>8. CASE UNCHANGED clientVars BY <1>5, <1>8 DEF clientVars
<1> QED BY <1>1, <1>3, <1>4, <1>6, <1>7, <1>8 DEF ClientPart, ClientLocal

\* The server has no observation but those the client has sent.
LEMMA ObservationsSentInductive ==
    ASSUME MaxSessions = 1, ClientTypeOK, ServerTypeOK, ObservationsSent,
           ClientPart, ServerPart
    PROVE  ObservationsSent'
<1>1. sent \subseteq sent' /\ (cpc' = "sending" => obs'.timestep \in sent')
    BY SentGrows DEF ObservationsSent
<1>2. /\ queueObject \in Objects
      /\ slots \in [Objects -> Observations \cup {None}]
      /\ sobs \in [Senders -> Observations \cup {None}] /\ sref \in [Senders -> Objects]
      /\ gobs \in [Getters -> Observations \cup {None}] /\ gref \in [Getters -> Objects]
    BY DEF ServerTypeOK
<1>3. SUFFICES /\ \A x \in Objects : slots'[x] # None => slots'[x].timestep \in sent
               /\ \A s \in Senders : sobs'[s] # None => sobs'[s].timestep \in sent
               /\ \A g \in Getters : gobs'[g] # None => gobs'[g].timestep \in sent
    BY <1>1 DEF ObservationsSent
<1> USE <1>2 DEF ObservationsSent, SenderStep, GetterStep, NoHandlerStep, contents, senderVars,
        getterVars
<1>4. CASE UNCHANGED <<slots, sobs, gobs>> BY <1>4
<1>5. ASSUME NEW n \in Sessions,
             BeginReset(n) \/ ResetStep(n) \/ AnswerReady(n) \/ LoadPolicy(n)
      PROVE  UNCHANGED <<slots, sobs, gobs>>
    BY <1>5
    DEF BeginReset, ResetStep, ReplaceQueue, ReplacePredicted, EndReset, AnswerReady, LoadPolicy
<1>6. ASSUME NEW s \in Senders,
             \/ ReceiveBytes(s) \/ AcceptUnchecked(s) \/ BeginSanityChecks(s)
             \/ FinishSanityChecks(s) \/ TestFull(s) \/ PopOldestRaises(s) \/ PutBlocks(s)
      PROVE  UNCHANGED <<slots, sobs, gobs>>
    BY <1>6
    DEF ReceiveBytes, AcceptUnchecked, BeginSanityChecks, FinishSanityChecks, TestFull,
        PopOldestRaises, PutBlocks
<1>7. ASSUME NEW g \in Getters,
             \/ InvokeGet(g) \/ GetTimesOut(g) \/ MarkPredicted(g) \/ Preprocess(g) \/ Predict(g)
             \/ InferenceRaises(g)
      PROVE  UNCHANGED <<slots, sobs, gobs>>
    BY <1>7
    DEF InvokeGet, GetTimesOut, MarkPredicted, Preprocess, Predict, InferenceRaises
<1> DEFINE Sent == /\ \A x \in Objects : slots'[x] # None => slots'[x].timestep \in sent
                   /\ \A s \in Senders : sobs'[s] # None => sobs'[s].timestep \in sent
                   /\ \A g \in Getters : gobs'[g] # None => gobs'[g].timestep \in sent
<1>8. ASSUME NEW s \in Senders, PopOldest(s) \/ PutObservation(s) \/ PutUnblocks(s) PROVE Sent
    <2>1. UNCHANGED <<sobs, gobs>>
        BY <1>8 DEF PopOldest, PutObservation, PutUnblocks
    <2>2. PICK y \in Objects, o \in {None, sobs[s]} : slots' = [slots EXCEPT ![y] = o]
        BY <1>8 DEF PopOldest, PutObservation, PutUnblocks
    <2> QED BY <2>1, <2>2
<1>9. ASSUME NEW s \in Senders, EndSend(s) \/ (InvokeSend(s, obs) /\ cpc = "sending") PROVE Sent
    <2>1. UNCHANGED <<slots, gobs>>
        BY <1>9 DEF EndSend, InvokeSend
    <2>2. PICK o \in {None, obs} :
              sobs' = [sobs EXCEPT ![s] = o] /\ (o = obs => o = None \/ cpc = "sending")
        BY <1>9 DEF EndSend, InvokeSend
    <2> QED BY <2>1, <2>2
<1>10. ASSUME NEW g \in Getters, TakeObservation(g) \/ EndGet(g) PROVE Sent
    <2>1. CASE TakeObservation(g) BY <2>1 DEF TakeObservation
    <2>2. CASE EndGet(g) BY <2>2 DEF EndGet
    <2> QED BY <1>10, <2>1, <2>2
<1>11. CASE UNCHANGED serverVars BY <1>4, <1>11 DEF serverVars
<1>12. session \in Sessions BY DEF ClientTypeOK
<1> QED
    BY <1>4, <1>5, <1>6, <1>7, <1>8, <1>9, <1>10, <1>11, <1>12
    DEF ServerPart, ServerLocal, EnqueueStep, InferStep

\* In one launch, client and server together are the client with the open environment
\* RobotClient assumes, for every number of workers, of faults and of retried calls:
\* whatever holds of ClientSpec's safety holds of the pair.
THEOREM PairImplementsClient ==
    ASSUME MaxSessions = 1
    PROVE  AsyncSafety => ClientRefined
<1>1. AsyncInit => ClientInit /\ ObservationsSent
    BY DEF AsyncInit, ClientInit, ServerInit, ObservationsSent
<1>2. PairInv /\ ObservationsSent /\ [AsyncNext]_asyncVars => ObservationsSent'
    BY StepInParts, ObservationsSentInductive DEF PairInv, ServerInv
<1>3. PairInv /\ ObservationsSent /\ [AsyncNext]_asyncVars => [ClientNext]_clientVars
    <2> SUFFICES ASSUME PairInv, ObservationsSent, [AsyncNext]_asyncVars
                 PROVE  [ClientNext]_clientVars
        OBVIOUS
    <2>1. ChunkArrives => \E t \in sent : ReceiveChunk(t)
        BY DEF ChunkArrives, PairInv, ServerInv, HandlersHold, ObservationsSent
    <2> QED BY <2>1, StepInParts DEF ClientPart, ClientNext
<1> QED BY PairInvAlways, <1>1, <1>2, <1>3, PTL DEF AsyncSafety, ClientRefined

(***************************************************************************)
(* QuietMergeIsFresh.  latest_action moves only when the control loop      *)
(* executes an action; while a merge sees none, all it has kept is newer.  *)
(***************************************************************************)
QuietSoFar ==
    rpc \in {"merge", "swap"} /\ ~performed =>
        cpc # "act" /\ \A i \in DOMAIN future : future[i] > latestAction

\* Appending what is newer than the latest action keeps all newer.
LEMMA AppendNewer ==
    ASSUME NEW p \in Seq(Timesteps), NEW x \in Timesteps, NEW t \in Int,
           \A i \in DOMAIN p : p[i] > t, x > t
    PROVE  \A i \in DOMAIN Append(p, x) : Append(p, x)[i] > t
<1>1. DOMAIN p = 1 .. Len(p) /\ Len(p) \in Nat OBVIOUS
<1>2. DOMAIN Append(p, x) = 1 .. Len(p) + 1 OBVIOUS
<1>3. Append(p, x)[Len(p) + 1] = x /\ \A i \in 1 .. Len(p) : Append(p, x)[i] = p[i] OBVIOUS
<1> QED BY <1>1, <1>2, <1>3

\* What the receiver keeps stays newer than the latest action of a quiet merge.
LEMMA QuietInductive ==
    ASSUME ClientTypeOK, QuietSoFar, [MCNext]_mcVars
    PROVE  QuietSoFar'
<1>1. CASE UNCHANGED mcVars
    BY <1>1 DEF mcVars, asyncVars, clientVars, control, receiver, shared, QuietSoFar
<1>2. CASE MCNext
    <2>1. performed' = (rpc' \in {"merge", "swap"} /\ (performed \/ cpc' = "act"))
        BY <1>2 DEF MCNext
    <2>2. ClientPart BY <1>2, StepInParts DEF MCNext
    <2> SUFFICES ASSUME rpc' \in {"merge", "swap"}, ~performed, cpc' # "act"
                 PROVE  \A i \in DOMAIN future' : future'[i] > latestAction'
        BY <2>1 DEF QuietSoFar
    <2> USE DEF ControlStep, ReceiverStep, control, receiver, shared
    <2>3. CASE MergeStep
        <3>1. latestAction' = latestAction
            BY <2>3
            DEF MergeStep, BeginIteration, FinishIteration, IterationRaises, MergeOne,
                FinishMerge, SwapQueue, ArmMustGo
        <3>2. CASE FinishIteration BY <3>2 DEF FinishIteration
        <3>3. CASE MergeOne
            <4>1. Head(incoming) \in Timesteps BY <3>3 DEF MergeOne, ClientTypeOK
            <4>2. latestAction \in Int BY DEF ClientTypeOK, Timesteps
            <4>3. \A i \in DOMAIN future : future[i] > latestAction
                BY <3>3 DEF MergeOne, QuietSoFar
            <4>4. CASE Head(incoming) <= latestAction
                BY <3>1, <3>3, <4>3, <4>4 DEF MergeOne
            <4>5. CASE ~(Head(incoming) <= latestAction)
                <5>1. Head(incoming) > latestAction BY <4>1, <4>2, <4>5 DEF Timesteps
                <5>2. future' = Append(future, Head(incoming)) BY <3>3, <4>5 DEF MergeOne
                <5>3. future \in Seq(Timesteps) BY DEF ClientTypeOK
                <5> QED BY <3>1, <4>1, <4>2, <4>3, <5>1, <5>2, <5>3, AppendNewer
            <4> QED BY <4>4, <4>5
        <3>4. CASE FinishMerge BY <3>1, <3>4 DEF FinishMerge, QuietSoFar
        <3>5. CASE BeginIteration \/ IterationRaises \/ SwapQueue \/ ArmMustGo
            BY <3>5 DEF BeginIteration, IterationRaises, SwapQueue, ArmMustGo
        <3> QED BY <2>3, <3>2, <3>3, <3>4, <3>5 DEF MergeStep
    <2>4. CASE UNCHANGED <<latestAction, rpc, future>>
        BY <2>4 DEF QuietSoFar
    <2>5. CASE PerformAction
        BY <2>5 DEF PerformAction, QuietSoFar
    <2>6. CASE LoopStep
        BY <2>4, <2>5, <2>6
        DEF LoopStep, ActionsAvailable, NoActionsAvailable, PopAction, PopRaisesEmpty,
            NotReadyToSend, ReadyToSend, CaptureObservation, CaptureFails, FlagMustGo,
            ClearMustGo
    <2>7. CASE \/ StartFails \/ Interrupt \/ StopStep \/ ReadyReturns \/ InstructionsReturn
               \/ SendReturns \/ UNCHANGED clientVars
        BY <2>4, <2>7
        DEF StartFails, Interrupt, StopStep, SetShutdown, CloseChannel, JoinReceiver,
            ReadyReturns, InstructionsReturn, SendReturns, clientVars
    <2>8. CASE \/ SpawnReceiver \/ PassBarrier \/ InterruptJoin \/ Relaunch \/ CheckRunning
               \/ CallOnClosedChannel \/ CallGetActions \/ ReceiveNothing \/ ChunkArrives
        BY <2>8
        DEF SpawnReceiver, PassBarrier, InterruptJoin, Relaunch, CheckRunning,
            CallOnClosedChannel, CallGetActions, ReceiveNothing, ChunkArrives, ReceiveChunk
    <2> QED BY <2>2, <2>3, <2>6, <2>7, <2>8 DEF ClientPart, ClientLocal
<1> QED BY <1>1, <1>2

\* When no action is executed during a merge, the queue it leaves holds only actions newer
\* than the latest one executed, for every chunk, queue and interleaving.
THEOREM AlwaysQuietMergeIsFresh == MCSafety => QuietMergeIsFresh
<1>1. MCInit => QuietSoFar BY DEF MCInit, AsyncInit, ClientInit, QuietSoFar
<1>2. PairInv /\ QuietSoFar /\ [MCNext]_mcVars => QuietSoFar'
    BY QuietInductive DEF PairInv
<1>3. [MCNext]_mcVars => [AsyncNext]_asyncVars
    BY DEF MCNext, mcVars
<1>4. PairInv /\ QuietSoFar /\ [MCNext]_mcVars
      => [rpc = "swap" /\ rpc' = "arm" /\ ~performed =>
              \A i \in DOMAIN actionQueue' : actionQueue'[i] > latestAction]_mcVars
    <2> SUFFICES ASSUME PairInv, QuietSoFar, [MCNext]_mcVars,
                        rpc = "swap", rpc' = "arm", ~performed
                 PROVE  \A i \in DOMAIN actionQueue' : actionQueue'[i] > latestAction
        OBVIOUS
    <2>1. ClientPart BY <1>3, StepInParts
    <2>2. SwapQueue
        BY <2>1
        DEF ClientPart, ClientLocal, LoopStep, StopStep, MergeStep, StartFails, SpawnReceiver,
            PassBarrier, ActionsAvailable, NoActionsAvailable, PopAction, PopRaisesEmpty,
            PerformAction, NotReadyToSend, ReadyToSend, CaptureObservation, CaptureFails,
            FlagMustGo, ClearMustGo, Interrupt, SetShutdown, CloseChannel, JoinReceiver,
            InterruptJoin, Relaunch, CheckRunning, CallOnClosedChannel, BeginIteration,
            FinishIteration, IterationRaises, MergeOne, FinishMerge, ArmMustGo, ReadyReturns,
            InstructionsReturn, SendReturns, CallGetActions, ReceiveNothing, ChunkArrives,
            ReceiveChunk, ControlStep, clientVars, receiver
    <2> QED BY <2>2 DEF SwapQueue, QuietSoFar
<1>5. MCInit => AsyncInit BY DEF MCInit
<1>6. MCSafety => AsyncSafety BY <1>3, <1>5, PTL DEF MCSafety, AsyncSafety
<1> QED BY PairInvAlways, <1>1, <1>2, <1>4, <1>6, PTL DEF MCSafety, QuietMergeIsFresh

==============================================================================
