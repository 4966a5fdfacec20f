--------------------------- MODULE AsyncInference ---------------------------
(***************************************************************************)
(* The robot client and the policy server, joined by their gRPC calls.     *)
(* A call in progress is served by one handler.  When the call fails, or   *)
(* the client goes away, the handler runs on as an orphan: nobody reads    *)
(* its answer.  The channel retries a call that failed as UNAVAILABLE      *)
(* (grpc_channel_options): the same request then reaches a second handler. *)
(***************************************************************************)
EXTENDS RobotClient, PolicyServer

CONSTANT MaxRpcFaults  \* bound: how many calls fail or are retried

ASSUME RpcAssumption ==
    /\ MaxRpcFaults \in Nat
    /\ None \notin Senders \cup Getters

VARIABLES
    sendCall,   \* the handler of the client's SendObservations, or None
    getCall,    \* the handler of the client's GetActions, or None
    rpcFaults   \* calls that have failed or been retried

calls == <<sendCall, getCall, rpcFaults>>
asyncVars == <<clientVars, serverVars, calls>>

AsyncInit ==
    /\ ClientInit /\ ServerInit
    /\ sendCall = None /\ getCall = None
    /\ rpcFaults = 0

\* A client that leaves a call leaves its handler.
Rebind ==
    /\ sendCall' = IF cpc' = "sending" THEN sendCall ELSE None
    /\ getCall' = IF rpc' = "waiting" THEN getCall ELSE None
    /\ UNCHANGED rpcFaults

ServerUnchanged == UNCHANGED serverVars
ClientUnchanged == UNCHANGED clientVars

(***************************************************************************)
(* The calls of start().                                                   *)
(***************************************************************************)
CallReady ==
    /\ cpc = "ready" /\ BeginReset(session)
    /\ ClientUnchanged /\ UNCHANGED calls

ReadyAnswered(n) ==
    /\ AnswerReady(n)
    /\ IF n = session /\ cpc = "ready" THEN ReadyReturns ELSE ClientUnchanged
    /\ UNCHANGED calls

SendPolicyInstructions ==
    /\ LoadPolicy(session)
    /\ InstructionsReturn
    /\ UNCHANGED calls

(***************************************************************************)
(* SendObservations.                                                       *)
(***************************************************************************)
\* The workers of the pool are alike: a call takes any idle one.
IdleSender(s) == spc[s] = "idle" /\ s = CHOOSE w \in Senders : spc[w] = "idle"

CallSend(s) ==
    /\ cpc = "sending" /\ sendCall = None /\ IdleSender(s)
    /\ InvokeSend(s, obs)
    /\ sendCall' = s
    /\ ClientUnchanged /\ UNCHANGED <<getCall, rpcFaults>>

SendAnswered(s) ==
    /\ EndSend(s)
    /\ IF sendCall = s THEN SendReturns ELSE ClientUnchanged
    /\ Rebind

SendFails ==
    /\ rpcFaults < MaxRpcFaults
    /\ SendReturns
    /\ sendCall' = None /\ rpcFaults' = rpcFaults + 1
    /\ ServerUnchanged /\ UNCHANGED getCall

SendRetried ==
    /\ rpcFaults < MaxRpcFaults /\ sendCall # None
    /\ sendCall' = None /\ rpcFaults' = rpcFaults + 1
    /\ ServerUnchanged /\ ClientUnchanged /\ UNCHANGED getCall

(***************************************************************************)
(* GetActions.                                                             *)
(***************************************************************************)
CallGet(g) ==
    /\ rpc = "waiting" /\ getCall = None /\ channelOpen
    /\ InvokeGet(g)
    /\ getCall' = g
    /\ ClientUnchanged /\ UNCHANGED <<sendCall, rpcFaults>>

\* Mutant: the chunk starts at the step after the observation's.
GetAnsweredNextStep(g) ==
    /\ getCall = g
    /\ EndGet(g)
    /\ IF gpc[g] = "reply" THEN ReceiveChunk(gobs[g].timestep + 1) ELSE ReceiveNothing
    /\ Rebind

\* Mutant: the answer is Empty although an inference was made.
GetAnsweredEmpty(g) ==
    /\ getCall = g
    /\ EndGet(g)
    /\ ReceiveNothing
    /\ Rebind

GetAnswered(g) ==
    /\ getCall = g
    /\ EndGet(g)
    /\ IF gpc[g] = "reply" THEN ReceiveChunk(gobs[g].timestep) ELSE ReceiveNothing
    /\ Rebind

OrphanGetEnds(g) ==
    /\ getCall # g
    /\ EndGet(g)
    /\ ClientUnchanged /\ UNCHANGED calls

GetFails ==
    /\ rpcFaults < MaxRpcFaults
    /\ ReceiveNothing
    /\ getCall' = None /\ rpcFaults' = rpcFaults + 1
    /\ ServerUnchanged /\ UNCHANGED sendCall

GetRetried ==
    /\ rpcFaults < MaxRpcFaults /\ getCall # None
    /\ getCall' = None /\ rpcFaults' = rpcFaults + 1
    /\ ServerUnchanged /\ ClientUnchanged /\ UNCHANGED sendCall

------------------------------------------------------------------------------
ClientAlone ==
    /\ ClientLocal \/ CallGetActions \/ CallCancelled
    /\ ServerUnchanged /\ Rebind

ServerAlone == ServerLocal /\ ClientUnchanged /\ UNCHANGED calls

RpcStep ==
    \/ CallReady \/ SendPolicyInstructions
    \/ \E n \in Sessions : ReadyAnswered(n)
    \/ \E s \in Senders : CallSend(s) \/ SendAnswered(s)
    \/ \E g \in Getters : CallGet(g) \/ GetAnswered(g) \/ OrphanGetEnds(g)

RpcFault == SendFails \/ SendRetried \/ GetFails \/ GetRetried

AllEnded == Exited /\ UNCHANGED <<serverVars, calls>>

AsyncNext == ClientAlone \/ ServerAlone \/ RpcStep \/ RpcFault \/ AllEnded

\* Each thread of the client and each handler is scheduled, and a call that does
\* not fail arrives.
AsyncFairness ==
    /\ WF_asyncVars((LoopStep \/ StopStep) /\ ServerUnchanged /\ Rebind)
    /\ WF_asyncVars(ReceiverLocal /\ ServerUnchanged /\ Rebind)
    /\ WF_asyncVars(CallReady \/ SendPolicyInstructions)
    /\ WF_asyncVars(\E s \in Senders : CallSend(s))
    /\ WF_asyncVars(\E g \in Getters : CallGet(g))
    /\ \A n \in Sessions :
          WF_asyncVars(\/ ResetStep(n) /\ ClientUnchanged /\ UNCHANGED calls
                       \/ ReadyAnswered(n))
    /\ \A s \in Senders :
          WF_asyncVars(\/ EnqueueStep(s) /\ ClientUnchanged /\ UNCHANGED calls
                       \/ SendAnswered(s))
    /\ \A g \in Getters :
          WF_asyncVars(\/ InferStep(g) /\ ClientUnchanged /\ UNCHANGED calls
                       \/ GetAnswered(g) \/ OrphanGetEnds(g))

AsyncSafety == AsyncInit /\ [][AsyncNext]_asyncVars

AsyncSpec == AsyncSafety /\ AsyncFairness

(***************************************************************************)
(* Properties that hold.                                                   *)
(***************************************************************************)

\* In one session the real server refines the open one RobotClient assumes:
\* GetActions returns chunks only for observations this client has sent.
ClientRefined == ClientInit /\ [][ClientNext]_clientVars

\* The actions a client is served come from the policy it asked for, whatever the
\* launch before it left running: SendPolicyInstructions is ignored while a reset
\* is under way, and a reset of the previous launch may still be.
PolicyOfSession ==
    \A g \in Getters : getCall = g /\ gpc[g] \in {"predict", "reply"} => policy = session

ReceiverEnded == rpc \in {"done", "dead"} \/ cpc \in {"stop", "close", "join", "exit"}

\* Work the server has accepted and not finished.
Pending == slots[queueObject] # None \/ \E g \in Getters : gobs[g] # None

\* An observation in the queue, or taken from it by GetActions, ends in a chunk
\* the client merges (or the client stops, or its receiver thread has died), if no
\* call fails, once the control loop sends no other: while it does, each new one
\* may displace the one before it, and a GetActions call may miss them all.
WorkAnswered ==
    [](Pending /\ [](cpc # "sending") /\ [](rpcFaults = 0)
           => <>(rpc = "arm" \/ ReceiverEnded))

\* The control loop, which calls SendObservations with no deadline, gets out of
\* the call as long as the receiver thread lives to empty the observation queue,
\* even when retried calls have left the queue contended.
SendEnds == cpc = "sending" ~> (cpc # "sending" \/ rpc = "dead")

(***************************************************************************)
(* What docs, comments and tests say, and the code does not do.            *)
(***************************************************************************)

\* test_policy_server.py: an observation with must_go set is always enqueued.
\* Its handler may not fail (no reset is in progress when the run checks this).
MustGoEnqueued == \A s \in Senders : spc[s] = "error" => ~sobs[s].mustGo

\* robot_client.py: a lock protects the operations on the action queue.  So the
\* receiver thread, which iterates over it, ends only once the channel is closed.
ReceiverSurvives == rpc = "dead" => ~channelOpen

==============================================================================
