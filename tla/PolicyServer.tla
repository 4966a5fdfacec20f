---------------------------- MODULE PolicyServer ----------------------------
(***************************************************************************)
(* The policy server of async_inference/policy_server.py: gRPC handlers on *)
(* a thread pool, which share the observation queue (one place), the set   *)
(* of timesteps already predicted, the observation processed last and the  *)
(* loaded policy.                                                          *)
(*                                                                         *)
(* Each action is one step of a handler between two points where another   *)
(* handler can run.  _reset_server replaces the queue and the set by new   *)
(* objects, and a handler that blocks on, or has taken a reference to, the *)
(* old one keeps it: an object is named by how many resets came before it. *)
(* A session, a launch of the client, calls Ready once.                    *)
(*                                                                         *)
(* Here handlers are called and answered by anyone; AsyncInference lets    *)
(* only the robot client call them.                                        *)
(***************************************************************************)
EXTENDS AsyncData

CONSTANTS
    Senders,     \* workers of the pool that run SendObservations
    Getters,     \* workers of the pool that run GetActions
    MaxFaults,   \* bound: how many inferences may raise an exception
    None         \* no observation

ASSUME ServerAssumption ==
    /\ MaxFaults \in Nat
    /\ None \notin Observations

Objects == 0 .. MaxSessions

VARIABLES
    shutdown,           \* shutdown_event is set
    queueObject,        \* which object self.observation_queue is
    slots,              \* what each queue object holds, an observation or None
    predictedObject,    \* which object self._predicted_timesteps is
    predicted,          \* the timesteps in each of those sets
    lastProcessed,      \* last_processed_obs
    policy,             \* the session whose policy is loaded, 0 for none
    readyPc,            \* where the handler of each session's Ready is
    spc, sobs, sref,    \* senders: where, their observation, the object they hold
    sprev,              \* senders: the previous observation they compare with
    gpc, gobs, gref,    \* getters: where, their observation, the queue they wait on
    faults              \* inferences that have raised so far

resettable == <<shutdown, queueObject, predictedObject>>
senderVars == <<spc, sobs, sref, sprev>>
getterVars == <<gpc, gobs, gref, faults>>
contents   == <<slots, predicted, lastProcessed>>
serverVars ==
    <<resettable, contents, policy, readyPc, senderVars, getterVars>>

ReadyPoints  == {"idle", "queue", "set", "clear", "reply", "done"}
SenderPoints ==
    {"idle", "receive", "check", "sanity", "full", "popold", "put", "blocked",
     "reply", "error"}
GetterPoints == {"idle", "wait", "mark", "prepare", "predict", "reply", "empty"}

ServerInit ==
    /\ shutdown = FALSE
    /\ queueObject = 0
    /\ slots = [o \in Objects |-> None]
    /\ predictedObject = 0
    /\ predicted = [o \in Objects |-> {}]
    /\ lastProcessed = None
    /\ policy = 0
    /\ readyPc = [n \in Sessions |-> "idle"]
    /\ spc = [s \in Senders |-> "idle"]
    /\ sobs = [s \in Senders |-> None]
    /\ sref = [s \in Senders |-> 0]
    /\ sprev = [s \in Senders |-> None]
    /\ gpc = [g \in Getters |-> "idle"]
    /\ gobs = [g \in Getters |-> None]
    /\ gref = [g \in Getters |-> 0]
    /\ faults = 0

(***************************************************************************)
(* Ready: _reset_server, then the shutdown event is cleared.               *)
(***************************************************************************)
NoHandlerStep == UNCHANGED <<senderVars, getterVars>>

ReadyTo(n, point) == readyPc' = [readyPc EXCEPT ![n] = point]

BeginReset(n) ==
    /\ readyPc[n] = "idle"
    /\ shutdown' = TRUE
    /\ ReadyTo(n, "queue")
    /\ UNCHANGED <<queueObject, predictedObject, contents, policy>> /\ NoHandlerStep

ReplaceQueue(n) ==
    /\ readyPc[n] = "queue"
    /\ queueObject' = queueObject + 1
    /\ ReadyTo(n, "set")
    /\ UNCHANGED <<shutdown, predictedObject, contents, policy>> /\ NoHandlerStep

ReplacePredicted(n) ==
    /\ readyPc[n] = "set"
    /\ predictedObject' = predictedObject + 1
    /\ ReadyTo(n, "clear")
    /\ UNCHANGED <<shutdown, queueObject, contents, policy>> /\ NoHandlerStep

EndReset(n) ==
    /\ readyPc[n] = "clear"
    /\ shutdown' = FALSE
    /\ ReadyTo(n, "reply")
    /\ UNCHANGED <<queueObject, predictedObject, contents, policy>> /\ NoHandlerStep

AnswerReady(n) ==
    /\ readyPc[n] = "reply"
    /\ ReadyTo(n, "done")
    /\ UNCHANGED <<resettable, contents, policy>> /\ NoHandlerStep

\* Mutant: a policy that is loaded already is not loaded again.
LoadPolicyOnce(n) ==
    /\ policy' = IF shutdown \/ policy # 0 THEN policy ELSE n
    /\ UNCHANGED <<resettable, contents, readyPc>> /\ NoHandlerStep

\* SendPolicyInstructions: ignored while a reset has the server not running.
LoadPolicy(n) ==
    /\ policy' = IF shutdown THEN policy ELSE n
    /\ UNCHANGED <<resettable, contents, readyPc>> /\ NoHandlerStep

(***************************************************************************)
(* SendObservations: receive the bytes, then _enqueue_observation.         *)
(***************************************************************************)
SenderStep == UNCHANGED <<resettable, policy, readyPc, getterVars>>

InvokeSend(s, o) ==
    /\ spc[s] = "idle"
    /\ spc' = [spc EXCEPT ![s] = "receive"]
    /\ sobs' = [sobs EXCEPT ![s] = o]
    /\ UNCHANGED <<contents, sref, sprev>> /\ SenderStep

\* receive_bytes_in_chunks gives up during a reset: loading None then raises.
ReceiveBytes(s) ==
    /\ spc[s] = "receive"
    /\ spc' = [spc EXCEPT ![s] = IF shutdown THEN "error" ELSE "check"]
    /\ UNCHANGED <<contents, sobs, sref, sprev>> /\ SenderStep

AcceptUnchecked(s) ==
    /\ spc[s] = "check"
    /\ sobs[s].mustGo \/ lastProcessed = None
    /\ spc' = [spc EXCEPT ![s] = "full"]
    /\ UNCHANGED <<contents, sobs, sref, sprev>> /\ SenderStep

\* The set is read under its lock, and looked into outside it.
BeginSanityChecks(s) ==
    /\ spc[s] = "check"
    /\ ~sobs[s].mustGo /\ lastProcessed # None
    /\ sprev' = [sprev EXCEPT ![s] = lastProcessed]
    /\ sref' = [sref EXCEPT ![s] = predictedObject]
    /\ spc' = [spc EXCEPT ![s] = "sanity"]
    /\ UNCHANGED <<contents, sobs>> /\ SenderStep

PassesSanityChecks(s) ==
    /\ sobs[s].timestep \notin predicted[sref[s]]
    /\ ~Similar(sobs[s], sprev[s])

FinishSanityChecks(s) ==
    /\ spc[s] = "sanity"
    /\ spc' = [spc EXCEPT ![s] = IF PassesSanityChecks(s) THEN "full" ELSE "reply"]
    /\ sprev' = [sprev EXCEPT ![s] = None]
    /\ sref' = [sref EXCEPT ![s] = 0]
    /\ UNCHANGED <<contents, sobs>> /\ SenderStep

TestFull(s) ==
    /\ spc[s] = "full"
    /\ spc' = [spc EXCEPT ![s] = IF slots[queueObject] # None THEN "popold" ELSE "put"]
    /\ UNCHANGED <<contents, sobs, sref, sprev>> /\ SenderStep

PopOldest(s) ==
    /\ spc[s] = "popold" /\ slots[queueObject] # None
    /\ slots' = [slots EXCEPT ![queueObject] = None]
    /\ spc' = [spc EXCEPT ![s] = "put"]
    /\ UNCHANGED <<predicted, lastProcessed, sobs, sref, sprev>> /\ SenderStep

\* get_nowait() raises Empty, and the handler with it: the call fails.
PopOldestRaises(s) ==
    /\ spc[s] = "popold" /\ slots[queueObject] = None
    /\ spc' = [spc EXCEPT ![s] = "error"]
    /\ UNCHANGED <<contents, sobs, sref, sprev>> /\ SenderStep

PutObservation(s) ==
    /\ spc[s] = "put" /\ slots[queueObject] = None
    /\ slots' = [slots EXCEPT ![queueObject] = sobs[s]]
    /\ spc' = [spc EXCEPT ![s] = "reply"]
    /\ UNCHANGED <<predicted, lastProcessed, sobs, sref, sprev>> /\ SenderStep

PutBlocks(s) ==
    /\ spc[s] = "put" /\ slots[queueObject] # None
    /\ sref' = [sref EXCEPT ![s] = queueObject]
    /\ spc' = [spc EXCEPT ![s] = "blocked"]
    /\ UNCHANGED <<contents, sobs, sprev>> /\ SenderStep

PutUnblocks(s) ==
    /\ spc[s] = "blocked" /\ slots[sref[s]] = None
    /\ slots' = [slots EXCEPT ![sref[s]] = sobs[s]]
    /\ sref' = [sref EXCEPT ![s] = 0]
    /\ spc' = [spc EXCEPT ![s] = "reply"]
    /\ UNCHANGED <<predicted, lastProcessed, sobs, sprev>> /\ SenderStep

\* The handler ends, with an answer or with an exception.
EndSend(s) ==
    /\ spc[s] \in {"reply", "error"}
    /\ spc' = [spc EXCEPT ![s] = "idle"]
    /\ sobs' = [sobs EXCEPT ![s] = None]
    /\ UNCHANGED <<contents, sref, sprev>> /\ SenderStep

(***************************************************************************)
(* GetActions: take an observation, mark its timestep as predicted, run    *)
(* the policy on it.  Every exception is answered by Empty.                *)
(***************************************************************************)
GetterStep == UNCHANGED <<resettable, policy, readyPc, senderVars>>

InvokeGet(g) ==
    /\ gpc[g] = "idle"
    /\ gpc' = [gpc EXCEPT ![g] = "wait"]
    /\ gref' = [gref EXCEPT ![g] = queueObject]
    /\ UNCHANGED <<contents, gobs, faults>> /\ GetterStep

\* Mutant: the observation is looked at, and left in the queue.
PeekObservation(g) ==
    /\ gpc[g] = "wait" /\ slots[gref[g]] # None
    /\ gobs' = [gobs EXCEPT ![g] = slots[gref[g]]]
    /\ gref' = [gref EXCEPT ![g] = 0]
    /\ gpc' = [gpc EXCEPT ![g] = "mark"]
    /\ UNCHANGED <<contents, faults>> /\ GetterStep

TakeObservation(g) ==
    /\ gpc[g] = "wait" /\ slots[gref[g]] # None
    /\ gobs' = [gobs EXCEPT ![g] = slots[gref[g]]]
    /\ slots' = [slots EXCEPT ![gref[g]] = None]
    /\ gref' = [gref EXCEPT ![g] = 0]
    /\ gpc' = [gpc EXCEPT ![g] = "mark"]
    /\ UNCHANGED <<predicted, lastProcessed, faults>> /\ GetterStep

\* obs_queue_timeout has passed.
GetTimesOut(g) ==
    /\ gpc[g] = "wait" /\ slots[gref[g]] = None
    /\ gref' = [gref EXCEPT ![g] = 0]
    /\ gpc' = [gpc EXCEPT ![g] = "empty"]
    /\ UNCHANGED <<contents, gobs, faults>> /\ GetterStep

MarkPredicted(g) ==
    /\ gpc[g] = "mark"
    /\ predicted' = [predicted EXCEPT ![predictedObject] = @ \cup {gobs[g].timestep}]
    /\ gpc' = [gpc EXCEPT ![g] = "prepare"]
    /\ UNCHANGED <<slots, lastProcessed, gobs, gref, faults>> /\ GetterStep

\* Prepare and preprocess, which needs a policy; then last_processed_obs is set.
Preprocess(g) ==
    /\ gpc[g] = "prepare" /\ policy # 0
    /\ lastProcessed' = gobs[g]
    /\ gpc' = [gpc EXCEPT ![g] = "predict"]
    /\ UNCHANGED <<slots, predicted, gobs, gref, faults>> /\ GetterStep

Predict(g) ==
    /\ gpc[g] = "predict"
    /\ gpc' = [gpc EXCEPT ![g] = "reply"]
    /\ UNCHANGED <<contents, gobs, gref, faults>> /\ GetterStep

\* Also for want of a policy: policy_image_features then raises AttributeError.
InferenceRaises(g) ==
    /\ gpc[g] \in {"prepare", "predict"}
    /\ policy = 0 \/ faults < MaxFaults
    /\ faults' = IF policy = 0 THEN faults ELSE faults + 1
    /\ gpc' = [gpc EXCEPT ![g] = "empty"]
    /\ UNCHANGED <<contents, gobs, gref>> /\ GetterStep

\* The handler ends: in "reply" with the chunk for gobs[g], in "empty" with Empty.
EndGet(g) ==
    /\ gpc[g] \in {"reply", "empty"}
    /\ gpc' = [gpc EXCEPT ![g] = "idle"]
    /\ gobs' = [gobs EXCEPT ![g] = None]
    /\ UNCHANGED <<contents, gref, faults>> /\ GetterStep

------------------------------------------------------------------------------
ResetStep(n) == ReplaceQueue(n) \/ ReplacePredicted(n) \/ EndReset(n)

EnqueueStep(s) ==
    \/ ReceiveBytes(s)
    \/ AcceptUnchecked(s) \/ BeginSanityChecks(s) \/ FinishSanityChecks(s)
    \/ TestFull(s) \/ PopOldest(s) \/ PopOldestRaises(s)
    \/ PutObservation(s) \/ PutBlocks(s) \/ PutUnblocks(s)

InferStep(g) ==
    \/ TakeObservation(g) \/ GetTimesOut(g)
    \/ MarkPredicted(g) \/ Preprocess(g) \/ Predict(g) \/ InferenceRaises(g)

\* The steps handlers take on their own, once called.
ServerLocal ==
    \/ \E n \in Sessions : ResetStep(n)
    \/ \E s \in Senders : EnqueueStep(s)
    \/ \E g \in Getters : InferStep(g)

ServerNext ==
    \/ ServerLocal
    \/ \E n \in Sessions : BeginReset(n) \/ AnswerReady(n) \/ LoadPolicy(n)
    \/ \E s \in Senders : EndSend(s) \/ \E o \in Observations : InvokeSend(s, o)
    \/ \E g \in Getters : EndGet(g) \/ InvokeGet(g)

ServerFairness ==
    /\ \A n \in Sessions : WF_serverVars(ResetStep(n))
    /\ \A s \in Senders : WF_serverVars(EnqueueStep(s))
    /\ \A g \in Getters : WF_serverVars(InferStep(g))

ServerSpec == ServerInit /\ [][ServerNext]_serverVars /\ ServerFairness

(***************************************************************************)
(* Properties.                                                             *)
(***************************************************************************)

\* Every variable keeps to the values policy_server.py gives it.
ServerTypeOK ==
    /\ shutdown \in BOOLEAN
    /\ queueObject \in Objects /\ predictedObject \in Objects
    /\ slots \in [Objects -> Observations \cup {None}]
    /\ predicted \in [Objects -> SUBSET (0 .. Horizon)]
    /\ lastProcessed \in Observations \cup {None}
    /\ policy \in 0 .. MaxSessions
    /\ readyPc \in [Sessions -> ReadyPoints]
    /\ spc \in [Senders -> SenderPoints]
    /\ sobs \in [Senders -> Observations \cup {None}]
    /\ sref \in [Senders -> Objects]
    /\ sprev \in [Senders -> Observations \cup {None}]
    /\ gpc \in [Getters -> GetterPoints]
    /\ gobs \in [Getters -> Observations \cup {None}]
    /\ gref \in [Getters -> Objects]
    /\ faults \in 0 .. MaxFaults

==============================================================================
