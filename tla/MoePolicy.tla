------------------------------- MODULE MoePolicy -------------------------------
(***************************************************************************)
(* The mixture-of-experts action head of Pi0 (policies/smolvla/moe.py and  *)
(* policies/pi0/modeling_pi0.py) while a run trains it and, every now and  *)
(* then, evaluates it.  Routing decisions and auxiliary losses travel      *)
(* through attributes of the modules: a router writes its decision into    *)
(* every layer, each layer leaves its auxiliary data on its adapter, and   *)
(* the backward pass of a checkpointed run calls the layers again.         *)
(*                                                                         *)
(* One policy object is shared by the training thread and the evaluation   *)
(* tasks, which run one after another or on a pool of threads.  A tensor   *)
(* computed for a batch is the number of the call it was computed in.      *)
(***************************************************************************)
EXTENDS Integers, Sequences, FiniteSets

CONSTANTS
    Tasks,        \* evaluation tasks
    Layers,       \* layers of the action expert
    DenoiseSteps, \* num_inference_steps
    NActionSteps, \* n_action_steps
    MaxCalls,     \* bound: training forwards and chunk predictions
    None          \* Python's None

Trainer == "trainer"

ASSUME MoeAssumption ==
    /\ Trainer \notin Tasks
    /\ Layers \in Nat \ {0}
    /\ DenoiseSteps \in Nat \ {0}
    /\ NActionSteps \in Nat \ {0}
    /\ MaxCalls \in Nat

Threads == Tasks \cup {Trainer}
LayerIds == 1 .. Layers
Calls == 1 .. MaxCalls

VARIABLES
    whole,         \* moe_whole_expert: one global router, or one in each layer
    checkpointing, \* gradient_checkpointing
    labelled,      \* the batches carry a task_index
    parallel,      \* max_parallel_tasks > 1
    lastAux,       \* last_aux of each layer's adapter
    auxData,       \* _last_moe_aux_data
    routing,       \* the expert assignment stored in each layer
    routerAux,     \* _last_router_aux
    taskIndex,     \* _current_task_index, as the training thread sees it
    actionQueue,   \* _action_queue of the policy
    calls,         \* calls made so far
    pc, layer, call, step,  \* where each thread is
    executed,      \* the action each task executed last (history)
    used           \* the assignments each thread's call has used (history)

config  == <<whole, checkpointing, labelled, parallel>>
modules == <<lastAux, auxData, routing, routerAux>>
vars == <<config, modules, taskIndex, actionQueue, calls, pc, layer, call, step,
          executed, used>>

NoAux == [l \in LayerIds |-> None]

Init ==
    /\ whole \in BOOLEAN /\ checkpointing \in BOOLEAN
    /\ labelled \in BOOLEAN /\ parallel \in BOOLEAN
    /\ lastAux = NoAux /\ auxData = <<>>
    /\ routing = [l \in LayerIds |-> None] /\ routerAux = None
    /\ taskIndex = None /\ actionQueue = <<>>
    /\ calls = 0
    /\ pc = [t \in Threads |-> "idle"]
    /\ layer = [t \in Threads |-> 1]
    /\ call = [t \in Threads |-> 0]
    /\ step = [t \in Threads |-> 0]
    /\ executed = [t \in Tasks |-> None]
    /\ used = [t \in Threads |-> {}]

Goto(t, where) == pc' = [pc EXCEPT ![t] = where]

\* The next pass over the layers starts at the first.
FirstLayer(t) == layer' = [layer EXCEPT ![t] = 1]
NextLayer(t) == layer' = [layer EXCEPT ![t] = @ + 1]

NewCall(t) ==
    /\ calls < MaxCalls
    /\ calls' = calls + 1
    /\ call' = [call EXCEPT ![t] = calls + 1]
    /\ used' = [used EXCEPT ![t] = {}]

(***************************************************************************)
(* _route_whole_experts: the layers are told one after another.            *)
(***************************************************************************)
RouteUnchanged ==
    UNCHANGED <<config, lastAux, auxData, taskIndex, actionQueue, calls, call, step,
                executed, used>>

NoRouter(t) ==
    /\ pc[t] = "route" /\ ~whole
    /\ routerAux' = None
    /\ Goto(t, "reset")
    /\ UNCHANGED <<routing, layer>> /\ RouteUnchanged

\* Mutant: a layer that has an assignment keeps it.
SetRoutingOnce(l, c) == IF routing[l] = None THEN c ELSE routing[l]

SetRouting(l, c) == c

RouteLayer(t) ==
    /\ pc[t] = "route" /\ whole /\ layer[t] \in LayerIds
    /\ routing' = [routing EXCEPT ![layer[t]] = SetRouting(layer[t], call[t])]
    /\ NextLayer(t)
    /\ UNCHANGED <<routerAux, pc>> /\ RouteUnchanged

\* Mutant: the losses of the first batch are kept.
StashRouterAuxOnce(t) ==
    /\ pc[t] = "route" /\ whole /\ layer[t] = Layers + 1
    /\ routerAux' = IF routerAux = None THEN call[t] ELSE routerAux
    /\ FirstLayer(t)
    /\ Goto(t, "reset")
    /\ UNCHANGED routing /\ RouteUnchanged

StashRouterAux(t) ==
    /\ pc[t] = "route" /\ whole /\ layer[t] = Layers + 1
    /\ routerAux' = call[t]
    /\ FirstLayer(t)
    /\ Goto(t, "reset")
    /\ UNCHANGED routing /\ RouteUnchanged

(***************************************************************************)
(* PaliGemmaWithExpertModel.forward: reset the auxiliary data, run the     *)
(* layers, collect.                                                        *)
(***************************************************************************)
ForwardUnchanged ==
    UNCHANGED <<config, routing, routerAux, actionQueue, calls, call, executed>>

\* Mutant: what was collected before is kept.
ResetDataOf(data) == data

ResetData(data) == <<>>

\* The three paths through forward: the prefix alone, which no expert layer
\* sees; the suffix alone, once for every denoising step; and both, to train.
ResetAux(t) ==
    /\ pc[t] \in {"prefix", "reset", "backward"}
    /\ auxData' = ResetData(auxData)
    /\ lastAux' = NoAux
    /\ FirstLayer(t)
    /\ Goto(t, CASE pc[t] = "prefix" -> "route"
                 [] pc[t] = "reset" -> "layers"
                 [] pc[t] = "backward" -> "recompute")
    /\ UNCHANGED <<taskIndex, step, used>> /\ ForwardUnchanged

\* A thread of the pool has a context of its own, in which no task is set.
TaskSeenBy(t) == IF t = Trainer THEN taskIndex ELSE None

\* A whole-expert layer uses the assignment it was given.
UseExperts(t, l) ==
    /\ used' = [used EXCEPT ![t] = @ \cup {routing[l]}]
    /\ UNCHANGED lastAux

\* A layer with its own router leaves its losses on its adapter, with the task
\* loss if a task is set.
LeaveLosses(t, l) ==
    /\ lastAux' = [lastAux EXCEPT ![l] =
                     [layer |-> l, call |-> call[t], task |-> TaskSeenBy(t)]]
    /\ UNCHANGED used

RunMlp(t, l) == IF whole THEN UseExperts(t, l) ELSE LeaveLosses(t, l)

RunLayer(t) ==
    /\ pc[t] \in {"layers", "recompute"} /\ layer[t] \in LayerIds
    /\ RunMlp(t, layer[t])
    /\ NextLayer(t)
    /\ UNCHANGED <<auxData, taskIndex, step, pc>> /\ ForwardUnchanged

Collected ==
    LET left(l) == IF lastAux[l] = None THEN <<>> ELSE <<lastAux[l]>>
        upTo[l \in 0 .. Layers] == IF l = 0 THEN <<>> ELSE upTo[l - 1] \o left(l)
    IN  upTo[Layers]

CollectAux(t) ==
    /\ t = Trainer /\ pc[t] = "layers" /\ layer[t] = Layers + 1
    /\ auxData' = auxData \o Collected
    /\ Goto(t, "aggregate")
    /\ UNCHANGED <<lastAux, taskIndex, step, layer, used>> /\ ForwardUnchanged

(***************************************************************************)
(* update_policy: forward, aggregate the losses, backward.                 *)
(***************************************************************************)
BeginForward ==
    /\ pc[Trainer] = "idle"
    /\ NewCall(Trainer)
    /\ taskIndex' = IF labelled THEN calls + 1 ELSE None
    /\ FirstLayer(Trainer)
    /\ Goto(Trainer, "route")
    /\ UNCHANGED <<config, modules, actionQueue, step, executed>>

\* The finally clause clears the task; checkpointed layers run again.
AggregateLosses ==
    /\ pc[Trainer] = "aggregate"
    /\ taskIndex' = None
    /\ Goto(Trainer, IF checkpointing THEN "backward" ELSE "idle")
    /\ UNCHANGED <<lastAux, auxData, step, layer, used>> /\ ForwardUnchanged

\* torch.utils.checkpoint calls forward_func again for the backward pass, and
\* within it each layer once more, from the last to the first.  It may stop
\* before it collects.
BeginReverse ==
    /\ pc[Trainer] = "recompute" /\ layer[Trainer] = Layers + 1
    /\ auxData' \in {auxData, auxData \o Collected}
    /\ layer' = [layer EXCEPT ![Trainer] = Layers]
    /\ Goto(Trainer, "reverse")
    /\ UNCHANGED <<lastAux, taskIndex, step, used>> /\ ForwardUnchanged

\* The task is cleared by now, and a layer that left a task loss leaves none
\* when it runs again: torch finds fewer tensors than the forward saved.  It
\* does not look in a compiled model.
RecomputeRaises ==
    /\ pc[Trainer] = "recompute" /\ layer[Trainer] = Layers + 1
    /\ labelled /\ \E l \in LayerIds : lastAux[l] # None /\ lastAux[l].task = None
    /\ Goto(Trainer, "failed")
    /\ UNCHANGED <<lastAux, auxData, taskIndex, step, layer, used>> /\ ForwardUnchanged

RerunLayer ==
    /\ pc[Trainer] = "reverse" /\ layer[Trainer] \in LayerIds
    /\ RunMlp(Trainer, layer[Trainer])
    /\ layer' = [layer EXCEPT ![Trainer] = @ - 1]
    /\ UNCHANGED <<auxData, taskIndex, step, pc>> /\ ForwardUnchanged

OptimizerStep ==
    /\ pc[Trainer] = "reverse" /\ layer[Trainer] = 0
    /\ Goto(Trainer, "idle")
    /\ UNCHANGED <<lastAux, auxData, taskIndex, step, layer, used>> /\ ForwardUnchanged

(***************************************************************************)
(* eval_policy_all and rollout, select_action and sample_actions.          *)
(***************************************************************************)
EvalUnchanged == UNCHANGED <<config, modules, taskIndex>>

BeginEval ==
    /\ pc[Trainer] = "idle"
    /\ Goto(Trainer, "evaluating")
    /\ UNCHANGED <<actionQueue, calls, layer, call, step, executed, used>> /\ EvalUnchanged

\* Mutant: a rollout starts with the actions the last one left.
ResetPolicyKeepingQueue(w) ==
    /\ pc[Trainer] = "evaluating" /\ pc[w] = "idle"
    /\ ~parallel => \A v \in Tasks : pc[v] = "idle"
    /\ executed' = [executed EXCEPT ![w] = None]
    /\ Goto(w, "select")
    /\ UNCHANGED <<actionQueue, calls, layer, call, step, used>> /\ EvalUnchanged

\* Tasks run one at a time, or as the pool has threads for them.
ResetPolicy(w) ==
    /\ pc[Trainer] = "evaluating" /\ pc[w] = "idle"
    /\ ~parallel => \A v \in Tasks : pc[v] = "idle"
    /\ actionQueue' = <<>>
    /\ executed' = [executed EXCEPT ![w] = None]
    /\ Goto(w, "select")
    /\ UNCHANGED <<calls, layer, call, step, used>> /\ EvalUnchanged

SelectPredicts(w) ==
    /\ pc[w] = "select" /\ actionQueue = <<>>
    /\ NewCall(w)
    /\ step' = [step EXCEPT ![w] = 0]
    /\ Goto(w, "prefix")
    /\ UNCHANGED <<actionQueue, layer, executed>> /\ EvalUnchanged

SelectQueued(w) ==
    /\ pc[w] = "select" /\ actionQueue # <<>>
    /\ Goto(w, "pop")
    /\ UNCHANGED <<actionQueue, calls, layer, call, step, executed, used>> /\ EvalUnchanged

EndDenoiseStep(w) ==
    /\ w \in Tasks /\ pc[w] = "layers" /\ layer[w] = Layers + 1
    /\ step' = [step EXCEPT ![w] = @ + 1]
    /\ Goto(w, IF step[w] + 1 < DenoiseSteps THEN "reset" ELSE "extend")
    /\ UNCHANGED <<lastAux, auxData, taskIndex, layer, used>> /\ ForwardUnchanged

\* A deque that is full drops its oldest entries.
LastOf(s) == IF Len(s) <= NActionSteps THEN s ELSE SubSeq(s, Len(s) - NActionSteps + 1, Len(s))

ExtendQueue(w) ==
    /\ pc[w] = "extend"
    /\ actionQueue' = LastOf(actionQueue \o [i \in 1 .. NActionSteps |-> [call |-> call[w], index |-> i]])
    /\ Goto(w, "pop")
    /\ UNCHANGED <<calls, layer, call, step, executed, used>> /\ EvalUnchanged

PopAction(w) ==
    /\ pc[w] = "pop" /\ actionQueue # <<>>
    /\ executed' = [executed EXCEPT ![w] = Head(actionQueue)]
    /\ actionQueue' = Tail(actionQueue)
    /\ Goto(w, "select")
    /\ UNCHANGED <<calls, layer, call, step, used>> /\ EvalUnchanged

\* IndexError: another task has taken the action.
PopRaises(w) ==
    /\ pc[w] = "pop" /\ actionQueue = <<>>
    /\ Goto(w, "failed")
    /\ UNCHANGED <<actionQueue, calls, layer, call, step, executed, used>> /\ EvalUnchanged

EndRollout(w) ==
    /\ pc[w] = "select"
    /\ Goto(w, "idle")
    /\ UNCHANGED <<actionQueue, calls, layer, call, step, executed, used>> /\ EvalUnchanged

\* The pool waits for every task; then result() raises what a task raised.
EndEval ==
    /\ pc[Trainer] = "evaluating"
    /\ \A w \in Tasks : pc[w] \in {"idle", "failed"}
    /\ Goto(Trainer, IF \E w \in Tasks : pc[w] = "failed" THEN "failed" ELSE "idle")
    /\ UNCHANGED <<actionQueue, calls, layer, call, step, executed, used>> /\ EvalUnchanged

\* The exception ends the program.
Ended == pc[Trainer] = "failed" /\ UNCHANGED vars

Next ==
    \/ BeginForward \/ AggregateLosses \/ BeginReverse \/ RecomputeRaises
    \/ RerunLayer \/ OptimizerStep
    \/ BeginEval \/ EndEval \/ Ended
    \/ \E t \in Threads :
         NoRouter(t) \/ RouteLayer(t) \/ StashRouterAux(t) \/ ResetAux(t) \/ RunLayer(t)
         \/ CollectAux(t)
    \/ \E w \in Tasks :
         ResetPolicy(w) \/ SelectPredicts(w) \/ SelectQueued(w) \/ EndDenoiseStep(w)
         \/ ExtendQueue(w) \/ PopAction(w) \/ PopRaises(w) \/ EndRollout(w)

Spec == Init /\ [][Next]_vars

(***************************************************************************)
(* Properties.                                                             *)
(***************************************************************************)
Actions == [call : Calls, index : 1 .. NActionSteps]
Auxes == [layer : LayerIds, call : Calls, task : Calls \cup {None}]

\* None is no action, nor is it auxiliary data.
ASSUME NoneAssumption == None \notin Actions \cup Auxes

\* Every variable keeps to the values the code gives it; the auxiliary data
\* never exceed one entry for each layer.
MoeTypeOK ==
    /\ whole \in BOOLEAN /\ checkpointing \in BOOLEAN
    /\ labelled \in BOOLEAN /\ parallel \in BOOLEAN
    /\ lastAux \in [LayerIds -> Auxes \cup {None}]
    /\ auxData \in Seq(Auxes) /\ Len(auxData) <= Layers
    /\ routing \in [LayerIds -> Calls \cup {None}]
    /\ routerAux \in Calls \cup {None}
    /\ taskIndex \in Calls \cup {None}
    /\ actionQueue \in Seq(Actions) /\ Len(actionQueue) <= NActionSteps
    /\ calls \in 0 .. MaxCalls
    /\ pc \in [Threads -> {"idle", "route", "reset", "layers", "aggregate", "backward",
                           "recompute", "reverse", "evaluating", "select", "prefix",
                           "extend", "pop", "failed"}]
    /\ layer \in [Threads -> 0 .. Layers + 1]
    /\ call \in [Threads -> 0 .. MaxCalls]
    /\ step \in [Threads -> 0 .. DenoiseSteps]
    /\ executed \in [Tasks -> Actions \cup {None}]
    /\ used \in [Threads -> SUBSET (Calls \cup {None})]

\* The auxiliary losses of a training step are those of its batch: from the
\* router if there is one; else one entry for each layer, at the layer's own
\* place, by which the discriminator knows the layer, with the task loss if the
\* batch names its tasks.  What evaluations and backward passes left between
\* two steps does not get in.
LossesOfThisBatch ==
    pc[Trainer] = "aggregate" =>
        LET c == call[Trainer] IN
        IF whole
        THEN routerAux = c /\ auxData = <<>>
        ELSE /\ routerAux = None
             /\ auxData = [l \in LayerIds |->
                             [layer |-> l, call |-> c, task |-> IF labelled THEN c ELSE None]]

\* Every layer, at every denoising step and again in the backward pass, uses the
\* experts chosen once for the call it serves.
OneAssignment == \A t \in Threads : used[t] \subseteq {call[t]}

\* So it is when tasks are evaluated one at a time.
OneAssignmentAlone == ~parallel => OneAssignment

\* Evaluated one at a time, a task executes whole chunks in order, each
\* predicted in its own rollout: nothing is left over from another.
OwnActions ==
    \A w \in Tasks :
        executed'[w] \notin {None, executed[w]} /\ ~parallel =>
            /\ executed'[w].call = call[w]
            /\ executed'[w].index =
                 IF executed[w] = None \/ executed[w].index = NActionSteps
                 THEN 1
                 ELSE executed[w].index + 1

ExecutesOwnActions == [][OwnActions]_vars
==============================================================================
