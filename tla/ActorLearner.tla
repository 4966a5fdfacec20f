----------------------------- MODULE ActorLearner -----------------------------
(***************************************************************************)
(* The actor and the learner of rl/, in two processes, and the three gRPC  *)
(* streams between them (transport/utils.py): the actor streams the        *)
(* transitions of every finished episode and a message about it, the       *)
(* learner streams the parameters of its policy.  Each end of a stream is  *)
(* a queue; a payload crosses in chunks, which the receiver puts together. *)
(* Either process may be told to stop; the actor may die and be started    *)
(* again.  The messages about episodes, which the learner logs, are left   *)
(* out: their stream is called, holds a worker and ends.                   *)
(*                                                                         *)
(* A transition is <<run of the actor, interaction step>>, parameters are  *)
(* numbered as the learner pushes them.  gRPC is modelled as rl/ uses it:  *)
(* a stream needs a worker of the learner's pool from call to end; the     *)
(* handler of StreamParameters learns that its caller has gone only when   *)
(* it next yields.                                                         *)
(***************************************************************************)
EXTENDS Naturals, Sequences, SequencesExt, FiniteSets

CONSTANTS
    OnlineSteps,    \* online_steps of the actor
    BeforeLearning, \* online_step_before_learning
    MaxWorkers,     \* MAX_WORKERS of the learner's pool
    MaxParts,       \* bound: chunks of a payload
    MaxVersions,    \* bound: parameters pushed
    MaxLinkFaults   \* bound: signals, and actors that die

ASSUME LinkAssumption ==
    /\ OnlineSteps \in Nat \ {0} /\ BeforeLearning \in Nat
    /\ MaxWorkers \in Nat \ {0} /\ MaxParts \in Nat \ {0}
    /\ MaxVersions \in Nat \ {0} /\ MaxLinkFaults \in Nat

VARIABLES
    threads,   \* use_threads: the actor's streams are threads, not processes
    actorPc, run, interactionStep,
    episode,   \* list_transition_to_send_to_learner
    loaded,    \* the parameters of the actor's policy
    actorShutdown,
    closed,    \* the actor has closed its queues
    outbox,    \* transitions_queue of the actor
    call,      \* stream -> where its call is
    chunks,    \* stream -> chunks of its payload not yet sent
    received,  \* stream -> bytes_buffer of its receiver
    inbox,     \* stream -> the queue of its receiver
    learnerPc, learnerShutdown, served,
    parametersQueue, \* of the learner
    version,   \* the parameters last pushed
    orphans,   \* StreamParameters handlers whose caller has gone
    stored,    \* transitions in the replay buffer
    linkFaults, \* signals, and actors that have died
    newest     \* the newest parameters to reach this actor (history)

actorVars   == <<threads, actorPc, run, interactionStep, episode, loaded, actorShutdown, closed, newest>>
streamVars  == <<call, chunks, received, inbox>>
learnerVars == <<learnerPc, learnerShutdown, served, parametersQueue, version, stored>>
linkVars    == <<actorVars, outbox, streamVars, learnerVars, orphans, linkFaults>>

Senders == {"transitions", "interactions"}
Streams == Senders \cup {"parameters"}

(***************************************************************************)
(* Chunks of a payload.                                                    *)
(***************************************************************************)

\* send_bytes_in_chunks: the last chunk is END even when it is the only one.
TransferState(part, n) ==
    IF part = n THEN "end" ELSE IF part = 1 THEN "begin" ELSE "middle"

SendBytesInChunks(body, n) ==
    [part \in 1 .. n |-> [body |-> body, part |-> part, of |-> n, state |-> TransferState(part, n)]]

\* Mutant: END leaves the buffer as it is.
ReceiveKeepingBytes(s, chunk) ==
    LET bytes == Append(IF chunk.state = "begin" THEN <<>> ELSE received[s], chunk)
    IN  /\ received' = [received EXCEPT ![s] = bytes]
        /\ inbox' = IF chunk.state = "end" THEN [inbox EXCEPT ![s] = Append(@, bytes)] ELSE inbox

\* receive_bytes_in_chunks: BEGIN empties the buffer, END puts it in the queue.
ReceiveBytes(s, chunk) ==
    LET bytes == Append(IF chunk.state = "begin" THEN <<>> ELSE received[s], chunk)
    IN  IF chunk.state = "end"
        THEN /\ received' = [received EXCEPT ![s] = <<>>]
             /\ inbox' = [inbox EXCEPT ![s] = Append(@, bytes)]
        ELSE /\ received' = [received EXCEPT ![s] = bytes]
             /\ UNCHANGED inbox

Garbled == << <<0, 0>> >>

\* What was sent, if the bytes are all of it and nothing else.
Decoded(bytes) ==
    IF bytes = SendBytesInChunks(bytes[1].body, bytes[1].of) THEN bytes[1].body ELSE Garbled

------------------------------------------------------------------------------
OnStreams(value) == [s \in Streams |-> value]

LinkInit ==
    /\ threads \in BOOLEAN
    /\ actorPc = "ready" /\ run = 1 /\ interactionStep = 0 /\ episode = <<>>
    /\ loaded = 0 /\ newest = 0 /\ actorShutdown = FALSE /\ closed = FALSE
    /\ outbox = <<>>
    /\ call = OnStreams("none") /\ chunks = OnStreams(<<>>)
    /\ received = OnStreams(<<>>) /\ inbox = OnStreams(<<>>)
    /\ learnerPc = "transitions" /\ learnerShutdown = FALSE /\ served = TRUE
    /\ parametersQueue = <<1>> /\ version = 1 /\ orphans = 0 /\ stored = <<>>
    /\ linkFaults = 0

\* Handlers that hold a worker of the pool.
Busy == orphans + Cardinality({s \in Streams : call[s] = "up"})

\* A call is over, with whatever it had not delivered.
EndCall(s) ==
    /\ call' = [call EXCEPT ![s] = "ended"]
    /\ chunks' = [chunks EXCEPT ![s] = <<>>]
    /\ received' = [received EXCEPT ![s] = <<>>]

(***************************************************************************)
(* The actor's own thread.                                                 *)
(***************************************************************************)

\* Ready is answered, and the three streams are started.
EstablishConnection ==
    /\ actorPc = "ready" /\ served /\ Busy < MaxWorkers /\ ~actorShutdown
    /\ actorPc' = "act"
    /\ call' = OnStreams("called")
    /\ UNCHANGED <<threads, run, interactionStep, episode, loaded, actorShutdown, closed, newest,
                   outbox, chunks, received, inbox, learnerVars, orphans, linkFaults>>

\* It is told to stop before, or the learner does not answer.
ConnectionFails ==
    /\ actorPc = "ready" /\ (actorShutdown \/ ~served)
    /\ actorPc' = "left"
    /\ UNCHANGED <<threads, run, interactionStep, episode, loaded, actorShutdown, closed, newest,
                   outbox, streamVars, learnerVars, orphans, linkFaults>>

\* Mutant: the first of the parameters received is loaded.
UpdateWithFirst ==
    /\ loaded' = IF inbox["parameters"] = <<>> THEN loaded
                 ELSE Head(Decoded(Head(inbox["parameters"])))[2]
    /\ inbox' = [inbox EXCEPT !["parameters"] = IF @ = <<>> THEN @ ELSE Tail(@)]

\* get_last_item_from_queue: the last of the parameters received, and no other.
UpdatePolicyParameters ==
    /\ loaded' = IF inbox["parameters"] = <<>> THEN loaded
                 ELSE Head(Decoded(Last(inbox["parameters"])))[2]
    /\ inbox' = [inbox EXCEPT !["parameters"] = <<>>]

\* A step of the environment; at the end of an episode the policy is updated.
ActStep(ends) ==
    /\ actorPc = "act" /\ ~actorShutdown /\ interactionStep < OnlineSteps
    /\ interactionStep' = interactionStep + 1
    /\ episode' = Append(episode, <<run, interactionStep + 1>>)
    /\ IF ends
       THEN actorPc' = "push" /\ UpdatePolicyParameters
       ELSE UNCHANGED <<actorPc, loaded, inbox>>
    /\ UNCHANGED <<threads, run, actorShutdown, closed, newest, outbox,
                   call, chunks, received, learnerVars, orphans, linkFaults>>

\* push_transitions_to_transport_queue: the list of the whole episode.
PushEpisode ==
    /\ actorPc = "push"
    /\ outbox' = Append(outbox, episode)
    /\ episode' = <<>> /\ actorPc' = "act"
    /\ UNCHANGED <<threads, run, interactionStep, loaded, actorShutdown, closed, newest,
                   streamVars, learnerVars, orphans, linkFaults>>

\* act_with_policy returns, and the queues are closed: what is left of an
\* unfinished episode is never sent.
CloseQueues ==
    /\ actorPc = "act" /\ (actorShutdown \/ interactionStep = OnlineSteps)
    /\ actorPc' = "join" /\ closed' = TRUE
    /\ UNCHANGED <<threads, run, interactionStep, episode, loaded, actorShutdown, newest,
                   outbox, streamVars, learnerVars, orphans, linkFaults>>

JoinStreams ==
    /\ actorPc = "join" /\ \A s \in Streams : call[s] = "ended"
    /\ actorPc' = "left"
    /\ UNCHANGED <<threads, run, interactionStep, episode, loaded, actorShutdown, closed, newest,
                   outbox, streamVars, learnerVars, orphans, linkFaults>>

(***************************************************************************)
(* The streams.                                                            *)
(***************************************************************************)

\* A worker of the learner's pool takes the call.
StartCall(s) ==
    /\ call[s] = "called" /\ served /\ Busy < MaxWorkers
    /\ call' = [call EXCEPT ![s] = "up"]
    /\ UNCHANGED <<actorVars, outbox, chunks, received, inbox, learnerVars, orphans, linkFaults>>

\* The learner's server has stopped: calls end with an RpcError.
CallFails(s) ==
    /\ call[s] \in {"called", "up"} /\ ~served
    /\ EndCall(s)
    /\ UNCHANGED <<actorVars, outbox, inbox, learnerVars, orphans, linkFaults>>

\* transitions_stream: the next message, cut into chunks.
GetMessage(parts) ==
    /\ call["transitions"] = "up" /\ chunks["transitions"] = <<>> /\ ~actorShutdown
    /\ ~(threads /\ closed) /\ outbox # <<>>
    /\ chunks' = [chunks EXCEPT !["transitions"] = SendBytesInChunks(Head(outbox), parts)]
    /\ outbox' = Tail(outbox)
    /\ UNCHANGED <<actorVars, call, received, inbox, learnerVars, orphans, linkFaults>>

\* Mutant: the generator returns when get finds nothing.
StreamEndsEmpty(s) ==
    /\ call[s] = "up" /\ chunks[s] = <<>>
    /\ actorShutdown \/ (threads /\ closed) \/ outbox = <<>>
    /\ EndCall(s)
    /\ UNCHANGED <<actorVars, outbox, inbox, learnerVars, orphans, linkFaults>>

\* Mutant: only a closed queue ends the generator.
StreamEndsClosed(s) ==
    /\ call[s] = "up" /\ chunks[s] = <<>> /\ threads /\ closed
    /\ EndCall(s)
    /\ UNCHANGED <<actorVars, outbox, inbox, learnerVars, orphans, linkFaults>>

\* The generator returns once shut down; get raises on a queue that this process
\* has closed.  Messages still queued are not sent.
StreamEnds(s) ==
    /\ call[s] = "up" /\ chunks[s] = <<>> /\ (actorShutdown \/ (threads /\ closed))
    /\ EndCall(s)
    /\ UNCHANGED <<actorVars, outbox, inbox, learnerVars, orphans, linkFaults>>

\* A chunk arrives at the learner, whose receiver returns if it is shut down.
LearnerReceives ==
    /\ call["transitions"] = "up" /\ chunks["transitions"] # <<>> /\ served
    /\ IF learnerShutdown
       THEN EndCall("transitions") /\ UNCHANGED inbox
       ELSE /\ ReceiveBytes("transitions", Head(chunks["transitions"]))
            /\ chunks' = [chunks EXCEPT !["transitions"] = Tail(@)]
            /\ UNCHANGED call
    /\ UNCHANGED <<actorVars, outbox, learnerVars, orphans, linkFaults>>

\* StreamParameters: the last of the parameters queued, and no other.
StreamParameters(parts) ==
    /\ call["parameters"] = "up" /\ chunks["parameters"] = <<>> /\ ~learnerShutdown
    /\ parametersQueue # <<>>
    /\ chunks' = [chunks EXCEPT !["parameters"] =
                     SendBytesInChunks(<< <<0, Last(parametersQueue)>> >>, parts)]
    /\ parametersQueue' = <<>>
    /\ UNCHANGED <<actorVars, outbox, call, received, inbox,
                   learnerPc, learnerShutdown, served, version, stored, orphans, linkFaults>>

ParametersEnd ==
    /\ call["parameters"] = "up" /\ chunks["parameters"] = <<>> /\ learnerShutdown
    /\ EndCall("parameters")
    /\ UNCHANGED <<actorVars, outbox, inbox, learnerVars, orphans, linkFaults>>

\* Parameters arrive at the actor, whose receiver returns if it is shut down, and
\* raises if it puts them in a queue that is closed; the handler finds out at its
\* next yield.
ActorReceives ==
    /\ call["parameters"] = "up" /\ chunks["parameters"] # <<>>
    /\ IF actorShutdown \/ (threads /\ closed /\ Len(chunks["parameters"]) = 1)
       THEN /\ EndCall("parameters")
            /\ orphans' = orphans + (IF Len(chunks["parameters"]) = 1 THEN 1 ELSE 0)
            /\ UNCHANGED <<inbox, newest>>
       ELSE /\ ReceiveBytes("parameters", Head(chunks["parameters"]))
            /\ chunks' = [chunks EXCEPT !["parameters"] = Tail(@)]
            /\ newest' = IF Len(chunks["parameters"]) = 1
                         THEN Head(Head(chunks["parameters"]).body)[2] ELSE newest
            /\ UNCHANGED <<call, orphans>>
    /\ UNCHANGED <<threads, actorPc, run, interactionStep, episode, loaded, actorShutdown, closed,
                   outbox, learnerVars, linkFaults>>

\* A handler whose caller has gone takes parameters, and ends as it yields them.
OrphanEnds ==
    /\ orphans > 0 /\ (parametersQueue # <<>> \/ learnerShutdown)
    /\ orphans' = orphans - 1
    /\ parametersQueue' = IF learnerShutdown THEN parametersQueue ELSE <<>>
    /\ UNCHANGED <<actorVars, outbox, streamVars, learnerPc, learnerShutdown, served, version, stored, linkFaults>>

(***************************************************************************)
(* The learner's own thread.                                               *)
(***************************************************************************)

\* process_transitions: the next message, while there is one; then training
\* waits until the replay buffer has enough.
ProcessTransitions ==
    /\ learnerPc = "transitions" /\ ~learnerShutdown
    /\ IF inbox["transitions"] = <<>>
       THEN /\ Len(stored) >= BeforeLearning
            /\ learnerPc' = "train" /\ UNCHANGED <<stored, inbox>>
       ELSE /\ stored' = stored \o Decoded(Head(inbox["transitions"]))
            /\ inbox' = [inbox EXCEPT !["transitions"] = Tail(@)]
            /\ UNCHANGED learnerPc
    /\ UNCHANGED <<actorVars, outbox, call, chunks, received,
                   learnerShutdown, served, parametersQueue, version, orphans, linkFaults>>

\* The buffer has too few transitions: the loop goes round.
LearnerWaits ==
    /\ learnerPc = "transitions" /\ ~learnerShutdown
    /\ inbox["transitions"] = <<>> /\ Len(stored) < BeforeLearning
    /\ UNCHANGED linkVars

\* An optimisation step, after which the parameters may be due to be pushed.
Train(push) ==
    /\ learnerPc = "train"
    /\ IF push
       THEN /\ version < MaxVersions
            /\ version' = version + 1
            /\ parametersQueue' = Append(parametersQueue, version + 1)
       ELSE UNCHANGED <<version, parametersQueue>>
    /\ learnerPc' = "transitions"
    /\ UNCHANGED <<actorVars, outbox, streamVars, learnerShutdown, served, stored, orphans, linkFaults>>

StopServer ==
    /\ learnerShutdown /\ served
    /\ served' = FALSE
    /\ UNCHANGED <<actorVars, outbox, streamVars, learnerPc, learnerShutdown,
                   parametersQueue, version, stored, orphans, linkFaults>>

\* The loop ends, and the queues are closed; the server's thread is joined.
LearnerLeaves ==
    /\ learnerPc = "transitions" /\ learnerShutdown /\ ~served
    /\ learnerPc' = "left"
    /\ UNCHANGED <<actorVars, outbox, streamVars, learnerShutdown, served,
                   parametersQueue, version, stored, orphans, linkFaults>>

(***************************************************************************)
(* Signals, and an actor that dies.                                        *)
(***************************************************************************)
ActorSignalled ==
    /\ ~actorShutdown /\ actorPc # "left"
    /\ actorShutdown' = TRUE
    /\ UNCHANGED <<threads, actorPc, run, interactionStep, episode, loaded, closed, newest,
                   outbox, streamVars, learnerVars, orphans>>

LearnerSignalled ==
    /\ ~learnerShutdown
    /\ learnerShutdown' = TRUE
    /\ UNCHANGED <<actorVars, outbox, streamVars, learnerPc, served,
                   parametersQueue, version, stored, orphans>>

\* The actor's processes have ended, and it is started again.  The learner's
\* receivers end with their streams; a handler of StreamParameters that is not in
\* the middle of a payload does not notice.
ActorStartedAgain ==
    /\ actorPc' = "ready" /\ run' = run + 1 /\ interactionStep' = 0 /\ episode' = <<>>
    /\ loaded' = 0 /\ newest' = 0 /\ actorShutdown' = FALSE /\ closed' = FALSE
    /\ outbox' = <<>>
    /\ call' = OnStreams("none") /\ chunks' = OnStreams(<<>>) /\ received' = OnStreams(<<>>)
    /\ inbox' = [inbox EXCEPT !["parameters"] = <<>>]
    /\ orphans' = orphans + (IF call["parameters"] = "up" /\ chunks["parameters"] = <<>> THEN 1 ELSE 0)
    /\ UNCHANGED <<threads, learnerVars>>

LinkRests == actorPc = "left" /\ learnerPc = "left" /\ UNCHANGED linkVars

------------------------------------------------------------------------------
Act == \/ EstablishConnection \/ ConnectionFails
       \/ \E ends \in BOOLEAN : ActStep(ends)
       \/ PushEpisode \/ CloseQueues \/ JoinStreams

SenderStep(s) ==
    \/ StartCall(s) \/ CallFails(s) \/ StreamEnds(s)
    \/ s = "transitions" /\ (LearnerReceives \/ \E parts \in 1 .. MaxParts : GetMessage(parts))

ParametersStep ==
    \/ StartCall("parameters") \/ CallFails("parameters") \/ ParametersEnd \/ ActorReceives
    \/ \E parts \in 1 .. MaxParts : StreamParameters(parts)

Learn ==
    \/ ProcessTransitions
    \/ \E push \in BOOLEAN : Train(push)
    \/ LearnerLeaves

LinkFault ==
    /\ linkFaults < MaxLinkFaults
    /\ linkFaults' = linkFaults + 1
    /\ ActorSignalled \/ LearnerSignalled \/ ActorStartedAgain

LinkNext ==
    \/ Act \/ (\E s \in Senders : SenderStep(s)) \/ ParametersStep \/ OrphanEnds
    \/ Learn \/ LearnerWaits \/ StopServer \/ LinkFault \/ LinkRests

\* The threads of both processes are scheduled; what is queued gets a worker.
LinkFairness ==
    /\ WF_linkVars(Act) /\ WF_linkVars(Learn) /\ WF_linkVars(StopServer)
    /\ \A s \in Senders : WF_linkVars(SenderStep(s))
    /\ WF_linkVars(ParametersStep) /\ WF_linkVars(OrphanEnds)

LinkSpec == LinkInit /\ [][LinkNext]_linkVars /\ LinkFairness

(***************************************************************************)
(* Properties.                                                             *)
(***************************************************************************)
Transitions == (1 .. MaxLinkFaults + 1) \X (1 .. OnlineSteps)

LinkTypeOK ==
    /\ threads \in BOOLEAN /\ actorShutdown \in BOOLEAN /\ closed \in BOOLEAN
    /\ learnerShutdown \in BOOLEAN /\ served \in BOOLEAN
    /\ actorPc \in {"ready", "act", "push", "join", "left"}
    /\ learnerPc \in {"transitions", "train", "left"}
    /\ run \in 1 .. MaxLinkFaults + 1 /\ interactionStep \in 0 .. OnlineSteps
    /\ episode \in Seq(Transitions) /\ stored \in Seq(Transitions)
    /\ outbox \in Seq(Seq(Transitions))
    /\ call \in [Streams -> {"none", "called", "up", "ended"}]
    /\ \A v \in {loaded, newest} : v \in 0 .. MaxVersions
    /\ version \in 1 .. MaxVersions /\ parametersQueue \in Seq(1 .. MaxVersions)
    /\ orphans \in 0 .. MaxLinkFaults + 1 /\ Busy <= MaxWorkers

\* transport/utils.py: what the learner stores is, for each run of the actor, the
\* steps it took from the first one on, each once and in order, run after run:
\* whatever is lost at the end, no episode is mixed with another or left out.
StoredInOrder ==
    \A i \in DOMAIN stored :
        LET previous == IF i = 1 THEN <<0, 0>> ELSE stored[i - 1]
        IN  \/ stored[i] = <<previous[1], previous[2] + 1>>
            \/ stored[i][1] > previous[1] /\ stored[i][2] = 1

\* update_policy_parameters: an episode ends with the newest parameters that have
\* reached the actor, and the policy never goes back to older ones.
LoadsNewest ==
    [][/\ actorPc = "act" /\ actorPc' = "push" => loaded' = newest
       /\ run' = run => loaded' >= loaded]_linkVars

\* A transition pushed and not stored yet.
Waiting == outbox # <<>> \/ chunks["transitions"] # <<>> \/ inbox["transitions"] # <<>>

\* A call that finds no free worker while handlers of streams that are gone, or the
\* other two, hold them, and the learner waits for transitions to train.
Starved == call["transitions"] = "called" /\ Busy = MaxWorkers /\ orphans > 0

\* send_transitions, process_transitions: the episodes pushed are stored in the
\* end, unless a process is told to stop, the actor dies or has done its steps,
\* or handlers of earlier actors hold the workers of the pool.
EpisodesArrive ==
    Waiting ~> (~Waiting \/ actorShutdown \/ learnerShutdown \/ (threads /\ closed) \/ Starved)

\* rl/process.py: once told to stop, the actor ends, or waits for parameters that
\* the learner does not push: of its threads, only receive_policy sees the stop
\* no sooner than something arrives.
ActorStops ==
    actorShutdown ~> \/ ~actorShutdown \/ actorPc = "left"
                     \/ \A s \in Senders : call[s] = "ended"
==============================================================================
