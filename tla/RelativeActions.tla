--------------------------- MODULE RelativeActions ---------------------------
(***************************************************************************)
(* Inference with a policy of relative actions                             *)
(* (processor/relative_action_processor.py).  The preprocessor caches the  *)
(* state of the observation it is given; the postprocessor adds the cached *)
(* state to the offsets that the policy predicted.  A program asks for a   *)
(* chunk and postprocesses all of it (PolicyServer, get_actions), or asks  *)
(* select_action for one action an iteration (predict_action, rollout),    *)
(* which gives those of a chunk one by one.  The robot moves meanwhile.    *)
(* One joint stands for all that exclude_joints does not name.             *)
(***************************************************************************)
EXTENDS Integers, Sequences

CONSTANTS
    RobotStates,  \* bound: positions of the joint
    Offsets,      \* bound: relative actions predicted
    ChunkSteps,   \* n_action_steps, or the length of a chunk
    MaxInferences \* bound: iterations

ASSUME RelativeAssumption ==
    /\ RobotStates \subseteq Int /\ Offsets \subseteq Int
    /\ ChunkSteps \in Nat \ {0} /\ MaxInferences \in Nat

VARIABLES
    oneByOne,        \* the program uses select_action
    stage,           \* of the pipeline
    robotState,
    lastState,       \* _last_state of RelativeActionsProcessorStep
    queuedOffsets,   \* _action_queue of the policy
    modelOutput,     \* what the policy gave to be postprocessed
    commands,        \* what the postprocessor made of it
    inferences

relativeVars ==
    <<oneByOne, stage, robotState, lastState, queuedOffsets, modelOutput, commands, inferences>>

\* An offset, with the state it was predicted from (history).
RelativeAction(offset, state) == [offset |-> offset, anchor |-> state]

RelativeInit ==
    /\ oneByOne \in BOOLEAN
    /\ stage = "observe"
    /\ robotState \in RobotStates
    /\ lastState = robotState \* of no use: preprocessing comes first
    /\ queuedOffsets = <<>> /\ modelOutput = <<>> /\ commands = <<>>
    /\ inferences = 0

RobotMoves ==
    /\ robotState' \in RobotStates \ {robotState}
    /\ UNCHANGED <<oneByOne, stage, lastState, queuedOffsets, modelOutput, commands, inferences>>

\* The state is cached whether the policy predicts anew or not.
PreprocessObservation ==
    /\ stage = "observe" /\ inferences < MaxInferences
    /\ lastState' = robotState
    /\ inferences' = inferences + 1
    /\ stage' = "select"
    /\ UNCHANGED <<oneByOne, robotState, queuedOffsets, modelOutput, commands>>

Chunk(offsets) == [i \in 1 .. ChunkSteps |-> RelativeAction(offsets[i], lastState)]

PredictWholeChunk(offsets) ==
    /\ stage = "select" /\ ~oneByOne
    /\ modelOutput' = Chunk(offsets)
    /\ stage' = "postprocess"
    /\ UNCHANGED <<oneByOne, robotState, lastState, queuedOffsets, commands, inferences>>

\* select_action gives the first action of queue, and keeps the rest.
PopOf(queue) ==
    /\ modelOutput' = <<Head(queue)>>
    /\ queuedOffsets' = Tail(queue)
    /\ stage' = "postprocess"
    /\ UNCHANGED <<oneByOne, robotState, lastState, commands, inferences>>

SelectFromNewChunk(offsets) ==
    /\ stage = "select" /\ oneByOne /\ queuedOffsets = <<>>
    /\ PopOf(Chunk(offsets))

SelectFromQueue ==
    /\ stage = "select" /\ oneByOne /\ queuedOffsets # <<>>
    /\ PopOf(queuedOffsets)

\* Mutant: the state is that of the robot when the actions are made.
AbsoluteActionNow(a) == a.offset + robotState

\* to_absolute_actions.
AbsoluteAction(a) == a.offset + lastState

Postprocess ==
    /\ stage = "postprocess"
    /\ commands' = [i \in DOMAIN modelOutput |->
           [target |-> AbsoluteAction(modelOutput[i]),
            meant |-> modelOutput[i].offset + modelOutput[i].anchor]]
    /\ stage' = "observe"
    /\ UNCHANGED <<oneByOne, robotState, lastState, queuedOffsets, modelOutput, inferences>>

\* A new episode: policy.reset forgets the rest of the chunk; resetting the two
\* processors changes nothing, and the cached state is kept.
ResetEpisode ==
    /\ stage = "observe" /\ oneByOne
    /\ queuedOffsets' = <<>>
    /\ UNCHANGED <<oneByOne, stage, robotState, lastState, modelOutput, commands, inferences>>

RelativeNext ==
    \/ RobotMoves \/ PreprocessObservation \/ SelectFromQueue \/ Postprocess \/ ResetEpisode
    \/ \E offsets \in [1 .. ChunkSteps -> Offsets] :
           PredictWholeChunk(offsets) \/ SelectFromNewChunk(offsets)

RelativeSpec == RelativeInit /\ [][RelativeNext]_relativeVars

(***************************************************************************)
(* Properties.                                                             *)
(***************************************************************************)
Anchored == \A i \in DOMAIN commands : commands[i].target = commands[i].meant

\* A chunk that is postprocessed as a whole is executed where the policy meant it,
\* though the robot moves while it predicts, and whatever it was asked before.
ChunksAnchored == ~oneByOne => Anchored

\* docs/source/action_representations.mdx: each action in the chunk is an offset
\* from the state at the moment of prediction, which all of the chunk share.
SharedReference == Anchored
==============================================================================
