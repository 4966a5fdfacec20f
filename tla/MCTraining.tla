------------------------------ MODULE MCTraining ------------------------------
(***************************************************************************)
(* Model checking of what surrounds a training run and shares no state:    *)
(* the mixture-of-experts policy while it is trained and evaluated, the    *)
(* datasets made of others, a streamed pass over one, the episodes of an   *)
(* evaluation and the checkpoints.  Every behaviour is one of one part,    *)
(* and the others stay in one of their initial states.                     *)
(***************************************************************************)
EXTENDS MoePolicy, DatasetTools, StreamingDataset, Evaluation, Checkpoints

VARIABLE part \* the part that runs

trainingVars == <<part, vars, aggregateVars, streamVars, evalVars, checkpointVars>>

Parts == {"policy", "tools", "stream", "evaluation", "checkpoints"}

MCLengths == << <<1, 2>>, <<2, 1>> >>

\* All in one file, a full data or video file, and a recording that was resumed.
MCLayouts ==
    {<<FALSE, FALSE, FALSE>>, <<TRUE, FALSE, FALSE>>, <<FALSE, TRUE, FALSE>>, <<TRUE, TRUE, TRUE>>}

\* Halves; a split that has an episode of four but none of two; one that leaves some.
MCFractions ==
    {<< <<1, 2>>, <<1, 2>> >>, << <<1, 4>>, <<1, 2>> >>, << <<1, 2>>, <<1, 4>> >>}

\* One data file, two, and two video files as well.
MCStreamed ==
    {Recorded(1, <<3, 3>>, new[1], new[2], FALSE) :
        new \in {<<FALSE, FALSE>>, <<TRUE, FALSE>>, <<TRUE, TRUE>>}}

\* The farthest back is beyond the history, but for the window of the last frame.
MCDeltas == -3 .. 2
MCImageWindows == {{-1, 0}, {0, 1}}

\* Files of all kinds, or of one kind, are soon full; the second recording has one
\* file of each kind, or two.
ToolsInit ==
    /\ Len(datasets[2].data) = Len(datasets[2].videos)
    /\ Len(datasets[2].data) = Len(datasets[2].metadata)
    /\ \/ \A kind \in DOMAIN fileSize : fileSize[kind] = Min(FileSizes)
       \/ \E kind \in DOMAIN fileSize : fileSize = [k \in DOMAIN fileSize |->
              IF k = kind THEN Min(FileSizes) ELSE Max(FileSizes)]

TrainingInit ==
    /\ part \in Parts
    /\ Init /\ (part # "policy" => ~whole /\ ~checkpointing /\ ~labelled /\ ~parallel)
    /\ AggregateInit
    /\ IF part = "tools" THEN ToolsInit
       ELSE /\ \A kind \in DOMAIN fileSize : fileSize[kind] = Max(FileSizes)
            /\ \A d \in DOMAIN datasets : datasets[d] = Recorded(d, Lengths[d], FALSE, FALSE, FALSE)
    /\ StreamInit
    /\ part # "stream" => Len(streamed.data) = 1 /\ imageDeltas = {-1, 0}
    /\ EvalInit /\ (part # "evaluation" => seeded)
    /\ CheckpointsInit

TrainingNext ==
    \/ /\ part = "policy" /\ Next
       /\ UNCHANGED <<part, aggregateVars, streamVars, evalVars, checkpointVars>>
    \/ /\ part = "tools" /\ ToolsNext
       /\ UNCHANGED <<part, vars, streamVars, evalVars, checkpointVars>>
    \/ /\ part = "stream" /\ StreamNext
       /\ UNCHANGED <<part, vars, aggregateVars, evalVars, checkpointVars>>
    \/ /\ part = "evaluation" /\ EvalNext
       /\ UNCHANGED <<part, vars, aggregateVars, streamVars, checkpointVars>>
    \/ /\ part = "checkpoints" /\ CheckpointsNext
       /\ UNCHANGED <<part, vars, aggregateVars, streamVars, evalVars>>

TrainingSpec == TrainingInit /\ [][TrainingNext]_trainingVars

\* The types of the part that runs; the buffers of a stream are no longer than their bounds.
TrainingTypeOK ==
    /\ part \in Parts
    /\ CASE part = "policy" -> MoeTypeOK
         [] part = "tools" -> AggregateTypeOK
         [] part = "stream" -> StreamTypeOK
         [] part = "evaluation" -> EvalTypeOK
         [] part = "checkpoints" -> CheckpointsTypeOK
==============================================================================
