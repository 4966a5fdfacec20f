------------------------------ MODULE Checkpoints ------------------------------
(***************************************************************************)
(* utils/train_utils.py and the loop of scripts/lerobot_train.py: a run    *)
(* saves its state every few steps, file after file, and then moves the    *)
(* link last; it may crash at any point and be resumed from last or from   *)
(* another checkpoint.  What a file holds is the state it was saved from:  *)
(* <<run, step>> names the state after step updates, the last by that run. *)
(***************************************************************************)
EXTENDS Integers, Sequences, SequencesExt

CONSTANTS
    Steps,    \* cfg.steps
    SaveFreq, \* cfg.save_freq
    MaxRuns   \* bound: runs, resumed ones included

ASSUME CheckpointsAssumption == {Steps, SaveFreq, MaxRuns} \subseteq Nat \ {0}

\* The files of a checkpoint in the order of save_checkpoint; the policy with its
\* configurations is one of them.
Files == <<"policy", "processors", "training_step", "rng", "optimizer", "scheduler">>

Missing == <<0, 0>>
Torn    == <<0, 1>>

VARIABLES
    trainPc,   \* train, save, unlink, link, ended or dead
    run,       \* runs so far
    trainStep, \* step
    states,    \* file -> the state that part of the run is in
    disk,      \* step -> file -> what the checkpoint of that step holds
    lastLink,  \* the step whose checkpoint last names, 0 for none
    written,   \* files of the checkpoint that are written
    rewritten  \* checkpoints that a later run began to write again (history)

checkpointVars == <<trainPc, run, trainStep, states, disk, lastLink, written, rewritten>>

AllIn(state) == [f \in ToSet(Files) |-> state]

\* Every part has one state, and training_step is the number of its updates.
Whole(checkpoint) ==
    \E state \in (1 .. MaxRuns) \X (0 .. Steps) :
        \A f \in ToSet(Files) :
            checkpoint[f] = IF f = "training_step" THEN <<state[2], state[2]>> ELSE state

Complete(checkpoint) == \A f \in ToSet(Files) : checkpoint[f] \notin {Missing, Torn}

CheckpointsInit ==
    /\ trainPc = "train" /\ run = 1 /\ trainStep = 0 /\ states = AllIn(<<1, 0>>)
    /\ disk = [s \in 1 .. Steps |-> AllIn(Missing)]
    /\ lastLink = 0 /\ written = 0 /\ rewritten = {}

IsSavingStep(s) == s % SaveFreq = 0 \/ s = Steps

------------------------------------------------------------------------------
\* An update moves every part of the state on, then step.
Update ==
    /\ trainPc = "train" /\ trainStep < Steps
    /\ trainStep' = trainStep + 1
    /\ states' = AllIn(<<run, trainStep + 1>>)
    /\ trainPc' = IF IsSavingStep(trainStep + 1) THEN "save" ELSE "train"
    /\ written' = 0
    /\ UNCHANGED <<run, disk, lastLink, rewritten>>

TrainingEnds ==
    /\ trainPc = "train" /\ trainStep = Steps
    /\ trainPc' = "ended"
    /\ UNCHANGED <<run, trainStep, states, disk, lastLink, written, rewritten>>

\* What is saved as training_step is step; the rest is the state itself.
Saved(f) == IF f = "training_step" THEN <<trainStep, trainStep>> ELSE states[f]

\* Mutant: last is moved when the first file is written.
SaveFileLinked ==
    LET f == Files[written + 1]
    IN  /\ trainPc = "save"
        /\ disk' = [disk EXCEPT ![trainStep][f] = Saved(f)]
        /\ written' = written + 1 /\ lastLink' = trainStep
        /\ trainPc' = IF written' = Len(Files) THEN "train" ELSE "save"
        /\ UNCHANGED <<run, trainStep, states, rewritten>>

\* save_checkpoint and save_training_state write one file.
SaveFile ==
    LET f == Files[written + 1]
    IN  /\ trainPc = "save"
        /\ disk' = [disk EXCEPT ![trainStep][f] = Saved(f)]
        /\ written' = written + 1
        /\ trainPc' = IF written' = Len(Files) THEN "unlink" ELSE "save"
        /\ rewritten' = IF written' = Len(Files) THEN rewritten \ {trainStep}
                        ELSE IF Complete(disk[trainStep]) THEN rewritten \cup {trainStep}
                        ELSE rewritten
        /\ UNCHANGED <<run, trainStep, states, lastLink>>

\* update_last_checkpoint
UnlinkLast ==
    /\ trainPc = "unlink"
    /\ lastLink' = 0 /\ trainPc' = "link"
    /\ UNCHANGED <<run, trainStep, states, disk, written, rewritten>>

LinkLast ==
    /\ trainPc = "link"
    /\ lastLink' = trainStep /\ trainPc' = "train"
    /\ UNCHANGED <<run, trainStep, states, disk, written, rewritten>>

\* The run crashes; the file it is writing may be left torn.
Crash ==
    /\ trainPc \notin {"dead", "ended"}
    /\ trainPc' = "dead"
    /\ \/ UNCHANGED <<disk, rewritten>>
       \/ /\ trainPc = "save"
          /\ disk' = [disk EXCEPT ![trainStep][Files[written + 1]] = Torn]
          /\ rewritten' = IF Complete(disk[trainStep]) THEN rewritten \cup {trainStep} ELSE rewritten
    /\ UNCHANGED <<run, trainStep, states, lastLink, written>>

\* validate and load_training_state: every file of the checkpoint is loaded, or the
\* run that is resumed raises.
Resume(s) ==
    /\ trainPc = "dead" /\ run < MaxRuns /\ Complete(disk[s])
    /\ run' = run + 1 /\ trainPc' = "train"
    /\ states' = disk[s] /\ trainStep' = disk[s]["training_step"][1]
    /\ UNCHANGED <<disk, lastLink, written, rewritten>>

ResumeLast == lastLink # 0 /\ Resume(lastLink)

\* config_path names another checkpoint than last.
ResumeNamed == \E s \in 1 .. Steps : Resume(s)

Stops == trainPc \in {"dead", "ended"} /\ UNCHANGED checkpointVars

CheckpointsNext ==
    \/ Update \/ TrainingEnds \/ SaveFile \/ UnlinkLast \/ LinkLast
    \/ Crash \/ ResumeLast \/ ResumeNamed \/ Stops

CheckpointsSpec == CheckpointsInit /\ [][CheckpointsNext]_checkpointVars

(***************************************************************************)
(* Properties.                                                             *)
(***************************************************************************)
CheckpointsTypeOK ==
    /\ trainPc \in {"train", "save", "unlink", "link", "ended", "dead"}
    /\ run \in 1 .. MaxRuns /\ trainStep \in 0 .. Steps
    /\ lastLink \in 0 .. Steps /\ written \in 0 .. Len(Files) /\ rewritten \subseteq 1 .. Steps

\* update_last_checkpoint, load_training_state: what last names can be resumed, and
\* a checkpoint that can be loaded holds one state that was saved, weights, optimizer,
\* random numbers and step together, whatever crashes came before.  Not so for a
\* checkpoint that was complete when a later run, resumed from an older one, began
\* to write it again.
ResumesWhole ==
    /\ lastLink \notin rewritten \cup {0} => Complete(disk[lastLink])
    /\ \A s \in 1 .. Steps \ rewritten : Complete(disk[s]) => Whole(disk[s])
==============================================================================
