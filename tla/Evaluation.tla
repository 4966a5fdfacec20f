------------------------------ MODULE Evaluation ------------------------------
(***************************************************************************)
(* scripts/lerobot_eval.py, rollout and eval_policy: episodes are run in   *)
(* batches, one in each environment of a vector, until all are done; an    *)
(* environment that is done is reset in the same step and goes on with its *)
(* next episode, whose steps are then to be masked.  A step of an episode  *)
(* is <<batch, environment, episode, number>>: episode 1 is the one seeded *)
(* when the batch is reset, the others are those the environment began by  *)
(* itself.                                                                 *)
(***************************************************************************)
EXTENDS Integers, Sequences, SequencesExt

CONSTANTS
    NumEnvs,    \* environments of the vector
    NEpisodes,  \* n_episodes
    MaxSteps    \* _max_episode_steps

ASSUME EvaluationAssumption == {NumEnvs, NEpisodes, MaxSteps} \subseteq Nat \ {0}

Envs == 1 .. NumEnvs

VARIABLES
    seeded,    \* start_seed is not None; it is then 0
    batch,     \* batch_ix + 1
    episode,   \* env -> the episode it is in
    number,    \* env -> steps of that episode so far
    done,      \* env -> done in this rollout
    rollout,   \* the columns of the rollout: env -> step, done, success
    results,   \* sum_rewards and all_successes: the steps counted, and success
    allSeeds,  \* all_seeds
    evalPc,    \* step, compile, info, ended or raised
    truth      \* <<batch, env>> -> how its seeded episode ended (history)

evalVars == <<seeded, batch, episode, number, done, rollout, results, allSeeds, evalPc, truth>>

NBatches == NEpisodes \div NumEnvs + (IF NEpisodes % NumEnvs # 0 THEN 1 ELSE 0)

All(value) == [e \in Envs |-> value]

EvalInit ==
    /\ seeded \in BOOLEAN
    /\ batch = 1 /\ results = <<>> /\ allSeeds = <<>> /\ evalPc = "step" /\ truth = <<>>
    /\ episode = All(1) /\ number = All(0) /\ done = All(FALSE) /\ rollout = <<>>

\* What a step of the environments may bring: an episode goes on, or ends with or
\* without success, as it does at the latest after MaxSteps.
Outcomes(e) ==
    IF number[e] + 1 = MaxSteps THEN {"success", "failure"} ELSE {"goes on", "success", "failure"}

\* One iteration of rollout.
RolloutStep ==
    /\ evalPc = "step"
    /\ \E outcome \in [Envs -> {"goes on", "success", "failure"}] :
          LET ends(e) == outcome[e] # "goes on"
              last == Len(rollout) + 1 = MaxSteps
              over == {<<batch, f>> : f \in {g \in Envs : ends(g) /\ episode[g] = 1}}
          IN  /\ \A e \in Envs : outcome[e] \in Outcomes(e)
              /\ done' = [e \in Envs |-> done[e] \/ ends(e) \/ last]
              /\ rollout' = Append(rollout,
                     [e \in Envs |-> [step |-> <<batch, e, episode[e], number[e] + 1>>,
                                      done |-> done[e] \/ ends(e) \/ last,
                                      success |-> outcome[e] = "success"]])
              /\ episode' = [e \in Envs |-> IF ends(e) THEN episode[e] + 1 ELSE episode[e]]
              /\ number' = [e \in Envs |-> IF ends(e) THEN 0 ELSE number[e] + 1]
              /\ truth' = [k \in DOMAIN truth \cup over |->
                     IF k \in over
                     THEN [steps |-> number[k[2]] + 1, success |-> outcome[k[2]] = "success"]
                     ELSE truth[k]]
    /\ evalPc' = IF \A e \in Envs : done'[e] THEN "compile" ELSE "step"
    /\ UNCHANGED <<seeded, batch, results, allSeeds>>

\* argmax: the first column in which the environment is done.
DoneIndex(e) == CHOOSE i \in DOMAIN rollout :
                    rollout[i][e].done /\ \A j \in 1 .. i - 1 : ~rollout[j][e].done

\* Mutant: the steps before the one that was done.
MaskBefore(e) == {i \in DOMAIN rollout : i < DoneIndex(e)}

\* arange(n_steps) <= done_indices + 1
Mask(e) == {i \in DOMAIN rollout : i <= DoneIndex(e) + 1}

\* The rewards masked are summed and the successes joined, environment by
\* environment; then the next batch is reset.
CompileBatch ==
    /\ evalPc = "compile"
    /\ results' = results \o [e \in Envs |->
           [counted |-> {rollout[i][e].step : i \in Mask(e)},
            success |-> \E i \in Mask(e) : rollout[i][e].success]]
    /\ allSeeds' = allSeeds \o (IF ~seeded THEN <<-1>> ELSE [e \in Envs |-> (batch - 1) * NumEnvs + e - 1])
    /\ IF batch < NBatches
       THEN /\ batch' = batch + 1 /\ evalPc' = "step"
            /\ episode' = All(1) /\ number' = All(0) /\ done' = All(FALSE) /\ rollout' = <<>>
       ELSE evalPc' = "info" /\ UNCHANGED <<batch, episode, number, done, rollout>>
    /\ UNCHANGED <<seeded, truth>>

\* zip(strict=True) of the first n_episodes of each list.
CompileInfo ==
    /\ evalPc = "info"
    /\ evalPc' = IF Min({NEpisodes, Len(allSeeds)}) = Min({NEpisodes, Len(results)})
                 THEN "ended" ELSE "raised"
    /\ UNCHANGED <<seeded, batch, episode, number, done, rollout, results, allSeeds, truth>>

EvalEnded == evalPc \in {"ended", "raised"} /\ UNCHANGED evalVars

EvalNext == RolloutStep \/ CompileBatch \/ CompileInfo \/ EvalEnded

EvalSpec == EvalInit /\ [][EvalNext]_evalVars

(***************************************************************************)
(* Properties.                                                             *)
(***************************************************************************)
EvalTypeOK ==
    /\ batch \in 1 .. NBatches /\ evalPc \in {"step", "compile", "info", "ended", "raised"}
    /\ \A e \in Envs : number[e] \in 0 .. MaxSteps - 1 /\ done[e] \in BOOLEAN
    /\ Len(rollout) <= MaxSteps /\ Len(results) <= NBatches * NumEnvs

\* The batch and the environment of a result, and its steps by episode.
EpisodeOf(i) == <<((i - 1) \div NumEnvs) + 1, ((i - 1) % NumEnvs) + 1>>
Own(i)   == {<<EpisodeOf(i)[1], EpisodeOf(i)[2], 1, k>> : k \in 1 .. truth[EpisodeOf(i)].steps}
Extra(i) == results[i].counted \ Own(i)

\* eval_policy: each result is about one seeded episode of its own: all its steps
\* count, its success is reported, and nothing else counts but for one step of the
\* episode that the environment began next.  The results asked for are there, each
\* with its seed; only without seeds may the summary raise.
EvaluatedEpisodes ==
    /\ \A i \in DOMAIN results :
          /\ Own(i) \subseteq results[i].counted
          /\ Extra(i) \subseteq {<<EpisodeOf(i)[1], EpisodeOf(i)[2], 2, 1>>}
          /\ truth[EpisodeOf(i)].success => results[i].success
          /\ results[i].success => truth[EpisodeOf(i)].success \/ Extra(i) # {}
    /\ evalPc = "ended" =>
          NEpisodes <= Len(results) /\ (seeded => \A i \in 1 .. NEpisodes : allSeeds[i] = i - 1)
    /\ evalPc = "raised" => ~seeded

\* "results after this won't be included" (lerobot_eval.py, before done_indices):
\* no step counts that comes after the first done one.
EpisodeRewards == \A i \in DOMAIN results : Extra(i) = {}
==============================================================================
