-------------------------- MODULE MCAsyncInference --------------------------
(***************************************************************************)
(* AsyncInference with two history variables:                              *)
(*   rearmed    a chunk has been merged, and must_go set, since the last   *)
(*              must-go observation was flagged (at first, must_go is set) *)
(*   performed  the control loop was executing an action when the merge in *)
(*              progress began, or has executed one since                  *)
(***************************************************************************)
EXTENDS AsyncInference

VARIABLES rearmed, performed

MCInit == AsyncInit /\ rearmed = TRUE /\ performed = FALSE

MCNext ==
    /\ AsyncNext
    /\ rearmed' =
          CASE cpc = "exit" /\ cpc' = "ready" -> TRUE
            [] rpc = "arm" /\ rpc' = "top" -> TRUE
            [] cpc = "flag" /\ cpc' = "sending" /\ obs'.mustGo -> FALSE
            [] OTHER -> rearmed
    /\ performed' = (rpc' \in {"merge", "swap"} /\ (performed \/ cpc' = "act"))

mcVars == <<asyncVars, rearmed, performed>>

MCSafety == MCInit /\ [][MCNext]_mcVars

\* A merge during which the control loop executes no action leaves only actions
\* newer than the latest one executed: _aggregate_action_queues repeats an action
\* only when it races with control_loop_action.
QuietMergeIsFresh ==
    [][rpc = "swap" /\ rpc' = "arm" /\ ~performed =>
           \A i \in DOMAIN actionQueue' : actionQueue'[i] > latestAction]_mcVars

\* robot_client.py: after actions are received, the next empty queue triggers
\* must-go processing.
NextEmptyQueueMustGo ==
    [][cpc = "flag" /\ cpc' = "sending" /\ rearmed /\ actionQueue = <<>>
           => obs'.mustGo]_mcVars
==============================================================================
