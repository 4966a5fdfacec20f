----------------------------- MODULE MCInference ------------------------------
(***************************************************************************)
(* Model checking of the three ways a robot is given the actions of a      *)
(* policy: from the asynchronous server, through real-time chunking, and   *)
(* one after another with relative actions.  They share no state: every    *)
(* behaviour is of one part, and the others stay as they begin.            *)
(***************************************************************************)
EXTENDS MCAsyncInference, RtcControl, RelativeActions

VARIABLE part \* the part that runs

inferenceVars == <<part, mcVars, vars, relativeVars>>

Parts == {"async", "rtc", "relative"}

InferenceInit ==
    /\ part \in Parts
    /\ MCInit
    /\ Init /\ (part # "rtc" => enabled /\ relative)
    /\ RelativeInit /\ (part # "relative" => oneByOne /\ robotState = 0)

InferenceNext ==
    \/ part = "async" /\ MCNext /\ UNCHANGED <<part, vars, relativeVars>>
    \/ part = "rtc" /\ Next /\ UNCHANGED <<part, mcVars, relativeVars>>
    \/ part = "relative" /\ RelativeNext /\ UNCHANGED <<part, mcVars, vars>>

InferenceSpec == InferenceInit /\ [][InferenceNext]_inferenceVars
==============================================================================
