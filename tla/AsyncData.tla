------------------------------ MODULE AsyncData ------------------------------
(***************************************************************************)
(* The data the robot client and the policy server of async_inference      *)
(* exchange: timed observations and timed actions.                         *)
(*                                                                         *)
(* An observation is its timestep, the pose of the robot it shows, its     *)
(* must_go flag and the session (the launch of the client) that captured   *)
(* it.  The session is not a field of the code: it is a history tag, read  *)
(* by properties only.  A timed action is its timestep: the action tensor, *)
(* and with it the value an aggregate_fn computes, is left out.            *)
(***************************************************************************)
EXTENDS Integers, Sequences

CONSTANTS
    ActionsPerChunk,  \* length of the action chunk a policy returns
    Poses,            \* the robot poses an observation can tell apart
    Horizon,          \* bound: no observation is captured past this timestep
    MaxSessions       \* bound: how many times the client is launched

ASSUME DataAssumption ==
    /\ ActionsPerChunk \in Nat \ {0}
    /\ Horizon \in Nat
    /\ MaxSessions \in Nat \ {0}
    /\ Poses # {}

Timesteps == 0 .. Horizon + ActionsPerChunk - 1

Sessions == 1 .. MaxSessions

Observations ==
    [timestep : 0 .. Horizon, pose : Poses, mustGo : BOOLEAN, session : Sessions]

\* The timed actions of a chunk predicted for an observation at timestep t.
TimeActionChunk(t) == [i \in 1 .. ActionsPerChunk |-> t + i - 1]

\* observations_similar compares joint states: here, whole poses.
Similar(o, previous) == o.pose = previous.pose
==============================================================================
