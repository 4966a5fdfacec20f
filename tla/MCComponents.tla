----------------------------- MODULE MCComponents -----------------------------
(***************************************************************************)
(* Model checking of the parts of the system that share no state: the link *)
(* of actor and learner, a recording, the encoder of its videos, a camera, *)
(* the LeKiwi host and the sessions of an SO arm.  Every behaviour is one  *)
(* of one part, and the others stay in one of their initial states.        *)
(***************************************************************************)
EXTENDS ActorLearner, RecordSession, StreamingEncoder, CameraReader, LeKiwiHost,
        SoFollower

VARIABLE part \* the part that runs

componentVars ==
    <<part, linkVars, recordVars, encoderVars, cameraVars, hostVars, armVars>>

\* A motor that was not moved has a range of one position.
MCRanges == {<<0, 7>>, <<1, 6>>, <<3, 3>>}

Parts == {"link", "record", "encoder", "camera", "host", "arm"}

ComponentsInit ==
    /\ part \in Parts
    /\ LinkInit /\ (part # "link" => threads)
    /\ RecordInit /\ (part # "record" => ~teleop /\ ~streaming)
    /\ EncoderInit /\ CameraInit /\ HostInit /\ ArmInit

ComponentsNext ==
    \/ /\ part = "link" /\ LinkNext
       /\ UNCHANGED <<part, recordVars, encoderVars, cameraVars, hostVars, armVars>>
    \/ /\ part = "record" /\ RecordNext
       /\ UNCHANGED <<part, linkVars, encoderVars, cameraVars, hostVars, armVars>>
    \/ /\ part = "encoder" /\ EncoderNext
       /\ UNCHANGED <<part, linkVars, recordVars, cameraVars, hostVars, armVars>>
    \/ /\ part = "camera" /\ CameraNext
       /\ UNCHANGED <<part, linkVars, recordVars, encoderVars, hostVars, armVars>>
    \/ /\ part = "host" /\ HostNext
       /\ UNCHANGED <<part, linkVars, recordVars, encoderVars, cameraVars, armVars>>
    \/ /\ part = "arm" /\ ArmNext
       /\ UNCHANGED <<part, linkVars, recordVars, encoderVars, cameraVars, hostVars>>

\* LinkFairness, RecordFairness and EncoderFairness, each for the part that runs.
ComponentsFairness ==
    /\ WF_linkVars(part = "link" /\ Act)
    /\ WF_linkVars(part = "link" /\ Learn)
    /\ WF_linkVars(part = "link" /\ StopServer)
    /\ \A s \in Senders : WF_linkVars(part = "link" /\ SenderStep(s))
    /\ WF_linkVars(part = "link" /\ ParametersStep)
    /\ WF_linkVars(part = "link" /\ OrphanEnds)
    /\ WF_recordVars(part = "record" /\ SessionStep)
    /\ SF_recordVars(part = "record" /\ ResetIteration(TRUE))
    /\ WF_encoderVars(part = "encoder" /\ FeederStep)
    /\ WF_encoderVars(part = "encoder" /\ (EncodeFrame \/ TakeSentinel \/ StopWhenTold))

ComponentsSpec == ComponentsInit /\ [][ComponentsNext]_componentVars /\ ComponentsFairness

\* The types of every part; no more handlers run than the pool has workers, and no
\* queue of frames is longer than its bound.
ComponentsTypeOK ==
    /\ part \in Parts
    /\ LinkTypeOK /\ RecordTypeOK /\ EncoderTypeOK /\ CameraTypeOK /\ HostTypeOK
    /\ ArmTypeOK
==============================================================================
