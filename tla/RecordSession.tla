----------------------------- MODULE RecordSession -----------------------------
(***************************************************************************)
(* lerobot_record.py: sessions that record takes into a dataset, with the  *)
(* keys of control_utils.py pressed at any moment.  A session that ends,   *)
(* whether its work is done, it is interrupted or an encoder fails, may be *)
(* resumed by another.  A loop over control_time_s may time out after any  *)
(* iteration; iterations that record no frame are left out.                *)
(***************************************************************************)
EXTENDS DatasetWriter

CONSTANTS
    NumEpisodes, \* num_episodes of a session
    MaxFrames,   \* bound: frames of a take
    MaxKeys,     \* bound: keys pressed
    MaxSessions  \* bound: sessions

ASSUME SessionAssumption ==
    /\ NumEpisodes \in Nat \ {0} /\ MaxFrames \in Nat \ {0}
    /\ MaxKeys \in Nat /\ MaxSessions \in Nat \ {0}

VARIABLES
    teleop,      \* a teleoperator is there while the environment is reset
    recordPc, resetting,
    exitEarly, rerecord, stopRecording, \* events
    recorded,    \* recorded_episodes of this session
    take,        \* takes begun
    keys, sessions,
    saved,       \* the frames of each episode saved (history)
    discarded,   \* the longest take discarded since one was encoded (history)
    sound        \* how many were saved before a torn one was resumed (history)

events      == <<exitEarly, rerecord, stopRecording>>
sessionVars == <<teleop, recordPc, resetting, events, recorded, take, keys, sessions>>
recordVars  == <<writerVars, sessionVars, saved, discarded, sound>>

RecordInit ==
    /\ CreateDataset
    /\ teleop \in BOOLEAN
    /\ recordPc = "test" /\ resetting = FALSE
    /\ exitEarly = FALSE /\ rerecord = FALSE /\ stopRecording = FALSE
    /\ recorded = 0 /\ take = 1 /\ keys = 0 /\ sessions = 1
    /\ saved = <<>> /\ discarded = 0 /\ sound = TRUE

------------------------------------------------------------------------------
\* The loop tests its time, then exit_early.
TestExitEarly ==
    /\ recordPc = "test"
    /\ recordPc' = IF exitEarly THEN "after" ELSE "body"
    /\ exitEarly' = FALSE
    /\ UNCHANGED <<writerVars, teleop, resetting, rerecord, stopRecording, recorded, take,
                   keys, sessions, saved, discarded, sound>>

RecordFrame(timeout) ==
    /\ recordPc = "body" /\ ~resetting
    /\ AddFrame(<<take, Len(buffer) + 1>>)
    /\ Len(buffer) + 1 = MaxFrames => timeout
    /\ recordPc' = IF timeout THEN "after" ELSE "test"
    /\ UNCHANGED <<teleop, resetting, events, recorded, take, keys, sessions, saved, discarded, sound>>

\* Mutant: every iteration begins again before it takes the time.
ResetIterationUntimed(timeout) ==
    /\ recordPc = "body" /\ resetting /\ ~timeout
    /\ recordPc' = "test"
    /\ UNCHANGED <<writerVars, teleop, resetting, events, recorded, take, keys, sessions,
                   saved, discarded, sound>>

\* With nothing to act with, the reset loop begins again before it takes the time.
ResetIteration(timeout) ==
    /\ recordPc = "body" /\ resetting
    /\ timeout => teleop
    /\ recordPc' = IF timeout THEN "after" ELSE "test"
    /\ UNCHANGED <<writerVars, teleop, resetting, events, recorded, take, keys, sessions,
                   saved, discarded, sound>>

\* Between two takes the environment is reset; then the take is saved, or not.
AfterLoop ==
    /\ recordPc = "after"
    /\ resetting' = (~resetting /\ ~stopRecording /\ (recorded < NumEpisodes - 1 \/ rerecord))
    /\ recordPc' = IF resetting' THEN "test" ELSE "decide"
    /\ UNCHANGED <<writerVars, teleop, events, recorded, take, keys, sessions, saved, discarded, sound>>

Rerecord ==
    /\ recordPc = "decide" /\ rerecord
    /\ rerecord' = FALSE /\ exitEarly' = FALSE
    /\ ClearEpisodeBuffer
    /\ discarded' = IF Len(buffer) > discarded THEN Len(buffer) ELSE discarded
    /\ recordPc' = "next"
    /\ UNCHANGED <<teleop, resetting, stopRecording, recorded, take, keys, sessions, saved, sound>>

NextTake ==
    /\ recordPc = "next"
    /\ IF recorded < NumEpisodes /\ ~stopRecording
       THEN recordPc' = "test" /\ take' = take + 1
       ELSE recordPc' = "finish" /\ UNCHANGED take
    /\ UNCHANGED <<writerVars, teleop, resetting, events, recorded, keys, sessions, saved, discarded, sound>>

(***************************************************************************)
(* save_episode, and what ends a session.                                  *)
(***************************************************************************)
SaveData(roll) ==
    /\ recordPc = "decide" /\ ~rerecord /\ buffer # <<>>
    /\ SaveEpisodeData(roll)
    /\ recordPc' = "encode"
    /\ UNCHANGED <<teleop, resetting, events, recorded, take, keys, sessions, saved, discarded, sound>>

SaveEncodes ==
    /\ recordPc = "encode"
    /\ EncodeVideo
    /\ recordPc' = "video"
    /\ UNCHANGED <<teleop, resetting, events, recorded, take, keys, sessions, saved, discarded, sound>>

SaveVideo(roll) ==
    /\ recordPc = "video"
    /\ SaveEpisodeVideo(roll)
    /\ recordPc' = "metadata"
    /\ UNCHANGED <<teleop, resetting, events, recorded, take, keys, sessions, saved, discarded, sound>>

SaveMetadata ==
    /\ recordPc = "metadata"
    /\ SaveEpisodeMetadata
    /\ saved' = Append(saved, [frames |-> buffer, sound |-> sound, discarded |-> discarded])
    /\ discarded' = 0
    /\ recordPc' = "info"
    /\ UNCHANGED <<teleop, resetting, events, recorded, take, keys, sessions, sound>>

SaveEnds ==
    /\ recordPc = "info"
    /\ SaveInfo
    /\ recorded' = recorded + 1
    /\ recordPc' = "next"
    /\ UNCHANGED <<teleop, resetting, events, take, keys, sessions, saved, discarded, sound>>

FinishSession ==
    /\ recordPc = "finish"
    /\ Finalize(FALSE)
    /\ recordPc' = "ended"
    /\ UNCHANGED <<teleop, resetting, events, recorded, take, keys, sessions, saved, discarded, sound>>

\* An exception: Ctrl-C, an encoder that fails, or a take without frames, which
\* save_episode refuses.  What the session has not saved is given up.
SessionRaises ==
    /\ recordPc # "ended"
    /\ Finalize(TRUE)
    /\ discarded' = IF streaming THEN discarded ELSE 0
    /\ recordPc' = "ended"
    /\ UNCHANGED <<teleop, resetting, events, recorded, take, keys, sessions, saved, sound>>

ResumeSession ==
    /\ recordPc = "ended" /\ sessions < MaxSessions /\ episodes # <<>>
    /\ ResumeDataset
    /\ recordPc' = "test" /\ resetting' = FALSE
    /\ exitEarly' = FALSE /\ rerecord' = FALSE /\ stopRecording' = FALSE
    /\ recorded' = 0 /\ take' = take + 1 /\ sessions' = sessions + 1
    /\ sound' = (sound /\ ~Torn)
    /\ UNCHANGED <<teleop, keys, saved, discarded>>

\* The listener's thread: right, left (take it again) and escape (stop).
PressKey(again, stop) ==
    /\ recordPc # "ended" /\ keys < MaxKeys
    /\ keys' = keys + 1
    /\ exitEarly' = TRUE
    /\ rerecord' = (rerecord \/ again) /\ stopRecording' = (stopRecording \/ stop)
    /\ UNCHANGED <<writerVars, teleop, recordPc, resetting, recorded, take, sessions,
                   saved, discarded, sound>>

RecordRests == recordPc = "ended" /\ UNCHANGED recordVars

------------------------------------------------------------------------------
SessionStep ==
    \/ TestExitEarly
    \/ \E timeout \in BOOLEAN : RecordFrame(timeout) \/ ResetIteration(timeout)
    \/ AfterLoop \/ Rerecord \/ NextTake
    \/ \E roll \in BOOLEAN : SaveData(roll) \/ SaveVideo(roll)
    \/ SaveEncodes \/ SaveMetadata \/ SaveEnds \/ FinishSession
    \/ recordPc = "decide" /\ ~rerecord /\ buffer = <<>> /\ SessionRaises

Keys ==
    \/ PressKey(FALSE, FALSE) \/ PressKey(TRUE, FALSE) \/ PressKey(FALSE, TRUE)

RecordNext == SessionStep \/ Keys \/ SessionRaises \/ ResumeSession \/ RecordRests

\* The session's thread runs, and the time of a loop passes.
RecordFairness ==
    /\ WF_recordVars(SessionStep)
    /\ SF_recordVars(ResetIteration(TRUE))

RecordSpec == RecordInit /\ [][RecordNext]_recordVars /\ RecordFairness

(***************************************************************************)
(* Properties.                                                             *)
(***************************************************************************)
Frames == (1 .. MaxKeys + (NumEpisodes + 1) * MaxSessions) \X (1 .. MaxFrames)

RecordTypeOK ==
    /\ streaming \in BOOLEAN /\ teleop \in BOOLEAN /\ resetting \in BOOLEAN /\ sound \in BOOLEAN
    /\ exitEarly \in BOOLEAN /\ rerecord \in BOOLEAN /\ stopRecording \in BOOLEAN
    /\ dataFiles \in Seq(Seq(Frames)) /\ videoFiles \in Seq(Seq(Frames))
    /\ \A frames \in {buffer, images, stream, encoded} : frames \in Seq(Frames)
    /\ \A i \in DOMAIN episodes : episodes[i] \in [DOMAIN Nowhere -> Nat]
    /\ info.episodes \in Nat /\ info.frames \in Nat
    /\ loadedUpTo <= Len(episodes) /\ metaLatest \in BOOLEAN
    /\ recorded \in 0 .. NumEpisodes /\ keys \in 0 .. MaxKeys /\ sessions \in 1 .. MaxSessions

\* dataset_writer.py, dataset_reader.py: every episode saved is read back, its
\* rows and its images, whatever is recorded, given up or resumed later.  Not so
\* for what is recorded after a save was torn: rows no metadata mention then
\* shift those of all later episodes.
SavedEpisodesReadBack ==
    \A i \in DOMAIN saved :
        saved[i].sound => /\ RowsOf(episodes[i]) = saved[i].frames
                          /\ ImagesOf(episodes[i]) = saved[i].frames

\* encode_video_frames: the video of an episode lasts as long as the episode; or,
\* when it is made of PNG files, as long as the longest take of it, as those of a
\* take that was discarded are still there.
VideoFitsEpisode ==
    \A i \in DOMAIN saved :
        LET length == Len(saved[i].frames)
        IN  episodes[i].stop - episodes[i].start =
                IF streaming \/ saved[i].discarded < length THEN length ELSE saved[i].discarded

\* lerobot_record.py: a session with a teleoperator ends by itself; one without
\* waits for a key each time the environment is reset.
RecordingEnds == teleop => <>[](recordPc = "ended")
==============================================================================
