--------------------------- MODULE StreamingEncoder ---------------------------
(***************************************************************************)
(* StreamingVideoEncoder of datasets/video_utils.py for one camera: the    *)
(* recording thread feeds frames to the thread of the camera through a     *)
(* bounded queue, and finishes or cancels the episode.  Each episode has a *)
(* thread, queues and an event of its own; what is left of a thread that   *)
(* was given up concerns nobody.                                           *)
(***************************************************************************)
EXTENDS Naturals, Sequences

CONSTANTS
    QueueMaxsize,   \* encoder_queue_maxsize
    MaxFed,         \* bound: frames fed to an episode
    MaxEncodings    \* bound: episodes

ASSUME EncoderAssumption ==
    QueueMaxsize \in Nat \ {0} /\ MaxFed \in Nat /\ MaxEncodings \in Nat \ {0}

VARIABLES
    feederPc,    \* where the recording thread is
    episodeNo,
    fed,         \* frames the recording thread has tried to feed
    frameQueue,  \* frames, and 0 for the sentinel
    encoderPc,   \* the camera's thread: none, run, ok or error
    stopEvent,
    video,       \* frames encoded
    result,      \* what finish_episode gave: none, video, late or raised
    accepted     \* frames put in the queue (history)

encoderVars == <<feederPc, episodeNo, fed, frameQueue, encoderPc, stopEvent, video, result, accepted>>

Sentinel == 0

EncoderInit ==
    /\ feederPc = "idle" /\ episodeNo = 0 /\ fed = 0
    /\ frameQueue = <<>> /\ encoderPc = "none" /\ stopEvent = FALSE
    /\ video = <<>> /\ result = "none" /\ accepted = <<>>

(***************************************************************************)
(* The recording thread.                                                   *)
(***************************************************************************)

\* start_episode, with the first frame of an episode.
StartEpisode ==
    /\ feederPc = "idle" /\ episodeNo < MaxEncodings
    /\ feederPc' = "active" /\ episodeNo' = episodeNo + 1 /\ fed' = 0
    /\ frameQueue' = <<>> /\ encoderPc' = "run" /\ stopEvent' = FALSE
    /\ video' = <<>> /\ result' = "none" /\ accepted' = <<>>

\* feed_frame looks whether the thread is alive; if not it raises.
FeedChecks ==
    /\ feederPc = "active" /\ fed < MaxFed
    /\ IF encoderPc = "run"
       THEN feederPc' = "feed" /\ fed' = fed + 1
       ELSE feederPc' = "cancel" /\ UNCHANGED fed
    /\ UNCHANGED <<episodeNo, frameQueue, encoderPc, stopEvent, video, result, accepted>>

FeedPuts ==
    /\ feederPc = "feed" /\ Len(frameQueue) < QueueMaxsize
    /\ frameQueue' = Append(frameQueue, fed)
    /\ accepted' = Append(accepted, fed)
    /\ feederPc' = "active"
    /\ UNCHANGED <<episodeNo, fed, encoderPc, stopEvent, video, result>>

\* No place within the timeout: the frame is dropped.
FeedDrops ==
    /\ feederPc = "feed" /\ Len(frameQueue) = QueueMaxsize
    /\ feederPc' = "active"
    /\ UNCHANGED <<episodeNo, fed, frameQueue, encoderPc, stopEvent, video, result, accepted>>

BeginFinish ==
    /\ feederPc = "active" /\ fed > 0
    /\ feederPc' = "sentinel"
    /\ UNCHANGED <<episodeNo, fed, frameQueue, encoderPc, stopEvent, video, result, accepted>>

\* finish_episode: put(None), with no timeout.
PutSentinel ==
    /\ feederPc = "sentinel" /\ Len(frameQueue) < QueueMaxsize
    /\ frameQueue' = Append(frameQueue, Sentinel)
    /\ feederPc' = "join"
    /\ UNCHANGED <<episodeNo, fed, encoderPc, stopEvent, video, result, accepted>>

\* The thread has ended: its video, or its error, which finish_episode raises.
JoinEncoder ==
    /\ feederPc = "join" /\ encoderPc \in {"ok", "error"}
    /\ result' = IF encoderPc = "ok" THEN "video" ELSE "raised"
    /\ feederPc' = IF encoderPc = "ok" THEN "idle" ELSE "cancel"
    /\ UNCHANGED <<episodeNo, fed, frameQueue, encoderPc, stopEvent, video, accepted>>

\* It has not, after two minutes: it is told to stop, and its file taken as it is.
JoinTimesOut ==
    /\ feederPc = "join" /\ encoderPc = "run"
    /\ stopEvent' = TRUE /\ result' = "late" /\ feederPc' = "idle"
    /\ UNCHANGED <<episodeNo, fed, frameQueue, encoderPc, video, accepted>>

BeginCancel ==
    /\ feederPc = "active"
    /\ feederPc' = "cancel"
    /\ UNCHANGED <<episodeNo, fed, frameQueue, encoderPc, stopEvent, video, result, accepted>>

\* cancel_episode: the thread is told to stop, and joined for a while.
CancelEpisode ==
    /\ feederPc = "cancel"
    /\ stopEvent' = TRUE /\ frameQueue' = <<>> /\ feederPc' = "idle"
    /\ UNCHANGED <<episodeNo, fed, encoderPc, video, result, accepted>>

(***************************************************************************)
(* The camera's thread.                                                    *)
(***************************************************************************)

\* Mutant: statistics go to the result queue, which has one place, at every frame.
EncodePuttingStats ==
    /\ encoderPc = "run" /\ frameQueue # <<>> /\ Head(frameQueue) # Sentinel
    /\ video = <<>>
    /\ video' = Append(video, Head(frameQueue))
    /\ frameQueue' = Tail(frameQueue)
    /\ UNCHANGED <<feederPc, episodeNo, fed, encoderPc, stopEvent, result, accepted>>

EncodeFrame ==
    /\ encoderPc = "run" /\ frameQueue # <<>> /\ Head(frameQueue) # Sentinel
    /\ video' = Append(video, Head(frameQueue))
    /\ frameQueue' = Tail(frameQueue)
    /\ UNCHANGED <<feederPc, episodeNo, fed, encoderPc, stopEvent, result, accepted>>

TakeSentinel ==
    /\ encoderPc = "run" /\ frameQueue # <<>> /\ Head(frameQueue) = Sentinel
    /\ frameQueue' = Tail(frameQueue) /\ encoderPc' = "ok"
    /\ UNCHANGED <<feederPc, episodeNo, fed, stopEvent, video, result, accepted>>

\* Mutant: an empty queue ends the video.
StopOnEmpty ==
    /\ encoderPc = "run" /\ frameQueue = <<>>
    /\ encoderPc' = "ok"
    /\ UNCHANGED <<feederPc, episodeNo, fed, frameQueue, stopEvent, video, result, accepted>>

\* The queue is empty, and the episode given up.
StopWhenTold ==
    /\ encoderPc = "run" /\ frameQueue = <<>> /\ stopEvent
    /\ encoderPc' = "ok"
    /\ UNCHANGED <<feederPc, episodeNo, fed, frameQueue, stopEvent, video, result, accepted>>

\* The encoder raises at a frame, or as it is flushed.
EncodeFails ==
    /\ encoderPc = "run" /\ frameQueue # <<>>
    /\ frameQueue' = Tail(frameQueue) /\ encoderPc' = "error"
    /\ UNCHANGED <<feederPc, episodeNo, fed, stopEvent, video, result, accepted>>

EncoderRests ==
    /\ feederPc = "idle" /\ episodeNo = MaxEncodings /\ UNCHANGED encoderVars

\* finish_episode waits to put the sentinel in the full queue of a dead thread.
FinishBlocked ==
    feederPc = "sentinel" /\ encoderPc = "error" /\ Len(frameQueue) = QueueMaxsize

------------------------------------------------------------------------------
FeederStep ==
    \/ StartEpisode \/ FeedChecks \/ FeedPuts \/ FeedDrops
    \/ BeginFinish \/ PutSentinel \/ JoinEncoder \/ JoinTimesOut
    \/ BeginCancel \/ CancelEpisode

CameraStep == EncodeFrame \/ TakeSentinel \/ StopWhenTold \/ EncodeFails

EncoderNext ==
    \/ FeederStep \/ CameraStep \/ EncoderRests
    \/ FinishBlocked /\ UNCHANGED encoderVars

\* Both threads are scheduled; the encoder need not fail.
EncoderFairness ==
    /\ WF_encoderVars(FeederStep)
    /\ WF_encoderVars(EncodeFrame \/ TakeSentinel \/ StopWhenTold)

EncoderSpec == EncoderInit /\ [][EncoderNext]_encoderVars /\ EncoderFairness

(***************************************************************************)
(* Properties.                                                             *)
(***************************************************************************)
EncoderTypeOK ==
    /\ feederPc \in {"idle", "active", "feed", "sentinel", "join", "cancel"}
    /\ encoderPc \in {"none", "run", "ok", "error"}
    /\ result \in {"none", "video", "late", "raised"}
    /\ episodeNo \in 0 .. MaxEncodings /\ fed \in 0 .. MaxFed /\ stopEvent \in BOOLEAN
    /\ frameQueue \in Seq(0 .. MaxFed) /\ Len(frameQueue) <= QueueMaxsize
    /\ video \in Seq(1 .. MaxFed) /\ accepted \in Seq(1 .. MaxFed)

\* finish_episode: the video it returns holds every frame that was not dropped, in
\* order, and no frame of an episode before; a thread that failed gives none.
EncodedInOrder == result = "video" => video = accepted

\* finish_episode returns, whatever the encoder does, except when its thread
\* failed while the queue was full: the sentinel is put with no timeout.
FinishReturns ==
    feederPc \in {"sentinel", "join"} ~>
        (feederPc \notin {"sentinel", "join"} \/ FinishBlocked)
==============================================================================
