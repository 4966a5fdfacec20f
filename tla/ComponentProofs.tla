----------------------------- MODULE ComponentProofs -----------------------------
(***************************************************************************)
(* Theorems about the parts that MCComponents puts side by side, for every *)
(* value of their constants.                                               *)
(*                                                                         *)
(* Recording: a streaming encoder returns the frames it accepted, in       *)
(* order; the video of each episode saved has the length that the frames   *)
(* and the PNG files left by discarded takes give it; and what was saved   *)
(* is read back, rows and images, whatever sessions are given up and       *)
(* resumed.                                                                *)
(*                                                                         *)
(* Devices: the watchdog of LeKiwiHost stops a base that is no longer sent *)
(* commands, a read of CameraReader returns a fresh frame, and an arm of   *)
(* SoFollower that runs is measured as it was calibrated.                  *)
(*                                                                         *)
(* At the end, the types of all the parts.                                 *)
(***************************************************************************)
EXTENDS MCComponents, ActorLearnerProofs, SequenceLemmas

USE EncoderAssumption

\* While the episode is fed to its thread, what is encoded and what waits is what was
\* accepted, followed by the sentinel once it is put.
NothingLost ==
    feederPc \in {"active", "feed", "sentinel", "join"} =>
        /\ ~stopEvent /\ result = "none"
        /\ encoderPc = "run" =>
              video \o frameQueue =
                  IF feederPc = "join" THEN Append(accepted, Sentinel) ELSE accepted
        /\ encoderPc = "ok" => feederPc = "join" /\ video = accepted

\* A frame is counted before it is put.
FedFirst == feederPc = "feed" => fed > 0

\* A video is reported once the whole episode was encoded.
VideoDone == result = "video" => feederPc = "idle" /\ encoderPc = "ok" /\ video = accepted

EncoderInv == EncoderTypeOK /\ NothingLost /\ FedFirst /\ VideoDone

\* Taking the first frame of the queue and encoding it leaves what is encoded, followed
\* by what waits, as it was.
LEMMA EncodeKeepsOrder ==
    ASSUME NEW S, NEW v \in Seq(S), NEW q \in Seq(S), q # <<>>
    PROVE  Append(v, Head(q)) \o Tail(q) = v \o q
<1>1. /\ Append(v, Head(q)) \in Seq(S) /\ Tail(q) \in Seq(S) /\ Head(q) \in S
      /\ Len(Append(v, Head(q))) = Len(v) + 1 /\ Len(Tail(q)) = Len(q) - 1
    OBVIOUS
<1>2. \A i \in 1 .. Len(v) + Len(q) :
          (Append(v, Head(q)) \o Tail(q))[i] = (v \o q)[i]
    BY <1>1
<1>3. /\ Append(v, Head(q)) \o Tail(q) \in Seq(S) /\ v \o q \in Seq(S)
      /\ Len(Append(v, Head(q)) \o Tail(q)) = Len(v) + Len(q) /\ Len(v \o q) = Len(v) + Len(q)
    BY <1>1
<1> QED BY <1>2, <1>3, SeqEqual

\* What is put at the end of the queue is what will be encoded last.
LEMMA AppendLast ==
    ASSUME NEW S, NEW v \in Seq(S), NEW q \in Seq(S), NEW x \in S
    PROVE  v \o Append(q, x) = Append(v \o q, x)
<1>1. /\ Append(q, x) \in Seq(S) /\ Len(Append(q, x)) = Len(q) + 1
      /\ v \o q \in Seq(S) /\ Len(v \o q) = Len(v) + Len(q)
    OBVIOUS
<1>2. \A i \in 1 .. Len(v) + Len(q) + 1 : (v \o Append(q, x))[i] = Append(v \o q, x)[i]
    BY <1>1
<1>3. /\ v \o Append(q, x) \in Seq(S) /\ Append(v \o q, x) \in Seq(S)
      /\ Len(v \o Append(q, x)) = Len(v) + Len(q) + 1
      /\ Len(Append(v \o q, x)) = Len(v) + Len(q) + 1
    BY <1>1
<1> QED BY <1>2, <1>3, SeqEqual

\* The frame that follows those encoded is the first of the queue.
LEMMA HeadOfSecond ==
    ASSUME NEW S, NEW v \in Seq(S), NEW q \in Seq(S), q # <<>>
    PROVE  (v \o q)[Len(v) + 1] = q[1]
<1>1. Len(v) \in Nat /\ Len(q) \in Nat \ {0}
    OBVIOUS
<1>2. Len(v) + 1 \in 1 .. Len(v) + Len(q) /\ ~(Len(v) + 1 <= Len(v)) /\ Len(v) + 1 - Len(v) = 1
    BY <1>1
<1> QED BY <1>2, ConcatProperties

\* When the sentinel is the next to be taken, everything accepted has been encoded.
LEMMA SentinelLast ==
    ASSUME NEW v \in Seq(1 .. MaxFed), NEW a \in Seq(1 .. MaxFed), NEW q \in Seq(0 .. MaxFed),
           q # <<>>, Head(q) = Sentinel, v \o q = Append(a, Sentinel)
    PROVE  v = a
<1>1. v \in Seq(0 .. MaxFed) /\ a \in Seq(0 .. MaxFed) /\ Len(q) \in Nat \ {0} /\ q[1] = 0
    BY DEF Sentinel
<1>2. Len(v) + Len(q) = Len(a) + 1
    BY <1>1 DEF Sentinel
<1>3. (v \o q)[Len(v) + 1] = 0
    BY <1>1, HeadOfSecond
<1>4. Len(v) = Len(a)
    <2>1. SUFFICES ASSUME Len(v) < Len(a) PROVE FALSE
        BY <1>1, <1>2
    <2>2. Append(a, Sentinel)[Len(v) + 1] = a[Len(v) + 1] /\ a[Len(v) + 1] \in 1 .. MaxFed
        BY <1>1, <2>1 DEF Sentinel
    <2> QED BY <1>3, <2>2
<1>5. \A i \in 1 .. Len(v) : (v \o q)[i] = v[i] /\ Append(a, Sentinel)[i] = a[i]
    <2> TAKE i \in 1 .. Len(v)
    <2>1. i \in 1 .. Len(v) + Len(q) /\ i <= Len(v)
        BY <1>1
    <2>2. (v \o q)[i] = v[i]
        BY <1>1, <2>1, ConcatProperties
    <2>3. Append(a, Sentinel)[i] = a[i]
        BY <1>1, <1>4
    <2> QED BY <2>2, <2>3
<1>6. \A i \in 1 .. Len(v) : v[i] = a[i]
    BY <1>5
<1> QED BY <1>4, <1>6, SeqEqual

\* The sentinel is not among the frames.
LEMMA NoSentinelYet ==
    ASSUME NEW v \in Seq(1 .. MaxFed), NEW a \in Seq(1 .. MaxFed), NEW q \in Seq(0 .. MaxFed),
           q # <<>>, v \o q = a
    PROVE  Head(q) # Sentinel
<1>1. v \in Seq(0 .. MaxFed) /\ Len(q) \in Nat \ {0} /\ Head(q) = q[1]
    OBVIOUS
<1>2. (v \o q)[Len(v) + 1] = q[1] /\ Len(v \o q) = Len(v) + Len(q)
    BY <1>1
<1>3. a[Len(v) + 1] \in 1 .. MaxFed
    BY <1>1, <1>2
<1> QED BY <1>1, <1>2, <1>3 DEF Sentinel

\* Before the first episode nothing is fed.
LEMMA EncoderInitInv == EncoderInit => EncoderInv
<1> SUFFICES ASSUME EncoderInit PROVE EncoderInv
    OBVIOUS
<1>1. stopEvent \in BOOLEAN
    BY DEF EncoderInit
<1>2. EncoderTypeOK
    BY <1>1 DEF EncoderInit, EncoderTypeOK
<1> QED BY <1>2 DEF EncoderInit, EncoderInv, NothingLost, FedFirst, VideoDone

\* The steps of the thread that records: start_episode, feed_frame, finish_episode
\* and cancel_episode.
LEMMA FeederInv ==
    ASSUME EncoderInv, FeederStep
    PROVE  EncoderInv'
<1> USE DEF EncoderInv, EncoderTypeOK, NothingLost, FedFirst, VideoDone
<1>1. CASE StartEpisode
    <2>1. /\ feederPc' = "active" /\ episodeNo' \in 0 .. MaxEncodings /\ fed' = 0
          /\ frameQueue' = <<>> /\ encoderPc' = "run" /\ ~stopEvent' /\ stopEvent' \in BOOLEAN
          /\ video' = <<>> /\ result' = "none" /\ accepted' = <<>>
        <3>1. episodeNo' \in 0 .. MaxEncodings
            BY <1>1 DEF StartEpisode
        <3> QED BY <1>1, <3>1 DEF StartEpisode
    <2>2. <<>> \o <<>> = <<>>
        OBVIOUS
    <2> QED BY <2>1, <2>2
<1>2. CASE FeedChecks
    BY <1>2 DEF FeedChecks
<1>3. CASE FeedPuts
    <2>1. fed \in 1 .. MaxFed
        BY <1>3 DEF FeedPuts
    <2>2. /\ frameQueue' \in Seq(0 .. MaxFed) /\ Len(frameQueue') <= QueueMaxsize
          /\ accepted' \in Seq(1 .. MaxFed)
        BY <1>3, <2>1 DEF FeedPuts
    <2>3. video \o frameQueue' = Append(video \o frameQueue, fed)
        <3>1. video \in Seq(0 .. MaxFed) /\ fed \in 0 .. MaxFed
            BY <2>1
        <3>2. video \o Append(frameQueue, fed) = Append(video \o frameQueue, fed)
            BY <3>1, AppendLast
        <3> QED BY <1>3, <3>2 DEF FeedPuts
    <2> QED BY <1>3, <2>1, <2>2, <2>3 DEF FeedPuts
<1>4. CASE FeedDrops
    BY <1>4 DEF FeedDrops
<1>5. CASE BeginFinish
    BY <1>5 DEF BeginFinish
<1>6. CASE PutSentinel
    <2>1. frameQueue' \in Seq(0 .. MaxFed) /\ Len(frameQueue') <= QueueMaxsize
        BY <1>6 DEF PutSentinel, Sentinel
    <2>2. video \o frameQueue' = Append(video \o frameQueue, Sentinel)
        <3>1. video \in Seq(0 .. MaxFed) /\ Sentinel \in 0 .. MaxFed
            BY DEF Sentinel
        <3> QED BY <1>6, <3>1, AppendLast DEF PutSentinel
    <2> QED BY <1>6, <2>1, <2>2 DEF PutSentinel
<1>7. CASE JoinEncoder
    BY <1>7 DEF JoinEncoder
<1>8. CASE JoinTimesOut
    BY <1>8 DEF JoinTimesOut
<1>9. CASE BeginCancel
    BY <1>9 DEF BeginCancel
<1>10. CASE CancelEpisode
    BY <1>10 DEF CancelEpisode
<1> QED BY <1>1, <1>2, <1>3, <1>4, <1>5, <1>6, <1>7, <1>8, <1>9, <1>10 DEF FeederStep

\* The steps of the encoder's thread.
LEMMA EncodingInv ==
    ASSUME EncoderInv, CameraStep
    PROVE  EncoderInv'
<1> USE DEF EncoderInv, EncoderTypeOK, NothingLost, FedFirst, VideoDone
<1>0. frameQueue # <<>> =>
          /\ Tail(frameQueue) \in Seq(0 .. MaxFed) /\ Len(Tail(frameQueue)) <= QueueMaxsize
          /\ Head(frameQueue) \in 0 .. MaxFed
    OBVIOUS
<1>1. CASE EncodeFrame
    <2>1. Head(frameQueue) \in 1 .. MaxFed
        BY <1>0, <1>1 DEF EncodeFrame, Sentinel
    <2>2. video' \in Seq(1 .. MaxFed)
        BY <1>1, <2>1 DEF EncodeFrame
    <2>3. video' \o frameQueue' = video \o frameQueue
        <3>1. video \in Seq(0 .. MaxFed)
            OBVIOUS
        <3> QED BY <1>1, <3>1, EncodeKeepsOrder DEF EncodeFrame
    <2> QED BY <1>0, <1>1, <2>2, <2>3 DEF EncodeFrame
<1>2. CASE TakeSentinel
    <2>1. feederPc \in {"active", "feed", "sentinel"} => FALSE
        BY <1>2, NoSentinelYet DEF TakeSentinel
    <2>2. feederPc = "join" => video = accepted
        BY <1>2, SentinelLast DEF TakeSentinel
    <2> QED BY <1>0, <1>2, <2>1, <2>2 DEF TakeSentinel
<1>3. CASE StopWhenTold
    BY <1>3 DEF StopWhenTold
<1>4. CASE EncodeFails
    BY <1>0, <1>4 DEF EncodeFails
<1> QED BY <1>1, <1>2, <1>3, <1>4 DEF CameraStep

\* Whichever thread moves.
LEMMA EncoderStep == EncoderInv /\ [EncoderNext]_encoderVars => EncoderInv'
<1>1. EncoderInv /\ UNCHANGED encoderVars => EncoderInv'
    <2> SUFFICES ASSUME EncoderInv, UNCHANGED encoderVars PROVE EncoderInv'
        OBVIOUS
    <2> USE DEF encoderVars, EncoderInv
    <2>1. EncoderTypeOK'
        BY DEF EncoderTypeOK
    <2>2. NothingLost' /\ FedFirst' /\ VideoDone'
        BY DEF NothingLost, FedFirst, VideoDone
    <2> QED BY <2>1, <2>2
<1> QED BY <1>1, FeederInv, EncodingInv DEF EncoderNext, EncoderRests

\* video_utils.py: the queue of frames stays within queue_maxsize, and what is encoded
\* are frames, never the sentinel.
THEOREM EncoderTypeCorrect == EncoderSpec => []EncoderTypeOK
<1>1. EncoderInv => EncoderTypeOK
    BY DEF EncoderInv
<1> QED BY <1>1, EncoderInitInv, EncoderStep, PTL DEF EncoderSpec

\* finish_episode: the video it returns holds the frames that were accepted, in the order
\* they were fed, whatever was dropped and however the two threads interleave.
THEOREM AlwaysEncodedInOrder == EncoderSpec => []EncodedInOrder
<1>1. EncoderInv => EncodedInOrder
    BY DEF EncoderInv, VideoDone, EncodedInOrder
<1> QED BY <1>1, EncoderInitInv, EncoderStep, PTL DEF EncoderSpec

------------------------------------------------------------------------------
\* How many takes may have begun: one at the start of each session, one after each episode
\* saved, and one for each that was to be taken again, because of a key.
TakesBefore(session) == (NumEpisodes + 1) * (session - 1)
TakesAllowed == keys + TakesBefore(sessions) + recorded + 1

\* A take ends with its last frame, and no more takes begin than are allowed.
SessionInv ==
    /\ recordPc \in {"test", "body", "after", "decide", "encode", "video", "metadata", "info",
                     "next", "finish", "ended"}
    /\ teleop \in BOOLEAN /\ resetting \in BOOLEAN
    /\ exitEarly \in BOOLEAN /\ rerecord \in BOOLEAN /\ stopRecording \in BOOLEAN
    /\ info \in [episodes : Nat, frames : Nat] /\ buffer \in Seq(Frames)
    /\ keys \in 0 .. MaxKeys /\ sessions \in 1 .. MaxSessions /\ take \in Nat \ {0}
    /\ recorded \in 0 .. NumEpisodes
    /\ recordPc \notin {"next", "finish", "ended"} => recorded < NumEpisodes
    /\ Len(buffer) <= MaxFrames
    /\ recordPc \in {"test", "body"} /\ ~resetting => Len(buffer) < MaxFrames
    /\ recordPc \in {"next", "finish", "ended"} => buffer = <<>>
    /\ take + (IF rerecord THEN 1 ELSE 0) + (IF recordPc = "next" THEN 1 ELSE 0) <= TakesAllowed

\* A session adds one take for each of its episodes and the one it starts with.
LEMMA TakesMore ==
    ASSUME NEW session \in Nat \ {0}
    PROVE  /\ TakesBefore(session) \in Nat
           /\ TakesBefore(session + 1) = TakesBefore(session) + NumEpisodes + 1
           /\ session <= MaxSessions =>
                  TakesBefore(session) + NumEpisodes + 1 <= (NumEpisodes + 1) * MaxSessions
<1> DEFINE n == NumEpisodes + 1
           s == session - 1
<1>1. NumEpisodes \in Nat /\ n \in Nat /\ s \in Nat /\ MaxSessions \in Nat
    BY SessionAssumption
<1>2. TakesBefore(session) = n * s /\ TakesBefore(session + 1) = n * (s + 1)
  <2>1. (session + 1) - 1 = s + 1
      OBVIOUS
  <2> QED BY <2>1 DEF TakesBefore
<1>3. n = NumEpisodes + 1
    OBVIOUS
<1>4. session <= MaxSessions => s + 1 <= MaxSessions
    BY <1>1
<1> HIDE DEF n, s
<1>5. n * s \in Nat /\ n * (s + 1) = n * s + n
    BY <1>1
<1>6. ASSUME s + 1 <= MaxSessions PROVE n * s + n <= n * MaxSessions
  <2> DEFINE rest == MaxSessions - (s + 1)
  <2>1. rest \in Nat /\ MaxSessions = s + 1 + rest
      BY <1>1, <1>6
  <2> HIDE DEF rest
  <2>2. n * MaxSessions = n * s + n + n * rest /\ n * rest \in Nat
      BY <1>1, <2>1
  <2> QED BY <1>1, <1>5, <2>2
<1>7. TakesBefore(session) + NumEpisodes + 1 = n * s + n
    BY <1>1, <1>2, <1>3, <1>5
<1>8. TakesBefore(session) \in Nat /\ TakesBefore(session + 1) = TakesBefore(session) + NumEpisodes + 1
    BY <1>1, <1>2, <1>3, <1>5
<1>9. session <= MaxSessions => TakesBefore(session) + NumEpisodes + 1 <= (NumEpisodes + 1) * MaxSessions
    BY <1>3, <1>4, <1>6, <1>7
<1> QED BY <1>8, <1>9

\* The next frame of a take is one of those the types allow.
LEMMA FrameType ==
    ASSUME SessionInv, recordPc = "body", ~resetting
    PROVE  <<take, Len(buffer) + 1>> \in Frames
<1>1. /\ take \in Nat \ {0} /\ keys \in 0 .. MaxKeys /\ sessions \in 1 .. MaxSessions
      /\ recorded \in 0 .. NumEpisodes /\ recorded < NumEpisodes
      /\ Len(buffer) \in Nat /\ Len(buffer) < MaxFrames
    BY DEF SessionInv
<1>a. sessions \in Nat \ {0} /\ sessions <= MaxSessions /\ keys \in Nat /\ recorded \in Nat
  <2>1. MaxSessions \in Nat /\ MaxKeys \in Nat /\ NumEpisodes \in Nat
      BY SessionAssumption
  <2> QED BY <1>1, <2>1
<1>b. /\ TakesBefore(sessions) \in Nat
      /\ TakesBefore(sessions) + NumEpisodes + 1 <= (NumEpisodes + 1) * MaxSessions
  <2>1. sessions \in Nat \ {0} /\ sessions <= MaxSessions
      BY <1>a
  <2> QED BY ONLY <2>1, TakesMore
<1>c. (NumEpisodes + 1) * MaxSessions \in Nat
  <2>1. NumEpisodes + 1 \in Nat /\ MaxSessions \in Nat
      BY SessionAssumption
  <2> DEFINE n == NumEpisodes + 1
  <2>2. n \in Nat
      BY <2>1
  <2> HIDE DEF n
  <2>3. n * MaxSessions \in Nat
      BY ONLY <2>1, <2>2
  <2> QED BY <2>3 DEF n
<1>2. take <= TakesAllowed
  <2>1. take + (IF rerecord THEN 1 ELSE 0) + (IF recordPc = "next" THEN 1 ELSE 0) <= TakesAllowed
      BY DEF SessionInv
  <2> DEFINE a == IF rerecord THEN 1 ELSE 0
             b == IF recordPc = "next" THEN 1 ELSE 0
             allowed == TakesAllowed
  <2>2. a \in Nat /\ b \in Nat
      OBVIOUS
  <2>3. allowed \in Nat
    <3> QED BY <1>1, <1>b DEF TakesAllowed
  <2> HIDE DEF a, b, allowed
  <2>4. take + a + b <= allowed
      BY <2>1 DEF a, b, allowed
  <2>5. take <= allowed
      BY <1>1, <2>2, <2>3, <2>4
  <2> QED BY <2>5 DEF allowed
<1>3. TakesAllowed <= MaxKeys + (NumEpisodes + 1) * MaxSessions
  <2> DEFINE before == TakesBefore(sessions)
             most == (NumEpisodes + 1) * MaxSessions
  <2>1. before \in Nat /\ before + NumEpisodes + 1 <= most /\ most \in Nat
      BY <1>b, <1>c
  <2> HIDE DEF before, most
  <2>2. keys + before + recorded + 1 <= MaxKeys + most
      BY <1>1, <2>1, SessionAssumption
  <2> QED BY <2>2 DEF TakesAllowed, before, most
<1> DEFINE upper == MaxKeys + (NumEpisodes + 1) * MaxSessions
           allowed == TakesAllowed
<1>4. upper \in Int /\ allowed \in Int
  <2>1. MaxKeys \in Nat
      BY SessionAssumption
  <2> DEFINE most == (NumEpisodes + 1) * MaxSessions
             before == TakesBefore(sessions)
  <2>2. most \in Nat /\ before \in Nat
      BY <1>b, <1>c
  <2> HIDE DEF most, before
  <2>3. MaxKeys + most \in Int /\ keys + before + recorded + 1 \in Int
      BY <1>a, <2>1, <2>2
  <2> QED BY <2>3 DEF most, before, TakesAllowed
<1>5. take \in 1 .. upper
  <2>1. take <= allowed /\ allowed <= upper
      BY <1>2, <1>3
  <2> HIDE DEF upper, allowed
  <2> QED BY <1>1, <1>4, <2>1
<1>6. Len(buffer) + 1 \in 1 .. MaxFrames
    BY <1>1, SessionAssumption
<1> QED BY <1>5, <1>6 DEF Frames

\* One take has begun.
LEMMA SessionInitInv == RecordInit => SessionInv
<1> SUFFICES ASSUME RecordInit PROVE SessionInv
    OBVIOUS
<1>1. /\ teleop \in BOOLEAN /\ resetting = FALSE /\ recordPc = "test"
      /\ exitEarly = FALSE /\ rerecord = FALSE /\ stopRecording = FALSE
      /\ recorded = 0 /\ take = 1 /\ keys = 0 /\ sessions = 1
      /\ buffer = <<>> /\ info = [episodes |-> 0, frames |-> 0]
    BY DEF RecordInit, CreateDataset
<1>2. info \in [episodes : Nat, frames : Nat] /\ buffer \in Seq(Frames) /\ Len(buffer) = 0
    BY <1>1
<1>3. /\ resetting \in BOOLEAN /\ exitEarly \in BOOLEAN /\ rerecord \in BOOLEAN
      /\ stopRecording \in BOOLEAN
    BY <1>1
<1>4. /\ keys \in 0 .. MaxKeys /\ sessions \in 1 .. MaxSessions /\ take \in Nat \ {0}
      /\ recorded \in 0 .. NumEpisodes /\ recorded < NumEpisodes /\ 0 < MaxFrames /\ 0 <= MaxFrames
    BY <1>1, SessionAssumption
<1>5. take + (IF rerecord THEN 1 ELSE 0) + (IF recordPc = "next" THEN 1 ELSE 0) <= TakesAllowed
  <2>1. TakesBefore(1) \in Nat
      BY TakesMore
  <2>2. TakesAllowed = 0 + TakesBefore(1) + 0 + 1
      BY <1>1 DEF TakesAllowed
  <2> DEFINE before == TakesBefore(1)
  <2>3. before \in Nat /\ TakesAllowed = before + 1
      BY <2>1, <2>2
  <2> HIDE DEF before
  <2> QED BY <1>1, <2>3
<1> QED BY <1>1, <1>2, <1>3, <1>4, <1>5 DEF SessionInv

\* The takes that may have begun are as many when keys and saves are counted.
LEMMA TakesAllowedIs ==
    ASSUME SessionInv
    PROVE  /\ TakesBefore(sessions) \in Nat /\ keys \in Nat /\ recorded \in Nat /\ take \in Nat \ {0}
           /\ TakesAllowed = keys + TakesBefore(sessions) + recorded + 1
<1>1. sessions \in Nat \ {0} /\ keys \in Nat /\ recorded \in Nat /\ take \in Nat \ {0}
    BY SessionAssumption DEF SessionInv
<1> QED BY <1>1, TakesMore DEF TakesAllowed

\* Steps of the loops.
LEMMA LoopTakes ==
    ASSUME SessionInv,
           \/ TestExitEarly \/ AfterLoop
           \/ \E timeout \in BOOLEAN : ResetIteration(timeout)
           \/ UNCHANGED recordVars
    PROVE  SessionInv'
<1>1. /\ info' = info /\ buffer' = buffer /\ teleop' = teleop /\ rerecord' = rerecord
      /\ stopRecording' = stopRecording /\ recorded' = recorded /\ take' = take
      /\ keys' = keys /\ sessions' = sessions
    BY DEF TestExitEarly, AfterLoop, ResetIteration, recordVars, sessionVars, events,
           writerVars, onDisk, inEpisode
<1>2. /\ \/ recordPc' = recordPc
         \/ recordPc \in {"test", "body", "after"} /\ recordPc' \in {"test", "body", "after", "decide"}
      /\ \/ recordPc' = recordPc /\ resetting' = resetting
         \/ recordPc \in {"test", "body"} /\ resetting' = resetting
         \/ recordPc' = "test" /\ resetting'
         \/ recordPc' = "decide"
    BY DEF TestExitEarly, AfterLoop, ResetIteration, recordVars, sessionVars
<1>3. resetting' \in BOOLEAN /\ exitEarly' \in BOOLEAN
  <2>1. CASE TestExitEarly
    <3>1. resetting' = resetting /\ exitEarly' = FALSE
        BY <2>1 DEF TestExitEarly
    <3> QED BY <3>1 DEF SessionInv
  <2>2. CASE AfterLoop
    <3>1. exitEarly' = exitEarly
        BY <2>2 DEF AfterLoop, events
    <3>2. resetting' = (~resetting /\ ~stopRecording /\ (recorded < NumEpisodes - 1 \/ rerecord))
        BY <2>2 DEF AfterLoop
    <3>3. resetting' \in BOOLEAN
        BY <3>2, Zenon
    <3> QED BY <3>1, <3>3 DEF SessionInv
  <2>3. CASE UNCHANGED recordVars \/ \E timeout \in BOOLEAN : ResetIteration(timeout)
    <3>1. resetting' = resetting /\ exitEarly' = exitEarly
        BY <2>3 DEF ResetIteration, recordVars, sessionVars, events
    <3> QED BY <3>1 DEF SessionInv
  <2> QED BY <2>1, <2>2, <2>3
<1>4. recordPc' = "next" <=> recordPc = "next"
    BY <1>2
<1>5. TakesAllowed' = TakesAllowed
    BY <1>1 DEF TakesAllowed
<1>6. take' + (IF rerecord' THEN 1 ELSE 0) + (IF recordPc' = "next" THEN 1 ELSE 0) <= TakesAllowed'
    BY <1>1, <1>4, <1>5 DEF SessionInv
<1>7. recordPc' \in {"test", "body"} /\ ~resetting' => Len(buffer') < MaxFrames
    BY <1>1, <1>2 DEF SessionInv
<1>8. /\ recordPc' \in {"test", "body", "after", "decide", "encode", "video", "metadata", "info",
                        "next", "finish", "ended"}
      /\ recordPc' \notin {"next", "finish", "ended"} => recorded' < NumEpisodes
      /\ recordPc' \in {"next", "finish", "ended"} => buffer' = <<>>
    BY <1>1, <1>2 DEF SessionInv
<1> QED BY <1>1, <1>3, <1>6, <1>7, <1>8 DEF SessionInv

\* A key may ask for one take more.
LEMMA KeyTakes ==
    ASSUME SessionInv, NEW again \in BOOLEAN, NEW stop \in BOOLEAN, PressKey(again, stop)
    PROVE  SessionInv'
<1>1. /\ info' = info /\ buffer' = buffer /\ teleop' = teleop /\ resetting' = resetting
      /\ recorded' = recorded /\ take' = take /\ recordPc' = recordPc /\ sessions' = sessions
      /\ keys' = keys + 1 /\ keys < MaxKeys
      /\ exitEarly' = TRUE /\ rerecord' = (rerecord \/ again) /\ stopRecording' = (stopRecording \/ stop)
    BY DEF PressKey, writerVars, onDisk, inEpisode
<1>2. exitEarly' \in BOOLEAN /\ rerecord' \in BOOLEAN /\ stopRecording' \in BOOLEAN
  <2>1. exitEarly' \in BOOLEAN
      BY <1>1
  <2>2. rerecord' \in BOOLEAN
      BY <1>1, Zenon
  <2>3. stopRecording' \in BOOLEAN
      BY <1>1, Zenon
  <2> QED BY <2>1, <2>2, <2>3
<1>3. keys' \in 0 .. MaxKeys
  <2>1. keys \in 0 .. MaxKeys
      BY DEF SessionInv
  <2> QED BY <1>1, <2>1, SessionAssumption
<1>4. take' + (IF rerecord' THEN 1 ELSE 0) + (IF recordPc' = "next" THEN 1 ELSE 0) <= TakesAllowed'
  <2> DEFINE a == IF rerecord THEN 1 ELSE 0
             a1 == IF rerecord' THEN 1 ELSE 0
             b == IF recordPc = "next" THEN 1 ELSE 0
             before == TakesBefore(sessions)
  <2>1. a \in 0 .. 1 /\ a1 \in 0 .. 1 /\ b \in 0 .. 1
      OBVIOUS
  <2>2. before \in Nat /\ keys \in Nat /\ recorded \in Nat /\ take \in Nat
      BY TakesAllowedIs
  <2>3. take + a + b <= keys + before + recorded + 1
    <3>1. take + a + b <= TakesAllowed
        BY DEF SessionInv
    <3> QED BY <3>1, TakesAllowedIs
  <2>4. TakesAllowed' = (keys + 1) + before + recorded + 1
      BY <1>1 DEF TakesAllowed
  <2> HIDE DEF a, a1, b, before
  <2>5. take + a1 + b <= (keys + 1) + before + recorded + 1
      BY <2>1, <2>2, <2>3
  <2>6. take' + a1 + b <= TakesAllowed'
      BY <1>1, <2>4, <2>5
  <2> QED BY <1>1, <2>6 DEF a1, b
<1> QED BY <1>1, <1>2, <1>3, <1>4 DEF SessionInv

\* A frame more, and the last one ends the loop.
LEMMA FrameTakes ==
    ASSUME SessionInv, NEW timeout \in BOOLEAN, RecordFrame(timeout)
    PROVE  SessionInv'
<1> DEFINE frame == <<take, Len(buffer) + 1>>
<1>1. /\ info' = info /\ teleop' = teleop /\ resetting' = resetting /\ rerecord' = rerecord
      /\ exitEarly' = exitEarly /\ stopRecording' = stopRecording /\ recorded' = recorded
      /\ take' = take /\ keys' = keys /\ sessions' = sessions
      /\ recordPc = "body" /\ ~resetting /\ buffer' = Append(buffer, frame)
      /\ Len(buffer) + 1 = MaxFrames => timeout
      /\ recordPc' = IF timeout THEN "after" ELSE "test"
    BY DEF RecordFrame, AddFrame, events, onDisk
<1>2. frame \in Frames
    BY <1>1, FrameType
<1>3. buffer \in Seq(Frames) /\ Len(buffer) < MaxFrames
    BY <1>1 DEF SessionInv
<1> HIDE DEF frame
<1>4. buffer' \in Seq(Frames) /\ Len(buffer') = Len(buffer) + 1 /\ Len(buffer) \in Nat
    BY <1>1, <1>2, <1>3
<1>5. /\ Len(buffer') <= MaxFrames
      /\ recordPc' \in {"test", "body"} => Len(buffer') < MaxFrames
  <2> DEFINE n == Len(buffer)
             m == Len(buffer')
  <2>1. n \in Nat /\ m = n + 1 /\ n < MaxFrames /\ MaxFrames \in Nat
      BY <1>3, <1>4, SessionAssumption
  <2>2. n + 1 = MaxFrames => recordPc' = "after"
      BY <1>1
  <2> HIDE DEF n, m
  <2>3. m <= MaxFrames /\ (n + 1 # MaxFrames => m < MaxFrames)
      BY <2>1
  <2>4. recordPc' \in {"test", "body"} => m < MaxFrames
      BY <2>2, <2>3
  <2> QED BY <2>3, <2>4 DEF m
<1>6. take' + (IF rerecord' THEN 1 ELSE 0) + (IF recordPc' = "next" THEN 1 ELSE 0) <= TakesAllowed'
  <2>1. TakesAllowed' = TakesAllowed
      BY <1>1 DEF TakesAllowed
  <2>2. (recordPc' = "next" <=> FALSE) /\ (recordPc = "next" <=> FALSE)
      BY <1>1
  <2> QED BY <1>1, <2>1, <2>2 DEF SessionInv
<1>7. /\ recordPc' \in {"test", "after"} /\ recorded' < NumEpisodes
    BY <1>1 DEF SessionInv
<1> QED BY <1>1, <1>4, <1>5, <1>6, <1>7 DEF SessionInv

\* A take given up, or saved, may be followed by another.
LEMMA TakeEnds ==
    ASSUME SessionInv, Rerecord \/ SaveEnds
    PROVE  SessionInv'
<1>1. /\ teleop' = teleop /\ resetting' = resetting /\ stopRecording' = stopRecording
      /\ take' = take /\ keys' = keys /\ sessions' = sessions
      /\ buffer' = <<>> /\ recordPc' = "next" /\ recordPc \notin {"next", "finish", "ended"}
      /\ \/ /\ rerecord /\ rerecord' = FALSE /\ exitEarly' = FALSE /\ recorded' = recorded /\ info' = info
         \/ /\ rerecord' = rerecord /\ exitEarly' = exitEarly /\ recorded' = recorded + 1
            /\ info' = [episodes |-> info.episodes + 1, frames |-> info.frames + Len(buffer)]
    BY DEF Rerecord, SaveEnds, ClearEpisodeBuffer, SaveInfo, events, onDisk
<1>2. buffer' \in Seq(Frames) /\ Len(buffer') = 0
    BY <1>1
<1>3. info' \in [episodes : Nat, frames : Nat]
  <2>1. info \in [episodes : Nat, frames : Nat] /\ buffer \in Seq(Frames)
      BY DEF SessionInv
  <2>2. info.episodes + 1 \in Nat /\ info.frames + Len(buffer) \in Nat
      BY <2>1
  <2> QED BY <1>1, <2>1, <2>2
<1>4. rerecord' \in BOOLEAN /\ exitEarly' \in BOOLEAN
  <2>1. rerecord \in BOOLEAN /\ exitEarly \in BOOLEAN
      BY DEF SessionInv
  <2>2. rerecord' = FALSE \/ rerecord' = rerecord
      BY <1>1
  <2>3. exitEarly' = FALSE \/ exitEarly' = exitEarly
      BY <1>1
  <2>4. rerecord' \in BOOLEAN
      BY <2>1, <2>2, Zenon
  <2>5. exitEarly' \in BOOLEAN
      BY <2>1, <2>3, Zenon
  <2> QED BY <2>4, <2>5
<1>5. recorded' \in 0 .. NumEpisodes
  <2>1. recorded \in 0 .. NumEpisodes /\ recorded < NumEpisodes
      BY <1>1 DEF SessionInv
  <2> QED BY <1>1, <2>1, SessionAssumption
<1>6. take' + (IF rerecord' THEN 1 ELSE 0) + (IF recordPc' = "next" THEN 1 ELSE 0) <= TakesAllowed'
  <2> DEFINE a == IF rerecord THEN 1 ELSE 0
             a1 == IF rerecord' THEN 1 ELSE 0
             before == TakesBefore(sessions)
  <2>1. a \in 0 .. 1 /\ a1 \in 0 .. 1
      OBVIOUS
  <2>2. before \in Nat /\ keys \in Nat /\ recorded \in Nat /\ take \in Nat
      BY TakesAllowedIs
  <2>3. take + a <= keys + before + recorded + 1
    <3>1. take + a + (IF recordPc = "next" THEN 1 ELSE 0) <= TakesAllowed
        BY DEF SessionInv
    <3>2. (IF recordPc = "next" THEN 1 ELSE 0) = 0
        BY <1>1
    <3> HIDE DEF a
    <3> QED BY <2>1, <2>2, <3>1, <3>2, TakesAllowedIs
  <2>4. TakesAllowed' = keys + before + recorded' + 1
      BY <1>1 DEF TakesAllowed
  <2>5. (a = 1 /\ a1 = 0 /\ recorded' = recorded) \/ (a1 = a /\ recorded' = recorded + 1)
      BY <1>1
  <2> HIDE DEF a, a1, before
  <2>6. take + a1 + 1 <= keys + before + recorded' + 1
    <3>1. CASE a = 1 /\ a1 = 0 /\ recorded' = recorded
        BY <2>2, <2>3, <3>1
    <3>2. CASE a1 = a /\ recorded' = recorded + 1
        BY <2>1, <2>2, <2>3, <3>2
    <3> QED BY <2>5, <3>1, <3>2
  <2>7. take' + a1 + 1 <= TakesAllowed'
      BY <1>1, <2>4, <2>6
  <2> QED BY <1>1, <2>7 DEF a1
<1>7. 0 <= MaxFrames
    BY SessionAssumption
<1> QED BY <1>1, <1>2, <1>3, <1>4, <1>5, <1>6, <1>7 DEF SessionInv

\* Another take begins, while there are episodes to record.
LEMMA NextTakes ==
    ASSUME SessionInv, NextTake
    PROVE  SessionInv'
<1>1. /\ info' = info /\ buffer' = buffer /\ teleop' = teleop /\ resetting' = resetting
      /\ rerecord' = rerecord /\ exitEarly' = exitEarly /\ stopRecording' = stopRecording
      /\ recorded' = recorded /\ keys' = keys /\ sessions' = sessions /\ recordPc = "next"
      /\ \/ recorded < NumEpisodes /\ recordPc' = "test" /\ take' = take + 1
         \/ recordPc' = "finish" /\ take' = take
    BY DEF NextTake, writerVars, onDisk, inEpisode, events
<1>2. buffer = <<>> /\ Len(buffer) = 0 /\ 0 < MaxFrames
    BY <1>1, SessionAssumption DEF SessionInv
<1>3. /\ take' \in Nat \ {0}
      /\ take' + (IF rerecord' THEN 1 ELSE 0) + (IF recordPc' = "next" THEN 1 ELSE 0) <= TakesAllowed'
  <2> DEFINE a == IF rerecord THEN 1 ELSE 0
             allowed == TakesAllowed
  <2>1. a \in 0 .. 1 /\ take \in Nat \ {0}
      BY TakesAllowedIs
  <2>2. take + a + 1 <= allowed
      BY <1>1 DEF SessionInv
  <2>3. allowed \in Nat
    <3> HIDE DEF a
    <3> QED BY TakesAllowedIs
  <2>4. TakesAllowed' = allowed
      BY <1>1 DEF TakesAllowed
  <2>5. (IF recordPc' = "next" THEN 1 ELSE 0) = 0 /\ (IF rerecord' THEN 1 ELSE 0) = a
      BY <1>1
  <2> HIDE DEF a, allowed
  <2>6. take' \in Nat \ {0} /\ take' + a + 0 <= allowed
      BY <1>1, <2>1, <2>2, <2>3
  <2> QED BY <2>4, <2>5, <2>6
<1>4. /\ recordPc' \in {"test", "finish"} /\ buffer' = <<>> /\ Len(buffer') < MaxFrames
      /\ recordPc' = "test" => recorded' < NumEpisodes
    BY <1>1, <1>2
<1> QED BY <1>1, <1>3, <1>4 DEF SessionInv

\* The steps of a save, but for its last, leave the buffer alone.
LEMMA SaveTakes ==
    ASSUME SessionInv,
           \/ \E roll \in BOOLEAN : SaveData(roll) \/ SaveVideo(roll)
           \/ SaveEncodes \/ SaveMetadata
    PROVE  SessionInv'
<1>1. /\ info' = info /\ buffer' = buffer /\ teleop' = teleop /\ resetting' = resetting
      /\ rerecord' = rerecord /\ exitEarly' = exitEarly /\ stopRecording' = stopRecording
      /\ recorded' = recorded /\ take' = take /\ keys' = keys /\ sessions' = sessions
      /\ recordPc \in {"decide", "encode", "video", "metadata"}
      /\ recordPc' \in {"encode", "video", "metadata", "info"}
    BY DEF SaveData, SaveVideo, SaveEncodes, SaveMetadata, SaveEpisodeData, SaveEpisodeVideo,
           EncodeVideo, SaveEpisodeMetadata, events, onDisk, inEpisode
<1>2. take' + (IF rerecord' THEN 1 ELSE 0) + (IF recordPc' = "next" THEN 1 ELSE 0) <= TakesAllowed'
  <2>1. TakesAllowed' = TakesAllowed
      BY <1>1 DEF TakesAllowed
  <2>2. (recordPc' = "next" <=> FALSE) /\ (recordPc = "next" <=> FALSE)
      BY <1>1
  <2> QED BY <1>1, <2>1, <2>2 DEF SessionInv
<1> QED BY <1>1, <1>2 DEF SessionInv

\* The session ends, and no take goes on.
LEMMA FinishTakes ==
    ASSUME SessionInv, FinishSession \/ SessionRaises
    PROVE  SessionInv'
<1>1. /\ info' = info /\ buffer' = <<>> /\ teleop' = teleop /\ resetting' = resetting
      /\ rerecord' = rerecord /\ exitEarly' = exitEarly /\ stopRecording' = stopRecording
      /\ recorded' = recorded /\ take' = take /\ keys' = keys /\ sessions' = sessions
      /\ recordPc' = "ended"
    BY DEF FinishSession, SessionRaises, Finalize, events, onDisk
<1>2. buffer' \in Seq(Frames) /\ Len(buffer') = 0 /\ 0 <= MaxFrames
    BY <1>1, SessionAssumption
<1>3. take' + (IF rerecord' THEN 1 ELSE 0) + (IF recordPc' = "next" THEN 1 ELSE 0) <= TakesAllowed'
  <2> DEFINE a == IF rerecord THEN 1 ELSE 0
             b == IF recordPc = "next" THEN 1 ELSE 0
             allowed == TakesAllowed
  <2>1. a \in 0 .. 1 /\ b \in 0 .. 1 /\ take \in Nat
      BY TakesAllowedIs
  <2>2. take + a + b <= allowed
      BY DEF SessionInv
  <2>3. allowed \in Nat
    <3> HIDE DEF a, b
    <3> QED BY TakesAllowedIs
  <2>4. TakesAllowed' = allowed
      BY <1>1 DEF TakesAllowed
  <2>5. (IF recordPc' = "next" THEN 1 ELSE 0) = 0 /\ (IF rerecord' THEN 1 ELSE 0) = a
      BY <1>1
  <2> HIDE DEF a, b, allowed
  <2>6. take + a + 0 <= allowed
      BY <2>1, <2>2, <2>3
  <2> QED BY <1>1, <2>4, <2>5, <2>6
<1> QED BY <1>1, <1>2, <1>3 DEF SessionInv

\* Another session begins with a take of its own.
LEMMA ResumeTakes ==
    ASSUME SessionInv, ResumeSession
    PROVE  SessionInv'
<1>1. /\ info' = info /\ buffer' = <<>> /\ teleop' = teleop /\ resetting' = FALSE
      /\ rerecord' = FALSE /\ exitEarly' = FALSE /\ stopRecording' = FALSE
      /\ recorded' = 0 /\ take' = take + 1 /\ keys' = keys /\ sessions' = sessions + 1
      /\ recordPc' = "test" /\ sessions < MaxSessions
    BY DEF ResumeSession, ResumeDataset, onDisk
<1>2. buffer' \in Seq(Frames) /\ Len(buffer') = 0 /\ 0 < MaxFrames /\ 0 <= MaxFrames
    BY <1>1, SessionAssumption
<1>3. resetting' \in BOOLEAN /\ rerecord' \in BOOLEAN /\ exitEarly' \in BOOLEAN /\ stopRecording' \in BOOLEAN
    BY <1>1
<1>4. sessions' \in 1 .. MaxSessions /\ recorded' \in 0 .. NumEpisodes /\ recorded' < NumEpisodes
  <2>1. sessions \in 1 .. MaxSessions
      BY DEF SessionInv
  <2> QED BY <1>1, <2>1, SessionAssumption
<1>5. /\ take' \in Nat \ {0}
      /\ take' + (IF rerecord' THEN 1 ELSE 0) + (IF recordPc' = "next" THEN 1 ELSE 0) <= TakesAllowed'
  <2> DEFINE a == IF rerecord THEN 1 ELSE 0
             b == IF recordPc = "next" THEN 1 ELSE 0
             before == TakesBefore(sessions)
             after == TakesBefore(sessions + 1)
  <2>1. a \in 0 .. 1 /\ b \in 0 .. 1 /\ take \in Nat \ {0} /\ before \in Nat /\ keys \in Nat
      BY TakesAllowedIs
  <2>2. take + a + b <= keys + before + recorded + 1
    <3>1. take + a + b <= TakesAllowed
        BY DEF SessionInv
    <3> QED BY <3>1, TakesAllowedIs
  <2>3. after = before + NumEpisodes + 1
    <3>1. sessions \in Nat \ {0}
        BY SessionAssumption DEF SessionInv
    <3> QED BY <3>1, TakesMore
  <2>4. recorded \in Nat /\ recorded <= NumEpisodes /\ NumEpisodes \in Nat
      BY SessionAssumption DEF SessionInv
  <2>5. TakesAllowed' = keys + after + 0 + 1
      BY <1>1 DEF TakesAllowed
  <2>6. (IF recordPc' = "next" THEN 1 ELSE 0) = 0 /\ (IF rerecord' THEN 1 ELSE 0) = 0
      BY <1>1
  <2> HIDE DEF a, b, before, after
  <2>7. take + 1 <= keys + after + 0 + 1 /\ take + 1 \in Nat \ {0}
      BY <2>1, <2>2, <2>3, <2>4
  <2>8. take' + 0 + 0 <= TakesAllowed'
      BY <1>1, <2>1, <2>5, <2>7
  <2> QED BY <1>1, <2>6, <2>7, <2>8
<1> QED BY <1>1, <1>2, <1>3, <1>4, <1>5 DEF SessionInv

\* Every step of a session, of the keys and of a resumption.
LEMMA SessionStepInv == SessionInv /\ [RecordNext]_recordVars => SessionInv'
<1> SUFFICES ASSUME SessionInv, [RecordNext]_recordVars PROVE SessionInv'
    OBVIOUS
<1>1. CASE TestExitEarly \/ AfterLoop \/ RecordRests \/ UNCHANGED recordVars
    BY <1>1, LoopTakes DEF RecordRests
<1>2. CASE \E timeout \in BOOLEAN : RecordFrame(timeout) \/ ResetIteration(timeout)
    BY <1>2, LoopTakes, FrameTakes
<1>3. CASE Keys
    BY <1>3, KeyTakes DEF Keys
<1>4. CASE Rerecord \/ SaveEnds
    BY <1>4, TakeEnds
<1>5. CASE NextTake
    BY <1>5, NextTakes
<1>6. CASE \/ \E roll \in BOOLEAN : SaveData(roll) \/ SaveVideo(roll)
           \/ SaveEncodes \/ SaveMetadata
    BY <1>6, SaveTakes
<1>7. CASE FinishSession \/ SessionRaises
    BY <1>7, FinishTakes
<1>8. CASE ResumeSession
    BY <1>8, ResumeTakes
<1> QED BY <1>1, <1>2, <1>3, <1>4, <1>5, <1>6, <1>7, <1>8 DEF RecordNext, SessionStep

EpisodeRow == [data : Nat, from : Nat, to : Nat, video : Nat, start : Nat, stop : Nat]

\* The parts of the type that a video's length depends on.
SavingTypes ==
    /\ streaming \in BOOLEAN /\ sound \in BOOLEAN /\ metaLatest \in BOOLEAN
    /\ buffer \in Seq(Frames) /\ images \in Seq(Frames)
    /\ stream \in Seq(Frames) /\ encoded \in Seq(Frames)
    /\ episodes \in Seq(EpisodeRow) /\ placed \in EpisodeRow
    /\ latest \in {<<>>} \cup [data : Nat, to : Nat]
    /\ loadedUpTo \in 0 .. Len(episodes)
    /\ metaLatest => episodes # <<>>
    /\ take \in Nat /\ discarded \in Nat
    /\ saved \in Seq([frames : Seq(Frames), sound : BOOLEAN, discarded : Nat])
    /\ Len(saved) = Len(episodes)

\* The length that the video of the episode in the buffer is to have.
VideoLength == IF streaming \/ discarded < Len(buffer) THEN Len(buffer) ELSE discarded

\* The PNG files that are there: those of the buffer and of the longest take discarded.
ImagesLeft ==
    ~streaming =>
        /\ recordPc \in {"test", "body", "after", "decide", "next", "finish", "encode", "ended"} =>
              Len(images) = IF discarded < Len(buffer) THEN Len(buffer) ELSE discarded
        /\ recordPc \in {"video", "metadata", "info"} => images = <<>>
        /\ recordPc = "info" => discarded = 0

\* The streaming encoder was fed the frames of the buffer.
StreamFed == streaming /\ recordPc \notin {"video", "metadata", "info"} => stream = buffer

\* Between two takes, and after the session, nothing is in the buffer.
BufferCleared == recordPc \in {"next", "finish", "ended"} => buffer = <<>>

\* The length goes from the images or the stream to the temporary video, and from there
\* to the row of the metadata.
LengthComes ==
    /\ recordPc = "video" => Len(encoded) = VideoLength
    /\ recordPc = "metadata" => placed.stop - placed.start = VideoLength

SavingInv ==
    /\ SavingTypes /\ ImagesLeft /\ StreamFed /\ BufferCleared /\ LengthComes
    /\ VideoFitsEpisode

\* A PNG file either replaces one of a discarded take or comes after the last.
LEMMA PutLength ==
    ASSUME NEW S, NEW s \in Seq(S), NEW e \in S, NEW i \in 1 .. Len(s) + 1
    PROVE  /\ Put(s, i, e) \in Seq(S)
           /\ Len(Put(s, i, e)) = IF i <= Len(s) THEN Len(s) ELSE Len(s) + 1
<1>1. CASE i <= Len(s)
    BY <1>1 DEF Put
<1>2. CASE ~(i <= Len(s))
    BY <1>2 DEF Put
<1> QED BY <1>1, <1>2

\* An empty buffer.
LEMMA NoFrames == <<>> \in Seq(Frames) /\ Len(<<>>) = 0
OBVIOUS

\* A dataset just created.
LEMMA SavingInitInv == RecordInit => SavingInv
<1> SUFFICES ASSUME RecordInit PROVE SavingInv
    OBVIOUS
<1> USE DEF RecordInit, CreateDataset
<1>1. sound \in BOOLEAN /\ metaLatest \in BOOLEAN /\ streaming \in BOOLEAN /\ ~metaLatest
    OBVIOUS
<1>2. placed \in EpisodeRow
    BY DEF Nowhere, EpisodeRow
<1>3. SavingTypes
    BY <1>1, <1>2 DEF SavingTypes
<1>4. DOMAIN saved = {}
    OBVIOUS
<1> QED BY <1>3, <1>4 DEF SavingInv, ImagesLeft, StreamFed, BufferCleared, LengthComes,
        VideoFitsEpisode

\* Steps that leave the writer alone, and move between operations that keep the same
\* relation of images, stream and buffer.
LEMMA LoopInv ==
    ASSUME SavingInv,
           \/ TestExitEarly \/ AfterLoop \/ NextTake
           \/ \E timeout \in BOOLEAN : ResetIteration(timeout)
           \/ \E again, stop \in BOOLEAN : PressKey(again, stop)
           \/ UNCHANGED recordVars
    PROVE  SavingInv'
<1>1. UNCHANGED <<writerVars, saved, discarded, sound>>
    BY DEF TestExitEarly, AfterLoop, NextTake, ResetIteration, PressKey, recordVars
<1>2. take' \in Nat
    BY DEF TestExitEarly, AfterLoop, NextTake, ResetIteration, PressKey, recordVars, sessionVars,
       SavingInv, SavingTypes
<1>3. \/ recordPc' = recordPc
      \/ recordPc \in {"test", "body", "after"} /\ recordPc' \in {"test", "body", "after", "decide"}
      \/ recordPc = "next" /\ recordPc' \in {"test", "finish"}
    BY DEF TestExitEarly, AfterLoop, NextTake, ResetIteration, PressKey, recordVars, sessionVars
<1> USE <1>1 DEF writerVars, onDisk, inWriter, inEpisode, SavingInv
<1>4. SavingTypes'
    BY <1>2 DEF SavingTypes
<1>5. ImagesLeft' /\ StreamFed' /\ BufferCleared'
    BY <1>3 DEF ImagesLeft, StreamFed, BufferCleared
<1>6. LengthComes'
    BY <1>3 DEF LengthComes, VideoLength
<1>7. VideoFitsEpisode'
    BY DEF VideoFitsEpisode
<1> QED BY <1>4, <1>5, <1>6, <1>7

\* A frame goes to the buffer, and to the stream or to a PNG file of its number.
LEMMA RecordFrameInv ==
    ASSUME SavingInv, SessionInv, NEW timeout \in BOOLEAN, RecordFrame(timeout)
    PROVE  SavingInv'
<1> DEFINE frame == <<take, Len(buffer) + 1>>
<1> USE DEF SavingInv
<1>1. frame \in Frames
    BY FrameType DEF RecordFrame
<1>2. /\ recordPc = "body" /\ recordPc' \in {"test", "after"}
      /\ UNCHANGED <<streaming, onDisk, inWriter, take, saved, discarded, sound>>
      /\ buffer' = Append(buffer, frame)
      /\ IF streaming
         THEN stream' = Append(stream, frame) /\ UNCHANGED images
         ELSE images' = Put(images, Len(buffer) + 1, frame) /\ UNCHANGED stream
    BY DEF RecordFrame, AddFrame
<1> HIDE DEF frame
<1>3. buffer' \in Seq(Frames) /\ Len(buffer') = Len(buffer) + 1
    BY <1>1, <1>2 DEF SavingTypes
<1>4. stream' \in Seq(Frames)
    <2>1. CASE streaming
        <3>1. stream' = Append(stream, frame)
            BY <1>2, <2>1
        <3> QED BY <1>1, <3>1 DEF SavingTypes
    <2>2. CASE ~streaming
        <3>1. stream' = stream
            BY <1>2, <2>2
        <3> QED BY <3>1 DEF SavingTypes
    <2> QED BY <2>1, <2>2
<1>5. ~streaming => /\ Len(buffer) + 1 \in 1 .. Len(images) + 1
                    /\ images' = Put(images, Len(buffer) + 1, frame)
    BY <1>2 DEF SavingTypes, ImagesLeft
<1>6. images' \in Seq(Frames)
    BY <1>1, <1>2, <1>5, PutLength DEF SavingTypes
<1>7. ~streaming => Len(images') = IF Len(buffer) + 1 <= Len(images) THEN Len(images) ELSE Len(images) + 1
  <2> SUFFICES ASSUME ~streaming
               PROVE  Len(images') = IF Len(buffer) + 1 <= Len(images) THEN Len(images) ELSE Len(images) + 1
      OBVIOUS
  <2> DEFINE i == Len(buffer) + 1
  <2>1. /\ images \in Seq(Frames) /\ i \in 1 .. Len(images) + 1
        /\ images' = Put(images, i, frame)
      BY <1>5 DEF SavingTypes
  <2> HIDE DEF i
  <2>2. Len(images') = IF i <= Len(images) THEN Len(images) ELSE Len(images) + 1
      BY ONLY <1>1, <2>1, PutLength
  <2> QED BY <2>2 DEF i
<1>8. SavingTypes'
    BY <1>2, <1>3, <1>4, <1>6 DEF SavingTypes, onDisk, inWriter
<1>9. ImagesLeft'
    BY <1>2, <1>3, <1>7 DEF ImagesLeft, SavingTypes
<1>10. StreamFed'
    BY <1>2 DEF StreamFed
<1>11. BufferCleared' /\ LengthComes'
    BY <1>2 DEF BufferCleared, LengthComes
<1>12. VideoFitsEpisode'
    BY <1>2 DEF VideoFitsEpisode, onDisk
<1> QED BY <1>8, <1>9, <1>10, <1>11, <1>12

\* A take is discarded: its PNG files stay, and may outlast those of the next.
LEMMA RerecordInv ==
    ASSUME SavingInv, Rerecord
    PROVE  SavingInv'
<1>1. /\ recordPc = "decide" /\ recordPc' = "next"
      /\ UNCHANGED <<streaming, onDisk, inWriter, images, take, saved, sound>>
      /\ buffer' = <<>> /\ stream' = <<>>
      /\ discarded' = IF Len(buffer) > discarded THEN Len(buffer) ELSE discarded
    BY DEF Rerecord, ClearEpisodeBuffer
<1> USE DEF SavingInv
<1>2. SavingTypes'
    BY <1>1, NoFrames DEF SavingTypes, onDisk, inWriter
<1>3. ImagesLeft'
    BY <1>1, NoFrames DEF ImagesLeft, SavingTypes
<1>4. StreamFed' /\ BufferCleared' /\ LengthComes'
    BY <1>1 DEF StreamFed, BufferCleared, LengthComes
<1>5. VideoFitsEpisode'
    BY <1>1 DEF VideoFitsEpisode, onDisk
<1> QED BY <1>2, <1>3, <1>4, <1>5

\* The session ends; an exception removes the PNG files.
LEMMA FinishInv ==
    ASSUME SavingInv, FinishSession \/ SessionRaises
    PROVE  SavingInv'
<1>1. /\ recordPc' = "ended"
      /\ UNCHANGED <<streaming, onDisk, inWriter, take, saved, sound>>
      /\ buffer' = <<>> /\ stream' = <<>>
      /\ \/ recordPc = "finish" /\ UNCHANGED <<images, discarded>>
         \/ streaming /\ UNCHANGED <<images, discarded>>
         \/ ~streaming /\ images' = <<>> /\ discarded' = 0
    BY DEF FinishSession, SessionRaises, Finalize
<1> USE DEF SavingInv
<1>2. SavingTypes'
    <2>1. images' \in Seq(Frames) /\ discarded' \in Nat
        <3>1. \/ images' = images /\ discarded' = discarded
              \/ images' = <<>> /\ discarded' = 0
            BY <1>1
        <3>2. images \in Seq(Frames) /\ discarded \in Nat
            BY DEF SavingTypes
        <3>3. images' \in Seq(Frames)
            BY <3>1, <3>2, NoFrames, Zenon
        <3>4. discarded' \in Nat
            BY <3>1, <3>2
        <3> QED BY <3>3, <3>4
    <2> QED BY <1>1, <2>1, NoFrames DEF SavingTypes, onDisk, inWriter
<1>3. ImagesLeft'
    BY <1>1, NoFrames DEF ImagesLeft, SavingTypes, BufferCleared
<1>4. StreamFed' /\ BufferCleared' /\ LengthComes'
    BY <1>1 DEF StreamFed, BufferCleared, LengthComes
<1>5. VideoFitsEpisode'
    BY <1>1 DEF VideoFitsEpisode, onDisk
<1> QED BY <1>2, <1>3, <1>4, <1>5

\* Another session goes on with what is on disk.
LEMMA ResumeInv ==
    ASSUME SavingInv, ResumeSession
    PROVE  SavingInv'
<1>1. /\ recordPc = "ended" /\ recordPc' = "test"
      /\ loadedUpTo' = Len(episodes) /\ latest' = <<>> /\ metaLatest' = FALSE
      /\ buffer' = <<>> /\ stream' = <<>> /\ encoded' = <<>> /\ placed' = Nowhere
      /\ take' = take + 1
      /\ UNCHANGED <<streaming, onDisk, images, saved, discarded>>
    BY DEF ResumeSession, ResumeDataset
<1> USE DEF SavingInv
<1>2. sound' \in BOOLEAN
    BY DEF ResumeSession
<1>3. metaLatest' \in BOOLEAN /\ ~metaLatest'
    BY <1>1
<1>4. placed' \in EpisodeRow
    BY <1>1 DEF Nowhere, EpisodeRow
<1>5. loadedUpTo' \in 0 .. Len(episodes')
    BY <1>1 DEF SavingTypes, onDisk
<1>6. SavingTypes'
    BY <1>1, <1>2, <1>3, <1>4, <1>5, NoFrames DEF SavingTypes, onDisk
<1>7. ImagesLeft'
    BY <1>1, NoFrames DEF ImagesLeft, BufferCleared
<1>8. StreamFed' /\ BufferCleared' /\ LengthComes'
    BY <1>1 DEF StreamFed, BufferCleared, LengthComes
<1>9. VideoFitsEpisode'
    BY <1>1 DEF VideoFitsEpisode, onDisk
<1> QED BY <1>6, <1>7, <1>8, <1>9

\* save_episode: the rows of the episode.
LEMMA SaveDataInv ==
    ASSUME SavingInv, NEW roll \in BOOLEAN, SaveData(roll)
    PROVE  SavingInv'
<1> DEFINE place == DataPlace(roll)
           to == place.from + Len(buffer)
<1>1. /\ recordPc = "decide" /\ recordPc' = "encode"
      /\ latest' = [data |-> place.file, to |-> to]
      /\ placed' = [placed EXCEPT !.data = place.file, !.from = place.from, !.to = to]
      /\ UNCHANGED <<streaming, videoFiles, episodes, info, loadedUpTo, metaLatest, encoded, inEpisode,
                     take, saved, discarded, sound>>
    BY DEF SaveData, SaveEpisodeData
<1> USE DEF SavingInv
<1>2. place.file \in Nat /\ place.from \in Nat
    <2>1. CASE latest = <<>> /\ loadedUpTo = 0
        BY <2>1 DEF DataPlace
    <2>2. CASE latest = <<>> /\ loadedUpTo # 0
        <3>1. episodes[loadedUpTo] \in EpisodeRow
            BY <2>2 DEF SavingTypes
        <3> QED BY <2>2, <3>1 DEF DataPlace, EpisodeRow
    <2>3. CASE latest # <<>>
        <3>1. latest \in [data : Nat, to : Nat]
            BY <2>3 DEF SavingTypes
        <3>2. latest.data \in Nat /\ latest.to \in Nat
            BY <3>1
        <3> QED BY <2>3, <3>2 DEF DataPlace
    <2> QED BY <2>1, <2>2, <2>3
<1> HIDE DEF place
<1>3. to \in Nat
    BY <1>2 DEF SavingTypes
<1> HIDE DEF to
<1>4. placed' \in EpisodeRow /\ placed'.start = placed.start /\ placed'.stop = placed.stop
    BY <1>1, <1>2, <1>3 DEF SavingTypes, EpisodeRow
<1>5. latest' \in [data : Nat, to : Nat]
    BY <1>1, <1>2, <1>3
<1>6. SavingTypes'
    BY <1>1, <1>4, <1>5 DEF SavingTypes, inEpisode
<1>7. ImagesLeft' /\ StreamFed' /\ BufferCleared' /\ LengthComes'
    BY <1>1 DEF ImagesLeft, StreamFed, BufferCleared, LengthComes, inEpisode
<1>8. VideoFitsEpisode'
    BY <1>1 DEF VideoFitsEpisode
<1> QED BY <1>6, <1>7, <1>8

\* save_episode: the stream, or the PNG files there are, become the temporary video.
LEMMA SaveEncodesInv ==
    ASSUME SavingInv, SaveEncodes
    PROVE  SavingInv'
<1>1. /\ recordPc = "encode" /\ recordPc' = "video"
      /\ encoded' = IF streaming THEN stream ELSE images
      /\ images' = IF streaming THEN images ELSE <<>>
      /\ stream' = <<>>
      /\ UNCHANGED <<streaming, onDisk, loadedUpTo, latest, metaLatest, placed, buffer,
                     take, saved, discarded, sound>>
    BY DEF SaveEncodes, EncodeVideo
<1> USE DEF SavingInv
<1>2. encoded' \in Seq(Frames) /\ images' \in Seq(Frames) /\ stream' \in Seq(Frames)
    BY <1>1, NoFrames DEF SavingTypes
<1>3. SavingTypes'
    BY <1>1, <1>2 DEF SavingTypes, onDisk
<1>4. ImagesLeft' /\ StreamFed' /\ BufferCleared'
    BY <1>1 DEF ImagesLeft, StreamFed, BufferCleared
<1>5. Len(encoded') = VideoLength
    BY <1>1 DEF ImagesLeft, StreamFed, VideoLength
<1>6. LengthComes'
    BY <1>1, <1>5 DEF LengthComes, VideoLength
<1>7. VideoFitsEpisode'
    BY <1>1 DEF VideoFitsEpisode, onDisk
<1> QED BY <1>3, <1>4, <1>6, <1>7

\* save_episode: the temporary video is placed in a video file.
LEMMA SaveVideoInv ==
    ASSUME SavingInv, NEW roll \in BOOLEAN, SaveVideo(roll)
    PROVE  SavingInv'
<1> DEFINE place == VideoPlace(roll)
<1>1. /\ recordPc = "video" /\ recordPc' = "metadata"
      /\ roll => metaLatest
      /\ placed' = [placed EXCEPT !.video = place.file, !.start = place.start,
                                  !.stop = place.start + Len(encoded)]
      /\ encoded' = <<>>
      /\ UNCHANGED <<streaming, dataFiles, episodes, info, loadedUpTo, latest, metaLatest, inEpisode,
                     take, saved, discarded, sound>>
    BY DEF SaveVideo, SaveEpisodeVideo
<1> USE DEF SavingInv
<1>2. place.file \in Nat /\ place.start \in Nat
    <2>1. CASE ~metaLatest /\ loadedUpTo = 0
        BY <2>1 DEF VideoPlace
    <2>2. CASE ~metaLatest /\ loadedUpTo # 0
        <3>1. episodes[loadedUpTo] \in EpisodeRow
            BY <2>2 DEF SavingTypes
        <3> QED BY <2>2, <3>1 DEF VideoPlace, EpisodeRow
    <2>3. CASE metaLatest
        <3>1. Last(episodes) \in EpisodeRow
            BY <2>3 DEF SavingTypes, Last
        <3> QED BY <2>3, <3>1 DEF VideoPlace, EpisodeRow
    <2> QED BY <2>1, <2>2, <2>3
<1> HIDE DEF place
<1>3. Len(encoded) \in Nat
    BY DEF SavingTypes
<1>4. placed' \in EpisodeRow /\ placed'.stop - placed'.start = Len(encoded)
    <2>1. placed \in EpisodeRow /\ place.start + Len(encoded) \in Nat
        BY <1>2, <1>3 DEF SavingTypes
    <2>2. /\ placed' \in EpisodeRow
          /\ placed'.stop = place.start + Len(encoded) /\ placed'.start = place.start
        BY <1>1, <1>2, <2>1 DEF EpisodeRow
    <2> QED BY <1>2, <1>3, <2>2
<1>5. SavingTypes'
    BY <1>1, <1>4, NoFrames DEF SavingTypes, inEpisode
<1>6. ImagesLeft' /\ StreamFed' /\ BufferCleared'
    BY <1>1 DEF ImagesLeft, StreamFed, BufferCleared, inEpisode
<1>7. LengthComes'
    BY <1>1, <1>4 DEF LengthComes, VideoLength, inEpisode
<1>8. VideoFitsEpisode'
    BY <1>1 DEF VideoFitsEpisode
<1> QED BY <1>5, <1>6, <1>7, <1>8

\* save_episode: the row of the metadata, with the range the video was given.
LEMMA SaveMetadataInv ==
    ASSUME SavingInv, SaveMetadata
    PROVE  SavingInv'
<1> DEFINE from == CASE metaLatest -> Last(episodes).to
                     [] ~metaLatest /\ loadedUpTo > 0 -> episodes[loadedUpTo].to
                     [] OTHER -> 0
           row == [placed EXCEPT !.from = from, !.to = from + Len(buffer)]
           history == [frames |-> buffer, sound |-> sound, discarded |-> discarded]
<1>1. /\ recordPc = "metadata" /\ recordPc' = "info"
      /\ episodes' = Append(episodes, row)
      /\ metaLatest' = TRUE
      /\ saved' = Append(saved, history)
      /\ discarded' = 0
      /\ UNCHANGED <<streaming, dataFiles, videoFiles, info, loadedUpTo, latest, encoded, placed, inEpisode,
                     take, sound>>
    BY DEF SaveMetadata, SaveEpisodeMetadata
<1> USE DEF SavingInv
<1>2. from \in Nat
    <2>1. CASE metaLatest
        <3>1. Last(episodes) \in EpisodeRow
            BY <2>1 DEF SavingTypes, Last
        <3> QED BY <2>1, <3>1 DEF EpisodeRow
    <2>2. CASE ~metaLatest /\ loadedUpTo > 0
        <3>1. episodes[loadedUpTo] \in EpisodeRow
            BY <2>2 DEF SavingTypes
        <3> QED BY <2>2, <3>1 DEF EpisodeRow
    <2>3. CASE ~metaLatest /\ ~(loadedUpTo > 0)
        BY <2>3
    <2> QED BY <2>1, <2>2, <2>3
<1> HIDE DEF from
<1>3. row \in EpisodeRow /\ row.start = placed.start /\ row.stop = placed.stop
    <2>1. placed \in EpisodeRow /\ from + Len(buffer) \in Nat
        BY <1>2 DEF SavingTypes
    <2> QED BY <1>2, <2>1 DEF EpisodeRow
<1> HIDE DEF row
<1>4. history \in [frames : Seq(Frames), sound : BOOLEAN, discarded : Nat]
    <2>1. buffer \in Seq(Frames) /\ sound \in BOOLEAN /\ discarded \in Nat
        BY DEF SavingTypes
    <2> QED BY <2>1
<1>5. history.frames = buffer /\ history.discarded = discarded
    OBVIOUS
<1> HIDE DEF history
<1>6. /\ episodes' \in Seq(EpisodeRow) /\ Len(episodes') = Len(episodes) + 1
      /\ \A i \in 1 .. Len(episodes) : episodes'[i] = episodes[i]
      /\ episodes'[Len(episodes) + 1] = row
    BY <1>1, <1>3 DEF SavingTypes
<1>7. /\ saved' \in Seq([frames : Seq(Frames), sound : BOOLEAN, discarded : Nat])
      /\ Len(saved') = Len(saved) + 1
      /\ \A i \in 1 .. Len(saved) : saved'[i] = saved[i]
      /\ saved'[Len(saved) + 1] = history
    BY <1>1, <1>4 DEF SavingTypes
<1>8. loadedUpTo' \in 0 .. Len(episodes')
    BY <1>1, <1>6 DEF SavingTypes
<1>9. episodes' # <<>>
    BY <1>6 DEF SavingTypes
<1>10. Len(saved') = Len(episodes')
    BY <1>6, <1>7 DEF SavingTypes
<1>11. SavingTypes'
    BY <1>1, <1>6, <1>7, <1>8, <1>9, <1>10 DEF SavingTypes, inEpisode
<1>12. ImagesLeft' /\ StreamFed' /\ BufferCleared' /\ LengthComes'
    BY <1>1 DEF ImagesLeft, StreamFed, BufferCleared, LengthComes, inEpisode
<1>13. row.stop - row.start = VideoLength
    BY <1>1, <1>3 DEF LengthComes
<1>14. VideoFitsEpisode'
    <2> SUFFICES ASSUME NEW i \in 1 .. Len(saved) + 1
                 PROVE  episodes'[i].stop - episodes'[i].start =
                            IF streaming \/ saved'[i].discarded < Len(saved'[i].frames)
                            THEN Len(saved'[i].frames) ELSE saved'[i].discarded
        BY <1>1, <1>7 DEF VideoFitsEpisode, SavingTypes
    <2>1. CASE i = Len(saved) + 1
        BY <2>1, <1>5, <1>6, <1>7, <1>13 DEF VideoLength, SavingTypes
    <2>2. CASE i \in 1 .. Len(saved)
        <3>1. Len(saved) = Len(episodes) /\ i \in DOMAIN saved
            BY <2>2 DEF SavingTypes
        <3>2. episodes'[i] = episodes[i] /\ saved'[i] = saved[i]
            BY <2>2, <3>1, <1>6, <1>7
        <3>3. episodes[i].stop - episodes[i].start =
                  IF streaming \/ saved[i].discarded < Len(saved[i].frames)
                  THEN Len(saved[i].frames) ELSE saved[i].discarded
            BY <3>1 DEF VideoFitsEpisode
        <3> QED BY <3>2, <3>3
    <2>3. Len(saved) \in Nat
        BY DEF SavingTypes
    <2> QED BY <2>1, <2>2, <2>3
<1> QED BY <1>11, <1>12, <1>14

\* save_episode: the totals are written and the buffer is made ready.
LEMMA SaveEndsInv ==
    ASSUME SavingInv, SaveEnds
    PROVE  SavingInv'
<1>1. /\ recordPc = "info" /\ recordPc' = "next"
      /\ buffer' = <<>> /\ stream' = <<>>
      /\ UNCHANGED <<streaming, dataFiles, videoFiles, episodes, inWriter, images,
                     take, saved, discarded, sound>>
    BY DEF SaveEnds, SaveInfo
<1> USE DEF SavingInv
<1>2. SavingTypes'
    BY <1>1, NoFrames DEF SavingTypes, inWriter
<1>3. ImagesLeft'
    BY <1>1, NoFrames DEF ImagesLeft
<1>4. StreamFed' /\ BufferCleared' /\ LengthComes'
    BY <1>1 DEF StreamFed, BufferCleared, LengthComes
<1>5. VideoFitsEpisode'
    BY <1>1 DEF VideoFitsEpisode
<1> QED BY <1>2, <1>3, <1>4, <1>5

\* Every step of a session, of the keys and of a resumption.
LEMMA SavingStepInv == SavingInv /\ SessionInv /\ [RecordNext]_recordVars => SavingInv'
<1> SUFFICES ASSUME SavingInv, SessionInv, [RecordNext]_recordVars PROVE SavingInv'
    OBVIOUS
<1>1. CASE TestExitEarly \/ AfterLoop \/ NextTake
    BY <1>1, LoopInv
<1>2. CASE \E timeout \in BOOLEAN : RecordFrame(timeout) \/ ResetIteration(timeout)
    BY <1>2, LoopInv, RecordFrameInv
<1>3. CASE Keys
    BY <1>3, LoopInv DEF Keys
<1>4. CASE Rerecord
    BY <1>4, RerecordInv
<1>5. CASE \E roll \in BOOLEAN : SaveData(roll) \/ SaveVideo(roll)
    BY <1>5, SaveDataInv, SaveVideoInv
<1>6. CASE SaveEncodes \/ SaveMetadata \/ SaveEnds
    BY <1>6, SaveEncodesInv, SaveMetadataInv, SaveEndsInv
<1>7. CASE FinishSession \/ SessionRaises
    BY <1>7, FinishInv
<1>8. CASE ResumeSession
    BY <1>8, ResumeInv
<1>9. CASE RecordRests \/ UNCHANGED recordVars
    BY <1>9, LoopInv DEF RecordRests
<1> QED BY <1>1, <1>2, <1>3, <1>4, <1>5, <1>6, <1>7, <1>8, <1>9 DEF RecordNext, SessionStep

\* encode_video_frames: the video of every episode saved lasts as long as the episode,
\* or as the longest take of it that was discarded.
THEOREM AlwaysVideoFits == RecordSpec => []VideoFitsEpisode
<1>1. SavingInv => VideoFitsEpisode
    BY DEF SavingInv
<1> QED BY <1>1, SavingInitInv, SavingStepInv, SessionInitInv, SessionStepInv, PTL DEF RecordSpec

------------------------------------------------------------------------------
\* The last row of the metadata.
LastRow == IF episodes = <<>> THEN Nowhere ELSE Last(episodes)

\* The rows in the files that the metadata know of.
Committed == FlattenSeq(SubSeq(dataFiles, 1, LastRow.data))

\* An episode's rows are written, and not yet its metadata.
Saving == recordPc \in {"encode", "video", "metadata"}

FileTypes == dataFiles \in Seq(Seq(Frames)) /\ videoFiles \in Seq(Seq(Frames))

\* A session that has saved no episode knows the last one from those it loaded.
LoadedFirst ==
    /\ latest = <<>> => ~metaLatest
    /\ ~metaLatest => loadedUpTo = Len(episodes)
    /\ Saving => latest # <<>>

\* At most one file comes after those the metadata know of; the writer goes on in the last.
FilesKnown ==
    /\ LastRow.data <= Len(dataFiles) /\ Len(dataFiles) <= LastRow.data + 1
    /\ Saving => placed.data = latest.data
    /\ recordPc # "ended" /\ latest # <<>> =>
           /\ latest.data = Len(dataFiles) /\ dataFiles # <<>>
           /\ ~Saving => LastRow.data = Len(dataFiles)

\* The rows of each episode are where the metadata say.
RowsRead ==
    \A i \in DOMAIN saved :
        /\ episodes[i].to = episodes[i].from + Len(saved[i].frames)
        /\ saved[i].sound =>
               /\ episodes[i].to <= Len(Committed)
               /\ \A k \in 1 .. Len(saved[i].frames) :
                      Committed[episodes[i].from + k] = saved[i].frames[k]

\* While nothing torn was resumed, the rows end with the last episode, or with the
\* one being saved.
RowsEnd ==
    sound /\ recordPc # "ended" =>
        /\ ~Saving => Len(Committed) = LastRow.to
        /\ Saving => /\ Len(Rows) = LastRow.to + Len(buffer)
                     /\ \A k \in 1 .. Len(buffer) : Rows[LastRow.to + k] = buffer[k]

\* The images begin with those of the buffer, and so does the temporary video.
ImagesOfBuffer ==
    /\ ~streaming /\ recordPc \notin {"video", "metadata", "info"} =>
           Len(buffer) <= Len(images) /\ \A k \in 1 .. Len(buffer) : images[k] = buffer[k]
    /\ recordPc = "video" =>
           Len(buffer) <= Len(encoded) /\ \A k \in 1 .. Len(buffer) : encoded[k] = buffer[k]

\* The last video file the metadata know of ends with the last episode, and the video
\* of the one being saved is where it was placed.
VideosKnown ==
    /\ LastRow.video <= Len(videoFiles)
    /\ episodes # <<>> => LastRow.video > 0
    /\ metaLatest /\ recordPc \notin {"metadata", "ended"} =>
           Len(videoFiles[LastRow.video]) = LastRow.stop
    /\ recordPc = "metadata" =>
           /\ LastRow.video <= placed.video /\ placed.video \in 1 .. Len(videoFiles)
           /\ Len(videoFiles[placed.video]) = placed.stop
           /\ placed.start + Len(buffer) <= placed.stop
           /\ \A k \in 1 .. Len(buffer) : videoFiles[placed.video][placed.start + k] = buffer[k]

\* The images of each episode are where the metadata say.
VideosRead ==
    \A i \in DOMAIN saved :
        /\ episodes[i].video \in 1 .. LastRow.video
        /\ episodes[i].start + Len(saved[i].frames) <= Len(videoFiles[episodes[i].video])
        /\ \A k \in 1 .. Len(saved[i].frames) :
               videoFiles[episodes[i].video][episodes[i].start + k] = saved[i].frames[k]

RowsInv == LoadedFirst /\ FilesKnown /\ RowsRead /\ RowsEnd
VideosInv == ImagesOfBuffer /\ VideosKnown /\ VideosRead
ReadInv == SavingInv /\ FileTypes /\ RowsInv /\ VideosInv

\* A file put after those known joins its rows to theirs.
LEMMA PutNext ==
    ASSUME NEW S, NEW s \in Seq(Seq(S)), NEW d \in Nat, d <= Len(s), Len(s) <= d + 1,
           NEW b \in Seq(S)
    PROVE  /\ Put(s, d + 1, b) \in Seq(Seq(S)) /\ Len(Put(s, d + 1, b)) = d + 1
           /\ SubSeq(Put(s, d + 1, b), 1, d) = SubSeq(s, 1, d)
           /\ FlattenSeq(Put(s, d + 1, b)) = FlattenSeq(SubSeq(s, 1, d)) \o b
<1> DEFINE t == Put(s, d + 1, b)
           front == SubSeq(s, 1, d)
<1>1. /\ t \in Seq(Seq(S)) /\ Len(t) = d + 1 /\ t[d + 1] = b
      /\ \A i \in 1 .. d : t[i] = s[i]
  <2>1. CASE d + 1 <= Len(s)
    <3>1. t = [s EXCEPT ![d + 1] = b]
        BY <2>1 DEF Put
    <3>2. Len(s) = d + 1 /\ d + 1 \in 1 .. Len(s)
        BY <2>1
    <3> HIDE DEF t
    <3> QED BY <3>1, <3>2, ExceptSeq
  <2>2. CASE ~(d + 1 <= Len(s))
    <3>1. t = Append(s, b) /\ Len(s) = d
        BY <2>2 DEF Put
    <3> HIDE DEF t
    <3> QED BY <3>1, AppendProperties
  <2> QED BY <2>1, <2>2
<1> HIDE DEF t
<1>2. SubSeq(t, 1, d) = front
  <2>1. SameFirst(t, s, d) /\ d <= Len(t)
      BY <1>1 DEF SameFirst
  <2> QED BY <1>1, <2>1, SameFirstOnes
<1>3. front \in Seq(Seq(S)) /\ Len(front) = d /\ \A i \in 1 .. d : front[i] = s[i]
  <2>1. d \in 0 .. Len(s)
      OBVIOUS
  <2> QED BY <2>1, FirstOnes
<1> HIDE DEF front
<1>4. t = Append(front, b)
  <2>1. /\ Append(front, b) \in Seq(Seq(S)) /\ Len(Append(front, b)) = d + 1
        /\ \A i \in 1 .. d : Append(front, b)[i] = front[i]
        /\ Append(front, b)[d + 1] = b
      BY <1>3, AppendProperties
  <2>2. \A i \in 1 .. d + 1 : t[i] = Append(front, b)[i]
    <3> TAKE i \in 1 .. d + 1
    <3>1. CASE i \in 1 .. d
        BY <1>1, <1>3, <2>1, <3>1
    <3>2. CASE i = d + 1
        BY <1>1, <2>1, <3>2
    <3>3. i \in 1 .. d \/ i = d + 1
        OBVIOUS
    <3> QED BY <3>1, <3>2, <3>3, Zenon
  <2> QED BY <1>1, <2>1, <2>2, SeqEqual
<1>5. FlattenSeq(t) = FlattenSeq(front) \o b
    BY <1>3, <1>4, FlattenAppend
<1> QED BY <1>1, <1>2, <1>5 DEF t, front

\* What is put after what is in the last file comes last.
LEMMA PutLast ==
    ASSUME NEW S, NEW s \in Seq(Seq(S)), s # <<>>, NEW b \in Seq(S)
    PROVE  /\ Put(s, Len(s), s[Len(s)] \o b) \in Seq(Seq(S))
           /\ Len(Put(s, Len(s), s[Len(s)] \o b)) = Len(s)
           /\ FlattenSeq(Put(s, Len(s), s[Len(s)] \o b)) = FlattenSeq(s) \o b
<1>1. Len(s) \in 1 .. Len(s) /\ s[Len(s)] \in Seq(S)
    OBVIOUS
<1>2. s[Len(s)] \o b \in Seq(S)
    BY <1>1
<1>3. Put(s, Len(s), s[Len(s)] \o b) = [s EXCEPT ![Len(s)] = s[Len(s)] \o b]
    BY <1>1 DEF Put
<1>4. /\ [s EXCEPT ![Len(s)] = s[Len(s)] \o b] \in Seq(Seq(S))
      /\ Len([s EXCEPT ![Len(s)] = s[Len(s)] \o b]) = Len(s)
    BY <1>1, <1>2, ExceptSeq
<1> QED BY <1>3, <1>4, FlattenExtend

\* Only what is put changes.
LEMMA PutAt ==
    ASSUME NEW S, NEW s \in Seq(S), NEW e \in S, NEW i \in 1 .. Len(s) + 1
    PROVE  /\ Put(s, i, e) \in Seq(S) /\ i <= Len(Put(s, i, e)) /\ Len(s) <= Len(Put(s, i, e))
           /\ Put(s, i, e)[i] = e
           /\ \A j \in 1 .. Len(s) : j # i => Put(s, i, e)[j] = s[j]
<1>1. CASE i <= Len(s)
  <2>1. Put(s, i, e) = [s EXCEPT ![i] = e] /\ i \in 1 .. Len(s)
      BY <1>1 DEF Put
  <2> QED BY <2>1, ExceptSeq
<1>2. CASE ~(i <= Len(s))
  <2>1. Put(s, i, e) = Append(s, e) /\ i = Len(s) + 1
      BY <1>2 DEF Put
  <2> QED BY <2>1, AppendProperties
<1> QED BY <1>1, <1>2

\* The last row of the metadata is one.
LEMMA LastRowType ==
    ASSUME SavingTypes
    PROVE  /\ LastRow \in EpisodeRow
           /\ episodes # <<>> => LastRow = episodes[Len(episodes)]
           /\ episodes = <<>> => LastRow = Nowhere
<1>1. Nowhere \in EpisodeRow
    BY DEF Nowhere, EpisodeRow
<1>2. CASE episodes = <<>>
    BY <1>1, <1>2 DEF LastRow
<1>3. CASE episodes # <<>>
  <2>1. LastRow = episodes[Len(episodes)]
      BY <1>3 DEF LastRow, Last
  <2>2. episodes[Len(episodes)] \in EpisodeRow
      BY <1>3 DEF SavingTypes
  <2> QED BY <1>3, <2>1, <2>2
<1> QED BY <1>2, <1>3

\* What the metadata know of are the first rows.
LEMMA CommittedFirst ==
    ASSUME FileTypes, LastRow.data \in Nat,
           LastRow.data <= Len(dataFiles), Len(dataFiles) <= LastRow.data + 1
    PROVE  /\ Rows \in Seq(Frames) /\ Committed \in Seq(Frames)
           /\ Len(Committed) <= Len(Rows)
           /\ \A k \in 1 .. Len(Committed) : Rows[k] = Committed[k]
           /\ LastRow.data = Len(dataFiles) => Committed = Rows
<1> DEFINE d == LastRow.data
           front == SubSeq(dataFiles, 1, d)
<1>1. dataFiles \in Seq(Seq(Frames)) /\ d \in 0 .. Len(dataFiles)
    BY DEF FileTypes
<1>2. front \in Seq(Seq(Frames)) /\ Len(front) = d /\ \A i \in 1 .. d : front[i] = dataFiles[i]
    BY <1>1, FirstOnes
<1>3. Rows \in Seq(Frames)
    BY <1>1, FlattenType DEF Rows
<1>4. FlattenSeq(front) \in Seq(Frames) /\ Committed = FlattenSeq(front)
    BY <1>2, FlattenType DEF Committed
<1>5. CASE d = Len(dataFiles)
  <2>1. front = dataFiles
      BY <1>1, <1>5, SubSeqFull
  <2> HIDE DEF front
  <2>2. Committed = Rows
      BY <1>4, <2>1 DEF Rows
  <2> QED BY <1>3, <2>2
<1>6. CASE d # Len(dataFiles)
  <2> DEFINE n == Len(dataFiles)
             last == dataFiles[n]
  <2>1. n = d + 1 /\ n \in 1 .. n /\ d \in Nat
      BY <1>1, <1>6
  <2>2. last \in Seq(Frames)
      BY <1>1, <2>1
  <2> HIDE DEF front
  <2>3. dataFiles = Append(front, last)
    <3>1. /\ Append(front, last) \in Seq(Seq(Frames)) /\ Len(Append(front, last)) = d + 1
          /\ \A i \in 1 .. d : Append(front, last)[i] = front[i]
          /\ Append(front, last)[d + 1] = last
        BY <1>2, <2>2, AppendProperties
    <3>2. \A i \in 1 .. n : dataFiles[i] = Append(front, last)[i]
      <4> TAKE i \in 1 .. n
      <4>1. CASE i \in 1 .. d
          BY <1>2, <3>1, <4>1
      <4>2. CASE i = d + 1
          BY <2>1, <3>1, <4>2
      <4>3. i \in 1 .. d \/ i = d + 1
          BY <2>1
      <4> QED BY <4>1, <4>2, <4>3, Zenon
    <3> QED BY <1>1, <2>1, <3>1, <3>2, SeqEqual
  <2> HIDE DEF last
  <2>4. Rows = Committed \o last
      BY <1>2, <1>4, <2>2, <2>3, FlattenAppend DEF Rows
  <2>5. Committed \in Seq(Frames)
      BY <1>4
  <2>6. /\ Len(Committed) <= Len(Rows)
        /\ \A k \in 1 .. Len(Committed) : Rows[k] = Committed[k]
    <3>1. /\ Len(Committed \o last) = Len(Committed) + Len(last)
          /\ \A k \in 1 .. Len(Committed) + Len(last) :
                (Committed \o last)[k] = IF k <= Len(Committed) THEN Committed[k]
                                         ELSE last[k - Len(Committed)]
        BY <2>2, <2>5, ConcatProperties
    <3>2. Len(Committed) \in Nat /\ Len(last) \in Nat
        BY <2>2, <2>5
    <3> QED BY <2>4, <3>1, <3>2
  <2> QED BY <1>3, <1>6, <2>5, <2>6
<1> QED BY <1>5, <1>6

\* The rows are read as before by what writes none, once no save is going on or is over.
LEMMA RowsQuiet ==
    ASSUME RowsInv,
           UNCHANGED <<dataFiles, episodes, loadedUpTo, latest, metaLatest, saved, sound>>,
           recordPc = "ended" => recordPc' = "ended",
           placed'.data = placed.data,
           \/ ~Saving /\ ~Saving'
           \/ Saving /\ Saving' /\ buffer' = buffer
           \/ recordPc' = "ended"
    PROVE  RowsInv'
<1> USE DEF RowsInv
<1>1. LastRow' = LastRow /\ Committed' = Committed /\ Rows' = Rows
    BY DEF LastRow, Committed, Rows
<1>2. recordPc' = "ended" => ~Saving'
    BY DEF Saving
<1>3. LoadedFirst'
    BY <1>2 DEF LoadedFirst
<1>4. FilesKnown'
    BY <1>1, <1>2 DEF FilesKnown
<1>5. RowsRead'
    BY <1>1 DEF RowsRead
<1>6. RowsEnd'
    BY <1>1, <1>2 DEF RowsEnd
<1> QED BY <1>3, <1>4, <1>5, <1>6

\* The videos are found as before by what places none.
LEMMA VideosQuiet ==
    ASSUME VideosKnown, VideosRead,
           UNCHANGED <<videoFiles, episodes, metaLatest, saved>>,
           recordPc \in {"metadata", "ended"} => recordPc' \in {"metadata", "ended"},
           recordPc' = "metadata" => recordPc = "metadata" /\ UNCHANGED <<placed, buffer>>
    PROVE  VideosKnown' /\ VideosRead'
<1>1. LastRow' = LastRow
    BY DEF LastRow
<1>2. VideosKnown'
    BY <1>1 DEF VideosKnown
<1>3. VideosRead'
    BY <1>1 DEF VideosRead
<1> QED BY <1>2, <1>3

\* A dataset just created.
LEMMA ReadInitInv == RecordInit => ReadInv
<1> SUFFICES ASSUME RecordInit PROVE ReadInv
    OBVIOUS
<1>1. SavingInv
    BY SavingInitInv
<1> USE DEF RecordInit, CreateDataset
<1>2. FileTypes
  <2>1. <<>> \in Seq(Seq(Frames))
      OBVIOUS
  <2> QED BY <2>1 DEF FileTypes
<1>3. LastRow = Nowhere /\ LastRow.data = 0 /\ LastRow.to = 0 /\ LastRow.video = 0
    BY DEF LastRow, Nowhere
<1>4. Len(Committed) = 0
  <2>1. SubSeq(<<>>, 1, 0) = <<>>
      OBVIOUS
  <2>2. Committed = FlattenSeq(SubSeq(<<>>, 1, 0))
      BY <1>3 DEF Committed
  <2>3. Committed = <<>>
      BY <2>1, <2>2, FlattenEmpty, Zenon
  <2> QED BY <2>3
<1>5. DOMAIN saved = {} /\ ~Saving
    BY DEF Saving
<1>6. LoadedFirst
    BY <1>5 DEF LoadedFirst
<1>7. FilesKnown /\ RowsRead /\ RowsEnd
    BY <1>3, <1>4, <1>5 DEF FilesKnown, RowsRead, RowsEnd
<1>8. ImagesOfBuffer
    BY DEF ImagesOfBuffer
<1>9. VideosKnown /\ VideosRead
    BY <1>3, <1>5 DEF VideosKnown, VideosRead
<1> QED BY <1>1, <1>2, <1>6, <1>7, <1>8, <1>9 DEF ReadInv, RowsInv, VideosInv

\* Steps of the loops and of the keys.
LEMMA LoopReads ==
    ASSUME ReadInv,
           \/ TestExitEarly \/ AfterLoop \/ NextTake
           \/ \E timeout \in BOOLEAN : ResetIteration(timeout)
           \/ \E again, stop \in BOOLEAN : PressKey(again, stop)
           \/ UNCHANGED recordVars
    PROVE  FileTypes' /\ RowsInv' /\ VideosInv'
<1>1. UNCHANGED <<writerVars, saved, sound>>
    BY DEF TestExitEarly, AfterLoop, NextTake, ResetIteration, PressKey, recordVars
<1>2. \/ recordPc' = recordPc
      \/ recordPc \in {"test", "body", "after"} /\ recordPc' \in {"test", "body", "after", "decide"}
      \/ recordPc = "next" /\ recordPc' \in {"test", "finish"}
    BY DEF TestExitEarly, AfterLoop, NextTake, ResetIteration, PressKey, recordVars, sessionVars
<1> USE <1>1 DEF writerVars, onDisk, inWriter, inEpisode, ReadInv
<1>3. FileTypes'
    BY DEF FileTypes
<1>4. (~Saving /\ ~Saving') \/ (Saving /\ Saving')
    BY <1>2 DEF Saving
<1>5. recordPc = "ended" => recordPc' = "ended"
    BY <1>2
<1>6. RowsInv'
    BY <1>4, <1>5, RowsQuiet
<1>7. ImagesOfBuffer'
    BY <1>2 DEF VideosInv, ImagesOfBuffer
<1>8. VideosKnown' /\ VideosRead'
    BY <1>2, VideosQuiet DEF VideosInv
<1> QED BY <1>3, <1>6, <1>7, <1>8 DEF VideosInv

\* A frame added to the buffer is the one of its number among the images.
LEMMA RecordFrameReads ==
    ASSUME ReadInv, SessionInv, NEW timeout \in BOOLEAN, RecordFrame(timeout)
    PROVE  FileTypes' /\ RowsInv' /\ VideosInv'
<1> DEFINE frame == <<take, Len(buffer) + 1>>
<1> USE DEF ReadInv
<1>1. /\ recordPc = "body" /\ recordPc' \in {"test", "after"}
      /\ UNCHANGED <<streaming, onDisk, inWriter, saved, sound>>
      /\ buffer' = Append(buffer, frame)
      /\ ~streaming => images' = Put(images, Len(buffer) + 1, frame)
    BY DEF RecordFrame, AddFrame
<1>2. frame \in Frames /\ buffer \in Seq(Frames) /\ images \in Seq(Frames)
    BY FrameType DEF RecordFrame, SavingInv, SavingTypes
<1> HIDE DEF frame
<1>3. FileTypes'
    BY <1>1 DEF FileTypes, onDisk
<1>4. ~Saving /\ ~Saving' /\ recordPc # "ended"
    BY <1>1 DEF Saving
<1>5. RowsInv'
    BY <1>1, <1>4, RowsQuiet DEF onDisk, inWriter
<1>6. VideosKnown' /\ VideosRead'
    BY <1>1, VideosQuiet DEF VideosInv, onDisk, inWriter
<1>7. ImagesOfBuffer'
  <2> SUFFICES ASSUME ~streaming
               PROVE  /\ Len(buffer') <= Len(images')
                      /\ \A k \in 1 .. Len(buffer') : images'[k] = buffer'[k]
      BY <1>1 DEF ImagesOfBuffer
  <2>1. Len(buffer) <= Len(images) /\ \A k \in 1 .. Len(buffer) : images[k] = buffer[k]
      BY <1>1 DEF VideosInv, ImagesOfBuffer
  <2>2. Len(buffer) \in Nat /\ Len(images) \in Nat /\ Len(buffer) + 1 \in 1 .. Len(images) + 1
      BY <1>2, <2>1
  <2>3. /\ Len(buffer) + 1 <= Len(images') /\ images'[Len(buffer) + 1] = frame
        /\ \A j \in 1 .. Len(images) : j # Len(buffer) + 1 => images'[j] = images[j]
      BY <1>1, <1>2, <2>2, PutAt
  <2>4. /\ Len(buffer') = Len(buffer) + 1 /\ buffer'[Len(buffer) + 1] = frame
        /\ \A k \in 1 .. Len(buffer) : buffer'[k] = buffer[k]
      BY <1>1, <1>2, AppendProperties
  <2>5. ASSUME NEW k \in 1 .. Len(buffer) PROVE images'[k] = buffer'[k]
    <3>1. k \in 1 .. Len(images) /\ k # Len(buffer) + 1
        BY <2>1, <2>2
    <3> QED BY <2>1, <2>3, <2>4, <3>1
  <2>6. \A k \in 1 .. Len(buffer) + 1 : k \in 1 .. Len(buffer) \/ k = Len(buffer) + 1
      BY <2>2
  <2>7. \A k \in 1 .. Len(buffer) + 1 : images'[k] = buffer'[k]
      BY <2>3, <2>4, <2>5, <2>6, Zenon
  <2> QED BY <2>3, <2>4, <2>7
<1> QED BY <1>3, <1>5, <1>6, <1>7 DEF VideosInv

\* Nothing is in the buffer of a take given up, or of a session that has ended.
LEMMA GivenUpReads ==
    ASSUME ReadInv, Rerecord \/ FinishSession \/ SessionRaises \/ SaveEnds
    PROVE  FileTypes' /\ RowsInv' /\ VideosInv'
<1>1. /\ UNCHANGED <<streaming, dataFiles, videoFiles, episodes, inWriter, saved, sound>>
      /\ buffer' = <<>>
      /\ \/ recordPc \in {"decide", "info"} /\ recordPc' = "next"
         \/ recordPc' = "ended"
    BY DEF Rerecord, FinishSession, SessionRaises, SaveEnds, ClearEpisodeBuffer, Finalize, SaveInfo,
           onDisk
<1> USE DEF ReadInv
<1>2. FileTypes'
    BY <1>1 DEF FileTypes
<1>3. RowsInv'
  <2>1. (~Saving /\ ~Saving') \/ recordPc' = "ended"
      BY <1>1 DEF Saving
  <2>2. recordPc = "ended" => recordPc' = "ended"
      BY <1>1
  <2> QED BY <1>1, <2>1, <2>2, RowsQuiet DEF inWriter
<1>4. VideosKnown' /\ VideosRead'
    BY <1>1, VideosQuiet DEF VideosInv, inWriter
<1>5. images' \in Seq(Frames)
  <2>1. SavingInv'
      BY RerecordInv, FinishInv, SaveEndsInv
  <2> QED BY <2>1 DEF SavingInv, SavingTypes
<1>6. ImagesOfBuffer'
  <2>1. Len(images') \in Nat /\ Len(buffer') = 0
      BY <1>1, <1>5
  <2> QED BY <1>1, <2>1 DEF ImagesOfBuffer
<1> QED BY <1>2, <1>3, <1>4, <1>6 DEF VideosInv

\* A session resumes what is on disk: what is not torn ends with the last episode.
LEMMA ResumeReads ==
    ASSUME ReadInv, ResumeSession
    PROVE  FileTypes' /\ RowsInv' /\ VideosInv'
<1>1. /\ recordPc' = "test" /\ episodes # <<>>
      /\ loadedUpTo' = Len(episodes) /\ latest' = <<>> /\ metaLatest' = FALSE /\ buffer' = <<>>
      /\ UNCHANGED <<streaming, onDisk, images, saved>>
      /\ sound' = (sound /\ ~Torn)
    BY DEF ResumeSession, ResumeDataset
<1> USE DEF ReadInv
<1>2. FileTypes'
    BY <1>1 DEF FileTypes, onDisk
<1>3. LastRow' = LastRow /\ Committed' = Committed /\ ~Saving'
    BY <1>1 DEF LastRow, Committed, onDisk, Saving
<1>4. LoadedFirst'
    BY <1>1, <1>3 DEF LoadedFirst, onDisk
<1>5. FilesKnown'
    BY <1>1, <1>3 DEF RowsInv, FilesKnown, onDisk
<1>6. RowsRead'
    BY <1>1, <1>3 DEF RowsInv, RowsRead, onDisk
<1>7. RowsEnd'
  <2>1. ~Torn => Len(Committed) = LastRow.to
      BY <1>1 DEF Torn, Committed, LastRow
  <2> QED BY <1>1, <1>3, <2>1 DEF RowsEnd
<1>8. ImagesOfBuffer'
  <2>1. Len(images) \in Nat
      BY DEF SavingInv, SavingTypes
  <2> QED BY <1>1, <2>1 DEF ImagesOfBuffer
<1>9. VideosKnown'
    BY <1>1, <1>3 DEF VideosInv, VideosKnown, onDisk
<1>10. VideosRead'
    BY <1>1, <1>3 DEF VideosInv, VideosRead, onDisk
<1> QED BY <1>2, <1>4, <1>5, <1>6, <1>7, <1>8, <1>9, <1>10 DEF RowsInv, VideosInv

\* The row of the metadata and the history of an episode saved.
LEMMA SavedType ==
    ASSUME SavingTypes, NEW i \in DOMAIN saved
    PROVE  /\ i \in 1 .. Len(episodes) /\ episodes[i] \in EpisodeRow
           /\ episodes[i].from \in Nat /\ episodes[i].to \in Nat /\ episodes[i].video \in Nat
           /\ episodes[i].start \in Nat /\ episodes[i].stop \in Nat
           /\ saved[i].frames \in Seq(Frames) /\ Len(saved[i].frames) \in Nat
<1> DEFINE History == [frames : Seq(Frames), sound : BOOLEAN, discarded : Nat]
<1>1. episodes \in Seq(EpisodeRow) /\ Len(saved) = Len(episodes) /\ saved \in Seq(History)
    BY DEF SavingTypes
<1> HIDE DEF History
<1>2. i \in 1 .. Len(saved) /\ i \in 1 .. Len(episodes)
    BY <1>1
<1>3. episodes[i] \in EpisodeRow
    BY <1>1, <1>2
<1>4. saved[i] \in History
    BY <1>1, <1>2
<1>5. saved[i].frames \in Seq(Frames)
    BY <1>4 DEF History
<1> QED BY <1>2, <1>3, <1>5 DEF EpisodeRow

\* save_episode: the rows follow those the metadata know of, in the last file or the next.
LEMMA SaveDataReads ==
    ASSUME ReadInv, NEW roll \in BOOLEAN, SaveData(roll)
    PROVE  FileTypes' /\ RowsInv' /\ VideosInv'
<1> DEFINE place == DataPlace(roll)
<1>1. /\ recordPc = "decide" /\ recordPc' = "encode"
      /\ roll => latest # <<>>
      /\ dataFiles' = Put(dataFiles, place.file,
                          IF place.opens THEN buffer ELSE dataFiles[place.file] \o buffer)
      /\ latest'.data = place.file /\ placed'.data = place.file
      /\ UNCHANGED <<streaming, videoFiles, episodes, loadedUpTo, metaLatest, inEpisode, saved, sound>>
    <2>1. SavingTypes
        BY DEF ReadInv, SavingInv
    <2> QED BY <2>1 DEF SaveData, SaveEpisodeData, SavingTypes, EpisodeRow
<1>2. latest' # <<>>
    BY DEF SaveData, SaveEpisodeData
<1>3. SavingTypes /\ FileTypes /\ LoadedFirst /\ FilesKnown /\ RowsRead /\ RowsEnd
    BY DEF ReadInv, SavingInv, RowsInv
<1>4. PICK d \in Nat : d = LastRow.data
    BY <1>3, LastRowType DEF EpisodeRow
<1>5. d <= Len(dataFiles) /\ Len(dataFiles) <= d + 1 /\ ~Saving /\ recordPc # "ended"
    BY <1>1, <1>3, <1>4 DEF FilesKnown, Saving
<1>6. /\ dataFiles \in Seq(Seq(Frames)) /\ buffer \in Seq(Frames)
      /\ Len(dataFiles) \in Nat /\ Len(buffer) \in Nat
    BY <1>3 DEF FileTypes, SavingTypes
<1>7. \/ place.opens /\ place.file = d + 1
      \/ ~place.opens /\ place.file = d /\ d = Len(dataFiles) /\ dataFiles # <<>>
  <2>1. CASE latest = <<>>
    <3>1. loadedUpTo = Len(episodes)
        BY <1>3, <2>1 DEF LoadedFirst
    <3>2. CASE loadedUpTo = 0
      <4>1. episodes = <<>>
        <5>1. episodes \in Seq(EpisodeRow)
            BY <1>3 DEF SavingTypes
        <5>2. Len(episodes) = 0
            BY <3>1, <3>2
        <5> QED BY <5>1, <5>2
      <4>2. d = 0
          BY <1>3, <1>4, <4>1, LastRowType DEF Nowhere
      <4> QED BY <2>1, <3>2, <4>2 DEF DataPlace
    <3>3. CASE loadedUpTo # 0
      <4>1. episodes # <<>>
          BY <1>3, <3>1, <3>3 DEF SavingTypes
      <4>2. d = episodes[loadedUpTo].data
          BY <1>3, <1>4, <3>1, <4>1, LastRowType
      <4> QED BY <2>1, <3>3, <4>2 DEF DataPlace
    <3> QED BY <3>2, <3>3
  <2>2. CASE latest # <<>>
    <3>1. latest.data = Len(dataFiles) /\ dataFiles # <<>> /\ d = Len(dataFiles)
        BY <1>3, <1>4, <1>5, <2>2 DEF FilesKnown
    <3>2. CASE roll
        BY <2>2, <3>1, <3>2 DEF DataPlace
    <3>3. CASE ~roll
      <4>1. place.opens = FALSE /\ place.file = d
          BY <1>6, <2>2, <3>1, <3>3 DEF DataPlace
      <4> QED BY <3>1, <4>1
    <3> QED BY <3>2, <3>3
  <2> QED BY <2>1, <2>2
<1> HIDE DEF place
<1>8. /\ Rows \in Seq(Frames) /\ Committed \in Seq(Frames)
      /\ d = Len(dataFiles) => Committed = Rows
  <2>1. LastRow.data \in Nat /\ LastRow.data <= Len(dataFiles) /\ Len(dataFiles) <= LastRow.data + 1
      BY <1>4, <1>5
  <2> QED BY <1>3, <1>4, <2>1, CommittedFirst
<1>9. LastRow' = LastRow
    BY <1>1 DEF LastRow
<1>10. Committed' = FlattenSeq(SubSeq(dataFiles', 1, d)) /\ Committed = FlattenSeq(SubSeq(dataFiles, 1, d))
    BY <1>4, <1>9 DEF Committed
<1>11. /\ dataFiles' \in Seq(Seq(Frames)) /\ dataFiles' # <<>>
       /\ place.file = Len(dataFiles') /\ d <= Len(dataFiles') /\ Len(dataFiles') <= d + 1
       /\ Rows' = Committed \o buffer
       /\ Committed' = Committed \/ Committed' = Rows'
  <2>1. CASE place.opens /\ place.file = d + 1
    <3>1. dataFiles' = Put(dataFiles, d + 1, buffer)
        BY <1>1, <2>1
    <3>2. /\ dataFiles' \in Seq(Seq(Frames)) /\ Len(dataFiles') = d + 1
          /\ SubSeq(dataFiles', 1, d) = SubSeq(dataFiles, 1, d)
          /\ FlattenSeq(dataFiles') = FlattenSeq(SubSeq(dataFiles, 1, d)) \o buffer
      <4> DEFINE new == Put(dataFiles, d + 1, buffer)
      <4>1. /\ new \in Seq(Seq(Frames)) /\ Len(new) = d + 1
            /\ SubSeq(new, 1, d) = SubSeq(dataFiles, 1, d)
            /\ FlattenSeq(new) = FlattenSeq(SubSeq(dataFiles, 1, d)) \o buffer
        <5>1. /\ dataFiles \in Seq(Seq(Frames)) /\ buffer \in Seq(Frames)
              /\ d \in Nat /\ d <= Len(dataFiles) /\ Len(dataFiles) <= d + 1
            BY <1>5, <1>6
        <5> QED BY ONLY <5>1, PutNext
      <4> HIDE DEF new
      <4>2. dataFiles' = new
          BY <3>1 DEF new
      <4> QED BY <4>1, <4>2
    <3>3. /\ dataFiles' # <<>> /\ place.file = Len(dataFiles')
          /\ d <= Len(dataFiles') /\ Len(dataFiles') <= d + 1
        BY <2>1, <3>2
    <3>4. Rows' = Committed \o buffer /\ Committed' = Committed
        BY <1>10, <3>2 DEF Rows
    <3> QED BY <3>2, <3>3, <3>4
  <2>2. CASE ~place.opens /\ place.file = d /\ d = Len(dataFiles) /\ dataFiles # <<>>
    <3>1. dataFiles' = Put(dataFiles, Len(dataFiles), dataFiles[Len(dataFiles)] \o buffer)
        BY <1>1, <2>2
    <3>2. /\ dataFiles' \in Seq(Seq(Frames)) /\ Len(dataFiles') = Len(dataFiles)
          /\ FlattenSeq(dataFiles') = FlattenSeq(dataFiles) \o buffer
        BY <1>6, <2>2, <3>1, PutLast
    <3>3. /\ dataFiles' # <<>> /\ place.file = Len(dataFiles')
          /\ d <= Len(dataFiles') /\ Len(dataFiles') <= d + 1
        BY <1>6, <2>2, <3>2
    <3>4. Rows' = Committed \o buffer
        BY <1>8, <2>2, <3>2 DEF Rows
    <3>5. Committed' = Rows'
      <4>1. SubSeq(dataFiles', 1, d) = dataFiles'
          BY <2>2, <3>2, SubSeqFull
      <4> QED BY <1>10, <4>1 DEF Rows
    <3> QED BY <3>2, <3>3, <3>4, <3>5
  <2> QED BY <1>7, <2>1, <2>2
<1>12. /\ Len(Rows') = Len(Committed) + Len(buffer)
       /\ \A k \in 1 .. Len(Committed) : Rows'[k] = Committed[k]
       /\ \A k \in 1 .. Len(buffer) : Rows'[Len(Committed) + k] = buffer[k]
  <2>1. /\ Len(Committed \o buffer) = Len(Committed) + Len(buffer)
        /\ \A k \in 1 .. Len(Committed) + Len(buffer) :
              (Committed \o buffer)[k] = IF k <= Len(Committed) THEN Committed[k]
                                         ELSE buffer[k - Len(Committed)]
      BY <1>6, <1>8, ConcatProperties
  <2>2. Len(Committed) \in Nat
      BY <1>8
  <2>3. ASSUME NEW k \in 1 .. Len(buffer) PROVE Rows'[Len(Committed) + k] = buffer[k]
    <3>1. /\ Len(Committed) + k \in 1 .. Len(Committed) + Len(buffer)
          /\ ~(Len(Committed) + k <= Len(Committed)) /\ (Len(Committed) + k) - Len(Committed) = k
        BY <1>6, <2>2
    <3> QED BY <1>11, <2>1, <3>1
  <2>4. ASSUME NEW k \in 1 .. Len(Committed) PROVE Rows'[k] = Committed[k]
    <3>1. k \in 1 .. Len(Committed) + Len(buffer) /\ k <= Len(Committed)
        BY <1>6, <2>2
    <3> QED BY <1>11, <2>1, <3>1
  <2> QED BY <1>11, <2>1, <2>3, <2>4
<1>13. /\ Len(Committed) <= Len(Committed')
       /\ \A k \in 1 .. Len(Committed) : Committed'[k] = Committed[k]
  <2>1. Len(Committed) \in Nat
      BY <1>8
  <2>2. CASE Committed' = Committed
      BY <2>1, <2>2
  <2>3. CASE Committed' = Rows'
      BY <1>6, <1>12, <2>1, <2>3
  <2> QED BY <1>11, <2>2, <2>3
<1>14. FileTypes'
    BY <1>1, <1>3, <1>11 DEF FileTypes
<1>15. LoadedFirst'
    BY <1>1, <1>2, <1>3 DEF LoadedFirst
<1>16. FilesKnown'
  <2>1. Saving' /\ recordPc' # "ended"
      BY <1>1 DEF Saving
  <2>2. LastRow'.data = d
      BY <1>4, <1>9
  <2> QED BY <1>1, <1>11, <2>1, <2>2 DEF FilesKnown
<1>17. RowsRead'
  <2> SUFFICES ASSUME NEW i \in DOMAIN saved
               PROVE  /\ episodes[i].to = episodes[i].from + Len(saved[i].frames)
                      /\ saved[i].sound =>
                            /\ episodes[i].to <= Len(Committed')
                            /\ \A k \in 1 .. Len(saved[i].frames) :
                                  Committed'[episodes[i].from + k] = saved[i].frames[k]
      BY <1>1 DEF RowsRead
  <2>1. /\ episodes[i].to = episodes[i].from + Len(saved[i].frames)
        /\ saved[i].sound =>
              /\ episodes[i].to <= Len(Committed)
              /\ \A k \in 1 .. Len(saved[i].frames) :
                    Committed[episodes[i].from + k] = saved[i].frames[k]
      BY <1>3 DEF RowsRead
  <2>2. /\ episodes[i].from \in Nat /\ episodes[i].to \in Nat /\ Len(saved[i].frames) \in Nat
        /\ Len(Committed) \in Nat /\ Len(Committed') \in Nat
    <3>2. Rows' \in Seq(Frames)
        BY <1>6, <1>8, <1>11
    <3>3. Len(Committed') \in Nat
        BY <1>8, <1>11, <3>2
    <3> QED BY <1>3, <1>8, <3>3, SavedType
  <2>3. ASSUME saved[i].sound
        PROVE  /\ episodes[i].to <= Len(Committed')
               /\ \A k \in 1 .. Len(saved[i].frames) :
                     Committed'[episodes[i].from + k] = saved[i].frames[k]
    <3>1. episodes[i].to <= Len(Committed')
        BY <1>13, <2>1, <2>2, <2>3
    <3>2. ASSUME NEW k \in 1 .. Len(saved[i].frames)
          PROVE  Committed'[episodes[i].from + k] = saved[i].frames[k]
      <4>1. episodes[i].from + k \in 1 .. Len(Committed)
          BY <2>1, <2>2, <2>3
      <4>2. Committed'[episodes[i].from + k] = Committed[episodes[i].from + k]
          BY <1>13, <4>1
      <4>3. Committed[episodes[i].from + k] = saved[i].frames[k]
          BY <2>1, <2>3
      <4> QED BY <4>2, <4>3
    <3> QED BY <3>1, <3>2
  <2> QED BY <2>1, <2>3
<1>18. RowsEnd'
  <2>1. Saving' /\ buffer' = buffer /\ sound' = sound
      BY <1>1 DEF Saving, inEpisode
  <2>2. sound => Len(Committed) = LastRow.to
      BY <1>3, <1>5 DEF RowsEnd
  <2> QED BY <1>9, <1>12, <2>1, <2>2 DEF RowsEnd
<1>19. ImagesOfBuffer'
    BY <1>1 DEF ReadInv, VideosInv, ImagesOfBuffer, inEpisode
<1>20. VideosKnown' /\ VideosRead'
    BY <1>1, VideosQuiet DEF ReadInv, VideosInv
<1> QED BY <1>14, <1>15, <1>16, <1>17, <1>18, <1>19, <1>20 DEF RowsInv, VideosInv

\* save_episode: the temporary video begins with the frames of the buffer.
LEMMA SaveEncodesReads ==
    ASSUME ReadInv, SaveEncodes
    PROVE  FileTypes' /\ RowsInv' /\ VideosInv'
<1>1. /\ recordPc = "encode" /\ recordPc' = "video"
      /\ encoded' = IF streaming THEN stream ELSE images
      /\ UNCHANGED <<streaming, onDisk, loadedUpTo, latest, metaLatest, placed, buffer, saved, sound>>
    BY DEF SaveEncodes, EncodeVideo
<1> USE DEF ReadInv
<1>2. FileTypes'
    BY <1>1 DEF FileTypes, onDisk
<1>3. RowsInv'
  <2>1. Saving /\ Saving'
      BY <1>1 DEF Saving
  <2> QED BY <1>1, <2>1, RowsQuiet DEF onDisk
<1>4. VideosKnown' /\ VideosRead'
    BY <1>1, VideosQuiet DEF VideosInv, onDisk
<1>5. Len(buffer) <= Len(encoded') /\ \A k \in 1 .. Len(buffer) : encoded'[k] = buffer[k]
  <2>1. CASE streaming
    <3>1. encoded' = buffer
        BY <1>1, <2>1 DEF SavingInv, StreamFed
    <3>2. Len(buffer) \in Nat
        BY DEF SavingInv, SavingTypes
    <3> QED BY <3>1, <3>2
  <2>2. CASE ~streaming
      BY <1>1, <2>2 DEF VideosInv, ImagesOfBuffer
  <2> QED BY <2>1, <2>2
<1>6. ImagesOfBuffer'
    BY <1>1, <1>5 DEF ImagesOfBuffer
<1> QED BY <1>2, <1>3, <1>4, <1>6 DEF VideosInv

\* save_episode: the video follows those in the last video file, or begins the next.
LEMMA SaveVideoReads ==
    ASSUME ReadInv, NEW roll \in BOOLEAN, SaveVideo(roll)
    PROVE  FileTypes' /\ RowsInv' /\ VideosInv'
<1> DEFINE place == VideoPlace(roll)
<1>1. /\ recordPc = "video" /\ recordPc' = "metadata"
      /\ roll => metaLatest
      /\ videoFiles' = Put(videoFiles, place.file,
                           IF place.opens THEN encoded ELSE videoFiles[place.file] \o encoded)
      /\ UNCHANGED <<streaming, dataFiles, episodes, loadedUpTo, latest, metaLatest, inEpisode,
                     saved, sound>>
    BY DEF SaveVideo, SaveEpisodeVideo
<1>2. /\ placed'.video = place.file /\ placed'.start = place.start
      /\ placed'.stop = place.start + Len(encoded) /\ placed'.data = placed.data
  <2>1. placed \in EpisodeRow
      BY DEF ReadInv, SavingInv, SavingTypes
  <2> QED BY <2>1 DEF SaveVideo, SaveEpisodeVideo, EpisodeRow
<1>3. SavingTypes /\ FileTypes /\ RowsInv /\ LoadedFirst /\ ImagesOfBuffer /\ VideosKnown /\ VideosRead
    BY DEF ReadInv, SavingInv, RowsInv, VideosInv
<1>4. PICK v \in Nat : v = LastRow.video
    BY <1>3, LastRowType DEF EpisodeRow
<1>5. /\ videoFiles \in Seq(Seq(Frames)) /\ encoded \in Seq(Frames) /\ buffer \in Seq(Frames)
      /\ Len(videoFiles) \in Nat /\ Len(encoded) \in Nat /\ Len(buffer) \in Nat
      /\ LastRow.stop \in Nat /\ v <= Len(videoFiles)
  <2>1. LastRow.stop \in Nat
      BY <1>3, LastRowType DEF EpisodeRow
  <2>2. v <= Len(videoFiles)
      BY <1>3, <1>4 DEF VideosKnown
  <2> QED BY <1>3, <2>1, <2>2 DEF FileTypes, SavingTypes
<1>6. \/ place.opens /\ place.file = v + 1 /\ place.start = 0
      \/ /\ ~place.opens /\ place.file = v /\ place.start = LastRow.stop
         /\ v > 0 /\ Len(videoFiles[v]) = LastRow.stop
  <2>1. CASE ~metaLatest
    <3>1. loadedUpTo = Len(episodes)
        BY <1>3, <2>1 DEF LoadedFirst
    <3>2. CASE loadedUpTo = 0
      <4>1. episodes = <<>>
        <5>1. episodes \in Seq(EpisodeRow)
            BY <1>3 DEF SavingTypes
        <5>2. Len(episodes) = 0
            BY <3>1, <3>2
        <5> QED BY <5>1, <5>2
      <4>2. v = 0
          BY <1>3, <1>4, <4>1, LastRowType DEF Nowhere
      <4> QED BY <2>1, <3>2, <4>2 DEF VideoPlace
    <3>3. CASE loadedUpTo # 0
      <4>1. episodes # <<>>
          BY <1>3, <3>1, <3>3 DEF SavingTypes
      <4>2. v = episodes[loadedUpTo].video
          BY <1>3, <1>4, <3>1, <4>1, LastRowType
      <4> QED BY <2>1, <3>3, <4>2 DEF VideoPlace
    <3> QED BY <3>2, <3>3
  <2>2. CASE metaLatest
    <3>1. episodes # <<>>
        BY <1>3, <2>2 DEF SavingTypes
    <3>2. Last(episodes) = LastRow /\ v > 0 /\ Len(videoFiles[v]) = LastRow.stop
        BY <1>1, <1>3, <1>4, <2>2, <3>1 DEF LastRow, VideosKnown
    <3>3. CASE roll
        BY <1>4, <2>2, <3>2, <3>3 DEF VideoPlace
    <3>4. CASE ~roll
      <4>1. place.opens = FALSE /\ place.file = v /\ place.start = LastRow.stop
          BY <1>4, <2>2, <3>2, <3>4 DEF VideoPlace
      <4> QED BY <3>2, <4>1
    <3> QED BY <3>3, <3>4
  <2> QED BY <2>1, <2>2
<1> HIDE DEF place
<1> DEFINE file == place.file
           content == IF place.opens THEN encoded ELSE videoFiles[file] \o encoded
<1>7. /\ file \in 1 .. Len(videoFiles) + 1 /\ v <= file /\ place.start \in Nat
      /\ content \in Seq(Frames) /\ Len(content) = place.start + Len(encoded)
      /\ \A k \in 1 .. Len(encoded) : content[place.start + k] = encoded[k]
      /\ file = v => /\ Len(videoFiles[v]) <= Len(content)
                     /\ \A k \in 1 .. Len(videoFiles[v]) : content[k] = videoFiles[v][k]
  <2>1. CASE place.opens /\ file = v + 1 /\ place.start = 0
    <3>1. content = encoded
        BY <2>1
    <3> HIDE DEF content
    <3> QED BY <1>5, <2>1, <3>1
  <2>2. CASE /\ ~place.opens /\ file = v /\ place.start = LastRow.stop
             /\ v > 0 /\ Len(videoFiles[v]) = LastRow.stop
    <3> DEFINE before == videoFiles[v]
    <3>1. before \in Seq(Frames) /\ Len(before) = LastRow.stop /\ v \in 1 .. Len(videoFiles)
        BY <1>5, <2>2
    <3>2. content = before \o encoded
        BY <2>2
    <3> HIDE DEF content, before
    <3>3. /\ content \in Seq(Frames) /\ Len(content) = Len(before) + Len(encoded)
          /\ \A k \in 1 .. Len(before) + Len(encoded) :
                content[k] = IF k <= Len(before) THEN before[k] ELSE encoded[k - Len(before)]
        BY <1>5, <3>1, <3>2, ConcatProperties
    <3>4. ASSUME NEW k \in 1 .. Len(encoded) PROVE content[place.start + k] = encoded[k]
      <4>1. /\ place.start + k \in 1 .. Len(before) + Len(encoded)
            /\ ~(place.start + k <= Len(before)) /\ (place.start + k) - Len(before) = k
          BY <1>5, <2>2, <3>1
      <4> QED BY <3>3, <4>1
    <3>5. Len(before) <= Len(content) /\ \A k \in 1 .. Len(before) : content[k] = before[k]
      <4>1. Len(before) \in Nat
          BY <3>1
      <4> QED BY <1>5, <3>3, <4>1
    <3>6. file \in 1 .. Len(videoFiles) + 1 /\ v <= file /\ place.start \in Nat
        BY <1>5, <2>2, <3>1
    <3>7. Len(content) = place.start + Len(encoded)
        BY <2>2, <3>1, <3>3
    <3> QED BY <3>3, <3>4, <3>5, <3>6, <3>7 DEF before
  <2> QED BY <1>6, <2>1, <2>2
<1>8. videoFiles' = Put(videoFiles, file, content)
    BY <1>1
<1> HIDE DEF content, file
<1>9. /\ videoFiles' \in Seq(Seq(Frames))
      /\ file <= Len(videoFiles') /\ Len(videoFiles) <= Len(videoFiles')
      /\ videoFiles'[file] = content
      /\ \A j \in 1 .. Len(videoFiles) : j # file => videoFiles'[j] = videoFiles[j]
    BY <1>5, <1>7, <1>8, PutAt
<1>10. ASSUME NEW j \in 1 .. v
       PROVE  /\ Len(videoFiles[j]) <= Len(videoFiles'[j])
              /\ \A k \in 1 .. Len(videoFiles[j]) : videoFiles'[j][k] = videoFiles[j][k]
  <2>1. j \in 1 .. Len(videoFiles) /\ videoFiles[j] \in Seq(Frames) /\ Len(videoFiles[j]) \in Nat
      BY <1>5
  <2>2. CASE j = file
    <3>1. j = v /\ file = v
        BY <1>7, <2>2
    <3> QED BY <1>7, <1>9, <2>2, <3>1
  <2>3. CASE j # file
    <3>1. videoFiles'[j] = videoFiles[j]
        BY <1>9, <2>1, <2>3
    <3> QED BY <2>1, <3>1
  <2> QED BY <2>2, <2>3
<1>11. FileTypes'
    BY <1>1, <1>3, <1>9 DEF FileTypes
<1>12. RowsInv'
  <2>1. Saving /\ Saving' /\ buffer' = buffer /\ recordPc # "ended"
      BY <1>1 DEF Saving, inEpisode
  <2> QED BY <1>1, <1>2, <1>3, <2>1, RowsQuiet
<1>13. ImagesOfBuffer'
    BY <1>1 DEF ImagesOfBuffer
<1>14. LastRow' = LastRow
    BY <1>1 DEF LastRow
<1>15. VideosKnown'
  <2>1. Len(buffer) <= Len(encoded) /\ \A k \in 1 .. Len(buffer) : encoded[k] = buffer[k]
      BY <1>1, <1>3 DEF ImagesOfBuffer
  <2>2. place.start + Len(buffer) <= placed'.stop
      BY <1>2, <1>5, <1>7, <2>1
  <2>3. ASSUME NEW k \in 1 .. Len(buffer)
        PROVE  videoFiles'[placed'.video][placed'.start + k] = buffer[k]
    <3>1. k \in 1 .. Len(encoded)
        BY <1>5, <2>1
    <3>2. content[place.start + k] = encoded[k]
        BY <1>7, <3>1
    <3>3. videoFiles'[placed'.video] = content /\ placed'.start = place.start
        BY <1>2, <1>9 DEF file
    <3> QED BY <2>1, <3>2, <3>3
  <2>4. /\ LastRow'.video <= placed'.video /\ placed'.video \in 1 .. Len(videoFiles')
        /\ LastRow'.video <= Len(videoFiles')
        /\ Len(videoFiles'[placed'.video]) = placed'.stop
    <3>1. placed'.video = file /\ LastRow'.video = v
        BY <1>2, <1>4, <1>14 DEF file
    <3>2. Len(videoFiles') \in Nat
        BY <1>9
    <3>3. v <= Len(videoFiles') /\ file \in 1 .. Len(videoFiles')
        BY <1>5, <1>7, <1>9, <3>2
    <3> QED BY <1>2, <1>7, <1>9, <3>1, <3>3
  <2>5. episodes' # <<>> => LastRow'.video > 0
      BY <1>1, <1>3, <1>14 DEF VideosKnown
  <2>6. buffer' = buffer /\ placed'.start = place.start
      BY <1>1, <1>2 DEF inEpisode
  <2> QED BY <1>1, <2>2, <2>3, <2>4, <2>5, <2>6 DEF VideosKnown
<1>16. VideosRead'
  <2> SUFFICES ASSUME NEW i \in DOMAIN saved
               PROVE  /\ episodes[i].video \in 1 .. v
                      /\ episodes[i].start + Len(saved[i].frames) <= Len(videoFiles'[episodes[i].video])
                      /\ \A k \in 1 .. Len(saved[i].frames) :
                            videoFiles'[episodes[i].video][episodes[i].start + k] = saved[i].frames[k]
      BY <1>1, <1>4, <1>14 DEF VideosRead
  <2>1. /\ episodes[i].video \in 1 .. v
        /\ episodes[i].start + Len(saved[i].frames) <= Len(videoFiles[episodes[i].video])
        /\ \A k \in 1 .. Len(saved[i].frames) :
              videoFiles[episodes[i].video][episodes[i].start + k] = saved[i].frames[k]
      BY <1>3, <1>4 DEF VideosRead
  <2>2. episodes[i].start \in Nat /\ Len(saved[i].frames) \in Nat
      BY <1>3, SavedType
  <2>3. PICK j \in 1 .. v : j = episodes[i].video
      BY <2>1
  <2>4. videoFiles[j] \in Seq(Frames) /\ Len(videoFiles[j]) \in Nat
    <3>1. j \in 1 .. Len(videoFiles)
        BY <1>5
    <3> QED BY <1>5, <3>1
  <2>5. videoFiles'[j] \in Seq(Frames) /\ Len(videoFiles'[j]) \in Nat
    <3>1. j \in 1 .. Len(videoFiles')
        BY <1>5, <1>9
    <3> QED BY <1>9, <3>1
  <2>6. episodes[i].start + Len(saved[i].frames) <= Len(videoFiles'[j])
      BY SMTT(30), <1>10, <2>1, <2>2, <2>3, <2>4, <2>5
  <2>7. ASSUME NEW k \in 1 .. Len(saved[i].frames)
        PROVE  videoFiles'[j][episodes[i].start + k] = saved[i].frames[k]
    <3>1. episodes[i].start + k \in 1 .. Len(videoFiles[j])
        BY <2>1, <2>2, <2>3, <2>4
    <3>2. videoFiles'[j][episodes[i].start + k] = videoFiles[j][episodes[i].start + k]
        BY <1>10, <3>1
    <3> QED BY <2>1, <2>3, <3>2
  <2> QED BY <2>1, <2>3, <2>6, <2>7
<1> QED BY <1>11, <1>12, <1>13, <1>15, <1>16 DEF VideosInv

\* save_episode: the row of the metadata tells where the rows and the video are.
LEMMA SaveMetadataReads ==
    ASSUME ReadInv, SaveMetadata
    PROVE  FileTypes' /\ RowsInv' /\ VideosInv'
<1> DEFINE from == CASE metaLatest -> Last(episodes).to
                     [] ~metaLatest /\ loadedUpTo > 0 -> episodes[loadedUpTo].to
                     [] OTHER -> 0
           row == [placed EXCEPT !.from = from, !.to = from + Len(buffer)]
           history == [frames |-> buffer, sound |-> sound, discarded |-> discarded]
           n == Len(episodes)
<1>1. /\ recordPc = "metadata" /\ recordPc' = "info"
      /\ episodes' = Append(episodes, row)
      /\ metaLatest' = TRUE
      /\ saved' = Append(saved, history)
      /\ UNCHANGED <<streaming, dataFiles, videoFiles, loadedUpTo, latest, encoded, placed, inEpisode,
                     sound>>
    BY DEF SaveMetadata, SaveEpisodeMetadata
<1>2. SavingTypes /\ FileTypes /\ LoadedFirst /\ FilesKnown /\ RowsRead /\ RowsEnd
      /\ VideosKnown /\ VideosRead /\ Saving
    BY <1>1 DEF ReadInv, SavingInv, RowsInv, VideosInv, Saving
<1>3. from = LastRow.to
  <2>1. CASE metaLatest
    <3>1. episodes # <<>>
        BY <1>2, <2>1 DEF SavingTypes
    <3> QED BY <2>1, <3>1 DEF LastRow
  <2>2. CASE ~metaLatest
    <3>1. loadedUpTo = Len(episodes)
        BY <1>2, <2>2 DEF LoadedFirst
    <3>2. CASE episodes = <<>>
      <4>1. LastRow.to = 0
          BY <3>2 DEF LastRow, Nowhere
      <4> QED BY <2>2, <3>1, <3>2, <4>1
    <3>3. CASE episodes # <<>>
      <4>1. loadedUpTo > 0
          BY <1>2, <3>1, <3>3 DEF SavingTypes
      <4>2. LastRow = episodes[loadedUpTo]
          BY <1>2, <3>1, <3>3, LastRowType
      <4> QED BY <2>2, <4>1, <4>2
    <3> QED BY <3>2, <3>3
  <2> QED BY <2>1, <2>2
<1> HIDE DEF from
<1>4. from \in Nat /\ Len(buffer) \in Nat /\ buffer \in Seq(Frames) /\ n \in Nat /\ placed \in EpisodeRow
  <2>1. from \in Nat
      BY <1>2, <1>3, LastRowType DEF EpisodeRow
  <2> QED BY <1>2, <2>1 DEF SavingTypes
<1>5. /\ row \in EpisodeRow /\ row.from = from /\ row.to = from + Len(buffer)
      /\ row.data = placed.data /\ row.video = placed.video
      /\ row.start = placed.start /\ row.stop = placed.stop
  <2>1. from + Len(buffer) \in Nat
      BY <1>4
  <2> QED BY <1>4, <2>1 DEF EpisodeRow
<1>6. history.frames = buffer /\ history.sound = sound
    OBVIOUS
<1>7. /\ Len(episodes') = n + 1 /\ episodes'[n + 1] = row
      /\ \A i \in 1 .. n : episodes'[i] = episodes[i]
  <2>1. episodes \in Seq(EpisodeRow)
      BY <1>2 DEF SavingTypes
  <2> HIDE DEF row
  <2> QED BY <1>1, <1>5, <2>1
<1>8. /\ DOMAIN saved' = 1 .. n + 1 /\ saved'[n + 1] = history /\ DOMAIN saved = 1 .. n
      /\ \A i \in 1 .. n : saved'[i] = saved[i]
  <2> DEFINE History == [frames : Seq(Frames), sound : BOOLEAN, discarded : Nat]
  <2>1. saved \in Seq(History) /\ Len(saved) = n
      BY <1>2 DEF SavingTypes
  <2>2. history \in History
    <3>1. buffer \in Seq(Frames) /\ sound \in BOOLEAN /\ discarded \in Nat
        BY <1>2 DEF SavingTypes
    <3> QED BY <3>1
  <2> HIDE DEF History, history
  <2> QED BY <1>1, <2>1, <2>2
<1> HIDE DEF row, history, n
<1>9. LastRow' = row
  <2>1. episodes' # <<>> /\ Last(episodes') = row
    <3>1. Len(episodes') # 0
        BY <1>4, <1>7
    <3>2. episodes' # <<>>
        BY <3>1
    <3> QED BY <1>7, <3>2 DEF Last
  <2> QED BY <2>1 DEF LastRow
<1>10. FileTypes'
    BY <1>1, <1>2 DEF FileTypes
<1>11. ~Saving' /\ recordPc' # "ended"
    BY <1>1 DEF Saving
<1>12. LoadedFirst'
    BY <1>1, <1>2, <1>11 DEF LoadedFirst
<1>13. row.data = Len(dataFiles) /\ dataFiles # <<>> /\ latest.data = Len(dataFiles)
    BY <1>1, <1>2, <1>5 DEF FilesKnown, LoadedFirst
<1>14. FilesKnown'
  <2>1. LastRow'.data = Len(dataFiles') /\ Len(dataFiles') \in Nat
      BY <1>1, <1>2, <1>9, <1>13 DEF FileTypes
  <2> QED BY <1>1, <1>11, <1>13, <2>1 DEF FilesKnown
<1>15. /\ Rows \in Seq(Frames) /\ Committed \in Seq(Frames)
       /\ Len(Committed) <= Len(Rows)
       /\ \A k \in 1 .. Len(Committed) : Rows[k] = Committed[k]
  <2>1. LastRow.data \in Nat /\ LastRow.data <= Len(dataFiles) /\ Len(dataFiles) <= LastRow.data + 1
      BY <1>2, LastRowType DEF EpisodeRow, FilesKnown
  <2> QED BY <1>2, <2>1, CommittedFirst
<1>16. Committed' = Rows
  <2>1. dataFiles \in Seq(Seq(Frames))
      BY <1>2 DEF FileTypes
  <2>2. SubSeq(dataFiles, 1, Len(dataFiles)) = dataFiles
      BY <2>1, SubSeqFull
  <2>3. Committed' = FlattenSeq(SubSeq(dataFiles, 1, Len(dataFiles)))
      BY <1>1, <1>9, <1>13 DEF Committed
  <2> QED BY <2>2, <2>3 DEF Rows
<1>17. sound => /\ Len(Rows) = from + Len(buffer)
                /\ \A k \in 1 .. Len(buffer) : Rows[from + k] = buffer[k]
    BY <1>1, <1>2, <1>3 DEF RowsEnd
<1>18. RowsRead'
  <2> SUFFICES ASSUME NEW i \in 1 .. n + 1
               PROVE  /\ episodes'[i].to = episodes'[i].from + Len(saved'[i].frames)
                      /\ saved'[i].sound =>
                            /\ episodes'[i].to <= Len(Rows)
                            /\ \A k \in 1 .. Len(saved'[i].frames) :
                                  Rows[episodes'[i].from + k] = saved'[i].frames[k]
      BY <1>8, <1>16 DEF RowsRead
  <2>1. CASE i = n + 1
    <3>1. episodes'[i] = row /\ saved'[i] = history
        BY <1>7, <1>8, <2>1
    <3>2. Len(Rows) \in Nat
        BY <1>15
    <3> QED BY <1>4, <1>5, <1>6, <1>17, <3>1, <3>2
  <2>2. CASE i \in 1 .. n
    <3>1. episodes'[i] = episodes[i] /\ saved'[i] = saved[i] /\ i \in DOMAIN saved
        BY <1>7, <1>8, <2>2
    <3>2. /\ episodes[i].to = episodes[i].from + Len(saved[i].frames)
          /\ saved[i].sound =>
                /\ episodes[i].to <= Len(Committed)
                /\ \A k \in 1 .. Len(saved[i].frames) :
                      Committed[episodes[i].from + k] = saved[i].frames[k]
        BY <1>2, <3>1 DEF RowsRead
    <3>3. episodes[i].from \in Nat /\ episodes[i].to \in Nat /\ Len(saved[i].frames) \in Nat
        BY <1>2, <3>1, SavedType
    <3>4. Len(Rows) \in Nat /\ Len(Committed) \in Nat
        BY <1>15
    <3>5. ASSUME saved[i].sound
          PROVE  /\ episodes[i].to <= Len(Rows)
                 /\ \A k \in 1 .. Len(saved[i].frames) :
                       Rows[episodes[i].from + k] = saved[i].frames[k]
      <4>1. episodes[i].to <= Len(Rows)
          BY <1>15, <3>2, <3>3, <3>4, <3>5
      <4>2. ASSUME NEW k \in 1 .. Len(saved[i].frames)
            PROVE  Rows[episodes[i].from + k] = saved[i].frames[k]
        <5>1. episodes[i].from + k \in 1 .. Len(Committed)
            BY <3>2, <3>3, <3>4, <3>5
        <5>2. Rows[episodes[i].from + k] = Committed[episodes[i].from + k]
            BY <1>15, <5>1
        <5> QED BY <3>2, <3>5, <5>2
      <4> QED BY <4>1, <4>2
    <3> QED BY <3>1, <3>2, <3>5
  <2>3. i \in 1 .. n \/ i = n + 1
      BY <1>4
  <2> QED BY <2>1, <2>2, <2>3
<1>19. RowsEnd'
    BY <1>1, <1>5, <1>9, <1>11, <1>16, <1>17 DEF RowsEnd
<1>20. ImagesOfBuffer'
    BY <1>1 DEF ImagesOfBuffer
<1>21. /\ LastRow.video <= placed.video /\ placed.video \in 1 .. Len(videoFiles)
       /\ Len(videoFiles[placed.video]) = placed.stop
       /\ placed.start + Len(buffer) <= placed.stop
       /\ \A k \in 1 .. Len(buffer) : videoFiles[placed.video][placed.start + k] = buffer[k]
    BY <1>1, <1>2 DEF VideosKnown
<1>22. VideosKnown'
  <2>1. /\ LastRow'.video <= Len(videoFiles') /\ LastRow'.video > 0
        /\ Len(videoFiles'[LastRow'.video]) = LastRow'.stop
      BY <1>1, <1>5, <1>9, <1>21
  <2> QED BY <1>1, <2>1 DEF VideosKnown
<1>23. VideosRead'
  <2> SUFFICES ASSUME NEW i \in 1 .. n + 1
               PROVE  /\ episodes'[i].video \in 1 .. placed.video
                      /\ episodes'[i].start + Len(saved'[i].frames) <= Len(videoFiles[episodes'[i].video])
                      /\ \A k \in 1 .. Len(saved'[i].frames) :
                            videoFiles[episodes'[i].video][episodes'[i].start + k] = saved'[i].frames[k]
      BY ZenonT(40), <1>1, <1>5, <1>8, <1>9 DEF VideosRead
  <2>1. CASE i = n + 1
    <3>1. episodes'[i] = row /\ saved'[i] = history
        BY <1>7, <1>8, <2>1
    <3> QED BY <1>5, <1>6, <1>21, <3>1
  <2>2. CASE i \in 1 .. n
    <3>1. episodes'[i] = episodes[i] /\ saved'[i] = saved[i] /\ i \in DOMAIN saved
        BY <1>7, <1>8, <2>2
    <3>2. /\ episodes[i].video \in 1 .. LastRow.video
          /\ episodes[i].start + Len(saved[i].frames) <= Len(videoFiles[episodes[i].video])
          /\ \A k \in 1 .. Len(saved[i].frames) :
                videoFiles[episodes[i].video][episodes[i].start + k] = saved[i].frames[k]
        BY <1>2, <3>1 DEF VideosRead
    <3>3. LastRow.video \in Nat /\ placed.video \in Nat
        BY <1>2, <1>4, LastRowType DEF EpisodeRow
    <3>4. episodes[i].video \in 1 .. placed.video
        BY <1>21, <3>2, <3>3
    <3> QED BY <3>1, <3>2, <3>4
  <2>3. i \in 1 .. n \/ i = n + 1
      BY <1>4
  <2> QED BY <2>1, <2>2, <2>3
<1> QED BY <1>10, <1>12, <1>14, <1>18, <1>19, <1>20, <1>22, <1>23 DEF RowsInv, VideosInv

\* Every step of a session, of the keys and of a resumption.
LEMMA ReadStepInv == ReadInv /\ SessionInv /\ [RecordNext]_recordVars => ReadInv'
<1> SUFFICES ASSUME ReadInv, SessionInv, [RecordNext]_recordVars PROVE FileTypes' /\ RowsInv' /\ VideosInv'
    BY SavingStepInv DEF ReadInv
<1>1. CASE TestExitEarly \/ AfterLoop \/ NextTake
    BY <1>1, LoopReads
<1>2. CASE \E timeout \in BOOLEAN : RecordFrame(timeout) \/ ResetIteration(timeout)
    BY <1>2, LoopReads, RecordFrameReads
<1>3. CASE Keys
    BY <1>3, LoopReads DEF Keys
<1>4. CASE Rerecord \/ FinishSession \/ SessionRaises \/ SaveEnds
    BY <1>4, GivenUpReads
<1>5. CASE \E roll \in BOOLEAN : SaveData(roll) \/ SaveVideo(roll)
    BY <1>5, SaveDataReads, SaveVideoReads
<1>6. CASE SaveEncodes \/ SaveMetadata
    BY <1>6, SaveEncodesReads, SaveMetadataReads
<1>7. CASE ResumeSession
    BY <1>7, ResumeReads
<1>8. CASE RecordRests \/ UNCHANGED recordVars
    BY <1>8, LoopReads DEF RecordRests
<1> QED BY <1>1, <1>2, <1>3, <1>4, <1>5, <1>6, <1>7, <1>8 DEF RecordNext, SessionStep

\* Where the metadata say, a reader finds the frames that were saved.
LEMMA ReadsBack == ReadInv => SavedEpisodesReadBack
<1> SUFFICES ASSUME ReadInv, NEW i \in DOMAIN saved, saved[i].sound
             PROVE  /\ RowsOf(episodes[i]) = saved[i].frames
                    /\ ImagesOf(episodes[i]) = saved[i].frames
    BY DEF SavedEpisodesReadBack
<1> DEFINE from == episodes[i].from
           start == episodes[i].start
           frames == saved[i].frames
           film == videoFiles[episodes[i].video]
<1>1. SavingTypes /\ FileTypes /\ FilesKnown /\ RowsRead /\ VideosKnown /\ VideosRead
    BY DEF ReadInv, SavingInv, RowsInv, VideosInv
<1>2. from \in Nat /\ start \in Nat /\ frames \in Seq(Frames) /\ Len(frames) \in Nat
    BY <1>1, SavedType
<1>3. /\ episodes[i].to = from + Len(frames) /\ from + Len(frames) <= Len(Committed)
      /\ \A k \in 1 .. Len(frames) : Committed[from + k] = frames[k]
    BY <1>1 DEF RowsRead
<1>4. /\ Rows \in Seq(Frames) /\ Committed \in Seq(Frames)
      /\ Len(Committed) <= Len(Rows)
      /\ \A k \in 1 .. Len(Committed) : Rows[k] = Committed[k]
  <2>1. LastRow.data \in Nat /\ LastRow.data <= Len(dataFiles) /\ Len(dataFiles) <= LastRow.data + 1
      BY <1>1, LastRowType DEF EpisodeRow, FilesKnown
  <2> QED BY <1>1, <2>1, CommittedFirst
<1>5. film \in Seq(Frames) /\ start + Len(frames) <= Len(film)
      /\ \A k \in 1 .. Len(frames) : film[start + k] = frames[k]
  <2>1. LastRow.video \in Nat /\ LastRow.video <= Len(videoFiles)
      BY <1>1, LastRowType DEF EpisodeRow, VideosKnown
  <2>2. videoFiles \in Seq(Seq(Frames)) /\ Len(videoFiles) \in Nat
      BY <1>1 DEF FileTypes
  <2>3. episodes[i].video \in 1 .. Len(videoFiles)
      BY <1>1, <2>1, <2>2 DEF VideosRead
  <2>4. film \in Seq(Frames)
      BY <2>2, <2>3
  <2> QED BY <1>1, <2>4 DEF VideosRead
<1> HIDE DEF from, start, frames, film
<1>6. from + Len(frames) <= Len(Rows) /\ \A k \in 1 .. Len(frames) : Rows[from + k] = frames[k]
  <2>1. Len(Rows) \in Nat /\ Len(Committed) \in Nat
      BY <1>4
  <2>2. ASSUME NEW k \in 1 .. Len(frames) PROVE Rows[from + k] = frames[k]
    <3>1. from + k \in 1 .. Len(Committed)
        BY <1>2, <1>3, <2>1
    <3> QED BY <1>3, <1>4, <3>1
  <2> QED BY <1>2, <1>3, <1>4, <2>1, <2>2
<1>7. SubSeq(Rows, from + 1, from + Len(frames)) = frames
    BY <1>2, <1>4, <1>6, PartIs
<1>8. SubSeq(film, start + 1, start + Len(frames)) = frames
    BY <1>2, <1>5, PartIs
<1>9. RowsOf(episodes[i]) = SubSeq(Rows, from + 1, from + Len(frames))
    BY <1>3 DEF RowsOf, from
<1>10. ImagesOf(episodes[i]) = SubSeq(film, start + 1, start + Len(frames))
  <2>1. start + episodes[i].to - from = start + Len(frames)
      BY <1>2, <1>3
  <2> QED BY <2>1 DEF ImagesOf, from, start, film
<1> QED BY <1>7, <1>8, <1>9, <1>10 DEF frames

\* dataset_writer.py, dataset_reader.py: whatever is recorded, given up or resumed later,
\* every episode saved before a torn one was resumed is read back, rows and images.
THEOREM AlwaysReadBack == RecordSpec => []SavedEpisodesReadBack
BY ReadInitInv, ReadStepInv, SessionInitInv, SessionStepInv, ReadsBack, PTL DEF RecordSpec

\* The two invariants hold all the types.
LEMMA RecordTypes == ReadInv /\ SessionInv => RecordTypeOK
<1> SUFFICES ASSUME ReadInv, SessionInv PROVE RecordTypeOK
    OBVIOUS
<1>1. SavingTypes /\ FileTypes
    BY DEF ReadInv, SavingInv
<1>2. \A i \in DOMAIN episodes : episodes[i] \in [DOMAIN Nowhere -> Nat]
  <2> SUFFICES ASSUME NEW i \in DOMAIN episodes PROVE episodes[i] \in [DOMAIN Nowhere -> Nat]
      OBVIOUS
  <2>1. episodes[i] \in EpisodeRow
      BY <1>1 DEF SavingTypes
  <2>2. DOMAIN Nowhere = {"data", "from", "to", "video", "start", "stop"}
      BY DEF Nowhere
  <2>3. \A row \in EpisodeRow : row \in [{"data", "from", "to", "video", "start", "stop"} -> Nat]
      BY DEF EpisodeRow
  <2> QED BY <2>1, <2>2, <2>3
<1>3. \A frames \in {buffer, images, stream, encoded} : frames \in Seq(Frames)
    BY <1>1 DEF SavingTypes
<1>4. /\ streaming \in BOOLEAN /\ sound \in BOOLEAN /\ metaLatest \in BOOLEAN
      /\ loadedUpTo <= Len(episodes)
    BY <1>1 DEF SavingTypes
<1>5. dataFiles \in Seq(Seq(Frames)) /\ videoFiles \in Seq(Seq(Frames))
    BY <1>1 DEF FileTypes
<1>6. /\ teleop \in BOOLEAN /\ resetting \in BOOLEAN
      /\ exitEarly \in BOOLEAN /\ rerecord \in BOOLEAN /\ stopRecording \in BOOLEAN
      /\ keys \in 0 .. MaxKeys /\ sessions \in 1 .. MaxSessions /\ recorded \in 0 .. NumEpisodes
      /\ info.episodes \in Nat /\ info.frames \in Nat
    BY DEF SessionInv
<1> QED BY <1>2, <1>3, <1>4, <1>5, <1>6 DEF RecordTypeOK

\* What is recorded has its type: every frame on disk, in a buffer or in an encoder is one of
\* a take that may have begun, with a number no take exceeds.
THEOREM RecordTypeCorrect == RecordSpec => []RecordTypeOK
BY ReadInitInv, ReadStepInv, SessionInitInv, SessionStepInv, RecordTypes, PTL DEF RecordSpec

HIDE EncoderAssumption

USE HostAssumption

(***************************************************************************)
(* The host.  Beside BaseStopped its inductive invariant says that while   *)
(* the watchdog counts a silence as dealt with, the base has stopped or    *)
(* the stop was lost.                                                      *)
(***************************************************************************)
HostInv ==
    /\ HostTypeOK
    /\ lastCmdTime = obeyedAt
    /\ watchdogActive /\ moving => stopLost
    /\ BaseStopped

\* The host as it starts: nothing was sent, the base stands.
LEMMA HostInitInv == HostInit => HostInv
<1> SUFFICES ASSUME HostInit PROVE HostInv
    OBVIOUS
<1> USE DEF HostInit
<1>1. 0 \in 0 .. MaxTime + MaxIteration /\ 0 \in 0 .. 0
    OBVIOUS
<1>2. HostTypeOK
    BY <1>1 DEF HostTypeOK
<1>3. lastCmdTime = obeyedAt /\ ~moving
    OBVIOUS
<1> QED BY <1>2, <1>3 DEF HostInv, BaseStopped

\* Every step of the host's loop, its client and its motors.
LEMMA HostStepInv == HostInv /\ [HostNext]_hostVars => HostInv'
<1> SUFFICES ASSUME HostInv, [HostNext]_hostVars PROVE HostInv'
    OBVIOUS
<1> USE DEF HostInv, HostTypeOK, BaseStopped
<1>1. ASSUME NEW velocity \in {"none", "stand", "move"}, ClientSends(velocity) PROVE HostInv'
    BY <1>1 DEF ClientSends
<1>2. ASSUME NEW reaches \in BOOLEAN, ObeyCommand(reaches) PROVE HostInv'
    <2>1. moving' \in BOOLEAN /\ stopLost' \in BOOLEAN
        BY <1>2 DEF ObeyCommand
    <2>2. /\ hostPc' = "watch" /\ ~watchdogActive' /\ watchdogActive' \in BOOLEAN
          /\ command' = "none" /\ UNCHANGED now
          /\ lastCmdTime' = now /\ obeyedAt' = now
        BY <1>2 DEF ObeyCommand
    <2>3. now \in 0 .. now
        OBVIOUS
    <2> QED BY <2>1, <2>2, <2>3
<1>3. ASSUME NEW reaches \in BOOLEAN, WatchdogStops(reaches) PROVE HostInv'
    BY <1>3 DEF WatchdogStops, Late
<1>4. CASE CommandFails \/ NoCommand
    BY <1>4 DEF CommandFails, NoCommand
<1>5. CASE WatchdogWaits
    BY <1>5 DEF WatchdogWaits, Late
<1>6. ASSUME NEW ticks \in 1 .. MaxIteration, Observe(ticks) PROVE HostInv'
    BY <1>6 DEF Observe
<1>7. ASSUME NEW fails \in BOOLEAN, HostEnds(fails) PROVE HostInv'
    BY <1>7 DEF HostEnds
<1>8. CASE HostRests \/ UNCHANGED hostVars
    BY <1>8 DEF HostRests, hostVars
<1> QED BY <1>1, <1>2, <1>3, <1>4, <1>5, <1>6, <1>7, <1>8 DEF HostNext

\* The variables of the host keep their types.
THEOREM HostTypeCorrect == HostSpec => []HostTypeOK
<1>1. HostInv => HostTypeOK
    BY DEF HostInv
<1> QED BY <1>1, HostInitInv, HostStepInv, PTL DEF HostSpec

\* lekiwi_host.py: a base that moves has been sent a command within the timeout, or
\* the last stop did not reach it.
THEOREM AlwaysBaseStopped == HostSpec => []BaseStopped
<1>1. HostInv => BaseStopped
    BY DEF HostInv
<1> QED BY <1>1, HostInitInv, HostStepInv, PTL DEF HostSpec

------------------------------------------------------------------------------
(***************************************************************************)
(* The camera.  ReadsFreshFrame is about a step; what it needs of the      *)
(* state before is that whoever has set the event, or is about to, has     *)
(* stored a frame which is new to the reader.                              *)
(***************************************************************************)
USE CameraAssumption

\* The frame that is there is of this connection, and new to the reader.
Fresh == latestFrame > since /\ (latestFrame > seen \/ overtaken)

FramesCounted ==
    /\ since \in 0 .. shots /\ seen \in Nat /\ latestFrame <= shots
    /\ \A c \in Connections : held[c] <= shots

\* Only the thread of this connection runs, and each frame is later than the last.
OwnThread ==
    ~leftover =>
        /\ \A c \in Connections : c # connection => reader[c] \in {"none", "dead"}
        /\ \A c \in Connections : At(c, "shoot") => held[c] > latestFrame /\ held[c] > since
        /\ latestFrame = 0 \/ latestFrame > since

\* Whoever has set the event, or is about to, has stored a fresh frame.
FreshOnceSet ==
    ~leftover /\ opened /\ robotPc \in {"idle", "wait", "take"} =>
        /\ seen <= latestFrame
        /\ newFrame \/ Storing \/ robotPc = "take" => Fresh

CameraInv ==
    /\ CameraTypeOK /\ FramesCounted /\ OwnThread /\ FreshOnceSet
    /\ robotPc # "idle" => opened

\* A camera that is not connected.
LEMMA CameraInitInv == CameraInit => CameraInv
<1> SUFFICES ASSUME CameraInit PROVE CameraInv
    OBVIOUS
<1> USE DEF CameraInit
<1>1. CameraTypeOK
    <2>1. opened \in BOOLEAN /\ newFrame \in BOOLEAN
        OBVIOUS
    <2> QED BY <2>1 DEF CameraTypeOK, Connections
<1>2. FramesCounted
    BY DEF FramesCounted, Connections
<1>3. \A c \in Connections : reader[c] = "none"
    OBVIOUS
<1>4. OwnThread /\ FreshOnceSet
    BY <1>3 DEF OwnThread, FreshOnceSet, At
<1> QED BY <1>1, <1>2, <1>4 DEF CameraInv

\* The types and the count of frames: steps of a read thread.
LEMMA ThreadType ==
    ASSUME CameraTypeOK, FramesCounted, NEW c \in Connections,
           TestStop(c) \/ BeginShot(c) \/ ShotFails(c) \/ StoreFrame(c) \/ SetEvent(c)
    PROVE  CameraTypeOK' /\ FramesCounted'
<1> USE DEF CameraTypeOK, FramesCounted, At, Goes, Connections
<1>1. CASE TestStop(c)
    BY <1>1 DEF TestStop
<1>2. CASE BeginShot(c)
    <2>1. CASE opened
        <3>1. shots + 1 \in 0 .. MaxShots /\ shots' = shots + 1
            BY <1>2, <2>1 DEF BeginShot
        <3>2. /\ held' = [held EXCEPT ![c] = shots + 1] /\ reader' = [reader EXCEPT ![c] = "shoot"]
              /\ UNCHANGED <<robotPc, connection, opened, stopSignal, failures, latestFrame,
                             newFrame, since, seen, got>>
            BY <1>2, <2>1 DEF BeginShot
        <3> QED BY <3>1, <3>2
    <2>2. CASE ~opened
        BY <1>2, <2>2 DEF BeginShot
    <2> QED BY <2>1, <2>2
<1>3. CASE ShotFails(c)
    <2>1. CASE failures[c] <= MaxFailures
        <3>1. failures[c] + 1 \in 0 .. MaxFailures + 1
            BY <2>1
        <3> QED BY <1>3, <2>1, <3>1 DEF ShotFails
    <2>2. CASE ~(failures[c] <= MaxFailures)
        BY <1>3, <2>2 DEF ShotFails
    <2> QED BY <2>1, <2>2
<1>4. CASE StoreFrame(c)
    BY <1>4 DEF StoreFrame
<1>5. CASE SetEvent(c)
    BY <1>5 DEF SetEvent
<1> QED BY <1>1, <1>2, <1>3, <1>4, <1>5

\* The types and the count of frames: steps of the robot's thread.
LEMMA RobotType ==
    ASSUME CameraTypeOK, FramesCounted,
           \/ Connect \/ BeginRead \/ BeginAsyncRead \/ EventSeen \/ WaitTimesOut \/ TakeFrame
           \/ BeginDisconnect \/ StopReadThread \/ ReleaseCapture \/ UNCHANGED cameraVars
    PROVE  CameraTypeOK' /\ FramesCounted'
<1> USE DEF CameraTypeOK, FramesCounted, Seen, Connections, threadVars
<1>1. CASE Connect
    <2>1. newFrame' \in BOOLEAN /\ opened' \in BOOLEAN
        BY <1>1 DEF Connect
    <2> QED BY <1>1, <2>1 DEF Connect
<1>2. CASE BeginRead
    <2>1. newFrame' \in BOOLEAN /\ opened' \in BOOLEAN
        BY <1>2 DEF BeginRead
    <2> QED BY <1>2, <2>1 DEF BeginRead
<1>3. CASE BeginAsyncRead
    BY <1>3 DEF BeginAsyncRead
<1>4. CASE EventSeen
    BY <1>4 DEF EventSeen
<1>5. CASE WaitTimesOut
    BY <1>5 DEF WaitTimesOut
<1>6. CASE TakeFrame
    <2>1. newFrame' \in BOOLEAN /\ opened' \in BOOLEAN
        BY <1>6 DEF TakeFrame
    <2> QED BY <1>6, <2>1 DEF TakeFrame
<1>7. CASE BeginDisconnect
    BY <1>7 DEF BeginDisconnect
<1>8. CASE StopReadThread
    <2>1. newFrame' \in BOOLEAN /\ opened' \in BOOLEAN
        BY <1>8 DEF StopReadThread
    <2> QED BY <1>8, <2>1 DEF StopReadThread
<1>9. CASE ReleaseCapture
    <2>1. newFrame' \in BOOLEAN /\ opened' \in BOOLEAN
        BY <1>9 DEF ReleaseCapture
    <2> QED BY <1>9, <2>1 DEF ReleaseCapture
<1>10. CASE UNCHANGED cameraVars
    BY <1>10 DEF cameraVars
<1> QED BY <1>1, <1>2, <1>3, <1>4, <1>5, <1>6, <1>7, <1>8, <1>9, <1>10

\* Whose frames and event are there: steps of a read thread.
LEMMA ThreadOwn ==
    ASSUME CameraTypeOK, FramesCounted, OwnThread, NEW c \in Connections,
           TestStop(c) \/ BeginShot(c) \/ ShotFails(c) \/ StoreFrame(c) \/ SetEvent(c)
    PROVE  OwnThread'
<1> USE DEF CameraTypeOK, FramesCounted, OwnThread, At, Goes, Connections
<1>1. CASE TestStop(c)
    BY <1>1 DEF TestStop
<1>2. CASE BeginShot(c)
    <2>1. CASE opened
        <3>1. /\ held' = [held EXCEPT ![c] = shots + 1] /\ reader' = [reader EXCEPT ![c] = "shoot"]
              /\ UNCHANGED <<connection, latestFrame, since, leftover>>
            BY <1>2, <2>1 DEF BeginShot
        <3>2. reader[c] \notin {"none", "dead"}
            BY <1>2 DEF BeginShot
        <3> QED BY <3>1, <3>2
    <2>2. CASE ~opened
        BY <1>2, <2>2 DEF BeginShot
    <2> QED BY <2>1, <2>2
<1>3. CASE ShotFails(c)
    BY <1>3 DEF ShotFails
<1>4. CASE StoreFrame(c)
    BY <1>4 DEF StoreFrame
<1>5. CASE SetEvent(c)
    BY <1>5 DEF SetEvent
<1> QED BY <1>1, <1>2, <1>3, <1>4, <1>5

\* Whose frames and event are there: steps of the robot's thread.
LEMMA RobotOwn ==
    ASSUME CameraTypeOK, FramesCounted, OwnThread,
           \/ Connect \/ BeginRead \/ BeginAsyncRead \/ EventSeen \/ WaitTimesOut \/ TakeFrame
           \/ BeginDisconnect \/ StopReadThread \/ ReleaseCapture \/ UNCHANGED cameraVars
    PROVE  OwnThread'
<1> USE DEF CameraTypeOK, FramesCounted, OwnThread, At, Seen, Connections, threadVars
<1>1. CASE Connect
    BY <1>1 DEF Connect
<1>2. CASE BeginRead
    BY <1>2 DEF BeginRead
<1>3. CASE BeginAsyncRead
    BY <1>3 DEF BeginAsyncRead
<1>4. CASE EventSeen
    BY <1>4 DEF EventSeen
<1>5. CASE WaitTimesOut
    BY <1>5 DEF WaitTimesOut
<1>6. CASE TakeFrame
    BY <1>6 DEF TakeFrame
<1>7. CASE BeginDisconnect
    BY <1>7 DEF BeginDisconnect
<1>8. CASE StopReadThread
    BY <1>8 DEF StopReadThread
<1>9. CASE ReleaseCapture
    BY <1>9 DEF ReleaseCapture
<1>10. CASE UNCHANGED cameraVars
    BY <1>10 DEF cameraVars
<1> QED BY <1>1, <1>2, <1>3, <1>4, <1>5, <1>6, <1>7, <1>8, <1>9, <1>10

\* The event stands for a frame not read yet: steps of a read thread.
LEMMA ThreadFresh ==
    ASSUME CameraTypeOK, FramesCounted, OwnThread, FreshOnceSet, NEW c \in Connections,
           TestStop(c) \/ BeginShot(c) \/ ShotFails(c) \/ StoreFrame(c) \/ SetEvent(c)
    PROVE  FreshOnceSet'
<1> USE DEF CameraTypeOK, FramesCounted, OwnThread, FreshOnceSet, Fresh, Storing, At, Goes, Connections
<1>1. CASE TestStop(c)
    BY <1>1 DEF TestStop
<1>2. CASE BeginShot(c)
    BY <1>2 DEF BeginShot
<1>3. CASE ShotFails(c)
    BY <1>3 DEF ShotFails
<1>4. CASE StoreFrame(c)
    BY <1>4 DEF StoreFrame
<1>5. CASE SetEvent(c)
    BY <1>5 DEF SetEvent
<1> QED BY <1>1, <1>2, <1>3, <1>4, <1>5

\* The event stands for a frame not read yet: steps of the robot's thread.
LEMMA RobotFresh ==
    ASSUME CameraTypeOK, FramesCounted, OwnThread, FreshOnceSet, (robotPc # "idle" => opened),
           \/ Connect \/ BeginRead \/ BeginAsyncRead \/ EventSeen \/ WaitTimesOut \/ TakeFrame
           \/ BeginDisconnect \/ StopReadThread \/ ReleaseCapture \/ UNCHANGED cameraVars
    PROVE  FreshOnceSet'
<1> USE DEF CameraTypeOK, FramesCounted, OwnThread, FreshOnceSet, Fresh, Storing, At, Seen, Connections, threadVars
<1>1. CASE Connect
    <2>1. ~leftover' => \A c \in Connections : reader[c] \in {"none", "dead"}
        BY <1>1 DEF Connect
    <2>2. ~leftover' => ~Storing'
        BY <1>1, <2>1 DEF Connect
    <2>3. seen' = latestFrame' /\ latestFrame' = 0 /\ ~newFrame' /\ robotPc' # "take"
        BY <1>1 DEF Connect
    <2> QED BY <2>2, <2>3
<1>2. CASE BeginRead
    BY <1>2 DEF BeginRead
<1>3. CASE BeginAsyncRead
    BY <1>3 DEF BeginAsyncRead
<1>4. CASE EventSeen
    BY <1>4 DEF EventSeen
<1>5. CASE WaitTimesOut
    BY <1>5 DEF WaitTimesOut
<1>6. CASE TakeFrame
    BY <1>6 DEF TakeFrame
<1>7. CASE BeginDisconnect
    BY <1>7 DEF BeginDisconnect
<1>8. CASE StopReadThread
    BY <1>8 DEF StopReadThread
<1>9. CASE ReleaseCapture
    BY <1>9 DEF ReleaseCapture
<1>10. CASE UNCHANGED cameraVars
    BY <1>10 DEF cameraVars
<1> QED BY <1>1, <1>2, <1>3, <1>4, <1>5, <1>6, <1>7, <1>8, <1>9, <1>10

\* Whichever thread moves.
LEMMA CameraStepInv == CameraInv /\ [CameraNext]_cameraVars => CameraInv'
<1> SUFFICES ASSUME CameraInv, [CameraNext]_cameraVars PROVE CameraInv'
    OBVIOUS
<1>1. ASSUME NEW c \in Connections,
             TestStop(c) \/ BeginShot(c) \/ ShotFails(c) \/ StoreFrame(c) \/ SetEvent(c)
      PROVE  CameraInv'
    <2>1. robotPc' # "idle" => opened'
        BY <1>1 DEF CameraInv, TestStop, BeginShot, ShotFails, StoreFrame, SetEvent
    <2> QED BY <1>1, <2>1, ThreadType, ThreadOwn, ThreadFresh DEF CameraInv
<1>2. ASSUME \/ Connect \/ BeginRead \/ BeginAsyncRead \/ EventSeen \/ WaitTimesOut \/ TakeFrame
             \/ BeginDisconnect \/ StopReadThread \/ ReleaseCapture \/ UNCHANGED cameraVars
      PROVE  CameraInv'
    <2>1. robotPc' # "idle" => opened'
        BY <1>2 DEF CameraInv, Connect, BeginRead, BeginAsyncRead, EventSeen, WaitTimesOut,
           TakeFrame, BeginDisconnect, StopReadThread, ReleaseCapture, Alive, cameraVars
    <2> QED BY <1>2, <2>1, RobotType, RobotOwn, RobotFresh DEF CameraInv
<1> QED BY <1>1, <1>2 DEF CameraNext, CameraRests

FreshStep ==
    /\ robotPc = "take" /\ robotPc' = "idle" =>
           (got' > since /\ (got' > seen \/ overtaken)) \/ leftover
    /\ latestFrame' = 0 \/ latestFrame' > since' \/ leftover'

\* From the invariant on both sides of a step: what a read that ends has read.
LEMMA FreshStepHolds ==
    ASSUME CameraInv, CameraInv', [CameraNext]_cameraVars
    PROVE  FreshStep
<1>1. latestFrame' = 0 \/ latestFrame' > since' \/ leftover'
    BY DEF CameraInv, OwnThread
<1>2. ASSUME robotPc = "take", robotPc' = "idle"
      PROVE  (got' > since /\ (got' > seen \/ overtaken)) \/ leftover
    <2>1. TakeFrame
        BY <1>2 DEF CameraNext, TestStop, BeginShot, ShotFails, StoreFrame, SetEvent, Connect,
           BeginRead, BeginAsyncRead, EventSeen, WaitTimesOut, BeginDisconnect, StopReadThread,
           ReleaseCapture, CameraRests, cameraVars
    <2> QED BY <1>2, <2>1 DEF TakeFrame, CameraInv, FreshOnceSet, Fresh
<1> QED BY <1>1, <1>2 DEF FreshStep

\* The variables of the camera keep their types.
THEOREM CameraTypeCorrect == CameraSpec => []CameraTypeOK
<1>1. CameraInv => CameraTypeOK
    BY DEF CameraInv
<1> QED BY <1>1, CameraInitInv, CameraStepInv, PTL DEF CameraSpec

\* camera_opencv.py: every read, with the threads of earlier connections still there or
\* not, returns a frame of this connection that was not there when the event was last
\* seen, but for what ReadsFreshFrame names.
THEOREM AlwaysReadsFreshFrame == CameraSpec => ReadsFreshFrame
<1>1. CameraInv /\ CameraInv' /\ [CameraNext]_cameraVars => [FreshStep]_cameraVars
    BY FreshStepHolds
<1>2. CameraSpec => [][FreshStep]_cameraVars
    BY <1>1, CameraInitInv, CameraStepInv, PTL DEF CameraSpec
<1> QED BY <1>2 DEF ReadsFreshFrame, FreshStep
------------------------------------------------------------------------------
(***************************************************************************)
(* The SO arm.  ReadsAsCalibrated is not inductive: a calibration is       *)
(* written register by register.  The strengthening says of each register  *)
(* that it holds its value or that a write still to come brings it, and    *)
(* follows the file, the robot's calibration and the bus's to that point.  *)
(***************************************************************************)
USE ArmAssumption

Fields == {"offset", "min", "max"}
Registers == Fields \cup {"torque"}

ArmRegisters ==
    [ArmMotors -> {r \in [Registers -> Int] :
                      /\ r["torque"] \in {0, 1}
                      /\ r["offset"] \in -OffsetMagnitude .. OffsetMagnitude
                      /\ r["min"] \in 0 .. Resolution - 1 /\ r["max"] \in 0 .. Resolution - 1}]

ArmWrites ==
    {w \in [motor : ArmMotors, register : Registers, value : Int] :
        /\ w.register = "torque" => w.value \in {0, 1}
        /\ w.register \in {"min", "max"} => w.value \in 0 .. Resolution - 1}

ArmCalibrations ==
    [ArmMotors -> [offset : Int, min : 0 .. Resolution - 1, max : 0 .. Resolution - 1]]

ArmTypes ==
    /\ registers \in ArmRegisters
    /\ todo \in Seq(ArmWrites)
    /\ calibration \in ArmCalibrations \cup {NoCalibration}
    /\ calibrationFile \in ArmCalibrations \cup {NoCalibration, TornFile}
    /\ armPc \in {"off", "connecting", "asking", "releasing", "resetting", "homing", "restoring",
                  "writing", "saving", "disabling", "enabling", "enabling, raised", "running",
                  "disconnecting"}
    /\ calibrateOnly \in BOOLEAN /\ programs \in 0 .. MaxPrograms

ToCome(m, register, value) ==
    \/ registers[m][register] = value
    \/ \E i \in DOMAIN todo : todo[i] = RegisterWrite(m, register, value)

\* The write puts what the calibration says.
IsOf(c, w) == w.register \in Fields /\ w.value = c[w.motor][w.register]

FilesKept ==
    /\ armPc \notin {"off", "writing", "saving", "disconnecting"} => calibration = calibrationFile
    /\ armPc = "connecting" => busCalibration = calibrationFile
    /\ armPc \in {"restoring", "writing", "saving"} => calibration \in ArmCalibrations

CalibrationComes ==
    armPc \in {"restoring", "writing"} =>
        /\ \A i \in DOMAIN todo : IsOf(calibration, todo[i])
        /\ \A m \in ArmMotors, field \in Fields : ToCome(m, field, calibration[m][field])

TorqueComes ==
    /\ armPc \in {"disabling", "enabling"} =>
        \A i \in DOMAIN todo : /\ todo[i].register = "torque"
                               /\ armPc = "enabling" => todo[i].value = 1
    /\ armPc = "enabling" => \A m \in ArmMotors : ToCome(m, "torque", 1)

Calibrated ==
    /\ armPc = "saving" => calibration = ReadCalibration /\ busCalibration = calibration
    /\ armPc \in {"disabling", "enabling"} /\ ~calibrateOnly =>
          busCalibration = ReadCalibration /\ calibrationFile = busCalibration
    /\ armPc \in {"running", "connecting", "asking", "saving"} => todo = <<>>

ArmInv ==
    /\ ArmTypes /\ FilesKept /\ CalibrationComes /\ TorqueComes /\ Calibrated
    /\ ReadsAsCalibrated

------------------------------------------------------------------------------
\* Lists of writes.
LEMMA TorqueWrites ==
    ASSUME NEW value \in {0, 1}
    PROVE  /\ SetTorque(value) \in Seq(ArmWrites)
           /\ DOMAIN SetTorque(value) = ArmMotors
           /\ \A m \in ArmMotors : SetTorque(value)[m] = RegisterWrite(m, "torque", value)
           /\ \A i \in DOMAIN SetTorque(value) : /\ SetTorque(value)[i].register = "torque"
                                                  /\ SetTorque(value)[i].value = value
<1>1. \A m \in ArmMotors : RegisterWrite(m, "torque", value) \in ArmWrites
    BY DEF RegisterWrite, ArmWrites, Registers, Fields
<1>2. SetTorque(value) \in [1 .. NumMotors -> ArmWrites]
    BY <1>1 DEF SetTorque, ArmMotors
<1>3. DOMAIN SetTorque(value) = ArmMotors
    BY DEF SetTorque
<1>4. \A m \in ArmMotors : SetTorque(value)[m] = RegisterWrite(m, "torque", value)
    BY DEF SetTorque
<1>5. \A m : /\ RegisterWrite(m, "torque", value).register = "torque"
             /\ RegisterWrite(m, "torque", value).value = value
    BY DEF RegisterWrite
<1> QED BY <1>2, <1>3, <1>4, <1>5 DEF ArmMotors

\* write_calibration: the writes are those of the calibration's own values.
LEMMA CalibrationList ==
    ASSUME NEW c, \A m \in ArmMotors : /\ c[m].offset \in Int
                                        /\ c[m].min \in 0 .. Resolution - 1
                                        /\ c[m].max \in 0 .. Resolution - 1
    PROVE  /\ CalibrationWrites(c) \in Seq(ArmWrites)
           /\ \A i \in DOMAIN CalibrationWrites(c) : IsOf(c, CalibrationWrites(c)[i])
           /\ \A m \in ArmMotors, field \in Fields : \E i \in DOMAIN CalibrationWrites(c) :
                 CalibrationWrites(c)[i] = RegisterWrite(m, field, c[m][field])
<1> DEFINE M(k) == ((k - 1) \div 3) + 1
           F(k) == CalibrationFields[((k - 1) % 3) + 1]
           L == 1 .. 3 * NumMotors
<1>1. \A k \in L : M(k) \in ArmMotors
    BY DEF ArmMotors
<1>2. \A k \in L : ((k - 1) % 3) + 1 \in {1, 2, 3}
    OBVIOUS
<1>3. CalibrationFields[1] = "offset" /\ CalibrationFields[2] = "min" /\ CalibrationFields[3] = "max"
    BY DEF CalibrationFields
<1>4. \A k \in L : F(k) \in Fields
    BY <1>2, <1>3 DEF Fields
<1>5. \A m, field, value : /\ RegisterWrite(m, field, value).motor = m
                           /\ RegisterWrite(m, field, value).register = field
                           /\ RegisterWrite(m, field, value).value = value
    BY DEF RegisterWrite
<1>6. \A m \in ArmMotors, field \in Fields : RegisterWrite(m, field, c[m][field]) \in ArmWrites
    BY DEF Fields, Registers, RegisterWrite, ArmWrites
<1>7. \A k \in L : CalibrationWrites(c)[k] = RegisterWrite(M(k), F(k), c[M(k)][F(k)])
    BY DEF CalibrationWrites
<1>8. DOMAIN CalibrationWrites(c) = L
    BY DEF CalibrationWrites
<1>9. CalibrationWrites(c) \in [L -> ArmWrites]
    BY <1>1, <1>4, <1>6 DEF CalibrationWrites
<1>10. ASSUME NEW m \in ArmMotors, NEW field \in Fields
       PROVE  \E k \in L : M(k) = m /\ F(k) = field
    <2>1. CASE field = "offset"
        <3>1. 3 * m - 2 \in L /\ M(3 * m - 2) = m /\ ((3 * m - 2 - 1) % 3) + 1 = 1
            BY DEF ArmMotors
        <3> QED BY <2>1, <3>1, <1>3
    <2>2. CASE field = "min"
        <3>1. 3 * m - 1 \in L /\ M(3 * m - 1) = m /\ ((3 * m - 1 - 1) % 3) + 1 = 2
            BY DEF ArmMotors
        <3> QED BY <2>2, <3>1, <1>3
    <2>3. CASE field = "max"
        <3>1. 3 * m \in L /\ M(3 * m) = m /\ ((3 * m - 1) % 3) + 1 = 3
            BY DEF ArmMotors
        <3> QED BY <2>3, <3>1, <1>3
    <2> QED BY <2>1, <2>2, <2>3 DEF Fields
<1> HIDE DEF M, F
<1>11. \A i \in L : IsOf(c, CalibrationWrites(c)[i])
    BY <1>1, <1>4, <1>5, <1>7 DEF IsOf
<1>12. 3 * NumMotors \in Nat
    OBVIOUS
<1> QED BY <1>7, <1>8, <1>9, <1>10, <1>11, <1>12

\* The motors as they come.
LEMMA FactoryRegisters ==
    /\ [m \in ArmMotors |-> Factory] \in ArmRegisters
    /\ \A r \in ArmRegisters, m \in ArmMotors : [r EXCEPT ![m] = Factory] \in ArmRegisters
    /\ ResetWrites \in Seq(ArmWrites)
<1>1. /\ 0 \in -OffsetMagnitude .. OffsetMagnitude /\ 0 \in 0 .. Resolution - 1
      /\ Resolution - 1 \in 0 .. Resolution - 1
    OBVIOUS
<1>2. Factory \in {r \in [Registers -> Int] :
                      /\ r["torque"] \in {0, 1}
                      /\ r["offset"] \in -OffsetMagnitude .. OffsetMagnitude
                      /\ r["min"] \in 0 .. Resolution - 1 /\ r["max"] \in 0 .. Resolution - 1}
    BY <1>1 DEF Factory, Registers, Fields
<1>3. ResetWrites \in Seq(ArmWrites)
    <2> DEFINE c == [m \in ArmMotors |-> Factory]
    <2>1. \A m \in ArmMotors : /\ c[m].offset \in Int
                               /\ c[m].min \in 0 .. Resolution - 1
                               /\ c[m].max \in 0 .. Resolution - 1
        BY <1>1 DEF Factory
    <2> HIDE DEF c
    <2>2. CalibrationWrites(c) \in Seq(ArmWrites)
        BY <2>1, CalibrationList
    <2> QED BY <2>2 DEF ResetWrites, c
<1> QED BY <1>2, <1>3 DEF ArmRegisters

------------------------------------------------------------------------------
\* A write that is answered changes the register it names, and no other.
LEMMA WriteOne ==
    ASSUME ArmTypes, todo # <<>>
    PROVE  /\ Tail(todo) \in Seq(ArmWrites)
           /\ DOMAIN todo = 1 .. Len(todo) /\ Len(todo) \in Nat \ {0}
           /\ DOMAIN Tail(todo) = 1 .. Len(todo) - 1
           /\ \A i \in DOMAIN Tail(todo) : Tail(todo)[i] = todo[i + 1]
           /\ Head(todo) = todo[1] /\ Head(todo) \in ArmWrites
           /\ \A m \in ArmMotors, r \in Registers :
                 Written(Head(todo))[m][r] =
                     IF m = Head(todo).motor /\ r = Head(todo).register THEN Head(todo).value
                     ELSE registers[m][r]
           /\ Encodable(Head(todo)) => Written(Head(todo)) \in ArmRegisters
<1> DEFINE h == Head(todo)
<1>1. /\ Tail(todo) \in Seq(ArmWrites)
      /\ DOMAIN todo = 1 .. Len(todo) /\ Len(todo) \in Nat \ {0}
      /\ DOMAIN Tail(todo) = 1 .. Len(todo) - 1
      /\ \A i \in DOMAIN Tail(todo) : Tail(todo)[i] = todo[i + 1]
      /\ h = todo[1] /\ h \in ArmWrites
    <2>1. todo \in Seq(ArmWrites) /\ todo # <<>>
        BY DEF ArmTypes
    <2>2. Tail(todo) \in Seq(ArmWrites) /\ DOMAIN todo = 1 .. Len(todo) /\ Len(todo) \in Nat \ {0}
        BY <2>1
    <2>3. /\ DOMAIN Tail(todo) = 1 .. Len(todo) - 1
          /\ \A i \in 1 .. Len(todo) - 1 : Tail(todo)[i] = todo[i + 1]
        BY <2>1
    <2>4. Head(todo) = todo[1] /\ todo[1] \in ArmWrites
        BY <2>1, <2>2
    <2> QED BY <2>2, <2>3, <2>4
<1> HIDE DEF h
<1>2. /\ h.motor \in ArmMotors /\ h.register \in Registers /\ h.value \in Int
      /\ h.register = "torque" => h.value \in {0, 1}
      /\ h.register \in {"min", "max"} => h.value \in 0 .. Resolution - 1
    BY <1>1 DEF ArmWrites
<1>3. \A m \in ArmMotors : registers[m] \in [Registers -> Int]
    BY DEF ArmTypes, ArmRegisters
<1>4. \A m \in ArmMotors : Written(h)[m] =
          IF m = h.motor THEN [registers[m] EXCEPT ![h.register] = h.value] ELSE registers[m]
    BY <1>2 DEF Written, ArmTypes, ArmRegisters
<1>5. \A m \in ArmMotors, r \in Registers :
          Written(h)[m][r] = IF m = h.motor /\ r = h.register THEN h.value ELSE registers[m][r]
    BY <1>2, <1>3, <1>4
<1>6. ASSUME Encodable(h)
      PROVE  Written(h) \in ArmRegisters
    <2>1. h.register = "offset" => h.value \in -OffsetMagnitude .. OffsetMagnitude
        BY <1>6 DEF Encodable
    <2>2. DOMAIN Written(h) = ArmMotors
        BY DEF Written, ArmTypes, ArmRegisters
    <2>3. Written(h) = [m \in ArmMotors |-> Written(h)[m]]
        BY <2>2 DEF Written, ArmTypes, ArmRegisters
    <2>4. \A m \in ArmMotors : Written(h)[m] \in [Registers -> Int]
        <3> TAKE m \in ArmMotors
        <3>1. registers[m] \in [Registers -> Int]
            BY <1>3
        <3>2. [registers[m] EXCEPT ![h.register] = h.value] \in [Registers -> Int]
            BY <1>2, <3>1
        <3> QED BY <1>4, <3>1, <3>2
    <2>5. \A m \in ArmMotors :
              /\ Written(h)[m]["torque"] \in {0, 1}
              /\ Written(h)[m]["offset"] \in -OffsetMagnitude .. OffsetMagnitude
              /\ Written(h)[m]["min"] \in 0 .. Resolution - 1
              /\ Written(h)[m]["max"] \in 0 .. Resolution - 1
        <3> TAKE m \in ArmMotors
        <3>1. /\ registers[m]["torque"] \in {0, 1}
              /\ registers[m]["offset"] \in -OffsetMagnitude .. OffsetMagnitude
              /\ registers[m]["min"] \in 0 .. Resolution - 1
              /\ registers[m]["max"] \in 0 .. Resolution - 1
            BY DEF ArmTypes, ArmRegisters
        <3> QED BY <1>2, <1>5, <2>1, <3>1 DEF Registers, Fields
    <2> QED BY <2>3, <2>4, <2>5 DEF ArmRegisters
<1> QED BY <1>1, <1>5, <1>6 DEF h

\* What was to come has come or is still to come, if no other write is to its register.
LEMMA StillToCome ==
    ASSUME ArmTypes, WriteAnswered, NEW m \in ArmMotors, NEW r \in Registers, NEW value,
           ToCome(m, r, value),
           \A i \in DOMAIN todo : todo[i].motor = m /\ todo[i].register = r => todo[i].value = value
    PROVE  ToCome(m, r, value)'
<1> USE DEF WriteAnswered
<1>1. registers' = Written(Head(todo)) /\ todo' = Tail(todo)
    OBVIOUS
<1>2. CASE m = Head(todo).motor /\ r = Head(todo).register
    BY <1>1, <1>2, WriteOne DEF ToCome
<1>3. CASE ~(m = Head(todo).motor /\ r = Head(todo).register)
    <2>1. registers'[m][r] = registers[m][r]
        BY <1>1, <1>3, WriteOne
    <2>2. ASSUME NEW i \in DOMAIN todo, todo[i] = RegisterWrite(m, r, value)
          PROVE  i - 1 \in DOMAIN Tail(todo) /\ Tail(todo)[i - 1] = todo[i]
        <3>1. i # 1
            BY <1>3, <2>2, WriteOne DEF RegisterWrite
        <3> QED BY <3>1, WriteOne
    <2> QED BY <1>1, <2>1, <2>2 DEF ToCome
<1> QED BY <1>2, <1>3

\* A write that reaches its motor.
LEMMA WriteAnsweredInv ==
    ASSUME ArmInv, WriteAnswered
    PROVE  ArmInv'
<1>1. /\ registers' = Written(Head(todo)) /\ todo' = Tail(todo) /\ todo # <<>>
      /\ UNCHANGED <<armPc, calibrateOnly, calibrationFile, calibration, busCalibration, programs>>
      /\ ArmTypes
    BY DEF WriteAnswered, calibrations, ArmInv
<1>2. ArmTypes'
    <2>1. registers' \in ArmRegisters /\ todo' \in Seq(ArmWrites)
        BY <1>1, WriteOne DEF WriteAnswered
    <2> QED BY <1>1, <2>1 DEF ArmTypes
<1>3. FilesKept'
    BY <1>1 DEF ArmInv, FilesKept
<1>4. \A i \in DOMAIN todo' : i + 1 \in DOMAIN todo /\ todo'[i] = todo[i + 1]
    BY <1>1, WriteOne
<1>5. CalibrationComes'
    <2> SUFFICES ASSUME armPc \in {"restoring", "writing"}
                 PROVE  /\ \A i \in DOMAIN todo' : IsOf(calibration, todo'[i])
                        /\ \A m \in ArmMotors, field \in Fields :
                              ToCome(m, field, calibration[m][field])'
        BY <1>1 DEF CalibrationComes, IsOf
    <2>1. \A i \in DOMAIN todo' : IsOf(calibration, todo'[i])
        BY <1>4 DEF ArmInv, CalibrationComes
    <2>2. ASSUME NEW m \in ArmMotors, NEW field \in Fields
          PROVE  ToCome(m, field, calibration[m][field])'
        <3> DEFINE value == calibration[m][field]
        <3>1. value' = value
            BY <1>1
        <3>2. \A i \in DOMAIN todo :
                  todo[i].motor = m /\ todo[i].register = field => todo[i].value = value
            BY DEF ArmInv, CalibrationComes, IsOf
        <3>3. ToCome(m, field, value)
            BY DEF ArmInv, CalibrationComes
        <3>4. field \in Registers
            BY DEF Registers
        <3> HIDE DEF value
        <3>5. \A v : v = value => (ToCome(m, field, v))'
            BY <1>1, <3>2, <3>3, <3>4, StillToCome
        <3>6. ToCome(m, field, value)'
            BY <3>1, <3>5 DEF ToCome
        <3> QED BY <3>6 DEF value
    <2> QED BY <2>1, <2>2
<1>6. TorqueComes'
    <2>1. armPc = "enabling" => \A m \in ArmMotors : ToCome(m, "torque", 1)'
        BY <1>1, StillToCome DEF ArmInv, TorqueComes, Registers
    <2>2. armPc \in {"disabling", "enabling"} =>
              \A i \in DOMAIN todo' : /\ todo'[i].register = "torque"
                                      /\ armPc = "enabling" => todo'[i].value = 1
        BY <1>4 DEF ArmInv, TorqueComes
    <2> QED BY <1>1, <2>1, <2>2 DEF TorqueComes
<1>7. ASSUME armPc \in {"disabling", "enabling"}
      PROVE  ReadCalibration' = ReadCalibration
    <2>1. Head(todo).register = "torque"
        BY <1>1, <1>7, WriteOne DEF ArmInv, TorqueComes
    <2>2. \A m \in ArmMotors : /\ registers'[m]["offset"] = registers[m]["offset"]
                               /\ registers'[m]["min"] = registers[m]["min"]
                               /\ registers'[m]["max"] = registers[m]["max"]
        BY <1>1, <2>1, WriteOne DEF Registers, Fields
    <2> QED BY <2>2 DEF ReadCalibration
<1>8. Calibrated' /\ ReadsAsCalibrated'
    BY <1>1, <1>7, WriteOne DEF ArmInv, Calibrated, ReadsAsCalibrated
<1> QED BY <1>2, <1>3, <1>5, <1>6, <1>8 DEF ArmInv

\* What the invariant says of an operation it says nothing of.
LEMMA OtherOperation ==
    ASSUME ArmTypes',
           armPc' \in {"off", "disconnecting", "releasing", "resetting", "homing", "enabling, raised"},
           armPc' \in {"off", "disconnecting"} \/ calibration' = calibrationFile'
    PROVE  ArmInv'
BY DEF ArmInv, FilesKept, CalibrationComes, TorqueComes, Calibrated, ReadsAsCalibrated

\* Nothing is left to write.
LEMMA NoWrites == <<>> \in Seq(ArmWrites)
OBVIOUS

\* Torque is enabled or disabled motor by motor.
LEMMA TorqueLists == SetTorque(0) \in Seq(ArmWrites) /\ SetTorque(1) \in Seq(ArmWrites)
BY TorqueWrites

\* Disconnecting, and an exception that leaves the operation, end what it was about.
LEMMA LeavesInv ==
    ASSUME ArmInv, registers' \in ArmRegisters,
           Disconnecting \/ Goto("off", <<>>),
           UNCHANGED <<calibrateOnly, programs, calibration>>,
           calibrationFile' \in {calibrationFile, calibration, TornFile}
    PROVE  ArmInv'
<1>1. todo' \in Seq(ArmWrites) /\ armPc' \in {"off", "disconnecting"}
    BY NoWrites, TorqueLists DEF Disconnecting, Goto
<1>2. ArmTypes'
    BY <1>1 DEF ArmInv, ArmTypes
<1> QED BY <1>1, <1>2, OtherOperation

\* What ends an operation early: a port closed, an exception, a process killed.
LEMMA FailureInv ==
    ASSUME ArmInv,
           \/ Disconnect \/ PortClosed
           \/ \E reaches, disconnects \in BOOLEAN : WriteRaises(reaches, disconnects)
           \/ \E disconnects \in BOOLEAN : Raises(disconnects)
           \/ \E truncated \in BOOLEAN : Killed(truncated)
    PROVE  ArmInv'
<1>1. registers' \in ArmRegisters
    BY WriteOne DEF ArmInv, ArmTypes, Disconnect, PortClosed, WriteRaises, Raises, Killed
<1>2. Disconnecting \/ Goto("off", <<>>)
    BY DEF Disconnect, PortClosed, WriteRaises, Raises, Killed, Unwind
<1>3. /\ UNCHANGED <<calibrateOnly, programs, calibration>>
      /\ calibrationFile' \in {calibrationFile, TornFile}
    BY DEF Disconnect, PortClosed, WriteRaises, Raises, Killed, calibrations
<1> QED BY <1>1, <1>2, <1>3, LeavesInv

\* Between two runs: the calibration file is removed, or a motor replaced.
LEMMA BetweenInv ==
    ASSUME ArmInv, RemoveFile \/ (\E m \in ArmMotors : ReplaceMotor(m))
    PROVE  ArmInv'
<1>1. armPc' = "off"
    BY DEF RemoveFile, ReplaceMotor
<1>2. ArmTypes'
    BY FactoryRegisters DEF ArmInv, ArmTypes, RemoveFile, ReplaceMotor, calibrations
<1> QED BY <1>1, <1>2, OtherOperation

\* Calibrating anew, as far as the ranges.
LEMMA AnewInv ==
    ASSUME ArmInv,
           \/ CalibrateAnew \/ ResetCalibration
           \/ \E positions \in [ArmMotors -> Centres] : SetHalfTurnHomings(positions)
    PROVE  ArmInv'
<1>1. CASE CalibrateAnew
    <2>1. ArmTypes'
        BY <1>1, TorqueLists DEF CalibrateAnew, Goto, calibrations, ArmInv, ArmTypes
    <2> QED BY <1>1, <2>1, OtherOperation
            DEF CalibrateAnew, Goto, calibrations, ArmInv, FilesKept
<1>2. CASE ResetCalibration
    <2>1. ArmTypes'
        BY <1>2, FactoryRegisters DEF ResetCalibration, Goto, calibrations, ArmInv, ArmTypes
    <2> QED BY <1>2, <2>1, OtherOperation
            DEF ResetCalibration, Goto, calibrations, ArmInv, FilesKept
<1>3. ASSUME NEW positions \in [ArmMotors -> Centres], SetHalfTurnHomings(positions)
      PROVE  ArmInv'
    <2>1. \A m \in ArmMotors : HalfTurnHoming(positions[m]) \in Int
        <3> TAKE m \in ArmMotors
        <3>1. positions[m] \in Centres
            OBVIOUS
        <3>2. positions[m] \in 0 .. Resolution - 1
            BY <3>1
        <3>3. positions[m] \in Int /\ Resolution - 1 \in Int
            BY <3>2
        <3> QED BY <3>3 DEF HalfTurnHoming
    <2>2. \A m \in ArmMotors :
              RegisterWrite(m, "offset", HalfTurnHoming(positions[m])) \in ArmWrites
        BY <2>1 DEF RegisterWrite, ArmWrites, Registers, Fields
    <2>3. todo' \in Seq(ArmWrites)
        BY <1>3, <2>2 DEF SetHalfTurnHomings, Goto, ArmMotors
    <2>4. ArmTypes'
        BY <1>3, <2>3 DEF SetHalfTurnHomings, Goto, ArmInv, ArmTypes
    <2> QED BY <1>3, <2>4, OtherOperation DEF SetHalfTurnHomings, Goto, ArmInv, FilesKept
<1> QED BY <1>1, <1>2, <1>3

\* A calibration is what its offsets and ranges are.
LEMMA CalibrationIs ==
    ASSUME NEW c \in ArmCalibrations,
           \A m \in ArmMotors : /\ registers[m]["offset"] = c[m]["offset"]
                                /\ registers[m]["min"] = c[m]["min"]
                                /\ registers[m]["max"] = c[m]["max"]
    PROVE  c = ReadCalibration
<1>1. \A m \in ArmMotors : c[m] = [offset |-> c[m].offset, min |-> c[m].min, max |-> c[m].max]
    BY DEF ArmCalibrations
<1>2. c = [m \in ArmMotors |-> c[m]]
    BY DEF ArmCalibrations
<1> QED BY <1>1, <1>2 DEF ReadCalibration

\* A calibration that is to be written, by an operation that has just begun.
LEMMA BeginsWriting ==
    ASSUME ArmTypes', armPc' \in {"restoring", "writing"},
           calibration' \in ArmCalibrations,
           todo' = CalibrationWrites(calibration'),
           armPc' = "restoring" => calibration' = calibrationFile'
    PROVE  ArmInv'
<1>1. \A m \in ArmMotors : /\ calibration'[m].offset \in Int
                            /\ calibration'[m].min \in 0 .. Resolution - 1
                            /\ calibration'[m].max \in 0 .. Resolution - 1
    BY DEF ArmCalibrations
<1>2. /\ \A i \in DOMAIN todo' : IsOf(calibration', todo'[i])
      /\ \A m \in ArmMotors, field \in Fields : \E i \in DOMAIN todo' :
            todo'[i] = RegisterWrite(m, field, calibration'[m][field])
    BY <1>1, CalibrationList
<1>3. CalibrationComes'
    BY <1>2 DEF CalibrationComes, ToCome, IsOf
<1> QED BY <1>3 DEF ArmInv, FilesKept, TorqueComes, Calibrated, ReadsAsCalibrated

\* A robot is built and connected, and takes the calibration of the file.
LEMMA FileInv ==
    ASSUME ArmInv, ConstructRobot(TRUE) \/ ConstructRobot(FALSE) \/ ConnectArm \/ UseFile
    PROVE  ArmInv'
<1>1. ASSUME NEW only \in BOOLEAN, ConstructRobot(only)
      PROVE  ArmInv'
    <2>1. ArmTypes'
        BY <1>1, NoWrites DEF ConstructRobot, Goto, ArmInv, ArmTypes
    <2> QED BY <1>1, <2>1 DEF ConstructRobot, Goto, ArmInv, FilesKept, CalibrationComes,
            TorqueComes, Calibrated, ReadsAsCalibrated
<1>2. CASE ConnectArm
    <2>1. ArmTypes' /\ UNCHANGED <<calibrations, registers, calibrateOnly>>
        BY <1>2, NoWrites, TorqueLists DEF ConnectArm, Goto, calibrations, ArmInv, ArmTypes
    <2>2. CASE armPc' = "disabling" /\ todo' = SetTorque(0) /\ (calibrateOnly \/ IsCalibrated)
        <3>1. \A i \in DOMAIN todo' : todo'[i].register = "torque"
            BY <2>2, TorqueWrites
        <3>2. ~calibrateOnly => busCalibration = ReadCalibration /\ calibrationFile = busCalibration
            BY <1>2, <2>2 DEF IsCalibrated, ConnectArm, ArmInv, FilesKept
        <3> QED BY <1>2, <2>1, <2>2, <3>1, <3>2 DEF ConnectArm, ArmInv, FilesKept, CalibrationComes,
                TorqueComes, Calibrated, ReadsAsCalibrated, ReadCalibration, calibrations
    <2>3. CASE armPc' = "asking" /\ todo' = <<>>
        BY <1>2, <2>1, <2>3 DEF ConnectArm, ArmInv, FilesKept, CalibrationComes, TorqueComes,
           Calibrated, ReadsAsCalibrated, calibrations
    <2> QED BY <1>2, <2>2, <2>3 DEF ConnectArm, Goto
<1>3. CASE UseFile
    <2>1. /\ calibration \in ArmCalibrations
          /\ calibration' = calibration /\ calibrationFile' = calibration
          /\ armPc' = "restoring" /\ todo' = CalibrationWrites(calibration)
          /\ UNCHANGED <<calibrateOnly, registers, programs>>
        BY <1>3 DEF UseFile, Goto, calibrations, ArmInv, ArmTypes, FilesKept
    <2>2. todo' \in Seq(ArmWrites)
        BY <2>1, CalibrationList DEF ArmCalibrations
    <2>3. ArmTypes'
        BY <2>1, <2>2 DEF ArmInv, ArmTypes
    <2> QED BY <2>1, <2>3, BeginsWriting
<1> QED BY <1>1, <1>2, <1>3

\* record_ranges_of_motion: the ranges are read with the offsets just written.
LEMMA RangesInv ==
    ASSUME ArmInv, NEW ranges \in [ArmMotors -> Ranges], RecordRangesOfMotion(ranges)
    PROVE  ArmInv'
<1>1. \A m \in ArmMotors : /\ ranges[m][1] \in 0 .. Resolution - 1
                            /\ ranges[m][2] \in 0 .. Resolution - 1
                            /\ registers[m].offset \in Int
    <2> TAKE m \in ArmMotors
    <2>1. ranges[m] \in (0 .. Resolution - 1) \X (0 .. Resolution - 1)
        OBVIOUS
    <2>2. registers[m] \in [Registers -> Int]
        BY DEF ArmInv, ArmTypes, ArmRegisters
    <2> QED BY <2>1, <2>2 DEF Registers, Fields
<1>2. calibration' \in ArmCalibrations
    BY <1>1 DEF RecordRangesOfMotion, ArmCalibrations
<1>3. todo' = CalibrationWrites(calibration') /\ armPc' = "writing"
    BY DEF RecordRangesOfMotion, Goto
<1>4. todo' \in Seq(ArmWrites)
    BY <1>2, <1>3, CalibrationList DEF ArmCalibrations
<1>5. ArmTypes'
    BY <1>2, <1>3, <1>4 DEF RecordRangesOfMotion, ArmInv, ArmTypes
<1> QED BY <1>2, <1>3, <1>5, BeginsWriting

\* Once nothing is left to be written, what was to come has come.
LEMMA AllWritten ==
    ASSUME ArmInv, armPc \in {"restoring", "writing"}, todo = <<>>
    PROVE  calibration = ReadCalibration
<1>1. DOMAIN todo = {}
    OBVIOUS
<1>2. \A m \in ArmMotors, field \in Fields : registers[m][field] = calibration[m][field]
    BY <1>1 DEF ArmInv, CalibrationComes, ToCome
<1> QED BY <1>2, CalibrationIs DEF Fields, ArmInv, FilesKept

\* The calibration is done, and connect() goes on to configure.
LEMMA BeginsConfigure ==
    ASSUME ArmInv, armPc' = "disabling", todo' = SetTorque(0),
           calibration = ReadCalibration, busCalibration' = calibration,
           calibrationFile' = calibration,
           UNCHANGED <<calibrateOnly, registers, calibration, programs>>
    PROVE  ArmInv'
<1>1. ArmTypes'
    BY TorqueLists DEF ArmInv, ArmTypes
<1>2. \A i \in DOMAIN todo' : todo'[i].register = "torque"
    BY TorqueWrites
<1>3. ReadCalibration' = ReadCalibration
    BY DEF ReadCalibration
<1> QED BY <1>1, <1>2, <1>3 DEF ArmInv, FilesKept, CalibrationComes, TorqueComes, Calibrated,
        ReadsAsCalibrated

\* The calibration written to the motors and the one of the file are the same.
LEMMA SavedInv ==
    ASSUME ArmInv, FileRestored \/ CalibrationWritten \/ SaveCalibration
    PROVE  ArmInv'
<1>1. CASE FileRestored
    <2>1. calibration = ReadCalibration /\ calibrationFile = calibration
        BY <1>1, AllWritten DEF FileRestored, ArmInv, FilesKept
    <2>2. CASE Disconnecting
        BY <1>1, <2>2, LeavesInv DEF FileRestored, ArmInv, ArmTypes
    <2>3. CASE Goto("disabling", SetTorque(0))
        BY <1>1, <2>1, <2>3, BeginsConfigure DEF FileRestored, Goto
    <2> QED BY <1>1, <2>2, <2>3 DEF FileRestored, AfterCalibrate
<1>2. CASE CalibrationWritten
    <2>1. calibration = ReadCalibration
        BY <1>2, AllWritten DEF CalibrationWritten
    <2>2. /\ armPc' = "saving" /\ todo' = <<>> /\ busCalibration' = calibration
          /\ calibration \in ArmCalibrations
          /\ UNCHANGED <<calibrateOnly, registers, calibrationFile, calibration, programs>>
        BY <1>2 DEF CalibrationWritten, Goto, ArmInv, FilesKept
    <2>3. ArmTypes'
        BY <2>2, NoWrites DEF ArmInv, ArmTypes
    <2>4. ReadCalibration' = ReadCalibration
        BY <2>2 DEF ReadCalibration
    <2> QED BY <2>1, <2>2, <2>3, <2>4 DEF ArmInv, FilesKept, CalibrationComes, TorqueComes,
            Calibrated, ReadsAsCalibrated
<1>3. CASE SaveCalibration
    <2>1. calibration = ReadCalibration /\ busCalibration = calibration
        BY <1>3 DEF SaveCalibration, ArmInv, Calibrated
    <2>2. CASE Disconnecting
        BY <1>3, <2>2, LeavesInv DEF SaveCalibration, ArmInv, ArmTypes
    <2>3. CASE Goto("disabling", SetTorque(0))
        BY <1>3, <2>1, <2>3, BeginsConfigure DEF SaveCalibration, Goto
    <2> QED BY <1>3, <2>2, <2>3 DEF SaveCalibration, AfterCalibrate
<1> QED BY <1>1, <1>2, <1>3

\* configure, after which the arm is ready.
LEMMA ConfigureInv ==
    ASSUME ArmInv, Configure(TRUE) \/ Configure(FALSE) \/ Connected
    PROVE  ArmInv'
<1>1. CASE Configure(TRUE)
    <2>1. ArmTypes' /\ armPc' = "enabling, raised" /\ calibration' = calibrationFile'
        BY <1>1, TorqueLists DEF Configure, Goto, calibrations, ArmInv, ArmTypes, FilesKept
    <2> QED BY <2>1, OtherOperation
<1>2. CASE Configure(FALSE)
    <2>1. /\ armPc = "disabling" /\ armPc' = "enabling" /\ todo' = SetTorque(1)
          /\ UNCHANGED <<calibrateOnly, registers, calibrationFile, calibration, busCalibration,
                         programs>>
        BY <1>2 DEF Configure, Goto, calibrations
    <2>2. ArmTypes'
        BY <2>1, TorqueLists DEF ArmInv, ArmTypes
    <2>3. \A i \in DOMAIN todo' : todo'[i].register = "torque" /\ todo'[i].value = 1
        BY <2>1, TorqueWrites
    <2>4. \A m \in ArmMotors : ToCome(m, "torque", 1)'
        BY <2>1, TorqueWrites DEF ToCome
    <2>5. ReadCalibration' = ReadCalibration
        BY <2>1 DEF ReadCalibration
    <2> QED BY <2>1, <2>2, <2>3, <2>4, <2>5 DEF ArmInv, FilesKept, CalibrationComes, TorqueComes,
            Calibrated, ReadsAsCalibrated
<1>3. CASE Connected
    <2>1. /\ armPc = "enabling" /\ todo = <<>> /\ todo' = <<>>
          /\ armPc' = IF calibrateOnly THEN "asking" ELSE "running"
          /\ UNCHANGED <<calibrateOnly, registers, calibrationFile, calibration, busCalibration,
                         programs>>
        BY <1>3 DEF Connected, Goto, calibrations
    <2>2. ArmTypes'
        BY <2>1, NoWrites DEF ArmInv, ArmTypes
    <2>3. \A m \in ArmMotors : registers[m]["torque"] = 1
        BY <2>1 DEF ArmInv, TorqueComes, ToCome
    <2>4. ReadCalibration' = ReadCalibration
        BY <2>1 DEF ReadCalibration
    <2>5. ReadsAsCalibrated'
        BY <2>1, <2>3, <2>4 DEF ArmInv, Calibrated, ReadsAsCalibrated
    <2> QED BY <2>1, <2>2, <2>5 DEF ArmInv, FilesKept, CalibrationComes, TorqueComes, Calibrated
<1> QED BY <1>1, <1>2, <1>3

\* A new arm, with no calibration file.
LEMMA ArmInitInv == ArmInit => ArmInv
<1> SUFFICES ASSUME ArmInit PROVE ArmInv
    OBVIOUS
<1>1. ArmTypes
    <2>1. calibrateOnly \in BOOLEAN
        BY DEF ArmInit
    <2>2. 0 \in 0 .. MaxPrograms
        OBVIOUS
    <2> QED BY <2>1, <2>2, FactoryRegisters, NoWrites DEF ArmInit, ArmTypes
<1> QED BY <1>1 DEF ArmInit, ArmInv, FilesKept, CalibrationComes, TorqueComes, Calibrated,
        ReadsAsCalibrated

\* Every step of a run and of what happens between two.
LEMMA ArmStep == ArmInv /\ [ArmNext]_armVars => ArmInv'
<1>1. ArmInv /\ UNCHANGED armVars => ArmInv'
    <2> SUFFICES ASSUME ArmInv, UNCHANGED armVars PROVE ArmInv'
        OBVIOUS
    <2> USE DEF armVars, calibrations, ArmInv
    <2>1. ArmTypes'
        BY DEF ArmTypes
    <2>2. FilesKept'
        BY DEF FilesKept
    <2>3. CalibrationComes' /\ TorqueComes'
        BY DEF CalibrationComes, TorqueComes, ToCome, IsOf
    <2>4. Calibrated' /\ ReadsAsCalibrated'
        BY DEF Calibrated, ReadsAsCalibrated, ReadCalibration
    <2> QED BY <2>1, <2>2, <2>3, <2>4
<1> QED BY <1>1, FileInv, WriteAnsweredInv, AnewInv, RangesInv, SavedInv, ConfigureInv,
        FailureInv, BetweenInv DEF ArmNext

\* The invariant holds the types of all the variables.
LEMMA ArmTypesHold == ArmInv => ArmTypeOK
<1> SUFFICES ASSUME ArmInv PROVE ArmTypeOK
    OBVIOUS
<1>1. \A w \in Range(todo) : w \in ArmWrites
    <2>1. todo \in Seq(ArmWrites)
        BY DEF ArmInv, ArmTypes
    <2>2. \A i \in DOMAIN todo : todo[i] \in ArmWrites
        BY <2>1
    <2> QED BY <2>2 DEF Range
<1>2. \A w \in ArmWrites : /\ w.motor \in ArmMotors
                           /\ w.register \in {"torque", "offset", "min", "max"}
    BY DEF ArmWrites, Registers, Fields
<1>3. \A m \in ArmMotors :
          /\ registers[m].torque \in {0, 1}
          /\ registers[m].offset \in -OffsetMagnitude .. OffsetMagnitude
          /\ {registers[m].min, registers[m].max} \subseteq 0 .. Resolution - 1
    BY DEF ArmInv, ArmTypes, ArmRegisters
<1> QED BY <1>1, <1>2, <1>3 DEF ArmInv, ArmTypes, ArmTypeOK

\* The registers, the writes to come and the program keep their types.
THEOREM ArmTypeCorrect == ArmSpec => []ArmTypeOK
BY ArmTypesHold, ArmInitInv, ArmStep, PTL DEF ArmSpec

\* so_follower.py: an arm that runs is powered and measures with the calibration of its
\* file, however writes failed or programs were killed before, for any number of motors.
THEOREM AlwaysReadsAsCalibrated == ArmSpec => []ReadsAsCalibrated
<1>1. ArmInv => ReadsAsCalibrated
    BY DEF ArmInv
<1> QED BY <1>1, ArmInitInv, ArmStep, PTL DEF ArmSpec
------------------------------------------------------------------------------
(***************************************************************************)
(* MCComponents: the parts side by side.                                   *)
(***************************************************************************)
\* What each part keeps, of whichever part the steps are.
PartsInv ==
    /\ part \in Parts
    /\ LinkPoolInv /\ ReadInv /\ SessionInv /\ EncoderInv
    /\ CameraInv /\ HostInv /\ ArmInv

\* Every part starts in one of its initial states.
LEMMA PartsInitInv == ComponentsInit => PartsInv
<1> SUFFICES ASSUME ComponentsInit PROVE PartsInv
    OBVIOUS
<1>1. part \in Parts /\ LinkInit /\ RecordInit /\ EncoderInit /\ CameraInit /\ HostInit /\ ArmInit
    BY DEF ComponentsInit
<1>2. LinkPoolInv
    BY ONLY <1>1, LinkPoolInitInv
<1>3. ReadInv /\ SessionInv
    BY ONLY <1>1, ReadInitInv, SessionInitInv
<1>4. EncoderInv
    BY ONLY <1>1, EncoderInitInv
<1>5. CameraInv
    BY ONLY <1>1, CameraInitInv
<1>6. HostInv
    BY ONLY <1>1, HostInitInv
<1>7. ArmInv
    BY ONLY <1>1, ArmInitInv
<1> QED BY ONLY <1>1, <1>2, <1>3, <1>4, <1>5, <1>6, <1>7 DEF PartsInv

\* A step of one part is a step or a stutter of each.
LEMMA OfEachPart ==
    ASSUME [ComponentsNext]_componentVars
    PROVE  /\ part' = part
           /\ [LinkNext]_linkVars /\ [RecordNext]_recordVars /\ [EncoderNext]_encoderVars
           /\ [CameraNext]_cameraVars /\ [HostNext]_hostVars /\ [ArmNext]_armVars
BY DEF ComponentsNext, componentVars

\* Every part keeps its own.
LEMMA PartsStepInv == PartsInv /\ [ComponentsNext]_componentVars => PartsInv'
<1> SUFFICES ASSUME PartsInv, [ComponentsNext]_componentVars PROVE PartsInv'
    OBVIOUS
<1>1. /\ part \in Parts /\ LinkPoolInv /\ ReadInv /\ SessionInv /\ EncoderInv
      /\ CameraInv /\ HostInv /\ ArmInv
    BY DEF PartsInv
<1>2. /\ part' = part
      /\ [LinkNext]_linkVars /\ [RecordNext]_recordVars /\ [EncoderNext]_encoderVars
      /\ [CameraNext]_cameraVars /\ [HostNext]_hostVars /\ [ArmNext]_armVars
    BY ONLY OfEachPart, [ComponentsNext]_componentVars
<1>3. LinkPoolInv'
    BY ONLY <1>1, <1>2, LinkPoolStepInv
<1>4. ReadInv' /\ SessionInv'
    BY ONLY <1>1, <1>2, ReadStepInv, SessionStepInv
<1>5. EncoderInv'
    BY ONLY <1>1, <1>2, EncoderStep
<1>6. CameraInv'
    BY ONLY <1>1, <1>2, CameraStepInv
<1>7. HostInv'
    BY ONLY <1>1, <1>2, HostStepInv
<1>8. ArmInv'
    BY ONLY <1>1, <1>2, ArmStep
<1>9. part' \in Parts
    BY <1>1, <1>2 DEF Parts
<1> QED BY ONLY <1>3, <1>4, <1>5, <1>6, <1>7, <1>8, <1>9 DEF PartsInv

\* The types of all the parts, whichever runs: no more handlers than the pool has workers, no
\* queue of frames longer than its bound, no frame of a take that cannot have begun.
THEOREM ComponentsTypeCorrect == ComponentsSpec => []ComponentsTypeOK
<1>1. PartsInv => ComponentsTypeOK
    <2> SUFFICES ASSUME PartsInv PROVE ComponentsTypeOK
        OBVIOUS
    <2>1. /\ part \in Parts /\ LinkPoolInv /\ ReadInv /\ SessionInv /\ EncoderInv
          /\ CameraInv /\ HostInv /\ ArmInv
        BY DEF PartsInv
    <2>2. LinkTypeOK
        BY ONLY <2>1, LinkTypes
    <2>3. RecordTypeOK
        BY ONLY <2>1, RecordTypes
    <2>4. EncoderTypeOK
        BY ONLY <2>1 DEF EncoderInv
    <2>5. CameraTypeOK
        BY ONLY <2>1 DEF CameraInv
    <2>6. HostTypeOK
        BY ONLY <2>1 DEF HostInv
    <2>7. ArmTypeOK
        BY ONLY <2>1, ArmTypesHold
    <2> QED BY ONLY <2>1, <2>2, <2>3, <2>4, <2>5, <2>6, <2>7 DEF ComponentsTypeOK
<1> QED BY <1>1, PartsInitInv, PartsStepInv, PTL DEF ComponentsSpec
==================================================================================
