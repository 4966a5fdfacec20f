----------------------------- MODULE CameraReader -----------------------------
(***************************************************************************)
(* The background thread of a camera (cameras/opencv/camera_opencv.py; the *)
(* RealSense and ZMQ cameras have the same one) and the robot's thread,    *)
(* which reads frames, disconnects and connects again.  stop_event and     *)
(* videocapture are attributes that every thread looks up afresh, so a     *)
(* thread that has not ended when disconnect stops waiting for it meets    *)
(* those of the next connection.  Frames are numbered as they are taken.   *)
(***************************************************************************)
EXTENDS Naturals

CONSTANTS
    MaxFailures,    \* read failures in a row that are forgiven
    MaxShots,       \* bound: frames taken
    MaxConnections  \* bound: connections

ASSUME CameraAssumption ==
    MaxFailures \in Nat /\ MaxShots \in Nat /\ MaxConnections \in Nat \ {0}

VARIABLES
    robotPc, connection,
    opened,        \* the videocapture is open
    stopSignal,    \* stop_event: none, clear or set
    reader,        \* connection -> where its thread is
    held,          \* connection -> the frame its thread has taken
    failures,      \* connection -> failures in a row
    shots,
    latestFrame, newFrame, \* latest_frame and new_frame_event
    since,         \* frames taken when this connection began (history)
    seen,          \* latest_frame when a read last cleared the event (history)
    overtaken,     \* a thread had stored it and not yet set the event (history)
    leftover,      \* a thread had outlived an earlier connection (history)
    got            \* the frame the last read returned, or 0

cameraVars == <<robotPc, connection, opened, stopSignal, reader, held, failures, shots,
                latestFrame, newFrame, since, seen, overtaken, leftover, got>>
threadVars == <<reader, held, failures, shots>>

Connections == 1 .. MaxConnections

CameraInit ==
    /\ robotPc = "idle" /\ connection = 0 /\ opened = FALSE /\ stopSignal = "none"
    /\ reader = [c \in Connections |-> "none"]
    /\ held = [c \in Connections |-> 0] /\ failures = [c \in Connections |-> 0]
    /\ shots = 0 /\ latestFrame = 0 /\ newFrame = FALSE
    /\ since = 0 /\ seen = 0 /\ overtaken = FALSE /\ leftover = FALSE /\ got = 0

Alive == opened /\ connection > 0 /\ reader[connection] # "dead"

Storing == \E c \in Connections : reader[c] = "notify"

\* What was there before is not what the next read is to return.
Seen == seen' = latestFrame /\ overtaken' = Storing

(***************************************************************************)
(* The background threads.                                                 *)
(***************************************************************************)
At(c, pc) == reader[c] = pc

Goes(c, pc) == reader' = [reader EXCEPT ![c] = pc]

\* stop_event may be None by now, and then the thread dies of it.
TestStop(c) ==
    /\ At(c, "test")
    /\ Goes(c, IF stopSignal = "clear" THEN "read" ELSE "dead")
    /\ UNCHANGED <<robotPc, connection, opened, stopSignal, held, failures, shots,
                   latestFrame, newFrame, since, seen, overtaken, leftover, got>>

\* The hardware begins to take a frame; without a videocapture the thread ends.
BeginShot(c) ==
    /\ At(c, "read") /\ (opened => shots < MaxShots)
    /\ IF opened
       THEN /\ Goes(c, "shoot") /\ shots' = shots + 1
            /\ held' = [held EXCEPT ![c] = shots + 1]
       ELSE Goes(c, "dead") /\ UNCHANGED <<shots, held>>
    /\ UNCHANGED <<robotPc, connection, opened, stopSignal, failures,
                   latestFrame, newFrame, since, seen, overtaken, leftover, got>>

\* Mutant: any number of failures is forgiven.
ShotFailsForgiven(c) ==
    /\ At(c, "shoot")
    /\ Goes(c, "test") /\ failures' = [failures EXCEPT ![c] = @ + 1]
    /\ UNCHANGED <<robotPc, connection, opened, stopSignal, held, shots,
                   latestFrame, newFrame, since, seen, overtaken, leftover, got>>

ShotFails(c) ==
    /\ At(c, "shoot")
    /\ IF failures[c] <= MaxFailures
       THEN Goes(c, "test") /\ failures' = [failures EXCEPT ![c] = @ + 1]
       ELSE Goes(c, "dead") /\ UNCHANGED failures
    /\ UNCHANGED <<robotPc, connection, opened, stopSignal, held, shots,
                   latestFrame, newFrame, since, seen, overtaken, leftover, got>>

StoreFrame(c) ==
    /\ At(c, "shoot")
    /\ latestFrame' = held[c] /\ Goes(c, "notify")
    /\ UNCHANGED <<robotPc, connection, opened, stopSignal, held, failures, shots,
                   newFrame, since, seen, overtaken, leftover, got>>

\* The event is set once the lock has been released.
SetEvent(c) ==
    /\ At(c, "notify")
    /\ newFrame' = TRUE /\ Goes(c, "test") /\ failures' = [failures EXCEPT ![c] = 0]
    /\ UNCHANGED <<robotPc, connection, opened, stopSignal, held, shots,
                   latestFrame, since, seen, overtaken, leftover, got>>

(***************************************************************************)
(* The robot's thread.                                                     *)
(***************************************************************************)
Connect ==
    /\ robotPc = "idle" /\ ~opened /\ connection < MaxConnections
    /\ connection' = connection + 1 /\ opened' = TRUE /\ stopSignal' = "clear"
    /\ reader' = [reader EXCEPT ![connection + 1] = "test"]
    /\ latestFrame' = 0 /\ newFrame' = FALSE
    /\ since' = shots /\ seen' = 0 /\ overtaken' = FALSE
    /\ leftover' = \E c \in Connections : reader[c] \notin {"none", "dead"}
    /\ UNCHANGED <<robotPc, held, failures, shots, got>>

\* read: the event is seen, and then set by the next frame.
BeginRead ==
    /\ robotPc = "idle" /\ Alive
    /\ newFrame' = FALSE /\ Seen
    /\ robotPc' = "wait"
    /\ UNCHANGED <<connection, opened, stopSignal, threadVars, latestFrame, since, leftover, got>>

BeginAsyncRead ==
    /\ robotPc = "idle" /\ Alive
    /\ robotPc' = "wait"
    /\ UNCHANGED <<connection, opened, stopSignal, threadVars, latestFrame, newFrame,
                   since, seen, overtaken, leftover, got>>

EventSeen ==
    /\ robotPc = "wait" /\ newFrame
    /\ robotPc' = "take"
    /\ UNCHANGED <<connection, opened, stopSignal, threadVars, latestFrame, newFrame,
                   since, seen, overtaken, leftover, got>>

WaitTimesOut ==
    /\ robotPc = "wait" /\ ~newFrame
    /\ robotPc' = "idle"
    /\ UNCHANGED <<connection, opened, stopSignal, threadVars, latestFrame, newFrame,
                   since, seen, overtaken, leftover, got>>

\* Mutant: the event stays set.
TakeKeepingEvent ==
    /\ robotPc = "take"
    /\ robotPc' = "idle" /\ got' = latestFrame
    /\ Seen
    /\ UNCHANGED <<connection, opened, stopSignal, threadVars, latestFrame, newFrame, since, leftover>>

\* Under the lock the frame is taken and the event cleared; with no frame there
\* the read raises.
TakeFrame ==
    /\ robotPc = "take"
    /\ robotPc' = "idle" /\ got' = latestFrame
    /\ newFrame' = FALSE /\ Seen
    /\ UNCHANGED <<connection, opened, stopSignal, threadVars, latestFrame, since, leftover>>

\* disconnect: the thread is told to stop and waited for, two seconds at most.
BeginDisconnect ==
    /\ robotPc = "idle" /\ opened
    /\ stopSignal' = "set" /\ robotPc' = "join"
    /\ UNCHANGED <<connection, opened, threadVars, latestFrame, newFrame,
                   since, seen, overtaken, leftover, got>>

StopReadThread ==
    /\ robotPc = "join"
    /\ stopSignal' = "none" /\ robotPc' = "release"
    /\ latestFrame' = 0 /\ newFrame' = FALSE
    /\ UNCHANGED <<connection, opened, threadVars, since, seen, overtaken, leftover, got>>

ReleaseCapture ==
    /\ robotPc = "release"
    /\ opened' = FALSE /\ robotPc' = "idle"
    /\ latestFrame' = 0 /\ newFrame' = FALSE
    /\ UNCHANGED <<connection, stopSignal, threadVars, since, seen, overtaken, leftover, got>>

CameraRests ==
    /\ robotPc = "idle" /\ (opened \/ connection = MaxConnections)
    /\ UNCHANGED cameraVars

------------------------------------------------------------------------------
CameraNext ==
    \/ \E c \in Connections : TestStop(c) \/ BeginShot(c) \/ ShotFails(c) \/ StoreFrame(c) \/ SetEvent(c)
    \/ Connect \/ BeginRead \/ BeginAsyncRead \/ EventSeen \/ WaitTimesOut \/ TakeFrame
    \/ BeginDisconnect \/ StopReadThread \/ ReleaseCapture \/ CameraRests

CameraSpec == CameraInit /\ [][CameraNext]_cameraVars

(***************************************************************************)
(* Properties.                                                             *)
(***************************************************************************)
CameraTypeOK ==
    /\ robotPc \in {"idle", "wait", "take", "join", "release"}
    /\ connection \in 0 .. MaxConnections /\ opened \in BOOLEAN
    /\ stopSignal \in {"none", "clear", "set"}
    /\ reader \in [Connections -> {"none", "test", "read", "shoot", "notify", "dead"}]
    /\ held \in [Connections -> 0 .. MaxShots]
    /\ failures \in [Connections -> 0 .. MaxFailures + 1]
    /\ shots \in 0 .. MaxShots /\ latestFrame \in 0 .. MaxShots /\ got \in 0 .. MaxShots
    /\ newFrame \in BOOLEAN

\* camera_opencv.py: a read returns a frame of this connection, and one that was
\* not there when the event was last seen, by read itself or as the frame
\* before was taken; but the one that was there is returned once more when its
\* thread had not set the event yet.  Only a thread that outlived an earlier
\* connection can bring another frame, or none.
ReadsFreshFrame ==
    [][/\ robotPc = "take" /\ robotPc' = "idle" =>
              (got' > since /\ (got' > seen \/ overtaken)) \/ leftover
       /\ latestFrame' = 0 \/ latestFrame' > since' \/ leftover']_cameraVars
==============================================================================
