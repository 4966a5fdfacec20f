------------------------------ MODULE LeKiwiHost ------------------------------
(***************************************************************************)
(* The watchdog of robots/lekiwi/lekiwi_host.py.  A client sends commands, *)
(* of which the conflating socket keeps the last one; each iteration of    *)
(* the host takes it, if there is one, and stops the base when the last    *)
(* command obeyed is too old.  A command that moves only the arm is one    *)
(* whose velocity is zero.  sync_write waits for no answer of the motors:  *)
(* what it writes may be lost.  Observations sent back are left out.       *)
(***************************************************************************)
EXTENDS Naturals

CONSTANTS
    WatchdogTimeout, \* watchdog_timeout_ms
    MaxIteration,    \* bound: the time that an iteration takes
    MaxTime          \* connection_time_s

ASSUME HostAssumption ==
    WatchdogTimeout \in Nat /\ MaxIteration \in Nat \ {0} /\ MaxTime \in Nat

VARIABLES
    hostPc,
    now,
    command,        \* what the socket holds: none, stand or move
    lastCmdTime, watchdogActive,
    moving,         \* the velocity the base was last given is not zero
    obeyedAt,       \* when a command was last obeyed (history)
    stopLost        \* the last stop was lost or failed (history)

hostVars == <<hostPc, now, command, lastCmdTime, watchdogActive, moving, obeyedAt, stopLost>>

HostInit ==
    /\ hostPc = "receive" /\ now = 0 /\ command = "none"
    /\ lastCmdTime = 0 /\ watchdogActive = FALSE
    /\ moving = FALSE /\ obeyedAt = 0 /\ stopLost = FALSE

\* The client replaces a command not taken yet; the network may lose it.
ClientSends(velocity) ==
    /\ hostPc # "ended"
    /\ command' = velocity
    /\ UNCHANGED <<hostPc, now, lastCmdTime, watchdogActive, moving, obeyedAt, stopLost>>

\* Mutant: a command does not end what the watchdog has begun.
ObeyKeepingWatchdog(reaches) ==
    /\ hostPc = "receive" /\ command # "none"
    /\ moving' = IF reaches THEN command = "move" ELSE moving
    /\ obeyedAt' = now
    /\ stopLost' = (stopLost /\ ~reaches)
    /\ lastCmdTime' = now
    /\ command' = "none" /\ hostPc' = "watch"
    /\ UNCHANGED <<now, watchdogActive>>

\* send_action, whose packet reaches the motors or not.
ObeyCommand(reaches) ==
    /\ hostPc = "receive" /\ command # "none"
    /\ moving' = IF reaches THEN command = "move" ELSE moving
    /\ obeyedAt' = now
    /\ stopLost' = (stopLost /\ ~reaches)
    /\ lastCmdTime' = now /\ watchdogActive' = FALSE
    /\ command' = "none" /\ hostPc' = "watch"
    /\ UNCHANGED now

\* A command cannot be read, or send_action raises before the base is written to.
CommandFails ==
    /\ hostPc = "receive" /\ command # "none"
    /\ command' = "none" /\ hostPc' = "watch"
    /\ UNCHANGED <<now, lastCmdTime, watchdogActive, moving, obeyedAt, stopLost>>

NoCommand ==
    /\ hostPc = "receive" /\ command = "none"
    /\ hostPc' = "watch"
    /\ UNCHANGED <<now, command, lastCmdTime, watchdogActive, moving, obeyedAt, stopLost>>

Late == now - lastCmdTime > WatchdogTimeout /\ ~watchdogActive

\* stop_base, once for each silence.
WatchdogStops(reaches) ==
    /\ hostPc = "watch" /\ Late
    /\ watchdogActive' = TRUE
    /\ moving' = (moving /\ ~reaches) /\ stopLost' = ~reaches
    /\ hostPc' = "observe"
    /\ UNCHANGED <<now, command, lastCmdTime, obeyedAt>>

WatchdogWaits ==
    /\ hostPc = "watch" /\ ~Late
    /\ hostPc' = "observe"
    /\ UNCHANGED <<now, command, lastCmdTime, watchdogActive, moving, obeyedAt, stopLost>>

\* The rest of the iteration, which takes its time.
Observe(ticks) ==
    /\ hostPc = "observe" /\ now < MaxTime
    /\ now' = now + ticks
    /\ hostPc' = "receive"
    /\ UNCHANGED <<command, lastCmdTime, watchdogActive, moving, obeyedAt, stopLost>>

\* The time is over, or an exception (Ctrl-C, a camera or a motor that cannot be
\* read) ends the loop: robot.disconnect stops the base and disables its torque,
\* unless stop_base raises.
HostEnds(fails) ==
    /\ hostPc # "ended"
    /\ hostPc' = "ended"
    /\ moving' = (moving /\ fails) /\ stopLost' = fails
    /\ UNCHANGED <<now, command, lastCmdTime, watchdogActive, obeyedAt>>

HostRests == hostPc = "ended" /\ UNCHANGED hostVars

HostNext ==
    \/ \E velocity \in {"none", "stand", "move"} : ClientSends(velocity)
    \/ \E reaches \in BOOLEAN : ObeyCommand(reaches) \/ WatchdogStops(reaches)
    \/ CommandFails \/ NoCommand \/ WatchdogWaits
    \/ \E ticks \in 1 .. MaxIteration : Observe(ticks)
    \/ \E fails \in BOOLEAN : HostEnds(fails)
    \/ HostRests

HostSpec == HostInit /\ [][HostNext]_hostVars

(***************************************************************************)
(* Properties.                                                             *)
(***************************************************************************)
HostTypeOK ==
    /\ hostPc \in {"receive", "watch", "observe", "ended"}
    /\ now \in 0 .. MaxTime + MaxIteration
    /\ lastCmdTime \in 0 .. now /\ obeyedAt \in 0 .. now
    /\ command \in {"none", "stand", "move"}
    /\ watchdogActive \in BOOLEAN /\ moving \in BOOLEAN /\ stopLost \in BOOLEAN

\* lekiwi_host.py: after every check a base that moves has been sent a command
\* within the timeout, and once the host has ended none moves; or the last stop
\* did not reach the base: the watchdog sends one for each silence.
BaseStopped ==
    moving /\ hostPc \in {"observe", "ended"} =>
        \/ hostPc = "observe" /\ now - obeyedAt <= WatchdogTimeout
        \/ stopLost
==============================================================================
