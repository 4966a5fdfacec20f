------------------------------ MODULE SoFollower ------------------------------
(***************************************************************************)
(* The sessions of an SO arm (robots/so_follower over motors/feetech):     *)
(* a program constructs the robot, which loads the calibration file,       *)
(* connects, calibrates when the registers of the motors differ from the   *)
(* file, configures, runs and disconnects.  Registers and file outlive the *)
(* program.  Each operation on several registers is a list of writes, any  *)
(* of which may raise, reaching the motor or not: retries (num_retry) only *)
(* make that rarer.  The lock of the permanent memory, which is written    *)
(* beside the torque, and the gains that configure sets are left out.      *)
(***************************************************************************)
EXTENDS Integers, SequencesExt

CONSTANTS
    NumMotors,       \* the last one is full_turn_motor
    Resolution,      \* steps of a turn, 4096
    OffsetMagnitude, \* the largest magnitude of Homing_Offset, 2047
    Centres,         \* bound: positions of a motor in the middle of its range
    Ranges,          \* bound: extremes that record_ranges_of_motion sees
    MaxPrograms,     \* bound: programs started
    NoCalibration,   \* the empty dictionary, or no file
    TornFile         \* a file that was cut short

ASSUME ArmAssumption ==
    /\ NumMotors \in Nat \ {0} /\ Resolution \in Nat \ {0} /\ OffsetMagnitude \in Nat
    /\ Centres \subseteq 0 .. Resolution - 1
    /\ Ranges \subseteq (0 .. Resolution - 1) \X (0 .. Resolution - 1)
    /\ MaxPrograms \in Nat

VARIABLES
    armPc, todo,     \* the operation the program is in, and the writes it has left
    calibrateOnly,   \* the program is lerobot_calibrate
    registers,       \* of the motors
    calibrationFile, calibration, busCalibration, \* on disk, of the robot, of its bus
    programs

calibrations == <<calibrationFile, calibration, busCalibration>>
armVars == <<armPc, todo, calibrateOnly, registers, calibrations, programs>>

ArmMotors == 1 .. NumMotors

(***************************************************************************)
(* Writes.                                                                 *)
(***************************************************************************)
RegisterWrite(motor, register, value) == [motor |-> motor, register |-> register, value |-> value]

\* What encode_sign_magnitude and _serialize_data let pass.
Encodable(w) ==
    IF w.register = "offset" THEN w.value \in -OffsetMagnitude .. OffsetMagnitude
    ELSE w.value >= 0

Written(w) == [registers EXCEPT ![w.motor][w.register] = w.value]

SetTorque(value) == [m \in ArmMotors |-> RegisterWrite(m, "torque", value)]

CalibrationFields == <<"offset", "min", "max">>

\* Motor after motor, the fields of its calibration.
CalibrationWrites(c) ==
    [k \in 1 .. 3 * NumMotors |->
        LET m     == ((k - 1) \div 3) + 1
            field == CalibrationFields[((k - 1) % 3) + 1]
        IN  RegisterWrite(m, field, c[m][field])]

\* The registers of a new motor.
Factory == [offset |-> 0, min |-> 0, max |-> Resolution - 1, torque |-> 0]

ResetWrites == CalibrationWrites([m \in ArmMotors |-> Factory])

\* Present_Position, with an offset of zero, becomes the middle of the turn.
HalfTurnHoming(position) == position - (Resolution - 1) \div 2

ReadCalibration ==
    [m \in ArmMotors |-> [offset |-> registers[m].offset,
                          min |-> registers[m].min, max |-> registers[m].max]]

\* Mutant: the offsets are not compared, as with motors that have none.
IsCalibratedByRanges ==
    busCalibration # NoCalibration /\ \A m \in ArmMotors :
        /\ busCalibration[m].min = registers[m].min
        /\ busCalibration[m].max = registers[m].max

IsCalibrated == busCalibration = ReadCalibration

(***************************************************************************)
(* The program.                                                            *)
(***************************************************************************)
ArmInit ==
    /\ armPc = "off" /\ todo = <<>> /\ calibrateOnly = FALSE
    /\ registers = [m \in ArmMotors |-> Factory]
    /\ calibrationFile = NoCalibration /\ calibration = NoCalibration
    /\ busCalibration = NoCalibration
    /\ programs = 0

Goto(pc, writes) == armPc' = pc /\ todo' = writes

\* Robot.__init__; the calibration of a file that was cut short cannot be read.
ConstructRobot(only) ==
    /\ armPc = "off" /\ programs < MaxPrograms /\ calibrationFile # TornFile
    /\ programs' = programs + 1 /\ calibrateOnly' = only
    /\ calibration' = calibrationFile /\ busCalibration' = calibrationFile
    /\ Goto("connecting", <<>>)
    /\ UNCHANGED <<registers, calibrationFile>>

\* The motors answer, and their calibration is read whether it is needed or not.
ConnectArm ==
    /\ armPc = "connecting"
    /\ IF calibrateOnly \/ IsCalibrated THEN Goto("disabling", SetTorque(0))
       ELSE Goto("asking", <<>>)
    /\ UNCHANGED <<calibrateOnly, registers, calibrations, programs>>

\* The next write is answered.
WriteAnswered ==
    /\ todo # <<>> /\ Encodable(Head(todo))
    /\ registers' = Written(Head(todo)) /\ todo' = Tail(todo)
    /\ UNCHANGED <<armPc, calibrateOnly, calibrations, programs>>

\* calibrate(), with ENTER: the calibration of the file is written.
UseFile ==
    /\ armPc = "asking" /\ calibration # NoCalibration
    /\ Goto("restoring", CalibrationWrites(calibration))
    /\ UNCHANGED <<calibrateOnly, registers, calibrations, programs>>

\* calibrate() anew: the arm is released, to be moved by hand.
CalibrateAnew ==
    /\ armPc = "asking"
    /\ Goto("releasing", SetTorque(0))
    /\ UNCHANGED <<calibrateOnly, registers, calibrations, programs>>

ResetCalibration ==
    /\ armPc = "releasing" /\ todo = <<>>
    /\ Goto("resetting", ResetWrites)
    /\ UNCHANGED <<calibrateOnly, registers, calibrations, programs>>

\* set_half_turn_homings, with the motors at these positions.
SetHalfTurnHomings(positions) ==
    /\ armPc = "resetting" /\ todo = <<>>
    /\ busCalibration' = NoCalibration
    /\ Goto("homing", [m \in ArmMotors |->
                          RegisterWrite(m, "offset", HalfTurnHoming(positions[m]))])
    /\ UNCHANGED <<calibrateOnly, registers, calibrationFile, calibration, programs>>

\* record_ranges_of_motion, which raises when a motor has not been moved.
RecordRangesOfMotion(ranges) ==
    /\ armPc = "homing" /\ todo = <<>>
    /\ \A m \in ArmMotors : IF m = NumMotors THEN ranges[m] = <<0, Resolution - 1>>
                            ELSE ranges[m][1] < ranges[m][2]
    /\ calibration' = [m \in ArmMotors |-> [offset |-> registers[m].offset,
                                            min |-> ranges[m][1], max |-> ranges[m][2]]]
    /\ Goto("writing", CalibrationWrites(calibration'))
    /\ UNCHANGED <<calibrateOnly, registers, calibrationFile, busCalibration, programs>>

\* disconnect(), with disable_torque_on_disconnect or without.
Disconnecting == armPc' = "disconnecting" /\ todo' \in {SetTorque(0), <<>>}

\* What follows calibrate(): connect() goes on, lerobot_calibrate disconnects.
AfterCalibrate == IF calibrateOnly THEN Disconnecting ELSE Goto("disabling", SetTorque(0))

\* write_calibration caches what it wrote.
FileRestored ==
    /\ armPc = "restoring" /\ todo = <<>>
    /\ busCalibration' = calibration
    /\ AfterCalibrate
    /\ UNCHANGED <<calibrateOnly, registers, calibrationFile, calibration, programs>>

CalibrationWritten ==
    /\ armPc = "writing" /\ todo = <<>>
    /\ busCalibration' = calibration
    /\ Goto("saving", <<>>)
    /\ UNCHANGED <<calibrateOnly, registers, calibrationFile, calibration, programs>>

SaveCalibration ==
    /\ armPc = "saving"
    /\ calibrationFile' = calibration
    /\ AfterCalibrate
    /\ UNCHANGED <<calibrateOnly, registers, calibration, busCalibration, programs>>

\* configure(): the registers it sets are written, or one of the writes raises; the
\* torque is enabled in any case.
Configure(raises) ==
    /\ armPc = "disabling" /\ todo = <<>>
    /\ Goto(IF raises THEN "enabling, raised" ELSE "enabling", SetTorque(1))
    /\ UNCHANGED <<calibrateOnly, registers, calibrations, programs>>

\* connect() returns.
Connected ==
    /\ armPc = "enabling" /\ todo = <<>>
    /\ Goto(IF calibrateOnly THEN "asking" ELSE "running", <<>>)
    /\ UNCHANGED <<calibrateOnly, registers, calibrations, programs>>

\* The program is done with the arm.
Disconnect ==
    /\ armPc = "running"
    /\ Disconnecting
    /\ UNCHANGED <<calibrateOnly, registers, calibrations, programs>>

PortClosed ==
    /\ armPc = "disconnecting" /\ todo = <<>>
    /\ Goto("off", <<>>)
    /\ UNCHANGED <<calibrateOnly, registers, calibrations, programs>>

(***************************************************************************)
(* Failures.                                                               *)
(***************************************************************************)
\* An exception leaves the operation.  The program disconnects the robot before it
\* ends, unless that failed itself or is_connected is false, a camera being closed.
Unwind(disconnects) ==
    IF disconnects /\ armPc # "disconnecting" THEN Disconnecting ELSE Goto("off", <<>>)

\* A write is not answered, its value cannot be encoded, or a camera cannot be opened
\* before the first; while torque_disabled is entered this leaves the torque as it is.
WriteRaises(reaches, disconnects) ==
    /\ todo # <<>>
    /\ registers' = IF reaches /\ Encodable(Head(todo)) THEN Written(Head(todo)) ELSE registers
    /\ Unwind(disconnects)
    /\ UNCHANGED <<calibrateOnly, calibrations, programs>>

\* A read raises, a motor has not been moved, Ctrl-C is pressed at a prompt, or the
\* torque is enabled again after a failure of configure().
Raises(disconnects) ==
    /\ armPc \in {"connecting", "asking", "releasing", "resetting", "homing", "enabling, raised"}
    /\ todo = <<>>
    /\ Unwind(disconnects)
    /\ UNCHANGED <<calibrateOnly, registers, calibrations, programs>>

\* The program is killed; open() has already truncated the file it writes.
Killed(truncated) ==
    /\ armPc # "off" /\ (truncated => armPc = "saving")
    /\ Goto("off", <<>>)
    /\ calibrationFile' = IF truncated THEN TornFile ELSE calibrationFile
    /\ UNCHANGED <<calibrateOnly, registers, calibration, busCalibration, programs>>

\* Between two sessions the user removes the file, or replaces a motor by a new one.
RemoveFile ==
    /\ armPc = "off" /\ calibrationFile # NoCalibration
    /\ calibrationFile' = NoCalibration
    /\ UNCHANGED <<armPc, todo, calibrateOnly, registers, calibration, busCalibration, programs>>

ReplaceMotor(m) ==
    /\ armPc = "off"
    /\ registers' = [registers EXCEPT ![m] = Factory]
    /\ UNCHANGED <<armPc, todo, calibrateOnly, calibrations, programs>>

ArmNext ==
    \/ \E only \in BOOLEAN : ConstructRobot(only)
    \/ ConnectArm \/ WriteAnswered \/ UseFile \/ CalibrateAnew \/ ResetCalibration
    \/ \E positions \in [ArmMotors -> Centres] : SetHalfTurnHomings(positions)
    \/ \E ranges \in [ArmMotors -> Ranges] : RecordRangesOfMotion(ranges)
    \/ FileRestored \/ CalibrationWritten \/ SaveCalibration
    \/ \E raises \in BOOLEAN : Configure(raises)
    \/ Connected \/ Disconnect \/ PortClosed
    \/ \E reaches, disconnects \in BOOLEAN : WriteRaises(reaches, disconnects)
    \/ \E disconnects \in BOOLEAN : Raises(disconnects)
    \/ \E truncated \in BOOLEAN : Killed(truncated)
    \/ RemoveFile
    \/ \E m \in ArmMotors : ReplaceMotor(m)

ArmSpec == ArmInit /\ [][ArmNext]_armVars

(***************************************************************************)
(* Properties.                                                             *)
(***************************************************************************)
ArmTypeOK ==
    /\ armPc \in {"off", "connecting", "asking", "releasing", "resetting", "homing", "restoring",
                  "writing", "saving", "disabling", "enabling", "enabling, raised", "running",
                  "disconnecting"}
    /\ \A m \in ArmMotors :
        /\ registers[m].torque \in {0, 1}
        /\ registers[m].offset \in -OffsetMagnitude .. OffsetMagnitude
        /\ {registers[m].min, registers[m].max} \subseteq 0 .. Resolution - 1
    /\ \A w \in Range(todo) : w.motor \in ArmMotors /\ w.register \in {"torque", "offset", "min", "max"}
    /\ calibrateOnly \in BOOLEAN /\ programs \in 0 .. MaxPrograms

\* so_follower.py: an arm that runs is powered, and the registers its positions are
\* measured with, the calibration they are scaled with and the file are the same,
\* whatever earlier sessions left half-written in the motors or on disk.
ReadsAsCalibrated ==
    armPc = "running" =>
        /\ \A m \in ArmMotors : registers[m].torque = 1
        /\ busCalibration = ReadCalibration
        /\ calibrationFile = busCalibration
==============================================================================
