-------------------------------- MODULE Frames --------------------------------
(***************************************************************************)
(* The binary pushes of the mower and what MowerState reads of them: the   *)
(* telemetry frames s1.4 of 33, 10 and 8 bytes, the heartbeat s1.1 of 20,  *)
(* and the task state s2.56; and the wheel-bind detector, which compares a *)
(* frame with what MowerState has of the one before.                       *)
(*                                                                         *)
(* A frame is a sequence of bytes, the first at position 1.  The pose is   *)
(* two signed numbers of 20 bits that share a byte, in centimetres; areas  *)
(* are in hundredths of a square metre, with 24 bits, of which the mown    *)
(* area is read with 16.                                                   *)
(***************************************************************************)
EXTENDS Integers, Sequences, PythonValues

CONSTANTS Poses,       \* poses of the mower
          Areas,       \* mown areas
          TotalArea,   \* the area of the task
          MaxFrames    \* bound: pushes

\* Numbers that 20 bits with a sign, and 24 bits without one, can tell.
Signed20 == {n \in Int : -524288 <= n /\ n < 524288}
Unsigned24 == {n \in Nat : n < 16777216}

ASSUME FramesAssumption ==
    /\ Poses \subseteq [x : Signed20, y : Signed20] /\ Poses # {}
    /\ Areas \subseteq Unsigned24 /\ TotalArea \in Unsigned24

VARIABLES mower,   \* what the mower knows and tells
          seen,    \* MowerState
          full,    \* the last full frames and the position before each, newest first
          banner,  \* the notification of the emergency stop is up
          frames

framesVars == <<mower, seen, full, banner, frames>>

FRAME_DELIMITER == 206

(***************************************************************************)
(* The frames as the firmware packs them.  Bytes nobody reads are zero, or *)
(* full where they share a byte with a flag.                               *)
(***************************************************************************)
Byte(n, i) == (n \div 256 ^ i) % 256
Unsigned20(n) == n % 1048576

PoseBytes(p) ==
    LET x == Unsigned20(p.x)
        y == Unsigned20(p.y)
    IN  <<Byte(x, 0), Byte(x, 1), Byte(x, 2) + 16 * (y % 16), (y \div 16) % 256, y \div 4096>>

Zeros(n) == [i \in 1 .. n |-> 0]
Delimited(bytes) == <<FRAME_DELIMITER>> \o bytes \o <<FRAME_DELIMITER>>

Full(m) ==
    Delimited(PoseBytes(m.pose) \o Zeros(20)
        \o <<Byte(m.total, 0), Byte(m.total, 1), Byte(m.total, 2)>>
        \o <<Byte(m.area, 0), Byte(m.area, 1), Byte(m.area, 2)>>)
Short(m, n) == Delimited(PoseBytes(m.pose) \o Zeros(n - 7))

Heartbeat(m) ==
    LET Bit(on, mask) == IF on THEN mask ELSE 0
    IN  Delimited(<<252 + Bit(m.drop_tilt, 2) + Bit(m.bumper, 1), 253 + Bit(m.lift, 2),
                    127 + Bit(m.emergency_stop, 128), 0, 0, 247 + Bit(m.battery_temp_low, 8)>>
                  \o Zeros(3) \o <<Bit(m.safety_alert_active, 2)>> \o Zeros(6)
                  \o <<m.wifi_rssi_dbm % 256, 0>>)

\* The status of s2.56: no task, or its number and stage, scheduled runs with
\* a constant between the two.
Statuses == {<<>>} \cup {<<1, s>> : s \in {0, 2, 4}} \cup {<<1, 0, s>> : s \in {0, 2, 4}}
StageOfTask(status) == IF status = <<>> THEN None ELSE status[Len(status)]

(***************************************************************************)
(* The decoders (protocol/telemetry.py, protocol/heartbeat.py).            *)
(***************************************************************************)

\* Python's byte n is at n + 1.
At(data, n) == data[n + 1]
Signed(n, bits) == IF n >= 2 ^ (bits - 1) THEN n - 2 ^ bits ELSE n
Uint24(data, n) == At(data, n) + 256 * At(data, n + 1) + 65536 * At(data, n + 2)
Uint16(data, n) == At(data, n) + 256 * At(data, n + 1)

DecodePose(data) ==
    [x |-> Signed((At(data, 3) % 16) * 65536 + At(data, 2) * 256 + At(data, 1), 20),
     y |-> Signed(At(data, 5) * 4096 + At(data, 4) * 16 + At(data, 3) \div 16, 20)]

WellFormed(data, lengths) ==
    /\ Len(data) \in lengths
    /\ data[1] = FRAME_DELIMITER /\ data[Len(data)] = FRAME_DELIMITER

Masked(byte, mask) == (byte \div mask) % 2 = 1

DecodeS1p1(data) ==
    [drop_tilt |-> Masked(At(data, 1), 2), bumper |-> Masked(At(data, 1), 1),
     lift |-> Masked(At(data, 2), 2), emergency_stop |-> Masked(At(data, 3), 128),
     battery_temp_low |-> Masked(At(data, 6), 8),
     safety_alert_active |-> Masked(At(data, 10), 2),
     wifi_rssi_dbm |-> Signed(At(data, 17), 8)]

(***************************************************************************)
(* The wheel-bind detector.                                                *)
(***************************************************************************)
Abs(n) == IF n < 0 THEN -n ELSE n

\* Less than 50 mm apart.
Held(p, q) == LET dx == Abs(p.x - q.x)
                  dy == Abs(p.y - q.y)
              IN  dx < 5 /\ dy < 5 /\ dx * dx + dy * dy < 25

BIND_ACTIVE_FRAMES == 2

\* Faulty: a frame with motion does not start the count again.
DetectWheelBindOnce(pose, area) ==
    IF seen.pose = None \/ seen.area = None THEN 0
    ELSE IF Held(pose, seen.pose) /\ area - seen.area > 5 THEN seen.bound + 1 ELSE seen.bound

\* The consecutive frames in which the area advanced and the position did not.
DetectWheelBind(pose, area) ==
    IF seen.pose = None \/ seen.area = None THEN 0
    ELSE IF Held(pose, seen.pose) /\ area - seen.area > 5 THEN seen.bound + 1 ELSE 0

(***************************************************************************)
(* _property_apply.                                                        *)
(***************************************************************************)
ApplyS1p4(data) ==
    IF ~WellFormed(data, {8, 10, 33}) THEN seen
    ELSE LET pose == DecodePose(data)
             area == Uint16(data, 29)
             bound == DetectWheelBind(pose, area)
         IN  IF Len(data) # 33 THEN [seen EXCEPT !.pose = pose]
             ELSE [seen EXCEPT !.pose = pose, !.area = area, !.total = Uint24(data, 26),
                               !.bound = bound, !.bind = bound >= BIND_ACTIVE_FRAMES]

ApplyS1p1(data) ==
    IF ~WellFormed(data, {20}) THEN seen ELSE [seen EXCEPT !.flags = DecodeS1p1(data)]

Stage(status) == IF Len(status) >= 2 THEN status[Len(status)] ELSE None

EmergencyStop(state) == state.flags # None /\ state.flags.emergency_stop

(***************************************************************************)
(* Steps.                                                                  *)
(***************************************************************************)

\* Posted when the flag goes up, unknown being down; dismissed when it goes down.
HandleEmergencyStop ==
    banner' = IF EmergencyStop(seen) = EmergencyStop(seen') THEN banner ELSE EmergencyStop(seen')

Push(m) == frames < MaxFrames /\ frames' = frames + 1 /\ mower' = m

\* The mower has moved and mown on, or begun anew, when it sends a frame.
PushFull(p, a) ==
    /\ a >= mower.area \/ a = 0
    /\ Push([mower EXCEPT !.pose = p, !.area = a])
    /\ seen' = ApplyS1p4(Full(mower'))
    /\ full' = SubSeq(<<[pose |-> p, from |-> seen.pose, area |-> a % 65536]>> \o full,
                      1, IF Len(full) < 2 THEN Len(full) + 1 ELSE 3)
    /\ HandleEmergencyStop

PushShort(p, n) ==
    /\ Push([mower EXCEPT !.pose = p])
    /\ seen' = ApplyS1p4(Short(mower', n))
    /\ UNCHANGED full /\ HandleEmergencyStop

\* A frame that was cut, or lost its last delimiter, and one of the other kind.
PushBroken ==
    /\ Push(mower)
    /\ LET f == Full(mower)
       IN  seen' \in {ApplyS1p4(SubSeq(f, 1, 32)), ApplyS1p4([f EXCEPT ![33] = 0]),
                      ApplyS1p4(<<>>), ApplyS1p1(f)}
    /\ UNCHANGED full /\ HandleEmergencyStop

HeartbeatFlags == {"drop_tilt", "bumper", "lift", "emergency_stop", "battery_temp_low", "safety_alert_active"}

\* One flag is up, or none, and the signal is as it is.
FlagsUp(flag, dbm) ==
    [f \in HeartbeatFlags \cup {"wifi_rssi_dbm"} |-> IF f \in HeartbeatFlags THEN f = flag ELSE dbm]

PushHeartbeat(flag, dbm) ==
    /\ Push([mower EXCEPT !.flags = FlagsUp(flag, dbm)])
    /\ seen' = ApplyS1p1(Heartbeat(mower'.flags))
    /\ UNCHANGED full /\ HandleEmergencyStop

PushTaskState(status) ==
    /\ Push([mower EXCEPT !.stage = StageOfTask(status)])
    /\ seen' = [seen EXCEPT !.stage = Stage(status)]
    /\ UNCHANGED full /\ HandleEmergencyStop

NothingSeen == [pose |-> None, area |-> None, total |-> None, stage |-> None, flags |-> None,
                bound |-> 0, bind |-> FALSE]

\* The entry is reloaded: MowerState begins anew, notifications stay.
Reload ==
    /\ Push(mower)
    /\ seen' = NothingSeen
    /\ full' = <<>> /\ UNCHANGED banner

FramesInit ==
    /\ mower = [pose |-> CHOOSE p \in Poses : TRUE, area |-> 0, total |-> TotalArea, stage |-> None,
                flags |-> FlagsUp(None, -60)]
    /\ seen = NothingSeen
    /\ full = <<>> /\ banner = FALSE /\ frames = 0

FramesNext ==
    \/ \E p \in Poses, a \in Areas : PushFull(p, a)
    \/ \E p \in Poses, n \in {8, 10} : PushShort(p, n)
    \/ PushBroken
    \/ \E flag \in HeartbeatFlags \cup {None} : PushHeartbeat(flag, -60)
    \/ \E dbm \in {-128, 127} : PushHeartbeat("lift", dbm)
    \/ \E status \in Statuses : PushTaskState(status)
    \/ Reload

FramesSpec == FramesInit /\ [][FramesNext]_framesVars

(***************************************************************************)
(* Properties.                                                             *)
(***************************************************************************)

\* A wheel bind is reported only when two full frames in a row each found the
\* mower where the frame before had it, full or short, while the area it
\* counted went on (protocol/wheel_bind.py).
WheelBindIsStuck(state, last) ==
    state.bind =>
        /\ Len(last) = 3
        /\ \A i \in 1 .. BIND_ACTIVE_FRAMES :
              Held(last[i].pose, last[i].from) /\ last[i].area > last[i + 1].area

\* What a push brings is what the mower told with it: the pose to the last bit
\* on both sides of the dock, the area of a task above 655 m2, the flags
\* whatever the bits beside them, the stage of a scheduled run.
ReadIsTold ==
    /\ seen'.pose # seen.pose \/ full' # full => seen'.pose = mower'.pose
    /\ full' # full => seen'.total = mower'.total /\ seen'.area = mower'.area % 65536
    /\ seen'.flags # seen.flags \/ mower'.flags # mower.flags => seen'.flags = mower'.flags
    /\ seen'.stage # seen.stage \/ mower'.stage # mower.stage => seen'.stage = mower'.stage
    /\ WheelBindIsStuck(seen', full')
    /\ EmergencyStop(seen') => banner'

\* Every push leaves in MowerState what the mower told with it, and reports a
\* wheel bind only after two frames in which the mower was held; no broken
\* frame brings anything else; and the banner of the emergency stop is up
\* whenever the flag is, also after a reload (apply_property_to_state,
\* _handle_emergency_stop_transition).
ReadingsAreMowers == [][seen' = NothingSeen \/ ReadIsTold]_framesVars
=============================================================================
