--------------------------- MODULE Stepper_proof ---------------------------
(***************************************************************************)
(* What the motor's arithmetic returns for every angle, and for every      *)
(* command that handleMotorControl lets pass.                              *)
(***************************************************************************)
EXTENDS Stepper, TLAPS

\* A valid command leads to an angle of the table (moveToPosition, 103-108).
LEMMA TargetIsAnAngle ==
    ASSUME NEW from \in Angle, NEW angle \in Int, NEW relative \in BOOLEAN,
           ValidCommand(angle, relative)
    PROVE  Target(from, angle, relative) \in Angle
<1>1. CASE relative
    <2>1. angle \in -360 .. 360
        BY <1>1 DEF ValidCommand
    <2>2. from + angle + 360 \in Nat
        BY <2>1 DEF Angle
    <2>3. (from + angle + 360) % 360 \in 0 .. 359
        BY <2>2
    <2>4. QED
        BY <1>1, <2>3 DEF Target, Angle
<1>2. CASE ~relative
    BY <1>2 DEF ValidCommand, Target, Angle
<1>3. QED
    BY <1>1, <1>2

\* An angle of the table is a target a move reaches as it is, and an absolute
\* move there leads exactly there.
LEMMA AbsoluteTarget ==
    ASSUME NEW from \in Angle, NEW angle \in Angle
    PROVE  Target(from, angle, FALSE) = angle
BY DEF Target, Angle

\* Every step of a scan is at an angle of the table, however many there are.
LEMMA ScanAngleIsAnAngle ==
    ASSUME NEW s \in Nat
    PROVE  ScanAngle(s) \in Angle
BY DEF ScanAngle, Angle

\* A move is never longer than half a turn, and it ends at its target modulo
\* a full turn (moveToPosition, 111-113).
THEOREM RotationIsShortest ==
    ASSUME NEW from \in Angle, NEW to \in Angle
    PROVE  /\ Rotation(from, to) \in -180 .. 180
           /\ \/ from + Rotation(from, to) = to
              \/ from + Rotation(from, to) = to + 360
              \/ from + Rotation(from, to) = to - 360
<1>1. to - from \in -359 .. 359 /\ from \in Int /\ to \in Int
    BY DEF Angle
<1>2. CASE to - from > 180
    <2>1. Rotation(from, to) = to - from - 360
        BY <1>1, <1>2 DEF Rotation
    <2>2. QED
        BY <1>1, <1>2, <2>1
<1>3. CASE to - from < -180
    <2>1. Rotation(from, to) = to - from + 360
        BY <1>1, <1>3 DEF Rotation
    <2>2. QED
        BY <1>1, <1>3, <2>1
<1>4. CASE ~(to - from > 180) /\ ~(to - from < -180)
    <2>1. Rotation(from, to) = to - from
        BY <1>1, <1>4 DEF Rotation
    <2>2. QED
        BY <1>1, <1>4, <2>1
<1>5. QED
    BY <1>2, <1>3, <1>4

\* The cycles of a move never overshoot the angle, and fall short of it by
\* less than one cycle (angleToSteps, 93-99).
THEOREM CyclesFallJustShort ==
    ASSUME NEW angle \in 0 .. 180
    PROVE  /\ angleToSteps(angle) \in 0 .. 256
           /\ angleToSteps(angle) * 360 <= angle * STEPS_PER_ROTATION
           /\ angle * STEPS_PER_ROTATION < (angleToSteps(angle) + 1) * 360
BY DEF angleToSteps, STEPS_PER_ROTATION
=============================================================================
