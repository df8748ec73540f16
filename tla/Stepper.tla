------------------------------ MODULE Stepper ------------------------------
(***************************************************************************)
(* The arithmetic of the turntable's stepper motor, as the controller      *)
(* firmware (controller/controller.ino) computes it.  Angles are degrees,  *)
(* the motor is driven in cycles of eight half steps, and the firmware     *)
(* counts STEPS_PER_ROTATION cycles to a full turn of the table.           *)
(***************************************************************************)
EXTENDS Integers

STEPS_PER_ROTATION == 512
numSteps == 8
HalfStepsPerTurn == STEPS_PER_ROTATION * numSteps

\* Angles the table can be told to stand at, and the arguments of a motor
\* command: a move to an angle, or a move by an angle.
Angle == 0 .. 359

ValidCommand(angle, relative) ==
    angle \in IF relative THEN -360 .. 360 ELSE Angle

\* Mutant: rounded up.
angleToSteps_Up(angle) == (angle * STEPS_PER_ROTATION + 359) \div 360

\* The float product truncated to an int: for every angle a move can have,
\* 0 .. 180, the float result truncates to the same integer as this quotient.
angleToSteps(angle) == (angle * STEPS_PER_ROTATION) \div 360

\* Mutant: no full turn is taken off.
Target_Unwrapped(from, angle, relative) ==
    IF relative THEN from + angle ELSE angle

\* The angle a command leads to.
Target(from, angle, relative) ==
    IF relative THEN (from + angle + 360) % 360 ELSE angle % 360

\* The signed rotation from one angle to another, the shorter way round.
Rotation(from, to) ==
    LET diff == to - from
    IN  CASE diff > 180  -> diff - 360
          [] diff < -180 -> diff + 360
          [] OTHER       -> diff

Abs(n) == IF n < 0 THEN -n ELSE n

\* The angle of exposure number s of a scan, counted from 0 (6 degrees apart).
ScanAngle(s) == (s * 6) % 360
=============================================================================
