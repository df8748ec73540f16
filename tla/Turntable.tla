----------------------------- MODULE Turntable -----------------------------
(***************************************************************************)
(* The stepper motor and the table it turns: the loop of moveToPosition,   *)
(* one call of rotateStepper at a time, against the physical position of   *)
(* the rotor.  current_angle is what the firmware believes; pos is where   *)
(* the rotor really stands, in half steps.  The belief is reset by a       *)
(* restart of the board and pos is not.                                    *)
(***************************************************************************)
EXTENDS Stepper, Sequences

CONSTANTS
    Moves,      \* the <<angle, relative>> commands that are given
    Restarts    \* whether the board may be restarted

ASSUME MovesAssumption ==
    Moves \subseteq {m \in (-360 .. 360) \X BOOLEAN : ValidCommand(m[1], m[2])}
ASSUME RestartsAssumption == Restarts \in BOOLEAN

VARIABLES
    current_angle,  \* the angle the firmware believes the table is at
    pos,            \* the rotor's half step, modulo a full turn
    target,         \* the angle of the move under way
    todo,           \* cycles still to make, negative when anticlockwise
    origin,         \* history: where the rotor stood when the move began
    cycles          \* history: calls of rotateStepper, clockwise ones counted
                    \* up and the others down, modulo a full turn

vars == <<current_angle, pos, target, todo, origin, cycles>>

Resting == todo = 0 /\ target = current_angle

Init ==
    /\ current_angle = 0
    /\ pos = 0
    /\ target = 0
    /\ todo = 0
    /\ origin = 0
    /\ cycles = 0

-----------------------------------------------------------------------------
\* Energising phase k of the half-step sequence pulls the rotor to the nearest
\* half step that has this phase.
Pull(p, k) == p + ((k - (p % numSteps) + 12) % numSteps) - 4

\* Mutant: the anticlockwise loop stops before phase 0 (and stays on phase 1).
stepSequence_Short(clockwise) ==
    IF clockwise THEN <<0, 1, 2, 3, 4, 5, 6, 7>> ELSE <<7, 6, 5, 4, 3, 2, 1, 1>>

\* The order in which one call energises the phases.
stepSequence(clockwise) ==
    IF clockwise THEN <<0, 1, 2, 3, 4, 5, 6, 7>> ELSE <<7, 6, 5, 4, 3, 2, 1, 0>>

\* One call of rotateStepper: the eight phases one after the other.  The pins
\* are low afterwards and the rotor stays on the last phase.
Pull2(p, phases, i) == Pull(Pull(p, phases[i]), phases[i + 1])

rotateStepper(p, clockwise) ==
    LET phases == stepSequence(clockwise)
    IN  Pull2(Pull2(Pull2(Pull2(p + HalfStepsPerTurn, phases, 1), phases, 3),
                    phases, 5), phases, 7) % HalfStepsPerTurn

-----------------------------------------------------------------------------
\* moveToPosition up to its loop: the target and the cycles to make.
BeginMove(angle, relative) ==
    /\ Resting
    /\ LET to   == Target(current_angle, angle, relative)
           diff == Rotation(current_angle, to)
       IN  /\ target' = to
           /\ todo' = IF diff > 0 THEN angleToSteps(diff)
                                  ELSE -angleToSteps(Abs(diff))
    /\ origin' = pos
    /\ UNCHANGED <<current_angle, pos, cycles>>

\* One iteration of the loop.
Turn ==
    /\ todo # 0
    /\ pos' = rotateStepper(pos, todo > 0)
    /\ todo' = IF todo > 0 THEN todo - 1 ELSE todo + 1
    /\ cycles' = (cycles + IF todo > 0 THEN 1 ELSE -1) % STEPS_PER_ROTATION
    /\ UNCHANGED <<current_angle, target, origin>>

\* The assignment after the loop.
EndMove ==
    /\ todo = 0
    /\ target # current_angle
    /\ current_angle' = target
    /\ UNCHANGED <<pos, target, todo, origin, cycles>>

\* A power cycle or ESP.restart, possibly in the middle of a move.
Restart ==
    /\ Restarts
    /\ current_angle' = 0
    /\ target' = 0
    /\ todo' = 0
    /\ origin' = pos
    /\ UNCHANGED <<pos, cycles>>

Next ==
    \/ \E m \in Moves : BeginMove(m[1], m[2])
    \/ Turn
    \/ EndMove
    \/ Restart

Spec == Init /\ [][Next]_vars

-----------------------------------------------------------------------------
TypeOK ==
    /\ current_angle \in Angle
    /\ pos \in 0 .. HalfStepsPerTurn - 1
    /\ target \in Angle
    /\ todo \in -256 .. 256
    /\ origin \in 0 .. HalfStepsPerTurn - 1
    /\ cycles \in 0 .. STEPS_PER_ROTATION - 1

\* The half step at which the table would stand at an angle if the motor were
\* exact (4096 half steps = 360 degrees).
Ideal(angle) == (angle * HalfStepsPerTurn) \div 360

\* The signed distance between two half steps, the shorter way round.
Off(p, q) ==
    ((p - q + HalfStepsPerTurn + HalfStepsPerTurn \div 2) % HalfStepsPerTurn)
        - HalfStepsPerTurn \div 2

\* Every reversal loses a half step in rotateStepper, which energises the last
\* phase again, and the loss does not add up: however many moves follow one
\* another, in whatever directions and with restarts in the middle of them, the
\* rotor is within one half step of where the cycles made put it.
PlayDoesNotAddUp == Off(pos, cycles * numSteps) \in {-1, 0}

\* Every move, whatever came before it (a restart in the middle of another move
\* included), turns the table the shorter way towards its target, never past
\* it, and stops less than nine half steps short: at most eight for the angle
\* truncated to whole cycles and one for a reversal.
MovesStopJustShort ==
    todo = 0 /\ target # current_angle =>
        LET asked == Rotation(current_angle, target)
            made  == IF asked > 0 THEN (pos - origin) % HalfStepsPerTurn
                                  ELSE (origin - pos) % HalfStepsPerTurn
            short == Abs(asked) * HalfStepsPerTurn - made * 360
        IN  short \in 0 .. 9 * 360 - 1

\* "Track current angle in degrees" (controller.ino:50), "512 steps for 360
\* degrees" (controller.ino:49): at rest the table is within a degree of the
\* angle the firmware tracks.
AngleIsTracked == Resting => Abs(Off(pos, Ideal(current_angle))) <= 12
=============================================================================
