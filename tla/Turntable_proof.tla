--------------------------- MODULE Turntable_proof ---------------------------
(***************************************************************************)
(* What Turntable promises, for all commands a motor can be given, in      *)
(* whatever order and number, with restarts anywhere between and in them.  *)
(* TLC checks it for the commands of a configuration.                      *)
(***************************************************************************)
EXTENDS Turntable, Stepper_proof

\* The motor's constants as numbers.
LEMMA HalfSteps ==
    STEPS_PER_ROTATION = 512 /\ numSteps = 8 /\ HalfStepsPerTurn = 4096
BY DEF STEPS_PER_ROTATION, numSteps, HalfStepsPerTurn

-----------------------------------------------------------------------------
(* The rotor's places, by the cycles counted: the half step the cycles     *)
(* amount to, which is a first phase, and the one before it, a last phase. *)

At(c) == 8 * c
Behind(c) == IF c = 0 THEN 4095 ELSE 8 * c - 1

\* Cycle counts and half steps, and the next count either way: named, so that
\* the proofs below can treat them as a whole.
Count == 0 .. 511
HalfStep == 0 .. 4095
Up(c) == (c + 1) % 512
Down(c) == (c - 1) % 512

\* Counting a cycle more, or less, round the turn.
LEMMA Counts ==
    ASSUME NEW c \in Count
    PROVE  /\ c \in 0 .. 511 /\ Up(c) \in 0 .. 511 /\ Down(c) \in 0 .. 511
           /\ c < 511 => Up(c) = c + 1
           /\ c = 511 => Up(c) = 0
           /\ c > 0 => Down(c) = c - 1
           /\ c = 0 => Down(c) = 511
<1>1. c \in 0 .. 511
    BY DEF Count
<1>2. Up(c) = IF c = 511 THEN 0 ELSE c + 1
    BY <1>1 DEF Up
<1>3. Down(c) = IF c = 0 THEN 511 ELSE c - 1
    BY <1>1 DEF Down
<1>4. QED
    BY <1>1, <1>2, <1>3

-----------------------------------------------------------------------------
(* One call of rotateStepper.                                              *)

\* The next phase up, or down, is half a step away; the same phase, none.
LEMMA PullToNeighbour ==
    ASSUME NEW p \in Nat, NEW k \in 0 .. 7
    PROVE  /\ p % 8 = k => Pull(p, k) = p
           /\ (p + 1) % 8 = k => Pull(p, k) = p + 1
           /\ p > 0 /\ (p - 1) % 8 = k => Pull(p, k) = p - 1
BY HalfSteps DEF Pull

Rotated(q, phases) ==
    Pull2(Pull2(Pull2(Pull2(q, phases, 1), phases, 3), phases, 5), phases, 7)

\* One call, by direction.
Clockwise(p) == rotateStepper(p, TRUE)
Anticlockwise(p) == rotateStepper(p, FALSE)

\* Eight phases up end behind the next count: seven half steps from a first phase,
\* eight from a last.
LEMMA CycleClockwise ==
    ASSUME NEW c \in Count
    PROVE  /\ Up(c) \in Count
           /\ Behind(Up(c)) \in HalfStep
           /\ Clockwise(At(c)) = Behind(Up(c))
           /\ Clockwise(Behind(c)) = Behind(Up(c))
<1>. DEFINE phases == stepSequence(TRUE)
<1>1. /\ phases[1] = 0 /\ phases[2] = 1 /\ phases[3] = 2 /\ phases[4] = 3
      /\ phases[5] = 4 /\ phases[6] = 5 /\ phases[7] = 6 /\ phases[8] = 7
    BY DEF stepSequence
<1>. HIDE DEF phases
<1>2. ASSUME NEW q \in Nat, q > 8, q % 8 = 0
      PROVE  Rotated(q, phases) = q + 7
    <2>1. Pull2(q, phases, 1) = q + 1
        <3>1. Pull(q, 0) = q
            BY <1>2, PullToNeighbour
        <3>2. Pull(q, 1) = q + 1
            BY <1>2, PullToNeighbour
        <3>3. QED
            BY <1>1, <3>1, <3>2 DEF Pull2
    <2>2. Pull2(q + 1, phases, 3) = q + 3
        <3>1. Pull(q + 1, 2) = q + 2
            BY <1>2, PullToNeighbour
        <3>2. Pull(q + 2, 3) = q + 3
            BY <1>2, PullToNeighbour
        <3>3. QED
            BY <1>1, <3>1, <3>2 DEF Pull2
    <2>3. Pull2(q + 3, phases, 5) = q + 5
        <3>1. Pull(q + 3, 4) = q + 4
            BY <1>2, PullToNeighbour
        <3>2. Pull(q + 4, 5) = q + 5
            BY <1>2, PullToNeighbour
        <3>3. QED
            BY <1>1, <3>1, <3>2 DEF Pull2
    <2>4. Pull2(q + 5, phases, 7) = q + 7
        <3>1. Pull(q + 5, 6) = q + 6
            BY <1>2, PullToNeighbour
        <3>2. Pull(q + 6, 7) = q + 7
            BY <1>2, PullToNeighbour
        <3>3. QED
            BY <1>1, <3>1, <3>2 DEF Pull2
    <2>5. QED
        BY <2>1, <2>2, <2>3, <2>4 DEF Rotated
<1>3. ASSUME NEW q \in Nat, q > 8, q % 8 = 7
      PROVE  Rotated(q, phases) = q + 8
    <2>1. Pull2(q, phases, 1) = q + 2
        <3>1. Pull(q, 0) = q + 1
            BY <1>3, PullToNeighbour
        <3>2. Pull(q + 1, 1) = q + 2
            BY <1>3, PullToNeighbour
        <3>3. QED
            BY <1>1, <3>1, <3>2 DEF Pull2
    <2>2. Pull2(q + 2, phases, 3) = q + 4
        <3>1. Pull(q + 2, 2) = q + 3
            BY <1>3, PullToNeighbour
        <3>2. Pull(q + 3, 3) = q + 4
            BY <1>3, PullToNeighbour
        <3>3. QED
            BY <1>1, <3>1, <3>2 DEF Pull2
    <2>3. Pull2(q + 4, phases, 5) = q + 6
        <3>1. Pull(q + 4, 4) = q + 5
            BY <1>3, PullToNeighbour
        <3>2. Pull(q + 5, 5) = q + 6
            BY <1>3, PullToNeighbour
        <3>3. QED
            BY <1>1, <3>1, <3>2 DEF Pull2
    <2>4. Pull2(q + 6, phases, 7) = q + 8
        <3>1. Pull(q + 6, 6) = q + 7
            BY <1>3, PullToNeighbour
        <3>2. Pull(q + 7, 7) = q + 8
            BY <1>3, PullToNeighbour
        <3>3. QED
            BY <1>1, <3>1, <3>2 DEF Pull2
    <2>5. QED
        BY <2>1, <2>2, <2>3, <2>4 DEF Rotated
<1>4. Clockwise(At(c)) = Behind(Up(c))
    <2>1. /\ At(c) + 4096 \in Nat /\ At(c) + 4096 > 8
          /\ (At(c) + 4096) % 8 = 0
        BY DEF Count, At
    <2>2. Rotated(At(c) + 4096, phases) = At(c) + 4096 + 7
        BY <1>2, <2>1 DEF Count, At
    <2>3. (At(c) + 4096 + 7) % 4096 = Behind(Up(c))
        BY Counts DEF At, Behind
    <2>4. Clockwise(At(c)) = Rotated(At(c) + 4096, phases) % 4096
        BY HalfSteps DEF rotateStepper, Rotated, phases, Clockwise
    <2>5. QED
        BY <2>2, <2>3, <2>4
<1>5. Clockwise(Behind(c)) = Behind(Up(c))
    <2>1. /\ Behind(c) + 4096 \in Nat /\ Behind(c) + 4096 > 8
          /\ (Behind(c) + 4096) % 8 = 7
        BY DEF Count, Behind
    <2>2. Rotated(Behind(c) + 4096, phases) = Behind(c) + 4096 + 8
        BY <1>3, <2>1 DEF Count, Behind
    <2>3. (Behind(c) + 4096 + 8) % 4096 = Behind(Up(c))
        BY Counts DEF At, Behind
    <2>4. Clockwise(Behind(c)) = Rotated(Behind(c) + 4096, phases) % 4096
        BY HalfSteps DEF rotateStepper, Rotated, phases, Clockwise
    <2>5. QED
        BY <2>2, <2>3, <2>4
<1>6. Up(c) \in Count
    BY Counts DEF Count
<1>7. Behind(Up(c)) \in HalfStep
    BY <1>6 DEF Count, HalfStep, Behind
<1>8. QED
    BY <1>4, <1>5, <1>6, <1>7

\* Eight phases down end at the count before: eight half steps from a first phase,
\* seven from a last.
LEMMA CycleAnticlockwise ==
    ASSUME NEW c \in Count
    PROVE  /\ Down(c) \in Count
           /\ At(Down(c)) \in HalfStep
           /\ Anticlockwise(At(c)) = At(Down(c))
           /\ Anticlockwise(Behind(c)) = At(Down(c))
<1>. DEFINE phases == stepSequence(FALSE)
<1>1. /\ phases[1] = 7 /\ phases[2] = 6 /\ phases[3] = 5 /\ phases[4] = 4
      /\ phases[5] = 3 /\ phases[6] = 2 /\ phases[7] = 1 /\ phases[8] = 0
    BY DEF stepSequence
<1>. HIDE DEF phases
<1>2. ASSUME NEW q \in Nat, q > 8, q % 8 = 7
      PROVE  Rotated(q, phases) = q - 7
    <2>1. Pull2(q, phases, 1) = q - 1
        <3>1. Pull(q, 7) = q
            BY <1>2, PullToNeighbour
        <3>2. Pull(q, 6) = q - 1
            BY <1>2, PullToNeighbour
        <3>3. QED
            BY <1>1, <3>1, <3>2 DEF Pull2
    <2>2. Pull2(q - 1, phases, 3) = q - 3
        <3>1. Pull(q - 1, 5) = q - 2
            BY <1>2, PullToNeighbour
        <3>2. Pull(q - 2, 4) = q - 3
            BY <1>2, PullToNeighbour
        <3>3. QED
            BY <1>1, <3>1, <3>2 DEF Pull2
    <2>3. Pull2(q - 3, phases, 5) = q - 5
        <3>1. Pull(q - 3, 3) = q - 4
            BY <1>2, PullToNeighbour
        <3>2. Pull(q - 4, 2) = q - 5
            BY <1>2, PullToNeighbour
        <3>3. QED
            BY <1>1, <3>1, <3>2 DEF Pull2
    <2>4. Pull2(q - 5, phases, 7) = q - 7
        <3>1. Pull(q - 5, 1) = q - 6
            BY <1>2, PullToNeighbour
        <3>2. Pull(q - 6, 0) = q - 7
            BY <1>2, PullToNeighbour
        <3>3. QED
            BY <1>1, <3>1, <3>2 DEF Pull2
    <2>5. QED
        BY <2>1, <2>2, <2>3, <2>4 DEF Rotated
<1>3. ASSUME NEW q \in Nat, q > 8, q % 8 = 0
      PROVE  Rotated(q, phases) = q - 8
    <2>1. Pull2(q, phases, 1) = q - 2
        <3>1. Pull(q, 7) = q - 1
            BY <1>3, PullToNeighbour
        <3>2. Pull(q - 1, 6) = q - 2
            BY <1>3, PullToNeighbour
        <3>3. QED
            BY <1>1, <3>1, <3>2 DEF Pull2
    <2>2. Pull2(q - 2, phases, 3) = q - 4
        <3>1. Pull(q - 2, 5) = q - 3
            BY <1>3, PullToNeighbour
        <3>2. Pull(q - 3, 4) = q - 4
            BY <1>3, PullToNeighbour
        <3>3. QED
            BY <1>1, <3>1, <3>2 DEF Pull2
    <2>3. Pull2(q - 4, phases, 5) = q - 6
        <3>1. Pull(q - 4, 3) = q - 5
            BY <1>3, PullToNeighbour
        <3>2. Pull(q - 5, 2) = q - 6
            BY <1>3, PullToNeighbour
        <3>3. QED
            BY <1>1, <3>1, <3>2 DEF Pull2
    <2>4. Pull2(q - 6, phases, 7) = q - 8
        <3>1. Pull(q - 6, 1) = q - 7
            BY <1>3, PullToNeighbour
        <3>2. Pull(q - 7, 0) = q - 8
            BY <1>3, PullToNeighbour
        <3>3. QED
            BY <1>1, <3>1, <3>2 DEF Pull2
    <2>5. QED
        BY <2>1, <2>2, <2>3, <2>4 DEF Rotated
<1>4. Anticlockwise(At(c)) = At(Down(c))
    <2>1. /\ At(c) + 4096 \in Nat /\ At(c) + 4096 > 8
          /\ (At(c) + 4096) % 8 = 0
        BY DEF Count, At
    <2>2. Rotated(At(c) + 4096, phases) = At(c) + 4096 - 8
        BY <1>3, <2>1 DEF Count, At
    <2>3. (At(c) + 4096 - 8) % 4096 = At(Down(c))
        BY Counts DEF At, Behind
    <2>4. Anticlockwise(At(c)) = Rotated(At(c) + 4096, phases) % 4096
        BY HalfSteps DEF rotateStepper, Rotated, phases, Anticlockwise
    <2>5. QED
        BY <2>2, <2>3, <2>4
<1>5. Anticlockwise(Behind(c)) = At(Down(c))
    <2>1. /\ Behind(c) + 4096 \in Nat /\ Behind(c) + 4096 > 8
          /\ (Behind(c) + 4096) % 8 = 7
        BY DEF Count, Behind
    <2>2. Rotated(Behind(c) + 4096, phases) = Behind(c) + 4096 - 7
        BY <1>2, <2>1 DEF Count, Behind
    <2>3. (Behind(c) + 4096 - 7) % 4096 = At(Down(c))
        BY Counts DEF At, Behind
    <2>4. Anticlockwise(Behind(c)) = Rotated(Behind(c) + 4096, phases) % 4096
        BY HalfSteps DEF rotateStepper, Rotated, phases, Anticlockwise
    <2>5. QED
        BY <2>2, <2>3, <2>4
<1>6. Down(c) \in Count
    BY Counts DEF Count
<1>7. At(Down(c)) \in HalfStep
    BY <1>6 DEF Count, HalfStep, At
<1>8. QED
    BY <1>4, <1>5, <1>6, <1>7

-----------------------------------------------------------------------------
(* The inductive invariant.  The properties speak of the rotor and the     *)
(* cycles in half steps and of a move that is over; the invariant says     *)
(* where the rotor is after each cycle of it, on a first or a last phase.  *)

\* The rotation of the move under way, and the cycles it takes.
Asked == Rotation(current_angle, target)
Total == angleToSteps(Abs(Asked))

PlayIsOneHalfStep == pos \in {At(cycles), Behind(cycles)}

\* A clockwise move that began at a count: the cycles made since are those no
\* longer to do, and all but a move without any leave the rotor behind.
ClockwiseSoFar(from) ==
    /\ todo \in 0 .. Total
    /\ cycles = (from + Total - todo) % 512
    /\ pos = IF todo = Total THEN origin ELSE Behind(cycles)

\* And an anticlockwise one.
AnticlockwiseSoFar(from) ==
    /\ -todo \in 0 .. Total
    /\ cycles = (from - Total - todo) % 512
    /\ pos = IF -todo = Total THEN origin ELSE At(cycles)

MoveSoFar ==
    /\ target = current_angle => todo = 0
    /\ \E from \in 0 .. 511 :
        /\ origin \in {At(from), Behind(from)}
        /\ target # current_angle /\ Asked > 0 => ClockwiseSoFar(from)
        /\ target # current_angle /\ ~(Asked > 0) => AnticlockwiseSoFar(from)

TurnInv == TypeOK /\ PlayIsOneHalfStep /\ MoveSoFar

-----------------------------------------------------------------------------
\* The ranges of the variables, with the motor's constants as numbers.
LEMMA TypeValues ==
    ASSUME TypeOK
    PROVE  /\ current_angle \in Angle /\ target \in Angle
           /\ pos \in 0 .. 4095 /\ origin \in 0 .. 4095
           /\ todo \in -256 .. 256 /\ cycles \in 0 .. 511
BY HalfSteps DEF TypeOK

\* A move is of half a turn at most, and of none only to where the table is.
LEMMA AskedAndTotal ==
    ASSUME NEW from \in Angle, NEW to \in Angle
    PROVE  /\ Rotation(from, to) \in -180 .. 180
           /\ Rotation(from, to) = 0 <=> from = to
           /\ Abs(Rotation(from, to)) \in 0 .. 180
           /\ angleToSteps(Abs(Rotation(from, to))) \in 0 .. 256
<1>1. /\ Rotation(from, to) \in -180 .. 180
      /\ \/ from + Rotation(from, to) = to
         \/ from + Rotation(from, to) = to + 360
         \/ from + Rotation(from, to) = to - 360
    BY RotationIsShortest
<1>2. Rotation(from, to) = 0 <=> from = to
    <2>1. from = to => Rotation(from, to) = 0
        BY DEF Angle, Rotation
    <2>2. Rotation(from, to) = 0 => from = to
        BY <1>1 DEF Angle
    <2>3. QED
        BY <2>1, <2>2
<1>3. Abs(Rotation(from, to)) \in 0 .. 180
    BY <1>1 DEF Abs
<1>4. QED
    BY <1>1, <1>2, <1>3, CyclesFallJustShort

\* The board has just been switched on and no cycle was made.
LEMMA StartsTurned == Init => TurnInv
<1>. SUFFICES ASSUME Init PROVE TurnInv
    OBVIOUS
<1>1. TypeOK
    BY HalfSteps DEF Init, TypeOK, Angle
<1>2. PlayIsOneHalfStep /\ origin = At(0)
    BY DEF Init, PlayIsOneHalfStep, At
<1>3. MoveSoFar
    BY <1>2 DEF Init, MoveSoFar
<1>4. QED
    BY <1>1, <1>2, <1>3 DEF TurnInv

\* moveToPosition up to the loop.
LEMMA BeginningAMove ==
    ASSUME TurnInv, NEW m \in Moves, BeginMove(m[1], m[2])
    PROVE  TurnInv'
<1>. DEFINE to == Target(current_angle, m[1], m[2])
<1>. DEFINE diff == Rotation(current_angle, to)
<1>1. /\ TypeOK /\ PlayIsOneHalfStep
      /\ cycles \in 0 .. 511
    BY TypeValues DEF TurnInv
<1>2. to \in Angle
    <2>1. m[1] \in Int /\ m[2] \in BOOLEAN /\ ValidCommand(m[1], m[2])
        BY MovesAssumption DEF MovesAssumption
    <2>2. QED
        BY <1>1, <2>1, TargetIsAnAngle DEF TypeOK
<1>3. /\ target' = to
      /\ todo' = IF diff > 0 THEN angleToSteps(diff)
                             ELSE -angleToSteps(Abs(diff))
      /\ origin' = pos
      /\ UNCHANGED <<current_angle, pos, cycles>>
    BY DEF BeginMove
<1>. HIDE DEF to
<1>4. /\ diff \in -180 .. 180 /\ (diff = 0 <=> current_angle = to)
      /\ Abs(diff) \in 0 .. 180 /\ angleToSteps(Abs(diff)) \in 0 .. 256
    BY <1>1, <1>2, AskedAndTotal DEF TypeOK
<1>5. Asked' = diff /\ Total' = angleToSteps(Abs(diff))
    BY <1>3 DEF Asked, Total
<1>. HIDE DEF diff
<1>6. diff > 0 => Abs(diff) = diff
    BY <1>4 DEF Abs
<1>7. TypeOK'
    BY <1>1, <1>2, <1>3, <1>4, <1>6 DEF TypeOK
<1>8. PlayIsOneHalfStep'
    BY <1>1, <1>3 DEF PlayIsOneHalfStep
<1>9. MoveSoFar'
    <2>1. (target = current_angle => todo = 0)'
        <3>1. SUFFICES ASSUME to = current_angle PROVE todo' = 0
            BY <1>3
        <3>2. diff = 0
            BY <1>4, <3>1
        <3>3. angleToSteps(Abs(diff)) = 0
            BY <3>2 DEF angleToSteps, Abs, STEPS_PER_ROTATION
        <3>4. QED
            BY <1>3, <3>2, <3>3
    <2>2. ASSUME diff > 0
          PROVE  ClockwiseSoFar(cycles)'
        <3>1. todo' = Total' /\ Total' \in 0 .. 256
            BY <1>3, <1>4, <1>5, <1>6, <2>2
        <3>2. cycles' = (cycles' + Total' - todo') % 512
            BY <1>1, <1>3, <3>1
        <3>3. QED
            BY <1>3, <3>1, <3>2 DEF ClockwiseSoFar
    <2>3. ASSUME ~(diff > 0)
          PROVE  AnticlockwiseSoFar(cycles)'
        <3>1. -todo' = Total' /\ Total' \in 0 .. 256 /\ todo' \in Int
            BY <1>3, <1>4, <1>5, <2>3
        <3>2. cycles' = (cycles' - Total' - todo') % 512
            <4>1. cycles' - Total' - todo' = cycles' /\ cycles' \in 0 .. 511
                BY <1>1, <1>3, <3>1
            <4>2. QED
                BY <4>1
        <3>3. QED
            BY <1>3, <3>1, <3>2 DEF AnticlockwiseSoFar
    <2>4. origin' \in {At(cycles'), Behind(cycles')}
        BY <1>1, <1>3 DEF PlayIsOneHalfStep
    <2>5. QED
        BY <1>1, <1>3, <1>5, <2>1, <2>2, <2>3, <2>4 DEF MoveSoFar
<1>10. QED
    BY <1>7, <1>8, <1>9 DEF TurnInv

\* A cycle clockwise.
LEMMA TurningClockwise ==
    ASSUME TurnInv, Turn, todo > 0
    PROVE  TurnInv'
<1>1. TypeOK /\ PlayIsOneHalfStep /\ MoveSoFar
    BY DEF TurnInv
<1>2. /\ current_angle \in Angle /\ target \in Angle
      /\ todo \in -256 .. 256 /\ cycles \in 0 .. 511
    BY <1>1, TypeValues
<1>3. /\ todo' = todo - 1
      /\ cycles' = (cycles + 1) % 512
      /\ UNCHANGED <<current_angle, target, origin>>
    BY <1>2, HalfSteps DEF Turn
<1>4. pos' = Clockwise(pos)
    <2>. DEFINE up == todo > 0
    <2>1. pos' = rotateStepper(pos, up)
        BY DEF Turn
    <2>2. up = TRUE
        OBVIOUS
    <2>. HIDE DEF up
    <2>3. QED
        BY <2>1, <2>2 DEF Clockwise
<1>5. cycles' \in 0 .. 511 /\ pos' \in 0 .. 4095 /\ pos' = Behind(cycles')
    <2>1. cycles \in Count /\ cycles' = Up(cycles)
        BY <1>2, <1>3 DEF Count, Up
    <2>2. /\ Up(cycles) \in Count /\ Behind(Up(cycles)) \in HalfStep
          /\ Clockwise(At(cycles)) = Behind(Up(cycles))
          /\ Clockwise(Behind(cycles)) = Behind(Up(cycles))
        BY <2>1, CycleClockwise
    <2>3. pos' = Behind(Up(cycles))
        BY <1>1, <1>4, <2>2 DEF PlayIsOneHalfStep
    <2>4. QED
        BY <2>1, <2>2, <2>3 DEF Count, HalfStep
<1>6. TypeOK'
    <2>1. todo' \in -256 .. 256
        BY <1>2, <1>3
    <2>2. QED
        BY <1>1, <1>3, <1>5, <2>1, HalfSteps DEF TypeOK
<1>7. PlayIsOneHalfStep'
    BY <1>5 DEF PlayIsOneHalfStep
<1>8. MoveSoFar'
    <2>1. /\ Total \in 0 .. 256
          /\ Asked' = Asked /\ Total' = Total
        BY <1>2, <1>3, AskedAndTotal DEF Asked, Total
    <2>2. PICK from \in 0 .. 511 :
            /\ origin \in {At(from), Behind(from)}
            /\ target # current_angle /\ Asked > 0 => ClockwiseSoFar(from)
            /\ target # current_angle /\ ~(Asked > 0)
                    => AnticlockwiseSoFar(from)
        BY <1>1 DEF MoveSoFar
    <2>3. target # current_angle
        BY <1>1 DEF MoveSoFar
    <2>4. ~AnticlockwiseSoFar(from)
        BY <1>2, <2>1 DEF AnticlockwiseSoFar
    <2>5. Asked > 0 /\ ClockwiseSoFar(from)
        BY <2>2, <2>3, <2>4
    <2>6. todo \in 0 .. Total /\ cycles = (from + Total - todo) % 512
        BY <2>5 DEF ClockwiseSoFar
    <2>7. todo' \in 0 .. Total' /\ todo' # Total'
        BY <1>2, <1>3, <2>1, <2>6
    <2>8. cycles' = (from + Total' - todo') % 512
        BY <1>2, <1>3, <2>1, <2>6
    <2>9. ClockwiseSoFar(from)'
        BY <1>5, <2>7, <2>8 DEF ClockwiseSoFar
    <2>10. QED
        BY <1>3, <2>1, <2>2, <2>3, <2>5, <2>9 DEF MoveSoFar
<1>9. QED
    BY <1>6, <1>7, <1>8 DEF TurnInv

\* And one anticlockwise.
LEMMA TurningAnticlockwise ==
    ASSUME TurnInv, Turn, todo < 0
    PROVE  TurnInv'
<1>1. TypeOK /\ PlayIsOneHalfStep /\ MoveSoFar
    BY DEF TurnInv
<1>2. /\ current_angle \in Angle /\ target \in Angle
      /\ todo \in -256 .. 256 /\ cycles \in 0 .. 511
    BY <1>1, TypeValues
<1>3. /\ todo' = todo + 1
      /\ cycles' = (cycles - 1) % 512
      /\ UNCHANGED <<current_angle, target, origin>>
    BY <1>2, HalfSteps DEF Turn
<1>4. pos' = Anticlockwise(pos)
    <2>. DEFINE up == todo > 0
    <2>1. pos' = rotateStepper(pos, up)
        BY DEF Turn
    <2>2. up = FALSE
        BY <1>2
    <2>. HIDE DEF up
    <2>3. QED
        BY <2>1, <2>2 DEF Anticlockwise
<1>5. cycles' \in 0 .. 511 /\ pos' \in 0 .. 4095 /\ pos' = At(cycles')
    <2>1. cycles \in Count /\ cycles' = Down(cycles)
        BY <1>2, <1>3 DEF Count, Down
    <2>2. /\ Down(cycles) \in Count /\ At(Down(cycles)) \in HalfStep
          /\ Anticlockwise(At(cycles)) = At(Down(cycles))
          /\ Anticlockwise(Behind(cycles)) = At(Down(cycles))
        BY <2>1, CycleAnticlockwise
    <2>3. pos' = At(Down(cycles))
        BY <1>1, <1>4, <2>2 DEF PlayIsOneHalfStep
    <2>4. QED
        BY <2>1, <2>2, <2>3 DEF Count, HalfStep
<1>6. TypeOK'
    <2>1. todo' \in -256 .. 256
        BY <1>2, <1>3
    <2>2. QED
        BY <1>1, <1>3, <1>5, <2>1, HalfSteps DEF TypeOK
<1>7. PlayIsOneHalfStep'
    BY <1>5 DEF PlayIsOneHalfStep
<1>8. MoveSoFar'
    <2>1. /\ Total \in 0 .. 256
          /\ Asked' = Asked /\ Total' = Total
        BY <1>2, <1>3, AskedAndTotal DEF Asked, Total
    <2>2. PICK from \in 0 .. 511 :
            /\ origin \in {At(from), Behind(from)}
            /\ target # current_angle /\ Asked > 0 => ClockwiseSoFar(from)
            /\ target # current_angle /\ ~(Asked > 0)
                    => AnticlockwiseSoFar(from)
        BY <1>1 DEF MoveSoFar
    <2>3. target # current_angle
        BY <1>1 DEF MoveSoFar
    <2>4. ~ClockwiseSoFar(from)
        BY <1>2, <2>1 DEF ClockwiseSoFar
    <2>5. ~(Asked > 0) /\ AnticlockwiseSoFar(from)
        BY <2>2, <2>3, <2>4
    <2>6. -todo \in 0 .. Total /\ cycles = (from - Total - todo) % 512
        BY <2>5 DEF AnticlockwiseSoFar
    <2>7. -todo' \in 0 .. Total' /\ -todo' # Total'
        BY <1>2, <1>3, <2>1, <2>6
    <2>8. cycles' = (from - Total' - todo') % 512
        BY <1>2, <1>3, <2>1, <2>6
    <2>9. AnticlockwiseSoFar(from)'
        BY <1>5, <2>7, <2>8 DEF AnticlockwiseSoFar
    <2>10. QED
        BY <1>3, <2>1, <2>2, <2>3, <2>5, <2>9 DEF MoveSoFar
<1>9. QED
    BY <1>6, <1>7, <1>8 DEF TurnInv

\* The assignment after the loop.
LEMMA EndingAMove ==
    ASSUME TurnInv, EndMove
    PROVE  TurnInv'
<1>1. /\ todo = 0 /\ current_angle' = target
      /\ UNCHANGED <<pos, target, todo, origin, cycles>>
    BY DEF EndMove
<1>2. TypeOK'
    BY <1>1 DEF TurnInv, TypeOK
<1>3. PlayIsOneHalfStep'
    BY <1>1 DEF TurnInv, PlayIsOneHalfStep
<1>4. MoveSoFar'
    <2>1. PICK from \in 0 .. 511 : origin \in {At(from), Behind(from)}
        BY DEF TurnInv, MoveSoFar
    <2>2. QED
        BY <1>1, <2>1 DEF MoveSoFar
<1>5. QED
    BY <1>2, <1>3, <1>4 DEF TurnInv

\* A restart of the board, anywhere in a move.
LEMMA RestartingTheBoard ==
    ASSUME TurnInv, Restart
    PROVE  TurnInv'
<1>1. /\ current_angle' = 0 /\ target' = 0 /\ todo' = 0 /\ origin' = pos
      /\ UNCHANGED <<pos, cycles>>
    BY DEF Restart
<1>2. TypeOK'
    BY <1>1 DEF TurnInv, TypeOK, Angle
<1>3. PlayIsOneHalfStep'
    BY <1>1 DEF TurnInv, PlayIsOneHalfStep
<1>4. MoveSoFar'
    <2>1. cycles \in 0 .. 511 /\ pos \in {At(cycles), Behind(cycles)}
        BY TypeValues DEF TurnInv, PlayIsOneHalfStep
    <2>2. QED
        BY <1>1, <2>1 DEF MoveSoFar
<1>5. QED
    BY <1>2, <1>3, <1>4 DEF TurnInv

\* Each action keeps the invariant.
LEMMA StaysTurned == TurnInv /\ [Next]_vars => TurnInv'
<1>. SUFFICES ASSUME TurnInv, [Next]_vars PROVE TurnInv'
    OBVIOUS
<1>1. ASSUME NEW m \in Moves, BeginMove(m[1], m[2]) PROVE TurnInv'
    BY <1>1, BeginningAMove
<1>2. CASE Turn
    <2>1. todo \in Int /\ todo # 0
        BY <1>2, TypeValues DEF TurnInv, Turn
    <2>2. QED
        BY <1>2, <2>1, TurningClockwise, TurningAnticlockwise
<1>3. CASE EndMove
    BY <1>3, EndingAMove
<1>4. CASE Restart
    BY <1>4, RestartingTheBoard
<1>5. CASE UNCHANGED vars
    BY <1>5 DEF vars, TurnInv, TypeOK, PlayIsOneHalfStep, MoveSoFar,
                ClockwiseSoFar, AnticlockwiseSoFar, Asked, Total
<1>6. QED
    BY <1>1, <1>2, <1>3, <1>4, <1>5 DEF Next

-----------------------------------------------------------------------------
\* So the invariant holds in every state a motor can come to.
LEMMA AlwaysTurned == Spec => []TurnInv
BY StartsTurned, StaysTurned, PTL DEF Spec

\* The state of the motor keeps its ranges: what a command leads to is an
\* angle of the table, and no move takes more than half a turn of cycles.
THEOREM TurntableTypesAreCorrect == Spec => []TypeOK
<1>1. TurnInv => TypeOK
    BY DEF TurnInv
<1>2. QED
    BY <1>1, AlwaysTurned, PTL

\* However many moves follow one another, with restarts in the middle of them,
\* the play of the reversals in rotateStepper stays within one half step.
THEOREM PlayNeverAddsUp == Spec => []PlayDoesNotAddUp
<1>1. TurnInv => PlayDoesNotAddUp
    <2>. SUFFICES ASSUME TurnInv PROVE PlayDoesNotAddUp
        OBVIOUS
    <2>1. cycles \in 0 .. 511 /\ pos \in {At(cycles), Behind(cycles)}
        BY TypeValues DEF TurnInv, PlayIsOneHalfStep
    <2>2. CASE pos = At(cycles)
        <3>1. Off(pos, cycles * numSteps) = 0
            BY <2>1, <2>2, HalfSteps DEF Off, At
        <3>2. QED
            BY <3>1 DEF PlayDoesNotAddUp
    <2>3. CASE pos = Behind(cycles)
        <3>1. Off(pos, cycles * numSteps) = -1
            BY <2>1, <2>3, HalfSteps DEF Off, Behind
        <3>2. QED
            BY <3>1 DEF PlayDoesNotAddUp
    <2>4. QED
        BY <2>1, <2>2, <2>3
<1>2. QED
    BY <1>1, AlwaysTurned, PTL

-----------------------------------------------------------------------------
(* A move that is over has made eight half steps for each of its cycles,   *)
(* less one if it was a reversal, and its cycles fall short of the angle   *)
(* by less than one (CyclesFallJustShort).                                 *)

\* How far so many cycles turn the rotor, at least and at most.
MadeUp(from, n, o) == (Behind((from + n) % 512) - o) % 4096
MadeDown(from, n, o) == (o - At((from - n) % 512)) % 4096

LEMMA MadeByCycles ==
    ASSUME NEW from \in Count, NEW n \in Count, n # 0,
           NEW o \in {At(from), Behind(from)}
    PROVE  /\ MadeUp(from, n, o) \in 8 * n - 1 .. 8 * n
           /\ MadeDown(from, n, o) \in 8 * n - 1 .. 8 * n
<1>. from \in 0 .. 511 /\ n \in 1 .. 511
    BY DEF Count
<1>1. (from + n) % 512 = IF from + n < 512 THEN from + n ELSE from + n - 512
    OBVIOUS
<1>2. (from - n) % 512 = IF from - n < 0 THEN from - n + 512 ELSE from - n
    OBVIOUS
<1>3. CASE o = At(from)
    <2>1. (Behind((from + n) % 512) - o) % 4096 = 8 * n - 1
        BY <1>1, <1>3 DEF At, Behind
    <2>2. (o - At((from - n) % 512)) % 4096 = 8 * n
        BY <1>2, <1>3 DEF At
    <2>3. QED
        BY <2>1, <2>2 DEF MadeUp, MadeDown
<1>4. CASE o = Behind(from)
    <2>1. (Behind((from + n) % 512) - o) % 4096 = 8 * n
        BY <1>1, <1>4 DEF Behind
    <2>2. (o - At((from - n) % 512)) % 4096 = 8 * n - 1
        BY <1>2, <1>4 DEF At, Behind
    <2>3. QED
        BY <2>1, <2>2 DEF MadeUp, MadeDown
<1>5. QED
    BY <1>3, <1>4

\* A move that is over has turned the table the shorter way, and stopped less
\* than nine half steps short of the angle asked for and never past it.
THEOREM MovesAlwaysStopJustShort == Spec => []MovesStopJustShort
<1>1. TurnInv => MovesStopJustShort
    <2>. DEFINE made == IF Asked > 0 THEN (pos - origin) % 4096
                                     ELSE (origin - pos) % 4096
    <2>. SUFFICES ASSUME TurnInv, todo = 0, target # current_angle
                  PROVE  Abs(Asked) * 4096 - made * 360 \in 0 .. 9 * 360 - 1
        BY HalfSteps DEF MovesStopJustShort, Asked
    <2>1. /\ pos \in 0 .. 4095 /\ origin \in 0 .. 4095 /\ cycles \in 0 .. 511
          /\ current_angle \in Angle /\ target \in Angle
        BY TypeValues DEF TurnInv
    <2>2. Abs(Asked) \in 0 .. 180 /\ Total \in 0 .. 256
        BY <2>1, AskedAndTotal DEF Asked, Total
    <2>3. PICK from \in 0 .. 511 :
            /\ origin \in {At(from), Behind(from)}
            /\ target # current_angle /\ Asked > 0 => ClockwiseSoFar(from)
            /\ target # current_angle /\ ~(Asked > 0)
                    => AnticlockwiseSoFar(from)
        BY DEF TurnInv, MoveSoFar
    <2>4. \/ Total = 0 /\ made = 0
          \/ made \in 8 * Total - 1 .. 8 * Total
        <3>1. CASE Asked > 0
            <4>1. /\ cycles = (from + Total) % 512
                  /\ pos = IF Total = 0 THEN origin ELSE Behind(cycles)
                BY <2>2, <2>3, <3>1 DEF ClockwiseSoFar
            <4>2. made = (pos - origin) % 4096
                BY <3>1
            <4>3. CASE Total = 0
                BY <2>1, <4>1, <4>2, <4>3
            <4>4. CASE Total # 0
                <5>1. from \in Count /\ Total \in Count
                    BY <2>2 DEF Count
                <5>2. MadeUp(from, Total, origin) \in 8 * Total - 1 .. 8 * Total
                    BY <2>3, <4>4, <5>1, MadeByCycles
                <5>3. made = MadeUp(from, Total, origin)
                    BY <4>1, <4>2, <4>4 DEF MadeUp
                <5>4. QED
                    BY <5>2, <5>3
            <4>5. QED
                BY <4>3, <4>4
        <3>2. CASE ~(Asked > 0)
            <4>1. /\ cycles = (from - Total) % 512
                  /\ pos = IF Total = 0 THEN origin ELSE At(cycles)
                BY <2>2, <2>3, <3>2 DEF AnticlockwiseSoFar
            <4>2. made = (origin - pos) % 4096
                BY <3>2
            <4>3. CASE Total = 0
                BY <2>1, <4>1, <4>2, <4>3
            <4>4. CASE Total # 0
                <5>1. from \in Count /\ Total \in Count
                    BY <2>2 DEF Count
                <5>2. MadeDown(from, Total, origin) \in 8 * Total - 1 .. 8 * Total
                    BY <2>3, <4>4, <5>1, MadeByCycles
                <5>3. made = MadeDown(from, Total, origin)
                    BY <4>1, <4>2, <4>4 DEF MadeDown
                <5>4. QED
                    BY <5>2, <5>3
            <4>5. QED
                BY <4>3, <4>4
        <3>3. QED
            BY <3>1, <3>2
    <2>5. made \in Int
        BY <2>1
    <2>. HIDE DEF made
    <2>6. QED
        <3>1. /\ Total * 360 <= Abs(Asked) * 512
              /\ Abs(Asked) * 512 < (Total + 1) * 360
            BY <2>2, CyclesFallJustShort, HalfSteps DEF Total
        <3>2. QED
            BY <2>2, <2>4, <2>5, <3>1
<1>2. QED
    BY <1>1, AlwaysTurned, PTL
=============================================================================
