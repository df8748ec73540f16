----------------------- MODULE ControllerAlone_proof -----------------------
(***************************************************************************)
(* What the controller promises in any surroundings, for any number of     *)
(* exposures and any set of motor commands.                                *)
(***************************************************************************)
EXTENDS ControllerAlone, Stepper_proof

LEMMA ZeroIsInRange == 0 \in 0 .. STEPS - 1 /\ 0 \in Angle
BY StepsAssumption DEF StepsAssumption, Angle

LEMMA InitEstablishesInv == ControllerInit => ControllerInv
BY ZeroIsInRange, Zenon
   DEF ControllerInit, ControllerInv, ControllerTypeOK, AnnouncedAngleIsRight,
       AnnouncedEndIsReady

\* The scan step is the only one that turns the table for a scan, and it
\* brings it to the angle of the step it announces from wherever it stood.
LEMMA ScanStepKeepsInv ==
    ASSUME ControllerInv, ScanStep
    PROVE  ControllerInv'
<1>1. current_step \in Nat /\ current_angle \in Angle
    BY StepsAssumption DEF StepsAssumption, ControllerInv, ControllerTypeOK
<1>2. ScanAngle(current_step) \in Angle
    BY <1>1, ScanAngleIsAnAngle
<1>3. current_angle' = ScanAngle(current_step)
    BY <1>1, <1>2, AbsoluteTarget DEF ScanStep
<1>4. UNCHANGED <<is_scanning, current_step>> /\ is_scanning
    BY DEF ScanStep
<1>5. ctl' = "rotation_post"
    BY DEF ScanStep
<1>6. ControllerTypeOK'
    BY <1>2, <1>3, <1>4, <1>5 DEF ControllerInv, ControllerTypeOK
<1>7. (AnnouncedAngleIsRight /\ AnnouncedEndIsReady)'
    BY <1>3, <1>4, <1>5 DEF AnnouncedAngleIsRight, AnnouncedEndIsReady
<1>8. QED
    BY <1>4, <1>6, <1>7 DEF ControllerInv

LEMMA MotorCommandKeepsInv ==
    ASSUME ControllerInv, HandleMotorControl
    PROVE  ControllerInv'
<1>1. PICK m \in MotorMoves : current_angle' = Target(current_angle, m[1], m[2])
    BY DEF HandleMotorControl
<1>2. /\ m[1] \in Int
      /\ m[2] \in BOOLEAN
      /\ ValidCommand(m[1], m[2])
    BY MotorMovesAssumption DEF MotorMovesAssumption
<1>3. current_angle' \in Angle
    BY <1>1, <1>2, TargetIsAnAngle DEF ControllerInv, ControllerTypeOK
<1>4. ctl' \in {"serve", "scan"} /\ UNCHANGED <<is_scanning, current_step>>
    BY DEF HandleMotorControl, RestOfLoop
<1>5. QED
    BY <1>3, <1>4
       DEF ControllerInv, ControllerTypeOK, AnnouncedAngleIsRight,
           AnnouncedEndIsReady

\* Every step of the board keeps what the proofs rest on.
LEMMA StepKeepsInv ==
    ASSUME ControllerInv, [ControllerNext]_controllerVars
    PROVE  ControllerInv'
<1> USE DEF ControllerInv, ControllerTypeOK, AnnouncedAngleIsRight,
            AnnouncedEndIsReady
<1>1. CASE PollNothing
    BY <1>1 DEF PollNothing
<1>2. CASE HandleUnchanged
    BY <1>2 DEF HandleUnchanged, RestOfLoop
<1>3. CASE HandleStartRotation
    BY <1>3, ZeroIsInRange, Zenon DEF HandleStartRotation, RestOfLoop
<1>4. CASE RefuseStartRotation
    BY <1>4 DEF RefuseStartRotation, HandleUnchanged, RestOfLoop
<1>5. CASE HandleAbort
    BY <1>5, ZeroIsInRange, Zenon DEF HandleAbort, RestOfLoop
<1>6. CASE HandleMotorControl
    BY <1>6, MotorCommandKeepsInv
<1>7. CASE ScanStep
    BY <1>7, ScanStepKeepsInv
<1>8. CASE NextStep
    BY <1>8, StepsAssumption DEF StepsAssumption, NextStep
<1>9. CASE LastStep
    BY <1>9, ZeroIsInRange, Zenon DEF LastStep
<1>10. CASE CompletePosted
    BY <1>10 DEF CompletePosted
<1>11. CASE Restart
    BY <1>11, ZeroIsInRange, Zenon DEF Restart
<1>12. CASE UNCHANGED controllerVars
    BY <1>12 DEF controllerVars
<1>13. QED
    BY <1>1, <1>2, <1>3, <1>4, <1>5, <1>6, <1>7, <1>8, <1>9, <1>10, <1>11,
       <1>12
       DEF ControllerNext, Serve, Loop

\* The controller keeps its counters in range, never announces a step from a
\* wrong angle and never announces the end of a scan while it has one left.
THEOREM ControllerIsConsistent == ControllerSpec => []ControllerInv
<1>1. ControllerInit => ControllerInv
    BY InitEstablishesInv
<1>2. ControllerInv /\ [ControllerNext]_controllerVars => ControllerInv'
    BY StepKeepsInv
<1>3. QED
    BY <1>1, <1>2, PTL DEF ControllerSpec

\* rotation_complete is posted from the angle of its step (loop, 236-245),
\* whatever motor commands were served since the step before.
THEOREM AnnouncedAngleIsAlwaysRight == ControllerSpec => []AnnouncedAngleIsRight
<1>1. ControllerInv => AnnouncedAngleIsRight
    BY DEF ControllerInv
<1>2. QED
    BY <1>1, ControllerIsConsistent, PTL

-----------------------------------------------------------------------------
(* The controller implements ScanCycle, up to fairness.                    *)

LEMMA InitMaps == ControllerInit => Cycle!Init
BY DEF ControllerInit, Cycle!Init

\* An abort or a restart stops a scan, or finds none and changes nothing.
LEMMA StopMaps ==
    ASSUME ControllerInv, is_scanning' = FALSE, current_step' = 0
    PROVE  Cycle!Stop \/ UNCHANGED Cycle!cycle
<1>1. CASE is_scanning
    BY <1>1, Zenon DEF Cycle!Stop
<1>2. CASE ~is_scanning
    <2>1. is_scanning = FALSE /\ current_step = 0
        BY <1>2, Zenon DEF ControllerInv, ControllerTypeOK
    <2>2. QED
        BY <2>1, Zenon DEF Cycle!cycle
<1>3. QED
    BY <1>1, <1>2

\* A step is announced only in a scan: the next one counts, and after the last
\* the scan is over.
LEMMA PostedStepMaps ==
    ASSUME ControllerInv, NextStep \/ LastStep
    PROVE  Cycle!Advance \/ Cycle!Finish
<1>1. is_scanning /\ current_step \in 0 .. STEPS - 1
    BY DEF ControllerInv, ControllerTypeOK, AnnouncedAngleIsRight, NextStep,
           LastStep
<1>2. CASE NextStep
    BY <1>1, <1>2 DEF NextStep, Cycle!Advance
<1>3. CASE LastStep
    <2>1. current_step + 1 = STEPS
        BY <1>1, <1>3, StepsAssumption DEF StepsAssumption, LastStep
    <2>2. QED
        BY <1>1, <1>3, <2>1, Zenon DEF LastStep, Cycle!Finish
<1>4. QED
    BY <1>2, <1>3

LEMMA StepMaps ==
    ASSUME ControllerInv, [ControllerNext]_controllerVars
    PROVE  [Cycle!Next]_(Cycle!cycle)
<1> USE DEF Cycle!Next
<1>1. CASE HandleStartRotation
    <2>1. Cycle!Begin
        BY <1>1, Zenon DEF HandleStartRotation, Cycle!Begin
    <2>2. QED
        BY <2>1
<1>2. CASE HandleAbort \/ Restart
    <2>1. is_scanning' = FALSE /\ current_step' = 0
        BY <1>2 DEF HandleAbort, Restart
    <2>2. QED
        BY <2>1, StopMaps
<1>3. CASE NextStep \/ LastStep
    BY <1>3, PostedStepMaps
<1>4. CASE \/ PollNothing
           \/ HandleUnchanged
           \/ RefuseStartRotation
           \/ HandleMotorControl
           \/ ScanStep
           \/ CompletePosted
           \/ UNCHANGED controllerVars
    <2>1. UNCHANGED <<is_scanning, current_step>>
        BY <1>4
           DEF PollNothing, HandleUnchanged, RefuseStartRotation,
               HandleMotorControl, ScanStep, CompletePosted, controllerVars
    <2>2. QED
        BY <2>1 DEF Cycle!cycle
<1>5. QED
    BY <1>1, <1>2, <1>3, <1>4 DEF ControllerNext, Serve, Loop

\* A scan counts its steps one by one and is over after the last one, or when
\* it is aborted or the board restarts, and in no other way (loop, 236-256).
THEOREM ControllerImplementsScanCycle == ControllerSpec => Cycle!Safe
<1>1. ControllerInit => Cycle!Init
    BY InitMaps
<1>2. ControllerInv /\ [ControllerNext]_controllerVars => [Cycle!Next]_(Cycle!cycle)
    BY StepMaps
<1>3. QED
    BY <1>1, <1>2, ControllerIsConsistent, PTL DEF ControllerSpec, Cycle!Safe
=============================================================================
