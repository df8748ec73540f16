-------------------------- MODULE ControllerAlone --------------------------
(***************************************************************************)
(* The controller with an environment that may send it any request at any  *)
(* time and take any of its posts, in any order, with or without effect:   *)
(* what the board promises whatever the server, the camera and the network *)
(* do.  It implements ScanCycle.                                           *)
(***************************************************************************)
EXTENDS Controller

\* loop() never stops, and a post ends after five seconds at the latest.
Loop == ScanStep \/ NextStep \/ LastStep \/ CompletePosted

Serve ==
    \/ HandleUnchanged
    \/ HandleStartRotation
    \/ RefuseStartRotation
    \/ HandleAbort
    \/ HandleMotorControl

ControllerNext == PollNothing \/ Serve \/ Loop \/ Restart

ControllerSpec ==
    /\ ControllerInit
    /\ [][ControllerNext]_controllerVars
    /\ WF_controllerVars(PollNothing)
    /\ WF_controllerVars(Loop)

-----------------------------------------------------------------------------
\* While rotation_complete is being posted a scan is running and the table
\* stands at the angle of the step that is announced, even though motor
\* commands between the steps may have turned it anywhere.
AnnouncedAngleIsRight ==
    ctl = "rotation_post" =>
        is_scanning /\ current_angle = ScanAngle(current_step)

\* While scan_complete is being posted the board is ready for the next scan.
AnnouncedEndIsReady ==
    ctl = "complete_post" => ~is_scanning /\ current_step = 0

\* What the proofs rest on.
ControllerInv ==
    /\ ControllerTypeOK
    /\ AnnouncedAngleIsRight
    /\ AnnouncedEndIsReady
    /\ ~is_scanning => current_step = 0

\* The scan announces its steps one by one, and is over exactly after the
\* last one, or when it is aborted or the board restarts (loop, 247-255).
Cycle == INSTANCE ScanCycle WITH active <- is_scanning, taken <- current_step
ImplementsScanCycle == Cycle!Spec

\* Every scan ends, however the post of each of its steps turns out.
EveryScanEnds == is_scanning ~> ~is_scanning
=============================================================================
