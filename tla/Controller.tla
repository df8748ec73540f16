----------------------------- MODULE Controller -----------------------------
(***************************************************************************)
(* The controller board (controller/controller.ino): the web handlers      *)
(* served by handleClient, at most one per iteration of loop(), and the    *)
(* scan step that follows in the same iteration.  The board has one        *)
(* thread: while it posts to the server it serves nobody.  When a request  *)
(* comes, and what becomes of a post, is the business of the modules that  *)
(* give the board its surroundings: ControllerAlone and ScanSystem.        *)
(***************************************************************************)
EXTENDS Stepper

CONSTANTS
    STEPS,      \* exposures of a scan (60 in the firmware)
    MotorMoves  \* the <<angle, relative>> commands that are given

ASSUME StepsAssumption == STEPS \in Nat \ {0}
ASSUME MotorMovesAssumption ==
    MotorMoves \subseteq {m \in Int \X BOOLEAN : ValidCommand(m[1], m[2])}

VARIABLES
    is_scanning,
    current_step,
    current_angle,
    ctl     \* where loop() is: before handleClient ("serve"), before the
            \* scan step ("scan"), or in one of its two posts

controllerVars == <<is_scanning, current_step, current_angle, ctl>>

ControllerTypeOK ==
    /\ is_scanning \in BOOLEAN
    /\ current_step \in 0 .. STEPS - 1
    /\ current_angle \in Angle
    /\ ctl \in {"serve", "scan", "rotation_post", "complete_post"}

\* setup(): the program variables as initialised.
ControllerInit ==
    /\ is_scanning = FALSE
    /\ current_step = 0
    /\ current_angle = 0
    /\ ctl = "serve"

-----------------------------------------------------------------------------
(* The web handlers.  Each ends the handleClient call of its iteration;    *)
(* the scan step is next, or, when no scan is running, the next iteration. *)

RestOfLoop(scanning) == ctl' = IF scanning THEN "scan" ELSE "serve"

\* handleClient finds no request; the scan step is next.
PollNothing ==
    /\ ctl = "serve"
    /\ is_scanning
    /\ ctl' = "scan"
    /\ UNCHANGED <<is_scanning, current_step, current_angle>>

\* A request answered without a change: /lcd, and anything with a token that
\* is not the current one (401).
HandleUnchanged ==
    /\ ctl = "serve"
    /\ UNCHANGED <<is_scanning, current_step, current_angle>>
    /\ RestOfLoop(is_scanning)

\* handleStartRotation, when no scan is running.
HandleStartRotation ==
    /\ ctl = "serve"
    /\ ~is_scanning
    /\ is_scanning' = TRUE
    /\ current_step' = 0
    /\ RestOfLoop(TRUE)
    /\ UNCHANGED current_angle

\* Mutant: the check for a running scan is missing.
RefuseStartRotation_Accepts ==
    /\ ctl = "serve"
    /\ is_scanning
    /\ current_step' = 0
    /\ RestOfLoop(TRUE)
    /\ UNCHANGED <<is_scanning, current_angle>>

\* handleStartRotation, when one is: 409.
RefuseStartRotation == is_scanning /\ HandleUnchanged

\* Mutants: the scan's progress, or the scan itself, is left as it is.
HandleAbort_KeepsStep ==
    /\ ctl = "serve"
    /\ is_scanning' = FALSE
    /\ RestOfLoop(FALSE)
    /\ UNCHANGED <<current_step, current_angle>>

HandleAbort_KeepsScanning ==
    /\ ctl = "serve"
    /\ current_step' = 0
    /\ RestOfLoop(is_scanning)
    /\ UNCHANGED <<is_scanning, current_angle>>

HandleAbort ==
    /\ ctl = "serve"
    /\ is_scanning' = FALSE
    /\ current_step' = 0
    /\ RestOfLoop(FALSE)
    /\ UNCHANGED current_angle

\* handleMotorControl; a scan does not forbid it.
HandleMotorControl ==
    /\ ctl = "serve"
    /\ \E m \in MotorMoves :
           current_angle' = Target(current_angle, m[1], m[2])
    /\ RestOfLoop(is_scanning)
    /\ UNCHANGED <<is_scanning, current_step>>

-----------------------------------------------------------------------------
(* The rest of loop().                                                     *)

\* Mutant: a relative move of six degrees.
ScanStep_Relative ==
    /\ ctl = "scan"
    /\ is_scanning
    /\ current_angle' =
          IF current_step = 0 THEN Target(current_angle, 0, FALSE)
                              ELSE Target(current_angle, 6, TRUE)
    /\ ctl' = "rotation_post"
    /\ UNCHANGED <<is_scanning, current_step>>

\* The table is moved to the angle of this step, and rotation_complete posted.
ScanStep ==
    /\ ctl = "scan"
    /\ is_scanning
    /\ current_angle' = Target(current_angle, ScanAngle(current_step), FALSE)
    /\ ctl' = "rotation_post"
    /\ UNCHANGED <<is_scanning, current_step>>

\* Mutants: a step too many; a step that does not count.
NextStep_OneMore ==
    /\ ctl = "rotation_post"
    /\ current_step + 1 <= STEPS
    /\ current_step' = current_step + 1
    /\ ctl' = "serve"
    /\ UNCHANGED <<is_scanning, current_angle>>

NextStep_NotCounted ==
    /\ ctl = "rotation_post"
    /\ current_step + 1 < STEPS
    /\ ctl' = "serve"
    /\ UNCHANGED <<is_scanning, current_step, current_angle>>

\* The post is over, whatever came of it: its result is not looked at.
NextStep ==
    /\ ctl = "rotation_post"
    /\ current_step + 1 < STEPS
    /\ current_step' = current_step + 1
    /\ ctl' = "serve"
    /\ UNCHANGED <<is_scanning, current_angle>>

\* Mutant: is_scanning is not reset.
LastStep_StillScanning ==
    /\ ctl = "rotation_post"
    /\ current_step + 1 >= STEPS
    /\ current_step' = 0
    /\ ctl' = "complete_post"
    /\ UNCHANGED <<is_scanning, current_angle>>

\* After the last step the scan is over, and scan_complete is posted.
LastStep ==
    /\ ctl = "rotation_post"
    /\ current_step + 1 >= STEPS
    /\ is_scanning' = FALSE
    /\ current_step' = 0
    /\ ctl' = "complete_post"
    /\ UNCHANGED current_angle

\* That post is over too, and its result is not looked at either.
CompletePosted ==
    /\ ctl = "complete_post"
    /\ ctl' = "serve"
    /\ UNCHANGED <<is_scanning, current_step, current_angle>>

\* A power cycle, or ESP.restart after a failed registration.
Restart ==
    /\ is_scanning' = FALSE
    /\ current_step' = 0
    /\ current_angle' = 0
    /\ ctl' = "serve"
=============================================================================
