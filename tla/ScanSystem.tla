----------------------------- MODULE ScanSystem -----------------------------
(***************************************************************************)
(* The whole scanner: the server's threads, the controller and the camera  *)
(* (camera/camera.ino), joined by their HTTP requests.                     *)
(*                                                                         *)
(* Every caller gives up after five seconds (requests' timeout=5, the      *)
(* ESP32 HTTPClient's default).  Answers that wait for nobody come in      *)
(* time, so a timeout expires only when answers wait for one another in a  *)
(* circle, or for a thread that runs photogrammetry-tool, and the caller   *)
(* that has waited longest is the first to give up.  What can go wrong     *)
(* besides is named by the constant Faults:                                *)
(*   "slow"     any answer may come too late, or never                     *)
(*   "refused"  a request may be turned down (401: the token has changed)  *)
(*   "dead"     is_alive may be false of the controller or the camera      *)
(*   "camera"   a capture may fail, or yield an empty photo                *)
(*   "preempted" a thread may be held up between the reading, the opening  *)
(*              and the writing of the status file, and others come first   *)
(***************************************************************************)
EXTENDS ScanServer, Controller

vars == <<serverVars, controllerVars>>

ServerTypeOK ==
    /\ calls \in Seq(Call)
    /\ reply \in [Thread -> Reply]
    /\ status \in {"absent", "", "idle", "scanning", "idlening"}
    /\ job \in [Thread -> Job]
    /\ at \in [Thread -> Place]
    /\ step \in [Thread -> 0 .. STEPS]
    /\ shot \in [Thread -> Angle]
    /\ errors \in [Thread -> BOOLEAN]
    /\ uploads \subseteq 0 .. STEPS

TypeOK == ControllerTypeOK /\ ServerTypeOK

Init == ServerInit /\ ControllerInit

-----------------------------------------------------------------------------
(* The controller.                                                         *)

\* The answer a handler gives reaches its caller, or is too late for it.
AnswerGoesOut(i, answer) ==
    /\ calls' = Served(i)
    /\ \/ reply' = Replied(i, answer)
       \/ "slow" \in Faults /\ reply' = Replied(i, "failed")
    /\ UNCHANGED <<status, job, at, step, shot, errors, uploads>>

ControllerServes(i) ==
    /\ NextFor("controller", i)
    /\ \/ /\ calls[i].kind = "lcd"
          /\ HandleUnchanged
          /\ AnswerGoesOut(i, "ok")
       \/ /\ calls[i].kind = "start"
          /\ HandleStartRotation
          /\ AnswerGoesOut(i, "ok")
       \/ /\ calls[i].kind = "start"
          /\ RefuseStartRotation
          /\ AnswerGoesOut(i, "refused")
       \/ /\ calls[i].kind = "abort"
          /\ HandleAbort
          /\ AnswerGoesOut(i, "ok")
       \/ /\ calls[i].kind = "motor"
          /\ HandleMotorControl
          /\ AnswerGoesOut(i, "ok")
       \/ /\ "refused" \in Faults
          /\ HandleUnchanged
          /\ AnswerGoesOut(i, "refused")

ControllerPolls ==
    /\ PollNothing
    /\ NothingFor("controller") \/ "slow" \in Faults
    /\ UNCHANGED serverVars

\* Mutant: the step is announced before it is counted.
ControllerStep_FromZero ==
    /\ ScanStep
    /\ \/ \E t \in Thread :
              /\ Receive(t, "controller", "rotation", "camera", calls, reply)
              /\ step' = [step EXCEPT ![t] = current_step]
              /\ UNCHANGED shot
       \/ "refused" \in Faults /\ UNCHANGED serverVars

\* notifyRotationComplete: a thread takes it up and asks for the photo, or the
\* server turns it down.
ControllerStep ==
    /\ ScanStep
    /\ \/ \E t \in Thread :
              /\ Receive(t, "controller", "rotation", "camera", calls, reply)
              /\ step' = [step EXCEPT ![t] = current_step + 1]
              /\ UNCHANGED shot
       \/ "refused" \in Faults /\ UNCHANGED serverVars

\* Mutant: the controller does not wait for the photo.
ControllerNextStep_NoWait == NextStep /\ UNCHANGED serverVars

ControllerNextStep ==
    /\ ~Waiting("controller")
    /\ NextStep
    /\ UNCHANGED serverVars

\* notifyScanComplete.
ControllerLastStep ==
    /\ ~Waiting("controller")
    /\ LastStep
    /\ \/ \E t \in Thread :
              /\ Receive(t, "controller", "complete", "open", calls, reply)
              /\ UNCHANGED <<step, shot>>
       \/ "refused" \in Faults /\ UNCHANGED serverVars

ControllerDone ==
    /\ ~Waiting("controller")
    /\ CompletePosted
    /\ UNCHANGED serverVars

ControllerMoves ==
    \/ \E i \in DOMAIN calls : ControllerServes(i)
    \/ ControllerPolls
    \/ ControllerStep
    \/ ControllerNextStep
    \/ ControllerLastStep
    \/ ControllerDone

-----------------------------------------------------------------------------
(* The camera.  Its loop() serves one request at a time and keeps nothing; *)
(* it is busy while it waits for the answer to capture_complete.           *)

\* handleCapture: the frame is exposed and sent as the response, and then
\* capture_complete is posted from within the handler.
HandleCapture(i) ==
    /\ calls[i].kind = "capture"
    /\ shot' = [shot EXCEPT ![calls[i].from] = current_angle]
    /\ \E answer \in {"ok"} \cup (IF "camera" \in Faults THEN {"empty"} ELSE {})
                            \cup (IF "slow" \in Faults THEN {"failed"} ELSE {}) :
           \/ \E t \in Thread :
                  /\ Receive(t, "camera", "captured", "lcd",
                             Served(i), Replied(i, answer))
                  /\ UNCHANGED step
           \/ /\ "refused" \in Faults
              /\ calls' = Served(i)
              /\ reply' = Replied(i, answer)
              /\ UNCHANGED <<status, job, at, step, errors, uploads>>

\* No frame (500), or not the camera's token (401).
CaptureFails(i) ==
    /\ calls[i].kind = "capture"
    /\ Faults \cap {"camera", "refused"} # {}
    /\ AnswerGoesOut(i, "refused")

\* handleAbort of the camera has nothing to abort.
HandleCameraAbort(i) == calls[i].kind = "abort" /\ AnswerGoesOut(i, "ok")

CameraServes(i) ==
    /\ ~Waiting("camera")
    /\ NextFor("camera", i)
    /\ HandleCapture(i) \/ CaptureFails(i) \/ HandleCameraAbort(i)
    /\ UNCHANGED controllerVars

CameraMoves == \E i \in DOMAIN calls : CameraServes(i)

-----------------------------------------------------------------------------
(* Timeouts.                                                               *)

Processing == {t \in Thread : at[t] = "process"}

\* A board that gives up on the server closes the connection; the thread goes
\* on.  A thread that gives up on a board leaves its request queued there (not
\* shown for the LCD, which would change nothing any more).
GivesUp(i) ==
    /\ calls' = IF /\ calls[i].kind \in {"start", "abort", "motor", "capture"}
                   /\ Cardinality(Orphans) < MaxOrphans
                THEN LeftBehind(i)
                ELSE Served(i)
    /\ reply' = Replied(i, "failed")
    /\ UNCHANGED <<status, job, at, step, shot, errors, uploads, controllerVars>>

\* Mutant: the calls have no timeout.
TimedOut_Never(i) == FALSE

\* The LCD call of a thread expires close to the calls it waits for.
TimedOut(i) ==
    /\ \/ LongestStuck(i, Processing)
       \/ calls[i].kind = "lcd" /\ Waiting("controller")
    /\ GivesUp(i)

TooSlow(i) == "slow" \in Faults /\ GivesUp(i)

\* The network loses a request, and its caller waits in vain.
Lost(i) ==
    /\ "slow" \in Faults
    /\ calls' = Served(i)
    /\ reply' = Replied(i, "failed")
    /\ UNCHANGED <<status, job, at, step, shot, errors, uploads, controllerVars>>

GiveUp(caller) ==
    \E i \in DOMAIN calls :
        calls[i].from = caller /\ (TimedOut(i) \/ TooSlow(i) \/ Lost(i))

Caller == Thread \cup Board

-----------------------------------------------------------------------------
ServerMoves ==
    \E t \in Thread : ThreadStep(t) /\ UNCHANGED controllerVars

OperatorMoves ==
    \E t \in Thread : OperatorRequest(t) /\ UNCHANGED controllerVars

Next ==
    \/ ControllerMoves
    \/ CameraMoves
    \/ ServerMoves
    \/ OperatorMoves
    \/ \E caller \in Caller : GiveUp(caller)

Spec == Init /\ [][Next]_vars

\* Threads are scheduled, the boards' loops go round and timeouts expire; an
\* operator need not ask for anything.
FairSpec ==
    /\ Spec
    /\ WF_vars(ControllerMoves)
    /\ WF_vars(CameraMoves)
    /\ \A t \in Thread : WF_vars(ThreadStep(t) /\ UNCHANGED controllerVars)
    /\ \A caller \in Caller : WF_vars(GiveUp(caller))

-----------------------------------------------------------------------------
(* The status file and the controller.                                     *)

\* The thread is bound to write "idle": it works on an abort or on the end of
\* a scan and has not got there yet, or its start was turned down.
WillWriteIdle(t) ==
    \/ /\ job[t] \in {"abort", "undo", "complete"}
       /\ at[t] \in {"controller", "camera", "open", "write"}
    \/ /\ Working(t, "start", "controller")
       /\ reply[t] \notin {"none", "ok"}

\* The thread has written "scanning" and has yet to learn whether the
\* controller starts.
IsStarting(t) ==
    \/ Working(t, "start", "lcd")
    \/ Working(t, "start", "controller") /\ reply[t] = "none"

\* The status "scanning" is never left behind: if the file says so, the
\* controller is scanning, or a thread is about to start it, or a thread is
\* bound to write "idle".  Otherwise no scan could be started and no
\* completion would ever come (scan_manager.py:29, 50, 54, 81, 95).
ScanningIsOwned ==
    status = "scanning" =>
        is_scanning \/ \E t \in Thread : IsStarting(t) \/ WillWriteIdle(t)

\* While the controller scans the status says so, unless the file is being
\* rewritten at the moment or an abort that timed out is still queued at the
\* controller.  Otherwise the operator is told "Scan completed or stopped"
\* (cli.py:118-119), and abort is refused, while the table turns on.
ScanningIsShown ==
    is_scanning =>
        \/ status = "scanning"
        \/ \E t \in Thread : at[t] = "write"
        \/ \E i \in DOMAIN calls : calls[i].kind = "abort"

\* A photo is saved under the number of the exposure the table stood at.
PhotoIsOfItsStep ==
    \A t \in Thread :
        Answered(t, "rotation", "camera") /\ reply[t] = "ok" =>
            shot[t] = ScanAngle(step[t] - 1)

\* When photogrammetry-tool is run, the photo of every step is there.
AllPhotosAreThere ==
    Processing # {} => 1 .. STEPS \subseteq uploads

\* An abort that is reported as a success (app.py:120) has stopped the
\* controller.
ReportedAbortStops ==
    [][\A t \in Thread :
           Answered(t, "abort", "lcd") /\ ~errors[t] /\ job'[t] = "none"
               => ~is_scanning]_vars

\* Every request to the server is answered in the end, although the parties
\* wait for one another in circles: the timeouts break every one of them.
EveryRequestReturns == \A t \in Thread : job[t] # "none" ~> job[t] = "none"

\* The status does not stay "scanning" for ever: scan_complete or an abort
\* always comes, and sets it back (scan_manager.py:81, 95).
EveryScanIsOver == status = "scanning" ~> status # "scanning"
=============================================================================
