----------------------------- MODULE ScanServer -----------------------------
(***************************************************************************)
(* The scan server (server/app.py, scan_manager.py, board_manager.py).     *)
(* Flask runs every request in a thread of its own; the threads share the  *)
(* scan status file and nothing locks it.  A thread is described by the    *)
(* request it works on (job), by what it does next (at) and by the answer  *)
(* to its last call (reply).                                               *)
(*                                                                         *)
(*   start     check, open+write "scanning", LCD, controller; if it fails  *)
(*   undo          open+write "idle", LCD                                  *)
(*   abort     check, controller, camera, open+write "idle", LCD           *)
(*   complete  open+write "idle", LCD, process the photos, LCD             *)
(*   rotation  camera; the photo is saved, or LCD if that failed           *)
(*   captured  LCD                                                         *)
(*   motor     controller                                                  *)
(*   single    camera; the photo is saved                                  *)
(***************************************************************************)
EXTENDS Calls

CONSTANTS
    Commands,       \* what operators ask for
    MaxOperators,   \* bound on operator requests at a time
    Reserve,        \* threads that operators leave to the boards: Flask makes
                    \* threads as it needs them, and a board's request must
                    \* never find none free
    Faults          \* what can go wrong: see ScanSystem

ASSUME CommandsAssumption ==
    Commands \subseteq {"start", "abort", "motor", "single"}
ASSUME BoundsAssumption == MaxOperators \in Nat /\ Reserve \in Nat
ASSUME FaultsAssumption ==
    Faults \subseteq {"slow", "refused", "dead", "camera", "preempted"}

VARIABLES
    status,     \* contents of .scan_status
    job,        \* the request a thread works on
    at,         \* what the thread does next
    step,       \* the step a rotation thread was told of
    shot,       \* the angle at which the photo it got was exposed
    errors,     \* whether an abort thread has errors to report
    uploads     \* the steps of which there are photos in UPLOAD_FOLDER

serverVars == <<calls, reply, status, job, at, step, shot, errors, uploads>>

OperatorJob == {"start", "undo", "abort", "motor", "single"}
Job == OperatorJob \cup {"complete", "rotation", "captured", "none"}
Place == {"open", "write", "lcd", "controller", "camera", "process", "done",
          "none"}

ServerInit ==
    /\ calls = <<>>
    /\ reply = [t \in Thread |-> "none"]
    /\ status = "absent"
    /\ job = [t \in Thread |-> "none"]
    /\ at = [t \in Thread |-> "none"]
    /\ step = [t \in Thread |-> 0]
    /\ shot = [t \in Thread |-> 0]
    /\ errors = [t \in Thread |-> FALSE]
    /\ uploads = {}

Idle(t) == job[t] = "none"
Working(t, j, place) == job[t] = j /\ at[t] = place

\* The thread is at a call and the call is over.
Answered(t, j, place) == Working(t, j, place) /\ reply[t] # "none"

-----------------------------------------------------------------------------
(* Calls to the boards.                                                    *)

Calling == {"lcd", "controller", "camera", "done"}

\* The request thread t makes of a board at a place of a job.
Outgoing(t, j, place) ==
    CASE place \in {"lcd", "done"} -> Request(t, "controller", "lcd")
      [] place = "controller"      -> Request(t, "controller", j)
      [] place = "camera"          ->
             Request(t, "camera", IF j = "abort" THEN "abort" ELSE "capture")

\* update_lcd and send_abort ask is_alive first and leave the call out.
AsksIfAlive(j, place) == place \in {"lcd", "done"} \/ j = "abort"

\* Thread t goes on to a place of a job, where it makes its call if it has one
\* to make; `before' and `answers' are calls and reply as they are until then.
GoTo(t, j, place, before, answers) ==
    /\ job' = [job EXCEPT ![t] = j]
    /\ at' = [at EXCEPT ![t] = place]
    /\ \/ /\ place \notin Calling
          /\ calls' = before
          /\ reply' = [answers EXCEPT ![t] = "none"]
       \/ /\ place \in Calling
          /\ calls' = Append(before, Outgoing(t, j, place))
          /\ reply' = [answers EXCEPT ![t] = "none"]
       \/ /\ place \in Calling
          /\ AsksIfAlive(j, place)
          /\ "dead" \in Faults
          /\ calls' = before
          /\ reply' = [answers EXCEPT ![t] = "skipped"]

Continue(t, j, place) == GoTo(t, j, place, calls, reply)

\* The response goes out and the thread is free for another request.
Return(t) ==
    /\ calls' = Closed(t)
    /\ reply' = [reply EXCEPT ![t] = "none"]
    /\ job' = [job EXCEPT ![t] = "none"]
    /\ at' = [at EXCEPT ![t] = "none"]
    /\ step' = [step EXCEPT ![t] = 0]
    /\ shot' = [shot EXCEPT ![t] = 0]
    /\ errors' = [errors EXCEPT ![t] = FALSE]

-----------------------------------------------------------------------------
(* The status file.                                                        *)

Word(j) == IF j = "start" THEN "scanning" ELSE "idle"

\* What the file holds when a word is written over what is there: a second
\* writer that has already opened (and so truncated) the file writes at the
\* start of it too, and the longer word keeps its tail.
Overwritten(old, word) ==
    CASE word = "scanning"                    -> "scanning"
      [] word = "idle" /\ old \in {"", "idle"} -> "idle"
      [] OTHER                                -> "idlening"

\* set_status opens the file, which truncates it ...
OpenStatusFile(t) ==
    /\ "preempted" \in Faults
    /\ at[t] = "open"
    /\ status' = ""
    /\ at' = [at EXCEPT ![t] = "write"]
    /\ UNCHANGED <<calls, reply, job, step, shot, errors, uploads>>

\* ... and writes it; without "preempted" nothing comes in between.
WriteStatusFile(t) ==
    /\ \/ at[t] = "write"
       \/ at[t] = "open" /\ "preempted" \notin Faults
    /\ status' = Overwritten(IF at[t] = "open" THEN "" ELSE status, Word(job[t]))
    /\ Continue(t, job[t], "lcd")
    /\ UNCHANGED <<step, shot, errors, uploads>>

-----------------------------------------------------------------------------
(* Requests of the operators: the CLI, the Makefile or curl.  A request    *)
(* that is refused at its first check leaves nothing behind.               *)

Asked(t, command) ==
    /\ Idle(t)
    /\ command \in Commands
    /\ Cardinality({u \in Thread : job[u] \in OperatorJob}) < MaxOperators
    /\ Cardinality({u \in Thread : Idle(u)}) > Reserve
    /\ "preempted" \in Faults \/ \A u \in Thread : at[u] # "open"
    /\ UNCHANGED <<status, step, shot, errors, uploads>>

StartScan(t) ==
    /\ status # "scanning"
    /\ Continue(t, "start", "open")
    /\ Asked(t, "start")

\* The LCD call's result is ignored, and the controller is told to start.
StartController(t) ==
    /\ Answered(t, "start", "lcd")
    /\ Continue(t, "start", "controller")
    /\ UNCHANGED <<status, step, shot, errors, uploads>>

ScanStarted(t) ==
    /\ Answered(t, "start", "controller")
    /\ reply[t] = "ok"
    /\ Return(t)
    /\ UNCHANGED <<status, uploads>>

\* Mutant: the status is not set back.
UndoStart_LeavesStatus(t) ==
    /\ Answered(t, "start", "controller")
    /\ reply[t] # "ok"
    /\ Continue(t, "undo", "lcd")
    /\ UNCHANGED <<status, step, shot, errors, uploads>>

\* Any other answer, or none in time: the status is set back.
UndoStart(t) ==
    /\ Answered(t, "start", "controller")
    /\ reply[t] # "ok"
    /\ Continue(t, "undo", "open")
    /\ UNCHANGED <<status, step, shot, errors, uploads>>

AbortScan(t) ==
    /\ status = "scanning"
    /\ Continue(t, "abort", "controller")
    /\ Asked(t, "abort")

\* send_abort records an exception, and looks at nothing else.
Noted(t) == errors' = [errors EXCEPT ![t] = @ \/ reply[t] = "failed"]

AbortCamera(t) ==
    /\ Answered(t, "abort", "controller")
    /\ Continue(t, "abort", "camera")
    /\ Noted(t)
    /\ UNCHANGED <<status, step, shot, uploads>>

\* Mutant: the status is not set back.
BoardsAborted_LeavesStatus(t) ==
    /\ Answered(t, "abort", "camera")
    /\ Continue(t, "abort", "lcd")
    /\ Noted(t)
    /\ UNCHANGED <<status, step, shot, uploads>>

BoardsAborted(t) ==
    /\ Answered(t, "abort", "camera")
    /\ Continue(t, "abort", "open")
    /\ Noted(t)
    /\ UNCHANGED <<status, step, shot, uploads>>

ControlMotor(t) == Continue(t, "motor", "controller") /\ Asked(t, "motor")

CaptureSingle(t) == Continue(t, "single", "camera") /\ Asked(t, "single")

-----------------------------------------------------------------------------
(* Requests of the boards.  Receiving one is part of the board's action.   *)

\* Board's request of a kind is taken up by a free thread, which goes on to
\* the first thing it does; `before' and `answers' as in GoTo.
Receive(t, board, kind, place, before, answers) ==
    /\ Idle(t)
    /\ GoTo(t, kind, place, Append(before, Request(board, t, kind)), answers)
    /\ UNCHANGED <<status, errors, uploads>>

\* rotation_complete: a photo that is not empty is saved.
SavePhoto(t) ==
    /\ \E j \in {"rotation", "single"} : Answered(t, j, "camera")
    /\ reply[t] = "ok"
    /\ uploads' = uploads \cup {step[t]}
    /\ Return(t)
    /\ UNCHANGED status

\* An empty photo is an error that the response alone reports; so is any
\* failure of a single photo.
DropPhoto(t) ==
    /\ \/ Answered(t, "rotation", "camera") /\ reply[t] = "empty"
       \/ Answered(t, "single", "camera") /\ reply[t] # "ok"
    /\ Return(t)
    /\ UNCHANGED <<status, uploads>>

\* No photo of a step: the LCD is told.
ShowCaptureFailed(t) ==
    /\ Answered(t, "rotation", "camera")
    /\ reply[t] \in {"refused", "failed"}
    /\ Continue(t, "rotation", "lcd")
    /\ UNCHANGED <<status, step, shot, errors, uploads>>

\* handle_scan_complete after its first LCD call: photogrammetry-tool runs ...
ProcessPhotos(t) ==
    /\ Answered(t, "complete", "lcd")
    /\ Continue(t, "complete", "process")
    /\ UNCHANGED <<status, step, shot, errors, uploads>>

\* ... and when it is through the LCD says so.
ShowProcessDone(t) ==
    /\ Working(t, "complete", "process")
    /\ Continue(t, "complete", "done")
    /\ UNCHANGED <<status, step, shot, errors, uploads>>

-----------------------------------------------------------------------------
\* A request whose last act was a call with a result nobody looks at.
Finish(t) ==
    /\ \/ \E j \in {"undo", "abort", "rotation", "captured"} :
              Answered(t, j, "lcd")
       \/ Answered(t, "motor", "controller")
       \/ Answered(t, "complete", "done")
    /\ Return(t)
    /\ UNCHANGED <<status, uploads>>

\* What a thread does without waiting for anyone, by itself ...
ThreadStep(t) ==
    \/ OpenStatusFile(t)
    \/ WriteStatusFile(t)
    \/ StartController(t)
    \/ ScanStarted(t)
    \/ UndoStart(t)
    \/ AbortCamera(t)
    \/ BoardsAborted(t)
    \/ SavePhoto(t)
    \/ DropPhoto(t)
    \/ ShowCaptureFailed(t)
    \/ ProcessPhotos(t)
    \/ ShowProcessDone(t)
    \/ Finish(t)

\* ... and at an operator's request.
OperatorRequest(t) ==
    StartScan(t) \/ AbortScan(t) \/ ControlMotor(t) \/ CaptureSingle(t)
=============================================================================
