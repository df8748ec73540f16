-------------------------- MODULE ScanSystem_proof --------------------------
(***************************************************************************)
(* Theorems of the whole scanner, for any number of server threads,        *)
(* exposures, operators and left-behind requests, and any faults.          *)
(***************************************************************************)
EXTENDS ScanSystem, ControllerAlone_proof, Calls_proof

-----------------------------------------------------------------------------
(* Whatever the server, the camera and the network do, they give the       *)
(* controller surroundings that ControllerAlone allows it.                 *)

LEMMA ServedRequestIsAllowed ==
    ASSUME NEW i, ControllerServes(i)
    PROVE  Serve
BY DEF ControllerServes, Serve

LEMMA EveryStepIsAllowed ==
    ASSUME [Next]_vars
    PROVE  [ControllerNext]_controllerVars
<1>1. CASE ControllerMoves
    BY <1>1, ServedRequestIsAllowed
       DEF ControllerMoves, ControllerPolls, ControllerStep,
           ControllerNextStep, ControllerLastStep, ControllerDone,
           ControllerNext, Loop
<1>2. CASE CameraMoves
    BY <1>2 DEF CameraMoves, CameraServes
<1>3. CASE ServerMoves \/ OperatorMoves
    BY <1>3 DEF ServerMoves, OperatorMoves
<1>4. CASE \E caller \in Caller : GiveUp(caller)
    BY <1>4 DEF GiveUp, TimedOut, TooSlow, Lost, GivesUp, controllerVars
<1>5. CASE UNCHANGED vars
    BY <1>5 DEF vars
<1>6. QED
    BY <1>1, <1>2, <1>3, <1>4, <1>5 DEF Next

\* The controller's counters and announcements are right in the whole scanner
\* too: rotation_complete is posted from the angle of its step, scan_complete
\* when no step is left (loop, 236-256).
THEOREM ControllerStaysConsistent == Spec => []ControllerInv
<1>1. Init => ControllerInv
    BY InitEstablishesInv DEF Init
<1>2. ControllerInv /\ [Next]_vars => ControllerInv'
    BY EveryStepIsAllowed, StepKeepsInv
<1>3. QED
    BY <1>1, <1>2, PTL DEF Spec

\* The scans of the whole scanner go as ScanCycle says.
THEOREM ScannerImplementsScanCycle == Spec => Cycle!Safe
<1>1. Init => Cycle!Init
    BY InitMaps DEF Init
<1>2. ControllerInv /\ [Next]_vars => [Cycle!Next]_(Cycle!cycle)
    BY EveryStepIsAllowed, StepMaps
<1>3. QED
    BY <1>1, <1>2, ControllerStaysConsistent, PTL DEF Spec, Cycle!Safe

-----------------------------------------------------------------------------
(* Types.                                                                  *)

LEMMA RequestIsACall ==
    ASSUME NEW t \in Thread, NEW board \in Board
    PROVE  /\ \A k \in BoardRequest : Request(t, board, k) \in Call
           /\ \A k \in ServerRequest : Request(board, t, k) \in Call
BY DEF Request, Call

\* The calls of a thread, place by place.
LEMMA OutgoingAt ==
    ASSUME NEW t, NEW j
    PROVE  /\ Outgoing(t, j, "lcd") = Request(t, "controller", "lcd")
           /\ Outgoing(t, j, "done") = Request(t, "controller", "lcd")
           /\ Outgoing(t, j, "controller") = Request(t, "controller", j)
           /\ Outgoing(t, j, "camera") =
                  Request(t, "camera", IF j = "abort" THEN "abort" ELSE "capture")
BY DEF Outgoing

LEMMA OutgoingIsACall ==
    ASSUME NEW t \in Thread, NEW j, NEW place \in Calling,
           place = "controller" => j \in {"start", "abort", "motor"}
    PROVE  Outgoing(t, j, place) \in Call
<1>1. CASE place \in {"lcd", "done"}
    BY <1>1, OutgoingAt, RequestIsACall DEF Board, BoardRequest
<1>2. CASE place = "controller"
    BY <1>2, OutgoingAt, RequestIsACall DEF Board, BoardRequest
<1>3. CASE place = "camera"
    BY <1>3, OutgoingAt, RequestIsACall DEF Board, BoardRequest
<1>4. QED
    BY <1>1, <1>2, <1>3 DEF Calling

\* A thread that goes on keeps the types, whatever it leaves behind.
LEMMA GoToTypes ==
    ASSUME ServerTypeOK, NEW t \in Thread, NEW j \in Job, NEW place \in Place,
           place = "controller" => j \in {"start", "abort", "motor"},
           NEW before \in Seq(Call), NEW answers \in [Thread -> Reply],
           GoTo(t, j, place, before, answers)
    PROVE  /\ calls' \in Seq(Call)
           /\ reply' \in [Thread -> Reply]
           /\ job' \in [Thread -> Job]
           /\ at' \in [Thread -> Place]
<1>1. place \in Calling => Append(before, Outgoing(t, j, place)) \in Seq(Call)
    BY OutgoingIsACall, AppendProperties
<1>2. calls' \in Seq(Call)
    BY <1>1 DEF GoTo
<1>3. /\ [answers EXCEPT ![t] = "none"] \in [Thread -> Reply]
      /\ [answers EXCEPT ![t] = "skipped"] \in [Thread -> Reply]
    BY DEF Reply
<1>4. reply' \in [Thread -> Reply]
    BY <1>3 DEF GoTo
<1>5. job' \in [Thread -> Job] /\ at' \in [Thread -> Place]
    BY DEF GoTo, ServerTypeOK
<1>6. QED
    BY <1>2, <1>4, <1>5

LEMMA ContinueTypes ==
    ASSUME ServerTypeOK, NEW t \in Thread, NEW j \in Job, NEW place \in Place,
           place = "controller" => j \in {"start", "abort", "motor"},
           Continue(t, j, place)
    PROVE  /\ calls' \in Seq(Call)
           /\ reply' \in [Thread -> Reply]
           /\ job' \in [Thread -> Job]
           /\ at' \in [Thread -> Place]
BY GoToTypes DEF Continue, ServerTypeOK

LEMMA ReturnTypes ==
    ASSUME ServerTypeOK, NEW t \in Thread, Return(t)
    PROVE  /\ calls' \in Seq(Call)
           /\ reply' \in [Thread -> Reply]
           /\ job' \in [Thread -> Job]
           /\ at' \in [Thread -> Place]
           /\ step' \in [Thread -> 0 .. STEPS]
           /\ shot' \in [Thread -> Angle]
           /\ errors' \in [Thread -> BOOLEAN]
<1>1. Closed(t) \in Seq(Call)
    <2>1. CASE \E i \in DOMAIN calls : calls[i].to = t
        BY <2>1, RemoveAtProperties DEF Closed, ServerTypeOK
    <2>2. CASE ~\E i \in DOMAIN calls : calls[i].to = t
        BY <2>2 DEF Closed, ServerTypeOK
    <2>3. QED
        BY <2>1, <2>2
<1>2. 0 \in 0 .. STEPS /\ 0 \in Angle
    BY StepsAssumption DEF StepsAssumption, Angle
<1>3. calls' \in Seq(Call)
    BY <1>1 DEF Return
<1>4. reply' \in [Thread -> Reply]
    BY DEF Return, ServerTypeOK, Reply
<1>5. job' \in [Thread -> Job]
    BY DEF Return, ServerTypeOK, Job
<1>6. at' \in [Thread -> Place]
    BY DEF Return, ServerTypeOK, Place
<1>7. /\ step' \in [Thread -> 0 .. STEPS]
      /\ shot' \in [Thread -> Angle]
      /\ errors' \in [Thread -> BOOLEAN]
    BY <1>2 DEF Return, ServerTypeOK
<1>8. QED
    BY <1>3, <1>4, <1>5, <1>6, <1>7

LEMMA OverwrittenTypes ==
    ASSUME NEW old, NEW word \in {"scanning", "idle"}
    PROVE  Overwritten(old, word) \in {"scanning", "idle", "idlening"}
BY DEF Overwritten

LEMMA ThreadStepTypes ==
    ASSUME ServerTypeOK, NEW t \in Thread, ThreadStep(t)
    PROVE  ServerTypeOK'
<1>1. CASE OpenStatusFile(t)
    BY <1>1 DEF OpenStatusFile, ServerTypeOK, Place
<1>2. CASE WriteStatusFile(t)
    <2>1. job[t] \in Job /\ "lcd" \in Place
        BY DEF ServerTypeOK, Place
    <2>2. status' \in {"scanning", "idle", "idlening"}
        BY <1>2, OverwrittenTypes DEF WriteStatusFile, Word
    <2>3. /\ Continue(t, job[t], "lcd")
          /\ UNCHANGED <<step, shot, errors, uploads>>
        BY <1>2 DEF WriteStatusFile
    <2>4. QED
        BY <2>1, <2>2, <2>3, ContinueTypes DEF ServerTypeOK
<1>3. CASE \/ StartController(t)
           \/ UndoStart(t)
           \/ ShowCaptureFailed(t)
           \/ ProcessPhotos(t)
           \/ ShowProcessDone(t)
    <2>1. /\ UNCHANGED <<status, step, shot, errors, uploads>>
          /\ \/ Continue(t, "start", "controller")
             \/ Continue(t, "undo", "open")
             \/ Continue(t, "rotation", "lcd")
             \/ Continue(t, "complete", "process")
             \/ Continue(t, "complete", "done")
        BY <1>3
           DEF StartController, UndoStart, ShowCaptureFailed, ProcessPhotos,
               ShowProcessDone
    <2>2. QED
        BY <2>1, ContinueTypes DEF ServerTypeOK, Job, OperatorJob, Place
<1>4. CASE AbortCamera(t) \/ BoardsAborted(t)
    <2>1. /\ UNCHANGED <<status, step, shot, uploads>>
          /\ \/ Continue(t, "abort", "camera")
             \/ Continue(t, "abort", "open")
          /\ Noted(t)
        BY <1>4 DEF AbortCamera, BoardsAborted
    <2>2. errors' \in [Thread -> BOOLEAN]
        BY <2>1 DEF Noted, ServerTypeOK
    <2>3. QED
        BY <2>1, <2>2, ContinueTypes
           DEF ServerTypeOK, Job, OperatorJob, Place
<1>5. CASE ScanStarted(t) \/ DropPhoto(t) \/ Finish(t)
    <2>1. Return(t) /\ UNCHANGED <<status, uploads>>
        BY <1>5 DEF ScanStarted, DropPhoto, Finish
    <2>2. QED
        BY <2>1, ReturnTypes DEF ServerTypeOK
<1>6. CASE SavePhoto(t)
    <2>1. Return(t) /\ UNCHANGED status
        BY <1>6 DEF SavePhoto
    <2>2. uploads' \subseteq 0 .. STEPS
        BY <1>6 DEF SavePhoto, ServerTypeOK
    <2>3. QED
        BY <2>1, <2>2, ReturnTypes DEF ServerTypeOK
<1>7. QED
    BY <1>1, <1>2, <1>3, <1>4, <1>5, <1>6 DEF ThreadStep

LEMMA OperatorRequestTypes ==
    ASSUME ServerTypeOK, NEW t \in Thread, OperatorRequest(t)
    PROVE  ServerTypeOK'
<1>1. /\ UNCHANGED <<status, step, shot, errors, uploads>>
      /\ \/ Continue(t, "start", "open")
         \/ Continue(t, "abort", "controller")
         \/ Continue(t, "motor", "controller")
         \/ Continue(t, "single", "camera")
    BY DEF OperatorRequest, StartScan, AbortScan, ControlMotor, CaptureSingle,
           Asked
<1>2. QED
    BY <1>1, ContinueTypes DEF ServerTypeOK, Job, OperatorJob, Place

\* A thread that takes up a board's request keeps the types.
LEMMA ReceiveTypes ==
    ASSUME ServerTypeOK, NEW t \in Thread, NEW board \in Board,
           NEW kind \in ServerRequest \cap Job, NEW place \in Place,
           place # "controller",
           NEW before \in Seq(Call), NEW answers \in [Thread -> Reply],
           Receive(t, board, kind, place, before, answers)
    PROVE  /\ calls' \in Seq(Call)
           /\ reply' \in [Thread -> Reply]
           /\ job' \in [Thread -> Job]
           /\ at' \in [Thread -> Place]
           /\ UNCHANGED <<status, errors, uploads>>
<1>1. Append(before, Request(board, t, kind)) \in Seq(Call)
    BY RequestIsACall, AppendProperties
<1>2. GoTo(t, kind, place, Append(before, Request(board, t, kind)), answers)
    BY DEF Receive
<1>3. QED
    BY <1>1, <1>2, GoToTypes DEF Receive

\* What an answer or a timeout leaves of the calls and the replies.
LEMMA AnsweredTypes ==
    ASSUME ServerTypeOK, NEW i \in DOMAIN calls, NEW answer \in Reply
    PROVE  /\ Served(i) \in Seq(Call)
           /\ Replied(i, answer) \in [Thread -> Reply]
BY RemoveAtProperties DEF Served, Replied, ServerTypeOK

LEMMA AnswerGoesOutTypes ==
    ASSUME ServerTypeOK, NEW i \in DOMAIN calls, NEW answer \in Reply,
           AnswerGoesOut(i, answer)
    PROVE  ServerTypeOK'
<1>1. Served(i) \in Seq(Call) /\ Replied(i, answer) \in [Thread -> Reply]
    BY AnsweredTypes
<1>2. Replied(i, "failed") \in [Thread -> Reply]
    BY AnsweredTypes DEF Reply
<1>3. QED
    BY <1>1, <1>2 DEF AnswerGoesOut, ServerTypeOK

\* A request of a board and the answer to it keep the types.
LEMMA ControllerMovesTypes ==
    ASSUME ControllerInv, ServerTypeOK, ControllerMoves
    PROVE  ServerTypeOK'
<1>1. ASSUME NEW i \in DOMAIN calls, ControllerServes(i)
      PROVE  ServerTypeOK'
    <2>1. AnswerGoesOut(i, "ok") \/ AnswerGoesOut(i, "refused")
        BY <1>1 DEF ControllerServes
    <2>2. QED
        BY <2>1, AnswerGoesOutTypes DEF Reply
<1>2. CASE UNCHANGED serverVars
    BY <1>2 DEF serverVars, ServerTypeOK
<1>3. ASSUME NEW t \in Thread,
             Receive(t, "controller", "rotation", "camera", calls, reply),
             step' = [step EXCEPT ![t] = current_step + 1],
             UNCHANGED shot
      PROVE  ServerTypeOK'
    <2>1. current_step + 1 \in 0 .. STEPS
        BY StepsAssumption
           DEF StepsAssumption, ControllerInv, ControllerTypeOK
    <2>2. step' \in [Thread -> 0 .. STEPS]
        BY <1>3, <2>1 DEF ServerTypeOK
    <2>3. QED
        BY <1>3, <2>2, ReceiveTypes
           DEF ServerTypeOK, Board, ServerRequest, Job, Place
<1>4. ASSUME NEW t \in Thread,
             Receive(t, "controller", "complete", "open", calls, reply),
             UNCHANGED <<step, shot>>
      PROVE  ServerTypeOK'
    BY <1>4, ReceiveTypes DEF ServerTypeOK, Board, ServerRequest, Job, Place
<1>5. QED
    BY <1>1, <1>2, <1>3, <1>4
       DEF ControllerMoves, ControllerPolls, ControllerStep,
           ControllerNextStep, ControllerLastStep, ControllerDone

LEMMA CameraMovesTypes ==
    ASSUME ControllerInv, ServerTypeOK, CameraMoves
    PROVE  ServerTypeOK'
<1> SUFFICES ASSUME NEW i \in DOMAIN calls, CameraServes(i)
             PROVE  ServerTypeOK'
    BY DEF CameraMoves
<1>1. CASE HandleCapture(i)
    <2>1. PICK answer \in Reply :
             \/ \E t \in Thread :
                    /\ Receive(t, "camera", "captured", "lcd",
                               Served(i), Replied(i, answer))
                    /\ UNCHANGED step
             \/ /\ calls' = Served(i)
                /\ reply' = Replied(i, answer)
                /\ UNCHANGED <<status, job, at, step, errors, uploads>>
        BY <1>1 DEF HandleCapture, Reply
    <2>2. shot' \in [Thread -> Angle]
        BY <1>1
           DEF HandleCapture, ServerTypeOK, ControllerInv, ControllerTypeOK
    <2>3. Served(i) \in Seq(Call) /\ Replied(i, answer) \in [Thread -> Reply]
        BY AnsweredTypes
    <2>4. ASSUME NEW t \in Thread,
                 Receive(t, "camera", "captured", "lcd",
                         Served(i), Replied(i, answer)),
                 UNCHANGED step
          PROVE  ServerTypeOK'
        BY <2>2, <2>3, <2>4, ReceiveTypes
           DEF ServerTypeOK, Board, ServerRequest, Job, Place
    <2>5. QED
        BY <2>1, <2>2, <2>3, <2>4 DEF ServerTypeOK
<1>2. CASE CaptureFails(i) \/ HandleCameraAbort(i)
    BY <1>2, AnswerGoesOutTypes DEF CaptureFails, HandleCameraAbort, Reply
<1>3. QED
    BY <1>1, <1>2 DEF CameraServes

\* A caller who gives up keeps the types, and leaves no more than a call.
LEMMA LeftBehindTypes ==
    ASSUME ServerTypeOK, NEW i \in DOMAIN calls,
           calls[i].kind \in {"start", "abort", "motor", "capture"}
    PROVE  LeftBehind(i) \in Seq(Call)
<1>1. calls \in Seq(Call) /\ i \in 1 .. Len(calls)
    BY LenProperties DEF ServerTypeOK
<1>2. calls[i] \in Call
    BY <1>1, ElementOfSeq
<1>3. [calls[i] EXCEPT !.from = "gone"] \in Call
    BY <1>2 DEF Call, BoardRequest, ServerRequest
<1>4. [calls EXCEPT ![i] = [calls[i] EXCEPT !.from = "gone"]] \in Seq(Call)
    BY <1>1, <1>3, ExceptSeq
<1>5. QED
    BY <1>4 DEF LeftBehind

LEMMA GiveUpTypes ==
    ASSUME ServerTypeOK, NEW caller, GiveUp(caller)
    PROVE  ServerTypeOK'
<1>1. PICK i \in DOMAIN calls : GivesUp(i) \/ Lost(i)
    BY DEF GiveUp, TimedOut, TooSlow
<1>2. Served(i) \in Seq(Call) /\ Replied(i, "failed") \in [Thread -> Reply]
    BY AnsweredTypes DEF Reply
<1>3. calls' \in Seq(Call)
    BY <1>1, <1>2, LeftBehindTypes DEF GivesUp, Lost
<1>4. /\ reply' = Replied(i, "failed")
      /\ UNCHANGED <<status, job, at, step, shot, errors, uploads>>
    BY <1>1 DEF GivesUp, Lost
<1>5. QED
    BY <1>2, <1>3, <1>4 DEF ServerTypeOK

LEMMA InitialTypes == Init => ServerTypeOK
<1>1. 0 \in 0 .. STEPS /\ 0 \in Angle
    BY StepsAssumption DEF StepsAssumption, Angle
<1>2. <<>> \in Seq(Call)
    BY EmptySeq
<1>3. QED
    BY <1>1, <1>2 DEF Init, ServerInit, ServerTypeOK, Reply, Job, Place

LEMMA StepKeepsTypes ==
    ASSUME ControllerInv, ServerTypeOK, [Next]_vars
    PROVE  ServerTypeOK'
<1>1. CASE ControllerMoves
    BY <1>1, ControllerMovesTypes
<1>2. CASE CameraMoves
    BY <1>2, CameraMovesTypes
<1>3. CASE ServerMoves
    BY <1>3, ThreadStepTypes DEF ServerMoves
<1>4. CASE OperatorMoves
    BY <1>4, OperatorRequestTypes DEF OperatorMoves
<1>5. CASE \E caller \in Caller : GiveUp(caller)
    BY <1>5, GiveUpTypes
<1>6. CASE UNCHANGED vars
    BY <1>6 DEF vars, serverVars, ServerTypeOK
<1>7. QED
    BY <1>1, <1>2, <1>3, <1>4, <1>5, <1>6 DEF Next

\* Every variable of the scanner keeps to its type: above all, whatever is
\* told to a board is a request it knows, and the photos are of steps there
\* are.
THEOREM TypesAreCorrect == Spec => []TypeOK
<1>1. Init => ServerTypeOK
    BY InitialTypes
<1>2. ControllerInv /\ ServerTypeOK /\ [Next]_vars => ServerTypeOK'
    BY StepKeepsTypes
<1>3. ControllerInv /\ ServerTypeOK => TypeOK
    BY DEF ControllerInv, TypeOK
<1>4. QED
    BY <1>1, <1>2, <1>3, ControllerStaysConsistent, PTL DEF Spec

\* The calls, one by one.
LEMMA CallAt ==
    ASSUME ServerTypeOK, NEW i \in DOMAIN calls
    PROVE  calls[i] \in Call /\ i \in Nat
<1>1. calls \in Seq(Call)
    BY DEF ServerTypeOK
<1>2. i \in 1 .. Len(calls) /\ Len(calls) \in Nat
    BY <1>1, LenProperties
<1>3. QED
    BY <1>1, <1>2, ElementOfSeq

-----------------------------------------------------------------------------
(* Every party waits for one call, which is the one it is at.             *)

NobodyIdles == \A t \in Thread : Idle(t) => at[t] = "none"

\* Every call of a thread is the one it waits at, and the only one it makes.
Matched(cs, answers) ==
    \A i \in DOMAIN cs : cs[i].from \in Thread =>
        /\ answers[cs[i].from] = "none"
        /\ at[cs[i].from] \in Calling
        /\ cs[i] = Outgoing(cs[i].from, job[cs[i].from], at[cs[i].from])
        /\ \A k \in DOMAIN cs : cs[k].from = cs[i].from => k = i

CallsInv == NobodyIdles /\ Matched(calls, reply)

NoCallFrom(cs, t) == \A i \in DOMAIN cs : cs[i].from # t

LEMMA NotWaiting ==
    ASSUME NEW t \in Thread, CallsInv,
           Idle(t) \/ at[t] \notin Calling \/ reply[t] # "none"
    PROVE  NoCallFrom(calls, t)
BY DEF CallsInv, NobodyIdles, Matched, NoCallFrom, Calling

LEMMA RemoveNoCallFrom ==
    ASSUME NEW cs \in Seq(Call), NEW i \in DOMAIN cs, NEW t, NoCallFrom(cs, t)
    PROVE  NoCallFrom(RemoveAt(cs, i), t)
BY RemoveAtKeepsOnly DEF NoCallFrom

LEMMA MatchedRemove ==
    ASSUME NEW cs \in Seq(Call), NEW answers, Matched(cs, answers),
           NEW i \in DOMAIN cs
    PROVE  /\ Matched(RemoveAt(cs, i), answers)
           /\ cs[i].from \in Thread =>
                  NoCallFrom(RemoveAt(cs, i), cs[i].from)
<1> DEFINE Origin(k) == IF k < i THEN k ELSE k + 1
<1>1. \A k \in DOMAIN RemoveAt(cs, i) :
          /\ Origin(k) \in DOMAIN cs
          /\ RemoveAt(cs, i)[k] = cs[Origin(k)]
          /\ k \in Nat /\ i \in Nat
          /\ Origin(k) # i
    <2> SUFFICES ASSUME NEW k \in DOMAIN RemoveAt(cs, i)
                 PROVE  /\ Origin(k) \in DOMAIN cs
                        /\ RemoveAt(cs, i)[k] = cs[Origin(k)]
                        /\ k \in Nat /\ i \in Nat
                        /\ Origin(k) # i
        OBVIOUS
    <2>1. /\ k < i => k \in DOMAIN cs /\ RemoveAt(cs, i)[k] = cs[k]
          /\ k >= i => k + 1 \in DOMAIN cs /\ RemoveAt(cs, i)[k] = cs[k + 1]
          /\ k \in Nat /\ i \in Nat
        BY RemoveAtOrigin
    <2>2. CASE k < i
        BY <2>1, <2>2
    <2>3. CASE k >= i
        BY <2>1, <2>3
    <2>4. QED
        BY <2>1, <2>2, <2>3
<1>2. \A k, m \in DOMAIN RemoveAt(cs, i) : Origin(k) = Origin(m) => k = m
    BY <1>1
<1> HIDE DEF Origin
<1>3. QED
    BY <1>1, <1>2 DEF Matched, NoCallFrom

LEMMA MatchedAppend ==
    ASSUME NEW cs \in Seq(Call), NEW answers, Matched(cs, answers),
           NEW c \in Call, c.from \notin Thread
    PROVE  Matched(Append(cs, c), answers)
<1>1. /\ DOMAIN cs = 1 .. Len(cs) /\ Len(cs) \in Nat
      /\ DOMAIN Append(cs, c) = 1 .. Len(cs) + 1
      /\ \A p \in 1 .. Len(cs) : Append(cs, c)[p] = cs[p]
      /\ Append(cs, c)[Len(cs) + 1] = c
    BY AppendProperties, LenProperties
<1>2. \A p \in DOMAIN Append(cs, c) :
          Append(cs, c)[p].from \in Thread =>
              p \in DOMAIN cs /\ Append(cs, c)[p] = cs[p]
    BY <1>1
<1>3. QED
    BY <1>2 DEF Matched

LEMMA ServedMatches ==
    ASSUME ServerTypeOK, CallsInv, NEW i \in DOMAIN calls, NEW answer
    PROVE  Matched(Served(i), Replied(i, answer))
<1>1. Matched(RemoveAt(calls, i), reply)
    BY MatchedRemove DEF ServerTypeOK, CallsInv
<1>2. calls[i].from \in Thread => NoCallFrom(RemoveAt(calls, i), calls[i].from)
    BY MatchedRemove DEF ServerTypeOK, CallsInv
<1>3. QED
    BY <1>1, <1>2 DEF ServerTypeOK, Served, Replied, Matched, NoCallFrom

LEMMA LeftBehindMatches ==
    ASSUME ServerTypeOK, CallsInv, NEW i \in DOMAIN calls, NEW answer,
           calls[i].kind \in BoardRequest
    PROVE  Matched(LeftBehind(i), Replied(i, answer))
<1>1. /\ DOMAIN LeftBehind(i) = DOMAIN calls
      /\ \A p \in DOMAIN calls : p # i => LeftBehind(i)[p] = calls[p]
      /\ LeftBehind(i)[i] = [calls[i] EXCEPT !.from = "gone"]
    BY DEF LeftBehind
<1>2. calls[i] \in Call
    BY ElementOfSeq, LenProperties DEF ServerTypeOK
<1>3. LeftBehind(i)[i].from \notin Thread
    BY <1>1, <1>2, ThreadAssumption
       DEF Call, BoardRequest, ServerRequest, ThreadAssumption
<1>4. ASSUME NEW p \in DOMAIN calls, LeftBehind(i)[p].from \in Thread
      PROVE  /\ p # i
             /\ LeftBehind(i)[p] = calls[p]
             /\ calls[p].from # calls[i].from
    BY <1>1, <1>3, <1>4 DEF CallsInv, Matched
<1>5. QED
    BY <1>1, <1>4 DEF ServerTypeOK, CallsInv, Matched, Replied

LEMMA OutgoingIsFrom ==
    ASSUME NEW t, NEW j, NEW place \in Calling
    PROVE  Outgoing(t, j, place).from = t
BY OutgoingAt DEF Calling, Request

\* A thread that goes on waits for the call it makes, if it makes one.
LEMMA GoToMatches ==
    ASSUME ServerTypeOK, NobodyIdles,
           NEW t \in Thread, NEW j \in Job \ {"none"}, NEW place \in Place,
           place = "controller" => j \in {"start", "abort", "motor"},
           NEW before \in Seq(Call), NEW answers \in [Thread -> Reply],
           Matched(before, answers), NoCallFrom(before, t),
           GoTo(t, j, place, before, answers)
    PROVE  CallsInv'
<1>1. /\ job' = [job EXCEPT ![t] = j] /\ job \in [Thread -> Job]
      /\ at' = [at EXCEPT ![t] = place] /\ at \in [Thread -> Place]
    BY DEF GoTo, ServerTypeOK
<1>2. NobodyIdles'
    BY <1>1 DEF NobodyIdles, Idle
<1>3. \A u \in Thread : u # t => /\ job'[u] = job[u]
                                 /\ at'[u] = at[u]
                                 /\ reply'[u] = answers[u]
    BY <1>1 DEF GoTo
<1>4. CASE calls' = before
    BY <1>2, <1>3, <1>4 DEF CallsInv, Matched, NoCallFrom
<1>5. CASE calls' = Append(before, Outgoing(t, j, place)) /\ place \in Calling
    <2>1. reply'[t] = "none" /\ job'[t] = j /\ at'[t] = place
        <3>1. calls' # before
            BY <1>5, OutgoingIsACall, AppendProperties
        <3>2. QED
            BY <1>1, <3>1 DEF GoTo
    <2>2. /\ DOMAIN before = 1 .. Len(before) /\ Len(before) \in Nat
          /\ DOMAIN calls' = 1 .. Len(before) + 1
          /\ \A p \in 1 .. Len(before) : calls'[p] = before[p]
          /\ calls'[Len(before) + 1] = Outgoing(t, j, place)
        BY <1>5, OutgoingIsACall, AppendProperties, LenProperties
    <2>3. \A p \in DOMAIN calls' :
              \/ /\ p \in DOMAIN before
                 /\ calls'[p] = before[p]
                 /\ calls'[p].from # t
              \/ /\ p = Len(before) + 1
                 /\ calls'[p] = Outgoing(t, j, place)
                 /\ calls'[p].from = t
        BY <1>5, <2>2, OutgoingIsFrom DEF NoCallFrom
    <2>4. ASSUME NEW p \in DOMAIN calls', calls'[p].from \in Thread,
                 calls'[p].from # t
          PROVE  /\ reply'[calls'[p].from] = "none"
                 /\ at'[calls'[p].from] \in Calling
                 /\ calls'[p] = Outgoing(calls'[p].from, job'[calls'[p].from],
                                         at'[calls'[p].from])
                 /\ \A k \in DOMAIN calls' :
                        calls'[k].from = calls'[p].from => k = p
        BY <1>3, <2>3, <2>4 DEF Matched
    <2>5. ASSUME NEW p \in DOMAIN calls', calls'[p].from = t
          PROVE  /\ calls'[p] = Outgoing(t, j, place)
                 /\ \A k \in DOMAIN calls' : calls'[k].from = t => k = p
        BY <2>3, <2>5
    <2>6. QED
        BY <1>2, <1>5, <2>1, <2>4, <2>5 DEF CallsInv, Matched
<1>6. QED
    BY <1>4, <1>5 DEF GoTo

LEMMA ContinueMatches ==
    ASSUME ServerTypeOK, CallsInv,
           NEW t \in Thread, NEW j \in Job \ {"none"}, NEW place \in Place,
           place = "controller" => j \in {"start", "abort", "motor"},
           NoCallFrom(calls, t),
           Continue(t, j, place)
    PROVE  CallsInv'
BY GoToMatches DEF Continue, ServerTypeOK, CallsInv

LEMMA ReturnMatches ==
    ASSUME ServerTypeOK, CallsInv, NEW t \in Thread, NoCallFrom(calls, t),
           Return(t)
    PROVE  CallsInv'
<1>1. /\ job' = [job EXCEPT ![t] = "none"] /\ job \in [Thread -> Job]
      /\ at' = [at EXCEPT ![t] = "none"] /\ at \in [Thread -> Place]
      /\ reply' = [reply EXCEPT ![t] = "none"]
      /\ reply \in [Thread -> Reply]
    BY DEF Return, ServerTypeOK
<1>2. NobodyIdles'
    BY <1>1 DEF CallsInv, NobodyIdles, Idle
<1>3. calls' = calls \/ \E i \in DOMAIN calls : calls' = RemoveAt(calls, i)
    BY DEF Return, Closed
<1>4. Matched(calls', reply) /\ NoCallFrom(calls', t)
    <2>1. CASE calls' = calls
        BY <2>1 DEF CallsInv
    <2>2. ASSUME NEW i \in DOMAIN calls, calls' = RemoveAt(calls, i)
          PROVE  Matched(calls', reply) /\ NoCallFrom(calls', t)
        <3>1. Matched(RemoveAt(calls, i), reply)
            BY MatchedRemove DEF ServerTypeOK, CallsInv
        <3>2. NoCallFrom(RemoveAt(calls, i), t)
            BY RemoveNoCallFrom DEF ServerTypeOK
        <3>3. QED
            BY <2>2, <3>1, <3>2
    <2>3. QED
        BY <1>3, <2>1, <2>2
<1>5. QED
    BY <1>1, <1>2, <1>4 DEF CallsInv, Matched, NoCallFrom

LEMMA ReceiveMatches ==
    ASSUME ServerTypeOK, CallsInv, NEW t \in Thread, NEW board \in Board,
           NEW kind \in ServerRequest, NEW place \in Place,
           place # "controller",
           NEW before \in Seq(Call), NEW answers \in [Thread -> Reply],
           Matched(before, answers), NoCallFrom(before, t),
           Receive(t, board, kind, place, before, answers)
    PROVE  CallsInv'
<1> DEFINE c == Request(board, t, kind)
<1>1. c \in Call /\ c.from \notin Thread /\ c.from # t
    BY RequestIsACall, ThreadAssumption DEF Request, Board, ThreadAssumption
<1>2. Append(before, c) \in Seq(Call)
    BY <1>1, AppendProperties
<1>3. Matched(Append(before, c), answers)
    BY <1>1, MatchedAppend
<1>4. NoCallFrom(Append(before, c), t)
    BY <1>1, AppendProperties, LenProperties DEF NoCallFrom
<1>5. kind \in Job \ {"none"}
    BY DEF ServerRequest, Job
<1>6. GoTo(t, kind, place, Append(before, c), answers)
    BY DEF Receive
<1> HIDE DEF c
<1>7. QED
    BY <1>2, <1>3, <1>4, <1>5, <1>6, GoToMatches DEF CallsInv

-----------------------------------------------------------------------------
(* CallsInv is inductive.                                                  *)

LEMMA ThreadStepMatches ==
    ASSUME ServerTypeOK, CallsInv, NEW t \in Thread, ThreadStep(t)
    PROVE  CallsInv'
<1>1. NoCallFrom(calls, t)
    <2>1. at[t] \notin Calling \/ reply[t] # "none"
        BY DEF ThreadStep, OpenStatusFile, WriteStatusFile, StartController,
               ScanStarted, UndoStart, AbortCamera, BoardsAborted, SavePhoto,
               DropPhoto, ShowCaptureFailed, ProcessPhotos, ShowProcessDone,
               Finish, Answered, Working, Calling
    <2>2. QED
        BY <2>1, NotWaiting
<1>2. CASE OpenStatusFile(t)
    <2>1. /\ UNCHANGED <<calls, reply, job>>
          /\ at' = [at EXCEPT ![t] = "write"] /\ at \in [Thread -> Place]
          /\ at[t] = "open"
        BY <1>2 DEF OpenStatusFile, ServerTypeOK
    <2>2. QED
        BY <1>1, <2>1
           DEF CallsInv, NobodyIdles, Idle, Matched, NoCallFrom
<1>3. CASE WriteStatusFile(t)
    <2>1. job[t] \in Job \ {"none"} /\ Continue(t, job[t], "lcd")
        BY <1>3
           DEF WriteStatusFile, ServerTypeOK, CallsInv, NobodyIdles, Idle
    <2>2. QED
        BY <1>1, <2>1, ContinueMatches DEF Place
<1>4. CASE \/ StartController(t)
           \/ UndoStart(t)
           \/ AbortCamera(t)
           \/ BoardsAborted(t)
           \/ ShowCaptureFailed(t)
           \/ ProcessPhotos(t)
           \/ ShowProcessDone(t)
    <2>1. \/ Continue(t, "start", "controller")
          \/ Continue(t, "undo", "open")
          \/ Continue(t, "abort", "camera")
          \/ Continue(t, "abort", "open")
          \/ Continue(t, "rotation", "lcd")
          \/ Continue(t, "complete", "process")
          \/ Continue(t, "complete", "done")
        BY <1>4
           DEF StartController, UndoStart, AbortCamera, BoardsAborted,
               ShowCaptureFailed, ProcessPhotos, ShowProcessDone
    <2>2. QED
        BY <1>1, <2>1, ContinueMatches DEF Job, OperatorJob, Place
<1>5. CASE ScanStarted(t) \/ SavePhoto(t) \/ DropPhoto(t) \/ Finish(t)
    BY <1>1, <1>5, ReturnMatches DEF ScanStarted, SavePhoto, DropPhoto, Finish
<1>6. QED
    BY <1>2, <1>3, <1>4, <1>5 DEF ThreadStep

LEMMA OperatorRequestMatches ==
    ASSUME ServerTypeOK, CallsInv, NEW t \in Thread, OperatorRequest(t)
    PROVE  CallsInv'
<1>1. /\ Idle(t)
      /\ \/ Continue(t, "start", "open")
         \/ Continue(t, "abort", "controller")
         \/ Continue(t, "motor", "controller")
         \/ Continue(t, "single", "camera")
    BY DEF OperatorRequest, StartScan, AbortScan, ControlMotor, CaptureSingle,
           Asked
<1>2. NoCallFrom(calls, t)
    BY <1>1, NotWaiting
<1>3. QED
    BY <1>1, <1>2, ContinueMatches DEF Job, OperatorJob, Place

LEMMA CallOverMatches ==
    ASSUME ServerTypeOK, CallsInv, NEW i \in DOMAIN calls, NEW answer,
           calls' = Served(i), reply' = Replied(i, answer),
           UNCHANGED <<job, at>>
    PROVE  CallsInv'
<1>1. Matched(Served(i), Replied(i, answer)) /\ NobodyIdles
    BY ServedMatches DEF CallsInv
<1>2. QED
    BY <1>1 DEF CallsInv, Matched, NobodyIdles, Idle

LEMMA ControllerMovesMatches ==
    ASSUME ServerTypeOK, CallsInv, ControllerMoves
    PROVE  CallsInv'
<1>1. ASSUME NEW i \in DOMAIN calls, ControllerServes(i)
      PROVE  CallsInv'
    BY <1>1, CallOverMatches DEF ControllerServes, AnswerGoesOut
<1>2. CASE UNCHANGED serverVars
    BY <1>2 DEF serverVars, CallsInv, Matched, NobodyIdles, Idle
<1>3. ASSUME NEW t \in Thread,
             \/ Receive(t, "controller", "rotation", "camera", calls, reply)
             \/ Receive(t, "controller", "complete", "open", calls, reply)
      PROVE  CallsInv'
    <2>1. NoCallFrom(calls, t) /\ Matched(calls, reply)
        BY <1>3, NotWaiting DEF Receive, CallsInv
    <2>2. calls \in Seq(Call) /\ reply \in [Thread -> Reply]
        BY DEF ServerTypeOK
    <2>3. QED
        BY <1>3, <2>1, <2>2, ReceiveMatches DEF Board, ServerRequest, Place
<1>4. QED
    BY <1>1, <1>2, <1>3
       DEF ControllerMoves, ControllerPolls, ControllerStep,
           ControllerNextStep, ControllerLastStep, ControllerDone

LEMMA CameraMovesMatches ==
    ASSUME ServerTypeOK, CallsInv, CameraMoves
    PROVE  CallsInv'
<1> SUFFICES ASSUME NEW i \in DOMAIN calls, CameraServes(i)
             PROVE  CallsInv'
    BY DEF CameraMoves
<1>1. CASE HandleCapture(i)
    <2>1. PICK answer \in Reply :
             \/ \E t \in Thread :
                    Receive(t, "camera", "captured", "lcd",
                            Served(i), Replied(i, answer))
             \/ /\ calls' = Served(i)
                /\ reply' = Replied(i, answer)
                /\ UNCHANGED <<job, at>>
        BY <1>1 DEF HandleCapture, Reply
    <2>2. ASSUME NEW t \in Thread,
                 Receive(t, "camera", "captured", "lcd",
                         Served(i), Replied(i, answer))
          PROVE  CallsInv'
        <3>1. NoCallFrom(calls, t)
            BY <2>2, NotWaiting DEF Receive
        <3>2. NoCallFrom(Served(i), t)
            BY <3>1, RemoveNoCallFrom DEF ServerTypeOK, Served
        <3>3. Served(i) \in Seq(Call) /\ Replied(i, answer) \in [Thread -> Reply]
            BY AnsweredTypes
        <3>4. Matched(Served(i), Replied(i, answer))
            BY ServedMatches
        <3>5. QED
            BY <2>2, <3>2, <3>3, <3>4, ReceiveMatches
               DEF Board, ServerRequest, Place
    <2>3. QED
        BY <2>1, <2>2, CallOverMatches
<1>2. CASE CaptureFails(i) \/ HandleCameraAbort(i)
    BY <1>2, CallOverMatches DEF CaptureFails, HandleCameraAbort, AnswerGoesOut
<1>3. QED
    BY <1>1, <1>2 DEF CameraServes

LEMMA GiveUpMatches ==
    ASSUME ServerTypeOK, CallsInv, NEW caller, GiveUp(caller)
    PROVE  CallsInv'
<1>1. PICK i \in DOMAIN calls : GivesUp(i) \/ Lost(i)
    BY DEF GiveUp, TimedOut, TooSlow
<1>2. /\ reply' = Replied(i, "failed")
      /\ UNCHANGED <<job, at>>
      /\ \/ calls' = Served(i)
         \/ calls' = LeftBehind(i) /\ calls[i].kind \in BoardRequest
    BY <1>1 DEF GivesUp, Lost, BoardRequest
<1>3. CASE calls' = LeftBehind(i) /\ calls[i].kind \in BoardRequest
    <2>1. Matched(LeftBehind(i), Replied(i, "failed")) /\ NobodyIdles
        BY <1>3, LeftBehindMatches DEF CallsInv
    <2>2. QED
        BY <1>2, <1>3, <2>1 DEF CallsInv, Matched, NobodyIdles, Idle
<1>4. QED
    BY <1>2, <1>3, CallOverMatches

\* The call of the thread that waits for it to be served.
LEMMA CallOf ==
    ASSUME ServerTypeOK, CallsInv, NEW i \in DOMAIN calls,
           calls[i].to = "controller", calls[i].from # "gone"
    PROVE  /\ calls[i].from \in Thread
           /\ reply[calls[i].from] = "none"
           /\ calls[i].kind \in {"start", "abort", "motor"} =>
                  Working(calls[i].from, calls[i].kind, "controller")
<1>1. calls[i] \in Call
    BY ElementOfSeq, LenProperties DEF ServerTypeOK
<1>2. calls[i].from \in Thread
    BY <1>1, ThreadAssumption DEF Call, ThreadAssumption
<1> DEFINE t == calls[i].from
<1>3. /\ reply[t] = "none"
      /\ at[t] \in {"lcd", "controller", "camera", "done"}
      /\ calls[i] = Outgoing(t, job[t], at[t])
    BY <1>2 DEF CallsInv, Matched, Calling
<1> HIDE DEF t
<1>4. CASE at[t] = "controller"
    <2>1. calls[i] = Request(t, "controller", job[t])
        BY <1>3, <1>4, OutgoingAt
    <2>2. calls[i].kind = job[t]
        BY <2>1 DEF Request
    <2>3. QED
        BY <1>2, <1>3, <1>4, <2>2 DEF Working, t
<1>5. CASE at[t] \in {"lcd", "done"}
    <2>1. calls[i] = Request(t, "controller", "lcd")
        BY <1>3, <1>5, OutgoingAt
    <2>2. QED
        BY <1>2, <1>3, <2>1 DEF Request, t
<1>6. CASE at[t] = "camera"
    BY <1>3, <1>6, OutgoingAt DEF Request
<1>7. QED
    BY <1>3, <1>4, <1>5, <1>6

-----------------------------------------------------------------------------
(* What the steps do to the calls, the answers and the threads.            *)

\* The other threads stay where they are.
OthersStay(t) ==
    \A u \in Thread : u # t => /\ job'[u] = job[u]
                               /\ at'[u] = at[u]
                               /\ reply'[u] = reply[u]

LEMMA ContinueEffect ==
    ASSUME ServerTypeOK, NEW t \in Thread, NEW j \in Job, NEW place \in Place,
           place = "controller" => j \in {"start", "abort", "motor"},
           Continue(t, j, place)
    PROVE  /\ \/ calls' = calls
              \/ /\ place \in Calling
                 /\ Outgoing(t, j, place) \in Call
                 /\ calls' = Append(calls, Outgoing(t, j, place))
           /\ job'[t] = j /\ at'[t] = place
           /\ reply'[t] \in {"none", "skipped"}
           /\ reply'[t] = "skipped" => "dead" \in Faults
           /\ OthersStay(t)
<1>1. place \in Calling => Outgoing(t, j, place) \in Call
    BY OutgoingIsACall
<1>2. QED
    BY <1>1 DEF Continue, GoTo, OthersStay, ServerTypeOK

LEMMA ReturnEffect ==
    ASSUME ServerTypeOK, NEW t \in Thread, Return(t)
    PROVE  /\ \/ calls' = calls /\ \A i \in DOMAIN calls : calls[i].to # t
              \/ \E i \in DOMAIN calls :
                     calls[i].to = t /\ calls' = RemoveAt(calls, i)
           /\ job'[t] = "none" /\ at'[t] = "none" /\ reply'[t] = "none"
           /\ OthersStay(t)
           /\ \A u \in Thread : u # t => /\ step'[u] = step[u]
                                         /\ shot'[u] = shot[u]
                                         /\ errors'[u] = errors[u]
BY DEF Return, Closed, OthersStay, ServerTypeOK

\* What a thread does by itself, as far as the others can see.
LEMMA ThreadStepEffect ==
    ASSUME ServerTypeOK, NEW t \in Thread, ThreadStep(t)
    PROVE  /\ OthersStay(t)
           /\ \A u \in Thread : u # t => step'[u] = step[u]
           /\ uploads \subseteq uploads'
           /\ \/ calls' = calls
              \/ \E c \in Call : c.from = t /\ calls' = Append(calls, c)
              \/ \E i \in DOMAIN calls :
                     calls[i].to = t /\ calls' = RemoveAt(calls, i)
           /\ job'[t] = job[t] \/ job'[t] \in {"undo", "none"}
           /\ at'[t] = "process" => job'[t] = "complete"
<1> DEFINE Effect ==
               /\ OthersStay(t)
               /\ \A u \in Thread : u # t => step'[u] = step[u]
               /\ uploads \subseteq uploads'
               /\ \/ calls' = calls
                  \/ \E c \in Call : c.from = t /\ calls' = Append(calls, c)
                  \/ \E i \in DOMAIN calls :
                         calls[i].to = t /\ calls' = RemoveAt(calls, i)
               /\ job'[t] = job[t] \/ job'[t] \in {"undo", "none"}
               /\ at'[t] = "process" => job'[t] = "complete"
<1>1. ASSUME NEW j \in Job, NEW place \in Place,
             place = "controller" => j \in {"start", "abort", "motor"},
             j = job[t] \/ j = "undo", place = "process" => j = "complete",
             Continue(t, j, place), UNCHANGED <<step, uploads>>
      PROVE  Effect
    <2>1. /\ \/ calls' = calls
             \/ /\ place \in Calling
                /\ Outgoing(t, j, place) \in Call
                /\ calls' = Append(calls, Outgoing(t, j, place))
          /\ job'[t] = j /\ at'[t] = place
          /\ OthersStay(t)
        BY <1>1, ContinueEffect
    <2>2. place \in Calling => Outgoing(t, j, place).from = t
        BY OutgoingIsFrom
    <2>3. QED
        BY <1>1, <2>1, <2>2
<1>2. ASSUME Return(t), uploads \subseteq uploads'
      PROVE  Effect
    BY <1>2, ReturnEffect
<1>3. CASE OpenStatusFile(t)
    BY <1>3 DEF OpenStatusFile, OthersStay, ServerTypeOK
<1>4. CASE WriteStatusFile(t)
    BY <1>1, <1>4 DEF WriteStatusFile, ServerTypeOK, Place
<1>5. CASE \/ StartController(t)
           \/ UndoStart(t)
           \/ AbortCamera(t)
           \/ BoardsAborted(t)
           \/ ShowCaptureFailed(t)
           \/ ProcessPhotos(t)
           \/ ShowProcessDone(t)
    <2>1. /\ UNCHANGED <<step, uploads>>
          /\ \/ job[t] = "start" /\ Continue(t, "start", "controller")
             \/ job[t] = "start" /\ Continue(t, "undo", "open")
             \/ job[t] = "abort" /\ Continue(t, "abort", "camera")
             \/ job[t] = "abort" /\ Continue(t, "abort", "open")
             \/ job[t] = "rotation" /\ Continue(t, "rotation", "lcd")
             \/ job[t] = "complete" /\ Continue(t, "complete", "process")
             \/ job[t] = "complete" /\ Continue(t, "complete", "done")
        BY <1>5
           DEF StartController, UndoStart, AbortCamera, BoardsAborted,
               ShowCaptureFailed, ProcessPhotos, ShowProcessDone, Answered,
               Working
    <2>2. QED
        BY <1>1, <2>1 DEF Job, OperatorJob, Place
<1>6. CASE ScanStarted(t) \/ SavePhoto(t) \/ DropPhoto(t) \/ Finish(t)
    BY <1>2, <1>6 DEF ScanStarted, SavePhoto, DropPhoto, Finish
<1>7. QED
    BY <1>3, <1>4, <1>5, <1>6 DEF ThreadStep

\* A thread takes up a board's request, after what else the board did.
LEMMA ReceiveEffect ==
    ASSUME ServerTypeOK, NEW t \in Thread, NEW board \in Board,
           NEW kind \in ServerRequest, NEW place \in Place,
           place # "controller",
           NEW before \in Seq(Call), NEW answers \in [Thread -> Reply],
           Receive(t, board, kind, place, before, answers)
    PROVE  /\ Request(board, t, kind) \in Call
           /\ Append(before, Request(board, t, kind)) \in Seq(Call)
           /\ \/ calls' = Append(before, Request(board, t, kind))
              \/ /\ place \in Calling
                 /\ Outgoing(t, kind, place) \in Call
                 /\ calls' = Append(Append(before, Request(board, t, kind)),
                                    Outgoing(t, kind, place))
           /\ Idle(t) /\ job'[t] = kind /\ at'[t] = place
           /\ reply'[t] \in {"none", "skipped"}
           /\ \A u \in Thread : u # t => /\ job'[u] = job[u]
                                         /\ at'[u] = at[u]
                                         /\ reply'[u] = answers[u]
<1>1. Request(board, t, kind) \in Call
    BY RequestIsACall
<1>2. Append(before, Request(board, t, kind)) \in Seq(Call)
    BY <1>1, AppendProperties
<1>3. place \in Calling => Outgoing(t, kind, place) \in Call
    BY OutgoingIsACall
<1>4. /\ GoTo(t, kind, place, Append(before, Request(board, t, kind)), answers)
      /\ Idle(t)
    BY DEF Receive
<1>5. QED
    BY <1>1, <1>2, <1>3, <1>4 DEF GoTo, ServerTypeOK

\* The caller of a call gives up.  If no answer is slow, no other call that is
\* stuck has waited longer.
LEMMA GiveUpEffect ==
    ASSUME ServerTypeOK, NEW caller \in Caller, GiveUp(caller)
    PROVE  \E i \in DOMAIN calls :
               /\ calls[i].from = caller
               /\ \/ calls' = Served(i)
                  \/ /\ calls' = LeftBehind(i)
                     /\ calls[i].kind \in BoardRequest \ {"lcd"}
               /\ reply' = Replied(i, "failed")
               /\ UNCHANGED <<status, job, at, step, shot, errors, uploads>>
               /\ UNCHANGED controllerVars
               /\ "slow" \notin Faults =>
                      LongestStuck(i, Processing) \/ calls[i].kind = "lcd"
<1>1. PICK i \in DOMAIN calls :
         /\ calls[i].from = caller
         /\ TimedOut(i) \/ TooSlow(i) \/ Lost(i)
    BY DEF GiveUp
<1>2. /\ "slow" \notin Faults => TimedOut(i)
      /\ GivesUp(i) \/ Lost(i)
    BY <1>1 DEF TimedOut, TooSlow, Lost
<1>3. "slow" \notin Faults =>
          LongestStuck(i, Processing) \/ calls[i].kind = "lcd"
    BY <1>2 DEF TimedOut
<1>4. /\ calls' = Served(i) \/ (/\ calls' = LeftBehind(i)
                                /\ calls[i].kind \in BoardRequest \ {"lcd"})
      /\ reply' = Replied(i, "failed")
      /\ UNCHANGED <<status, job, at, step, shot, errors, uploads>>
      /\ UNCHANGED controllerVars
    BY <1>2 DEF GivesUp, Lost, BoardRequest
<1>5. QED
    BY <1>1, <1>3, <1>4

\* What is left of a call whose caller has given up.
LEMMA LeftBehindEffect ==
    ASSUME ServerTypeOK, NEW i \in DOMAIN calls,
           calls[i].kind \in BoardRequest
    PROVE  /\ LeftBehind(i) =
                  [calls EXCEPT ![i] = [calls[i] EXCEPT !.from = "gone"]]
           /\ [calls[i] EXCEPT !.from = "gone"] \in Call
           /\ [calls[i] EXCEPT !.from = "gone"].from = "gone"
           /\ [calls[i] EXCEPT !.from = "gone"].to = calls[i].to
           /\ [calls[i] EXCEPT !.from = "gone"].kind = calls[i].kind
<1>1. calls[i] \in Call
    BY ElementOfSeq, LenProperties DEF ServerTypeOK
<1>2. calls[i] \in [from : Thread \cup {"gone"}, to : Board,
                    kind : BoardRequest]
    BY <1>1 DEF Call, BoardRequest, ServerRequest
<1>3. QED
    BY <1>2 DEF LeftBehind, Call

-----------------------------------------------------------------------------
(* Every board waits for one post, which the thread it went to works on.   *)

Posts(cs) == {p \in DOMAIN cs : cs[p].from \in Board}

\* What a post tells of the board that made it, and of its kind.
PostedBy(board, kind, loop) ==
    \/ board = "controller" /\ kind = "rotation" /\ loop = "rotation_post"
    \/ board = "controller" /\ kind = "complete" /\ loop = "complete_post"
    \/ board = "camera" /\ kind = "captured"

Posted(cs, jobs, loop) ==
    /\ \A p \in Posts(cs) : /\ jobs[cs[p].to] = cs[p].kind
                            /\ PostedBy(cs[p].from, cs[p].kind, loop)
    /\ \A p, q \in Posts(cs) :
           cs[p].from = cs[q].from \/ cs[p].to = cs[q].to => p = q

PostsInv == Posted(calls, job, ctl)

NoPostFrom(cs, board) == \A p \in DOMAIN cs : cs[p].from # board
NoPostTo(cs, t) == \A p \in Posts(cs) : cs[p].to # t

LEMMA PostIsToAThread ==
    ASSUME NEW cs \in Seq(Call), NEW p \in Posts(cs)
    PROVE  cs[p].to \in Thread /\ cs[p].kind \in ServerRequest
<1>1. cs[p] \in Call /\ cs[p].from \in Board
    BY ElementOfSeq, LenProperties DEF Posts
<1>2. QED
    BY <1>1, ThreadAssumption DEF Call, Board, ThreadAssumption

LEMMA IdleHasNoPost ==
    ASSUME ServerTypeOK, PostsInv, NEW t, job[t] \notin ServerRequest
    PROVE  NoPostTo(calls, t)
BY PostIsToAThread DEF ServerTypeOK, PostsInv, Posted, NoPostTo

LEMMA PostedRemove ==
    ASSUME NEW cs \in Seq(Call), NEW i \in DOMAIN cs, NEW jobs, NEW loop,
           Posted(cs, jobs, loop)
    PROVE  /\ Posted(RemoveAt(cs, i), jobs, loop)
           /\ i \in Posts(cs) => /\ NoPostTo(RemoveAt(cs, i), cs[i].to)
                                 /\ NoPostFrom(RemoveAt(cs, i), cs[i].from)
<1> DEFINE Origin(k) == IF k < i THEN k ELSE k + 1
<1>1. \A k \in DOMAIN RemoveAt(cs, i) :
          /\ Origin(k) \in DOMAIN cs
          /\ RemoveAt(cs, i)[k] = cs[Origin(k)]
          /\ k \in Nat /\ i \in Nat
          /\ Origin(k) # i
    <2> SUFFICES ASSUME NEW k \in DOMAIN RemoveAt(cs, i)
                 PROVE  /\ Origin(k) \in DOMAIN cs
                        /\ RemoveAt(cs, i)[k] = cs[Origin(k)]
                        /\ k \in Nat /\ i \in Nat
                        /\ Origin(k) # i
        OBVIOUS
    <2>1. /\ k < i => k \in DOMAIN cs /\ RemoveAt(cs, i)[k] = cs[k]
          /\ k >= i => k + 1 \in DOMAIN cs /\ RemoveAt(cs, i)[k] = cs[k + 1]
          /\ k \in Nat /\ i \in Nat
        BY RemoveAtOrigin
    <2>2. CASE k < i
        BY <2>1, <2>2
    <2>3. CASE k >= i
        BY <2>1, <2>3
    <2>4. QED
        BY <2>1, <2>2, <2>3
<1>2. \A k, m \in DOMAIN RemoveAt(cs, i) : Origin(k) = Origin(m) => k = m
    BY <1>1
<1> HIDE DEF Origin
<1>3. \A k \in Posts(RemoveAt(cs, i)) : Origin(k) \in Posts(cs)
    BY <1>1 DEF Posts
<1>4. Posted(RemoveAt(cs, i), jobs, loop)
    BY <1>1, <1>2, <1>3 DEF Posted, Posts
<1>5. ASSUME i \in Posts(cs)
      PROVE  NoPostTo(RemoveAt(cs, i), cs[i].to)
    BY <1>1, <1>3, <1>5 DEF Posted, Posts, NoPostTo
<1>6. ASSUME i \in Posts(cs)
      PROVE  NoPostFrom(RemoveAt(cs, i), cs[i].from)
    BY <1>1, <1>6 DEF Posted, Posts, NoPostFrom
<1>7. QED
    BY <1>4, <1>5, <1>6

\* A thread's call is no post.
LEMMA PostedAppend ==
    ASSUME NEW cs \in Seq(Call), NEW c \in Call, c.from \notin Board,
           NEW jobs, NEW loop, Posted(cs, jobs, loop)
    PROVE  Posted(Append(cs, c), jobs, loop)
<1>1. \A p \in Posts(Append(cs, c)) :
          p \in Posts(cs) /\ Append(cs, c)[p] = cs[p]
    BY AppendAt DEF Posts
<1>2. QED
    BY <1>1 DEF Posted

LEMMA PostedPost ==
    ASSUME NEW cs \in Seq(Call), NEW jobs, NEW loop, Posted(cs, jobs, loop),
           NEW board \in Board, NEW t \in Thread, NEW kind,
           Request(board, t, kind) \in Call,
           NoPostFrom(cs, board), NoPostTo(cs, t),
           jobs[t] = kind, PostedBy(board, kind, loop)
    PROVE  Posted(Append(cs, Request(board, t, kind)), jobs, loop)
<1> DEFINE c == Request(board, t, kind)
<1>1. c.from = board /\ c.to = t /\ c.kind = kind
    BY DEF Request
<1> HIDE DEF c
<1>2. \A p \in Posts(Append(cs, c)) :
          \/ /\ p \in Posts(cs)
             /\ Append(cs, c)[p] = cs[p]
             /\ cs[p].from # board /\ cs[p].to # t
          \/ p = Len(cs) + 1 /\ Append(cs, c)[p] = c
    BY <1>1, AppendAt DEF Posts, NoPostFrom, NoPostTo, c
<1>3. \A p \in Posts(Append(cs, c)) :
          /\ jobs[Append(cs, c)[p].to] = Append(cs, c)[p].kind
          /\ PostedBy(Append(cs, c)[p].from, Append(cs, c)[p].kind, loop)
    BY <1>1, <1>2 DEF Posted
<1>4. \A p, q \in Posts(Append(cs, c)) :
          \/ Append(cs, c)[p].from = Append(cs, c)[q].from
          \/ Append(cs, c)[p].to = Append(cs, c)[q].to
          => p = q
    BY <1>1, <1>2 DEF Posted
<1>5. QED
    BY <1>3, <1>4 DEF Posted, c

\* A thread with no post to answer may take up another job, and a controller
\* that waits for none may go on.
LEMMA PostedChange ==
    ASSUME NEW cs \in Seq(Call), NEW jobs, NEW jobs2, NEW loop, NEW loop2,
           Posted(cs, jobs, loop), NEW t, NoPostTo(cs, t),
           \A u \in Thread : u # t => jobs2[u] = jobs[u],
           loop2 = loop \/ NoPostFrom(cs, "controller")
    PROVE  Posted(cs, jobs2, loop2)
<1>1. \A p \in Posts(cs) : cs[p].to \in Thread /\ cs[p].to # t
    BY PostIsToAThread DEF NoPostTo
<1>2. \A p \in Posts(cs) : PostedBy(cs[p].from, cs[p].kind, loop2)
    BY DEF Posted, PostedBy, NoPostFrom, Posts
<1>3. QED
    BY <1>1, <1>2 DEF Posted

-----------------------------------------------------------------------------
(* PostsInv is inductive.                                                  *)

LEMMA ContinuePosted ==
    ASSUME ServerTypeOK, PostsInv,
           NEW t \in Thread, NEW j \in Job, NEW place \in Place,
           place = "controller" => j \in {"start", "abort", "motor"},
           job[t] \in ServerRequest => j = job[t],
           Continue(t, j, place), UNCHANGED ctl
    PROVE  PostsInv'
<1>1. calls \in Seq(Call)
    BY DEF ServerTypeOK
<1>2. job'[t] = j /\ \A u \in Thread : u # t => job'[u] = job[u]
    BY ContinueEffect DEF OthersStay
<1>3. Posted(calls, job', ctl')
    <2>1. CASE job[t] \in ServerRequest
        <3>1. job' = job
            BY <2>1 DEF Continue, GoTo, ServerTypeOK
        <3>2. QED
            BY <3>1 DEF PostsInv
    <2>2. CASE job[t] \notin ServerRequest
        BY <1>1, <1>2, <2>2, IdleHasNoPost, PostedChange DEF PostsInv
    <2>3. QED
        BY <2>1, <2>2
<1>4. CASE calls' = calls
    BY <1>3, <1>4 DEF PostsInv
<1>5. CASE /\ place \in Calling
           /\ Outgoing(t, j, place) \in Call
           /\ calls' = Append(calls, Outgoing(t, j, place))
    <2>1. Outgoing(t, j, place).from \notin Board
        BY <1>5, OutgoingIsFrom, ThreadAssumption
           DEF ThreadAssumption, Board
    <2>2. QED
        BY <1>1, <1>3, <1>5, <2>1, PostedAppend DEF PostsInv
<1>6. QED
    BY <1>4, <1>5, ContinueEffect

LEMMA ReturnPosted ==
    ASSUME ServerTypeOK, PostsInv, NEW t \in Thread, Return(t), UNCHANGED ctl
    PROVE  PostsInv'
<1>1. calls \in Seq(Call)
    BY DEF ServerTypeOK
<1>2. \A u \in Thread : u # t => job'[u] = job[u]
    BY ReturnEffect DEF OthersStay
<1>3. calls' \in Seq(Call) /\ Posted(calls', job, ctl) /\ NoPostTo(calls', t)
    <2>1. CASE calls' = calls /\ \A i \in DOMAIN calls : calls[i].to # t
        BY <1>1, <2>1 DEF PostsInv, NoPostTo, Posts
    <2>2. ASSUME NEW i \in DOMAIN calls, calls[i].to = t,
                 calls' = RemoveAt(calls, i)
          PROVE  /\ calls' \in Seq(Call)
                 /\ Posted(calls', job, ctl)
                 /\ NoPostTo(calls', t)
        <3>1. calls[i] \in Call
            BY <1>1, ElementOfSeq, LenProperties
        <3>2. i \in Posts(calls)
            BY <2>2, <3>1, ThreadAssumption
               DEF ThreadAssumption, Call, Board, Posts
        <3>3. QED
            BY <1>1, <2>2, <3>2, PostedRemove, RemoveAtProperties DEF PostsInv
    <2>3. QED
        BY <2>1, <2>2, ReturnEffect
<1>4. QED
    BY <1>2, <1>3, PostedChange DEF PostsInv

LEMMA ReceivePosted ==
    ASSUME ServerTypeOK, NEW t \in Thread, NEW board \in Board,
           NEW kind \in ServerRequest, NEW place \in Place,
           place # "controller",
           NEW before \in Seq(Call), NEW answers \in [Thread -> Reply],
           Receive(t, board, kind, place, before, answers),
           Posted(before, job, ctl), NoPostFrom(before, board),
           ctl' = ctl \/ board = "controller",
           PostedBy(board, kind, ctl')
    PROVE  PostsInv'
<1> DEFINE c == Request(board, t, kind)
           queued == Append(before, c)
<1>1. c \in Call /\ queued \in Seq(Call)
    BY ReceiveEffect
<1>2. NoPostTo(before, t)
    <2>1. Idle(t)
        BY DEF Receive
    <2>2. QED
        BY <2>1, PostIsToAThread DEF Posted, NoPostTo, Idle, ServerRequest
<1>3. job'[t] = kind /\ \A u \in Thread : u # t => job'[u] = job[u]
    BY ReceiveEffect
<1>4. Posted(before, job', ctl')
    BY <1>2, <1>3, PostedChange
<1>5. Posted(queued, job', ctl')
    BY <1>1, <1>2, <1>3, <1>4, PostedPost
<1>6. \/ calls' = queued
      \/ /\ place \in Calling
         /\ Outgoing(t, kind, place) \in Call
         /\ calls' = Append(queued, Outgoing(t, kind, place))
    BY ReceiveEffect
<1> HIDE DEF c, queued
<1>7. CASE calls' = queued
    BY <1>5, <1>7 DEF PostsInv
<1>8. CASE /\ place \in Calling
           /\ Outgoing(t, kind, place) \in Call
           /\ calls' = Append(queued, Outgoing(t, kind, place))
    <2>1. Outgoing(t, kind, place).from \notin Board
        BY <1>8, OutgoingIsFrom, ThreadAssumption
           DEF ThreadAssumption, Board
    <2>2. QED
        BY <1>1, <1>5, <1>8, <2>1, PostedAppend DEF PostsInv
<1>9. QED
    BY <1>6, <1>7, <1>8

LEMMA ThreadStepPosted ==
    ASSUME ServerTypeOK, PostsInv, NEW t \in Thread, ThreadStep(t),
           UNCHANGED ctl
    PROVE  PostsInv'
<1>1. CASE OpenStatusFile(t)
    BY <1>1 DEF OpenStatusFile, PostsInv
<1>2. CASE WriteStatusFile(t)
    BY <1>2, ContinuePosted DEF WriteStatusFile, ServerTypeOK, Place
<1>3. CASE \/ StartController(t)
           \/ UndoStart(t)
           \/ AbortCamera(t)
           \/ BoardsAborted(t)
           \/ ShowCaptureFailed(t)
           \/ ProcessPhotos(t)
           \/ ShowProcessDone(t)
    <2>1. \/ job[t] = "start" /\ Continue(t, "start", "controller")
          \/ job[t] = "start" /\ Continue(t, "undo", "open")
          \/ job[t] = "abort" /\ Continue(t, "abort", "camera")
          \/ job[t] = "abort" /\ Continue(t, "abort", "open")
          \/ job[t] = "rotation" /\ Continue(t, "rotation", "lcd")
          \/ job[t] = "complete" /\ Continue(t, "complete", "process")
          \/ job[t] = "complete" /\ Continue(t, "complete", "done")
        BY <1>3
           DEF StartController, UndoStart, AbortCamera, BoardsAborted,
               ShowCaptureFailed, ProcessPhotos, ShowProcessDone, Answered,
               Working
    <2>2. QED
        BY <2>1, ContinuePosted DEF Job, OperatorJob, Place, ServerRequest
<1>4. CASE ScanStarted(t) \/ SavePhoto(t) \/ DropPhoto(t) \/ Finish(t)
    BY <1>4, ReturnPosted DEF ScanStarted, SavePhoto, DropPhoto, Finish
<1>5. QED
    BY <1>1, <1>2, <1>3, <1>4 DEF ThreadStep

LEMMA OperatorRequestPosted ==
    ASSUME ServerTypeOK, PostsInv, NEW t \in Thread, OperatorRequest(t),
           UNCHANGED ctl
    PROVE  PostsInv'
<1>1. /\ job[t] = "none"
      /\ \/ Continue(t, "start", "open")
         \/ Continue(t, "abort", "controller")
         \/ Continue(t, "motor", "controller")
         \/ Continue(t, "single", "camera")
    BY DEF OperatorRequest, StartScan, AbortScan, ControlMotor, CaptureSingle,
           Asked, Idle
<1>2. QED
    BY <1>1, ContinuePosted DEF Job, OperatorJob, Place, ServerRequest

\* In the rest of loop() the controller waits for no post.
LEMMA NotPosting ==
    ASSUME ServerTypeOK, PostsInv,
           ctl \in {"serve", "scan"} \/ ~Waiting("controller")
    PROVE  NoPostFrom(calls, "controller")
BY DEF PostsInv, Posted, Posts, PostedBy, NoPostFrom, Waiting, Board

LEMMA NobodyWaits ==
    ASSUME NEW party, ~Waiting(party)
    PROVE  NoPostFrom(calls, party)
BY DEF NoPostFrom, Waiting

LEMMA ControllerMovesPosted ==
    ASSUME ServerTypeOK, PostsInv, ControllerMoves
    PROVE  PostsInv'
<1>1. calls \in Seq(Call) /\ reply \in [Thread -> Reply]
    BY DEF ServerTypeOK
<1>2. NoPostFrom(calls, "controller")
    BY NotPosting
       DEF ControllerMoves, ControllerServes, HandleUnchanged,
           HandleStartRotation, RefuseStartRotation, HandleAbort,
           HandleMotorControl, ControllerPolls, PollNothing, ControllerStep,
           ScanStep, ControllerNextStep, ControllerLastStep, ControllerDone
<1>3. ASSUME UNCHANGED <<calls, job>>
      PROVE  PostsInv'
    BY <1>1, <1>2, <1>3 DEF PostsInv, Posted, PostedBy, Posts, NoPostFrom
<1>4. ASSUME NEW i \in DOMAIN calls, ControllerServes(i)
      PROVE  PostsInv'
    <2>1. calls' = RemoveAt(calls, i) /\ UNCHANGED job
        BY <1>4 DEF ControllerServes, AnswerGoesOut, Served
    <2>2. Posted(RemoveAt(calls, i), job, ctl)
        BY <1>1, PostedRemove DEF PostsInv
    <2>3. NoPostFrom(RemoveAt(calls, i), "controller")
        BY <1>1, <1>2, RemoveAtKeepsOnly DEF NoPostFrom
    <2>4. QED
        BY <2>1, <2>2, <2>3 DEF PostsInv, Posted, PostedBy, Posts, NoPostFrom
<1>5. ASSUME NEW t \in Thread,
             \/ /\ Receive(t, "controller", "rotation", "camera", calls, reply)
                /\ ctl' = "rotation_post"
             \/ /\ Receive(t, "controller", "complete", "open", calls, reply)
                /\ ctl' = "complete_post"
      PROVE  PostsInv'
    BY <1>1, <1>2, <1>5, ReceivePosted
       DEF PostsInv, PostedBy, Board, ServerRequest, Place
<1>6. QED
    BY <1>3, <1>4, <1>5
       DEF ControllerMoves, ControllerPolls, ControllerStep, ScanStep,
           ControllerNextStep, ControllerLastStep, LastStep, ControllerDone,
           serverVars

LEMMA CameraMovesPosted ==
    ASSUME ServerTypeOK, PostsInv, CameraMoves
    PROVE  PostsInv'
<1> SUFFICES ASSUME NEW i \in DOMAIN calls, CameraServes(i)
             PROVE  PostsInv'
    BY DEF CameraMoves
<1>1. calls \in Seq(Call) /\ reply \in [Thread -> Reply] /\ UNCHANGED ctl
    BY DEF ServerTypeOK, CameraServes, controllerVars
<1>2. Served(i) \in Seq(Call) /\ Posted(Served(i), job, ctl)
    BY <1>1, PostedRemove, RemoveAtProperties DEF PostsInv, Served
<1>3. NoPostFrom(Served(i), "camera")
    <2>1. NoPostFrom(calls, "camera")
        BY NobodyWaits DEF CameraServes
    <2>2. QED
        BY <1>1, <2>1, RemoveAtKeepsOnly DEF NoPostFrom, Served
<1>4. \/ calls' = Served(i) /\ UNCHANGED job
      \/ \E t \in Thread, answer \in Reply :
             Receive(t, "camera", "captured", "lcd",
                     Served(i), Replied(i, answer))
    BY DEF CameraServes, HandleCapture, CaptureFails, HandleCameraAbort,
           AnswerGoesOut, Reply
<1>5. ASSUME NEW t \in Thread, NEW answer \in Reply,
             Receive(t, "camera", "captured", "lcd",
                     Served(i), Replied(i, answer))
      PROVE  PostsInv'
    <2>1. Replied(i, answer) \in [Thread -> Reply]
        BY AnsweredTypes
    <2>2. QED
        BY <1>1, <1>2, <1>3, <1>5, <2>1, ReceivePosted
           DEF PostedBy, Board, ServerRequest, Place
<1>6. QED
    BY <1>1, <1>2, <1>4, <1>5 DEF PostsInv

LEMMA GiveUpPosted ==
    ASSUME ServerTypeOK, PostsInv, NEW caller \in Caller, GiveUp(caller)
    PROVE  PostsInv'
<1>1. PICK i \in DOMAIN calls :
         /\ UNCHANGED <<job, ctl>>
         /\ \/ calls' = Served(i)
            \/ /\ calls' = LeftBehind(i)
               /\ calls[i].kind \in BoardRequest
    BY GiveUpEffect DEF controllerVars
<1>2. CASE calls' = Served(i)
    BY <1>1, <1>2, PostedRemove DEF PostsInv, ServerTypeOK, Served
<1>3. CASE calls' = LeftBehind(i) /\ calls[i].kind \in BoardRequest
    <2>1. \A p \in Posts(calls') :
              p \in Posts(calls) /\ calls'[p] = calls[p]
        BY <1>3, LeftBehindEffect DEF Posts, Board
    <2>2. QED
        BY <1>1, <2>1 DEF PostsInv, Posted
<1>4. QED
    BY <1>1, <1>2, <1>3

-----------------------------------------------------------------------------
(* What the following theorems rest on.                                    *)

ScannerInv == ControllerInv /\ ServerTypeOK /\ CallsInv /\ PostsInv

LEMMA InitIsScannerInv == Init => ScannerInv
<1> SUFFICES ASSUME Init PROVE ScannerInv
    OBVIOUS
<1>1. ControllerInv
    BY InitEstablishesInv DEF Init
<1>2. ServerTypeOK
    BY InitialTypes
<1>3. CallsInv /\ PostsInv
    BY DEF Init, ServerInit, CallsInv, NobodyIdles, Idle, Matched, PostsInv,
           Posted, Posts
<1>4. QED
    BY <1>1, <1>2, <1>3 DEF ScannerInv

LEMMA StepKeepsScannerInv == ScannerInv /\ [Next]_vars => ScannerInv'
<1> SUFFICES ASSUME ControllerInv, ServerTypeOK, CallsInv, PostsInv,
                    [Next]_vars
             PROVE  ScannerInv'
    BY DEF ScannerInv
<1>1. ControllerInv'
    BY EveryStepIsAllowed, StepKeepsInv
<1>2. ServerTypeOK'
    BY StepKeepsTypes
<1>3. CallsInv' /\ PostsInv'
    <2>1. CASE ControllerMoves
        BY <2>1, ControllerMovesMatches, ControllerMovesPosted
    <2>2. CASE CameraMoves
        BY <2>2, CameraMovesMatches, CameraMovesPosted
    <2>3. CASE ServerMoves
        BY <2>3, ThreadStepMatches, ThreadStepPosted
           DEF ServerMoves, controllerVars
    <2>4. CASE OperatorMoves
        BY <2>4, OperatorRequestMatches, OperatorRequestPosted
           DEF OperatorMoves, controllerVars
    <2>5. CASE \E caller \in Caller : GiveUp(caller)
        BY <2>5, GiveUpMatches, GiveUpPosted
    <2>6. CASE UNCHANGED vars
        BY <2>6
           DEF vars, serverVars, controllerVars, CallsInv, NobodyIdles, Idle,
               Matched, PostsInv
    <2>7. QED
        BY <2>1, <2>2, <2>3, <2>4, <2>5, <2>6 DEF Next
<1>4. QED
    BY <1>1, <1>2, <1>3 DEF ScannerInv

LEMMA ScannerInvHolds == Spec => []ScannerInv
BY InitIsScannerInv, StepKeepsScannerInv, PTL DEF Spec

\* Every party waits for the answer of one request at most, and every thread
\* works on one request at most: the requests are blocking, and a board posts
\* from within its loop or its handler.
OneCallEach ==
    \A p, q \in DOMAIN calls :
        \/ calls[p].from = calls[q].from /\ calls[p].from # "gone"
        \/ calls[p].to = calls[q].to /\ calls[p].to \in Thread
        => p = q

\* So a request under way is named by who waits for it and whom it was sent
\* to, as Calls.tla has it, and an answer reaches the one who waits for it.
THEOREM EveryPartyWaitsForOneCall == Spec => []OneCallEach
<1>1. ScannerInv => OneCallEach
    <2> SUFFICES ASSUME ServerTypeOK, CallsInv, PostsInv,
                        NEW p \in DOMAIN calls, NEW q \in DOMAIN calls,
                        \/ /\ calls[p].from = calls[q].from
                           /\ calls[p].from # "gone"
                        \/ /\ calls[p].to = calls[q].to
                           /\ calls[p].to \in Thread
                 PROVE  p = q
        BY DEF ScannerInv, OneCallEach
    <2>1. calls[p] \in Call /\ calls[q] \in Call
        BY ElementOfSeq, LenProperties DEF ServerTypeOK
    <2>2. CASE calls[p].from \in Thread /\ calls[p].from = calls[q].from
        BY <2>2 DEF CallsInv, Matched
    <2>3. CASE p \in Posts(calls) /\ q \in Posts(calls)
        BY <2>3 DEF PostsInv, Posted
    <2>4. QED
        BY <2>1, <2>2, <2>3, ThreadAssumption
           DEF ThreadAssumption, Call, Board, Posts
<1>2. QED
    BY <1>1, ScannerInvHolds, PTL
=============================================================================
