-------------------------- MODULE ScanPhotos_proof -------------------------
(***************************************************************************)
(* The photos: a photo is saved under the number of its exposure, and when *)
(* photogrammetry-tool is run there is a photo of every step; for any      *)
(* number of threads, exposures, operators and left-behind requests.       *)
(*                                                                         *)
(* Both rest on who gives up first.  The controller waits for the thread   *)
(* that waits for the capture, and the camera may wait for a thread of its *)
(* own; as long as answers are not slow of themselves, the camera's post,  *)
(* which is the oldest of the three, is the one that expires.              *)
(***************************************************************************)
EXTENDS ScanSystem_proof

-----------------------------------------------------------------------------
(* The invariant.                                                          *)

Captures == {c \in Call : c.kind = "capture"}
PostsOf(board) == {c \in Call : c.from = board}
RotationPost(t) == Request("controller", t, "rotation")

\* Every capture there is has been asked for by thread t, on whose answer the
\* controller waits, and if the camera waits too it has waited for longer.
Exposing(cs, t) ==
    /\ \E q \in DOMAIN cs : cs[q] = RotationPost(t)
    /\ \A p \in DOMAIN cs : cs[p] \in Captures => cs[p].from = t
    /\ Ordered(cs, PostsOf("controller"), Captures)
    /\ Ordered(cs, PostsOf("camera"), PostsOf("controller"))

\* A capture is asked for, and taken, while the controller waits for it.
CapturesAreAwaited ==
    \/ Absent(calls, Captures)
    \/ \E t \in Thread : step[t] = current_step + 1 /\ Exposing(calls, t)

HasPhoto(t) == Answered(t, "rotation", "camera") /\ reply[t] = "ok"

-----------------------------------------------------------------------------
(* What becomes of the captures when calls come and go.                    *)

LEMMA RemoveKeepsOthers ==
    ASSUME NEW cs \in Seq(Call), NEW i \in DOMAIN cs,
           NEW q \in DOMAIN cs, q # i
    PROVE  \E r \in DOMAIN RemoveAt(cs, i) : RemoveAt(cs, i)[r] = cs[q]
BY RemoveAtDestination

LEMMA RemoveExposing ==
    ASSUME NEW cs \in Seq(Call), NEW i \in DOMAIN cs, NEW t,
           Exposing(cs, t), cs[i] # RotationPost(t)
    PROVE  Exposing(RemoveAt(cs, i), t)
<1>1. \E r \in DOMAIN RemoveAt(cs, i) : RemoveAt(cs, i)[r] = RotationPost(t)
    BY RemoveKeepsOthers DEF Exposing
<1>2. \A p \in DOMAIN RemoveAt(cs, i) :
          RemoveAt(cs, i)[p] \in Captures => RemoveAt(cs, i)[p].from = t
    BY RemoveAtKeepsOnly DEF Exposing
<1>3. /\ Ordered(RemoveAt(cs, i), PostsOf("controller"), Captures)
      /\ Ordered(RemoveAt(cs, i), PostsOf("camera"), PostsOf("controller"))
    BY RemoveOrdered DEF Exposing
<1>4. QED
    BY <1>1, <1>2, <1>3 DEF Exposing

\* A thread's call that asks for no capture.
LEMMA AppendExposing ==
    ASSUME NEW cs \in Seq(Call), NEW c \in Call, NEW t, Exposing(cs, t),
           c.from \notin Board, c.kind # "capture"
    PROVE  Exposing(Append(cs, c), t)
<1>1. \E q \in DOMAIN Append(cs, c) : Append(cs, c)[q] = RotationPost(t)
    BY AppendAt DEF Exposing
<1>2. /\ c \notin Captures
      /\ c \notin PostsOf("controller")
      /\ c \notin PostsOf("camera")
    BY DEF Captures, PostsOf, Board
<1>3. \A p \in DOMAIN Append(cs, c) :
          Append(cs, c)[p] \in Captures => Append(cs, c)[p].from = t
    BY <1>2, AppendAt DEF Exposing
<1>4. /\ Ordered(Append(cs, c), PostsOf("controller"), Captures)
      /\ Ordered(Append(cs, c), PostsOf("camera"), PostsOf("controller"))
    BY <1>2, AppendOrdered DEF Exposing
<1>5. QED
    BY <1>1, <1>3, <1>4 DEF Exposing

\* A call that is left behind and is no capture makes no difference.
LEMMA LeftBehindExposing ==
    ASSUME ServerTypeOK, NEW i \in DOMAIN calls,
           calls[i].kind \in BoardRequest \ {"capture"}
    PROVE  /\ Absent(calls, Captures) => Absent(LeftBehind(i), Captures)
           /\ \A t : Exposing(calls, t) => Exposing(LeftBehind(i), t)
<1> DEFINE c == [calls[i] EXCEPT !.from = "gone"]
<1>1. /\ LeftBehind(i) = [calls EXCEPT ![i] = c]
      /\ c \in Call /\ c.from = "gone" /\ c.kind # "capture"
    BY LeftBehindEffect
<1> HIDE DEF c
<1>2. /\ c \notin Captures
      /\ c \notin PostsOf("controller")
      /\ c \notin PostsOf("camera")
    BY <1>1 DEF Captures, PostsOf
<1>3. /\ DOMAIN LeftBehind(i) = DOMAIN calls
      /\ \A p \in DOMAIN calls : p # i => LeftBehind(i)[p] = calls[p]
      /\ LeftBehind(i)[i] = c
    BY <1>1
<1>4. Absent(calls, Captures) => Absent(LeftBehind(i), Captures)
    BY <1>2, <1>3 DEF Absent
<1>5. ASSUME NEW t, Exposing(calls, t)
      PROVE  Exposing(LeftBehind(i), t)
    <2>1. calls[i] # RotationPost(t)
        BY DEF RotationPost, Request, BoardRequest
    <2>2. \E q \in DOMAIN LeftBehind(i) : LeftBehind(i)[q] = RotationPost(t)
        BY <1>3, <1>5, <2>1 DEF Exposing
    <2>3. \A p \in DOMAIN LeftBehind(i) :
              LeftBehind(i)[p] \in Captures => LeftBehind(i)[p].from = t
        BY <1>2, <1>3, <1>5 DEF Exposing
    <2>4. /\ Ordered(LeftBehind(i), PostsOf("controller"), Captures)
          /\ Ordered(LeftBehind(i), PostsOf("camera"), PostsOf("controller"))
        BY <1>2, <1>3, <1>5 DEF Exposing, Ordered
    <2>5. QED
        BY <2>2, <2>3, <2>4 DEF Exposing
<1>6. QED
    BY <1>4, <1>5

\* A controller that does not wait waits for no capture.
LEMMA NoPostNoCapture ==
    ASSUME CapturesAreAwaited, NoPostFrom(calls, "controller")
    PROVE  Absent(calls, Captures)
BY DEF CapturesAreAwaited, Exposing, NoPostFrom, RotationPost, Request

\* There is one capture at most, and the scan is at its step.
LEMMA CaptureIsAwaited ==
    ASSUME ServerTypeOK, CallsInv, PostsInv, CapturesAreAwaited,
           NEW p \in DOMAIN calls, calls[p].kind = "capture"
    PROVE  /\ calls[p].from \in Thread
           /\ step[calls[p].from] = current_step + 1
           /\ ctl = "rotation_post"
           /\ job[calls[p].from] = "rotation" /\ at[calls[p].from] = "camera"
           /\ Exposing(calls, calls[p].from)
           /\ \A q \in DOMAIN calls : calls[q].kind = "capture" => q = p
<1>1. \A q \in DOMAIN calls : calls[q] \in Call
    BY CallAt
<1>2. calls[p] \in Captures
    BY <1>1 DEF Captures
<1>3. PICK t \in Thread : step[t] = current_step + 1 /\ Exposing(calls, t)
    BY <1>2 DEF CapturesAreAwaited, Absent
<1>4. calls[p].from = t
    BY <1>2, <1>3 DEF Exposing
<1>5. PICK q \in DOMAIN calls : calls[q] = RotationPost(t)
    BY <1>3 DEF Exposing
<1>6. job[t] = "rotation" /\ ctl = "rotation_post"
    BY <1>5
       DEF PostsInv, Posted, Posts, PostedBy, RotationPost, Request, Board
<1>7. at[t] = "camera"
    <2>1. calls[p] = Outgoing(t, job[t], at[t]) /\ at[t] \in Calling
        BY <1>4 DEF CallsInv, Matched
    <2>2. at[t] \in {"lcd", "done", "controller"} => calls[p].kind # "capture"
        BY <1>6, <2>1, OutgoingAt DEF Request
    <2>3. QED
        BY <2>1, <2>2 DEF Calling
<1>8. \A r \in DOMAIN calls : calls[r].kind = "capture" => r = p
    <2>1. \A r \in DOMAIN calls : calls[r].kind = "capture" => calls[r].from = t
        BY <1>1, <1>3 DEF Captures, Exposing
    <2>2. QED
        BY <1>4, <2>1 DEF CallsInv, Matched
<1>9. QED
    BY <1>3, <1>4, <1>6, <1>7, <1>8

\* The call of a thread that waits for its photo.
LEMMA PhotoIsACapture ==
    ASSUME CallsInv, NEW i \in DOMAIN calls, NEW t \in Thread,
           calls[i].from = t, Working(t, "rotation", "camera")
    PROVE  calls[i] = Request(t, "camera", "capture")
BY OutgoingAt DEF CallsInv, Matched, Working

\* Neither the capture nor the controller, which waits for it, gives up
\* first: they are stuck only if the camera is, and it has waited longer.
LEMMA CaptureDoesNotGiveUp ==
    ASSUME ServerTypeOK, CallsInv, PostsInv, CapturesAreAwaited,
           NEW p \in DOMAIN calls, calls[p].kind = "capture",
           NEW i \in DOMAIN calls, LongestStuck(i, Processing)
    PROVE  i # p /\ calls[i].from # "controller"
<1> DEFINE t == calls[p].from
<1>1. /\ t \in Thread /\ at[t] = "camera" /\ job[t] = "rotation"
      /\ Exposing(calls, t)
    BY CaptureIsAwaited
<1>2. PICK q \in DOMAIN calls : calls[q] = RotationPost(t)
    BY <1>1 DEF Exposing
<1>3. calls[p] = Request(t, "camera", "capture")
    BY <1>1, PhotoIsACapture DEF Working
<1> HIDE DEF t
<1>4. \A k \in DOMAIN calls : calls[k] \in Call /\ k \in Nat
    BY CallAt
<1>5. q < p /\ \A m \in DOMAIN calls : calls[m].from = "camera" => m < q
    <2>1. calls[q] \in PostsOf("controller") /\ calls[p] \in Captures
        BY <1>2, <1>3, <1>4 DEF PostsOf, Captures, RotationPost, Request
    <2>2. \A m \in DOMAIN calls :
              calls[m].from = "camera" => calls[m] \in PostsOf("camera")
        BY <1>4 DEF PostsOf
    <2>3. QED
        BY <1>1, <2>1, <2>2 DEF Exposing, Ordered
<1>6. PICK S \in SUBSET DOMAIN calls :
         /\ i \in S
         /\ \A j \in S : \/ calls[j].to \in Processing
                         \/ \E k \in S : calls[k].from = calls[j].to
    BY DEF LongestStuck, Stuck
<1>7. ASSUME NEW m \in S, calls[m].from = "camera"
      PROVE  i <= m
    <2>1. Stuck(m, Processing)
        BY <1>6, <1>7 DEF Stuck
    <2>2. QED
        BY <1>6, <1>7, <2>1 DEF LongestStuck
<1>8. ASSUME p \in S
      PROVE  \E m \in S : calls[m].from = "camera"
    <2>1. calls[p].to = "camera" /\ "camera" \notin Processing
        BY <1>3, ThreadAssumption DEF Request, ThreadAssumption, Processing
    <2>2. QED
        BY <1>6, <1>8, <2>1
<1>9. i # p
    BY <1>4, <1>5, <1>6, <1>7, <1>8
<1>10. ASSUME calls[i].from = "controller"
       PROVE  FALSE
    <2>1. i = q
        BY <1>2, <1>10
           DEF PostsInv, Posted, Posts, Board, RotationPost, Request
    <2>2. calls[q].to = t /\ t \notin Processing
        BY <1>1, <1>2 DEF RotationPost, Request, Processing
    <2>3. \E k \in S : calls[k].from = t
        BY <1>6, <2>1, <2>2
    <2>4. p \in S
        BY <1>1, <2>3 DEF CallsInv, Matched, t
    <2>5. QED
        BY <1>4, <1>5, <1>6, <1>7, <1>8, <2>1, <2>4
<1>11. QED
    BY <1>9, <1>10

-----------------------------------------------------------------------------
(* The invariant is inductive.                                             *)

LEMMA ShotsStay ==
    ASSUME PhotoIsOfItsStep,
           \A u \in Thread : HasPhoto(u)' => /\ HasPhoto(u)
                                             /\ step'[u] = step[u]
                                             /\ shot'[u] = shot[u]
    PROVE  PhotoIsOfItsStep'
BY DEF PhotoIsOfItsStep, HasPhoto

LEMMA ContinuePhotos ==
    ASSUME ServerTypeOK, CapturesAreAwaited, PhotoIsOfItsStep,
           NEW t \in Thread, NEW j \in Job, NEW place \in Place,
           place = "controller" => j \in {"start", "abort", "motor"},
           place = "camera" => j = "abort",
           Continue(t, j, place), UNCHANGED <<step, shot, current_step>>
    PROVE  CapturesAreAwaited' /\ PhotoIsOfItsStep'
<1>1. calls \in Seq(Call)
    BY DEF ServerTypeOK
<1>2. ASSUME calls' = calls
      PROVE  CapturesAreAwaited'
    BY <1>2 DEF CapturesAreAwaited
<1>3. ASSUME place \in Calling,
             Outgoing(t, j, place) \in Call,
             calls' = Append(calls, Outgoing(t, j, place))
      PROVE  CapturesAreAwaited'
    <2>1. Outgoing(t, j, place).from \notin Board
        BY <1>3, OutgoingIsFrom, ThreadAssumption
           DEF ThreadAssumption, Board
    <2>2. Outgoing(t, j, place).kind # "capture"
        BY <1>3, OutgoingAt DEF Calling, Request
    <2>3. Outgoing(t, j, place) \notin Captures
        BY <2>2 DEF Captures
    <2>4. Absent(calls, Captures) => Absent(calls', Captures)
        BY <1>1, <1>3, <2>3, AppendAbsent
    <2>5. \A u : Exposing(calls, u) => Exposing(calls', u)
        BY <1>1, <1>3, <2>1, <2>2, AppendExposing
    <2>6. QED
        BY <2>4, <2>5 DEF CapturesAreAwaited
<1>4. PhotoIsOfItsStep'
    <2>1. reply'[t] # "ok" /\ OthersStay(t)
        BY ContinueEffect
    <2>2. QED
        BY <2>1, ShotsStay DEF OthersStay, HasPhoto, Answered, Working
<1>5. QED
    BY <1>2, <1>3, <1>4, ContinueEffect

LEMMA ReturnPhotos ==
    ASSUME ServerTypeOK, CallsInv, PostsInv, CapturesAreAwaited,
           PhotoIsOfItsStep,
           NEW t \in Thread, NoCallFrom(calls, t), Return(t),
           UNCHANGED current_step
    PROVE  CapturesAreAwaited' /\ PhotoIsOfItsStep'
<1>1. /\ OthersStay(t) /\ reply'[t] = "none"
      /\ \A u \in Thread : u # t => step'[u] = step[u] /\ shot'[u] = shot[u]
      /\ \/ calls' = calls
         \/ \E i \in DOMAIN calls :
                calls[i].to = t /\ calls' = RemoveAt(calls, i)
    BY ReturnEffect
<1>2. calls \in Seq(Call)
    BY DEF ServerTypeOK
<1>3. ASSUME Absent(calls, Captures)
      PROVE  CapturesAreAwaited'
    BY <1>1, <1>2, <1>3, RemoveAbsent DEF CapturesAreAwaited
<1>4. ASSUME ~Absent(calls, Captures)
      PROVE  CapturesAreAwaited'
    <2>1. PICK p \in DOMAIN calls : calls[p].kind = "capture"
        BY <1>4 DEF Absent, Captures
    <2> DEFINE u == calls[p].from
    <2>2. /\ u \in Thread /\ step[u] = current_step + 1
          /\ Exposing(calls, u)
        BY <2>1, CaptureIsAwaited
    <2>3. u # t
        BY DEF NoCallFrom
    <2> HIDE DEF u
    <2>4. \A i \in DOMAIN calls : calls[i].to = t => calls[i] # RotationPost(u)
        BY <2>3 DEF RotationPost, Request
    <2>5. Exposing(calls', u)
        BY <1>1, <1>2, <2>2, <2>4, RemoveExposing
    <2>6. step'[u] = step[u]
        BY <1>1, <2>2, <2>3
    <2>7. QED
        BY <2>2, <2>5, <2>6 DEF CapturesAreAwaited
<1>5. PhotoIsOfItsStep'
    BY <1>1, ShotsStay DEF OthersStay, HasPhoto, Answered, Working
<1>6. QED
    BY <1>3, <1>4, <1>5

LEMMA ThreadStepPhotos ==
    ASSUME ServerTypeOK, CallsInv, PostsInv, CapturesAreAwaited,
           PhotoIsOfItsStep, NEW t \in Thread, ThreadStep(t),
           UNCHANGED current_step
    PROVE  CapturesAreAwaited' /\ PhotoIsOfItsStep'
<1>1. CASE OpenStatusFile(t)
    <2>1. /\ UNCHANGED <<calls, reply, job, step, shot>>
          /\ at' = [at EXCEPT ![t] = "write"] /\ at \in [Thread -> Place]
        BY <1>1 DEF OpenStatusFile, ServerTypeOK
    <2>2. QED
        BY <2>1, ShotsStay
           DEF CapturesAreAwaited, HasPhoto, Answered, Working
<1>2. CASE WriteStatusFile(t)
    BY <1>2, ContinuePhotos DEF WriteStatusFile, ServerTypeOK, Place
<1>3. CASE \/ StartController(t)
           \/ UndoStart(t)
           \/ AbortCamera(t)
           \/ BoardsAborted(t)
           \/ ShowCaptureFailed(t)
           \/ ProcessPhotos(t)
           \/ ShowProcessDone(t)
    <2>1. /\ UNCHANGED <<step, shot>>
          /\ \/ Continue(t, "start", "controller")
             \/ Continue(t, "undo", "open")
             \/ Continue(t, "abort", "camera")
             \/ Continue(t, "abort", "open")
             \/ Continue(t, "rotation", "lcd")
             \/ Continue(t, "complete", "process")
             \/ Continue(t, "complete", "done")
        BY <1>3
           DEF StartController, UndoStart, AbortCamera, BoardsAborted,
               ShowCaptureFailed, ProcessPhotos, ShowProcessDone
    <2>2. QED
        BY <2>1, ContinuePhotos DEF Job, OperatorJob, Place
<1>4. CASE ScanStarted(t) \/ SavePhoto(t) \/ DropPhoto(t) \/ Finish(t)
    <2>1. Return(t) /\ reply[t] # "none"
        BY <1>4 DEF ScanStarted, SavePhoto, DropPhoto, Finish, Answered
    <2>2. QED
        BY <2>1, NotWaiting, ReturnPhotos
<1>5. QED
    BY <1>1, <1>2, <1>3, <1>4 DEF ThreadStep

LEMMA OperatorRequestPhotos ==
    ASSUME ServerTypeOK, CapturesAreAwaited, PhotoIsOfItsStep,
           NEW t \in Thread, OperatorRequest(t), "single" \notin Commands,
           UNCHANGED current_step
    PROVE  CapturesAreAwaited' /\ PhotoIsOfItsStep'
<1>1. /\ UNCHANGED <<step, shot>>
      /\ \/ Continue(t, "start", "open")
         \/ Continue(t, "abort", "controller")
         \/ Continue(t, "motor", "controller")
    BY DEF OperatorRequest, StartScan, AbortScan, ControlMotor, CaptureSingle,
           Asked
<1>2. QED
    BY <1>1, ContinuePhotos DEF Job, OperatorJob, Place

\* The controller moves when it waits for no post, so while no photo is being
\* taken; and then it asks for one itself.
LEMMA ControllerMovesPhotos ==
    ASSUME ServerTypeOK, CallsInv, PostsInv, CapturesAreAwaited,
           PhotoIsOfItsStep, ControllerMoves
    PROVE  CapturesAreAwaited' /\ PhotoIsOfItsStep'
<1>1. calls \in Seq(Call) /\ reply \in [Thread -> Reply]
    BY DEF ServerTypeOK
<1>2. NoPostFrom(calls, "controller")
    BY NotPosting
       DEF ControllerMoves, ControllerServes, HandleUnchanged,
           HandleStartRotation, RefuseStartRotation, HandleAbort,
           HandleMotorControl, ControllerPolls, PollNothing, ControllerStep,
           ScanStep, ControllerNextStep, ControllerLastStep, ControllerDone
<1>3. Absent(calls, Captures)
    BY <1>2, NoPostNoCapture
<1>4. ASSUME UNCHANGED serverVars
      PROVE  CapturesAreAwaited' /\ PhotoIsOfItsStep'
    BY <1>3, <1>4, ShotsStay
       DEF serverVars, CapturesAreAwaited, HasPhoto, Answered, Working
<1>5. ASSUME NEW i \in DOMAIN calls, ControllerServes(i)
      PROVE  CapturesAreAwaited' /\ PhotoIsOfItsStep'
    <2>1. /\ calls' = RemoveAt(calls, i)
          /\ UNCHANGED <<job, at, step, shot>>
          /\ \E answer : reply' = Replied(i, answer)
          /\ calls[i].to = "controller"
        BY <1>5 DEF ControllerServes, AnswerGoesOut, Served, NextFor
    <2>2. CapturesAreAwaited'
        BY <1>1, <1>3, <2>1, RemoveAbsent DEF CapturesAreAwaited
    <2>3. ASSUME NEW u \in Thread, HasPhoto(u)'
          PROVE  u # calls[i].from
        <3>1. Working(u, "rotation", "camera")
            BY <2>1, <2>3 DEF HasPhoto, Answered, Working
        <3>2. QED
            BY <2>1, <3>1, PhotoIsACapture DEF Request
    <2>4. QED
        BY <1>1, <2>1, <2>2, <2>3, ShotsStay
           DEF Replied, HasPhoto, Answered, Working
<1>6. ASSUME NEW t \in Thread,
             Receive(t, "controller", "rotation", "camera", calls, reply),
             step' = [step EXCEPT ![t] = current_step + 1],
             UNCHANGED <<shot, current_step>>
      PROVE  CapturesAreAwaited' /\ PhotoIsOfItsStep'
    <2> DEFINE post == RotationPost(t)
               capture == Request(t, "camera", "capture")
               queued == Append(calls, post)
    <2>1. /\ post \in Call /\ queued \in Seq(Call)
          /\ reply'[t] # "ok"
          /\ \A u \in Thread : u # t => /\ job'[u] = job[u]
                                        /\ at'[u] = at[u]
                                        /\ reply'[u] = reply[u]
        <3>1. /\ "controller" \in Board /\ "rotation" \in ServerRequest
              /\ "camera" \in Place
            BY DEF Board, ServerRequest, Place
        <3>2. QED
            BY <1>1, <1>6, <3>1, ReceiveEffect DEF RotationPost
    <2>2. capture \in Call /\ calls' = Append(queued, capture)
        <3>1. capture = Outgoing(t, "rotation", "camera")
            BY OutgoingAt
        <3>2. ~AsksIfAlive("rotation", "camera")
            BY DEF AsksIfAlive
        <3>3. capture \in Call
            BY RequestIsACall DEF Board, BoardRequest
        <3>4. QED
            BY <1>6, <3>1, <3>2, <3>3
               DEF Receive, GoTo, Calling, RotationPost
    <2>3. /\ post.from = "controller" /\ post.kind = "rotation"
          /\ capture.from = t /\ capture.kind = "capture" /\ t \notin Board
        BY ThreadAssumption
           DEF RotationPost, Request, ThreadAssumption, Board
    <2> HIDE DEF post, capture, queued
    <2>4. /\ DOMAIN calls = 1 .. Len(calls) /\ Len(calls) \in Nat
          /\ DOMAIN calls' = 1 .. Len(calls) + 2
          /\ \A p \in DOMAIN calls : calls'[p] = calls[p]
          /\ calls'[Len(calls) + 1] = post
          /\ calls'[Len(calls) + 2] = capture
        <3>1. /\ DOMAIN calls = 1 .. Len(calls) /\ Len(calls) \in Nat
              /\ DOMAIN queued = 1 .. Len(calls) + 1
              /\ \A p \in DOMAIN calls : queued[p] = calls[p]
              /\ queued[Len(calls) + 1] = post
            BY <1>1, <2>1, AppendAt DEF queued
        <3>2. /\ DOMAIN queued = 1 .. Len(queued) /\ Len(queued) \in Nat
              /\ DOMAIN calls' = 1 .. Len(queued) + 1
              /\ \A p \in DOMAIN queued : calls'[p] = queued[p]
              /\ calls'[Len(queued) + 1] = capture
            BY <2>1, <2>2, AppendAt
        <3>3. Len(queued) = Len(calls) + 1
            BY <3>1, <3>2
        <3>4. QED
            BY <3>1, <3>2, <3>3
    <2>5. \A p \in DOMAIN calls' :
              \/ /\ p \in DOMAIN calls /\ p < Len(calls) + 1
                 /\ calls'[p] \notin Captures
                 /\ calls'[p].from # "controller"
              \/ p = Len(calls) + 1 /\ calls'[p] = post
              \/ p = Len(calls) + 2 /\ calls'[p] = capture
        BY <1>2, <1>3, <2>4 DEF Absent, NoPostFrom
    <2>6. /\ post \notin Captures /\ post \notin PostsOf("camera")
          /\ capture \notin PostsOf("camera")
          /\ capture \notin PostsOf("controller")
        BY <2>3 DEF Captures, PostsOf, Board
    <2>7. \E q \in DOMAIN calls' : calls'[q] = RotationPost(t)
        BY <2>4 DEF post
    <2>8. \A p \in DOMAIN calls' : calls'[p] \in Captures => calls'[p].from = t
        BY <2>3, <2>5, <2>6
    <2>9. \A p \in DOMAIN calls' :
              /\ calls'[p] \in PostsOf("controller") => p = Len(calls) + 1
              /\ calls'[p] \in Captures => p = Len(calls) + 2
              /\ calls'[p] \in PostsOf("camera") => p < Len(calls) + 1
        BY <2>4, <2>5, <2>6 DEF PostsOf
    <2>10. Ordered(calls', PostsOf("controller"), Captures)
        BY <2>4, <2>9 DEF Ordered
    <2>11. Ordered(calls', PostsOf("camera"), PostsOf("controller"))
        BY <2>4, <2>9 DEF Ordered
    <2>12. Exposing(calls', t)
        BY <2>7, <2>8, <2>10, <2>11 DEF Exposing
    <2>13. step'[t] = current_step' + 1
           /\ \A u \in Thread : u # t => step'[u] = step[u]
        BY <1>6 DEF ServerTypeOK
    <2>14. PhotoIsOfItsStep'
        BY <1>6, <2>1, <2>13, ShotsStay DEF HasPhoto, Answered, Working
    <2>15. QED
        BY <2>12, <2>13, <2>14 DEF CapturesAreAwaited
<1>7. ASSUME NEW t \in Thread,
             Receive(t, "controller", "complete", "open", calls, reply),
             UNCHANGED <<step, shot>>
      PROVE  CapturesAreAwaited' /\ PhotoIsOfItsStep'
    <2> DEFINE post == Request("controller", t, "complete")
    <2>1. /\ post \in Call /\ calls' = Append(calls, post)
          /\ reply'[t] # "ok"
          /\ \A u \in Thread : u # t => /\ job'[u] = job[u]
                                        /\ at'[u] = at[u]
                                        /\ reply'[u] = reply[u]
        BY <1>1, <1>7, ReceiveEffect
           DEF Board, ServerRequest, Place, Calling
    <2>2. post \notin Captures
        BY DEF Captures, Request
    <2>3. Absent(calls', Captures)
        BY <1>1, <1>3, <2>1, <2>2, AppendAbsent
    <2>4. QED
        BY <1>7, <2>1, <2>3, ShotsStay
           DEF CapturesAreAwaited, HasPhoto, Answered, Working
<1>8. QED
    BY <1>4, <1>5, <1>6, <1>7
       DEF ControllerMoves, ControllerPolls, ControllerStep, ScanStep,
           ControllerNextStep, ControllerLastStep, ControllerDone

\* A capture that is over was the only one.
LEMMA CaptureOver ==
    ASSUME ServerTypeOK, CallsInv, PostsInv, CapturesAreAwaited,
           NEW i \in DOMAIN calls, calls[i].kind = "capture"
    PROVE  Served(i) \in Seq(Call) /\ Absent(Served(i), Captures)
<1>1. calls \in Seq(Call)
    BY DEF ServerTypeOK
<1>2. Served(i) \in Seq(Call)
    BY <1>1, RemoveAtProperties DEF Served
<1>3. \A q \in DOMAIN calls : q # i => calls[q].kind # "capture"
    BY CaptureIsAwaited
<1>4. \A k \in DOMAIN RemoveAt(calls, i) :
          \E q \in DOMAIN calls : q # i /\ RemoveAt(calls, i)[k] = calls[q]
    <2> SUFFICES ASSUME NEW k \in DOMAIN RemoveAt(calls, i)
                 PROVE  \E q \in DOMAIN calls :
                            q # i /\ RemoveAt(calls, i)[k] = calls[q]
        OBVIOUS
    <2>1. /\ k < i => k \in DOMAIN calls /\ RemoveAt(calls, i)[k] = calls[k]
          /\ k >= i => /\ k + 1 \in DOMAIN calls
                       /\ RemoveAt(calls, i)[k] = calls[k + 1]
          /\ k \in Nat /\ i \in Nat
        BY <1>1, RemoveAtOrigin
    <2>2. CASE k < i
        BY <2>1, <2>2
    <2>3. CASE k >= i
        BY <2>1, <2>3
    <2>4. QED
        BY <2>1, <2>2, <2>3
<1>5. QED
    BY <1>2, <1>3, <1>4 DEF Absent, Captures, Served

\* A call that is over and was neither a capture nor awaited by one.
LEMMA OtherCallOver ==
    ASSUME ServerTypeOK, CapturesAreAwaited,
           NEW i \in DOMAIN calls,
           calls[i].from # "controller" \/ Absent(calls, Captures)
    PROVE  /\ Absent(calls, Captures) => Absent(Served(i), Captures)
           /\ \A t : Exposing(calls, t) => \/ Exposing(Served(i), t)
                                           \/ Absent(Served(i), Captures)
<1>1. calls \in Seq(Call)
    BY DEF ServerTypeOK
<1>2. Absent(calls, Captures) => Absent(Served(i), Captures)
    BY <1>1, RemoveAbsent DEF Served
<1>3. ASSUME calls[i].from # "controller", NEW t, Exposing(calls, t)
      PROVE  Exposing(Served(i), t)
    BY <1>1, <1>3, RemoveExposing DEF Served, RotationPost, Request
<1>4. QED
    BY <1>2, <1>3

\* The photo is exposed at the angle of the step the controller announced.
LEMMA CameraMovesPhotos ==
    ASSUME ControllerInv, ServerTypeOK, CallsInv, PostsInv,
           CapturesAreAwaited, PhotoIsOfItsStep, CameraMoves
    PROVE  CapturesAreAwaited' /\ PhotoIsOfItsStep'
<1> SUFFICES ASSUME NEW i \in DOMAIN calls, CameraServes(i)
             PROVE  CapturesAreAwaited' /\ PhotoIsOfItsStep'
    BY DEF CameraMoves
<1>1. /\ calls \in Seq(Call) /\ reply \in [Thread -> Reply]
      /\ shot \in [Thread -> Angle]
      /\ UNCHANGED current_step
      /\ calls[i].to = "camera"
    BY DEF ServerTypeOK, CameraServes, controllerVars, NextFor
<1>2. CASE HandleCapture(i)
    <2> DEFINE t == calls[i].from
    <2>1. /\ calls[i].kind = "capture"
          /\ shot' = [shot EXCEPT ![t] = current_angle]
          /\ UNCHANGED step
        BY <1>2 DEF HandleCapture
    <2>2. /\ t \in Thread /\ step[t] = current_step + 1
          /\ job[t] = "rotation" /\ ctl = "rotation_post"
        BY <2>1, CaptureIsAwaited
    <2>3. Served(i) \in Seq(Call) /\ Absent(Served(i), Captures)
        BY <2>1, CaptureOver
    <2>4. shot'[t] = ScanAngle(step[t] - 1)
        <3>1. current_angle = ScanAngle(current_step) /\ current_step \in Int
            BY <2>2
               DEF ControllerInv, AnnouncedAngleIsRight, ControllerTypeOK
        <3>2. shot'[t] = current_angle
            BY <1>1, <2>1, <2>2
        <3>3. step[t] - 1 = current_step
            BY <2>2, <3>1
        <3>4. QED
            BY <3>1, <3>2, <3>3
    <2>5. \A u \in Thread : u # t => shot'[u] = shot[u]
        BY <1>1, <2>1
    <2> HIDE DEF t
    <2>6. PICK answer \in Reply :
             \/ \E u \in Thread : Receive(u, "camera", "captured", "lcd",
                                          Served(i), Replied(i, answer))
             \/ /\ calls' = Served(i)
                /\ reply' = Replied(i, answer)
                /\ UNCHANGED <<job, at>>
        BY <1>2 DEF HandleCapture, Reply
    <2>7. \A u \in Thread : u # t => Replied(i, answer)[u] = reply[u]
        BY <1>1 DEF Replied, t
    <2>8. ASSUME NEW u \in Thread,
                 Receive(u, "camera", "captured", "lcd",
                         Served(i), Replied(i, answer))
          PROVE  CapturesAreAwaited' /\ PhotoIsOfItsStep'
        <3> DEFINE post == Request("camera", u, "captured")
                   queued == Append(Served(i), post)
                   lcd == Outgoing(u, "captured", "lcd")
        <3>1. /\ "camera" \in Board /\ "captured" \in ServerRequest
              /\ "lcd" \in Place
              /\ Replied(i, answer) \in [Thread -> Reply]
            BY AnsweredTypes DEF Board, ServerRequest, Place
        <3>2. /\ post \in Call /\ queued \in Seq(Call)
              /\ calls' = queued \/ (lcd \in Call /\ calls' = Append(queued, lcd))
              /\ reply'[u] \in {"none", "skipped"}
              /\ \A v \in Thread : v # u => /\ job'[v] = job[v]
                                            /\ at'[v] = at[v]
                                            /\ reply'[v] = Replied(i, answer)[v]
            BY <2>3, <2>8, <3>1, ReceiveEffect
        <3>3. post \notin Captures /\ lcd \notin Captures
            BY OutgoingAt DEF Captures, Request
        <3> HIDE DEF post, lcd
        <3>4. Absent(queued, Captures)
            BY <2>3, <3>2, <3>3, AppendAbsent
        <3>5. Absent(calls', Captures)
            BY <3>2, <3>3, <3>4, AppendAbsent
        <3>6. ASSUME NEW v \in Thread, v # t, HasPhoto(v)'
              PROVE  HasPhoto(v) /\ step'[v] = step[v] /\ shot'[v] = shot[v]
            <4>1. v # u
                BY <3>2, <3>6 DEF HasPhoto
            <4>2. QED
                BY <2>1, <2>5, <2>7, <3>2, <3>6, <4>1
                   DEF HasPhoto, Answered, Working
        <3>7. QED
            BY <2>1, <2>4, <3>5, <3>6
               DEF CapturesAreAwaited, PhotoIsOfItsStep, HasPhoto
    <2>9. ASSUME calls' = Served(i), reply' = Replied(i, answer),
                 UNCHANGED <<job, at>>
          PROVE  CapturesAreAwaited' /\ PhotoIsOfItsStep'
        <3>1. ASSUME NEW v \in Thread, v # t, HasPhoto(v)'
              PROVE  HasPhoto(v) /\ step'[v] = step[v] /\ shot'[v] = shot[v]
            BY <2>1, <2>5, <2>7, <2>9, <3>1 DEF HasPhoto, Answered, Working
        <3>2. QED
            BY <2>1, <2>3, <2>4, <2>9, <3>1
               DEF CapturesAreAwaited, PhotoIsOfItsStep, HasPhoto
    <2>10. QED
        BY <2>6, <2>8, <2>9
<1>3. CASE CaptureFails(i)
    <2>1. /\ calls[i].kind = "capture" /\ calls' = Served(i)
          /\ UNCHANGED <<job, at, step, shot>>
          /\ reply' = Replied(i, "refused") \/ reply' = Replied(i, "failed")
        BY <1>1, <1>3
           DEF CaptureFails, AnswerGoesOut, CameraServes
    <2>2. CapturesAreAwaited'
        BY <2>1, CaptureOver DEF CapturesAreAwaited
    <2>3. \A u \in Thread : reply'[u] = "ok" => reply[u] = "ok"
        BY <1>1, <2>1 DEF Replied
    <2>4. QED
        BY <2>1, <2>2, <2>3, ShotsStay DEF HasPhoto, Answered, Working
<1>4. CASE HandleCameraAbort(i)
    <2>1. /\ calls[i].kind = "abort" /\ calls' = Served(i)
          /\ UNCHANGED <<job, at, step, shot>>
          /\ \E answer : reply' = Replied(i, answer)
        BY <1>4 DEF HandleCameraAbort, AnswerGoesOut
    <2>2. calls[i].from # "controller"
        BY <1>1, CallAt, ThreadAssumption DEF Call, ThreadAssumption, Board
    <2>3. CapturesAreAwaited'
        BY <1>1, <2>1, <2>2, OtherCallOver DEF CapturesAreAwaited
    <2>4. ASSUME NEW u \in Thread, HasPhoto(u)'
          PROVE  u # calls[i].from
        <3>1. Working(u, "rotation", "camera")
            BY <2>1, <2>4 DEF HasPhoto, Answered, Working
        <3>2. QED
            BY <2>1, <3>1, PhotoIsACapture DEF Request
    <2>5. QED
        BY <1>1, <2>1, <2>3, <2>4, ShotsStay
           DEF Replied, HasPhoto, Answered, Working
<1>5. QED
    BY <1>2, <1>3, <1>4 DEF CameraServes

\* Whoever gives up first, it is neither a capture nor the controller that
\* waits for one, unless there is none.
LEMMA GivesUpFirst ==
    ASSUME ServerTypeOK, CallsInv, PostsInv, CapturesAreAwaited,
           NEW i \in DOMAIN calls,
           LongestStuck(i, Processing) \/ calls[i].kind = "lcd"
    PROVE  /\ calls[i].kind # "capture"
           /\ calls[i].from # "controller" \/ Absent(calls, Captures)
<1>1. CASE LongestStuck(i, Processing)
    <2>1. CASE Absent(calls, Captures)
        BY <2>1, CallAt DEF Absent, Captures
    <2>2. CASE ~Absent(calls, Captures)
        <3>1. PICK p \in DOMAIN calls : calls[p].kind = "capture"
            BY <2>2 DEF Absent, Captures
        <3>2. calls[i].from # "controller"
            BY <1>1, <3>1, CaptureDoesNotGiveUp
        <3>3. calls[i].kind # "capture"
            BY <1>1, CaptureDoesNotGiveUp
        <3>4. QED
            BY <3>2, <3>3
    <2>3. QED
        BY <2>1, <2>2
<1>2. CASE calls[i].kind = "lcd"
    <2>1. calls[i].from # "controller"
        BY <1>2, CallAt, ThreadAssumption
           DEF Call, ThreadAssumption, ServerRequest
    <2>2. QED
        BY <1>2, <2>1
<1>3. QED
    BY <1>1, <1>2

LEMMA GiveUpPhotos ==
    ASSUME ServerTypeOK, CallsInv, PostsInv, CapturesAreAwaited,
           PhotoIsOfItsStep, NEW caller \in Caller, GiveUp(caller),
           "slow" \notin Faults
    PROVE  CapturesAreAwaited' /\ PhotoIsOfItsStep'
<1>1. PICK i \in DOMAIN calls :
         /\ \/ calls' = Served(i)
            \/ /\ calls' = LeftBehind(i)
               /\ calls[i].kind \in BoardRequest \ {"lcd"}
         /\ reply' = Replied(i, "failed")
         /\ UNCHANGED <<job, at, step, shot>>
         /\ UNCHANGED controllerVars
         /\ LongestStuck(i, Processing) \/ calls[i].kind = "lcd"
    BY GiveUpEffect
<1>2. /\ calls[i].kind # "capture"
      /\ calls[i].from # "controller" \/ Absent(calls, Captures)
    BY <1>1, GivesUpFirst
<1>3. ASSUME calls' = Served(i)
      PROVE  CapturesAreAwaited'
    BY <1>1, <1>2, <1>3, OtherCallOver DEF CapturesAreAwaited, controllerVars
<1>4. ASSUME calls' = LeftBehind(i), calls[i].kind \in BoardRequest \ {"lcd"}
      PROVE  CapturesAreAwaited'
    BY <1>1, <1>2, <1>4, LeftBehindExposing
       DEF CapturesAreAwaited, controllerVars
<1>5. \A u \in Thread : reply'[u] = "ok" => reply[u] = "ok"
    BY <1>1 DEF Replied, ServerTypeOK
<1>6. PhotoIsOfItsStep'
    BY <1>1, <1>5, ShotsStay DEF HasPhoto, Answered, Working
<1>7. QED
    BY <1>1, <1>3, <1>4, <1>6

LEMMA StepKeepsPhotos ==
    ASSUME ScannerInv, CapturesAreAwaited, PhotoIsOfItsStep, [Next]_vars,
           "slow" \notin Faults, "single" \notin Commands
    PROVE  CapturesAreAwaited' /\ PhotoIsOfItsStep'
<1> USE DEF ScannerInv
<1>1. CASE ControllerMoves
    BY <1>1, ControllerMovesPhotos
<1>2. CASE CameraMoves
    BY <1>2, CameraMovesPhotos
<1>3. CASE ServerMoves
    BY <1>3, ThreadStepPhotos DEF ServerMoves, controllerVars
<1>4. CASE OperatorMoves
    BY <1>4, OperatorRequestPhotos DEF OperatorMoves, controllerVars
<1>5. CASE \E caller \in Caller : GiveUp(caller)
    BY <1>5, GiveUpPhotos
<1>6. CASE UNCHANGED vars
    BY <1>6, ShotsStay
       DEF vars, serverVars, controllerVars, CapturesAreAwaited, HasPhoto,
           Answered, Working
<1>7. QED
    BY <1>1, <1>2, <1>3, <1>4, <1>5, <1>6 DEF Next

LEMMA PhotosInvHolds ==
    ASSUME "slow" \notin Faults, "single" \notin Commands
    PROVE  Spec => [](ScannerInv /\ CapturesAreAwaited /\ PhotoIsOfItsStep)
<1>1. Init => CapturesAreAwaited /\ PhotoIsOfItsStep
    BY DEF Init, ServerInit, CapturesAreAwaited, Absent, PhotoIsOfItsStep,
           Answered
<1>2. ScannerInv /\ CapturesAreAwaited /\ PhotoIsOfItsStep /\ [Next]_vars =>
          CapturesAreAwaited' /\ PhotoIsOfItsStep'
    BY StepKeepsPhotos
<1>3. QED
    BY <1>1, <1>2, ScannerInvHolds, PTL DEF Spec

\* A photo is saved under the number of the exposure the table stood at when
\* it was taken (controller.ino:238-247, app.py:68-93), unless an answer is
\* slow of itself or an operator asks for single photos: then the controller
\* may give up first and move on while a photo is still to be taken.
THEOREM PhotosAreOfTheirSteps ==
    ASSUME "slow" \notin Faults, "single" \notin Commands
    PROVE  Spec => []PhotoIsOfItsStep
BY PhotosInvHolds, PTL

-----------------------------------------------------------------------------
(* A photo of every step.                                                  *)

\* The controller waits for thread t to get and save the photo of a step.
Expected(cs, t) == \E p \in DOMAIN cs : cs[p] = RotationPost(t)

\* That photo is still to come, or has come and is about to be saved; when
\* the controller waits no more, it is there.
PhotoIsToCome ==
    /\ \A t \in Thread :
           Expected(calls, t) => /\ at[t] = "camera"
                                 /\ step[t] = current_step + 1
                                 /\ reply[t] \in {"none", "ok"}
    /\ ctl = "rotation_post" => \/ \E t \in Thread : Expected(calls, t)
                                \/ current_step + 1 \in uploads

\* Every step the scan has behind it has been photographed.
StepsAreTaken ==
    /\ 1 .. current_step \subseteq uploads
    /\ \A t \in Thread :
           /\ job[t] = "complete" => 1 .. STEPS \subseteq uploads
           /\ at[t] = "process" => job[t] = "complete"

TakenInv == PhotoIsToCome /\ StepsAreTaken

LEMMA ExpectedRemove ==
    ASSUME NEW cs \in Seq(Call), NEW i \in DOMAIN cs, NEW t
    PROVE  /\ Expected(RemoveAt(cs, i), t) => Expected(cs, t)
           /\ Expected(cs, t) /\ cs[i] # RotationPost(t) =>
                  Expected(RemoveAt(cs, i), t)
BY RemoveAtKeepsOnly, RemoveKeepsOthers DEF Expected

LEMMA ExpectedAppend ==
    ASSUME NEW cs \in Seq(Call), NEW c \in Call, NEW t,
           c.from # "controller"
    PROVE  Expected(Append(cs, c), t) <=> Expected(cs, t)
BY AppendAt DEF Expected, RotationPost, Request

LEMMA NoPostNotExpected ==
    ASSUME NEW cs, NoPostFrom(cs, "controller")
    PROVE  \A t : ~Expected(cs, t)
BY DEF NoPostFrom, Expected, RotationPost, Request

LEMMA ExpectedJob ==
    ASSUME PostsInv, NEW t, Expected(calls, t)
    PROVE  job[t] = "rotation"
BY DEF PostsInv, Posted, Posts, Board, Expected, RotationPost, Request

\* A step by which no photo comes to be expected or ceases to be.
LEMMA SameExpected ==
    ASSUME TakenInv,
           \A t \in Thread : Expected(calls', t) <=> Expected(calls, t),
           \A t \in Thread : Expected(calls, t) =>
               /\ at'[t] = at[t] /\ step'[t] = step[t]
               /\ reply'[t] \in {"none", "ok"},
           \A t \in Thread : /\ job'[t] = "complete" => job[t] = "complete"
                             /\ at'[t] = "process" => job'[t] = "complete",
           uploads \subseteq uploads', UNCHANGED <<current_step, ctl>>
    PROVE  TakenInv'
<1>1. PhotoIsToCome'
    BY DEF TakenInv, PhotoIsToCome
<1>2. StepsAreTaken'
    BY DEF TakenInv, StepsAreTaken
<1>3. QED
    BY <1>1, <1>2 DEF TakenInv

LEMMA ThreadStepTaken ==
    ASSUME ServerTypeOK, PostsInv, TakenInv, NEW t \in Thread, ThreadStep(t),
           UNCHANGED <<current_step, ctl>>
    PROVE  TakenInv'
<1>1. /\ OthersStay(t)
      /\ \A u \in Thread : u # t => step'[u] = step[u]
      /\ uploads \subseteq uploads'
      /\ \/ calls' = calls
         \/ \E c \in Call : c.from = t /\ calls' = Append(calls, c)
         \/ \E i \in DOMAIN calls :
                calls[i].to = t /\ calls' = RemoveAt(calls, i)
      /\ job'[t] = job[t] \/ job'[t] \in {"undo", "none"}
      /\ at'[t] = "process" => job'[t] = "complete"
    BY ThreadStepEffect
<1>2. calls \in Seq(Call) /\ t # "controller"
    BY ThreadAssumption DEF ServerTypeOK, ThreadAssumption
<1>3. \A u : u # t => (Expected(calls', u) <=> Expected(calls, u))
    <2> SUFFICES ASSUME NEW u, u # t
                 PROVE  Expected(calls', u) <=> Expected(calls, u)
        OBVIOUS
    <2>1. \A i \in DOMAIN calls : calls[i].to = t => calls[i] # RotationPost(u)
        BY DEF RotationPost, Request
    <2>2. QED
        BY <1>1, <1>2, <2>1, ExpectedRemove, ExpectedAppend
<1>4. Expected(calls', t) => Expected(calls, t)
    BY <1>1, <1>2, ExpectedRemove, ExpectedAppend
<1>5. \A u \in Thread : /\ job'[u] = "complete" => job[u] = "complete"
                        /\ at'[u] = "process" => job'[u] = "complete"
    BY <1>1 DEF OthersStay, TakenInv, StepsAreTaken
<1>6. CASE ~Expected(calls, t)
    <2>1. \A u \in Thread : Expected(calls, u) =>
              /\ at'[u] = at[u] /\ step'[u] = step[u]
              /\ reply'[u] \in {"none", "ok"}
        BY <1>1, <1>6 DEF OthersStay, TakenInv, PhotoIsToCome
    <2>2. QED
        BY <1>1, <1>3, <1>4, <1>5, <1>6, <2>1, SameExpected
<1>7. CASE Expected(calls, t)
    <2>1. /\ job[t] = "rotation" /\ at[t] = "camera"
          /\ step[t] = current_step + 1 /\ reply[t] \in {"none", "ok"}
        BY <1>7, ExpectedJob DEF TakenInv, PhotoIsToCome
    <2>2. SavePhoto(t)
        BY <2>1
           DEF ThreadStep, OpenStatusFile, WriteStatusFile, StartController,
               ScanStarted, UndoStart, AbortCamera, BoardsAborted, DropPhoto,
               ShowCaptureFailed, ProcessPhotos, ShowProcessDone, Finish,
               Answered, Working
    <2>3. current_step + 1 \in uploads' /\ Return(t)
        BY <2>1, <2>2 DEF SavePhoto
    <2>4. ~Expected(calls', t)
        <3>1. PICK p \in DOMAIN calls : calls[p] = RotationPost(t)
            BY <1>7 DEF Expected
        <3>2. job'[t] = "none"
            BY <2>3, ReturnEffect
        <3>3. PostsInv'
            BY <2>3, ReturnPosted
        <3>4. QED
            BY <3>2, <3>3
               DEF PostsInv, Posted, Posts, Board, Expected, RotationPost,
                   Request
    <2>5. PhotoIsToCome'
        <3>1. \A u \in Thread : Expected(calls', u) =>
                  /\ at'[u] = "camera" /\ step'[u] = current_step + 1
                  /\ reply'[u] \in {"none", "ok"}
            BY <1>1, <1>3, <2>4 DEF OthersStay, TakenInv, PhotoIsToCome
        <3>2. QED
            BY <2>3, <3>1 DEF PhotoIsToCome
    <2>6. StepsAreTaken'
        BY <1>1, <1>5 DEF TakenInv, StepsAreTaken
    <2>7. QED
        BY <2>5, <2>6 DEF TakenInv
<1>8. QED
    BY <1>6, <1>7

LEMMA OperatorRequestTaken ==
    ASSUME ServerTypeOK, PostsInv, TakenInv, NEW t \in Thread,
           OperatorRequest(t), UNCHANGED <<current_step, ctl>>
    PROVE  TakenInv'
<1>1. /\ UNCHANGED <<step, uploads>> /\ job[t] = "none"
      /\ \E j \in {"start", "abort", "motor", "single"},
            place \in {"open", "controller", "camera"} :
             /\ place = "controller" => j \in {"start", "abort", "motor"}
             /\ Continue(t, j, place)
    BY DEF OperatorRequest, StartScan, AbortScan, ControlMotor, CaptureSingle,
           Asked, Idle
<1>2. PICK j \in {"start", "abort", "motor", "single"},
           place \in {"open", "controller", "camera"} :
          /\ place = "controller" => j \in {"start", "abort", "motor"}
          /\ Continue(t, j, place)
    BY <1>1
<1>3. /\ \/ calls' = calls
         \/ /\ place \in Calling
            /\ Outgoing(t, j, place) \in Call
            /\ calls' = Append(calls, Outgoing(t, j, place))
      /\ job'[t] = j /\ at'[t] = place
      /\ OthersStay(t)
    BY <1>2, ContinueEffect DEF Job, OperatorJob, Place
<1>4. \A u : Expected(calls', u) <=> Expected(calls, u)
    <2>1. place \in Calling => Outgoing(t, j, place).from # "controller"
        BY OutgoingIsFrom, ThreadAssumption DEF ThreadAssumption
    <2>2. QED
        BY <1>3, <2>1, ExpectedAppend DEF ServerTypeOK
<1>5. \A u \in Thread : Expected(calls, u) =>
          /\ at'[u] = at[u] /\ step'[u] = step[u]
          /\ reply'[u] \in {"none", "ok"}
    BY <1>1, <1>3, ExpectedJob DEF OthersStay, TakenInv, PhotoIsToCome
<1>6. \A u \in Thread : /\ job'[u] = "complete" => job[u] = "complete"
                        /\ at'[u] = "process" => job'[u] = "complete"
    BY <1>2, <1>3 DEF OthersStay, TakenInv, StepsAreTaken
<1>7. QED
    BY <1>1, <1>4, <1>5, <1>6, SameExpected

\* The controller goes on to a step, and to the end, when it waits no more.
LEMMA ControllerMovesTaken ==
    ASSUME ControllerInv, ServerTypeOK, PostsInv, TakenInv, ControllerMoves,
           "refused" \notin Faults
    PROVE  TakenInv'
<1>1. /\ calls \in Seq(Call) /\ reply \in [Thread -> Reply]
      /\ current_step \in 0 .. STEPS - 1 /\ STEPS \in Nat
    BY StepsAssumption
       DEF ServerTypeOK, ControllerInv, ControllerTypeOK, StepsAssumption
<1>2. NoPostFrom(calls, "controller")
    BY NotPosting
       DEF ControllerMoves, ControllerServes, HandleUnchanged,
           HandleStartRotation, RefuseStartRotation, HandleAbort,
           HandleMotorControl, ControllerPolls, PollNothing, ControllerStep,
           ScanStep, ControllerNextStep, ControllerLastStep, ControllerDone
<1>3. /\ \A t : ~Expected(calls, t)
      /\ ctl = "rotation_post" => current_step + 1 \in uploads
    BY <1>2, NoPostNotExpected DEF TakenInv, PhotoIsToCome
<1>4. ASSUME NEW i \in DOMAIN calls, ControllerServes(i)
      PROVE  TakenInv'
    <2>1. /\ calls' = RemoveAt(calls, i)
          /\ UNCHANGED <<job, at, uploads>>
          /\ current_step' \in {current_step, 0}
          /\ ctl' # "rotation_post"
        BY <1>4
           DEF ControllerServes, AnswerGoesOut, Served, HandleUnchanged,
               HandleStartRotation, RefuseStartRotation, HandleAbort,
               HandleMotorControl, RestOfLoop
    <2>2. PhotoIsToCome'
        BY <1>1, <1>3, <2>1, ExpectedRemove DEF PhotoIsToCome
    <2>3. StepsAreTaken'
        BY <2>1 DEF TakenInv, StepsAreTaken
    <2>4. QED
        BY <2>2, <2>3 DEF TakenInv
<1>5. CASE ControllerPolls \/ ControllerDone
    <2>1. /\ UNCHANGED serverVars /\ UNCHANGED current_step
          /\ ctl' # "rotation_post"
        BY <1>5
           DEF ControllerPolls, PollNothing, ControllerDone, CompletePosted
    <2>2. QED
        BY <1>3, <2>1
           DEF serverVars, TakenInv, PhotoIsToCome, StepsAreTaken
<1>6. CASE ControllerNextStep
    <2>1. /\ UNCHANGED serverVars /\ current_step' = current_step + 1
          /\ ctl = "rotation_post" /\ ctl' = "serve"
        BY <1>6 DEF ControllerNextStep, NextStep
    <2>2. 1 .. current_step' \subseteq uploads'
        BY <1>1, <1>3, <2>1 DEF serverVars, TakenInv, StepsAreTaken
    <2>3. QED
        BY <1>3, <2>1, <2>2
           DEF serverVars, TakenInv, PhotoIsToCome, StepsAreTaken
<1>7. CASE ControllerStep
    <2>1. PICK t \in Thread :
             /\ Receive(t, "controller", "rotation", "camera", calls, reply)
             /\ step' = [step EXCEPT ![t] = current_step + 1]
        BY <1>7 DEF ControllerStep
    <2>2. UNCHANGED <<current_step, uploads>>
        BY <1>7, <2>1 DEF ControllerStep, ScanStep, Receive
    <2> DEFINE post == RotationPost(t)
               queued == Append(calls, post)
               capture == Outgoing(t, "rotation", "camera")
    <2>3. /\ post \in Call /\ queued \in Seq(Call)
          /\ capture \in Call /\ calls' = Append(queued, capture)
          /\ job'[t] = "rotation" /\ at'[t] = "camera"
          /\ reply'[t] = "none"
          /\ \A u \in Thread : u # t => job'[u] = job[u] /\ at'[u] = at[u]
        <3>1. capture \in Call
            BY OutgoingIsACall DEF Calling
        <3>2. post \in Call
            BY RequestIsACall DEF Board, ServerRequest, RotationPost
        <3>3. queued \in Seq(Call)
            BY <1>1, <3>2, AppendProperties
        <3>4. GoTo(t, "rotation", "camera", queued, reply)
            BY <2>1 DEF Receive, RotationPost
        <3>5. ~AsksIfAlive("rotation", "camera")
            BY DEF AsksIfAlive
        <3> HIDE DEF post, queued, capture
        <3>6. calls' = Append(queued, capture) /\ reply'[t] = "none"
            BY <1>1, <3>4, <3>5 DEF GoTo, Calling, capture
        <3>7. QED
            BY <3>1, <3>2, <3>3, <3>4, <3>6 DEF GoTo, ServerTypeOK
    <2>4. Expected(calls', t) /\ \A u : u # t => ~Expected(calls', u)
        <3>1. capture.from # "controller"
            BY OutgoingIsFrom, ThreadAssumption
               DEF ThreadAssumption, Calling
        <3>2. \A u : Expected(calls', u) <=> Expected(queued, u)
            BY <2>3, <3>1, ExpectedAppend
        <3>3. \A u : u # t => RotationPost(u) # post
            BY DEF RotationPost, Request
        <3> HIDE DEF post
        <3>4. Expected(queued, t) /\ \A u : u # t => ~Expected(queued, u)
            BY <1>1, <1>3, <2>3, <3>3, AppendAt DEF Expected, post
        <3>5. QED
            BY <3>2, <3>4
    <2>5. step'[t] = current_step + 1
        BY <2>1 DEF ServerTypeOK
    <2>6. PhotoIsToCome'
        BY <2>2, <2>3, <2>4, <2>5 DEF PhotoIsToCome
    <2>7. StepsAreTaken'
        BY <2>2, <2>3 DEF TakenInv, StepsAreTaken
    <2>8. QED
        BY <2>6, <2>7 DEF TakenInv
<1>8. CASE ControllerLastStep
    <2>1. PICK t \in Thread :
             Receive(t, "controller", "complete", "open", calls, reply)
        BY <1>8 DEF ControllerLastStep
    <2>2. /\ ctl = "rotation_post" /\ current_step + 1 >= STEPS
          /\ current_step' = 0 /\ ctl' = "complete_post"
          /\ UNCHANGED uploads
        BY <1>8, <2>1 DEF ControllerLastStep, LastStep, Receive
    <2>3. 1 .. STEPS \subseteq uploads
        BY <1>1, <1>3, <2>2 DEF TakenInv, StepsAreTaken
    <2> DEFINE post == Request("controller", t, "complete")
    <2>4. /\ post \in Call /\ calls' = Append(calls, post)
          /\ at'[t] = "open"
          /\ \A u \in Thread : u # t => job'[u] = job[u] /\ at'[u] = at[u]
        <3>1. /\ "controller" \in Board /\ "complete" \in ServerRequest
              /\ "open" \in Place /\ "open" \notin Calling
            BY DEF Board, ServerRequest, Place, Calling
        <3>2. QED
            BY <1>1, <2>1, <3>1, ReceiveEffect
    <2>5. \A u : RotationPost(u) # post
        BY DEF RotationPost, Request
    <2> HIDE DEF post
    <2>6. \A u : ~Expected(calls', u)
        BY <1>1, <1>3, <2>4, <2>5, AppendAt DEF Expected
    <2>7. PhotoIsToCome'
        BY <2>2, <2>6 DEF PhotoIsToCome
    <2>8. StepsAreTaken'
        BY <2>2, <2>3, <2>4 DEF TakenInv, StepsAreTaken
    <2>9. QED
        BY <2>7, <2>8 DEF TakenInv
<1>9. QED
    BY <1>4, <1>5, <1>6, <1>7, <1>8 DEF ControllerMoves

\* A capture yields a photo, and nobody expects one of the camera's own post.
LEMMA CameraMovesTaken ==
    ASSUME ServerTypeOK, PostsInv, TakenInv, CameraMoves,
           Faults \cap {"slow", "refused", "camera"} = {}
    PROVE  TakenInv'
<1> SUFFICES ASSUME NEW i \in DOMAIN calls, CameraServes(i)
             PROVE  TakenInv'
    BY DEF CameraMoves
<1>1. /\ calls \in Seq(Call) /\ Served(i) \in Seq(Call)
      /\ Replied(i, "ok") \in [Thread -> Reply]
      /\ UNCHANGED <<current_step, ctl>>
    BY AnsweredTypes DEF ServerTypeOK, Reply, CameraServes, controllerVars
<1>2. \A t : calls[i] # RotationPost(t)
    BY ThreadAssumption
       DEF CameraServes, HandleCapture, CaptureFails, HandleCameraAbort,
           RotationPost, Request
<1>3. \A t : Expected(Served(i), t) <=> Expected(calls, t)
    BY <1>1, <1>2, ExpectedRemove DEF Served
<1>4. \A t \in Thread : Replied(i, "ok")[t] \in {reply[t], "ok"}
    BY DEF Replied, ServerTypeOK
<1>5. \/ /\ calls' = Served(i) /\ reply' = Replied(i, "ok")
         /\ UNCHANGED <<job, at, step, uploads>>
      \/ \E u \in Thread :
             /\ Receive(u, "camera", "captured", "lcd",
                        Served(i), Replied(i, "ok"))
             /\ UNCHANGED step
    BY DEF CameraServes, HandleCapture, CaptureFails, HandleCameraAbort,
           AnswerGoesOut
<1>6. ASSUME calls' = Served(i), reply' = Replied(i, "ok"),
             UNCHANGED <<job, at, step, uploads>>
      PROVE  TakenInv'
    <2>1. \A t \in Thread : Expected(calls, t) =>
              /\ at'[t] = at[t] /\ step'[t] = step[t]
              /\ reply'[t] \in {"none", "ok"}
        BY <1>4, <1>6 DEF TakenInv, PhotoIsToCome
    <2>2. \A t \in Thread : /\ job'[t] = "complete" => job[t] = "complete"
                            /\ at'[t] = "process" => job'[t] = "complete"
        BY <1>6 DEF TakenInv, StepsAreTaken
    <2>3. QED
        BY <1>1, <1>3, <1>6, <2>1, <2>2, SameExpected
<1>7. ASSUME NEW u \in Thread, UNCHANGED step,
             Receive(u, "camera", "captured", "lcd",
                     Served(i), Replied(i, "ok"))
      PROVE  TakenInv'
    <2> DEFINE post == Request("camera", u, "captured")
               queued == Append(Served(i), post)
               lcd == Outgoing(u, "captured", "lcd")
    <2>1. /\ "camera" \in Board /\ "captured" \in ServerRequest
          /\ "lcd" \in Place
        BY DEF Board, ServerRequest, Place
    <2>2. /\ post \in Call /\ queued \in Seq(Call)
          /\ calls' = queued \/ (lcd \in Call /\ calls' = Append(queued, lcd))
          /\ Idle(u) /\ job'[u] = "captured" /\ at'[u] = "lcd"
          /\ \A v \in Thread : v # u => /\ job'[v] = job[v]
                                        /\ at'[v] = at[v]
                                        /\ reply'[v] = Replied(i, "ok")[v]
        BY <1>1, <1>7, <2>1, ReceiveEffect
    <2>3. post.from # "controller" /\ lcd.from # "controller"
        BY OutgoingIsFrom, ThreadAssumption
           DEF ThreadAssumption, Request, Calling
    <2> HIDE DEF post, lcd
    <2>4. \A t : Expected(queued, t) <=> Expected(calls, t)
        BY <1>1, <1>3, <2>2, <2>3, ExpectedAppend
    <2> HIDE DEF queued
    <2>5. \A t : Expected(calls', t) <=> Expected(calls, t)
        <3>1. CASE calls' = queued
            BY <2>4, <3>1
        <3>2. CASE lcd \in Call /\ calls' = Append(queued, lcd)
            <4>1. \A t : Expected(Append(queued, lcd), t) <=>
                             Expected(queued, t)
                BY <2>2, <2>3, <3>2, ExpectedAppend
            <4>2. QED
                BY <2>4, <3>2, <4>1
        <3>3. QED
            BY <2>2, <3>1, <3>2
    <2>6. \A t \in Thread : Expected(calls, t) =>
              /\ at'[t] = at[t] /\ step'[t] = step[t]
              /\ reply'[t] \in {"none", "ok"}
        BY <1>4, <1>7, <2>2, ExpectedJob DEF Idle, TakenInv, PhotoIsToCome
    <2>7. \A t \in Thread : /\ job'[t] = "complete" => job[t] = "complete"
                            /\ at'[t] = "process" => job'[t] = "complete"
        BY <2>2 DEF TakenInv, StepsAreTaken
    <2>8. uploads' = uploads
        BY <1>7 DEF Receive
    <2>9. QED
        BY <1>1, <2>5, <2>6, <2>7, <2>8, SameExpected
<1>8. QED
    BY <1>5, <1>6, <1>7

\* Who gives up first is nobody the photo depends on: neither the thread that
\* waits for it nor the controller, which waits for the thread.
LEMMA GiveUpTaken ==
    ASSUME ServerTypeOK, CallsInv, PostsInv, CapturesAreAwaited, TakenInv,
           NEW caller \in Caller, GiveUp(caller), "slow" \notin Faults
    PROVE  TakenInv'
<1>1. PICK i \in DOMAIN calls :
         /\ \/ calls' = Served(i)
            \/ /\ calls' = LeftBehind(i)
               /\ calls[i].kind \in BoardRequest \ {"lcd"}
         /\ reply' = Replied(i, "failed")
         /\ UNCHANGED <<status, job, at, step, shot, errors, uploads>>
         /\ UNCHANGED controllerVars
         /\ LongestStuck(i, Processing) \/ calls[i].kind = "lcd"
    BY GiveUpEffect
<1>2. calls \in Seq(Call)
    BY DEF ServerTypeOK
<1>3. /\ calls[i].kind # "capture"
      /\ calls[i].from # "controller" \/ Absent(calls, Captures)
    BY <1>1, GivesUpFirst
<1>4. ASSUME NEW t \in Thread, Expected(calls, t)
      PROVE  Working(t, "rotation", "camera") /\ calls[i].from # t
    <2>1. Working(t, "rotation", "camera")
        BY <1>4, ExpectedJob DEF TakenInv, PhotoIsToCome, Working
    <2>2. QED
        BY <1>3, <2>1, PhotoIsACapture DEF Request
<1>5. ASSUME NEW t \in Thread, calls[i] = RotationPost(t)
      PROVE  FALSE
    <2>1. Expected(calls, t)
        BY <1>5 DEF Expected
    <2>2. Working(t, "rotation", "camera")
        BY <1>4, <2>1
    <2>3. /\ calls[i].from = "controller" /\ calls[i].to = t
          /\ calls[i].kind # "lcd"
        BY <1>5 DEF RotationPost, Request
    <2>4. PICK S \in SUBSET DOMAIN calls :
             /\ i \in S
             /\ \A j \in S : \/ calls[j].to \in Processing
                             \/ \E k \in S : calls[k].from = calls[j].to
        BY <1>1, <2>3 DEF LongestStuck, Stuck
    <2>5. t \notin Processing
        BY <2>2 DEF Processing, Working
    <2>6. PICK k \in DOMAIN calls : calls[k].from = t
        BY <2>3, <2>4, <2>5
    <2>7. calls[k].kind = "capture"
        BY <2>2, <2>6, PhotoIsACapture DEF Request
    <2>8. ~Absent(calls, Captures)
        BY <2>7, CallAt DEF Absent, Captures
    <2>9. QED
        BY <1>3, <2>3, <2>8
<1>6. \A t \in Thread : Expected(calls', t) <=> Expected(calls, t)
    <2>1. CASE calls' = Served(i)
        BY <1>2, <1>5, <2>1, ExpectedRemove DEF Served
    <2>2. CASE /\ calls' = LeftBehind(i)
               /\ calls[i].kind \in BoardRequest \ {"lcd"}
        <3>1. /\ DOMAIN calls' = DOMAIN calls
              /\ \A p \in DOMAIN calls : p # i => calls'[p] = calls[p]
              /\ calls'[i].from = "gone"
            BY <2>2, LeftBehindEffect
        <3>2. QED
            BY <1>5, <3>1 DEF Expected, RotationPost, Request
    <2>3. QED
        BY <1>1, <2>1, <2>2
<1>7. \A t \in Thread : Expected(calls, t) =>
          /\ at'[t] = at[t] /\ step'[t] = step[t]
          /\ reply'[t] \in {"none", "ok"}
    BY <1>1, <1>4 DEF Replied, ServerTypeOK, TakenInv, PhotoIsToCome
<1>8. \A t \in Thread : /\ job'[t] = "complete" => job[t] = "complete"
                        /\ at'[t] = "process" => job'[t] = "complete"
    BY <1>1 DEF TakenInv, StepsAreTaken
<1>9. QED
    BY <1>1, <1>6, <1>7, <1>8, SameExpected DEF controllerVars

\* When photogrammetry-tool is run the photo of every step is in UPLOAD_FOLDER
\* (scan_manager.py:80-86): loop() waits for the answer to each
\* rotation_complete (controller.ino:245-254), and the server saves the photo
\* before it answers (app.py:88-94).  It takes that no answer is slow of
\* itself, no request of a board is turned down, no capture fails, and no
\* operator asks for single photos.
THEOREM EveryStepIsPhotographed ==
    ASSUME Faults \cap {"slow", "refused", "camera"} = {},
           "single" \notin Commands
    PROVE  Spec => []AllPhotosAreThere
<1>1. Init => TakenInv
    <2>1. 1 .. 0 = {}
        OBVIOUS
    <2>2. QED
        BY <2>1
           DEF Init, ServerInit, ControllerInit, TakenInv, PhotoIsToCome,
               StepsAreTaken, Expected
<1>2. ScannerInv /\ CapturesAreAwaited /\ TakenInv /\ [Next]_vars => TakenInv'
    <2> SUFFICES ASSUME ScannerInv, CapturesAreAwaited, TakenInv, [Next]_vars
                 PROVE  TakenInv'
        OBVIOUS
    <2> USE DEF ScannerInv
    <2>1. CASE ControllerMoves
        BY <2>1, ControllerMovesTaken
    <2>2. CASE CameraMoves
        BY <2>2, CameraMovesTaken
    <2>3. CASE ServerMoves
        BY <2>3, ThreadStepTaken DEF ServerMoves, controllerVars
    <2>4. CASE OperatorMoves
        BY <2>4, OperatorRequestTaken DEF OperatorMoves, controllerVars
    <2>5. CASE \E caller \in Caller : GiveUp(caller)
        BY <2>5, GiveUpTaken
    <2>6. CASE UNCHANGED vars
        BY <2>6
           DEF vars, serverVars, controllerVars, TakenInv, PhotoIsToCome,
               StepsAreTaken
    <2>7. QED
        BY <2>1, <2>2, <2>3, <2>4, <2>5, <2>6 DEF Next
<1>3. TakenInv => AllPhotosAreThere
    BY DEF TakenInv, StepsAreTaken, AllPhotosAreThere, Processing
<1>4. Spec => [](ScannerInv /\ CapturesAreAwaited /\ PhotoIsOfItsStep)
    BY PhotosInvHolds
<1>5. QED
    BY <1>1, <1>2, <1>3, <1>4, PTL DEF Spec
=============================================================================
