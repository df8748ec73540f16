-------------------------- MODULE ScanStatus_proof -------------------------
(***************************************************************************)
(* The status file and the controller, for any number of threads,          *)
(* exposures and left-behind requests.                                     *)
(*                                                                         *)
(* ScanningIsOwned: with every fault except "refused", as a server that    *)
(* turns scan_complete down is never told that the scan is over.           *)
(* ReportedAbortStops: with one operator at a time, and boards that count  *)
(* as alive and turn nothing down.                                         *)
(* ScanningIsShown: without aborts, slow answers and threads preempted     *)
(* while they write the file.                                              *)
(*                                                                         *)
(* Each rests on the order of the requests in the controller's queue: what *)
(* an abort left behind meets, and what comes before a start.              *)
(***************************************************************************)
EXTENDS ScanSystem_proof, FiniteSetTheorems

-----------------------------------------------------------------------------
(* The invariant.                                                          *)

\* An abort whose caller has given up will still stop the scan, unless the
\* controller is told to start after it.
LateAbort(c) == c.from = "gone" /\ c.to = "controller" /\ c.kind = "abort"
StartCall(c) == c.from \in Thread /\ c.to = "controller" /\ c.kind = "start"

NoLateAbort(cs) == \A p \in DOMAIN cs : ~LateAbort(cs[p])
StartComesLast(cs) ==
    \E q \in DOMAIN cs :
        /\ StartCall(cs[q])
        /\ \A p \in DOMAIN cs : LateAbort(cs[p]) => p < q

\* The controller will be scanning when it has served what is queued there.
WillScan(scanning, cs) ==
    \/ scanning /\ NoLateAbort(cs)
    \/ StartComesLast(cs)

\* A thread that will see to the status by itself.
Settles(t) == WillWriteIdle(t) \/ Working(t, "start", "lcd")

\* The status "scanning" is a thread's to settle, or it is right.
OwnedInv ==
    status = "scanning" =>
        \/ \E t \in Thread : Settles(t)
        \/ WillScan(is_scanning, calls)

-----------------------------------------------------------------------------
(* What becomes of the late aborts and the starts when calls come and go.  *)

LEMMA RemoveNoLateAbort ==
    ASSUME NEW cs \in Seq(Call), NEW i \in DOMAIN cs, NoLateAbort(cs)
    PROVE  NoLateAbort(RemoveAt(cs, i))
<1> SUFFICES ASSUME NEW p \in DOMAIN RemoveAt(cs, i)
             PROVE  ~LateAbort(RemoveAt(cs, i)[p])
    BY DEF NoLateAbort
<1>1. \E k \in DOMAIN cs : RemoveAt(cs, i)[p] = cs[k]
    BY RemoveAtKeepsOnly
<1>2. QED
    BY <1>1 DEF NoLateAbort

LEMMA RemoveStartComesLast ==
    ASSUME NEW cs \in Seq(Call), NEW i \in DOMAIN cs, StartComesLast(cs),
           ~StartCall(cs[i])
    PROVE  StartComesLast(RemoveAt(cs, i))
<1>1. PICK q \in DOMAIN cs :
         /\ StartCall(cs[q])
         /\ \A p \in DOMAIN cs : LateAbort(cs[p]) => p < q
    BY DEF StartComesLast
<1>2. q # i
    BY <1>1
<1>3. PICK r \in DOMAIN RemoveAt(cs, i) :
         /\ RemoveAt(cs, i)[r] = cs[q]
         /\ q < i => r = q
         /\ q > i => r = q - 1
    BY <1>2, RemoveAtDestination
<1>4. ASSUME NEW p \in DOMAIN RemoveAt(cs, i), LateAbort(RemoveAt(cs, i)[p])
      PROVE  p < r
    <2>1. /\ p < i => p \in DOMAIN cs /\ RemoveAt(cs, i)[p] = cs[p]
          /\ p >= i => p + 1 \in DOMAIN cs /\ RemoveAt(cs, i)[p] = cs[p + 1]
          /\ p \in Nat /\ i \in Nat /\ q \in Nat
        BY <1>2, RemoveAtOrigin, RemoveAtDestination
    <2>2. (p < i => p < q) /\ (p >= i => p + 1 < q)
        BY <1>1, <1>4, <2>1
    <2>3. QED
        BY <1>2, <1>3, <2>1, <2>2
<1>5. QED
    BY <1>1, <1>3, <1>4 DEF StartComesLast

LEMMA AppendNoLateAbort ==
    ASSUME NEW cs \in Seq(Call), NEW c \in Call, ~LateAbort(c),
           NoLateAbort(cs)
    PROVE  NoLateAbort(Append(cs, c))
BY AppendProperties, LenProperties DEF NoLateAbort

LEMMA AppendStartComesLast ==
    ASSUME NEW cs \in Seq(Call), NEW c \in Call, ~LateAbort(c),
           StartComesLast(cs)
    PROVE  StartComesLast(Append(cs, c))
<1>1. PICK q \in DOMAIN cs :
         /\ StartCall(cs[q])
         /\ \A p \in DOMAIN cs : LateAbort(cs[p]) => p < q
    BY DEF StartComesLast
<1>2. /\ DOMAIN cs = 1 .. Len(cs) /\ Len(cs) \in Nat
      /\ DOMAIN Append(cs, c) = 1 .. Len(cs) + 1
      /\ \A p \in 1 .. Len(cs) : Append(cs, c)[p] = cs[p]
      /\ Append(cs, c)[Len(cs) + 1] = c
    BY AppendProperties, LenProperties
<1>3. ASSUME NEW p \in DOMAIN Append(cs, c), LateAbort(Append(cs, c)[p])
      PROVE  p < q
    <2>1. p # Len(cs) + 1
        BY <1>2, <1>3
    <2>2. p \in DOMAIN cs /\ Append(cs, c)[p] = cs[p]
        BY <1>2, <2>1
    <2>3. QED
        BY <1>1, <1>3, <2>2
<1>4. q \in DOMAIN Append(cs, c) /\ StartCall(Append(cs, c)[q])
    BY <1>1, <1>2
<1>5. QED
    BY <1>3, <1>4 DEF StartComesLast

\* A start that is sent now comes after every abort.
LEMMA AppendStart ==
    ASSUME NEW cs \in Seq(Call), NEW c \in Call, StartCall(c)
    PROVE  StartComesLast(Append(cs, c))
<1>1. /\ Len(cs) \in Nat
      /\ DOMAIN Append(cs, c) = 1 .. Len(cs) + 1
      /\ Append(cs, c)[Len(cs) + 1] = c
    BY AppendProperties, LenProperties
<1>2. ~LateAbort(c)
    BY ThreadAssumption DEF ThreadAssumption, StartCall, LateAbort
<1>3. ASSUME NEW p \in DOMAIN Append(cs, c), LateAbort(Append(cs, c)[p])
      PROVE  p < Len(cs) + 1
    BY <1>1, <1>2, <1>3
<1>4. Len(cs) + 1 \in DOMAIN Append(cs, c)
    BY <1>1
<1>5. QED
    BY <1>1, <1>3, <1>4 DEF StartComesLast

\* When the controller comes to a start, the aborts queued before it are done.
LEMMA StartServed ==
    ASSUME calls \in Seq(Call), NEW i, NextFor("controller", i),
           StartCall(calls[i]),
           NoLateAbort(calls) \/ StartComesLast(calls)
    PROVE  NoLateAbort(Served(i)) \/ StartComesLast(Served(i))
<1>1. i \in DOMAIN calls
    BY DEF NextFor
<1>2. CASE NoLateAbort(calls)
    BY <1>1, <1>2, RemoveNoLateAbort DEF Served
<1>3. CASE ~NoLateAbort(calls)
    <2>1. PICK p \in DOMAIN calls : LateAbort(calls[p])
        BY <1>3 DEF NoLateAbort
    <2>2. PICK q \in DOMAIN calls :
             /\ StartCall(calls[q])
             /\ \A r \in DOMAIN calls : LateAbort(calls[r]) => r < q
        BY <1>2, <1>3 DEF StartComesLast
    <2>3. i <= p /\ p < q
        BY <2>1, <2>2 DEF NextFor, LateAbort
    <2>4. i \in Nat /\ p \in Nat /\ q \in Nat
        BY <1>1, LenProperties
    <2>5. i # q
        BY <2>3, <2>4
    <2>6. PICK r \in DOMAIN RemoveAt(calls, i) :
             RemoveAt(calls, i)[r] = calls[q] /\ r = q - 1
        BY <1>1, <2>3, <2>4, <2>5, RemoveAtDestination
    <2>7. ASSUME NEW k \in DOMAIN RemoveAt(calls, i),
                 LateAbort(RemoveAt(calls, i)[k])
          PROVE  k < r
        <3>1. /\ k < i => k \in DOMAIN calls /\ RemoveAt(calls, i)[k] = calls[k]
              /\ k >= i => /\ k + 1 \in DOMAIN calls
                           /\ RemoveAt(calls, i)[k] = calls[k + 1]
              /\ k \in Nat
            BY <1>1, RemoveAtOrigin
        <3>2. CASE k < i
            BY <2>4, <2>7, <3>1, <3>2 DEF NextFor, LateAbort
        <3>3. CASE k >= i
            BY <2>2, <2>4, <2>6, <2>7, <3>1, <3>3
        <3>4. QED
            BY <2>4, <3>1, <3>2, <3>3
    <2>8. QED
        BY <2>2, <2>6, <2>7 DEF StartComesLast, Served
<1>4. QED
    BY <1>2, <1>3

\* A call that is left behind and is neither a start nor an abort of the
\* controller makes no difference.
LEMMA LeftBehindKeeps ==
    ASSUME calls \in Seq(Call), NEW i \in DOMAIN calls, ~StartCall(calls[i]),
           ~(calls[i].to = "controller" /\ calls[i].kind = "abort")
    PROVE  /\ NoLateAbort(calls) => NoLateAbort(LeftBehind(i))
           /\ StartComesLast(calls) => StartComesLast(LeftBehind(i))
<1>1. /\ DOMAIN LeftBehind(i) = DOMAIN calls
      /\ \A p \in DOMAIN calls : p # i => LeftBehind(i)[p] = calls[p]
      /\ LeftBehind(i)[i] = [calls[i] EXCEPT !.from = "gone"]
    BY DEF LeftBehind
<1>2. calls[i] \in Call
    BY ElementOfSeq, LenProperties
<1>3. ~LateAbort(LeftBehind(i)[i])
    BY <1>1, <1>2 DEF LateAbort, Call
<1>4. \A p \in DOMAIN calls :
          /\ LateAbort(LeftBehind(i)[p]) => LateAbort(calls[p])
          /\ StartCall(calls[p]) => StartCall(LeftBehind(i)[p])
    BY <1>1, <1>3
<1>5. QED
    BY <1>1, <1>4 DEF NoLateAbort, StartComesLast

-----------------------------------------------------------------------------
(* OwnedInv is inductive.                                                  *)

\* What thread t does while it has nothing to settle leaves the status to
\* whom it was left to before.
LEMMA OthersSettle ==
    ASSUME OwnedInv, NEW t, t \in Thread => ~Settles(t),
           UNCHANGED status,
           \A u \in Thread : u # t => /\ job'[u] = job[u]
                                      /\ at'[u] = at[u]
                                      /\ reply'[u] = reply[u],
           WillScan(is_scanning, calls) => WillScan(is_scanning', calls')
    PROVE  OwnedInv'
<1>1. \A u \in Thread : Settles(u) => Settles(u)'
    BY DEF Settles, WillWriteIdle, Working
<1>2. QED
    BY <1>1 DEF OwnedInv, WillScan

LEMMA GoToQueues ==
    ASSUME NEW t \in Thread, NEW j \in Job \ {"none"}, NEW place \in Place,
           place = "controller" => j \in {"start", "abort", "motor"},
           NEW before \in Seq(Call), NEW answers,
           GoTo(t, j, place, before, answers),
           NEW scanning, WillScan(scanning, before)
    PROVE  WillScan(scanning, calls')
<1>1. CASE calls' = before
    BY <1>1
<1>2. CASE calls' = Append(before, Outgoing(t, j, place)) /\ place \in Calling
    <2>1. Outgoing(t, j, place) \in Call
        BY <1>2, OutgoingIsACall
    <2>2. ~LateAbort(Outgoing(t, j, place))
        BY <1>2, OutgoingIsFrom, ThreadAssumption
           DEF LateAbort, ThreadAssumption
    <2>3. QED
        BY <1>2, <2>1, <2>2, AppendNoLateAbort, AppendStartComesLast
           DEF WillScan
<1>3. QED
    BY <1>1, <1>2 DEF GoTo

LEMMA RemoveWillScan ==
    ASSUME NEW cs \in Seq(Call), NEW i \in DOMAIN cs, ~StartCall(cs[i]),
           NEW scanning, WillScan(scanning, cs)
    PROVE  WillScan(scanning, RemoveAt(cs, i))
BY RemoveNoLateAbort, RemoveStartComesLast DEF WillScan

LEMMA ContinueKeepsOwned ==
    ASSUME ServerTypeOK, OwnedInv,
           NEW t \in Thread, NEW j \in Job \ {"none"}, NEW place \in Place,
           place = "controller" => j \in {"start", "abort", "motor"},
           Continue(t, j, place), ~Settles(t),
           UNCHANGED <<status, is_scanning>>
    PROVE  OwnedInv'
<1>1. WillScan(is_scanning, calls) => WillScan(is_scanning', calls')
    BY GoToQueues DEF Continue, ServerTypeOK
<1>2. \A u \in Thread : u # t => /\ job'[u] = job[u]
                                 /\ at'[u] = at[u]
                                 /\ reply'[u] = reply[u]
    BY DEF Continue, GoTo, ServerTypeOK
<1>3. QED
    BY <1>1, <1>2, OthersSettle

LEMMA ReturnKeepsOwned ==
    ASSUME ServerTypeOK, OwnedInv, NEW t \in Thread, Return(t), ~Settles(t),
           UNCHANGED <<status, is_scanning>>
    PROVE  OwnedInv'
<1>1. \/ calls' = calls
      \/ \E i \in DOMAIN calls : calls[i].to = t /\ calls' = RemoveAt(calls, i)
    BY DEF Return, Closed
<1>2. \A i \in DOMAIN calls : calls[i].to = t => ~StartCall(calls[i])
    BY ThreadAssumption DEF ThreadAssumption, StartCall
<1>3. WillScan(is_scanning, calls) => WillScan(is_scanning', calls')
    BY <1>1, <1>2, RemoveWillScan DEF ServerTypeOK
<1>4. \A u \in Thread : u # t => /\ job'[u] = job[u]
                                 /\ at'[u] = at[u]
                                 /\ reply'[u] = reply[u]
    BY DEF Return, ServerTypeOK
<1>5. QED
    BY <1>3, <1>4, OthersSettle

\* Whoever is going to settle the status makes OwnedInv true.
LEMMA SettledIsOwned ==
    ASSUME NEW t \in Thread, Settles(t)'
    PROVE  OwnedInv'
BY DEF OwnedInv

LEMMA ThreadStepKeepsOwned ==
    ASSUME ServerTypeOK, CallsInv, OwnedInv, NEW t \in Thread, ThreadStep(t),
           UNCHANGED controllerVars
    PROVE  OwnedInv'
<1> USE DEF controllerVars
<1>1. CASE OpenStatusFile(t)
    BY <1>1 DEF OpenStatusFile, OwnedInv
<1>2. CASE WriteStatusFile(t)
    <2>1. /\ job' = [job EXCEPT ![t] = job[t]] /\ job \in [Thread -> Job]
          /\ at' = [at EXCEPT ![t] = "lcd"] /\ at \in [Thread -> Place]
        BY <1>2 DEF WriteStatusFile, Continue, GoTo, ServerTypeOK
    <2>2. CASE job[t] = "start"
        BY <2>1, <2>2, SettledIsOwned DEF Settles, Working
    <2>3. CASE job[t] # "start"
        BY <1>2, <2>3 DEF WriteStatusFile, Word, Overwritten, OwnedInv
    <2>4. QED
        BY <2>2, <2>3
<1>3. CASE StartController(t)
    <2>1. Continue(t, "start", "controller")
        BY <1>3 DEF StartController
    <2>2. calls' = Append(calls, Request(t, "controller", "start"))
        BY <2>1, OutgoingAt DEF Continue, GoTo, Calling, AsksIfAlive
    <2>3. Request(t, "controller", "start") \in Call
        BY RequestIsACall DEF Board, BoardRequest
    <2>4. StartCall(Request(t, "controller", "start"))
        BY DEF StartCall, Request
    <2>5. StartComesLast(calls')
        BY <2>2, <2>3, <2>4, AppendStart DEF ServerTypeOK
    <2>6. QED
        BY <2>5 DEF OwnedInv, WillScan
<1>4. CASE UndoStart(t) \/ AbortCamera(t) \/ BoardsAborted(t)
    <2>1. \/ Continue(t, "undo", "open")
          \/ Continue(t, "abort", "camera")
          \/ Continue(t, "abort", "open")
        BY <1>4 DEF UndoStart, AbortCamera, BoardsAborted
    <2>2. WillWriteIdle(t)'
        BY <2>1 DEF Continue, GoTo, WillWriteIdle, ServerTypeOK
    <2>3. QED
        BY <2>2, SettledIsOwned DEF Settles
<1>5. CASE ShowCaptureFailed(t) \/ ProcessPhotos(t) \/ ShowProcessDone(t)
    <2>1. ~Settles(t) /\ UNCHANGED status
        BY <1>5 DEF ShowCaptureFailed, ProcessPhotos, ShowProcessDone,
                    Settles, WillWriteIdle, Answered, Working
    <2>2. \/ Continue(t, "rotation", "lcd")
          \/ Continue(t, "complete", "process")
          \/ Continue(t, "complete", "done")
        BY <1>5 DEF ShowCaptureFailed, ProcessPhotos, ShowProcessDone
    <2>3. QED
        BY <2>1, <2>2, ContinueKeepsOwned DEF Job, Place
<1>6. CASE ScanStarted(t) \/ SavePhoto(t) \/ DropPhoto(t) \/ Finish(t)
    <2>1. ~Settles(t)
        BY <1>6 DEF ScanStarted, SavePhoto, DropPhoto, Finish, Settles,
                    WillWriteIdle, Answered, Working
    <2>2. Return(t) /\ UNCHANGED status
        BY <1>6 DEF ScanStarted, SavePhoto, DropPhoto, Finish
    <2>3. QED
        BY <2>1, <2>2, ReturnKeepsOwned
<1>7. QED
    BY <1>1, <1>2, <1>3, <1>4, <1>5, <1>6 DEF ThreadStep

LEMMA OperatorRequestKeepsOwned ==
    ASSUME ServerTypeOK, OwnedInv, NEW t \in Thread, OperatorRequest(t),
           UNCHANGED controllerVars
    PROVE  OwnedInv'
<1>1. UNCHANGED status /\ Idle(t)
    BY DEF OperatorRequest, StartScan, AbortScan, ControlMotor, CaptureSingle,
           Asked
<1>2. CASE StartScan(t)
    BY <1>1, <1>2 DEF StartScan, OwnedInv
<1>3. CASE AbortScan(t)
    <2>1. WillWriteIdle(t)'
        BY <1>3 DEF AbortScan, Continue, GoTo, WillWriteIdle, ServerTypeOK
    <2>2. QED
        BY <2>1, SettledIsOwned DEF Settles
<1>4. CASE ControlMotor(t) \/ CaptureSingle(t)
    <2>1. ~Settles(t)
        BY <1>1 DEF Idle, Settles, WillWriteIdle, Working
    <2>2. Continue(t, "motor", "controller") \/ Continue(t, "single", "camera")
        BY <1>4 DEF ControlMotor, CaptureSingle
    <2>3. QED
        BY <1>1, <2>1, <2>2, ContinueKeepsOwned
           DEF controllerVars, Job, OperatorJob, Place
<1>5. QED
    BY <1>2, <1>3, <1>4 DEF OperatorRequest

\* The answer to a call that is not a start changes no one's intentions.
LEMMA SettlersGoOn ==
    ASSUME ServerTypeOK, CallsInv, NEW i \in DOMAIN calls, NEW answer,
           ~StartCall(calls[i]), reply' = Replied(i, answer),
           UNCHANGED <<job, at>>
    PROVE  \A u \in Thread : Settles(u) => Settles(u)'
<1> SUFFICES ASSUME NEW u \in Thread, Settles(u)
             PROVE  Settles(u)'
    OBVIOUS
<1>1. CASE u = calls[i].from
    <2>1. calls[i] = Outgoing(u, job[u], at[u])
        BY <1>1 DEF CallsInv, Matched
    <2>2. ~Working(u, "start", "controller")
        BY <1>1, <2>1, OutgoingAt DEF Working, StartCall, Request
    <2>3. QED
        BY <2>2 DEF Settles, WillWriteIdle, Working
<1>2. CASE u # calls[i].from
    <2>1. reply'[u] = reply[u]
        BY <1>2 DEF Replied, ServerTypeOK
    <2>2. QED
        BY <2>1 DEF Settles, WillWriteIdle, Working
<1>3. QED
    BY <1>1, <1>2

LEMMA CallOverKeepsOwned ==
    ASSUME ServerTypeOK, CallsInv, OwnedInv, NEW i \in DOMAIN calls,
           NEW answer, ~StartCall(calls[i]),
           calls' = Served(i), reply' = Replied(i, answer),
           UNCHANGED <<status, job, at>>, is_scanning => is_scanning'
    PROVE  OwnedInv'
<1>1. WillScan(is_scanning, calls) => WillScan(is_scanning', calls')
    BY RemoveWillScan DEF Served, ServerTypeOK, WillScan
<1>2. QED
    BY <1>1, SettlersGoOn DEF OwnedInv, WillScan

\* The controller starts, or refuses because it is scanning already.
LEMMA StartKeepsOwned ==
    ASSUME ServerTypeOK, CallsInv, OwnedInv, NEW i,
           NextFor("controller", i), calls[i].kind = "start",
           \/ HandleStartRotation /\ AnswerGoesOut(i, "ok")
           \/ RefuseStartRotation /\ AnswerGoesOut(i, "refused")
    PROVE  OwnedInv'
<1>1. i \in DOMAIN calls /\ calls[i].to = "controller"
    BY DEF NextFor
<1>2. is_scanning => is_scanning'
    BY DEF HandleStartRotation, RefuseStartRotation, HandleUnchanged
<1>3. /\ calls' = Served(i)
      /\ UNCHANGED <<status, job, at>>
      /\ \/ HandleStartRotation /\ reply' = Replied(i, "ok")
         \/ reply' = Replied(i, "refused")
         \/ reply' = Replied(i, "failed")
    BY DEF AnswerGoesOut
<1>4. CASE ~StartCall(calls[i])
    BY <1>1, <1>2, <1>3, <1>4, CallOverKeepsOwned
<1>5. CASE StartCall(calls[i])
    <2>1. PICK t \in Thread : /\ t = calls[i].from
                             /\ reply[t] = "none"
                             /\ Working(t, "start", "controller")
        BY <1>1, <1>5, CallOf, ThreadAssumption DEF ThreadAssumption, StartCall
    <2>2. \A answer : Replied(i, answer)[t] = answer
        BY <2>1 DEF Replied, ServerTypeOK
    <2>3. \A answer : \A u \in Thread :
              u # t => Replied(i, answer)[u] = reply[u]
        BY <2>1 DEF Replied, ServerTypeOK
    <2>4. CASE reply' = Replied(i, "refused") \/ reply' = Replied(i, "failed")
        <3>1. WillWriteIdle(t)'
            BY <1>3, <2>1, <2>2, <2>4 DEF WillWriteIdle, Working
        <3>2. QED
            BY <2>1, <3>1, SettledIsOwned DEF Settles
    <2>5. CASE HandleStartRotation /\ reply' = Replied(i, "ok")
        <3>1. ~Settles(t)
            BY <2>1 DEF Settles, WillWriteIdle, Working
        <3>2. is_scanning'
            BY <2>5 DEF HandleStartRotation
        <3>3. WillScan(is_scanning, calls) => WillScan(is_scanning', calls')
            BY <1>3, <1>5, <3>2, StartServed DEF WillScan, ServerTypeOK
        <3>4. QED
            BY <1>3, <2>1, <2>3, <2>5, <3>1, <3>3, OthersSettle
    <2>6. QED
        BY <1>3, <2>4, <2>5
<1>6. QED
    BY <1>4, <1>5

\* The controller is stopped: by a thread that goes on to write "idle", or by
\* a late abort, after which it is told to start.
LEMMA AbortKeepsOwned ==
    ASSUME ServerTypeOK, CallsInv, OwnedInv, NEW i,
           NextFor("controller", i), calls[i].kind = "abort",
           HandleAbort, AnswerGoesOut(i, "ok")
    PROVE  OwnedInv'
<1>1. i \in DOMAIN calls /\ calls[i].to = "controller"
    BY DEF NextFor
<1>2. calls' = Served(i) /\ UNCHANGED <<status, job, at>>
    BY DEF AnswerGoesOut
<1>3. CASE calls[i].from = "gone"
    <2>1. LateAbort(calls[i]) /\ ~StartCall(calls[i])
        BY <1>1, <1>3 DEF LateAbort, StartCall
    <2>2. WillScan(is_scanning, calls) => WillScan(is_scanning', calls')
        BY <1>1, <1>2, <2>1, RemoveStartComesLast
           DEF WillScan, NoLateAbort, ServerTypeOK, Served
    <2>3. reply' = Replied(i, "ok") \/ reply' = Replied(i, "failed")
        BY DEF AnswerGoesOut
    <2>4. \A u \in Thread : Settles(u) => Settles(u)'
        BY <1>1, <1>2, <2>1, <2>3, SettlersGoOn
    <2>5. QED
        BY <1>2, <2>2, <2>4 DEF OwnedInv, WillScan, AnswerGoesOut
<1>4. CASE calls[i].from # "gone"
    <2>1. PICK t \in Thread : Working(t, "abort", "controller")
        BY <1>1, <1>4, CallOf
    <2>2. WillWriteIdle(t)'
        BY <1>2, <2>1 DEF WillWriteIdle, Working
    <2>3. QED
        BY <2>1, <2>2, SettledIsOwned DEF Settles
<1>5. QED
    BY <1>3, <1>4

\* A thread that takes up a board's request, after what else the board did.
LEMMA ReceiveKeepsOwned ==
    ASSUME ServerTypeOK, OwnedInv, NEW t \in Thread, NEW board \in Board,
           NEW kind \in ServerRequest, NEW place \in Place,
           place # "controller",
           NEW before \in Seq(Call), NEW answers \in [Thread -> Reply],
           Receive(t, board, kind, place, before, answers),
           WillScan(is_scanning, calls) => WillScan(is_scanning, before),
           \A u \in Thread : Working(u, "start", "controller") =>
                                 answers[u] = reply[u],
           UNCHANGED is_scanning
    PROVE  OwnedInv'
<1> DEFINE c == Request(board, t, kind)
<1>1. c \in Call /\ ~LateAbort(c)
    BY RequestIsACall DEF Request, Board, LateAbort
<1>2. Append(before, c) \in Seq(Call)
    BY <1>1, AppendProperties
<1>3. WillScan(is_scanning, calls) => WillScan(is_scanning, Append(before, c))
    BY <1>1, AppendNoLateAbort, AppendStartComesLast DEF WillScan
<1>4. /\ GoTo(t, kind, place, Append(before, c), answers)
      /\ Idle(t)
      /\ UNCHANGED status
    BY DEF Receive
<1> HIDE DEF c
<1>5. kind \in Job \ {"none"}
    BY DEF ServerRequest, Job
<1>6. WillScan(is_scanning, calls) => WillScan(is_scanning', calls')
    BY <1>2, <1>3, <1>4, <1>5, GoToQueues
<1>7. \A u \in Thread : u # t => /\ job'[u] = job[u]
                                 /\ at'[u] = at[u]
                                 /\ reply'[u] = answers[u]
    BY <1>4 DEF GoTo, ServerTypeOK
<1>8. \A u \in Thread : Settles(u) => Settles(u)'
    <2> SUFFICES ASSUME NEW u \in Thread, Settles(u)
                 PROVE  Settles(u)'
        OBVIOUS
    <2>1. u # t
        BY <1>4 DEF Idle, Settles, WillWriteIdle, Working
    <2>2. QED
        BY <1>7, <2>1 DEF Settles, WillWriteIdle, Working
<1>9. QED
    BY <1>4, <1>6, <1>8 DEF OwnedInv, WillScan

LEMMA ControllerMovesKeepsOwned ==
    ASSUME ServerTypeOK, CallsInv, OwnedInv, ControllerMoves,
           "refused" \notin Faults
    PROVE  OwnedInv'
<1>1. ASSUME NEW i \in DOMAIN calls, ControllerServes(i)
      PROVE  OwnedInv'
    <2>1. NextFor("controller", i)
        BY <1>1 DEF ControllerServes
    <2>2. CASE calls[i].kind = "start"
        <3>1. \/ HandleStartRotation /\ AnswerGoesOut(i, "ok")
              \/ RefuseStartRotation /\ AnswerGoesOut(i, "refused")
            BY <1>1, <2>2 DEF ControllerServes
        <3>2. QED
            BY <2>1, <2>2, <3>1, StartKeepsOwned
    <2>3. CASE calls[i].kind = "abort"
        BY <1>1, <2>1, <2>3, AbortKeepsOwned DEF ControllerServes
    <2>4. CASE calls[i].kind \in {"lcd", "motor"}
        <3>1. UNCHANGED is_scanning /\ AnswerGoesOut(i, "ok")
            BY <1>1, <2>4
               DEF ControllerServes, HandleUnchanged, HandleMotorControl
        <3>2. ~StartCall(calls[i])
            BY <2>4 DEF StartCall
        <3>3. /\ calls' = Served(i)
              /\ UNCHANGED <<status, job, at>>
              /\ reply' = Replied(i, "ok") \/ reply' = Replied(i, "failed")
            BY <3>1 DEF AnswerGoesOut
        <3>4. QED
            BY <3>1, <3>2, <3>3, CallOverKeepsOwned
    <2>5. QED
        BY <1>1, <2>2, <2>3, <2>4 DEF ControllerServes
<1>2. CASE ControllerPolls \/ ControllerNextStep \/ ControllerDone
    <2>1. UNCHANGED <<calls, reply, status, job, at, is_scanning>>
        BY <1>2
           DEF ControllerPolls, PollNothing, ControllerNextStep, NextStep,
               ControllerDone, CompletePosted, serverVars
    <2>2. QED
        BY <2>1 DEF OwnedInv, Settles, WillWriteIdle, Working
<1>3. CASE ControllerStep
    <2>1. PICK t \in Thread :
             Receive(t, "controller", "rotation", "camera", calls, reply)
        BY <1>3 DEF ControllerStep
    <2>2. UNCHANGED is_scanning
        BY <1>3 DEF ControllerStep, ScanStep
    <2>3. calls \in Seq(Call) /\ reply \in [Thread -> Reply]
        BY DEF ServerTypeOK
    <2>4. QED
        BY <2>1, <2>2, <2>3, ReceiveKeepsOwned DEF Board, ServerRequest, Place
<1>4. CASE ControllerLastStep
    <2>1. PICK t \in Thread :
             Receive(t, "controller", "complete", "open", calls, reply)
        BY <1>4 DEF ControllerLastStep
    <2>2. WillWriteIdle(t)'
        BY <2>1 DEF Receive, GoTo, WillWriteIdle, ServerTypeOK
    <2>3. QED
        BY <2>2, SettledIsOwned DEF Settles
<1>5. QED
    BY <1>1, <1>2, <1>3, <1>4 DEF ControllerMoves

LEMMA CameraMovesKeepsOwned ==
    ASSUME ServerTypeOK, CallsInv, OwnedInv, CameraMoves
    PROVE  OwnedInv'
<1> SUFFICES ASSUME NEW i \in DOMAIN calls, CameraServes(i)
             PROVE  OwnedInv'
    BY DEF CameraMoves
<1>1. ~StartCall(calls[i]) /\ UNCHANGED is_scanning
    BY DEF CameraServes, NextFor, StartCall, controllerVars
<1>2. CASE HandleCapture(i)
    <2>1. PICK answer \in Reply :
             \/ \E t \in Thread :
                    Receive(t, "camera", "captured", "lcd",
                            Served(i), Replied(i, answer))
             \/ /\ calls' = Served(i)
                /\ reply' = Replied(i, answer)
                /\ UNCHANGED <<status, job, at>>
        BY <1>2 DEF HandleCapture, Reply
    <2>2. ASSUME NEW t \in Thread,
                 Receive(t, "camera", "captured", "lcd",
                         Served(i), Replied(i, answer))
          PROVE  OwnedInv'
        <3>1. Served(i) \in Seq(Call) /\ Replied(i, answer) \in [Thread -> Reply]
            BY AnsweredTypes
        <3>2. WillScan(is_scanning, calls) => WillScan(is_scanning, Served(i))
            BY <1>1, RemoveWillScan DEF ServerTypeOK, Served
        <3>3. ASSUME NEW u \in Thread, Working(u, "start", "controller")
              PROVE  Replied(i, answer)[u] = reply[u]
            <4>1. u # calls[i].from
                <5>1. Outgoing(u, "start", "controller") =
                          Request(u, "controller", "start")
                    BY OutgoingAt
                <5>2. SUFFICES ASSUME u = calls[i].from
                               PROVE  FALSE
                    OBVIOUS
                <5>3. calls[i] = Request(u, "controller", "start")
                    BY <3>3, <5>1, <5>2 DEF CallsInv, Matched, Working
                <5>4. QED
                    BY <1>1, <5>3 DEF StartCall, Request
            <4>2. QED
                BY <4>1 DEF Replied, ServerTypeOK
        <3>4. QED
            BY <1>1, <2>2, <3>1, <3>2, <3>3, ReceiveKeepsOwned
               DEF Board, ServerRequest, Place
    <2>3. QED
        BY <1>1, <2>1, <2>2, CallOverKeepsOwned
<1>3. CASE CaptureFails(i) \/ HandleCameraAbort(i)
    BY <1>1, <1>3, CallOverKeepsOwned
       DEF CaptureFails, HandleCameraAbort, AnswerGoesOut
<1>4. QED
    BY <1>2, <1>3 DEF CameraServes

LEMMA GiveUpKeepsOwned ==
    ASSUME ServerTypeOK, CallsInv, OwnedInv, NEW caller \in Caller,
           GiveUp(caller)
    PROVE  OwnedInv'
<1>1. PICK i \in DOMAIN calls :
         calls[i].from = caller /\ (GivesUp(i) \/ Lost(i))
    BY DEF GiveUp, TimedOut, TooSlow
<1>2. /\ reply' = Replied(i, "failed")
      /\ UNCHANGED <<status, job, at, is_scanning>>
      /\ \/ calls' = Served(i)
         \/ /\ calls' = LeftBehind(i)
            /\ calls[i].kind \in BoardRequest
    BY <1>1 DEF GivesUp, Lost, BoardRequest, controllerVars
<1>3. calls[i].from # "gone"
    BY <1>1, ThreadAssumption DEF Caller, Board, ThreadAssumption
<1>4. CASE StartCall(calls[i])
    <2>1. PICK t \in Thread :
             t = calls[i].from /\ Working(t, "start", "controller")
        BY <1>3, <1>4, CallOf DEF StartCall
    <2>2. reply'[t] = "failed"
        BY <1>2, <2>1 DEF Replied, ServerTypeOK
    <2>3. WillWriteIdle(t)'
        BY <1>2, <2>1, <2>2 DEF WillWriteIdle, Working
    <2>4. QED
        BY <2>3, SettledIsOwned DEF Settles
<1>5. CASE ~StartCall(calls[i]) /\ calls' = Served(i)
    BY <1>2, <1>5, CallOverKeepsOwned
<1>6. CASE calls[i].to = "controller" /\ calls[i].kind = "abort"
    <2>1. PICK t \in Thread : Working(t, "abort", "controller")
        BY <1>3, <1>6, CallOf
    <2>2. WillWriteIdle(t)'
        BY <1>2, <2>1 DEF WillWriteIdle, Working
    <2>3. QED
        BY <2>2, SettledIsOwned DEF Settles
<1>7. CASE /\ ~StartCall(calls[i])
           /\ calls' = LeftBehind(i)
           /\ ~(calls[i].to = "controller" /\ calls[i].kind = "abort")
    <2>1. WillScan(is_scanning, calls) => WillScan(is_scanning', calls')
        BY <1>2, <1>7, LeftBehindKeeps DEF WillScan, ServerTypeOK
    <2>2. \A u \in Thread : Settles(u) => Settles(u)'
        BY <1>2, <1>7, SettlersGoOn
    <2>3. QED
        BY <1>2, <2>1, <2>2 DEF OwnedInv, WillScan
<1>8. QED
    BY <1>2, <1>4, <1>5, <1>6, <1>7

-----------------------------------------------------------------------------
\* The status "scanning" is never left behind, provided the server turns no
\* request of the boards down: whatever times out, gets lost or is aborted,
\* the controller is scanning, or about to, or a thread is going to write
\* "idle" (scan_manager.py:29, 50, 54, 81, 95).
THEOREM ScanningIsNeverLeftBehind ==
    ASSUME "refused" \notin Faults
    PROVE  Spec => []ScanningIsOwned
<1>1. Init => OwnedInv
    BY DEF Init, ServerInit, OwnedInv
<1>2. ScannerInv /\ OwnedInv /\ [Next]_vars => OwnedInv'
    <2> SUFFICES ASSUME ScannerInv, OwnedInv, [Next]_vars
                 PROVE  OwnedInv'
        OBVIOUS
    <2> USE DEF ScannerInv
    <2>1. CASE ControllerMoves
        BY <2>1, ControllerMovesKeepsOwned
    <2>2. CASE CameraMoves
        BY <2>2, CameraMovesKeepsOwned
    <2>3. CASE ServerMoves
        BY <2>3, ThreadStepKeepsOwned DEF ServerMoves
    <2>4. CASE OperatorMoves
        BY <2>4, OperatorRequestKeepsOwned DEF OperatorMoves
    <2>5. CASE \E caller \in Caller : GiveUp(caller)
        BY <2>5, GiveUpKeepsOwned
    <2>6. CASE UNCHANGED vars
        BY <2>6
           DEF vars, serverVars, controllerVars, OwnedInv, Settles,
               WillWriteIdle, Working
    <2>7. QED
        BY <2>1, <2>2, <2>3, <2>4, <2>5, <2>6 DEF Next
<1>3. ScannerInv /\ OwnedInv => ScanningIsOwned
    <2> SUFFICES ASSUME ServerTypeOK, CallsInv, OwnedInv, status = "scanning",
                        ~is_scanning
                 PROVE  \E t \in Thread : IsStarting(t) \/ WillWriteIdle(t)
        BY DEF ScanningIsOwned, ScannerInv
    <2>1. CASE \E t \in Thread : Settles(t)
        BY <2>1 DEF Settles, IsStarting
    <2>2. CASE StartComesLast(calls)
        <3>1. PICK q \in DOMAIN calls : StartCall(calls[q])
            BY <2>2 DEF StartComesLast
        <3>2. calls[q].from # "gone"
            BY <3>1, ThreadAssumption DEF StartCall, ThreadAssumption
        <3>3. IsStarting(calls[q].from)
            BY <3>1, <3>2, CallOf DEF StartCall, IsStarting
        <3>4. QED
            BY <3>1, <3>3 DEF StartCall
    <2>3. QED
        BY <2>1, <2>2 DEF OwnedInv, WillScan
<1>4. QED
    BY <1>1, <1>2, <1>3, ScannerInvHolds, PTL DEF Spec

-----------------------------------------------------------------------------
(* An abort that is reported as a success.                                 *)

Starts == {c \in Call : c.to = "controller" /\ c.kind = "start"}
AbortCall(t) == Request(t, "controller", "abort")

\* The thread's abort is queued at the controller ...
Aborting(t) == Working(t, "abort", "controller") /\ reply[t] = "none"

\* ... or has been served, if the thread has no error to report.
Stopped(t) ==
    /\ job[t] = "abort"
    /\ ~errors[t]
    /\ ~(at[t] = "controller" /\ reply[t] \in {"none", "failed"})

OneOperator ==
    \A t, u \in Thread : job[t] \in OperatorJob /\ job[u] \in OperatorJob
                             => t = u

\* What is queued before the abort when it is sent is served before it, and
\* nobody sends a start after it; the one an earlier caller left behind may
\* still be there.
AbortInv ==
    /\ OneOperator
    /\ \A t \in Thread :
           Aborting(t) => Ordered(calls, Starts, {AbortCall(t)})
    /\ \A t \in Thread : Stopped(t) => ~is_scanning /\ Absent(calls, Starts)

\* What becomes of the calls brings no start.
NoNewStart(cs, cs2) ==
    /\ Absent(cs, Starts) => Absent(cs2, Starts)
    /\ \A t \in Thread : Ordered(cs, Starts, {AbortCall(t)}) =>
                            Ordered(cs2, Starts, {AbortCall(t)})

LEMMA RemoveNoStart ==
    ASSUME NEW cs \in Seq(Call), NEW i \in DOMAIN cs
    PROVE  NoNewStart(cs, RemoveAt(cs, i))
BY RemoveAbsent, RemoveOrdered DEF NoNewStart

LEMMA AppendNoStart ==
    ASSUME NEW cs \in Seq(Call), NEW c \in Call, c \notin Starts
    PROVE  NoNewStart(cs, Append(cs, c))
BY AppendAbsent, AppendOrdered DEF NoNewStart

LEMMA LeftBehindNoStart ==
    ASSUME ServerTypeOK, NEW i \in DOMAIN calls, calls[i].kind \in BoardRequest
    PROVE  NoNewStart(calls, LeftBehind(i))
<1>1. /\ DOMAIN LeftBehind(i) = DOMAIN calls
      /\ \A p \in DOMAIN calls : p # i => LeftBehind(i)[p] = calls[p]
      /\ LeftBehind(i)[i] \in Starts => calls[i] \in Starts
      /\ LeftBehind(i)[i].from = "gone"
    BY LeftBehindEffect, CallAt DEF Starts
<1>2. \A t \in Thread : LeftBehind(i)[i] # AbortCall(t)
    BY <1>1, ThreadAssumption DEF AbortCall, Request, ThreadAssumption
<1>3. QED
    BY <1>1, <1>2 DEF NoNewStart, Absent, Ordered

\* A thread that goes on and does not go to start the controller.
LEMMA OutgoingNoStart ==
    ASSUME NEW t, NEW j, NEW place \in Calling,
           place = "controller" => j # "start"
    PROVE  Outgoing(t, j, place) \notin Starts
BY OutgoingAt DEF Calling, Request, Starts

LEMMA ContinueNoStart ==
    ASSUME ServerTypeOK, NEW t \in Thread, NEW j \in Job, NEW place \in Place,
           place = "controller" => j \in {"abort", "motor"},
           Continue(t, j, place)
    PROVE  NoNewStart(calls, calls')
<1>1. \/ calls' = calls
      \/ /\ place \in Calling
         /\ Outgoing(t, j, place) \in Call
         /\ calls' = Append(calls, Outgoing(t, j, place))
    BY ContinueEffect
<1>2. place \in Calling => Outgoing(t, j, place) \notin Starts
    BY OutgoingNoStart
<1>3. QED
    BY <1>1, <1>2, AppendNoStart DEF NoNewStart, ServerTypeOK

LEMMA ReturnNoStart ==
    ASSUME ServerTypeOK, NEW t \in Thread, Return(t)
    PROVE  NoNewStart(calls, calls')
<1>1. calls' = calls \/ \E i \in DOMAIN calls : calls' = RemoveAt(calls, i)
    BY ReturnEffect
<1>2. QED
    BY <1>1, RemoveNoStart DEF NoNewStart, ServerTypeOK

LEMMA ReceiveNoStart ==
    ASSUME ServerTypeOK, NEW t \in Thread, NEW board \in Board,
           NEW kind \in ServerRequest, NEW place \in Place,
           place # "controller",
           NEW before \in Seq(Call), NEW answers \in [Thread -> Reply],
           Receive(t, board, kind, place, before, answers)
    PROVE  NoNewStart(before, calls')
<1> DEFINE post == Request(board, t, kind)
           queued == Append(before, post)
<1>1. /\ post \in Call /\ queued \in Seq(Call)
      /\ \/ calls' = queued
         \/ /\ place \in Calling
            /\ Outgoing(t, kind, place) \in Call
            /\ calls' = Append(queued, Outgoing(t, kind, place))
    BY ReceiveEffect
<1>2. post \notin Starts
    BY DEF Starts, Request, ServerRequest
<1>3. NoNewStart(before, queued)
    BY <1>1, <1>2, AppendNoStart
<1> HIDE DEF queued
<1>4. place \in Calling => Outgoing(t, kind, place) \notin Starts
    BY OutgoingNoStart
<1>5. NoNewStart(queued, calls')
    BY <1>1, <1>4, AppendNoStart DEF NoNewStart
<1>6. QED
    BY <1>3, <1>5 DEF NoNewStart

-----------------------------------------------------------------------------
(* AbortInv is inductive.                                                  *)

\* A step that brings no start, to the calls or to the controller, and no
\* abort.
LEMMA AbortStays ==
    ASSUME AbortInv, NoNewStart(calls, calls'), is_scanning' => is_scanning,
           OneOperator',
           \A t \in Thread : /\ Aborting(t)' => Aborting(t)
                             /\ Stopped(t)' => Stopped(t)
    PROVE  AbortInv'
BY DEF AbortInv, NoNewStart

LEMMA SameOperators ==
    ASSUME OneOperator,
           \A t \in Thread : job'[t] \in OperatorJob => job[t] \in OperatorJob
    PROVE  OneOperator'
BY DEF OneOperator

LEMMA ThreadStepAborts ==
    ASSUME ServerTypeOK, AbortInv, NEW t \in Thread, ThreadStep(t),
           UNCHANGED is_scanning
    PROVE  AbortInv'
<1>1. OthersStay(t) /\ (job'[t] = job[t] \/ job'[t] \in {"undo", "none"})
    BY ThreadStepEffect
<1>2. job'[t] = "undo" => job[t] \in {"start", "undo"}
    <2>1. CASE OpenStatusFile(t)
        BY <2>1 DEF OpenStatusFile, ServerTypeOK
    <2>2. CASE WriteStatusFile(t)
        BY <2>2 DEF WriteStatusFile, Continue, GoTo, ServerTypeOK
    <2>3. CASE \/ StartController(t)
               \/ UndoStart(t)
               \/ AbortCamera(t)
               \/ BoardsAborted(t)
               \/ ShowCaptureFailed(t)
               \/ ProcessPhotos(t)
               \/ ShowProcessDone(t)
        BY <2>3
           DEF StartController, UndoStart, AbortCamera, BoardsAborted,
               ShowCaptureFailed, ProcessPhotos, ShowProcessDone, Answered,
               Working, Continue, GoTo, ServerTypeOK
    <2>4. CASE ScanStarted(t) \/ SavePhoto(t) \/ DropPhoto(t) \/ Finish(t)
        BY <2>4
           DEF ScanStarted, SavePhoto, DropPhoto, Finish, Return, ServerTypeOK
    <2>5. QED
        BY <2>1, <2>2, <2>3, <2>4 DEF ThreadStep
<1>3. OneOperator'
    BY <1>1, <1>2, SameOperators DEF OthersStay, AbortInv, OperatorJob
<1>4. CASE StartController(t)
    <2>1. job[t] = "start"
        BY <1>4 DEF StartController, Answered, Working
    <2>2. job'[t] # "abort" /\ \A u \in Thread : u # t => job'[u] # "abort"
        BY <1>1, <2>1 DEF OthersStay, AbortInv, OneOperator, OperatorJob
    <2>3. QED
        BY <1>3, <2>2 DEF AbortInv, Aborting, Working, Stopped
<1>5. ASSUME NoNewStart(calls, calls'),
             \A u \in Thread : u # t => errors'[u] = errors[u],
             ~Aborting(t)', Stopped(t)' => Stopped(t)
      PROVE  AbortInv'
    BY <1>1, <1>3, <1>5, AbortStays
       DEF OthersStay, Aborting, Working, Stopped
<1>6. CASE OpenStatusFile(t)
    <2>1. /\ UNCHANGED <<calls, job, errors>>
          /\ at[t] = "open" /\ at'[t] = "write"
        BY <1>6 DEF OpenStatusFile, ServerTypeOK
    <2>2. QED
        BY <1>5, <2>1 DEF NoNewStart, Aborting, Working, Stopped
<1>7. CASE WriteStatusFile(t)
    <2>1. /\ job[t] \in Job /\ "lcd" \in Place /\ Continue(t, job[t], "lcd")
          /\ UNCHANGED errors /\ at[t] \in {"open", "write"}
        BY <1>7 DEF WriteStatusFile, ServerTypeOK, Place
    <2>2. job'[t] = job[t] /\ at'[t] = "lcd" /\ NoNewStart(calls, calls')
        BY <2>1, ContinueEffect, ContinueNoStart
    <2>3. QED
        BY <1>5, <2>1, <2>2 DEF Aborting, Working, Stopped
<1>8. CASE AbortCamera(t) \/ BoardsAborted(t)
    <2>1. /\ job[t] = "abort" /\ at[t] \in {"controller", "camera"}
          /\ reply[t] # "none"
          /\ errors' = [errors EXCEPT ![t] = @ \/ reply[t] = "failed"]
          /\ Continue(t, "abort", "camera") \/ Continue(t, "abort", "open")
        BY <1>8 DEF AbortCamera, BoardsAborted, Answered, Working, Noted
    <2>2. NoNewStart(calls, calls') /\ at'[t] \in {"camera", "open"}
        BY <2>1, ContinueEffect, ContinueNoStart DEF Job, OperatorJob, Place
    <2>3. /\ ~errors'[t] => ~errors[t] /\ reply[t] # "failed"
          /\ \A u \in Thread : u # t => errors'[u] = errors[u]
        BY <2>1 DEF ServerTypeOK
    <2>4. QED
        BY <1>5, <2>1, <2>2, <2>3 DEF Aborting, Working, Stopped
<1>9. CASE \/ UndoStart(t)
           \/ ShowCaptureFailed(t)
           \/ ProcessPhotos(t)
           \/ ShowProcessDone(t)
    <2>1. /\ UNCHANGED errors
          /\ \/ Continue(t, "undo", "open")
             \/ Continue(t, "rotation", "lcd")
             \/ Continue(t, "complete", "process")
             \/ Continue(t, "complete", "done")
        BY <1>9
           DEF UndoStart, ShowCaptureFailed, ProcessPhotos, ShowProcessDone
    <2>2. NoNewStart(calls, calls') /\ job'[t] # "abort"
        BY <2>1, ContinueEffect, ContinueNoStart DEF Job, OperatorJob, Place
    <2>3. QED
        BY <1>5, <2>1, <2>2 DEF Aborting, Working, Stopped
<1>10. CASE ScanStarted(t) \/ SavePhoto(t) \/ DropPhoto(t) \/ Finish(t)
    <2>1. Return(t)
        BY <1>10 DEF ScanStarted, SavePhoto, DropPhoto, Finish
    <2>2. /\ job'[t] = "none"
          /\ \A u \in Thread : u # t => errors'[u] = errors[u]
          /\ NoNewStart(calls, calls')
        BY <2>1, ReturnEffect, ReturnNoStart
    <2>3. QED
        BY <1>5, <2>2 DEF Aborting, Working, Stopped
<1>11. QED
    BY <1>4, <1>6, <1>7, <1>8, <1>9, <1>10 DEF ThreadStep

\* An operator's request comes when no other is being worked on.
LEMMA OperatorRequestAborts ==
    ASSUME ServerTypeOK, CallsInv, AbortInv, NEW t \in Thread,
           OperatorRequest(t), UNCHANGED is_scanning,
           MaxOperators = 1, "dead" \notin Faults
    PROVE  AbortInv'
<1>1. \A u \in Thread : job[u] \notin OperatorJob
    <2> DEFINE busy == {u \in Thread : job[u] \in OperatorJob}
    <2>1. Cardinality(busy) < 1
        BY DEF OperatorRequest, StartScan, AbortScan, ControlMotor,
               CaptureSingle, Asked
    <2>2. IsFiniteSet(busy)
        BY ThreadAssumption, FS_Subset DEF ThreadAssumption
    <2> HIDE DEF busy
    <2>3. Cardinality(busy) = 0
        BY <2>1, <2>2, FS_CardinalityType
    <2>4. busy = {}
        BY <2>2, <2>3, FS_EmptySet
    <2>5. QED
        BY <2>4 DEF busy
<1>2. Idle(t) /\ calls \in Seq(Call)
    BY DEF OperatorRequest, StartScan, AbortScan, ControlMotor, CaptureSingle,
           Asked, ServerTypeOK
<1>3. PICK j \in {"start", "abort", "motor", "single"},
           place \in {"open", "controller", "camera"} :
          /\ place = "controller" => j \in {"abort", "motor"}
          /\ j = "abort" => place = "controller"
          /\ Continue(t, j, place)
    BY DEF OperatorRequest, StartScan, AbortScan, ControlMotor, CaptureSingle
<1>4. /\ \/ calls' = calls
         \/ calls' = Append(calls, Outgoing(t, j, place))
      /\ Outgoing(t, j, place) \in Call \/ calls' = calls
      /\ job'[t] = j /\ at'[t] = place
      /\ reply'[t] = "none"
      /\ \A u \in Thread : u # t => job'[u] = job[u]
    BY <1>3, ContinueEffect DEF Job, OperatorJob, Place, OthersStay
<1>5. OneOperator'
    BY <1>1, <1>4 DEF OneOperator
<1>6. \A u \in Thread : ~Stopped(u)'
    BY <1>1, <1>3, <1>4 DEF Stopped, OperatorJob
<1>7. ASSUME NEW u \in Thread, Aborting(u)'
      PROVE  Ordered(calls', Starts, {AbortCall(u)})
    <2>1. u = t
        BY <1>1, <1>4, <1>7 DEF Aborting, Working, OperatorJob
    <2>2. place = "controller" /\ j = "abort"
        BY <1>4, <1>7, <2>1 DEF Aborting, Working
    <2>3. NoCallFrom(calls, t)
        BY <1>2, NotWaiting
    <2>4. Ordered(calls, Starts, {AbortCall(t)})
        BY <2>3 DEF Ordered, NoCallFrom, AbortCall, Request
    <2>5. Outgoing(t, j, place) \notin Starts
        BY <2>2, OutgoingNoStart DEF Calling
    <2>6. QED
        BY <1>2, <1>4, <2>1, <2>4, <2>5, AppendOrdered
<1>8. QED
    BY <1>5, <1>6, <1>7 DEF AbortInv

\* The place of a thread that waits for the answer to call i.
LEMMA PlaceOfCall ==
    ASSUME ServerTypeOK, CallsInv, NEW i \in DOMAIN calls, NEW t \in Thread,
           calls[i].from = t, job[t] = "abort"
    PROVE  /\ reply[t] = "none"
           /\ calls[i].to = "camera" => at[t] = "camera"
           /\ at[t] = "controller" => calls[i] = AbortCall(t)
<1>1. /\ reply[t] = "none"
      /\ at[t] \in Calling /\ calls[i] = Outgoing(t, job[t], at[t])
    BY DEF CallsInv, Matched
<1>2. calls[i].to = "camera" => at[t] = "camera"
    BY <1>1, OutgoingAt DEF Calling, Request
<1>3. at[t] = "controller" => calls[i] = AbortCall(t)
    BY <1>1, OutgoingAt DEF AbortCall
<1>4. QED
    BY <1>1, <1>2, <1>3

\* An answer other than the controller's to an abort, or none.
LEMMA CallOverAborts ==
    ASSUME ServerTypeOK, CallsInv, AbortInv, NEW i \in DOMAIN calls,
           NEW answer \in Reply \ {"none"}, reply' = Replied(i, answer),
           UNCHANGED <<job, at, errors>>, is_scanning' => is_scanning,
           NoNewStart(calls, calls'),
           answer = "failed" \/ \A t \in Thread : calls[i] # AbortCall(t)
    PROVE  AbortInv'
<1>1. \A t \in Thread : reply'[t] = IF t = calls[i].from THEN answer ELSE reply[t]
    BY DEF Replied, ServerTypeOK
<1>2. OneOperator'
    BY SameOperators DEF AbortInv
<1>3. ASSUME NEW t \in Thread
      PROVE  /\ Aborting(t)' => Aborting(t)
             /\ Stopped(t)' => Stopped(t)
    <2>1. CASE t # calls[i].from \/ job[t] # "abort"
        BY <1>1, <2>1 DEF Aborting, Working, Stopped
    <2>2. CASE t = calls[i].from /\ job[t] = "abort"
        BY <1>1, <2>2, PlaceOfCall DEF Aborting, Working, Stopped
    <2>3. QED
        BY <2>1, <2>2
<1>4. QED
    BY <1>2, <1>3, AbortStays

\* The controller serves the abort: by then it has served every start.
LEMMA AbortServedStops ==
    ASSUME ServerTypeOK, CallsInv, AbortInv,
           NEW i, NextFor("controller", i), calls[i].kind = "abort",
           HandleAbort, AnswerGoesOut(i, "ok")
    PROVE  AbortInv'
<1>1. /\ i \in DOMAIN calls /\ calls[i].to = "controller"
      /\ \A p \in DOMAIN calls : calls[p].to = "controller" => i <= p
      /\ calls \in Seq(Call)
      /\ calls' = RemoveAt(calls, i) /\ ~is_scanning'
      /\ UNCHANGED <<job, at, errors>>
      /\ reply' = Replied(i, "ok") \/ reply' = Replied(i, "failed")
    BY DEF NextFor, HandleAbort, AnswerGoesOut, Served, ServerTypeOK
<1>2. NoNewStart(calls, calls')
    BY <1>1, RemoveNoStart
<1>3. ASSUME NEW t \in Thread, calls[i].from = t, job[t] = "abort",
             at[t] = "controller"
      PROVE  Absent(calls, Starts)
    <2>1. calls[i] = AbortCall(t) /\ Aborting(t)
        BY <1>1, <1>3, PlaceOfCall DEF Aborting, Working
    <2>2. ASSUME NEW p \in DOMAIN calls, calls[p] \in Starts
          PROVE  FALSE
        <3>1. p < i
            BY <1>1, <2>1, <2>2 DEF AbortInv, Ordered
        <3>2. i <= p
            BY <1>1, <2>2 DEF Starts
        <3>3. i \in Nat /\ p \in Nat
            BY <1>1, CallAt
        <3>4. QED
            BY <3>1, <3>2, <3>3
    <2>3. QED
        BY <2>2 DEF Absent
<1>4. ASSUME NEW t \in Thread, Stopped(t)'
      PROVE  Absent(calls', Starts)
    <2>1. Stopped(t) \/ (calls[i].from = t /\ at[t] = "controller")
        BY <1>1, <1>4 DEF Stopped, Replied, ServerTypeOK
    <2>2. Absent(calls, Starts)
        BY <1>1, <1>3, <1>4, <2>1 DEF AbortInv, Stopped
    <2>3. QED
        BY <1>2, <2>2 DEF NoNewStart
<1>5. \A t \in Thread : Aborting(t)' => Aborting(t)
    BY <1>1 DEF Aborting, Working, Replied, ServerTypeOK, CallsInv, Matched
<1>6. OneOperator'
    BY <1>1, SameOperators DEF AbortInv
<1>7. QED
    BY <1>1, <1>2, <1>4, <1>5, <1>6 DEF AbortInv, NoNewStart

\* A thread that takes up a board's request, after what else the board did.
LEMMA ReceiveAborts ==
    ASSUME ServerTypeOK, AbortInv, NEW t \in Thread, NEW board \in Board,
           NEW kind \in ServerRequest, NEW place \in Place,
           place # "controller",
           NEW before \in Seq(Call), NEW answers \in [Thread -> Reply],
           Receive(t, board, kind, place, before, answers),
           NoNewStart(calls, before), is_scanning' => is_scanning,
           \A u \in Thread :
               \/ answers[u] = reply[u]
               \/ answers[u] # "none" /\ at[u] # "controller"
    PROVE  AbortInv'
<1>1. /\ job'[t] = kind /\ Idle(t) /\ UNCHANGED errors
      /\ \A u \in Thread : u # t => /\ job'[u] = job[u]
                                    /\ at'[u] = at[u]
                                    /\ reply'[u] = answers[u]
    BY ReceiveEffect DEF Receive
<1>2. NoNewStart(calls, calls')
    BY ReceiveNoStart DEF NoNewStart
<1>3. job'[t] \notin OperatorJob /\ job'[t] # "abort"
    BY <1>1 DEF ServerRequest, OperatorJob
<1>4. OneOperator'
    BY <1>1, <1>3, SameOperators DEF AbortInv
<1>5. ASSUME NEW u \in Thread
      PROVE  (Aborting(u)' => Aborting(u)) /\ (Stopped(u)' => Stopped(u))
    <2>1. CASE u = t
        BY <1>3, <2>1 DEF Aborting, Working, Stopped
    <2>2. CASE u # t
        BY <1>1, <2>2 DEF Aborting, Working, Stopped
    <2>3. QED
        BY <2>1, <2>2
<1>6. QED
    BY <1>2, <1>4, <1>5, AbortStays

LEMMA ControllerMovesAborts ==
    ASSUME ServerTypeOK, CallsInv, AbortInv, ControllerMoves,
           "refused" \notin Faults
    PROVE  AbortInv'
<1>1. calls \in Seq(Call) /\ reply \in [Thread -> Reply]
    BY DEF ServerTypeOK
<1>2. ASSUME NEW i \in DOMAIN calls, ControllerServes(i)
      PROVE  AbortInv'
    <2>1. NextFor("controller", i) /\ NoNewStart(calls, Served(i))
        BY <1>1, <1>2, RemoveNoStart DEF ControllerServes, Served
    <2>2. CASE calls[i].kind = "abort"
        BY <1>2, <2>1, <2>2, AbortServedStops DEF ControllerServes
    <2>3. CASE calls[i].kind \in {"lcd", "motor"}
        <3>1. /\ is_scanning' = is_scanning /\ calls' = Served(i)
              /\ UNCHANGED <<job, at, errors>>
              /\ reply' = Replied(i, "ok") \/ reply' = Replied(i, "failed")
            BY <1>2, <2>3
               DEF ControllerServes, HandleUnchanged, HandleMotorControl,
                   AnswerGoesOut
        <3>2. \A t : calls[i] # AbortCall(t)
            BY <2>3 DEF AbortCall, Request
        <3>3. QED
            BY <2>1, <3>1, <3>2, CallOverAborts DEF Reply
    <2>4. CASE calls[i].kind = "start"
        <3>1. /\ calls' = Served(i) /\ UNCHANGED <<job, at, errors>>
              /\ \E answer \in Reply \ {"none"} : reply' = Replied(i, answer)
              /\ calls[i].to = "controller"
            BY <1>2, <2>4
               DEF ControllerServes, AnswerGoesOut, Reply, NextFor
        <3>2. calls[i] \in Starts
            BY <2>4, <3>1, CallAt DEF Starts
        <3>3. \A t \in Thread : ~Stopped(t)
            BY <3>2 DEF AbortInv, Absent
        <3>4. ASSUME NEW t \in Thread
              PROVE  (Aborting(t)' => Aborting(t)) /\ ~Stopped(t)'
            <4>1. t = calls[i].from => job[t] # "abort" \/ at[t] # "controller"
                BY <2>4, PlaceOfCall DEF AbortCall, Request
            <4>2. QED
                BY <1>1, <3>1, <3>3, <4>1
                   DEF Aborting, Working, Stopped, Replied
        <3>5. OneOperator'
            BY <3>1, SameOperators DEF AbortInv
        <3>6. QED
            BY <2>1, <3>1, <3>4, <3>5 DEF AbortInv, NoNewStart
    <2>5. QED
        BY <1>2, <2>2, <2>3, <2>4 DEF ControllerServes
<1>3. ASSUME UNCHANGED serverVars, is_scanning' => is_scanning
      PROVE  AbortInv'
    BY <1>3
       DEF serverVars, AbortInv, OneOperator, Aborting, Working, Stopped
<1>4. ASSUME NEW t \in Thread, is_scanning' => is_scanning,
             \/ Receive(t, "controller", "rotation", "camera", calls, reply)
             \/ Receive(t, "controller", "complete", "open", calls, reply)
      PROVE  AbortInv'
    <2>1. NoNewStart(calls, calls)
        BY DEF NoNewStart
    <2>2. /\ "controller" \in Board
          /\ "rotation" \in ServerRequest /\ "complete" \in ServerRequest
          /\ "camera" \in Place /\ "open" \in Place
        BY DEF Board, ServerRequest, Place
    <2>3. QED
        BY <1>1, <1>4, <2>1, <2>2, ReceiveAborts
<1>5. CASE ControllerPolls \/ ControllerNextStep \/ ControllerDone
    BY <1>3, <1>5
       DEF ControllerPolls, PollNothing, ControllerNextStep, NextStep,
           ControllerDone, CompletePosted
<1>6. CASE ControllerStep
    BY <1>3, <1>4, <1>6 DEF ControllerStep, ScanStep
<1>7. CASE ControllerLastStep
    <2>1. is_scanning' => is_scanning
        BY <1>7 DEF ControllerLastStep, LastStep
    <2>2. QED
        BY <1>3, <1>4, <1>7, <2>1 DEF ControllerLastStep
<1>8. QED
    BY <1>2, <1>5, <1>6, <1>7 DEF ControllerMoves

LEMMA CameraMovesAborts ==
    ASSUME ServerTypeOK, CallsInv, AbortInv, CameraMoves
    PROVE  AbortInv'
<1> SUFFICES ASSUME NEW i \in DOMAIN calls, CameraServes(i)
             PROVE  AbortInv'
    BY DEF CameraMoves
<1>1. /\ calls \in Seq(Call) /\ calls[i].to = "camera"
      /\ UNCHANGED is_scanning
    BY DEF ServerTypeOK, CameraServes, NextFor, controllerVars
<1>2. NoNewStart(calls, Served(i)) /\ Served(i) \in Seq(Call)
    BY <1>1, RemoveNoStart, RemoveAtProperties DEF Served
<1>3. \A t : calls[i] # AbortCall(t)
    BY <1>1 DEF AbortCall, Request
<1>4. PICK answer \in Reply \ {"none"} :
         \/ /\ calls' = Served(i) /\ reply' = Replied(i, answer)
            /\ UNCHANGED <<job, at, errors>>
         \/ \E t \in Thread : Receive(t, "camera", "captured", "lcd",
                                      Served(i), Replied(i, answer))
    BY DEF CameraServes, HandleCapture, CaptureFails, HandleCameraAbort,
           AnswerGoesOut, Reply
<1>5. ASSUME NEW t \in Thread,
             Receive(t, "camera", "captured", "lcd",
                     Served(i), Replied(i, answer))
      PROVE  AbortInv'
    <2>1. Replied(i, answer) \in [Thread -> Reply]
        BY AnsweredTypes
    <2>2. ASSUME NEW u \in Thread
          PROVE  \/ Replied(i, answer)[u] = reply[u]
                 \/ /\ Replied(i, answer)[u] # "none"
                    /\ at[u] # "controller"
        <3>1. u = calls[i].from => at[u] # "controller"
            BY <1>1, OutgoingAt DEF CallsInv, Matched, Request
        <3>2. QED
            BY <3>1 DEF Replied, ServerTypeOK
    <2>3. QED
        BY <1>1, <1>2, <1>5, <2>1, <2>2, ReceiveAborts
           DEF Board, ServerRequest, Place
<1>6. QED
    BY <1>1, <1>2, <1>3, <1>4, <1>5, CallOverAborts

LEMMA GiveUpAborts ==
    ASSUME ServerTypeOK, CallsInv, AbortInv, NEW caller \in Caller,
           GiveUp(caller)
    PROVE  AbortInv'
<1>1. PICK i \in DOMAIN calls :
         /\ \/ calls' = Served(i)
            \/ calls' = LeftBehind(i) /\ calls[i].kind \in BoardRequest
         /\ reply' = Replied(i, "failed")
         /\ UNCHANGED <<job, at, errors, is_scanning>>
    BY GiveUpEffect DEF controllerVars
<1>2. NoNewStart(calls, calls')
    BY <1>1, RemoveNoStart, LeftBehindNoStart DEF Served, ServerTypeOK
<1>3. QED
    BY <1>1, <1>2, CallOverAborts DEF Reply

\* An abort that is reported as a success has stopped the controller
\* (board_manager.py:75-98, app.py:108-120): a request of a board that has not
\* failed has been served, after every start that was sent before.  It takes
\* that both boards count as alive, that none turns a request down, which is
\* not looked at, and that one operator asks for one thing at a time: else the
\* abort may overtake a start whose thread is at its LCD call.
THEOREM ReportedAbortHasStopped ==
    ASSUME MaxOperators = 1, Faults \cap {"dead", "refused"} = {}
    PROVE  Spec => ReportedAbortStops
<1>1. Init => AbortInv
    BY DEF Init, ServerInit, ControllerInit, AbortInv, OneOperator, Aborting,
           Working, Stopped, OperatorJob
<1>2. ScannerInv /\ AbortInv /\ [Next]_vars => AbortInv'
    <2> SUFFICES ASSUME ScannerInv, AbortInv, [Next]_vars
                 PROVE  AbortInv'
        OBVIOUS
    <2> USE DEF ScannerInv
    <2>1. CASE ControllerMoves
        BY <2>1, ControllerMovesAborts
    <2>2. CASE CameraMoves
        BY <2>2, CameraMovesAborts
    <2>3. CASE ServerMoves
        BY <2>3, ThreadStepAborts DEF ServerMoves, controllerVars
    <2>4. CASE OperatorMoves
        BY <2>4, OperatorRequestAborts DEF OperatorMoves, controllerVars
    <2>5. CASE \E caller \in Caller : GiveUp(caller)
        BY <2>5, GiveUpAborts
    <2>6. CASE UNCHANGED vars
        BY <2>6
           DEF vars, serverVars, controllerVars, AbortInv, OneOperator,
               Aborting, Working, Stopped
    <2>7. QED
        BY <2>1, <2>2, <2>3, <2>4, <2>5, <2>6 DEF Next
<1>3. AbortInv => \A t \in Thread :
          Answered(t, "abort", "lcd") /\ ~errors[t] => ~is_scanning
    BY DEF AbortInv, Stopped, Answered, Working
<1>4. AbortInv =>
          [\A t \in Thread :
               Answered(t, "abort", "lcd") /\ ~errors[t] /\ job'[t] = "none"
                   => ~is_scanning]_vars
    BY <1>3
<1>5. QED
    BY <1>1, <1>2, <1>4, ScannerInvHolds, PTL DEF Spec, ReportedAbortStops

-----------------------------------------------------------------------------
(* While the controller scans, the status says so.                         *)

ControllerPosts == {c \in Call : c.from = "controller"}

\* A thread that has been asked to start a scan and has not heard of its
\* start, or that is about to write to the status file for another reason.
Engaged(t) ==
    \/ at[t] = "open"
    \/ job[t] = "start" /\ ~(at[t] = "controller" /\ reply[t] = "ok")

\* There is one such thread at most, and none while the controller scans.
EngagedInv ==
    /\ is_scanning => status = "scanning" /\ \A t \in Thread : ~Engaged(t)
    /\ \A t, u \in Thread : Engaged(t) /\ Engaged(u) => t = u
    /\ \A t \in Thread :
           /\ at[t] # "write"
           /\ job[t] # "abort"
           /\ Engaged(t) /\ at[t] # "open" => status = "scanning"

\* Its caller still waits for every start, and whatever the controller waits
\* for itself, it has waited for longer.
StartsAreAwaited(cs) ==
    /\ Ordered(cs, ControllerPosts, Starts)
    /\ \A p \in DOMAIN cs : cs[p] \in Starts => cs[p].from \in Thread

ShownInv == EngagedInv /\ StartsAreAwaited(calls)

LEMMA RemoveStartsAwaited ==
    ASSUME NEW cs \in Seq(Call), NEW i \in DOMAIN cs, StartsAreAwaited(cs)
    PROVE  StartsAreAwaited(RemoveAt(cs, i))
<1>1. Ordered(RemoveAt(cs, i), ControllerPosts, Starts)
    BY RemoveOrdered DEF StartsAreAwaited
<1>2. \A p \in DOMAIN RemoveAt(cs, i) :
          RemoveAt(cs, i)[p] \in Starts => RemoveAt(cs, i)[p].from \in Thread
    BY RemoveAtKeepsOnly DEF StartsAreAwaited
<1>3. QED
    BY <1>1, <1>2 DEF StartsAreAwaited

LEMMA AppendStartsAwaited ==
    ASSUME NEW cs \in Seq(Call), NEW c \in Call, StartsAreAwaited(cs),
           c.from # "controller", c \in Starts => c.from \in Thread
    PROVE  StartsAreAwaited(Append(cs, c))
<1>1. c \notin ControllerPosts
    BY DEF ControllerPosts
<1>2. Ordered(Append(cs, c), ControllerPosts, Starts)
    BY <1>1, AppendOrdered DEF StartsAreAwaited
<1>3. \A p \in DOMAIN Append(cs, c) :
          Append(cs, c)[p] \in Starts => Append(cs, c)[p].from \in Thread
    BY AppendAt DEF StartsAreAwaited
<1>4. QED
    BY <1>2, <1>3 DEF StartsAreAwaited

LEMMA NoStartIsAwaited ==
    ASSUME NEW cs, Absent(cs, Starts)
    PROVE  StartsAreAwaited(cs)
BY DEF Absent, StartsAreAwaited, Ordered

LEMMA LeftBehindStartsAwaited ==
    ASSUME ServerTypeOK, StartsAreAwaited(calls), NEW i \in DOMAIN calls,
           calls[i].kind \in BoardRequest, calls[i] \notin Starts
    PROVE  StartsAreAwaited(LeftBehind(i))
<1>1. /\ DOMAIN LeftBehind(i) = DOMAIN calls
      /\ \A p \in DOMAIN calls : p # i => LeftBehind(i)[p] = calls[p]
      /\ LeftBehind(i)[i].from = "gone"
      /\ LeftBehind(i)[i].to = calls[i].to
      /\ LeftBehind(i)[i].kind = calls[i].kind
    BY LeftBehindEffect
<1>2. LeftBehind(i)[i] \notin Starts /\ LeftBehind(i)[i] \notin ControllerPosts
    BY <1>1, CallAt DEF Starts, ControllerPosts
<1>3. \A p \in DOMAIN calls :
          LeftBehind(i)[p] \in Starts \cup ControllerPosts =>
              LeftBehind(i)[p] = calls[p]
    BY <1>1, <1>2
<1>4. QED
    BY <1>1, <1>3 DEF StartsAreAwaited, Ordered

\* A start that is queued has a thread that waits for it.
LEMMA StartIsOfAThread ==
    ASSUME ServerTypeOK, CallsInv, StartsAreAwaited(calls),
           NEW i \in DOMAIN calls, calls[i] \in Starts
    PROVE  /\ calls[i].from \in Thread
           /\ Working(calls[i].from, "start", "controller")
           /\ reply[calls[i].from] = "none"
           /\ Engaged(calls[i].from)
<1>1. calls[i].from \in Thread /\ calls[i].from # "gone"
    BY ThreadAssumption DEF StartsAreAwaited, ThreadAssumption
<1>2. /\ Working(calls[i].from, "start", "controller")
      /\ reply[calls[i].from] = "none"
    BY <1>1, CallOf DEF Starts
<1>3. QED
    BY <1>1, <1>2 DEF Engaged, Working

LEMMA ScanningNoStarts ==
    ASSUME ServerTypeOK, CallsInv, ShownInv, is_scanning
    PROVE  Absent(calls, Starts)
BY StartIsOfAThread DEF ShownInv, EngagedInv, Absent

\* The start does not give up: it is stuck only if the controller waits for
\* something, and has done so for longer.
LEMMA StartDoesNotGiveUp ==
    ASSUME ServerTypeOK, StartsAreAwaited(calls), NEW i \in DOMAIN calls,
           LongestStuck(i, Processing) \/ calls[i].kind = "lcd"
    PROVE  calls[i] \notin Starts
<1> SUFFICES ASSUME calls[i] \in Starts
             PROVE  FALSE
    OBVIOUS
<1>1. calls[i].to = "controller" /\ LongestStuck(i, Processing)
    BY DEF Starts
<1>2. PICK S \in SUBSET DOMAIN calls :
         /\ i \in S
         /\ \A j \in S : \/ calls[j].to \in Processing
                         \/ \E k \in S : calls[k].from = calls[j].to
    BY <1>1 DEF LongestStuck, Stuck
<1>3. "controller" \notin Processing
    BY ThreadAssumption DEF ThreadAssumption, Processing
<1>4. PICK k \in S : calls[k].from = "controller"
    BY <1>1, <1>2, <1>3
<1>5. k \in DOMAIN calls /\ calls[k] \in ControllerPosts
    BY <1>4, CallAt DEF ControllerPosts
<1>6. k < i
    BY <1>5 DEF StartsAreAwaited, Ordered
<1>7. calls[k].from # "gone" /\ Stuck(k, Processing)
    BY <1>2, <1>4 DEF Stuck
<1>8. i <= k
    BY <1>1, <1>5, <1>7 DEF LongestStuck
<1>9. QED
    BY <1>5, <1>6, <1>8, CallAt

\* A step that leaves the status, engages nobody and starts no scan.
LEMMA EngagedStays ==
    ASSUME EngagedInv, UNCHANGED status, is_scanning' => is_scanning,
           \A t \in Thread :
               /\ Engaged(t)' => Engaged(t) /\ (at[t] = "open" => at'[t] = "open")
               /\ at'[t] # "write"
               /\ job'[t] # "abort"
    PROVE  EngagedInv'
BY DEF EngagedInv


LEMMA ThreadStepShown ==
    ASSUME ServerTypeOK, ShownInv, NEW t \in Thread, ThreadStep(t),
           UNCHANGED is_scanning, "preempted" \notin Faults
    PROVE  ShownInv'
<1>1. /\ OthersStay(t)
      /\ \/ calls' = calls
         \/ \E c \in Call : c.from = t /\ calls' = Append(calls, c)
         \/ \E i \in DOMAIN calls :
                calls[i].to = t /\ calls' = RemoveAt(calls, i)
    BY ThreadStepEffect
<1>2. StartsAreAwaited(calls')
    <2>1. calls \in Seq(Call) /\ StartsAreAwaited(calls) /\ t # "controller"
        BY ThreadAssumption DEF ServerTypeOK, ShownInv, ThreadAssumption
    <2>2. CASE \E c \in Call : c.from = t /\ calls' = Append(calls, c)
        BY <2>1, <2>2, AppendStartsAwaited
    <2>3. CASE \E i \in DOMAIN calls : calls' = RemoveAt(calls, i)
        BY <2>1, <2>3, RemoveStartsAwaited
    <2>4. QED
        BY <1>1, <2>1, <2>2, <2>3
<1> SUFFICES EngagedInv'
    BY <1>2 DEF ShownInv
<1>3. ASSUME UNCHANGED status, job'[t] # "abort", at'[t] # "write",
             Engaged(t)' => Engaged(t) /\ at[t] # "open"
      PROVE  EngagedInv'
    BY <1>1, <1>3, EngagedStays
       DEF OthersStay, ShownInv, EngagedInv, Engaged
<1>4. CASE WriteStatusFile(t)
    <2>1. /\ at[t] = "open" /\ Continue(t, job[t], "lcd")
          /\ status' = Overwritten("", Word(job[t]))
        BY <1>4 DEF WriteStatusFile, ShownInv, EngagedInv
    <2>2. job'[t] = job[t] /\ at'[t] = "lcd"
        BY <2>1, ContinueEffect DEF ServerTypeOK, Place
    <2>3. ~is_scanning /\ \A u \in Thread : u # t => ~Engaged(u)
        BY <2>1 DEF ShownInv, EngagedInv, Engaged
    <2>4. \A u \in Thread : Engaged(u)' => u = t /\ job[t] = "start"
        BY <1>1, <2>2, <2>3 DEF OthersStay, Engaged
    <2>5. job[t] = "start" => status' = "scanning"
        BY <2>1 DEF Overwritten, Word
    <2>6. QED
        BY <1>1, <2>2, <2>3, <2>4, <2>5
           DEF OthersStay, ShownInv, EngagedInv
<1>5. CASE StartController(t) \/ UndoStart(t)
    <2>1. /\ job[t] = "start" /\ at[t] \in {"lcd", "controller"}
          /\ at[t] = "controller" => reply[t] # "ok"
          /\ UNCHANGED status
          /\ Continue(t, "start", "controller") \/ Continue(t, "undo", "open")
        BY <1>5 DEF StartController, UndoStart, Answered, Working
    <2>2. job'[t] \in {"start", "undo"} /\ at'[t] \in {"controller", "open"}
        BY <2>1, ContinueEffect DEF Job, OperatorJob, Place
    <2>3. QED
        BY <1>3, <2>1, <2>2 DEF Engaged
<1>6. CASE ShowCaptureFailed(t) \/ ProcessPhotos(t) \/ ShowProcessDone(t)
    <2>1. /\ UNCHANGED status
          /\ \/ Continue(t, "rotation", "lcd")
             \/ Continue(t, "complete", "process")
             \/ Continue(t, "complete", "done")
        BY <1>6 DEF ShowCaptureFailed, ProcessPhotos, ShowProcessDone
    <2>2. /\ job'[t] \in {"rotation", "complete"}
          /\ at'[t] \in {"lcd", "process", "done"}
        BY <2>1, ContinueEffect DEF Job, Place
    <2>3. QED
        BY <1>3, <2>1, <2>2 DEF Engaged
<1>7. CASE ScanStarted(t) \/ SavePhoto(t) \/ DropPhoto(t) \/ Finish(t)
    <2>1. Return(t) /\ UNCHANGED status
        BY <1>7 DEF ScanStarted, SavePhoto, DropPhoto, Finish
    <2>2. job'[t] = "none" /\ at'[t] = "none"
        BY <2>1, ReturnEffect
    <2>3. QED
        BY <1>3, <2>1, <2>2 DEF Engaged
<1>8. ~OpenStatusFile(t) /\ ~AbortCamera(t) /\ ~BoardsAborted(t)
    BY DEF OpenStatusFile, AbortCamera, BoardsAborted, Answered, Working,
           ShownInv, EngagedInv
<1>9. QED
    BY <1>4, <1>5, <1>6, <1>7, <1>8 DEF ThreadStep

\* No start is accepted while a thread is about to write to the file, and
\* none while the status is "scanning": so nobody is engaged.
LEMMA OperatorRequestShown ==
    ASSUME ServerTypeOK, ShownInv, NEW t \in Thread, OperatorRequest(t),
           UNCHANGED is_scanning,
           "preempted" \notin Faults, "abort" \notin Commands
    PROVE  ShownInv'
<1>1. Idle(t) /\ UNCHANGED status
    BY DEF OperatorRequest, StartScan, AbortScan, ControlMotor, CaptureSingle,
           Asked
<1>2. PICK j \in {"start", "motor", "single"},
           place \in {"open", "controller", "camera"} :
          /\ j = "start" <=> place = "open"
          /\ place = "controller" => j = "motor"
          /\ Continue(t, j, place)
    BY DEF OperatorRequest, StartScan, AbortScan, ControlMotor, CaptureSingle,
           Asked
<1>3. /\ \/ calls' = calls
         \/ /\ Outgoing(t, j, place) \in Call
            /\ Outgoing(t, j, place).from = t
            /\ calls' = Append(calls, Outgoing(t, j, place))
      /\ job'[t] = j /\ at'[t] = place /\ OthersStay(t)
    BY <1>2, ContinueEffect, OutgoingIsFrom DEF Job, OperatorJob, Place
<1>4. StartsAreAwaited(calls')
    <2>1. calls \in Seq(Call) /\ StartsAreAwaited(calls) /\ t # "controller"
        BY ThreadAssumption DEF ServerTypeOK, ShownInv, ThreadAssumption
    <2>2. QED
        BY <1>3, <2>1, AppendStartsAwaited
<1>5. CASE j = "start"
    <2>1. status # "scanning" /\ \A u \in Thread : at[u] # "open"
        <3>1. StartScan(t)
            BY <1>2, <1>3, <1>5, ContinueEffect
               DEF OperatorRequest, StartScan, AbortScan, ControlMotor,
                   CaptureSingle, Asked, Job, OperatorJob, Place
        <3>2. QED
            BY <3>1 DEF StartScan, Asked
    <2>2. ~is_scanning /\ \A u \in Thread : ~Engaged(u)
        BY <2>1 DEF ShownInv, EngagedInv
    <2>3. \A u \in Thread : Engaged(u)' => u = t
        BY <1>3, <2>2 DEF OthersStay, Engaged
    <2>4. EngagedInv'
        BY <1>2, <1>3, <1>5, <2>2, <2>3 DEF OthersStay, ShownInv, EngagedInv
    <2>5. QED
        BY <1>4, <2>4 DEF ShownInv
<1>6. CASE j # "start"
    <2>1. ~Engaged(t)'
        BY <1>2, <1>3, <1>6 DEF Engaged
    <2>2. EngagedInv'
        BY <1>1, <1>2, <1>3, <1>6, <2>1, EngagedStays
           DEF OthersStay, ShownInv, EngagedInv, Engaged
    <2>3. QED
        BY <1>4, <2>2 DEF ShownInv
<1>7. QED
    BY <1>5, <1>6

\* A call of a thread is over, other than by "ok" for a start.
LEMMA CallOverShown ==
    ASSUME ServerTypeOK, CallsInv, ShownInv, NEW i \in DOMAIN calls,
           NEW answer \in Reply \ {"none"}, reply' = Replied(i, answer),
           UNCHANGED <<status, job, at>>, is_scanning' => is_scanning,
           StartsAreAwaited(calls')
    PROVE  ShownInv'
<1>1. \A t \in Thread : reply'[t] = "ok" \/ reply'[t] = reply[t]
                            \/ reply[t] = "none"
    BY DEF CallsInv, Matched, Replied, ServerTypeOK
<1>2. \A t \in Thread : Engaged(t)' => Engaged(t)
    BY <1>1 DEF Engaged
<1>3. EngagedInv'
    BY <1>2, EngagedStays DEF ShownInv, EngagedInv
<1>4. QED
    BY <1>3 DEF ShownInv

\* The controller starts: the status is "scanning", and the thread that had
\* it written is the one it answers.
LEMMA StartServedShows ==
    ASSUME ServerTypeOK, CallsInv, ShownInv, NEW i \in DOMAIN calls,
           calls[i] \in Starts, calls' = Served(i), reply' = Replied(i, "ok"),
           UNCHANGED <<status, job, at>>
    PROVE  ShownInv'
<1> DEFINE t == calls[i].from
<1>1. /\ t \in Thread /\ job[t] = "start" /\ at[t] = "controller"
      /\ Engaged(t)
    BY StartIsOfAThread DEF ShownInv, Working
<1>2. /\ reply'[t] = "ok"
      /\ \A u \in Thread : u # t => reply'[u] = reply[u]
    BY <1>1 DEF Replied, ServerTypeOK
<1> HIDE DEF t
<1>3. status = "scanning" /\ \A u \in Thread : u # t => ~Engaged(u)
    BY <1>1 DEF ShownInv, EngagedInv
<1>4. \A u \in Thread : ~Engaged(u)'
    BY <1>1, <1>2, <1>3 DEF Engaged
<1>5. EngagedInv'
    BY <1>3, <1>4 DEF ShownInv, EngagedInv
<1>6. StartsAreAwaited(calls')
    BY RemoveStartsAwaited DEF ShownInv, Served, ServerTypeOK
<1>7. QED
    BY <1>5, <1>6 DEF ShownInv


\* A post of the camera comes after everything else; the controller posts
\* while it scans, when nobody waits for a start.
LEMMA ReceiveStartsAwaited ==
    ASSUME ServerTypeOK, NEW t \in Thread, NEW board \in Board,
           NEW kind \in ServerRequest, NEW place \in Place,
           place # "controller",
           NEW before \in Seq(Call), NEW answers \in [Thread -> Reply],
           Receive(t, board, kind, place, before, answers),
           StartsAreAwaited(before),
           board = "controller" => Absent(before, Starts)
    PROVE  StartsAreAwaited(calls')
<1> DEFINE post == Request(board, t, kind)
           queued == Append(before, post)
<1>1. /\ post \in Call /\ queued \in Seq(Call)
      /\ \/ calls' = queued
         \/ /\ place \in Calling
            /\ Outgoing(t, kind, place) \in Call
            /\ calls' = Append(queued, Outgoing(t, kind, place))
    BY ReceiveEffect
<1>2. CASE board = "controller"
    BY <1>2, ReceiveNoStart, NoStartIsAwaited DEF NoNewStart
<1>3. CASE board = "camera"
    <2>1. post.from = "camera" /\ post \notin Starts
        BY <1>3 DEF Request, Starts, ServerRequest
    <2>2. StartsAreAwaited(queued)
        BY <1>1, <2>1, AppendStartsAwaited
    <2> HIDE DEF queued
    <2>3. place \in Calling => /\ Outgoing(t, kind, place).from = t
                               /\ t # "controller"
        BY OutgoingIsFrom, ThreadAssumption DEF ThreadAssumption
    <2>4. QED
        BY <1>1, <2>2, <2>3, AppendStartsAwaited
<1>4. QED
    BY <1>2, <1>3 DEF Board

\* A post other than scan_complete engages nobody.
LEMMA ReceiveEngages ==
    ASSUME ServerTypeOK, EngagedInv, NEW t \in Thread, NEW board \in Board,
           NEW kind \in ServerRequest, NEW place \in {"camera", "lcd"},
           NEW before \in Seq(Call), NEW answers \in [Thread -> Reply],
           Receive(t, board, kind, place, before, answers),
           \A u \in Thread : answers[u] = reply[u] \/ reply[u] = "none",
           is_scanning' => is_scanning
    PROVE  EngagedInv'
<1>1. "camera" \in Place /\ "lcd" \in Place
    BY DEF Place
<1>2. /\ job'[t] = kind /\ at'[t] = place
      /\ \A u \in Thread : u # t => /\ job'[u] = job[u]
                                    /\ at'[u] = at[u]
                                    /\ reply'[u] = answers[u]
    BY <1>1, ReceiveEffect
<1>3. ~Engaged(t)' /\ kind # "abort"
    BY <1>2 DEF Engaged, ServerRequest
<1>4. \A u \in Thread : u # t /\ Engaged(u)' => Engaged(u)
    BY <1>2 DEF Engaged
<1>5. UNCHANGED status
    BY DEF Receive
<1>6. QED
    BY <1>2, <1>3, <1>4, <1>5, EngagedStays DEF EngagedInv

LEMMA ControllerMovesShown ==
    ASSUME ControllerInv, ServerTypeOK, CallsInv, ShownInv, ControllerMoves,
           "slow" \notin Faults
    PROVE  ShownInv'
<1>1. calls \in Seq(Call) /\ reply \in [Thread -> Reply]
    BY DEF ServerTypeOK
<1>2. ASSUME NEW i \in DOMAIN calls, ControllerServes(i)
      PROVE  ShownInv'
    <2>1. StartsAreAwaited(Served(i)) /\ calls[i].to = "controller"
        BY <1>1, <1>2, RemoveStartsAwaited
           DEF ControllerServes, NextFor, Served, ShownInv
    <2>2. ASSUME calls[i].kind = "start", HandleStartRotation,
                 AnswerGoesOut(i, "ok")
          PROVE  ShownInv'
        <3>1. calls[i] \in Starts
            BY <2>1, <2>2, CallAt DEF Starts
        <3>2. QED
            BY <2>2, <3>1, StartServedShows DEF AnswerGoesOut
    <2>3. ASSUME NEW answer \in {"ok", "refused"}, AnswerGoesOut(i, answer),
                 is_scanning' => is_scanning
          PROVE  ShownInv'
        <3>1. /\ calls' = Served(i) /\ reply' = Replied(i, answer)
              /\ UNCHANGED <<status, job, at>>
            BY <2>3 DEF AnswerGoesOut
        <3>2. QED
            BY <2>1, <2>3, <3>1, CallOverShown DEF Reply
    <2>4. /\ HandleUnchanged \/ RefuseStartRotation => UNCHANGED is_scanning
          /\ HandleAbort \/ HandleMotorControl =>
                 (is_scanning' => is_scanning)
        BY DEF HandleUnchanged, RefuseStartRotation, HandleAbort,
               HandleMotorControl
    <2>5. \/ calls[i].kind = "start" /\ HandleStartRotation
               /\ AnswerGoesOut(i, "ok")
          \/ /\ is_scanning' => is_scanning
             /\ \E answer \in {"ok", "refused"} : AnswerGoesOut(i, answer)
        BY <1>2, <2>4 DEF ControllerServes
    <2>6. QED
        BY <2>2, <2>3, <2>5
<1>3. ASSUME UNCHANGED serverVars, is_scanning' => is_scanning
      PROVE  ShownInv'
    BY <1>3
       DEF serverVars, ShownInv, EngagedInv, Engaged, StartsAreAwaited, Ordered
<1>4. CASE ControllerPolls \/ ControllerNextStep \/ ControllerDone
    BY <1>3, <1>4
       DEF ControllerPolls, PollNothing, ControllerNextStep, NextStep,
           ControllerDone, CompletePosted
<1>5. /\ "controller" \in Board
      /\ "rotation" \in ServerRequest /\ "complete" \in ServerRequest
      /\ "camera" \in Place /\ "open" \in Place
    BY DEF Board, ServerRequest, Place
<1>6. CASE ControllerStep
    <2>1. is_scanning /\ UNCHANGED is_scanning
        BY <1>6 DEF ControllerStep, ScanStep
    <2>2. Absent(calls, Starts)
        BY <2>1, ScanningNoStarts
    <2>3. ASSUME NEW t \in Thread,
                 Receive(t, "controller", "rotation", "camera", calls, reply)
          PROVE  ShownInv'
        <3>1. StartsAreAwaited(calls')
            BY <1>1, <1>5, <2>2, <2>3, ReceiveStartsAwaited DEF ShownInv
        <3>2. EngagedInv'
            BY <1>1, <1>5, <2>1, <2>3, ReceiveEngages DEF ShownInv
        <3>3. QED
            BY <3>1, <3>2 DEF ShownInv
    <2>4. QED
        BY <1>3, <1>6, <2>1, <2>3 DEF ControllerStep
<1>7. CASE ControllerLastStep
    <2>1. is_scanning /\ ~is_scanning'
        BY <1>7
           DEF ControllerLastStep, LastStep, ControllerInv,
               AnnouncedAngleIsRight
    <2>2. Absent(calls, Starts) /\ \A u \in Thread : ~Engaged(u)
        BY <2>1, ScanningNoStarts DEF ShownInv, EngagedInv
    <2>3. ASSUME NEW t \in Thread,
                 Receive(t, "controller", "complete", "open", calls, reply)
          PROVE  ShownInv'
        <3>1. StartsAreAwaited(calls')
            BY <1>1, <1>5, <2>2, <2>3, ReceiveStartsAwaited DEF ShownInv
        <3>2. /\ job'[t] = "complete" /\ at'[t] = "open"
              /\ \A u \in Thread : u # t => /\ job'[u] = job[u]
                                            /\ at'[u] = at[u]
                                            /\ reply'[u] = reply[u]
            BY <1>1, <1>5, <2>3, ReceiveEffect
        <3>3. \A u \in Thread : Engaged(u)' => u = t
            BY <2>2, <3>2 DEF Engaged
        <3>4. EngagedInv'
            BY <2>1, <3>2, <3>3 DEF ShownInv, EngagedInv
        <3>5. QED
            BY <3>1, <3>4 DEF ShownInv
    <2>4. QED
        BY <1>3, <1>7, <2>1, <2>3 DEF ControllerLastStep
<1>8. QED
    BY <1>2, <1>4, <1>6, <1>7 DEF ControllerMoves

LEMMA CameraMovesShown ==
    ASSUME ServerTypeOK, CallsInv, ShownInv, CameraMoves
    PROVE  ShownInv'
<1> SUFFICES ASSUME NEW i \in DOMAIN calls, CameraServes(i)
             PROVE  ShownInv'
    BY DEF CameraMoves
<1>1. calls \in Seq(Call) /\ UNCHANGED is_scanning
    BY DEF ServerTypeOK, CameraServes, controllerVars
<1>2. StartsAreAwaited(Served(i)) /\ Served(i) \in Seq(Call)
    BY <1>1, RemoveStartsAwaited, RemoveAtProperties DEF Served, ShownInv
<1>3. PICK answer \in Reply \ {"none"} :
         \/ /\ calls' = Served(i) /\ reply' = Replied(i, answer)
            /\ UNCHANGED <<status, job, at>>
         \/ \E t \in Thread : Receive(t, "camera", "captured", "lcd",
                                      Served(i), Replied(i, answer))
    BY DEF CameraServes, HandleCapture, CaptureFails, HandleCameraAbort,
           AnswerGoesOut, Reply
<1>4. ASSUME NEW t \in Thread,
             Receive(t, "camera", "captured", "lcd",
                     Served(i), Replied(i, answer))
      PROVE  ShownInv'
    <2>1. Replied(i, answer) \in [Thread -> Reply]
        BY AnsweredTypes
    <2>2. \A u \in Thread : \/ Replied(i, answer)[u] = reply[u]
                            \/ reply[u] = "none"
        BY DEF Replied, ServerTypeOK, CallsInv, Matched
    <2>3. /\ "camera" \in Board /\ "captured" \in ServerRequest
          /\ "lcd" \in Place
        BY DEF Board, ServerRequest, Place
    <2>4. StartsAreAwaited(calls')
        BY <1>2, <1>4, <2>1, <2>3, ReceiveStartsAwaited
    <2>5. EngagedInv'
        BY <1>1, <1>2, <1>4, <2>1, <2>2, <2>3, ReceiveEngages DEF ShownInv
    <2>6. QED
        BY <2>4, <2>5 DEF ShownInv
<1>5. QED
    BY <1>1, <1>2, <1>3, <1>4, CallOverShown

LEMMA GiveUpShown ==
    ASSUME ServerTypeOK, CallsInv, ShownInv, NEW caller \in Caller,
           GiveUp(caller), "slow" \notin Faults
    PROVE  ShownInv'
<1>1. PICK i \in DOMAIN calls :
         /\ \/ calls' = Served(i)
            \/ /\ calls' = LeftBehind(i)
               /\ calls[i].kind \in BoardRequest \ {"lcd"}
         /\ reply' = Replied(i, "failed")
         /\ UNCHANGED <<status, job, at, is_scanning>>
         /\ LongestStuck(i, Processing) \/ calls[i].kind = "lcd"
    BY GiveUpEffect DEF controllerVars
<1>2. calls' = Served(i) => StartsAreAwaited(calls')
    BY RemoveStartsAwaited DEF Served, ShownInv, ServerTypeOK
<1>3. ASSUME calls' = LeftBehind(i), calls[i].kind \in BoardRequest \ {"lcd"}
      PROVE  StartsAreAwaited(calls')
    <2>1. calls[i] \notin Starts
        BY <1>1, StartDoesNotGiveUp DEF ShownInv
    <2>2. QED
        BY <1>3, <2>1, LeftBehindStartsAwaited DEF ShownInv
<1>4. QED
    BY <1>1, <1>2, <1>3, CallOverShown DEF Reply

\* While the controller scans the status says so (scan_manager.py:28-58,
\* 80-81): start_scan writes "scanning" before it tells the controller to
\* start, and nothing else is written until scan_complete.  It takes that
\* the file is opened and written in one go, that no answer is slow of
\* itself, and that nobody asks for an abort.  The runs double_start and
\* shown_after_abort show how two starts at once, and an abort that times out
\* and comes late to the controller, break it.
THEOREM ScanStatusIsShown ==
    ASSUME Faults \cap {"slow", "preempted"} = {}, "abort" \notin Commands
    PROVE  Spec => []ScanningIsShown
<1>1. Init => ShownInv
    BY DEF Init, ServerInit, ControllerInit, ShownInv, EngagedInv, Engaged,
           StartsAreAwaited, Ordered
<1>2. ScannerInv /\ ShownInv /\ [Next]_vars => ShownInv'
    <2> SUFFICES ASSUME ScannerInv, ShownInv, [Next]_vars
                 PROVE  ShownInv'
        OBVIOUS
    <2> USE DEF ScannerInv
    <2>1. CASE ControllerMoves
        BY <2>1, ControllerMovesShown
    <2>2. CASE CameraMoves
        BY <2>2, CameraMovesShown
    <2>3. CASE ServerMoves
        BY <2>3, ThreadStepShown DEF ServerMoves, controllerVars
    <2>4. CASE OperatorMoves
        BY <2>4, OperatorRequestShown DEF OperatorMoves, controllerVars
    <2>5. CASE \E caller \in Caller : GiveUp(caller)
        BY <2>5, GiveUpShown
    <2>6. CASE UNCHANGED vars
        BY <2>6
           DEF vars, serverVars, controllerVars, ShownInv, EngagedInv,
               Engaged, StartsAreAwaited, Ordered
    <2>7. QED
        BY <2>1, <2>2, <2>3, <2>4, <2>5, <2>6 DEF Next
<1>3. ShownInv => ScanningIsShown
    BY DEF ShownInv, EngagedInv, ScanningIsShown
<1>4. QED
    BY <1>1, <1>2, <1>3, ScannerInvHolds, PTL DEF Spec
=============================================================================
