---------------------------- MODULE ScanRestarts ----------------------------
(***************************************************************************)
(* The scanner of ScanSystem when its parts restart in the middle of       *)
(* things: a board that loses its power or calls ESP.restart (after a      *)
(* heartbeat and a registration that failed, see BoardLink), the server    *)
(* that is stopped and started.  All of them forget what they were doing;  *)
(* .scan_status and the photos are files and stay.                         *)
(*                                                                         *)
(* What follows a restart until the board is registered again is what      *)
(* Faults names: is_alive is false ("dead"), tokens do not match           *)
(* ("refused").                                                            *)
(***************************************************************************)
EXTENDS ScanSystem

CONSTANT MaxRestarts    \* bound on the restarts of a behaviour

ASSUME MaxRestartsAssumption == MaxRestarts \in Nat

VARIABLE restarts       \* restarts so far

restartVars == <<vars, restarts>>

Restarting == restarts < MaxRestarts /\ restarts' = restarts + 1

-----------------------------------------------------------------------------
\* Connections of a board end with it: its own post is forgotten, and so are
\* the requests queued at it, whose callers get an error.
BoardsCallsEnd(board) ==
    /\ calls' = SelectSeq(calls, LAMBDA c : board \notin {c.from, c.to})
    /\ reply' = [t \in Thread |->
           IF \E i \in DOMAIN calls : calls[i].from = t /\ calls[i].to = board
           THEN "failed"
           ELSE reply[t]]
    /\ UNCHANGED <<status, job, at, step, shot, errors, uploads>>

ControllerRestarts ==
    /\ Restarting
    /\ Restart
    /\ BoardsCallsEnd("controller")

\* The camera keeps nothing between requests.
CameraRestarts ==
    /\ Restarting
    /\ BoardsCallsEnd("camera")
    /\ UNCHANGED controllerVars

-----------------------------------------------------------------------------
\* The requests at the positions in S, whose callers are no more.
Abandoned(S) ==
    LET order == SetToSortSeq(S, <)
    IN  [k \in DOMAIN order |-> [calls[order[k]] EXCEPT !.from = "gone"]]

\* The threads are gone.  Of what they had asked of the boards some may have
\* arrived, and will be served; the boards' own posts come to nothing.  The
\* status file stays as it is.
ServerRestarts ==
    /\ Restarting
    /\ \E lost \in SUBSET {i \in DOMAIN calls : calls[i].from \in Thread} :
           LET kept == {i \in DOMAIN calls : calls[i].to \in Board} \ lost
           IN  /\ Cardinality(kept) <= MaxOrphans
               /\ calls' = Abandoned(kept)
    /\ reply' = [t \in Thread |-> "none"]
    /\ job' = [t \in Thread |-> "none"]
    /\ at' = [t \in Thread |-> "none"]
    /\ step' = [t \in Thread |-> 0]
    /\ shot' = [t \in Thread |-> 0]
    /\ errors' = [t \in Thread |-> FALSE]
    /\ UNCHANGED <<status, uploads, controllerVars>>

-----------------------------------------------------------------------------
RestartInit == Init /\ restarts = 0

\* Flask makes a thread for each request.  The model's threads are alike, and
\* the first that is free stands for the new one.
TakenInOrder ==
    LET row == SetToSeq(Thread)
    IN  \A i \in DOMAIN row :
            Idle(row[i]) /\ job'[row[i]] # "none" =>
                \A j \in 1 .. i - 1 : ~Idle(row[j])

RestartNext ==
    \/ Next /\ TakenInOrder /\ UNCHANGED restarts
    \/ ControllerRestarts
    \/ CameraRestarts
    \/ ServerRestarts

AskToAbort == \E t \in Thread : AbortScan(t) /\ UNCHANGED controllerVars

\* As long as a thread or a board can go on, or a timeout can expire, one of
\* them does: less than FairSpec asks for, and enough.  And an operator who
\* wants to be rid of a scan asks for the abort while the status says
\* "scanning".
GoesOn ==
    \/ ServerMoves
    \/ CameraMoves
    \/ ControllerMoves
    \/ \E caller \in Caller : GiveUp(caller)

RestartSpec ==
    /\ RestartInit
    /\ [][RestartNext]_restartVars
    /\ WF_vars(GoesOn)
    /\ WF_vars(AskToAbort)

-----------------------------------------------------------------------------
\* A status "scanning" that a restart left behind, so that no scan_complete
\* will ever come, can be got rid of: the abort is accepted (the status is all
\* that is asked), and it ends although the boards may be gone or turn it down
\* (scan_manager.py:90-98).
LeftoverScanCanBeEnded == status = "scanning" ~> status # "scanning"

\* The table does not turn for ever, whoever restarts while it does: a post
\* that nobody answers does not stop the scan, and the scan ends by itself.
TableStops == is_scanning ~> ~is_scanning
=============================================================================
