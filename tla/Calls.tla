------------------------------- MODULE Calls -------------------------------
(***************************************************************************)
(* The blocking HTTP requests between the server's threads and the boards. *)
(* Every party waits for the answer of at most one request, so a request   *)
(* under way is named by who waits for it and whom it was sent to.  They   *)
(* are kept in the order they were sent: a board serves its own in that    *)
(* order, and the five-second timeouts, equal everywhere, expire in it.    *)
(***************************************************************************)
EXTENDS Naturals, Sequences, FiniteSets, SequencesExt

CONSTANTS
    Thread,     \* the server's request threads
    MaxOrphans  \* bound on requests left behind by callers who gave up

ASSUME MaxOrphansAssumption == MaxOrphans \in Nat
ASSUME ThreadAssumption ==
    IsFiniteSet(Thread) /\ Thread \cap {"controller", "camera", "gone"} = {}

Board == {"controller", "camera"}

BoardRequest == {"lcd", "start", "abort", "motor", "capture"}
ServerRequest == {"rotation", "captured", "complete"}

\* A caller who timed out is gone; its request to a board is still queued
\* there and will be served.
Call ==
    [from : Thread \cup {"gone"}, to : Board, kind : BoardRequest] \cup
    [from : Board, to : Thread, kind : ServerRequest]

VARIABLES
    calls,  \* the requests under way, oldest first
    reply   \* what came of the last call a thread made

Reply == {"none", "ok", "empty", "refused", "failed", "skipped"}

-----------------------------------------------------------------------------
Request(from, to, kind) == [from |-> from, to |-> to, kind |-> kind]

Waiting(party) == \E i \in DOMAIN calls : calls[i].from = party

\* The request a board serves next.
NextFor(board, i) ==
    /\ i \in DOMAIN calls
    /\ calls[i].to = board
    /\ \A j \in DOMAIN calls : calls[j].to = board => i <= j

NothingFor(board) == \A i \in DOMAIN calls : calls[i].to # board

Orphans == {i \in DOMAIN calls : calls[i].from = "gone"}

\* No answer to call i can come unless some caller gives up first: it waits,
\* over other calls, for a party that waits for it, or for a busy one.
Stuck(i, busy) ==
    \E S \in SUBSET DOMAIN calls :
        /\ i \in S
        /\ \A j \in S : \/ calls[j].to \in busy
                        \/ \E k \in S : calls[k].from = calls[j].to

\* Call i has waited longest among those that cannot be answered.
LongestStuck(i, busy) ==
    /\ calls[i].from # "gone"
    /\ Stuck(i, busy)
    /\ \A j \in DOMAIN calls :
           calls[j].from # "gone" /\ Stuck(j, busy) => i <= j

-----------------------------------------------------------------------------
(* What becomes of call i.                                                 *)

Replied(i, answer) == [reply EXCEPT ![calls[i].from] = answer]

Served(i) == RemoveAt(calls, i)

\* The caller gives up; the request stays where it was sent.
LeftBehind(i) == [calls EXCEPT ![i].from = "gone"]

\* The request a thread is answering, if its sender still waits.
Closed(t) ==
    IF \E i \in DOMAIN calls : calls[i].to = t
    THEN RemoveAt(calls, CHOOSE i \in DOMAIN calls : calls[i].to = t)
    ELSE calls
=============================================================================
