----------------------------- MODULE ScanCycle -----------------------------
(***************************************************************************)
(* What the controller promises about a scan, with nothing of how it gets  *)
(* there: a scan counts its exposures one at a time, ends by itself after  *)
(* the last one, and can be stopped at any time before.                    *)
(***************************************************************************)
EXTENDS Naturals

CONSTANT STEPS     \* exposures of a scan, at least one

VARIABLES
    active,     \* a scan is running
    taken       \* exposures made in it

cycle == <<active, taken>>

Init == active = FALSE /\ taken = 0

Begin == ~active /\ active' = TRUE /\ taken' = 0

Advance ==
    /\ active
    /\ taken + 1 < STEPS
    /\ taken' = taken + 1
    /\ UNCHANGED active

Finish ==
    /\ active
    /\ taken + 1 = STEPS
    /\ active' = FALSE
    /\ taken' = 0

Stop == active /\ active' = FALSE /\ taken' = 0

Next == Begin \/ Advance \/ Finish \/ Stop

Safe == Init /\ [][Next]_cycle

Spec == Safe /\ WF_cycle(Advance \/ Finish)
=============================================================================
