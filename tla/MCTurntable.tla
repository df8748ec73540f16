---------------------------- MODULE MCTurntable ----------------------------
(* Sets of moves for model-checking Turntable.                             *)
EXTENDS Turntable

\* The six-degree step of a scan.
ScanSteps == {<<6, TRUE>>}

\* Angles that are no whole number of cycles apart, and half a turn back.
OddAngles == {<<0, FALSE>>, <<7, FALSE>>, <<-180, TRUE>>}
=============================================================================
