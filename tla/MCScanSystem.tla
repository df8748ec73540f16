---------------------------- MODULE MCScanSystem ----------------------------
(* Values for model-checking ScanSystem.                                   *)
EXTENDS ScanSystem, TLC

Symmetry == Permutations(Thread)

\* What decides how a behaviour goes on.  The other variables say what was
\* photographed and what went wrong; no guard reads them, and a run whose
\* properties do not read them either need not tell their values apart.
Control ==
    <<calls, reply, status, job, at, is_scanning, current_step, ctl>>

NoMoves == {}
Quarter == {<<90, FALSE>>}
=============================================================================
