--------------------------- MODULE MCScanRestarts ---------------------------
(* Values for model-checking ScanRestarts.                                 *)
EXTENDS ScanRestarts

NoMoves == {}
=============================================================================
