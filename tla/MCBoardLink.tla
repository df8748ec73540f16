---------------------------- MODULE MCBoardLink ----------------------------
(* Values for model-checking BoardLink: a tick is five seconds.            *)
EXTENDS BoardLink

Tokens == 1 .. 8
=============================================================================
