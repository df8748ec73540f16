------------------------- MODULE MCControllerAlone -------------------------
(* Values for model-checking ControllerAlone with the firmware's 60 steps. *)
EXTENDS ControllerAlone

\* A home move, a quarter turn either way and a full turn.
SomeMoves == {<<0, FALSE>>, <<90, TRUE>>, <<-90, TRUE>>, <<360, TRUE>>}
=============================================================================
