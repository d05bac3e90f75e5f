--------------------------- MODULE MCPublication ---------------------------
(* The instance of Publication that TLC checks.  The run states liveness,   *)
(* so it uses no symmetry.                                                  *)
EXTENDS Publication
=============================================================================
