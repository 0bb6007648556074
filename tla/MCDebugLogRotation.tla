------------------------- MODULE MCDebugLogRotation -------------------------
(* TLC instance of DebugLogRotation: six events, files due at two. *)
EXTENDS DebugLogRotation
=============================================================================
