--------------------------- MODULE MCJanusSession ---------------------------
(* Instances of JanusSession for model checking.                           *)
EXTENDS JanusSession
=============================================================================
