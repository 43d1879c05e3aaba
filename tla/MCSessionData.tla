--------------------------- MODULE MCSessionData ---------------------------
(* Instances of SessionData for TLC. *)
EXTENDS SessionData
=============================================================================
