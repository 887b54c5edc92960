--------------------------- MODULE MCSessionManager ---------------------------
(* Instances of SessionManager for TLC: two session ids and three processes,  *)
(* so that one id can be loaded three times, or beside another session.       *)
EXTENDS SessionManager
=============================================================================
