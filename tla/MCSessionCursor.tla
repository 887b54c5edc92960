---------------------------- MODULE MCSessionCursor ----------------------------
(* Instances of SessionCursor for TLC: a client that reads as handleEvents    *)
(* does beside one that takes its time, and a ring the events outgrow.        *)
EXTENDS SessionCursor
=============================================================================
