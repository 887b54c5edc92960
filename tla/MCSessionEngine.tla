--------------------------- MODULE MCSessionEngine ---------------------------
(* Instances of SessionEngine for TLC: two turns, a few chunks, one or two *)
(* failed appends and up to two events of tool handlers.                   *)
EXTENDS SessionEngine
=============================================================================
