----------------------------- MODULE MCAcpAgent -----------------------------
(* An instance of AcpAgent for TLC: two calls of session/prompt, one load, *)
(* and one each of a chunk, a failed append and an event of a tool.        *)
EXTENDS AcpAgent
=============================================================================
