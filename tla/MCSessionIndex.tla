---------------------------- MODULE MCSessionIndex ----------------------------
(* Instances of SessionIndex for TLC: one session - rows of two sessions share *)
(* nothing but the transaction - with every log of up to four events, two      *)
(* rebuilds that may overlap, two calls of apply or applyMany for any event of *)
(* the log, and one reset or crash.                                            *)
EXTENDS SessionIndex
=============================================================================
