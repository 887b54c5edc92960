----------------------------- MODULE MCModelTurn -----------------------------
(* An instance of ModelTurn for TLC: one turn with two rounds of tools, the  *)
(* first with two calls.                                                     *)
EXTENDS ModelTurn
=============================================================================
