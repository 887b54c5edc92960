----------------------------- MODULE MCToolTurn -----------------------------
(* Instances of ToolTurn for TLC: two calls of any tool under          *)
(* DEFAULT_POLICY (packages/permissions/src/index.ts).                     *)
EXTENDS ToolTurn

\* read_file is allowed, shell is asked for; git stands here for git_diff, a
\* process the policy allows.
DefaultPolicy ==
    [shell |-> "ask", git |-> "allow", read |-> "allow", unknown |-> "ask"]
=============================================================================
