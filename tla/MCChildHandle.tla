---------------------------- MODULE MCChildHandle ----------------------------
(* ChildHandle as it stands; the bounds are in the configurations.           *)
EXTENDS ChildHandle
=============================================================================
