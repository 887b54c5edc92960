----------------------------- MODULE RpcChannel -----------------------------
(***************************************************************************)
(* What a ChildHandle promises its callers: every request waits until it   *)
(* is answered or rejected, once; when the process has exited all that     *)
(* wait are rejected at once and nothing waits ever after.                 *)
(***************************************************************************)
CONSTANT Requests

VARIABLES up, status

rpcVars == <<up, status>>

RpcInit ==
    /\ up = TRUE
    /\ status = [r \in Requests |-> "new"]

Waiting == {r \in Requests : status[r] = "waiting"}

Ask(r) ==
    /\ status[r] = "new"
    /\ status' = [status EXCEPT ![r] = IF up THEN "waiting" ELSE "rejected"]
    /\ UNCHANGED up

Answer(r) ==
    /\ r \in Waiting
    /\ status' = [status EXCEPT ![r] = "answered"]
    /\ UNCHANGED up

Down ==
    /\ up
    /\ up' = FALSE
    /\ status' = [r \in Requests |-> IF r \in Waiting THEN "rejected" ELSE status[r]]

RpcNext == Down \/ \E r \in Requests : Ask(r) \/ Answer(r)

RpcSpec == RpcInit /\ [][RpcNext]_rpcVars
=============================================================================
