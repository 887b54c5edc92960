----------------------------- MODULE MCEventLog -----------------------------
(* Instances of EventLog for TLC: three events in batches of at most two,  *)
(* every order of three sequence numbers, any cut and any crash.           *)
EXTENDS EventLog
=============================================================================
