----------------------------- MODULE EventStore -----------------------------
(***************************************************************************)
(* What the EventStore port promises the session engine of the log of one  *)
(* session (packages/core/src/ports/event-store.ts): events are kept in    *)
(* the order of their sequences, an event may be kept although its append  *)
(* failed, and an event whose append resolved is kept for good.            *)
(***************************************************************************)
EXTENDS Naturals, Sequences

CONSTANT Event    \* records with a field sequence

VARIABLES log,    \* the events a replay returns
          acked   \* the events whose append resolved

LastSequence == IF log = <<>> THEN 0 ELSE log[Len(log)].sequence

Init == log = <<>> /\ acked = {}

Keep(e) ==
    /\ e.sequence > LastSequence
    /\ log' = Append(log, e)
    /\ UNCHANGED acked

Acknowledge(S) ==
    /\ S \subseteq {log[i] : i \in DOMAIN log}
    /\ acked' = acked \cup S
    /\ UNCHANGED log

Next ==
    \/ \E e \in Event : Keep(e)
    \/ \E S \in SUBSET {log[i] : i \in DOMAIN log} : Acknowledge(S)

Spec == Init /\ [][Next]_<<log, acked>>
=============================================================================
