------------------------------ MODULE DecisionLog ------------------------------
(***************************************************************************)
(* What the sidecar of quarantine decisions promises, without brokers,     *)
(* locks or crashes: a log that only grows, in which a quarantined         *)
(* occurrence is decided once and an event id is used once.                *)
(***************************************************************************)
EXTENDS QuarantineRecords

VARIABLE log

Init == log = <<>>

\* One fsync of the directory may make several replacements durable.
Grow == /\ log' \in Seq(Events)
        /\ Valid(log')
        /\ Extends(log', log)

Spec == Init /\ [][Grow]_log
=============================================================================
