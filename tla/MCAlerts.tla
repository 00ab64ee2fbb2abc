------------------------------ MODULE MCAlerts ------------------------------
(* Small instances of the event log and the watcher for TLC. *)
EXTENDS Watcher, TLC

CONSTANTS p1, i1, i2

MCOf == [i \in Item |-> p1]
\* i1 is a session window: only a rise from level 0 is wanted; i2 a weekly one.
MCKind == [i \in Item |-> IF i = i1 THEN "session" ELSE "weekly"]
=============================================================================
