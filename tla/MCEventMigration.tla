-------------------------- MODULE MCEventMigration --------------------------
(* Constants of the TLC runs of EventMigration. *)
EXTENDS EventMigration

MCOneVector == {48}
MCFewExc == {8, 14}
=============================================================================
