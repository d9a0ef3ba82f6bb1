---------------------------- MODULE MCEventLog ----------------------------
(* Instances of EventLog for TLC. *)
EXTENDS EventLog

CONSTANT s1
===========================================================================
