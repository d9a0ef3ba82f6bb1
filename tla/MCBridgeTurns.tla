---------------------------- MODULE MCBridgeTurns ----------------------------
(* Instances of BridgeTurns for TLC. *)
EXTENDS BridgeTurns

CONSTANTS t1, t2, s1, i1, w1

\* Who names which turn: a steer and an interrupt of the first one.
MCNames == [c \in Steers \cup Interrupts |-> t1]
=============================================================================
