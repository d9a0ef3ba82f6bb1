--------------------------- MODULE MCHookPrompts ---------------------------
(* Instances of HookPrompts for TLC.  The main thread makes c1; c2 is made  *)
(* by the main thread or by a subagent, and a hook rewrites its input.      *)
EXTENDS HookPrompts

CONSTANTS c1, c2, a1

MCMakers == [c \in Calls |-> IF c = c1 THEN {Main} ELSE {Main, a1}]
MCPreKey == [c \in Calls |-> IF c = c1 THEN 1 ELSE 2]
MCAskKey == [MCPreKey EXCEPT ![c2] = 3]
=============================================================================
