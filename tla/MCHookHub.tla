---------------------------- MODULE MCHookHub ----------------------------
(* Instances of HookHub for TLC. *)
EXTENDS HookHub

CONSTANTS w1, w2
==========================================================================
