--------------------------- MODULE MCOwnedSwitch ---------------------------
(* Model-checking instance of OwnedSwitch: two messages, and up to three   *)
(* of two requests to switch, two to continue and one to stop.             *)
EXTENDS OwnedSwitch, TLC

CONSTANTS m1, m2, MaxRequests

MessageSymmetry == Permutations({m1, m2})

Asked == Cardinality({s \in Requests : sw[s].pc # "idle"})
         + Cardinality({c \in Conts : cont[c].pc # "idle"})
         + (IF stop = "idle" THEN 0 ELSE 1)

\* Bound: what is asked of the session in one behaviour; a second failure only
\* where less is asked.
FewRequests == Asked <= MaxRequests /\ (fails > 1 => Asked < MaxRequests)
=============================================================================
