--------------------------- MODULE MCPendingCards ---------------------------
(* Instances of PendingCards for TLC.  Both requests belong to session s1;  *)
(* each gets an id of its own.                                              *)
EXTENDS PendingCards

CONSTANTS r1, r2, r3, p1, p2, p3, w1, s1, s2, h1

MCHome == [r \in Raisers |-> s1]
MCWanted == [r \in Raisers |-> NoId]
MCReason == [w \in Withdrawers |-> "answered_elsewhere"]
=============================================================================
