--------------------------- MODULE MCPendingStore ---------------------------
(* Instances of PendingStore for TLC.  r1 and r2 come from the bridge host  *)
(* with the same request id; r1 is dangerous.  p1 is the desktop, p2 a      *)
(* named device without the dangerous right, p3 a body that does not fit.   *)
EXTENDS PendingStore

CONSTANTS r1, r2, r3, p1, p2, p3, w1, s1, s2, h1

MCHome == [r \in Raisers |-> IF r = r3 THEN s2 ELSE s1]
MCWanted == [r \in Raisers |-> IF r \in {r1, r2} THEN h1 ELSE NoId]
MCReason == [w \in Withdrawers |-> "session_stopped"]
=============================================================================
