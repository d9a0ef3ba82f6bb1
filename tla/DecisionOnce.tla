---------------------------- MODULE DecisionOnce ----------------------------
(***************************************************************************)
(* What the pending-decision store (src/src-tauri/src/pending.rs) promises *)
(* to everyone who raises a request, whatever its locks and awaits do: a   *)
(* request is opened once, settled once -- by one answer or by a           *)
(* withdrawal -- and what is announced about it is how it was settled.     *)
(***************************************************************************)
CONSTANTS
  Raisers,     \* the requests, one per call of raise
  Responders   \* the calls that may answer one

VARIABLES
  outcome,     \* "none", "open", the responder whose answer it took, or "withdrawn"
  announced    \* what clients were told: "none", a responder, or "withdrawn"

absVars == <<outcome, announced>>

Settled == Responders \cup {"withdrawn"}

Init ==
  /\ outcome = [r \in Raisers |-> "none"]
  /\ announced = [r \in Raisers |-> "none"]

Open(r) ==
  /\ outcome[r] = "none"
  /\ outcome' = [outcome EXCEPT ![r] = "open"]
  /\ UNCHANGED announced

Settle(r) ==
  /\ outcome[r] = "open"
  /\ \E o \in Settled : outcome' = [outcome EXCEPT ![r] = o]
  /\ UNCHANGED announced

Announce(r) ==
  /\ outcome[r] \in Settled
  /\ announced[r] = "none"
  /\ announced' = [announced EXCEPT ![r] = outcome[r]]
  /\ UNCHANGED outcome

Next == \E r \in Raisers : Open(r) \/ Settle(r) \/ Announce(r)

Spec == Init /\ [][Next]_absVars
=============================================================================
