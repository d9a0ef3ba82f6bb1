---------------------------- MODULE MCTransfer -----------------------------
(* Model-checking instance of Transfer: a transcript and a side file.      *)
EXTENDS Transfer
=============================================================================
