----------------------------- MODULE MCPairing -----------------------------
(* Model-checking instance of Pairing: one phone on the local network, one *)
(* behind a tunnel.                                                        *)
EXTENDS Pairing
=============================================================================
