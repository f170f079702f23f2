------------------------------- MODULE MCGossip -------------------------------
(* Small instances of InterestGossip for TLC. *)
EXTENDS InterestGossip
=============================================================================
