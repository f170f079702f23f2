---------------------------- MODULE MCEventLogs ----------------------------
(* A small instance of both event logs for TLC. *)
EXTENDS EventLogBackend
=============================================================================
