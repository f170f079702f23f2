--------------------------- MODULE MCNodeLifecycle ---------------------------
(* A small instance of NodeLifecycle for TLC. *)
EXTENDS NodeLifecycle
=============================================================================
