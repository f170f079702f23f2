----------------------------- MODULE MCMeshNode -----------------------------
(* A small instance of MeshNode for TLC. *)
EXTENDS MeshNode

\* Exact and wildcard, both standing for the topic of the events.
SomePatterns == {<<"a", "b">>, <<"a", Star>>}
OneTopic == {<<"a", "b">>}
=============================================================================
