------------------------------- MODULE MCSSE -------------------------------
(* Small instances of SSEResume for TLC. *)
EXTENDS SSEResume, TLC

CONSTANTS t1, t2, k1

\* One topic under one pattern, and two.
Plain == k1 :> {t1}
Wild == k1 :> {t1, t2}

\* The second event of a topic does not fit the client's scanner.
Second == {<<t1, 1>>}

Symmetry == Permutations(Publishers)
=============================================================================
