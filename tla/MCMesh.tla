------------------------------- MODULE MCMesh -------------------------------
(* Small instances of Mesh for TLC. *)
EXTENDS Mesh

CONSTANTS a, b

\* Two nodes that may dial each other, one by node ID and the other by address,
\* and one of which may have its own address among its seeds; and the two of
\* examples/multi-node.
AnyWay ==
  {[from |-> a, to |-> b, by |-> "peer"], [from |-> b, to |-> a, by |-> "seed"],
   [from |-> a, to |-> a, by |-> "seed"]}
Example == {[from |-> b, to |-> a, by |-> "seed"]}
=============================================================================
