------------------------------ MODULE MCPubSub ------------------------------
(* Model checking of PubSub.  Topics are interchangeable. *)
EXTENDS PubSub, TLC

Symmetry == Permutations(Topics)
=============================================================================
