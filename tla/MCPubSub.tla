------------------------------ MODULE MCPubSub ------------------------------
(* Constants for TLC: the model values are interchangeable. *)
EXTENDS PubSub, TLC

Symmetry == Permutations(Modules) \cup Permutations(Threads)
==============================================================================
