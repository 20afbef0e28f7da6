--------------------------- MODULE MCPubSubChannel ---------------------------
(* PubSubChannel for TLC: publishers and payloads are interchangeable.     *)
EXTENDS PubSubChannel, TLC

Symmetry == Permutations(Publishers) \union Permutations(Payloads)
=============================================================================
