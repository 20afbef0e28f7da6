---------------------------- MODULE MCMemoryBroker ----------------------------
(* MemoryBroker for TLC: publications and tasks are interchangeable. *)
EXTENDS MemoryBroker, TLC

Symmetry == Permutations(Publishers) \union Permutations(Subscribers)
                \union Permutations(Publications)
=============================================================================
