-------------------------- MODULE MCSessionRegistry --------------------------
(* SessionRegistry for TLC: tasks, channels and handles are interchangeable. *)
EXTENDS SessionRegistry, TLC

Symmetry == Permutations(Tasks) \union Permutations(Channels) \union Permutations(Forwarders)
=============================================================================
