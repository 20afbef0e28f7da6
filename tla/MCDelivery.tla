------------------------------ MODULE MCDelivery ------------------------------
(* Delivery for TLC: publishing and subscribing tasks are interchangeable. *)
EXTENDS Delivery, TLC

Symmetry == Permutations(Publishers) \union Permutations(Subscribers)
=============================================================================
