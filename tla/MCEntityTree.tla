---------------------------- MODULE MCEntityTree ----------------------------
(* An instance of EntityTree for TLC. *)
EXTENDS EntityTree

\* One order before the parent, and the one every entity has at first.
MCOrders == {-1, 0}

MCSymmetry == Permutations(Entities)
=============================================================================
