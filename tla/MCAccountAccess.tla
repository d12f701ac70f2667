--------------------------- MODULE MCAccountAccess ----------------------------
(* AccountAccess on small instances: the .cfg files give the constants values. *)
EXTENDS AccountAccess, TLC

Symmetry == Permutations(Ids \ Apps) \cup Permutations(Requests)
===============================================================================
