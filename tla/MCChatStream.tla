---------------------------- MODULE MCChatStream -----------------------------
(* ChatStream on small instances: the .cfg files give the constants values. *)
EXTENDS ChatStream, TLC

Symmetry == Permutations(Exchanges) \cup Permutations(Conversations)
===============================================================================
