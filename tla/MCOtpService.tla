----------------------------- MODULE MCOtpService -----------------------------
(* OtpService on small instances: the .cfg files give the constants values. *)
EXTENDS OtpService, TLC

Symmetry ==
    Permutations(Ids) \cup Permutations(Users) \cup Permutations(Requests)
===============================================================================
