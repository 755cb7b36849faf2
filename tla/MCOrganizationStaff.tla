-------------------------- MODULE MCOrganizationStaff --------------------------
(* A small instance of OrganizationStaff for TLC. *)
EXTENDS OrganizationStaff, TLC

Symmetry == Permutations(User) \cup Permutations(Invitation) \cup Permutations(Handler)
=============================================================================
