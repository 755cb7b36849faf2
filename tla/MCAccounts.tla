------------------------------- MODULE MCAccounts -------------------------------
(* A small instance of GoogleSignIn, and the Accounts in it, for TLC. *)
EXTENDS GoogleSignIn, TLC

Symmetry == Permutations(Email) \cup Permutations(Token) \cup Permutations(Identity)
              \cup Permutations(Handler) \cup Permutations(Attempt)
=============================================================================
