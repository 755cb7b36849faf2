------------------------------ MODULE MCCoaching ------------------------------
(* Small instances of CoachPages, CoachSession and CoachMarket for TLC.    *)
EXTENDS CoachPages, TLC

OneSession == {[from |-> 1, to |-> 2]}

Symmetry == Permutations(CoachRequest) \cup Permutations(Coach)
              \cup Permutations(Handler) \cup Permutations(Ref) \cup Permutations(Refund)

=============================================================================
