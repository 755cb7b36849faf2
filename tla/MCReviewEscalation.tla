--------------------------- MODULE MCReviewEscalation ---------------------------
(* Small instances of ReviewEscalation for TLC.                            *)
EXTENDS ReviewEscalation

CONSTANT c1

NoClosure == {}
OneSlot == {[court |-> c1, from |-> 1, to |-> 2]}

=============================================================================
