---------------------------- MODULE MCVenueLifecycle ----------------------------
(* Small instances of VenueLifecycle for TLC.                              *)
EXTENDS VenueLifecycle, TLC

Symmetry == Permutations(Handler)

=============================================================================
