---------------------------- MODULE MCVenuePhotos ----------------------------
(* Small instances of ManagePage, and of VenuePhotoManager, for TLC.       *)
EXTENDS ManagePage, TLC

Symmetry == Permutations(Photo)

=============================================================================
