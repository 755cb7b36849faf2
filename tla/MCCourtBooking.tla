---------------------------- MODULE MCCourtBooking ----------------------------
(* Small instances of BookingPages and the CourtBooking in it for TLC.     *)
EXTENDS BookingPages, CourtBookingClaims, TLC

CONSTANT c1

(* Two overlapping intervals of one court.                                 *)
Early == [court |-> c1, from |-> 0, to |-> 1]
Late  == [court |-> c1, from |-> 0, to |-> 2]

Overlapping == {Early, Late}
NoClosure == {}
OneSlot == {Early}
OneClosure == {[court |-> c1, from |-> 0, to |-> 1]}

Symmetry == Permutations(Booking) \cup Permutations(Ref)
              \cup Permutations(Refund) \cup Permutations(Request)

=============================================================================
