------------------------------ MODULE MCPlayerPages ------------------------------
(* Small instances of CourtSchedule, Favorites, Notifications and Reviews, *)
(* one at a time, for TLC.                                                 *)
EXTENDS PlayerPages, TLC

CONSTANTS c, b1, b2, b3, thisVenue, other

W(opens, closes) == [day |-> 0, opens |-> opens, closes |-> closes]

(* One window off the grid of the day, and two windows up to midnight.     *)
Schedules == {{W(1, 5)}, {W(0, 3), W(4, 6)}}
OneClosure == {[court |-> c, from |-> 2, to |-> 3]}
Rules == {[court |-> c, from |-> 0, until |-> 100, days |-> 0 .. 6, starts |-> 0, ends |-> 6, priority |-> 0]}
OneInterval == {[court |-> c, from |-> 1, to |-> 3]}

(* Two bookings of the venue, and one of another.                          *)
Subjects == (b1 :> thisVenue) @@ (b2 :> thisVenue) @@ (b3 :> other)

Symmetry == Permutations(Handler) \cup Permutations(Reviewer)
=============================================================================
