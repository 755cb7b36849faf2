------------------------------- MODULE Intervals -------------------------------
(* Half-open time intervals on a court.                                    *)
EXTENDS Naturals

CONSTANT Court

Interval == [court : Court, from : Nat, to : Nat]

Overlap(s, t) == s.court = t.court /\ s.from < t.to /\ t.from < s.to

=============================================================================
