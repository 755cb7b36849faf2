----------------------------- MODULE CourtCalendar -----------------------------
(***************************************************************************)
(* What court booking promises, without requests, transactions, deadlines  *)
(* or refunds: a calendar in which a booking reserves an interval of a     *)
(* court, is secured once a payment proof exists for it, and is released.  *)
(* CourtBooking implements this specification, and so does CoachSession,   *)
(* where a coach is what a court is here and nothing is ever closed.       *)
(***************************************************************************)
EXTENDS Intervals

CONSTANTS Booking, Slot, Closure, None

VARIABLES
  phase,     \* "free" before the reservation, then tentative, firm or released
  interval,  \* the interval a booking asked for
  paid,      \* bookings with a payment proof
  closed,    \* windows closed by the venue
  closing    \* windows about to be closed: looked at, and kept from new bookings

vars == <<phase, interval, paid, closed, closing>>

Phase == {"free", "tentative", "firm", "released"}
Live(b) == phase[b] \in {"tentative", "firm"}

Available(b, s) ==
  \A c \in Booking \ {b} : Live(c) => ~Overlap(interval[c], s)

Init ==
  /\ phase = [b \in Booking |-> "free"]
  /\ interval = [b \in Booking |-> None]
  /\ paid = {}
  /\ closed = {}
  /\ closing = {}

Reserve(b, s) ==
  /\ phase[b] = "free"
  /\ Available(b, s)
  /\ \A w \in closed \cup closing : ~Overlap(s, w)
  /\ phase' = [phase EXCEPT ![b] = "tentative"]
  /\ interval' = [interval EXCEPT ![b] = s]
  /\ UNCHANGED <<paid, closed, closing>>

Pay(b) ==
  /\ phase[b] # "free"
  /\ paid' = paid \cup {b}
  /\ UNCHANGED <<phase, interval, closed, closing>>

(* A released booking may be secured again: a late writer, or a rejected   *)
(* refund, brings it back, but only onto a court that is still available.  *)
Secure(b) ==
  /\ b \in paid
  /\ phase[b] # "free"
  /\ Available(b, interval[b])
  /\ phase' = [phase EXCEPT ![b] = "firm"]
  /\ UNCHANGED <<interval, paid, closed, closing>>

Release(B) ==
  /\ \A b \in B : Live(b)
  /\ phase' = [b \in Booking |-> IF b \in B THEN "released" ELSE phase[b]]
  /\ UNCHANGED <<interval, paid, closed, closing>>

(* A closing begins where nobody has a live booking.                       *)
BeginClosing(w) ==
  /\ \A b \in Booking : Live(b) => ~Overlap(interval[b], w)
  /\ closing' = closing \cup {w}
  /\ UNCHANGED <<phase, interval, paid, closed>>

(* Only a released booking that was secured again may stand in the window. *)
Close(w) ==
  /\ w \in closing
  /\ closed' = closed \cup {w}
  /\ closing' = closing \ {w}
  /\ UNCHANGED <<phase, interval, paid>>

Withdraw(w) ==
  /\ closing' = closing \ {w}
  /\ UNCHANGED <<phase, interval, paid, closed>>

Reopen(w) ==
  /\ closed' = closed \ {w}
  /\ UNCHANGED <<phase, interval, paid, closing>>

Next ==
  \/ \E B \in SUBSET Booking : Release(B)
  \/ \E b \in Booking :
       \/ Pay(b)
       \/ Secure(b)
       \/ \E s \in Slot : Reserve(b, s)
  \/ \E w \in Closure : BeginClosing(w) \/ Close(w) \/ Withdraw(w) \/ Reopen(w)

Spec == Init /\ [][Next]_vars

=============================================================================
