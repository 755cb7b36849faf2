------------------------------ MODULE CourtSchedule ------------------------------
(***************************************************************************)
(* The schedule of one court: managers who replace its hours and close     *)
(* windows, players who hold slots, and one player's page that lists slots *)
(* and holds one (apps/api/src/courts with apps/web/components/            *)
(* court-booking.tsx and court-schedule-manager.tsx).  CourtBooking says   *)
(* what becomes of a hold; here it is an interval that blocks the court    *)
(* until something releases it.                                            *)
(***************************************************************************)
EXTENDS AvailabilityPolicy, FiniteSets

CONSTANTS
  ThisCourt,  \* the court
  Handler,    \* API requests in flight at one time
  None,       \* no date, no selection, no booking
  Schedule,   \* weekly schedules a manager may save
  Closure,    \* windows a manager may close
  Date,       \* dates the page's player may pick
  Asked,      \* intervals other players ask for
  MaxSaves,   \* bound on saved schedules
  MaxCalls    \* bound on the page's calls

ASSUME ScheduleAssumption == Date \subseteq Nat /\ None \notin Date

VARIABLES
  hours,     \* court_operating_hours: windows, with the save that is their row's identity
  closures,  \* court_closures
  booked,    \* intervals of the court's blocking bookings
  lock,      \* the handler in the court's advisory lock
  mem,       \* what each request in flight remembers
  saves,     \* number of schedules saved so far
  page,      \* the player's page
  call,      \* the handler of the page's call, and its answer
  calls,     \* number of the page's calls so far
  mine,      \* history: the holds placed by the page's calls
  lost,      \* history: an answer of a hold got lost
  hasty      \* history: date or duration changed during a call

courtVars == <<hours, closures, booked>>
serverVars == <<courtVars, lock, mem, saves>>
pageVars == <<page, call, calls, mine, lost, hasty>>
vars == <<serverVars, pageVars>>

Durations == {d \in MinimumDuration .. MaximumDuration : (d - MinimumDuration) % SlotIncrement = 0}

Idle == [at |-> "idle"]
Quiet == [kind |-> "none"]
NoSlots == [kind |-> "slots", slots |-> {}]
NoBooking == [kind |-> "failed"]

Remember(h, r) == mem' = [mem EXCEPT ![h] = r]
Finish(h) == Remember(h, Idle)

(* What the page gets from handler h, if the call in flight is h's.        *)
Calls(h) == call.kind = "waiting" /\ call.handler = h
Answer(h, r) == call' = IF Calls(h) THEN r ELSE call
Fail(h) == call' = IF Calls(h) THEN call.otherwise ELSE call

(* A court is created without hours.                                       *)
Init ==
  /\ hours = {}
  /\ closures = {}
  /\ booked = {}
  /\ lock = None
  /\ mem = [h \in Handler |-> Idle]
  /\ saves = 0
  /\ page = [date |-> None, duration |-> MinimumDuration, slots |-> {}, selected |-> None, booking |-> None]
  /\ call = Quiet
  /\ calls = 0
  /\ mine = {}
  /\ lost = FALSE
  /\ hasty = FALSE

---------------------------------------------------------------------------
(* The weekly schedule *)

ValidWindow(w) ==
  /\ w.day \in 0 .. 6
  /\ w.opens \in 0 .. DayLength - 1 /\ w.closes \in 1 .. DayLength
  /\ w.opens < w.closes

Apart(windows) ==
  \A v, w \in windows :
    (v # w /\ v.day = w.day) => (v.closes <= w.opens \/ w.closes <= v.opens)

(* replaceOperatingHours: sortedWindows refuses windows that overlap; the  *)
(* transaction takes no lock, and its deleteMany sees the rows of its own  *)
(* snapshot.                                                               *)
DeleteHours(h, s) ==
  /\ mem[h] = Idle
  /\ saves < MaxSaves
  /\ Apart(s) /\ \A w \in s : ValidWindow(w)
  /\ Remember(h, [at |-> "createHours", old |-> hours, new |-> s, save |-> saves + 1])
  /\ saves' = saves + 1
  /\ UNCHANGED <<courtVars, lock, pageVars>>

(* createMany and commit; (courtId, dayOfWeek, opensMinute) is unique.     *)
CreateHours(h) ==
  /\ mem[h].at = "createHours"
  /\ LET kept == hours \ mem[h].old
     IN hours' = IF \E v \in kept, w \in mem[h].new : v.day = w.day /\ v.opens = w.opens
                 THEN hours
                 ELSE kept \cup {[day |-> w.day, opens |-> w.opens, closes |-> w.closes,
                                  save |-> mem[h].save] : w \in mem[h].new}
  /\ Finish(h)
  /\ UNCHANGED <<closures, booked, lock, saves, pageVars>>

(* createClosure, in the advisory lock.  Bookings are made by holds alone  *)
(* here, which take it too, so that its check and insert are one step;     *)
(* CourtBooking has the writes of a status that come in between.           *)
CreateClosure(c) ==
  /\ lock = None
  /\ \A b \in booked : ~Overlap(b, c)
  /\ closures' = closures \cup {c}
  /\ UNCHANGED <<hours, booked, lock, mem, saves, pageVars>>

DeleteClosure(c) ==
  /\ c \in closures
  /\ closures' = closures \ {c}
  /\ UNCHANGED <<hours, booked, lock, mem, saves, pageVars>>

---------------------------------------------------------------------------
(* Listing, and holding a slot *)

(* listPricedSlots reads the schedule ...                                  *)
ReadSchedule(h, date, d) ==
  /\ mem[h] = Idle
  /\ Remember(h, [at |-> "readBookings", hours |-> hours, closures |-> closures,
                  date |-> date, duration |-> d])
  /\ UNCHANGED <<courtVars, lock, saves>>

(* ... and then the bookings.                                              *)
ReadBookings(h) ==
  /\ mem[h].at = "readBookings"
  /\ IF ValidDuration(mem[h].duration)
     THEN Answer(h, [kind |-> "slots",
                     slots |-> PricedSlots(ThisCourt, mem[h].hours, mem[h].closures, booked,
                                           mem[h].date, mem[h].duration)])
     ELSE Fail(h)
  /\ Finish(h)
  /\ UNCHANGED <<courtVars, lock, saves, page, calls, mine, lost, hasty>>

(* createHold up to the repository: the quote checks the schedule.         *)
QuoteHold(h, i) ==
  /\ mem[h] = Idle
  /\ Accepted(hours, closures, i) /\ Priced(i)
  /\ Remember(h, [at |-> "lockCourt", slot |-> i])
  /\ UNCHANGED <<courtVars, lock, saves>>

(* The transaction takes the lock, reads the court and checks again.       *)
LockCourt(h) ==
  /\ mem[h].at = "lockCourt"
  /\ lock = None
  /\ AcceptedUnordered(hours, closures, mem[h].slot)
  /\ lock' = h
  /\ Remember(h, [mem[h] EXCEPT !.at = "createHold"])
  /\ UNCHANGED <<courtVars, saves, pageVars>>

(* The insert, if no blocking booking overlaps.                            *)
CreateHold(h) ==
  /\ mem[h].at = "createHold"
  /\ \A b \in booked : ~Overlap(b, mem[h].slot)
  /\ booked' = booked \cup {mem[h].slot}
  /\ mine' = IF Calls(h) THEN mine \cup {mem[h].slot} ELSE mine
  /\ Answer(h, [kind |-> "booking", slot |-> mem[h].slot])
  /\ lock' = None
  /\ Finish(h)
  /\ UNCHANGED <<hours, closures, saves, page, calls, lost, hasty>>

(* A check or the exclusion constraint fails, or the request dies.         *)
Abort(h) ==
  /\ mem[h] # Idle
  /\ lock' = IF lock = h THEN None ELSE lock
  /\ Fail(h)
  /\ Finish(h)
  /\ UNCHANGED <<courtVars, saves, page, calls, mine, lost, hasty>>

(* A booking expires, is rejected or cancelled.                            *)
Release(i) ==
  /\ i \in booked
  /\ booked' = booked \ {i}
  /\ UNCHANGED <<hours, closures, lock, mem, saves, pageVars>>

---------------------------------------------------------------------------
(* The player's page *)

Busy == call # Quiet
Picking == page.booking = None

(* Mutant: another date leaves the slots of the old one on the page.       *)
PickDateOnly(date) ==
  /\ Picking /\ date # page.date
  /\ page' = [page EXCEPT !.date = date]
  /\ hasty' = (hasty \/ Busy)
  /\ UNCHANGED <<serverVars, call, calls, mine, lost>>

(* The inputs stay enabled during a call.                                  *)
PickDate(date) ==
  /\ Picking /\ date # page.date
  /\ page' = [page EXCEPT !.date = date, !.slots = {}, !.selected = None]
  /\ hasty' = (hasty \/ Busy)
  /\ UNCHANGED <<serverVars, call, calls, mine, lost>>

PickDuration(d) ==
  /\ Picking /\ d # page.duration
  /\ page' = [page EXCEPT !.duration = d, !.slots = {}, !.selected = None]
  /\ hasty' = (hasty \/ Busy)
  /\ UNCHANGED <<serverVars, call, calls, mine, lost>>

(* A failed load empties the list; a failed hold leaves the page as it is. *)
Send(h, otherwise) ==
  /\ calls < MaxCalls
  /\ calls' = calls + 1
  /\ call' = [kind |-> "waiting", handler |-> h, otherwise |-> otherwise]
  /\ UNCHANGED <<page, mine, lost, hasty>>

LoadAvailability(h) ==
  /\ Picking /\ ~Busy
  /\ page.date # None
  /\ ReadSchedule(h, page.date, page.duration)
  /\ Send(h, NoSlots)

Select(i) ==
  /\ Picking
  /\ i \in page.slots
  /\ page' = [page EXCEPT !.selected = i]
  /\ UNCHANGED <<serverVars, call, calls, mine, lost, hasty>>

(* Mutant: the button stays enabled during a call.                         *)
PlaceHoldTwice(h) ==
  /\ Picking
  /\ page.selected # None
  /\ QuoteHold(h, page.selected)
  /\ Send(h, NoBooking)

PlaceHold(h) ==
  /\ Picking /\ ~Busy
  /\ page.selected # None
  /\ QuoteHold(h, page.selected)
  /\ Send(h, NoBooking)

Receive ==
  /\ call.kind \notin {"none", "waiting"}
  /\ call' = Quiet
  /\ \/ /\ call.kind = "slots"
        /\ page' = [page EXCEPT !.slots = call.slots, !.selected = None]
     \/ /\ call.kind = "booking"
        /\ page' = [page EXCEPT !.booking = call.slot]
     \/ call.kind = "failed" /\ UNCHANGED page
  /\ UNCHANGED <<serverVars, calls, mine, lost, hasty>>

(* The answer of a hold gets lost: the page shows an error.                *)
LoseAnswer ==
  /\ call.kind = "booking"
  /\ call' = Quiet
  /\ lost' = TRUE
  /\ UNCHANGED <<serverVars, page, calls, mine, hasty>>

---------------------------------------------------------------------------
ServerStep(h) ==
  \/ \E s \in Schedule : DeleteHours(h, s)
  \/ CreateHours(h)
  \/ ReadBookings(h)
  \/ LockCourt(h)
  \/ CreateHold(h)
  \/ Abort(h)
  \/ \E i \in Asked : QuoteHold(h, i) /\ UNCHANGED pageVars

PageStep ==
  \/ \E date \in Date : PickDate(date)
  \/ \E d \in Durations : PickDuration(d)
  \/ \E h \in Handler : LoadAvailability(h) \/ PlaceHold(h)
  \/ \E i \in page.slots : Select(i)
  \/ Receive
  \/ LoseAnswer

Next ==
  \/ \E h \in Handler : ServerStep(h)
  \/ \E c \in Closure : CreateClosure(c) \/ DeleteClosure(c)
  \/ \E i \in booked : Release(i)
  \/ PageStep

Spec == Init /\ [][Next]_vars

---------------------------------------------------------------------------
Free(i) == \A b \in booked : ~Overlap(b, i)
EndsAtMidnight(i) == MinuteOfDay(i.to) = 0

IntervalsOf(date, d) ==
  {[court |-> ThisCourt, from |-> date * DayLength + m, to |-> date * DayLength + m + d] :
     m \in 0 .. DayLength - 1}

Holdable(date, d) ==
  {i \in IntervalsOf(date, d) : Accepted(hours, closures, i) /\ Priced(i) /\ Free(i)}

Listed(date, d) == PricedSlots(ThisCourt, hours, closures, booked, date, d)

(* The listing is authoritative: for every date and duration it offers     *)
(* exactly the free intervals that a hold would be accepted for, and a     *)
(* search finds the court exactly when something is listed.  Two limits of *)
(* the code are part of the statement: a slot that ends at midnight is     *)
(* listed and can never be held, because its end is on the next day; and   *)
(* two schedules saved at once may leave overlapping windows behind, for   *)
(* which listing and hold choose different openings to align to.           *)
ListingIsAuthoritative ==
  Apart(hours) =>
    \A date \in Date, d \in Durations :
      ValidDuration(d) =>
        /\ {i \in Listed(date, d) : ~EndsAtMidnight(i)} = Holdable(date, d)
        /\ (Evaluated(ThisCourt, hours, closures, booked, date, d, 0, DayLength) = {})
             <=> (Listed(date, d) = {})

(* The page holds what its player sees: the slot it ends up with is of the *)
(* chosen date and duration, unless one of them was changed while a call   *)
(* was under way: then the old answer fills the page under the new date.   *)
PageHoldsWhatItShows ==
  (page.booking # None /\ ~hasty) =>
    ManilaDate(page.booking.from) = page.date /\ Duration(page.booking) = page.duration

(* One page holds at most one slot, however impatiently it is clicked, as  *)
(* long as no answer gets lost on the way.                                 *)
OneHoldPerPage == Cardinality(mine) > 1 => lost

=============================================================================
