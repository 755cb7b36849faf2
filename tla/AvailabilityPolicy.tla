--------------------------- MODULE AvailabilityPolicy ---------------------------
(***************************************************************************)
(* When a court may be booked (apps/api/src/courts/availability-policy.ts, *)
(* quoteCourtBooking and apps/api/src/venues/discovery.service.ts): one    *)
(* function lists the candidates of a day, another decides whether a given *)
(* interval is acceptable, a third counts a venue's courts in a search.    *)
(* Time is in minutes of Manila, which keeps one offset all year; minute 0 *)
(* begins a Sunday.                                                        *)
(***************************************************************************)
EXTENDS Intervals

CONSTANTS
  DayLength,        \* minutes of a day
  SlotIncrement,    \* court.slotIncrementMin
  MinimumDuration,  \* court.minimumDurationMin
  MaximumDuration,  \* court.maximumDurationMin
  PricingRules      \* court_pricing_rules, which no route changes

ASSUME PolicyAssumption ==
  /\ {DayLength, SlotIncrement, MinimumDuration} \subseteq Nat \ {0}
  /\ MaximumDuration \in Nat /\ MaximumDuration >= MinimumDuration

ManilaDate(t) == t \div DayLength
DayOfWeek(t) == ManilaDate(t) % 7
MinuteOfDay(t) == t % DayLength

Duration(i) == i.to - i.from

ValidDuration(d) == d \in MinimumDuration .. MaximumDuration /\ d % SlotIncrement = 0

Closed(closures, i) == \E c \in closures : Overlap(i, c)

---------------------------------------------------------------------------
(* validateScheduledInterval *)

Containing(hours, i) ==
  {w \in hours : /\ w.day = DayOfWeek(i.from)
                 /\ w.opens <= MinuteOfDay(i.from) /\ MinuteOfDay(i.to) <= w.closes}

(* Mutant: starts are aligned to the day, not to the opening.              *)
AlignedToMidnight(i, w) == MinuteOfDay(i.from) % SlotIncrement = 0

Aligned(i, w) == (MinuteOfDay(i.from) - w.opens) % SlotIncrement = 0

(* The first window of those that contain the interval is the one it is    *)
(* aligned to.  A schedule is read in the order of opening; the            *)
(* transaction of a hold reads it in no order.                             *)
FirstToOpen(windows) == {w \in windows : \A v \in windows : w.opens <= v.opens}

AcceptedIn(windows, closures, i) ==
  /\ ValidDuration(Duration(i))
  /\ ManilaDate(i.from) = ManilaDate(i.to)
  /\ \E w \in windows : Aligned(i, w)
  /\ ~Closed(closures, i)

Accepted(hours, closures, i) == AcceptedIn(FirstToOpen(Containing(hours, i)), closures, i)
AcceptedUnordered(hours, closures, i) == AcceptedIn(Containing(hours, i), closures, i)

---------------------------------------------------------------------------
(* quoteCourtBooking: some rule must apply; of those that do, the one with *)
(* the highest priority says the price of an hour.                         *)

Effective(rule, t) == rule.from <= t /\ t < rule.until

Applicable(i) ==
  {rule \in PricingRules :
     /\ rule.court = i.court
     /\ Effective(rule, i.from)
     /\ DayOfWeek(i.from) \in rule.days
     /\ rule.starts <= MinuteOfDay(i.from) /\ MinuteOfDay(i.from) < rule.ends}

Priced(i) == Applicable(i) # {}

QuotedRule(i) ==
  CHOOSE rule \in Applicable(i) : \A r \in Applicable(i) : r.priority <= rule.priority

---------------------------------------------------------------------------
(* generateCandidateIntervals, listPricedSlots *)

Candidates(court, hours, date, d) ==
  UNION {{[court |-> court, from |-> date * DayLength + m, to |-> date * DayLength + m + d] :
            m \in {n \in w.opens .. w.closes : n + d <= w.closes /\ (n - w.opens) % SlotIncrement = 0}} :
         w \in {v \in hours : v.day = date % 7}}

PricedSlots(court, hours, closures, bookings, date, d) ==
  {i \in Candidates(court, hours, date, d) :
     ~Closed(closures, i) /\ (\A b \in bookings : ~Overlap(i, b)) /\ Priced(i)}

---------------------------------------------------------------------------
(* evaluateAvailability: the slots that make a court count in a search for *)
(* a date, a duration and the hours between earliest and latest.           *)
Evaluated(court, hours, closures, bookings, date, d, earliest, latest) ==
  IF ~ValidDuration(d) THEN {}
  ELSE {i \in Candidates(court, hours, date, d) :
          /\ MinuteOfDay(i.from) >= earliest /\ MinuteOfDay(i.from) + d <= latest
          /\ ~Closed(closures, i)
          /\ \A b \in bookings : ~Overlap(i, b)
          /\ Priced(i)}
=============================================================================
