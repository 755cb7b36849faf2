----------------------------- MODULE PlayerPagesProofs -----------------------------
(***************************************************************************)
(* What one player's pages show, for every value of the constants: each    *)
(* part of PlayerPages by an inductive invariant of its own, then all of   *)
(* them together; and, at the end, the page that searches for venues.      *)
(***************************************************************************)
EXTENDS PlayerPages, Discovery, FiniteSetTheorems, TLAPS

(* A behaviour of the pages is, for each part, a behaviour of that part:   *)
(* no step of another part touches its variables.                          *)
THEOREM PagesFollowTheirParts ==
  PlayerSpec => Spec /\ FavoriteSpec /\ NoticeSpec /\ ReviewSpec
<1>1. PlayerInit => Init /\ FavoriteInit /\ NoticeInit /\ ReviewInit
  BY DEF PlayerInit
<1>2. [PlayerNext]_playerVars => [Next]_vars
  BY DEF PlayerNext, playerVars, HoldStep, FavoriteStep, NoticeStep, ReviewStep
<1>3. [PlayerNext]_playerVars => [FavoriteNext]_favoriteVars
  BY DEF PlayerNext, playerVars, HoldStep, FavoriteStep, NoticeStep, ReviewStep
<1>4. [PlayerNext]_playerVars => [NoticeNext]_noticeVars
  BY DEF PlayerNext, playerVars, HoldStep, FavoriteStep, NoticeStep, ReviewStep
<1>5. [PlayerNext]_playerVars => [ReviewNext]_reviewVars
  BY DEF PlayerNext, playerVars, HoldStep, FavoriteStep, NoticeStep, ReviewStep
<1>q. QED
  BY <1>1, <1>2, <1>3, <1>4, <1>5, PTL
     DEF PlayerSpec, Spec, FavoriteSpec, NoticeSpec, ReviewSpec

---------------------------------------------------------------------------
(* The favorite button *)

(* What a page has read is the mark unless it may be wrong; an answer that *)
(* has not arrived is the mark, and until the request is done the button   *)
(* still shows it.                                                         *)
ButtonInv ==
  /\ FavoriteTypeOK
  /\ reading # "none" /\ ~doubtful => reading = favorite
  /\ shown # "none" /\ press.at # "answered" /\ ~unsure => shown = favorite
  /\ press.at = "answered" /\ ~unsure => press.want = favorite

(* Between two calls the button shows the mark of favorite_venues, up to   *)
(* other tabs, lost answers and loads that failed or were overtaken.       *)
THEOREM ButtonIsRight == FavoriteSpec => []ButtonShowsFavorite
<1> USE DEF ButtonInv, FavoriteTypeOK, Mark
<1>1. FavoriteInit => ButtonInv
  <2> SUFFICES ASSUME FavoriteInit PROVE ButtonInv
    OBVIOUS
  <2> QED
    BY DEF FavoriteInit, NoPress
<1>2. ButtonInv /\ [FavoriteNext]_favoriteVars => ButtonInv'
  <2> SUFFICES ASSUME ButtonInv, [FavoriteNext]_favoriteVars PROVE ButtonInv'
    OBVIOUS
  <2>1. ASSUME NEW ok \in BOOLEAN, LoadFavorite(ok) PROVE ButtonInv'
    BY <2>1 DEF LoadFavorite
  <2>2. CASE ShowButton
    BY <2>2 DEF ShowButton, NoPress
  <2>3. CASE Toggle
    BY <2>3 DEF Toggle, Other
  <2>4. CASE AddFavorite
    BY <2>4 DEF AddFavorite, Write
  <2>5. CASE RemoveFavorite
    BY <2>5 DEF RemoveFavorite, Write
  <2>6. CASE TakePress
    BY <2>6 DEF TakePress, NoPress
  <2>7. CASE LosePress
    BY <2>7 DEF LosePress, NoPress
  <2>8. ASSUME NEW m \in Mark, MarkElsewhere(m) PROVE ButtonInv'
    BY <2>8 DEF MarkElsewhere, Write
  <2>9. CASE UNCHANGED favoriteVars
    BY <2>9 DEF favoriteVars, buttonVars
  <2>q. QED
    BY <2>1, <2>2, <2>3, <2>4, <2>5, <2>6, <2>7, <2>8, <2>9 DEF FavoriteNext
<1>3. ButtonInv => ButtonShowsFavorite
  BY DEF ButtonShowsFavorite
<1>q. QED
  BY <1>1, <1>2, <1>3, PTL DEF FavoriteSpec

---------------------------------------------------------------------------
(* The list of notifications *)

(* A row is never unread again, so that what was read of it stays true;    *)
(* a call that is saved has left nothing unread of what it is about; and   *)
(* only such a call, or something the list cannot know of, has read a row  *)
(* that the list shows as unread.                                          *)
NoticeType ==
  /\ notice \in [Event -> NoticeState]
  /\ fetched \subseteq [Event -> NoticeState]
  /\ items \in [Event -> NoticeState]
  /\ asked \subseteq OneCall \cup AllCall
  /\ apart \in BOOLEAN

ReadStaysRead(list) ==
  \A e \in Event : /\ list[e] = "read" => notice[e] = "read"
                   /\ list[e] # "none" => notice[e] # "none"

SavedCallsAreDone ==
  \A c \in asked, e \in Event :
    c.at = "saved" /\ About(c, e) /\ items[e] # "none" => notice[e] = "read"

UnreadIsUnread ==
  \A e \in Event :
    items[e] = "unread" /\ ~apart =>
      notice[e] = "unread" \/ \E c \in asked : c.at = "saved" /\ About(c, e)

NoticeInv ==
  /\ NoticeType
  /\ \A list \in fetched : ReadStaysRead(list)
  /\ ReadStaysRead(items)
  /\ SavedCallsAreDone
  /\ UnreadIsUnread

LEMMA LatestIsOfTheRows ==
  ASSUME notice \in [Event -> NoticeState]
  PROVE  Latest \in [Event -> NoticeState] /\ ReadStaysRead(Latest)
BY DEF Latest, NoticeState, ReadStaysRead

(* What the list shows as read is read, however its calls overlap; and     *)
(* between its calls what it shows as unread is unread, unless another tab *)
(* read it or an answer got lost.                                          *)
THEOREM ListIsRight == NoticeSpec => []ListShowsNotices
<1>1. NoticeInit => NoticeInv
  BY DEF NoticeInit, NoticeInv, NoticeType, NoItems, NoticeState, ReadStaysRead, SavedCallsAreDone,
         UnreadIsUnread
<1>2. NoticeInv /\ [NoticeNext]_noticeVars => NoticeInv'
  <2> SUFFICES ASSUME NoticeInv, [NoticeNext]_noticeVars PROVE NoticeInv'
    OBVIOUS
  <2> USE DEF NoticeInv, NoticeType
  <2>1. ASSUME NEW e \in Event, Dispatch(e) PROVE NoticeInv'
    BY <2>1 DEF Dispatch, noticePageVars, NoticeState, ReadStaysRead, SavedCallsAreDone, UnreadIsUnread
  <2>2. ASSUME NEW c, asked' = asked \cup {c}, c \in OneCall \cup AllCall, c.at = "sent",
               UNCHANGED <<notice, born, fetched, items, apart>>
        PROVE  NoticeInv'
    BY <2>2 DEF ReadStaysRead, SavedCallsAreDone, UnreadIsUnread, About
  <2>3. ASSUME NEW e \in Event, MarkOne(e) PROVE NoticeInv'
    <3>1. [do |-> "one", event |-> e, at |-> "sent"] \in OneCall \cup AllCall
      BY DEF OneCall
    <3> QED
      BY <2>2, <2>3, <3>1 DEF MarkOne, Ask
  <2>4. CASE MarkAll
    <3>1. [do |-> "all", at |-> "sent"] \in OneCall \cup AllCall
      BY DEF AllCall
    <3> QED
      BY <2>2, <2>4, <3>1 DEF MarkAll, Ask
  <2>5. ASSUME NEW e \in Event, ReadElsewhere(e) PROVE NoticeInv'
    BY <2>5 DEF ReadElsewhere, noticePageVars, NoticeState, ReadStaysRead, SavedCallsAreDone, UnreadIsUnread
  <2>6. ASSUME NEW ok \in BOOLEAN, LoadNotices(ok) PROVE NoticeInv'
    <3>1. NoItems \in [Event -> NoticeState] /\ ReadStaysRead(NoItems)
      BY DEF NoItems, NoticeState, ReadStaysRead
    <3> QED
      BY <2>6, <3>1, LatestIsOfTheRows
         DEF LoadNotices, ReadStaysRead, SavedCallsAreDone, UnreadIsUnread
  <2>7. CASE ShowList
    BY <2>7 DEF ShowList, NoticeState, ReadStaysRead, SavedCallsAreDone, UnreadIsUnread
  <2>8. ASSUME NEW c \in asked, MarkRead(c) PROVE NoticeInv'
    <3> DEFINE s == [c EXCEPT !.at = "saved"]
    <3>1. s \in OneCall \cup AllCall /\ s.at = "saved"
      BY DEF OneCall, AllCall
    <3>2. \A e \in Event : About(s, e) <=> About(c, e)
      BY DEF About, OneCall, AllCall
    <3> HIDE DEF s
    <3>3. asked' = (asked \ {c}) \cup {s} /\ c.at = "sent"
      BY <2>8 DEF MarkRead, s
    <3>4. \A e \in Event : /\ notice'[e] = IF notice[e] = "unread" /\ About(c, e) THEN "read" ELSE notice[e]
                          /\ notice' \in [Event -> NoticeState]
      BY <2>8 DEF MarkRead, NoticeState
    <3>5. NoticeType'
      BY <2>8, <3>1, <3>3 DEF MarkRead, NoticeState
    <3>6. (\A list \in fetched : ReadStaysRead(list))' /\ ReadStaysRead(items)'
      BY <2>8, <3>4 DEF MarkRead, ReadStaysRead
    <3>7. SavedCallsAreDone'
      BY <2>8, <3>2, <3>3, <3>4 DEF MarkRead, SavedCallsAreDone, ReadStaysRead, NoticeState
    <3>8. UnreadIsUnread'
      BY <2>8, <3>1, <3>2, <3>3, <3>4 DEF MarkRead, UnreadIsUnread
    <3> QED
      BY <3>5, <3>6, <3>7, <3>8
  <2>9. ASSUME NEW c \in asked, TakeMark(c) PROVE NoticeInv'
    <3>1. NoticeType'
      BY <2>9 DEF TakeMark, NoticeState
    <3>2. \A e \in Event : items'[e] = IF items[e] # "none" /\ About(c, e) THEN "read" ELSE items[e]
      BY <2>9 DEF TakeMark
    <3>3. (\A list \in fetched : ReadStaysRead(list))' /\ ReadStaysRead(items)' /\ SavedCallsAreDone'
      BY <2>9, <3>2 DEF TakeMark, ReadStaysRead, SavedCallsAreDone
    <3>4. UnreadIsUnread'
      BY <2>9, <3>2 DEF TakeMark, UnreadIsUnread
    <3> QED
      BY <3>1, <3>3, <3>4
  <2>10. ASSUME NEW c \in asked, LoseMark(c) PROVE NoticeInv'
    BY <2>10 DEF LoseMark, ReadStaysRead, SavedCallsAreDone, UnreadIsUnread
  <2>11. CASE UNCHANGED noticeVars
    BY <2>11 DEF noticeVars, noticePageVars, ReadStaysRead, SavedCallsAreDone, UnreadIsUnread
  <2>q. QED
    BY <2>1, <2>3, <2>4, <2>5, <2>6, <2>7, <2>8, <2>9, <2>10, <2>11 DEF NoticeNext
<1>3. NoticeInv => ListShowsNotices
  BY DEF NoticeInv, NoticeType, ReadStaysRead, UnreadIsUnread, ListShowsNotices
<1>q. QED
  BY <1>1, <1>2, <1>3, PTL DEF NoticeSpec

---------------------------------------------------------------------------
(* The policy of availability *)

Window == [day : 0 .. 6, opens : 0 .. DayLength - 1, closes : 1 .. DayLength, save : Nat]
Slot == [court : {ThisCourt}, from : Nat, to : Nat]

(* The date and the minute of the day are what a time is made of.          *)
LEMMA DateAndMinute ==
  ASSUME NEW date \in Nat, NEW m \in 0 .. DayLength - 1
  PROVE  ManilaDate(date * DayLength + m) = date /\ MinuteOfDay(date * DayLength + m) = m
BY PolicyAssumption DEF ManilaDate, MinuteOfDay

LEMMA LessThanNextDate ==
  ASSUME NEW t \in Nat, NEW date \in Nat, t \div DayLength = date
  PROVE  t < date * DayLength + DayLength
BY PolicyAssumption

LEMMA DurationsArePositive == Durations \subseteq Nat \ {0}
BY PolicyAssumption DEF Durations

LEMMA DatesAreNumbers == Date \subseteq Nat
BY ScheduleAssumption

(* A candidate starts and ends within a window of its day.                 *)
LEMMA CandidatesAreInWindows ==
  ASSUME NEW H \in SUBSET Window, NEW date \in Date, NEW d \in Durations,
         NEW i \in Candidates(ThisCourt, H, date, d)
  PROVE  \E w \in H, m \in 0 .. DayLength - 1 :
           /\ w.day = date % 7 /\ w.opens <= m /\ m + d <= w.closes
           /\ (m - w.opens) % SlotIncrement = 0
           /\ i = [court |-> ThisCourt, from |-> date * DayLength + m, to |-> date * DayLength + m + d]
<1>1. PICK w \in H :
        /\ w.day = date % 7
        /\ \E m \in w.opens .. w.closes :
             /\ m + d <= w.closes /\ (m - w.opens) % SlotIncrement = 0
             /\ i = [court |-> ThisCourt, from |-> date * DayLength + m, to |-> date * DayLength + m + d]
  BY DEF Candidates
<1>2. PICK m \in w.opens .. w.closes :
        /\ m + d <= w.closes /\ (m - w.opens) % SlotIncrement = 0
        /\ i = [court |-> ThisCourt, from |-> date * DayLength + m, to |-> date * DayLength + m + d]
  BY <1>1
<1>3. w.opens \in Nat /\ w.closes \in 1 .. DayLength
  BY PolicyAssumption DEF Window
<1>4. m \in 0 .. DayLength - 1
  BY <1>2, <1>3, DurationsArePositive, PolicyAssumption
<1>q. QED
  BY <1>1, <1>2, <1>3, <1>4

(* So it is a slot of the date and of the duration that were asked for.    *)
LEMMA CandidatesAreOfTheDate ==
  ASSUME NEW H \in SUBSET Window, NEW date \in Date, NEW d \in Durations,
         NEW i \in Candidates(ThisCourt, H, date, d)
  PROVE  i \in Slot /\ ManilaDate(i.from) = date /\ Duration(i) = d
<1>1. PICK m \in 0 .. DayLength - 1 :
        i = [court |-> ThisCourt, from |-> date * DayLength + m, to |-> date * DayLength + m + d]
  BY CandidatesAreInWindows
<1>2. date * DayLength + m \in Nat /\ date * DayLength + m + d \in Nat
  BY DatesAreNumbers, DurationsArePositive, PolicyAssumption
<1>3. ManilaDate(i.from) = date
  BY <1>1, DateAndMinute, DatesAreNumbers
<1>4. Duration(i) = d
  BY <1>1, <1>2, DurationsArePositive DEF Duration
<1>q. QED
  BY <1>1, <1>2, <1>3, <1>4 DEF Slot

(* An interval that ends by midnight ends on the day it starts on, or at   *)
(* minute 0 of the next one.                                               *)
LEMMA EndOfSlot ==
  ASSUME NEW date \in Nat, NEW m \in 0 .. DayLength - 1, NEW d \in Nat \ {0}, m + d <= DayLength
  PROVE  LET t == date * DayLength + m + d
         IN IF m + d = DayLength THEN ManilaDate(t) # date /\ MinuteOfDay(t) = 0
            ELSE ManilaDate(t) = date /\ MinuteOfDay(t) = m + d /\ m + d # 0
<1>1. CASE m + d = DayLength
  <2>1. date * DayLength + m + d = (date + 1) * DayLength + 0
    BY <1>1, PolicyAssumption
  <2>2. date + 1 \in Nat /\ 0 \in 0 .. DayLength - 1 /\ date + 1 # date
    BY PolicyAssumption
  <2> QED
    BY <1>1, <2>1, <2>2, DateAndMinute
<1>2. CASE m + d # DayLength
  <2>1. m + d \in 0 .. DayLength - 1 /\ m + d # 0
    BY <1>2, PolicyAssumption
  <2>2. date * DayLength + m + d = date * DayLength + (m + d)
    <3>1. date * DayLength \in Nat
      BY PolicyAssumption
    <3> QED
      BY <3>1
  <2> QED
    BY <1>2, <2>1, <2>2, DateAndMinute
<1>q. QED
  BY <1>1, <1>2

(* Windows that are apart: one of them contains an interval, or none.      *)
LEMMA OneWindowContains ==
  ASSUME NEW H \in SUBSET Window, Apart(H), NEW i, NEW m \in Nat, NEW d \in Nat \ {0},
         MinuteOfDay(i.from) = m, MinuteOfDay(i.to) = m + d,
         NEW v \in Containing(H, i), NEW w \in Containing(H, i)
  PROVE  v = w
<1>1. /\ v \in Window /\ v.opens <= m /\ m + d <= v.closes
      /\ w \in Window /\ w.opens <= m /\ m + d <= w.closes
      /\ v.day = w.day /\ v \in H /\ w \in H
  BY DEF Containing
<1>2. /\ v.opens \in Nat /\ v.closes \in Nat /\ w.opens \in Nat /\ w.closes \in Nat
  BY <1>1, PolicyAssumption DEF Window
<1>3. ~(v.closes <= w.opens) /\ ~(w.closes <= v.opens)
  BY <1>1, <1>2
<1>q. QED
  BY <1>1, <1>3 DEF Apart

(* What listing and hold decide of one interval of the date: the slot is   *)
(* listed, and does not end at midnight, exactly if a hold is accepted.    *)
LEMMA ListedAsHeld ==
  ASSUME hours \in SUBSET Window, Apart(hours), NEW date \in Date, NEW d \in Durations, ValidDuration(d),
         NEW m \in 0 .. DayLength - 1, NEW i,
         i = [court |-> ThisCourt, from |-> date * DayLength + m, to |-> date * DayLength + m + d]
  PROVE  (i \in Candidates(ThisCourt, hours, date, d) /\ ~EndsAtMidnight(i) /\ ~Closed(closures, i))
           <=> Accepted(hours, closures, i)
<1> USE DatesAreNumbers, DurationsArePositive
<1>1. ManilaDate(i.from) = date /\ MinuteOfDay(i.from) = m
  BY DateAndMinute
<1>2. Duration(i) = d
  <2>1. date * DayLength + m \in Nat
    BY PolicyAssumption
  <2> QED
    BY <2>1 DEF Duration
<1>3. ASSUME i \in Candidates(ThisCourt, hours, date, d), ~EndsAtMidnight(i), ~Closed(closures, i)
      PROVE  Accepted(hours, closures, i)
  <2>1. PICK w \in hours, n \in 0 .. DayLength - 1 :
          /\ w.day = date % 7 /\ w.opens <= n /\ n + d <= w.closes
          /\ (n - w.opens) % SlotIncrement = 0
          /\ i = [court |-> ThisCourt, from |-> date * DayLength + n, to |-> date * DayLength + n + d]
    BY <1>3, CandidatesAreInWindows
  <2>2. n = m
    BY <2>1, <1>1, DateAndMinute
  <2>3. w.closes \in 1 .. DayLength
    BY DEF Window
  <2>4. m + d <= DayLength
    BY <2>1, <2>2, <2>3, PolicyAssumption
  <2>5. ManilaDate(i.to) = date /\ MinuteOfDay(i.to) = m + d
    BY <1>3, <2>4, EndOfSlot DEF EndsAtMidnight
  <2>6. w \in Containing(hours, i)
    BY <1>1, <2>1, <2>2, <2>5 DEF Containing, DayOfWeek
  <2>7. \A v \in Containing(hours, i) : v = w
    BY <1>1, <2>5, <2>6, OneWindowContains
  <2>8. w.opens \in Nat
    BY PolicyAssumption DEF Window
  <2>9. w \in FirstToOpen(Containing(hours, i))
    BY <2>6, <2>7, <2>8 DEF FirstToOpen
  <2>10. Aligned(i, w)
    BY <1>1, <2>1, <2>2 DEF Aligned
  <2> QED
    BY <1>1, <1>2, <1>3, <2>5, <2>9, <2>10 DEF Accepted, AcceptedIn
<1>4. ASSUME Accepted(hours, closures, i)
      PROVE  i \in Candidates(ThisCourt, hours, date, d) /\ ~EndsAtMidnight(i) /\ ~Closed(closures, i)
  <2>1. PICK w \in Containing(hours, i) : Aligned(i, w)
    BY <1>4 DEF Accepted, AcceptedIn, FirstToOpen
  <2>2. w \in hours /\ w.day = date % 7 /\ w.opens <= m /\ MinuteOfDay(i.to) <= w.closes
    BY <1>1 DEF Containing, DayOfWeek
  <2>3. w.opens \in Nat /\ w.closes \in 1 .. DayLength
    BY <2>2, PolicyAssumption DEF Window
  <2>4. ManilaDate(i.to) = date /\ ~Closed(closures, i)
    BY <1>1, <1>4 DEF Accepted, AcceptedIn
  <2>5. m + d < DayLength
    <3>1. date * DayLength + m + d \in Nat /\ i.to = date * DayLength + m + d
      BY PolicyAssumption
    <3>2. i.to \div DayLength = date
      BY <2>4 DEF ManilaDate
    <3>3. i.to < date * DayLength + DayLength
      BY <3>1, <3>2, LessThanNextDate
    <3>4. date * DayLength \in Nat
      BY PolicyAssumption
    <3> QED
      BY <3>1, <3>3, <3>4, PolicyAssumption
  <2>6. MinuteOfDay(i.to) = m + d /\ m + d # 0
    BY <2>5, EndOfSlot, PolicyAssumption, SMTT(20)
  <2>7. /\ m \in w.opens .. w.closes /\ m + d <= w.closes /\ (m - w.opens) % SlotIncrement = 0
    BY <1>1, <2>1, <2>2, <2>3, <2>6, PolicyAssumption DEF Aligned
  <2>8. i \in Candidates(ThisCourt, hours, date, d)
    BY <2>2, <2>7 DEF Candidates
  <2> QED
    BY <2>4, <2>6, <2>8 DEF EndsAtMidnight
<1>q. QED
  BY <1>3, <1>4

(* What a search counts is what the listing offers.                        *)
LEMMA SearchCountsTheListed ==
  ASSUME hours \in SUBSET Window, NEW date \in Date, NEW d \in Durations, ValidDuration(d)
  PROVE  Evaluated(ThisCourt, hours, closures, booked, date, d, 0, DayLength) = Listed(date, d)
<1>1. ASSUME NEW i \in Candidates(ThisCourt, hours, date, d)
      PROVE  MinuteOfDay(i.from) >= 0 /\ MinuteOfDay(i.from) + d <= DayLength
  <2>1. PICK w \in hours, m \in 0 .. DayLength - 1 :
          /\ m + d <= w.closes
          /\ i = [court |-> ThisCourt, from |-> date * DayLength + m, to |-> date * DayLength + m + d]
    BY CandidatesAreInWindows
  <2>2. MinuteOfDay(i.from) = m
    BY <2>1, DateAndMinute, DatesAreNumbers
  <2>3. w.closes \in 1 .. DayLength
    BY DEF Window
  <2> QED
    BY <2>1, <2>2, <2>3, DurationsArePositive, PolicyAssumption
<1>q. QED
  BY <1>1 DEF Evaluated, Listed, PricedSlots

(* The listing offers exactly the free intervals that can be held, but for *)
(* those that end at midnight.                                             *)
LEMMA ListedAreHoldable ==
  ASSUME hours \in SUBSET Window, Apart(hours), NEW date \in Date, NEW d \in Durations, ValidDuration(d)
  PROVE  {i \in Listed(date, d) : ~EndsAtMidnight(i)} = Holdable(date, d)
<1> DEFINE At(m) == [court |-> ThisCourt, from |-> date * DayLength + m, to |-> date * DayLength + m + d]
<1>1. IntervalsOf(date, d) = {At(m) : m \in 0 .. DayLength - 1}
  BY DEF IntervalsOf
<1>2. \A i \in Candidates(ThisCourt, hours, date, d) : \E m \in 0 .. DayLength - 1 : i = At(m)
  BY CandidatesAreInWindows
<1>3. \A m \in 0 .. DayLength - 1 :
        (At(m) \in Candidates(ThisCourt, hours, date, d) /\ ~EndsAtMidnight(At(m)) /\ ~Closed(closures, At(m)))
          <=> Accepted(hours, closures, At(m))
  BY ListedAsHeld
<1> HIDE DEF At
<1>4. \A i : Free(i) <=> \A b \in booked : ~Overlap(i, b)
  BY DEF Free, Overlap
<1>q. QED
  BY <1>1, <1>2, <1>3, <1>4 DEF Listed, PricedSlots, Holdable

---------------------------------------------------------------------------
(* The court's schedule, and the page that holds a slot                    *)

Memory ==
  {Idle}
  \cup [at : {"createHours"}, old : SUBSET Window,
        new : {s \in Schedule : \A w \in s : ValidWindow(w)}, save : Nat]
  \cup [at : {"readBookings"}, hours : SUBSET Window, closures : SUBSET Closure,
        date : Date, duration : Durations]
  \cup [at : {"lockCourt", "createHold"}, slot : Asked \cup Slot]

Reply ==
  {Quiet, NoBooking}
  \cup [kind : {"waiting"}, handler : Handler, otherwise : {NoSlots, NoBooking}]
  \cup [kind : {"slots"}, slots : SUBSET Slot]
  \cup [kind : {"booking"}, slot : Slot]

ScheduleType ==
  /\ hours \in SUBSET Window /\ closures \in SUBSET Closure
  /\ mem \in [Handler -> Memory]
  /\ saves \in Nat
  /\ page \in [date : Date \cup {None}, duration : Durations, slots : SUBSET Slot,
              selected : Slot \cup {None}, booking : Slot \cup {None}]
  /\ call \in Reply
  /\ lost \in BOOLEAN /\ hasty \in BOOLEAN

Fits(i) == ManilaDate(i.from) = page.date /\ Duration(i) = page.duration

(* The handler that the page waits for does what the page asked of it, for *)
(* the date and the duration that it shows.                                *)
WaitsRight ==
  call.kind = "waiting" =>
    \/ /\ call.otherwise = NoSlots /\ mem[call.handler].at = "readBookings"
       /\ ~hasty => /\ mem[call.handler].date = page.date
                    /\ mem[call.handler].duration = page.duration
    \/ /\ call.otherwise = NoBooking /\ mem[call.handler].at \in {"lockCourt", "createHold"}
       /\ mem[call.handler].slot \in Slot /\ mem[call.handler].slot # None
       /\ ~hasty => Fits(mem[call.handler].slot)

(* Every slot on the page, or on the way to it, is of that date.           *)
PageFits ==
  ~hasty =>
    /\ \A i \in page.slots : Fits(i)
    /\ page.selected # None => Fits(page.selected)
    /\ page.booking # None => Fits(page.booking)
    /\ call.kind = "slots" => \A i \in call.slots : Fits(i)
    /\ call.kind = "booking" => Fits(call.slot)

(* A page that calls has no booking yet; one that placed a hold has it, or *)
(* is about to, unless the answer got lost.                                *)
HoldIsKnown ==
  /\ call.kind = "booking" => call.slot # None
  /\ Busy => page.booking = None
  /\ \/ lost \/ mine = {}
     \/ (\E s \in mine : mine = {s}) /\ (call.kind = "booking" \/ page.booking # None)

ScheduleInv == ScheduleType /\ WaitsRight /\ PageFits /\ HoldIsKnown

LEMMA Remembering ==
  ASSUME mem \in [Handler -> Memory], NEW h \in Handler, NEW r \in Memory, Remember(h, r)
  PROVE  /\ mem' \in [Handler -> Memory]
         /\ mem'[h] = r
         /\ \A k \in Handler : k # h => mem'[k] = mem[k]
BY DEF Remember

(* Handlers of other calls than the page's do not disturb the page.        *)
LEMMA OtherRequests ==
  ASSUME ScheduleInv, NEW h \in Handler, ~Calls(h), NEW r \in Memory, Remember(h, r),
         hours' \in SUBSET Window, closures' \in SUBSET Closure, saves' \in Nat,
         UNCHANGED pageVars
  PROVE  ScheduleInv'
<1> USE DEF ScheduleInv, ScheduleType, pageVars
<1>1. /\ mem' \in [Handler -> Memory]
      /\ \A k \in Handler : k # h => mem'[k] = mem[k]
  BY Remembering
<1>2. call.kind = "waiting" => call.handler \in Handler /\ call.handler # h
  BY DEF Calls, Reply, Quiet, NoBooking
<1>3. ScheduleType'
  BY <1>1
<1>4. WaitsRight'
  BY <1>1, <1>2 DEF WaitsRight, Fits
<1>5. PageFits' /\ HoldIsKnown'
  BY DEF PageFits, HoldIsKnown, Fits, Busy
<1>q. QED
  BY <1>3, <1>4, <1>5

LEMMA NotTheCalled ==
  ASSUME ScheduleInv, NEW h \in Handler,
         mem[h].at \notin {"readBookings", "lockCourt", "createHold"}
  PROVE  ~Calls(h)
BY DEF ScheduleInv, WaitsRight, Calls

LEMMA IdleIsMemory == Idle \in Memory /\ Idle.at = "idle"
BY DEF Memory, Idle

(* The slots that a listing finds are slots of its date and duration.      *)
LEMMA ListedFit ==
  ASSUME NEW H \in SUBSET Window, NEW C, NEW B, NEW date \in Date, NEW d \in Durations
  PROVE  \A i \in PricedSlots(ThisCourt, H, C, B, date, d) :
           i \in Slot /\ ManilaDate(i.from) = date /\ Duration(i) = d
BY CandidatesAreOfTheDate DEF PricedSlots

(* A call that ends leaves the page as it is, with its answer on the way.  *)
LEMMA CallEnds ==
  ASSUME ScheduleInv, NEW h \in Handler, Calls(h), NEW r, r \in Reply, call' = r,
         r.kind \in {"slots", "booking", "failed"},
         Finish(h),
         r.kind = "slots" /\ ~hasty => \A i \in r.slots : Fits(i),
         r.kind = "booking" => r.slot # None /\ mine' = mine \cup {r.slot} /\ (~hasty => Fits(r.slot)),
         r.kind # "booking" => mine' = mine,
         UNCHANGED <<hours, closures, saves, page, lost, hasty>>
  PROVE  ScheduleInv'
<1> USE DEF ScheduleInv, ScheduleType
<1>1. mem' \in [Handler -> Memory]
  BY IdleIsMemory, Remembering DEF Finish
<1>2. page.booking = None /\ (lost \/ mine = {})
  BY DEF HoldIsKnown, Busy, Calls, Quiet
<1>3. ScheduleType' /\ WaitsRight'
  BY <1>1 DEF WaitsRight
<1>4. PageFits'
  BY DEF PageFits, Fits
<1>5. HoldIsKnown'
  BY <1>2 DEF HoldIsKnown, Busy
<1>q. QED
  BY <1>3, <1>4, <1>5

LEMMA ScheduleInit == Init => ScheduleInv
<1> SUFFICES ASSUME Init PROVE ScheduleInv
  OBVIOUS
<1>1. MinimumDuration \in Durations
  BY PolicyAssumption DEF Durations
<1>2. mem \in [Handler -> Memory]
  BY IdleIsMemory DEF Init
<1>3. ScheduleType
  BY <1>1, <1>2 DEF Init, ScheduleType, Reply
<1>q. QED
  BY <1>3 DEF Init, ScheduleInv, WaitsRight, PageFits, HoldIsKnown, Busy, Quiet

(* A request that aborts gives the page that waits for it the answer that  *)
(* the page keeps for the case.                                            *)
LEMMA Failing ==
  ASSUME ScheduleInv, NEW h \in Handler, Fail(h), Finish(h),
         UNCHANGED <<hours, closures, saves, page, calls, mine, lost, hasty>>
  PROVE  ScheduleInv'
<1> USE DEF ScheduleInv, ScheduleType
<1>1. CASE Calls(h)
  <2>1. call' \in {NoSlots, NoBooking}
    BY <1>1 DEF Fail, Calls, WaitsRight
  <2>2. NoSlots \in Reply /\ NoBooking \in Reply
    BY DEF NoSlots, Reply
  <2>3. NoSlots.kind = "slots" /\ NoSlots.slots = {} /\ NoBooking.kind = "failed"
    BY DEF NoSlots, NoBooking
  <2> QED
    BY <1>1, <2>1, <2>2, <2>3, CallEnds
<1>2. CASE ~Calls(h)
  BY <1>2, IdleIsMemory, OtherRequests DEF Fail, Finish, pageVars
<1>q. QED
  BY <1>1, <1>2

LEMMA ServerKeepsSchedule ==
  ASSUME ScheduleInv, NEW h \in Handler, ServerStep(h)
  PROVE  ScheduleInv'
<1> USE DEF ScheduleInv, ScheduleType
<1>1. ASSUME NEW s \in Schedule, DeleteHours(h, s) PROVE ScheduleInv'
  <2>1. ~Calls(h)
    BY <1>1, IdleIsMemory, NotTheCalled DEF DeleteHours
  <2>2. [at |-> "createHours", old |-> hours, new |-> s, save |-> saves + 1] \in Memory
    BY <1>1 DEF DeleteHours, Memory
  <2> QED
    BY <1>1, <2>1, <2>2, OtherRequests DEF DeleteHours, courtVars
<1>2. CASE CreateHours(h)
  <2>1. ~Calls(h)
    BY <1>2, NotTheCalled DEF CreateHours
  <2>2. /\ mem[h].new \in {s \in Schedule : \A w \in s : ValidWindow(w)}
        /\ mem[h].save \in Nat
    BY <1>2 DEF CreateHours, Memory, Idle
  <2>3. \A w \in mem[h].new :
          [day |-> w.day, opens |-> w.opens, closes |-> w.closes, save |-> mem[h].save] \in Window
    BY <2>2 DEF ValidWindow, Window
  <2>4. hours' \in SUBSET Window
    BY <1>2, <2>3 DEF CreateHours
  <2> QED
    BY <1>2, <2>1, <2>4, IdleIsMemory, OtherRequests DEF CreateHours, Finish, pageVars
<1>3. CASE ReadBookings(h)
  <2> DEFINE S == PricedSlots(ThisCourt, mem[h].hours, mem[h].closures, booked, mem[h].date, mem[h].duration)
  <2>1. mem[h].hours \in SUBSET Window /\ mem[h].date \in Date /\ mem[h].duration \in Durations
    BY <1>3 DEF ReadBookings, Memory, Idle
  <2>2. \A i \in S : i \in Slot /\ ManilaDate(i.from) = mem[h].date /\ Duration(i) = mem[h].duration
    BY <2>1, ListedFit
  <2> HIDE DEF S
  <2>3. CASE ValidDuration(mem[h].duration) /\ Calls(h)
    <3>1. call' = [kind |-> "slots", slots |-> S]
      BY <1>3, <2>3 DEF ReadBookings, Answer, S
    <3>2. ~hasty => \A i \in S : Fits(i)
      BY <1>3, <2>2, <2>3 DEF ReadBookings, WaitsRight, Calls, Fits
    <3>3. [kind |-> "slots", slots |-> S] \in Reply
      BY <2>2 DEF Reply
    <3> QED
      BY <1>3, <2>3, <3>1, <3>2, <3>3, CallEnds DEF ReadBookings, courtVars
  <2>4. CASE ValidDuration(mem[h].duration) /\ ~Calls(h)
    BY <1>3, <2>4, IdleIsMemory, OtherRequests DEF ReadBookings, Answer, Finish, courtVars, pageVars
  <2>5. CASE ~ValidDuration(mem[h].duration)
    BY <1>3, <2>5, Failing DEF ReadBookings, courtVars
  <2> QED
    BY <2>3, <2>4, <2>5
<1>4. CASE LockCourt(h)
  <2> DEFINE r == [mem[h] EXCEPT !.at = "createHold"]
  <2>1. mem[h] \in [at : {"lockCourt", "createHold"}, slot : Asked \cup Slot]
    BY <1>4 DEF LockCourt, Memory, Idle
  <2>2. r \in Memory /\ r.at = "createHold" /\ r.slot = mem[h].slot
    BY <2>1 DEF Memory
  <2> HIDE DEF r
  <2>3. Remember(h, r) /\ UNCHANGED <<hours, closures, saves, pageVars>>
    BY <1>4 DEF LockCourt, courtVars, r
  <2>4. CASE ~Calls(h)
    BY <2>2, <2>3, <2>4, OtherRequests
  <2>5. CASE Calls(h)
    <3>1. mem' \in [Handler -> Memory] /\ mem'[h] = r
      BY <2>2, <2>3, Remembering
    <3>2. ScheduleType' /\ PageFits' /\ HoldIsKnown'
      BY <2>3, <3>1 DEF pageVars, PageFits, HoldIsKnown, Fits, Busy
    <3>3. WaitsRight'
      BY <1>4, <2>2, <2>3, <2>5, <3>1 DEF LockCourt, pageVars, WaitsRight, Calls, Fits
    <3> QED
      BY <3>2, <3>3
  <2> QED
    BY <2>4, <2>5
<1>5. CASE CreateHold(h)
  <2>1. CASE ~Calls(h)
    BY <1>5, <2>1, IdleIsMemory, OtherRequests DEF CreateHold, Answer, Finish, pageVars
  <2>2. CASE Calls(h)
    <3>1. mem[h].slot \in Slot /\ mem[h].slot # None /\ (~hasty => Fits(mem[h].slot))
      BY <1>5, <2>2 DEF CreateHold, WaitsRight, Calls
    <3>2. call' = [kind |-> "booking", slot |-> mem[h].slot]
      BY <1>5, <2>2 DEF CreateHold, Answer
    <3>3. [kind |-> "booking", slot |-> mem[h].slot] \in Reply
      BY <3>1 DEF Reply
    <3> QED
      BY <1>5, <2>2, <3>1, <3>2, <3>3, CallEnds DEF CreateHold
  <2> QED
    BY <2>1, <2>2
<1>6. CASE Abort(h)
  BY <1>6, Failing DEF Abort, courtVars
<1>7. ASSUME NEW i \in Asked, QuoteHold(h, i), UNCHANGED pageVars PROVE ScheduleInv'
  <2>1. ~Calls(h)
    BY <1>7, IdleIsMemory, NotTheCalled DEF QuoteHold
  <2>2. [at |-> "lockCourt", slot |-> i] \in Memory
    BY DEF Memory
  <2> QED
    BY <1>7, <2>1, <2>2, OtherRequests DEF QuoteHold, courtVars
<1>q. QED
  BY <1>1, <1>2, <1>3, <1>4, <1>5, <1>6, <1>7 DEF ServerStep

LEMMA PageKeepsSchedule ==
  ASSUME ScheduleInv, PageStep
  PROVE  ScheduleInv'
<1> USE DEF ScheduleInv, ScheduleType
<1>1. ASSUME Picking, hasty' = (hasty \/ Busy), UNCHANGED <<serverVars, call, calls, mine, lost>>,
             page'.date \in Date \cup {None}, page'.duration \in Durations,
             page' = [page EXCEPT !.date = page'.date, !.duration = page'.duration, !.slots = {},
                                  !.selected = None]
      PROVE  ScheduleInv'
  <2>1. ScheduleType' /\ HoldIsKnown'
    BY <1>1 DEF serverVars, courtVars, Picking, HoldIsKnown, Busy
  <2>2. hasty' \/ (call' = Quiet /\ ~hasty)
    BY <1>1 DEF Busy
  <2>3. WaitsRight'
    BY <1>1, <2>2 DEF serverVars, courtVars, WaitsRight, Quiet
  <2>4. page'.slots = {} /\ page'.selected = None /\ page'.booking = None
    BY <1>1 DEF Picking
  <2>5. PageFits'
    BY <2>2, <2>4 DEF PageFits, Quiet
  <2> QED
    BY <2>1, <2>3, <2>5
<1>2. /\ \A date \in Date : PickDate(date) => ScheduleInv'
      /\ \A d \in Durations : PickDuration(d) => ScheduleInv'
  BY <1>1 DEF PickDate, PickDuration
<1>3. ASSUME NEW h \in Handler, NEW r \in Memory, NEW otherwise \in {NoSlots, NoBooking},
             Picking, ~Busy, Remember(h, r), Send(h, otherwise), UNCHANGED <<hours, closures, saves>>,
             \/ otherwise = NoSlots /\ r.at = "readBookings" /\ r.date = page.date /\ r.duration = page.duration
             \/ /\ otherwise = NoBooking /\ r.at = "lockCourt"
                /\ r.slot \in Slot /\ r.slot # None /\ (~hasty => Fits(r.slot))
      PROVE  ScheduleInv'
  <2>1. mem' \in [Handler -> Memory] /\ mem'[h] = r
    BY <1>3, Remembering
  <2>2. call' = [kind |-> "waiting", handler |-> h, otherwise |-> otherwise]
    BY <1>3 DEF Send
  <2>3. ScheduleType'
    BY <1>3, <2>1, <2>2 DEF Send, Reply
  <2>4. WaitsRight'
    BY <1>3, <2>1, <2>2 DEF Send, WaitsRight, Fits
  <2>5. PageFits' /\ HoldIsKnown'
    BY <1>3, <2>2 DEF Send, PageFits, HoldIsKnown, Fits, Busy, Picking, Quiet
  <2> QED
    BY <2>3, <2>4, <2>5
<1>4. ASSUME NEW h \in Handler, LoadAvailability(h) PROVE ScheduleInv'
  <2> DEFINE r == [at |-> "readBookings", hours |-> hours, closures |-> closures,
                   date |-> page.date, duration |-> page.duration]
  <2>1. r \in Memory
    BY <1>4 DEF LoadAvailability, Memory
  <2>2. r.at = "readBookings" /\ r.date = page.date /\ r.duration = page.duration
    OBVIOUS
  <2> HIDE DEF r
  <2>3. Remember(h, r) /\ UNCHANGED <<hours, closures, saves>>
    BY <1>4 DEF LoadAvailability, ReadSchedule, courtVars, r
  <2> QED
    BY <1>3, <1>4, <2>1, <2>2, <2>3 DEF LoadAvailability
<1>5. ASSUME NEW h \in Handler, PlaceHold(h) PROVE ScheduleInv'
  <2> DEFINE r == [at |-> "lockCourt", slot |-> page.selected]
  <2>1. r \in Memory /\ r.slot \in Slot /\ r.slot # None /\ (~hasty => Fits(r.slot))
    BY <1>5 DEF PlaceHold, Memory, PageFits
  <2>2. r.at = "lockCourt"
    OBVIOUS
  <2> HIDE DEF r
  <2>3. Remember(h, r) /\ UNCHANGED <<hours, closures, saves>>
    BY <1>5 DEF PlaceHold, QuoteHold, courtVars, r
  <2> QED
    BY <1>3, <1>5, <2>1, <2>2, <2>3 DEF PlaceHold
<1>6. ASSUME NEW i \in page.slots, Select(i) PROVE ScheduleInv'
  BY <1>6 DEF Select, serverVars, courtVars, WaitsRight, PageFits, HoldIsKnown, Fits, Busy
<1>7. CASE Receive
  <2>1. call.kind \in {"slots", "booking", "failed"} /\ page.booking = None
    BY <1>7 DEF Receive, HoldIsKnown, Busy, Quiet, Reply
  <2>2. ScheduleType'
    <3>1. call.kind = "slots" => call.slots \in SUBSET Slot
      BY DEF Reply, Quiet, NoBooking
    <3>2. call.kind = "booking" => call.slot \in Slot
      BY DEF Reply, Quiet, NoBooking
    <3>3. page' \in [date : Date \cup {None}, duration : Durations, slots : SUBSET Slot,
                    selected : Slot \cup {None}, booking : Slot \cup {None}]
      BY <1>7, <3>1, <3>2 DEF Receive
    <3>4. call' \in Reply
      BY <1>7 DEF Receive, Reply
    <3> QED
      BY <1>7, <3>3, <3>4 DEF Receive, serverVars, courtVars
  <2>3. WaitsRight'
    BY <1>7 DEF Receive, WaitsRight, Quiet
  <2>4. PageFits'
    BY <1>7, <2>1 DEF Receive, PageFits, Quiet, Fits
  <2>5. HoldIsKnown'
    BY <1>7, <2>1 DEF Receive, HoldIsKnown, Quiet, Busy
  <2> QED
    BY <2>2, <2>3, <2>4, <2>5
<1>8. CASE LoseAnswer
  BY <1>8 DEF LoseAnswer, serverVars, courtVars, Reply, Quiet, WaitsRight, PageFits, HoldIsKnown, Fits, Busy
<1>q. QED
  BY <1>2, <1>4, <1>5, <1>6, <1>7, <1>8 DEF PageStep

LEMMA ScheduleInvariant == Spec => []ScheduleInv
<1>1. ScheduleInv /\ [Next]_vars => ScheduleInv'
  <2> SUFFICES ASSUME ScheduleInv, [Next]_vars PROVE ScheduleInv'
    OBVIOUS
  <2>1. ASSUME UNCHANGED <<mem, saves, pageVars>>, hours' \in SUBSET Window, closures' \in SUBSET Closure
        PROVE  ScheduleInv'
    BY <2>1 DEF ScheduleInv, ScheduleType, pageVars, WaitsRight, PageFits, HoldIsKnown, Fits, Busy
  <2>2. ASSUME NEW c \in Closure, CreateClosure(c) \/ DeleteClosure(c) PROVE ScheduleInv'
    BY <2>1, <2>2 DEF CreateClosure, DeleteClosure, ScheduleInv, ScheduleType
  <2>3. ASSUME NEW i \in booked, Release(i) PROVE ScheduleInv'
    BY <2>1, <2>3 DEF Release, ScheduleInv, ScheduleType
  <2>4. CASE UNCHANGED vars
    BY <2>1, <2>4 DEF vars, serverVars, courtVars, ScheduleInv, ScheduleType
  <2> QED
    BY <2>2, <2>3, <2>4, ServerKeepsSchedule, PageKeepsSchedule DEF Next
<1>q. QED
  BY <1>1, ScheduleInit, PTL DEF Spec

(* For every date and duration the listing offers exactly what a hold is   *)
(* accepted for, up to midnight, and a search counts the court exactly     *)
(* when something is listed.                                               *)
THEOREM ListingIsRight == Spec => []ListingIsAuthoritative
<1>1. ScheduleInv => ListingIsAuthoritative
  BY ListedAreHoldable, SearchCountsTheListed DEF ScheduleInv, ScheduleType, ListingIsAuthoritative
<1>q. QED
  BY <1>1, ScheduleInvariant, PTL

(* The slot that the page ends up with is of the date and the duration it  *)
(* shows, unless one of them was changed during a call.                    *)
THEOREM PageHoldsItsSlot == Spec => []PageHoldsWhatItShows
<1>1. ScheduleInv => PageHoldsWhatItShows
  BY DEF ScheduleInv, ScheduleType, PageFits, Fits, PageHoldsWhatItShows
<1>q. QED
  BY <1>1, ScheduleInvariant, PTL

(* However impatiently it is clicked, the page holds one slot at most, as  *)
(* long as no answer gets lost.                                            *)
THEOREM PageHoldsOnce == Spec => []OneHoldPerPage
<1>1. ScheduleInv => OneHoldPerPage
  <2> SUFFICES ASSUME ScheduleInv, ~lost PROVE ~(Cardinality(mine) > 1)
    BY DEF ScheduleInv, ScheduleType, OneHoldPerPage
  <2>1. mine = {} \/ \E s \in mine : mine = {s}
    BY DEF ScheduleInv, HoldIsKnown
  <2>2. CASE mine = {}
    BY <2>2, FS_EmptySet
  <2>3. ASSUME NEW s \in mine, mine = {s} PROVE Cardinality(mine) = 1
    BY <2>3, FS_Singleton
  <2> QED
    BY <2>1, <2>2, <2>3
<1>q. QED
  BY <1>1, ScheduleInvariant, PTL

---------------------------------------------------------------------------
(* The forms of reviews *)

FormType ==
  /\ done \in SUBSET Completed
  /\ review \in [Completed -> 0 .. 5]
  /\ writing \in [Reviewer -> {NoRequest} \cup ReviewRequest]
  /\ form \in [Completed -> FormState]
  /\ unseen \in SUBSET Completed

(* Request h was sent by the form of booking b.                            *)
ClickedFor(h, b) == writing[h].at # "none" /\ writing[h].clicked /\ writing[h].booking = b

(* What a request has checked, or written, stays so.                       *)
RequestsAreRight ==
  \A h \in Reviewer :
    /\ writing[h].at = "create" => writing[h].booking \in done /\ writing[h].stars \in 1 .. 5
    /\ writing[h].at = "answer" => writing[h].booking \in done /\ review[writing[h].booking] # 0
    /\ \A b \in Completed :
         ClickedFor(h, b) => form[b] = "pending" \/ (form[b] = "none" /\ review[b] # 0)

(* A form has one request under way at most.                               *)
OneClickAtATime ==
  \A h, k \in Reviewer, b \in Completed : ClickedFor(h, b) /\ ClickedFor(k, b) => h = k

(* A form is of a completed booking; one that is open over a review was    *)
(* not told of it, and one that waits is about to be.                      *)
FormsAreRight ==
  \A b \in Completed :
    /\ form[b] # "none" => b \in done /\ b \in WithForm
    /\ form[b] = "done" => review[b] # 0
    /\ form[b] \in {"ready", "error"} /\ review[b] # 0 => b \in unseen
    /\ form[b] = "pending" /\ review[b] # 0 =>
         b \in unseen \/ \E h \in Reviewer : ClickedFor(h, b) /\ writing[h].at = "answer"

FormInv == FormType /\ RequestsAreRight /\ OneClickAtATime /\ FormsAreRight

LEMMA FormInit == ReviewInit => FormInv
BY DEF ReviewInit, FormInv, FormType, NoRequest, FormState, RequestsAreRight, OneClickAtATime, FormsAreRight,
       ClickedFor

(* A request that ends tells its form how; one that was not done leaves an *)
(* error, over a review only if the form was not told of it.               *)
LEMMA RequestEnds ==
  ASSUME FormInv, NEW h \in Reviewer, NEW outcome \in {"error", "done"}, writing[h].at # "none",
         Ends(h, outcome), UNCHANGED serverReviewVars, unseen' \in SUBSET Completed, unseen \subseteq unseen',
         outcome = "done" => writing[h].at = "answer",
         outcome = "error" /\ writing[h].at = "answer" => writing[h].booking \in unseen'
  PROVE  FormInv'
<1> DEFINE b == writing[h].booking
<1> USE DEF FormInv, FormType
<1>1. b \in Completed /\ writing[h].clicked \in BOOLEAN
  BY DEF ReviewRequest, NoRequest
<1>2. /\ writing' \in [Reviewer -> {NoRequest} \cup ReviewRequest] /\ writing'[h].at = "none"
      /\ \A k \in Reviewer : k # h => writing'[k] = writing[k]
  BY DEF Ends, NoRequest
<1>3. /\ form' \in [Completed -> FormState]
      /\ form'[b] = IF writing[h].clicked /\ form[b] = "pending" THEN outcome ELSE form[b]
      /\ \A c \in Completed : c # b => form'[c] = form[c]
  BY <1>1 DEF Ends, FormState
<1>4. \A k \in Reviewer, c \in Completed : ClickedFor(k, c)' => k # h /\ ClickedFor(k, c)
  BY <1>2 DEF ClickedFor
<1>5. \A k \in Reviewer, c \in Completed : k # h /\ ClickedFor(k, c) => ClickedFor(k, c)'
  BY <1>2 DEF ClickedFor
<1>6. writing[h].clicked => ClickedFor(h, b)
  BY DEF ClickedFor
<1> HIDE DEF b
<1>7. FormType'
  BY <1>2, <1>3 DEF serverReviewVars
<1>8. OneClickAtATime'
  BY <1>4 DEF OneClickAtATime
<1>9. RequestsAreRight'
  <2> SUFFICES ASSUME NEW k \in Reviewer PROVE RequestsAreRight!(k)'
    BY DEF RequestsAreRight
  <2>1. CASE k = h
    BY <1>2, <2>1 DEF ClickedFor
  <2>2. ASSUME k # h, NEW c \in Completed, ClickedFor(k, c)'
        PROVE  form'[c] = "pending" \/ (form'[c] = "none" /\ review'[c] # 0)
    <3>1. ClickedFor(k, c) /\ ~ClickedFor(h, c)
      BY <1>4, <2>2 DEF OneClickAtATime
    <3>2. form'[c] = form[c]
      BY <1>1, <1>3, <1>6, <3>1
    <3> QED
      BY <3>1, <3>2 DEF RequestsAreRight, serverReviewVars
  <2> QED
    BY <1>2, <2>1, <2>2 DEF RequestsAreRight, serverReviewVars
<1>10. FormsAreRight'
  <2> SUFFICES ASSUME NEW c \in Completed PROVE FormsAreRight!(c)'
    BY DEF FormsAreRight
  <2>1. CASE form'[c] = form[c]
    <3>1. ASSUME form[c] = "pending", NEW k \in Reviewer, ClickedFor(k, c), writing[k].at = "answer"
          PROVE  c \in unseen' \/ \E l \in Reviewer : ClickedFor(l, c)' /\ writing'[l].at = "answer"
      <4>1. k # h
        BY <1>3, <1>6, <2>1, <3>1 DEF ClickedFor, b
      <4> QED
        BY <1>2, <1>5, <3>1, <4>1
    <3> QED
      BY <2>1, <3>1 DEF FormsAreRight, serverReviewVars
  <2>2. CASE form'[c] # form[c]
    <3>1. c = b /\ writing[h].clicked /\ form[b] = "pending" /\ form'[b] = outcome
      BY <1>1, <1>3, <2>2
    <3>2. \A k \in Reviewer : ClickedFor(k, b) => k = h
      BY <1>1, <1>6, <3>1 DEF OneClickAtATime
    <3>3. b \in done' /\ b \in WithForm
      BY <1>1, <3>1 DEF FormsAreRight, serverReviewVars
    <3>4. CASE outcome = "done"
      BY <3>1, <3>3, <3>4 DEF RequestsAreRight, serverReviewVars, b
    <3>5. CASE outcome = "error"
      <4>1. review[b] # 0 => b \in unseen'
        BY <1>1, <3>1, <3>2, <3>5 DEF FormsAreRight, b
      <4> QED
        BY <3>1, <3>3, <3>5, <4>1 DEF serverReviewVars
    <3> QED
      BY <3>4, <3>5
  <2> QED
    BY <2>1, <2>2
<1>q. QED
  BY <1>7, <1>8, <1>9, <1>10

LEMMA LoadKeepsForms ==
  ASSUME FormInv, LoadBookings
  PROVE  FormInv'
<1> USE DEF FormInv, FormType
<1>1. /\ form' \in [Completed -> FormState]
      /\ \A b \in Completed :
           form'[b] = IF b \notin WithForm \/ b \notin done \/ review[b] # 0 THEN "none"
                      ELSE IF form[b] = "none" THEN "ready" ELSE form[b]
  BY DEF LoadBookings, FormState
<1>2. UNCHANGED <<done, review, writing, unseen>>
  BY DEF LoadBookings, serverReviewVars
<1>3. FormsAreRight'
  BY <1>1, <1>2 DEF FormsAreRight
<1>4. RequestsAreRight'
  <2>1. ASSUME NEW h \in Reviewer, NEW b \in Completed, ClickedFor(h, b)'
        PROVE  form'[b] = "pending" \/ (form'[b] = "none" /\ review'[b] # 0)
    <3>1. ClickedFor(h, b)
      BY <1>2, <2>1 DEF ClickedFor
    <3>2. form[b] = "pending" \/ (form[b] = "none" /\ review[b] # 0)
      BY <3>1 DEF RequestsAreRight
    <3>3. form[b] = "pending" /\ review[b] = 0 => b \in WithForm /\ b \in done
      BY DEF FormsAreRight
    <3> QED
      BY <1>1, <1>2, <3>2, <3>3
  <2> QED
    BY <1>2, <2>1 DEF RequestsAreRight
<1>5. OneClickAtATime'
  BY <1>2 DEF OneClickAtATime, ClickedFor
<1>q. QED
  BY <1>1, <1>2, <1>3, <1>4, <1>5

LEMMA SubmitKeepsForms ==
  ASSUME FormInv, NEW h \in Reviewer, NEW b \in Completed, NEW stars \in Stars, NEW clicked \in BOOLEAN,
         SubmitReview(h, b, stars, clicked)
  PROVE  FormInv'
<1> USE DEF FormInv, FormType
<1> DEFINE r == [at |-> "check", booking |-> b, stars |-> stars, clicked |-> clicked]
<1>1. r \in ReviewRequest /\ r.at = "check" /\ r.booking = b /\ r.clicked = clicked
  BY DEF ReviewRequest
<1> HIDE DEF r
<1>2. /\ writing' \in [Reviewer -> {NoRequest} \cup ReviewRequest] /\ writing'[h] = r
      /\ \A k \in Reviewer : k # h => writing'[k] = writing[k]
  BY <1>1 DEF SubmitReview, r
<1>3. UNCHANGED <<done, review, unseen>> /\ writing[h].at = "none"
  BY DEF SubmitReview, serverReviewVars, NoRequest
<1>4. /\ form' \in [Completed -> FormState]
      /\ clicked => form'[b] = "pending" /\ form[b] \in {"ready", "error"}
      /\ \A c \in Completed : c # b \/ ~clicked => form'[c] = form[c]
  BY DEF SubmitReview, FormState
<1>5. \A k \in Reviewer, c \in Completed : ClickedFor(k, c)' => (k = h /\ c = b /\ clicked) \/ (k # h /\ ClickedFor(k, c))
  BY <1>1, <1>2 DEF ClickedFor
<1>6. \A k \in Reviewer, c \in Completed : ClickedFor(k, c) => k # h /\ ClickedFor(k, c)'
  BY <1>2, <1>3 DEF ClickedFor
<1>7. clicked => \A k \in Reviewer : ~ClickedFor(k, b)
  BY <1>4 DEF RequestsAreRight
<1>8. OneClickAtATime'
  BY <1>5, <1>7 DEF OneClickAtATime
<1>9. RequestsAreRight'
  <2>1. ASSUME NEW k \in Reviewer, NEW c \in Completed, ClickedFor(k, c)'
        PROVE  form'[c] = "pending" \/ (form'[c] = "none" /\ review'[c] # 0)
    <3>1. CASE k = h /\ c = b /\ clicked
      BY <1>4, <3>1
    <3>2. CASE k # h /\ ClickedFor(k, c)
      <4>1. form'[c] = form[c]
        BY <1>4, <1>7, <3>2
      <4> QED
        BY <1>3, <3>2, <4>1 DEF RequestsAreRight
    <3> QED
      BY <1>5, <2>1, <3>1, <3>2
  <2> QED
    BY <1>1, <1>2, <1>3, <2>1 DEF RequestsAreRight
<1>10. FormsAreRight'
  <2>1. ASSUME NEW c \in Completed, c # b \/ ~clicked PROVE FormsAreRight!(c)'
    <3>1. form'[c] = form[c]
      BY <1>4, <2>1
    <3>2. \A k \in Reviewer : ClickedFor(k, c) => ClickedFor(k, c)' /\ writing'[k] = writing[k]
      BY <1>2, <1>6
    <3> QED
      BY <1>3, <3>1, <3>2 DEF FormsAreRight
  <2>2. CASE clicked
    <3>1. FormsAreRight!(b)'
      BY <1>3, <1>4, <2>2 DEF FormsAreRight
    <3> QED
      BY <2>1, <3>1 DEF FormsAreRight
  <2> QED
    BY <2>1, <2>2 DEF FormsAreRight
<1>q. QED
  BY <1>2, <1>3, <1>4, <1>8, <1>9, <1>10

LEMMA CheckKeepsForms ==
  ASSUME FormInv, NEW h \in Reviewer, CheckReviewed(h)
  PROVE  FormInv'
<1> USE DEF FormInv, FormType
<1>1. CASE MayReview(h) /\ writing' = [writing EXCEPT ![h].at = "create"] /\ UNCHANGED form
  <2>1. writing[h] \in ReviewRequest
    BY DEF CheckReviewed, NoRequest
  <2>2. /\ writing' \in [Reviewer -> {NoRequest} \cup ReviewRequest]
        /\ writing'[h] = [writing[h] EXCEPT !.at = "create"]
        /\ \A k \in Reviewer : k # h => writing'[k] = writing[k]
    BY <1>1, <2>1 DEF ReviewRequest
  <2>3. /\ writing'[h].at = "create" /\ writing'[h].booking = writing[h].booking
        /\ writing'[h].stars = writing[h].stars /\ writing'[h].clicked = writing[h].clicked
    BY <2>1, <2>2 DEF ReviewRequest
  <2>4. UNCHANGED <<done, review, form, unseen>> /\ writing[h].at = "check"
    BY <1>1 DEF CheckReviewed, serverReviewVars
  <2>5. \A k \in Reviewer, c \in Completed : ClickedFor(k, c)' <=> ClickedFor(k, c)
    BY <2>2, <2>3, <2>4 DEF ClickedFor
  <2>6. RequestsAreRight'
    BY <1>1, <2>2, <2>3, <2>4, <2>5 DEF RequestsAreRight, MayReview
  <2>7. OneClickAtATime' /\ FormsAreRight'
    BY <2>2, <2>4, <2>5 DEF OneClickAtATime, FormsAreRight
  <2> QED
    BY <2>2, <2>4, <2>6, <2>7
<1>2. CASE Ends(h, "error")
  BY <1>2, RequestEnds DEF CheckReviewed
<1>q. QED
  BY <1>1, <1>2 DEF CheckReviewed

LEMMA CreateKeepsForms ==
  ASSUME FormInv, NEW h \in Reviewer, CreateReview(h)
  PROVE  FormInv'
<1> USE DEF FormInv, FormType
<1> DEFINE b == writing[h].booking
<1>1. writing[h] \in ReviewRequest /\ b \in Completed /\ writing[h].at = "create"
  BY DEF CreateReview, NoRequest, ReviewRequest
<1>2. /\ writing' \in [Reviewer -> {NoRequest} \cup ReviewRequest]
      /\ writing'[h] = [writing[h] EXCEPT !.at = "answer"]
      /\ \A k \in Reviewer : k # h => writing'[k] = writing[k]
  BY <1>1 DEF CreateReview, ReviewRequest
<1>3. /\ writing'[h].at = "answer" /\ writing'[h].booking = b
      /\ writing'[h].clicked = writing[h].clicked
  BY <1>1, <1>2 DEF ReviewRequest
<1>4. /\ review' \in [Completed -> 0 .. 5] /\ review[b] = 0 /\ review'[b] # 0
      /\ \A c \in Completed : c # b => review'[c] = review[c]
  BY <1>1 DEF CreateReview, RequestsAreRight
<1>5. /\ UNCHANGED <<done, form>> /\ unseen \subseteq unseen' /\ unseen' \in SUBSET Completed
      /\ ~writing[h].clicked => b \in unseen'
  BY <1>1 DEF CreateReview
<1> HIDE DEF b
<1>6. \A k \in Reviewer, c \in Completed : ClickedFor(k, c)' <=> ClickedFor(k, c)
  BY <1>1, <1>2, <1>3 DEF ClickedFor, b
<1>7. RequestsAreRight'
  <2> SUFFICES ASSUME NEW k \in Reviewer PROVE RequestsAreRight!(k)'
    BY DEF RequestsAreRight
  <2>1. \A c \in Completed :
          ClickedFor(k, c) => form[c] = "pending" \/ (form[c] = "none" /\ review'[c] # 0)
    BY <1>1, <1>4 DEF RequestsAreRight
  <2>2. CASE k = h
    BY <1>1, <1>3, <1>4, <1>5, <1>6, <2>1, <2>2 DEF RequestsAreRight, b
  <2>3. CASE k # h
    <3>1. writing[k].at = "answer" => writing[k].booking \in Completed
      BY DEF ReviewRequest, NoRequest
    <3> QED
      BY <1>1, <1>2, <1>4, <1>5, <1>6, <2>1, <2>3, <3>1 DEF RequestsAreRight
  <2> QED
    BY <2>2, <2>3
<1>8. OneClickAtATime'
  BY <1>6 DEF OneClickAtATime
<1>9. FormsAreRight'
  <2>1. ASSUME NEW c \in Completed, c # b PROVE FormsAreRight!(c)'
    <3>1. \A k \in Reviewer : ClickedFor(k, c) => writing'[k].at = writing[k].at
      BY <1>2, <2>1 DEF ClickedFor, b
    <3> QED
      BY <1>4, <1>5, <1>6, <2>1, <3>1 DEF FormsAreRight
  <2>2. CASE writing[h].clicked
    <3>1. ClickedFor(h, b)
      BY <1>1, <2>2 DEF ClickedFor, b
    <3>2. form[b] = "pending"
      BY <1>1, <1>4, <3>1 DEF RequestsAreRight
    <3> QED
      BY <1>1, <1>3, <1>4, <1>5, <1>6, <2>1, <3>1, <3>2 DEF FormsAreRight
  <2>3. CASE ~writing[h].clicked
    BY <1>1, <1>4, <1>5, <2>1, <2>3 DEF FormsAreRight
  <2> QED
    BY <1>1, <2>2, <2>3 DEF ReviewRequest
<1>q. QED
  BY <1>2, <1>4, <1>5, <1>7, <1>8, <1>9

LEMMA FormInvariant == ReviewSpec => []FormInv
<1>1. FormInv /\ [ReviewNext]_reviewVars => FormInv'
  <2> SUFFICES ASSUME FormInv, [ReviewNext]_reviewVars PROVE FormInv'
    OBVIOUS
  <2>1. ASSUME NEW b \in Completed, Complete(b) PROVE FormInv'
    BY <2>1 DEF Complete, FormInv, FormType, RequestsAreRight, OneClickAtATime, FormsAreRight, ClickedFor
  <2>2. ASSUME NEW h \in Reviewer, RefuseDuplicate(h) \/ AnswerReview(h) \/ LoseReview(h) PROVE FormInv'
    <3>1. writing[h].at # "none" => writing[h].booking \in Completed
      BY DEF FormInv, FormType, ReviewRequest, NoRequest
    <3> QED
      BY <2>2, <3>1, RequestEnds DEF RefuseDuplicate, AnswerReview, LoseReview, FormInv, FormType
  <2>3. ASSUME UNCHANGED <<serverReviewVars, writing, form, unseen>> PROVE FormInv'
    BY <2>3 DEF serverReviewVars, FormInv, FormType, RequestsAreRight, OneClickAtATime, FormsAreRight, ClickedFor
  <2>4. CASE LoadRating \/ LoadLatest \/ ShowReviews \/ LoadReviewsFails \/ UNCHANGED reviewVars
    BY <2>3, <2>4 DEF LoadRating, LoadLatest, ShowReviews, LoadReviewsFails, reviewVars
  <2> QED
    BY <2>1, <2>2, <2>4, LoadKeepsForms, SubmitKeepsForms, CheckKeepsForms, CreateKeepsForms DEF ReviewNext
<1>q. QED
  BY <1>1, FormInit, PTL DEF ReviewSpec

(* A form thanks only for a review of a completed booking, and shows an    *)
(* error over a review only if it was not told of it.                      *)
THEOREM FormsTellTheReview == ReviewSpec => []FormTellsTheReview
<1>1. FormInv => FormTellsTheReview
  BY ReviewAssumption DEF FormInv, FormsAreRight, FormTellsTheReview
<1>q. QED
  BY <1>1, FormInvariant, PTL

---------------------------------------------------------------------------
(* Sums over finite sets.  The induction is by the least number that a set *)
(* of numbers leaves out.                                                  *)

LEMMA InductionBySet ==
  ASSUME NEW P, 0 \in P, \A n \in Nat : n \in P => n + 1 \in P
  PROVE  Nat \subseteq P
<1> DEFINE T == Nat \ P
<1> SUFFICES ASSUME T # {} PROVE FALSE
  OBVIOUS
<1>1. PICK x \in T : \A y \in T : ~ (<<y, x>> \in OpToRel(<, Nat))
  BY NatLessThanWellFounded, WFMin
<1>2. x \in Nat /\ x # 0 /\ x - 1 \in Nat /\ x - 1 < x
  OBVIOUS
<1>3. <<x - 1, x>> \in OpToRel(<, Nat)
  BY <1>2 DEF OpToRel
<1>4. x - 1 \in P
  BY <1>1, <1>2, <1>3
<1>q. QED
  BY <1>2, <1>4

AnyOf(s) == CHOOSE x \in s : TRUE
Summed(f, sum, s) == IF s = {} THEN 0 ELSE f[AnyOf(s)] + sum[s \ {AnyOf(s)}]
IsSum(f, sum, S) == sum = [s \in SUBSET S |-> Summed(f, sum, s)]
SumOver(f, S) == SetsExt!MapThenSumSet(LAMBDA b : f[b], S)

LEMMA AnyOfIsMember == \A s : s # {} => AnyOf(s) \in s
BY DEF AnyOf

(* The sum is that of a function that follows the recursion.               *)
LEMMA SumExists ==
  ASSUME NEW S, IsFiniteSet(S), NEW f
  PROVE  \E sum : IsSum(f, sum, S)
<1> DEFINE Upto(n) == {s \in SUBSET S : Cardinality(s) <= n}
           Partial(g, n) == g = [s \in Upto(n) |-> Summed(f, g, s)]
           P == {n \in Nat : \E g : Partial(g, n)}
<1>1. \A s \in SUBSET S : IsFiniteSet(s) /\ Cardinality(s) \in Nat /\ Cardinality(s) <= Cardinality(S)
  BY FS_Subset, FS_CardinalityType
<1>2. \A s \in SUBSET S : Cardinality(s) = 0 <=> s = {}
  BY <1>1, FS_EmptySet
<1>3. 0 \in P
  <2> DEFINE g == [s \in Upto(0) |-> 0]
  <2>1. \A s \in Upto(0) : s = {}
    BY <1>1, <1>2
  <2>2. Partial(g, 0)
    BY <2>1 DEF Summed
  <2> QED
    BY <2>2
<1>4. ASSUME NEW n \in Nat, n \in P PROVE n + 1 \in P
  <2>1. PICK g : Partial(g, n)
    BY <1>4
  <2> DEFINE h == [s \in Upto(n + 1) |-> Summed(f, g, s)]
  <2>2. \A s \in Upto(n) : s \in Upto(n + 1) /\ h[s] = g[s]
    BY <1>1, <2>1
  <2>3. ASSUME NEW s \in Upto(n + 1), s # {} PROVE s \ {AnyOf(s)} \in Upto(n)
    <3>1. AnyOf(s) \in s
      BY <2>3, AnyOfIsMember
    <3>2. Cardinality(s \ {AnyOf(s)}) = Cardinality(s) - 1
      BY <1>1, <3>1, FS_RemoveElement
    <3> QED
      BY <1>1, <3>2
  <2>4. \A s \in Upto(n + 1) : Summed(f, g, s) = Summed(f, h, s)
    BY <2>2, <2>3 DEF Summed
  <2> HIDE DEF Upto
  <2>5. Partial(h, n + 1)
    BY <2>4
  <2> HIDE DEF h
  <2>6. n + 1 \in Nat /\ \E k : Partial(k, n + 1)
    BY <2>5
  <2> QED
    BY <2>6
<1>5. Cardinality(S) \in P
  <2> HIDE DEF P
  <2> QED
    BY <1>3, <1>4, FS_CardinalityType, InductionBySet
<1>6. Upto(Cardinality(S)) = SUBSET S
  BY <1>1
<1>q. QED
  BY <1>5, <1>6 DEF IsSum

LEMMA SumIsSum ==
  ASSUME NEW S, IsFiniteSet(S), NEW f
  PROVE  \E sum : IsSum(f, sum, S) /\ SumOver(f, S) = sum[S]
<1> DEFINE sum == CHOOSE g : g = [s \in SUBSET S |-> IF s = {} THEN 0
                                   ELSE f[CHOOSE x \in s : TRUE] + g[s \ {CHOOSE x \in s : TRUE}]]
<1>1. SumOver(f, S) = sum[S]
  BY DEF SumOver, SetsExt!MapThenSumSet, SetsExt!MapThenFoldSet
<1>2. \E g : g = [s \in SUBSET S |-> IF s = {} THEN 0
                     ELSE f[CHOOSE x \in s : TRUE] + g[s \ {CHOOSE x \in s : TRUE}]]
  <2>1. PICK g : IsSum(f, g, S)
    BY SumExists
  <2>2. g = [s \in SUBSET S |-> IF s = {} THEN 0
               ELSE f[CHOOSE x \in s : TRUE] + g[s \ {CHOOSE x \in s : TRUE}]]
    BY <2>1 DEF IsSum, Summed, AnyOf
  <2> QED
    BY <2>2
<1>3. sum = [s \in SUBSET S |-> IF s = {} THEN 0
               ELSE f[CHOOSE x \in s : TRUE] + sum[s \ {CHOOSE x \in s : TRUE}]]
  BY <1>2
<1> HIDE DEF sum
<1>4. IsSum(f, sum, S)
  BY <1>3 DEF IsSum, Summed, AnyOf
<1>q. QED
  BY <1>1, <1>4

(* A sum lies between the number of its terms times a lower and an upper   *)
(* bound of them.                                                          *)
LEMMA SumIsBounded ==
  ASSUME NEW S, IsFiniteSet(S), NEW f, NEW low \in Nat, NEW high \in Nat,
         \A x \in S : f[x] \in Nat /\ low <= f[x] /\ f[x] <= high
  PROVE  /\ SumOver(f, S) \in Nat
         /\ low * Cardinality(S) <= SumOver(f, S) /\ SumOver(f, S) <= high * Cardinality(S)
<1>1. PICK sum : IsSum(f, sum, S) /\ SumOver(f, S) = sum[S]
  BY SumIsSum
<1> DEFINE Bounded(s) == /\ sum[s] \in Nat
                         /\ low * Cardinality(s) <= sum[s] /\ sum[s] <= high * Cardinality(s)
           P == {n \in Nat : \A s \in SUBSET S : Cardinality(s) = n => Bounded(s)}
<1>2. \A s \in SUBSET S : IsFiniteSet(s) /\ Cardinality(s) \in Nat
  BY FS_Subset, FS_CardinalityType
<1>3. 0 \in P
  <2>1. ASSUME NEW s \in SUBSET S, Cardinality(s) = 0 PROVE Bounded(s)
    <3>1. s = {}
      BY <1>2, <2>1, FS_EmptySet
    <3>2. sum[s] = 0
      BY <1>1, <3>1 DEF IsSum, Summed
    <3> QED
      BY <2>1, <3>2
  <2> QED
    BY <2>1
<1>4. ASSUME NEW n \in Nat, n \in P PROVE n + 1 \in P
  <2>1. ASSUME NEW s \in SUBSET S, Cardinality(s) = n + 1 PROVE Bounded(s)
    <3> DEFINE x == AnyOf(s)
               t == s \ {x}
    <3>1. s # {}
      BY <2>1, FS_EmptySet
    <3>2. x \in s /\ x \in S
      BY <3>1, AnyOfIsMember
    <3>3. t \in SUBSET S /\ Cardinality(t) = n
      <4> HIDE DEF x
      <4>1. IsFiniteSet(s)
        BY <1>2
      <4>2. Cardinality(t) = Cardinality(s) - 1
        BY <3>2, <4>1, FS_RemoveElement
      <4> QED
        BY <2>1, <4>2
    <3>4. sum[s] = f[x] + sum[t]
      BY <1>1, <3>1 DEF IsSum, Summed
    <3>5. sum[t] \in Nat /\ low * n <= sum[t] /\ sum[t] <= high * n
      BY <1>4, <3>3
    <3>6. f[x] \in Nat /\ low <= f[x] /\ f[x] <= high
      BY <3>2
    <3>7. low * (n + 1) = low * n + low /\ high * (n + 1) = high * n + high
      OBVIOUS
    <3>8. low * n \in Nat /\ high * n \in Nat
      OBVIOUS
    <3> HIDE DEF x, t
    <3>9. sum[s] \in Nat /\ low * (n + 1) <= sum[s] /\ sum[s] <= high * (n + 1)
      BY <3>4, <3>5, <3>6, <3>7, <3>8
    <3> QED
      BY <2>1, <3>9
  <2> QED
    BY <2>1
<1>5. Cardinality(S) \in P
  <2> HIDE DEF P
  <2> QED
    BY <1>3, <1>4, FS_CardinalityType, InductionBySet
<1>q. QED
  BY <1>1, <1>5

LEMMA LeastOf ==
  ASSUME NEW T, T \subseteq Nat, T # {}
  PROVE  \E m \in T : \A n \in T : m <= n
<1>1. PICK m \in T : \A n \in T : ~ (<<n, m>> \in OpToRel(<, Nat))
  BY NatLessThanWellFounded, WFMin
<1>2. ASSUME NEW n \in T PROVE m <= n
  <2>1. n \in Nat /\ m \in Nat
    OBVIOUS
  <2>2. n < m => <<n, m>> \in OpToRel(<, Nat)
    BY <2>1 DEF OpToRel
  <2>3. ~ (n < m)
    BY <1>1, <2>2
  <2> QED
    BY <2>1, <2>3
<1>q. QED
  BY <1>2

LEMMA LowAndHigh ==
  ASSUME NEW S, S # {}, NEW f, \A x \in S : f[x] \in 0 .. 5
  PROVE  \E low, high \in S : \A x \in S : f[low] <= f[x] /\ f[x] <= f[high]
<1>1. PICK low \in S : \A x \in S : f[low] <= f[x]
  <2> DEFINE T == {f[x] : x \in S}
  <2>1. T \subseteq Nat /\ T # {}
    OBVIOUS
  <2> HIDE DEF T
  <2>2. PICK m \in T : \A n \in T : m <= n
    BY <2>1, LeastOf
  <2> QED
    BY <2>2 DEF T
<1>2. PICK high \in S : \A x \in S : f[x] <= f[high]
  <2> DEFINE T == {5 - f[x] : x \in S}
  <2>1. T \subseteq Nat /\ T # {}
    OBVIOUS
  <2> HIDE DEF T
  <2>2. PICK m \in T : \A n \in T : m <= n
    BY <2>1, LeastOf
  <2>3. PICK high \in S : m = 5 - f[high]
    BY <2>2 DEF T
  <2>4. \A x \in S : 5 - f[high] <= 5 - f[x]
    BY <2>2, <2>3 DEF T
  <2> QED
    BY <2>4
<1>q. QED
  BY <1>1, <1>2

LEMMA ProductsOrdered ==
  ASSUME NEW a \in Nat, NEW b \in Nat, a <= b, NEW n \in Nat
  PROVE  a * n <= b * n
OBVIOUS

(* An average in tenths lies between ten times the bounds of its terms.    *)
LEMMA RoundIsBounded ==
  ASSUME NEW n \in Nat \ {0}, NEW sum \in Nat, NEW low \in Nat, NEW high \in Nat,
         low * n <= sum, sum <= high * n
  PROVE  Round1(sum, n) \in Nat /\ 10 * low <= Round1(sum, n) /\ Round1(sum, n) <= 10 * high
<1> DEFINE D == 2 * n
           t == 20 * sum + n
           q == t \div D
<1>1. D \in Nat \ {0} /\ t \in Nat /\ Round1(sum, n) = q
  BY DEF Round1
<1>2. q \in Nat /\ q * D <= t /\ t < q * D + D
  <2> HIDE DEF D, t
  <2> QED
    BY <1>1
<1>3. (10 * low) * D + n <= t /\ t <= (10 * high) * D + n
  <2>1. low * n \in Nat /\ high * n \in Nat
    OBVIOUS
  <2>2. (10 * low) * D = 20 * (low * n) /\ (10 * high) * D = 20 * (high * n)
    OBVIOUS
  <2> QED
    BY <2>1, <2>2
<1> HIDE DEF q, t
<1>4. 10 * low <= q
  <2> SUFFICES ASSUME q + 1 <= 10 * low PROVE FALSE
    BY <1>2
  <2>1. (q + 1) * D <= (10 * low) * D
    BY <1>1, <1>2, ProductsOrdered
  <2>2. (q + 1) * D = q * D + D /\ q * D \in Nat /\ (10 * low) * D \in Nat
    BY <1>1, <1>2
  <2> HIDE DEF D
  <2> QED
    BY <1>1, <1>2, <1>3, <2>1, <2>2
<1>5. q <= 10 * high
  <2> SUFFICES ASSUME 10 * high + 1 <= q PROVE FALSE
    BY <1>2
  <2>1. (10 * high + 1) * D <= q * D
    BY <1>1, <1>2, ProductsOrdered
  <2>2. (10 * high + 1) * D = (10 * high) * D + D /\ q * D \in Nat /\ (10 * high) * D \in Nat
    BY <1>1, <1>2
  <2>3. D = n + n
    OBVIOUS
  <2> HIDE DEF D
  <2> QED
    BY <1>1, <1>2, <1>3, <2>1, <2>2, <2>3
<1>q. QED
  BY <1>1, <1>2, <1>4, <1>5

---------------------------------------------------------------------------
(* The page that shows reviews *)

PageType ==
  /\ summary \in {NotRead} \cup [at : {"read"}, count : Nat, average : Int]
  /\ latest \in {NotRead} \cup [at : {"read"}, rows : SUBSET Completed]
  /\ badge \in {NotRead} \cup [at : {"shown"}, count : Nat, average : Int, rows : SUBSET Completed, between : Nat]
  /\ between \in Nat

(* With one query done, the reviews written since make up for what it has  *)
(* read; with both, for the difference between them.                       *)
QueriesAgree ==
  /\ summary # NotRead /\ latest = NotRead => summary.count + between = Cardinality(ListOf(Subject))
  /\ summary = NotRead /\ latest # NotRead =>
       \E n \in Nat : /\ n + between = Cardinality(ListOf(Subject))
                     /\ Cardinality(latest.rows) = Least(n, LatestRows)
  /\ summary # NotRead /\ latest # NotRead =>
       Gap(Least(summary.count, LatestRows), Cardinality(latest.rows)) <= between

(* An average of some reviews that the venue or coach has.                 *)
Averages(count, average) ==
  IF count = 0 THEN average = 0
  ELSE \E low, high \in ListOf(Subject) : 10 * review[low] <= average /\ average <= 10 * review[high]

AveragesAreRight ==
  /\ summary # NotRead => Averages(summary.count, summary.average)
  /\ badge.at = "shown" => Averages(badge.count, badge.average)

CountInv == PageType /\ QueriesAgree /\ AveragesAreRight /\ CountMatchesTheList

LEMMA ListIsFinite ==
  IsFiniteSet(ListOf(Subject)) /\ Cardinality(ListOf(Subject)) \in Nat
BY ReviewAssumption, FS_Subset, FS_CardinalityType DEF ListOf

LEMMA CountInit == ReviewInit => CountInv
BY DEF ReviewInit, CountInv, PageType, QueriesAgree, AveragesAreRight, CountMatchesTheList, NotRead

(* What the rating's query reads is an average of what it counts.          *)
LEMMA AverageOfSubject ==
  ASSUME review \in [Completed -> 0 .. 5]
  PROVE  Average(Subject) \in Int /\ Averages(Cardinality(ReviewsOf(Subject)), Average(Subject))
<1> DEFINE L == ListOf(Subject)
<1>1. ReviewsOf(Subject) = L /\ L \subseteq Completed /\ \A b \in L : review[b] \in 0 .. 5
  BY DEF ReviewsOf, ListOf
<1>2. IsFiniteSet(L) /\ Cardinality(L) \in Nat
  BY ListIsFinite
<1> HIDE DEF L
<1>3. CASE L = {}
  BY <1>1, <1>3, FS_EmptySet DEF Average, Averages
<1>4. CASE L # {}
  <2>1. PICK low \in L, high \in L : \A b \in L : review[low] <= review[b] /\ review[b] <= review[high]
    BY <1>1, <1>4, LowAndHigh
  <2>2. Cardinality(L) \in Nat \ {0}
    BY <1>2, <1>4, FS_EmptySet
  <2>3. review[low] \in Nat /\ review[high] \in Nat /\ \A b \in L : review[b] \in Nat
    BY <1>1
  <2>4. /\ SumOver(review, L) \in Nat
        /\ review[low] * Cardinality(L) <= SumOver(review, L)
        /\ SumOver(review, L) <= review[high] * Cardinality(L)
    BY <1>2, <2>1, <2>3, SumIsBounded
  <2>5. Average(Subject) = Round1(SumOver(review, L), Cardinality(L))
    BY <1>1, <1>4 DEF Average, SumOver
  <2>6. /\ Average(Subject) \in Nat
        /\ 10 * review[low] <= Average(Subject) /\ Average(Subject) <= 10 * review[high]
    BY <2>2, <2>3, <2>4, <2>5, RoundIsBounded
  <2> QED
    BY <1>1, <2>1, <2>2, <2>6 DEF Averages, L
<1>q. QED
  BY <1>3, <1>4

(* A review is never changed, so that its averages stay averages.          *)
LEMMA AveragesStay ==
  ASSUME \A b \in ListOf(Subject) : b \in ListOf(Subject)' /\ review'[b] = review[b],
         AveragesAreRight, UNCHANGED <<summary, badge>>
  PROVE  AveragesAreRight'
BY DEF AveragesAreRight, Averages

(* A review that is written is one more, and is counted as in between if   *)
(* one query is done.                                                      *)
LEMMA CreateKeepsCounts ==
  ASSUME FormInv, CountInv, NEW h \in Reviewer, CreateReview(h)
  PROVE  CountInv'
<1> DEFINE b == writing[h].booking
           L == ListOf(Subject)
<1>1. b \in Completed /\ writing[h].stars # 0 /\ review \in [Completed -> 0 .. 5]
  BY DEF FormInv, FormType, RequestsAreRight, CreateReview, NoRequest, ReviewRequest
<1>2. /\ review[b] = 0 /\ review' = [review EXCEPT ![b] = writing[h].stars]
      /\ between' = IF Reviewed[b] = Subject /\ OneQueryDone THEN between + 1 ELSE between
      /\ UNCHANGED <<summary, latest, badge>>
  BY DEF CreateReview
<1>3. L' = IF Reviewed[b] = Subject THEN L \cup {b} ELSE L
  BY <1>1, <1>2 DEF ListOf
<1>4. b \notin L /\ \A c \in L : c \in L' /\ review'[c] = review[c]
  BY <1>1, <1>2, <1>3 DEF ListOf
<1>5. Cardinality(L') = IF Reviewed[b] = Subject THEN Cardinality(L) + 1 ELSE Cardinality(L)
  <2> HIDE DEF L, b
  <2>1. IsFiniteSet(L)
    BY ListIsFinite DEF L
  <2> QED
    BY <1>3, <1>4, <2>1, FS_AddElement
<1>6. AveragesAreRight'
  BY <1>2, <1>4, AveragesStay DEF CountInv
<1>7. PageType' /\ CountMatchesTheList'
  BY <1>2 DEF CountInv, PageType, CountMatchesTheList
<1>8. QueriesAgree'
  <2> DEFINE size == Cardinality(L)
  <2>1. size \in Nat /\ between \in Nat
    BY ListIsFinite DEF CountInv, PageType
  <2>2. summary # NotRead => summary.count \in Nat
    BY DEF CountInv, PageType
  <2>3. CASE ~OneQueryDone
    BY <1>2, <2>3 DEF CountInv, QueriesAgree, OneQueryDone
  <2>4. CASE OneQueryDone /\ Reviewed[b] # Subject
    BY <1>2, <1>5, <2>4 DEF CountInv, QueriesAgree
  <2>5. CASE OneQueryDone /\ Reviewed[b] = Subject
    <3>1. between' = between + 1 /\ Cardinality(L)' = size + 1
      BY <1>2, <1>5, <2>5
    <3> HIDE DEF L
    <3>2. CASE summary # NotRead /\ latest = NotRead
      <4>1. summary.count + between = size
        BY <3>2 DEF CountInv, QueriesAgree, L
      <4>2. summary.count + between' = Cardinality(L)'
        BY <2>1, <2>2, <3>1, <3>2, <4>1
      <4> QED
        BY <1>2, <3>2, <4>2 DEF QueriesAgree, L
    <3>3. CASE summary = NotRead /\ latest # NotRead
      <4>1. PICK n \in Nat : n + between = size /\ Cardinality(latest.rows) = Least(n, LatestRows)
        BY <3>3 DEF CountInv, QueriesAgree, L
      <4>2. n + between' = Cardinality(L)'
        BY <2>1, <3>1, <4>1
      <4> QED
        BY <1>2, <3>3, <4>1, <4>2 DEF QueriesAgree, L
    <3> QED
      BY <2>5, <3>2, <3>3 DEF OneQueryDone
  <2> QED
    BY <2>3, <2>4, <2>5
<1>q. QED
  BY <1>6, <1>7, <1>8 DEF CountInv

LEMMA RatingKeepsCounts ==
  ASSUME FormInv, CountInv, LoadRating
  PROVE  CountInv'
<1> DEFINE size == Cardinality(ListOf(Subject))
<1>1. size \in Nat /\ ReviewsOf(Subject) = ListOf(Subject) /\ between \in Nat /\ LatestRows \in Nat
  BY ListIsFinite, ReviewAssumption DEF ReviewsOf, ListOf, CountInv, PageType
<1>2. Average(Subject) \in Int /\ Averages(size, Average(Subject))
  BY <1>1, AverageOfSubject DEF FormInv, FormType
<1>3. /\ summary = NotRead /\ summary' = [at |-> "read", count |-> size, average |-> Average(Subject)]
      /\ between' = IF latest = NotRead THEN 0 ELSE between
      /\ badge' = NotRead /\ latest' = latest /\ review' = review
  BY <1>1 DEF LoadRating, serverReviewVars
<1>4. summary' # NotRead /\ summary'.count = size /\ summary'.average = Average(Subject)
  BY <1>3 DEF NotRead
<1>5. ListOf(Subject)' = ListOf(Subject)
  BY <1>3 DEF ListOf
<1>6. PageType' /\ CountMatchesTheList'
  BY <1>1, <1>2, <1>3 DEF CountInv, PageType, CountMatchesTheList, NotRead
<1>7. AveragesAreRight'
  BY <1>2, <1>3, <1>4, <1>5 DEF AveragesAreRight, Averages, NotRead
<1>8. QueriesAgree'
  <2>1. CASE latest = NotRead
    BY <1>1, <1>3, <1>4, <1>5, <2>1 DEF QueriesAgree
  <2>2. CASE latest # NotRead
    <3>1. PICK n \in Nat : n + between = size /\ Cardinality(latest.rows) = Least(n, LatestRows)
      BY <1>3, <2>2 DEF CountInv, QueriesAgree
    <3>2. Gap(Least(size, LatestRows), Least(n, LatestRows)) <= between
      <4> HIDE DEF size
      <4> QED
        BY <1>1, <3>1 DEF Gap, Least
    <3> QED
      BY <1>3, <1>4, <2>2, <3>1, <3>2 DEF QueriesAgree
  <2> QED
    BY <2>1, <2>2
<1>q. QED
  BY <1>6, <1>7, <1>8 DEF CountInv

LEMMA LatestKeepsCounts ==
  ASSUME CountInv, LoadLatest
  PROVE  CountInv'
<1> DEFINE size == Cardinality(ListOf(Subject))
<1>1. size \in Nat /\ IsFiniteSet(ListOf(Subject)) /\ between \in Nat /\ LatestRows \in Nat
  BY ListIsFinite, ReviewAssumption DEF CountInv, PageType
<1>2. PICK rows \in SUBSET ListOf(Subject) :
        /\ Cardinality(rows) <= LatestRows
        /\ rows = ListOf(Subject) \/ Cardinality(rows) = LatestRows
        /\ latest' = [at |-> "read", rows |-> rows]
  BY DEF LoadLatest
<1>3. /\ latest = NotRead /\ between' = IF summary = NotRead THEN 0 ELSE between
      /\ badge' = NotRead /\ summary' = summary /\ review' = review
  BY DEF LoadLatest, serverReviewVars
<1>4. latest' # NotRead /\ latest'.rows = rows
  BY <1>2 DEF NotRead
<1>5. ListOf(Subject)' = ListOf(Subject)
  BY <1>3 DEF ListOf
<1>6. Cardinality(rows) = Least(size, LatestRows)
  <2>1. Cardinality(rows) \in Nat /\ Cardinality(rows) <= size
    BY <1>1, FS_Subset, FS_CardinalityType
  <2> QED
    BY <1>1, <1>2, <2>1 DEF Least
<1>7. PageType' /\ CountMatchesTheList'
  BY <1>1, <1>2, <1>3 DEF CountInv, PageType, CountMatchesTheList, NotRead, ListOf
<1>8. AveragesAreRight'
  BY <1>3, <1>5 DEF CountInv, AveragesAreRight, Averages, NotRead
<1>9. QueriesAgree'
  <2>1. CASE summary = NotRead
    <3>1. size + between' = Cardinality(ListOf(Subject)')
      BY <1>1, <1>3, <1>5, <2>1
    <3> QED
      BY <1>1, <1>3, <1>4, <1>6, <2>1, <3>1 DEF QueriesAgree
  <2>2. CASE summary # NotRead
    <3>1. summary.count \in Nat /\ summary.count + between = size
      BY <1>3, <2>2 DEF CountInv, PageType, QueriesAgree
    <3>2. Gap(Least(summary.count, LatestRows), Least(size, LatestRows)) <= between
      <4> HIDE DEF size
      <4> QED
        BY <1>1, <3>1 DEF Gap, Least
    <3> QED
      BY <1>3, <1>4, <1>6, <2>2, <3>2 DEF QueriesAgree
  <2> QED
    BY <2>1, <2>2
<1>q. QED
  BY <1>7, <1>8, <1>9 DEF CountInv

LEMMA ShowKeepsCounts ==
  ASSUME CountInv, ShowReviews \/ LoadReviewsFails
  PROVE  CountInv'
<1>1. summary' = NotRead /\ latest' = NotRead /\ between' = 0 /\ review' = review
  BY DEF ShowReviews, LoadReviewsFails, serverReviewVars
<1>2. QueriesAgree'
  BY <1>1 DEF QueriesAgree
<1>3. CASE ShowReviews
  <2>1. /\ badge' = [at |-> "shown", count |-> summary.count, average |-> summary.average,
                     rows |-> latest.rows, between |-> between]
        /\ summary # NotRead /\ latest # NotRead
    BY <1>3 DEF ShowReviews
  <2>2. PageType'
    BY <1>1, <2>1 DEF CountInv, PageType, NotRead
  <2>3. CountMatchesTheList'
    BY <2>1 DEF CountInv, QueriesAgree, CountMatchesTheList
  <2>4. AveragesAreRight'
    BY <1>1, <2>1 DEF CountInv, AveragesAreRight, Averages, ListOf, NotRead
  <2> QED
    BY <1>2, <2>2, <2>3, <2>4 DEF CountInv
<1>4. CASE LoadReviewsFails
  <2>1. badge' = [at |-> "shown", count |-> 0, average |-> 0, rows |-> {}, between |-> 0]
    BY <1>4 DEF LoadReviewsFails
  <2>2. PageType'
    BY <1>1, <2>1 DEF CountInv, PageType, NotRead
  <2>3. CountMatchesTheList'
    BY <2>1, ReviewAssumption, FS_EmptySet DEF CountMatchesTheList, Gap, Least
  <2>4. AveragesAreRight'
    BY <1>1, <2>1 DEF AveragesAreRight, Averages
  <2> QED
    BY <1>2, <2>2, <2>3, <2>4 DEF CountInv
<1>q. QED
  BY <1>3, <1>4

(* The page counts and lists the same reviews, up to those written between *)
(* its two queries, and its average is one of reviews that are there.      *)
THEOREM ReviewsAreCounted == ReviewSpec => []PageCountsReviews
<1>1. FormInv /\ CountInv /\ [ReviewNext]_reviewVars => CountInv'
  <2> SUFFICES ASSUME FormInv, CountInv, [ReviewNext]_reviewVars PROVE CountInv'
    OBVIOUS
  <2>1. ASSUME UNCHANGED <<review, reviewPageVars>> PROVE CountInv'
    BY <2>1 DEF reviewPageVars, CountInv, PageType, QueriesAgree, AveragesAreRight, Averages, CountMatchesTheList,
                ListOf
  <2>2. ASSUME NEW b \in Completed, Complete(b) PROVE CountInv'
    BY <2>1, <2>2 DEF Complete
  <2>3. CASE LoadBookings \/ UNCHANGED reviewVars
    BY <2>1, <2>3 DEF LoadBookings, reviewVars, serverReviewVars
  <2>4. ASSUME NEW h \in Reviewer,
               \/ \E b \in Completed, stars \in Stars, clicked \in BOOLEAN : SubmitReview(h, b, stars, clicked)
               \/ CheckReviewed(h) \/ RefuseDuplicate(h) \/ AnswerReview(h) \/ LoseReview(h)
        PROVE  CountInv'
    BY <2>1, <2>4 DEF SubmitReview, CheckReviewed, RefuseDuplicate, AnswerReview, LoseReview, serverReviewVars
  <2> QED
    BY <2>2, <2>3, <2>4, CreateKeepsCounts, RatingKeepsCounts, LatestKeepsCounts, ShowKeepsCounts DEF ReviewNext
<1>2. CountInv => PageCountsReviews
  BY DEF CountInv, AveragesAreRight, Averages, PageCountsReviews, AverageIsOfItsReviews
<1>q. QED
  BY <1>1, <1>2, CountInit, FormInvariant, PTL DEF ReviewSpec

---------------------------------------------------------------------------
(* All of the player's pages together: each shows what its rows say, up to *)
(* what it could not know of.                                              *)
THEOREM PartsAreRight == PlayerSpec => []PartsShowTheirRows
BY PagesFollowTheirParts, ButtonIsRight, ListIsRight, FormsTellTheReview, PTL DEF PartsShowTheirRows

(* And what is proved of each part holds of the pages that a player has    *)
(* open.                                                                   *)
THEOREM PlayerPagesAreRight ==
  PlayerSpec => [](/\ ListingIsAuthoritative /\ PageHoldsWhatItShows /\ OneHoldPerPage
                   /\ PartsShowTheirRows /\ PageCountsReviews)
BY PagesFollowTheirParts, ListingIsRight, PageHoldsItsSlot, PageHoldsOnce, PartsAreRight, ReviewsAreCounted, PTL

---------------------------------------------------------------------------
(* Finding a venue *)

LEMMA GreatestOf ==
  ASSUME NEW S, IsFiniteSet(S), S # {}, NEW f, \A x \in S : f[x] \in Int
  PROVE  \E x \in S : \A y \in S : f[y] <= f[x]
<1> DEFINE Above(x) == {y \in S : f[y] > f[x]}
           Counts == {Cardinality(Above(x)) : x \in S}
<1>1. \A x \in S : IsFiniteSet(Above(x)) /\ Cardinality(Above(x)) \in Nat
  BY FS_Subset, FS_CardinalityType
<1>2. Counts \subseteq Nat /\ Counts # {}
  BY <1>1
<1>3. PICK n \in Counts : \A m \in Counts : n <= m
  <2> HIDE DEF Counts
  <2>1. QED
    BY <1>2, LeastOf
<1>4. PICK x \in S : n = Cardinality(Above(x))
  OBVIOUS
<1>5. ASSUME NEW y \in S, ~(f[y] <= f[x])
      PROVE  FALSE
  <2>1. y \in Above(x) /\ y \notin Above(y) /\ Above(y) \subseteq Above(x)
    BY <1>5
  <2>2. Cardinality(Above(x)) <= Cardinality(Above(y))
    BY <1>3, <1>4
  <2> HIDE DEF Above
  <2>3. Cardinality(Above(y)) = Cardinality(Above(x))
    BY <1>1, <2>1, <2>2, FS_Subset
  <2>4. QED
    BY <1>1, <2>1, <2>3, FS_Subset
<1>6. QED
  BY <1>5

(* Take leaves nothing out but behind n others.                            *)
LEMMA TakenAreMany ==
  ASSUME NEW S \in SUBSET Venue, NEW n \in Nat \ {0}
  PROVE  /\ Cardinality(S) <= n => Take(n, S) = S
         /\ Take(n, S) = S \/ Cardinality(Take(n, S)) = n
<1> DEFINE Before(v) == {u \in S : ByName[u] < ByName[v]}
           T == Take(n, S)
<1>1. /\ IsFiniteSet(S) /\ Cardinality(S) \in Nat
      /\ T \subseteq S /\ IsFiniteSet(T) /\ Cardinality(T) \in Nat
      /\ \A v \in S : ByName[v] \in Nat
      /\ \A v \in S : v \in T <=> Cardinality(Before(v)) < n
  BY FS_Subset, FS_CardinalityType, SearchAssumption DEF Take
<1>2. \A v \in S : IsFiniteSet(Before(v)) /\ Cardinality(Before(v)) \in Nat
  BY <1>1, FS_Subset, FS_CardinalityType
<1>3. ASSUME Cardinality(S) <= n, NEW v \in S
      PROVE  v \in T
  <2>1. v \notin Before(v) /\ Before(v) \subseteq S
    BY <1>1
  <2> HIDE DEF Before
  <2>2. Cardinality(Before(v)) < Cardinality(S)
    BY <1>1, <1>2, <2>1, FS_Subset
  <2>3. QED
    BY <1>1, <1>2, <1>3, <2>2
<1>4. ASSUME T # S
      PROVE  Cardinality(T) = n
  <2> DEFINE Out == {ByName[v] : v \in S \ T}
  <2>1. Out \subseteq Nat /\ Out # {}
    BY <1>1, <1>4
  <2>2. PICK k \in Out : \A j \in Out : k <= j
    <3> HIDE DEF Out
    <3>1. QED
      BY <2>1, LeastOf
  <2>3. PICK v \in S \ T : k = ByName[v]
    OBVIOUS
  <2>4. ASSUME NEW u \in Before(v)
        PROVE  u \in T
    <3>1. u \in S /\ ByName[u] < ByName[v]
      OBVIOUS
    <3>2. u \notin T => ByName[v] <= ByName[u]
      BY <2>2, <2>3, <3>1
    <3>3. QED
      BY <1>1, <3>1, <3>2
  <2>5. ASSUME NEW u \in T
        PROVE  u \in Before(v)
    <3> SUFFICES ASSUME ~(ByName[u] < ByName[v]) PROVE FALSE
      BY <1>1
    <3>1. Before(v) \subseteq Before(u)
      BY <1>1
    <3> HIDE DEF Before
    <3>2. Cardinality(Before(v)) <= Cardinality(Before(u))
      BY <1>1, <1>2, <3>1, FS_Subset
    <3>3. QED
      BY <1>1, <1>2, <3>2
  <2>6. T = Before(v) /\ n <= Cardinality(T)
    <3>1. T = Before(v)
      BY <2>4, <2>5
    <3> HIDE DEF Before
    <3>2. ~(Cardinality(Before(v)) < n)
      BY <1>1
    <3>3. QED
      BY <1>2, <3>1, <3>2
  <2>7. T # {}
    <3>1. T = {} => Cardinality(T) = 0
      BY FS_EmptySet
    <3>2. QED
      BY <2>6, <3>1
  <2>8. PICK t \in T : \A u \in T : ByName[u] <= ByName[t]
    <3>1. \A u \in T : ByName[u] \in Int
      BY <1>1
    <3> HIDE DEF T
    <3>2. QED
      BY <1>1, <2>7, <3>1, GreatestOf
  <2>9. T = Before(t) \cup {t} /\ t \notin Before(t)
    <3>1. \A u \in T : u # t => ByName[u] # ByName[t]
      BY <1>1, SearchAssumption
    <3>2. \A u \in Before(t) : u \in Before(v)
      BY <1>1, <2>5
    <3>3. QED
      BY <1>1, <2>6, <2>8, <3>1, <3>2
  <2>10. Cardinality(T) = Cardinality(Before(t)) + 1
    <3> HIDE DEF Before, T
    <3>1. QED
      BY <1>1, <1>2, <2>9, FS_AddElement
  <2>11. Cardinality(Before(t)) < n
    BY <1>1
  <2>12. QED
    <3> HIDE DEF Before, T
    <3>1. QED
      BY <1>1, <1>2, <2>6, <2>10, <2>11
<1>5. QED
  BY <1>1, <1>3, <1>4

(* A search that is not cut short finds everything that matches.           *)
LEMMA SearchFinds ==
  ASSUME NEW url
  PROVE  LET All == {v \in Venue : Found(v, Query(url)) /\ Matches(v, Query(url))}
         IN  Search(url) \subseteq All /\ (CutShort(url) \/ Search(url) = All)
<1> DEFINE f == Query(url)
           F == {v \in Venue : Found(v, f)}
           C == Candidate(f)
           M == {v \in C : Matches(v, f)}
<1>1. C = Take(CandidateCap, F) /\ Search(url) = Take(PageLimit, M)
  BY DEF Candidate, Search, Results, Query
<1>2. C \subseteq F /\ Search(url) \subseteq M
  BY <1>1 DEF Take
<1>3. ASSUME ~CutShort(url)
      PROVE  C = F /\ Search(url) = M
  <2>1. Cardinality(F) <= CandidateCap
    <3>1. IsFiniteSet(F) /\ Cardinality(F) \in Nat
      BY FS_Subset, FS_CardinalityType, SearchAssumption
    <3>2. ~(Cardinality(F) > CandidateCap)
      BY <1>3 DEF CutShort
    <3>3. QED
      BY <3>1, <3>2, SearchAssumption
  <2>2. F \in SUBSET Venue /\ M \in SUBSET Venue
    BY <1>2
  <2> HIDE DEF F, M, C
  <2>3. C = F
    BY <1>1, <2>1, <2>2, TakenAreMany, SearchAssumption
  <2>4. Cardinality(Search(url)) # PageLimit
    BY <1>3 DEF CutShort
  <2>5. QED
    BY <1>1, <2>2, <2>3, <2>4, TakenAreMany, SearchAssumption
<1>4. QED
  BY <1>2, <1>3


(* The URLs that the forms, chips and links of the page lead to.           *)
SearchUrl ==
  [q : Word \cup {Absent}, city : City \cup {Absent}, date : SearchDate \cup {Absent},
   duration : FormDuration \cup {Absent}, maxPrice : Price \cup {Absent},
   amenities : SUBSET Amenity]

(* One URL asks for no more than another: it drops a filter, or a date     *)
(* together with its duration.                                             *)
AsksLess(w, url) ==
  /\ w.q \in {url.q, Absent} /\ w.city \in {url.city, Absent}
  /\ w.maxPrice \in {url.maxPrice, Absent}
  /\ w.amenities \subseteq url.amenities
  /\ \/ w.date = url.date /\ w.duration = url.duration
     \/ w.date = Absent /\ w.duration = Absent

LEMMA HrefAsksLess ==
  ASSUME NEW url \in SearchUrl, NEW chip \in ActiveChips(url)
  PROVE  BuildFilterHref(url, chip) \in SearchUrl /\ AsksLess(BuildFilterHref(url, chip), url)
<1> DEFINE w == BuildFilterHref(url, chip)
<1>1. chip.key \in {"q", "city", "maxPrice", "date", "amenities"}
  BY DEF ActiveChips
<1>2. CASE chip.key = "q"
  <2>1. w = [url EXCEPT !.q = Absent]
    BY <1>2 DEF BuildFilterHref
  <2>2. QED
    BY <2>1 DEF SearchUrl, AsksLess
<1>3. CASE chip.key = "city"
  <2>1. w = [url EXCEPT !.city = Absent]
    BY <1>3 DEF BuildFilterHref
  <2>2. QED
    BY <2>1 DEF SearchUrl, AsksLess
<1>4. CASE chip.key = "maxPrice"
  <2>1. w = [url EXCEPT !.maxPrice = Absent]
    BY <1>4 DEF BuildFilterHref
  <2>2. QED
    BY <2>1 DEF SearchUrl, AsksLess
<1>5. CASE chip.key = "date"
  <2>1. w = [url EXCEPT !.date = Absent, !.duration = Absent]
    BY <1>5 DEF BuildFilterHref
  <2>2. QED
    BY <2>1 DEF SearchUrl, AsksLess
<1>6. CASE chip.key = "amenities"
  <2>1. w = [url EXCEPT !.amenities = @ \ {chip.value}]
    BY <1>6 DEF BuildFilterHref
  <2>2. QED
    BY <2>1 DEF SearchUrl, AsksLess
<1>7. QED
  BY <1>1, <1>2, <1>3, <1>4, <1>5, <1>6

(* The rule that prices an interval is one of those that apply to it.      *)
LEMMA QuotedRuleApplies ==
  ASSUME NEW i, Priced(i)
  PROVE  QuotedRule(i) \in Applicable(i)
<1> DEFINE A == Applicable(i)
           f == [rule \in A |-> rule.priority]
<1>1. IsFiniteSet(A) /\ A # {} /\ \A rule \in A : f[rule] \in Int /\ f[rule] = rule.priority
  BY FS_Subset, SearchAssumption DEF Applicable, Priced
<1>2. \E rule \in A : \A r \in A : f[r] <= f[rule]
  <2> HIDE DEF A, f
  <2>1. QED
    BY <1>1, GreatestOf
<1>3. \E rule \in Applicable(i) : \A r \in Applicable(i) : r.priority <= rule.priority
  BY <1>1, <1>2
<1>4. QED
  BY <1>3 DEF QuotedRule

(* What is found and matches for more filters does so for fewer: a free    *)
(* slot with a price in range was priced by a rule with that price.        *)
LEMMA LessFindsMore ==
  ASSUME NEW url \in SearchUrl, NEW w \in SearchUrl, AsksLess(w, url), NEW v \in Venue,
         Found(v, Query(url)), Matches(v, Query(url))
  PROVE  Found(v, Query(w)) /\ Matches(v, Query(w))
<1> DEFINE n == Query(url)
           m == Query(w)
<1>1. /\ m.query \in {n.query, Absent} /\ m.city \in {n.city, Absent}
      /\ m.maxPrice \in {n.maxPrice, Absent}
      /\ m.amenities \subseteq n.amenities
      /\ m.minPrice = Absent /\ n.minPrice = Absent
      /\ \/ m.date = n.date /\ m.duration = n.duration
         \/ m.date = Absent
  BY DEF AsksLess, Query
<1>2. Found(v, m)
  BY <1>1 DEF Found
<1>3. \A p : WithinRange(p, n) => WithinRange(p, m)
  BY <1>1 DEF WithinRange
<1>4. CASE m.date # Absent
  <2>1. m.date = n.date /\ m.duration = n.duration
    BY <1>1, <1>4
  <2>2. \A c : SlotPrices(c, m) = SlotPrices(c, n)
    BY <2>1 DEF SlotPrices
  <2>3. AvailableCourts(v, n) # {}
    BY <1>4, <2>1 DEF Matches
  <2>4. AvailableCourts(v, m) # {}
    BY <1>3, <2>2, <2>3 DEF AvailableCourts
  <2>5. QED
    BY <1>2, <1>4, <2>4 DEF Matches
<1>5. CASE m.date = Absent
  <2>1. CASE n.date = Absent
    <3>1. HasPriceFilter(m) => HasPriceFilter(n)
      BY <1>1 DEF HasPriceFilter
    <3>2. HasPriceFilter(n) => RulePrices(v, n) # {}
      BY <2>1 DEF Matches
    <3>3. RulePrices(v, n) # {} => RulePrices(v, m) # {}
      BY <1>3 DEF RulePrices
    <3>4. QED
      BY <1>2, <1>5, <3>1, <3>2, <3>3 DEF Matches
  <2>2. CASE n.date # Absent
    <3>1. PICK c \in CourtsOf[v] : \E p \in SlotPrices(c, n) : WithinRange(p, n)
      BY <2>2 DEF Matches, AvailableCourts
    <3>2. PICK i : Priced(i) /\ i.court = c /\ WithinRange(QuotedRule(i).price, n)
      BY <3>1 DEF SlotPrices, Evaluated, Candidates
    <3>3. QuotedRule(i) \in Applicable(i)
      BY <3>2, QuotedRuleApplies
    <3>4. QuotedRule(i) \in PricingRules /\ QuotedRule(i).court \in CourtsOf[v]
      BY <3>1, <3>2, <3>3 DEF Applicable
    <3>5. RulePrices(v, m) # {}
      BY <1>3, <3>2, <3>4 DEF RulePrices
    <3>6. QED
      BY <1>2, <1>5, <3>5 DEF Matches
  <2>3. QED
    BY <2>1, <2>2
<1>6. QED
  BY <1>4, <1>5

(* For every URL that the page can be asked for: a chip taken off finds    *)
(* all that was found, or as much as a page shows.                         *)
LEMMA UrlWidens ==
  ASSUME NEW url \in SearchUrl, NEW chip \in ActiveChips(url)
  PROVE  LET wider == BuildFilterHref(url, chip)
         IN  CutShort(wider) \/ Search(url) \subseteq Search(wider)
<1> DEFINE w == BuildFilterHref(url, chip)
<1>1. w \in SearchUrl /\ AsksLess(w, url)
  BY HrefAsksLess
<1> HIDE DEF w
<1>2. ASSUME NEW v \in Search(url)
      PROVE  v \in Venue /\ Found(v, Query(w)) /\ Matches(v, Query(w))
  <2>1. v \in Venue /\ Found(v, Query(url)) /\ Matches(v, Query(url))
    BY SearchFinds
  <2>2. QED
    BY <1>1, <2>1, LessFindsMore
<1>3. CutShort(w) \/ Search(w) = {v \in Venue : Found(v, Query(w)) /\ Matches(v, Query(w))}
  BY SearchFinds
<1>4. QED
  BY <1>2, <1>3 DEF w

(* The chips of a page, one key at a time.                                 *)
LEMMA ChipsOfAKey ==
  ASSUME NEW url \in SearchUrl
  PROVE  LET Of(key) == {c.value : c \in {c \in ActiveChips(url) : c.key = key}}
         IN  /\ Of("q") = {url.q} \ {Absent}
             /\ Of("city") = {url.city} \ {Absent}
             /\ Of("maxPrice") = {url.maxPrice} \ {Absent}
             /\ Of("date") = {<<d, Labelled(url.duration)>> : d \in {url.date} \ {Absent}}
             /\ Of("amenities") = url.amenities
<1> DEFINE Plain == {"q", "city", "maxPrice"}
           Chips == ActiveChips(url)
           Of(key) == {c.value : c \in {c \in Chips : c.key = key}}
           when == Labelled(url.duration)
<1>1. \A c \in Chips :
        \/ \E k \in Plain : url[k] # Absent /\ c = [key |-> k, value |-> url[k]]
        \/ url.date # Absent /\ c = [key |-> "date", value |-> <<url.date, when>>]
        \/ \E a \in url.amenities : c = [key |-> "amenities", value |-> a]
  BY DEF ActiveChips
<1>2. /\ \A k \in Plain : url[k] # Absent => [key |-> k, value |-> url[k]] \in Chips
      /\ url.date # Absent => [key |-> "date", value |-> <<url.date, when>>] \in Chips
      /\ \A a \in url.amenities : [key |-> "amenities", value |-> a] \in Chips
  BY DEF ActiveChips
<1> HIDE DEF Chips, when
<1>3. ASSUME NEW k \in Plain
      PROVE  Of(k) = {url[k]} \ {Absent}
  <2>1. \A c \in Chips : c.key = k => url[k] # Absent /\ c.value = url[k]
    BY <1>1
  <2>2. url[k] # Absent => \E c \in Chips : c.key = k /\ c.value = url[k]
    BY <1>2
  <2>3. QED
    BY <2>1, <2>2
<1>4. Of("date") = {<<d, when>> : d \in {url.date} \ {Absent}}
  <2>1. \A c \in Chips : c.key = "date" => url.date # Absent /\ c.value = <<url.date, when>>
    BY <1>1
  <2>2. url.date # Absent => \E c \in Chips : c.key = "date" /\ c.value = <<url.date, when>>
    BY <1>2
  <2>3. QED
    BY <2>1, <2>2
<1>5. Of("amenities") = url.amenities
  <2>1. \A c \in Chips : c.key = "amenities" => c.value \in url.amenities
    BY <1>1
  <2>2. \A a \in url.amenities : \E c \in Chips : c.key = "amenities" /\ c.value = a
    BY <1>2
  <2>3. QED
    BY <2>1, <2>2
<1>6. QED
  <2>1. Of("q") = {url.q} \ {Absent}
    BY <1>3
  <2>2. Of("city") = {url.city} \ {Absent}
    BY <1>3
  <2>3. Of("maxPrice") = {url.maxPrice} \ {Absent}
    BY <1>3
  <2>4. QED
    BY <2>1, <2>2, <2>3, <1>4, <1>5 DEF Chips, when

(* For every URL: the chips of the page spell out its query.               *)
LEMMA ChipsSpellTheQuery ==
  ASSUME NEW url \in SearchUrl
  PROVE  Spelled(ActiveChips(url)) = Query(url)
<1> DEFINE Of(key) == {c.value : c \in {c \in ActiveChips(url) : c.key = key}}
           One(values) == IF values = {} THEN Absent ELSE CHOOSE x \in values : TRUE
           when == Labelled(url.duration)
           spelled == [q |-> One(Of("q")), city |-> One(Of("city")), maxPrice |-> One(Of("maxPrice")),
                       date |-> One({x[1] : x \in Of("date")}),
                       duration |-> One({x[2] : x \in Of("date")}),
                       amenities |-> Of("amenities")]
<1>1. \A x : One({x} \ {Absent}) = x
  <2>1. One({}) = Absent /\ \A x : One({x}) = x
    OBVIOUS
  <2>2. \A x : {x} \ {Absent} = IF x = Absent THEN {} ELSE {x}
    OBVIOUS
  <2> HIDE DEF One
  <2>3. QED
    BY <2>1, <2>2
<1>2. when = OrElse(url.duration, DefaultDuration) /\ when # Absent
  BY SearchAssumption DEF SearchUrl, Labelled, OrElse
<1>3. /\ Of("q") = {url.q} \ {Absent} /\ Of("city") = {url.city} \ {Absent}
      /\ Of("maxPrice") = {url.maxPrice} \ {Absent} /\ Of("amenities") = url.amenities
      /\ Of("date") = {<<d, when>> : d \in {url.date} \ {Absent}}
  BY ChipsOfAKey
<1> HIDE DEF Of, when
<1>4. /\ {x[1] : x \in Of("date")} = {url.date} \ {Absent}
      /\ url.date # Absent => {x[2] : x \in Of("date")} = {when} \ {Absent}
  <2>1. ASSUME NEW S, NEW p, S = {p}
        PROVE  {x[1] : x \in S} = {p[1]} /\ {x[2] : x \in S} = {p[2]}
    BY <2>1
  <2>2. CASE url.date # Absent
    <3> DEFINE p == <<url.date, when>>
    <3>1. p[1] = url.date /\ p[2] = when
      OBVIOUS
    <3>2. Of("date") = {p}
      BY <1>3, <2>2
    <3> HIDE DEF p
    <3>3. {x[1] : x \in Of("date")} = {url.date} /\ {x[2] : x \in Of("date")} = {when}
      BY <2>1, <3>1, <3>2
    <3>4. QED
      BY <1>2, <2>2, <3>3
  <2>3. CASE url.date = Absent
    <3>1. Of("date") = {}
      BY <1>3, <2>3
    <3>2. {x[1] : x \in Of("date")} = {}
      BY <3>1
    <3>3. QED
      BY <2>3, <3>2
  <2>4. QED
    BY <2>2, <2>3
<1> HIDE DEF One
<1>5. /\ spelled.q = url.q /\ spelled.city = url.city /\ spelled.maxPrice = url.maxPrice
      /\ spelled.amenities = url.amenities /\ spelled.date = url.date
      /\ url.date # Absent => spelled.duration = OrElse(url.duration, DefaultDuration)
  BY <1>1, <1>2, <1>3, <1>4
<1>6. Spelled(ActiveChips(url)) = Query(spelled)
  BY DEF Spelled, Of, One
<1> HIDE DEF spelled
<1>7. OrElse(OrElse(url.duration, DefaultDuration), DefaultDuration)
        = OrElse(url.duration, DefaultDuration)
  BY DEF OrElse
<1>8. Query(spelled) = Query(url)
  <2>1. url.date # Absent =>
          OrElse(spelled.duration, DefaultDuration) = OrElse(url.duration, DefaultDuration)
    BY <1>5, <1>7
  <2>2. QED
    BY <1>5, <2>1 DEF Query
<1>9. QED
  BY <1>6, <1>8

(* For every URL: the form, sent as it is shown, searches the same again.  *)
LEMMA FormSearchesTheSame ==
  ASSUME NEW url \in SearchUrl
  PROVE  Query(FilterFields(url, Amenity)) = Query(url)
<1> DEFINE sent == FilterFields(url, Amenity)
<1>1. Labelled(url.duration) = OrElse(url.duration, DefaultDuration)
  BY SearchAssumption DEF SearchUrl, Labelled, OrElse
<1>2. /\ sent.q = url.q /\ sent.city = url.city /\ sent.maxPrice = url.maxPrice
      /\ sent.date = url.date /\ sent.amenities = url.amenities
      /\ sent.duration = OrElse(url.duration, DefaultDuration)
  BY <1>1 DEF SearchUrl, FilterFields
<1>3. OrElse(sent.duration, DefaultDuration) = OrElse(url.duration, DefaultDuration)
  BY <1>2 DEF OrElse
<1> HIDE DEF sent
<1>4. QED
  BY <1>2, <1>3 DEF Query, sent

(* Every page was asked for by such a URL, and its catalogue is the whole  *)
(* one or, when the call failed, empty.                                    *)
SearchInv ==
  /\ seen \in {Landing} \cup
       [at : {"courts"}, url : SearchUrl, catalog : {{}, Amenity}, venues : SUBSET Venue]
  /\ load \in {NotLoading} \cup
       [at : {"catalog"}, url : SearchUrl] \cup
       [at : {"venues"}, url : SearchUrl, catalog : {{}, Amenity}] \cup
       [at : {"courts"}, url : SearchUrl, catalog : {{}, Amenity}, candidates : SUBSET Venue]

LEMMA OpenKeepsUrls ==
  ASSUME SearchInv, NEW url \in SearchUrl, Open(url)
  PROVE  SearchInv'
BY DEF SearchInv, Open, NotLoading, Landing, SearchUrl

LEMMA RenderedUrl ==
  ASSUME SearchInv, Rendered
  PROVE  seen.url \in SearchUrl /\ seen.catalog \in {{}, Amenity}
BY DEF SearchInv, Rendered, Landing

LEMMA FormOffersUrls ==
  ASSUME NEW url \in SearchUrl, NEW catalog \in {{}, Amenity}
  PROVE  LET f == FilterFields(url, catalog)
         IN  /\ f \in SearchUrl
             /\ \A w \in Word \cup {Absent} : [f EXCEPT !.q = w] \in SearchUrl
             /\ \A c \in City \cup {Absent} : [f EXCEPT !.city = c] \in SearchUrl
             /\ \A d \in SearchDate \cup {Absent} : [f EXCEPT !.date = d] \in SearchUrl
             /\ \A d \in FormDuration : [f EXCEPT !.duration = d] \in SearchUrl
             /\ \A p \in Price \cup {Absent} : [f EXCEPT !.maxPrice = p] \in SearchUrl
             /\ \A A \in SUBSET catalog : [f EXCEPT !.amenities = A] \in SearchUrl
<1> DEFINE f == FilterFields(url, catalog)
<1>1. Labelled(url.duration) \in FormDuration
  BY SearchAssumption DEF Labelled
<1>2. f \in SearchUrl
  BY <1>1 DEF FilterFields, SearchUrl
<1> HIDE DEF f
<1>3. QED
  BY <1>2 DEF SearchUrl, f

LEMMA FoundAreVenues ==
  ASSUME NEW url
  PROVE  /\ Candidate(Query(url)) \subseteq Venue
         /\ \A C \in SUBSET Venue : Results(C, Query(url)) \subseteq Venue
BY DEF Candidate, Results, Take

LEMMA SearchInvInit == SearchInit => SearchInv
BY DEF SearchInit, SearchInv

LEMMA SearchInvStep ==
  ASSUME SearchInv, [SearchNext]_searchVars
  PROVE  SearchInv'
<1>1. CASE HeroSearch
  <2>1. PICK city \in City \cup {Absent}, date \in SearchDate \cup {Absent}, d \in HeroDuration :
          Open([NoFilters EXCEPT !.city = city, !.date = date,
                                 !.duration = IF date = Absent THEN Absent ELSE d])
    BY <1>1 DEF HeroSearch
  <2>2. [NoFilters EXCEPT !.city = city, !.date = date,
                          !.duration = IF date = Absent THEN Absent ELSE d] \in SearchUrl
    BY SearchAssumption DEF NoFilters, SearchUrl
  <2>3. QED
    BY <2>1, <2>2, OpenKeepsUrls
<1>2. CASE ApplyFilters
  <2>1. seen.url \in SearchUrl /\ seen.catalog \in {{}, Amenity}
    BY <1>2, RenderedUrl DEF ApplyFilters
  <2>2. \E url \in SearchUrl : Open(url)
    BY <1>2, <2>1, FormOffersUrls DEF ApplyFilters
  <2>3. QED
    BY <2>2, OpenKeepsUrls
<1>3. CASE RemoveChip
  <2>1. PICK chip \in ActiveChips(seen.url) : Open(BuildFilterHref(seen.url, chip))
    BY <1>3 DEF RemoveChip
  <2>2. QED
    BY <1>3, <2>1, RenderedUrl, HrefAsksLess, OpenKeepsUrls DEF RemoveChip
<1>4. CASE ClearFilters
  <2>1. NoFilters \in SearchUrl
    BY DEF NoFilters, SearchUrl
  <2>2. QED
    BY <1>4, <2>1, OpenKeepsUrls DEF ClearFilters
<1>5. ASSUME NEW ok \in BOOLEAN, LoadCatalog(ok)
      PROVE  SearchInv'
  <2>1. load.url \in SearchUrl
    BY <1>5 DEF SearchInv, LoadCatalog, NotLoading
  <2>2. load' \in [at : {"venues"}, url : SearchUrl, catalog : {{}, Amenity}]
    BY <1>5, <2>1 DEF LoadCatalog
  <2>3. QED
    BY <1>5, <2>2 DEF SearchInv, LoadCatalog, Landing, NotLoading
<1>6. CASE FindVenues
  <2>1. load.url \in SearchUrl /\ load.catalog \in {{}, Amenity}
    BY <1>6 DEF SearchInv, FindVenues, NotLoading
  <2>2. load' \in [at : {"courts"}, url : SearchUrl, catalog : {{}, Amenity},
                   candidates : SUBSET Venue]
    BY <1>6, <2>1, FoundAreVenues DEF FindVenues
  <2>3. QED
    BY <1>6, <2>2 DEF SearchInv, FindVenues, Landing, NotLoading
<1>7. ASSUME load.at \in {"venues", "courts"}, NEW venues \in SUBSET Venue, Show(venues)
      PROVE  SearchInv'
  <2>1. load.url \in SearchUrl /\ load.catalog \in {{}, Amenity}
    BY <1>7 DEF SearchInv, NotLoading
  <2>2. seen' \in [at : {"courts"}, url : SearchUrl, catalog : {{}, Amenity}, venues : SUBSET Venue]
    BY <1>7, <2>1 DEF Show
  <2>3. QED
    BY <1>7, <2>2 DEF SearchInv, Show, Landing, NotLoading
<1>8. CASE EvaluateVenues
  <2>1. load.candidates \in SUBSET Venue
    BY <1>8 DEF SearchInv, EvaluateVenues, NotLoading
  <2>2. QED
    BY <1>7, <1>8, <2>1, FoundAreVenues DEF EvaluateVenues
<1>9. CASE LoadVenuesFails
  BY <1>7, <1>9 DEF LoadVenuesFails
<1>10. ASSUME UNCHANGED <<seen, load>>
       PROVE  SearchInv'
  BY <1>10 DEF SearchInv, Landing, NotLoading, SearchUrl
<1>11. ASSUME NEW i \in Bookable, Book(i) \/ Unbook(i)
       PROVE  SearchInv'
  BY <1>10, <1>11 DEF Book, Unbook
<1>12. ASSUME NEW v \in Moderated, SetStatus(v, "SUSPENDED") \/ SetStatus(v, "APPROVED")
       PROVE  SearchInv'
  BY <1>10, <1>12 DEF SetStatus
<1>13. CASE UNCHANGED searchVars
  BY <1>10, <1>13 DEF searchVars
<1>14. QED
  BY <1>1, <1>2, <1>3, <1>4, <1>5, <1>6, <1>8, <1>9, <1>11, <1>12, <1>13 DEF SearchNext

(* Whatever URL the page shows, and however bookings, prices of slots and  *)
(* the status of venues change meanwhile, the link of each of its chips    *)
(* leads to a search that finds all the venues the page's search finds, or *)
(* one that stopped at a limit (apps/web/components/discovery/filter-bar.tsx *)
(* and apps/api/src/venues/discovery.service.ts).                          *)
THEOREM FiltersOnlyNarrow == SearchSpec => []RemovingAFilterWidens
<1>1. SearchInv => RemovingAFilterWidens
  BY RenderedUrl, UrlWidens DEF RemovingAFilterWidens
<1>2. QED
  BY SearchInvInit, SearchInvStep, <1>1, PTL DEF SearchSpec

(* The chips of every page spell out the search that the page was rendered *)
(* for, and its form, when it got the catalogue, sends that search again.  *)
THEOREM PageIsItsSearch == SearchSpec => []PageTellsTheSearch
<1>1. SearchInv => PageTellsTheSearch
  <2> SUFFICES ASSUME SearchInv, Rendered
               PROVE  /\ Spelled(ActiveChips(seen.url)) = Query(seen.url)
                      /\ seen.catalog # {} =>
                           Query(FilterFields(seen.url, seen.catalog)) = Query(seen.url)
    BY DEF PageTellsTheSearch
  <2>1. seen.url \in SearchUrl /\ seen.catalog \in {{}, Amenity}
    BY RenderedUrl
  <2>2. QED
    BY <2>1, ChipsSpellTheQuery, FormSearchesTheSame
<1>2. QED
  BY SearchInvInit, SearchInvStep, <1>1, PTL DEF SearchSpec
==================================================
