# Formal verification of CourtLink PH

CourtLink PH is a marketplace for sports courts and coaches: players hold a court or accept a
coach's offer, pay outside the system, upload a proof of the payment, and the venue or the coach
reviews it. This directory holds TLA+ models of the parts of the repository whose correctness
depends on the order in which concurrent requests, transactions, jobs and open web pages act, the
TLC configurations that check them on small instances, and TLAPS proofs of what they establish
for every value of the constants. Paths below are relative to `src/`.

## 1. The system

```
 browser -> Caddy -> Next.js web (apps/web) -> NestJS API (apps/api) -> PostgreSQL (Prisma)
                                                     |                      ^
                                                     |                      |
                                      e-mail, S3 <---+    BullMQ worker (apps/worker) <- Redis
```

There is no state shared in memory between requests: all of it is in PostgreSQL, at the default
isolation level READ COMMITTED. The API never locks a row before it reads it, and takes an
advisory lock in two places only (`createHold`, prisma-booking.repository.ts:76, and
`createClosure`, prisma-court.repository.ts:93). What remains is unique keys, exclusion
constraints and conditions of UPDATE statements. Almost every handler reads a status, decides,
and writes by id in a later statement, with any number of other handlers and the worker's jobs in
between; the process may die between two commits of one handler; the client repeats what it got
no answer to. A web page keeps a copy of what it was rendered with, patches it with the answers
to its own calls, and asks for another copy whenever it pleases.

### Components

| component | state it keeps | operations | what makes it correct | model |
|---|---|---|---|---|
| Court booking (`courts/booking.service.ts`) | `court_bookings`, `court_payment_submissions` | quote and hold, submit proof, approve, reject | no two bookings of a court overlap; no progress without a payment submission | `CourtBooking`, promise in `CourtCalendar` |
| Court refunds (`courts/refund.service.ts`) | `court_refunds`, booking status | request, decide, pay out, venue cancels | booking status and refunds agree | `CourtBooking` |
| Court schedule (`court-schedule.service.ts`, `availability-policy.ts`) | closures, operating hours, pricing rules | replace hours, close, list slots, hold | what is listed is what can be held | `AvailabilityPolicy`, `CourtSchedule` |
| Court booking page (`court-booking.tsx`) | date, duration, list, selection | list slots, hold one | it holds what it shows, once | `CourtSchedule` |
| Venue discovery (`discovery.service.ts`, `filter-bar.tsx`) | the URL | search, chips, forms, rendering | filters only narrow; chips and form tell the search | `Discovery` |
| Coach marketplace (`coaches/coach-market.service.ts`) | `coach_requests`, `coach_offers` | request, approve, decline, offer, accept | one accepted offer per request, which is the booking | `CoachMarket` |
| Coach sessions (`coach-booking.service.ts`, `coach-refund.service.ts`) | `coach_bookings`, submissions, refunds | proof, review, refund, coach cancels | a coach is booked once; status and refunds agree | `CoachSession` |
| Coach and player pages (`coach-workspace.tsx`, `player-coaching.tsx`) | the lists they were rendered with | one button per call | a button is there when, and only when, the API lets it work | `CoachPages` |
| Venue queue, booking list (`venue-queue.tsx`, `booking-list.tsx`) | lists | buttons of the staff and of the player | the staff can work off their queue | `BookingPages` |
| Reviews (`reviews/`, `review-form.tsx`) | `reviews`; the form's state; rating and list of a public page | write one review per booking, load rating and list | the form tells what was stored; rating and list agree | `Reviews` |
| Favorites (`favorites/`, `favorite-toggle.tsx`) | `favorite_venues`; the button's state | save, remove, load | the button shows the row | `Favorites` |
| Notifications (`notifications/`, `notification-list.tsx`) | `notifications`; the list's items | read one, read all, load | what shows as read is read | `Notifications` |
| Idempotency (`idempotency/`) | `idempotency_records` | reserve, find, complete, release, prune | a repeated call has one effect and one answer | `Idempotency` |
| Worker: hold expiry, completion | none | one statement each, every 30 s and 5 min | jobs repeat without harm and do not overtake requests | in `CourtBooking`, `CoachSession` |
| Worker: review escalation (`review-escalation.ts`) | `reviewEscalatedAt`, notifications | find overdue reviews, escalate each | everyone is told, and once | `ReviewEscalation` |
| Organizations and staff (`tenancy/`) | memberships, invitations | invite, accept, revoke, expire, suspend, reinstate, remove | the founder owns it; roles are what an invitation gave | `OrganizationStaff` |
| Accounts and sessions (`auth/`) | users, credentials, tokens, sessions, OAuth attempts and links | register, log in, verify, reset, Google sign-in, suspension | attempts and links are used once; old sessions end | `Accounts`, `GoogleSignIn` |
| Venue lifecycle, moderation (`venues/venue.service.ts`, `moderation/`) | status, cases, audit events, coach profiles | create, submit, decide, report, resolve, suspend, reinstate | only submitted venues are public; suspended ones stay hidden | `VenueLifecycle` |
| Venue photos (`venues/venue-photos.service.ts`, `venue-photo-manager.tsx`) | rows with positions, objects | add, move, swap, remove; the page | positions stay distinct; the page shows the photos | `VenuePhotos`, `VenuePhotoManager` |
| Venue workspace (`app/manage/page.tsx`, schedule, promotion and amenity forms) | the manager's page; hours, closures, promotions, amenities | edit, save, refresh | a save removes only what was edited | `ManagePage` |
| Operations, observability, storage, backup, seed | - | I/O, read-only probes | - | not modelled (section 9) |

How they interact: the handlers of one component call its repository, whose transaction is the
unit of atomicity; booking, refund, closure and worker code meet only in the booking rows; the
pages call handlers and read tables, never each other; `@Idempotent()` wraps the mutating handlers
from the outside, so a handler runs once per delivery that the protocol lets through;
notifications are written after the commit of a handler (in the same transaction only by the
escalation job), and their failure makes the handler throw although its effect stands.

### What is hard to test here

`PROJECT.json` lists forty hazards line by line with the properties that would catch them going
wrong. The main ones:

- a status is read in one statement and written by id in another (bookings, refunds, venues,
  members), so a late writer can bring back what expired, was cancelled, suspended or removed;
- submission, decision and status of one proof are separate commits, and the expiry job may run
  between any two of them;
- closures and weekly hours are compared with bookings, and with each other, only at the moment
  they are saved; the listing and the acceptance of a slot are two functions;
- first sign-ins with Google overlap with each other and with a registration, and the loser of the
  unique key runs its transaction once more;
- an escalation run fails between two bookings and starts over;
- a handler fails after its mutation committed, and the client repeats the call;
- photo positions are computed from a count, and swapped through a parked position;
- a page holds a list from before, or an answer for another date, or an empty fallback of a failed
  load, and saves it back;
- a button or a list patches what it was first rendered with by the answers of its own calls, which
  overlap, fail and get lost, while other tabs write the same rows; a public page reads a rating and
  a list by two queries at once.

Further hazards, which are in the models but not in the list, because a property of a listed one
already covers them or because no document promises anything: opposite decisions of two staff
members on one refund, one submission, or one moderation case; a payout of a refund that was
rejected meanwhile; a proof accepted at the very deadline; two pending invitations of one address;
a suspended coach who saves the profile again; two uploads at the photo limit; an upload whose row
fails after its object is stored; two reviews of one booking at once; a new `Idempotency-Key` for
every click of the web; lists that take only the first rows; row keys of the schedule editor that
repeat; inputs that stay enabled during a save.

## 2. Modelling decisions

- **A step is a commit.** A handler is split at every read whose result it uses after somebody
  else may have committed. The record `req[r]` (`mem[h]` in most modules) is what it carries
  across: `[at |-> "writeStatus", booking |-> b, ...]` is a handler that has compared the status
  and is about to write. Where a service checks something that its transaction checks again
  before it writes, the two reads are one step: the second can only refuse more.
- **The advisory lock of a court** keeps holds and closures apart, and nothing else: a status that
  a request writes late, or a rejected refund, takes no lock. So `createHold` is one step in
  `CourtBooking`, and `createClosure` is two: `CheckClosure` looks for blocking bookings and takes
  the lock (`closing`), `CreateClosure` inserts, and between them a handler may write a blocking
  status; a hold waits (`LockFree`). In `CourtSchedule`, whose bookings are made by holds alone,
  the closure is one step, while the lock of a hold is a variable and every query under it a step,
  because replacing the weekly hours takes no lock.
- **A replacement of rows is two steps** where the rows are read and written by several: deleting
  what it sees, and inserting beside what was written meanwhile (`ServerStep` of `CourtSchedule`,
  `BeginReplace` and `Commit` of `ManagePage`). Two overlapping saves leave the rows of both, or
  the second fails on a unique key.
- **Constraints are guards.** A write that PostgreSQL refuses is not enabled, or it fails as a
  whole and the handler takes its error path; `Abort` is also what the death of the API process
  looks like. What it committed before stays.
- **Rows are model values.** A booking of a coach is named by its request, an offer by its request
  and coach, a submission by its transaction reference, a user by the normalised e-mail address,
  all unique in the schema. `"NONE"` is a row that does not exist yet.
- **What a request names is not cross-checked**: `DecidePayment` takes any submission and any
  booking, because `approveProof` and `rejectProof` update both without comparing them.
- **Who may call a handler** is left out where the answer cannot change during the handler; it is
  the subject of `OrganizationStaff`, where it can.
- **A page that keeps only its server-rendered lists is an operator of the tables** (`CoachPages`,
  `BookingPages`): the buttons a fresh page shows. A list with `take: n` is any selection of `n` of
  its rows that the query's order allows (`FirstRows`); a row may be missing from it only when
  there are more than `n`. A page with state of its own has variables for
  it (`CourtSchedule`, `VenuePhotoManager`, `ManagePage`, `Favorites`, `Notifications`, `Reviews`),
  calls that are under way, answers that may be lost (after which nothing is patched or loaded
  again), and refreshes that come one after the other, as the framework orders them. A load of the
  manager's page may fail part by part, and each part has the fallback the page gives it: no
  photos, no promotions, no amenities, no editor, or without the list of venues no section at all.
- **`ManagePage` and `PlayerPages` follow one part per behaviour.** The sections of the manager's
  page (photos, hours, closures, promotions, amenities) share nothing but the refreshes of the
  page, and a refresh asked for by another section may come at any time; the components of a
  player's pages share no row and no state. Other managers' requests, and those of components that
  have left the page, are in `others` and go the same way as the page's own.
- **The rows of an editor are known by their place** in `ManagePage`: a window or an item is a
  record with its place in the list, and keys tell rows that are added from those that were
  loaded, as the keys of the React lists do.
- Amounts, messages, file keys, wording and formatting are left out. Durations and dates are
  computed with, since `AvailabilityPolicy` is about them.
- History variables (`era`, `mine`, `lost`, `hasty`, `submitted`, `missed`, ...) are written and
  never read by an action; they let a property speak of what happened before.
- Time is a bounded clock. Every bound is a constant (`MaxTime`, `MaxCrashes`, `MaxEra`,
  `MaxSaves`, `MaxCalls`, `MaxRequests`, `MaxEdits`, `MaxAsks`, `MaxModerations`, `MaxRefreshes`,
  `MaxReviewers`) and restricts only how often something happens.

Definitions marked "Mutant" in a comment are plausible bugs; replacing the definition after them
by one of these makes the property named with it in `PROJECT.json` fail, which shows that the
property depends on that code.

## 3. Modules and the code

| module | models | notes |
|---|---|---|
| `Intervals` | half-open intervals of a court, as in the `tstzrange '[)'` constraint | |
| `CourtCalendar` | what court booking promises: reserve, pay, secure, release, begin closing, close, withdraw, reopen | abstract specification of courts and, with coaches for courts, of sessions |
| `CourtBooking` | holds, proofs, reviews, refunds, closures, expiry and completion jobs | one action per handler half; `Spec` |
| `CourtBookingClaims` | a sentence of the documents the code does not keep | refuted |
| `BookingPages` | the venue's queue and the player's list with its review forms, over `CourtBooking` | `PagesSpec` |
| `ReviewEscalation` | the escalation job over `CourtBooking`; coaching sessions as the job sees them | `ReviewSpec`, with all fairness of the worker |
| `AvailabilityPolicy` | windows, candidates, quotes and the acceptance of an interval, as functions | |
| `CourtSchedule` | one court: hours, closures, holds with their lock, and a player's page | over `AvailabilityPolicy` |
| `Favorites` | the mark of a player on a venue, and its button | `FavoriteSpec` |
| `Notifications` | the rows of one user, their two updates, and the list | `NoticeSpec` |
| `Reviews` | the review service, the forms, and the rating and list of a public page | `ReviewSpec` |
| `PlayerPages` | the parts of what a player has open, side by side | `PlayerSpec`, over the four above it |
| `Discovery` | the search, and the page's URLs, forms, chips and fallbacks | `SearchSpec`, over `AvailabilityPolicy` |
| `CoachMarket` | requests, approval and decline, offers, acceptance | no specification of its own |
| `CoachSession` | proofs, reviews, refunds, cancellation, completion, composed with `CoachMarket` | `Next` contains `MarketStep` |
| `CoachPages` | buttons of the coach's and the player's page, over `CoachSession` | |
| `Idempotency` | reservation, lookup, execution, completion, release, crash, pruning | |
| `OrganizationStaff` | invitations and memberships of one business | every read and write a step |
| `Accounts` | credentials, mailed tokens, sessions, suspension of users | `AccountsNext` |
| `GoogleSignIn` | attempts, links, creation of users by Google, over `Accounts` | `Spec` |
| `VenueLifecycle` | submission, decisions, moderation of venues and coaches, the administrator's list | |
| `VenuePhotos` | rows, positions and objects of a venue's photos | |
| `VenuePhotoManager` | the page that manages them, over `VenuePhotos` | `Spec` |
| `ManagePage` | the rest of the manager's page, over `VenuePhotoManager` | `ManageSpec` |
| `MC*` | small instances | one `.cfg` per run |
| `*Proofs` | theorems (section 6) | TLAPS |

State corresponds to columns and to the pages' React state; `PROJECT.json` maps every definition
to its lines.

## 4. Runs

| run | instance | shows |
|---|---|---|
| `courts` | 2 bookings, 2 overlapping slots, 1 closure over them, 1 reference, 2 refunds, 2 requests, 1 reviewer, lists of one row, clock to 2 | `NoDoubleBooking`, `HoldsAvoidClosures`, `ProofBehindProgress`, `RefundsBehindBookings`, the queue's buttons (`PagesFollowTheService`), and every step is a step of `CourtCalendar` |
| `live` | 1 booking, 1 coaching session, batches of 1, 1 failed run, fair jobs, clock to 3 | `AbandonedHoldFreesCourt`, `PastBookingCompletes`, `OverdueReviewEscalates`, `NotifiedOnce` |
| `player` | 2 handlers, a day of 6 units without hours at first, 2 schedules (one with two windows, one to midnight), 1 closure, 2 dates, 2 saves, 3 calls; 1 venue with its mark; 2 notifications; 3 bookings, 2 ratings, 2 reviewers | `ListingIsAuthoritative`, `PageHoldsWhatItShows`, `OneHoldPerPage`, `PartsShowTheirRows`, `PageCountsReviews` |
| `discovery` | 4 venues, courts with and without free slots and a venue without any, 3 results per search, a venue under moderation | `RemovingAFilterWidens`, `PageTellsTheSearch` |
| `coaching` | 2 requests for one session, 2 coaches, 2 handlers, 1 reference, 1 refund, lists of one row, clock to 3 | `AcceptedOfferIsBooked`, `OffersNeedApproval`, `NoCoachDoubleBooking`, `PaymentsBehindSessions`, the pages' buttons (`PagesFollowTheService`), and every step is a step of `CourtCalendar` |
| `idem_replays` | 1 key, 2 payloads, 3 deliveries, retention 1, clock to 4, fair pruning | `AnswersAreReal`, `RerunNeedsDeletion`, `ResponsesKeptForRetention`, `StuckKeyIsFreed` |
| `staff` | 3 users, 2 invitations, 2 handlers | `FounderOwns`, `RolesComeFromInvitations`, no deadlock |
| `accounts` | 2 addresses, 1 identity, 2 attempts, 1 token, 3 handlers, 1 revocation per user | `AttemptUsedOnce`, `IdentityOpensOneAccount`, `AccountsCanBeOpened`, `OldSessionsAreBeingRevoked` |
| `venues` | 1 venue, 1 coach, 1 case, 2 handlers, 3 moderations | `PublicVenuesWereSubmitted`, `SuspendedStaysHidden`, `AuditsFollowDecisions` |
| `photos` | 3 photos, 2 handlers, room for 3, 4 requests; a day of hours, 1 closure, 2 promotions, 2 amenities; 4 edits, 2 requests of the page or others | `PhotosInOrder`, `PageShowsPhotos`, `WorkspaceShowsTheVenue`, `NothingLeavesUnasked` |
| `paid_expired` | 1 booking, 1 request, no refunds | refutes `PaidInventoryIsKept` |
| `photo_hole` | 3 photos, room for 3, 1 handler | refutes `UploadsBelowLimitSucceed` |

**Why the bounds are enough to mean something.**

- Two bookings on overlapping slots are all a double booking needs, and two requests in flight all
  that a late writer needs: one that read, one that commits in between. Two refunds make the
  player's request, the venue's cancellation and their decisions overlap on one booking. The clock
  reaches 2, which is a hold, its expiry and the end of a slot; the refund window is 0, so that a
  refund is asked for at any time before the start. Lists of one row with two bookings (or two
  requests, in `coaching`) are full and leave a row out, which the pages must account for.
- In `live` one court review and one coaching session with batches of one are what a failure
  between two bookings, or the first starving the second, needs.
- The day of `player` has windows that meet, one off the grid and one that ends at midnight; two
  saves and two handlers let two replacements overlap with a listing and a hold. Two notifications
  with a list of one, and three bookings of which two are of the page's venue with a list of one,
  let a row be outside the list, and one come between two queries.
- `discovery` finds each of the cases that hide a venue: taken, suspended, or behind the limit of
  results, since an unfiltered search matches four venues and shows three. The limit of the rows
  read (200 in the code) is not exceeded in the run; the theorems are for any limits.
- In `coaching` two coaches compete for a request, and both requests ask for the same time: a
  refund request takes the first session out of the exclusion constraint, the second takes the
  coach, and the refund's rejection then meets the constraint.
- Keys of the idempotency table do not interact, since every statement names one key, so one key
  with three deliveries shows what three deliveries can do to each other. The clock reaches past
  the retention of a record created by a retry.
- Three users are the founder, a manager and whoever the manager invites; two invitations may name
  the same user, or a user who was removed.
- Three handlers in `accounts` are two sign-ins of one identity and a registration, or a reset, of
  an address it reports. One era per user is enough to make a session old.
- Three photos with room for three have gaps, full lists and swaps at either end; two handlers are
  the page's request and somebody else's, or an upload and a move of the page; four requests are
  three uploads and one more. Two requests of another section are two saves of the page, or one
  that overlaps another manager's; four edits are enough to add a window, change it, save it, add
  another and remove it.

Symmetry is used only in runs without liveness properties. Deadlock is checked in `staff`;
elsewhere the instances really stop (clock, rows and counters are used up and all handlers idle).

No run spends its time on a type invariant: those of the modules with a proof module are proved
(section 6) for every instance.

## 5. Fairness, and what the runs found

BullMQ's job schedulers (`upsertJobScheduler ... every`) run each job for ever, so
`ExpireStaleHolds`, `CompletePastBookings`, the steps of the escalation job and
`PruneIdempotencyRecords` are weakly fair. The escalation job may fail, `MaxCrashes` times in the
model; without a bound a run that fails every time escalates nothing, as in the code. API requests
are not fair at all: a client may go away and a process may die, so every liveness property holds
with requests stopping anywhere. `StuckKeyIsFreed` also needs time to pass (weak fairness of
`Tick`) and is stated only for records old enough to become outdated before `MaxTime`. In
`ReviewSpec` time is not fair: what it promises begins when a due time has passed.

Two sentences of the repository are refuted, each with a short trace:

1. `paid_expired`: the expiry job between the two commits of `submitProof` releases a court whose
   proof is recorded; ADR 0002 says possibly paid inventory is not released automatically.
2. `photo_hole`: `addPhoto` takes the number of photos as the next position. With photos at 0, 1
   and 2 and the first one deleted, every upload asks for position 2, which is taken, and fails
   until the photos are moved; the service's test says an upload appends at the next position.

The models also show the following, which no document contradicts, or which a property names as
its limit:

- a booking that re-enters a blocking status is compared with other bookings, never with
  closures, so it may lie in a closure made meanwhile, or even while the closure was being checked;
- `venueCancel` leaves the player's open refund request; rejecting it later confirms a booking
  that was cancelled and paid out;
- a coach's approval that read `PENDING_COACH` before a decline committed reopens the request;
- a handler that throws after its mutation committed releases its key, so a retry runs it again;
- two staff members who decide one submission at once leave the decision of one and the status of
  the other;
- nothing expires an unpaid coach hold; the rejection of a coach refund may meet the exclusion
  constraint for ever, for it does not count `REFUND_REQUESTED` as the courts' does;
- a session is inserted although its user was suspended, or the password reset, after the check;
  it does not resolve while the user is suspended. One reset token may set two passwords;
- an acceptance whose invitation was revoked, or whose holder was removed, after the read makes
  the holder a member;
- a decision on a venue that read it before a suspension makes it public again; lifting a
  suspension makes a draft public; courts of a suspended venue can still be held by address;
- a slot that ends at midnight is listed and cannot be held; two schedules saved at once may leave
  overlapping windows; changing date or duration during a call shows the old answer under the new;
- two escalation runs of two workers may both find one booking (`NotifiedOnce` is of one worker,
  whose runs follow one another);
- a failed load of the photos looks like a venue without any, and a photo whose upload was
  committed but not answered is missing, until a refresh reads the list;
- two managers who save hours or amenities at once leave the rows of both, which neither page
  shows; `WorkspaceShowsTheVenue` excepts a save that found rows written beside its own;
- a failed search looks like "no venues", and a failed load of the amenities like none, which the
  next save then stores; the schedule editor keeps its first windows through every refresh and
  saves them back; a promotion whose answer is lost never appears on the open page;
- objects of removed photos stay in the storage.

## 6. Proofs

For any sets of bookings, requests, handlers, references, refunds, slots, users, identities,
venues, photos, ... and any bounds:

| theorem | statement |
|---|---|
| `CourtBookingProofs!TypeCorrect` | `Spec => []TypeOK` |
| `...!DoubleBookingImpossible`, `HoldsOffClosures`, `ProgressNeedsProof`, `RefundsMatchBookings` | `[]NoDoubleBooking`, `[]HoldsAvoidClosures`, `[]ProofBehindProgress`, `[]RefundsBehindBookings` |
| `...!RowsAreSound`, `ReadsHoldUntilUsed` | `[]RowsExist`, `[]ReadsStillHold` |
| `...!ExpiryOnlyOverdue`, `Refinement` | `Spec => ExpiryTakesOnlyOverdueHolds`, `Spec => CalendarSpec` |
| `...!EscalationKeepsBookings`, `PagesKeepBookings` | `ReviewSpec => Spec`, `PagesSpec => Spec` |
| `...!PagesKeepPromises` | the safety properties and `CalendarSpec` of the composition that `courts` checks |
| `...!QueueCanBeWorkedOff` | `PagesSpec => []PagesFollowTheService` of `BookingPages` |
| `...!ToldOnce` | `ReviewSpec => []NotifiedOnce` |
| `CoachSessionProofs!TypeCorrect`, `RowsAreSound`, `ChecksSurvive` | `[]TypeOK`, `[]RowsExist`, `[]ReadsStillHold` |
| `...!AcceptanceIsAtomic`, `ApprovalBeforeOffers` | `[]AcceptedOfferIsBooked`, `[]OffersNeedApproval` |
| `...!CoachBookedOnce`, `PaymentsMatch` | `[]NoCoachDoubleBooking`, `[]PaymentsBehindSessions` |
| `...!Refinement` | `Spec => CalendarSpec`, with coaches for the courts of the calendar |
| `...!CoachPagesFollow` | `Spec => []PagesFollowTheService` of `CoachPages` |
| `IdempotencyProofs!TypeCorrect`, `OnlyRealAnswers`, `NoRerunWithoutDeletion`, `ReplayNeedsSamePayload`, `ResponsesKept` | `[]TypeOK`, `[]AnswersAreReal`, `[]RerunNeedsDeletion`, `[]ReplayOfSamePayload`, `ResponsesKeptForRetention` |
| `OrganizationStaffProofs!TypeCorrect`, `FounderStaysOwner`, `NobodyJoinsUninvited` | `[]TypeOK`, `[]FounderOwns`, `[]RolesComeFromInvitations` |
| `GoogleSignInProofs!TypeCorrect`, `AttemptsUsedOnce`, `OneAccountPerIdentity`, `NobodyLockedOut`, `OldSessionsEnd` | `[]TypeOK`, `[]AttemptUsedOnce`, `[]IdentityOpensOneAccount`, `[]AccountsCanBeOpened`, `[]OldSessionsAreBeingRevoked` |
| `VenueLifecycleProofs!TypeCorrect`, `DraftsStayPrivate`, `SuspensionHides`, `DecisionsAreAudited` | `[]TypeOK`, `[]PublicVenuesWereSubmitted`, `[]SuspendedStaysHidden`, `[]AuditsFollowDecisions` |
| `ManagePageProofs!TypeCorrect`, `OrderIsKept`, `PhotoPageIsRight` | `[]PhotosTypeOK`, `[]PhotosInOrder`, `[]PageShowsPhotos` of `VenuePhotoManager!Spec` |
| `...!PhotoSectionIsRight`, `WorkspaceIsRight`, `SavesTakeNothingAlong` | the same two, `[]WorkspaceShowsTheVenue` and the action property `NothingLeavesUnasked` of `ManageSpec` |
| `PlayerPagesProofs!ListingIsRight`, `PageHoldsItsSlot`, `PageHoldsOnce` | `[]ListingIsAuthoritative`, `[]PageHoldsWhatItShows`, `[]OneHoldPerPage` of `CourtSchedule!Spec` |
| `...!ButtonIsRight`, `ListIsRight`, `FormsTellTheReview`, `ReviewsAreCounted` | `[]ButtonShowsFavorite`, `[]ListShowsNotices`, `[]FormTellsTheReview`, `[]PageCountsReviews` of their modules |
| `...!PagesFollowTheirParts`, `PartsAreRight`, `PlayerPagesAreRight` | `PlayerSpec` implies each part's specification, and so all of the above |
| `...!FiltersOnlyNarrow`, `PageIsItsSearch` | `[]RemovingAFilterWidens`, `[]PageTellsTheSearch` of `Discovery!SearchSpec` |

**Assumptions.** Only the named `ASSUME`s of the modules: intervals have a start before their
end, durations and bounds are natural numbers, `None` and `Absent` are none of the values, cases of
moderation are not subjects; the bookings and requests that lists draw from, and the venues,
pricing rules and bookings that searches and reviews are about, are finitely many; no two venues
have the same place in the order of names. TLC evaluates them in the runs.

**Scope.** The first theorems of `CourtBookingProofs` are about `CourtBooking!Spec`; its last part
carries them over to the pages and to the escalation job, whose steps are steps of the bookings or
stutters. `CoachPages` adds no variable or action to `CoachSession`. The theorems about photos are
about `VenuePhotoManager!Spec`; the steps of the photo section of `ManageSpec` are those steps,
with other requests only as refreshes of the page. `PlayerPagesProofs` proves each part of a
player's pages on its own and then carries all of it over to `PlayerSpec`.

**The arguments.** None of the safety properties is inductive alone, because the writes check
nothing: whether a write may happen depends on what its handler read earlier.

- *Bookings and sessions.* The inductive invariant joins the properties with `RowsExist` (rows
  refer to rows) and `ReadsStillHold` (what a handler in flight relies on is still true); the proof
  of the latter needs `ProofBehindProgress` (`SessionNeedsProof`) and, for an acceptance,
  `OffersNeedApproval`. The facts relied on are stable: rows are never deleted, submissions keep
  their booking, a decided refund never becomes undecided. Each proof first reduces the actions to
  their effect on a table and then proves each invariant over these few effects. Double booking
  follows from `ExclusionAllows` being a guard of every write into a blocking status. For
  `Refinement`, a status maps to a phase, and a write into a blocking status is `Secure`, which is
  where `HasProof` from `ReadsStillHold` is used. Both booking systems implement the one calendar;
  a coach's refund request releases the time there, a court's does not, because their exclusion
  constraints differ in that status. The calendar closes a window in two steps as well: it begins
  where nobody has a live booking and from then on takes no reservation, and what is secured
  meanwhile stays. That no hold gets into a closing window is an invariant of its own
  (`HoldsAvoidClosing`), for it rests on the lock.
- *Queues and buttons.* A button works when the guards of the handler it calls hold; they are
  operators (`MayCancel`, `MayDecidePayment`, ...), the same in the handler and in the property.
  That they hold is what the invariants above say of the rows (a proof behind every review, an
  open refund behind every request), and that a row is listed follows from finiteness: a list
  that is not full holds as many rows as there are, hence all of them. What else may refuse a
  coach's or player's button is named: the time (`TooLate`), a job directed at another coach
  (`Misdirected`), one the coach has an offer on already (`AlreadyOffered`), a coach who was booked
  elsewhere for that time (`CoachTaken`). That nothing else does, the unique booking of a request
  for one, needs that an open request has no booking (`OpenIsUnbooked`).
- *Escalation.* The rows a run has in hand are marked by nobody else (`BatchIsUntold`), and a user
  was told of a row once exactly if it is marked (`MarkedWhenTold`).
- *Idempotency.* Under a key no record of which was deleted, at most one request is past its
  reservation, and it is the one whose hash the record holds.
- *Staff.* Every letter sent is addressed to somebody other than the founder, offers no ownership,
  and a manager's place only if the founder wrote it (`LettersAreFair`); what handlers in flight
  hold keeps to that (`ReadsAreSound`), so an upsert never reaches the founder's row.
- *Accounts.* Links are never changed once made (`LinksStay`), which holds because a conflict
  turns `CommitLink` back; who goes on to a session by Google names the user of the link. For the
  sessions, the invariant names the revoker more closely than the property does: a request past
  `updatePassword` *with a reset* (`Revoking`), which can only go on to the deletion.
- *Venues.* A handler about to approve has read a submitted venue, and only a suspension in the
  history variable `overtaken` has a decision pending on its venue (`DecisionIsSound`).
- *Photos.* Distinct positions survive a swap although its two reads may be of different moments,
  because the commit is refused unless both photos exist and both positions are free or their own.
  For the page, what it shows or was last given is right unless there is something it missed
  (`unseen`: another manager's write, its own whose answer got lost, a read that failed), a refresh
  is waiting, or a request of the page has written and its answer, which asks for a refresh, is
  still to come (`PhotosAreKnown`); a removal patches the list by what its handler did.
- *Workspace.* `WorkInv` says of each section what its editor, the loads under way and the pending
  save have in common: between saves the hours shown are the venue's, and while one is under way
  they are those it sends, up to windows the manager touched (`HoursAreKnown`; likewise
  `BoxesAreKnown`); a save under way may have deleted already and not yet written, and one that
  finds rows of another save beside its own is `missed`; the closures shown are the venue's, or a load will follow
  (`ClosuresAreComing`); an item is as the venue has it, or an answer about it is on its way
  (`ItemsAreKnown`); and the keys of the editor tell its rows apart (`KeysTellRows`). `OneSection`
  keeps the other sections as they were, up to the refreshes.
- *Slots.* That listing, search and acceptance agree is a statement about the functions of
  `AvailabilityPolicy` only, proved for any hours, closures and bookings: a candidate of a window
  is contained in it and aligned to it. For the page (`ScheduleInv`), the handler it waits for does
  what was asked, for the date and the duration that are shown unless they were changed meanwhile
  (`WaitsRight`, `PageFits`), and a page that waits has no booking yet, so the slots held for it
  are at most the one on its way or on the page (`HoldIsKnown`).
- *Buttons, lists, forms.* Each inductive invariant relates the row, what the component shows, and
  the answer on its way: an answer that is not lost is applied before the next call is sent.
- *Ratings.* The average of the ratings shown lies between the least and the greatest of them,
  which needs sums over finite sets: the fold's defining facts and an induction on the cardinality,
  taken as the least counterexample (`LeastOf`), since induction theorems take an operator.
- *Search.* `SearchInv` says which URLs the page ever has (`SearchUrl`). The rest is about all of
  them: a chip's link asks for less (`HrefAsksLess`), a venue that is found and matches for more
  filters does so for fewer (`LessFindsMore`; a free slot with a price in range was priced by a
  rule with that price), and taking the first `n` of a set takes all of it unless it takes `n`
  (`TakenAreMany`), so a search that is not cut short finds all that matches.

**Model-checked only.** Liveness, because the prover has no support for fairness and ENABLED, and
the refuted sentences, whose traces are the result. Every other property of a passing run is stated
by a theorem.

## 7. Checking it

```
tlc -workers 2 -config MCCourtBooking_courts.cfg MCCourtBooking      # and so on for each .cfg
tlapm CourtBookingProofs.tla                                         # and each other *Proofs.tla
```

A run with `"expect": "violation"` in `PROJECT.json` ends with a counterexample by design. The
longest runs (`courts`, `player`, `accounts`, `photos`, `discovery`) take one to three minutes.

## 8. Plan

Done: everything in section 3. What is left, in the order of its value:

1. For idempotency, a refinement of "each key has at most one effect and one answer" under the
   condition that no record is deleted.
2. The editor of coach availability and the forms of a coach's profile, once booking handlers
   read the posted hours; today they do not.

## 9. Not modelled, and why

- **Sending of notifications and e-mail**: appended after a commit; a failure there is `Execute`
  going to `release` in `Idempotency`. Their contents are wording. The list of favorites and the
  count of the bell are read-only.
- **Amenities of a court** are replaced like a venue's (`ManagePage`).
- **Operations, health, observability, public statistics**: read-only.
- **Object storage, re-encoding, backup, seed, deployment**: I/O and static data.
- **Domain package**: `isRefundEligible` is the guard of `RequestRefund`; the other functions are
  called by neither the API nor the worker.
- **Layout, landing page, sign-in forms, presentation**: no state beyond the text being typed. The
  repeated calls of `lib/api.ts` are the deliveries of `Idempotency`.
- **Expiry of tokens and sessions**: it only disables what need not happen anyway.
- Redis, BullMQ, Google and the storage are external: a job is taken to run at any time and again
  for ever, Google to report any verified identity, the storage to keep what it was given.
