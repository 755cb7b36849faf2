----------------------------- MODULE VenueLifecycle -----------------------------
(***************************************************************************)
(* How venues become public and how venues and coaches are hidden again    *)
(* (apps/api/src/venues/venue.service.ts, apps/api/src/moderation, and an  *)
(* administrator's page of venues to decide, admin-venue-queue.tsx).       *)
(* Every decision reads a row, checks it and updates it by id; the audit   *)
(* event of a moderation is one more write.                                *)
(***************************************************************************)
EXTENDS Naturals, FiniteSets

CONSTANTS
  Venue, Coach,  \* subjects of reports
  Case,          \* moderation cases that may be filed
  Handler,       \* API requests in flight at one time
  None,          \* nothing is pending on the page
  MaxModerations \* bound on resolutions, suspensions and reinstatements

(* An audit event tells cases from venues and coaches (subjectType).       *)
ASSUME SubjectAssumption == Case \cap (Venue \cup Coach) = {}

VARIABLES
  status,      \* venues.status, "NONE" before the venue is created
  active,      \* coach_profiles.active
  cases,       \* moderation_cases: status and subject
  audits,      \* audit_events
  mem,         \* what each request in flight remembers
  queue,       \* AdminVenueQueue: venues shown, the one with a call under way
  moderations, \* number of resolutions, suspensions and reinstatements so far
  submitted,   \* history: venues submitted for review at least once
  reinstated,  \* history: subjects reinstated at least once
  hidden,      \* history: subjects suspended and not reinstated since
  overtaken,   \* history: venues suspended between a decision's read and write
  unaudited    \* history: what a request dealt with that died before its audit

rows == <<status, active, cases, audits>>
history == <<submitted, reinstated, hidden, overtaken, unaudited>>
vars == <<rows, mem, queue, moderations, history>>

Subject == Venue \cup Coach
Idle == [at |-> "idle"]
NoCase == [status |-> "NONE"]

VenueStatus == {"DRAFT", "PENDING_APPROVAL", "APPROVED", "REJECTED", "SUSPENDED"}
ProfileStatus == {"ACTIVE", "INACTIVE"}
ModerationCase == [status : {"OPEN", "RESOLVED", "DISMISSED"}, subject : Subject]
AuditEvent == [on : Case \cup Subject,
               action : {"RESOLVED", "DISMISSED", "SUBJECT_SUSPENDED", "SUBJECT_REINSTATED"}]
PageState == [shown : SUBSET Venue, pendingId : Venue \cup {None}]

DecisionMem == [at : {"check", "write"}, venue : Venue,
                decision : {"submit", "approve", "reject"}, clicked : BOOLEAN]
CaseMem     == [at : {"resolve"}, case : Case, resolution : {"RESOLVED", "DISMISSED"},
                clicked : {FALSE}]
SubjectMem  == [at : {"suspend"}, subject : Subject, suspended : BOOLEAN, clicked : {FALSE}]
AuditMem    == [at : {"audit"}, event : AuditEvent, clicked : {FALSE}]

TypeOK ==
  /\ status \in [Venue -> VenueStatus \cup {"NONE"}]
  /\ active \in [Coach -> ProfileStatus \cup {"NONE"}]
  /\ cases \in [Case -> ModerationCase \cup {NoCase}]
  /\ audits \subseteq AuditEvent
  /\ mem \in [Handler -> {Idle} \cup DecisionMem \cup CaseMem \cup SubjectMem \cup AuditMem]
  /\ queue \in PageState

Init ==
  /\ status = [v \in Venue |-> "NONE"]
  /\ active = [c \in Coach |-> "NONE"]
  /\ cases = [k \in Case |-> NoCase]
  /\ audits = {}
  /\ mem = [h \in Handler |-> Idle]
  /\ queue = [shown |-> {}, pendingId |-> None]
  /\ moderations = 0
  /\ submitted = {} /\ reinstated = {} /\ hidden = {} /\ overtaken = {} /\ unaudited = {}

Exists(s) == IF s \in Venue THEN status[s] # "NONE" ELSE active[s] # "NONE"

(* What the public pages show.                                             *)
PublicVenue(v) == status[v] = "APPROVED"
PublicCoach(c) == active[c] = "ACTIVE"
Public(s) == IF s \in Venue THEN PublicVenue(s) ELSE PublicCoach(s)

Remember(h, r) == mem' = [mem EXCEPT ![h] = r]

(* A request is answered.  If it came from the page, the page drops its    *)
(* pending mark, whichever venue it is on by now.                          *)
Answer(h) ==
  /\ Remember(h, Idle)
  /\ queue' = IF mem[h].clicked THEN [queue EXCEPT !.pendingId = None] ELSE queue

---------------------------------------------------------------------------
(* Venues: created and submitted by their staff, decided by administrators *)

CreateVenue(v) ==
  /\ status[v] = "NONE"
  /\ status' = [status EXCEPT ![v] = "DRAFT"]
  /\ UNCHANGED <<active, cases, audits, mem, queue, history, moderations>>

MaySubmit(v) == status[v] \in {"DRAFT", "REJECTED"}

(* Mutant: whatever waits or waited is approved.                           *)
MayApproveAny(v) == status[v] \in {"DRAFT", "PENDING_APPROVAL"}

MayApprove(v) == status[v] = "PENDING_APPROVAL"

MayReject(v) == status[v] = "PENDING_APPROVAL"

May(decision, v) ==
  \/ decision = "submit" /\ MaySubmit(v)
  \/ decision = "approve" /\ MayApprove(v)
  \/ decision = "reject" /\ MayReject(v)

Outcome == [submit |-> "PENDING_APPROVAL", approve |-> "APPROVED", reject |-> "REJECTED"]

(* A request for a decision, from no page that is modelled.                *)
Decide(h, v, decision) ==
  /\ mem[h] = Idle
  /\ status[v] # "NONE"
  /\ Remember(h, [at |-> "check", venue |-> v, decision |-> decision, clicked |-> FALSE])
  /\ UNCHANGED <<rows, queue, history, moderations>>

(* findVenueById and the check of the status ...                           *)
CheckVenue(h) ==
  /\ mem[h].at = "check"
  /\ \/ /\ May(mem[h].decision, mem[h].venue)
        /\ Remember(h, [mem[h] EXCEPT !.at = "write"])
        /\ UNCHANGED queue
     \/ /\ ~May(mem[h].decision, mem[h].venue)
        /\ Answer(h)
  /\ UNCHANGED <<rows, history, moderations>>

(* ... and the update, by id alone.                                        *)
WriteVenue(h) ==
  /\ mem[h].at = "write"
  /\ status' = [status EXCEPT ![mem[h].venue] = Outcome[mem[h].decision]]
  /\ submitted' = IF mem[h].decision = "submit" THEN submitted \cup {mem[h].venue} ELSE submitted
  /\ Answer(h)
  /\ UNCHANGED <<active, cases, audits, reinstated, hidden, overtaken, unaudited, moderations>>

---------------------------------------------------------------------------
(* Coaches: a profile is active until it is suspended; saving it again     *)
(* leaves that alone.                                                      *)

(* Mutant: saving a profile makes it active.                               *)
UpsertActiveProfile(c) ==
  /\ active' = [active EXCEPT ![c] = "ACTIVE"]
  /\ UNCHANGED <<status, cases, audits, mem, queue, history, moderations>>

UpsertProfile(c) ==
  /\ active' = [active EXCEPT ![c] = IF @ = "NONE" THEN "ACTIVE" ELSE @]
  /\ UNCHANGED <<status, cases, audits, mem, queue, history, moderations>>

---------------------------------------------------------------------------
(* Reports and what administrators do about them *)

Report(k, s) ==
  /\ cases[k] = NoCase
  /\ Exists(s)
  /\ cases' = [cases EXCEPT ![k] = [status |-> "OPEN", subject |-> s]]
  /\ UNCHANGED <<status, active, audits, mem, queue, history, moderations>>

Open(k) == cases[k].status = "OPEN"

(* resolveCase: read and check ...                                         *)
CheckCase(h, k, resolution) ==
  /\ mem[h] = Idle
  /\ moderations < MaxModerations /\ moderations' = moderations + 1
  /\ Open(k)
  /\ Remember(h, [at |-> "resolve", case |-> k, resolution |-> resolution, clicked |-> FALSE])
  /\ UNCHANGED <<rows, queue, history>>

(* Mutant: the audit event is forgotten.                                   *)
ResolveCaseSilently(h) ==
  /\ mem[h].at = "resolve"
  /\ cases' = [cases EXCEPT ![mem[h].case].status = mem[h].resolution]
  /\ Answer(h)
  /\ UNCHANGED <<status, active, audits, history, moderations>>

(* ... update by id ...                                                    *)
ResolveCase(h) ==
  /\ mem[h].at = "resolve"
  /\ cases' = [cases EXCEPT ![mem[h].case].status = mem[h].resolution]
  /\ Remember(h, [at |-> "audit", clicked |-> FALSE,
                  event |-> [on |-> mem[h].case, action |-> mem[h].resolution]])
  /\ UNCHANGED <<status, active, audits, queue, history, moderations>>

(* ... and audit.                                                          *)
RecordAudit(h) ==
  /\ mem[h].at = "audit"
  /\ audits' = audits \cup {mem[h].event}
  /\ Answer(h)
  /\ UNCHANGED <<status, active, cases, history, moderations>>

(* setSuspension: the subject exists ...                                   *)
CheckSubject(h, s, suspended) ==
  /\ mem[h] = Idle
  /\ moderations < MaxModerations /\ moderations' = moderations + 1
  /\ Exists(s)
  /\ Remember(h, [at |-> "suspend", subject |-> s, suspended |-> suspended, clicked |-> FALSE])
  /\ UNCHANGED <<rows, queue, history>>

Deciding(v) == \E h \in Handler : mem[h].at = "write" /\ mem[h].venue = v

(* ... and its row is updated: a reinstated venue is approved, whatever it *)
(* was before.                                                             *)
SetSuspended(h) ==
  /\ mem[h].at = "suspend"
  /\ LET s == mem[h].subject
         suspended == mem[h].suspended
     IN /\ IF s \in Venue
           THEN /\ status' = [status EXCEPT ![s] = IF suspended THEN "SUSPENDED" ELSE "APPROVED"]
                /\ UNCHANGED active
           ELSE /\ active' = [active EXCEPT ![s] = IF suspended THEN "INACTIVE" ELSE "ACTIVE"]
                /\ UNCHANGED status
        /\ hidden' = IF suspended THEN hidden \cup {s} ELSE hidden \ {s}
        /\ reinstated' = IF suspended THEN reinstated ELSE reinstated \cup {s}
        /\ overtaken' = IF s \in Venue /\ Deciding(s) THEN overtaken \cup {s} ELSE overtaken
        /\ Remember(h, [at |-> "audit", clicked |-> FALSE,
                        event |-> [on |-> s, action |-> IF suspended THEN "SUBJECT_SUSPENDED"
                                                                   ELSE "SUBJECT_REINSTATED"]])
  /\ UNCHANGED <<cases, audits, queue, submitted, unaudited, moderations>>

(* A query fails, or the process dies between two of them.                 *)
Abort(h) ==
  /\ mem[h] # Idle
  /\ unaudited' = IF mem[h].at = "audit" THEN unaudited \cup {mem[h].event.on} ELSE unaudited
  /\ Answer(h)
  /\ UNCHANGED <<rows, submitted, reinstated, hidden, overtaken, moderations>>

---------------------------------------------------------------------------
(* The administrator's page.  It shows what it last loaded; while a call   *)
(* is under way the buttons of that venue alone are disabled.              *)

LoadQueue ==
  /\ queue' = [queue EXCEPT !.shown = {v \in Venue : status[v] = "PENDING_APPROVAL"}]
  /\ UNCHANGED <<rows, mem, history, moderations>>

ClickVenue(h, v, decision) ==
  /\ v \in queue.shown /\ queue.pendingId # v
  /\ mem[h] = Idle
  /\ queue' = [queue EXCEPT !.pendingId = v]
  /\ Remember(h, [at |-> "check", venue |-> v, decision |-> decision, clicked |-> TRUE])
  /\ UNCHANGED <<rows, history, moderations>>

---------------------------------------------------------------------------
VenueStep(h) ==
  \/ \E v \in Venue, decision \in {"submit", "approve", "reject"} : Decide(h, v, decision)
  \/ CheckVenue(h)
  \/ WriteVenue(h)
  \/ \E v \in Venue, decision \in {"approve", "reject"} : ClickVenue(h, v, decision)

ModerationStep(h) ==
  \/ \E k \in Case, resolution \in {"RESOLVED", "DISMISSED"} : CheckCase(h, k, resolution)
  \/ \E s \in Subject, suspended \in BOOLEAN : CheckSubject(h, s, suspended)
  \/ ResolveCase(h)
  \/ SetSuspended(h)
  \/ RecordAudit(h)

Next ==
  \/ \E v \in Venue : CreateVenue(v)
  \/ \E c \in Coach : UpsertProfile(c)
  \/ \E k \in Case, s \in Subject : Report(k, s)
  \/ \E h \in Handler : VenueStep(h) \/ ModerationStep(h) \/ Abort(h)
  \/ LoadQueue

Spec == Init /\ [][Next]_vars

---------------------------------------------------------------------------
(* A venue is public only if its staff submitted it for review, or an      *)
(* administrator reinstated it: no order of submissions, decisions and     *)
(* suspensions by several administrators publishes a draft.                *)
PublicVenuesWereSubmitted ==
  \A v \in Venue : PublicVenue(v) => v \in submitted \cup reinstated

(* What was suspended stays hidden until it is reinstated, whatever its    *)
(* owner saves, submits or an administrator decides from an old page.  The *)
(* limit of the code is part of the statement: a decision that read the    *)
(* venue before the suspension writes over it.                             *)
SuspendedStaysHidden ==
  \A s \in hidden : ~Public(s) \/ s \in overtaken

(* A closed case has an audit event with its very outcome and a hidden     *)
(* subject one for its suspension, unless the request that did it is still *)
(* to write the event, or died before it; and no event is recorded for a   *)
(* case that is open.                                                      *)
Recorded(event) ==
  \/ event \in audits \/ event.on \in unaudited
  \/ \E h \in Handler : mem[h].at = "audit" /\ mem[h].event = event

AuditsFollowDecisions ==
  /\ \A k \in Case :
       cases[k].status \in {"RESOLVED", "DISMISSED"} => Recorded([on |-> k, action |-> cases[k].status])
  /\ \A s \in hidden : Recorded([on |-> s, action |-> "SUBJECT_SUSPENDED"])
  /\ \A event \in audits : event.on \in Case => ~Open(event.on)
=============================================================================
