-------------------------- MODULE VenueLifecycleProofs --------------------------
(* Proofs about VenueLifecycle for every value of its constants.           *)
EXTENDS VenueLifecycle, TLAPS

Closed(k) == cases[k].status \in {"RESOLVED", "DISMISSED"}

(* What handlers in flight hold on to: an approval rests on a submission,  *)
(* and only an overtaken suspension has a decision pending on its venue.   *)
DecisionIsSound(m) ==
  /\ m.decision = "approve" => m.venue \in submitted
  /\ m.venue \in hidden => m.venue \in overtaken

ReadsAreSound ==
  \A h \in Handler :
    /\ mem[h].at = "write" => DecisionIsSound(mem[h])
    /\ mem[h].at = "resolve" => cases[mem[h].case] # NoCase
    /\ mem[h].at = "audit" /\ mem[h].event.on \in Case => Closed(mem[h].event.on)

(* What the rows say by themselves.                                        *)
Suspended(s) == IF s \in Venue THEN status[s] = "SUSPENDED" ELSE active[s] = "INACTIVE"

RowsAreSound ==
  /\ \A v \in Venue : status[v] = "PENDING_APPROVAL" => v \in submitted
  /\ hidden \subseteq Subject
  /\ \A s \in hidden : Suspended(s) \/ s \in overtaken

AuditsAreOfClosedCases ==
  \A event \in audits : event.on \in Case => Closed(event.on)

IInv ==
  /\ TypeOK
  /\ ReadsAreSound
  /\ RowsAreSound
  /\ PublicVenuesWereSubmitted
  /\ AuditsAreOfClosedCases
  /\ AuditsFollowDecisions

---------------------------------------------------------------------------
LEMMA InitIInv == Init => IInv
BY DEF Init, IInv, TypeOK, ReadsAreSound, RowsAreSound, PublicVenuesWereSubmitted, PublicVenue,
       AuditsFollowDecisions, AuditsAreOfClosedCases, PageState, Idle, NoCase

(* The kind of a handler's memory is told by where the handler is.         *)
LEMMA WhatHandlersHold ==
  ASSUME TypeOK, NEW h \in Handler
  PROVE  /\ mem[h].at \in {"check", "write"} => mem[h] \in DecisionMem
         /\ mem[h].at = "resolve" => mem[h] \in CaseMem
         /\ mem[h].at = "suspend" => mem[h] \in SubjectMem
         /\ mem[h].at = "audit" => mem[h] \in AuditMem
<1>1. mem[h] \in {Idle} \cup DecisionMem \cup CaseMem \cup SubjectMem \cup AuditMem
  BY DEF TypeOK
<1>2. mem[h] \in {Idle} => mem[h].at = "idle"
  BY DEF Idle
<1>3. mem[h] \in DecisionMem => mem[h].at \in {"check", "write"}
  BY DEF DecisionMem
<1>4. mem[h] \in CaseMem => mem[h].at = "resolve"
  BY DEF CaseMem
<1>5. mem[h] \in SubjectMem => mem[h].at = "suspend"
  BY DEF SubjectMem
<1>6. mem[h] \in AuditMem => mem[h].at = "audit"
  BY DEF AuditMem
<1>7. QED
  BY <1>1, <1>2, <1>3, <1>4, <1>5, <1>6

(* An answer changes nothing but the handler and the page's mark.          *)
LEMMA AnswerTyped ==
  ASSUME TypeOK, NEW h \in Handler, Answer(h)
  PROVE  /\ mem' \in [Handler -> {Idle} \cup DecisionMem \cup CaseMem \cup SubjectMem \cup AuditMem]
         /\ queue' \in PageState
BY DEF TypeOK, Answer, Remember, PageState

LEMMA StepTypeOK == TypeOK /\ ReadsAreSound /\ [Next]_vars => TypeOK'
<1> SUFFICES ASSUME TypeOK, ReadsAreSound, [Next]_vars
             PROVE  TypeOK'
  OBVIOUS
<1> USE DEF rows, history
<1>1. ASSUME NEW v \in Venue, CreateVenue(v)
      PROVE  TypeOK'
  BY <1>1 DEF TypeOK, CreateVenue, VenueStatus
<1>2. ASSUME NEW c \in Coach, UpsertProfile(c)
      PROVE  TypeOK'
  BY <1>2 DEF TypeOK, UpsertProfile, ProfileStatus
<1>3. ASSUME NEW k \in Case, NEW s \in Subject, Report(k, s)
      PROVE  TypeOK'
  BY <1>3 DEF TypeOK, Report, ModerationCase
<1>4. ASSUME NEW h \in Handler, NEW v \in Venue, NEW decision \in {"submit", "approve", "reject"},
             Decide(h, v, decision)
      PROVE  TypeOK'
  BY <1>4 DEF TypeOK, Decide, Remember, DecisionMem
<1>5. ASSUME NEW h \in Handler, CheckVenue(h)
      PROVE  TypeOK'
  <2>1. mem[h] \in DecisionMem
    BY <1>5, WhatHandlersHold DEF CheckVenue
  <2>2. CASE Remember(h, [mem[h] EXCEPT !.at = "write"]) /\ UNCHANGED queue
    BY <1>5, <2>1, <2>2 DEF TypeOK, CheckVenue, Remember, DecisionMem
  <2>3. CASE Answer(h)
    BY <1>5, <2>3, AnswerTyped DEF TypeOK, CheckVenue
  <2>4. QED
    BY <1>5, <2>2, <2>3 DEF CheckVenue
<1>6. ASSUME NEW h \in Handler, WriteVenue(h)
      PROVE  TypeOK'
  <2>1. mem[h] \in DecisionMem
    BY <1>6, WhatHandlersHold DEF WriteVenue
  <2>2. Outcome[mem[h].decision] \in VenueStatus
    BY <2>1 DEF DecisionMem, Outcome, VenueStatus
  <2>3. status' \in [Venue -> VenueStatus \cup {"NONE"}]
    BY <1>6, <2>1, <2>2 DEF TypeOK, WriteVenue, DecisionMem
  <2>4. QED
    BY <1>6, <2>3, AnswerTyped DEF TypeOK, WriteVenue
<1>7. ASSUME NEW h \in Handler, NEW v \in Venue, NEW decision \in {"approve", "reject"},
             ClickVenue(h, v, decision)
      PROVE  TypeOK'
  BY <1>7 DEF TypeOK, ClickVenue, Remember, DecisionMem, PageState
<1>8. ASSUME NEW h \in Handler, NEW k \in Case, NEW resolution \in {"RESOLVED", "DISMISSED"},
             CheckCase(h, k, resolution)
      PROVE  TypeOK'
  BY <1>8 DEF TypeOK, CheckCase, Remember, CaseMem
<1>9. ASSUME NEW h \in Handler, NEW s \in Subject, NEW suspended \in BOOLEAN,
             CheckSubject(h, s, suspended)
      PROVE  TypeOK'
  BY <1>9 DEF TypeOK, CheckSubject, Remember, SubjectMem
<1>10. ASSUME NEW h \in Handler, ResolveCase(h)
       PROVE  TypeOK'
  <2>1. mem[h] \in CaseMem /\ cases[mem[h].case] # NoCase
    BY <1>10, WhatHandlersHold DEF ResolveCase, ReadsAreSound
  <2>2. cases' \in [Case -> ModerationCase \cup {NoCase}]
    <3>1. cases[mem[h].case] \in ModerationCase
      BY <2>1 DEF TypeOK, CaseMem
    <3>2. [cases[mem[h].case] EXCEPT !.status = mem[h].resolution] \in ModerationCase
      BY <2>1, <3>1 DEF CaseMem, ModerationCase
    <3>3. QED
      BY <1>10, <2>1, <3>2 DEF TypeOK, ResolveCase, CaseMem
  <2>3. [at |-> "audit", clicked |-> FALSE,
         event |-> [on |-> mem[h].case, action |-> mem[h].resolution]] \in AuditMem
    BY <2>1 DEF CaseMem, AuditMem, AuditEvent
  <2>4. QED
    BY <1>10, <2>2, <2>3 DEF TypeOK, ResolveCase, Remember
<1>11. ASSUME NEW h \in Handler, SetSuspended(h)
       PROVE  TypeOK'
  <2>1. mem[h] \in SubjectMem
    BY <1>11, WhatHandlersHold DEF SetSuspended
  <2> DEFINE s == mem[h].subject
  <2>2. s \in Subject /\ mem[h].suspended \in BOOLEAN
    BY <2>1 DEF SubjectMem
  <2>3. status' \in [Venue -> VenueStatus \cup {"NONE"}]
    BY <1>11, <2>2 DEF TypeOK, SetSuspended, VenueStatus
  <2>4. active' \in [Coach -> ProfileStatus \cup {"NONE"}]
    BY <1>11, <2>2 DEF TypeOK, SetSuspended, ProfileStatus
  <2>5. [at |-> "audit", clicked |-> FALSE,
         event |-> [on |-> s, action |-> IF mem[h].suspended THEN "SUBJECT_SUSPENDED"
                                                            ELSE "SUBJECT_REINSTATED"]] \in AuditMem
    BY <2>2 DEF AuditMem, AuditEvent, Subject
  <2>6. mem' \in [Handler -> {Idle} \cup DecisionMem \cup CaseMem \cup SubjectMem \cup AuditMem]
    BY <1>11, <2>5 DEF TypeOK, SetSuspended, Remember
  <2>7. QED
    BY <1>11, <2>3, <2>4, <2>6 DEF TypeOK, SetSuspended
<1>12. ASSUME NEW h \in Handler, RecordAudit(h)
       PROVE  TypeOK'
  <2>1. mem[h].event \in AuditEvent
    BY <1>12, WhatHandlersHold DEF RecordAudit, AuditMem
  <2>2. QED
    BY <1>12, <2>1, AnswerTyped DEF TypeOK, RecordAudit
<1>13. ASSUME NEW h \in Handler, Abort(h)
       PROVE  TypeOK'
  BY <1>13, AnswerTyped DEF TypeOK, Abort
<1>14. ASSUME LoadQueue
       PROVE  TypeOK'
  BY <1>14 DEF TypeOK, LoadQueue, PageState
<1>15. CASE UNCHANGED vars
  BY <1>15 DEF TypeOK, vars
<1>16. QED
  <2>1. ASSUME NEW h \in Handler, VenueStep(h)
        PROVE  TypeOK'
    BY <2>1, <1>4, <1>5, <1>6, <1>7 DEF VenueStep
  <2>2. ASSUME NEW h \in Handler, ModerationStep(h)
        PROVE  TypeOK'
    BY <2>2, <1>8, <1>9, <1>10, <1>11, <1>12 DEF ModerationStep
  <2>3. QED
    BY <2>1, <2>2, <1>1, <1>2, <1>3, <1>13, <1>14, <1>15 DEF Next

---------------------------------------------------------------------------
(* The proofs below follow the few ways in which a step treats what an     *)
(* invariant is about: a handler's memory, the rows, the history.          *)

(* A request for a decision, or an answer, takes what the handler held.    *)
LEMMA StepReads == IInv /\ [Next]_vars => ReadsAreSound'
<1> SUFFICES ASSUME IInv, [Next]_vars, NEW g \in Handler
             PROVE  /\ mem'[g].at = "write" => DecisionIsSound(mem[g])'
                    /\ mem'[g].at = "resolve" => cases'[mem'[g].case] # NoCase
                    /\ mem'[g].at = "audit" /\ mem'[g].event.on \in Case
                         => Closed(mem[g].event.on)'
  BY DEF ReadsAreSound
<1> DEFINE Goal == /\ mem'[g].at = "write" => DecisionIsSound(mem[g])'
                   /\ mem'[g].at = "resolve" => cases'[mem'[g].case] # NoCase
                   /\ mem'[g].at = "audit" /\ mem'[g].event.on \in Case
                        => Closed(mem[g].event.on)'
<1>0. /\ mem \in [Handler -> {Idle} \cup DecisionMem \cup CaseMem \cup SubjectMem \cup AuditMem]
      /\ TypeOK
  BY DEF IInv, TypeOK
<1>a. /\ mem[g].at = "write" => DecisionIsSound(mem[g])
      /\ mem[g].at = "resolve" => cases[mem[g].case] # NoCase
      /\ mem[g].at = "audit" /\ mem[g].event.on \in Case => Closed(mem[g].event.on)
  BY DEF IInv, ReadsAreSound
(* What keeps the cases, or closes one, and lets the history grow, keeps   *)
(* what was sound.                                                         *)
<1>b. ASSUME mem'[g] = mem[g] \/ mem'[g].at \in {"idle", "check", "suspend"},
             submitted \subseteq submitted', hidden' \subseteq hidden, overtaken \subseteq overtaken',
             \A k \in Case : Closed(k) => Closed(k)',
             mem[g].at = "resolve" => cases'[mem[g].case] # NoCase
      PROVE  Goal
  <2>1. CASE mem'[g] = mem[g]
    BY <1>a, <1>b, <2>1 DEF DecisionIsSound
  <2>2. CASE mem'[g].at \in {"idle", "check", "suspend"}
    BY <2>2
  <2>3. QED
    BY <1>b, <2>1, <2>2
<1> USE DEF rows, history
<1>1. ASSUME NEW v \in Venue, CreateVenue(v)
      PROVE  Goal
  BY <1>1, <1>a, <1>b DEF CreateVenue, Closed
<1>2. ASSUME NEW c \in Coach, UpsertProfile(c)
      PROVE  Goal
  BY <1>2, <1>a, <1>b DEF UpsertProfile, Closed
<1>3. ASSUME NEW k \in Case, NEW s \in Subject, Report(k, s)
      PROVE  Goal
  <2>1. ~Closed(k) /\ \A j \in Case : j # k => cases'[j] = cases[j]
    BY <1>3, <1>0 DEF Report, Closed, NoCase, TypeOK
  <2>2. mem[g].at = "resolve" => mem[g].case # k
    BY <1>3, <1>a DEF Report
  <2>3. mem[g].at = "resolve" => mem[g].case \in Case
    BY <1>0, WhatHandlersHold DEF CaseMem
  <2>4. \A j \in Case : Closed(j) => Closed(j)'
    BY <2>1 DEF Closed
  <2>5. mem[g].at = "resolve" => cases'[mem[g].case] # NoCase
    BY <2>1, <2>2, <2>3, <1>a
  <2>6. QED
    BY <1>3, <2>4, <2>5, <1>b DEF Report
<1>4. ASSUME NEW h \in Handler, NEW v \in Venue, NEW decision \in {"submit", "approve", "reject"},
             Decide(h, v, decision)
      PROVE  Goal
  <2>1. mem'[g] = mem[g] \/ mem'[g].at = "check"
    BY <1>4, <1>0 DEF Decide, Remember
  <2>2. QED
    BY <1>4, <2>1, <1>a, <1>b DEF Decide, Closed
<1>5. ASSUME NEW h \in Handler, CheckVenue(h)
      PROVE  Goal
  <2>1. mem[h] \in DecisionMem /\ UNCHANGED <<rows, history>>
    BY <1>5, <1>0, WhatHandlersHold DEF CheckVenue
  <2>2. CASE g = h /\ May(mem[h].decision, mem[h].venue)
    <3>1. status[mem[h].venue] \in {"DRAFT", "REJECTED", "PENDING_APPROVAL"}
      BY <2>2 DEF May, MaySubmit, MayApprove, MayReject
    <3>2. mem[h].venue \in hidden => mem[h].venue \in overtaken
      BY <2>1, <3>1 DEF IInv, RowsAreSound, Suspended, DecisionMem
    <3>3. mem[h].decision = "approve" => mem[h].venue \in submitted
      BY <2>1, <2>2 DEF IInv, RowsAreSound, May, MayApprove, DecisionMem
    <3>4. mem'[g] = [mem[h] EXCEPT !.at = "write"]
      BY <1>5, <1>0, <2>2 DEF CheckVenue, Remember
    <3>5. /\ mem'[g].at = "write" /\ mem'[g].decision = mem[h].decision
          /\ mem'[g].venue = mem[h].venue
      BY <3>4, <2>1 DEF DecisionMem
    <3>6. QED
      BY <2>1, <3>2, <3>3, <3>5 DEF DecisionIsSound
  <2>3. CASE g = h /\ ~May(mem[h].decision, mem[h].venue)
    <3>1. mem'[g].at = "idle"
      BY <1>5, <1>0, <2>3 DEF CheckVenue, Answer, Remember, Idle
    <3>2. QED
      BY <3>1
  <2>4. CASE g # h
    <3>1. mem'[g] = mem[g]
      BY <1>5, <1>0, <2>4 DEF CheckVenue, Answer, Remember
    <3>2. QED
      BY <2>1, <3>1, <1>a, <1>b DEF Closed
  <2>5. QED
    BY <2>2, <2>3, <2>4
<1>6. ASSUME NEW h \in Handler, WriteVenue(h)
      PROVE  Goal
  <2>1. mem'[g] = mem[g] \/ mem'[g].at = "idle"
    BY <1>6, <1>0 DEF WriteVenue, Answer, Remember, Idle
  <2>2. QED
    BY <1>6, <2>1, <1>a, <1>b DEF WriteVenue, Closed
<1>7. ASSUME NEW h \in Handler, NEW v \in Venue, NEW decision \in {"approve", "reject"},
             ClickVenue(h, v, decision)
      PROVE  Goal
  <2>1. mem'[g] = mem[g] \/ mem'[g].at = "check"
    BY <1>7, <1>0 DEF ClickVenue, Remember
  <2>2. QED
    BY <1>7, <2>1, <1>a, <1>b DEF ClickVenue, Closed
<1>8. ASSUME NEW h \in Handler, NEW k \in Case, NEW resolution \in {"RESOLVED", "DISMISSED"},
             CheckCase(h, k, resolution)
      PROVE  Goal
  <2>1. CASE g = h
    <3>1. mem'[g].at = "resolve" /\ mem'[g].case = k
      BY <1>8, <1>0, <2>1 DEF CheckCase, Remember
    <3>2. cases'[k] # NoCase
      BY <1>8 DEF CheckCase, Open, NoCase
    <3>3. QED
      BY <3>1, <3>2
  <2>2. CASE g # h
    <3>1. mem'[g] = mem[g]
      BY <1>8, <1>0, <2>2 DEF CheckCase, Remember
    <3>2. QED
      BY <1>8, <3>1, <1>a, <1>b DEF CheckCase, Closed
  <2>3. QED
    BY <2>1, <2>2
<1>9. ASSUME NEW h \in Handler, NEW s \in Subject, NEW suspended \in BOOLEAN,
             CheckSubject(h, s, suspended)
      PROVE  Goal
  <2>1. mem'[g] = mem[g] \/ mem'[g].at = "suspend"
    BY <1>9, <1>0 DEF CheckSubject, Remember
  <2>2. QED
    BY <1>9, <2>1, <1>a, <1>b DEF CheckSubject, Closed
<1>10. ASSUME NEW h \in Handler, ResolveCase(h)
       PROVE  Goal
  <2>1. mem[h] \in CaseMem /\ mem[h].case \in Case /\ mem[h].resolution \in {"RESOLVED", "DISMISSED"}
    BY <1>10, <1>0, WhatHandlersHold DEF ResolveCase, CaseMem
  <2>2. cases[mem[h].case] \in ModerationCase
    BY <2>1, <1>0, <1>10 DEF IInv, ReadsAreSound, TypeOK, ResolveCase
  <2>3. cases'[mem[h].case].status = mem[h].resolution
    BY <1>10, <2>1, <2>2, <1>0 DEF ResolveCase, TypeOK, ModerationCase
  <2>4. \A j \in Case : j # mem[h].case => cases'[j] = cases[j]
    BY <1>10, <1>0 DEF ResolveCase, TypeOK
  <2>5. \A j \in Case : Closed(j) => Closed(j)'
    BY <2>1, <2>3, <2>4 DEF Closed
  <2>6. CASE g = h
    <3>1. mem'[g].at = "audit" /\ mem'[g].event.on = mem[h].case
      BY <1>10, <1>0, <2>6 DEF ResolveCase, Remember
    <3>2. QED
      BY <3>1, <2>1, <2>3 DEF Closed
  <2>7. CASE g # h
    <3>1. mem'[g] = mem[g]
      BY <1>10, <1>0, <2>7 DEF ResolveCase, Remember
    <3>2. mem[g].at = "resolve" => mem[g].case \in Case
      BY <1>0, WhatHandlersHold DEF CaseMem
    <3>3. mem[g].at = "resolve" => cases'[mem[g].case] # NoCase
      BY <3>2, <2>1, <2>3, <2>4, <1>a DEF NoCase
    <3>4. QED
      BY <1>10, <3>1, <3>3, <2>5, <1>b DEF ResolveCase
  <2>8. QED
    BY <2>6, <2>7
<1>11. ASSUME NEW h \in Handler, SetSuspended(h)
       PROVE  Goal
  <2>1. mem[h].subject \in Subject
    BY <1>11, <1>0, WhatHandlersHold DEF SetSuspended, SubjectMem
  <2>2. UNCHANGED <<cases, submitted>> /\ overtaken \subseteq overtaken'
    BY <1>11 DEF SetSuspended
  <2>3. CASE g = h
    <3>1. mem'[g].at = "audit" /\ mem'[g].event.on = mem[h].subject
      BY <1>11, <1>0, <2>3 DEF SetSuspended, Remember
    <3>2. QED
      BY <3>1, <2>1, SubjectAssumption DEF Subject
  <2>4. CASE g # h
    <3>1. mem'[g] = mem[g]
      BY <1>11, <1>0, <2>4 DEF SetSuspended, Remember
    <3>2. ASSUME mem[g].at = "write"
          PROVE  mem[g].venue \in hidden' => mem[g].venue \in overtaken'
      <4>1. mem[g].venue \in Venue
        BY <3>2, <1>0, WhatHandlersHold DEF DecisionMem
      <4>2. CASE mem[g].venue = mem[h].subject
        BY <1>11, <3>2, <4>1, <4>2 DEF SetSuspended, Deciding
      <4>3. CASE mem[g].venue # mem[h].subject
        BY <1>11, <3>2, <4>3, <1>a, <2>2 DEF SetSuspended, DecisionIsSound
      <4>4. QED
        BY <4>2, <4>3
    <3>3. QED
      BY <3>1, <3>2, <2>2, <1>a DEF DecisionIsSound, Closed
  <2>5. QED
    BY <2>3, <2>4
<1>12. ASSUME NEW h \in Handler, RecordAudit(h)
       PROVE  Goal
  <2>1. mem'[g] = mem[g] \/ mem'[g].at = "idle"
    BY <1>12, <1>0 DEF RecordAudit, Answer, Remember, Idle
  <2>2. QED
    BY <1>12, <2>1, <1>a, <1>b DEF RecordAudit, Closed
<1>13. ASSUME NEW h \in Handler, Abort(h)
       PROVE  Goal
  <2>1. mem'[g] = mem[g] \/ mem'[g].at = "idle"
    BY <1>13, <1>0 DEF Abort, Answer, Remember, Idle
  <2>2. QED
    BY <1>13, <2>1, <1>a, <1>b DEF Abort, Closed
<1>14. ASSUME LoadQueue
       PROVE  Goal
  BY <1>14, <1>a, <1>b DEF LoadQueue, Closed
<1>15. CASE UNCHANGED vars
  BY <1>15, <1>a, <1>b DEF vars, Closed
<1>16. QED
  <2>1. ASSUME NEW h \in Handler, VenueStep(h)
        PROVE  Goal
    BY <2>1, <1>4, <1>5, <1>6, <1>7 DEF VenueStep
  <2>2. ASSUME NEW h \in Handler, ModerationStep(h)
        PROVE  Goal
    BY <2>2, <1>8, <1>9, <1>10, <1>11, <1>12 DEF ModerationStep
  <2>3. QED
    BY <2>1, <2>2, <1>1, <1>2, <1>3, <1>13, <1>14, <1>15 DEF Next

(* Venues and profiles change in four places only.                         *)
LEMMA StepRows == IInv /\ [Next]_vars => RowsAreSound' /\ PublicVenuesWereSubmitted'
<1> SUFFICES ASSUME IInv, [Next]_vars
             PROVE  RowsAreSound' /\ PublicVenuesWereSubmitted'
  OBVIOUS
<1> DEFINE Goal == RowsAreSound' /\ PublicVenuesWereSubmitted'
<1>0. TypeOK /\ RowsAreSound /\ PublicVenuesWereSubmitted /\ ReadsAreSound
  BY DEF IInv
<1>a. ASSUME UNCHANGED <<status, active, submitted, reinstated, hidden, overtaken>>
      PROVE  Goal
  BY <1>0, <1>a DEF RowsAreSound, PublicVenuesWereSubmitted, PublicVenue, Suspended
<1>1. ASSUME NEW v \in Venue, CreateVenue(v)
      PROVE  Goal
  BY <1>0, <1>1 DEF CreateVenue, history, TypeOK, RowsAreSound, PublicVenuesWereSubmitted,
                    PublicVenue, Suspended
<1>2. ASSUME NEW c \in Coach, UpsertProfile(c)
      PROVE  Goal
  <2>1. \A d \in Coach : active[d] = "INACTIVE" => active'[d] = "INACTIVE"
    BY <1>0, <1>2 DEF UpsertProfile, TypeOK
  <2>2. QED
    BY <1>0, <1>2, <2>1 DEF UpsertProfile, history, RowsAreSound, PublicVenuesWereSubmitted,
                            PublicVenue, Suspended, Subject
<1>3. ASSUME NEW h \in Handler, WriteVenue(h)
      PROVE  Goal
  <2>1. mem[h] \in DecisionMem /\ DecisionIsSound(mem[h])
    BY <1>0, <1>3, WhatHandlersHold DEF WriteVenue, ReadsAreSound
  <2> DEFINE w == mem[h].venue
  <2>2. /\ w \in Venue /\ mem[h].decision \in {"submit", "approve", "reject"}
        /\ w \in hidden => w \in overtaken
        /\ mem[h].decision = "approve" => w \in submitted
    BY <2>1 DEF DecisionMem, DecisionIsSound
  <2>3. /\ status'[w] = "PENDING_APPROVAL" => w \in submitted'
        /\ status'[w] = "APPROVED" => w \in submitted'
    BY <1>0, <1>3, <2>2 DEF WriteVenue, TypeOK, Outcome
  <2>4. \A v \in Venue : v # w => status'[v] = status[v]
    BY <1>0, <1>3 DEF WriteVenue, TypeOK
  <2>5. submitted \subseteq submitted' /\ UNCHANGED <<active, reinstated, hidden, overtaken>>
    BY <1>3 DEF WriteVenue
  <2>6. PublicVenuesWereSubmitted'
    BY <1>0, <2>3, <2>4, <2>5 DEF PublicVenuesWereSubmitted, PublicVenue
  <2>7. \A s \in hidden' : Suspended(s)' \/ s \in overtaken'
    BY <1>0, <2>2, <2>4, <2>5 DEF RowsAreSound, Suspended
  <2>8. QED
    BY <1>0, <2>3, <2>4, <2>5, <2>6, <2>7 DEF RowsAreSound
<1>4. ASSUME NEW h \in Handler, SetSuspended(h)
      PROVE  Goal
  <2> DEFINE s == mem[h].subject
  <2>1. s \in Subject /\ mem[h].suspended \in BOOLEAN
    BY <1>0, <1>4, WhatHandlersHold DEF SetSuspended, SubjectMem
  <2>2. \A v \in Venue : v # s => status'[v] = status[v]
    BY <1>0, <1>4 DEF SetSuspended, TypeOK
  <2>3. \A c \in Coach : c # s => active'[c] = active[c]
    BY <1>0, <1>4 DEF SetSuspended, TypeOK
  <2>4. s \in Venue => status'[s] = IF mem[h].suspended THEN "SUSPENDED" ELSE "APPROVED"
    BY <1>0, <1>4 DEF SetSuspended, TypeOK
  <2>5. s \notin Venue => active'[s] = IF mem[h].suspended THEN "INACTIVE" ELSE "ACTIVE"
    BY <1>0, <1>4, <2>1 DEF SetSuspended, TypeOK, Subject
  <2>6. /\ hidden' = IF mem[h].suspended THEN hidden \cup {s} ELSE hidden \ {s}
        /\ reinstated' = IF mem[h].suspended THEN reinstated ELSE reinstated \cup {s}
        /\ overtaken \subseteq overtaken' /\ submitted' = submitted
    BY <1>4 DEF SetSuspended
  <2>7. PublicVenuesWereSubmitted'
    BY <1>0, <2>2, <2>4, <2>6 DEF PublicVenuesWereSubmitted, PublicVenue
  <2>8. \A t \in hidden' : Suspended(t)' \/ t \in overtaken'
    <3> TAKE t \in hidden'
    <3>1. CASE t = s
      BY <2>4, <2>5, <2>6, <3>1 DEF Suspended
    <3>2. CASE t # s
      BY <1>0, <2>2, <2>3, <2>6, <3>2 DEF RowsAreSound, Suspended, Subject
    <3>3. QED
      BY <3>1, <3>2
  <2>9. hidden' \subseteq Subject
    BY <1>0, <2>1, <2>6 DEF RowsAreSound
  <2>10. \A v \in Venue : status'[v] = "PENDING_APPROVAL" => v \in submitted'
    BY <1>0, <2>2, <2>4, <2>6 DEF RowsAreSound
  <2>11. QED
    BY <2>7, <2>8, <2>9, <2>10 DEF RowsAreSound
<1>5. QED
  <2> USE DEF rows, history
  <2>1. ASSUME NEW h \in Handler, VenueStep(h)
        PROVE  Goal
    BY <2>1, <1>3, <1>a DEF VenueStep, Decide, CheckVenue, ClickVenue
  <2>2. ASSUME NEW h \in Handler, ModerationStep(h)
        PROVE  Goal
    BY <2>2, <1>4, <1>a DEF ModerationStep, CheckCase, CheckSubject, ResolveCase, RecordAudit
  <2>3. ASSUME NEW h \in Handler, Abort(h)
        PROVE  Goal
    BY <2>3, <1>a DEF Abort
  <2>4. ASSUME NEW k \in Case, NEW s \in Subject, Report(k, s)
        PROVE  Goal
    BY <2>4, <1>a DEF Report
  <2>5. CASE LoadQueue
    BY <2>5, <1>a DEF LoadQueue
  <2>6. CASE UNCHANGED vars
    BY <2>6, <1>a DEF vars
  <2>7. QED
    BY <1>1, <1>2, <2>1, <2>2, <2>3, <2>4, <2>5, <2>6 DEF Next

---------------------------------------------------------------------------
(* What is recorded stays recorded: events are never removed, and a        *)
(* handler gives up its event only to the log or to the dead.              *)
LEMMA RecordsStay ==
  ASSUME IInv, [Next]_vars, NEW event, Recorded(event)
  PROVE  Recorded(event)'
<1>0. TypeOK
  BY DEF IInv
<1>a. ASSUME audits \subseteq audits', unaudited \subseteq unaudited',
             \A g \in Handler : mem[g].at = "audit" => mem'[g] = mem[g]
      PROVE  Recorded(event)'
  BY <1>a DEF Recorded
<1>b. \A h \in Handler : mem[h] = Idle => mem[h].at # "audit"
  BY DEF Idle
<1> USE DEF rows, history
<1>1. ASSUME NEW h \in Handler, RecordAudit(h)
      PROVE  Recorded(event)'
  <2>1. mem[h].event \in audits' /\ audits \subseteq audits' /\ unaudited' = unaudited
    BY <1>1 DEF RecordAudit
  <2>2. \A g \in Handler : g # h => mem'[g] = mem[g]
    BY <1>0, <1>1 DEF RecordAudit, Answer, Remember, TypeOK
  <2>3. QED
    BY <2>1, <2>2 DEF Recorded
<1>2. ASSUME NEW h \in Handler, Abort(h)
      PROVE  Recorded(event)'
  <2>1. /\ mem[h].at = "audit" => mem[h].event.on \in unaudited'
        /\ audits' = audits /\ unaudited \subseteq unaudited'
    BY <1>2 DEF Abort
  <2>2. \A g \in Handler : g # h => mem'[g] = mem[g]
    BY <1>0, <1>2 DEF Abort, Answer, Remember, TypeOK
  <2>3. QED
    BY <2>1, <2>2 DEF Recorded
<1>3. ASSUME NEW h \in Handler, VenueStep(h)
      PROVE  Recorded(event)'
  <2>1. mem[h].at # "audit"
    BY <1>3, <1>b DEF VenueStep, Decide, CheckVenue, WriteVenue, ClickVenue
  <2>2. \A g \in Handler : g # h => mem'[g] = mem[g]
    BY <1>0, <1>3 DEF VenueStep, Decide, CheckVenue, WriteVenue, ClickVenue, Answer, Remember, TypeOK
  <2>3. UNCHANGED <<audits, unaudited>>
    BY <1>3 DEF VenueStep, Decide, CheckVenue, WriteVenue, ClickVenue
  <2>4. QED
    BY <2>1, <2>2, <2>3, <1>a
<1>4. ASSUME NEW h \in Handler, ModerationStep(h), ~RecordAudit(h)
      PROVE  Recorded(event)'
  <2>1. mem[h].at # "audit"
    BY <1>4, <1>b DEF ModerationStep, CheckCase, CheckSubject, ResolveCase, SetSuspended
  <2>2. \A g \in Handler : g # h => mem'[g] = mem[g]
    BY <1>0, <1>4 DEF ModerationStep, CheckCase, CheckSubject, ResolveCase, SetSuspended, Remember, TypeOK
  <2>3. UNCHANGED <<audits, unaudited>>
    BY <1>4 DEF ModerationStep, CheckCase, CheckSubject, ResolveCase, SetSuspended
  <2>4. QED
    BY <2>1, <2>2, <2>3, <1>a
<1>5. ASSUME UNCHANGED <<audits, mem, unaudited>>
      PROVE  Recorded(event)'
  BY <1>5, <1>a
<1>6. QED
  <2>1. ASSUME NEW v \in Venue, CreateVenue(v)
        PROVE  Recorded(event)'
    BY <2>1, <1>5 DEF CreateVenue
  <2>2. ASSUME NEW c \in Coach, UpsertProfile(c)
        PROVE  Recorded(event)'
    BY <2>2, <1>5 DEF UpsertProfile
  <2>3. ASSUME NEW k \in Case, NEW s \in Subject, Report(k, s)
        PROVE  Recorded(event)'
    BY <2>3, <1>5 DEF Report
  <2>4. CASE LoadQueue
    BY <2>4, <1>5 DEF LoadQueue
  <2>5. CASE UNCHANGED vars
    BY <2>5, <1>5 DEF vars
  <2>6. QED
    BY <1>1, <1>2, <1>3, <1>4, <2>1, <2>2, <2>3, <2>4, <2>5 DEF Next

(* A case changes only when it is opened or closed.                        *)
LEMMA CaseEffect ==
  ASSUME IInv, [Next]_vars
  PROVE  \/ cases' = cases
         \/ \E k \in Case : /\ cases[k] = NoCase /\ cases'[k].status = "OPEN"
                           /\ \A j \in Case \ {k} : cases'[j] = cases[j]
         \/ \E h \in Handler : /\ ResolveCase(h)
                              /\ mem[h].case \in Case
                              /\ mem[h].resolution \in {"RESOLVED", "DISMISSED"}
                              /\ cases'[mem[h].case].status = mem[h].resolution
                              /\ \A j \in Case \ {mem[h].case} : cases'[j] = cases[j]
<1> DEFINE Opened == \E k \in Case : /\ cases[k] = NoCase /\ cases'[k].status = "OPEN"
                                    /\ \A j \in Case \ {k} : cases'[j] = cases[j]
           Resolved == \E h \in Handler :
                         /\ ResolveCase(h)
                         /\ mem[h].case \in Case
                         /\ mem[h].resolution \in {"RESOLVED", "DISMISSED"}
                         /\ cases'[mem[h].case].status = mem[h].resolution
                         /\ \A j \in Case \ {mem[h].case} : cases'[j] = cases[j]
           Goal == cases' = cases \/ Opened \/ Resolved
<1>0. TypeOK /\ ReadsAreSound
  BY DEF IInv
<1>1. ASSUME NEW k \in Case, NEW s \in Subject, Report(k, s)
      PROVE  Opened
  BY <1>0, <1>1 DEF Report, TypeOK
<1>2. ASSUME NEW h \in Handler, ResolveCase(h)
      PROVE  Resolved
  <2>1. mem[h].case \in Case /\ mem[h].resolution \in {"RESOLVED", "DISMISSED"}
    BY <1>0, <1>2, WhatHandlersHold DEF ResolveCase, CaseMem
  <2>2. cases[mem[h].case] \in ModerationCase
    BY <2>1, <1>0, <1>2 DEF ReadsAreSound, TypeOK, ResolveCase
  <2>3. cases'[mem[h].case].status = mem[h].resolution
    BY <1>2, <2>1, <2>2, <1>0 DEF ResolveCase, TypeOK, ModerationCase
  <2>4. \A j \in Case \ {mem[h].case} : cases'[j] = cases[j]
    BY <1>2, <1>0 DEF ResolveCase, TypeOK
  <2>5. QED
    BY <1>2, <2>1, <2>3, <2>4
<1>3. QED
  <2> HIDE DEF Opened, Resolved
  <2> USE DEF rows, history
  <2>1. ASSUME NEW h \in Handler, VenueStep(h)
        PROVE  cases' = cases
    BY <2>1 DEF VenueStep, Decide, CheckVenue, WriteVenue, ClickVenue
  <2>2. ASSUME NEW h \in Handler, ModerationStep(h)
        PROVE  cases' = cases \/ ResolveCase(h)
    BY <2>2 DEF ModerationStep, CheckCase, CheckSubject, SetSuspended, RecordAudit
  <2>3. ASSUME NEW h \in Handler, Abort(h)
        PROVE  cases' = cases
    BY <2>3 DEF Abort
  <2>4. ASSUME NEW v \in Venue, CreateVenue(v)
        PROVE  cases' = cases
    BY <2>4 DEF CreateVenue
  <2>5. ASSUME NEW c \in Coach, UpsertProfile(c)
        PROVE  cases' = cases
    BY <2>5 DEF UpsertProfile
  <2>6. LoadQueue => cases' = cases
    BY DEF LoadQueue
  <2>7. UNCHANGED vars => cases' = cases
    BY DEF vars
  <2>8. Goal
    BY <1>1, <1>2, <2>1, <2>2, <2>3, <2>4, <2>5, <2>6, <2>7 DEF Next
  <2>9. QED
    BY <2>8 DEF Opened, Resolved

(* The history of suspensions and the log change with the handlers only.   *)
LEMMA LogEffect ==
  ASSUME IInv, [Next]_vars
  PROVE  /\ hidden' \subseteq hidden \/ \E h \in Handler : SetSuspended(h)
         /\ audits' = audits \/ \E h \in Handler : RecordAudit(h)
<1> USE DEF rows, history
<1>1. ASSUME NEW h \in Handler, VenueStep(h)
      PROVE  hidden' = hidden /\ audits' = audits
  BY <1>1 DEF VenueStep, Decide, CheckVenue, WriteVenue, ClickVenue
<1>2. ASSUME NEW h \in Handler, ModerationStep(h)
      PROVE  /\ hidden' = hidden \/ SetSuspended(h)
             /\ audits' = audits \/ RecordAudit(h)
  BY <1>2 DEF ModerationStep, CheckCase, CheckSubject, ResolveCase, SetSuspended, RecordAudit
<1>3. ASSUME NEW h \in Handler, Abort(h)
      PROVE  hidden' = hidden /\ audits' = audits
  BY <1>3 DEF Abort
<1>4. ASSUME NEW v \in Venue, CreateVenue(v)
      PROVE  hidden' = hidden /\ audits' = audits
  BY <1>4 DEF CreateVenue
<1>5. ASSUME NEW c \in Coach, UpsertProfile(c)
      PROVE  hidden' = hidden /\ audits' = audits
  BY <1>5 DEF UpsertProfile
<1>6. ASSUME NEW k \in Case, NEW s \in Subject, Report(k, s)
      PROVE  hidden' = hidden /\ audits' = audits
  BY <1>6 DEF Report
<1>7. LoadQueue \/ UNCHANGED vars => hidden' = hidden /\ audits' = audits
  BY DEF LoadQueue, vars
<1>8. QED
  BY <1>1, <1>2, <1>3, <1>4, <1>5, <1>6, <1>7 DEF Next

LEMMA ClosedStays ==
  ASSUME IInv, [Next]_vars, NEW k \in Case, Closed(k)
  PROVE  Closed(k)'
<1>1. cases[k] # NoCase
  BY DEF Closed, NoCase
<1>2. QED
  BY <1>1, CaseEffect DEF Closed

LEMMA StepAudits == IInv /\ [Next]_vars => AuditsAreOfClosedCases' /\ AuditsFollowDecisions'
<1> SUFFICES ASSUME IInv, [Next]_vars
             PROVE  AuditsAreOfClosedCases' /\ AuditsFollowDecisions'
  OBVIOUS
<1>0. TypeOK /\ ReadsAreSound /\ AuditsAreOfClosedCases /\ AuditsFollowDecisions
  BY DEF IInv
<1>1. ASSUME NEW k \in Case, cases'[k].status \in {"RESOLVED", "DISMISSED"}
      PROVE  Recorded([on |-> k, action |-> cases[k].status])'
  <2>1. CASE cases'[k] = cases[k]
    BY <1>0, <1>1, <2>1, RecordsStay DEF AuditsFollowDecisions, Recorded
  <2>2. ASSUME NEW h \in Handler, ResolveCase(h), mem[h].case = k, cases'[k].status = mem[h].resolution
        PROVE  Recorded([on |-> k, action |-> cases[k].status])'
    <3>1. /\ mem'[h].at = "audit"
          /\ mem'[h].event = [on |-> k, action |-> cases'[k].status]
      BY <1>0, <2>2 DEF ResolveCase, Remember, TypeOK
    <3>2. QED
      BY <3>1 DEF Recorded
  <2>3. QED
    BY <1>1, <2>1, <2>2, CaseEffect
<1>2. ASSUME NEW s \in hidden'
      PROVE  Recorded([on |-> s, action |-> "SUBJECT_SUSPENDED"])'
  <2>1. CASE s \in hidden
    BY <1>0, <2>1, RecordsStay DEF AuditsFollowDecisions
  <2>2. ASSUME NEW h \in Handler, SetSuspended(h), s \notin hidden
        PROVE  Recorded([on |-> s, action |-> "SUBJECT_SUSPENDED"])'
    <3>1. mem[h].suspended /\ mem[h].subject = s
      BY <1>2, <2>2 DEF SetSuspended
    <3>2. mem'[h].at = "audit" /\ mem'[h].event = [on |-> s, action |-> "SUBJECT_SUSPENDED"]
      BY <1>0, <2>2, <3>1 DEF SetSuspended, Remember, TypeOK
    <3>3. QED
      BY <3>2 DEF Recorded
  <2>3. QED
    BY <1>2, <2>1, <2>2, LogEffect
<1>3. ASSUME NEW event \in audits', event.on \in Case
      PROVE  Closed(event.on)'
  <2>1. Closed(event.on)
    <3>1. CASE event \in audits
      BY <1>0, <1>3, <3>1 DEF AuditsAreOfClosedCases
    <3>2. ASSUME NEW h \in Handler, RecordAudit(h), event \notin audits
          PROVE  Closed(event.on)
      BY <1>0, <1>3, <3>2 DEF RecordAudit, ReadsAreSound
    <3>3. QED
      BY <1>3, <3>1, <3>2, LogEffect
  <2>2. QED
    BY <1>3, <2>1, ClosedStays
<1>4. AuditsAreOfClosedCases'
  BY <1>3 DEF AuditsAreOfClosedCases
<1>5. \A event \in audits' : event.on \in Case => ~Open(event.on)'
  BY <1>3 DEF Closed, Open
<1>6. QED
  BY <1>1, <1>2, <1>4, <1>5 DEF AuditsFollowDecisions

---------------------------------------------------------------------------
LEMMA Invariance == Spec => []IInv
<1>1. IInv /\ [Next]_vars => IInv'
  <2> SUFFICES ASSUME IInv, [Next]_vars
               PROVE  IInv'
    OBVIOUS
  <2>1. TypeOK'
    BY StepTypeOK DEF IInv
  <2>2. QED
    BY <2>1, StepReads, StepRows, StepAudits DEF IInv
<1>2. QED
  BY <1>1, InitIInv, PTL DEF Spec

(* The rows, the handlers and the page keep their types.                   *)
THEOREM TypeCorrect == Spec => []TypeOK
<1>1. IInv => TypeOK
  BY DEF IInv
<1>2. QED
  BY <1>1, Invariance, PTL

(* For any number of venues, administrators and stale pages, no venue is   *)
(* public that was neither submitted nor reinstated (approveVenue,         *)
(* setSubjectSuspended).                                                   *)
THEOREM DraftsStayPrivate == Spec => []PublicVenuesWereSubmitted
<1>1. IInv => PublicVenuesWereSubmitted
  BY DEF IInv
<1>2. QED
  BY <1>1, Invariance, PTL

(* What is suspended stays hidden, but for a venue whose decision was read *)
(* before the suspension and written after it.                             *)
THEOREM SuspensionHides == Spec => []SuspendedStaysHidden
<1>1. IInv => SuspendedStaysHidden
  <2> SUFFICES ASSUME IInv, NEW s \in hidden, s \notin overtaken
               PROVE  ~Public(s)
    BY DEF SuspendedStaysHidden
  <2>1. Suspended(s)
    BY DEF IInv, RowsAreSound
  <2>2. QED
    BY <2>1 DEF Suspended, Public, PublicVenue, PublicCoach
<1>2. QED
  BY <1>1, Invariance, PTL

(* Decisions of moderation and their audit events match, but for events    *)
(* still to be written and those of requests that died before writing.     *)
THEOREM DecisionsAreAudited == Spec => []AuditsFollowDecisions
<1>1. IInv => AuditsFollowDecisions
  BY DEF IInv
<1>2. QED
  BY <1>1, Invariance, PTL
===============================================================================
