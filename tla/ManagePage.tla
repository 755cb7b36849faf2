------------------------------ MODULE ManagePage ------------------------------
(***************************************************************************)
(* One manager's open page for a venue (apps/web/app/manage/page.tsx): the *)
(* weekly hours and closures of a court, the venue's promotions and its    *)
(* amenities, beside the photos of VenuePhotoManager.  The page is loaded  *)
(* by a server component, and loaded again by every router.refresh(); a    *)
(* part whose request fails is replaced by an empty fallback.  The         *)
(* sections share nothing but those refreshes, so a behaviour follows one  *)
(* section, and a refresh asked for by another may come at any time.       *)
(***************************************************************************)
EXTENDS VenuePhotoManager
SeqExt == INSTANCE SequencesExt

CONSTANTS
  Day,           \* days of the week
  EndOfDay,      \* 24:00, in steps of some minutes after 00:00
  DefaultOpens,  \* 08:00
  DefaultCloses, \* 22:00
  Closure,       \* windows a manager may close
  Promotion,     \* identities of promotions
  Amenity,       \* amenities of the catalogue that a venue may have
  MaxEdits,      \* bound on the edits of windows and boxes, and on the refreshes
                 \* asked for by other sections
  MaxAsks        \* bound on the requests of a section other than the photos

ASSUME ManageAssumption ==
  /\ EndOfDay \in Nat /\ DefaultOpens \in 0 .. EndOfDay /\ DefaultCloses \in 0 .. EndOfDay
  /\ Promotion \cap {"hours", "closures", "amenities", "overtaken"} = {}

VARIABLES
  section,  \* the section this behaviour is about
  venue,    \* the venue's rows: hours, closures, promotions, amenities
  page,     \* whether the section's components are there, and what they show
  request,  \* the request a component waits for, if any
  others,   \* requests nobody here waits for: of components that have left
            \* the page, and of other managers
  loading,  \* the load under way, if any: what it has read and what failed
  edits,    \* how many edits were made, and refreshes asked for elsewhere
  touched,  \* history: what the manager changed or took out by hand
  dirty,    \* history: edited since the last save was sent, or it failed
  removed,  \* history: a window was removed since the editor appeared
  twins,    \* history: a window was added after one was removed
  missed    \* history: what changed at the venue unseen by the page

historyVars == <<touched, dirty, removed, twins, missed>>
workVars == <<venue, page, request, others, loading, edits, historyVars>>
manageVars == <<vars, section, workVars>>

(* The parts of a load that a section depends on, besides the list of the  *)
(* manager's venues.                                                       *)
Parts == [photos     |-> {},
          hours      |-> {"schedule"},
          closures   |-> {"schedule"},
          promotions |-> {"promotions"},
          amenities  |-> {"catalog", "amenities"}]

(* The rows of a table with the save that wrote them, which is their       *)
(* identity.                                                               *)
Written(values, n) == {[what |-> v, save |-> n] : v \in values}
Values(rows) == {row.what : row \in rows}

(* What a row of court_operating_hours says, and a row of the editor.  The *)
(* editor's rows are known by their place in its list.                     *)
Hours(w) == [day |-> w.day, opens |-> w.opens, closes |-> w.closes]
HoursOf(windows) == {Hours(windows[i]) : i \in DOMAIN windows}

DefaultWindow(d) == [day |-> d, opens |-> DefaultOpens, closes |-> DefaultCloses]

NoPromotions == [q \in Promotion |-> "none"]
Existing == {q \in Promotion : venue.promotions[q] # "none"}

(* sortedWindows accepts the windows of a save: each is a window, and no   *)
(* two of a day overlap.                                                   *)
Acceptable(windows) ==
  /\ \A i \in DOMAIN windows : windows[i].opens < windows[i].closes
  /\ \A i, j \in DOMAIN windows :
       (i < j /\ windows[i].day = windows[j].day) =>
         (windows[i].closes <= windows[j].opens \/ windows[j].closes <= windows[i].opens)

CountEdit == edits < MaxEdits /\ edits' = edits + 1
CountAsk == requests < MaxAsks /\ requests' = requests + 1

---------------------------------------------------------------------------
(* Loading the page *)

(* load: every part may fail; without the list of venues there is no       *)
(* section at all.                                                         *)
Loads == {[failed |-> f, venue |-> venue] : f \in (SUBSET Parts[section]) \cup {{"venues"}}}

(* The fallbacks: a court without its schedule has no editor.              *)
There(l) == l.failed \cap {"venues", "schedule"} = {}
LoadedPromotions(l) == IF "promotions" \in l.failed THEN NoPromotions ELSE l.venue.promotions
LoadedCatalog(l) == IF "catalog" \in l.failed THEN {} ELSE Amenity
LoadedAmenities(l) == IF "amenities" \in l.failed THEN {} ELSE Values(l.venue.amenities)

(* editableWindows: one editor row per window, known by the row's id.      *)
EditableWindows(hours) ==
  LET rows == SeqExt!SetToSeq(hours)
  IN [i \in DOMAIN rows |->
        [key |-> [kind |-> "row", row |-> rows[i]],
         day |-> rows[i].what.day, opens |-> rows[i].what.opens, closes |-> rows[i].what.closes]]

BlankPage == [there |-> FALSE, windows |-> <<>>, closures |-> {}, items |-> NoPromotions,
              options |-> {}, boxes |-> {}]

(* A component on the page already keeps its state, whatever it is given;  *)
(* an amenity that was offered already keeps its box.                      *)
Render(l) ==
  IF There(l)
  THEN [there    |-> TRUE,
        windows  |-> IF page.there THEN page.windows ELSE EditableWindows(l.venue.hours),
        closures |-> l.venue.closures,
        items    |-> IF page.there THEN page.items ELSE LoadedPromotions(l),
        options  |-> LoadedCatalog(l),
        boxes    |-> {a \in LoadedCatalog(l) :
                        IF a \in page.options THEN a \in page.boxes ELSE a \in LoadedAmenities(l)}]
  ELSE BlankPage

(* The components of the section are about to appear.                      *)
Fresh == ~page.there \/ (section = "amenities" /\ page.options = {})

(* What a load no longer tells, or never told, about the venue.            *)
Stale(l) ==
  (IF Values(l.venue.hours) # Values(venue.hours) THEN {"hours"} ELSE {}) \cup
  (IF l.venue.closures # venue.closures THEN {"closures"} ELSE {}) \cup
  (IF LoadedCatalog(l) = {} \/ LoadedAmenities(l) # Values(venue.amenities)
   THEN {"amenities"} ELSE {}) \cup
  {q \in Promotion : LoadedPromotions(l)[q] # venue.promotions[q]}

(* What the page still misses after it was given load l.  A save under way *)
(* whose boxes are replaced is "overtaken": it holds what was shown before.*)
MissedWith(l) ==
  IF Fresh \/ (section = "amenities" /\ LoadedCatalog(l) = {})
  THEN Stale(l) \cup IF request = {} THEN {} ELSE {"overtaken"}
  ELSE (missed \ {"closures"}) \cup (Stale(l) \cap {"closures"})

(* The venue when the page is first loaded, and the first load.            *)
ManageInit ==
  /\ Init
  /\ section \in DOMAIN Parts
  /\ \E d \in Day, some, open \in BOOLEAN, q \in Promotion :
       venue = [hours      |-> IF section = "hours" /\ some
                               THEN Written({DefaultWindow(d)}, 0) ELSE {},
                closures   |-> {},
                promotions |-> IF section = "promotions" /\ some
                               THEN [NoPromotions EXCEPT ![q] = IF open THEN "active" ELSE "inactive"]
                               ELSE NoPromotions,
                amenities  |-> IF section = "amenities" /\ some THEN Written(Amenity, 0) ELSE {}]
  /\ page = BlankPage
  /\ request = {}
  /\ others = {}
  /\ IF section = "photos" THEN loading = {} ELSE \E l \in Loads : loading = {l}
  /\ edits = 0
  /\ touched = {}
  /\ dirty = FALSE
  /\ removed = FALSE
  /\ twins = FALSE
  /\ missed = {}

ReadPage ==
  /\ refreshes > 0 /\ loading = {}
  /\ refreshes' = refreshes - 1
  /\ \E l \in Loads : loading' = {l}
  /\ UNCHANGED <<requests, venue, page, request, others, edits, historyVars>>

(* A component that leaves the page leaves its request behind.             *)
RenderPage ==
  /\ \E l \in loading :
       /\ page' = Render(l)
       /\ missed' = MissedWith(l)
       /\ IF There(l)
          THEN UNCHANGED <<request, others>>
          ELSE /\ request' = {}
               /\ others' = others \cup {r \in request : r.at \in {"sent", "writing"}}
       /\ IF Fresh \/ ~There(l)
          THEN dirty' = FALSE /\ removed' = FALSE /\ twins' = FALSE
          ELSE UNCHANGED <<dirty, removed, twins>>
  /\ loading' = {}
  /\ UNCHANGED <<refreshes, requests, venue, edits, touched>>

---------------------------------------------------------------------------
(* Editing by hand: the inputs stay enabled while a request is under way   *)

Edit(p, t) ==
  /\ CountEdit
  /\ page' = p
  /\ touched' = touched \cup t
  /\ dirty' = TRUE
  /\ UNCHANGED <<refreshes, requests, venue, request, others, loading, missed>>

(* updateWindow and Remove find a row by its key.                          *)
UpdateWindow(windows, key, field, time) ==
  [j \in DOMAIN windows |->
     IF windows[j].key = key THEN [windows[j] EXCEPT ![field] = time] ELSE windows[j]]

RemoveWindows(windows, key) ==
  LET kept == {j \in DOMAIN windows : windows[j].key # key} IN [j \in kept |-> windows[j]]

TypeTime(i, field, time) ==
  /\ section = "hours" /\ i \in DOMAIN page.windows
  /\ page.windows[i][field] # time
  /\ Edit([page EXCEPT !.windows = UpdateWindow(@, @[i].key, field, time)], {Hours(page.windows[i])})
  /\ UNCHANGED <<removed, twins>>

RemoveWindow(i) ==
  /\ section = "hours" /\ i \in DOMAIN page.windows
  /\ Edit([page EXCEPT !.windows = RemoveWindows(@, @[i].key)], {Hours(page.windows[i])})
  /\ removed' = TRUE
  /\ UNCHANGED twins

NewWindow(d, number) == [key |-> [kind |-> "new", day |-> d, number |-> number],
                         day |-> d, opens |-> DefaultOpens, closes |-> DefaultCloses]

(* The place behind all others.                                            *)
LastPlace(windows, n) ==
  (\A i \in DOMAIN windows : i < n) /\ (n > 1 => n - 1 \in DOMAIN windows)

AppendWindow(windows, n, w) == [i \in DOMAIN windows \cup {n} |-> IF i = n THEN w ELSE windows[i]]

(* Mutant: a new row is known by its day only.                             *)
AddWindowOfDay(n, d) ==
  /\ section = "hours" /\ page.there /\ LastPlace(page.windows, n)
  /\ Edit([page EXCEPT !.windows = AppendWindow(@, n, NewWindow(d, 0))], {})
  /\ twins' = (twins \/ removed)
  /\ UNCHANGED removed

(* addWindow: the key of a new row counts the rows there are, so that one  *)
(* that is added after another was removed may get a key that is in use.   *)
AddWindow(n, d) ==
  /\ section = "hours" /\ page.there /\ LastPlace(page.windows, n)
  /\ Edit([page EXCEPT !.windows = AppendWindow(@, n, NewWindow(d, Cardinality(DOMAIN @)))], {})
  /\ twins' = (twins \/ removed)
  /\ UNCHANGED removed

TickAmenity(a) ==
  /\ section = "amenities" /\ a \in page.options
  /\ IF a \in page.boxes THEN Edit([page EXCEPT !.boxes = @ \ {a}], {a})
                         ELSE Edit([page EXCEPT !.boxes = @ \cup {a}], {})
  /\ UNCHANGED <<removed, twins>>

---------------------------------------------------------------------------
(* Requests: every button that sends one is disabled by pending            *)

NewRequest(kind, what) ==
  [kind |-> kind, what |-> what, save |-> requests + 1, at |-> "sent", seen |-> {}, about |-> {}]

Ask(kind, what) ==
  /\ page.there /\ request = {}
  /\ request' = {NewRequest(kind, what)}
  /\ missed' = missed \ {"overtaken"}
  /\ CountAsk
  /\ UNCHANGED <<refreshes, venue, page, others, loading, edits, touched, removed, twins>>

(* saveHours: the browser checks the form, not that a window closes after  *)
(* it opens.                                                               *)
SaveHours ==
  /\ section = "hours"
  /\ Ask("hours", [i \in DOMAIN page.windows |-> Hours(page.windows[i])])
  /\ dirty' = FALSE

AddClosure(c) ==
  /\ section = "closures"
  /\ Ask("addClosure", c)
  /\ UNCHANGED dirty

DeleteClosure(c) ==
  /\ section = "closures" /\ c \in page.closures
  /\ Ask("deleteClosure", c)
  /\ UNCHANGED dirty

(* create: the server picks the identity of the promotion.                 *)
AddPromotion ==
  /\ section = "promotions" /\ Promotion \ Existing # {}
  /\ Ask("create", {})
  /\ UNCHANGED dirty

Deactivate(q) ==
  /\ section = "promotions" /\ page.items[q] = "active"
  /\ Ask("deactivate", {q})
  /\ UNCHANGED dirty

SaveAmenities ==
  /\ section = "amenities"
  /\ Ask("amenities", page.boxes)
  /\ dirty' = FALSE

---------------------------------------------------------------------------
(* The server: a handler's transaction as one step, or as two where it     *)
(* replaces rows, at READ COMMITTED and without a lock                     *)

Replacing == {"hours", "amenities"}

RowsFor(r) == IF r.kind = "hours" THEN venue.hours ELSE venue.amenities

(* The rows written since r deleted those it saw.                          *)
Kept(r) == RowsFor(r) \ r.seen

(* deleteMany, for what the service accepts.                               *)
Deletes(r) ==
  /\ r.kind \in Replacing /\ r.at = "sent"
  /\ r.kind = "hours" => Acceptable(r.what)

Deleting(r) == [r EXCEPT !.at = "writing", !.seen = RowsFor(r)]

(* Mutant: the rows of the weekly hours stay when others are written.      *)
ReplaceHoursOnTop(r) == [venue EXCEPT !.hours = @ \cup Written(HoursOf(r.what), r.save)]

(* replaceOperatingHours: createMany beside the rows that were kept.       *)
ReplaceHours(r) == [venue EXCEPT !.hours = Kept(r) \cup Written(HoursOf(r.what), r.save)]

(* (courtId, dayOfWeek, opensMinute) is unique.                            *)
SameKey(r) ==
  \E row \in Kept(r), w \in HoursOf(r.what) : row.what.day = w.day /\ row.what.opens = w.opens

(* createPromotion: a new row is active.                                   *)
CreatePromotion(q) == [venue EXCEPT !.promotions[q] = "active"]

DeactivatePromotion(q) == [venue EXCEPT !.promotions[q] = "inactive"]

(* setVenueAmenities: createMany skips the rows there are; resolveIds      *)
(* finds every key the page offers.                                        *)
SetVenueAmenities(r) ==
  [venue EXCEPT !.amenities = Kept(r) \cup Written(r.what \ Values(Kept(r)), r.save)]

(* The outcomes of a request that is not refused: the venue afterwards and *)
(* the promotions it was about.                                            *)
Outcome(v, about) == [venue |-> v, about |-> about]

Outcomes(r) ==
  CASE r.kind = "hours"         -> IF SameKey(r) THEN {} ELSE {Outcome(ReplaceHours(r), {})}
    [] r.kind = "addClosure"    -> {Outcome([venue EXCEPT !.closures = @ \cup {r.what}], {})}
    [] r.kind = "deleteClosure" -> IF r.what \in venue.closures
                                   THEN {Outcome([venue EXCEPT !.closures = @ \ {r.what}], {})} ELSE {}
    [] r.kind = "create"        -> {Outcome(CreatePromotion(q), {q}) : q \in Promotion \ Existing}
    [] r.kind = "deactivate"    -> {Outcome(DeactivatePromotion(q), {q}) : q \in r.what}
    [] r.kind = "amenities"     -> {Outcome(SetVenueAmenities(r), {})}

Commits(r) == r.at = IF r.kind \in Replacing THEN "writing" ELSE "sent"

(* What a change of the venue is a change of.                              *)
Changed(v) ==
  (IF Values(v.hours) # Values(venue.hours) THEN {"hours"} ELSE {}) \cup
  (IF v.closures # venue.closures THEN {"closures"} ELSE {}) \cup
  (IF Values(v.amenities) # Values(venue.amenities) THEN {"amenities"} ELSE {}) \cup
  {q \in Promotion : v.promotions[q] # venue.promotions[q]}

(* What the page misses after its own request r had outcome o: it knows    *)
(* the hours and the amenities it sent, but not what another save kept     *)
(* beside them; a promotion it learns from the answer, and a closure from  *)
(* the load that follows the answer.                                       *)
MissedAfter(r, o, arrives) ==
  CASE "overtaken" \in missed -> missed \cup {r.kind}
    [] "overtaken" \notin missed /\ r.kind \in Replacing ->
         IF Kept(r) = {} THEN missed \ {r.kind} ELSE missed \cup {r.kind}
    [] OTHER -> IF arrives THEN missed \ o.about ELSE missed \cup Changed(o.venue) \cup o.about

BeginReplace(r) ==
  /\ Deletes(r)
  /\ request' = {Deleting(r)}
  /\ UNCHANGED <<refreshes, requests, venue, page, others, loading, edits, historyVars>>

(* Commit; the answer may be lost on its way.                              *)
Commit(r) ==
  /\ Commits(r)
  /\ \E o \in Outcomes(r), arrives \in BOOLEAN :
       /\ venue' = o.venue
       /\ request' = {[r EXCEPT !.at = IF arrives THEN "saved" ELSE "failed", !.about = o.about]}
       /\ missed' = MissedAfter(r, o, arrives)
  /\ UNCHANGED <<refreshes, requests, page, others, loading, edits, touched, dirty, removed, twins>>

(* A form the server does not accept, a role that was lost, a booking in   *)
(* the way of a closure, a transaction that is rolled back, no network.    *)
Refuse(r) ==
  /\ r.at \in {"sent", "writing"}
  /\ request' = {[r EXCEPT !.at = "failed"]}
  /\ UNCHANGED <<refreshes, requests, venue, page, others, loading, edits, historyVars>>

(* The page's list of promotions is patched by an answer.                  *)
PatchItems(r) ==
  [page EXCEPT !.items = [q \in Promotion |->
     IF r.kind = "create" /\ q \in r.about THEN "active"
     ELSE IF r.kind = "deactivate" /\ q \in r.about THEN "inactive" ELSE @[q]]]

(* The answer: the page is loaded again unless it is an error.             *)
TakeAnswer(r) ==
  /\ r.at \in {"saved", "failed"}
  /\ request' = {}
  /\ IF r.at = "failed"
     THEN dirty' = TRUE /\ UNCHANGED <<page, refreshes, missed>>
     ELSE /\ refreshes < MaxRefreshes
          /\ refreshes' = refreshes + 1
          /\ page' = PatchItems(r)
          /\ missed' = missed \ {"closures"}
          /\ UNCHANGED dirty
  /\ UNCHANGED <<requests, venue, others, loading, edits, touched, removed, twins>>

---------------------------------------------------------------------------
(* Everything else that happens                                            *)

(* Another section of the page, or its shell, asks for a refresh.          *)
RefreshOtherwise ==
  /\ refreshes < MaxRefreshes
  /\ refreshes' = refreshes + 1
  /\ CountEdit
  /\ UNCHANGED <<requests, venue, page, request, others, loading, historyVars>>

(* Another manager sends a request, to replace rows by none or by the      *)
(* default window of a day or all amenities (a bound).                     *)
AskElsewhere(kind, what) == others' = others \cup {NewRequest(kind, what)}

ManageElsewhere ==
  /\ CountAsk
  /\ \/ section = "hours" /\ AskElsewhere("hours", <<>>)
     \/ section = "hours" /\ \E d \in Day : AskElsewhere("hours", <<DefaultWindow(d)>>)
     \/ section = "closures" /\ \E c \in Closure :
          AskElsewhere("addClosure", c) \/ AskElsewhere("deleteClosure", c)
     \/ section = "promotions" /\ AskElsewhere("create", {})
     \/ section = "promotions" /\ \E q \in Existing : AskElsewhere("deactivate", {q})
     \/ section = "amenities" /\ \E s \in {{}, Amenity} : AskElsewhere("amenities", s)
  /\ UNCHANGED <<refreshes, venue, page, request, loading, edits, historyVars>>

(* It goes the same way as the page's own, and nobody here is told.        *)
BeginElsewhere(r) ==
  /\ Deletes(r)
  /\ others' = (others \ {r}) \cup {Deleting(r)}
  /\ UNCHANGED <<refreshes, requests, venue, page, request, loading, edits, historyVars>>

CommitElsewhere(r) ==
  /\ Commits(r)
  /\ \E o \in Outcomes(r) : venue' = o.venue /\ missed' = missed \cup Changed(o.venue)
  /\ others' = others \ {r}
  /\ UNCHANGED <<refreshes, requests, page, request, loading, edits, touched, dirty, removed, twins>>

ManageNext ==
  \/ section = "photos" /\ Next /\ UNCHANGED <<section, workVars>>
  \/ /\ section # "photos"
     /\ \/ ReadPage \/ RenderPage \/ RefreshOtherwise
        \/ \E n \in 1 .. MaxEdits + 1 :
             \/ \E d \in Day : AddWindow(n, d)
             \/ RemoveWindow(n)
             \/ \E time \in 0 .. EndOfDay - 1 : TypeTime(n, "opens", time)
             \/ \E time \in 1 .. EndOfDay : TypeTime(n, "closes", time)
        \/ \E a \in Amenity : TickAmenity(a)
        \/ SaveHours \/ SaveAmenities \/ AddPromotion
        \/ \E c \in Closure : AddClosure(c) \/ DeleteClosure(c)
        \/ \E q \in Promotion : Deactivate(q)
        \/ \E r \in request : BeginReplace(r) \/ Commit(r) \/ Refuse(r) \/ TakeAnswer(r)
        \/ \E r \in others : BeginElsewhere(r) \/ CommitElsewhere(r)
        \/ ManageElsewhere
     /\ UNCHANGED <<section, photoVars, mem, reply, there, view, busy, call, snapshot, unseen>>

ManageSpec == ManageInit /\ [][ManageNext]_manageVars

---------------------------------------------------------------------------
ManageQuiet == request = {} /\ loading = {} /\ refreshes = 0

(* Once its request is answered and the loads are done, a section shows    *)
(* what the venue has, whatever order the answers, the loads and the       *)
(* edits came in, except for what the page has no way to know: a change    *)
(* somebody else made, rows another save left beside its own, an answer    *)
(* that got lost, or a load that fell back.                                *)
(* A promotion shown as inactive is inactive in any case.                  *)
WorkspaceShowsTheVenue ==
  page.there =>
    /\ ManageQuiet =>
         /\ "hours" \notin missed /\ ~dirty => Values(venue.hours) = HoursOf(page.windows)
         /\ "closures" \notin missed => venue.closures = page.closures
         /\ "amenities" \notin missed /\ ~dirty => Values(venue.amenities) = page.boxes
         /\ \A q \in Promotion \ missed : page.items[q] = venue.promotions[q]
    /\ \A q \in Promotion : page.items[q] = "inactive" => venue.promotions[q] = "inactive"

(* What leaves the venue by a save of this page was changed or taken out   *)
(* by hand on it: an edit of one window never takes another along.  The    *)
(* exceptions are those of WorkspaceShowsTheVenue, and windows that were   *)
(* added after one was removed, which may share a key.                     *)
NothingLeavesUnasked ==
  [][\A r \in request : Commit(r) =>
       /\ r.kind = "hours" =>
            "hours" \in missed \/ twins \/ Values(venue.hours) \ Values(venue'.hours) \subseteq touched
       /\ r.kind = "amenities" =>
            \/ missed \cap {"amenities", "overtaken"} # {}
            \/ Values(venue.amenities) \ Values(venue'.amenities) \subseteq touched
    ]_manageVars
=============================================================================
