--------------------------- MODULE VenuePhotoManager ---------------------------
(***************************************************************************)
(* One open page that manages the photos of VenuePhotos                    *)
(* (apps/web/components/manage/venue-photo-manager.tsx), beside other      *)
(* managers of the venue who use no page modelled here.  The page shows    *)
(* what it was last given and patches that with the answers to its own     *)
(* requests; router.refresh() fetches the photos again, one refresh after  *)
(* the other (the framework's action queue, external), and may fail.  An   *)
(* answer may get lost on its way.  An upload may overlap one other        *)
(* request, for only the photo buttons look at busy.                       *)
(***************************************************************************)
EXTENDS VenuePhotos

CONSTANTS
  MaxRefreshes, \* bound on the refreshes queued at one time
  MaxRequests   \* bound on the requests of the page and of other managers

VARIABLES
  there,      \* the list of photos is on the page
  view,       \* photos: the position the page shows, None for no photo
  busy,       \* what the page waits for
  call,       \* the page's requests: the handler and the photos it is about
  refreshes,  \* refreshes that were asked for and did not start yet
  snapshot,   \* the refresh under way, if any: what it gives to the page
  requests,   \* how many requests were sent
  unseen      \* history: what the last refresh gave is not all there is, by a
              \* failure, or by a change whose answer does not come to the page

pageVars == <<there, view, busy, call, refreshes, snapshot>>
boundVars == <<requests, unseen>>
vars == <<photoVars, mem, reply, pageVars, boundVars>>

UploadCall == [kind : {"upload"}]
MoveCall   == [kind : {"move"}, photo : Photo, target : Photo, was : Position]
RemoveCall == [kind : {"remove"}, photo : Photo]
View == [Photo -> Position \cup {None}]
NoPhotos == [p \in Photo |-> None]
NoCalls == [h \in Handler |-> None]

TypeOK ==
  /\ PhotosTypeOK
  /\ there \in BOOLEAN
  /\ view \in View
  /\ busy \in Photo \cup {None, "upload"}
  /\ call \in [Handler -> {None} \cup UploadCall \cup MoveCall \cup RemoveCall]
  /\ refreshes \in 0 .. MaxRefreshes
  /\ snapshot \subseteq [there : BOOLEAN, photos : View]
  /\ requests \in 0 .. MaxRequests
  /\ unseen \in BOOLEAN

Init ==
  /\ PhotosInit
  /\ there = TRUE
  /\ view = position
  /\ busy = None
  /\ call = NoCalls
  /\ refreshes = 0
  /\ snapshot = {}
  /\ requests = 0
  /\ unseen = FALSE

---------------------------------------------------------------------------
Shown == {p \in Photo : view[p] # None}

(* The photos beside p in the list.                                        *)
Adjacent(p, t) ==
  /\ p # t
  /\ \A o \in Shown \ {p, t} :
       ~ ((view[p] < view[o] /\ view[o] < view[t]) \/ (view[t] < view[o] /\ view[o] < view[p]))

Count == requests < MaxRequests /\ requests' = requests + 1

Send(h, c, b) ==
  /\ there
  /\ call' = [call EXCEPT ![h] = c]
  /\ busy' = b
  /\ Count
  /\ UNCHANGED <<there, view, refreshes, snapshot, unseen>>

NoUpload == \A h \in Handler : call[h] # None => call[h].kind # "upload"

(* The upload button is shown as loading, and so disabled, only while busy *)
(* says "upload"; the page has one file to send at a time.                 *)
Upload(h) ==
  /\ busy # "upload" /\ NoUpload
  /\ Cardinality(Shown) < MaxPhotos
  /\ CountPhotos(h)
  /\ Send(h, [kind |-> "upload"], "upload")

Move(h, p, t) ==
  /\ busy = None
  /\ {p, t} \subseteq Shown /\ Adjacent(p, t)
  /\ FindPhoto(h, p, view[t])
  /\ Send(h, [kind |-> "move", photo |-> p, target |-> t, was |-> view[p]], p)

Remove(h, p) ==
  /\ busy = None
  /\ p \in Shown
  /\ FindPhotoToRemove(h, p)
  /\ Send(h, [kind |-> "remove", photo |-> p], p)

(* The page's list after a successful answer.                              *)
Patched(c, r) ==
  CASE c.kind = "upload" -> [view EXCEPT ![r.photo] = r.position]
    [] c.kind = "move"   -> [p \in Photo |->
                               IF view[p] = None THEN None
                               ELSE IF p = r.photo THEN r.position
                               ELSE IF p = c.target THEN c.was ELSE view[p]]
    [] c.kind = "remove" -> [view EXCEPT ![c.photo] = None]

(* Mutant: the upload's answer is trusted and nothing is fetched again.    *)
ReceiveWithoutRefresh(h) ==
  /\ call[h] # None /\ reply[h] # None
  /\ call' = [call EXCEPT ![h] = None]
  /\ reply' = [reply EXCEPT ![h] = None]
  /\ busy' = None
  /\ view' = IF reply[h] = Failed THEN view ELSE Patched(call[h], reply[h])
  /\ refreshes' = IF reply[h] = Failed \/ call[h].kind = "upload" THEN refreshes
                                                                    ELSE refreshes + 1
  /\ refreshes' <= MaxRefreshes
  /\ UNCHANGED <<photoVars, mem, there, snapshot, boundVars>>

(* The answer arrives: whatever it is, the page is no longer busy.         *)
Receive(h) ==
  /\ call[h] # None /\ reply[h] # None
  /\ call' = [call EXCEPT ![h] = None]
  /\ reply' = [reply EXCEPT ![h] = None]
  /\ busy' = None
  /\ IF reply[h] = Failed
     THEN UNCHANGED <<view, refreshes>>
     ELSE /\ refreshes < MaxRefreshes
          /\ view' = Patched(call[h], reply[h])
          /\ refreshes' = refreshes + 1
  /\ UNCHANGED <<photoVars, mem, there, snapshot, boundVars>>

(* A request that has written, and whose answer will not be an error.      *)
Wrote(h) == mem[h].at = "findAgain" \/ reply[h] \notin {None, Failed}

(* What the page shows, or is about to show.                               *)
LastGiven == IF snapshot = {} THEN {view} ELSE {s.photos : s \in snapshot}

(* No answer comes back, whatever the server did or will do: the catch,    *)
(* which neither patches nor refreshes.                                    *)
LoseAnswer(h) ==
  /\ call[h] # None
  /\ call' = [call EXCEPT ![h] = None]
  /\ busy' = None
  /\ unseen' = (unseen \/ (Wrote(h) /\ LastGiven # {position}))
  /\ UNCHANGED <<photoVars, mem, reply, there, view, refreshes, snapshot, requests>>

(* A refresh reads the photos; or it gets none, as an empty list, or with  *)
(* the list of the manager's venues missing not even that ...              *)
ReadPhotos ==
  /\ refreshes > 0 /\ snapshot = {}
  /\ refreshes' = refreshes - 1
  /\ \/ snapshot' = {[there |-> TRUE, photos |-> position]} /\ unseen' = FALSE
     \/ \E t \in BOOLEAN : snapshot' = {[there |-> t, photos |-> NoPhotos]} /\ unseen' = TRUE
  /\ UNCHANGED <<photoVars, mem, reply, there, view, busy, call, requests>>

(* ... and replaces the whole list by what it read (the effect on          *)
(* initialPhotos), or takes the list off the page with all that it knew    *)
(* of its requests.                                                        *)
ApplyPhotos ==
  /\ \E s \in snapshot :
       /\ there' = s.there
       /\ view' = s.photos
       /\ IF s.there THEN UNCHANGED <<busy, call>> ELSE busy' = None /\ call' = NoCalls
  /\ snapshot' = {}
  /\ UNCHANGED <<photoVars, mem, reply, refreshes, boundVars>>

(* Another section, or a list that has left the page, asks for a refresh.  *)
RefreshAnyway ==
  /\ refreshes < MaxRefreshes
  /\ refreshes' = refreshes + 1
  /\ UNCHANGED <<photoVars, mem, reply, there, view, busy, call, snapshot, boundVars>>

---------------------------------------------------------------------------
(* Another manager's request; and its answer, or one that was lost, which  *)
(* nobody here reads.                                                      *)
Elsewhere(h) ==
  /\ call[h] = None
  /\ Count
  /\ \/ CountPhotos(h)
     \/ \E p \in Photo, q \in Position : FindPhoto(h, p, q)
     \/ \E p \in Photo : FindPhotoToRemove(h, p)
  /\ UNCHANGED <<pageVars, unseen>>

AnsweredElsewhere(h) ==
  /\ call[h] = None /\ reply[h] # None
  /\ reply' = [reply EXCEPT ![h] = None]
  /\ UNCHANGED <<photoVars, mem, pageVars, boundVars>>

ServerStep(h) ==
  /\ PhotoStep(h)
  /\ unseen' = (unseen \/ (call[h] = None /\ position' # position))
  /\ UNCHANGED <<pageVars, requests>>

Next ==
  \/ \E h \in Handler : Upload(h) \/ Receive(h) \/ LoseAnswer(h) \/ ServerStep(h)
                          \/ Elsewhere(h) \/ AnsweredElsewhere(h)
  \/ \E h \in Handler, p, t \in Photo : Move(h, p, t)
  \/ \E h \in Handler, p \in Photo : Remove(h, p)
  \/ ReadPhotos \/ ApplyPhotos \/ RefreshAnyway

Spec == Init /\ [][Next]_vars

---------------------------------------------------------------------------
Quiet == refreshes = 0 /\ snapshot = {} /\ \A h \in Handler : call[h] = None

(* Once its requests are over and its refreshes are done, the page shows   *)
(* the photos in the order the server has them: an upload that overlaps a  *)
(* move and a refresh that read before a later answer leave nothing wrong  *)
(* behind.  The exceptions last until the next refresh that reads them: a  *)
(* refresh that failed, a change of another manager, and one of its own    *)
(* whose answer got lost.                                                  *)
PageShowsPhotos == there /\ Quiet /\ ~unseen => view = position

---------------------------------------------------------------------------
(* What the repository says of uploads, refuted by a run of its own with   *)
(* one request at a time.                                                  *)

(* An upload for a venue with fewer than MaxPhotos photos "stores a        *)
(* re-encoded webp and appends it at the next position": it does not fail. *)
UploadsBelowLimitSucceed ==
  \A h \in Handler :
    (call[h] # None /\ reply[h] = Failed) =>
      (call[h].kind = "upload" => Cardinality(Rows) >= MaxPhotos)
=============================================================================
