------------------------------ MODULE VenuePhotos ------------------------------
(***************************************************************************)
(* The photos of one venue (apps/api/src/venues/venue-photos.service.ts    *)
(* and its repository): rows with a position that is unique per venue, and *)
(* objects in the storage that nothing ever deletes.  A photo stands for   *)
(* its row and for its object.  Each query of a request is a step; the     *)
(* swap is a transaction at READ COMMITTED, two reads and a commit that    *)
(* fails as a whole.  Alternative texts are left out.  VenuePhotoManager   *)
(* adds the page that sends the requests and holds the specification.      *)
(***************************************************************************)
EXTENDS FiniteSets, Integers

CONSTANTS
  Photo,     \* photos that may come to exist
  Handler,   \* API requests in flight at one time
  None,      \* NULL
  MaxPhotos  \* MAX_VENUE_PHOTOS

ASSUME PhotosAssumption ==
  /\ IsFiniteSet(Photo)
  /\ MaxPhotos \in Nat \ {0}
  /\ None \notin Photo /\ None \notin Int

VARIABLES
  position,  \* venue_photos.position, None without a row
  stored,    \* photos whose object was put into the storage
  mem,       \* what each request in flight remembers
  reply      \* the outcome a finished request hands to its caller

photoVars == <<position, stored>>

Position == 0 .. MaxPhotos - 1
Rows == {p \in Photo : position[p] # None}

Idle == [at |-> "idle"]
PutMem    == [at : {"putObject"}, position : Position]
CreateMem == [at : {"createRow"}, photo : Photo, position : Position]
FoundMem  == [at : {"listSiblings", "move"}, photo : Photo, to : Position]
SwapMem   == [at : {"readFirst", "readSecond", "commitSwap"}, photo : Photo, other : Photo,
              first : Position \cup {None}, second : Position \cup {None}]
RowMem    == [at : {"findAgain", "deleteRow"}, photo : Photo]
PhotoMem == {Idle} \cup PutMem \cup CreateMem \cup FoundMem \cup SwapMem \cup RowMem

Failed == [kind |-> "failed"]
Deleted == [kind |-> "deleted"]
Answered(p, q) == [kind |-> "photo", photo |-> p, position |-> q]
Answers == {Failed, Deleted} \cup [kind : {"photo"}, photo : Photo, position : Position]
Reply == {None} \cup Answers

ASSUME AnswerAssumption == None \notin Answers

PhotosTypeOK ==
  /\ position \in [Photo -> Position \cup {None}]
  /\ stored \subseteq Photo
  /\ mem \in [Handler -> PhotoMem]
  /\ reply \in [Handler -> Reply]

---------------------------------------------------------------------------
Remember(h, r) == mem' = [mem EXCEPT ![h] = r]
Answer(h, r) == Remember(h, Idle) /\ reply' = [reply EXCEPT ![h] = r]

(* A handler takes a new request once its last answer was taken.           *)
Free(h) == mem[h] = Idle /\ reply[h] = None

PhotosInit ==
  /\ position = [p \in Photo |-> None]
  /\ stored = {}
  /\ mem = [h \in Handler |-> Idle]
  /\ reply = [h \in Handler |-> None]

---------------------------------------------------------------------------
(* addPhoto *)

CountPhotos(h) ==
  /\ Free(h)
  /\ IF Cardinality(Rows) < MaxPhotos
     THEN Remember(h, [at |-> "putObject", position |-> Cardinality(Rows)]) /\ UNCHANGED reply
     ELSE Answer(h, Failed)
  /\ UNCHANGED photoVars

(* The object goes in under a fresh random key.                            *)
PutObject(h, p) ==
  /\ mem[h].at = "putObject"
  /\ p \notin stored
  /\ stored' = stored \cup {p}
  /\ Remember(h, [at |-> "createRow", photo |-> p, position |-> mem[h].position])
  /\ UNCHANGED <<position, reply>>

(* Mutant: the initial design without a unique (venueId, position).        *)
TakenByNobody(q, moving) == FALSE

(* Unique (venueId, position): another row than those moving has q.        *)
Taken(q, moving) == \E p \in Rows \ moving : position[p] = q

(* create: on the unique conflict the object stays behind without a row.   *)
CreateRow(h) ==
  /\ mem[h].at = "createRow"
  /\ LET p == mem[h].photo
         q == mem[h].position
     IN IF Taken(q, {p})
        THEN Answer(h, Failed) /\ UNCHANGED position
        ELSE /\ position' = [position EXCEPT ![p] = q]
             /\ Answer(h, Answered(p, q))
  /\ UNCHANGED stored

---------------------------------------------------------------------------
(* updatePhoto *)

(* requireOwnPhoto, for a new position q.                                  *)
FindPhoto(h, p, q) ==
  /\ Free(h)
  /\ IF p \notin Rows
     THEN Answer(h, Failed)
     ELSE /\ Remember(h, IF q = position[p] THEN [at |-> "findAgain", photo |-> p]
                         ELSE [at |-> "listSiblings", photo |-> p, to |-> q])
          /\ UNCHANGED reply
  /\ UNCHANGED photoVars

(* An occupied position is swapped with, a free one moved to.              *)
ListSiblings(h) ==
  /\ mem[h].at = "listSiblings"
  /\ \/ \E o \in Rows :
          /\ position[o] = mem[h].to
          /\ Remember(h, [at |-> "readFirst", photo |-> mem[h].photo, other |-> o,
                          first |-> None, second |-> None])
     \/ /\ ~Taken(mem[h].to, {})
        /\ Remember(h, [mem[h] EXCEPT !.at = "move"])
  /\ UNCHANGED <<photoVars, reply>>

(* findUniqueOrThrow of both photos.                                       *)
ReadFirst(h) ==
  /\ mem[h].at = "readFirst"
  /\ IF mem[h].photo \in Rows
     THEN /\ Remember(h, [mem[h] EXCEPT !.at = "readSecond", !.first = position[mem[h].photo]])
          /\ UNCHANGED reply
     ELSE Answer(h, Failed)
  /\ UNCHANGED photoVars

ReadSecond(h) ==
  /\ mem[h].at = "readSecond"
  /\ IF mem[h].other \in Rows
     THEN /\ Remember(h, [mem[h] EXCEPT !.at = "commitSwap", !.second = position[mem[h].other]])
          /\ UNCHANGED reply
     ELSE Answer(h, Failed)
  /\ UNCHANGED photoVars

(* The three updates, with -1 in between: each must find its row and its   *)
(* position free, or all of them are rolled back.                          *)
Swappable(m) ==
  /\ m.photo \in Rows /\ m.other \in Rows
  /\ ~Taken(m.first, {m.photo, m.other}) /\ ~Taken(m.second, {m.photo, m.other})
  /\ m.photo # m.other => m.first # m.second

Swapped(m) == [position EXCEPT ![m.other] = m.first, ![m.photo] = m.second]

(* swapPositions commits; the response is read afterwards.                 *)
CommitSwap(h) ==
  /\ mem[h].at = "commitSwap"
  /\ IF Swappable(mem[h])
     THEN /\ position' = Swapped(mem[h])
          /\ Remember(h, [at |-> "findAgain", photo |-> mem[h].photo])
          /\ UNCHANGED reply
     ELSE Answer(h, Failed) /\ UNCHANGED position
  /\ UNCHANGED stored

MovePhoto(h) ==
  /\ mem[h].at = "move"
  /\ LET p == mem[h].photo
         q == mem[h].to
     IN IF p \in Rows /\ ~Taken(q, {p})
        THEN /\ position' = [position EXCEPT ![p] = q]
             /\ Remember(h, [at |-> "findAgain", photo |-> p])
             /\ UNCHANGED reply
        ELSE Answer(h, Failed) /\ UNCHANGED position
  /\ UNCHANGED stored

(* The row as it is by now; a row deleted meanwhile is answered as it was  *)
(* when it was found, whose position no longer matters.                    *)
FindAgain(h) ==
  /\ mem[h].at = "findAgain"
  /\ LET p == mem[h].photo
     IN \/ p \in Rows /\ Answer(h, Answered(p, position[p]))
        \/ p \notin Rows /\ \E q \in Position : Answer(h, Answered(p, q))
  /\ UNCHANGED photoVars

---------------------------------------------------------------------------
(* removePhoto *)

FindPhotoToRemove(h, p) ==
  /\ Free(h)
  /\ IF p \in Rows
     THEN Remember(h, [at |-> "deleteRow", photo |-> p]) /\ UNCHANGED reply
     ELSE Answer(h, Failed)
  /\ UNCHANGED photoVars

DeleteRow(h) ==
  /\ mem[h].at = "deleteRow"
  /\ position' = [position EXCEPT ![mem[h].photo] = None]
  /\ Answer(h, IF mem[h].photo \in Rows THEN Deleted ELSE Failed)
  /\ UNCHANGED stored

PhotoStep(h) ==
  \/ \E p \in Photo : PutObject(h, p)
  \/ CreateRow(h) \/ ListSiblings(h) \/ ReadFirst(h) \/ ReadSecond(h) \/ CommitSwap(h)
  \/ MovePhoto(h) \/ FindAgain(h) \/ DeleteRow(h)

---------------------------------------------------------------------------
(* However uploads, swaps, moves and deletions overlap, no two photos are  *)
(* at one position and none is at the -1 of a half-done swap: so there are *)
(* never more than MaxPhotos although an upload counts long before it      *)
(* inserts.                                                                *)
PhotosInOrder ==
  /\ \A p \in Rows : position[p] \in Position
  /\ \A p, q \in Rows : position[p] = position[q] => p = q
  /\ Cardinality(Rows) <= MaxPhotos
=============================================================================
