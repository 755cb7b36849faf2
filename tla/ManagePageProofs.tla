---------------------------- MODULE ManagePageProofs ----------------------------
(* Proofs about the page that manages a venue, over the photo routes of    *)
(* VenuePhotos, the page of VenuePhotoManager and the other sections of    *)
(* ManagePage, for every value of their constants.                         *)
EXTENDS ManagePage, FiniteSetTheorems, TLAPS

Distinct == \A p, q \in Rows : position[p] = position[q] => p = q

IInv == PhotosTypeOK /\ Distinct

(* Positions that are distinct and below MaxPhotos number the photos.      *)
LEMMA RowsAreFew ==
  ASSUME PhotosTypeOK
  PROVE  /\ IsFiniteSet(Rows) /\ Cardinality(Rows) \in Nat
         /\ Distinct => Cardinality(Rows) <= MaxPhotos
<1>1. IsFiniteSet(Rows) /\ Cardinality(Rows) \in Nat
  BY FS_Subset, FS_CardinalityType, PhotosAssumption DEF Rows
<1>2. ASSUME Distinct
      PROVE  Cardinality(Rows) <= MaxPhotos
  <2> DEFINE f == [p \in Rows |-> position[p]]
  <2>1. f \in [Rows -> Position]
    BY DEF PhotosTypeOK, Rows
  <2>2. IsInjective(f)
    BY <1>2 DEF Distinct, IsInjective
  <2>3. f \in Injection(Rows, Position)
    BY <2>1, <2>2 DEF Injection
  <2>4. IsFiniteSet(Position) /\ Cardinality(Position) = MaxPhotos
    BY FS_Interval, PhotosAssumption DEF Position
  <2>5. QED
    BY <2>3, <2>4, FS_Injection
<1>3. QED
  BY <1>1, <1>2

(* The kind of a request's memory is told by where the request is.         *)
LEMMA WhatRequestsHold ==
  ASSUME PhotosTypeOK, NEW h \in Handler
  PROVE  /\ mem[h].at = "putObject" => mem[h] \in PutMem
         /\ mem[h].at = "createRow" => mem[h] \in CreateMem
         /\ mem[h].at \in {"listSiblings", "move"} => mem[h] \in FoundMem
         /\ mem[h].at \in {"readFirst", "readSecond", "commitSwap"} => mem[h] \in SwapMem
         /\ mem[h].at \in {"findAgain", "deleteRow"} => mem[h] \in RowMem
<1>1. mem[h] \in {Idle} \cup PutMem \cup CreateMem \cup FoundMem \cup SwapMem \cup RowMem
  BY DEF PhotosTypeOK, PhotoMem
<1>2. /\ mem[h] \in {Idle} => mem[h].at = "idle"
      /\ mem[h] \in PutMem => mem[h].at = "putObject"
      /\ mem[h] \in CreateMem => mem[h].at = "createRow"
      /\ mem[h] \in FoundMem => mem[h].at \in {"listSiblings", "move"}
      /\ mem[h] \in SwapMem => mem[h].at \in {"readFirst", "readSecond", "commitSwap"}
      /\ mem[h] \in RowMem => mem[h].at \in {"findAgain", "deleteRow"}
  BY DEF Idle, PutMem, CreateMem, FoundMem, SwapMem, RowMem
<1>3. QED
  BY <1>1, <1>2

LEMMA InitIInv == Init => IInv
<1> SUFFICES ASSUME Init PROVE IInv
  OBVIOUS
<1>1. PhotosTypeOK
  BY DEF Init, PhotosInit, PhotosTypeOK, PhotoMem, Reply, Answers
<1>2. Rows = {}
  BY DEF Init, PhotosInit, Rows
<1>3. QED
  BY <1>1, <1>2 DEF IInv, Distinct

---------------------------------------------------------------------------
(* An answer, or a new thing to remember, is of the right type.            *)
LEMMA AnswerTyped ==
  ASSUME PhotosTypeOK, NEW h \in Handler, NEW r \in Reply, Answer(h, r)
  PROVE  mem' \in [Handler -> PhotoMem] /\ reply' \in [Handler -> Reply]
BY DEF PhotosTypeOK, Answer, Remember, PhotoMem

LEMMA RememberTyped ==
  ASSUME PhotosTypeOK, NEW h \in Handler, NEW m \in PhotoMem, Remember(h, m)
  PROVE  mem' \in [Handler -> PhotoMem]
BY DEF PhotosTypeOK, Remember

LEMMA FailedIsReply == Failed \in Reply /\ Deleted \in Reply
BY DEF Reply, Answers

(* Steps that move no photo.                                               *)
LEMMA StandingStill ==
  ASSUME IInv, position' = position, stored' \subseteq Photo,
         mem' \in [Handler -> PhotoMem], reply' \in [Handler -> Reply]
  PROVE  IInv'
BY DEF IInv, PhotosTypeOK, Distinct, Rows

(* A photo goes to a position nobody else has, or away.                    *)
LEMMA MovingOne ==
  ASSUME IInv, NEW p \in Photo, NEW q \in Position \cup {None},
         q # None => ~Taken(q, {p}),
         position' = [position EXCEPT ![p] = q], stored' = stored,
         mem' \in [Handler -> PhotoMem], reply' \in [Handler -> Reply]
  PROVE  IInv'
<1>1. position' \in [Photo -> Position \cup {None}] /\ stored' \subseteq Photo
  BY DEF IInv, PhotosTypeOK
<1>2. Distinct'
  <2> SUFFICES ASSUME NEW a \in Rows', NEW b \in Rows', position'[a] = position'[b], a # b
               PROVE  FALSE
    BY DEF Distinct
  <2>1. /\ a \in Photo /\ b \in Photo
        /\ position'[a] = IF a = p THEN q ELSE position[a]
        /\ position'[b] = IF b = p THEN q ELSE position[b]
        /\ position'[a] # None /\ position'[b] # None
    BY DEF IInv, PhotosTypeOK, Rows
  <2>2. QED
    BY <2>1 DEF IInv, Distinct, Rows, Taken
<1>3. QED
  BY <1>1, <1>2 DEF IInv, PhotosTypeOK

(* Two photos go to two positions nobody else has.                         *)
LEMMA Swapping ==
  ASSUME IInv, NEW m \in SwapMem, Swappable(m),
         position' = Swapped(m), stored' = stored,
         mem' \in [Handler -> PhotoMem], reply' \in [Handler -> Reply]
  PROVE  IInv'
<1>1. /\ m.photo \in Photo /\ m.other \in Photo
      /\ m.first \in Position \cup {None} /\ m.second \in Position \cup {None}
  BY DEF SwapMem
<1>2. position' \in [Photo -> Position \cup {None}] /\ stored' \subseteq Photo
  BY <1>1 DEF IInv, PhotosTypeOK, Swapped
<1>3. Distinct'
  <2> SUFFICES ASSUME NEW a \in Rows', NEW b \in Rows', position'[a] = position'[b], a # b
               PROVE  FALSE
    BY DEF Distinct
  <2>1. \A p \in Photo : position'[p] = IF p = m.photo THEN m.second
                                        ELSE IF p = m.other THEN m.first ELSE position[p]
    BY <1>1 DEF IInv, PhotosTypeOK, Swapped
  <2>2. a \in Photo /\ b \in Photo /\ position'[a] # None /\ position'[b] # None
    BY DEF Rows
  <2>3. CASE a \notin {m.photo, m.other} /\ b \notin {m.photo, m.other}
    BY <2>1, <2>2, <2>3 DEF IInv, Distinct, Rows
  <2>4. CASE a \in {m.photo, m.other} /\ b \in {m.photo, m.other}
    BY <2>1, <2>2, <2>4 DEF Swappable
  <2>5. CASE a \in {m.photo, m.other} /\ b \notin {m.photo, m.other}
    BY <2>1, <2>2, <2>5 DEF Swappable, Taken, Rows
  <2>6. CASE a \notin {m.photo, m.other} /\ b \in {m.photo, m.other}
    BY <2>1, <2>2, <2>6 DEF Swappable, Taken, Rows
  <2>7. QED
    BY <2>3, <2>4, <2>5, <2>6
<1>4. QED
  BY <1>2, <1>3 DEF IInv, PhotosTypeOK

---------------------------------------------------------------------------
(* The server's steps *)
LEMMA PhotoStepIInv == ASSUME IInv, NEW h \in Handler, PhotoStep(h) PROVE IInv'
<1>0. PhotosTypeOK
  BY DEF IInv
<1>1. ASSUME NEW p \in Photo, PutObject(h, p)
      PROVE  IInv'
  <2>1. mem[h].position \in Position
    BY <1>0, <1>1, WhatRequestsHold DEF PutObject, PutMem
  <2>2. [at |-> "createRow", photo |-> p, position |-> mem[h].position] \in PhotoMem
    BY <2>1 DEF PhotoMem, CreateMem
  <2>3. mem' \in [Handler -> PhotoMem]
    BY <1>0, <1>1, <2>2, RememberTyped DEF PutObject
  <2>4. QED
    BY <1>0, <1>1, <2>3, StandingStill DEF PutObject, PhotosTypeOK
<1>2. ASSUME CreateRow(h)
      PROVE  IInv'
  <2>1. mem[h].photo \in Photo /\ mem[h].position \in Position
    BY <1>0, <1>2, WhatRequestsHold DEF CreateRow, CreateMem
  <2>2. CASE Taken(mem[h].position, {mem[h].photo})
    BY <1>0, <1>2, <2>2, FailedIsReply, AnswerTyped, StandingStill DEF CreateRow, PhotosTypeOK
  <2>3. CASE ~Taken(mem[h].position, {mem[h].photo})
    <3>1. Answered(mem[h].photo, mem[h].position) \in Reply
      BY <2>1 DEF Answered, Reply, Answers
    <3>2. QED
      BY <1>0, <1>2, <2>1, <2>3, <3>1, AnswerTyped, MovingOne DEF CreateRow
  <2>4. QED
    BY <2>2, <2>3
<1>3. ASSUME ListSiblings(h)
      PROVE  IInv'
  <2>1. mem[h] \in FoundMem
    BY <1>0, <1>3, WhatRequestsHold DEF ListSiblings
  <2>2. [mem[h] EXCEPT !.at = "move"] \in PhotoMem
    BY <2>1 DEF FoundMem, PhotoMem
  <2>3. \A o \in Rows : [at |-> "readFirst", photo |-> mem[h].photo, other |-> o,
                         first |-> None, second |-> None] \in PhotoMem
    BY <2>1 DEF FoundMem, SwapMem, PhotoMem, Rows
  <2>4. mem' \in [Handler -> PhotoMem]
    BY <1>0, <1>3, <2>2, <2>3, RememberTyped DEF ListSiblings
  <2>5. QED
    BY <1>0, <1>3, <2>4, StandingStill DEF ListSiblings, photoVars, PhotosTypeOK
<1>4. ASSUME ReadFirst(h)
      PROVE  IInv'
  <2>1. mem[h] \in SwapMem
    BY <1>0, <1>4, WhatRequestsHold DEF ReadFirst
  <2>2. [mem[h] EXCEPT !.at = "readSecond", !.first = position[mem[h].photo]] \in PhotoMem
    BY <1>0, <2>1 DEF SwapMem, PhotoMem, PhotosTypeOK
  <2>3. mem' \in [Handler -> PhotoMem] /\ reply' \in [Handler -> Reply]
    BY <1>0, <1>4, <2>2, RememberTyped, AnswerTyped, FailedIsReply DEF ReadFirst, PhotosTypeOK
  <2>4. QED
    BY <1>0, <1>4, <2>3, StandingStill DEF ReadFirst, photoVars, PhotosTypeOK
<1>5. ASSUME ReadSecond(h)
      PROVE  IInv'
  <2>1. mem[h] \in SwapMem
    BY <1>0, <1>5, WhatRequestsHold DEF ReadSecond
  <2>2. [mem[h] EXCEPT !.at = "commitSwap", !.second = position[mem[h].other]] \in PhotoMem
    BY <1>0, <2>1 DEF SwapMem, PhotoMem, PhotosTypeOK
  <2>3. mem' \in [Handler -> PhotoMem] /\ reply' \in [Handler -> Reply]
    BY <1>0, <1>5, <2>2, RememberTyped, AnswerTyped, FailedIsReply DEF ReadSecond, PhotosTypeOK
  <2>4. QED
    BY <1>0, <1>5, <2>3, StandingStill DEF ReadSecond, photoVars, PhotosTypeOK
<1>6. ASSUME CommitSwap(h)
      PROVE  IInv'
  <2>1. mem[h] \in SwapMem
    BY <1>0, <1>6, WhatRequestsHold DEF CommitSwap
  <2>2. CASE ~Swappable(mem[h])
    BY <1>0, <1>6, <2>2, FailedIsReply, AnswerTyped, StandingStill DEF CommitSwap, PhotosTypeOK
  <2>3. CASE Swappable(mem[h])
    <3>1. [at |-> "findAgain", photo |-> mem[h].photo] \in PhotoMem
      BY <2>1 DEF SwapMem, RowMem, PhotoMem
    <3>2. mem' \in [Handler -> PhotoMem]
      BY <1>0, <1>6, <2>3, <3>1, RememberTyped DEF CommitSwap
    <3>3. QED
      BY <1>0, <1>6, <2>1, <2>3, <3>2, Swapping DEF CommitSwap, PhotosTypeOK
  <2>4. QED
    BY <2>2, <2>3
<1>7. ASSUME MovePhoto(h)
      PROVE  IInv'
  <2>1. mem[h].photo \in Photo /\ mem[h].to \in Position
    BY <1>0, <1>7, WhatRequestsHold DEF MovePhoto, FoundMem
  <2>2. CASE mem[h].photo \in Rows /\ ~Taken(mem[h].to, {mem[h].photo})
    <3>1. [at |-> "findAgain", photo |-> mem[h].photo] \in PhotoMem
      BY <2>1 DEF RowMem, PhotoMem
    <3>2. mem' \in [Handler -> PhotoMem]
      BY <1>0, <1>7, <2>2, <3>1, RememberTyped DEF MovePhoto
    <3>3. QED
      BY <1>0, <1>7, <2>1, <2>2, <3>2, MovingOne DEF MovePhoto, PhotosTypeOK
  <2>3. CASE ~(mem[h].photo \in Rows /\ ~Taken(mem[h].to, {mem[h].photo}))
    BY <1>0, <1>7, <2>3, FailedIsReply, AnswerTyped, StandingStill DEF MovePhoto, PhotosTypeOK
  <2>4. QED
    BY <2>2, <2>3
<1>8. ASSUME FindAgain(h)
      PROVE  IInv'
  <2>1. mem[h].photo \in Photo
    BY <1>0, <1>8, WhatRequestsHold DEF FindAgain, RowMem
  <2>2. PICK q \in Position : Answer(h, Answered(mem[h].photo, q))
    BY <1>0, <1>8, <2>1 DEF FindAgain, Rows, PhotosTypeOK
  <2>3. Answered(mem[h].photo, q) \in Reply
    BY <2>1 DEF Answered, Reply, Answers
  <2>4. QED
    BY <1>0, <1>8, <2>2, <2>3, AnswerTyped, StandingStill DEF FindAgain, photoVars, PhotosTypeOK
<1>9. ASSUME DeleteRow(h)
      PROVE  IInv'
  <2>1. mem[h].photo \in Photo
    BY <1>0, <1>9, WhatRequestsHold DEF DeleteRow, RowMem
  <2>2. mem' \in [Handler -> PhotoMem] /\ reply' \in [Handler -> Reply]
    BY <1>0, <1>9, FailedIsReply, AnswerTyped DEF DeleteRow
  <2>3. QED
    BY <1>9, <2>1, <2>2, MovingOne DEF DeleteRow
<1>10. QED
  BY <1>1, <1>2, <1>3, <1>4, <1>5, <1>6, <1>7, <1>8, <1>9 DEF PhotoStep

(* Requests, of the page or of another manager, only read the photos.      *)
LEMMA RequestIInv ==
  ASSUME IInv, NEW h \in Handler,
         \/ CountPhotos(h)
         \/ \E p \in Photo, q \in Position : FindPhoto(h, p, q)
         \/ \E p \in Photo : FindPhotoToRemove(h, p)
  PROVE  IInv'
<1>0. PhotosTypeOK
  BY DEF IInv
<1>1. CASE CountPhotos(h)
  <2>1. Cardinality(Rows) < MaxPhotos =>
          [at |-> "putObject", position |-> Cardinality(Rows)] \in PhotoMem
    BY <1>0, RowsAreFew, PhotosAssumption DEF PhotoMem, PutMem, Position
  <2>2. mem' \in [Handler -> PhotoMem] /\ reply' \in [Handler -> Reply]
    BY <1>0, <1>1, <2>1, RememberTyped, AnswerTyped, FailedIsReply DEF CountPhotos, PhotosTypeOK
  <2>3. QED
    BY <1>0, <1>1, <2>2, StandingStill DEF CountPhotos, photoVars, PhotosTypeOK
<1>2. ASSUME NEW p \in Photo, NEW q \in Position, FindPhoto(h, p, q)
      PROVE  IInv'
  <2>1. /\ [at |-> "findAgain", photo |-> p] \in PhotoMem
        /\ [at |-> "listSiblings", photo |-> p, to |-> q] \in PhotoMem
    BY DEF PhotoMem, RowMem, FoundMem
  <2>2. mem' \in [Handler -> PhotoMem] /\ reply' \in [Handler -> Reply]
    BY <1>0, <1>2, <2>1, RememberTyped, AnswerTyped, FailedIsReply DEF FindPhoto, PhotosTypeOK
  <2>3. QED
    BY <1>0, <1>2, <2>2, StandingStill DEF FindPhoto, photoVars, PhotosTypeOK
<1>3. ASSUME NEW p \in Photo, FindPhotoToRemove(h, p)
      PROVE  IInv'
  <2>1. [at |-> "deleteRow", photo |-> p] \in PhotoMem
    BY DEF PhotoMem, RowMem
  <2>2. mem' \in [Handler -> PhotoMem] /\ reply' \in [Handler -> Reply]
    BY <1>0, <1>3, <2>1, RememberTyped, AnswerTyped, FailedIsReply DEF FindPhotoToRemove, PhotosTypeOK
  <2>3. QED
    BY <1>0, <1>3, <2>2, StandingStill DEF FindPhotoToRemove, photoVars, PhotosTypeOK
<1>4. QED
  BY <1>1, <1>2, <1>3

---------------------------------------------------------------------------
(* The page asks for positions it shows, so what it shows is part of the   *)
(* argument; and only a removal is answered without a photo.               *)
NotRemoving(h) == mem[h].at # "deleteRow" /\ (reply[h] = Deleted => reply[h] = None)

PageIsSound ==
  /\ view \in View
  /\ \A s \in snapshot : s.photos \in View
  /\ call \in [Handler -> {None} \cup UploadCall \cup MoveCall \cup RemoveCall]
  /\ \A h \in Handler : call[h] # None /\ call[h] \in UploadCall \cup MoveCall => NotRemoving(h)

LEMMA InitPage == Init => PageIsSound
BY DEF Init, PhotosInit, PageIsSound, View, NoCalls, NotRemoving

LEMMA PatchTyped ==
  ASSUME IInv, PageIsSound, NEW h \in Handler, call[h] # None,
         reply[h] # None, reply[h] # Failed
  PROVE  Patched(call[h], reply[h]) \in View
<1>1. reply[h] # Deleted => /\ reply[h].photo \in Photo
                           /\ reply[h].position \in Position
  BY DEF IInv, PhotosTypeOK, Reply, Answers
<1>2. CASE call[h] \in UploadCall
  <2>1. call[h].kind = "upload"
    BY <1>2 DEF UploadCall
  <2>2. QED
    BY <1>1, <1>2, <2>1 DEF PageIsSound, Patched, View, NotRemoving
<1>3. CASE call[h] \in MoveCall
  <2>1. call[h].kind = "move" /\ call[h].was \in Position
    BY <1>3 DEF MoveCall
  <2>2. QED
    BY <1>1, <1>3, <2>1 DEF PageIsSound, Patched, View, NotRemoving
<1>4. CASE call[h] \in RemoveCall
  <2>1. call[h].kind = "remove"
    BY <1>4 DEF RemoveCall
  <2>2. QED
    BY <1>4, <2>1 DEF PageIsSound, Patched, View
<1>5. QED
  BY <1>2, <1>3, <1>4 DEF PageIsSound

(* A request that is not about a removal never comes to one.               *)
LEMMA StepOfRequest ==
  ASSUME IInv, NEW h \in Handler, PhotoStep(h), NEW g \in Handler,
         NotRemoving(g)
  PROVE  NotRemoving(g)'
<1>0. /\ mem \in [Handler -> PhotoMem] /\ reply \in [Handler -> Reply]
      /\ Failed # Deleted /\ Idle.at # "deleteRow"
      /\ \A p, q : Answered(p, q) # Deleted
  BY DEF IInv, PhotosTypeOK, Failed, Deleted, Idle, Answered
<1>1. CASE g # h
  BY <1>0, <1>1 DEF PhotoStep, PutObject, CreateRow, ListSiblings, ReadFirst, ReadSecond, CommitSwap,
                    MovePhoto, FindAgain, DeleteRow, Answer, Remember, NotRemoving
<1>2. CASE g = h
  <2>1. ASSUME NEW m, Remember(h, m), m.at # "deleteRow"
        PROVE  mem'[g].at # "deleteRow"
    BY <1>0, <1>2, <2>1 DEF Remember
  <2>2. ASSUME NEW r, Answer(h, r), r # Deleted
        PROVE  NotRemoving(g)'
    BY <1>0, <1>2, <2>2 DEF Answer, Remember, NotRemoving
  <2>3. CASE \E p \in Photo : PutObject(h, p)
    BY <2>1, <2>3 DEF PutObject, NotRemoving
  <2>4. CASE CreateRow(h)
    BY <1>0, <2>2, <2>4 DEF CreateRow
  <2>5. CASE ListSiblings(h)
    <3>1. mem[h] \in FoundMem
      BY <2>5, WhatRequestsHold DEF IInv, ListSiblings
    <3>2. [mem[h] EXCEPT !.at = "move"].at = "move"
      BY <3>1 DEF FoundMem
    <3>3. QED
      BY <2>1, <2>5, <3>2 DEF ListSiblings, NotRemoving
  <2>6. CASE ReadFirst(h)
    <3>1. mem[h] \in SwapMem
      BY <2>6, WhatRequestsHold DEF IInv, ReadFirst
    <3>2. [mem[h] EXCEPT !.at = "readSecond", !.first = position[mem[h].photo]].at = "readSecond"
      BY <3>1 DEF SwapMem
    <3>3. QED
      BY <1>0, <2>1, <2>2, <2>6, <3>2 DEF ReadFirst, NotRemoving
  <2>7. CASE ReadSecond(h)
    <3>1. mem[h] \in SwapMem
      BY <2>7, WhatRequestsHold DEF IInv, ReadSecond
    <3>2. [mem[h] EXCEPT !.at = "commitSwap", !.second = position[mem[h].other]].at = "commitSwap"
      BY <3>1 DEF SwapMem
    <3>3. QED
      BY <1>0, <2>1, <2>2, <2>7, <3>2 DEF ReadSecond, NotRemoving
  <2>8. CASE CommitSwap(h)
    BY <1>0, <2>1, <2>2, <2>8 DEF CommitSwap, NotRemoving
  <2>9. CASE MovePhoto(h)
    BY <1>0, <2>1, <2>2, <2>9 DEF MovePhoto, NotRemoving
  <2>10. CASE FindAgain(h)
    BY <1>0, <2>2, <2>10 DEF FindAgain
  <2>11. CASE DeleteRow(h)
    BY <1>2, <2>11 DEF DeleteRow, NotRemoving
  <2>12. QED
    BY <2>3, <2>4, <2>5, <2>6, <2>7, <2>8, <2>9, <2>10, <2>11 DEF PhotoStep
<1>3. QED
  BY <1>1, <1>2

(* Nor does a request begin with one unless it is a removal.               *)
LEMMA RequestBegins ==
  ASSUME IInv, NEW h \in Handler,
         CountPhotos(h) \/ \E p \in Photo, q \in Position : FindPhoto(h, p, q)
  PROVE  NotRemoving(h)'
<1>0. /\ mem \in [Handler -> PhotoMem] /\ reply \in [Handler -> Reply]
      /\ Failed # Deleted /\ Idle.at # "deleteRow"
  BY DEF IInv, PhotosTypeOK, Failed, Deleted, Idle
<1>1. QED
  BY <1>0 DEF CountPhotos, FindPhoto, Free, Answer, Remember, NotRemoving

LEMMA OthersKeepTheirs ==
  ASSUME IInv, NEW h \in Handler, NEW g \in Handler, g # h,
         \/ CountPhotos(h)
         \/ \E p \in Photo, q \in Position : FindPhoto(h, p, q)
         \/ \E p \in Photo : FindPhotoToRemove(h, p)
  PROVE  mem'[g] = mem[g] /\ reply'[g] = reply[g]
BY DEF IInv, PhotosTypeOK, CountPhotos, FindPhoto, FindPhotoToRemove, Answer, Remember

LEMMA StepPage == IInv /\ PageIsSound /\ [Next]_vars => IInv' /\ PageIsSound'
<1> SUFFICES ASSUME IInv, PageIsSound, [Next]_vars
             PROVE  IInv' /\ PageIsSound'
  OBVIOUS
<1> DEFINE Goal == IInv' /\ PageIsSound'
<1>0. PhotosTypeOK
  BY DEF IInv
<1>1. ASSUME NEW h \in Handler, Upload(h)
      PROVE  Goal
  <2>1. IInv'
    BY <1>1, RequestIInv DEF Upload
  <2>2. [kind |-> "upload"] \in UploadCall
    BY DEF UploadCall
  <2>3. call' \in [Handler -> {None} \cup UploadCall \cup MoveCall \cup RemoveCall]
    BY <1>1, <2>2 DEF Upload, Send, PageIsSound
  <2>4. \A g \in Handler : call'[g] # None /\ call'[g] \in UploadCall \cup MoveCall =>
                            NotRemoving(g)'
    BY <1>1, RequestBegins, OthersKeepTheirs DEF Upload, Send, PageIsSound, NotRemoving
  <2>5. QED
    BY <1>1, <2>1, <2>3, <2>4 DEF Upload, Send, PageIsSound
<1>2. ASSUME NEW h \in Handler, NEW p \in Photo, NEW t \in Photo, Move(h, p, t)
      PROVE  Goal
  <2>1. view[p] \in Position /\ view[t] \in Position
    BY <1>2 DEF Move, Shown, PageIsSound, View
  <2>2. IInv'
    BY <1>2, <2>1, RequestIInv DEF Move
  <2>3. [kind |-> "move", photo |-> p, target |-> t, was |-> view[p]] \in MoveCall
    BY <2>1 DEF MoveCall
  <2>4. call' \in [Handler -> {None} \cup UploadCall \cup MoveCall \cup RemoveCall]
    BY <1>2, <2>3 DEF Move, Send, PageIsSound
  <2>5. \A g \in Handler : call'[g] # None /\ call'[g] \in UploadCall \cup MoveCall =>
                            NotRemoving(g)'
    BY <1>2, <2>1, RequestBegins, OthersKeepTheirs DEF Move, Send, PageIsSound, NotRemoving
  <2>6. QED
    BY <1>2, <2>2, <2>4, <2>5 DEF Move, Send, PageIsSound
<1>3. ASSUME NEW h \in Handler, NEW p \in Photo, Remove(h, p)
      PROVE  Goal
  <2>1. IInv'
    BY <1>3, RequestIInv DEF Remove
  <2>2. /\ [kind |-> "remove", photo |-> p] \in RemoveCall
        /\ [kind |-> "remove", photo |-> p] \notin UploadCall \cup MoveCall
    BY DEF RemoveCall, UploadCall, MoveCall
  <2>3. call' \in [Handler -> {None} \cup UploadCall \cup MoveCall \cup RemoveCall]
    BY <1>3, <2>2 DEF Remove, Send, PageIsSound
  <2>4. \A g \in Handler : call'[g] # None /\ call'[g] \in UploadCall \cup MoveCall =>
                            NotRemoving(g)'
    BY <1>3, <2>2, OthersKeepTheirs DEF Remove, Send, PageIsSound, NotRemoving
  <2>5. QED
    BY <1>3, <2>1, <2>3, <2>4 DEF Remove, Send, PageIsSound
<1>4. ASSUME NEW h \in Handler, Receive(h)
      PROVE  Goal
  <2>1. reply' \in [Handler -> Reply]
    BY <1>0, <1>4 DEF Receive, PhotosTypeOK, Reply, Answers
  <2>2. IInv'
    BY <1>0, <1>4, <2>1, StandingStill DEF Receive, photoVars, PhotosTypeOK
  <2>3. view' \in View
    BY <1>4, PatchTyped DEF Receive, PageIsSound
  <2>4. \A g \in Handler : g # h => call'[g] = call[g] /\ reply'[g] = reply[g]
    BY <1>0, <1>4 DEF Receive, PageIsSound, PhotosTypeOK
  <2>5. call' \in [Handler -> {None} \cup UploadCall \cup MoveCall \cup RemoveCall] /\ call'[h] = None
    BY <1>4 DEF Receive, PageIsSound
  <2>6. QED
    BY <1>4, <2>2, <2>3, <2>4, <2>5 DEF Receive, PageIsSound, NotRemoving
<1>5. ASSUME NEW h \in Handler, ServerStep(h)
      PROVE  Goal
  <2>1. IInv'
    BY <1>5, PhotoStepIInv DEF ServerStep
  <2>2. QED
    BY <1>5, <2>1, StepOfRequest DEF ServerStep, PageIsSound, pageVars
<1>6. ASSUME NEW h \in Handler, Elsewhere(h)
      PROVE  Goal
  <2>1. IInv'
    BY <1>6, RequestIInv DEF Elsewhere
  <2>2. QED
    BY <1>6, <2>1, RequestBegins, OthersKeepTheirs DEF Elsewhere, PageIsSound, pageVars, NotRemoving
<1>7. ASSUME NEW h \in Handler, AnsweredElsewhere(h)
      PROVE  Goal
  <2>1. reply' \in [Handler -> Reply]
    BY <1>0, <1>7 DEF AnsweredElsewhere, PhotosTypeOK, Reply, Answers
  <2>2. \A g \in Handler : reply'[g] = reply[g] \/ reply'[g] = None
    BY <1>0, <1>7 DEF AnsweredElsewhere, PhotosTypeOK
  <2>3. IInv'
    BY <1>0, <1>7, <2>1, StandingStill DEF AnsweredElsewhere, photoVars, PhotosTypeOK
  <2>4. QED
    BY <1>7, <2>2, <2>3 DEF AnsweredElsewhere, PageIsSound, pageVars, NotRemoving
<1>8. CASE ReadPhotos
  <2>1. IInv'
    BY <1>0, <1>8, StandingStill DEF ReadPhotos, photoVars, PhotosTypeOK
  <2>2. QED
    BY <1>0, <1>8, <2>1 DEF ReadPhotos, PageIsSound, PhotosTypeOK, View, NoPhotos, NotRemoving
<1>9. CASE ApplyPhotos
  <2>1. IInv'
    BY <1>0, <1>9, StandingStill DEF ApplyPhotos, photoVars, PhotosTypeOK
  <2>2. QED
    BY <1>9, <2>1 DEF ApplyPhotos, photoVars, PageIsSound, NoCalls, NotRemoving
<1>10. CASE UNCHANGED vars
  <2>1. IInv'
    BY <1>0, <1>10, StandingStill DEF vars, photoVars, PhotosTypeOK
  <2>2. QED
    BY <1>10, <2>1 DEF vars, pageVars, PageIsSound, NotRemoving
<1>11. ASSUME NEW h \in Handler, LoseAnswer(h)
       PROVE  Goal
  <2>1. IInv'
    BY <1>0, <1>11, StandingStill DEF LoseAnswer, photoVars, PhotosTypeOK
  <2>2. QED
    BY <1>11, <2>1 DEF LoseAnswer, PageIsSound, NotRemoving
<1>12. CASE RefreshAnyway
  <2>1. IInv'
    BY <1>0, <1>12, StandingStill DEF RefreshAnyway, photoVars, PhotosTypeOK
  <2>2. QED
    BY <1>12, <2>1 DEF RefreshAnyway, PageIsSound, NotRemoving
<1>13. QED
  BY <1>1, <1>2, <1>3, <1>4, <1>5, <1>6, <1>7, <1>8, <1>9, <1>10, <1>11, <1>12 DEF Next

LEMMA Invariance == Spec => [](IInv /\ PageIsSound)
<1>1. Init => IInv /\ PageIsSound
  BY InitIInv, InitPage
<1>2. QED
  BY <1>1, StepPage, PTL DEF Spec

---------------------------------------------------------------------------
(* Rows, objects, requests in flight and their answers keep their types.   *)
THEOREM TypeCorrect == Spec => []PhotosTypeOK
<1>1. IInv => PhotosTypeOK
  BY DEF IInv
<1>2. QED
  BY <1>1, Invariance, PTL

(* For any number of photos and of requests in flight, from the page or    *)
(* from other managers, positions are distinct and within the limit, and   *)
(* so no more photos exist than the limit allows (addPhoto, updatePhoto,   *)
(* swapPositions, removePhoto).                                            *)
THEOREM OrderIsKept == Spec => []PhotosInOrder
<1>1. IInv => PhotosInOrder
  BY RowsAreFew DEF IInv, PhotosInOrder, Distinct, PhotosTypeOK, Rows
<1>2. QED
  BY <1>1, Invariance, PTL

---------------------------------------------------------------------------
(* What the page shows of the photos *)

(* Requests of the page that have written: their answers, if they do not   *)
(* get lost, ask for a refresh.                                            *)
Owes(h) == call[h] # None /\ Wrote(h)

(* While nothing is owed, no refresh is waiting and nothing went unseen,   *)
(* the last read is right.  A request that is answered has nothing left to *)
(* do.                                                                     *)
PhotosAreKnown ==
  /\ refreshes \in Nat
  /\ \A h \in Handler : reply[h] # None => mem[h] = Idle
  /\ \A s \in snapshot : s.there \/ unseen
  /\ refreshes = 0 /\ ~unseen /\ (\A h \in Handler : ~Owes(h)) => LastGiven = {position}

PhotosInv == IInv /\ PageIsSound /\ PhotosAreKnown

LEMMA InitPhotos == Init => PhotosInv
<1> SUFFICES ASSUME Init PROVE PhotosAreKnown
  BY InitIInv, InitPage DEF PhotosInv
<1>1. QED
  BY DEF Init, PhotosInit, PhotosAreKnown, LastGiven

(* A step of the server that writes leaves a request that owes its answer. *)
LEMMA ServerAnswers ==
  ASSUME IInv, NEW h \in Handler, PhotoStep(h), reply[h] # None => mem[h] = Idle
  PROVE  /\ reply'[h] # None => mem'[h] = Idle
         /\ ~Wrote(h)' => position' = position /\ ~Wrote(h)
         /\ \A g \in Handler \ {h} : mem'[g] = mem[g] /\ reply'[g] = reply[g]
<1>0. /\ mem \in [Handler -> PhotoMem] /\ reply \in [Handler -> Reply]
      /\ position \in [Photo -> Position \cup {None}]
      /\ Failed # Deleted /\ Idle.at = "idle"
      /\ \A p, q : Answered(p, q) # Failed
      /\ None # Deleted
  BY AnswerAssumption DEF IInv, PhotosTypeOK, Failed, Deleted, Idle, Answered, Answers
<1>1. mem[h].at # "idle"
  BY DEF PhotoStep, PutObject, CreateRow, ListSiblings, ReadFirst, ReadSecond, CommitSwap, MovePhoto,
         FindAgain, DeleteRow
<1>2. reply[h] = None
  BY <1>0, <1>1
<1>3. \A g \in Handler \ {h} : mem'[g] = mem[g] /\ reply'[g] = reply[g]
  BY <1>0 DEF PhotoStep, PutObject, CreateRow, ListSiblings, ReadFirst, ReadSecond, CommitSwap,
              MovePhoto, FindAgain, DeleteRow, Answer, Remember
<1>4. ASSUME NEW r, Answer(h, r)
      PROVE  mem'[h] = Idle /\ reply'[h] = r
  BY <1>0, <1>4 DEF Answer, Remember
<1>5. ASSUME NEW m, Remember(h, m), UNCHANGED reply
      PROVE  mem'[h] = m /\ reply'[h] = None
  BY <1>0, <1>2, <1>5 DEF Remember
<1> DEFINE Good == /\ reply'[h] # None => mem'[h] = Idle
                   /\ ~Wrote(h)' => position' = position /\ ~Wrote(h)
<1> SUFFICES Good
  BY <1>3
<1>6. CASE \E p \in Photo : PutObject(h, p)
  BY <1>2, <1>5, <1>6 DEF PutObject, Wrote
<1>7. CASE CreateRow(h)
  <2>1. mem[h].photo \in Photo /\ mem[h].position \in Position
    BY <1>7, WhatRequestsHold DEF IInv, CreateRow, CreateMem
  <2>2. Answered(mem[h].photo, mem[h].position) \in Answers
    BY <2>1 DEF Answered, Answers
  <2>3. QED
    BY <1>0, <1>2, <1>4, <1>7, <2>2, AnswerAssumption DEF CreateRow, Wrote
<1>8. CASE ListSiblings(h)
  BY <1>2, <1>5, <1>8 DEF ListSiblings, Wrote, photoVars
<1>9. CASE ReadFirst(h)
  BY <1>2, <1>4, <1>5, <1>9 DEF ReadFirst, Wrote, photoVars
<1>10. CASE ReadSecond(h)
  BY <1>2, <1>4, <1>5, <1>10 DEF ReadSecond, Wrote, photoVars
<1>11. CASE CommitSwap(h)
  BY <1>2, <1>4, <1>5, <1>11 DEF CommitSwap, Wrote
<1>12. CASE MovePhoto(h)
  BY <1>2, <1>4, <1>5, <1>12 DEF MovePhoto, Wrote
<1>13. CASE FindAgain(h)
  <2>1. mem[h].photo \in Photo
    BY <1>13, WhatRequestsHold DEF IInv, FindAgain, RowMem
  <2>2. PICK q \in Position : Answer(h, Answered(mem[h].photo, q))
    BY <1>0, <1>13, <2>1 DEF FindAgain, Rows
  <2>3. Answered(mem[h].photo, q) \in Answers
    BY <2>1 DEF Answered, Answers
  <2>4. QED
    BY <1>0, <1>4, <2>2, <2>3, AnswerAssumption DEF Wrote
<1>14. CASE DeleteRow(h)
  <2>1. mem[h].photo \notin Rows => position' = position
    <3>1. mem[h].photo \in Photo
      BY <1>14, WhatRequestsHold DEF IInv, DeleteRow, RowMem
    <3>2. QED
      BY <1>0, <1>14, <3>1 DEF DeleteRow, Rows
  <2>2. QED
    BY <1>0, <1>2, <1>4, <1>14, <2>1 DEF DeleteRow, Wrote
<1>15. QED
  BY <1>6, <1>7, <1>8, <1>9, <1>10, <1>11, <1>12, <1>13, <1>14 DEF PhotoStep

(* The page sends a request through a handler that owes nothing.           *)
LEMMA RequestOwesNothing ==
  ASSUME IInv, NEW h \in Handler,
         \/ CountPhotos(h)
         \/ \E p \in Photo, q \in Position : FindPhoto(h, p, q)
         \/ \E p \in Photo : FindPhotoToRemove(h, p)
  PROVE  /\ reply'[h] # None => mem'[h] = Idle
         /\ ~Wrote(h) /\ position' = position
         /\ \A g \in Handler \ {h} : mem'[g] = mem[g] /\ reply'[g] = reply[g]
<1>0. mem \in [Handler -> PhotoMem] /\ reply \in [Handler -> Reply] /\ Idle.at = "idle"
  BY DEF IInv, PhotosTypeOK, Idle
<1>1. QED
  BY <1>0, OthersKeepTheirs
     DEF CountPhotos, FindPhoto, FindPhotoToRemove, Free, photoVars, Wrote, Answer, Remember

LEMMA StepPhotos == PhotosInv /\ [Next]_vars => PhotosInv'
<1> SUFFICES ASSUME PhotosInv, [Next]_vars
             PROVE  PhotosAreKnown'
  BY StepPage DEF PhotosInv
<1> USE DEF PhotosInv
<1>0. /\ mem \in [Handler -> PhotoMem] /\ reply \in [Handler -> Reply]
      /\ call \in [Handler -> {None} \cup UploadCall \cup MoveCall \cup RemoveCall]
      /\ position \in View
  BY DEF IInv, PhotosTypeOK, PageIsSound, View
<1>1. ASSUME NEW h \in Handler, NEW c, NEW b, Send(h, c, b),
             \/ CountPhotos(h)
             \/ \E p \in Photo, q \in Position : FindPhoto(h, p, q)
             \/ \E p \in Photo : FindPhotoToRemove(h, p)
      PROVE  PhotosAreKnown'
  <2>1. /\ reply'[h] # None => mem'[h] = Idle
        /\ ~Wrote(h) /\ position' = position
        /\ \A g \in Handler \ {h} : mem'[g] = mem[g] /\ reply'[g] = reply[g] /\ call'[g] = call[g]
    BY <1>0, <1>1, RequestOwesNothing DEF Send
  <2>2. \A g \in Handler : Owes(g) => Owes(g)'
    BY <2>1 DEF Owes, Wrote
  <2>3. QED
    BY <1>1, <2>1, <2>2 DEF Send, PhotosAreKnown, LastGiven
<1>2. ASSUME NEW h \in Handler, Upload(h)
      PROVE  PhotosAreKnown'
  BY <1>1, <1>2 DEF Upload
<1>3. ASSUME NEW h \in Handler, NEW p \in Photo, NEW t \in Photo, Move(h, p, t)
      PROVE  PhotosAreKnown'
  <2>1. view[t] \in Position
    BY <1>3 DEF Move, Shown, PageIsSound, View
  <2>2. QED
    BY <1>1, <1>3, <2>1 DEF Move
<1>4. ASSUME NEW h \in Handler, NEW p \in Photo, Remove(h, p)
      PROVE  PhotosAreKnown'
  BY <1>1, <1>4 DEF Remove
<1>5. ASSUME NEW h \in Handler, Receive(h)
      PROVE  PhotosAreKnown'
  <2>1. /\ reply'[h] = None /\ call'[h] = None
        /\ \A g \in Handler \ {h} : reply'[g] = reply[g] /\ call'[g] = call[g]
        /\ mem' = mem /\ position' = position /\ snapshot' = snapshot /\ unseen' = unseen
    BY <1>0, <1>5 DEF Receive, photoVars, boundVars
  <2>2. \A g \in Handler : reply'[g] # None => mem'[g] = Idle
    BY <2>1 DEF PhotosAreKnown
  <2>3. CASE reply[h] = Failed
    <3>1. ~Wrote(h)
      BY <1>5, <2>3 DEF Receive, PhotosAreKnown, Wrote, Idle
    <3>2. \A g \in Handler : Owes(g) => Owes(g)'
      BY <2>1, <3>1 DEF Owes, Wrote
    <3>3. QED
      BY <1>5, <2>1, <2>2, <2>3, <3>2 DEF Receive, PhotosAreKnown, LastGiven
  <2>4. CASE reply[h] # Failed
    BY <1>5, <2>1, <2>2, <2>4 DEF Receive, PhotosAreKnown
  <2>5. QED
    BY <2>3, <2>4
<1>6. ASSUME NEW h \in Handler, ServerStep(h)
      PROVE  PhotosAreKnown'
  <2>1. /\ reply'[h] # None => mem'[h] = Idle
        /\ ~Wrote(h)' => position' = position /\ ~Wrote(h)
        /\ \A g \in Handler \ {h} : mem'[g] = mem[g] /\ reply'[g] = reply[g]
    BY <1>6, ServerAnswers DEF ServerStep, PhotosAreKnown
  <2>2. UNCHANGED pageVars
    BY <1>6 DEF ServerStep
  <2>3. \A g \in Handler : Owes(g) => Owes(g)'
    BY <2>1, <2>2 DEF Owes, Wrote, pageVars
  <2>4. position' = position \/ Owes(h)' \/ unseen'
    BY <1>6, <2>1, <2>2 DEF ServerStep, Owes, pageVars
  <2>5. unseen => unseen'
    BY <1>6 DEF ServerStep
  <2>6. QED
    BY <2>1, <2>2, <2>3, <2>4, <2>5 DEF PhotosAreKnown, LastGiven, pageVars
<1>7. ASSUME NEW h \in Handler, Elsewhere(h)
      PROVE  PhotosAreKnown'
  <2>1. /\ reply'[h] # None => mem'[h] = Idle
        /\ position' = position
        /\ \A g \in Handler \ {h} : mem'[g] = mem[g] /\ reply'[g] = reply[g]
    BY <1>7, RequestOwesNothing DEF Elsewhere
  <2>2. \A g \in Handler : Owes(g) => Owes(g)'
    BY <1>7, <2>1 DEF Elsewhere, Owes, Wrote, pageVars
  <2>3. QED
    BY <1>7, <2>1, <2>2 DEF Elsewhere, PhotosAreKnown, LastGiven, pageVars
<1>8. ASSUME NEW h \in Handler, AnsweredElsewhere(h)
      PROVE  PhotosAreKnown'
  <2>1. \A g \in Handler : reply'[g] = IF g = h THEN None ELSE reply[g]
    BY <1>0, <1>8 DEF AnsweredElsewhere
  <2>2. \A g \in Handler : Owes(g) => Owes(g)'
    BY <1>8, <2>1 DEF AnsweredElsewhere, Owes, Wrote, pageVars
  <2>3. QED
    BY <1>8, <2>1, <2>2 DEF AnsweredElsewhere, PhotosAreKnown, LastGiven, photoVars, pageVars, boundVars
<1>9. CASE ReadPhotos
  <2>1. refreshes' \in Nat /\ UNCHANGED <<position, mem, reply>>
    BY <1>9 DEF ReadPhotos, PhotosAreKnown, photoVars
  <2>2. CASE snapshot' = {[there |-> TRUE, photos |-> position]}
    BY <2>1, <2>2 DEF PhotosAreKnown, LastGiven
  <2>3. CASE unseen' = TRUE
    BY <2>1, <2>3 DEF PhotosAreKnown
  <2>4. QED
    BY <1>9, <2>2, <2>3 DEF ReadPhotos
<1>10. CASE ApplyPhotos
  <2>1. PICK s \in snapshot : /\ there' = s.there /\ view' = s.photos
                              /\ ~s.there \/ UNCHANGED call
    BY <1>10 DEF ApplyPhotos
  <2>2. /\ snapshot' = {} /\ s.photos \in LastGiven
        /\ UNCHANGED <<position, mem, reply, refreshes, unseen>>
    BY <1>10, <2>1 DEF ApplyPhotos, LastGiven, photoVars, boundVars
  <2>3. LastGiven' = {s.photos}
    BY <2>1, <2>2 DEF LastGiven
  <2>4. CASE unseen
    BY <2>2, <2>4 DEF PhotosAreKnown
  <2>5. CASE ~unseen
    <3>1. \A g \in Handler : Owes(g)' <=> Owes(g)
      BY <2>1, <2>2, <2>5 DEF PhotosAreKnown, Owes, Wrote
    <3>2. QED
      BY <2>2, <2>3, <3>1 DEF PhotosAreKnown
  <2>6. QED
    BY <2>4, <2>5
<1>11. CASE UNCHANGED vars
  BY <1>11 DEF vars, PhotosAreKnown, LastGiven, photoVars, pageVars, boundVars, Owes, Wrote
<1>12. ASSUME NEW h \in Handler, LoseAnswer(h)
       PROVE  PhotosAreKnown'
  <2>1. /\ UNCHANGED <<position, mem, reply, view, refreshes, snapshot>>
        /\ \A g \in Handler \ {h} : call'[g] = call[g]
        /\ unseen' = (unseen \/ (Wrote(h) /\ LastGiven # {position}))
    BY <1>0, <1>12 DEF LoseAnswer, photoVars
  <2>2. \A g \in Handler \ {h} : Owes(g)' <=> Owes(g)
    BY <2>1 DEF Owes, Wrote
  <2>3. LastGiven' = LastGiven /\ (Owes(h) => Wrote(h))
    BY <2>1 DEF LastGiven, Owes
  <2>4. QED
    BY <2>1, <2>2, <2>3 DEF PhotosAreKnown
<1>13. CASE RefreshAnyway
  BY <1>13 DEF RefreshAnyway, PhotosAreKnown, photoVars, boundVars
<1>14. QED
  BY <1>2, <1>3, <1>4, <1>5, <1>6, <1>7, <1>8, <1>9, <1>10, <1>11, <1>12, <1>13 DEF Next

LEMMA KnownIsShown == PhotosInv => PageShowsPhotos
BY DEF PhotosInv, PhotosAreKnown, PageShowsPhotos, Quiet, Owes, LastGiven

---------------------------------------------------------------------------
(* The other sections of the page *)

Time == 0 .. EndOfDay
HourRow == [day : Day, opens : Time, closes : Time]
Row == [what : HourRow, save : Nat]
AmenityRow == [what : Amenity, save : Nat]
RowKey == [kind : {"row"}, row : Row]
NewKey == [kind : {"new"}, day : Day, number : Nat]
EditRow == [key : RowKey \cup NewKey, day : Day, opens : Time, closes : Time]
Shelf == [Promotion -> {"none", "active", "inactive"}]

(* Rows of S by their places.                                              *)
Editor(w, S) ==
  /\ w = [i \in DOMAIN w |-> w[i]]
  /\ \A i \in DOMAIN w : w[i] \in S
  /\ DOMAIN w \subseteq Nat /\ IsFiniteSet(DOMAIN w)

DifferentKeys(w) == \A i, j \in DOMAIN w : w[i].key = w[j].key => i = j

(* New rows are numbered below the number of rows.                         *)
NumbersBelow(w) ==
  \A i \in DOMAIN w : w[i].key.kind = "new" => w[i].key.number < Cardinality(DOMAIN w)

LEMMA HoursOfEditor ==
  ASSUME NEW w, Editor(w, EditRow) \/ Editor(w, HourRow)
  PROVE  HoursOf(w) \subseteq HourRow /\ IsFiniteSet(HoursOf(w))
<1> DEFINE f == [i \in DOMAIN w |-> Hours(w[i])]
<1>1. HoursOf(w) \subseteq HourRow
  BY DEF Editor, EditRow, HourRow, HoursOf, Hours
<1>2. f \in Surjection(DOMAIN w, HoursOf(w))
  BY DEF Surjection, HoursOf
<1>3. IsFiniteSet(DOMAIN w)
  BY DEF Editor
<1>4. QED
  BY <1>1, <1>2, <1>3, FS_Surjection

(* What a save sends are the hours of the rows.                            *)
LEMMA SavedRows ==
  ASSUME NEW w, Editor(w, EditRow)
  PROVE  LET s == [i \in DOMAIN w |-> Hours(w[i])]
         IN  Editor(s, HourRow) /\ HoursOf(s) = HoursOf(w)
<1>1. \A i \in DOMAIN w : Hours(w[i]) \in HourRow /\ Hours(Hours(w[i])) = Hours(w[i])
  BY DEF Editor, EditRow, HourRow, Hours
<1>2. QED
  BY <1>1 DEF Editor, HoursOf

(* An editor that appears has one row per window, each with its own key.   *)
LEMMA NewEditor ==
  ASSUME NEW S \in SUBSET Row, IsFiniteSet(S)
  PROVE  LET w == EditableWindows(S)
         IN  Editor(w, EditRow) /\ HoursOf(w) = Values(S) /\ DifferentKeys(w) /\ NumbersBelow(w)
<1> DEFINE rows == SeqExt!SetToSeq(S)
           w == EditableWindows(S)
<1>1. Cardinality(S) \in Nat /\ ExistsBijection(1 .. Cardinality(S), S)
  BY FS_CardinalityType
<1>2. rows \in Injection(1 .. Cardinality(S), S)
  <2>1. PICK f \in Bijection(1 .. Cardinality(S), S) : TRUE
    BY <1>1 DEF ExistsBijection
  <2>2. f \in [1 .. Cardinality(S) -> S] /\ SeqExt!IsInjective(f)
    BY <2>1 DEF Bijection, Injection, IsInjective, SeqExt!IsInjective
  <2>3. SeqExt!Cardinality(S) = Cardinality(S)
    BY DEF SeqExt!Cardinality, Cardinality
  <2>4. rows \in [1 .. Cardinality(S) -> S] /\ SeqExt!IsInjective(rows)
    BY <2>2, <2>3 DEF SeqExt!SetToSeq
  <2>5. QED
    BY <2>4 DEF Injection, IsInjective, SeqExt!IsInjective
<1>3. rows \in Surjection(1 .. Cardinality(S), S) /\ IsFiniteSet(1 .. Cardinality(S))
  <2>1. IsFiniteSet(1 .. Cardinality(S)) /\ Cardinality(1 .. Cardinality(S)) = Cardinality(S)
    BY <1>1, FS_Interval
  <2>2. QED
    BY <1>2, <2>1, FS_Injection
<1>4. /\ DOMAIN rows = 1 .. Cardinality(S)
      /\ \A i \in DOMAIN rows : rows[i] \in Row
      /\ \A i, j \in DOMAIN rows : rows[i] = rows[j] => i = j
      /\ \A r \in S : \E i \in DOMAIN rows : rows[i] = r
      /\ \A i \in DOMAIN rows : rows[i] \in S
  BY <1>2, <1>3 DEF Injection, IsInjective, Surjection
<1>5. /\ DOMAIN w = DOMAIN rows
      /\ w = [i \in DOMAIN w |-> w[i]]
      /\ \A i \in DOMAIN w : w[i] = [key |-> [kind |-> "row", row |-> rows[i]],
                                    day |-> rows[i].what.day, opens |-> rows[i].what.opens,
                                    closes |-> rows[i].what.closes]
  BY DEF EditableWindows
<1>6. \A i \in DOMAIN w : /\ w[i] \in EditRow
                          /\ Hours(w[i]) = rows[i].what
                          /\ w[i].key = [kind |-> "row", row |-> rows[i]]
  BY <1>4, <1>5 DEF EditRow, RowKey, Row, HourRow, Hours
<1>7. DifferentKeys(w) /\ NumbersBelow(w)
  BY <1>4, <1>5, <1>6 DEF DifferentKeys, NumbersBelow
<1>8. HoursOf(w) = Values(S)
  BY <1>4, <1>5, <1>6 DEF HoursOf, Values
<1>9. Editor(w, EditRow)
  BY <1>1, <1>3, <1>4, <1>5, <1>6 DEF Editor
<1>10. QED
  BY <1>7, <1>8, <1>9

(* One row is typed over: it and what shares its key.                      *)
LEMMA TypedOver ==
  ASSUME NEW w, Editor(w, EditRow), NEW i \in DOMAIN w,
         NEW field \in {"opens", "closes"}, NEW time \in Time
  PROVE  LET u == UpdateWindow(w, w[i].key, field, time)
         IN  /\ Editor(u, EditRow) /\ DOMAIN u = DOMAIN w
             /\ \A j \in DOMAIN w : u[j].key = w[j].key
             /\ DifferentKeys(w) => HoursOf(w) \subseteq HoursOf(u) \cup {Hours(w[i])}
<1> DEFINE u == UpdateWindow(w, w[i].key, field, time)
<1>1. \A j \in DOMAIN w : w[j] \in EditRow
  BY DEF Editor
<1>2. DOMAIN u = DOMAIN w /\ u = [j \in DOMAIN u |-> u[j]]
  BY DEF UpdateWindow
<1>3. \A j \in DOMAIN w : u[j] = IF w[j].key = w[i].key THEN [w[j] EXCEPT ![field] = time] ELSE w[j]
  BY DEF UpdateWindow
<1>4. \A j \in DOMAIN w : u[j] \in EditRow /\ u[j].key = w[j].key
  BY <1>1, <1>3 DEF EditRow
<1>5. Editor(u, EditRow)
  BY <1>2, <1>4 DEF Editor
<1>6. ASSUME DifferentKeys(w), NEW x \in HoursOf(w)
      PROVE  x \in HoursOf(u) \cup {Hours(w[i])}
  <2>1. PICK j \in DOMAIN w : x = Hours(w[j])
    BY DEF HoursOf
  <2>2. j # i => u[j] = w[j]
    BY <1>3, <1>6 DEF DifferentKeys
  <2>3. QED
    BY <1>2, <2>1, <2>2 DEF HoursOf
<1>7. QED
  BY <1>2, <1>4, <1>5, <1>6

(* One row is removed: it and what shares its key.                         *)
LEMMA TakenOut ==
  ASSUME NEW w, Editor(w, EditRow), NEW i \in DOMAIN w
  PROVE  LET u == RemoveWindows(w, w[i].key)
         IN  /\ Editor(u, EditRow)
             /\ DifferentKeys(w) => DifferentKeys(u) /\ HoursOf(w) \subseteq HoursOf(u) \cup {Hours(w[i])}
<1> DEFINE u == RemoveWindows(w, w[i].key)
<1>1. /\ DOMAIN u \subseteq DOMAIN w /\ u = [j \in DOMAIN u |-> u[j]]
      /\ \A j \in DOMAIN u : u[j] = w[j]
      /\ \A j \in DOMAIN w : w[j].key # w[i].key => j \in DOMAIN u
  BY DEF RemoveWindows
<1>2. Editor(u, EditRow)
  BY <1>1, FS_Subset DEF Editor
<1>3. DifferentKeys(w) => DifferentKeys(u)
  BY <1>1 DEF DifferentKeys
<1>4. ASSUME DifferentKeys(w), NEW x \in HoursOf(w)
      PROVE  x \in HoursOf(u) \cup {Hours(w[i])}
  BY <1>1, <1>4 DEF HoursOf, DifferentKeys
<1>5. QED
  BY <1>2, <1>3, <1>4

(* One row is added behind the others.                                     *)
LEMMA AddedBehind ==
  ASSUME NEW w, Editor(w, EditRow), NEW n \in Nat, NEW d \in Day, LastPlace(w, n)
  PROVE  LET u == AppendWindow(w, n, NewWindow(d, Cardinality(DOMAIN w)))
         IN  /\ Editor(u, EditRow)
             /\ HoursOf(w) \subseteq HoursOf(u)
             /\ NumbersBelow(w) => NumbersBelow(u)
             /\ NumbersBelow(w) /\ DifferentKeys(w) => DifferentKeys(u)
<1> DEFINE k == Cardinality(DOMAIN w)
           u == AppendWindow(w, n, NewWindow(d, k))
<1>1. /\ IsFiniteSet(DOMAIN w) /\ k \in Nat /\ DOMAIN w \subseteq Nat
      /\ \A i \in DOMAIN w : w[i] \in EditRow
  BY FS_CardinalityType DEF Editor
<1>2. n \notin DOMAIN w
  BY <1>1 DEF LastPlace
<1>3. /\ DOMAIN u = DOMAIN w \cup {n} /\ u = [i \in DOMAIN u |-> u[i]]
      /\ u[n] = NewWindow(d, k)
      /\ \A i \in DOMAIN w : u[i] = w[i]
  BY <1>2 DEF AppendWindow
<1>4. IsFiniteSet(DOMAIN u) /\ Cardinality(DOMAIN u) = k + 1
  BY <1>1, <1>2, <1>3, FS_AddElement
<1>5. /\ u[n] \in EditRow
      /\ u[n].key = [kind |-> "new", day |-> d, number |-> k]
  BY <1>1, <1>3, ManageAssumption DEF NewWindow, EditRow, NewKey, Time
<1>6. Editor(u, EditRow)
  BY <1>1, <1>3, <1>4, <1>5 DEF Editor
<1>7. HoursOf(w) \subseteq HoursOf(u)
  BY <1>3 DEF HoursOf
<1>8. ASSUME NumbersBelow(w)
      PROVE  NumbersBelow(u) /\ (DifferentKeys(w) => DifferentKeys(u))
  <2>1. \A i \in DOMAIN w : u[i].key # u[n].key
    <3> SUFFICES ASSUME NEW i \in DOMAIN w, w[i].key = u[n].key PROVE FALSE
      BY <1>3
    <3>1. w[i].key.kind = "new" /\ w[i].key.number = k
      BY <1>5
    <3>2. QED
      BY <1>1, <1>8, <3>1 DEF NumbersBelow
  <2>2. DifferentKeys(w) => DifferentKeys(u)
    BY <1>3, <2>1 DEF DifferentKeys
  <2>3. \A i \in DOMAIN w : u[i].key.kind = "new" => u[i].key.number \in Nat
    BY <1>1, <1>3 DEF EditRow, RowKey, NewKey
  <2>4. NumbersBelow(u)
    BY <1>1, <1>3, <1>4, <1>5, <1>8, <2>3 DEF NumbersBelow
  <2>5. QED
    BY <2>2, <2>4
<1>9. QED
  BY <1>6, <1>7, <1>8

---------------------------------------------------------------------------
(* What is known of the venue, by section *)

VenueOK(v) ==
  /\ v \in [hours : SUBSET Row, closures : SUBSET Closure, promotions : Shelf,
            amenities : SUBSET AmenityRow]
  /\ IsFiniteSet(v.hours)

(* Each section sends requests of its own.                                 *)
RequestOK(r) ==
  /\ r = [kind |-> r.kind, what |-> r.what, save |-> r.save, at |-> r.at, seen |-> r.seen,
          about |-> r.about]
  /\ r.save \in Nat
  /\ r.at \in {"sent", "writing", "saved", "failed"}
  /\ r.about \subseteq Promotion
  /\ \/ r.kind = "hours" /\ section = "hours" /\ Editor(r.what, HourRow) /\ r.about = {}
     \/ /\ r.kind \in {"addClosure", "deleteClosure"} /\ section = "closures"
        /\ r.what \in Closure /\ r.about = {}
     \/ r.kind = "create" /\ section = "promotions"
     \/ r.kind = "deactivate" /\ section = "promotions" /\ r.what \subseteq Promotion
     \/ r.kind = "amenities" /\ section = "amenities" /\ r.what \in SUBSET Amenity /\ r.about = {}

PageOK(p) ==
  /\ p = [there |-> p.there, windows |-> p.windows, closures |-> p.closures,
          items |-> p.items, options |-> p.options, boxes |-> p.boxes]
  /\ p.there \in BOOLEAN /\ Editor(p.windows, EditRow) /\ p.closures \subseteq Closure
  /\ p.items \in Shelf /\ p.options \in {{}, Amenity} /\ p.boxes \subseteq p.options
  /\ ~p.there => p.options = {}

LoadOK(l) == l.failed \subseteq {"venues"} \cup Parts[section] /\ VenueOK(l.venue)

WorkType ==
  /\ section \in DOMAIN Parts
  /\ VenueOK(venue)
  /\ PageOK(page)
  /\ \A r \in request \cup others : RequestOK(r)
  /\ \A r, s \in request : r = s
  /\ request # {} => page.there
  /\ \A l \in loading : LoadOK(l)
  /\ dirty \in BOOLEAN /\ removed \in BOOLEAN /\ twins \in BOOLEAN
  /\ "overtaken" \in missed => section = "amenities"

(* Nothing happens to what other sections are about.                       *)
Untouched ==
  /\ section # "hours" =>
       /\ venue.hours = {} /\ HoursOf(page.windows) = {}
       /\ \A l \in loading : l.venue.hours = {}
  /\ section # "promotions" =>
       /\ venue.promotions = NoPromotions /\ page.items = NoPromotions
       /\ \A l \in loading : l.venue.promotions = NoPromotions
  /\ section # "amenities" =>
       /\ venue.amenities = {} /\ page.boxes = {}
       /\ \A l \in loading : l.venue.amenities = {}

KeysTellRows ==
  /\ ~twins => DifferentKeys(page.windows)
  /\ ~removed => NumbersBelow(page.windows)

(* Under way.                                                              *)
Sent == {r \in request : r.at \in {"sent", "writing"}}
Settled == \A r \in request : r.at = "saved"

(* The hours shown are the venue's, and while a save is under way they are *)
(* those it sends; what the venue has and the page does not was touched.   *)
HoursAreKnown ==
  section = "hours" /\ page.there =>
    /\ "hours" \notin missed /\ ~dirty /\ Settled => Values(venue.hours) = HoursOf(page.windows)
    /\ "hours" \notin missed /\ ~twins => Values(venue.hours) \subseteq HoursOf(page.windows) \cup touched
    /\ \A r \in Sent :
         /\ ~dirty => HoursOf(r.what) = HoursOf(page.windows)
         /\ ~twins => HoursOf(r.what) \subseteq HoursOf(page.windows) \cup touched
         /\ "hours" \notin missed /\ ~twins => Values(venue.hours) \subseteq HoursOf(r.what) \cup touched

(* The closures shown are the venue's, or a load will follow.              *)
ClosuresAreComing ==
  page.there /\ "closures" \notin missed =>
    \/ venue.closures = page.closures
    \/ refreshes > 0 \/ loading # {}
    \/ \E r \in request : r.at = "saved"

(* Inactive promotions stay so, and an answer tells the truth.             *)
Off(shelf) == {q \in Promotion : shelf[q] = "inactive"}

ItemsAreKnown ==
  /\ page.there => \A q \in Promotion \ missed :
       page.items[q] = venue.promotions[q] \/ \E r \in request : r.at = "saved" /\ q \in r.about
  /\ \A r \in request : r.at = "saved" => \A q \in r.about :
       /\ r.kind = "create" /\ q \notin missed => venue.promotions[q] = "active"
       /\ r.kind = "deactivate" => venue.promotions[q] = "inactive"
  /\ Off(page.items) \subseteq Off(venue.promotions)
  /\ \A l \in loading : Off(l.venue.promotions) \subseteq Off(venue.promotions)

(* The same for the boxes of the amenities as for the hours.               *)
BoxesAreKnown ==
  section = "amenities" /\ page.there =>
    /\ "amenities" \notin missed /\ ~dirty /\ Settled => Values(venue.amenities) = page.boxes
    /\ "amenities" \notin missed => Values(venue.amenities) \subseteq page.boxes \cup touched
    /\ "overtaken" \notin missed => \A r \in Sent :
         /\ ~dirty => r.what = page.boxes
         /\ r.what \subseteq page.boxes \cup touched
         /\ "amenities" \notin missed => Values(venue.amenities) \subseteq r.what \cup touched

WorkInv ==
  /\ refreshes \in Nat /\ (section # "photos" => requests \in Nat)
  /\ WorkType /\ Untouched /\ KeysTellRows
  /\ HoursAreKnown /\ ClosuresAreComing /\ ItemsAreKnown /\ BoxesAreKnown

LEMMA NoRows == Editor(<<>>, EditRow) /\ HoursOf(<<>>) = {} /\ DifferentKeys(<<>>) /\ NumbersBelow(<<>>)
<1>1. DOMAIN <<>> = {} /\ <<>> = [i \in DOMAIN <<>> |-> <<>>[i]]
  OBVIOUS
<1>2. IsFiniteSet({})
  BY FS_EmptySet
<1>3. QED
  BY <1>1, <1>2 DEF Editor, HoursOf, DifferentKeys, NumbersBelow

LEMMA NoPromotionsIsShelf == NoPromotions \in Shelf /\ Off(NoPromotions) = {}
BY DEF NoPromotions, Shelf, Off

LEMMA BlankIsOK ==
  /\ PageOK(BlankPage) /\ ~BlankPage.there
  /\ HoursOf(BlankPage.windows) = {} /\ BlankPage.items = NoPromotions /\ BlankPage.boxes = {}
  /\ DifferentKeys(BlankPage.windows) /\ NumbersBelow(BlankPage.windows)
BY NoRows, NoPromotionsIsShelf DEF BlankPage, PageOK

(* A load reads the venue as it is.                                        *)
LEMMA LoadsRead ==
  ASSUME NEW l \in Loads
  PROVE  l.venue = venue /\ l.failed \subseteq {"venues"} \cup Parts[section]
BY DEF Loads

LEMMA InitWork == ManageInit => WorkInv
<1> SUFFICES ASSUME ManageInit PROVE WorkInv
  OBVIOUS
<1>1. /\ page = BlankPage /\ request = {} /\ others = {} /\ missed = {}
      /\ section \in DOMAIN Parts /\ refreshes = 0 /\ requests = 0
      /\ ~dirty /\ ~removed /\ ~twins
      /\ dirty \in BOOLEAN /\ removed \in BOOLEAN /\ twins \in BOOLEAN
      /\ \A l \in loading : l.venue = venue /\ l.failed \subseteq {"venues"} \cup Parts[section]
  BY LoadsRead DEF ManageInit, Init
<1>2. PICK d \in Day, some \in BOOLEAN, open \in BOOLEAN, q \in Promotion :
        venue = [hours      |-> IF section = "hours" /\ some
                                THEN Written({DefaultWindow(d)}, 0) ELSE {},
                 closures   |-> {},
                 promotions |-> IF section = "promotions" /\ some
                                THEN [NoPromotions EXCEPT ![q] = IF open THEN "active" ELSE "inactive"]
                                ELSE NoPromotions,
                 amenities  |-> IF section = "amenities" /\ some THEN Written(Amenity, 0) ELSE {}]
  BY DEF ManageInit
<1>3. /\ Written({DefaultWindow(d)}, 0) = {[what |-> DefaultWindow(d), save |-> 0]}
      /\ [what |-> DefaultWindow(d), save |-> 0] \in Row
      /\ Written(Amenity, 0) \subseteq AmenityRow
  BY ManageAssumption DEF Row, AmenityRow, Written, DefaultWindow, HourRow, Time
<1>4. venue.promotions \in Shelf
  BY <1>2 DEF NoPromotions, Shelf
<1>5. venue \in [hours : SUBSET Row, closures : SUBSET Closure, promotions : Shelf,
                    amenities : SUBSET AmenityRow]
  BY <1>2, <1>3, <1>4
<1>6. IsFiniteSet(venue.hours)
  <2>1. IsFiniteSet({}) /\ IsFiniteSet({[what |-> DefaultWindow(d), save |-> 0]})
    BY FS_EmptySet, FS_Singleton
  <2>2. venue.hours = {} \/ venue.hours = {[what |-> DefaultWindow(d), save |-> 0]}
    BY <1>2, <1>3
  <2>3. QED
    BY <2>1, <2>2
<1>7. VenueOK(venue)
  BY <1>5, <1>6 DEF VenueOK
<1>8. WorkType
  BY <1>1, <1>7, BlankIsOK DEF WorkType, LoadOK
<1>9. Untouched
  BY <1>1, <1>2, BlankIsOK DEF Untouched
<1>10. ItemsAreKnown
  BY <1>1, BlankIsOK, NoPromotionsIsShelf DEF ItemsAreKnown
<1>11. QED
  BY <1>1, <1>8, <1>9, <1>10, BlankIsOK
     DEF WorkInv, KeysTellRows, HoursAreKnown, ClosuresAreComing, BoxesAreKnown

---------------------------------------------------------------------------
(* Editing by hand *)

LEMMA OtherWindows ==
  ASSUME PageOK(page), NEW w, Editor(w, EditRow)
  PROVE  LET p == [page EXCEPT !.windows = w]
         IN  /\ PageOK(p) /\ p.there = page.there /\ p.windows = w /\ p.closures = page.closures
             /\ p.items = page.items /\ p.options = page.options /\ p.boxes = page.boxes
BY DEF PageOK

LEMMA OtherBoxes ==
  ASSUME PageOK(page), NEW b, b \subseteq page.options
  PROVE  LET p == [page EXCEPT !.boxes = b]
         IN  /\ PageOK(p) /\ p.there = page.there /\ p.windows = page.windows
             /\ p.closures = page.closures /\ p.items = page.items
             /\ p.options = page.options /\ p.boxes = b
BY DEF PageOK

(* An edit of the windows that keeps those it does not touch.              *)
LEMMA WindowsEdited ==
  ASSUME WorkInv, section = "hours", section' = section,
         NEW w, Editor(w, EditRow), NEW T, Edit([page EXCEPT !.windows = w], T),
         twins' \in BOOLEAN, removed' \in BOOLEAN, twins => twins',
         DifferentKeys(page.windows) => HoursOf(page.windows) \subseteq HoursOf(w) \cup T,
         ~twins' => DifferentKeys(w), ~removed' => NumbersBelow(w)
  PROVE  WorkInv'
<1> USE DEF WorkInv, Edit
<1>0. /\ PageOK(page)' /\ page'.there = page.there /\ page'.windows = w /\ page'.closures = page.closures
      /\ page'.items = page.items /\ page'.options = page.options /\ page'.boxes = page.boxes
  BY OtherWindows DEF WorkType, PageOK
<1>1. WorkType'
  BY <1>0 DEF WorkType, VenueOK, RequestOK, LoadOK
<1>2. Untouched'
  BY <1>0 DEF Untouched
<1>3. KeysTellRows'
  BY <1>0 DEF KeysTellRows
<1>4. HoursAreKnown'
  <2>1. ~twins' => HoursOf(page.windows) \cup touched \subseteq HoursOf(w) \cup touched'
    BY DEF KeysTellRows
  <2>2. touched \subseteq touched' /\ dirty' /\ missed' = missed /\ request' = request /\ venue' = venue
    OBVIOUS
  <2>3. ~twins' /\ page.there => /\ "hours" \notin missed => Values(venue.hours) \subseteq HoursOf(w) \cup touched'
                    /\ \A r \in Sent : /\ HoursOf(r.what) \subseteq HoursOf(w) \cup touched'
                                       /\ "hours" \notin missed => Values(venue.hours) \subseteq HoursOf(r.what) \cup touched'
    BY <2>1, <2>2 DEF HoursAreKnown
  <2>4. QED
    BY <1>0, <2>2, <2>3 DEF HoursAreKnown, HoursOf, Sent, Settled
<1>5. ClosuresAreComing'
  BY <1>0 DEF ClosuresAreComing
<1>6. ItemsAreKnown'
  BY <1>0 DEF ItemsAreKnown
<1>7. BoxesAreKnown'
  BY DEF BoxesAreKnown
<1>8. QED
  BY <1>1, <1>2, <1>3, <1>4, <1>5, <1>6, <1>7

LEMMA TypeTimeStep ==
  ASSUME WorkInv, section' = section, NEW i \in Nat, NEW field \in {"opens", "closes"},
         NEW time \in Time, TypeTime(i, field, time)
  PROVE  WorkInv'
<1>1. /\ section = "hours" /\ i \in DOMAIN page.windows
      /\ Edit([page EXCEPT !.windows = UpdateWindow(@, @[i].key, field, time)], {Hours(page.windows[i])})
      /\ UNCHANGED <<removed, twins>>
  BY DEF TypeTime
<1>2. Editor(page.windows, EditRow)
  BY DEF WorkInv, WorkType, PageOK
<1> DEFINE shown == page.windows
           w == UpdateWindow(shown, shown[i].key, field, time)
<1>3. /\ Editor(w, EditRow) /\ DOMAIN w = DOMAIN page.windows
      /\ \A j \in DOMAIN w : w[j].key = page.windows[j].key
      /\ DifferentKeys(page.windows) => HoursOf(page.windows) \subseteq HoursOf(w) \cup {Hours(page.windows[i])}
  <2>1. Editor(shown, EditRow) /\ i \in DOMAIN shown
    BY <1>1, <1>2
  <2> HIDE DEF shown
  <2>2. /\ Editor(w, EditRow) /\ DOMAIN w = DOMAIN shown
        /\ \A j \in DOMAIN shown : w[j].key = shown[j].key
        /\ DifferentKeys(shown) => HoursOf(shown) \subseteq HoursOf(w) \cup {Hours(shown[i])}
    BY <2>1, TypedOver
  <2> HIDE DEF w
  <2>3. QED
    BY <2>2 DEF shown
<1>4. /\ DifferentKeys(page.windows) => DifferentKeys(w)
      /\ NumbersBelow(page.windows) => NumbersBelow(w)
  BY <1>3 DEF DifferentKeys, NumbersBelow
<1> HIDE DEF w
<1>5. Edit([page EXCEPT !.windows = w], {Hours(page.windows[i])})
  BY <1>1 DEF w
<1>6. QED
  BY <1>1, <1>3, <1>4, <1>5, WindowsEdited DEF WorkInv, WorkType, KeysTellRows

LEMMA RemoveWindowStep ==
  ASSUME WorkInv, section' = section, NEW i \in Nat, RemoveWindow(i)
  PROVE  WorkInv'
<1>1. /\ section = "hours" /\ i \in DOMAIN page.windows
      /\ Edit([page EXCEPT !.windows = RemoveWindows(@, @[i].key)], {Hours(page.windows[i])})
      /\ removed' = TRUE /\ twins' = twins
  BY DEF RemoveWindow
<1>2. Editor(page.windows, EditRow)
  BY DEF WorkInv, WorkType, PageOK
<1> DEFINE w == RemoveWindows(page.windows, page.windows[i].key)
<1>3. /\ Editor(w, EditRow)
      /\ DifferentKeys(page.windows) =>
           DifferentKeys(w) /\ HoursOf(page.windows) \subseteq HoursOf(w) \cup {Hours(page.windows[i])}
  BY <1>1, <1>2, TakenOut
<1> HIDE DEF w
<1>4. Edit([page EXCEPT !.windows = w], {Hours(page.windows[i])})
  BY <1>1 DEF w
<1>5. QED
  BY <1>1, <1>3, <1>4, WindowsEdited DEF WorkInv, WorkType, KeysTellRows

LEMMA AddWindowStep ==
  ASSUME WorkInv, section' = section, NEW n \in Nat, NEW d \in Day, AddWindow(n, d)
  PROVE  WorkInv'
<1>1. /\ section = "hours" /\ LastPlace(page.windows, n)
      /\ Edit([page EXCEPT !.windows = AppendWindow(@, n, NewWindow(d, Cardinality(DOMAIN @)))], {})
      /\ twins' = (twins \/ removed) /\ removed' = removed
  BY DEF AddWindow
<1>2. Editor(page.windows, EditRow)
  BY DEF WorkInv, WorkType, PageOK
<1> DEFINE w == AppendWindow(page.windows, n, NewWindow(d, Cardinality(DOMAIN page.windows)))
<1>3. /\ Editor(w, EditRow) /\ HoursOf(page.windows) \subseteq HoursOf(w)
      /\ NumbersBelow(page.windows) => NumbersBelow(w)
      /\ NumbersBelow(page.windows) /\ DifferentKeys(page.windows) => DifferentKeys(w)
  BY <1>1, <1>2, AddedBehind
<1> HIDE DEF w
<1>4. Edit([page EXCEPT !.windows = w], {})
  BY <1>1 DEF w
<1>5. QED
  BY <1>1, <1>3, <1>4, WindowsEdited DEF WorkInv, WorkType, KeysTellRows

LEMMA TickStep ==
  ASSUME WorkInv, section' = section, NEW a \in Amenity, TickAmenity(a)
  PROVE  WorkInv'
<1> USE DEF WorkInv
<1>1. PICK b, T : /\ b \subseteq page.options /\ page.boxes \subseteq b \cup T
                  /\ Edit([page EXCEPT !.boxes = b], T)
  <2>1. CASE a \in page.boxes
    <3>1. Edit([page EXCEPT !.boxes = page.boxes \ {a}], {a})
      BY <2>1 DEF TickAmenity
    <3>2. QED
      BY <3>1 DEF WorkType, PageOK
  <2>2. CASE a \notin page.boxes
    <3>1. a \in page.options /\ Edit([page EXCEPT !.boxes = page.boxes \cup {a}], {})
      BY <2>2 DEF TickAmenity
    <3>2. QED
      BY <3>1 DEF WorkType, PageOK
  <2>3. QED
    BY <2>1, <2>2
<1>2. section = "amenities" /\ UNCHANGED <<removed, twins>>
  BY DEF TickAmenity
<1>3. /\ PageOK(page)' /\ page'.there = page.there /\ page'.windows = page.windows
      /\ page'.closures = page.closures /\ page'.items = page.items
      /\ page'.options = page.options /\ page'.boxes = b
  BY <1>1, OtherBoxes DEF WorkType, PageOK, Edit
<1>4. /\ UNCHANGED <<refreshes, requests, venue, request, others, loading, missed>>
      /\ dirty' = TRUE /\ touched' = touched \cup T
  BY <1>1 DEF Edit
<1>5. WorkType'
  BY <1>2, <1>3, <1>4 DEF WorkType, VenueOK, RequestOK, LoadOK
<1>6. Untouched'
  BY <1>2, <1>3, <1>4 DEF Untouched
<1>7. KeysTellRows'
  BY <1>2, <1>3 DEF KeysTellRows
<1>8. HoursAreKnown'
  BY <1>2 DEF HoursAreKnown
<1>9. ClosuresAreComing'
  BY <1>3, <1>4 DEF ClosuresAreComing
<1>10. ItemsAreKnown'
  BY <1>3, <1>4 DEF ItemsAreKnown
<1>11. BoxesAreKnown'
  BY <1>1, <1>2, <1>3, <1>4 DEF BoxesAreKnown, Sent
<1>12. QED
  BY <1>4, <1>5, <1>6, <1>7, <1>8, <1>9, <1>10, <1>11

---------------------------------------------------------------------------
(* Requests and their outcomes *)

LEMMA AskStep ==
  ASSUME WorkInv, section' = section, NEW kind, NEW what, Ask(kind, what), dirty' \in BOOLEAN,
         \/ /\ kind = "hours" /\ section = "hours"
            /\ Editor(what, HourRow) /\ HoursOf(what) = HoursOf(page.windows)
         \/ kind = "amenities" /\ section = "amenities" /\ what = page.boxes
         \/ /\ section \in {"closures", "promotions"}
            /\ RequestOK(NewRequest(kind, what))
  PROVE  WorkInv'
<1> USE DEF WorkInv
<1> DEFINE s == NewRequest(kind, what)
<1>1. /\ page.there /\ request = {} /\ request' = {s} /\ missed' = missed \ {"overtaken"}
      /\ UNCHANGED <<refreshes, venue, page, others, loading, touched, removed, twins>>
      /\ requests' = requests + 1 /\ requests \in Nat
  BY DEF Ask, CountAsk
<1>2. /\ RequestOK(s)
      /\ s.kind = kind /\ s.what = what /\ s.at = "sent"
  BY <1>1 DEF NewRequest, RequestOK, WorkType, PageOK
<1> HIDE DEF s
<1>3. WorkType'
  <2>1. \A r \in (request \cup others)' : RequestOK(r)'
    BY <1>1, <1>2 DEF WorkType, RequestOK
  <2>2. VenueOK(venue)' /\ PageOK(page)' /\ \A l \in loading' : LoadOK(l)'
    BY <1>1 DEF WorkType, VenueOK, PageOK, LoadOK
  <2>3. QED
    BY <1>1, <2>1, <2>2 DEF WorkType
<1>4. Untouched' /\ KeysTellRows'
  BY <1>1 DEF Untouched, KeysTellRows
<1>5. HoursAreKnown'
  BY <1>1, <1>2 DEF HoursAreKnown, Sent, Settled
<1>6. ClosuresAreComing'
  BY <1>1 DEF ClosuresAreComing
<1>7. ItemsAreKnown'
  BY <1>1, <1>2, ManageAssumption DEF ItemsAreKnown
<1>8. BoxesAreKnown'
  BY <1>1, <1>2 DEF BoxesAreKnown, Sent, Settled
<1>9. QED
  BY <1>1, <1>3, <1>4, <1>5, <1>6, <1>7, <1>8

LEMMA SaveHoursStep == ASSUME WorkInv, section' = section, SaveHours PROVE WorkInv'
<1> DEFINE what == [i \in DOMAIN page.windows |-> Hours(page.windows[i])]
<1>1. Editor(what, HourRow) /\ HoursOf(what) = HoursOf(page.windows)
  BY SavedRows DEF WorkInv, WorkType, PageOK
<1>2. section = "hours" /\ Ask("hours", what) /\ dirty' = FALSE
  BY DEF SaveHours
<1> HIDE DEF what
<1>3. QED
  BY <1>1, <1>2, AskStep

LEMMA OtherAsks ==
  ASSUME WorkInv, section' = section,
         \/ SaveAmenities \/ AddPromotion
         \/ \E c \in Closure : AddClosure(c) \/ DeleteClosure(c)
         \/ \E q \in Promotion : Deactivate(q)
  PROVE  WorkInv'
<1>0. dirty \in BOOLEAN
  BY DEF WorkInv, WorkType
<1>1. CASE SaveAmenities
  BY <1>1, AskStep DEF SaveAmenities
<1>2. CASE AddPromotion
  <2>1. section = "promotions" => RequestOK(NewRequest("create", {}))
    BY DEF RequestOK, NewRequest, WorkInv
  <2>2. QED
    BY <1>0, <1>2, <2>1, AskStep DEF AddPromotion
<1>3. ASSUME NEW c \in Closure, AddClosure(c) \/ DeleteClosure(c)
      PROVE  WorkInv'
  <2>1. section = "closures" =>
          /\ RequestOK(NewRequest("addClosure", c))
          /\ RequestOK(NewRequest("deleteClosure", c))
    BY DEF RequestOK, NewRequest, WorkInv
  <2>2. QED
    BY <1>0, <1>3, <2>1, AskStep DEF AddClosure, DeleteClosure
<1>4. ASSUME NEW q \in Promotion, Deactivate(q)
      PROVE  WorkInv'
  <2>1. section = "promotions" =>
          RequestOK(NewRequest("deactivate", {q}))
    BY DEF RequestOK, NewRequest, WorkInv
  <2>2. QED
    BY <1>0, <1>4, <2>1, AskStep DEF Deactivate
<1>5. QED
  BY <1>1, <1>2, <1>3, <1>4

LEMMA WrittenRows ==
  ASSUME NEW S, NEW n
  PROVE  /\ Values(Written(S, n)) = S
         /\ IsFiniteSet(S) => IsFiniteSet(Written(S, n))
<1> DEFINE f == [v \in S |-> [what |-> v, save |-> n]]
<1>1. f \in Surjection(S, Written(S, n))
  BY DEF Surjection, Written
<1>2. Values(Written(S, n)) = S
  <2>1. \A v \in S : [what |-> v, save |-> n] \in Written(S, n) /\ [what |-> v, save |-> n].what = v
    BY DEF Written
  <2>2. \A row \in Written(S, n) : row.what \in S
    BY DEF Written
  <2>3. QED
    BY <2>1, <2>2 DEF Values
<1>3. QED
  BY <1>1, <1>2, FS_Surjection

LEMMA ValuesOfBoth == ASSUME NEW A, NEW B PROVE Values(A \cup B) = Values(A) \cup Values(B)
BY DEF Values

(* What a request may do to the venue.                                     *)
LEMMA OutcomeEffects ==
  ASSUME VenueOK(venue), NEW r, RequestOK(r), NEW o \in Outcomes(r)
  PROVE  /\ VenueOK(o.venue) /\ o.about \subseteq Promotion
         /\ IF r.kind = "hours" THEN Values(o.venue.hours) = Values(Kept(r)) \cup HoursOf(r.what)
                                ELSE o.venue.hours = venue.hours
         /\ IF r.kind = "amenities" THEN Values(o.venue.amenities) = Values(Kept(r)) \cup r.what
                                    ELSE o.venue.amenities = venue.amenities
         /\ r.kind \notin {"addClosure", "deleteClosure"} => o.venue.closures = venue.closures
         /\ Off(venue.promotions) \subseteq Off(o.venue.promotions)
         /\ \A q \in Promotion \ o.about : o.venue.promotions[q] = venue.promotions[q]
         /\ r.kind \notin {"create", "deactivate"} =>
              o.about = {} /\ o.venue.promotions = venue.promotions
         /\ r.kind = "create" => \A q \in o.about : o.venue.promotions[q] = "active"
         /\ r.kind = "deactivate" => \A q \in o.about : o.venue.promotions[q] = "inactive"
<1>0. /\ venue \in [hours : SUBSET Row, closures : SUBSET Closure, promotions : Shelf,
                    amenities : SUBSET AmenityRow]
      /\ IsFiniteSet(venue.hours)
  BY DEF VenueOK
<1>1. CASE r.kind = "hours"
  <2>1. Editor(r.what, HourRow)
    BY <1>1 DEF RequestOK
  <2>2. HoursOf(r.what) \subseteq HourRow /\ IsFiniteSet(HoursOf(r.what))
    BY <2>1, HoursOfEditor
  <2> DEFINE new == Written(HoursOf(r.what), r.save)
             rows == Kept(r) \cup new
  <2>3. o.venue = [venue EXCEPT !.hours = rows] /\ o.about = {}
    BY <1>1 DEF Outcomes, Outcome, ReplaceHours
  <2>4. new \subseteq Row /\ IsFiniteSet(new) /\ Values(new) = HoursOf(r.what)
    <3>1. new \subseteq Row
      BY <2>2 DEF RequestOK, Written, Row
    <3>2. QED
      BY <2>2, <3>1, WrittenRows
  <2>5. Kept(r) \subseteq venue.hours /\ IsFiniteSet(Kept(r))
    BY <1>0, <1>1, FS_Subset DEF Kept, RowsFor
  <2>6. rows \in SUBSET Row /\ IsFiniteSet(rows) /\ Values(rows) = Values(Kept(r)) \cup HoursOf(r.what)
    <3> HIDE DEF new
    <3>1. IsFiniteSet(rows) /\ Values(rows) = Values(Kept(r)) \cup Values(new)
      BY <2>4, <2>5, FS_Union, ValuesOfBoth
    <3>2. QED
      BY <1>0, <2>4, <2>5, <3>1
  <2> HIDE DEF rows
  <2>7. QED
    BY <1>0, <1>1, <2>3, <2>6 DEF VenueOK, Off
<1>2. CASE r.kind \in {"addClosure", "deleteClosure"}
  <2>1. r.what \in Closure
    BY <1>2 DEF RequestOK
  <2>2. PICK C \in SUBSET Closure : o.venue = [venue EXCEPT !.closures = C] /\ o.about = {}
    <3>1. CASE r.kind = "addClosure"
      BY <1>0, <2>1, <3>1 DEF Outcomes, Outcome
    <3>2. CASE r.kind = "deleteClosure"
      <4>1. o = Outcome([venue EXCEPT !.closures = @ \ {r.what}], {})
        BY <3>2 DEF Outcomes
      <4>2. venue.closures \ {r.what} \in SUBSET Closure
        BY <1>0
      <4>3. QED
        BY <4>1, <4>2 DEF Outcome
    <3>3. QED
      BY <1>2, <3>1, <3>2
  <2>3. QED
    BY <1>0, <1>2, <2>2 DEF VenueOK, Off
<1>3. CASE r.kind = "create"
  <2>1. PICK q \in Promotion \ Existing : o.venue = CreatePromotion(q) /\ o.about = {q}
    BY <1>3 DEF Outcomes, Outcome
  <2>2. venue.promotions[q] = "none"
    BY <2>1 DEF Existing
  <2>3. QED
    BY <1>0, <1>3, <2>1, <2>2 DEF VenueOK, CreatePromotion, Off, Shelf
<1>4. CASE r.kind = "deactivate"
  <2>1. PICK q \in r.what : o.venue = DeactivatePromotion(q) /\ o.about = {q}
    BY <1>4 DEF Outcomes, Outcome
  <2>2. q \in Promotion
    BY <1>4, <2>1 DEF RequestOK
  <2>3. QED
    BY <1>0, <1>4, <2>1, <2>2 DEF VenueOK, DeactivatePromotion, Off, Shelf
<1>5. CASE r.kind = "amenities"
  <2>1. r.what \in SUBSET Amenity
    BY <1>5 DEF RequestOK
  <2> DEFINE new == Written(r.what \ Values(Kept(r)), r.save)
             rows == Kept(r) \cup new
  <2>2. o.venue = [venue EXCEPT !.amenities = rows] /\ o.about = {}
    BY <1>5 DEF Outcomes, Outcome, SetVenueAmenities
  <2>3. new \subseteq AmenityRow
    BY <2>1 DEF RequestOK, Written, AmenityRow
  <2>4. Values(new) = r.what \ Values(Kept(r))
    BY WrittenRows
  <2>5. rows \in SUBSET AmenityRow /\ Values(rows) = Values(Kept(r)) \cup r.what
    <3> HIDE DEF new
    <3>1. Values(rows) = Values(Kept(r)) \cup Values(new)
      BY ValuesOfBoth
    <3>2. Kept(r) \subseteq venue.amenities
      BY <1>5 DEF Kept, RowsFor
    <3>3. QED
      BY <1>0, <2>3, <2>4, <3>1, <3>2
  <2> HIDE DEF rows
  <2>6. QED
    BY <1>0, <1>5, <2>2, <2>5 DEF VenueOK, Off
<1>6. QED
  BY <1>1, <1>2, <1>3, <1>4, <1>5 DEF RequestOK

LEMMA AnsweredRecord ==
  ASSUME NEW r, r = [kind |-> r.kind, what |-> r.what, save |-> r.save, at |-> r.at,
                     seen |-> r.seen, about |-> r.about],
         NEW x, NEW y
  PROVE  [r EXCEPT !.at = x, !.about = y] =
           [kind |-> r.kind, what |-> r.what, save |-> r.save, at |-> x, seen |-> r.seen, about |-> y]
<1> DEFINE u == [r EXCEPT !.at = x]
<1>1. DOMAIN r = {"kind", "what", "save", "at", "seen", "about"}
  OBVIOUS
<1>2. /\ DOMAIN u = {"kind", "what", "save", "at", "seen", "about"}
      /\ u.kind = r.kind /\ u.what = r.what /\ u.save = r.save /\ u.seen = r.seen /\ u.at = x
      /\ u = [f \in DOMAIN u |-> u[f]]
  BY <1>1
<1> HIDE DEF u
<1>3. [u EXCEPT !.about = y] =
        [kind |-> r.kind, what |-> r.what, save |-> r.save, at |-> x, seen |-> r.seen, about |-> y]
  BY <1>2
<1>4. QED
  BY <1>3 DEF u

(* A commit, whether or not its answer arrives.                            *)
LEMMA CommitStep ==
  ASSUME WorkInv, section' = section, NEW r \in request, Commit(r)
  PROVE  WorkInv'
<1> USE DEF WorkInv
<1>1. PICK o \in Outcomes(r), arrives \in BOOLEAN :
        /\ venue' = o.venue
        /\ request' = {[r EXCEPT !.at = IF arrives THEN "saved" ELSE "failed", !.about = o.about]}
        /\ missed' = MissedAfter(r, o, arrives)
  BY DEF Commit
<1>2. /\ UNCHANGED <<refreshes, requests, page, others, loading, touched, dirty, removed, twins>>
      /\ r \in Sent
  BY DEF Commit, Commits, Sent
<1>3. /\ VenueOK(venue) /\ RequestOK(r) /\ page.there
      /\ request = {r}
      /\ "overtaken" \in missed => section = "amenities"
  BY DEF WorkType
<1> DEFINE s == [kind |-> r.kind, what |-> r.what, save |-> r.save,
                 at |-> IF arrives THEN "saved" ELSE "failed", seen |-> r.seen, about |-> o.about]
<1>4. /\ VenueOK(o.venue) /\ o.about \subseteq Promotion
      /\ IF r.kind = "hours" THEN Values(o.venue.hours) = Values(Kept(r)) \cup HoursOf(r.what)
                             ELSE o.venue.hours = venue.hours
      /\ IF r.kind = "amenities" THEN Values(o.venue.amenities) = Values(Kept(r)) \cup r.what
                                 ELSE o.venue.amenities = venue.amenities
      /\ r.kind \notin {"addClosure", "deleteClosure"} => o.venue.closures = venue.closures
      /\ Off(venue.promotions) \subseteq Off(o.venue.promotions)
      /\ \A q \in Promotion \ o.about : o.venue.promotions[q] = venue.promotions[q]
      /\ r.kind \notin {"create", "deactivate"} =>
           o.about = {} /\ o.venue.promotions = venue.promotions
      /\ r.kind = "create" => \A q \in o.about : o.venue.promotions[q] = "active"
      /\ r.kind = "deactivate" => \A q \in o.about : o.venue.promotions[q] = "inactive"
  BY <1>3, OutcomeEffects
<1>5. request' = {s}
  <2>1. r = [kind |-> r.kind, what |-> r.what, save |-> r.save, at |-> r.at, seen |-> r.seen,
             about |-> r.about]
    BY <1>3 DEF RequestOK
  <2> HIDE DEF WorkInv
  <2>2. [r EXCEPT !.at = IF arrives THEN "saved" ELSE "failed", !.about = o.about] = s
    BY <2>1, AnsweredRecord
  <2>3. QED
    BY <1>1, <2>2
<1>6. RequestOK(s)
  BY <1>3, <1>4 DEF RequestOK
<1>7. /\ r.kind = "hours" <=> section = "hours"
      /\ r.kind = "amenities" <=> section = "amenities"
      /\ r.kind \in {"create", "deactivate"} <=> section = "promotions"
  BY <1>3 DEF RequestOK
<1>8. /\ section \in {"hours", "amenities"} /\ "overtaken" \notin missed =>
           missed' = IF Kept(r) = {} THEN missed \ {section} ELSE missed \cup {section}
      /\ "overtaken" \in missed => missed' = missed \cup {"amenities"}
      /\ section \notin {"hours", "amenities"} =>
           missed' = IF arrives THEN missed \ o.about ELSE missed \cup Changed(o.venue) \cup o.about
  BY <1>1, <1>3, <1>7 DEF MissedAfter, Replacing
<1>9. "overtaken" \notin Changed(o.venue) /\ "closures" \notin o.about
  BY <1>4, ManageAssumption DEF Changed
<1>10. WorkType'
  <2>1. "overtaken" \in missed' => section = "amenities"
    BY <1>3, <1>4, <1>8, <1>9, ManageAssumption
  <2>2. VenueOK(venue)' /\ PageOK(page)'
    BY <1>1, <1>2, <1>4 DEF WorkType, VenueOK, PageOK
  <2>3. \A q \in (request \cup others)' : RequestOK(q)'
    <3>1. \A q \in request' \cup others : RequestOK(q)
      BY <1>5, <1>6 DEF WorkType
    <3>2. QED
      BY <1>2, <3>1 DEF RequestOK
  <2>4. \A k \in loading' : LoadOK(k)'
    BY <1>2 DEF WorkType, LoadOK, VenueOK
  <2>5. /\ section' \in DOMAIN Parts
        /\ \A q, k \in request' : q = k
        /\ request' # {} => page'.there
        /\ dirty' \in BOOLEAN /\ removed' \in BOOLEAN /\ twins' \in BOOLEAN
    BY <1>2, <1>3, <1>5 DEF WorkType
  <2>6. QED
    BY <2>1, <2>2, <2>3, <2>4, <2>5 DEF WorkType
<1>11. Untouched'
  BY <1>1, <1>2, <1>4, <1>7 DEF Untouched
<1>12. KeysTellRows'
  BY <1>2 DEF KeysTellRows
<1>13. HoursAreKnown'
  <2> SUFFICES ASSUME section = "hours"
               PROVE  HoursAreKnown'
    BY DEF HoursAreKnown
  <2>1. /\ "hours" \in missed' \/ Values(venue'.hours) = HoursOf(r.what)
        /\ missed' \ {"hours"} = missed \ {"hours"}
    BY <1>1, <1>3, <1>4, <1>7, <1>8 DEF Values
  <2>2. Sent' = {}
    BY <1>5 DEF Sent
  <2>3. /\ ~dirty => HoursOf(r.what) = HoursOf(page.windows)
        /\ ~twins => HoursOf(r.what) \subseteq HoursOf(page.windows) \cup touched
    BY <1>2, <1>3 DEF HoursAreKnown
  <2>4. QED
    BY <1>2, <2>1, <2>2, <2>3 DEF HoursAreKnown
<1>14. ClosuresAreComing'
  <2> SUFFICES ASSUME ~arrives, "closures" \notin missed'
               PROVE  venue'.closures = page.closures \/ refreshes > 0 \/ loading # {}
    BY <1>2, <1>5 DEF ClosuresAreComing
  <2>1. "closures" \notin missed
    BY <1>8
  <2>2. o.venue.closures = venue.closures
    BY <1>4, <1>7, <1>8 DEF Changed
  <2>3. QED
    BY <1>1, <1>2, <1>3, <2>1, <2>2 DEF ClosuresAreComing, Sent
<1>15. ItemsAreKnown'
  <2>1. ASSUME NEW q \in Promotion \ missed'
        PROVE  page.items[q] = venue'.promotions[q] \/ (s.at = "saved" /\ q \in s.about)
    <3>1. CASE q \in o.about
      BY <1>4, <1>7, <1>8, <2>1, <3>1
    <3>2. CASE q \notin o.about
      <4>1. q \notin missed
        BY <1>8, <2>1, <3>2, ManageAssumption
      <4>2. page.items[q] = venue.promotions[q]
        BY <1>2, <1>3, <4>1 DEF ItemsAreKnown, Sent
      <4>3. QED
        BY <1>1, <1>4, <2>1, <3>2, <4>2
    <3>3. QED
      BY <3>1, <3>2
  <2>2. QED
    BY <1>1, <1>2, <1>3, <1>4, <1>5, <2>1 DEF ItemsAreKnown
<1>16. BoxesAreKnown'
  <2> SUFFICES ASSUME section = "amenities"
               PROVE  BoxesAreKnown'
    BY DEF BoxesAreKnown
  <2>1. Sent' = {}
    BY <1>5 DEF Sent
  <2>2. CASE "overtaken" \in missed
    BY <1>8, <2>1, <2>2 DEF BoxesAreKnown
  <2>3. CASE "overtaken" \notin missed
    <3>1. "amenities" \in missed' \/ Values(venue'.amenities) = r.what
      BY <1>1, <1>4, <1>7, <1>8, <2>3 DEF Values
    <3>2. /\ ~dirty => r.what = page.boxes
          /\ r.what \subseteq page.boxes \cup touched
      BY <1>2, <1>3, <2>3 DEF BoxesAreKnown
    <3>3. QED
      BY <1>2, <2>1, <3>1, <3>2 DEF BoxesAreKnown
  <2>4. QED
    BY <2>2, <2>3
<1>17. QED
  BY <1>2, <1>10, <1>11, <1>12, <1>13, <1>14, <1>15, <1>16

LEMMA RefuseStep ==
  ASSUME WorkInv, section' = section, NEW r \in request, Refuse(r)
  PROVE  WorkInv'
<1> USE DEF WorkInv
<1> DEFINE s == [r EXCEPT !.at = "failed"]
<1>1. /\ r.at \in {"sent", "writing"} /\ request' = {s}
      /\ UNCHANGED <<refreshes, requests, venue, page, others, loading, touched, dirty, removed, twins, missed>>
  BY DEF Refuse, historyVars
<1>2. RequestOK(r) /\ request = {r} /\ page.there
  BY DEF WorkType
<1>3. s.at = "failed" /\ RequestOK(s)
  BY <1>2 DEF RequestOK
<1> HIDE DEF s
<1>4. WorkType'
  BY <1>1, <1>2, <1>3 DEF WorkType, VenueOK, PageOK, RequestOK, LoadOK
<1>5. Untouched' /\ KeysTellRows'
  BY <1>1 DEF Untouched, KeysTellRows
<1>6. HoursAreKnown'
  BY <1>1, <1>3 DEF HoursAreKnown, Sent, Settled
<1>7. ClosuresAreComing'
  BY <1>1, <1>2 DEF ClosuresAreComing
<1>8. ItemsAreKnown'
  BY <1>1, <1>2, <1>3 DEF ItemsAreKnown
<1>9. BoxesAreKnown'
  BY <1>1, <1>3 DEF BoxesAreKnown, Sent, Settled
<1>10. QED
  BY <1>1, <1>4, <1>5, <1>6, <1>7, <1>8, <1>9

LEMMA DeletingIsOK ==
  ASSUME NEW r, RequestOK(r)
  PROVE  LET s == Deleting(r)
         IN  RequestOK(s) /\ s.at = "writing" /\ s.kind = r.kind /\ s.what = r.what
<1> DEFINE u == [r EXCEPT !.at = "writing"]
           s == Deleting(r)
<1>1. /\ u = [kind |-> r.kind, what |-> r.what, save |-> r.save, at |-> "writing",
              seen |-> r.seen, about |-> r.about]
      /\ s = [u EXCEPT !.seen = RowsFor(r)]
  BY DEF RequestOK, Deleting
<1> HIDE DEF u
<1>2. s = [kind |-> r.kind, what |-> r.what, save |-> r.save, at |-> "writing",
           seen |-> RowsFor(r), about |-> r.about]
  BY <1>1
<1>3. QED
  BY <1>2 DEF RequestOK

LEMMA BeginStep ==
  ASSUME WorkInv, section' = section, NEW r \in request, BeginReplace(r)
  PROVE  WorkInv'
<1> USE DEF WorkInv
<1> DEFINE s == Deleting(r)
<1>1. /\ r.at = "sent" /\ request' = {s}
      /\ UNCHANGED <<refreshes, requests, venue, page, others, loading, touched, dirty, removed, twins, missed>>
  BY DEF BeginReplace, Deletes, historyVars
<1>2. RequestOK(r) /\ request = {r} /\ page.there
  BY DEF WorkType
<1>3. s.at = "writing" /\ s.kind = r.kind /\ s.what = r.what /\ RequestOK(s)
  BY <1>2, DeletingIsOK
<1> HIDE DEF s
<1>4. WorkType'
  BY <1>1, <1>2, <1>3 DEF WorkType, VenueOK, PageOK, RequestOK, LoadOK
<1>5. Untouched' /\ KeysTellRows'
  BY <1>1 DEF Untouched, KeysTellRows
<1>6. HoursAreKnown'
  BY <1>1, <1>2, <1>3 DEF HoursAreKnown, Sent, Settled
<1>7. ClosuresAreComing'
  BY <1>1, <1>2 DEF ClosuresAreComing
<1>8. ItemsAreKnown'
  BY <1>1, <1>2, <1>3 DEF ItemsAreKnown
<1>9. BoxesAreKnown'
  BY <1>1, <1>2, <1>3 DEF BoxesAreKnown, Sent, Settled
<1>10. QED
  BY <1>1, <1>4, <1>5, <1>6, <1>7, <1>8, <1>9

(* The list of promotions, patched by an answer.                           *)
LEMMA PatchedItems ==
  ASSUME PageOK(page), NEW r
  PROVE  LET p == PatchItems(r)
         IN  /\ PageOK(p) /\ p.there = page.there /\ p.windows = page.windows
             /\ p.closures = page.closures /\ p.options = page.options /\ p.boxes = page.boxes
             /\ \A q \in Promotion :
                  p.items[q] = IF r.kind = "create" /\ q \in r.about THEN "active"
                               ELSE IF r.kind = "deactivate" /\ q \in r.about THEN "inactive"
                               ELSE page.items[q]
             /\ r.about = {} => p.items = page.items
<1> DEFINE items == [q \in Promotion |->
                       IF r.kind = "create" /\ q \in r.about THEN "active"
                       ELSE IF r.kind = "deactivate" /\ q \in r.about THEN "inactive" ELSE page.items[q]]
<1>1. PatchItems(r) = [page EXCEPT !.items = items]
  BY DEF PatchItems
<1>2. items \in Shelf /\ (r.about = {} => items = page.items)
  BY DEF PageOK, Shelf
<1>3. \A q \in Promotion :
        items[q] = IF r.kind = "create" /\ q \in r.about THEN "active"
                   ELSE IF r.kind = "deactivate" /\ q \in r.about THEN "inactive" ELSE page.items[q]
  OBVIOUS
<1> HIDE DEF items
<1>4. QED
  BY <1>1, <1>2, <1>3 DEF PageOK

LEMMA TakeAnswerStep ==
  ASSUME WorkInv, section' = section, NEW r \in request, TakeAnswer(r)
  PROVE  WorkInv'
<1> USE DEF WorkInv
<1>1. /\ request' = {} /\ r.at \in {"saved", "failed"}
      /\ UNCHANGED <<requests, venue, others, loading, touched, removed, twins>>
  BY DEF TakeAnswer
<1>2. RequestOK(r) /\ request = {r} /\ page.there /\ PageOK(page)
  BY DEF WorkType
<1>3. CASE r.at = "failed"
  <2>1. dirty' = TRUE /\ UNCHANGED <<page, refreshes, missed>>
    BY <1>3 DEF TakeAnswer
  <2>2. WorkType'
    BY <1>1, <2>1 DEF WorkType, VenueOK, PageOK, RequestOK, LoadOK
  <2>3. Untouched' /\ KeysTellRows'
    BY <1>1, <2>1 DEF Untouched, KeysTellRows
  <2>4. HoursAreKnown' /\ BoxesAreKnown'
    BY <1>1, <2>1 DEF HoursAreKnown, BoxesAreKnown, Sent
  <2>5. ClosuresAreComing'
    BY <1>1, <1>2, <1>3, <2>1 DEF ClosuresAreComing
  <2>6. ItemsAreKnown'
    BY <1>1, <1>2, <1>3, <2>1 DEF ItemsAreKnown
  <2>7. QED
    BY <1>1, <2>1, <2>2, <2>3, <2>4, <2>5, <2>6
<1>4. CASE r.at = "saved"
  <2>1. /\ refreshes' = refreshes + 1 /\ page' = PatchItems(r)
        /\ missed' = missed \ {"closures"} /\ dirty' = dirty
    BY <1>4 DEF TakeAnswer
  <2>2. /\ PageOK(page') /\ page'.there = page.there /\ page'.windows = page.windows
        /\ page'.closures = page.closures /\ page'.options = page.options /\ page'.boxes = page.boxes
        /\ \A q \in Promotion :
             page'.items[q] = IF r.kind = "create" /\ q \in r.about THEN "active"
                              ELSE IF r.kind = "deactivate" /\ q \in r.about THEN "inactive"
                              ELSE page.items[q]
        /\ r.about = {} => page'.items = page.items
    BY <1>2, <2>1, PatchedItems
  <2>3. WorkType'
    BY <1>1, <2>1, <2>2 DEF WorkType, VenueOK, PageOK, RequestOK, LoadOK
  <2>4. section # "promotions" => r.about = {}
    BY <1>2 DEF RequestOK
  <2>5. Untouched' /\ KeysTellRows'
    BY <1>1, <2>1, <2>2, <2>4 DEF Untouched, KeysTellRows
  <2>6. HoursAreKnown' /\ BoxesAreKnown'
    BY <1>1, <1>2, <1>4, <2>1, <2>2 DEF HoursAreKnown, BoxesAreKnown, Sent, Settled
  <2>7. ClosuresAreComing'
    BY <1>1, <1>2, <2>1 DEF ClosuresAreComing
  <2>8. ItemsAreKnown'
    <3>1. r.about = {} \/ r.kind \in {"create", "deactivate"}
      BY <1>2 DEF RequestOK
    <3>2. ASSUME NEW q \in Promotion \ missed'
          PROVE  page'.items[q] = venue.promotions[q]
      <4>1. q \notin missed
        BY <2>1, <3>2, ManageAssumption
      <4>2. QED
        BY <1>2, <1>4, <2>2, <3>1, <3>2, <4>1 DEF ItemsAreKnown
    <3>3. Off(page'.items) \subseteq Off(venue.promotions)
      BY <1>2, <1>4, <2>2 DEF ItemsAreKnown, Off
    <3>4. QED
      BY <1>1, <3>2, <3>3 DEF ItemsAreKnown
  <2>9. QED
    BY <1>1, <2>1, <2>3, <2>5, <2>6, <2>7, <2>8
<1>5. QED
  BY <1>1, <1>3, <1>4

---------------------------------------------------------------------------
(* Changes made elsewhere *)

(* Requests nobody waits for come, go on and are dropped.                  *)
LEMMA OthersStep ==
  ASSUME WorkInv, section' = section, \A r \in others' \ others : RequestOK(r),
         UNCHANGED <<refreshes, venue, page, request, loading, edits, historyVars>>,
         section # "photos" => requests' \in Nat
  PROVE  WorkInv'
<1> USE DEF WorkInv, historyVars
<1>1. WorkType'
  <2>1. \A r \in (request \cup others)' : RequestOK(r)'
    BY DEF WorkType, RequestOK
  <2>2. QED
    BY <2>1 DEF WorkType, VenueOK, PageOK, LoadOK
<1>2. Untouched' /\ KeysTellRows'
  BY DEF Untouched, KeysTellRows
<1>3. HoursAreKnown' /\ BoxesAreKnown' /\ ClosuresAreComing' /\ ItemsAreKnown'
  BY DEF HoursAreKnown, BoxesAreKnown, ClosuresAreComing, ItemsAreKnown, Sent, Settled
<1>4. QED
  BY <1>1, <1>2, <1>3

LEMMA BeginElsewhereStep ==
  ASSUME WorkInv, section' = section, NEW r \in others, BeginElsewhere(r)
  PROVE  WorkInv'
<1>1. RequestOK(Deleting(r))
  BY DeletingIsOK DEF WorkInv, WorkType
<1>2. QED
  BY <1>1, OthersStep DEF BeginElsewhere, WorkInv

LEMMA ManagersElsewhere == ASSUME WorkInv, section' = section, ManageElsewhere PROVE WorkInv'
<1>1. /\ requests' = requests + 1
      /\ UNCHANGED <<refreshes, venue, page, request, loading, edits, historyVars>>
      /\ requests \in Nat
  BY DEF ManageElsewhere, CountAsk, WorkInv
<1>2. PICK kind, what :
        /\ AskElsewhere(kind, what)
        /\ \/ section = "hours" /\ kind = "hours" /\ Editor(what, HourRow)
           \/ section = "closures" /\ kind \in {"addClosure", "deleteClosure"} /\ what \in Closure
           \/ section = "promotions" /\ kind = "create"
           \/ section = "promotions" /\ kind = "deactivate" /\ what \subseteq Promotion
           \/ section = "amenities" /\ kind = "amenities" /\ what \in SUBSET Amenity
  <2>1. Editor(<<>>, HourRow) /\ \A d \in Day : Editor(<<DefaultWindow(d)>>, HourRow)
    <3>1. ASSUME NEW d \in Day
          PROVE  Editor(<<DefaultWindow(d)>>, HourRow)
      <4>1. DefaultWindow(d) \in HourRow
        BY ManageAssumption DEF DefaultWindow, HourRow, Time
      <4>2. /\ DOMAIN <<DefaultWindow(d)>> = {1}
            /\ <<DefaultWindow(d)>>[1] = DefaultWindow(d)
            /\ <<DefaultWindow(d)>> = [i \in DOMAIN <<DefaultWindow(d)>> |-> <<DefaultWindow(d)>>[i]]
        OBVIOUS
      <4>3. QED
        <5>1. IsFiniteSet({1})
          BY FS_Singleton
        <5>2. QED
          BY <4>1, <4>2, <5>1 DEF Editor
    <3>2. QED
      BY <3>1, NoRows DEF Editor
  <2>2. CASE section = "hours" /\ (AskElsewhere("hours", <<>>) \/ \E d \in Day : AskElsewhere("hours", <<DefaultWindow(d)>>))
    BY <2>1, <2>2
  <2>3. CASE section = "amenities" /\ \E t \in {{}, Amenity} : AskElsewhere("amenities", t)
    BY <2>3
  <2>4. CASE section = "closures" /\ \E c \in Closure :
               AskElsewhere("addClosure", c) \/ AskElsewhere("deleteClosure", c)
    BY <2>4
  <2>5. CASE section = "promotions" /\ (AskElsewhere("create", {}) \/ \E q \in Existing : AskElsewhere("deactivate", {q}))
    BY <2>5 DEF Existing
  <2>6. QED
    BY <2>2, <2>3, <2>4, <2>5 DEF ManageElsewhere
<1>3. RequestOK(NewRequest(kind, what))
  BY <1>1, <1>2 DEF RequestOK, NewRequest
<1>4. QED
  BY <1>1, <1>2, <1>3, OthersStep DEF AskElsewhere

LEMMA CommitElsewhereStep ==
  ASSUME WorkInv, section' = section, NEW r \in others, CommitElsewhere(r)
  PROVE  WorkInv'
<1> USE DEF WorkInv
<1>1. PICK o \in Outcomes(r) : venue' = o.venue /\ missed' = missed \cup Changed(o.venue)
  BY DEF CommitElsewhere
<1> DEFINE v == o.venue
<1>2. /\ UNCHANGED <<refreshes, requests, page, request, loading, touched, dirty, removed, twins>>
      /\ others' \subseteq others
  BY DEF CommitElsewhere
<1>3. VenueOK(venue) /\ RequestOK(r)
  BY DEF WorkType
<1>4. /\ VenueOK(v) /\ Off(venue.promotions) \subseteq Off(v.promotions)
      /\ section # "hours" => v.hours = venue.hours
      /\ section # "promotions" => v.promotions = venue.promotions
      /\ section # "amenities" => v.amenities = venue.amenities
  <2>1. /\ section # "hours" => r.kind # "hours"
        /\ section # "promotions" => r.kind \notin {"create", "deactivate"}
        /\ section # "amenities" => r.kind # "amenities"
    BY <1>3 DEF RequestOK
  <2>2. QED
    BY <1>3, <2>1, OutcomeEffects
<1>5. /\ "hours" \notin missed' => "hours" \notin missed /\ Values(v.hours) = Values(venue.hours)
      /\ "closures" \notin missed' => "closures" \notin missed /\ v.closures = venue.closures
      /\ "amenities" \notin missed' => "amenities" \notin missed /\ Values(v.amenities) = Values(venue.amenities)
      /\ \A q \in Promotion \ missed' : q \notin missed /\ v.promotions[q] = venue.promotions[q]
      /\ "overtaken" \in missed' <=> "overtaken" \in missed
  BY <1>1, ManageAssumption DEF Changed
<1> HIDE DEF v
<1>6. venue' = v
  BY <1>1 DEF v
<1>7. WorkType'
  BY <1>2, <1>4, <1>5, <1>6 DEF WorkType, VenueOK, PageOK, RequestOK, LoadOK
<1>8. Untouched' /\ KeysTellRows'
  BY <1>2, <1>4, <1>6 DEF Untouched, KeysTellRows
<1>9. HoursAreKnown'
  BY <1>2, <1>5, <1>6 DEF HoursAreKnown, Sent, Settled
<1>10. ClosuresAreComing'
  BY <1>2, <1>5, <1>6 DEF ClosuresAreComing
<1>11. ItemsAreKnown'
  <2>1. \A s \in request : s.about \subseteq Promotion
    BY DEF WorkType, RequestOK
  <2>2. QED
    BY <1>2, <1>4, <1>5, <1>6, <2>1 DEF ItemsAreKnown, Off
<1>12. BoxesAreKnown'
  BY <1>2, <1>5, <1>6 DEF BoxesAreKnown, Sent, Settled
<1>13. QED
  BY <1>2, <1>7, <1>8, <1>9, <1>10, <1>11, <1>12

---------------------------------------------------------------------------
(* Loads of the page *)

LEMMA ReadPageStep == ASSUME WorkInv, section' = section, ReadPage PROVE WorkInv'
<1> USE DEF WorkInv
<1>1. PICK l \in Loads : loading' = {l}
  BY DEF ReadPage
<1>2. l.venue = venue /\ l.failed \subseteq {"venues"} \cup Parts[section]
  BY LoadsRead
<1>3. /\ refreshes' = refreshes - 1 /\ refreshes > 0
      /\ UNCHANGED <<requests, venue, page, request, others, touched, dirty, removed, twins, missed>>
  BY DEF ReadPage, historyVars
<1>4. WorkType'
  BY <1>1, <1>2, <1>3 DEF WorkType, VenueOK, PageOK, RequestOK, LoadOK
<1>5. Untouched'
  BY <1>1, <1>2, <1>3 DEF Untouched
<1>6. KeysTellRows'
  BY <1>3 DEF KeysTellRows
<1>7. HoursAreKnown' /\ BoxesAreKnown'
  BY <1>3 DEF HoursAreKnown, BoxesAreKnown, Sent, Settled
<1>8. ClosuresAreComing'
  BY <1>1, <1>3 DEF ClosuresAreComing
<1>9. ItemsAreKnown'
  BY <1>1, <1>2, <1>3 DEF ItemsAreKnown
<1>10. QED
  BY <1>3, <1>4, <1>5, <1>6, <1>7, <1>8, <1>9

LEMMA RefreshStep == ASSUME WorkInv, section' = section, RefreshOtherwise PROVE WorkInv'
<1> USE DEF WorkInv
<1>1. /\ refreshes' = refreshes + 1
      /\ UNCHANGED <<requests, venue, page, request, others, loading, touched, dirty, removed, twins, missed>>
  BY DEF RefreshOtherwise, historyVars
<1>2. WorkType' /\ Untouched' /\ KeysTellRows'
  BY <1>1 DEF WorkType, VenueOK, PageOK, RequestOK, LoadOK, Untouched, KeysTellRows
<1>3. HoursAreKnown' /\ BoxesAreKnown' /\ ClosuresAreComing' /\ ItemsAreKnown'
  BY <1>1 DEF HoursAreKnown, BoxesAreKnown, ClosuresAreComing, ItemsAreKnown, Sent, Settled
<1>4. QED
  BY <1>1, <1>2, <1>3

(* What a load holds, and what the page then holds.                        *)
LEMMA LoadHolds ==
  ASSUME WorkInv, NEW l \in loading
  PROVE  /\ VenueOK(l.venue)
         /\ LoadedCatalog(l) \in {{}, Amenity}
         /\ LoadedAmenities(l) \subseteq Values(l.venue.amenities)
         /\ LoadedPromotions(l) \in Shelf
         /\ Off(LoadedPromotions(l)) \subseteq Off(venue.promotions)
         /\ section # "promotions" => LoadedPromotions(l) = NoPromotions
         /\ "overtaken" \notin Stale(l)
         /\ "hours" \notin Stale(l) => Values(l.venue.hours) = Values(venue.hours)
         /\ "closures" \notin Stale(l) => l.venue.closures = venue.closures
         /\ "amenities" \notin Stale(l) => LoadedCatalog(l) = Amenity /\ LoadedAmenities(l) = Values(venue.amenities)
         /\ \A q \in Promotion \ Stale(l) : LoadedPromotions(l)[q] = venue.promotions[q]
<1>1. VenueOK(l.venue) /\ Off(l.venue.promotions) \subseteq Off(venue.promotions)
  BY DEF WorkInv, WorkType, LoadOK, ItemsAreKnown
<1>2. section # "promotions" => l.venue.promotions = NoPromotions
  BY DEF WorkInv, Untouched
<1>3. /\ LoadedPromotions(l) \in Shelf
      /\ Off(LoadedPromotions(l)) \subseteq Off(venue.promotions)
      /\ section # "promotions" => LoadedPromotions(l) = NoPromotions
  BY <1>1, <1>2, NoPromotionsIsShelf DEF LoadedPromotions, VenueOK
<1>4. LoadedCatalog(l) \in {{}, Amenity} /\ LoadedAmenities(l) \subseteq Values(l.venue.amenities)
  BY DEF LoadedCatalog, LoadedAmenities
<1>5. QED
  BY <1>1, <1>3, <1>4, ManageAssumption DEF Stale

LEMMA Rendered ==
  ASSUME WorkInv, NEW l \in loading, There(l)
  PROVE  LET p == Render(l)
         IN  /\ PageOK(p) /\ p.there = TRUE /\ p.closures = l.venue.closures
             /\ page.there => p.windows = page.windows /\ p.items = page.items
             /\ ~page.there => /\ HoursOf(p.windows) = Values(l.venue.hours)
                               /\ DifferentKeys(p.windows) /\ NumbersBelow(p.windows)
                               /\ p.items = LoadedPromotions(l)
             /\ page.options = {} => p.boxes = LoadedCatalog(l) \cap LoadedAmenities(l)
             /\ page.options # {} => p.boxes = LoadedCatalog(l) \cap page.boxes
<1> DEFINE p == Render(l)
<1>1. p = [there    |-> TRUE,
           windows  |-> IF page.there THEN page.windows ELSE EditableWindows(l.venue.hours),
           closures |-> l.venue.closures,
           items    |-> IF page.there THEN page.items ELSE LoadedPromotions(l),
           options  |-> LoadedCatalog(l),
           boxes    |-> {a \in LoadedCatalog(l) :
                           IF a \in page.options THEN a \in page.boxes ELSE a \in LoadedAmenities(l)}]
  BY DEF Render
<1>2. /\ l.venue.hours \in SUBSET Row /\ IsFiniteSet(l.venue.hours)
      /\ l.venue.closures \subseteq Closure
  BY LoadHolds DEF VenueOK
<1>3. PageOK(page)
  BY DEF WorkInv, WorkType
<1>4. /\ Editor(EditableWindows(l.venue.hours), EditRow)
      /\ HoursOf(EditableWindows(l.venue.hours)) = Values(l.venue.hours)
      /\ DifferentKeys(EditableWindows(l.venue.hours)) /\ NumbersBelow(EditableWindows(l.venue.hours))
  BY <1>2, NewEditor
<1>5. Editor(p.windows, EditRow)
  BY <1>1, <1>3, <1>4 DEF PageOK
<1>6. p.items \in Shelf
  BY <1>1, <1>3, LoadHolds DEF PageOK
<1>7. PageOK(p)
  BY <1>1, <1>2, <1>5, <1>6, LoadHolds DEF PageOK
<1>8. /\ page.options = {} => p.boxes = LoadedCatalog(l) \cap LoadedAmenities(l)
      /\ page.options # {} => p.boxes = LoadedCatalog(l) \cap page.boxes
  BY <1>1, <1>3, LoadHolds DEF PageOK
<1>9. QED
  BY <1>1, <1>4, <1>7, <1>8

(* A load puts the section's components on the page, or gives them new     *)
(* data, or takes them away.                                               *)
LEMMA RenderPageStep == ASSUME WorkInv, section' = section, RenderPage PROVE WorkInv'
<1> USE DEF WorkInv
<1>1. PICK l \in loading :
        /\ page' = Render(l)
        /\ missed' = MissedWith(l)
        /\ IF There(l)
           THEN UNCHANGED <<request, others>>
           ELSE request' = {} /\ others' = others \cup {r \in request : r.at \in {"sent", "writing"}}
        /\ IF Fresh \/ ~There(l)
           THEN dirty' = FALSE /\ removed' = FALSE /\ twins' = FALSE
           ELSE UNCHANGED <<dirty, removed, twins>>
  BY DEF RenderPage
<1>2. loading' = {} /\ UNCHANGED <<refreshes, requests, venue, touched>>
  BY DEF RenderPage
<1>3. /\ VenueOK(venue) /\ PageOK(page) /\ Values(venue.amenities) \subseteq Amenity
      /\ \A r \in request \cup others : RequestOK(r)
      /\ dirty \in BOOLEAN /\ removed \in BOOLEAN /\ twins \in BOOLEAN
      /\ request # {} => page.there
      /\ "overtaken" \in missed => section = "amenities"
  BY DEF WorkType, VenueOK, AmenityRow, Values
<1>4. /\ Fresh \/ (section = "amenities" /\ LoadedCatalog(l) = {}) =>
           missed' = Stale(l) \cup IF request = {} THEN {} ELSE {"overtaken"}
      /\ ~Fresh /\ ~(section = "amenities" /\ LoadedCatalog(l) = {}) =>
           missed' = (missed \ {"closures"}) \cup (Stale(l) \cap {"closures"})
  BY <1>1 DEF MissedWith
<1>5. "closures" \notin missed' => "closures" \notin Stale(l)
  BY <1>4
<1>6. "overtaken" \in missed' => section = "amenities"
  BY <1>3, <1>4, LoadHolds DEF Fresh
<1>7. CASE ~There(l)
  <2>1. page' = BlankPage /\ request' = {} /\ ~removed' /\ ~twins'
    BY <1>1, <1>7 DEF Render
  <2>2. WorkType'
    <3>1. VenueOK(venue)' /\ PageOK(page)'
      BY <1>2, <1>3, <2>1, BlankIsOK DEF VenueOK, PageOK
    <3>2. request' \cup others' \subseteq request \cup others
      BY <1>1, <1>7, <2>1
    <3>3. \A r \in (request \cup others)' : RequestOK(r)'
      BY <1>3, <3>2 DEF RequestOK
    <3>4. dirty' \in BOOLEAN /\ removed' \in BOOLEAN /\ twins' \in BOOLEAN
      BY <1>1, <1>7
    <3>5. section' \in DOMAIN Parts
      BY DEF WorkType
    <3>6. QED
      BY <1>2, <1>6, <2>1, <3>1, <3>3, <3>4, <3>5 DEF WorkType
  <2>3. Untouched' /\ KeysTellRows'
    BY <1>2, <2>1, BlankIsOK DEF Untouched, KeysTellRows
  <2>4. HoursAreKnown' /\ BoxesAreKnown' /\ ClosuresAreComing'
    BY <2>1, BlankIsOK DEF HoursAreKnown, BoxesAreKnown, ClosuresAreComing
  <2>5. ItemsAreKnown'
    BY <1>2, <2>1, BlankIsOK, NoPromotionsIsShelf DEF ItemsAreKnown
  <2>6. QED
    BY <1>2, <2>2, <2>3, <2>4, <2>5
<1>8. CASE There(l)
  <2>1. /\ PageOK(page') /\ page'.there /\ page'.closures = l.venue.closures
        /\ page.there => page'.windows = page.windows /\ page'.items = page.items
        /\ ~page.there => /\ HoursOf(page'.windows) = Values(l.venue.hours)
                          /\ DifferentKeys(page'.windows) /\ NumbersBelow(page'.windows)
                          /\ page'.items = LoadedPromotions(l)
        /\ page.options = {} => page'.boxes = LoadedCatalog(l) \cap LoadedAmenities(l)
        /\ page.options # {} => page'.boxes = LoadedCatalog(l) \cap page.boxes
    BY <1>1, <1>8, Rendered
  <2>2. request' = request /\ others' = others
    BY <1>1, <1>8
  <2>3. /\ Fresh => dirty' = FALSE /\ removed' = FALSE /\ twins' = FALSE
        /\ ~Fresh => UNCHANGED <<dirty, removed, twins>>
    BY <1>1, <1>8
  <2>4. WorkType'
    <3>1. VenueOK(venue)' /\ PageOK(page)'
      BY <1>2, <1>3, <2>1 DEF VenueOK, PageOK
    <3>2. \A r \in (request \cup others)' : RequestOK(r)'
      BY <1>3, <2>2 DEF RequestOK
    <3>3. dirty' \in BOOLEAN /\ removed' \in BOOLEAN /\ twins' \in BOOLEAN
      BY <1>3, <2>3
    <3>4. /\ section' \in DOMAIN Parts
          /\ \A r, s \in request' : r = s
          /\ request' # {} => page'.there
          /\ \A k \in loading' : LoadOK(k)'
      BY <1>2, <2>1, <2>2 DEF WorkType
    <3>5. QED
      BY <1>6, <3>1, <3>2, <3>3, <3>4 DEF WorkType
  <2>5. Untouched'
    <3>1. section # "hours" => l.venue.hours = {} /\ HoursOf(page.windows) = {}
      BY DEF Untouched
    <3>2. section # "promotions" => page.items = NoPromotions /\ LoadedPromotions(l) = NoPromotions
      BY LoadHolds DEF Untouched
    <3>3. section # "amenities" => page.boxes = {} /\ LoadedAmenities(l) = {}
      BY LoadHolds DEF Untouched, Values
    <3>4. QED
      BY <1>2, <2>1, <3>1, <3>2, <3>3 DEF Untouched, Values
  <2>6. KeysTellRows'
    <3>1. CASE ~page.there
      BY <2>1, <3>1 DEF KeysTellRows
    <3>2. CASE page.there /\ ~Fresh
      BY <2>1, <2>3, <3>2 DEF KeysTellRows
    <3>3. CASE page.there /\ Fresh
      <4>1. section = "amenities"
        BY <3>3 DEF Fresh
      <4>2. DOMAIN page.windows = {}
        BY <4>1 DEF Untouched, HoursOf
      <4>3. QED
        BY <2>1, <3>3, <4>2 DEF KeysTellRows, DifferentKeys, NumbersBelow
    <3>4. QED
      BY <3>1, <3>2, <3>3
  <2>7. HoursAreKnown'
    <3> SUFFICES ASSUME section = "hours"
                 PROVE  HoursAreKnown'
      BY DEF HoursAreKnown
    <3>1. CASE page.there
      <4>1. ~Fresh /\ ("hours" \in missed' <=> "hours" \in missed)
        BY <1>4, <3>1 DEF Fresh
      <4>2. QED
        BY <1>2, <2>1, <2>2, <2>3, <3>1, <4>1 DEF HoursAreKnown, Sent, Settled
    <3>2. CASE ~page.there
      <4>1. Fresh /\ request = {} /\ missed' = Stale(l)
        BY <1>3, <1>4, <3>2 DEF Fresh
      <4>2. QED
        BY <1>2, <2>1, <2>2, <3>2, <4>1, LoadHolds DEF HoursAreKnown, Sent
    <3>3. QED
      BY <3>1, <3>2
  <2>8. ClosuresAreComing'
    BY <1>2, <1>5, <2>1, LoadHolds DEF ClosuresAreComing
  <2>9. ItemsAreKnown'
    <3>1. CASE page.there /\ section = "promotions"
      <4>1. \A q \in Promotion : q \in missed' <=> q \in missed
        BY <1>4, <3>1, ManageAssumption DEF Fresh
      <4>2. \A r \in request : r.about \subseteq Promotion
        BY <1>3 DEF RequestOK
      <4>3. QED
        BY <1>2, <2>1, <2>2, <3>1, <4>1, <4>2 DEF ItemsAreKnown
    <3>2. CASE page.there /\ section # "promotions"
      <4>1. /\ \A r \in request : r.about = {}
            /\ page.items = NoPromotions /\ venue.promotions = NoPromotions
        BY <1>3, <3>2 DEF RequestOK, Untouched
      <4>2. QED
        BY <1>2, <2>1, <2>2, <3>2, <4>1 DEF ItemsAreKnown
    <3>3. CASE ~page.there
      <4>1. request = {} /\ missed' = Stale(l)
        BY <1>3, <1>4, <3>3 DEF Fresh
      <4>2. QED
        BY <1>2, <2>1, <2>2, <3>3, <4>1, LoadHolds DEF ItemsAreKnown
    <3>4. QED
      BY <3>1, <3>2, <3>3
  <2>10. BoxesAreKnown'
    <3> SUFFICES ASSUME section = "amenities"
                 PROVE  BoxesAreKnown'
      BY DEF BoxesAreKnown
    <3>1. CASE page.options = {}
      <4>1. missed' = Stale(l) \cup IF request = {} THEN {} ELSE {"overtaken"}
        BY <1>4, <3>1 DEF Fresh
      <4>2. "overtaken" \notin missed' => request' = {}
        BY <2>2, <4>1
      <4>3. "amenities" \notin missed' => Values(venue.amenities) = page'.boxes
        <5> SUFFICES ASSUME "amenities" \notin missed'
                     PROVE  Values(venue.amenities) = page'.boxes
          OBVIOUS
        <5>1. "amenities" \notin Stale(l)
          BY <4>1
        <5>2. LoadedCatalog(l) = Amenity /\ LoadedAmenities(l) = Values(venue.amenities)
          BY <5>1, LoadHolds
        <5>3. page'.boxes = Amenity \cap Values(venue.amenities)
          BY <2>1, <3>1, <5>2
        <5>4. QED
          BY <1>3, <5>3
      <4>4. QED
        BY <1>2, <4>2, <4>3 DEF BoxesAreKnown, Sent
    <3>2. CASE page.options # {} /\ LoadedCatalog(l) = {}
      <4>1. missed' = Stale(l) \cup IF request = {} THEN {} ELSE {"overtaken"}
        BY <1>4, <3>2
      <4>2. "amenities" \in missed' /\ ("overtaken" \notin missed' => request' = {})
        BY <2>2, <3>2, <4>1 DEF Stale
      <4>3. QED
        BY <4>2 DEF BoxesAreKnown, Sent
    <3>3. CASE page.options # {} /\ LoadedCatalog(l) # {}
      <4>1. page.there /\ ~Fresh
        BY <1>3, <3>3 DEF Fresh, PageOK
      <4>2. /\ "amenities" \in missed' <=> "amenities" \in missed
            /\ "overtaken" \in missed' <=> "overtaken" \in missed
        BY <1>4, <3>3, <4>1
      <4>3. page'.boxes = page.boxes
        <5>1. LoadedCatalog(l) = Amenity
          BY <3>3, LoadHolds
        <5>2. page.boxes \subseteq Amenity
          BY <1>3 DEF PageOK
        <5>3. page'.boxes = Amenity \cap page.boxes
          BY <2>1, <3>3, <5>1
        <5>4. QED
          BY <5>2, <5>3
      <4>4. QED
        BY <1>2, <2>1, <2>2, <2>3, <4>1, <4>2, <4>3 DEF BoxesAreKnown, Sent, Settled
    <3>4. QED
      BY <3>1, <3>2, <3>3
  <2>11. QED
    BY <1>2, <2>4, <2>5, <2>6, <2>7, <2>8, <2>9, <2>10
<1>9. QED
  BY <1>7, <1>8

---------------------------------------------------------------------------
(* The sections together *)

WorkAction ==
  \/ ReadPage \/ RenderPage \/ RefreshOtherwise
  \/ \E n \in 1 .. MaxEdits + 1 :
       \/ \E d \in Day : AddWindow(n, d)
       \/ RemoveWindow(n)
       \/ \E time \in 0 .. EndOfDay - 1 : TypeTime(n, "opens", time)
       \/ \E time \in 1 .. EndOfDay : TypeTime(n, "closes", time)
  \/ \E a \in Amenity : TickAmenity(a)
  \/ SaveHours \/ SaveAmenities \/ AddPromotion
  \/ \E c \in Closure : AddClosure(c) \/ DeleteClosure(c)
  \/ \E q \in Promotion : Deactivate(q)
  \/ \E r \in request : BeginReplace(r) \/ Commit(r) \/ Refuse(r) \/ TakeAnswer(r)
  \/ \E r \in others : BeginElsewhere(r) \/ CommitElsewhere(r)
  \/ ManageElsewhere

LEMMA WorkStep == ASSUME WorkInv, section' = section, WorkAction PROVE WorkInv'
<1>1. ASSUME NEW n \in 1 .. MaxEdits + 1,
             \/ \E d \in Day : AddWindow(n, d)
             \/ RemoveWindow(n)
             \/ \E time \in 0 .. EndOfDay - 1 : TypeTime(n, "opens", time)
             \/ \E time \in 1 .. EndOfDay : TypeTime(n, "closes", time)
      PROVE  WorkInv'
  <2>1. n \in Nat
    OBVIOUS
  <2>2. 0 .. EndOfDay - 1 \subseteq Time /\ 1 .. EndOfDay \subseteq Time
    BY ManageAssumption DEF Time
  <2>3. CASE \E time \in 0 .. EndOfDay - 1 : TypeTime(n, "opens", time)
    <3>1. PICK time \in 0 .. EndOfDay - 1 : TypeTime(n, "opens", time)
      BY <2>3
    <3>2. QED
      BY <2>1, <2>2, <3>1, TypeTimeStep
  <2>4. CASE \E time \in 1 .. EndOfDay : TypeTime(n, "closes", time)
    <3>1. PICK time \in 1 .. EndOfDay : TypeTime(n, "closes", time)
      BY <2>4
    <3>2. QED
      BY <2>1, <2>2, <3>1, TypeTimeStep
  <2>5. QED
    BY <1>1, <2>1, <2>3, <2>4, AddWindowStep, RemoveWindowStep
<1>2. CASE \E r \in request : BeginReplace(r) \/ Commit(r) \/ Refuse(r) \/ TakeAnswer(r)
  BY <1>2, BeginStep, CommitStep, RefuseStep, TakeAnswerStep
<1>3. CASE \E a \in Amenity : TickAmenity(a)
  BY <1>3, TickStep
<1>4. QED
  BY <1>1, <1>2, <1>3, ReadPageStep, RenderPageStep, RefreshStep, SaveHoursStep, OtherAsks,
     BeginElsewhereStep, CommitElsewhereStep, ManagersElsewhere DEF WorkAction

(* A behaviour about the photos has nothing else on the page, and the      *)
(* photos are left alone in every other.                                   *)
OneSection ==
  IF section = "photos"
  THEN ~page.there
  ELSE view = position /\ snapshot = {} /\ \A h \in Handler : call[h] = None

ManageInv == PhotosInv /\ WorkInv /\ OneSection

LEMMA InitManage == ManageInit => ManageInv
<1> SUFFICES ASSUME ManageInit PROVE ManageInv
  OBVIOUS
<1>1. PhotosInv
  BY InitPhotos DEF ManageInit
<1>2. OneSection
  BY BlankIsOK DEF ManageInit, Init, NoCalls, OneSection
<1>3. QED
  BY <1>1, <1>2, InitWork DEF ManageInv

LEMMA StepManage == ManageInv /\ [ManageNext]_manageVars => ManageInv'
<1> SUFFICES ASSUME ManageInv, [ManageNext]_manageVars PROVE ManageInv'
  OBVIOUS
<1>1. ASSUME section' = section, UNCHANGED workVars, [Next]_vars,
             section = "photos" \/ UNCHANGED vars
      PROVE  ManageInv'
  <2>1. UNCHANGED <<venue, page, request, others, loading, touched, dirty, removed, twins, missed>>
    BY <1>1 DEF workVars, historyVars
  <2>2. PhotosInv'
    BY <1>1, StepPhotos DEF ManageInv
  <2>3. refreshes' \in Nat /\ (section' # "photos" => requests' \in Nat)
    BY <1>1, <2>2 DEF PhotosInv, PhotosAreKnown, ManageInv, WorkInv, vars, pageVars, boundVars
  <2>4. OneSection'
    BY <1>1, <2>1 DEF ManageInv, OneSection, vars, photoVars, pageVars
  <2>5. WorkType' /\ Untouched' /\ KeysTellRows'
    BY <1>1, <2>1
       DEF ManageInv, WorkInv, WorkType, VenueOK, PageOK, RequestOK, LoadOK, Untouched, KeysTellRows
  <2>6. HoursAreKnown' /\ BoxesAreKnown' /\ ItemsAreKnown'
    BY <1>1, <2>1
       DEF ManageInv, WorkInv, HoursAreKnown, BoxesAreKnown, ItemsAreKnown, Sent, Settled
  <2>7. ClosuresAreComing'
    BY <1>1, <2>1 DEF ManageInv, WorkInv, ClosuresAreComing, OneSection, vars, pageVars
  <2>8. QED
    BY <2>2, <2>3, <2>4, <2>5, <2>6, <2>7 DEF ManageInv, WorkInv
<1>2. ASSUME section # "photos", WorkAction,
             UNCHANGED <<section, photoVars, mem, reply, there, view, busy, call, snapshot, unseen>>
      PROVE  ManageInv'
  <2>1. WorkInv'
    BY <1>2, WorkStep DEF ManageInv
  <2>2. OneSection'
    BY <1>2 DEF ManageInv, OneSection, photoVars
  <2>3. IInv' /\ PageIsSound'
    <3>1. IInv'
      BY <1>2, StandingStill DEF ManageInv, PhotosInv, IInv, photoVars, PhotosTypeOK
    <3>2. PageIsSound'
      BY <1>2 DEF ManageInv, PhotosInv, PageIsSound, NotRemoving, photoVars
    <3>3. QED
      BY <3>1, <3>2
  <2>4. PhotosAreKnown'
    BY <1>2, <2>1, <2>2 DEF ManageInv, PhotosInv, PhotosAreKnown, WorkInv, OneSection, LastGiven
  <2>5. QED
    BY <2>1, <2>2, <2>3, <2>4 DEF ManageInv, PhotosInv
<1>3. CASE UNCHANGED manageVars
  BY <1>1, <1>3 DEF manageVars
<1>4. CASE section = "photos" /\ Next /\ UNCHANGED <<section, workVars>>
  BY <1>1, <1>4
<1>5. QED
  BY <1>2, <1>3, <1>4 DEF ManageNext, WorkAction

LEMMA ManageInvariance == ManageSpec => []ManageInv
BY InitManage, StepManage, PTL DEF ManageSpec

---------------------------------------------------------------------------
(* For any number of photos, of requests in flight and of refreshes, and   *)
(* whatever order they are answered and applied in, the page ends up with  *)
(* the photos in the order the server has them, except after what it has   *)
(* no way to know: another manager's change, an answer lost after its      *)
(* commit, a list of photos that failed to load (venue-photo-manager.tsx   *)
(* over the photo routes).                                                 *)
THEOREM PhotoPageIsRight == Spec => []PageShowsPhotos
BY InitPhotos, StepPhotos, KnownIsShown, PTL DEF Spec

(* The same of the photos within the whole page, where positions stay      *)
(* distinct and within the limit too.                                      *)
THEOREM PhotoSectionIsRight == ManageSpec => [](PhotosInOrder /\ PageShowsPhotos)
<1>1. ManageInv => PhotosInOrder /\ PageShowsPhotos
  BY KnownIsShown, RowsAreFew DEF ManageInv, PhotosInv, IInv, PhotosInOrder, Distinct, PhotosTypeOK, Rows
<1>2. QED
  BY <1>1, ManageInvariance, PTL

(* For any number of windows, closures, promotions, amenities, edits,      *)
(* requests and refreshes, and for replacements of rows that overlap, a    *)
(* section whose requests are answered and whose loads are done shows what *)
(* the venue has, except what the page cannot know, and a promotion shown  *)
(* as inactive is inactive at every moment (manage/page.tsx and the        *)
(* components of its sections).                                            *)
THEOREM WorkspaceIsRight == ManageSpec => []WorkspaceShowsTheVenue
<1>1. ManageInv => WorkspaceShowsTheVenue
  <2> SUFFICES ASSUME ManageInv, page.there
               PROVE  /\ ManageQuiet =>
                           /\ "hours" \notin missed /\ ~dirty => Values(venue.hours) = HoursOf(page.windows)
                           /\ "closures" \notin missed => venue.closures = page.closures
                           /\ "amenities" \notin missed /\ ~dirty => Values(venue.amenities) = page.boxes
                           /\ \A q \in Promotion \ missed : page.items[q] = venue.promotions[q]
                      /\ \A q \in Promotion : page.items[q] = "inactive" => venue.promotions[q] = "inactive"
    BY DEF WorkspaceShowsTheVenue
  <2> USE DEF ManageInv, WorkInv, ManageQuiet
  <2>1. \A q \in Promotion : page.items[q] = "inactive" => venue.promotions[q] = "inactive"
    BY DEF ItemsAreKnown, Off
  <2>2. ManageQuiet /\ "hours" \notin missed /\ ~dirty => Values(venue.hours) = HoursOf(page.windows)
    BY DEF HoursAreKnown, Settled, Untouched, Values
  <2>3. ManageQuiet /\ "closures" \notin missed => venue.closures = page.closures
    BY DEF ClosuresAreComing
  <2>4. ManageQuiet /\ "amenities" \notin missed /\ ~dirty => Values(venue.amenities) = page.boxes
    BY DEF BoxesAreKnown, Settled, Untouched, Values
  <2>5. ManageQuiet => \A q \in Promotion \ missed : page.items[q] = venue.promotions[q]
    BY DEF ItemsAreKnown
  <2>6. QED
    BY <2>1, <2>2, <2>3, <2>4, <2>5
<1>2. QED
  BY <1>1, ManageInvariance, PTL

(* For any number of windows and amenities, what leaves the venue by a     *)
(* save of the page was changed or taken out by hand on it, whatever loads *)
(* and answers came between (saveHours, VenueAmenities, and the handlers   *)
(* that replace all rows).                                                 *)
THEOREM SavesTakeNothingAlong == ManageSpec => NothingLeavesUnasked
<1>1. ManageInv =>
        [\A r \in request : Commit(r) =>
           /\ r.kind = "hours" =>
                "hours" \in missed \/ twins \/ Values(venue.hours) \ Values(venue'.hours) \subseteq touched
           /\ r.kind = "amenities" =>
                \/ missed \cap {"amenities", "overtaken"} # {}
                \/ Values(venue.amenities) \ Values(venue'.amenities) \subseteq touched]_manageVars
  <2> SUFFICES ASSUME ManageInv, NEW r \in request, Commit(r)
               PROVE  /\ r.kind = "hours" =>
                           "hours" \in missed \/ twins \/ Values(venue.hours) \ Values(venue'.hours) \subseteq touched
                      /\ r.kind = "amenities" =>
                           \/ missed \cap {"amenities", "overtaken"} # {}
                           \/ Values(venue.amenities) \ Values(venue'.amenities) \subseteq touched
    OBVIOUS
  <2>1. PICK o \in Outcomes(r) : venue' = o.venue
    BY DEF Commit
  <2>2. VenueOK(venue) /\ RequestOK(r) /\ page.there /\ r \in Sent
    BY DEF ManageInv, WorkInv, WorkType, Commit, Commits, Sent
  <2>3. /\ r.kind = "hours" => HoursOf(r.what) \subseteq Values(venue'.hours)
        /\ r.kind = "amenities" => r.what \subseteq Values(venue'.amenities)
    BY <2>1, <2>2, OutcomeEffects
  <2>4. r.kind = "hours" /\ "hours" \notin missed /\ ~twins => Values(venue.hours) \subseteq HoursOf(r.what) \cup touched
    BY <2>2 DEF ManageInv, WorkInv, HoursAreKnown, RequestOK
  <2>5. r.kind = "amenities" /\ missed \cap {"amenities", "overtaken"} = {} =>
          Values(venue.amenities) \subseteq r.what \cup touched
    BY <2>2 DEF ManageInv, WorkInv, BoxesAreKnown, RequestOK
  <2>6. QED
    BY <2>3, <2>4, <2>5
<1>2. QED
  BY <1>1, ManageInvariance, PTL DEF NothingLeavesUnasked
===============================================================================
