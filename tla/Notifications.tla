----------------------------- MODULE Notifications -----------------------------
(***************************************************************************)
(* One user's notifications (apps/api/src/notifications) and the page that *)
(* lists them (apps/web/components/notification-list.tsx).  The list keeps *)
(* what it was first rendered with and patches that by the answers of its  *)
(* calls; the refresh after each answer renders it again and changes       *)
(* nothing.  E-mail, which no state depends on, is left out.               *)
(***************************************************************************)
EXTENDS FiniteSets, Naturals

CONSTANTS
  Event,    \* what the user may be told of: a booking's change, an offer, ...
  ListRows  \* limit of listForUser: 50

ASSUME NoticeAssumption == ListRows \in Nat

VARIABLES
  notice,   \* notifications of the user, by event: readAt
  born,     \* notifications.createdAt, in the order of the rows
  fetched,  \* what the page being rendered has read, {} without one
  items,    \* what the list shows
  asked,    \* the list's calls under way
  apart     \* history: rows changed that the list does not know of

noticePageVars == <<fetched, items, asked>>
noticeVars == <<notice, born, noticePageVars, apart>>

NoticeState == {"none", "unread", "read"}
Rows == {e \in Event : notice[e] # "none"}
NoItems == [e \in Event |-> "none"]

OneCall == [do : {"one"}, event : Event, at : {"sent", "saved"}]
AllCall == [do : {"all"}, at : {"sent", "saved"}]

NoticeTypeOK ==
  /\ notice \in [Event -> NoticeState]
  /\ born \in [Event -> Nat]
  /\ fetched \subseteq [Event -> NoticeState]
  /\ items \in [Event -> NoticeState]
  /\ asked \subseteq OneCall \cup AllCall
  /\ apart \in BOOLEAN

NoticeInit ==
  /\ notice = NoItems
  /\ born = [e \in Event |-> 0]
  /\ fetched = {}
  /\ items = NoItems
  /\ asked = {}
  /\ apart = FALSE

---------------------------------------------------------------------------
(* dispatch, after the handler of the event has committed: it may fail,    *)
(* and never runs twice, so that an event has a row of a user or none.     *)
Dispatch(e) ==
  /\ notice[e] = "none"
  /\ notice' = [notice EXCEPT ![e] = "unread"]
  /\ born' = [born EXCEPT ![e] = Cardinality(Rows)]
  /\ UNCHANGED <<noticePageVars, apart>>

(* listForUser: the rows that are newest.                                  *)
Newest == {e \in Rows : Cardinality({f \in Rows : born[f] > born[e]}) < ListRows}
Latest == [e \in Event |-> IF e \in Newest THEN notice[e] ELSE "none"]

(* The page loads the list; a call that fails says that there is nothing.  *)
LoadNotices(ok) ==
  /\ fetched = {}
  /\ fetched' = {IF ok THEN Latest ELSE NoItems}
  /\ UNCHANGED <<notice, born, items, asked, apart>>

(* A list appears; calls of the one before are nobody's any more.          *)
ShowList ==
  /\ items' \in fetched
  /\ fetched' = {}
  /\ asked' = {}
  /\ apart' = \E e \in Event : items'[e] # "none" /\ items'[e] # notice[e]
  /\ UNCHANGED <<notice, born>>

---------------------------------------------------------------------------
Ask(c) ==
  /\ asked' = asked \cup {c}
  /\ UNCHANGED <<notice, born, fetched, items, apart>>

(* Every row is a button, at any time.                                     *)
MarkOne(e) == items[e] # "none" /\ Ask([do |-> "one", event |-> e, at |-> "sent"])

(* "Mark all read" is disabled by its own call alone.                      *)
MarkAll ==
  /\ items # NoItems
  /\ \A c \in asked : c.do # "all"
  /\ Ask([do |-> "all", at |-> "sent"])

About(c, e) == c.do = "all" \/ c.event = e

(* markRead and markAllRead: an update of the user's unread rows, those    *)
(* among them that the list does not show.                                 *)
MarkRead(c) ==
  /\ c \in asked /\ c.at = "sent"
  /\ notice' = [e \in Event |-> IF notice[e] = "unread" /\ About(c, e) THEN "read" ELSE notice[e]]
  /\ asked' = (asked \ {c}) \cup {[c EXCEPT !.at = "saved"]}
  /\ UNCHANGED <<born, fetched, items, apart>>

(* The answer patches the list.                                            *)
TakeMark(c) ==
  /\ c \in asked /\ c.at = "saved"
  /\ items' = [e \in Event |-> IF items[e] # "none" /\ About(c, e) THEN "read" ELSE items[e]]
  /\ asked' = asked \ {c}
  /\ UNCHANGED <<notice, born, fetched, apart>>

(* The call fails, or its answer is lost.                                  *)
LoseMark(c) ==
  /\ c \in asked
  /\ asked' = asked \ {c}
  /\ apart' = (apart \/ c.at = "saved")
  /\ UNCHANGED <<notice, born, fetched, items>>

(* Another tab of the user, and calls of a list that is gone.              *)
ReadElsewhere(e) ==
  /\ notice[e] = "unread"
  /\ notice' = [notice EXCEPT ![e] = "read"]
  /\ apart' = TRUE
  /\ UNCHANGED <<born, noticePageVars>>

NoticeNext ==
  \/ \E e \in Event : Dispatch(e) \/ MarkOne(e) \/ ReadElsewhere(e)
  \/ \E ok \in BOOLEAN : LoadNotices(ok)
  \/ ShowList \/ MarkAll
  \/ \E c \in asked : MarkRead(c) \/ TakeMark(c) \/ LoseMark(c)

NoticeSpec == NoticeInit /\ [][NoticeNext]_noticeVars

---------------------------------------------------------------------------
(* What the list shows as read is read, however its calls overlap with     *)
(* each other and with new notifications; and between two calls what it    *)
(* shows as unread is unread, unless another tab read it or an answer got  *)
(* lost.                                                                   *)
ListShowsNotices ==
  \A e \in Event :
    /\ items[e] = "read" => notice[e] = "read"
    /\ items[e] = "unread" /\ asked = {} /\ ~apart => notice[e] = "unread"
=============================================================================
