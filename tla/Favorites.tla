------------------------------- MODULE Favorites -------------------------------
(***************************************************************************)
(* One player's favorite mark on one venue (apps/api/src/favorites) and    *)
(* the button that toggles it on the venue's page                          *)
(* (apps/web/components/favorite-toggle.tsx).  The button keeps its own    *)
(* state from the moment it appears, and sends what that state says.       *)
(***************************************************************************)

VARIABLES
  favorite,  \* whether the row of favorite_venues exists
  reading,   \* what the page being rendered has read, "none" without one
  shown,     \* what the button shows, "none" before it appears
  press,     \* the button's call under way
  unsure,    \* history: the button may be wrong
  doubtful   \* history: the page being rendered may be

buttonVars == <<reading, shown, press>>
favoriteVars == <<favorite, buttonVars, unsure, doubtful>>

Mark == {"saved", "absent"}
Other(m) == IF m = "saved" THEN "absent" ELSE "saved"
NoPress == [at |-> "none", want |-> "absent"]

FavoriteTypeOK ==
  /\ favorite \in Mark
  /\ reading \in Mark \cup {"none"}
  /\ shown \in Mark \cup {"none"}
  /\ press \in [at : {"none", "sent", "answered"}, want : Mark]
  /\ unsure \in BOOLEAN /\ doubtful \in BOOLEAN

FavoriteInit ==
  /\ favorite = "absent"
  /\ reading = "none"
  /\ shown = "none"
  /\ press = NoPress
  /\ unsure = FALSE
  /\ doubtful = FALSE

---------------------------------------------------------------------------
(* loadFavorite: a call that fails says that there is no mark.             *)
LoadFavorite(ok) ==
  /\ reading = "none"
  /\ reading' = IF ok THEN favorite ELSE "absent"
  /\ doubtful' = ~ok
  /\ UNCHANGED <<favorite, shown, press, unsure>>

(* A new button appears; a call of the old one is nobody's any more.       *)
ShowButton ==
  /\ reading # "none"
  /\ shown' = reading
  /\ reading' = "none"
  /\ press' = NoPress
  /\ unsure' = doubtful
  /\ UNCHANGED <<favorite, doubtful>>

(* Mutant: the button shows the new state before it is answered.           *)
ToggleAtOnce ==
  /\ shown # "none" /\ press.at = "none"
  /\ press' = [at |-> "sent", want |-> Other(shown)]
  /\ shown' = Other(shown)
  /\ UNCHANGED <<favorite, reading, unsure, doubtful>>

(* The button is disabled while its call is under way.                     *)
Toggle ==
  /\ shown # "none" /\ press.at = "none"
  /\ press' = [at |-> "sent", want |-> Other(shown)]
  /\ UNCHANGED <<favorite, reading, shown, unsure, doubtful>>

---------------------------------------------------------------------------
(* A write of the row leaves a page that is being rendered behind.         *)
Write(m) ==
  /\ favorite' = m
  /\ doubtful' = (doubtful \/ reading # "none")

(* The upsert (no route deletes a venue) and the deleteMany: each leaves   *)
(* what was asked for, whatever was there.                                 *)
AddFavorite ==
  /\ press.at = "sent" /\ press.want = "saved"
  /\ Write("saved")
  /\ press' = [press EXCEPT !.at = "answered"]
  /\ unsure' = FALSE
  /\ UNCHANGED <<reading, shown>>

RemoveFavorite ==
  /\ press.at = "sent" /\ press.want = "absent"
  /\ Write("absent")
  /\ press' = [press EXCEPT !.at = "answered"]
  /\ unsure' = FALSE
  /\ UNCHANGED <<reading, shown>>

TakePress ==
  /\ press.at = "answered"
  /\ shown' = press.want
  /\ press' = NoPress
  /\ UNCHANGED <<favorite, reading, unsure, doubtful>>

(* The call fails, or its answer is lost: the button is as before.         *)
LosePress ==
  /\ press.at # "none"
  /\ press' = NoPress
  /\ unsure' = (unsure \/ press.at = "answered")
  /\ UNCHANGED <<favorite, reading, shown, doubtful>>

(* The player's other tabs, and calls that a button gave up or left behind.*)
MarkElsewhere(m) ==
  /\ Write(m)
  /\ unsure' = TRUE
  /\ UNCHANGED <<reading, shown, press>>

FavoriteNext ==
  \/ \E ok \in BOOLEAN : LoadFavorite(ok)
  \/ ShowButton \/ Toggle
  \/ AddFavorite \/ RemoveFavorite
  \/ TakePress \/ LosePress
  \/ \E m \in Mark : MarkElsewhere(m)

FavoriteSpec == FavoriteInit /\ [][FavoriteNext]_favoriteVars

---------------------------------------------------------------------------
(* Between two calls the button shows the mark, unless another tab changed *)
(* it, the page could not load it, or an answer got lost; and the next     *)
(* press that is answered puts even those right.                           *)
ButtonShowsFavorite ==
  shown # "none" /\ press.at = "none" /\ ~unsure => shown = favorite
=============================================================================
