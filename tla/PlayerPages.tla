------------------------------ MODULE PlayerPages ------------------------------
(***************************************************************************)
(* What one player has open: the page of a venue or a coach, with the form *)
(* that holds a slot (CourtSchedule), the favorite button (Favorites) and  *)
(* the reviews (Reviews), and the page of notifications (Notifications).   *)
(* The parts share no row and no state of a component: a behaviour         *)
(* follows one of them, and the others are as they were.                   *)
(***************************************************************************)
EXTENDS CourtSchedule, Favorites, Notifications, Reviews

VARIABLE part  \* the part this behaviour is about

playerVars == <<part, vars, favoriteVars, noticeVars, reviewVars>>

PlayerInit ==
  /\ part \in {"hold", "favorite", "notices", "reviews"}
  /\ Init /\ FavoriteInit /\ NoticeInit /\ ReviewInit

HoldStep     == part = "hold"     /\ Next         /\ UNCHANGED <<favoriteVars, noticeVars, reviewVars>>
FavoriteStep == part = "favorite" /\ FavoriteNext /\ UNCHANGED <<vars, noticeVars, reviewVars>>
NoticeStep   == part = "notices"  /\ NoticeNext   /\ UNCHANGED <<vars, favoriteVars, reviewVars>>
ReviewStep   == part = "reviews"  /\ ReviewNext   /\ UNCHANGED <<vars, favoriteVars, noticeVars>>

PlayerNext ==
  /\ HoldStep \/ FavoriteStep \/ NoticeStep \/ ReviewStep
  /\ UNCHANGED part

PlayerSpec == PlayerInit /\ [][PlayerNext]_playerVars

---------------------------------------------------------------------------
(* Between its calls a component shows what the rows say, up to what it    *)
(* could not know of: another tab, an answer that got lost, a load that    *)
(* failed or was overtaken.                                                *)
PartsShowTheirRows == ButtonShowsFavorite /\ ListShowsNotices /\ FormTellsTheReview
=============================================================================
