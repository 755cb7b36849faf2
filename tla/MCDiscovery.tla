------------------------------ MODULE MCDiscovery ------------------------------
(* A small instance of Discovery for TLC.                                  *)
EXTENDS Discovery

CONSTANTS v1, v2, v3, v4, c1, c2, c3, cebu, manila, word, lights, parking

Places == [v \in {v1, v2, v3, v4} |-> CASE v = v1 -> 1 [] v = v2 -> 2 [] v = v3 -> 3 [] OTHER -> 4]
DetailsOf == [v \in {v1, v2, v3, v4} |->
  CASE v = v1 -> [city |-> cebu, words |-> {word}, amenities |-> {lights, parking}]
    [] v = v2 -> [city |-> cebu, words |-> {}, amenities |-> {lights}]
    [] v = v3 -> [city |-> manila, words |-> {word}, amenities |-> {parking}]
    [] OTHER -> [city |-> manila, words |-> {}, amenities |-> {}]]
(* The fourth venue has no active court.                                   *)
Courts == [v \in {v1, v2, v3, v4} |->
  CASE v = v1 -> {c1} [] v = v2 -> {c2} [] v = v3 -> {c3} [] OTHER -> {}]

(* Day 0 only; the third venue has no hours on it.                         *)
Hours == [c \in {c1, c2, c3} |-> {[day |-> IF c = c3 THEN 1 ELSE 0, opens |-> 0, closes |-> 4]}]

Rule(c, price, starts, priority) ==
  [court |-> c, from |-> 0, until |-> 100, days |-> 0 .. 6, starts |-> starts, ends |-> 4,
   price |-> price, priority |-> priority]

(* The first court is dearer in the evening, the third has an old price.   *)
Rules == {Rule(c1, 1, 0, 0), Rule(c1, 2, 2, 1), Rule(c2, 2, 0, 0),
          [Rule(c3, 1, 0, 0) EXCEPT !.until = 0], Rule(c3, 2, 0, 0)}

Taken == {[court |-> c1, from |-> 0, to |-> 2], [court |-> c1, from |-> 2, to |-> 4]}

=============================================================================
