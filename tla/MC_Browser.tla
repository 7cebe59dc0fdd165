----------------------------- MODULE MC_Browser -----------------------------
(* Browser with two people whose names differ in their case, and an orders  *)
(* page on which one order is open and one is filled.  A position is bought *)
(* with an average that has to be rounded, and closed.                      *)
EXTENDS Browser

Ann == [email |-> "a@x", name |-> "Ann", password |-> "p"]
Bob == [email |-> "b@x", name |-> "ann", password |-> "q"]
MCForms == {Ann, Bob}
MCLogins == {[who |-> "a@x", password |-> "p"], [who |-> "ann", password |-> "q"]}
MCLower == [n \in {"Ann", "ann", "Bo"} |-> IF n = "Bo" THEN "bo" ELSE "ann"]

Row(s) == [key |-> 0, size |-> 1, status |-> s]
MCRows == {<<Row(s), Row("FILLED")>> : s \in {"PENDING", "NEW"}}

Made(side, n, p, rest) ==
  [symbol |-> "A", side |-> side, quantity |-> n, price |-> p, left |-> rest]
MCHistories ==
  {<<>>,
   <<Made("BUY", 2, 4, 1), Made("BUY", 1, 3, 0)>>,
   <<Made("BUY", 2, 4, 1), Made("BUY", 1, 3, 0), Made("SELL", 3, 6, 0)>>}
=============================================================================
