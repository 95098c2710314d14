---------------------------- MODULE MCSearchBox ----------------------------
(* A deck where one term is on two slides and another on a third. *)
EXTENDS SearchBox

MCMatches == [t \in {"fox", "dog"} |-> IF t = "fox" THEN <<1, 3>> ELSE <<2>>]
=============================================================================
