--------------------------- MODULE MCTestingMenu ---------------------------
(* The edits and the rows with the numbers of MCForeground's day.          *)
EXTENDS Rows

DayKindling == [b \in Builds |-> IF b = "ANCHOR_LINE" THEN 2 ELSE 1]
DayRemnants == [b \in Builds |-> 1]
=============================================================================
