---------------------------- MODULE MCForeground ----------------------------
(* Foreground with numbers scaled down: a day that reaches the Hall, and a  *)
(* house with a long clock whose room and line are out of reach.            *)
EXTENDS Foreground

DayKindling == [b \in Builds |-> IF b = "ANCHOR_LINE" THEN 2 ELSE 1]
DayRemnants == [b \in Builds |-> 1]

\* Only the guest room is within reach of a store of three.
ClockKindling == [b \in Builds |-> IF b = "GUEST_ROOM" THEN 1 ELSE 9]
ClockRemnants == [b \in Builds |-> 1]
=============================================================================
