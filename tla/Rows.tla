-------------------------------- MODULE Rows --------------------------------
(* What prv_item_text lets a row look like: enabled, or greyed.  The rows   *)
(* repeat conditions of the rules in their own words.                       *)
EXTENDS TestingMenu

\* VIEW_HEARTH.  Searching is always offered.
HearthRow(row) ==
    CASE row = "FEED" -> CanTendHearth
      [] row = "PREPARE" -> /\ hearth_level >= Held
                            /\ "WORKTABLE" \in built
                            /\ CanPrepareRation

\* Mutant: the row of the anchor line does not look at the rooms.
WorkshopRowAnywhere(b) ==
    /\ b \notin built
    /\ kindling >= BuildKindling[b] /\ remnants >= BuildRemnants[b]
    /\ hearth_level >= Held
    /\ b = "ANCHOR_LINE" => hearth_level >= Shared

\* VIEW_WORKSHOP
WorkshopRow(b) ==
    /\ b \notin built
    /\ kindling >= BuildKindling[b] /\ remnants >= BuildRemnants[b]
    /\ hearth_level >= Held
    /\ b = "ANCHOR_LINE" => /\ hearth_level >= Shared
                            /\ "GUEST_ROOM" \in built /\ "WORKTABLE" \in built

\* VIEW_GUESTS
GuestsRow(role) ==
    /\ hearth_level >= Shared
    /\ IF role = "GATHERER" THEN listeners > 0 ELSE gatherers > 0

\* VIEW_DOOR
DoorRow ==
    \/ active
    \/ /\ hearth_level >= Shared
       /\ IF movement >= Fragments THEN rations >= 2 /\ clarity >= 4
                                   ELSE CanExpedition

\* VIEW_HOME
HomeRow(row) ==
    CASE row = "WORKSHOP" -> hearth_level >= Held
      [] row = "GUESTS" -> hearth_level >= Shared
      [] row = "DOOR" -> active \/ hearth_level >= Shared
-----------------------------------------------------------------------------
(* What the handlers do with a press on the row. *)

\* expedition_start, with no expedition in the Drift.
StartsInDrift ==
    /\ movement >= Fragments
    /\ "ANCHOR_LINE" \in built
    /\ hearth_level >= Shared
    /\ clarity >= 4 /\ rations >= 2

\* prv_activate_door
DoorOpens == \/ active
             \/ IF movement >= Fragments THEN StartsInDrift ELSE CanExpedition

\* house_assign
Assigns(role) ==
    /\ hearth_level >= Shared
    /\ residents > 0
    /\ IF role = "GATHERER" THEN listeners > 0 ELSE gatherers > 0
-----------------------------------------------------------------------------
\* A row is greyed exactly when a press on it would be refused, though row and
\* rule state their conditions apart: the builds, the two ways through the door,
\* the guests (main.c:593-692 against house_state.c and expedition.c:32-62).
RowsAgree ==
    /\ HearthRow("PREPARE") <=> CanPrepareRation
    /\ \A b \in Builds : WorkshopRow(b) <=> CanConstruct(b)
    /\ \A role \in Roles : GuestsRow(role) <=> Assigns(role)
    /\ "ANCHOR_LINE" \in built => (DoorRow <=> DoorOpens)

\* And a greyed row at home hides no row that could be pressed (main.c:549-586).
HomeHidesNothing ==
    /\ ~HomeRow("WORKSHOP") => \A b \in Builds : ~WorkshopRow(b)
    /\ ~HomeRow("GUESTS") => \A role \in Roles : ~GuestsRow(role)
    /\ ~HomeRow("DOOR") => ~DoorRow

\* What the rows tell the player is what the rules do.
RowsHonest == RowsAgree /\ HomeHidesNothing
=============================================================================
