---------------------------- MODULE TestingMenu ----------------------------
(* The testing menu of main.c over the house: its edits, in any order with   *)
(* each other and with play.  A press of UP or DOWN is one edit and is saved *)
(* at once.  Keys, thread and the choice of a preview touch no rule of the   *)
(* house and are left out.                                                   *)
EXTENDS HouseState

CONSTANTS
    EditStep,        \* DEBUG_RESOURCE_STEP, 10
    NamedGuests,     \* GAME_GUEST_COUNT, 4
    FinalDoor        \* GAME_MOVEMENT_FINAL_DOOR, 5

ASSUME TestingMenuAssumption ==
    /\ EditStep \in Nat
    /\ NamedGuests \in Nat
    /\ FinalDoor \in Nat /\ FinalDoor >= 2

Warmth == 1
Fragments == 2
Directions == {1, -1}

VARIABLE movement    \* story.movement

tmVars == <<houseVars, movement>>

TmInit == Init /\ movement = Warmth

\* prv_sync_campaign_state, in the save of every step.
Synced(m) == movement' = IF "FIRST_MEMORY" \in story' /\ m = Warmth THEN Fragments ELSE m

\* A step of the house.  The door leads to the Hall in the first movement only.
Play ==
    /\ Next
    /\ ~active /\ active' => movement < Fragments
    /\ Synced(movement)

\* Mutant: an edit is not held at its lower end.
AdjustedBelow(value, amount, low, high) == AtMost(value + amount, high)

\* prv_adjusted_value
Adjusted(value, amount, low, high) ==
    IF value + amount < low THEN low ELSE AtMost(value + amount, high)
-----------------------------------------------------------------------------
(* prv_debug_adjust, item by item *)

AdjustGood(by) ==
    /\ LET Edited(good) == Adjusted(good, by * EditStep, 0, ResourceMax)
       IN  \/ kindling' = Edited(kindling) /\ UNCHANGED <<remnants, rations, clarity>>
           \/ remnants' = Edited(remnants) /\ UNCHANGED <<kindling, rations, clarity>>
           \/ rations' = Edited(rations) /\ UNCHANGED <<kindling, remnants, clarity>>
           \/ clarity' = Edited(clarity) /\ UNCHANGED <<kindling, remnants, rations>>
    /\ UNCHANGED <<labour, hearth, guests, built, memory, hall, movement>>

AdjustFire(by) ==
    /\ hearth_level' = Adjusted(hearth_level, by, 0, HearthMax)
    /\ hearth_elapsed' = 0
    /\ UNCHANGED <<goods, labour, guests, built, memory, hall, movement>>

\* Mutant: the rooms come with a later movement, but not the first memory's mark.
AdjustMovementUnmarked(by) ==
    LET edited == Adjusted(movement, by, Warmth, FinalDoor)
    IN  /\ IF edited >= Fragments
           THEN /\ built' = Builds
                /\ memories' = 1
                /\ hearth_level' = Shared /\ hearth_elapsed' = 0
                /\ residents' = 2 /\ gatherers' = 1 /\ listeners' = 1
                /\ UNCHANGED story
           ELSE UNCHANGED <<built, memory, hearth, guests>>
        /\ Synced(edited)
        /\ UNCHANGED <<goods, labour, hall>>

\* A movement after the first comes with the house it needs.
AdjustMovement(by) ==
    LET edited == Adjusted(movement, by, Warmth, FinalDoor)
    IN  /\ IF edited >= Fragments
           THEN /\ built' = Builds
                /\ story' = story \cup StoryFlags
                /\ memories' = 1
                /\ hearth_level' = Shared /\ hearth_elapsed' = 0
                /\ residents' = 2 /\ gatherers' = 1 /\ listeners' = 1
           ELSE UNCHANGED <<built, memory, hearth, guests>>
        /\ Synced(edited)
        /\ UNCHANGED <<goods, labour, hall>>

\* The menu shows the campaign's guests, of whom the house knows those who live
\* in it, two at most (prv_campaign_guest_count).  Who comes gathers; who goes
\* listened, if anybody did.
AdjustGuests(by) ==
    \E named \in residents .. NamedGuests :
        LET lodged == AtMost(Adjusted(named, by, 0, NamedGuests), 2)
        IN  /\ residents' = lodged
            /\ gatherers' = IF lodged > residents THEN gatherers + lodged - residents
                                                  ELSE AtMost(gatherers, lodged)
            /\ listeners' = lodged - gatherers'
            /\ story' = IF lodged > residents THEN story \cup {"FIRST_GUEST"} ELSE story
            /\ UNCHANGED <<goods, labour, hearth, built, memories, hall, movement>>

AdjustGatherers(by) ==
    /\ gatherers' = Adjusted(gatherers, by, 0, residents)
    /\ listeners' = residents - gatherers'
    /\ UNCHANGED <<goods, labour, hearth, residents, built, memory, hall, movement>>

Edit(by) == AdjustGood(by) \/ AdjustFire(by) \/ AdjustMovement(by)
              \/ AdjustGuests(by) \/ AdjustGatherers(by)

TmNext == Play \/ \E by \in Directions : Edit(by)

TmSpec == TmInit /\ [][TmNext]_tmVars
-----------------------------------------------------------------------------
(* Properties *)

\* No edit, at whatever point of play, makes a game that cannot be saved any
\* more; it would be refused by every later save without a word to the player
\* (main.c:176-183, 1497-1588, house_state.c:47-82).
EditsSavable == Valid /\ movement \in Warmth .. FinalDoor

\* The edits leave the bookkeeping of memory and journey right: a journey that
\* was under way is provisioned for the steps it has left, and the Hall gives
\* its memory no second time (main.c:1530-1551).
EditsKeepJourney == HallSupplies /\ MemoryOnce
=============================================================================
