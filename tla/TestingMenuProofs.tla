------------------------- MODULE TestingMenuProofs -------------------------
(* Proofs about TestingMenu and Rows, for all numbers of the house, any size *)
(* of an edit and absences of any length.                                   *)
EXTENDS Rows, HouseStateProofs

TmInv == HouseCore /\ movement \in Warmth .. FinalDoor

\* What an edit leaves is between its ends.
LEMMA AdjustedRange ==
    ASSUME NEW low \in Int, NEW high \in Int, low <= high,
           NEW value \in Int, NEW amount \in Int
    PROVE  Adjusted(value, amount, low, high) \in low .. high
  BY DEF Adjusted, AtMost

\* The sync of a save changes no movement but the first.
LEMMA SyncedRange ==
    ASSUME NEW m \in Warmth .. FinalDoor, Synced(m)
    PROVE  movement' \in Warmth .. FinalDoor
  BY TestingMenuAssumption DEF Synced, Warmth, Fragments

\* An edit of a good keeps it in the store.
LEMMA GoodsEdited ==
    ASSUME HouseCore, NEW by \in Directions, AdjustGood(by)
    PROVE  HouseCore'
<1> DEFINE Edited(good) == Adjusted(good, by * EditStep, 0, ResourceMax)
<1>1. \A amount \in Int, good \in 0 .. ResourceMax :
        Adjusted(good, amount, 0, ResourceMax) \in 0 .. ResourceMax
  <2> SUFFICES ASSUME NEW amount \in Int, NEW good \in 0 .. ResourceMax
               PROVE  Adjusted(good, amount, 0, ResourceMax) \in 0 .. ResourceMax
    OBVIOUS
  <2>1. 0 \in Int /\ ResourceMax \in Int /\ 0 <= ResourceMax /\ good \in Int
    BY HouseAssumption
  <2> QED BY <2>1, AdjustedRange
<1>2. \A good \in 0 .. ResourceMax : Edited(good) \in 0 .. ResourceMax
  <2>1. by * EditStep \in Int
    BY TestingMenuAssumption DEF Directions
  <2> QED BY <1>1, <2>1
<1>3. /\ kindling' \in 0 .. ResourceMax /\ remnants' \in 0 .. ResourceMax
      /\ rations' \in 0 .. ResourceMax /\ clarity' \in 0 .. ResourceMax
  <2> HIDE DEF Edited
  <2>1. \/ kindling' = Edited(kindling) /\ UNCHANGED <<remnants, rations, clarity>>
        \/ remnants' = Edited(remnants) /\ UNCHANGED <<kindling, rations, clarity>>
        \/ rations' = Edited(rations) /\ UNCHANGED <<kindling, remnants, clarity>>
        \/ clarity' = Edited(clarity) /\ UNCHANGED <<kindling, remnants, rations>>
    BY DEF AdjustGood, Edited
  <2> QED BY <1>2, <2>1, HouseRanges
<1>4. UNCHANGED <<labour, hearth, guests, built, memory, hall>>
  BY DEF AdjustGood
<1>5. TypeOK' /\ BuiltInOrder'
  BY <1>3, <1>4
  DEF HouseCore, TypeOK, BuiltInOrder, labour, hearth, guests, memory, hall
<1> QED BY <1>3, <1>4, <1>5, HallUntouched, HouseRanges
    DEF HouseCore, Valid, labour, hearth, guests, memory

\* An edit of the fire leaves nothing of the level that burnt.
LEMMA FireEdited ==
    ASSUME HouseCore, NEW by \in Directions, AdjustFire(by)
    PROVE  HouseCore'
<1>1. hearth_level' \in 0 .. HearthMax /\ hearth_elapsed' = 0
  <2>1. /\ hearth_level \in Int /\ by \in Int
        /\ 0 \in Int /\ HearthMax \in Int /\ 0 <= HearthMax
    BY HouseAssumption DEF HouseCore, TypeOK, Directions
  <2>2. Adjusted(hearth_level, by, 0, HearthMax) \in 0 .. HearthMax
    BY <2>1, AdjustedRange
  <2> QED BY <2>2 DEF AdjustFire
<1>2. UNCHANGED <<goods, labour, guests, built, memory, hall>>
  BY DEF AdjustFire
<1>3. TypeOK' /\ BuiltInOrder'
  BY <1>1, <1>2, HouseAssumption
  DEF HouseCore, TypeOK, BuiltInOrder, goods, labour, guests, memory, hall
<1> QED BY <1>1, <1>2, <1>3, HallUntouched, HouseRanges, HouseAssumption
    DEF HouseCore, Valid, goods, labour, guests, memory

\* A later movement brings rooms, memory and guests together.
LEMMA MovementEdited ==
    ASSUME HouseCore, NEW by \in Directions, AdjustMovement(by)
    PROVE  HouseCore'
<1>1. UNCHANGED <<goods, labour, hall>>
  BY DEF AdjustMovement
<1>2. CASE UNCHANGED <<built, memory, hearth, guests>>
  <2>1. UNCHANGED houseVars
    BY <1>1, <1>2 DEF houseVars
  <2> QED BY <2>1, CoreStep
<1>3. CASE /\ built' = Builds
           /\ story' = story \cup StoryFlags
           /\ memories' = 1
           /\ hearth_level' = Shared /\ hearth_elapsed' = 0
           /\ residents' = 2 /\ gatherers' = 1 /\ listeners' = 1
  <2>1. TypeOK' /\ Valid'
    BY <1>1, <1>3, HouseAssumption DEF HouseCore, TypeOK, Valid, goods, labour, hall
  <2>2. MemoryOnce' /\ BuiltInOrder'
    BY <1>3 DEF MemoryOnce, BuiltInOrder, StoryFlags
  <2>3. HallSupplies'
    BY <1>1, <1>3 DEF HouseCore, HallSupplies, hall
  <2> QED BY <2>1, <2>2, <2>3 DEF HouseCore
<1> QED BY <1>2, <1>3 DEF AdjustMovement

\* Guests come and go with their work.
LEMMA GuestsEdited ==
    ASSUME HouseCore, NEW by \in Directions, AdjustGuests(by) \/ AdjustGatherers(by)
    PROVE  HouseCore'
<1>0. /\ residents \in 0 .. 2 /\ gatherers \in Nat /\ listeners \in Nat
      /\ gatherers + listeners = residents /\ story \subseteq StoryFlags
  BY HouseRanges DEF HouseCore, TypeOK, Valid
<1>1. /\ residents' \in 0 .. 2 /\ gatherers' \in Nat /\ listeners' \in Nat
      /\ gatherers' + listeners' = residents'
      /\ story' \subseteq StoryFlags
      /\ "FIRST_MEMORY" \in story' <=> "FIRST_MEMORY" \in story
      /\ UNCHANGED <<goods, labour, hearth, built, memories, hall>>
  <2>1. CASE AdjustGatherers(by)
    <3>1. gatherers' \in 0 .. residents
      BY <1>0, <2>1, AdjustedRange DEF AdjustGatherers, Directions
    <3> QED BY <1>0, <2>1, <3>1 DEF AdjustGatherers, memory
  <2>2. CASE AdjustGuests(by)
    <3>1. PICK named \in residents .. NamedGuests :
            LET lodged == AtMost(Adjusted(named, by, 0, NamedGuests), 2)
            IN  /\ residents' = lodged
                /\ gatherers' = IF lodged > residents THEN gatherers + lodged - residents
                                                      ELSE AtMost(gatherers, lodged)
                /\ listeners' = lodged - gatherers'
                /\ story' = IF lodged > residents THEN story \cup {"FIRST_GUEST"} ELSE story
                /\ UNCHANGED <<goods, labour, hearth, built, memories, hall, movement>>
      BY <2>2 DEF AdjustGuests
    <3> DEFINE lodged == AtMost(Adjusted(named, by, 0, NamedGuests), 2)
    <3>2. lodged \in 0 .. 2
      <4>1. Adjusted(named, by, 0, NamedGuests) \in 0 .. NamedGuests
        BY <1>0, AdjustedRange, TestingMenuAssumption DEF Directions
      <4> QED BY <4>1, TestingMenuAssumption DEF AtMost
    <3> HIDE DEF lodged
    <3>3. /\ residents' = lodged
          /\ gatherers' = IF lodged > residents THEN gatherers + lodged - residents
                                                ELSE AtMost(gatherers, lodged)
          /\ listeners' = lodged - gatherers'
          /\ story' = story \/ story' = story \cup {"FIRST_GUEST"}
          /\ UNCHANGED <<goods, labour, hearth, built, memories, hall>>
      BY <3>1 DEF lodged
    <3>4. gatherers' \in Nat /\ listeners' \in Nat /\ gatherers' + listeners' = residents'
      BY <1>0, <3>2, <3>3 DEF AtMost
    <3> QED BY <1>0, <3>2, <3>3, <3>4 DEF StoryFlags
  <2> QED BY <2>1, <2>2
<1>2. TypeOK' /\ BuiltInOrder'
  BY <1>1 DEF HouseCore, TypeOK, BuiltInOrder, goods, labour, hearth, hall
<1>3. HallSupplies' /\ UNCHANGED hall
  BY <1>1 DEF HouseCore, HallSupplies, hall
<1>4. MemoryOnce'
  BY <1>1 DEF HouseCore, MemoryOnce
<1>5. Valid'
  <2>1. UNCHANGED <<kindling, remnants, rations, clarity, gather_progress,
                    hearth_level, hearth_elapsed, memories, hall>>
    BY <1>1 DEF goods, labour, hearth
  <2>2. residents' \in 0 .. 2 /\ gatherers' + listeners' = residents'
    BY <1>1
  <2> QED BY <2>1, <2>2 DEF HouseCore, Valid, hall
<1> QED BY <1>2, <1>3, <1>4, <1>5 DEF HouseCore

\* Play and edits together keep the house in order.
LEMMA TmStep ==
    ASSUME TmInv, [TmNext]_tmVars
    PROVE  TmInv'
<1>0. HouseCore /\ movement \in Warmth .. FinalDoor
  BY DEF TmInv
<1>1. CASE Play
  <2>1. Call
    BY <1>1, HouseAssumption DEF Play, Next, Call
  <2>2. movement' \in Warmth .. FinalDoor
    BY <1>0, <1>1, SyncedRange DEF Play
  <2> QED BY <1>0, <2>1, <2>2, CoreStep DEF TmInv
<1>2. ASSUME NEW by \in Directions, AdjustMovement(by) PROVE TmInv'
  <2>1. Adjusted(movement, by, Warmth, FinalDoor) \in Warmth .. FinalDoor
    BY <1>0, AdjustedRange, TestingMenuAssumption DEF Directions, Warmth
  <2>2. movement' \in Warmth .. FinalDoor
    BY <1>2, <2>1, SyncedRange DEF AdjustMovement
  <2> QED BY <1>0, <1>2, <2>2, MovementEdited DEF TmInv
<1>3. ASSUME NEW by \in Directions,
             AdjustGood(by) \/ AdjustFire(by) \/ AdjustGuests(by) \/ AdjustGatherers(by)
      PROVE  TmInv'
  <2>1. HouseCore'
    BY <1>0, <1>3, GoodsEdited, FireEdited, GuestsEdited
  <2>2. UNCHANGED movement
    BY <1>3 DEF AdjustGood, AdjustFire, AdjustGuests, AdjustGatherers
  <2> QED BY <1>0, <2>1, <2>2 DEF TmInv
<1>4. CASE UNCHANGED tmVars
  BY <1>0, <1>4, CoreStep DEF TmInv, tmVars
<1> QED BY <1>1, <1>2, <1>3, <1>4 DEF TmNext, Edit

\* The house of a game that is tested is in order (main.c:1497-1588).
THEOREM TmInvariant == TmSpec => []TmInv
<1>1. TmInit => TmInv
  BY CoreAtStart, TestingMenuAssumption DEF TmInit, TmInv, Warmth
<1>2. TmInv /\ [TmNext]_tmVars => TmInv'
  BY TmStep
<1> QED BY <1>1, <1>2, PTL DEF TmSpec

\* Whatever is edited, in whatever order with play, can be saved.
THEOREM EditedIsSavable == TmSpec => []EditsSavable
<1>1. TmInv => EditsSavable
  BY DEF TmInv, HouseCore, EditsSavable
<1> QED BY <1>1, TmInvariant, PTL

\* The edits take nothing from a journey and give no memory twice.
THEOREM JourneyKept == TmSpec => []EditsKeepJourney
<1>1. TmInv => EditsKeepJourney
  BY DEF TmInv, HouseCore, EditsKeepJourney
<1> QED BY <1>1, TmInvariant, PTL

\* No row promises what the rules refuse, and none is greyed that they allow.
THEOREM HonestRows == TmSpec => []RowsHonest
<1>1. TmInv => RowsAgree
  <2> SUFFICES ASSUME TmInv PROVE RowsAgree
    OBVIOUS
  <2>1. HearthRow("PREPARE") <=> CanPrepareRation
    BY DEF HearthRow, CanPrepareRation
  <2>2. \A b \in Builds : WorkshopRow(b) <=> CanConstruct(b)
    BY DEF WorkshopRow, CanConstruct
  <2>3. \A role \in Roles : GuestsRow(role) <=> Assigns(role)
    BY HouseRanges DEF TmInv, HouseCore, TypeOK, Valid, GuestsRow, Assigns
  <2>4. "ANCHOR_LINE" \in built => (DoorRow <=> DoorOpens)
    BY DEF DoorRow, DoorOpens, StartsInDrift, CanExpedition
  <2> QED BY <2>1, <2>2, <2>3, <2>4 DEF RowsAgree
<1>2. HomeHidesNothing
  BY DEF HomeHidesNothing, HomeRow, WorkshopRow, GuestsRow, DoorRow, CanExpedition
<1> QED BY <1>1, <1>2, TmInvariant, PTL DEF RowsHonest
=============================================================================
