------------------------------ MODULE WorldGen ------------------------------
(* WorldState of world_gen.c: the seed that places the landmarks and the     *)
(* bits of the cells the player has seen.                                    *)
EXTENDS WorldMap

CONSTANTS
    Seeds,     \* the transforms [Regions -> 0 .. 7] that are explored
    RevealAt   \* the cells the player enters, for each of the seeds: what is
               \* revealed does not depend on the seed, and one shows all of it

ASSUME WorldGenAssumption ==
    /\ Center \in Nat /\ Center >= 15
    /\ Seeds \subseteq [Regions -> 0 .. 7]
    /\ RevealAt \in [Seeds -> SUBSET Cells]

VARIABLES
    seed,      \* seed, as the transforms it gives
    visible,   \* the bits of WorldState.visible
    asked,     \* history: the landmark looked up last
    found,     \* the landmark world_tile_at reported for it
    trodden    \* history: the cells world_reveal was called for

worldVars == <<seed, visible, asked, found, trodden>>

\* world_state_init
Init ==
    /\ seed \in Seeds
    /\ visible = Revealed(<<0, 0>>)
    /\ asked = NoLandmark
    /\ found = NoLandmark
    /\ trodden = {<<0, 0>>}

\* expedition_move reveals the cell it enters.
Reveal(p) ==
    /\ visible' = visible \cup Revealed(p)
    /\ trodden' = trodden \cup {p}
    /\ UNCHANGED <<seed, asked, found>>

\* world_tile_at is asked for the cell where world_landmark_position puts the
\* next landmark, one after the other.
LookUp ==
    LET id == IF asked = NoLandmark THEN 0 ELSE (asked + 1) % 24
    IN  /\ asked' = id
        /\ found' = LandmarkAt(seed, Position(seed, id))
        /\ UNCHANGED <<seed, visible, trodden>>

Next ==
    \/ \E p \in RevealAt[seed] : Reveal(p)
    \/ LookUp

Spec == Init /\ [][Next]_worldVars

\* world_is_visible
IsVisible(p) == InBounds(p) /\ Index(p) \in visible
-----------------------------------------------------------------------------
(* What an expedition can do in a movement (expedition.c) *)

\* prv_max_distance
MaxDistance(movement) ==
    CASE movement = 1 -> 3
      [] movement = 2 -> 7
      [] movement = 3 -> 10
      [] movement = 4 -> 13
      [] movement >= 5 -> 15

\* Mutant: the capacity does not grow with the movement.
ClarityCapacityFlat(movement) == 12

ClarityCapacity(movement) == 12 + (movement - 2) * 6

RationCapacity(movement) == 4 + (movement - 2) * 2
-----------------------------------------------------------------------------
(* Properties *)

\* Every seed has all 24 landmarks (world_gen.c:52-99): the tile at a landmark's
\* position is that landmark, never another one, the house or out of bounds.
LandmarksDistinct == found = asked

\* A landmark lies in the region its number belongs to, so a band of five opens
\* as a whole with the distance its movement allows and none of it earlier
\* (world_gen.c:34-77, expedition.c:5-20).
LandmarksInRegion ==
    \A id \in {asked} \cap LandmarkIds :
        LET p == Position(seed, id)
            band == id \div 5 + 1
        IN  /\ RegionAt(p) = id \div 5
            /\ Distance(p) <= MaxDistance(band)
            /\ band > 1 => Distance(p) > MaxDistance(band - 1)

\* Every landmark of a movement's band can be reached on what the movement lets
\* an expedition carry: a clarity a step, a ration every fourth step
\* (expedition.c:44-57, 86-98).
LandmarksAffordable ==
    \A id \in {asked} \cap LandmarkIds :
        LET p == Position(seed, id)
            movement == IF id < 5 THEN 2 ELSE id \div 5 + 1
            steps == Abs(p[1]) + Abs(p[2])
        IN  /\ steps <= ClarityCapacity(movement)
            /\ steps \div 4 <= RationCapacity(movement)

\* The bits show exactly the cells next to the player's way: no bit lies outside
\* the array, none stands for two cells, and no border cell spills into the next
\* row (world_gen.c:20-23, 142-164).
VisibleIsTrodden ==
    [][trodden' # trodden =>
          /\ visible' \subseteq 0 .. (2 * Center + 1) * (2 * Center + 1) - 1
          /\ \A p \in Cells : IsVisible(p)' <=> \E q \in trodden' : p \in Neighbours(q)
      ]_worldVars
=============================================================================
