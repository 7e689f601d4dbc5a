------------------------------ MODULE WorldMap ------------------------------
(* The geometry of world_gen.c: the 31 x 31 cells round the house, the      *)
(* regions, the 24 landmarks turned by the seed, the tiles, and the bits     *)
(* that remember which cells were seen. It has no state.                     *)
(*                                                                           *)
(* A seed is represented by what prv_mix makes of it: the transform, 0..7,   *)
(* of each region's landmarks, and the roll, 0..99, of each cell.            *)
EXTENDS Integers

CONSTANT Center    \* WORLD_CENTER, 15 in the program

Coordinates == -Center .. Center
Cells == Coordinates \X Coordinates
Regions == 0 .. 4     \* HEARTH, NEAR, CONTRADICTION, MACHINE, THRESHOLD
LandmarkIds == 0 .. 23
NoLandmark == 255     \* UINT8_MAX

InBounds(p) == p[1] \in Coordinates /\ p[2] \in Coordinates

Abs(n) == IF n < 0 THEN -n ELSE n

\* The distance of the regions and of prv_max_distance.
Distance(p) == IF Abs(p[1]) > Abs(p[2]) THEN Abs(p[1]) ELSE Abs(p[2])

\* world_region_at
RegionAt(p) ==
    CASE Distance(p) <= 3  -> 0
      [] Distance(p) \in 4 .. 7   -> 1
      [] Distance(p) \in 8 .. 10  -> 2
      [] Distance(p) \in 11 .. 13 -> 3
      [] OTHER -> 4

Canonical == <<
    << 2, 0>>, << 0,  2>>, << -2, 0>>, << 0,  -2>>, << 3,  3>>,
    << 4, 1>>, << 1,  5>>, << -6, 2>>, <<-2,  -7>>, << 7, -4>>,
    << 8, 1>>, << 3,  9>>, <<-10, 4>>, <<-4,  -8>>, << 9, -6>>,
    <<11, 2>>, << 4, 12>>, <<-13, 5>>, <<-5, -11>>, <<12, -8>>,
    <<14, 3>>, << 6, 15>>, <<-15, 7>>, <<-8, -14>> >>

Mirror(p) == <<p[2], p[1]>>
Turn(p) == <<-p[2], p[1]>>

\* Bit 2 of the transform mirrors, bits 0 and 1 count quarter turns.
Transformed(p, t) ==
    LET q == IF t >= 4 THEN Mirror(p) ELSE p
    IN  CASE t % 4 = 0 -> q
          [] t % 4 = 1 -> Turn(q)
          [] t % 4 = 2 -> Turn(Turn(q))
          [] t % 4 = 3 -> Turn(Turn(Turn(q)))

\* Mutant: every landmark is turned by itself, not with its region.
PositionOwnTurn(seed, id) == Transformed(Canonical[id + 1], (seed[id \div 5] + id) % 8)

\* Mutant: the regions' landmarks are numbered by sixes.
PositionBySix(seed, id) == Transformed(Canonical[id + 1 - id \div 6], seed[id \div 6])

\* world_landmark_position
Position(seed, id) == Transformed(Canonical[id + 1], seed[id \div 5])

\* The loop of world_tile_at: the first landmark whose position is p.
LandmarkAt(seed, p) ==
    LET here == { id \in LandmarkIds : Position(seed, id) = p }
    IN  IF here = {} \/ p = <<0, 0>> \/ ~InBounds(p) THEN NoLandmark
        ELSE CHOOSE id \in here : \A other \in here : id <= other

\* The rest of world_tile_at: the tile a roll makes in a region.
TileOfRoll(region, roll) ==
    CASE roll < 8  -> "HAZARD"
      [] roll \in 8 .. 12  -> "ECHO"
      [] roll \in 13 .. 21 -> "EVENT"
      [] roll \in 22 .. 33 -> "UNSTABLE"
      [] roll > 33 /\ region = 0 -> IF roll < 61 THEN "DOMESTIC" ELSE "PATH"
      [] roll > 33 /\ region = 1 -> IF roll < 53 THEN "TRANSIT"
                                    ELSE IF roll < 71 THEN "SHORELINE" ELSE "PATH"
      [] roll > 33 /\ region = 2 -> IF roll < 59 THEN "CIVIC" ELSE "DOMESTIC"
      [] roll > 33 /\ region = 3 -> IF roll < 72 THEN "MACHINE" ELSE "PATH"
      [] roll > 33 /\ region = 4 -> IF roll < 78 THEN "UNSTABLE" ELSE "MACHINE"

\* prv_index: the bit of a cell.
Index(p) == (p[2] + Center) * (2 * Center + 1) + (p[1] + Center)

Neighbours(p) == { p, <<p[1], p[2] - 1>>, <<p[1] + 1, p[2]>>,
                      <<p[1], p[2] + 1>>, <<p[1] - 1, p[2]>> }

\* Mutant: a neighbour beyond the border gets a bit too.
RevealedUnbounded(p) == { Index(q) : q \in Neighbours(p) }

\* The bits world_reveal sets.
Revealed(p) == { Index(q) : q \in { n \in Neighbours(p) : InBounds(n) } }
=============================================================================
