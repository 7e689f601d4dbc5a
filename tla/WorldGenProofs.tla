--------------------------- MODULE WorldGenProofs ---------------------------
(* Proofs about WorldGen, for every seed and every map that is large enough  *)
(* for the farthest landmark: where the 24 landmarks are, and what the bits  *)
(* of the seen cells say.                                                    *)
EXTENDS WorldGen, TLAPS

Points == Int \X Int

\* The distance a player walks to a point.
Steps(p) == Abs(p[1]) + Abs(p[2])

LEMMA Points2 ==
    \A p : p \in Points <=> /\ p = <<p[1], p[2]>>
                            /\ p[1] \in Int /\ p[2] \in Int
  BY DEF Points

\* A quarter turn and the mirror keep distances and can be undone.
LEMMA OneTurn ==
    ASSUME NEW p \in Points
    PROVE  /\ Turn(p) \in Points /\ Distance(Turn(p)) = Distance(p)
           /\ Steps(Turn(p)) = Steps(p)
           /\ Mirror(p) \in Points /\ Distance(Mirror(p)) = Distance(p)
           /\ Steps(Mirror(p)) = Steps(p)
           /\ Mirror(Mirror(p)) = p
           /\ Turn(Turn(Turn(Turn(p)))) = p
  BY DEF Points, Turn, Mirror, Distance, Steps, Abs

\* A seed's transform keeps distances, and different points different.
LEMMA TransformKeeps ==
    ASSUME NEW p \in Points, NEW k \in 0 .. 7
    PROVE  /\ Transformed(p, k) \in Points
           /\ Distance(Transformed(p, k)) = Distance(p)
           /\ Steps(Transformed(p, k)) = Steps(p)
<1> DEFINE q == IF k >= 4 THEN Mirror(p) ELSE p
<1>1. q \in Points /\ Distance(q) = Distance(p) /\ Steps(q) = Steps(p)
  BY OneTurn
<1>2. /\ Turn(q) \in Points /\ Distance(Turn(q)) = Distance(p) /\ Steps(Turn(q)) = Steps(p)
      /\ Turn(Turn(q)) \in Points /\ Distance(Turn(Turn(q))) = Distance(p)
      /\ Steps(Turn(Turn(q))) = Steps(p)
  <2>1. Turn(q) \in Points /\ Distance(Turn(q)) = Distance(q) /\ Steps(Turn(q)) = Steps(q)
    BY <1>1, OneTurn
  <2> QED BY <1>1, <2>1, OneTurn
<1>3. /\ Turn(Turn(Turn(q))) \in Points /\ Distance(Turn(Turn(Turn(q)))) = Distance(p)
      /\ Steps(Turn(Turn(Turn(q)))) = Steps(p)
  BY <1>2, OneTurn
<1>4. k % 4 \in 0 .. 3
  OBVIOUS
<1> HIDE DEF q
<1>5. Transformed(p, k) \in {q, Turn(q), Turn(Turn(q)), Turn(Turn(Turn(q)))}
  BY <1>4 DEF Transformed, q
<1> QED BY <1>1, <1>2, <1>3, <1>5

LEMMA TransformInjective ==
    ASSUME NEW p \in Points, NEW q \in Points, NEW k \in 0 .. 7,
           Transformed(p, k) = Transformed(q, k)
    PROVE  p = q
<1>1. k % 4 \in 0 .. 3
  OBVIOUS
<1> DEFINE P == IF k >= 4 THEN Mirror(p) ELSE p
           Q == IF k >= 4 THEN Mirror(q) ELSE q
<1>2. P \in Points /\ Q \in Points
  BY OneTurn
<1>3. P = Q => p = q
  BY OneTurn
<1> HIDE DEF P, Q
<1>4. \/ P = Q
      \/ Turn(P) = Turn(Q)
      \/ Turn(Turn(P)) = Turn(Turn(Q))
      \/ Turn(Turn(Turn(P))) = Turn(Turn(Turn(Q)))
  BY <1>1 DEF Transformed, P, Q
<1>5. P = Q
  <2>1. Turn(Turn(Turn(Turn(P)))) = Turn(Turn(Turn(Turn(Q))))
    BY <1>4
  <2> QED BY <1>2, <2>1, OneTurn
<1> QED BY <1>3, <1>5

\* The 24 landmarks as they are before the seed turns them.
LEMMA CanonicalLandmarks ==
    \A id \in LandmarkIds :
        LET p == Canonical[id + 1]
            movement == IF id < 5 THEN 2 ELSE id \div 5 + 1
        IN  /\ p \in Points
            /\ RegionAt(p) = id \div 5
            /\ Distance(p) \in 1 .. 15
            /\ Steps(p) <= ClarityCapacity(movement)
            /\ Steps(p) \div 4 <= RationCapacity(movement)
  BY DEF LandmarkIds, Canonical, Points, RegionAt, Distance, Abs, Steps, ClarityCapacity,
         RationCapacity

LEMMA CanonicalDistinct ==
    \A i \in LandmarkIds, j \in LandmarkIds : Canonical[i + 1] = Canonical[j + 1] => i = j
  BY DEF LandmarkIds, Canonical

Transforms == [Regions -> 0 .. 7]

\* Where a seed puts a landmark.
LEMMA PlacedLandmark ==
    ASSUME NEW s \in Transforms, NEW id \in LandmarkIds
    PROVE  /\ Position(s, id) \in Points
           /\ Distance(Position(s, id)) = Distance(Canonical[id + 1])
           /\ Steps(Position(s, id)) = Steps(Canonical[id + 1])
           /\ RegionAt(Position(s, id)) = id \div 5
<1>1. id \div 5 \in Regions
  BY DEF LandmarkIds, Regions
<1>2. s[id \div 5] \in 0 .. 7 /\ Canonical[id + 1] \in Points
  BY <1>1, CanonicalLandmarks DEF Transforms
<1>3. /\ Position(s, id) \in Points
      /\ Distance(Position(s, id)) = Distance(Canonical[id + 1])
      /\ Steps(Position(s, id)) = Steps(Canonical[id + 1])
  BY <1>2, TransformKeeps DEF Position
<1>4. RegionAt(Position(s, id)) = RegionAt(Canonical[id + 1])
  BY <1>3 DEF RegionAt
<1> QED BY <1>3, <1>4, CanonicalLandmarks

\* No seed puts two landmarks on one cell.
LEMMA LandmarksApart ==
    ASSUME NEW s \in Transforms, NEW i \in LandmarkIds, NEW j \in LandmarkIds,
           Position(s, i) = Position(s, j)
    PROVE  i = j
<1>1. i \div 5 = j \div 5 /\ i \div 5 \in Regions
  BY PlacedLandmark DEF LandmarkIds, Regions
<1>2. s[i \div 5] \in 0 .. 7 /\ Canonical[i + 1] \in Points /\ Canonical[j + 1] \in Points
  BY <1>1, CanonicalLandmarks DEF Transforms
<1>3. Canonical[i + 1] = Canonical[j + 1]
  BY <1>1, <1>2, TransformInjective DEF Position
<1> QED BY <1>3, CanonicalDistinct

\* world_tile_at reports a landmark where world_landmark_position puts it.
LEMMA LandmarkFound ==
    ASSUME NEW s \in Transforms, NEW id \in LandmarkIds
    PROVE  LandmarkAt(s, Position(s, id)) = id
<1> DEFINE p == Position(s, id)
           here == {j \in LandmarkIds : Position(s, j) = p}
<1>1. here = {id}
  BY LandmarksApart
<1>2. p \in Points /\ Distance(p) \in 1 .. 15
  BY PlacedLandmark, CanonicalLandmarks
<1>3. p # <<0, 0>>
  BY <1>2 DEF Distance, Abs
<1>4. InBounds(p)
  BY <1>2, WorldGenAssumption DEF InBounds, Coordinates, Distance, Abs, Points
<1>5. (CHOOSE j \in here : \A other \in here : j <= other) = id
  BY <1>1 DEF LandmarkIds
<1> QED BY <1>1, <1>3, <1>4, <1>5 DEF LandmarkAt

\* The last lookup found what it asked for.
LookupInv ==
    /\ seed \in Transforms
    /\ \/ asked = NoLandmark /\ found = NoLandmark
       \/ asked \in LandmarkIds /\ found = asked

THEOREM LookupInvariant == Spec => []LookupInv
<1>1. Init => LookupInv
  BY WorldGenAssumption DEF Init, LookupInv, Transforms
<1>2. LookupInv /\ [Next]_worldVars => LookupInv'
  <2> SUFFICES ASSUME LookupInv, [Next]_worldVars PROVE LookupInv'
    OBVIOUS
  <2>1. CASE LookUp
    <3>1. UNCHANGED seed /\ asked' \in LandmarkIds
      BY <2>1 DEF LookUp, LookupInv, LandmarkIds
    <3>2. found' = LandmarkAt(seed, Position(seed, asked'))
      BY <2>1 DEF LookUp
    <3> QED BY <3>1, <3>2, LandmarkFound DEF LookupInv
  <2>2. CASE UNCHANGED <<seed, asked, found>>
    BY <2>2 DEF LookupInv
  <2> QED BY <2>1, <2>2 DEF Next, Reveal, worldVars
<1> QED BY <1>1, <1>2, PTL DEF Spec

\* Every seed has all 24 landmarks, each on a cell of its own.
THEOREM EveryLandmarkIsThere == Spec => []LandmarksDistinct
<1>1. LookupInv => LandmarksDistinct
  BY DEF LookupInv, LandmarksDistinct
<1> QED BY <1>1, LookupInvariant, PTL

\* Whatever the seed, a landmark lies in its region, within its movement's
\* distance and beyond the one before.
THEOREM BandsOpenWhole == Spec => []LandmarksInRegion
<1>1. LookupInv => LandmarksInRegion
  <2> SUFFICES ASSUME LookupInv, NEW id \in {asked} \cap LandmarkIds,
                      NEW p, p = Position(seed, id), NEW band, band = id \div 5 + 1
               PROVE  /\ RegionAt(p) = id \div 5
                      /\ Distance(p) <= MaxDistance(band)
                      /\ band > 1 => Distance(p) > MaxDistance(band - 1)
    BY DEF LandmarksInRegion
  <2>1. /\ RegionAt(p) = id \div 5 /\ Distance(p) \in 1 .. 15
        /\ band \in 1 .. 5
    BY PlacedLandmark, CanonicalLandmarks DEF LookupInv, LandmarkIds
  <2> QED BY <2>1 DEF RegionAt, MaxDistance
<1> QED BY <1>1, LookupInvariant, PTL

\* Whatever the seed, a landmark can be walked to on what its movement allows.
THEOREM LandmarksInReach == Spec => []LandmarksAffordable
<1>1. LookupInv => LandmarksAffordable
  BY PlacedLandmark, CanonicalLandmarks DEF LookupInv, LandmarksAffordable, Steps
<1> QED BY <1>1, LookupInvariant, PTL

\* What Drift assumes of its map holds of the map every seed makes: each landmark
\* has a cell of its own, and those of movement m, numbered from 5 (m - 1), lie
\* beyond the reach of the movement before (world_gen.c:34-99, expedition.c:5-20,
\* game_state.c:53-100).
THEOREM EverySeedSuitsDrift ==
    ASSUME NEW s \in [Regions -> 0 .. 7]
    PROVE  /\ \A id \in LandmarkIds : Position(s, id) \in Cells
           /\ \A i \in LandmarkIds, j \in LandmarkIds :
                 Position(s, i) = Position(s, j) => i = j
           /\ \A m \in 2 .. 5 : \A id \in LandmarkIds \cap (5 * (m - 1) .. 5 * (m - 1) + 4) :
                 Distance(Position(s, id)) \in MaxDistance(m - 1) + 1 .. MaxDistance(m)
<1>1. ASSUME NEW id \in LandmarkIds PROVE Position(s, id) \in Cells
  <2>1. Position(s, id) \in Points /\ Distance(Position(s, id)) \in 1 .. 15
    BY PlacedLandmark, CanonicalLandmarks DEF Transforms
  <2> QED BY <2>1, WorldGenAssumption DEF Cells, Coordinates, Distance, Abs, Points
<1>2. ASSUME NEW m \in 2 .. 5, NEW id \in LandmarkIds \cap (5 * (m - 1) .. 5 * (m - 1) + 4)
      PROVE  Distance(Position(s, id)) \in MaxDistance(m - 1) + 1 .. MaxDistance(m)
  <2>1. /\ RegionAt(Position(s, id)) = m - 1
        /\ Distance(Position(s, id)) \in 1 .. 15
    BY PlacedLandmark, CanonicalLandmarks DEF Transforms, LandmarkIds
  <2> QED BY <2>1 DEF RegionAt, MaxDistance
<1> QED BY <1>1, <1>2, LandmarksApart DEF Transforms
-----------------------------------------------------------------------------
Side == 2 * Center + 1

LEMMA Bits ==
    ASSUME NEW p \in Cells
    PROVE  /\ p[1] + Center \in 0 .. Side - 1 /\ p[2] + Center \in 0 .. Side - 1
           /\ Index(p) \in 0 .. Side * Side - 1
<1>1. /\ Side \in Nat /\ p[1] + Center \in 0 .. Side - 1 /\ p[2] + Center \in 0 .. Side - 1
  BY WorldGenAssumption DEF Cells, Coordinates, Side
<1>2. ASSUME NEW x \in 0 .. Side - 1, NEW y \in 0 .. Side - 1
      PROVE  y * Side + x \in 0 .. Side * Side - 1
  <2>1. Side \in Nat /\ x \in Nat /\ y \in Nat /\ y + 1 <= Side
    BY <1>1
  <2>2. (y + 1) * Side <= Side * Side /\ y * Side >= 0
    BY <2>1
  <2>3. (y + 1) * Side = y * Side + Side
    BY <2>1
  <2>4. y * Side \in Nat /\ Side * Side \in Nat
    BY <2>1
  <2> QED BY <1>1, <2>2, <2>3, <2>4
<1> QED BY <1>1, <1>2 DEF Index, Side

\* No two cells share a bit.
LEMMA BitsApart ==
    ASSUME NEW p \in Cells, NEW q \in Cells, Index(p) = Index(q)
    PROVE  p = q
<1>1. ASSUME NEW a \in 0 .. Side - 1, NEW b \in 0 .. Side - 1,
             NEW x \in 0 .. Side - 1, NEW y \in 0 .. Side - 1,
             a * Side + x = b * Side + y, a < b
      PROVE  FALSE
  <2>1. Side \in Nat /\ a \in Nat /\ b \in Nat /\ a + 1 <= b
    BY <1>1, WorldGenAssumption DEF Side
  <2>2. (a + 1) * Side <= b * Side
    BY <2>1
  <2>3. (a + 1) * Side = a * Side + Side
    BY <2>1
  <2>4. a * Side \in Nat /\ b * Side \in Nat
    BY <2>1
  <2> QED BY <1>1, <2>1, <2>2, <2>3, <2>4
<1> DEFINE a == p[2] + Center
           b == q[2] + Center
           x == p[1] + Center
           y == q[1] + Center
<1>2. /\ a \in 0 .. Side - 1 /\ b \in 0 .. Side - 1
      /\ x \in 0 .. Side - 1 /\ y \in 0 .. Side - 1
  BY Bits
<1>3. a * Side + x = b * Side + y
  BY DEF Index, Side
<1>4. /\ p = <<p[1], p[2]>> /\ q = <<q[1], q[2]>>
      /\ p[1] \in Int /\ p[2] \in Int /\ q[1] \in Int /\ q[2] \in Int
      /\ Center \in Nat /\ Side \in Nat
  BY WorldGenAssumption DEF Cells, Coordinates, Side
<1>5. a = b
  <2> HIDE DEF a, b, x, y
  <2>1. ~(a < b) /\ ~(b < a)
    BY <1>1, <1>2, <1>3
  <2>2. a \in Int /\ b \in Int
    BY <1>2, <1>4
  <2> QED BY <2>1, <2>2
<1>6. x = y
  <2>1. a * Side = b * Side /\ a * Side \in Int /\ x \in Int /\ y \in Int
    BY <1>4, <1>5
  <2> HIDE DEF a, b, x, y
  <2> QED BY <1>3, <2>1
<1> QED BY <1>4, <1>5, <1>6

\* The bits that are set are those of the cells next to the player's way.
SeenInv ==
    /\ seed \in Seeds
    /\ trodden \subseteq Cells
    /\ visible = {Index(p) : p \in {c \in Cells : \E q \in trodden : c \in Neighbours(q)}}

LEMMA RevealedCells ==
    ASSUME NEW q \in Cells
    PROVE  Revealed(q) = {Index(p) : p \in {c \in Cells : c \in Neighbours(q)}}
<1>1. \A n \in Neighbours(q) : InBounds(n) <=> n \in Cells
  <2>1. \A n \in Neighbours(q) : n = <<n[1], n[2]>>
    BY DEF Neighbours, Cells
  <2> QED BY <2>1 DEF InBounds, Cells
<1> QED BY <1>1 DEF Revealed

THEOREM SeenInvariant == Spec => []SeenInv
<1>1. Init => SeenInv
  <2>1. <<0, 0>> \in Cells
    BY WorldGenAssumption DEF Cells, Coordinates
  <2> QED BY <2>1, RevealedCells DEF Init, SeenInv
<1>2. SeenInv /\ [Next]_worldVars => SeenInv'
  <2> SUFFICES ASSUME SeenInv, [Next]_worldVars PROVE SeenInv'
    OBVIOUS
  <2>1. ASSUME NEW p \in RevealAt[seed], Reveal(p) PROVE SeenInv'
    <3>1. p \in Cells /\ UNCHANGED seed /\ trodden' = trodden \cup {p}
      BY <2>1, WorldGenAssumption DEF SeenInv, Reveal
    <3>2. visible' = visible \cup {Index(n) : n \in {c \in Cells : c \in Neighbours(p)}}
      BY <2>1, <3>1, RevealedCells DEF Reveal
    <3> QED BY <3>1, <3>2 DEF SeenInv
  <2>2. CASE UNCHANGED <<seed, visible, trodden>>
    BY <2>2 DEF SeenInv
  <2> QED BY <2>1, <2>2 DEF Next, LookUp, worldVars
<1> QED BY <1>1, <1>2, PTL DEF Spec

\* The bits show exactly the cells next to the player's way, on any map.
THEOREM BitsAreTheWay == Spec => VisibleIsTrodden
<1>1. SeenInv' =>
         /\ visible' \subseteq 0 .. (2 * Center + 1) * (2 * Center + 1) - 1
         /\ \A p \in Cells : IsVisible(p)' <=> \E q \in trodden' : p \in Neighbours(q)
  <2> SUFFICES ASSUME SeenInv'
               PROVE  /\ visible' \subseteq 0 .. Side * Side - 1
                      /\ \A p \in Cells : IsVisible(p)'
                            <=> \E q \in trodden' : p \in Neighbours(q)
    BY DEF Side
  <2>1. visible' \subseteq 0 .. Side * Side - 1
    BY Bits DEF SeenInv
  <2>2. ASSUME NEW p \in Cells
        PROVE  IsVisible(p)' <=> \E q \in trodden' : p \in Neighbours(q)
    <3>1. IsVisible(p)' <=> Index(p) \in visible'
      BY DEF IsVisible, InBounds, Cells
    <3> QED BY <3>1, BitsApart DEF SeenInv
  <2> QED BY <2>1, <2>2
<1>2. SeenInv' => [trodden' # trodden =>
          /\ visible' \subseteq 0 .. (2 * Center + 1) * (2 * Center + 1) - 1
          /\ \A p \in Cells : IsVisible(p)' <=> \E q \in trodden' : p \in Neighbours(q)
        ]_worldVars
  BY <1>1
<1> QED BY <1>2, SeenInvariant, PTL DEF VisibleIsTrodden
=============================================================================
