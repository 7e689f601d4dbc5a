----------------------------- MODULE DriftProofs -----------------------------
(* Proofs about Drift: its inductive invariant and what follows from it.     *)
EXTENDS Drift, TLAPS

\* A number cut at a cap is the smaller of the two.
LEMMA AtMostRange ==
    ASSUME NEW n \in Nat, NEW cap \in Nat
    PROVE  AtMost(n, cap) \in 0 .. cap /\ AtMost(n, cap) <= n
                /\ (AtMost(n, cap) = n \/ AtMost(n, cap) = cap)
BY DEF AtMost

\* The two ends the others are made from.
LEMMA PlainAndSecond ==
    /\ Plain \in Ends
    /\ Plain.threadCost = 0 /\ Plain.thread = 0
    /\ Second \in Ends
    /\ Second.result = 2 /\ Second.threadCost = 0 /\ Second.thread = 0
<1>1. Plain \in Ends /\ Plain.threadCost = 0 /\ Plain.thread = 0
  BY DEF Plain, Ends
<1>2. QED
  BY <1>1 DEF Second, Ends

\* The ends of the scenes are of the right kind, thread is taken by the doorframe
\* only, given by the cathedral always, and never without completing a landmark.
LEMMA SceneEndFacts ==
    ASSUME NEW landmark \in Landmarks \cup {NoLandmark}, NEW clarity \in Nat,
           NEW end \in SceneEnds(landmark, clarity)
    PROVE  /\ end \in Ends
           /\ landmark # 22 => end.threadCost = 0
           /\ landmark = 17 => end.result > 0 /\ end.thread = 3
           /\ landmark = 22 => end.thread = 0 /\ end.result > 0
           /\ end.thread > 0 => landmark # NoLandmark /\ end.result > 0
<1>1. landmark \in 0 .. 23 \/ landmark = 255
  BY DriftAssumption DEF LandmarkIds, NoLandmark, Porch
<1>2. CASE landmark \in 0 .. 4
  BY <1>2 DEF SceneEnds, NoLandmark, Porch
<1>3. CASE landmark = 5
  <2>1. end = Plain \/ end = [Second EXCEPT !.clarity = 2]
    BY <1>3 DEF SceneEnds, NoLandmark, Porch
  <2>2. QED
    BY <1>3, <2>1, PlainAndSecond DEF Ends, NoLandmark, Porch
<1>4. CASE landmark = 6
  <2>1. end = [Plain EXCEPT !.result = 0] \/ end = [Plain EXCEPT !.clarityCost = 2]
    BY <1>4 DEF SceneEnds, NoLandmark, Porch
  <2>2. QED
    BY <1>4, <2>1, PlainAndSecond DEF Ends, NoLandmark, Porch
<1>5. CASE landmark = 7
  <2>1. end = Plain \/ end = [Second EXCEPT !.thread = 2]
    BY <1>5 DEF SceneEnds, NoLandmark, Porch
  <2>2. QED
    BY <1>5, <2>1, PlainAndSecond DEF Ends, NoLandmark, Porch
<1>6. CASE landmark = 8
  BY <1>6 DEF SceneEnds, Ends, Plain, Second, NoLandmark, Porch
<1>7. CASE landmark = 9
  <2> DEFINE paid == [Second EXCEPT !.clarityCost = 2]
  <2>1. end = [paid EXCEPT !.thread = 2] \/ end = [Plain EXCEPT !.remnants = 3]
    BY <1>7 DEF SceneEnds, NoLandmark, Porch
  <2>2. paid \in Ends /\ paid.result = 2 /\ paid.threadCost = 0
    BY PlainAndSecond DEF Ends
  <2> HIDE DEF paid
  <2>3. QED
    BY <1>7, <2>1, <2>2, PlainAndSecond DEF Ends, NoLandmark, Porch
<1>8. CASE landmark = 10
  <2> DEFINE paid == [Second EXCEPT !.clarityCost = 3]
  <2>1. end = [paid EXCEPT !.thread = 3] \/ end = [Plain EXCEPT !.remnants = 3]
    BY <1>8 DEF SceneEnds, NoLandmark, Porch
  <2>2. paid \in Ends /\ paid.result = 2 /\ paid.threadCost = 0
    BY PlainAndSecond DEF Ends
  <2> HIDE DEF paid
  <2>3. QED
    BY <1>8, <2>1, <2>2, PlainAndSecond DEF Ends, NoLandmark, Porch
<1>9. CASE landmark = 11
  BY <1>9 DEF SceneEnds, Ends, Plain, Second, NoLandmark, Porch
<1>10. CASE landmark = 12
  <2>1. end = [Plain EXCEPT !.clarity = 2] \/ end = [Second EXCEPT !.thread = 2]
    BY <1>10 DEF SceneEnds, NoLandmark, Porch
  <2>2. QED
    BY <1>10, <2>1, PlainAndSecond DEF Ends, NoLandmark, Porch
<1>11. CASE landmark = 13
  BY <1>11 DEF SceneEnds, Ends, Plain, Second, NoLandmark, Porch
<1>12. CASE landmark = 14
  BY <1>12 DEF SceneEnds, Ends, Plain, Second, NoLandmark, Porch
<1>13. CASE landmark = 15
  BY <1>13 DEF SceneEnds, Ends, Plain, Second, NoLandmark, Porch
<1>14. CASE landmark = 16
  BY <1>14 DEF SceneEnds, Ends, Plain, Second, NoLandmark, Porch
<1>15. CASE landmark = 17
  BY <1>15 DEF SceneEnds, Ends, Plain, Second, NoLandmark, Porch
<1>16. CASE landmark = 18
  BY <1>16 DEF SceneEnds, Ends, Plain, Second, NoLandmark, Porch
<1>17. CASE landmark = 19
  BY <1>17 DEF SceneEnds, Ends, Plain, Second, NoLandmark, Porch
<1>18. CASE landmark = 20
  BY <1>18 DEF SceneEnds, Ends, Plain, Second, NoLandmark, Porch
<1>19. CASE landmark = 21
  BY <1>19 DEF SceneEnds, Ends, Plain, Second, NoLandmark, Porch
<1>20. CASE landmark = 22
  BY <1>20 DEF SceneEnds, Ends, Plain, Second, NoLandmark, Porch
<1>21. CASE landmark = 23
  BY <1>21 DEF SceneEnds, Ends, Plain, Second, NoLandmark, Porch
<1>22. CASE landmark = 255
  <2>1. end = [Plain EXCEPT !.clarityCost = 1] \/ end = [Second EXCEPT !.remnants = 2]
    BY <1>22 DEF SceneEnds, NoLandmark, Porch
  <2>2. QED
    BY <1>22, <2>1, PlainAndSecond DEF Ends, NoLandmark, Porch
<1>23. QED
  BY <1>1, <1>2, <1>3, <1>4, <1>5, <1>6, <1>7, <1>8, <1>9, <1>10, <1>11, <1>12, <1>13, <1>14, <1>15, <1>16, <1>17, <1>18, <1>19, <1>20, <1>21, <1>22

\* Distances are natural numbers.
LEMMA DistanceNat == ASSUME NEW p \in Cells PROVE Distance(p) \in Nat
<1>1. p[1] \in Int /\ p[2] \in Int
  BY DriftAssumption DEF Cells, Coordinates
<1>2. QED
  BY <1>1 DEF Distance, Abs

\* The house is a cell within every reach.
LEMMA HouseInReach ==
    /\ <<0, 0>> \in Cells
    /\ \A m \in Movements : Distance(<<0, 0>>) <= Reach[m]
    /\ AtHouse \in Expeditions
    /\ NoScene \in Scenes
<1>1. <<0, 0>> \in Cells
  BY DriftAssumption DEF Cells, Coordinates
<1>2. ASSUME NEW m \in Movements PROVE Distance(<<0, 0>>) <= Reach[m]
  <2>1. Distance(<<0, 0>>) = 0
    BY DEF Distance, Abs
  <2>2. QED
    BY <2>1, DriftAssumption
<1>3. QED
  BY <1>1, <1>2, DriftAssumption DEF AtHouse, NoScene, Expeditions, Scenes

\* The initial state satisfies the invariant.
LEMMA InitIInv == Init => IInv
<1> SUFFICES ASSUME Init PROVE IInv
  OBVIOUS
<1>1. TypeOK
  BY HouseInReach, DriftAssumption DEF Init, TypeOK, Movements, WARMTH, COMPLETE
<1>2. CampaignInOrder
  BY DEF Init, CampaignInOrder, WARMTH, FRAGMENTS, FINAL_DOOR, COMPLETE
<1>3. NoStall /\ ThreadHeld
  BY DEF Init, NoStall, ThreadHeld, WARMTH, FRAGMENTS, MACHINERY
<1>4. SceneInPlace /\ ResolveLeft
  BY DEF Init, SceneInPlace, ResolveLeft, AtHouse, NoScene
<1>5. QED
  BY <1>1, <1>2, <1>3, <1>4 DEF IInv

\* The first memory opens a movement whose band is untouched.
LEMMA HoldMemoryIInv == IInv /\ HoldMemory => IInv'
<1> SUFFICES ASSUME IInv, HoldMemory PROVE IInv'
  OBVIOUS
<1> USE DEF IInv, HoldMemory
<1>1. TypeOK'
  BY DEF TypeOK, Movements, WARMTH, FRAGMENTS, COMPLETE
<1>2. CampaignInOrder'
  BY DEF CampaignInOrder, WARMTH, FRAGMENTS, FINAL_DOOR, COMPLETE
<1>3. NoStall'
  BY BandsBeyondReach DEF CampaignInOrder, NoStall, WARMTH, FRAGMENTS, MACHINERY, FINAL_DOOR
<1>4. SceneInPlace'
  <2>1. Reach[WARMTH] <= Reach[FRAGMENTS] /\ Reach[WARMTH] \in Nat /\ Reach[FRAGMENTS] \in Nat
    BY DriftAssumption DEF Movements, WARMTH, FRAGMENTS, COMPLETE
  <2>2. Distance(expedition.at) \in Nat
    BY DistanceNat DEF TypeOK, Expeditions
  <2>3. QED
    BY <2>1, <2>2 DEF SceneInPlace
<1>5. (ResolveLeft /\ ThreadHeld)'
  BY DEF ResolveLeft, ThreadHeld
<1>6. QED
  BY <1>1, <1>2, <1>3, <1>4, <1>5

\* What stays as it was when only the expedition, the scene and the remnants move.
LEMMA CampaignUntouched ==
    IInv /\ UNCHANGED <<movement, cleared, thread, ending>>
        => CampaignInOrder' /\ NoStall' /\ ThreadHeld'
BY DEF IInv, CampaignInOrder, NoStall, ThreadHeld

\* An expedition starts at the house with resolve.
LEMMA StartIInv ==
    ASSUME NEW c \in HomeClarity, NEW r \in HomeRations, IInv, Start(c, r)
    PROVE  IInv'
<1> USE DEF IInv, Start
<1>1. movement \in FRAGMENTS .. COMPLETE /\ movement \in Movements
  BY DEF TypeOK, Movements, WARMTH, FRAGMENTS, COMPLETE
<1> DEFINE clarity == AtMost(c, ClarityCapacity[movement])
           rations == AtMost(r, RationCapacity[movement])
<1>2. clarity \in Nat /\ rations \in Nat /\ Nerve[movement] \in Nat \ {0}
  BY <1>1, DriftAssumption DEF AtMost
<1>3. /\ expedition' \in Expeditions
      /\ expedition'.at = <<0, 0>>
      /\ expedition'.resolve = Nerve[movement]
  <2> HIDE DEF clarity, rations
  <2>1. expedition' = [AtHouse EXCEPT !.active = TRUE, !.clarity = clarity,
                                      !.rations = rations, !.resolve = Nerve[movement]]
    BY DEF clarity, rations
  <2>2. QED
    BY <1>2, <2>1, HouseInReach DEF AtHouse, Expeditions
<1>4. TypeOK'
  BY <1>3 DEF TypeOK
<1>5. SceneInPlace' /\ ResolveLeft'
  BY <1>1, <1>2, <1>3, HouseInReach DEF SceneInPlace, ResolveLeft
<1>6. QED
  BY <1>4, <1>5, CampaignUntouched

\* The gatherers touch the remnants only.
LEMMA GatherIInv == IInv /\ Gather => IInv'
<1> SUFFICES ASSUME IInv, Gather PROVE IInv'
  OBVIOUS
<1>1. TypeOK' /\ SceneInPlace' /\ ResolveLeft'
  BY DriftAssumption DEF IInv, Gather, TypeOK, SceneInPlace, ResolveLeft
<1>2. QED
  BY <1>1, CampaignUntouched DEF IInv, Gather

\* Whoever is at home touches the remnants only.
LEMMA AtHomeIInv ==
    ASSUME IInv, NEW left \in 0 .. RemnantMax, AtHome(left)
    PROVE  IInv'
<1>1. TypeOK' /\ SceneInPlace' /\ ResolveLeft'
  BY DEF IInv, AtHome, TypeOK, SceneInPlace, ResolveLeft
<1>2. QED
  BY <1>1, CampaignUntouched DEF IInv, AtHome

\* A return takes the expedition to the house.
LEMMA ReturnIInv == IInv /\ Return => IInv'
<1> SUFFICES ASSUME IInv, Return PROVE IInv'
  OBVIOUS
<1>1. remnants' \in 0 .. RemnantMax
  <2>1. remnants + expedition.cargo \in Nat /\ RemnantMax \in Nat
    BY DriftAssumption DEF IInv, TypeOK, Expeditions
  <2>2. QED
    BY <2>1, AtMostRange DEF Return
<1>2. TypeOK'
  BY <1>1, HouseInReach DEF IInv, Return, TypeOK
<1>3. SceneInPlace' /\ ResolveLeft'
  BY DEF IInv, Return, SceneInPlace, ResolveLeft, AtHouse
<1>4. QED
  BY <1>2, <1>3, CampaignUntouched DEF IInv, Return

\* A scene that breaks or is cut off leaves nothing behind.
LEMMA NoSceneIInv ==
    ASSUME IInv, scene' = NoScene,
           UNCHANGED <<movement, cleared, thread, ending, expedition, remnants>>
    PROVE  IInv'
<1>1. TypeOK'
  BY HouseInReach DEF IInv, TypeOK
<1>2. SceneInPlace' /\ ResolveLeft'
  BY DEF IInv, SceneInPlace, ResolveLeft, NoScene
<1>3. QED
  BY <1>1, <1>2, CampaignUntouched DEF IInv

\* A step of the way: a cell in reach, and no less than nothing left.
LEMMA WalkedFacts ==
    ASSUME IInv, NEW p \in Neighbours(expedition.at), expedition.active,
           InReach(p), ~RunsDry
    PROVE  /\ Walked(p) \in Expeditions
           /\ Walked(p).active
           /\ Walked(p).at = p
           /\ Walked(p).resolve = expedition.resolve
           /\ Walked(p).cargo = expedition.cargo
<1>1. p \in Cells
  <2>1. expedition.at \in Cells
    BY DEF IInv, TypeOK, Expeditions
  <2>2. p = <<p[1], p[2]>>
    BY <2>1 DEF Neighbours, Cells
  <2>3. QED
    BY <2>2 DEF InReach, InBounds, Cells
<1>2. expedition \in Expeditions
  BY DEF IInv, TypeOK
<1>3. expedition.clarity - 1 \in Nat
  BY <1>2 DEF RunsDry, Expeditions
<1>4. (IF expedition.steps = 3 THEN expedition.rations - 1 ELSE expedition.rations) \in Nat
  BY <1>2 DEF RunsDry, Expeditions
<1>5. (expedition.steps + 1) % 4 \in 0 .. 3
  BY <1>2 DEF Expeditions
<1> DEFINE clarity == expedition.clarity - 1
           rations == IF expedition.steps = 3 THEN expedition.rations - 1
                      ELSE expedition.rations
           steps == (expedition.steps + 1) % 4
<1>6. Walked(p) = [expedition EXCEPT !.at = p, !.clarity = clarity,
                                     !.rations = rations, !.steps = steps]
  BY <1>2 DEF Walked, Expeditions
<1>7. clarity \in Nat /\ rations \in Nat /\ steps \in 0 .. 3
  BY <1>3, <1>4, <1>5
<1> HIDE DEF clarity, rations, steps
<1>8. QED
  BY <1>1, <1>2, <1>6, <1>7 DEF Expeditions

\* What a move leaves to show: where the expedition is, and what is open there.
LEMMA MoveIInv ==
    ASSUME IInv, NEW p \in Neighbours(expedition.at) \ {expedition.at}, Move(p)
    PROVE  IInv'
<1> USE DEF Move
<1>1. CampaignInOrder' /\ NoStall' /\ ThreadHeld'
  BY CampaignUntouched
<1>2. /\ expedition' \in Expeditions
      /\ expedition'.active => Distance(expedition'.at) <= Reach[movement]
      /\ expedition'.active => expedition'.resolve > 0
  <2>1. CASE Lose
    BY <2>1, HouseInReach DEF Lose, AtHouse
  <2>2. CASE Struck(p)
    <3> DEFINE left == expedition.resolve - (IF TileAt(p) = "ECHO" THEN 2 ELSE 1)
    <3>1. left \in Int
      BY DEF IInv, TypeOK, Expeditions
    <3>2. expedition' = IF left <= 0 THEN AtHouse ELSE [Walked(p) EXCEPT !.resolve = left]
      BY <2>2 DEF Struck
    <3> HIDE DEF left
    <3>3. CASE left <= 0
      BY <3>2, <3>3, HouseInReach DEF AtHouse
    <3>4. CASE left > 0
      <4>1. Walked(p) \in Expeditions /\ Walked(p).at = p
        BY <2>2, WalkedFacts DEF Struck
      <4>2. expedition' = [Walked(p) EXCEPT !.resolve = left] /\ left \in Nat
        BY <3>1, <3>2, <3>4
      <4>3. expedition' \in Expeditions /\ expedition'.at = p /\ expedition'.resolve = left
        BY <4>1, <4>2 DEF Expeditions
      <4>4. QED
        BY <4>3, <3>4 DEF InReach
    <3>5. QED
      BY <3>1, <3>3, <3>4
  <2>3. CASE MeetPorch(p) \/ MeetLandmark(p)
    <3>1. ~RunsDry /\ expedition' = Walked(p)
      BY <2>3 DEF MeetPorch, MeetLandmark
    <3>2. QED
      BY <3>1, WalkedFacts DEF InReach, IInv, ResolveLeft
  <2>4. CASE Walk(p)
    <3>1. CargoOn(p) \in 0 .. CargoMax
      <4>1. expedition.cargo \in 0 .. CargoMax /\ CargoMax \in Nat
        BY DriftAssumption DEF IInv, TypeOK, Expeditions
      <4>2. QED
        BY <4>1 DEF CargoOn, AtMost
    <3>2. Walked(p) \in Expeditions /\ Walked(p).at = p
              /\ Walked(p).resolve = expedition.resolve
      BY <2>4, WalkedFacts DEF Walk
    <3>3. expedition' = [Walked(p) EXCEPT !.cargo = CargoOn(p)]
      BY <2>4 DEF Walk
    <3>4. expedition' \in Expeditions /\ expedition'.at = p
              /\ expedition'.resolve = expedition.resolve
      BY <3>1, <3>2, <3>3 DEF Expeditions
    <3>5. QED
      BY <3>4 DEF InReach, IInv, ResolveLeft
  <2>5. QED
    BY <2>1, <2>2, <2>3, <2>4
<1>3. /\ scene' \in Scenes
      /\ scene'.open => expedition'.active
      /\ scene'.open /\ scene'.landmark # NoLandmark =>
            Place[scene'.landmark] = expedition'.at /\ scene'.landmark \notin cleared
  <2>1. CASE Lose \/ Struck(p) \/ Walk(p)
    <3>1. scene' = scene
      BY <2>1 DEF Lose, Struck, Walk
    <3>2. QED
      BY <3>1 DEF IInv, TypeOK
  <2>2. CASE MeetPorch(p)
    BY <2>2, WalkedFacts DEF MeetPorch, Opened, Scenes, IInv, TypeOK
  <2>3. CASE MeetLandmark(p)
    <3>1. LandmarkOn(p) \in Landmarks /\ Place[LandmarkOn(p)] = p
      BY <2>3 DEF MeetLandmark, OnLandmark, LandmarkOn
    <3>2. QED
      BY <2>3, <3>1, WalkedFacts DEF MeetLandmark, Opened, Scenes, IInv, TypeOK
  <2>4. QED
    BY <2>1, <2>2, <2>3
<1>4. TypeOK'
  BY <1>2, <1>3 DEF IInv, TypeOK
<1>5. SceneInPlace' /\ ResolveLeft'
  BY <1>2, <1>3 DEF SceneInPlace, ResolveLeft
<1>6. QED
  BY <1>1, <1>4, <1>5 DEF IInv

\* A landmark of a movement to come is out of reach.
LEMMA StandsInOrder ==
    ASSUME IInv, scene.open, scene.landmark # NoLandmark,
           NEW m \in FRAGMENTS .. FINAL_DOOR, m > movement
    PROVE  scene.landmark \notin Band(m)
<1> SUFFICES ASSUME scene.landmark \in Band(m) PROVE FALSE
  OBVIOUS
<1>1. Distance(Place[scene.landmark]) > Reach[m - 1]
  BY BandsBeyondReach
<1>2. Distance(Place[scene.landmark]) <= Reach[movement]
  BY DEF IInv, SceneInPlace
<1>3. movement \in Movements /\ m - 1 \in Movements /\ movement <= m - 1
  BY DEF IInv, TypeOK, Movements, WARMTH, FRAGMENTS, FINAL_DOOR, COMPLETE
<1>4. Reach[movement] <= Reach[m - 1] /\ Reach[movement] \in Nat /\ Reach[m - 1] \in Nat
  BY <1>3, DriftAssumption
<1>5. Distance(Place[scene.landmark]) \in Nat
  <2>1. scene.landmark \in Landmarks
    BY DEF IInv, TypeOK, Scenes
  <2>2. QED
    BY <2>1, DistanceNat, DriftAssumption
<1>6. QED
  BY <1>1, <1>2, <1>4, <1>5

\* The end of a scene: what is cleared and which movement follows.
LEMMA EndSceneCampaign ==
    ASSUME IInv, NEW end \in SceneEnds(scene.landmark, expedition.clarity), EndScene(end)
    PROVE  /\ CampaignInOrder' /\ NoStall'
           /\ movement' \in Movements /\ movement' >= movement
           /\ cleared' \subseteq Landmarks
           /\ ending' \in 0 .. 3
<1> DEFINE landmark == scene.landmark
           completes == landmark # NoLandmark /\ end.result > 0
           done == IF completes THEN cleared \cup {landmark} ELSE cleared
           moved == IF completes THEN MovementAfter(done) ELSE movement
           chosen == /\ completes
                     /\ landmark = 23
                     /\ moved = FINAL_DOOR
                     /\ BandCleared(FINAL_DOOR, done)
<1>1. /\ cleared' = done
      /\ chosen => movement' = COMPLETE /\ ending' = end.result
      /\ ~chosen => movement' = moved /\ ending' = ending
  BY DEF EndScene
<1>2. landmark \in Landmarks \cup {NoLandmark} /\ movement \in 1 .. 6
      /\ cleared \subseteq Landmarks /\ ending \in 0 .. 3 /\ expedition.clarity \in Nat
  BY DEF IInv, TypeOK, Scenes, Expeditions, Movements, WARMTH, COMPLETE
<1>3. end \in Ends
  BY <1>2, SceneEndFacts
<1>4. \A m \in 2 .. 5 : m > movement => Band(m) \cap done = {}
  <2> SUFFICES ASSUME NEW m \in 2 .. 5, m > movement PROVE Band(m) \cap done = {}
    OBVIOUS
  <2>1. Band(m) \cap cleared = {}
    BY DEF IInv, CampaignInOrder, FRAGMENTS, FINAL_DOOR
  <2>2. completes => landmark \notin Band(m)
    BY StandsInOrder DEF FRAGMENTS, FINAL_DOOR, EndScene
  <2>3. QED
    BY <2>1, <2>2
<1>5. /\ moved = movement \/ (moved = movement + 1 /\ movement \in 2 .. 4)
      /\ moved = movement + 1 => Band(movement) \subseteq done
      /\ completes /\ moved = movement /\ movement \in 2 .. 4 => ~(Band(movement) \subseteq done)
  BY <1>2 DEF MovementAfter, BandCleared, FRAGMENTS, CONTRADICTIONS, MACHINERY
<1>6. chosen => movement = 5 /\ Band(5) \subseteq done
  <2> SUFFICES ASSUME chosen PROVE movement = 5 /\ Band(5) \subseteq done
    OBVIOUS
  <2>1. 23 \in Band(5)
    BY <1>2 DEF Band, NoLandmark, FRAGMENTS, CONTRADICTIONS, MACHINERY, FINAL_DOOR
  <2>2. ~(5 > movement)
    BY <1>4, <2>1
  <2>3. QED
    BY <1>2, <1>5, <2>2 DEF FINAL_DOOR, BandCleared
<1>7. \A m \in 2 .. 5 : m < movement => Band(m) \subseteq done
  BY DEF IInv, CampaignInOrder, FRAGMENTS, FINAL_DOOR
<1>8. ending > 0 <=> movement = 6
  BY DEF IInv, CampaignInOrder, COMPLETE
<1> HIDE DEF landmark, completes, done, moved, chosen
<1>9. movement' \in 1 .. 6 /\ movement' >= movement
  BY <1>1, <1>2, <1>5, <1>6 DEF COMPLETE
<1>10. \A m \in 2 .. 5 : m < movement' => Band(m) \subseteq cleared'
  <2> SUFFICES ASSUME NEW m \in 2 .. 5, m < movement' PROVE Band(m) \subseteq done
    BY <1>1
  <2>1. CASE m < movement
    BY <2>1, <1>7
  <2>2. CASE m = movement
    BY <2>2, <1>1, <1>2, <1>5, <1>6 DEF COMPLETE
  <2>3. m <= movement
    BY <1>1, <1>2, <1>5, <1>6 DEF COMPLETE
  <2>4. QED
    BY <1>2, <2>1, <2>2, <2>3
<1>11. \A m \in 2 .. 5 : m > movement' => Band(m) \cap cleared' = {}
  BY <1>1, <1>2, <1>4, <1>9
<1>12. ending' \in 0 .. 3 /\ (ending' > 0 <=> movement' = 6)
  <2>1. CASE chosen
    BY <1>1, <1>3, <2>1 DEF chosen, completes, Ends, COMPLETE
  <2>2. CASE ~chosen
    BY <1>1, <1>2, <1>5, <1>8, <2>2
  <2>3. QED
    BY <2>1, <2>2
<1>13. CampaignInOrder'
  BY <1>10, <1>11, <1>12 DEF CampaignInOrder, FRAGMENTS, FINAL_DOOR, COMPLETE
<1>14. NoStall'
  <2> SUFFICES ASSUME movement' \in 2 .. 4 PROVE Band(movement') \ cleared' # {}
    BY DEF NoStall, FRAGMENTS, MACHINERY
  <2>1. CASE movement' = movement
    <3>1. moved = movement
      BY <1>1, <1>2, <1>6, <2>1 DEF COMPLETE
    <3>2. CASE completes
      BY <1>1, <1>5, <3>1, <3>2, <2>1
    <3>3. CASE ~completes
      BY <1>1, <3>3, <2>1 DEF done, IInv, NoStall, FRAGMENTS, MACHINERY
    <3>4. QED
      BY <3>2, <3>3
  <2>2. CASE movement' # movement
    <3>1. movement' > movement /\ Band(movement') # {}
      BY <1>2, <1>9, <2>2, BandsBeyondReach DEF FRAGMENTS, FINAL_DOOR
    <3>2. QED
      BY <1>1, <1>4, <3>1
  <2>3. QED
    BY <2>1, <2>2
<1>15. cleared' \subseteq Landmarks
  BY <1>1, <1>2 DEF done, completes
<1>16. QED
  BY <1>9, <1>12, <1>13, <1>14, <1>15 DEF Movements, WARMTH, COMPLETE

\* The end of a scene pays at least what the doorframe will ask for.
LEMMA EndSceneThread ==
    ASSUME IInv, NEW end \in SceneEnds(scene.landmark, expedition.clarity), EndScene(end)
    PROVE  thread' \in 0 .. ThreadMax /\ ThreadHeld'
<1>1. /\ scene.landmark \in Landmarks \cup {NoLandmark} /\ expedition.clarity \in Nat
      /\ thread \in 0 .. ThreadMax /\ ThreadMax \in Nat /\ ThreadMax >= 3
  BY DriftAssumption, ThreadAssumption DEF IInv, TypeOK, Scenes, Expeditions
<1>2. /\ end \in Ends
      /\ scene.landmark # 22 => end.threadCost = 0
      /\ scene.landmark = 17 => end.result > 0 /\ end.thread = 3
      /\ scene.landmark = 22 => end.thread = 0 /\ end.result > 0
  BY <1>1, SceneEndFacts
<1>3. /\ thread' = AtMost(thread - end.threadCost + end.thread, ThreadMax)
      /\ thread >= end.threadCost
      /\ cleared' = IF scene.landmark # NoLandmark /\ end.result > 0
                    THEN cleared \cup {scene.landmark} ELSE cleared
  BY DEF EndScene, AppliedThread, Payable
<1>4. end.threadCost \in Nat /\ end.thread \in Nat
  BY <1>2 DEF Ends
<1>5. thread' \in 0 .. ThreadMax
  BY <1>1, <1>3, <1>4 DEF AtMost
<1>6. ASSUME 17 \in cleared', 22 \notin cleared' PROVE thread' >= 3
  <2>1. scene.landmark # 22 /\ 22 \notin cleared
    BY <1>2, <1>3, <1>6 DEF NoLandmark
  <2>2. scene.landmark = 17 \/ 17 \in cleared
    BY <1>3, <1>6
  <2>3. thread >= 3 \/ end.thread = 3
    BY <1>2, <2>1, <2>2 DEF IInv, ThreadHeld
  <2>4. QED
    BY <1>1, <1>2, <1>3, <1>4, <2>1, <2>3 DEF AtMost
<1>7. QED
  BY <1>5, <1>6 DEF ThreadHeld

\* The end of a scene keeps the invariant.
LEMMA EndSceneIInv ==
    ASSUME IInv, NEW end \in SceneEnds(scene.landmark, expedition.clarity), EndScene(end)
    PROVE  IInv'
<1>1. /\ expedition \in Expeditions /\ scene \in Scenes /\ remnants \in 0 .. RemnantMax
      /\ movement \in Movements /\ RemnantMax \in Nat
  BY DriftAssumption DEF IInv, TypeOK
<1>2. end \in Ends
  BY <1>1, SceneEndFacts DEF Expeditions, Scenes
<1>3. remnants' \in 0 .. RemnantMax
  <2>1. AppliedRemnants(end) \in 0 .. RemnantMax
    BY <1>1, <1>2 DEF AppliedRemnants, AtMost, Scenes, Ends
  <2>2. AppliedRemnants(end) + expedition.cargo \in Nat
    BY <1>1, <2>1, DriftAssumption DEF Expeditions
  <2>3. AtMost(AppliedRemnants(end) + expedition.cargo, RemnantMax) \in 0 .. RemnantMax
    BY <1>1, <2>2, AtMostRange
  <2>4. QED
    BY <2>1, <2>3 DEF EndScene
<1>4. /\ AppliedExpedition(end) \in Expeditions
      /\ AppliedExpedition(end).at = expedition.at
      /\ AppliedExpedition(end).resolve = expedition.resolve
      /\ AppliedExpedition(end).active = expedition.active
  <2>1. expedition.clarity \in Nat /\ expedition.clarity - end.clarityCost \in Nat
            /\ end.clarity \in Nat
    BY <1>1, <1>2 DEF Expeditions, Ends, EndScene, Payable
  <2>2. AtMost(expedition.clarity - end.clarityCost + end.clarity, 999) \in Nat
    BY <2>1 DEF AtMost
  <2>3. QED
    BY <1>1, <2>2 DEF AppliedExpedition, Expeditions
<1>5. expedition' = AtHouse \/ expedition' = AppliedExpedition(end)
  BY DEF EndScene
<1>6. scene' = NoScene
  BY DEF EndScene
<1>7. TypeOK'
  BY <1>3, <1>4, <1>5, <1>6, HouseInReach, EndSceneCampaign, EndSceneThread DEF TypeOK
<1>8. SceneInPlace'
  <2>1. movement' \in Movements /\ movement' >= movement
    BY EndSceneCampaign
  <2>2. Reach[movement] <= Reach[movement'] /\ Reach[movement] \in Nat /\ Reach[movement'] \in Nat
    BY <1>1, <2>1, DriftAssumption
  <2>3. Distance(expedition.at) \in Nat
    BY <1>1, DistanceNat DEF Expeditions
  <2>4. expedition'.active => Distance(expedition'.at) <= Reach[movement']
    BY <1>4, <1>5, <2>2, <2>3 DEF IInv, SceneInPlace, AtHouse
  <2>5. QED
    BY <1>6, <2>4 DEF SceneInPlace, NoScene
<1>9. ResolveLeft'
  BY <1>4, <1>5 DEF IInv, ResolveLeft, AtHouse
<1>10. QED
  BY <1>7, <1>8, <1>9, EndSceneCampaign, EndSceneThread DEF IInv

\* Every step keeps the invariant.
LEMMA StepIInv == IInv /\ [Next]_driftVars => IInv'
<1> SUFFICES ASSUME IInv, [Next]_driftVars PROVE IInv'
  OBVIOUS
<1>1. CASE HoldMemory
  BY <1>1, HoldMemoryIInv
<1>2. ASSUME NEW c \in HomeClarity, NEW r \in HomeRations, Start(c, r) PROVE IInv'
  BY <1>2, StartIInv
<1>3. CASE Gather
  BY <1>3, GatherIInv
<1>4. ASSUME NEW p \in Neighbours(expedition.at) \ {expedition.at}, Move(p) PROVE IInv'
  BY <1>4, MoveIInv
<1>5. CASE Return
  BY <1>5, ReturnIInv
<1>6. ASSUME NEW end \in SceneEnds(scene.landmark, expedition.clarity), EndScene(end)
      PROVE  IInv'
  BY <1>6, EndSceneIInv
<1>7. ASSUME NEW end \in SceneEnds(scene.landmark, expedition.clarity), BreakScene(end)
      PROVE  IInv'
  BY <1>7, NoSceneIInv DEF BreakScene
<1>8. CASE Restart
  BY <1>8, NoSceneIInv DEF Restart
<1>9. CASE UNCHANGED driftVars
  BY <1>9 DEF driftVars, IInv, TypeOK, CampaignInOrder, NoStall, SceneInPlace,
              ResolveLeft, ThreadHeld
<1>10. ASSUME NEW left \in 0 .. RemnantMax, AtHome(left) PROVE IInv'
  BY <1>10, AtHomeIInv
<1>11. QED
  BY <1>1, <1>2, <1>3, <1>4, <1>5, <1>6, <1>7, <1>8, <1>9, <1>10 DEF Next

\* The inductive invariant holds throughout, on every map and with every capacity
\* the assumptions admit.
THEOREM DriftInvariant == Spec => []IInv
<1>1. Init => IInv
  BY InitIInv
<1>2. IInv /\ [Next]_driftVars => IInv'
  BY StepIInv
<1>3. QED
  BY <1>1, <1>2, PTL DEF Spec

\* The campaign and the expedition keep their ranges: among them those that
\* game_state_is_valid demands before a save (game_state.c:32-51).
THEOREM TypeCorrect == Spec => []TypeOK
<1>1. IInv => TypeOK
  BY DEF IInv
<1> QED BY <1>1, DriftInvariant, PTL

\* Who is in the Drift has resolve left (expedition.c:93-123).
THEOREM NeverWithoutResolve == Spec => []ResolveLeft
<1>1. IInv => ResolveLeft
  BY DEF IInv
<1> QED BY <1>1, DriftInvariant, PTL

\* The movements are played in order and the ending crowns them all (CampaignInOrder).
THEOREM PlayedInOrder == Spec => []CampaignInOrder
<1>1. IInv => CampaignInOrder
  BY DEF IInv
<1>2. QED
  BY <1>1, DriftInvariant, PTL

\* No movement before the final door can run dry (NoStall).
THEOREM NeverStalls == Spec => []NoStall
<1>1. IInv => NoStall
  BY DEF IInv
<1>2. QED
  BY <1>1, DriftInvariant, PTL

\* The doorframe can always be paid (DoorframeAffordable).
THEOREM DoorframePaid == Spec => []DoorframeAffordable
<1>1. IInv => DoorframeAffordable
  <2> SUFFICES ASSUME IInv, movement = FINAL_DOOR, 22 \in Landmarks \ cleared
               PROVE  thread >= 2
    BY DEF DoorframeAffordable
  <2>1. 17 \in Band(MACHINERY)
    BY ThreadAssumption DEF Band, FRAGMENTS, CONTRADICTIONS, MACHINERY, FINAL_DOOR
  <2>2. 17 \in cleared
    BY <2>1 DEF IInv, CampaignInOrder, FRAGMENTS, MACHINERY, FINAL_DOOR
  <2>3. thread >= 3 /\ thread \in Int
    BY <2>2, DriftAssumption DEF IInv, ThreadHeld, TypeOK
  <2>4. QED
    BY <2>3
<1>2. QED
  BY <1>1, DriftInvariant, PTL

\* A scene is open only where the expedition stands (SceneInPlace).
THEOREM ScenesInPlace == Spec => []SceneInPlace
<1>1. IInv => SceneInPlace
  BY DEF IInv
<1>2. QED
  BY <1>1, DriftInvariant, PTL

\* Thread is paid once per landmark (PaidOnce).
THEOREM ThreadPaidOnce == Spec => PaidOnce
<1> DEFINE Pays == \E id \in Landmarks \ cleared : cleared' = cleared \cup {id}
<1>1. IInv /\ [Next]_driftVars => [thread' > thread => Pays]_driftVars
  <2> SUFFICES ASSUME IInv, Next, thread' > thread PROVE Pays
    OBVIOUS
  <2>1. thread \in Int
    BY DriftAssumption DEF IInv, TypeOK
  <2>2. PICK end \in SceneEnds(scene.landmark, expedition.clarity) : EndScene(end)
    <3>1. thread' # thread
      BY <2>1
    <3>2. ~HoldMemory /\ ~Gather /\ ~Return /\ ~Restart
      BY <3>1 DEF HoldMemory, Gather, Return, Restart
    <3>3. /\ \A c \in HomeClarity, r \in HomeRations : ~Start(c, r)
          /\ \A left \in 0 .. RemnantMax : ~AtHome(left)
      BY <3>1 DEF Start, AtHome
    <3>4. \A p \in Neighbours(expedition.at) \ {expedition.at} : ~Move(p)
      BY <3>1 DEF Move
    <3>5. \A end \in SceneEnds(scene.landmark, expedition.clarity) : ~BreakScene(end)
      BY <3>1 DEF BreakScene
    <3>6. QED
      BY <3>2, <3>3, <3>4, <3>5 DEF Next
  <2>3. scene.landmark \in Landmarks \cup {NoLandmark} /\ expedition.clarity \in Nat
    BY DEF IInv, TypeOK, Scenes, Expeditions
  <2>4. end \in Ends /\ (end.thread > 0 => scene.landmark # NoLandmark /\ end.result > 0)
    BY <2>3, SceneEndFacts
  <2>5. end.thread > 0
    <3>1. thread' = AtMost(thread - end.threadCost + end.thread, ThreadMax)
      BY <2>2 DEF EndScene, AppliedThread
    <3>2. QED
      BY <2>1, <2>4, <3>1, DriftAssumption DEF AtMost, Ends
  <2>6. cleared' = cleared \cup {scene.landmark}
    BY <2>2, <2>4, <2>5 DEF EndScene
  <2>7. scene.landmark \in Landmarks \ cleared
    BY <2>2, <2>3, <2>4, <2>5 DEF EndScene, IInv, SceneInPlace
  <2>8. QED
    BY <2>6, <2>7
<1>2. QED
  BY <1>1, DriftInvariant, PTL DEF Spec, PaidOnce
-----------------------------------------------------------------------------
(* What the findings leave true *)

\* What a step can do to the campaign: hold the memory, end a scene, or nothing.
LEMMA CampaignSteps ==
    ASSUME Next
    PROVE  \/ HoldMemory
           \/ \E end \in SceneEnds(scene.landmark, expedition.clarity) : EndScene(end)
           \/ UNCHANGED <<movement, cleared, ending>>
<1>1. ASSUME NEW c \in HomeClarity, NEW r \in HomeRations, Start(c, r)
      PROVE  UNCHANGED <<movement, cleared, ending>>
  BY <1>1 DEF Start
<1>2. CASE Gather \/ Return \/ Restart
  BY <1>2 DEF Gather, Return, Restart
<1>3. ASSUME NEW p \in Neighbours(expedition.at) \ {expedition.at}, Move(p)
      PROVE  UNCHANGED <<movement, cleared, ending>>
  BY <1>3 DEF Move
<1>4. ASSUME NEW end \in SceneEnds(scene.landmark, expedition.clarity), BreakScene(end)
      PROVE  UNCHANGED <<movement, cleared, ending>>
  BY <1>4 DEF BreakScene
<1>5. ASSUME NEW left \in 0 .. RemnantMax, AtHome(left)
      PROVE  UNCHANGED <<movement, cleared, ending>>
  BY <1>5 DEF AtHome
<1>6. QED
  BY <1>1, <1>2, <1>3, <1>4, <1>5 DEF Next

\* The last band is cleared and no ending was chosen.
DeadEnd == movement = FINAL_DOOR /\ Band(FINAL_DOOR) \subseteq cleared

\* What clears the last landmark before the final door decides: the last choice
\* gives an ending, any other landmark, the choice having been made too early,
\* leads into the dead end (game_state.c:101-109, main.c:1239-1258).
LastLandmarkDecides ==
    [][ movement = FINAL_DOOR /\ ~(Band(FINAL_DOOR) \subseteq cleared)
            /\ Band(FINAL_DOOR) \subseteq cleared'
        => IF scene.landmark = 23 THEN ending' > 0 /\ movement' = COMPLETE
           ELSE ending' = 0 /\ DeadEnd' ]_driftVars

\* Nothing leads out of the dead end: no scene is left that could ask again
\* (game_state.c:101-109).
DeadEndForGood == [][DeadEnd => DeadEnd' /\ ending' = 0]_driftVars

\* An ending is chosen once and stands, and with it the movement (game_state.c:101-109).
EndingStands == [][ending > 0 => UNCHANGED <<movement, ending>>]_driftVars

\* A landmark of the final door, in the terms of its number.
LEMMA LastBand ==
    /\ FINAL_DOOR = 5 /\ COMPLETE = 6
    /\ NoLandmark \notin Landmarks
    /\ \A landmark \in Landmarks : landmark = 23 => landmark \in Band(FINAL_DOOR)
<1>1. NoLandmark \notin Landmarks
  BY DriftAssumption DEF LandmarkIds, NoLandmark
<1>2. QED
  BY <1>1 DEF Band, FRAGMENTS, CONTRADICTIONS, MACHINERY, FINAL_DOOR, COMPLETE

\* The end of a scene at the final door: an ending is chosen exactly when its
\* landmark is the last choice and completes the band.
LEMMA EndAtFinalDoor ==
    ASSUME IInv, movement = FINAL_DOOR,
           NEW end \in SceneEnds(scene.landmark, expedition.clarity), EndScene(end)
    PROVE  /\ cleared' = cleared \/ cleared' = cleared \cup {scene.landmark}
           /\ IF scene.landmark = 23 /\ Band(FINAL_DOOR) \subseteq cleared'
                    /\ cleared' # cleared
              THEN ending' > 0 /\ movement' = COMPLETE
              ELSE ending' = ending /\ movement' = FINAL_DOOR
<1> DEFINE completes == scene.landmark # NoLandmark /\ end.result > 0
           done == IF completes THEN cleared \cup {scene.landmark} ELSE cleared
           moved == IF completes THEN MovementAfter(done) ELSE movement
           chosen == /\ completes
                     /\ scene.landmark = 23
                     /\ moved = FINAL_DOOR
                     /\ BandCleared(FINAL_DOOR, done)
<1>1. /\ cleared' = done
      /\ chosen => movement' = COMPLETE /\ ending' = end.result
      /\ ~chosen => movement' = moved /\ ending' = ending
      /\ scene.open
  BY DEF EndScene
<1>2. moved = FINAL_DOOR
  BY DEF MovementAfter, FRAGMENTS, CONTRADICTIONS, MACHINERY, FINAL_DOOR
<1>3. completes <=> cleared' # cleared
  <2>1. scene.landmark # NoLandmark => scene.landmark \notin cleared
    BY <1>1 DEF IInv, SceneInPlace
  <2>2. QED
    BY <1>1, <2>1
<1>4. completes => end.result > 0
  OBVIOUS
<1>5. chosen <=> scene.landmark = 23 /\ Band(FINAL_DOOR) \subseteq cleared' /\ cleared' # cleared
  BY <1>1, <1>2, <1>3 DEF BandCleared
<1>6. cleared' = cleared \/ cleared' = cleared \cup {scene.landmark}
  BY <1>1
<1> HIDE DEF moved, done
<1>7. CASE chosen
  BY <1>1, <1>4, <1>5, <1>6, <1>7
<1>8. CASE ~chosen
  BY <1>1, <1>2, <1>5, <1>6, <1>8
<1>9. QED
  BY <1>7, <1>8

\* The last landmark decides (LastLandmarkDecides).
THEOREM EndingOrDeadEnd == Spec => LastLandmarkDecides
<1> DEFINE Fills == movement = FINAL_DOOR /\ ~(Band(FINAL_DOOR) \subseteq cleared)
                        /\ Band(FINAL_DOOR) \subseteq cleared'
           Decided == IF scene.landmark = 23 THEN ending' > 0 /\ movement' = COMPLETE
                      ELSE ending' = 0 /\ DeadEnd'
<1>1. IInv /\ [Next]_driftVars => [Fills => Decided]_driftVars
  <2> SUFFICES ASSUME IInv, Next, Fills PROVE Decided
    OBVIOUS
  <2>1. cleared' # cleared /\ ~HoldMemory
    BY DEF HoldMemory, WARMTH, FINAL_DOOR
  <2>2. PICK end \in SceneEnds(scene.landmark, expedition.clarity) : EndScene(end)
    BY <2>1, CampaignSteps
  <2>3. ending = 0
    BY LastBand DEF IInv, CampaignInOrder, TypeOK
  <2>4. scene.landmark = 23 => ending' > 0 /\ movement' = COMPLETE
    BY <2>1, <2>2, EndAtFinalDoor
  <2>5. scene.landmark # 23 => ending' = ending /\ movement' = FINAL_DOOR
    BY <2>2, EndAtFinalDoor
  <2>6. Band(FINAL_DOOR)' = Band(FINAL_DOOR)
    BY DEF Band
  <2>7. QED
    BY <2>3, <2>4, <2>5, <2>6 DEF DeadEnd
<1>2. QED
  BY <1>1, DriftInvariant, PTL DEF Spec, LastLandmarkDecides

\* The dead end is one (DeadEndForGood).
THEOREM NoWayOut == Spec => DeadEndForGood
<1>1. IInv /\ [Next]_driftVars => [DeadEnd => DeadEnd' /\ ending' = 0]_driftVars
  <2> SUFFICES ASSUME IInv, Next, DeadEnd PROVE DeadEnd' /\ ending' = 0
    OBVIOUS
  <2>1. ending = 0 /\ movement = FINAL_DOOR
    BY LastBand DEF DeadEnd, IInv, CampaignInOrder, TypeOK
  <2>2. movement' = FINAL_DOOR /\ ending' = 0 /\ cleared \subseteq cleared'
    <3>1. CASE HoldMemory
      BY <2>1, <3>1 DEF HoldMemory, WARMTH, FINAL_DOOR
    <3>2. ASSUME NEW end \in SceneEnds(scene.landmark, expedition.clarity), EndScene(end)
          PROVE  movement' = FINAL_DOOR /\ ending' = 0 /\ cleared \subseteq cleared'
      <4>1. scene.open
        BY <3>2 DEF EndScene
      <4>2. scene.landmark # 23
        <5>1. scene.landmark \in Landmarks => scene.landmark \notin cleared
          BY <4>1, LastBand DEF IInv, SceneInPlace
        <5>2. scene.landmark \in Landmarks \/ scene.landmark = 255
          BY DEF IInv, TypeOK, Scenes, NoLandmark, Porch
        <5>3. QED
          BY <5>1, <5>2, LastBand DEF DeadEnd
      <4>3. QED
        BY <2>1, <3>2, <4>2, EndAtFinalDoor
    <3>3. CASE UNCHANGED <<movement, cleared, ending>>
      BY <2>1, <3>3
    <3>4. QED
      BY <3>1, <3>2, <3>3, CampaignSteps
  <2>3. Band(FINAL_DOOR)' = Band(FINAL_DOOR)
    BY DEF Band
  <2>4. QED
    BY <2>2, <2>3 DEF DeadEnd
<1>2. QED
  BY <1>1, DriftInvariant, PTL DEF Spec, DeadEndForGood

\* An ending stands (EndingStands).
THEOREM EndingChosenOnce == Spec => EndingStands
<1>1. IInv /\ [Next]_driftVars => [ending > 0 => UNCHANGED <<movement, ending>>]_driftVars
  <2> SUFFICES ASSUME IInv, Next, ending > 0 PROVE UNCHANGED <<movement, ending>>
    OBVIOUS
  <2>1. movement = COMPLETE
    BY DEF IInv, CampaignInOrder
  <2>2. ~HoldMemory
    BY <2>1 DEF HoldMemory, WARMTH, COMPLETE
  <2>3. ASSUME NEW end \in SceneEnds(scene.landmark, expedition.clarity), EndScene(end)
        PROVE  UNCHANGED <<movement, ending>>
    <3>1. \A done : MovementAfter(done) = COMPLETE
      BY <2>1 DEF MovementAfter, FRAGMENTS, CONTRADICTIONS, MACHINERY, COMPLETE
    <3>2. COMPLETE # FINAL_DOOR
      BY LastBand
    <3>3. QED
      BY <2>1, <2>3, <3>1, <3>2 DEF EndScene
  <2>4. QED
    BY <2>2, <2>3, CampaignSteps
<1>2. QED
  BY <1>1, DriftInvariant, PTL DEF Spec, EndingStands

\* The copy a scene works on never holds more remnants than the house: while it is
\* open gatherers add, and whoever could spend is not at home (main.c:1189).
CopyBelow == scene.open => scene.remnants <= remnants

\* What the end of a scene takes back was found while it was open: it leaves no less
\* than the house had at its beginning (main.c:1201-1203).
OnlyFindsLost == [][scene.open /\ ~scene'.open => remnants' >= scene.remnants]_driftVars

\* The end of a scene gives to what its copy holds, and a cap takes nothing away.
LEMMA AppliedAtLeast ==
    ASSUME IInv, NEW end \in SceneEnds(scene.landmark, expedition.clarity), EndScene(end)
    PROVE  remnants' >= scene.remnants
<1>1. /\ scene.remnants \in Nat /\ scene.remnants <= RemnantMax
      /\ expedition.cargo \in Nat /\ RemnantMax \in Nat
  BY DriftAssumption DEF IInv, TypeOK, Scenes, Expeditions
<1>2. end.remnants \in Nat
  BY SceneEndFacts DEF IInv, TypeOK, Scenes, Expeditions, Ends
<1>3. AppliedRemnants(end) \in Nat /\ AppliedRemnants(end) >= scene.remnants
  BY <1>1, <1>2 DEF AppliedRemnants, AtMost
<1>4. AtMost(AppliedRemnants(end) + expedition.cargo, RemnantMax) >= scene.remnants
  BY <1>1, <1>3 DEF AtMost
<1>5. QED
  BY <1>3, <1>4 DEF EndScene

\* Every step keeps the copy below the house.
LEMMA StepCopyBelow == IInv /\ CopyBelow /\ [Next]_driftVars => CopyBelow'
<1> SUFFICES ASSUME IInv, CopyBelow, [Next]_driftVars PROVE CopyBelow'
  OBVIOUS
<1>1. remnants \in Nat /\ (scene.open => scene.remnants \in Nat)
  BY DriftAssumption DEF IInv, TypeOK, Scenes
<1>2. CASE HoldMemory \/ UNCHANGED driftVars
  BY <1>2 DEF HoldMemory, driftVars, CopyBelow
<1>3. ASSUME NEW c \in HomeClarity, NEW r \in HomeRations, Start(c, r) PROVE CopyBelow'
  BY <1>3 DEF Start, CopyBelow
<1>4. CASE Gather
  BY <1>1, <1>4 DEF Gather, CopyBelow
<1>5. ASSUME NEW left \in 0 .. RemnantMax, AtHome(left) PROVE CopyBelow'
  BY <1>5 DEF AtHome, CopyBelow
<1>6. ASSUME NEW p \in Neighbours(expedition.at) \ {expedition.at}, Move(p) PROVE CopyBelow'
  <2>1. scene' = scene \/ scene'.remnants = remnants
    BY <1>6 DEF Move, Lose, Struck, MeetPorch, MeetLandmark, Walk, Opened
  <2>2. QED
    BY <1>1, <1>6, <2>1 DEF Move, CopyBelow
<1>7. CASE Return
  BY <1>7 DEF Return, CopyBelow
<1>8. ASSUME scene' = NoScene PROVE CopyBelow'
  BY <1>8 DEF NoScene, CopyBelow
<1>9. QED
  BY <1>2, <1>3, <1>4, <1>5, <1>6, <1>7, <1>8 DEF Next, EndScene, BreakScene, Restart

\* The end of a scene costs finds at most (OnlyFindsLost).
THEOREM LossIsBounded == Spec => OnlyFindsLost
<1>1. Init => CopyBelow
  BY DEF Init, NoScene, CopyBelow
<1>2. IInv /\ CopyBelow /\ [Next]_driftVars
        => [scene.open /\ ~scene'.open => remnants' >= scene.remnants]_driftVars
  <2> SUFFICES ASSUME IInv, CopyBelow, Next, scene.open, ~scene'.open
               PROVE  remnants' >= scene.remnants
    OBVIOUS
  <2>1. remnants \in Nat /\ scene.remnants \in Nat
    BY DriftAssumption DEF IInv, TypeOK, Scenes
  <2>2. ASSUME NEW end \in SceneEnds(scene.landmark, expedition.clarity), EndScene(end)
        PROVE  remnants' >= scene.remnants
    BY <2>2, AppliedAtLeast
  <2>3. ASSUME NEW end \in SceneEnds(scene.landmark, expedition.clarity), BreakScene(end)
        PROVE  remnants' >= scene.remnants
    BY <2>1, <2>3 DEF BreakScene, CopyBelow
  <2>4. CASE Restart
    BY <2>1, <2>4 DEF Restart, CopyBelow
  <2>5. /\ ~HoldMemory /\ ~Gather /\ ~Return
        /\ \A c \in HomeClarity, r \in HomeRations : ~Start(c, r)
        /\ \A left \in 0 .. RemnantMax : ~AtHome(left)
        /\ \A p \in Neighbours(expedition.at) \ {expedition.at} : ~Move(p)
    BY DEF HoldMemory, Gather, Return, Start, AtHome, Move
  <2>6. QED
    BY <2>2, <2>3, <2>4, <2>5 DEF Next
<1>3. QED
  BY <1>1, <1>2, StepCopyBelow, DriftInvariant, PTL DEF Spec, OnlyFindsLost

\* What game_state_is_valid demands of campaign and expedition before each save
\* (game_state.c:32-51): else the save is refused, and every one after it.
CampaignSavable ==
    /\ movement \in WARMTH .. COMPLETE
    /\ thread <= ThreadMax
    /\ ending <= 3
    /\ expedition.resolve <= 20
    /\ expedition.active => InBounds(expedition.at)

\* Resolve is that of a start, less what was lost.
NerveLeft == expedition.resolve <= 20

\* Every step keeps resolve below what the save admits.
LEMMA StepNerveLeft ==
    ASSUME \A m \in FRAGMENTS .. COMPLETE : Nerve[m] <= 20,
           IInv, NerveLeft, [Next]_driftVars
    PROVE  NerveLeft'
<1>1. /\ AtHouse.resolve <= 20
      /\ expedition \in Expeditions /\ expedition.resolve \in Nat
  BY DEF AtHouse, IInv, TypeOK, Expeditions
<1>2. CASE expedition' = expedition \/ expedition' = AtHouse
  BY <1>1, <1>2 DEF NerveLeft
<1>3. ASSUME NEW c \in HomeClarity, NEW r \in HomeRations, Start(c, r) PROVE NerveLeft'
  <2>1. movement \in FRAGMENTS .. COMPLETE
    BY <1>3 DEF Start, IInv, TypeOK, Movements, WARMTH, FRAGMENTS, COMPLETE
  <2>2. expedition'.resolve = Nerve[movement]
    BY <1>3 DEF Start, AtHouse
  <2>3. QED
    BY <2>1, <2>2 DEF NerveLeft
<1>4. ASSUME NEW p \in Neighbours(expedition.at) \ {expedition.at}, Move(p) PROVE NerveLeft'
  <2>1. CASE Lose
    BY <1>2, <2>1 DEF Lose
  <2>2. CASE ~Lose
    <3>1. /\ Walked(p) \in Expeditions
          /\ Walked(p).resolve = expedition.resolve
          /\ expedition.active
      BY <1>4, <2>2, WalkedFacts DEF Move, Struck, MeetPorch, MeetLandmark, Walk
    <3>2. CASE Struck(p)
      <4> DEFINE loss == IF TileAt(p) = "ECHO" THEN 2 ELSE 1
      <4>1. expedition' = AtHouse
              \/ expedition' = [Walked(p) EXCEPT !.resolve = expedition.resolve - loss]
        BY <3>2 DEF Struck
      <4>2. loss \in {1, 2}
        OBVIOUS
      <4> HIDE DEF loss
      <4>3. CASE expedition' = [Walked(p) EXCEPT !.resolve = expedition.resolve - loss]
        <5>1. expedition'.resolve = expedition.resolve - loss
          BY <3>1, <4>3 DEF Expeditions
        <5>2. QED
          BY <1>1, <4>2, <5>1 DEF NerveLeft
      <4>4. QED
        BY <1>2, <4>1, <4>3
    <3>3. CASE MeetPorch(p) \/ MeetLandmark(p)
      BY <3>1, <3>3 DEF MeetPorch, MeetLandmark, NerveLeft
    <3>4. CASE Walk(p)
      <4>1. expedition' = [Walked(p) EXCEPT !.cargo = CargoOn(p)]
        BY <3>4 DEF Walk
      <4>2. expedition'.resolve = expedition.resolve
        BY <3>1, <4>1 DEF Expeditions
      <4>3. QED
        BY <4>2 DEF NerveLeft
    <3>5. QED
      BY <1>4, <2>2, <3>2, <3>3, <3>4 DEF Move
  <2>3. QED
    BY <2>1, <2>2
<1>5. ASSUME NEW end \in SceneEnds(scene.landmark, expedition.clarity), EndScene(end)
      PROVE  NerveLeft'
  <2>1. AppliedExpedition(end).resolve = expedition.resolve
    BY <1>1 DEF AppliedExpedition, Expeditions
  <2>2. expedition' = AtHouse \/ expedition' = AppliedExpedition(end)
    BY <1>5 DEF EndScene
  <2>3. QED
    BY <1>2, <2>1, <2>2 DEF NerveLeft
<1>6. QED
  BY <1>2, <1>3, <1>4, <1>5
     DEF Next, driftVars, HoldMemory, Gather, AtHome, Return, BreakScene, Restart

\* No way through the campaign makes a game the save would refuse, if an expedition
\* starts with 20 resolve at most; the program's start with 6 to 10 (expedition.c:57).
THEOREM CampaignAlwaysSavable ==
    ASSUME \A m \in FRAGMENTS .. COMPLETE : Nerve[m] <= 20
    PROVE  Spec => []CampaignSavable
<1>1. Init => NerveLeft
  BY DEF Init, AtHouse, NerveLeft
<1>2. IInv /\ NerveLeft /\ [Next]_driftVars => NerveLeft'
  BY StepNerveLeft
<1>3. IInv /\ NerveLeft => CampaignSavable
  <2> SUFFICES ASSUME IInv, NerveLeft PROVE CampaignSavable
    OBVIOUS
  <2>1. movement \in WARMTH .. COMPLETE /\ thread <= ThreadMax /\ ending <= 3
    BY DriftAssumption DEF IInv, TypeOK, Movements
  <2>2. InBounds(expedition.at)
    BY DEF IInv, TypeOK, Expeditions, InBounds, Cells
  <2>3. QED
    BY <2>1, <2>2 DEF CampaignSavable, NerveLeft
<1>4. QED
  BY <1>1, <1>2, <1>3, DriftInvariant, PTL DEF Spec
=============================================================================
