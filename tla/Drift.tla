-------------------------------- MODULE Drift --------------------------------
(* The campaign in the Drift: expedition.c walks the map, a landmark opens a *)
(* scene of content/scenes.json, the scene's end pays and clears the         *)
(* landmark (game_state.c), and a cleared band opens the next movement.      *)
(* The handlers of main.c that call them are part of the actions.            *)
(*                                                                           *)
(* The house is environment: it holds the clarity and rations an expedition  *)
(* starts with, its gatherers find remnants while the player is away, and    *)
(* whoever is at home spends them.                                           *)
EXTENDS WorldMap, SceneOutcomes

CONSTANTS
    Landmarks,        \* the landmark ids on the map, 0 .. 23 in the program
    Place,            \* world_landmark_position of each
    Roll,             \* the roll of each cell
    Reach,            \* prv_max_distance by movement
    ClarityCapacity,  \* by movement, from FRAGMENTS on
    RationCapacity,
    Nerve,            \* the resolve an expedition starts with
    StartClarity,     \* 4
    StartRations,     \* 2
    CargoMax,         \* 9
    RemnantMax,       \* HOUSE_RESOURCE_MAX, for the remnants
    ThreadMax,        \* 999, the cap of the scene machine
    HomeClarity,      \* what the house may hold at a start
    HomeRations

WARMTH == 1
FRAGMENTS == 2
CONTRADICTIONS == 3
MACHINERY == 4
FINAL_DOOR == 5
COMPLETE == 6
Movements == WARMTH .. COMPLETE

\* The landmarks that have to be cleared in a movement.
Band(movement) ==
    Landmarks \cap CASE movement = FRAGMENTS -> 5 .. 9
                     [] movement = CONTRADICTIONS -> 10 .. 14
                     [] movement = MACHINERY -> 15 .. 19
                     [] movement = FINAL_DOOR -> 20 .. 23
                     [] OTHER -> {}

ASSUME DriftAssumption ==
    /\ Center \in Nat
    /\ Landmarks \subseteq LandmarkIds
    /\ Place \in [Landmarks -> Cells]
    /\ \A a, b \in Landmarks : Place[a] = Place[b] => a = b
    /\ Reach \in [Movements -> Nat]
    /\ \A a, b \in Movements : a <= b => Reach[a] <= Reach[b]
    /\ ClarityCapacity \in [FRAGMENTS .. COMPLETE -> Nat]
    /\ RationCapacity \in [FRAGMENTS .. COMPLETE -> Nat]
    /\ Nerve \in [FRAGMENTS .. COMPLETE -> Nat \ {0}]
    /\ StartClarity \in Nat
    /\ StartRations \in Nat
    /\ CargoMax \in Nat
    /\ RemnantMax \in Nat
    /\ ThreadMax \in Nat
    /\ HomeClarity \subseteq Nat
    /\ HomeRations \subseteq Nat

\* A landmark lies beyond the reach of the movements before its own.
ASSUME BandsBeyondReach ==
    \A m \in FRAGMENTS .. FINAL_DOOR :
        /\ Band(m) # {}
        /\ \A id \in Band(m) : Distance(Place[id]) > Reach[m - 1]

\* The doorframe, which costs thread, comes with the cathedral, which gives it.
ASSUME ThreadAssumption ==
    /\ 22 \in Landmarks => 17 \in Landmarks
    /\ ThreadMax >= 3

AtMost(n, cap) == IF n > cap THEN cap ELSE n

\* Landmarks below 5 wait for a later build: prv_activate_drift_map.
HasScene(landmark) == landmark >= 5
-----------------------------------------------------------------------------
VARIABLES
    movement,    \* story.movement
    cleared,     \* world.cleared
    thread,      \* story.thread
    ending,      \* story.ending
    expedition,  \* GameExpedition
    remnants,    \* house.remnants
    scene        \* s_scene_landmark, and the remnants s_scene_context holds

driftVars == <<movement, cleared, thread, ending, expedition, remnants, scene>>

\* steps is the program's counter modulo 4, which is all it is used for; it
\* counts to 255, so it wraps at a multiple of 4.
Expeditions == [active : BOOLEAN, at : Cells, clarity : Nat, rations : Nat,
                resolve : Nat, cargo : 0 .. CargoMax, steps : 0 .. 3]

Scenes == [open : BOOLEAN, landmark : Landmarks \cup {NoLandmark},
           remnants : 0 .. RemnantMax]

AtHouse == [active |-> FALSE, at |-> <<0, 0>>, clarity |-> 0, rations |-> 0,
            resolve |-> 0, cargo |-> 0, steps |-> 0]

NoScene == [open |-> FALSE, landmark |-> NoLandmark, remnants |-> 0]

TypeOK ==
    /\ movement \in Movements
    /\ cleared \subseteq Landmarks
    /\ thread \in 0 .. ThreadMax
    /\ ending \in 0 .. 3
    /\ expedition \in Expeditions
    /\ remnants \in 0 .. RemnantMax
    /\ scene \in Scenes

\* game_state_init
Init ==
    /\ movement = WARMTH
    /\ cleared = {}
    /\ thread = 0
    /\ ending = 0
    /\ expedition = AtHouse
    /\ remnants = 0
    /\ scene = NoScene
-----------------------------------------------------------------------------
\* The first memory was held in the Crooked Hall: prv_sync_campaign_state.
HoldMemory ==
    /\ movement = WARMTH
    /\ movement' = FRAGMENTS
    /\ UNCHANGED <<cleared, thread, ending, expedition, remnants, scene>>

\* expedition_start at the front door, the house being built and lit for it.
Start(clarity, rations) ==
    /\ ~scene.open
    /\ ~expedition.active
    /\ movement >= FRAGMENTS
    /\ clarity >= StartClarity
    /\ rations >= StartRations
    /\ expedition' = [AtHouse EXCEPT !.active = TRUE,
                                     !.clarity = AtMost(clarity, ClarityCapacity[movement]),
                                     !.rations = AtMost(rations, RationCapacity[movement]),
                                     !.resolve = Nerve[movement]]
    /\ UNCHANGED <<movement, cleared, thread, ending, remnants, scene>>

\* A tick of the house finds a remnant.
Gather ==
    /\ remnants < RemnantMax
    /\ remnants' = remnants + 1
    /\ UNCHANGED <<movement, cleared, thread, ending, expedition, scene>>

\* Buildings and preparations cost remnants, the Crooked Hall yields them. A start
\* shows the house, so this may happen with an expedition under way.
AtHome(left) ==
    /\ ~scene.open
    /\ remnants' = left
    /\ UNCHANGED <<movement, cleared, thread, ending, expedition, scene>>
-----------------------------------------------------------------------------
(* expedition_move, as prv_activate_drift_map calls it *)

\* Mutant: the movement does not bound the distance.
InReachUnchecked(p) == InBounds(p)

InReach(p) == InBounds(p) /\ Distance(p) <= Reach[movement]

OnLandmark(p) == p # <<0, 0>> /\ \E id \in Landmarks : Place[id] = p

TileAt(p) ==
    IF p = <<0, 0>> THEN "HOUSE"
    ELSE IF OnLandmark(p) THEN "LANDMARK"
    ELSE TileOfRoll(RegionAt(p), Roll[p])

LandmarkOn(p) == CHOOSE id \in Landmarks : Place[id] = p

\* Every fourth step eats a ration, every step a clarity.
RunsDry == expedition.clarity = 0 \/ (expedition.steps = 3 /\ expedition.rations = 0)

Walked(p) == [expedition EXCEPT !.at = p,
                                !.clarity = @ - 1,
                                !.rations = IF expedition.steps = 3 THEN @ - 1 ELSE @,
                                !.steps = (@ + 1) % 4]

\* The route fails and everything carried is lost.
Lose ==
    /\ RunsDry
    /\ expedition' = AtHouse
    /\ UNCHANGED scene

\* Mutant: resolve is lost without being noticed at zero.
StruckDown(p) ==
    LET left == expedition.resolve - (IF TileAt(p) = "ECHO" THEN 2 ELSE 1)
    IN  /\ ~RunsDry
        /\ TileAt(p) \in {"HAZARD", "ECHO"}
        /\ expedition' = [Walked(p) EXCEPT !.resolve = IF left > 0 THEN left ELSE 0]
        /\ UNCHANGED scene

Struck(p) ==
    LET left == expedition.resolve - (IF TileAt(p) = "ECHO" THEN 2 ELSE 1)
    IN  /\ ~RunsDry
        /\ TileAt(p) \in {"HAZARD", "ECHO"}
        /\ expedition' = IF left <= 0 THEN AtHouse
                         ELSE [Walked(p) EXCEPT !.resolve = left]
        /\ UNCHANGED scene

Opened(landmark) == [open |-> TRUE, landmark |-> landmark, remnants |-> remnants]

MeetPorch(p) ==
    /\ ~RunsDry
    /\ TileAt(p) = "EVENT"
    /\ expedition' = Walked(p)
    /\ scene' = Opened(NoLandmark)

\* Mutant: a cleared landmark opens its scene again.
MeetLandmarkAgain(p) ==
    /\ ~RunsDry
    /\ OnLandmark(p)
    /\ HasScene(LandmarkOn(p))
    /\ expedition' = Walked(p)
    /\ scene' = Opened(LandmarkOn(p))

MeetLandmark(p) ==
    /\ ~RunsDry
    /\ OnLandmark(p)
    /\ LandmarkOn(p) \notin cleared
    /\ HasScene(LandmarkOn(p))
    /\ expedition' = Walked(p)
    /\ scene' = Opened(LandmarkOn(p))

CargoOn(p) ==
    IF TileAt(p) \in {"DOMESTIC", "TRANSIT", "CIVIC", "MACHINE"}
    THEN AtMost(expedition.cargo + 1, CargoMax)
    ELSE expedition.cargo

\* Any other cell; a landmark without a scene waits and keeps no one.
Walk(p) ==
    /\ ~RunsDry
    /\ TileAt(p) \notin {"HAZARD", "ECHO", "EVENT"}
    /\ OnLandmark(p) => LandmarkOn(p) \in cleared \/ ~HasScene(LandmarkOn(p))
    /\ expedition' = [Walked(p) EXCEPT !.cargo = CargoOn(p)]
    /\ UNCHANGED scene

Move(p) ==
    /\ ~scene.open
    /\ expedition.active
    /\ InReach(p)
    /\ Lose \/ Struck(p) \/ MeetPorch(p) \/ MeetLandmark(p) \/ Walk(p)
    /\ UNCHANGED <<movement, cleared, thread, ending, remnants>>

\* Mutant: the Drift's menu opens from a scene, too.
ReturnMidScene ==
    /\ expedition.active
    /\ remnants' = AtMost(remnants + expedition.cargo, RemnantMax)
    /\ expedition' = AtHouse
    /\ UNCHANGED <<movement, cleared, thread, ending, scene>>

\* expedition_return from the Drift's menu.
Return ==
    /\ ~scene.open
    /\ expedition.active
    /\ remnants' = AtMost(remnants + expedition.cargo, RemnantMax)
    /\ expedition' = AtHouse
    /\ UNCHANGED <<movement, cleared, thread, ending, scene>>
-----------------------------------------------------------------------------
(* prv_scene_advance at the end of a scene *)

\* Mutant: one cleared landmark of the band is enough.
BandClearedByOne(m, done) == Band(m) \cap done # {}

\* prv_band_cleared
BandCleared(m, done) == Band(m) \subseteq done

\* Mutant: the band is looked at before the landmark is marked as cleared.
MovementAfterEarly(done) ==
    IF movement \in {FRAGMENTS, CONTRADICTIONS, MACHINERY} /\ BandCleared(movement, cleared)
    THEN movement + 1 ELSE movement

\* game_state_complete_landmark: the movement after a landmark is cleared.
MovementAfter(done) ==
    IF movement \in {FRAGMENTS, CONTRADICTIONS, MACHINERY} /\ BandCleared(movement, done)
    THEN movement + 1 ELSE movement

\* The costs of the end can be paid from the context.
Payable(end) == expedition.clarity >= end.clarityCost /\ thread >= end.threadCost

\* prv_apply_scene_context: the copy taken when the scene began is written back.
\* Nothing else moves clarity and thread while a scene is open; remnants do move.
AppliedThread(end) == AtMost(thread - end.threadCost + end.thread, ThreadMax)

AppliedExpedition(end) ==
    [expedition EXCEPT !.clarity = AtMost(@ - end.clarityCost + end.clarity, 999)]

AppliedRemnants(end) == AtMost(scene.remnants + end.remnants, RemnantMax)

\* A landmark's result above 0 completes it; the last choice, with the last band
\* cleared, is the ending (game_state_choose_ending) and ends the expedition.
EndScene(end) ==
    LET completes == scene.landmark # NoLandmark /\ end.result > 0
        done == IF completes THEN cleared \cup {scene.landmark} ELSE cleared
        moved == IF completes THEN MovementAfter(done) ELSE movement
        chosen == /\ completes
                  /\ scene.landmark = 23
                  /\ moved = FINAL_DOOR
                  /\ BandCleared(FINAL_DOOR, done)
    IN  /\ scene.open
        /\ Payable(end)
        /\ scene' = NoScene
        /\ cleared' = done
        /\ thread' = AppliedThread(end)
        /\ \/ /\ chosen
              /\ ending' = end.result
              /\ movement' = COMPLETE
              /\ remnants' = AtMost(AppliedRemnants(end) + expedition.cargo, RemnantMax)
              /\ expedition' = AtHouse
           \/ /\ ~chosen
              /\ movement' = moved
              /\ remnants' = AppliedRemnants(end)
              /\ expedition' = AppliedExpedition(end)
              /\ UNCHANGED ending

\* A cost that cannot be paid breaks the scene, and nothing is applied.
BreakScene(end) ==
    /\ scene.open
    /\ ~Payable(end)
    /\ scene' = NoScene
    /\ UNCHANGED <<movement, cleared, thread, ending, expedition, remnants>>

\* The app stops in a scene and starts again: everything but the scene was saved
\* with the step that opened it, and the ticks since then are caught up.
Restart ==
    /\ scene.open
    /\ scene' = NoScene
    /\ UNCHANGED <<movement, cleared, thread, ending, expedition, remnants>>

Next ==
    \/ HoldMemory
    \/ \E c \in HomeClarity, r \in HomeRations : Start(c, r)
    \/ Gather
    \/ \E left \in 0 .. RemnantMax : AtHome(left)
    \/ \E p \in Neighbours(expedition.at) \ {expedition.at} : Move(p)
    \/ Return
    \/ \E end \in SceneEnds(scene.landmark, expedition.clarity) :
          EndScene(end) \/ BreakScene(end)
    \/ Restart

Spec == Init /\ [][Next]_driftVars
-----------------------------------------------------------------------------
(* Properties *)

\* The movements are played in order: a movement's band opens only when every
\* band before it is cleared, no landmark of a band to come is cleared early, and
\* the ending is chosen exactly when the last band is (game_state.c:63-109). This is
\* the reach of an expedition, the scenes' results and the bands together.
CampaignInOrder ==
    /\ \A m \in FRAGMENTS .. FINAL_DOOR :
          /\ m < movement => Band(m) \subseteq cleared
          /\ m > movement => Band(m) \cap cleared = {}
    /\ ending > 0 <=> movement = COMPLETE

\* The campaign cannot run dry before the final door: a movement that is not
\* over has a landmark left to clear, since only the end of an uncleared
\* landmark's scene looks at the band (game_state.c:63-99, main.c:1239-1244).
NoStall ==
    movement \in FRAGMENTS .. MACHINERY => Band(movement) \ cleared # {}

\* The doorframe's two thread cannot be missing: whoever reaches the final door
\* holds them, whatever choices the earlier scenes were given, and nothing
\* else spends them (scenes 9, 13 and 18).
DoorframeAffordable ==
    movement = FINAL_DOOR /\ 22 \in Landmarks \ cleared => thread >= 2

\* A landmark's scene is open only for an expedition that stands on it, in reach,
\* and for a landmark not yet cleared; so its end clears the landmark the
\* player sees (main.c:1306-1316, 1239-1244).
SceneInPlace ==
    /\ expedition.active => Distance(expedition.at) <= Reach[movement]
    /\ scene.open => expedition.active
    /\ scene.open /\ scene.landmark # NoLandmark =>
          /\ Place[scene.landmark] = expedition.at
          /\ scene.landmark \notin cleared

\* Thread comes only from a landmark's first completion: neither a scene marked
\* for a return nor one broken off or restarted ever pays twice.
PaidOnce ==
    [][thread' > thread => \E id \in Landmarks \ cleared : cleared' = cleared \cup {id}]_driftVars

\* An expedition under way has resolve left: none walks on after the hit that
\* should have ended it (expedition.c:114-123).
ResolveLeft == expedition.active => expedition.resolve > 0

\* What the thread at the final door rests on: the cathedral's three, once given,
\* are there until the doorframe takes two of them.
ThreadHeld == 17 \in cleared /\ 22 \notin cleared => thread >= 3

\* The inductive invariant: the parts hold each other up, since a landmark
\* cleared out of order is kept out by where the expedition can stand.
IInv ==
    /\ TypeOK
    /\ CampaignInOrder
    /\ NoStall
    /\ SceneInPlace
    /\ ResolveLeft
    /\ ThreadHeld

\* VIOLATED. "all five movements and three endings are reachable through tested
\* story gates" (docs/DESIGN_BIBLE.md:1002): the final door's movement, like the
\* others, has a landmark left while it is not over; cleared landmarks open no
\* scene, so without one left no ending can be chosen any more.
EndingReachable == movement = FINAL_DOOR => Band(FINAL_DOOR) \ cleared # {}

\* VIOLATED. "elapsed seconds are converted into gatherer/listener production"
\* (docs/ARCHITECTURE.md:90-92): the end of a scene takes back no remnants the house
\* found meanwhile, for no scene costs remnants.
ProductionKept == [][scene.open => remnants' >= remnants]_driftVars
=============================================================================
