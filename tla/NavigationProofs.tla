-------------------------- MODULE NavigationProofs --------------------------
(* Proofs about Navigation, for any bound of the thread: that a press leads  *)
(* from a view that fits what is under way to one that fits what is then.    *)
EXTENDS Navigation, FiniteSetTheorems, TLAPS

(* The inductive invariant *)

NavTypeOK ==
    /\ view \in Views \cup {"CLOSED"}
    /\ selected \in Nat
    /\ item \in 1 .. 12
    /\ back \in Views \ DebugViews
    /\ hall \in [active : BOOLEAN, step : 0 .. 3, presence : 0 .. 2]
    /\ drift \in BOOLEAN
    /\ movement \in WARMTH .. COMPLETE
    /\ guest \in BOOLEAN
    /\ anchor \in BOOLEAN
    /\ memory \in BOOLEAN
    /\ thread \in 0 .. ThreadMax
    /\ scene \in [event : {"NONE", "TEXT", "CHOICE"}, choices : 0 .. 3,
                  landmark : BOOLEAN, thread : 0 .. ThreadMax]
    /\ tested \in BOOLEAN

\* The menu keeps the view it returns to as that view was: what a scene's view
\* needs holds below the menu too.
Below == IF view \in DebugViews THEN back ELSE view

SceneBelow ==
    /\ Below = "SCENE_TEXT" => scene.event = "TEXT"
    /\ Below = "SCENE_CHOICE" => scene.event = "CHOICE" /\ scene.choices > 0
    /\ Below \in SceneViews /\ scene.landmark => drift

\* Until the menu is opened the house and the campaign move on together: every
\* journey starts at the door, and the Drift opens with the first memory.
Unedited ==
    ~tested =>
        /\ view \notin DebugViews
        /\ hall.active \/ drift => anchor
        /\ drift => movement >= FRAGMENTS
        /\ movement >= FRAGMENTS => memory

NavIInv ==
    /\ NavTypeOK /\ SelectedInRange /\ HallXorDrift /\ SceneBelow /\ Unedited /\ ViewFits
    /\ CopyFresh
-----------------------------------------------------------------------------
\* The sets of views, told apart.
LEMMA ViewSets ==
    /\ SceneViews = {"SCENE_TEXT", "SCENE_CHOICE"} /\ SceneViews \subseteq Views
    /\ DebugViews = {"DEBUG", "DEBUG_EDIT", "DEBUG_RESET"} /\ DebugViews \subseteq Views
    /\ MapViews = {"DRIFT_MAP", "DRIFT_MENU"} /\ MapViews \subseteq Views
    /\ Views = {"HOME", "HEARTH", "WORKSHOP", "GUESTS", "DOOR", "EXPEDITION", "ENCOUNTER",
                "CHRONICLE", "DRIFT_MAP", "DRIFT_MENU", "SCENE_TEXT", "SCENE_CHOICE",
                "DEBUG", "DEBUG_EDIT", "DEBUG_RESET"}
    /\ "CLOSED" \notin Views
    /\ {"HOME", "HEARTH", "WORKSHOP", "GUESTS", "DOOR", "EXPEDITION", "ENCOUNTER",
        "CHRONICLE"} \subseteq Views \ DebugViews
  BY DEF Views, SceneViews, DebugViews, MapViews

\* The rows of the first view, counted.
LEMMA HomeRows ==
    HomeItemCount = 2 + (IF guest THEN 1 ELSE 0) + (IF anchor THEN 1 ELSE 0)
                      + (IF memory THEN 1 ELSE 0)
<1> DEFINE rows == {row \in {"GUESTS", "DOOR", "CHRONICLE"} :
                       \/ row = "GUESTS" /\ guest
                       \/ row = "DOOR" /\ anchor
                       \/ row = "CHRONICLE" /\ memory}
           first == IF guest THEN {"GUESTS"} ELSE {}
           second == IF anchor THEN first \cup {"DOOR"} ELSE first
           third == IF memory THEN second \cup {"CHRONICLE"} ELSE second
<1>1. rows = third
  OBVIOUS
<1>2. IsFiniteSet(first) /\ Cardinality(first) = IF guest THEN 1 ELSE 0
  BY FS_EmptySet, FS_Singleton
<1>3. "DOOR" \notin first /\ "CHRONICLE" \notin second
  OBVIOUS
<1> HIDE DEF first
<1>4. /\ IsFiniteSet(second)
      /\ Cardinality(second) = Cardinality(first) + IF anchor THEN 1 ELSE 0
  <2>1. /\ IsFiniteSet(first \cup {"DOOR"})
        /\ Cardinality(first \cup {"DOOR"}) = Cardinality(first) + 1
    BY <1>2, <1>3, FS_AddElement
  <2>2. Cardinality(first) \in Nat
    BY <1>2, FS_CardinalityType
  <2> QED BY <1>2, <2>1, <2>2
<1> HIDE DEF second
<1>5. Cardinality(third) = Cardinality(second) + IF memory THEN 1 ELSE 0
  <2>1. Cardinality(second \cup {"CHRONICLE"}) = Cardinality(second) + 1
    BY <1>3, <1>4, FS_AddElement
  <2>2. Cardinality(second) \in Nat
    BY <1>4, FS_CardinalityType
  <2> QED BY <2>1, <2>2
<1> HIDE DEF third, rows
<1>6. HomeItemCount = 2 + Cardinality(rows)
  BY DEF HomeItemCount, rows
<1> QED BY <1>1, <1>2, <1>4, <1>5, <1>6

\* How many rows a view has, and that it has one, a scene's choice aside.
RowsKnown ==
    /\ view \notin {"SCENE_CHOICE", "HOME"} => ItemCount \in 1 .. 12
    /\ view = "SCENE_CHOICE" => ItemCount = scene.choices /\ scene.choices \in Nat
    /\ view = "HOME" =>
          ItemCount = 2 + (IF guest THEN 1 ELSE 0) + (IF anchor THEN 1 ELSE 0)
                        + (IF memory THEN 1 ELSE 0)
    /\ view = "DEBUG" => ItemCount = 12
    /\ view \in {"HEARTH", "WORKSHOP"} => ItemCount = 3
    /\ view \in {"EXPEDITION", "ENCOUNTER"} => ItemCount = 2
    /\ view \in {"DOOR", "DRIFT_MAP", "DEBUG_EDIT", "DEBUG_RESET"} => ItemCount = 1

LEMMA Rows == NavTypeOK => RowsKnown
<1>1. Len(DebugItem) = 12
  BY DEF DebugItem
<1> QED BY <1>1, HomeRows DEF NavTypeOK, ItemCount, RowsKnown

LEMMA RowsNext == NavTypeOK' => RowsKnown'
  BY Rows, PTL

\* The first row of a view is always there.
LEMMA FirstRow ==
    ASSUME NavTypeOK', SceneBelow', selected' = 0
    PROVE  SelectedInRange'
<1>1. view' = "SCENE_CHOICE" => scene'.choices > 0
  BY ViewSets DEF SceneBelow, Below
<1> QED BY <1>1, RowsNext DEF SelectedInRange, RowsKnown

Journeys == [active : BOOLEAN, step : 0 .. 3, presence : 0 .. 2]

\* What a record of the Hall's journey becomes.
LEMMA HallFields ==
    ASSUME hall \in Journeys
    PROVE  /\ \A p \in 0 .. 2 : LET h == [hall EXCEPT !.presence = p] IN
                 /\ h \in Journeys
                 /\ h.active = hall.active /\ h.presence = p
           /\ hall.step < 3 => LET h == [hall EXCEPT !.step = @ + 1] IN
                 /\ h \in Journeys
                 /\ h.active = hall.active /\ h.presence = hall.presence
           /\ LET h == [hall EXCEPT !.step = 2, !.presence = 2] IN
                 /\ h \in Journeys
                 /\ h.active = hall.active /\ h.presence = 2
           /\ AtHome \in Journeys
           /\ AtHome.active = FALSE
           /\ LET h == [AtHome EXCEPT !.active = TRUE] IN
                 /\ h \in Journeys
                 /\ h.active
<1>1. AtHome \in Journeys /\ AtHome.active = FALSE
  BY DEF AtHome, Journeys
<1>2. \A h \in Journeys : /\ [h EXCEPT !.active = TRUE] \in Journeys
                          /\ [h EXCEPT !.active = TRUE].active
  BY DEF Journeys
<1>3. ASSUME NEW p \in 0 .. 2, NEW n \in 0 .. 3
      PROVE  LET h == [hall EXCEPT !.step = n, !.presence = p] IN
               h \in Journeys /\ h.active = hall.active /\ h.presence = p
  BY <1>3 DEF Journeys
<1>4. ASSUME NEW p \in 0 .. 2
      PROVE  LET h == [hall EXCEPT !.presence = p] IN
               h \in Journeys /\ h.active = hall.active /\ h.presence = p
  BY <1>4 DEF Journeys
<1>5. ASSUME hall.step < 3
      PROVE  LET h == [hall EXCEPT !.step = @ + 1] IN
               h \in Journeys /\ h.active = hall.active /\ h.presence = hall.presence
  BY <1>5 DEF Journeys
<1> QED BY <1>1, <1>2, <1>3, <1>4, <1>5

SceneStates == [event : {"NONE", "TEXT", "CHOICE"}, choices : 0 .. 3,
                landmark : BOOLEAN, thread : 0 .. ThreadMax]

LEMMA BegunFields ==
    ASSUME NEW s \in SceneStates, NEW b \in BOOLEAN, NEW n \in 0 .. ThreadMax,
           NEW begun, begun = [s EXCEPT !.landmark = b, !.thread = n]
    PROVE  begun \in SceneStates /\ begun.landmark = b
<1>1. [s EXCEPT !.landmark = b, !.thread = n] \in SceneStates
  BY DEF SceneStates
<1>2. [s EXCEPT !.landmark = b, !.thread = n].landmark = b
  BY DEF SceneStates
<1> QED BY <1>1, <1>2

LEMMA NoSceneIsState == NoScene \in SceneStates
  BY NavigationAssumption DEF NoScene, SceneStates

\* A page or a choice that a scene shows.
LEMMA ShowsKeeps ==
    ASSUME NEW s \in SceneStates, Shows(s)
    PROVE  /\ scene' \in SceneStates /\ scene'.landmark = s.landmark
           /\ view' \in SceneViews /\ selected' = 0
           /\ view' = "SCENE_TEXT" => scene'.event = "TEXT"
           /\ view' = "SCENE_CHOICE" => scene'.event = "CHOICE" /\ scene'.choices > 0
           /\ UNCHANGED campaign
<1>0. ASSUME NEW e \in {"NONE", "TEXT", "CHOICE"}, NEW n \in 0 .. 3,
             scene' = [s EXCEPT !.event = e, !.choices = n]
      PROVE  /\ scene' \in SceneStates /\ scene'.landmark = s.landmark
             /\ scene'.event = e /\ scene'.choices = n
  <2>1. [s EXCEPT !.event = e, !.choices = n] \in SceneStates
    BY DEF SceneStates
  <2>2. [s EXCEPT !.event = e, !.choices = n].landmark = s.landmark
    BY DEF SceneStates
  <2>3. /\ [s EXCEPT !.event = e, !.choices = n].event = e
        /\ [s EXCEPT !.event = e, !.choices = n].choices = n
    BY DEF SceneStates
  <2> QED BY <1>0, <2>1, <2>2, <2>3
<1>1. CASE scene' = [s EXCEPT !.event = "TEXT", !.choices = 0] /\ SetView("SCENE_TEXT")
  <2>1. /\ scene' \in SceneStates /\ scene'.landmark = s.landmark
        /\ scene'.event = "TEXT"
    BY <1>0, <1>1
  <2> QED BY <1>1, <2>1 DEF Shows, SetView, SceneViews
<1>2. ASSUME NEW n \in 1 .. 3, scene' = [s EXCEPT !.event = "CHOICE", !.choices = n],
             SetView("SCENE_CHOICE")
      PROVE  /\ scene' \in SceneStates /\ scene'.landmark = s.landmark
             /\ scene'.event = "CHOICE" /\ scene'.choices > 0
             /\ view' = "SCENE_CHOICE" /\ selected' = 0
  <2>1. n \in 0 .. 3 /\ n > 0
    OBVIOUS
  <2>2. /\ scene' \in SceneStates /\ scene'.landmark = s.landmark
        /\ scene'.event = "CHOICE" /\ scene'.choices = n
    BY <1>0, <1>2, <2>1
  <2> QED BY <1>2, <2>1, <2>2 DEF SetView
<1> QED BY <1>1, <1>2 DEF Shows, SceneViews

\* A scene begins, from the map or from the menu.
LEMMA BeginsKeeps ==
    ASSUME NEW b \in BOOLEAN, thread \in 0 .. ThreadMax, Begins(b)
    PROVE  /\ scene' \in SceneStates /\ scene'.landmark = b
           /\ view' \in SceneViews /\ selected' = 0
           /\ view' = "SCENE_TEXT" => scene'.event = "TEXT"
           /\ view' = "SCENE_CHOICE" => scene'.event = "CHOICE" /\ scene'.choices > 0
           /\ UNCHANGED campaign
<1>1. PICK n : n = thread
  OBVIOUS
<1>2. PICK s : s = [NoScene EXCEPT !.landmark = b, !.thread = n]
  OBVIOUS
<1>3. s \in SceneStates /\ s.landmark = b
  BY <1>1, <1>2, NoSceneIsState, BegunFields
<1>4. Shows(s)
  BY <1>1, <1>2 DEF Begins
<1> QED BY <1>3, <1>4, ShowsKeeps

\* A landmark opens the next movement or none.
LEMMA MovementsTyped ==
    ASSUME movement \in WARMTH .. COMPLETE, NEW s, NEW m \in MovementsAfter(s)
    PROVE  m \in WARMTH .. COMPLETE
  BY DEF MovementsAfter, WARMTH, CONTRADICTIONS, FINAL_DOOR, COMPLETE

\* What a press does to the journeys and the campaign is in their types.
LEMMA TypeStep ==
    ASSUME NavTypeOK, SelectedInRange, [NavNext]_navVars
    PROVE  NavTypeOK'
<1>0. /\ view \in Views \cup {"CLOSED"} /\ selected \in Nat /\ item \in 1 .. 12
      /\ back \in Views \ DebugViews
      /\ hall \in Journeys /\ scene \in SceneStates
      /\ drift \in BOOLEAN /\ movement \in WARMTH .. COMPLETE /\ thread \in 0 .. ThreadMax
      /\ guest \in BOOLEAN /\ anchor \in BOOLEAN /\ memory \in BOOLEAN /\ tested \in BOOLEAN
      /\ NavTypeOK' <=> /\ view' \in Views \cup {"CLOSED"}
                        /\ selected' \in Nat
                        /\ item' \in 1 .. 12
                        /\ back' \in Views \ DebugViews
                        /\ hall' \in Journeys
                        /\ drift' \in BOOLEAN
                        /\ movement' \in WARMTH .. COMPLETE
                        /\ guest' \in BOOLEAN
                        /\ anchor' \in BOOLEAN
                        /\ memory' \in BOOLEAN
                        /\ thread' \in 0 .. ThreadMax
                        /\ scene' \in SceneStates
                        /\ tested' \in BOOLEAN
  BY DEF NavTypeOK, Journeys, SceneStates
<1> USE DEF SetView, cursor, house, campaign
<1>1. CASE SelectLongClick
  BY <1>0, <1>1, ViewSets DEF SelectLongClick
<1> SUFFICES ASSUME SelectClick \/ UpClick \/ DownClick \/ BackClick \/ Exit \/ PrvInit
                       \/ UNCHANGED navVars,
                    tested' \in BOOLEAN
             PROVE  NavTypeOK'
  BY <1>0, <1>1 DEF NavNext, navVars
<1>2. CASE SelectHome \/ SelectHearth \/ SelectWorkshop \/ SelectChronicle
  <2>1. HomeItemAt(selected) \in Views
    BY ViewSets DEF HomeItemAt
  <2>2. view' \in Views \cup {"CLOSED"} /\ selected' \in Nat
    BY <1>0, <1>2, <2>1, ViewSets
    DEF SelectHome, SelectHearth, SelectWorkshop, SelectChronicle
  <2>3. guest' \in BOOLEAN /\ anchor' \in BOOLEAN
    BY <1>0, <1>2 DEF SelectHome, SelectHearth, SelectWorkshop, SelectChronicle
  <2>4. UNCHANGED <<item, back, hall, movement, drift, memory, thread, scene>>
    BY <1>2 DEF SelectHome, SelectHearth, SelectWorkshop, SelectChronicle
  <2> QED BY <1>0, <2>2, <2>3, <2>4
<1>3. CASE SelectDoor
  <2>1. view' \in Views \cup {"CLOSED"} /\ selected' \in Nat
    BY <1>0, <1>3, ViewSets DEF SelectDoor, OpenDrift, OpenHall
  <2>2. hall' \in Journeys
    BY <1>0, <1>3, HallFields DEF SelectDoor, OpenDrift, OpenHall
  <2>3. drift' \in BOOLEAN
    BY <1>0, <1>3 DEF SelectDoor, OpenDrift, OpenHall
  <2>4. UNCHANGED <<item, back, movement, guest, anchor, memory, thread, scene>>
    BY <1>3 DEF SelectDoor
  <2> QED BY <1>0, <2>1, <2>2, <2>3, <2>4
<1>4. CASE SelectExpedition
  <2>1. Synced(movement, TRUE) \in WARMTH .. COMPLETE
    BY <1>0 DEF Synced, WARMTH, FRAGMENTS, COMPLETE
  <2>2. view' \in Views /\ selected' \in Nat
    <3>1. /\ view' \in {"DOOR", "CHRONICLE", "ENCOUNTER", "EXPEDITION"}
          /\ selected' = selected \/ selected' = 0
      BY <1>4 DEF SelectExpedition, Retreat
    <3> QED BY <1>0, <3>1, ViewSets
  <2>3. hall' \in Journeys
    <3>1. hall.step \in {0, 2} => hall.step < 3
      OBVIOUS
    <3> QED BY <1>0, <1>4, <3>1, HallFields DEF SelectExpedition, Retreat
  <2>4. memory' \in BOOLEAN /\ movement' \in WARMTH .. COMPLETE
    BY <1>0, <1>4, <2>1 DEF SelectExpedition, Retreat
  <2>5. UNCHANGED <<item, back, drift, guest, anchor, thread, scene>>
    BY <1>4 DEF SelectExpedition
  <2> QED BY <1>0, <2>2, <2>3, <2>4, <2>5
<1>5. CASE SelectEncounter
  BY <1>0, <1>5, HallFields, ViewSets DEF SelectEncounter, Retreat
<1>6. CASE SelectScene
  <2>1. CASE Shows(scene)
    BY <1>0, <1>6, <2>1, ShowsKeeps, ViewSets DEF SelectScene
  <2>2. CASE Ends(scene)
    <3>1. thread' \in 0 .. ThreadMax
      BY <1>0, <2>2, NavigationAssumption DEF Ends, SceneStates
    <3>2. movement' \in WARMTH .. COMPLETE
      BY <1>0, <2>2, MovementsTyped DEF Ends, WARMTH, COMPLETE
    <3>3. view' \in Views /\ selected' \in Nat /\ scene' \in SceneStates
      BY <1>0, <2>2, NoSceneIsState, ViewSets DEF Ends
    <3>4. drift' \in BOOLEAN
      BY <1>0, <2>2 DEF Ends
    <3>5. UNCHANGED <<item, back, hall, guest, anchor, memory>>
      BY <1>6 DEF SelectScene
    <3> QED BY <1>0, <3>1, <3>2, <3>3, <3>4, <3>5
  <2>3. CASE Breaks
    BY <1>0, <1>6, <2>3, NoSceneIsState, ViewSets DEF SelectScene, Breaks
  <2> QED BY <1>6, <2>1, <2>2, <2>3 DEF SelectScene
<1>7. CASE SelectDriftMap
  <2>1. UNCHANGED <<item, back, hall, guest, anchor, memory>>
    BY <1>7 DEF SelectDriftMap
  <2>2. ASSUME NEW b \in BOOLEAN, Begins(b) PROVE NavTypeOK'
    BY <1>0, <2>1, <2>2, BeginsKeeps, ViewSets
  <2>3. CASE /\ drift' = FALSE
             /\ SetView("DOOR")
             /\ UNCHANGED <<movement, thread, scene>>
    BY <1>0, <2>1, <2>3, ViewSets
  <2>4. CASE UNCHANGED <<view, selected, campaign, scene>>
    BY <1>0, <2>1, <2>4
  <2> QED BY <1>7, <2>2, <2>3, <2>4 DEF SelectDriftMap
<1>8. CASE SelectDriftMenu
  <2>1. view' \in Views /\ selected' \in Nat
    BY <1>8, ViewSets DEF SelectDriftMenu
  <2>2. drift' \in BOOLEAN
    BY <1>0, <1>8 DEF SelectDriftMenu
  <2>3. UNCHANGED <<item, back, hall, movement, guest, anchor, memory, thread, scene>>
    BY <1>8 DEF SelectDriftMenu
  <2> QED BY <1>0, <2>1, <2>2, <2>3
<1>9. CASE SelectDebug
  <2>1. selected + 1 \in 1 .. 12
    BY <1>0, <1>9, Rows DEF SelectDebug, RowsKnown, SelectedInRange
  <2> QED BY <1>0, <1>9, <2>1, ViewSets DEF SelectDebug
<1>10. CASE SelectPreview
  <2>1. UNCHANGED <<item, back, hall, guest, anchor, memory>>
    BY <1>10 DEF SelectPreview
  <2>2. Begins(FALSE)
    BY <1>10 DEF SelectPreview
  <2>3. /\ view' \in SceneViews /\ selected' = 0 /\ scene' \in SceneStates
        /\ UNCHANGED <<drift, movement, thread>>
    BY <1>0, <2>2, BeginsKeeps
  <2> QED BY <1>0, <2>1, <2>3, ViewSets
<1>11. CASE SelectReset
  <2>1. /\ drift' \in BOOLEAN /\ guest' \in BOOLEAN /\ anchor' \in BOOLEAN
        /\ memory' \in BOOLEAN
    BY <1>11 DEF SelectReset
  <2>2. movement' \in WARMTH .. COMPLETE /\ thread' \in 0 .. ThreadMax
    BY <1>11, NavigationAssumption DEF SelectReset, WARMTH, COMPLETE
  <2>3. /\ view' \in Views /\ selected' \in Nat /\ back' \in Views \ DebugViews
        /\ UNCHANGED <<item, scene>>
    BY <1>11, ViewSets DEF SelectReset
  <2>4. hall' \in Journeys
    BY <1>0, <1>11, HallFields DEF SelectReset
  <2> QED BY <1>0, <2>1, <2>2, <2>3, <2>4
<1>12. ASSUME NEW by \in {1, -1}, Adjust(by)
       PROVE  NavTypeOK'
  <2>1. thread' \in 0 .. ThreadMax
    BY <1>0, <1>12, NavigationAssumption DEF Adjust, Clamped
  <2>2. movement' \in WARMTH .. COMPLETE
    BY <1>0, <1>12 DEF Adjust, Clamped, Synced, WARMTH, FRAGMENTS, FINAL_DOOR, COMPLETE
  <2>3. anchor' \in BOOLEAN /\ memory' \in BOOLEAN /\ guest' \in BOOLEAN
    BY <1>12 DEF Adjust
  <2> QED BY <1>0, <1>12, <2>1, <2>2, <2>3 DEF Adjust
<1>13. CASE UpClick \/ DownClick
  BY <1>0, <1>12, <1>13 DEF UpClick, DownClick
<1>14. CASE BackClick
  <2>1. BackOf(view) \in Views \/ view = "CLOSED"
    BY ViewSets DEF BackOf
  <2> QED BY <1>0, <1>14, <2>1, NoSceneIsState, ViewSets DEF BackClick
<1>15. CASE Exit \/ PrvInit
  BY <1>0, <1>15, NoSceneIsState, ViewSets DEF Exit, PrvInit
<1>16. CASE UNCHANGED navVars
  BY <1>0, <1>16 DEF navVars
<1> QED
  BY <1>2, <1>3, <1>4, <1>5, <1>6, <1>7, <1>8, <1>9, <1>10, <1>11, <1>13, <1>14, <1>15,
     <1>16 DEF SelectClick

\* Whatever scene a view shows, below the menu or not, is the one under way.
LEMMA SceneStep ==
    ASSUME NavTypeOK, SceneBelow, [NavNext]_navVars
    PROVE  SceneBelow'
<1>1. CASE view' \notin SceneViews \cup DebugViews
  BY <1>1 DEF SceneBelow, Below, SceneViews
<1>2. CASE Below' = Below /\ UNCHANGED <<scene, drift>>
  BY <1>2 DEF SceneBelow
<1>3. ASSUME NEW b \in BOOLEAN, Begins(b), b => drift
      PROVE  SceneBelow'
  <2>1. thread \in 0 .. ThreadMax
    BY DEF NavTypeOK
  <2>2. /\ view' \in SceneViews \ DebugViews /\ scene'.landmark = b /\ UNCHANGED drift
        /\ view' = "SCENE_TEXT" => scene'.event = "TEXT"
        /\ view' = "SCENE_CHOICE" => scene'.event = "CHOICE" /\ scene'.choices > 0
    BY <1>3, <2>1, BeginsKeeps, ViewSets DEF campaign
  <2> QED BY <1>3, <2>2 DEF SceneBelow, Below
<1>4. CASE SelectScene
  <2>1. CASE Shows(scene)
    <3>1. scene \in SceneStates
      BY DEF NavTypeOK, SceneStates
    <3>2. /\ view' \in SceneViews \ DebugViews /\ scene'.landmark = scene.landmark
          /\ view' = "SCENE_TEXT" => scene'.event = "TEXT"
          /\ view' = "SCENE_CHOICE" => scene'.event = "CHOICE" /\ scene'.choices > 0
          /\ UNCHANGED drift
      BY <2>1, <3>1, ShowsKeeps, ViewSets DEF campaign
    <3>3. Below = view /\ view \in SceneViews
      BY <1>4, ViewSets DEF SelectScene, Below
    <3> QED BY <3>2, <3>3 DEF SceneBelow, Below
  <2>2. CASE Ends(scene) \/ Breaks
    <3>1. view' \in {"CHRONICLE", "DRIFT_MAP"}
      BY <2>2 DEF Ends, Breaks, SetView
    <3> QED BY <1>1, <3>1, ViewSets
  <2> QED BY <1>4, <2>1, <2>2 DEF SelectScene
<1>5. CASE SelectDriftMap
  <2>1. \/ \E b \in BOOLEAN : Begins(b) /\ drift
        \/ view' \in {"DOOR", "DRIFT_MAP"}
    BY <1>5 DEF SelectDriftMap, SetView
  <2> QED BY <1>1, <1>3, <2>1, ViewSets
<1>6. CASE SelectPreview
  BY <1>3, <1>6 DEF SelectPreview
<1>7. CASE SelectLongClick
  BY <1>2, <1>7, ViewSets DEF SelectLongClick, SetView, Below, campaign
<1>8. CASE SelectDebug
  BY <1>2, <1>8, ViewSets DEF SelectDebug, SetView, Below, campaign
<1>9. CASE UpClick \/ DownClick \/ UNCHANGED navVars
  <2>1. UNCHANGED <<view, back, scene, drift>>
    BY <1>9 DEF UpClick, DownClick, Adjust, navVars, cursor, campaign
  <2> QED BY <1>2, <2>1 DEF Below
<1>10. CASE BackClick
  <2>1. CASE view \in DebugViews
    BY <1>2, <1>10, <2>1, ViewSets DEF BackClick, SetView, Below, campaign, NavTypeOK
  <2>2. CASE view \notin DebugViews
    <3>1. view' \in {"CLOSED", "HOME", "DOOR", "EXPEDITION", "DRIFT_MAP", "DRIFT_MENU"}
      BY <1>10, <2>2, ViewSets DEF BackClick, SetView, BackOf
    <3> QED BY <1>1, <3>1, ViewSets
  <2> QED BY <2>1, <2>2
<1>11. CASE SelectHome \/ SelectHearth \/ SelectWorkshop \/ SelectDoor \/ SelectExpedition
            \/ SelectEncounter \/ SelectChronicle \/ SelectDriftMenu \/ SelectReset \/ Exit
            \/ PrvInit
  <2>1. view' \in {"CLOSED", "HOME", "HEARTH", "WORKSHOP", "GUESTS", "DOOR", "EXPEDITION",
                   "ENCOUNTER", "CHRONICLE", "DRIFT_MAP"}
    BY <1>11 DEF SelectHome, HomeItemAt, SelectHearth, SelectWorkshop, SelectDoor, OpenDrift,
       OpenHall, SelectExpedition, Retreat, SelectEncounter, SelectChronicle,
       SelectDriftMenu, SelectReset, Exit, PrvInit, SetView, cursor
  <2> QED BY <1>1, <2>1, ViewSets
<1> QED
  BY <1>4, <1>5, <1>6, <1>7, <1>8, <1>9, <1>10, <1>11 DEF NavNext, SelectClick

\* A journey starts when no other one is under way.
LEMMA OneJourneyStep ==
    ASSUME NavTypeOK, HallXorDrift, [NavNext]_navVars
    PROVE  HallXorDrift'
<1>1. hall \in Journeys
  BY DEF NavTypeOK, Journeys
<1>2. CASE UNCHANGED <<hall, drift>>
  BY <1>2 DEF HallXorDrift
<1>3. CASE drift' = FALSE
  BY <1>3 DEF HallXorDrift
<1>4. CASE SelectDoor
  <2>1. \/ UNCHANGED <<hall, drift>>
        \/ ~hall.active /\ UNCHANGED hall
        \/ ~drift /\ UNCHANGED drift
    BY <1>4 DEF SelectDoor, OpenDrift, OpenHall
  <2> QED BY <2>1 DEF HallXorDrift
<1>5. CASE SelectExpedition \/ SelectEncounter
  <2>1. UNCHANGED drift
    BY <1>5 DEF SelectExpedition, SelectEncounter
  <2>2. hall'.active => hall.active
    <3>1. \/ UNCHANGED hall \/ hall' = AtHome
          \/ hall' = [hall EXCEPT !.step = 2, !.presence = 2]
          \/ hall.step \in {0, 2} /\ hall' = [hall EXCEPT !.step = @ + 1]
          \/ \E p \in 0 .. 2 : hall' = [hall EXCEPT !.presence = p]
      <4>1. CASE SelectExpedition
        BY <4>1 DEF SelectExpedition, Retreat
      <4>2. CASE SelectEncounter
        <5>1. 0 \in 0 .. 2 /\ 1 \in 0 .. 2
          OBVIOUS
        <5> QED BY <4>2, <5>1 DEF SelectEncounter, Retreat
      <4> QED BY <1>5, <4>1, <4>2
    <3>2. hall.step \in {0, 2} => hall.step < 3
      OBVIOUS
    <3> QED BY <1>1, <3>1, <3>2, HallFields
  <2> QED BY <2>1, <2>2 DEF HallXorDrift
<1>6. CASE SelectScene \/ SelectDriftMap \/ SelectPreview
  <2>1. UNCHANGED hall
    BY <1>6 DEF SelectScene, SelectDriftMap, SelectPreview, house
  <2>2. UNCHANGED drift \/ drift' = FALSE
    BY <1>6 DEF SelectScene, Shows, Ends, Breaks, SelectDriftMap, SelectPreview, Begins,
       campaign
  <2> QED BY <1>2, <1>3, <2>1, <2>2
<1>7. CASE SelectReset
  BY <1>3, <1>7 DEF SelectReset
<1>8. CASE SelectDriftMenu
  BY <1>2, <1>3, <1>8 DEF SelectDriftMenu, house
<1>9. CASE SelectLongClick \/ SelectDebug \/ UpClick \/ DownClick \/ BackClick \/ Exit
           \/ PrvInit \/ SelectHome \/ SelectHearth \/ SelectWorkshop \/ SelectChronicle
           \/ UNCHANGED navVars
  BY <1>2, <1>9 DEF SelectLongClick, SelectDebug, UpClick, DownClick, Adjust, BackClick, Exit,
     PrvInit, SelectHome, SelectHearth, SelectWorkshop, SelectChronicle, house, campaign,
     navVars
<1> QED
  BY <1>4, <1>5, <1>6, <1>7, <1>8, <1>9 DEF NavNext, SelectClick

\* A press that leads on starts at the first row; the others move within the rows.
LEMMA CursorStep ==
    ASSUME NavTypeOK, SelectedInRange, NavTypeOK', SceneBelow', [NavNext]_navVars
    PROVE  SelectedInRange'
<1>1. CASE selected' = 0
  BY <1>1, FirstRow
<1>2. CASE view' = "CLOSED"
  BY <1>2 DEF SelectedInRange
<1>3. CASE /\ UNCHANGED <<view, selected>>
           /\ view \in {"HEARTH", "WORKSHOP", "EXPEDITION", "ENCOUNTER", "DOOR", "DRIFT_MAP",
                        "DEBUG_EDIT"}
  BY <1>3, Rows, RowsNext DEF RowsKnown, SelectedInRange
<1>4. ASSUME UNCHANGED <<view, house, scene>>, selected' < ItemCount
      PROVE  SelectedInRange'
  <2>1. ItemCount' = ItemCount
    BY <1>4 DEF ItemCount, HomeItemCount, house
  <2> QED BY <1>4, <2>1 DEF SelectedInRange
<1>5. CASE UpClick \/ DownClick
  <2>1. CASE UNCHANGED <<view, selected>> /\ view = "DEBUG_EDIT"
    BY <1>3, <2>1
  <2>2. CASE /\ view # "CLOSED"
             /\ selected > 0 /\ selected' = selected - 1
             /\ UNCHANGED <<view, house, scene>>
    <3>1. selected < ItemCount /\ selected \in Nat /\ ItemCount \in Int
      BY <2>2, Rows DEF RowsKnown, NavTypeOK, SelectedInRange
    <3> QED BY <1>4, <2>2, <3>1
  <2>3. CASE /\ selected + 1 < ItemCount /\ selected' = selected + 1
             /\ UNCHANGED <<view, house, scene>>
    BY <1>4, <2>3
  <2> QED BY <1>5, <2>1, <2>2, <2>3 DEF UpClick, DownClick, Adjust, cursor
<1>6. CASE BackClick
  <2>1. CASE view' = "DEBUG" /\ selected' = item - 1
    BY <2>1, RowsNext DEF RowsKnown, NavTypeOK, SelectedInRange
  <2> QED BY <1>1, <1>2, <1>6, <2>1 DEF BackClick, SetView
<1>7. CASE UNCHANGED navVars
  <2>1. UNCHANGED <<view, selected, house, scene>>
    BY <1>7 DEF navVars, cursor, house
  <2> QED BY <1>2, <1>4, <2>1 DEF SelectedInRange
<1>8. CASE SelectScene \/ SelectPreview \/ SelectDriftMap
  <2>1. \/ selected' = 0
        \/ UNCHANGED <<view, selected>> /\ view = "DRIFT_MAP"
    BY <1>8 DEF SelectScene, Shows, Ends, Breaks, SelectPreview, SelectDriftMap, Begins,
       SetView
  <2> QED BY <1>1, <1>3, <2>1
<1>9. CASE SelectHome \/ SelectHearth \/ SelectWorkshop \/ SelectDoor \/ SelectExpedition
           \/ SelectEncounter \/ SelectChronicle \/ SelectDriftMenu \/ SelectReset
           \/ SelectDebug \/ SelectLongClick \/ Exit \/ PrvInit
  <2>1. \/ selected' = 0 \/ view' = "CLOSED"
        \/ /\ UNCHANGED <<view, selected>>
           /\ view \in {"HEARTH", "WORKSHOP", "EXPEDITION", "ENCOUNTER", "DOOR"}
    BY <1>9 DEF SelectHome, SelectHearth, SelectWorkshop, SelectDoor, OpenDrift, OpenHall,
       SelectExpedition, Retreat, SelectEncounter, SelectChronicle, SelectDriftMenu,
       SelectReset, SelectDebug, SelectLongClick, Exit, PrvInit, SetView, cursor
  <2> QED BY <1>1, <1>2, <1>3, <2>1
<1> QED BY <1>5, <1>6, <1>7, <1>8, <1>9 DEF NavNext, SelectClick

\* Until the menu is opened only the other handlers run.
LEMMA UntestedStep ==
    ASSUME NavIInv, [NavNext]_navVars, ~tested'
    PROVE  /\ ~tested /\ view \notin DebugViews
           /\ \/ SelectHome \/ SelectHearth \/ SelectWorkshop \/ SelectDoor
              \/ SelectExpedition \/ SelectEncounter \/ SelectChronicle \/ SelectScene
              \/ SelectDriftMap \/ SelectDriftMenu
              \/ UpClick \/ DownClick \/ BackClick \/ Exit \/ PrvInit
              \/ UNCHANGED navVars
<1>1. ~SelectLongClick
  BY DEF SelectLongClick
<1>2. ~tested
  BY <1>1 DEF NavNext, navVars
<1>3. view \notin DebugViews
  BY <1>2 DEF NavIInv, Unedited
<1> QED BY <1>1, <1>2, <1>3, ViewSets
        DEF NavNext, SelectClick, SelectDebug, SelectPreview, SelectReset

\* What Unedited and ViewFits say, untested.
Fits ==
    /\ view \notin DebugViews
    /\ hall.active \/ drift => anchor
    /\ drift => movement >= FRAGMENTS
    /\ movement >= FRAGMENTS => memory
    /\ view \in {"EXPEDITION", "ENCOUNTER"} => hall.active
    /\ view = "ENCOUNTER" => hall.presence > 0
    /\ view \in MapViews \cup SceneViews => drift
    /\ view = "GUESTS" => guest
    /\ view = "DOOR" => anchor
    /\ view = "CHRONICLE" => memory

LEMMA FitsStep ==
    ASSUME NavIInv, NavTypeOK', [NavNext]_navVars, ~tested'
    PROVE  Fits'
<1>1. Fits
  BY UntestedStep DEF NavIInv, Unedited, ViewFits, Fits
<1>2. /\ hall \in Journeys /\ movement \in WARMTH .. COMPLETE
      /\ drift \in BOOLEAN /\ guest \in BOOLEAN /\ anchor \in BOOLEAN /\ memory \in BOOLEAN
  BY DEF NavIInv, NavTypeOK, Journeys
<1>3. CASE SelectHome
  <2>1. /\ UNCHANGED <<hall, drift, guest, anchor, memory, movement>>
        /\ view = "HOME" /\ view' = HomeItemAt(selected)
    BY <1>3 DEF SelectHome, SetView, house, campaign
  <2>2. /\ selected \in Nat
        /\ selected < 2 + (IF guest THEN 1 ELSE 0) + (IF anchor THEN 1 ELSE 0)
                        + (IF memory THEN 1 ELSE 0)
    BY <2>1, Rows DEF RowsKnown, NavIInv, NavTypeOK, SelectedInRange
  <2>3. /\ view' \in {"HEARTH", "WORKSHOP", "GUESTS", "DOOR", "CHRONICLE"}
        /\ view' = "GUESTS" => guest
        /\ view' = "DOOR" => anchor
    BY <2>1 DEF HomeItemAt
  <2>4. view' = "CHRONICLE" => memory
    BY <2>1, <2>2 DEF HomeItemAt
  <2> QED BY <1>1, <2>1, <2>3, <2>4, ViewSets DEF Fits
<1>4. CASE SelectHearth \/ SelectWorkshop
  <2>1. /\ view' \in {"HEARTH", "WORKSHOP"} /\ UNCHANGED <<hall, drift, memory, movement>>
        /\ anchor => anchor'
    BY <1>4 DEF SelectHearth, SelectWorkshop, cursor, campaign
  <2> QED BY <1>1, <2>1, ViewSets DEF Fits
<1>5. CASE SelectDoor
  <2>1. UNCHANGED <<guest, anchor, memory, movement>> /\ anchor
    BY <1>1, <1>5 DEF SelectDoor, Fits
  <2>2. CASE drift /\ SetView("DRIFT_MAP") /\ UNCHANGED <<drift, hall>>
    BY <1>1, <2>1, <2>2, ViewSets DEF Fits, SetView
  <2>3. CASE /\ hall.active /\ UNCHANGED <<drift, hall>>
             /\ SetView(IF hall.presence > 0 THEN "ENCOUNTER" ELSE "EXPEDITION")
    BY <1>1, <2>1, <2>3, ViewSets DEF Fits, SetView
  <2>4. CASE OpenDrift /\ view = "DOOR"
    BY <1>1, <2>1, <2>4, ViewSets DEF OpenDrift, Fits, SetView
  <2>5. CASE OpenHall /\ view = "DOOR"
    <3>1. UNCHANGED drift
          /\ \/ UNCHANGED <<hall, view>>
             \/ hall'.active /\ view' = "EXPEDITION"
      BY <1>2, <2>5, HallFields DEF OpenHall, SetView
    <3> QED BY <1>1, <2>1, <2>5, <3>1, ViewSets DEF Fits
  <2> QED BY <1>5, <2>2, <2>3, <2>4, <2>5 DEF SelectDoor
<1>6. CASE SelectExpedition
  <2>1. UNCHANGED <<guest, anchor, drift>> /\ view = "EXPEDITION" /\ hall.active /\ anchor
    BY <1>1, <1>6 DEF SelectExpedition, Fits
  <2>2. CASE Retreat
    BY <1>1, <1>2, <2>1, <2>2, HallFields, ViewSets DEF Retreat, SetView, Fits
  <2>3. CASE hall' = AtHome /\ memory' = TRUE /\ SetView("CHRONICLE")
    <3>1. movement' >= FRAGMENTS \/ UNCHANGED movement
      <4>1. UNCHANGED movement \/ movement' = Synced(movement, TRUE)
        BY <1>6 DEF SelectExpedition, Retreat
      <4> QED BY <4>1 DEF Synced, FRAGMENTS
    <3>2. drift => movement' >= FRAGMENTS
      BY <1>1, <3>1 DEF Fits
    <3> QED BY <1>1, <2>1, <2>3, <3>2, ViewSets DEF SetView, Fits
  <2>4. CASE /\ UNCHANGED <<memory, movement>> /\ hall'.active
             /\ \/ view' = "EXPEDITION"
                \/ view' = "ENCOUNTER" /\ hall'.presence > 0
    BY <1>1, <2>1, <2>4, ViewSets DEF Fits
  <2>5. hall' = [hall EXCEPT !.step = 2, !.presence = 2]
           => hall'.active = hall.active /\ hall'.presence > 0
    BY <1>2, HallFields
  <2>6. hall.step \in {0, 2} /\ hall' = [hall EXCEPT !.step = @ + 1]
           => hall'.active = hall.active
    BY <1>2, HallFields
  <2> QED BY <1>6, <2>1, <2>2, <2>3, <2>4, <2>5, <2>6 DEF SelectExpedition, SetView
<1>7. CASE SelectEncounter
  <2>1. /\ UNCHANGED <<guest, anchor, drift>> /\ view = "ENCOUNTER" /\ hall.active /\ anchor
    BY <1>1, <1>7 DEF SelectEncounter, Fits
  <2>2. CASE Retreat
    BY <1>1, <1>2, <2>1, <2>2, HallFields, ViewSets DEF Retreat, SetView, Fits
  <2>3. CASE /\ UNCHANGED <<memory, movement>> /\ hall'.active
             /\ \/ view' = "EXPEDITION"
                \/ view' = "ENCOUNTER" /\ hall'.presence > 0
    BY <1>1, <2>1, <2>3, ViewSets DEF Fits
  <2>4. hall' = [hall EXCEPT !.presence = 0] => hall'.active = hall.active
    BY <1>2, HallFields
  <2>5. hall' = [hall EXCEPT !.presence = 1]
           => hall'.active = hall.active /\ hall'.presence > 0
    BY <1>2, HallFields
  <2> QED BY <1>7, <2>1, <2>2, <2>3, <2>4, <2>5 DEF SelectEncounter, SetView
<1>8. CASE SelectScene
  <2>1. UNCHANGED <<hall, guest, anchor, memory>> /\ drift
    BY <1>1, <1>8, ViewSets DEF SelectScene, house, Fits
  <2>2. CASE Shows(scene)
    <3>1. view' \in SceneViews /\ UNCHANGED <<drift, movement>>
      BY <2>2, ViewSets DEF Shows, SetView, campaign
    <3> QED BY <1>1, <2>1, <3>1, ViewSets DEF Fits
  <2>3. CASE Ends(scene)
    <3>1. \/ view' = "CHRONICLE" /\ movement' = COMPLETE /\ drift' = FALSE
          \/ /\ view' = "DRIFT_MAP" /\ UNCHANGED drift
             /\ movement' = movement \/ movement' = movement + 1
      BY <2>3 DEF Ends, MovementsAfter, SetView
    <3>2. memory /\ movement >= FRAGMENTS /\ FRAGMENTS = 2
      BY <1>1, <2>1 DEF Fits, FRAGMENTS
    <3>3. movement' >= FRAGMENTS
      BY <1>2, <3>1, <3>2 DEF WARMTH, COMPLETE
    <3> QED BY <1>1, <2>1, <3>1, <3>2, <3>3, ViewSets DEF Fits
  <2>4. CASE Breaks
    <3>1. view' = "DRIFT_MAP" /\ UNCHANGED <<drift, movement>>
      BY <2>4 DEF Breaks, SetView, campaign
    <3> QED BY <1>1, <2>1, <3>1, ViewSets DEF Fits
  <2> QED BY <1>8, <2>2, <2>3, <2>4 DEF SelectScene
<1>9. CASE SelectDriftMap \/ SelectDriftMenu
  <2>1. UNCHANGED <<hall, guest, anchor, memory, movement>> /\ drift /\ anchor
    BY <1>1, <1>9, ViewSets
    DEF SelectDriftMap, SelectDriftMenu, Begins, Shows, campaign, house, Fits
  <2>2. \/ view' \in MapViews \cup SceneViews /\ UNCHANGED drift
        \/ view' = "DOOR" /\ drift' = FALSE
    BY <1>9, ViewSets
    DEF SelectDriftMap, SelectDriftMenu, Begins, Shows, campaign, SetView
  <2> QED BY <1>1, <2>1, <2>2, ViewSets DEF Fits
<1>10. CASE UpClick \/ DownClick \/ UNCHANGED navVars
  <2>1. UNCHANGED <<view, hall, drift, guest, anchor, memory, movement>>
    BY <1>10, UntestedStep, ViewSets DEF UpClick, DownClick, navVars, house, campaign
  <2> QED BY <1>1, <2>1 DEF Fits
<1>11. CASE BackClick
  <2>1. UNCHANGED <<hall, drift, guest, anchor, memory, movement>>
    BY <1>11 DEF BackClick, house, campaign
  <2>2. \/ view' \in {"CLOSED", "HOME"}
        \/ view \in MapViews /\ view' \in MapViews
        \/ view = "ENCOUNTER" /\ view' = "EXPEDITION"
        \/ view = "EXPEDITION" /\ view' = "DOOR"
    BY <1>11, UntestedStep, ViewSets DEF BackClick, BackOf, SetView
  <2> QED BY <1>1, <2>1, <2>2, ViewSets DEF Fits
<1>12. CASE SelectChronicle \/ Exit \/ PrvInit
  <2>1. /\ UNCHANGED <<hall, drift, guest, anchor, memory, movement>>
        /\ view' \in {"CLOSED", "HOME"}
    BY <1>12 DEF SelectChronicle, Exit, PrvInit, SetView, house, campaign
  <2> QED BY <1>1, <2>1, ViewSets DEF Fits
<1> QED
  BY <1>3, <1>4, <1>5, <1>6, <1>7, <1>8, <1>9, <1>10, <1>11, <1>12, UntestedStep

\* A copy keeps its thread through the pages of its scene.
LEMMA ShowsThread ==
    ASSUME NEW s \in SceneStates, Shows(s)
    PROVE  scene'.thread = s.thread /\ thread' = thread
<1>1. \A e \in {"TEXT", "CHOICE"}, n \in 0 .. 3 :
         [s EXCEPT !.event = e, !.choices = n].thread = s.thread
  BY DEF SceneStates
<1>2. PICK e \in {"TEXT", "CHOICE"}, n \in 0 .. 3 :
         scene' = [s EXCEPT !.event = e, !.choices = n]
  BY DEF Shows
<1> QED BY <1>1, <1>2 DEF Shows, campaign

\* Untested, the copy is fresh after every press.
LEMMA CopyStep ==
    ASSUME NavIInv, [NavNext]_navVars
    PROVE  CopyFresh'
<1> SUFFICES ASSUME ~tested', view' \in SceneViews PROVE scene'.thread = thread'
  BY ViewSets DEF CopyFresh, SceneViews
<1>1. ~tested /\ view \notin DebugViews /\ ~SelectLongClick
  BY UntestedStep DEF NavIInv, Unedited, SelectLongClick, navVars, NavNext
<1>2. scene \in SceneStates /\ thread \in 0 .. ThreadMax
  BY DEF NavIInv, NavTypeOK, SceneStates
<1>3. CASE SelectScene
  <2>1. view \in SceneViews /\ Shows(scene)
    BY <1>3, ViewSets DEF SelectScene, Ends, Breaks, SetView
  <2>2. scene.thread = thread
    BY <1>1, <2>1 DEF NavIInv, CopyFresh
  <2> QED BY <1>2, <2>1, <2>2, ShowsThread
<1>4. CASE SelectDriftMap
  <2>1. PICK b \in BOOLEAN : Begins(b)
    BY <1>4, ViewSets DEF SelectDriftMap, SetView
  <2>2. PICK s : s = [NoScene EXCEPT !.landmark = b, !.thread = thread]
    OBVIOUS
  <2>3. s \in SceneStates /\ s.thread = thread
    BY <1>2, <2>2, NoSceneIsState DEF SceneStates
  <2>4. Shows(s)
    BY <2>1, <2>2 DEF Begins
  <2> QED BY <2>3, <2>4, ShowsThread
<1>5. CASE UpClick \/ DownClick \/ BackClick \/ UNCHANGED navVars
  <2>1. UNCHANGED <<scene, thread>> /\ view' = view
    BY <1>1, <1>5, ViewSets DEF UpClick, DownClick, BackClick, BackOf, SetView, campaign, navVars
  <2> QED BY <1>1, <2>1 DEF NavIInv, CopyFresh
<1>6. SelectClick => SelectScene \/ SelectDriftMap
  <2>1. ~SelectDebug /\ ~SelectPreview /\ ~SelectReset
    BY <1>1, ViewSets DEF SelectDebug, SelectPreview, SelectReset
  <2>2. HomeItemAt(selected) \notin SceneViews
    BY ViewSets DEF HomeItemAt
  <2>3. ~SelectHome /\ ~SelectHearth /\ ~SelectWorkshop /\ ~SelectChronicle
    BY <2>2, ViewSets DEF SelectHome, SelectHearth, SelectWorkshop, SelectChronicle, SetView
  <2>4. ~SelectDoor /\ ~SelectDriftMenu
    BY ViewSets DEF SelectDoor, OpenDrift, OpenHall, SelectDriftMenu, SetView
  <2>5. ~SelectExpedition /\ ~SelectEncounter
    BY ViewSets DEF SelectExpedition, SelectEncounter, Retreat, SetView
  <2> QED BY <2>1, <2>3, <2>4, <2>5 DEF SelectClick
<1>7. ~Exit /\ ~PrvInit
  BY ViewSets DEF Exit, PrvInit, SetView
<1> QED BY <1>1, <1>3, <1>4, <1>5, <1>6, <1>7 DEF NavNext

\* The journeys, the scene, the cursor and the views keep in step, whichever
\* buttons are pressed and however the testing menu is used.
THEOREM NavInvariant == NavSpec => []NavIInv
<1>1. NavInit => NavIInv
  <2> SUFFICES ASSUME NavInit PROVE NavIInv
    OBVIOUS
  <2>1. NavTypeOK
    <3>1. scene \in SceneStates /\ hall \in Journeys
      BY NoSceneIsState DEF NavInit, AtHome, Journeys
    <3>2. /\ view \in Views \cup {"CLOSED"} /\ back \in Views \ DebugViews
          /\ selected \in Nat /\ item \in 1 .. 12
      BY ViewSets DEF NavInit
    <3>3. /\ drift \in BOOLEAN /\ guest \in BOOLEAN /\ anchor \in BOOLEAN
          /\ memory \in BOOLEAN /\ tested \in BOOLEAN
      BY DEF NavInit
    <3>4. movement \in WARMTH .. COMPLETE /\ thread \in 0 .. ThreadMax
      BY NavigationAssumption DEF NavInit, WARMTH, COMPLETE
    <3> QED BY <3>1, <3>2, <3>3, <3>4 DEF NavTypeOK, SceneStates, Journeys
  <2>2. SelectedInRange /\ HallXorDrift
    BY DEF NavInit, SelectedInRange, HallXorDrift
  <2>3. SceneBelow /\ Unedited /\ ViewFits /\ CopyFresh
    BY ViewSets
    DEF NavInit, SceneBelow, Below, Unedited, ViewFits, CopyFresh, AtHome, WARMTH, FRAGMENTS
  <2> QED BY <2>1, <2>2, <2>3 DEF NavIInv
<1>2. NavIInv /\ [NavNext]_navVars => NavIInv'
  <2> SUFFICES ASSUME NavIInv, [NavNext]_navVars PROVE NavIInv'
    OBVIOUS
  <2>1. NavTypeOK'
    BY TypeStep DEF NavIInv
  <2>2. SceneBelow' /\ HallXorDrift'
    BY SceneStep, OneJourneyStep DEF NavIInv
  <2>3. SelectedInRange'
    BY <2>1, <2>2, CursorStep DEF NavIInv
  <2>4. Unedited' /\ ViewFits'
    BY <2>1, FitsStep DEF Fits, Unedited, ViewFits
  <2>5. CopyFresh'
    BY CopyStep
  <2> QED BY <2>1, <2>2, <2>3, <2>4, <2>5 DEF NavIInv
<1> QED BY <1>1, <1>2, PTL DEF NavSpec

\* The cursor stands on a row of its view, after every press.
THEOREM CursorInRange == NavSpec => []SelectedInRange
<1>1. NavIInv => SelectedInRange
  BY DEF NavIInv
<1> QED BY <1>1, NavInvariant, PTL

\* The Hall and the Drift are never under way together, edits included.
THEOREM OneJourney == NavSpec => []HallXorDrift
<1>1. NavIInv => HallXorDrift
  BY DEF NavIInv
<1> QED BY <1>1, NavInvariant, PTL

\* A scene's view shows what the machine said last, the menu or not.
THEOREM SceneIsShown == NavSpec => []SceneShown
<1>1. NavIInv => SceneShown
  BY ViewSets DEF NavIInv, SceneBelow, Below, SceneShown
<1> QED BY <1>1, NavInvariant, PTL

\* Untested, each view is shown only in the state it speaks of.
THEOREM ViewsFit == NavSpec => []ViewFits
<1>1. NavIInv => ViewFits
  BY DEF NavIInv
<1> QED BY <1>1, NavInvariant, PTL

\* Untested, a scene never writes back a stale thread (CopyFresh).
THEOREM CopyIsFresh == NavSpec => []CopyFresh
<1>1. NavIInv => CopyFresh
  BY DEF NavIInv
<1> QED BY <1>1, NavInvariant, PTL

\* Untested and off the route, BACK leads home in three presses at most.
THEOREM BackLeadsHome == NavSpec => []BackReturns
<1>1. NavIInv => BackReturns
  <2> SUFFICES ASSUME NavIInv, ~tested, ~drift,
                      view \notin SceneViews \cup {"CLOSED", "HOME"}
               PROVE  "HOME" \in {BackOf(view), BackOf(BackOf(view)),
                                  BackOf(BackOf(BackOf(view)))}
    BY DEF BackReturns
  <2>1. view \notin MapViews \cup DebugViews
    BY DEF NavIInv, Unedited, ViewFits
  <2>2. view \in {"HEARTH", "WORKSHOP", "GUESTS", "DOOR", "EXPEDITION", "ENCOUNTER",
                  "CHRONICLE"}
    BY <2>1, ViewSets DEF NavIInv, NavTypeOK
  <2>3. /\ BackOf("DOOR") = "HOME" /\ BackOf("EXPEDITION") = "DOOR"
        /\ BackOf("ENCOUNTER") = "EXPEDITION"
        /\ view \notin {"EXPEDITION", "ENCOUNTER"} => BackOf(view) = "HOME"
    BY <2>2, ViewSets DEF BackOf
  <2> QED BY <2>2, <2>3
<1> QED BY <1>1, NavInvariant, PTL
=============================================================================
