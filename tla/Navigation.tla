----------------------------- MODULE Navigation -----------------------------
(* The views of main.c and the buttons: which view a press leads to, and     *)
(* what it does to the expeditions, the scene and the campaign on the way.   *)
(* One action per handler and view.  Of the house and the campaign only what *)
(* the handlers look at is kept; where the rules decide by goods, fire or    *)
(* the map, both answers are possible here (HouseState and Drift say when).  *)
(* A timed action is one step: no button works until it is over (Foreground).*)
EXTENDS Integers, Sequences, FiniteSets

CONSTANT ThreadMax     \* bound of the thread explored

ASSUME NavigationAssumption == ThreadMax \in Nat \ {0}

WARMTH == 1
FRAGMENTS == 2
CONTRADICTIONS == 3
MACHINERY == 4
FINAL_DOOR == 5
COMPLETE == 6

MapViews == {"DRIFT_MAP", "DRIFT_MENU"}
SceneViews == {"SCENE_TEXT", "SCENE_CHOICE"}
DebugViews == {"DEBUG", "DEBUG_EDIT", "DEBUG_RESET"}
Views == {"HOME", "HEARTH", "WORKSHOP", "GUESTS", "DOOR", "EXPEDITION",
          "ENCOUNTER", "CHRONICLE"} \cup MapViews \cup SceneViews \cup DebugViews

DebugItem == <<"KINDLING", "REMNANTS", "RATIONS", "CLARITY", "THREAD", "KEYS",
               "FIRE", "MOVEMENT", "GUESTS", "GATHERERS", "SCENE", "RESET">>

VARIABLES
    view,         \* s_view, or CLOSED while the app does not run
    selected,     \* s_selected
    item,         \* s_debug_item
    back,         \* s_debug_return_view
    hall,         \* the expedition to the Hall: active, step, presence
    drift,        \* s_game.expedition.active
    movement,     \* story.movement
    guest,        \* residents > 0
    anchor,       \* the anchor line is built
    memory,       \* memories > 0, and HOUSE_STORY_FIRST_MEMORY
    thread,       \* story.thread
    scene,        \* s_scene_event, s_scene_landmark and the thread of s_scene_context
    tested        \* history: the testing menu has been opened

cursor == <<selected, item, back>>
house == <<hall, guest, anchor, memory>>
campaign == <<drift, movement, thread>>
navVars == <<view, cursor, house, campaign, scene, tested>>

AtHome == [active |-> FALSE, step |-> 0, presence |-> 0]
NoScene == [event |-> "NONE", choices |-> 0, landmark |-> FALSE, thread |-> 0]

NavInit ==
    /\ view = "CLOSED" /\ selected = 0 /\ item = 1 /\ back = "HOME"
    /\ hall = AtHome /\ drift = FALSE /\ movement = WARMTH
    /\ guest = FALSE /\ anchor = FALSE /\ memory = FALSE
    /\ thread = 0
    /\ scene = NoScene
    /\ tested = FALSE

\* prv_set_view
SetView(v) == view' = v /\ selected' = 0

\* prv_sync_campaign_state, in every prv_save: the first memory ends the first
\* movement.
Synced(m, remembered) == IF remembered /\ m = WARMTH THEN FRAGMENTS ELSE m
-----------------------------------------------------------------------------
(* The rows of a view *)

\* prv_home_item_count
HomeItemCount == 2 + Cardinality({row \in {"GUESTS", "DOOR", "CHRONICLE"} :
                                    \/ row = "GUESTS" /\ guest
                                    \/ row = "DOOR" /\ anchor
                                    \/ row = "CHRONICLE" /\ memory})

\* prv_home_item_at
HomeItemAt(index) ==
    CASE index = 0 -> "HEARTH"
      [] index = 1 -> "WORKSHOP"
      [] index = 2 /\ guest -> "GUESTS"
      [] anchor /\ index = (IF guest THEN 3 ELSE 2) -> "DOOR"
      [] OTHER -> "CHRONICLE"

\* prv_item_count
ItemCount ==
    CASE view = "HOME" -> HomeItemCount
      [] view \in {"HEARTH", "WORKSHOP"} -> 3
      [] view \in {"GUESTS", "EXPEDITION", "ENCOUNTER", "DRIFT_MENU"} -> 2
      [] view = "SCENE_CHOICE" -> scene.choices
      [] view = "DEBUG" -> Len(DebugItem)
      [] OTHER -> 1
-----------------------------------------------------------------------------
(* SELECT in the house *)

SelectHome ==
    /\ view = "HOME"
    /\ SetView(HomeItemAt(selected))
    /\ UNCHANGED <<item, back, house, campaign, scene>>

\* prv_activate_hearth; the fire that is fed may bring the first guest.
SelectHearth ==
    /\ view = "HEARTH"
    /\ \/ selected = 1 /\ guest' = TRUE
       \/ UNCHANGED guest
    /\ UNCHANGED <<view, cursor, hall, anchor, memory, campaign, scene>>

\* prv_activate_workshop, for guest room, worktable or anchor line.
SelectWorkshop ==
    /\ view = "WORKSHOP"
    /\ \/ selected = 0 /\ guest' = TRUE /\ UNCHANGED anchor
       \/ selected = 2 /\ anchor' = TRUE /\ UNCHANGED guest
       \/ UNCHANGED <<guest, anchor>>
    /\ UNCHANGED <<view, cursor, hall, memory, campaign, scene>>

\* The rows of prv_activate_door, after those of a journey under way.
OpenDrift ==
    /\ movement >= FRAGMENTS
    /\ \/ drift' = TRUE /\ SetView("DRIFT_MAP")
       \/ UNCHANGED <<drift, view, selected>>
    /\ UNCHANGED hall

OpenHall ==
    /\ movement < FRAGMENTS
    /\ \/ hall' = [AtHome EXCEPT !.active = TRUE] /\ SetView("EXPEDITION")
       \/ UNCHANGED <<hall, view, selected>>
    /\ UNCHANGED drift

\* Mutant: the movement is looked at before the journey to the Hall.
SelectDoorMovementFirst ==
    /\ view = "DOOR"
    /\ \/ drift /\ SetView("DRIFT_MAP") /\ UNCHANGED <<drift, hall>>
       \/ ~drift /\ OpenDrift
       \/ /\ ~drift /\ movement < FRAGMENTS /\ hall.active
          /\ SetView(IF hall.presence > 0 THEN "ENCOUNTER" ELSE "EXPEDITION")
          /\ UNCHANGED <<drift, hall>>
       \/ ~drift /\ ~hall.active /\ OpenHall
    /\ UNCHANGED <<item, back, guest, anchor, memory, movement, thread, scene>>

\* prv_activate_door
SelectDoor ==
    /\ view = "DOOR"
    /\ \/ drift /\ SetView("DRIFT_MAP") /\ UNCHANGED <<drift, hall>>
       \/ /\ ~drift /\ hall.active
          /\ SetView(IF hall.presence > 0 THEN "ENCOUNTER" ELSE "EXPEDITION")
          /\ UNCHANGED <<drift, hall>>
       \/ ~drift /\ ~hall.active /\ (OpenDrift \/ OpenHall)
    /\ UNCHANGED <<item, back, guest, anchor, memory, movement, thread, scene>>

\* Mutant: a retreat leaves the view of the journey open.
RetreatStays ==
    /\ selected = 1
    /\ hall' = AtHome
    /\ UNCHANGED <<view, selected, memory, movement>>

\* Row 1 of the Hall's views.
Retreat ==
    /\ selected = 1
    /\ hall' = AtHome
    /\ SetView("DOOR")
    /\ UNCHANGED <<memory, movement>>

\* prv_activate_expedition.  The provisions always last (HallEndsInReturn of
\* HouseState), so the branch for a failed step is never taken.
SelectExpedition ==
    /\ view = "EXPEDITION"
    /\ \/ Retreat
       \/ /\ selected = 0 /\ hall.active /\ hall.presence = 0 /\ hall.step = 3
          /\ hall' = AtHome
          /\ memory' = TRUE
          /\ movement' = Synced(movement, TRUE)
          /\ SetView("CHRONICLE")
       \/ /\ selected = 0 /\ hall.active /\ hall.presence = 0 /\ hall.step = 1
          /\ hall' = [hall EXCEPT !.step = 2, !.presence = 2]
          /\ SetView("ENCOUNTER")
          /\ UNCHANGED <<memory, movement>>
       \/ /\ selected = 0 /\ hall.active /\ hall.presence = 0 /\ hall.step \in {0, 2}
          /\ hall' = [hall EXCEPT !.step = @ + 1]
          /\ UNCHANGED <<view, selected, memory, movement>>
       \/ /\ selected = 0 /\ hall.presence > 0
          /\ SetView("ENCOUNTER")
          /\ UNCHANGED <<hall, memory, movement>>
    /\ UNCHANGED <<item, back, guest, anchor, drift, thread, scene>>

\* prv_activate_encounter
SelectEncounter ==
    /\ view = "ENCOUNTER"
    /\ \/ Retreat
       \/ /\ selected = 0 /\ hall.presence = 1
          /\ hall' = [hall EXCEPT !.presence = 0]
          /\ SetView("EXPEDITION")
          /\ UNCHANGED <<memory, movement>>
       \/ /\ selected = 0 /\ hall.presence = 2
          /\ hall' = [hall EXCEPT !.presence = 1]
          /\ UNCHANGED <<view, selected, memory, movement>>
    /\ UNCHANGED <<item, back, guest, anchor, drift, thread, scene>>

SelectChronicle ==
    /\ view = "CHRONICLE"
    /\ SetView("HOME")
    /\ UNCHANGED <<item, back, house, campaign, scene>>
-----------------------------------------------------------------------------
(* Scenes *)

\* prv_scene_advance shows a page or a choice of s.
Shows(s) ==
    /\ \/ scene' = [s EXCEPT !.event = "TEXT", !.choices = 0] /\ SetView("SCENE_TEXT")
       \/ \E n \in 1 .. 3 : /\ scene' = [s EXCEPT !.event = "CHOICE", !.choices = n]
                            /\ SetView("SCENE_CHOICE")
    /\ UNCHANGED campaign

\* game_state_complete_landmark, at the end of s: a landmark may open the next
\* movement (Drift says which and when).
MovementsAfter(s) ==
    {movement} \cup {m \in CONTRADICTIONS .. FINAL_DOOR : s.landmark /\ m = movement + 1}

\* prv_scene_advance at the end of s: the context is written back with what the
\* scene gave, a landmark may open the next movement, and then the last scene
\* closes the campaign; after an edit of the movement both in one call.
Ends(s) ==
    /\ scene' = NoScene
    /\ \E given \in 0 .. 1 :
          thread' = IF s.thread + given > ThreadMax THEN ThreadMax ELSE s.thread + given
    /\ \E m \in MovementsAfter(s) :
          \/ /\ m = FINAL_DOOR
             /\ movement' = COMPLETE
             /\ drift' = FALSE
             /\ SetView("CHRONICLE")
          \/ /\ movement' = m
             /\ SetView("DRIFT_MAP")
             /\ UNCHANGED drift

\* prv_scene_advance when the machine stops with an error.
Breaks ==
    /\ scene' = NoScene
    /\ SetView("DRIFT_MAP")
    /\ UNCHANGED campaign

\* Mutant: a scene goes on with the copy of the one before it.
BeginsStale(onLandmark) ==
    Shows([NoScene EXCEPT !.landmark = onLandmark, !.thread = scene.thread])

\* prv_begin_scene, up to the first thing it shows; every shipped scene opens with
\* a page (content/scenes.json), so that none ends or breaks at once.
Begins(onLandmark) ==
    Shows([NoScene EXCEPT !.landmark = onLandmark, !.thread = thread])

SelectScene ==
    /\ view \in SceneViews
    /\ Shows(scene) \/ Ends(scene) \/ Breaks
    /\ UNCHANGED <<item, back, house>>
-----------------------------------------------------------------------------
(* SELECT in the Drift *)

\* Mutant: the map stays when the route fails.
SelectDriftMapStays ==
    /\ view = "DRIFT_MAP"
    /\ \/ drift /\ \E onLandmark \in BOOLEAN : Begins(onLandmark)
       \/ /\ drift
          /\ drift' = FALSE
          /\ UNCHANGED <<view, selected, movement, thread, scene>>
       \/ UNCHANGED <<view, selected, campaign, scene>>
    /\ UNCHANGED <<item, back, house>>

\* prv_activate_drift_map: a scene, a route that failed, or a plain step, hit or
\* refusal.
SelectDriftMap ==
    /\ view = "DRIFT_MAP"
    /\ \/ drift /\ \E onLandmark \in BOOLEAN : Begins(onLandmark)
       \/ /\ drift
          /\ drift' = FALSE
          /\ SetView("DOOR")
          /\ UNCHANGED <<movement, thread, scene>>
       \/ UNCHANGED <<view, selected, campaign, scene>>
    /\ UNCHANGED <<item, back, house>>

\* prv_activate_drift_menu
SelectDriftMenu ==
    /\ view = "DRIFT_MENU"
    /\ \/ selected = 0 /\ SetView("DRIFT_MAP") /\ UNCHANGED drift
       \/ selected = 1 /\ drift /\ drift' = FALSE /\ SetView("DOOR")
    /\ UNCHANGED <<item, back, house, movement, thread, scene>>
-----------------------------------------------------------------------------
(* The testing menu *)

\* prv_select_long_click
SelectLongClick ==
    /\ view \in Views \ DebugViews
    /\ back' = view
    /\ SetView("DEBUG")
    /\ tested' = TRUE
    /\ UNCHANGED <<item, house, campaign, scene>>

\* prv_activate_debug
SelectDebug ==
    /\ view = "DEBUG"
    /\ item' = selected + 1
    /\ SetView(IF DebugItem[selected + 1] = "RESET" THEN "DEBUG_RESET" ELSE "DEBUG_EDIT")
    /\ UNCHANGED <<back, house, campaign, scene>>

\* Mutant: a preview leaves the landmark of the scene before it.
SelectPreviewOnLandmark ==
    /\ view = "DEBUG_EDIT"
    /\ DebugItem[item] = "SCENE"
    /\ Begins(scene.landmark)
    /\ UNCHANGED <<item, back, house>>

\* SELECT on a preview: prv_begin_scene, whatever is under way.
SelectPreview ==
    /\ view = "DEBUG_EDIT"
    /\ DebugItem[item] = "SCENE"
    /\ Begins(FALSE)
    /\ UNCHANGED <<item, back, house>>

\* prv_confirm_debug_reset
SelectReset ==
    /\ view = "DEBUG_RESET"
    /\ hall' = AtHome /\ drift' = FALSE /\ movement' = WARMTH
    /\ guest' = FALSE /\ anchor' = FALSE /\ memory' = FALSE /\ thread' = 0
    /\ back' = "HOME"
    /\ SetView("HOME")
    /\ UNCHANGED <<item, scene>>

\* prv_adjusted_value
Clamped(n, low, high) == IF n < low THEN low ELSE IF n > high THEN high ELSE n

\* prv_debug_adjust, by 1 or -1; the edits that no view looks at change nothing
\* here (TestingMenu has them).  A movement past the first brings the house
\* that goes with it.  Named guests can be present without living in the house,
\* so one less may mean a first resident as well as none.
Adjust(by) ==
    LET edited == Clamped(movement + by, WARMTH, FINAL_DOOR)
        brings == DebugItem[item] = "MOVEMENT" /\ edited >= FRAGMENTS
    IN  /\ thread' = IF DebugItem[item] = "THREAD" THEN Clamped(thread + by, 0, ThreadMax)
                                                   ELSE thread
        /\ movement' = IF DebugItem[item] = "MOVEMENT" THEN Synced(edited, memory)
                                                       ELSE movement
        /\ anchor' = (anchor \/ brings)
        /\ memory' = (memory \/ brings)
        /\ IF DebugItem[item] = "GUESTS" THEN guest' \in IF by > 0 THEN {TRUE} ELSE BOOLEAN
                                         ELSE guest' = (guest \/ brings)
        /\ UNCHANGED <<view, cursor, hall, drift, scene>>
-----------------------------------------------------------------------------
(* UP, DOWN and BACK.  The direction on the map is left out. *)

UpClick ==
    \/ view = "DEBUG_EDIT" /\ Adjust(1)
    \/ /\ view \notin {"CLOSED", "DEBUG_EDIT", "DRIFT_MAP"}
       /\ selected > 0
       /\ selected' = selected - 1
       /\ UNCHANGED <<view, item, back, house, campaign, scene>>

\* Mutant: the cursor goes one row too far.
DownClickTooFar ==
    \/ view = "DEBUG_EDIT" /\ Adjust(-1)
    \/ /\ view \notin {"CLOSED", "DEBUG_EDIT", "DRIFT_MAP"}
       /\ selected < ItemCount
       /\ selected' = selected + 1
       /\ UNCHANGED <<view, item, back, house, campaign, scene>>

DownClick ==
    \/ view = "DEBUG_EDIT" /\ Adjust(-1)
    \/ /\ view \notin {"CLOSED", "DEBUG_EDIT", "DRIFT_MAP"}
       /\ selected + 1 < ItemCount
       /\ selected' = selected + 1
       /\ UNCHANGED <<view, item, back, house, campaign, scene>>

\* prv_back_click in the views where it leads to a fixed view; in a scene it
\* does nothing.
BackOf(v) ==
    CASE v = "DRIFT_MAP" -> "DRIFT_MENU"
      [] v = "DRIFT_MENU" -> "DRIFT_MAP"
      [] v = "ENCOUNTER" -> "EXPEDITION"
      [] v = "EXPEDITION" -> "DOOR"
      [] v \in SceneViews -> v
      [] OTHER -> "HOME"

BackClick ==
    /\ \/ view = "HOME" /\ view' = "CLOSED" /\ UNCHANGED selected
       \/ view = "DEBUG" /\ SetView(back)
       \/ view \in {"DEBUG_EDIT", "DEBUG_RESET"} /\ view' = "DEBUG" /\ selected' = item - 1
       \/ /\ view \in Views \ ({"HOME"} \cup DebugViews \cup SceneViews)
          /\ SetView(BackOf(view))
    /\ IF view = "HOME" THEN scene' = NoScene ELSE UNCHANGED scene
    /\ UNCHANGED <<item, back, house, campaign>>

\* The system ends the app in any view.  What is not saved is gone: the scene.
Exit ==
    /\ view \notin {"CLOSED", "HOME"}
    /\ view' = "CLOSED"
    /\ scene' = NoScene
    /\ UNCHANGED <<cursor, house, campaign>>

\* prv_init
PrvInit ==
    /\ view = "CLOSED"
    /\ SetView("HOME")
    /\ item' = 1 /\ back' = "HOME"
    /\ UNCHANGED <<house, campaign, scene>>
-----------------------------------------------------------------------------
SelectClick ==
    \/ SelectHome \/ SelectHearth \/ SelectWorkshop \/ SelectDoor
    \/ SelectExpedition \/ SelectEncounter \/ SelectChronicle
    \/ SelectScene \/ SelectDriftMap \/ SelectDriftMenu
    \/ SelectDebug \/ SelectPreview \/ SelectReset

NavNext ==
    \/ SelectLongClick
    \/ /\ SelectClick \/ UpClick \/ DownClick \/ BackClick \/ Exit \/ PrvInit
       /\ UNCHANGED tested

NavSpec == NavInit /\ [][NavNext]_navVars
-----------------------------------------------------------------------------
(* Properties *)

\* The cursor stands on a row of its view, however the view was reached and
\* whatever was edited meanwhile; the handlers index by it without asking
\* (main.c:340-366, 1372-1373, 1590-1603).
SelectedInRange == view # "CLOSED" => selected < ItemCount

\* One journey at a time: the door tries the Drift, the Hall and the movement in
\* an order that never starts one beside the other, edits included
\* (main.c:1387-1421).
HallXorDrift == ~(hall.active /\ drift)

\* A scene's view shows what the machine said last, and a scene that can clear
\* a landmark runs on a route, even if the menu was opened in its middle, another
\* scene previewed, or the game reset (main.c:1223-1304, 1595-1613, 1744-1756).
SceneShown ==
    /\ view = "SCENE_TEXT" => scene.event = "TEXT"
    /\ view = "SCENE_CHOICE" => scene.event = "CHOICE" /\ scene.choices > 0
    /\ view \in SceneViews /\ scene.landmark => drift

\* As long as the testing menu was not opened each view is shown only in the
\* state it speaks of: no handler leaves a view behind when it ends what the view
\* is about (main.c:1223-1482).
ViewFits ==
    ~tested =>
        /\ view \in {"EXPEDITION", "ENCOUNTER"} => hall.active
        /\ view = "ENCOUNTER" => hall.presence > 0
        /\ view \in MapViews \cup SceneViews => drift
        /\ view = "GUESTS" => guest
        /\ view = "DOOR" => anchor
        /\ view = "CHRONICLE" => memory

\* The copy a scene works on is not stale when it is written back: while a scene
\* is open no handler but the testing menu's moves the thread of the game, on
\* which Drift relies, too (main.c:1186-1203, 1744-1756).  Once the menu was opened
\* this is no longer so: an edit in the middle of a scene is written over.
CopyFresh == ~tested /\ view \in SceneViews => scene.thread = thread

\* BACK, pressed on, leads home from every view; but for a scene, which has to be
\* played, and a route, which "Return home" ends (main.c:1717-1742).  The testing
\* menu breaks this: a scene previewed at home ends on the map without a route.
BackReturns ==
    \/ tested \/ drift
    \/ view \in SceneViews \cup {"CLOSED", "HOME"}
    \/ "HOME" \in {BackOf(view), BackOf(BackOf(view)), BackOf(BackOf(BackOf(view)))}
=============================================================================
