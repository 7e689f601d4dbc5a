----------------------------- MODULE Foreground -----------------------------
(* main.c around the house: the buttons that change it, the second ticks,  *)
(* the two-second actions with their timer, and the app's end, crash and   *)
(* start.  A record that is written is whole; SaveStore is about the ones  *)
(* that are not.  The clock runs in seconds and never backwards.           *)
(*                                                                         *)
(* The campaign of the Drift is in Drift; what the views let the player    *)
(* press is in Navigation.                                                 *)
EXTENDS HouseState

CONSTANTS
    Updates,       \* TIMED_ACTION_DURATION_MS / TIMED_ACTION_UPDATE_MS, 20
    DeferMax,      \* bound: seconds that pass during one action
    Absences       \* the seconds between an end and a start that are explored

\* An action is over long before the time that house_apply_elapsed counts is,
\* and the rules are asked for every time that passes here.
ASSUME ForegroundAssumption ==
    /\ Updates \in Nat \ {0}
    /\ DeferMax \in 0 .. ElapsedCap
    /\ Absences \subseteq Nat
    /\ 1 .. DeferMax + 1 \subseteq Gaps
    /\ \A d \in Absences, n \in 0 .. DeferMax : d + n > 0 => d + n \in Gaps

TimedActions == {"SEARCH", "FEED", "PREPARE"}

VARIABLES
    running,       \* between prv_init and prv_deinit
    action,        \* s_timed_action
    progress,      \* s_action_progress_ms, in updates
    timer,         \* s_action_timer is registered
    deferred,      \* time(NULL) - last_updated
    stored,        \* a record of the game exists
    saved,         \* the house in it; the new game's while there is none
    age            \* time(NULL) - last_updated of the record, up to ElapsedCap

timing == <<action, progress, timer>>
record == <<stored, saved, age>>
fgVars == <<houseVars, running, timing, deferred, record>>

Snapshot == [now |-> Now, rations |-> rations, guests |-> guests,
             built |-> built, memory |-> memory, hall |-> hall]

FgInit ==
    /\ Init
    /\ running = FALSE
    /\ action = "NONE" /\ progress = 0 /\ timer = FALSE
    /\ deferred = 0
    /\ stored = FALSE /\ saved = Snapshot /\ age = 0

Idle == running /\ action = "NONE"
-----------------------------------------------------------------------------
(* Saving *)

\* prv_save: the house goes into the record with its last_updated.
Save ==
    /\ stored' = TRUE
    /\ saved' = Snapshot'
    /\ age' = deferred'

\* Time passes over the record.
Ages(d) == age' = AtMost(age + d, ElapsedCap)
-----------------------------------------------------------------------------
(* Buttons.  A handler saves whether the rule accepted or refused; all of  *)
(* them return at once while an action is under way.                       *)

\* prv_activate_workshop
ActivateWorkshop(b) ==
    /\ Idle
    /\ Construct(b) \/ (~CanConstruct(b) /\ UNCHANGED houseVars)
    /\ UNCHANGED <<running, timing, deferred>>
    /\ Save

\* prv_activate_guests
ActivateGuests(role) ==
    /\ Idle
    /\ residents > 0
    /\ \/ Assign(role)
       \/ /\ hearth_level < Shared \/ (IF role = "GATHERER" THEN listeners = 0
                                                            ELSE gatherers = 0)
          /\ UNCHANGED houseVars
    /\ UNCHANGED <<running, timing, deferred>>
    /\ Save

\* prv_activate_door before the first memory, which opens the Drift instead.
ActivateDoor ==
    /\ Idle
    /\ "ANCHOR_LINE" \in built
    /\ ~active
    /\ "FIRST_MEMORY" \notin story
    /\ StartExpedition \/ (~CanExpedition /\ UNCHANGED houseVars)
    /\ UNCHANGED <<running, timing, deferred>>
    /\ Save

\* prv_activate_expedition; a presence refuses the step.
ActivateExpedition ==
    /\ Idle
    /\ active
    /\ Advance \/ Retreat \/ (encounter > 0 /\ UNCHANGED houseVars)
    /\ UNCHANGED <<running, timing, deferred>>
    /\ Save

\* prv_activate_encounter
ActivateEncounter ==
    /\ Idle
    /\ encounter > 0
    /\ Remember \/ Retreat
    /\ UNCHANGED <<running, timing, deferred>>
    /\ Save
-----------------------------------------------------------------------------
(* Timed actions *)

Accepts(a) ==
    CASE a = "SEARCH"  -> TRUE
      [] a = "FEED"    -> CanTendHearth
      [] a = "PREPARE" -> CanPrepareRation

\* prv_start_timed_action.  The system may have no timer left: nothing begins.
StartTimedAction(a) ==
    /\ Idle
    /\ Accepts(a)
    /\ progress' = 0
    /\ action' = a
    /\ timer' = TRUE
    /\ UNCHANGED <<houseVars, running, deferred, record>>

\* Mutant: an action that cannot go on keeps its place.
TimerUpdateStuck ==
    /\ timer
    /\ progress + 1 < Updates
    /\ progress' = progress + 1
    /\ \/ timer' = TRUE /\ action' = action
       \/ timer' = FALSE /\ action' = action
    /\ UNCHANGED <<houseVars, running, deferred, record>>

\* prv_timed_action_tick before the end.  Without a new timer the action ends
\* with no effect.
TimerUpdate ==
    /\ timer
    /\ progress + 1 < Updates
    /\ progress' = progress + 1
    /\ \/ timer' = TRUE /\ action' = action
       \/ timer' = FALSE /\ action' = "NONE"
    /\ UNCHANGED <<houseVars, running, deferred, record>>

\* The rule of the action, which checks once more.
Performs(a) ==
    IF Accepts(a) THEN \/ a = "SEARCH"  /\ Search
                       \/ a = "FEED"    /\ TendHearth
                       \/ a = "PREPARE" /\ PrepareRation
                  ELSE UNCHANGED houseVars

\* prv_timed_action_tick at the end.
TimerComplete ==
    /\ timer
    /\ progress + 1 >= Updates
    /\ progress' = Updates
    /\ timer' = FALSE
    /\ action' = "NONE"
    /\ Performs(action)
    /\ UNCHANGED <<running, deferred>>
    /\ Save
-----------------------------------------------------------------------------
(* Time *)

\* What house_apply_elapsed answers: a level lost, or a yield.
Changed(d) ==
    \/ hearth_level > 0 /\ Decayed(Now, AtMost(d, ElapsedCap)) > 0
    \/ LET lit == SeenSeconds(Now, AtMost(d, ElapsedCap))
       IN  \/ Cycles(gatherers, gather_elapsed, lit, GatherSeconds) > 0
           \/ Cycles(listeners, listen_elapsed, lit, ListenSeconds) > 0

\* Mutant: the house is simulated during an action as well.
TickAlways ==
    /\ running
    /\ Elapse(deferred + 1)
    /\ deferred' = 0
    /\ IF Changed(deferred + 1) THEN Save ELSE Ages(1) /\ UNCHANGED <<stored, saved>>
    /\ UNCHANGED <<running, timing>>

\* prv_tick, each second.  Seconds during an action are left for the next
\* tick, and seconds that show nothing are not saved.
Tick ==
    /\ running
    /\ IF action = "NONE"
       THEN /\ Elapse(deferred + 1)
            /\ deferred' = 0
            /\ IF Changed(deferred + 1) THEN Save
                                        ELSE Ages(1) /\ UNCHANGED <<stored, saved>>
       ELSE /\ deferred < DeferMax
            /\ deferred' = deferred + 1
            /\ Ages(1)
            /\ UNCHANGED <<houseVars, stored, saved>>
    /\ UNCHANGED <<running, timing>>
-----------------------------------------------------------------------------
(* End and start *)

Stopped == running' = FALSE /\ action' = "NONE" /\ progress' = 0 /\ timer' = FALSE

\* prv_deinit, in the middle of an action too: the action is dropped.
Deinit ==
    /\ running
    /\ Stopped
    /\ IF deferred > 0 THEN Elapse(deferred) ELSE UNCHANGED houseVars
    /\ deferred' = 0
    /\ Save

\* The app is killed.  The house it stood at is kept here only to compare it
\* with the one that the next start makes of the record.
Crash ==
    /\ running
    /\ Stopped
    /\ UNCHANGED <<houseVars, deferred, record>>

\* The rules of time, with the guests of the record.
Record == INSTANCE HouseState WITH
    residents <- saved.guests[1], gatherers <- saved.guests[2],
    listeners <- saved.guests[3]

\* The house is what the record says, `c` of it caught up.
Restore(c) ==
    /\ hearth_level' = c.level /\ hearth_elapsed' = c.burnt
    /\ gather_elapsed' = c.gathered /\ listen_elapsed' = c.listened
    /\ gather_progress' = c.progress
    /\ kindling' = c.kindling /\ remnants' = c.remnants /\ clarity' = c.clarity
    /\ rations' = saved.rations
    /\ residents' = saved.guests[1] /\ gatherers' = saved.guests[2]
    /\ listeners' = saved.guests[3]
    /\ built' = saved.built
    /\ memories' = saved.memory[1] /\ story' = saved.memory[2]
    /\ active' = saved.hall[1] /\ step' = saved.hall[2]
    /\ exp_clarity' = saved.hall[3] /\ exp_rations' = saved.hall[4]
    /\ exp_resolve' = saved.hall[5]
    /\ encounter' = saved.hall[6] /\ cargo' = saved.hall[7]

\* Mutant: a start does not count the time since the record.
PrvInitIgnoringAge(d) ==
    /\ ~running
    /\ running' = TRUE
    /\ Restore(IF stored /\ d > 0 THEN Record!CatchUp(saved.now, d) ELSE saved.now)
    /\ deferred' = 0
    /\ age' = IF stored THEN AtMost(age + d, ElapsedCap) ELSE 0
    /\ UNCHANGED <<timing, stored, saved>>

\* prv_init, d seconds after the end: a record is caught up and not written
\* back, and without one a new game begins.
PrvInit(d) ==
    /\ ~running
    /\ running' = TRUE
    /\ Restore(IF stored /\ age + d > 0 THEN Record!CatchUp(saved.now, age + d)
                                        ELSE saved.now)
    /\ deferred' = 0
    /\ age' = IF stored THEN AtMost(age + d, ElapsedCap) ELSE 0
    /\ UNCHANGED <<timing, stored, saved>>
-----------------------------------------------------------------------------
FgNext ==
    \/ \E b \in Builds : ActivateWorkshop(b)
    \/ \E role \in Roles : ActivateGuests(role)
    \/ ActivateDoor
    \/ ActivateExpedition
    \/ ActivateEncounter
    \/ \E a \in TimedActions : StartTimedAction(a)
    \/ TimerUpdate
    \/ TimerComplete
    \/ Tick
    \/ Deinit
    \/ Crash
    \/ \E d \in Absences : PrvInit(d)

\* A registered timer fires: the event loop calls it.  Nothing else has to
\* happen; ticks, buttons and ends may or may not come.
FgSpec == FgInit /\ [][FgNext]_fgVars /\ WF_fgVars(TimerUpdate \/ TimerComplete)
-----------------------------------------------------------------------------
(* Properties *)

FgTypeOK ==
    /\ TypeOK
    /\ running \in BOOLEAN /\ timer \in BOOLEAN /\ stored \in BOOLEAN
    /\ action \in TimedActions \cup {"NONE"}
    /\ progress \in 0 .. Updates
    /\ deferred \in 0 .. DeferMax
    /\ age \in 0 .. ElapsedCap

\* A timed action is checked when it begins and applied two seconds later
\* (main.c:1113-1138, 1151-1184).  In between the clock of the house stands
\* and the buttons are dead, so what was promised can be done: the fire does
\* not fall under the worktable and the kindling is not spent elsewhere.
ActionHonoured == action # "NONE" => Accepts(action)

\* The buttons are dead only as long as a timer is going to revive them, and
\* no timer outlives its action, or the app, to apply it to another house
\* (main.c:1106-1149, 1814-1819).
TimerHeld == ((action # "NONE") <=> timer) /\ (timer => running)

\* So an action comes to its end whatever the timers do, and the watch does
\* not stay deaf (main.c:1106-1149).
ActionEnds == action # "NONE" ~> action = "NONE"

\* The app, with its deferred seconds, its unsaved ticks, its crashes and its
\* starts, is the house of the rules.  A crash loses nothing but the action
\* under way: what the next start makes of an old record is the house that
\* was, as much later (main.c:1768-1827, house_state.c:84-151).
ImplementsHouse == Spec
=============================================================================
