# A verification development for The House at the End

The House at the End is a game for the Pebble watch: some 3,600 lines of C, a
file of scenes compiled to bytecode, and host tests for the rules. This
directory holds TLA+ models of that program, TLC configurations that check them
on small instances, and TLAPS proofs of the theorems that matter most.

## The system

The program is one process with one thread. Everything happens in callbacks of
the Pebble runtime: button clicks, a one-second tick, two timers, start and end.
No two callbacks overlap. What is hard is elsewhere: the process may stop
between any two writes to storage, a scene or a timed action stretches over
many callbacks while the clock goes on, a campaign is a sequence of hundreds of
legal calls, and most of what the player may do wrong cannot be undone, because
every step is saved.

| Component | Source | State | Operations |
|---|---|---|---|
| Save store | `src/c/save_store.c` | a manifest and two banks of six records in persistent storage | save, load |
| House rules | `src/c/house_state.c` | goods, fire, guests, buildings, memory, the expedition to the Crooked Hall | search, tend, prepare, build, assign, catch up with the clock, and four for the expedition |
| World map | `src/c/world_gen.c` | a seed, the visibility bits | tile and landmark at a cell, reveal |
| Drift expedition | `src/c/expedition.c` | position, supplies, resolve, cargo | start, move, return, fail |
| Campaign | `src/c/game_state.c` | movement, cleared landmarks, thread, keys, flags, facilities, ending | complete a landmark, choose an ending, validity |
| Scene content | `content/scenes.json` | none: twenty scenes | what each path of a scene costs and gives |
| Scene machine | `src/c/scene_vm.c`, `src/c/content_format.c` | program counter, a copy of the goods, the choice shown | load, next event, choose |
| Application | `src/c/main.c` | view, selection, timed action, open scene, the game | button handlers, tick, timers, save after each change, start and end |
| Legacy save | `main.c`, `game_state.c` | a 40-byte record of version 0.1 | migrate |
| Drawing | `main.c` | none | draw the view |
| Scene compiler | `tools/compile_scenes.py` | none (build time) | validate, compile |

How they interact:

- `main.c` owns the only `GameState`. Every handler calls a rule of
  `house_state.c`, `expedition.c` or `game_state.c` on it and then `prv_save`.
- `prv_tick` runs `house_apply_elapsed` each second, except while a timed action
  runs; at start the same call catches up with the time the program was away.
- `expedition_move` asks `world_gen.c` for the tile entered and reveals it. An
  event or an uncleared landmark makes `main.c` open a scene.
- A scene runs on a *copy* of clarity, rations, thread, keys and goods
  (`SceneContext`). At its end `prv_apply_scene_context` writes the copy back,
  then `game_state_complete_landmark` clears the landmark and may open the next
  movement. The open scene is not saved, the move that opened it is.
- `prv_sync_campaign_state`, called by every save, turns the first memory of the
  house into movement FRAGMENTS.
- `save_store_save` and `save_store_load` see the game as six valid segments.

What makes each part correct:

- *Save store.* Whatever write is the last before a stop, storage loads the last
  committed state; a damaged bank is replaced by the one before it; no load
  mixes two saves.
- *House.* No sequence of calls makes a house that the save would refuse; one
  catch-up equals a call every second; an expedition cannot run dry.
- *World.* Every seed has 24 landmarks, each in its band and within reach of the
  supplies that band allows; the bits show what was seen and nothing else.
- *Campaign, expedition, scenes.* Movements are played in order, never get
  stuck, costs the story demands can be paid, and nothing is paid twice.
- *Scenes.* Whatever the bytecode, the machine stays inside it and every run
  ends; the shipped scenes do exactly what the campaign counts on.
- *Application.* A timed action accepted at its start is applied at its end; a
  stop loses at most the action under way; the two kinds of expedition are never
  active at once; a view is shown only when there is something to show and has
  a way out; no edit of the testing menu spoils the game.
- *Legacy save.* A migration that is interrupted is done again with the same
  result.

The hazards, each at the line where it bites and with the properties that cover
it, are listed in `PROJECT.json`.

## The modules

| Module | What it is |
|---|---|
| `SaveStore` | the two-bank save, one action per write, with stops and faults |
| `AtomicSave` | what the save store promises: an atomic register |
| `LegacySave` | `SaveStore` with the 0.1.x record, migration and reset |
| `HouseState` | the house, one action per function that changes it |
| `Foreground` | `HouseState` under the app's clock: timed actions, ticks, saves, end, crash and start |
| `TestingMenu` | `HouseState` with the edits of the testing menu |
| `Rows` | what the rows of `TestingMenu`'s house look like |
| `Navigation` | views, cursor and buttons, and what they do to expeditions and scenes |
| `WorldMap` | the geometry of the world: no state, used by the next two |
| `WorldGen` | seed and visibility bits |
| `Drift` | the campaign: expedition, scenes, movements, with the handlers of `main.c` between them |
| `SceneOutcomes` | what each scene takes and gives: no state, used by `Drift` and the next |
| `SceneExchange` | what a scene promises the campaign: one exchange, all or nothing |
| `SceneContent` | the two packs of scenes and texts and the readers of both: no state |
| `SceneVm` | the bytecode machine and the handlers that drive it; implements `SceneExchange` |
| `SceneCertificate` | for each shipped scene the points its runs come to, and the check of them against its bytes: no state |
| `MC...` | values of the constants for TLC |
| `...Proofs` | the theorems and their proofs |

Who uses whom:

    AtomicSave <= SaveStore <- LegacySave
    HouseState <- Foreground (also <=)        WorldMap <- WorldGen, Drift
    HouseState <- TestingMenu <- Rows         SceneOutcomes <- Drift
    SceneContent <- SceneVm => SceneExchange <- SceneOutcomes
                       ^-- SceneCertificate

`<-` is EXTENDS, `=>` "implements": an INSTANCE whose specification is a
PROPERTY of a run.

### SaveStore

State: `manifest` and `bank[b][s]` are the keys in storage; `save` is the local
state of the call of `save_store_save` in progress (target bank, generation,
next segment); `game` is `s_game`, absent while the program is not running.
`last`, `prev`, `tries`, `given` and `faults` are history for the properties.

Actions: `Open` is `save_store_load` as `prv_load` calls it; `BeginSave`, one
`WriteSegment` per turn of the loop, `WriteManifest` are `save_store_save`;
`RefuseWrite` and `GarbleSegment` are its two error paths. `Stop` may come between any
two writes. `GarbleManifest`, `RotRecord` and `RotManifest` are faults the read-back
cannot see and happen at most `MaxFaults` times.

Abstractions. Magic, schema, lengths and checksum decide one thing, whether bytes are a
record at all; bytes that are not are `Garbage`, and a checksum collision is left
out. A game state is one payload per segment. Any mixture of valid segments
is valid, because `game_state_is_valid` looks at each segment alone. A load
without a result starts a new or migrated game: any state. Generations wrap
modulo `GenMod` (2^32 in the program), and generation 0 is, as in the code, the
one a load reads as *any*.

### LegacySave

`SaveStore`'s variables and `legacy`, the record under `PERSIST_KEY_STATE`. `LoadBanks`,
`Migrate` and `StartAnew` are the three ways through `prv_load` and `prv_init`;
`Migrate` begins the save of `prv_load_legacy`, whose writes are then the steps of
`SaveStore`, with stops between them. `Reset` is `prv_confirm_debug_reset`. The
record's magic, sizes and rules decide whether it is a record at all; what a migration
makes of it is one state, `Migrated`, because it depends on nothing else.

### HouseState

The variables are the fields of `HouseState`; each action is one function, its
guard the function's checks, the guard's operators the `house_can_...`
functions. Time is the argument of `house_apply_elapsed`: `Elapse(d)` is a call `d`
seconds after the last one, so `last_updated` itself is not needed. A call with a
clock that stands or runs backwards returns at once and is no step.

### Foreground

The house under the app: `action`, `progress` and `timer` are the timed action's
three variables, `deferred` and `age` the distance of `time(NULL)` from
`last_updated` in memory and in the record `saved`.

| Action | Code |
|---|---|
| `ActivateWorkshop`, `ActivateGuests`, `ActivateDoor`, `ActivateExpedition`, `ActivateEncounter` | the handlers, with the save each ends in, whether the rule accepted or refused |
| `StartTimedAction` | `prv_start_timed_action`; without a timer nothing begins |
| `TimerUpdate`, `TimerComplete` | `prv_timed_action_tick` before and at the end |
| `Tick` | `prv_tick`: catches up and saves if something shows, or defers |
| `Deinit`, `Crash` | the app's end with and without `prv_deinit` |
| `PrvInit(d)` | the start, `d` seconds later |

A write of the record is one step here; what can happen inside it is `SaveStore`'s
subject. `Crash` leaves the house's variables as they are, as history: the next
`PrvInit` overwrites them from the record, and the refinement demands that this is a step
of the house that was.

### TestingMenu and Rows

`TestingMenu` adds `movement` to the house and one action per kind of edit in
`prv_debug_adjust`, with the clamping of `prv_adjusted_value` and the save's
`prv_sync_campaign_state`; play goes on by `HouseState`'s actions. The named guests of
the campaign appear as the number the menu shows. `Rows` has the `enabled` flags of
`prv_item_text` beside what the handlers behind the rows accept.

### Navigation

State: `s_view`, `s_selected`, `s_debug_item`, `s_debug_return_view`, the event of
the scene that is open, and of house and campaign only what the handlers look at.
One action per handler and view; where a rule decides by goods, fire or map, both
answers are possible, so the model has every sequence of views the program has, and
more. `tested` is history: whether SELECT was ever held, so that what holds for a player
who never finds the testing menu can be stated apart. The sum of what a scene gives and
takes in thread is 0 or 1, bounded by `ThreadMax`: enough to see whose copy wins. The end
of a scene is one step, as in the code: context, then landmark (`MovementsAfter`), then
ending. After an edit of the movement in the middle of its scene the last landmark can
open the last movement and close the campaign at once. Every shipped scene opens with a
page, so `Begins` stops there.

### SceneContent, SceneVm, SceneExchange

`SceneContent` reads the packs as bytes: `FindScene` and `FindsText` are the readers of
`content_format.c`, which the host tests run, `LoadScene` and `LoadsText` those of
`main.c`, which run on the watch. `pack` is the file a run of the model reads, and
`Strings` and `Games` go with it. In `SceneVm` an action is one pass through the loop
of `scene_vm_run`, one action per opcode; `Legal` is the conjunction of all the
checks that lead to `prv_error`. `Begin` is `prv_begin_scene`, `Continue` and
`Choose` are SELECT, `End` applies the context, `Stop` ends the app between two presses.
Amounts are 16 bits wide and signed as in the code. `SceneExchange` sees only clarity,
thread, remnants and the result: `Open`, then `Settle` by one of the ends of
`SceneOutcomes`, `Break`, or `Leave`.

`SceneCertificate` is about the shipped bytes only. Its constant `Certificate` gives for
each scene a set of *points*: program counter, passes so far, what has been taken and given
since the scene began, and the clarity with which a game can come there. Points are
relative to the game, so there are few of them, and the assumption `Certified` says
of them, byte by byte, that the start is one, that every instruction leads from points to points,
that none but a cost can be illegal, that each text can be read, and that an end is
one that `SceneOutcomes` lists. `MCSceneVm` computes the points as those reached from the
start, and TLC evaluates the assumption on the shipped packs; the proofs use it for
every game.

### WorldMap and WorldGen

A seed is represented by what `prv_mix` makes of it: a transform 0..7 per region
and a roll 0..99 per cell. Coordinates are relative to the house, so `Center` is
the only size. `Canonical`, `Transformed`, `Position`, `RegionAt`, `LandmarkAt`,
`TileOfRoll` and `Revealed` are the functions of `world_gen.c`; `MaxDistance`,
`ClarityCapacity` and `RationCapacity` those of `expedition.c`. `LookUp` steps
through the landmarks one by one, so that each is checked with each seed.

### Drift

State: `movement`, `thread` and `ending` of the story, `cleared` of the world,
`expedition`, the house's `remnants`, and `scene`: whether a scene is open, for
which landmark (`s_scene_landmark`), and the remnants its context copied.

| Action | Code |
|---|---|
| `HoldMemory` | `prv_sync_campaign_state` after the first memory |
| `Start(c, r)` | `expedition_start`, the house holding `c` clarity and `r` rations |
| `Gather` | a remnant found by a tick of `house_apply_elapsed`, in any view |
| `AtHome(n)` | what the handlers of the house do to the remnants: building and preparing spend them, the Hall yields them. A start shows the house, so with an expedition under way, too |
| `Move(p)` | `prv_activate_drift_map`: `expedition_move` and the scene it opens. `Lose`, `Struck`, `MeetPorch`, `MeetLandmark` and `Walk` are its outcomes |
| `Return` | `expedition_return` from the Drift's menu |
| `EndScene(e)` | the END branch of `prv_scene_advance`, context, landmark and ending included |
| `BreakScene(e)` | its error branch: a cost could not be paid |
| `Restart` | the program stops during a scene and starts again |

A scene is represented by its possible ends: the operator `SceneEnds` of
`SceneOutcomes` gives, for each landmark, the result each path of
`content/scenes.json` reports and the sum of its costs and gifts, with the branches
on clarity taken into account; that the bytecode does just that is
`ImplementsExchange` of `SceneVm`. Keys,
flags, facilities and trust are left out: they never guard a move, a cost or a
movement. The house's clarity and rations at a start are any of `HomeClarity`
and `HomeRations`, so every history of the house is covered without running
it. The step counter is kept modulo 4, which is all it is used for.

## What the runs check

| Run | Shows | Bounds |
|---|---|---|
| `save` | On the composition of store, migration and reset. `Durable`: without a fault a load finds the last committed state at every moment. `FallsBack`: one fault costs at most the latest save, and never makes the house start anew after a commit. `HalfWrittenBankRefused`. `MigrationResumes`. `AtomicRegister`: up to the first fault storage implements `AtomicSave`. `LegacyIInv`: the invariant the proofs use, the type invariant in it | 2 segments, 2 payloads, generations modulo 3, one fault anywhere |
| `save_torn` | **violation**, see findings | `SaveStore` alone, no fault |
| `save_overwrite` | **violation**, see findings | `SaveStore` alone, one fault |
| `house_day` | `Savable`, `GuestsAccounted`, `HallEndsInReturn` and `ActionHonoured` with every building and the Hall, which play alone completes once (with edits: `testing_menu`) | store of 4, all periods 1 s, cap 3 s, one timer update, one deferred second |
| `house_clock` | `CatchUpIsSecondBySecond`: one catch-up of any of 13 lengths equals as many calls of one second. `TimerHeld`, `ActionEnds`, `ImplementsHouse` and the type invariant | store of 2, periods 4, 2 and 3 s, absences of 5 s (catch-ups up to 17 s), cap 12 s, two updates, one deferred second; only the guest room affordable |
| `world` | `LandmarksDistinct`, `LandmarksInRegion`, `LandmarksAffordable`: each landmark of each seed. `VisibleIsTrodden`: a reveal sets the bits of the cells around the one trodden and no other | none: the program's own 31 x 31 map and all 32,768 combinations of transforms; reveals at six cells of the border, two corners among them |
| `drift_campaign` | `CampaignInOrder`, `NoStall`, `DoorframeAffordable`, `SceneInPlace`, `PaidOnce`; `IInv`, with the type invariant | a 9 x 9 map with walls, ten landmarks, two or three per band |
| `drift_ending` | **violation**, see findings | the same |
| `drift_production` | **violation**, see findings | the same |
| `scenes` | On arbitrary bytes: `InsideCode`, `InRange`, `ReadersAgree`, `RunEnds`. On the shipped packs too: `ShippedFit`, every page and choice fits its buffer and nothing is cut to a byte on the way back; `ImplementsExchange`, each compiled scene, on every path, is the exchange `SceneOutcomes` lists | the shipped `scenes.bin` with the directory of `strings.bin` and 80 games around the amounts the scenes ask for and the caps; 29 x 29 x 4 programs of instructions at and beyond the edges of the format, 9 odd directories; the program's own 64 passes |
| `navigation` | `SelectedInRange`, `HallXorDrift`, `SceneShown`, `ViewFits`, `CopyFresh`, `BackReturns` | none but `ThreadMax = 1`; 7 million states |
| `testing_menu` | `EditsSavable`, `EditsKeepJourney`, `RowsHonest` (every row of the house's views enabled exactly when its rule accepts, and no row hidden that could be used) | store of 4, steps of 4, three named guests, three movements |

Why the bounds are enough to be interesting:

- *Save store.* Two segments make a bank that can be half written; a modulus of
  three makes the generation pass through 0, where a load stops comparing, and
  reuse the number of the bank being overwritten. Two payloads tell two
  saves, and a mixture of them, apart. The proofs have no bounds.
- *House.* The numbers keep the order of the program's: the anchor line is the
  dearest building, the store holds its cost and little more. `house_day` makes
  a second a period of everything, so that its time goes into the order of
  buildings, guests and the Hall; a journey does not look at the clock. In
  `house_clock` building is confined to the guest room, so that the time is
  spent on the clock: 4 seconds to a level against cycles of 2 and 3 give every
  alignment of the three counters, and the cap of 12 is passed by a catch-up of 17.
  A second deferred, two updates and an absence of five seconds make the
  counters fall out of step, and the deferred second adds to what was not saved.
- *World.* Seeds are complete. Reveals are made under one seed, because visibility
  does not look at it, and on the border, where the missing neighbour's bit is the one
  an index would get wrong: corners, edges, and two cells whose bits follow
  each other across the end of a row.
- *Drift.* The map is a corridor with walls of echoes, which destroy whoever
  enters with little resolve, so most of the time goes into the order of
  landmarks. It has a hazard, a porch and a domestic cell, two landmarks in the
  bands where the order within a band matters and those whose scenes give and
  take thread and clarity (the bookseller 5 and 6, the archives 10 and 13,
  the cathedral 17, the doorframe 22, the last choice 23). Landmarks left out (7,
  8, 9, 11, 12, 14, 16, 18, 19, 21) have ends like those of their neighbours; the
  proofs cover all of them.

- *Scenes.* The shipped packs are complete, with the program's own constants. One
  scene per behaviour is enough, since a scene begins with a fresh machine and
  context, and the 80 games stand for what earlier scenes left: below, at and above
  every amount a scene asks for, and beside the caps. In the made-up packs two
  instructions and an ending, each with jumps to the start, into and out of the
  code, make every loop of two instructions, every way to overrun, and all the edges of
  16 bits.
- *Navigation.* Everything is enumerated; only the thread is bounded.
- *Testing menu.* A step as large as the store makes an edit go past both ends. Three
  named guests are one more than the house can lodge, three movements one more
  than the edit distinguishes.
- *Migration.* The migrated and the new game differ in every segment, and a played
  game mixes them, so a torn bank is neither.

The type invariants of the store, the house under its clock and the Drift are checked as
parts of `LegacyIInv`, `FgTypeOK` and `IInv`; that of `SceneVm` is only proved.
`CHECK_DEADLOCK` is on in every run but `scenes`, which stops when `ScenesMax` scenes
have been played.

### Fairness

Two specifications state fairness, both for what the program does by itself.

- `SceneVm`: `WF(Pass)`. The passes of `scene_vm_run` are the turns of one loop in one
  call; nothing comes between them and nothing holds them up. No fairness is assumed
  of SELECT: a scene may stay open for good.
- `Foreground`: `WF(TimerUpdate \/ TimerComplete)`. A registered `AppTimer` is called by
  the event loop. That a new one is registered is *not* assumed: `TimerUpdate` has
  both outcomes, and the handler's error branch is what makes `ActionEnds` true. A
  crash ends the action too. Ticks and buttons are not fair.

The others state none: each action there is a button the player may never press,
or a step of a call that may be cut off.

## What is proved

| Theorem | Statement | Assumptions |
|---|---|---|
| `SaveProofs!InductiveInvariant`, `TypeCorrect` | `Spec => []IInv`, `[]TypeOK` | the constants' |
| `SaveProofs!Durability`, `Refinement` | `Spec => []Durable`, `AtomicRegister` | the constants' |
| `SaveProofs!LegacyInvariant` | `LegacySpec => []LegacyIInv` | the constants' |
| `SaveProofs!LegacyDurability`, `MigrationIsRepeatable`, `LegacyRefinement` | `LegacySpec => []Durable`, `[]MigrationResumes`, `AtomicRegister` | the constants' |
| `SaveProofs!OneFaultFallsBack` | `LegacySpec => []FallsBack` | the constants' |
| `SaveProofs!ActiveBankSpared`, `LegacyActiveSpared` | `Spec => SavesSpareActive`, `LegacySpec =>` the same | the constants', any number of faults |
| `SaveProofs!CleanSaves` | `Spec => CleanSavesPreserve` | the constants' |
| `SaveProofs!NotTorn` | `LegacySpec => []NeverTornOnceCommitted` | the constants' |
| `SaveProofs!HalfWrittenIsRefused` | `LegacySpec => []HalfWrittenBankRefused` | `GenMod > 2`; the program counts 2^32 |
| `HouseStateProofs!HouseInvariant`, `HouseTyped` | `Spec => []HouseInv`, `[]TypeOK` | the constants' |
| `HouseStateProofs!AlwaysSavable`, `PeopleAccounted`, `OneMemory`, `Provisioned` | `[]Savable`, `[]GuestsAccounted`, `[]MemoryOnce`, `[]HallSupplies` | the constants' |
| `HouseStateProofs!NoFailedExpedition` | `Spec => HallEndsInReturn` | the constants' |
| `HouseStateProofs!CatchesUp` | `Spec => []CatchUpIsSecondBySecond` | the constants'; absences of any length |
| `HouseStateProofs!AbsencesAdd` | `CatchUp(CatchUp(c, a), b) = CatchUp(c, a + b)` | `c` within a valid house's ranges |
| `ForegroundProofs!TimedInvariant`, `PromisesKept`, `NeverDeafForGood` | `FgSpec => []TimedInv`, `[]ActionHonoured`, `[]TimerHeld` | the constants' |
| `ForegroundProofs!FgInvariant`, `FgTyped` | `FgSpec => []FgIInv`, `[]FgTypeOK` | the constants' |
| `ForegroundProofs!AppIsHouse` | `FgSpec => ImplementsHouse` | the constants' |
| `ForegroundProofs!AppSavable`, `AppPeople`, `AppCatchesUp`, `AppHallReturns` | `FgSpec => []Savable`, `[]GuestsAccounted`, `[]CatchUpIsSecondBySecond`, `HallEndsInReturn` | the constants' |
| `TestingMenuProofs!TmInvariant`, `EditedIsSavable`, `JourneyKept`, `HonestRows` | `TmSpec => []TmInv`, `[]EditsSavable`, `[]EditsKeepJourney`, `[]RowsHonest` | the constants' |
| `NavigationProofs!NavInvariant` | `NavSpec => []NavIInv` | the constants' |
| `NavigationProofs!CursorInRange`, `OneJourney`, `SceneIsShown`, `ViewsFit`, `CopyIsFresh`, `BackLeadsHome` | the invariants of `navigation` | the constants' |
| `WorldGenProofs!LookupInvariant`, `SeenInvariant` | `Spec => []LookupInv`, `[]SeenInv` | a map of 31 x 31 cells or more |
| `WorldGenProofs!EveryLandmarkIsThere`, `BandsOpenWhole`, `LandmarksInReach`, `BitsAreTheWay` | the properties of `world`, for every seed and every way | the same |
| `WorldGenProofs!EverySeedSuitsDrift` | what `Drift` assumes of its map holds of every seed's | the same |
| `DriftProofs!DriftInvariant`, `TypeCorrect`, `NeverWithoutResolve` | `Spec => []IInv`, `[]TypeOK`, `[]ResolveLeft` | the constants' |
| `DriftProofs!PlayedInOrder`, `NeverStalls`, `DoorframePaid`, `ScenesInPlace` | the invariants of `drift_campaign` | the constants' |
| `DriftProofs!ThreadPaidOnce` | `Spec => PaidOnce` | the constants' |
| `DriftProofs!EndingOrDeadEnd`, `NoWayOut`, `EndingChosenOnce` | `Spec => LastLandmarkDecides`, `DeadEndForGood`, `EndingStands` | the constants' |
| `DriftProofs!LossIsBounded` | `Spec => OnlyFindsLost` | the constants' |
| `DriftProofs!CampaignAlwaysSavable` | `Spec => []CampaignSavable` | expeditions start with 20 resolve at most; the program's with 6 to 10 |
| `SceneVmProofs!Invariant`, `TypeCorrect`, `StaysInsideCode`, `StaysInRange` | `[]IInv`, `[]TypeOK`, `[]InsideCode`, `[]InRange` | any packs, games and limits the constants' assumptions admit |
| `SceneVmProofs!BothReadersAgree` | `Spec => []ReadersAgree` | the same |
| `SceneVmProofs!Course`, `ShippedScenesFit`, `ScenesAreExchanges` | `Spec => []CInv`, `[]ShippedFit`, `ImplementsExchange` | `Certified`, `GamesLeaveRoom` |

The arguments:

*Save store.* `Durable` is not inductive: it says nothing of the bank being
written. `IInv` adds that, without faults, the bank the manifest names holds the
last committed state whole in the manifest's generation (`ActiveBankWhole`), and
that a save in progress is writing the *other* bank and has written a prefix of
the game (`SavePrefix`). The prefix is the whole when `next` reaches
`NSegments`, which is when the manifest may name it; until then no write
touches the active bank. The refinement maps the register to the bank the
manifest names, so that every segment write stutters and `WriteManifest` is
`Commit`. It holds for every `GenMod` from 2 on, since only the other bank's
generation could be mistaken, and a load asks that bank second. `Durable` and the
register's steps are claimed while `faults = 0` only; what a fault may cost is
`FallsBack`.

*One fault.* `OneFaultInv` says where the fault may have struck. Either the manifest is
garbage, and both banks hold their saves until the next save begins (`ManifestLost`);
or the active bank has a segment of garbage, and then the other bank is the save before,
whole, except where the first save since then has gone over it (`OtherOld`); or the
active bank is whole and the other one may be anything. A save in progress is followed segment by segment (`SaveAside`,
`CutShort`), because a stop may leave it anywhere. With the legacy record
there is one place more, and `RecordOrStore` says that the one fault that takes it has
left the store alone. So `FallsBack` counts faults over *both*: a second one may
indeed cost everything. `HalfWrittenBankRefused` needs that the generation being
written differs from the one before the manifest's, which is why `GenMod` must exceed 2;
for 2 it is false, as TLC shows.

*House.* `Valid` bounds the expedition's supplies but cannot say why they
suffice. `HallSupplies` ties them to the step: four clarity less the steps
taken, two rations less half of them, and the presence only at step 2, with the
resolve of its answers. It also says that whoever is on the road has all three
buildings, which with `BuiltInOrder` keeps the guest room's guest from coming
twice. Remainders (`% GatherSeconds` and the like) are bounded by the lemma
`DivMod`; the catch-up preserves all ranges for any absence.

*Time.* `CatchUpIsSecondBySecond` compares a closed form, of quotients and
remainders and caps, with a recursive function that applies one second at a time. The
lemmas `FireNext`, `SeenNext`, `WorkNext` and `GoodsNext` show that the closed
form for `n + 1` seconds is the one for `n` followed by one second, each for its
part of the clock; that capping twice is capping once (`AddCappedTwice`) is where a store
filled on the way could have gone wrong, and that seconds are counted for the
workers only while the fire burns is where decay and work meet. The
induction is a least counterexample: the library's induction theorems take an operator as
parameter, but the well-foundedness of `<` on the naturals does not, so a set of failing
lengths would have a least one, and `CatchUpNext` refutes it. The same way gives
`AbsencesAdd`, which the app needs.

*The findings about the store, bounded.* `save_torn` and `save_overwrite` show what can go
wrong; three theorems say that nothing else can. A save under way goes past the
bank the manifest names (`Aside`), which is inductive whatever the faults, so nothing but rot
ever changes that bank. Until a fault that bank loads, so every save spares a bank that loads:
what is overwritten in `save_overwrite` is the other bank, which loads only where the
active one is lost. And until a fault a load takes that bank, so `save_torn` needs a storage
without a manifest.

*Drift.* `CampaignInOrder` is not inductive, because it does not say where the
expedition can be. `SceneInPlace` says that it stands within the reach of
its movement and that an open scene belongs to the uncleared landmark below it.
The assumption `BandsBeyondReach`, which `EverySeedSuitsDrift` proves of
the program's map under every seed, puts every landmark of a later band
outside. So a scene can only clear a landmark of the current band or an
earlier one, the earlier ones are all cleared, and the bands fill in order.
`NoStall` holds because the step that clears a band's last landmark is also the
one that looks at the band. `DoorframeAffordable` rests on `ThreadHeld`: the
cathedral, 17, is in the band before the doorframe, 22, gives three thread, and
nothing but the doorframe takes any.

The findings about the Drift are bounded in the same way. `EndAtFinalDoor` says that at the final
door a scene chooses an ending exactly when it clears 23 and with it the band. So the step that
completes the band decides, and behind a wrong one is a dead end: the band is cleared, scenes open
for uncleared landmarks only (`SceneInPlace`), so 23 is never asked again. For the
remnants `CopyBelow` says that the copy never holds more than the house, since nobody is at
home while a scene is open; hence a scene's end takes back only what was found meanwhile.

*Scene machine.* `InsideCode` needs that the code itself is a sequence of bytes,
which holds because `LoadScene` gives nothing else (a lemma of its own), and that an
operand is read only where `Fits` holds. For `InRange` the invariant bounds context
and game; a cost or gift of any signed 16-bit amount is caught by `Capped`, and the
byte cut of `AppliedGoods` only lowers a value. `ReadersAgree` compares two searches: the
tested reader looks for the first entry that has the number, the one that runs for the
first that has it *and* can be read. The first is readable whenever the tested reader
accepts it, so they are the same entry, and its bytes are the same part of the file.

*The shipped scenes.* That a compiled scene is the exchange the campaign counts on is a
statement about bytes and about every game. The two are proved apart. The bytes are TLC's: `Certified`
is evaluated on them, all of it constant. The games are the prover's: `CInv` says that a
run of a shipped scene stands at a point of its certificate, that its context is
the game's copy less what the point has taken and plus what it has given (`OnCourse`), that
keys and resolve stay within a byte (`RoomLeft`), that what is shown was read (`TextsRead`), and
that what is applied is all of the context (`AppliedWhole`). Each opcode is one lemma: it
takes the point to a follower. That costs come before gains of the same good is what makes the
sum of the costs decide: a run breaks exactly where no end can be paid. `GamesLeaveRoom`
leaves a key for each scene to come and resolve in its bound. The program's keys do: completing
`FRAGMENTS` raises them to 4, completing `MACHINERY` adds one, five landmarks give
one each, once, and the testing menu sets 0 to 9; resolve is 20 at most in a valid game.

*Foreground.* `ActionHonoured` is inductive together with `TimerHeld`: what
`Accepts` reads is changed by buttons, which need `action = "NONE"`, by a tick, which
only defers while there is one, and by the timer that ends it.

That the app implements the house is a matter of what lies between the record and the
house: `RecordInv` says that only time does. The record's clock, caught up by some
number of seconds, is the house's (`Behind`), and everything else is equal, because each
handler that changes anything else saves before it returns. Hence a crash and a start
are one absence: catching up the record by its age is, by `AbsencesAdd`, catching up
the house by the seconds that nobody counted, whether they fell between the last
save and the crash or between the crash and the start. Beyond `ElapsedCap` the age is
not known, and need not be, since a catch-up counts no more. Without a record
the house is still the new one, in which time changes nothing (`NewHouseStands`). What
is assumed is that a timed action is shorter than the cap (two seconds against hours)
and that `Gaps` contains the lengths that do pass. `ImplementsHouse` itself accepts
any length in `Gaps`: it excludes a lost effect or a house that goes back. That no second
is counted twice or dropped is `RecordInv`, part of the invariant `FgIInv` that is
proved on the way.

*Testing menu.* `HouseInv` of the proofs of `HouseState` is not preserved, because an edit
may lodge guests without a guest room and raise a building without its rooms. The
part that is, `HouseCore`, suffices for `Savable`, supplies and memory. `RowsHonest`
needs from it that a resident is a gatherer or a listener.

*Navigation.* What a view needs has to hold of the view below the testing menu, too,
since SELECT brings it back (`SceneBelow`). That a view fits its state rests, for a
player who never held SELECT, on the order in which house and campaign move on: nobody
is on the road without an anchor line, the Drift opens with the fragments, the fragments
with the first memory (`Unedited`). `CopyFresh` is part of the invariant: between the
pages of a scene only a scene's view is open, and its handlers leave the thread alone.

*World.* A quarter turn and the mirror keep the distances and can be undone, so each of
the eight transforms puts a region's landmarks into the same region, at the same
number of steps, on different cells; landmarks of different regions differ by distance.
What remains is arithmetic on the table of 24. For the bits, `BitsApart` shows that
`Index` is injective on cells within bounds.

### Only model-checked

- `ActionEnds` and `RunEnds`: liveness under fairness, which is out of the prover's
  reach.

Every other property of a passing run has a theorem. The points of `SceneCertificate` are
computed and checked by TLC. ENABLED is used nowhere.

## Findings

- `save_torn`. While no manifest exists, every save is generation 1 in bank 0. A
  first save that failed at its manifest, then one that stopped half-way, leave a
  bank of generation 1 with segments of both, and the load accepts it.
- `save_overwrite`. The target of a save is the bank the manifest does not
  name, even when that is the bank the load has just fallen back to. A stop during
  this save loses both.
- `drift_ending`. Making the Last Choice before the rest of its band is
  cleared clears its landmark without an ending; no scene offers one again (`NoWayOut`), and this
  is the only way to miss it (`EndingOrDeadEnd`).
- `drift_production`. Remnants found by the gatherers while a scene is open are
  overwritten when the scene's copy is written back. `LossIsBounded` says how much.

Each quotes the sentence of the documentation it disagrees with in `PROJECT.json`.

Four more disagreements met while modelling have no run of their own. The models
have the code's behaviour, so the runs above include it.

- *Feeding holds a sinking fire* (`main.c:1126`). The two seconds of a feeding are
  counted after the partial two minutes were reset, so a fire on the point of
  sinking does not; `docs/ARCHITECTURE.md:122-124` says no decay is discarded.
- *A preview at home strands* (`main.c:1258`). A scene previewed at home ends on the
  Drift's map without a route; BACK goes to its menu and back, and "Return home" does
  nothing. Only the testing menu leads out.
- *An edit during a scene is lost* (`main.c:1206`). The scene's copy is written over
  it, though `docs/ARCHITECTURE.md:112` says every edit is persisted.
- *Lowering the movement to the first is undone* by its own save once the first
  memory is held (`main.c:159`).

## Not modelled

- *The notice line and its timer*: it hides nothing a rule depends on.
- *The direction on the map*: `Drift` moves to any neighbour.
- *The number and trust of named guests outside scenes, facilities, inventory,
  `anchored_choices`*: stored and shown, but nothing decides by them. Keys decide
  nothing either; scenes add to them and `SceneVm` keeps them.
- *The hash* `prv_mix`: replaced by all of its possible results.
- *A resource that cannot be read*: a scene that does not load opens none, and
  a text is replaced by a sentence; `ShippedFit` shows that the shipped ones load.
- *Drawing, the scene compiler, the build*: no state the rules depend on. What the
  compiler wrote is checked by `scenes`.
- *A clock that is set back* is a tick that does nothing; one that is set forward is a
  long second, which `Elapse` covers but `Foreground`'s ticks do not.
- *Pebble OS*: an environment that stops the program, refuses or garbles writes, and
  runs out of timers.

## Order of the work

`SaveStore` came first (everything else relies on it), then `HouseState`, `WorldMap`
and `WorldGen`, `Drift`; then `SceneVm` with `SceneExchange`, which discharges what
`Drift` assumes of a scene; then the application in three views of it, each over the
part of the state it is about: `Foreground` (time), `TestingMenu` with `Rows` (edits) and
`Navigation` (views); and `LegacySave` over `SaveStore`.

What could be added: `HouseState` and `Drift` composed behind the front door, so that
`Drift`'s environment actions (`HoldMemory`, `Gather`, `AtHome`, `HomeClarity`) are implemented by the
house. `Navigation` has the composition for views and journeys only.
