----------------------------- MODULE HouseState -----------------------------
(* The house of house_state.c: the fire, the goods, the guests, what is    *)
(* built, and the expedition to the Crooked Hall.  One action per function *)
(* of house_state.h that changes the state; a call whose checks fail       *)
(* changes nothing and is no step.                                         *)
(*                                                                         *)
(* Time is the argument of house_apply_elapsed: Elapse(d) is a call d      *)
(* seconds after last_updated.  A call with a clock that stands or runs    *)
(* backwards returns at once (house_state.c:85) and is no step either.     *)
EXTENDS Integers

CONSTANTS
    ResourceMax,          \* HOUSE_RESOURCE_MAX, 999
    ElapsedCap,           \* HOUSE_ELAPSED_CAP_SECONDS, 21600
    DecaySeconds,         \* HOUSE_HEARTH_DECAY_SECONDS, 120
    GatherSeconds,        \* a gatherer's cycle, 30
    ListenSeconds,        \* a listener's cycle, 45
    KindlingPerRemnant,   \* HOUSE_KINDLING_PER_REMNANT, 3
    Seen, Held, Shared,   \* HOUSE_HEARTH_SEEN 2, _HELD 3, _SHARED 5
    HearthMax,            \* HOUSE_HEARTH_MAX, 5
    StartKindling,        \* the kindling of house_state_init, 3
    BuildKindling,        \* house_build_cost: 8, 6, 10
    BuildRemnants,        \* house_build_cost: 4, 5, 8
    Gaps                  \* the times d between two calls that are explored

Builds == {"GUEST_ROOM", "WORKTABLE", "ANCHOR_LINE"}
Roles == {"GATHERER", "LISTENER"}
StoryFlags == {"FIRST_GUEST", "FIRST_MEMORY"}

ASSUME HouseAssumption ==
    /\ ResourceMax \in Nat \ {0}
    /\ DecaySeconds \in Nat \ {0}
    /\ GatherSeconds \in Nat \ {0}
    /\ ListenSeconds \in Nat \ {0}
    /\ KindlingPerRemnant \in Nat \ {0}
    /\ Seen \in Nat /\ Held \in Nat /\ Shared \in Nat /\ HearthMax \in Nat
    /\ 0 < Seen /\ Seen < Held /\ Held < Shared /\ Shared <= HearthMax
    /\ ElapsedCap \in Nat /\ ElapsedCap >= HearthMax * DecaySeconds
    /\ StartKindling \in 0 .. ResourceMax
    /\ BuildKindling \in [Builds -> Nat]
    /\ BuildRemnants \in [Builds -> Nat]
    /\ Gaps \subseteq Nat \ {0}

VARIABLES
    kindling, remnants, rations, clarity,
    gather_progress, gather_elapsed, listen_elapsed,
    hearth_level, hearth_elapsed,
    residents, gatherers, listeners,
    built,          \* built_mask
    memories,
    story,          \* story_flags
    active,         \* expedition_active
    step,           \* expedition_step
    exp_clarity, exp_rations, exp_resolve,
    encounter,      \* encounter_strength
    cargo           \* cargo_remnants

goods == <<kindling, remnants, rations, clarity>>
labour == <<gather_progress, gather_elapsed, listen_elapsed>>
hearth == <<hearth_level, hearth_elapsed>>
guests == <<residents, gatherers, listeners>>
memory == <<memories, story>>
hall == <<active, step, exp_clarity, exp_rations, exp_resolve, encounter, cargo>>
houseVars == <<goods, labour, hearth, guests, built, memory, hall>>

TypeOK ==
    /\ kindling \in Int /\ remnants \in Int /\ rations \in Int /\ clarity \in Int
    /\ gather_progress \in Nat
    /\ gather_elapsed \in 0 .. GatherSeconds - 1
    /\ listen_elapsed \in 0 .. ListenSeconds - 1
    /\ hearth_level \in Nat /\ hearth_elapsed \in Nat
    /\ residents \in Nat /\ gatherers \in Nat /\ listeners \in Nat
    /\ built \subseteq Builds
    /\ memories \in Nat
    /\ story \subseteq StoryFlags
    /\ active \in BOOLEAN
    /\ step \in Nat /\ encounter \in Nat /\ cargo \in Nat
    /\ exp_clarity \in Nat /\ exp_rations \in Nat /\ exp_resolve \in Nat

\* house_state_is_valid: what save_store_save demands of a house and
\* save_store_load of a bank.
Valid ==
    /\ \A x \in {kindling, remnants, rations, clarity} : x \in 0 .. ResourceMax
    /\ gather_progress < KindlingPerRemnant
    /\ hearth_level <= HearthMax
    /\ hearth_elapsed < DecaySeconds
    /\ hearth_level = 0 => hearth_elapsed = 0
    /\ residents <= 2 /\ memories <= 1
    /\ gatherers + listeners = residents
    /\ exp_clarity <= 4 /\ exp_rations <= 2 /\ exp_resolve <= 4
    /\ encounter <= 2 /\ step <= 4
    /\ ~active => /\ exp_clarity = 0 /\ exp_rations = 0 /\ exp_resolve = 0
                  /\ encounter = 0 /\ step = 0 /\ cargo = 0

\* house_state_init.
Init ==
    /\ kindling = StartKindling /\ remnants = 0 /\ rations = 0 /\ clarity = 0
    /\ gather_progress = 0 /\ gather_elapsed = 0 /\ listen_elapsed = 0
    /\ hearth_level = 0 /\ hearth_elapsed = 0
    /\ residents = 0 /\ gatherers = 0 /\ listeners = 0
    /\ built = {}
    /\ memories = 0 /\ story = {}
    /\ active = FALSE /\ step = 0
    /\ exp_clarity = 0 /\ exp_rations = 0 /\ exp_resolve = 0
    /\ encounter = 0 /\ cargo = 0
-----------------------------------------------------------------------------
(* Goods *)

AtMost(x, max) == IF x > max THEN max ELSE x

\* prv_add_capped
AddCapped(x, amount) == AtMost(x + amount, ResourceMax)

\* prv_add_gather_yields: n found kindling, and a remnant with every third.
\* The kindling that does not fit in the store still counts for remnants.
GatheredRemnants(progress, n) == (progress + n) \div KindlingPerRemnant
GatheredProgress(progress, n) == (progress + n) % KindlingPerRemnant

Search ==
    /\ kindling' = AddCapped(kindling, 1)
    /\ remnants' = AddCapped(remnants, GatheredRemnants(gather_progress, 1))
    /\ gather_progress' = GatheredProgress(gather_progress, 1)
    /\ UNCHANGED <<rations, clarity, gather_elapsed, listen_elapsed, hearth,
                   guests, built, memory, hall>>

\* Mutant: tending is allowed with a single piece of kindling.
CanTendWithOne == hearth_level < HearthMax /\ kindling >= 1

CanTendHearth == hearth_level < HearthMax /\ kindling >= 2

\* Mutant: the guest comes whenever the fire is seen.
TendHearthGuestAgain ==
    /\ CanTendHearth
    /\ kindling' = kindling - 2
    /\ hearth_level' = hearth_level + 1
    /\ hearth_elapsed' = 0
    /\ IF hearth_level' >= Seen
       THEN /\ residents' = 1
            /\ gatherers' = 1
            /\ story' = story \cup {"FIRST_GUEST"}
       ELSE UNCHANGED <<residents, gatherers, story>>
    /\ UNCHANGED <<remnants, rations, clarity, labour, listeners, built,
                   memories, hall>>

\* house_tend_hearth.  The first time the fire is high enough to be seen and
\* nobody lives here, a guest comes and gathers.
TendHearth ==
    /\ CanTendHearth
    /\ kindling' = kindling - 2
    /\ hearth_level' = hearth_level + 1
    /\ hearth_elapsed' = 0
    /\ IF hearth_level' >= Seen /\ residents = 0
       THEN /\ residents' = 1
            /\ gatherers' = 1
            /\ story' = story \cup {"FIRST_GUEST"}
       ELSE UNCHANGED <<residents, gatherers, story>>
    /\ UNCHANGED <<remnants, rations, clarity, labour, listeners, built,
                   memories, hall>>

CanPrepareRation ==
    /\ hearth_level >= Held
    /\ "WORKTABLE" \in built
    /\ kindling >= 1 /\ remnants >= 1

PrepareRation ==
    /\ CanPrepareRation
    /\ kindling' = kindling - 1
    /\ remnants' = remnants - 1
    /\ rations' = AddCapped(rations, 1)
    /\ UNCHANGED <<clarity, labour, hearth, guests, built, memory, hall>>

CanConstruct(b) ==
    /\ hearth_level >= Held
    /\ b \notin built
    /\ b = "ANCHOR_LINE" => /\ hearth_level >= Shared
                            /\ {"GUEST_ROOM", "WORKTABLE"} \subseteq built
    /\ kindling >= BuildKindling[b]
    /\ remnants >= BuildRemnants[b]

\* house_construct.  A listener comes with the guest room.
Construct(b) ==
    /\ CanConstruct(b)
    /\ kindling' = kindling - BuildKindling[b]
    /\ remnants' = remnants - BuildRemnants[b]
    /\ built' = built \cup {b}
    /\ IF b = "GUEST_ROOM" /\ residents < 2
       THEN residents' = residents + 1 /\ listeners' = listeners + 1
       ELSE UNCHANGED <<residents, listeners>>
    /\ UNCHANGED <<rations, clarity, labour, hearth, gatherers, memory, hall>>

\* house_assign: one guest takes up the role from the other one.
Assign(role) ==
    /\ hearth_level >= Shared
    /\ residents > 0
    /\ IF role = "GATHERER"
       THEN listeners > 0 /\ listeners' = listeners - 1 /\ gatherers' = gatherers + 1
       ELSE gatherers > 0 /\ gatherers' = gatherers - 1 /\ listeners' = listeners + 1
    /\ UNCHANGED <<goods, labour, hearth, residents, built, memory, hall>>
-----------------------------------------------------------------------------
(* Time *)

\* The part of the house that time changes.
Now == [level    |-> hearth_level,   burnt    |-> hearth_elapsed,
        gathered |-> gather_elapsed, listened |-> listen_elapsed,
        progress |-> gather_progress,
        kindling |-> kindling, remnants |-> remnants, clarity |-> clarity]

\* The seconds of d during which the fire of c is high enough for the guests.
SeenSeconds(c, d) ==
    IF c.level >= Seen
    THEN AtMost(d, DecaySeconds - c.burnt + (c.level - Seen) * DecaySeconds)
    ELSE 0

\* Work that goes on for `lit` seconds after `begun` seconds of a cycle.
Cycles(workers, begun, lit, period) ==
    IF workers > 0 /\ lit > 0 THEN (begun + lit) \div period ELSE 0
\* Mutant: the seconds of whole cycles stay in the counter.
LeftOverUnreduced(workers, begun, lit, period) ==
    IF workers = 0 THEN 0 ELSE IF lit > 0 THEN begun + lit ELSE begun
LeftOver(workers, begun, lit, period) ==
    IF workers = 0 THEN 0 ELSE IF lit > 0 THEN (begun + lit) % period ELSE begun

\* The fire burns down one level every DecaySeconds.
Decayed(c, d) == (c.burnt + d) \div DecaySeconds

\* Mutant: guests work on for the whole absence, whatever the fire does.
CatchUpIgnoringFire(c, elapsed) ==
    LET d        == AtMost(elapsed, ElapsedCap)
        out      == Decayed(c, d) >= c.level
        lit      == IF c.level >= Seen THEN d ELSE 0
        gathers  == gatherers * Cycles(gatherers, c.gathered, lit, GatherSeconds)
        listens  == listeners * Cycles(listeners, c.listened, lit, ListenSeconds)
    IN  [level    |-> IF out THEN 0 ELSE c.level - Decayed(c, d),
         burnt    |-> IF out THEN 0 ELSE (c.burnt + d) % DecaySeconds,
         gathered |-> LeftOver(gatherers, c.gathered, lit, GatherSeconds),
         listened |-> LeftOver(listeners, c.listened, lit, ListenSeconds),
         progress |-> GatheredProgress(c.progress, gathers),
         kindling |-> AddCapped(c.kindling, gathers),
         remnants |-> AddCapped(c.remnants, GatheredRemnants(c.progress, gathers)),
         clarity  |-> AddCapped(c.clarity, listens)]

\* house_apply_elapsed, `elapsed` seconds after the last call.
CatchUp(c, elapsed) ==
    LET d        == AtMost(elapsed, ElapsedCap)
        out      == Decayed(c, d) >= c.level
        lit      == SeenSeconds(c, d)
        gathers  == gatherers * Cycles(gatherers, c.gathered, lit, GatherSeconds)
        listens  == listeners * Cycles(listeners, c.listened, lit, ListenSeconds)
    IN  [level    |-> IF out THEN 0 ELSE c.level - Decayed(c, d),
         burnt    |-> IF out THEN 0 ELSE (c.burnt + d) % DecaySeconds,
         gathered |-> LeftOver(gatherers, c.gathered, lit, GatherSeconds),
         listened |-> LeftOver(listeners, c.listened, lit, ListenSeconds),
         progress |-> GatheredProgress(c.progress, gathers),
         kindling |-> AddCapped(c.kindling, gathers),
         remnants |-> AddCapped(c.remnants, GatheredRemnants(c.progress, gathers)),
         clarity  |-> AddCapped(c.clarity, listens)]

Elapse(d) ==
    LET c == CatchUp(Now, d)
    IN  /\ hearth_level' = c.level
        /\ hearth_elapsed' = c.burnt
        /\ gather_elapsed' = c.gathered
        /\ listen_elapsed' = c.listened
        /\ gather_progress' = c.progress
        /\ kindling' = c.kindling
        /\ remnants' = c.remnants
        /\ clarity' = c.clarity
        /\ UNCHANGED <<rations, guests, built, memory, hall>>
-----------------------------------------------------------------------------
(* The Crooked Hall *)

CanExpedition ==
    /\ hearth_level >= Shared
    /\ "ANCHOR_LINE" \in built
    /\ ~active
    /\ rations >= 2 /\ clarity >= 4

StartExpedition ==
    /\ CanExpedition
    /\ rations' = rations - 2
    /\ clarity' = clarity - 4
    /\ active' = TRUE
    /\ step' = 0
    /\ exp_clarity' = 4
    /\ exp_rations' = 2
    /\ exp_resolve' = 4
    /\ encounter' = 0
    /\ cargo' = 0
    /\ UNCHANGED <<kindling, remnants, labour, hearth, guests, built, memory>>

\* prv_clear_expedition
ClearExpedition ==
    /\ active' = FALSE
    /\ step' = 0
    /\ exp_clarity' = 0 /\ exp_rations' = 0 /\ exp_resolve' = 0
    /\ encounter' = 0 /\ cargo' = 0

\* Steps 1 to 3: something to carry, or the presence that bars the way.
Arrive(n) ==
    /\ step' = n
    /\ exp_clarity' = exp_clarity - 1
    /\ exp_rations' = exp_rations - (IF n % 2 = 0 THEN 1 ELSE 0)
    /\ encounter' = IF n = 2 THEN 2 ELSE encounter
    /\ cargo' = IF n = 2 THEN cargo ELSE cargo + 1
    /\ UNCHANGED <<remnants, memory, active, exp_resolve>>

\* Step 4: the cargo and one more remnant come home, the first time with a
\* memory.
Complete ==
    /\ remnants' = AddCapped(remnants, cargo + 1)
    /\ memories' = IF "FIRST_MEMORY" \in story THEN memories ELSE memories + 1
    /\ story' = story \cup {"FIRST_MEMORY"}
    /\ ClearExpedition

\* Mutant: the last point of clarity does not carry a step.
AdvanceOnSpareClarity ==
    /\ active
    /\ encounter = 0
    /\ LET n     == step + 1
           fails == exp_clarity <= 1 \/ (n % 2 = 0 /\ exp_rations = 0) \/ n > 4
       IN  IF fails THEN ClearExpedition /\ UNCHANGED <<remnants, memory>>
           ELSE IF n = 4 THEN Complete
           ELSE Arrive(n)
    /\ UNCHANGED <<kindling, rations, clarity, labour, hearth, guests, built>>

\* house_expedition_advance.  Without clarity, or without a ration on an even
\* step, the expedition fails and its cargo is lost.
Advance ==
    /\ active
    /\ encounter = 0
    /\ LET n     == step + 1
           fails == exp_clarity = 0 \/ (n % 2 = 0 /\ exp_rations = 0) \/ n > 4
       IN  IF fails THEN ClearExpedition /\ UNCHANGED <<remnants, memory>>
           ELSE IF n = 4 THEN Complete
           ELSE Arrive(n)
    /\ UNCHANGED <<kindling, rations, clarity, labour, hearth, guests, built>>

\* house_expedition_remember: one answer to the presence.  It yields at the
\* last one; before that an answer takes resolve, and without any the
\* expedition fails.
Remember ==
    /\ active
    /\ encounter > 0
    /\ IF encounter = 1
       THEN /\ encounter' = 0
            /\ cargo' = cargo + 2
            /\ UNCHANGED <<active, step, exp_clarity, exp_rations, exp_resolve>>
       ELSE IF exp_resolve > 1
       THEN /\ encounter' = encounter - 1
            /\ exp_resolve' = exp_resolve - 1
            /\ UNCHANGED <<active, step, exp_clarity, exp_rations, cargo>>
       ELSE ClearExpedition
    /\ UNCHANGED <<goods, labour, hearth, guests, built, memory>>

\* house_expedition_retreat: half the cargo comes home.
Retreat ==
    /\ active
    /\ remnants' = AddCapped(remnants, cargo \div 2)
    /\ ClearExpedition
    /\ UNCHANGED <<kindling, rations, clarity, labour, hearth, guests, built, memory>>
-----------------------------------------------------------------------------
Next ==
    \/ Search
    \/ TendHearth
    \/ PrepareRation
    \/ \E b \in Builds : Construct(b)
    \/ \E r \in Roles : Assign(r)
    \/ \E d \in Gaps : Elapse(d)
    \/ StartExpedition
    \/ Advance
    \/ Remember
    \/ Retreat

Spec == Init /\ [][Next]_houseVars
-----------------------------------------------------------------------------
(* Properties *)

\* save_store_save never has a reason to refuse the house: every sequence of
\* legal calls and absences keeps house_state_is_valid (house_state.c:47-82).
Savable == Valid

\* The people of the house are accounted for (house_state.c:185-189, 277-280):
\* one came with the first fire that was seen, one with the guest room.
GuestsAccounted ==
    residents = (IF "FIRST_GUEST" \in story THEN 1 ELSE 0)
                  + (IF "GUEST_ROOM" \in built THEN 1 ELSE 0)

\* However often the Hall is completed it gives its memory once
\* (house_state.c:366-373).
MemoryOnce == memories = IF "FIRST_MEMORY" \in story THEN 1 ELSE 0

\* Whoever is on the road has gone through the whole chain of the house: the
\* line needs room and table, and the trip was provisioned for exactly the
\* steps left (house_state.c:249-372).
HallSupplies ==
    active => /\ built = Builds
              /\ exp_clarity = 4 - step
              /\ exp_rations = 2 - step \div 2
              /\ encounter > 0 => step = 2
              /\ exp_resolve = IF step < 2 \/ encounter = 2 THEN 4 ELSE 3
              /\ step < 4

\* The anchor line hangs on the other two (house_state.c:255-264).
BuiltInOrder == "ANCHOR_LINE" \in built => built = Builds

\* The inductive invariant of the house.  Its core does not need to know where
\* the guests came from, so it holds under the edits of TestingMenu, too.
HouseCore == TypeOK /\ Valid /\ MemoryOnce /\ BuiltInOrder /\ HallSupplies

HouseInv == HouseCore /\ GuestsAccounted

\* An expedition to the Hall never fails: it ends with a retreat, or with the
\* whole cargo and the memory (house_state.c:339-405).
HallEndsInReturn ==
    [][active /\ ~active' =>
          \/ Retreat
          \/ /\ step = 3
             /\ remnants' = AddCapped(remnants, cargo + 1)
             /\ "FIRST_MEMORY" \in story']_houseVars

\* What one second does to the house, on its own terms: a guest with a role
\* works while the fire is high enough, a whole cycle brings its yield, and
\* the fire loses a level at the end of every DecaySeconds.
SecondLater(c) ==
    LET working == c.level >= Seen
        gather  == IF gatherers = 0 THEN 0 ELSE c.gathered + (IF working THEN 1 ELSE 0)
        listen  == IF listeners = 0 THEN 0 ELSE c.listened + (IF working THEN 1 ELSE 0)
        found   == IF gather = GatherSeconds THEN gatherers ELSE 0
        heard   == IF listen = ListenSeconds THEN listeners ELSE 0
        falls   == c.level > 0 /\ c.burnt + 1 = DecaySeconds
    IN  [level    |-> IF falls THEN c.level - 1 ELSE c.level,
         burnt    |-> IF c.level = 0 \/ falls THEN 0 ELSE c.burnt + 1,
         gathered |-> gather % GatherSeconds,
         listened |-> listen % ListenSeconds,
         progress |-> (c.progress + found) % KindlingPerRemnant,
         kindling |-> AddCapped(c.kindling, found),
         remnants |-> AddCapped(c.remnants, (c.progress + found) \div KindlingPerRemnant),
         clarity  |-> AddCapped(c.clarity, heard)]

\* One call of house_apply_elapsed after a long absence, beyond the cap too,
\* gives exactly what a call every second would have given.  So it does not
\* matter when the program was running, which second it saved in, or that
\* prv_tick leaves seconds without a visible change unsaved.
CatchUpIsSecondBySecond ==
    \A d \in Gaps :
        LET later[n \in 0 .. d] ==
                IF n = 0 THEN Now ELSE SecondLater(later[n - 1])
        IN  CatchUp(Now, d) = later[d]
=============================================================================
