------------------------------- MODULE SceneVm -------------------------------
(* The bytecode machine of scene_vm.c, driven by main.c: prv_begin_scene     *)
(* loads a scene and copies the game into the machine's context, SELECT runs *)
(* to the next page, choice or end, and the end writes the context back.     *)
(*                                                                           *)
(* scene_vm_run is a loop; one pass through it is a step here.  Nothing      *)
(* comes between two passes, but what follows sees where a run stands.       *)
(* Ticks of the house while a page is shown are in Drift.                    *)
EXTENDS SceneContent, FiniteSets

CONSTANTS
    Packs,          \* the scenes.bin a build may hold
    Shipped,        \* the one it does hold
    Strings,        \* the strings.bin beside each of them
    SceneIds,       \* the scenes that are begun
    ScenesMax,      \* bound: how many are begun
    Games,          \* the games they begin in, for each pack
    Limit,          \* SCENE_VM_INSTRUCTION_LIMIT, 64
    CapMax,         \* 999, prv_add_capped
    ResolveMax      \* 20, game_state_is_valid

TEXT == 1
CHOICE == 2
IF_FLAG == 3
IF_RESOURCE == 4
COST == 5
REWARD == 6
SET_FLAG == 7
CLEAR_FLAG == 8
TRUST == 9
GOTO == 10
END == 11

\* Resources of a context: kindling, remnants, rations, clarity, thread, keys,
\* resolve.
Resources == 0 .. 6
REMNANTS == 1
CLARITY == 3
THREAD == 4
KEYS == 5
RESOLVE == 6
Guests == 0 .. 3
OREN == 1
SERA == 2
Flags == 0 .. 63

\* SceneContext
Contexts == [goods : [Resources -> 0 .. CapMax],
             flags : SUBSET Flags,
             trust : [Guests -> 0 .. 3]]

ASSUME SceneVmAssumption ==
    /\ Shipped \subseteq Packs
    /\ \A pack \in Packs : /\ pack.bytes \in Seq(Bytes)
                           /\ pack.size = Len(pack.bytes)
    /\ \A pack \in Packs : LET texts == Strings[pack] IN
          /\ texts.bytes \in Seq(Bytes) /\ texts.size \in Nat
          /\ texts.size >= 6 => Len(texts.bytes) >= 6
    /\ \A pack \in Packs : Games[pack] \subseteq Contexts
    /\ ScenesMax \in Nat
    /\ Limit \in Nat
    /\ CapMax \in Nat
    /\ ResolveMax \in Nat

VARIABLES
    pack,       \* scenes.bin, which never changes
    game,       \* what the game holds of a context
    present,    \* the guests a scene's flags brought
    scene,      \* the scene that is open, 0 when none is
    code, pc,   \* SceneVm.code and pc
    event,      \* SceneVm.pending and s_scene_event
    passes,     \* the passes of the loop since the run began
    context,    \* s_scene_context
    begun       \* the scenes begun so far

machine == <<scene, code, pc, event, passes>>
vmVars == <<pack, game, present, machine, context, begun>>

\* SceneEvent: where the choices lead, and the texts the page or choice shows.
Events == [type : {"NONE", "TEXT", "CHOICE", "END", "ERROR"},
           texts : Seq(Nat), targets : Seq(Nat), result : Bytes]

Nothing == [type |-> "NONE", texts |-> <<>>, targets |-> <<>>, result |-> 0]

TypeOK ==
    /\ pack \in Packs
    /\ game \in [goods : [Resources -> Int], flags : SUBSET Flags, trust : [Guests -> Int]]
    /\ context \in [goods : [Resources -> Int], flags : SUBSET Flags, trust : [Guests -> Int]]
    /\ present \subseteq Guests
    /\ scene \in SceneIds \cup {0}
    /\ code \in Seq(Bytes) /\ pc \in Nat
    /\ event \in Events
    /\ passes \in 0 .. Limit
    /\ begun \in 0 .. ScenesMax

Init ==
    /\ pack \in Packs
    /\ game \in Games[pack]
    /\ present = {}
    /\ scene = 0
    /\ code = <<>> /\ pc = 0
    /\ event = Nothing
    /\ passes = 0
    /\ context = game
    /\ begun = 0
-----------------------------------------------------------------------------
(* Reading an instruction *)

Running == scene # 0 /\ event.type = "NONE"

Byte(i) == U8(code, pc + i)
Word(i) == U16(code, pc + i)

\* int16_t of a word, or of what 16-bit arithmetic makes of a number.
Signed(n) == ((n + 32768) % 65536) - 32768

\* prv_read_u8 and prv_read_u16 find all n bytes.
Fits(n) == pc + n <= Len(code)

\* Mutant: a jump to the end of the code is let through.
InCodeOrEnd(target) == target <= Len(code)

InCode(target) == target < Len(code)

Option(i) == 2 + 4 * (i - 1)
TargetOf(i) == Word(Option(i) + 2)

Options == 1 .. Byte(1)

\* The instruction at pc can be read, names things that exist and can be paid:
\* otherwise prv_error.
LegalChoice == /\ Fits(2)
               /\ Byte(1) \in 1 .. 3
               /\ Fits(2 + 4 * Byte(1))
               /\ \A i \in Options : InCode(TargetOf(i))

\* Mutant: a cost is taken as far as it goes.
LegalCostAnyway == Fits(4) /\ Byte(1) \in Resources

LegalCost == /\ Fits(4)
             /\ Byte(1) \in Resources
             /\ context.goods[Byte(1)] >= Signed(Word(2))

Legal ==
    /\ Fits(1)
    /\ \/ Byte(0) = TEXT /\ Fits(3)
       \/ Byte(0) = CHOICE /\ LegalChoice
       \/ Byte(0) = IF_FLAG /\ Fits(4) /\ Byte(1) \in Flags /\ InCode(Word(2))
       \/ Byte(0) = IF_RESOURCE /\ Fits(6) /\ Byte(1) \in Resources /\ InCode(Word(4))
       \/ Byte(0) = COST /\ LegalCost
       \/ Byte(0) = REWARD /\ Fits(4) /\ Byte(1) \in Resources
       \/ Byte(0) \in {SET_FLAG, CLEAR_FLAG} /\ Fits(2) /\ Byte(1) \in Flags
       \/ Byte(0) = TRUST /\ Fits(3) /\ Byte(1) \in Guests
       \/ Byte(0) = GOTO /\ Fits(3) /\ InCode(Word(1))
       \/ Byte(0) = END /\ Fits(2)

\* Mutant: the passes of a run are not counted.
ExecutesForever(opcode) ==
    /\ Running
    /\ Legal
    /\ Byte(0) = opcode
    /\ passes' = passes
    /\ UNCHANGED <<pack, begun>>

\* A pass of the loop that executes an instruction.
Executes(opcode) ==
    /\ Running
    /\ passes < Limit
    /\ Legal
    /\ Byte(0) = opcode
    /\ passes' = passes + 1
    /\ UNCHANGED <<pack, begun>>
-----------------------------------------------------------------------------
(* The instructions *)

Text ==
    /\ Executes(TEXT)
    /\ event' = [Nothing EXCEPT !.type = "TEXT", !.texts = <<Word(1)>>]
    /\ pc' = pc + 3
    /\ UNCHANGED <<game, present, scene, code, context>>

Choice ==
    /\ Executes(CHOICE)
    /\ event' = [Nothing EXCEPT !.type = "CHOICE",
                                !.texts = [i \in Options |-> Word(Option(i))],
                                !.targets = [i \in Options |-> TargetOf(i)]]
    /\ pc' = pc + 2 + 4 * Byte(1)
    /\ UNCHANGED <<game, present, scene, code, context>>

IfFlag ==
    /\ Executes(IF_FLAG)
    /\ pc' = IF Byte(1) \in context.flags THEN Word(2) ELSE pc + 4
    /\ UNCHANGED <<game, present, scene, code, event, context>>

IfResource ==
    /\ Executes(IF_RESOURCE)
    /\ pc' = IF context.goods[Byte(1)] >= Signed(Word(2)) THEN Word(4) ELSE pc + 6
    /\ UNCHANGED <<game, present, scene, code, event, context>>

\* Mutant: nothing stops a good at zero.
CappedAbove(value, amount) == IF value + amount > CapMax THEN CapMax ELSE value + amount

\* prv_add_capped
Capped(value, amount) ==
    IF value + amount > CapMax THEN CapMax
    ELSE IF value + amount < 0 THEN 0
    ELSE value + amount

Gain(amount) ==
    context' = [context EXCEPT !.goods[Byte(1)] = Capped(@, amount)]

\* The amount is negated in 16 bits, so a cost of 32768 still costs.
Cost ==
    /\ Executes(COST)
    /\ Gain(Signed(-Signed(Word(2))))
    /\ pc' = pc + 4
    /\ UNCHANGED <<game, present, scene, code, event>>

Reward ==
    /\ Executes(REWARD)
    /\ Gain(Signed(Word(2)))
    /\ pc' = pc + 4
    /\ UNCHANGED <<game, present, scene, code, event>>

SetFlag ==
    /\ Executes(SET_FLAG)
    /\ context' = [context EXCEPT !.flags = @ \cup {Byte(1)}]
    /\ pc' = pc + 2
    /\ UNCHANGED <<game, present, scene, code, event>>

ClearFlag ==
    /\ Executes(CLEAR_FLAG)
    /\ context' = [context EXCEPT !.flags = @ \ {Byte(1)}]
    /\ pc' = pc + 2
    /\ UNCHANGED <<game, present, scene, code, event>>

\* int8_t of a byte
SignedByte(n) == IF n < 128 THEN n ELSE n - 256

Trusted(trust, delta) ==
    IF trust + delta < 0 THEN 0 ELSE IF trust + delta > 3 THEN 3 ELSE trust + delta

Trust ==
    /\ Executes(TRUST)
    /\ context' = [context EXCEPT !.trust[Byte(1)] = Trusted(@, SignedByte(Byte(2)))]
    /\ pc' = pc + 3
    /\ UNCHANGED <<game, present, scene, code, event>>

Goto ==
    /\ Executes(GOTO)
    /\ pc' = Word(1)
    /\ UNCHANGED <<game, present, scene, code, event, context>>

\* Mutant: every good is cut to a byte.
AppliedBytes == [r \in Resources |-> context.goods[r] % 256]

\* prv_apply_scene_context: keys and resolve are cut to a byte, and two flags
\* bring a guest.
AppliedGoods == [r \in Resources |-> IF r \in {KEYS, RESOLVE} THEN context.goods[r] % 256
                                                             ELSE context.goods[r]]

Applied == [context EXCEPT !.goods = AppliedGoods]

Brought == (IF 2 \in context.flags THEN {OREN} ELSE {})
             \cup (IF 4 \in context.flags THEN {SERA} ELSE {})

\* The machine is left as it is and zeroed by the next scene_vm_init.
Close == /\ scene' = 0 /\ code' = <<>> /\ pc' = 0

\* END, and prv_scene_advance that sees it.
End ==
    /\ Executes(END)
    /\ event' = [Nothing EXCEPT !.type = "END", !.result = Byte(1)]
    /\ game' = Applied
    /\ present' = present \cup Brought
    /\ Close
    /\ UNCHANGED context

\* prv_error: the context is dropped.
Error ==
    /\ Running
    /\ passes = Limit \/ ~Legal
    /\ event' = [Nothing EXCEPT !.type = "ERROR"]
    /\ Close
    /\ UNCHANGED <<pack, game, present, passes, context, begun>>
-----------------------------------------------------------------------------
(* main.c *)

\* prv_begin_scene.  A pack without the scene opens none.
Begin(id) ==
    /\ scene = 0
    /\ begun < ScenesMax
    /\ LoadScene(pack, id).ok
    /\ scene' = id
    /\ code' = LoadScene(pack, id).code
    /\ pc' = 0
    /\ event' = Nothing
    /\ passes' = 0
    /\ context' = game
    /\ begun' = begun + 1
    /\ UNCHANGED <<pack, game, present>>

\* SELECT on a page.
Continue ==
    /\ scene # 0
    /\ event.type = "TEXT"
    /\ event' = Nothing
    /\ passes' = 0
    /\ UNCHANGED <<pack, game, present, scene, code, pc, context, begun>>

\* SELECT on a choice: scene_vm_choose and the next run.
Choose(i) ==
    /\ scene # 0
    /\ event.type = "CHOICE"
    /\ pc' = event.targets[i]
    /\ event' = Nothing
    /\ passes' = 0
    /\ UNCHANGED <<pack, game, present, scene, code, context, begun>>

\* The app stops: the context was only in memory.
Stop ==
    /\ scene # 0
    /\ ~Running
    /\ Close
    /\ event' = Nothing
    /\ UNCHANGED <<pack, game, present, passes, context, begun>>

Pass ==
    \/ Text \/ Choice \/ IfFlag \/ IfResource \/ Cost \/ Reward
    \/ SetFlag \/ ClearFlag \/ Trust \/ Goto \/ End \/ Error

Next ==
    \/ Pass
    \/ \E id \in SceneIds : Begin(id)
    \/ Continue
    \/ \E i \in DOMAIN event.targets : Choose(i)
    \/ Stop

\* A run is a loop of the program itself: it goes on.  When SELECT is pressed
\* is the player's affair.
Spec == Init /\ [][Next]_vmVars /\ WF_vmVars(Pass)
-----------------------------------------------------------------------------
(* Properties *)

\* Whatever the bytes, the machine stays inside them: pc never leaves the code
\* but by one, and every choice that is shown leads into it, so the player
\* cannot be sent outside (scene_vm.c:76-82, 90-94, 104-109, 162-165).
InsideCode ==
    /\ pc <= Len(code)
    /\ \A i \in DOMAIN event.targets : event.targets[i] < Len(code)

\* Whatever the bytes, a context keeps its goods between 0 and 999 and trust
\* between 0 and 3: a 16-bit amount, negated, at the edge of its range, cannot
\* drive a good out (scene_vm.c:32-41, 113-128, 151-157).
InRange == context \in Contexts /\ game \in Contexts

\* Every run gives the player something to see: a loop in a scene ends in an
\* error after 64 passes and does not hold the watch (scene_vm.c:57-58, 177).
RunEnds == Running ~> ~Running

\* The reader main.c runs finds every scene the tested reader of
\* content_format.c finds, and the same bytes, if they fit its buffer; and
\* every text (content_format.c:9-57, main.c:929-957, 1269-1297).
ReadersAgree ==
    /\ \A id \in SceneIds :
          LET found == FindScene(pack, id)
          IN  found.ok /\ Len(found.code) \in 1 .. CodeMax => LoadScene(pack, id) = found
    /\ \A i \in DOMAIN event.texts : \A size \in {ChoiceSize, PageSize} :
          FindsText(Strings[pack], event.texts[i], size)
             => LoadsText(Strings[pack], event.texts[i], size)

\* What is shown of the build's own scenes can be read: every page and every
\* choice fits its buffer with the final zero, to the byte (main.c:104, 972, 1226).
TextsRead ==
    /\ event.type = "TEXT" => LoadsText(Strings[pack], event.texts[1], PageSize)
    /\ event.type = "CHOICE" =>
          \A i \in DOMAIN event.texts : LoadsText(Strings[pack], event.texts[i], ChoiceSize)

\* What they write back can be saved, and nothing of it was cut off
\* (main.c:1207-1208, game_state.c:32-51).
AppliedWhole ==
    event.type = "END" => game = context /\ game.goods[RESOLVE] <= ResolveMax

\* So the build's scenes fit what main.c holds texts and amounts in.
ShippedFit == pack \in Shipped => TextsRead /\ AppliedWhole

\* The scenes the build ships do what SceneOutcomes says, whichever way the
\* player takes through them: one exchange each, and nothing breaks but a scene
\* whose cost is missing (content/scenes.json, main.c:1238-1266).
Exchange == INSTANCE SceneExchange WITH
    clarity <- game.goods[CLARITY],
    thread <- game.goods[THREAD],
    remnants <- game.goods[REMNANTS],
    outcome <- IF event.type \in {"END", "ERROR"}
               THEN [type |-> event.type, result |-> event.result]
               ELSE [type |-> "NONE", result |-> 0]

ImplementsExchange ==
    /\ pack \in Shipped => Exchange!Init
    /\ [][(pack \in Shipped) => Exchange!Next]_(Exchange!exchangeVars)
=============================================================================
