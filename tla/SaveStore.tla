------------------------------ MODULE SaveStore ------------------------------
(* The two-bank save of save_store.c over the watch's persistent storage.  *)
(*                                                                         *)
(* Storage is a manifest key and two banks of NSegments record keys.  A    *)
(* save writes the bank that the manifest does not name, one record at a   *)
(* time with a read-back, then the manifest.  A load follows the manifest  *)
(* and falls back to the other bank.  A record is abstracted to its        *)
(* generation and its payload; magic, schema, sizes and checksums together *)
(* decide one thing, whether the bytes of a key are a record at all, and   *)
(* bytes that are not are Garbage.                                         *)
(*                                                                         *)
(* The environment may stop the program between any two writes, refuse any *)
(* write, garble a record while writing it, and (MaxFaults times) garble   *)
(* what is already stored or the manifest being written.                   *)
EXTENDS Naturals

CONSTANTS
    NSegments,  \* SAVE_STORE_SEGMENT_COUNT, 6 in the program
    Payloads,   \* the contents one segment of the game state can have
    NoState,    \* stands for no game state
    GenMod,     \* generations are counted modulo GenMod, 2^32 in the program
    MaxFaults   \* bound on the faults the read-back cannot see

ASSUME SaveStoreAssumption ==
    /\ NSegments \in Nat \ {0}
    /\ GenMod \in Nat \ {0, 1}
    /\ MaxFaults \in Nat

Segments == 0 .. NSegments - 1
Banks == {0, 1}
Generations == 0 .. GenMod - 1

\* A game state is one payload per segment.  game_state_is_valid looks at
\* each segment alone, so any mixture of valid segments is valid.
States == [Segments -> Payloads]

ASSUME NoStateAssumption == NoState \notin States

Absent  == [kind |-> "absent"]
Garbage == [kind |-> "garbage"]
Record(g, p)   == [kind |-> "record", gen |-> g, payload |-> p]
Manifest(g, b) == [kind |-> "manifest", gen |-> g, active |-> b]

Records   == { Record(g, p) : g \in Generations, p \in Payloads }
Manifests == { Manifest(g, b) : g \in Generations, b \in Banks }

NoSave  == [kind |-> "no save"]
\* A save under way: the target bank, its generation, the next segment.
Save(b, g, n) == [kind |-> "save", bank |-> b, gen |-> g, next |-> n]
Saves == { Save(b, g, n) : b \in Banks, g \in Generations, n \in 0 .. NSegments }

VARIABLES
    manifest,  \* key SAVE_STORE_MANIFEST_KEY
    bank,      \* the record keys, bank[b][s]
    save,      \* the call of save_store_save in progress, or NoSave
    game,      \* s_game of the running program, or NoState
    last,      \* history: the last state whose save returned OK
    prev,      \* history: the one before it
    tries,     \* history: saves begun since the last one that returned OK,
               \* counted up to 2
    given,     \* history: every state a save was called with
    faults     \* how many of the MaxFaults faults have happened

disk == <<manifest, bank>>
history == <<last, prev, tries, given>>
vars == <<manifest, bank, save, game, last, prev, tries, given, faults>>

TypeOK ==
    /\ manifest \in Manifests \cup {Absent, Garbage}
    /\ bank \in [Banks -> [Segments -> Records \cup {Absent, Garbage}]]
    /\ save \in Saves \cup {NoSave}
    /\ game \in States \cup {NoState}
    /\ last \in States \cup {NoState}
    /\ prev \in States \cup {NoState}
    /\ tries \in 0 .. 2
    /\ given \subseteq States
    /\ faults \in 0 .. MaxFaults
-----------------------------------------------------------------------------
(* save_store_load *)

HasManifest == manifest.kind = "manifest"

\* Mutant: records of several generations make up a bank.
MixedBankLoads(b, expected) ==
    /\ \A s \in Segments : bank[b][s].kind = "record"
    /\ expected # 0 => bank[b][0].gen = expected

\* prv_load_bank: every key holds a record, all of one generation, which is
\* the expected one unless that is 0.
BankLoads(b, expected) ==
    /\ \A s \in Segments : bank[b][s].kind = "record"
    /\ \A s \in Segments : bank[b][s].gen = bank[b][0].gen
    /\ expected # 0 => bank[b][0].gen = expected

BankState(b) == [s \in Segments |-> bank[b][s].payload]

\* Mutant: the fallback bank must have the generation of the manifest too.
StrictBankOK(b) == BankLoads(b, IF HasManifest THEN manifest.gen ELSE 0)

\* save_store_load tries the manifest's bank for the manifest's generation,
\* then the other for any; without a manifest bank 0, then bank 1, for any.
FirstTry == IF HasManifest THEN manifest.active ELSE 0

BankOK(b) ==
    IF HasManifest /\ b = manifest.active
    THEN BankLoads(b, manifest.gen)
    ELSE BankLoads(b, 0)

LoadOK == \E b \in Banks : BankOK(b)
Loaded == BankState(IF BankOK(FirstTry) THEN FirstTry ELSE 1 - FirstTry)
-----------------------------------------------------------------------------
Init ==
    /\ manifest = Absent
    /\ bank = [b \in Banks |-> [s \in Segments |-> Absent]]
    /\ save = NoSave
    /\ game = NoState
    /\ last = NoState
    /\ prev = NoState
    /\ tries = 0
    /\ given = {}
    /\ faults = 0

\* prv_load: the program starts with what storage gives it.  When the load is
\* not OK it goes on with a legacy record or a new game, any state here.
Open ==
    /\ game = NoState
    /\ IF LoadOK THEN game' = Loaded ELSE game' \in States
    /\ UNCHANGED <<manifest, bank, save, history, faults>>

\* Any handler of main.c between two saves.
Play ==
    /\ game # NoState
    /\ save = NoSave
    /\ game' \in States
    /\ UNCHANGED <<manifest, bank, save, history, faults>>

\* Mutant: the active bank is the target.
NewSaveOverActive ==
    IF HasManifest THEN Save(manifest.active, (manifest.gen + 1) % GenMod, 0)
                   ELSE Save(0, 1, 0)

\* save_store_save up to its loop: the target is the bank the manifest does
\* not name, the generation the manifest's plus one.
NewSave ==
    IF HasManifest THEN Save(1 - manifest.active, (manifest.gen + 1) % GenMod, 0)
                   ELSE Save(0, 1, 0)

\* A save of the state g begins.
Begins(g) ==
    /\ save' = NewSave
    /\ tries' = IF tries = 2 THEN 2 ELSE tries + 1
    /\ given' = given \cup {g}

BeginSave ==
    /\ game # NoState
    /\ save = NoSave
    /\ Begins(game)
    /\ UNCHANGED <<manifest, bank, game, last, prev, faults>>

\* One turn of the loop: write a record, read it back, go on.
WriteSegment ==
    /\ save # NoSave
    /\ save.next < NSegments
    /\ bank' = [bank EXCEPT ![save.bank][save.next] =
                                    Record(save.gen, game[save.next])]
    /\ save' = Save(save.bank, save.gen, save.next + 1)
    /\ UNCHANGED <<manifest, game, history, faults>>

\* The record reached storage garbled: the read-back differs, IO_ERROR.
GarbleSegment ==
    /\ save # NoSave
    /\ save.next < NSegments
    /\ bank' = [bank EXCEPT ![save.bank][save.next] = Garbage]
    /\ save' = NoSave
    /\ UNCHANGED <<manifest, game, history, faults>>

\* Mutant: the manifest is written while records are still to come.
WriteManifestEarly ==
    /\ save # NoSave
    /\ save.next > 0
    /\ manifest' = Manifest(save.gen, save.bank)
    /\ save' = NoSave
    /\ last' = game
    /\ prev' = last
    /\ tries' = 0
    /\ UNCHANGED <<bank, game, given, faults>>

\* After the last segment, the manifest; the save returns OK.
WriteManifest ==
    /\ save # NoSave
    /\ save.next = NSegments
    /\ manifest' = Manifest(save.gen, save.bank)
    /\ save' = NoSave
    /\ last' = game
    /\ prev' = last
    /\ tries' = 0
    /\ UNCHANGED <<bank, game, given, faults>>

\* The manifest is not read back: garbled, it still returns OK.
GarbleManifest ==
    /\ faults < MaxFaults
    /\ save # NoSave
    /\ save.next = NSegments
    /\ manifest' = Garbage
    /\ save' = NoSave
    /\ last' = game
    /\ prev' = last
    /\ tries' = 0
    /\ faults' = faults + 1
    /\ UNCHANGED <<bank, game, given>>

\* Storage refuses a write, of a record or of the manifest: IO_ERROR, which
\* prv_save logs and forgets.
RefuseWrite ==
    /\ save # NoSave
    /\ save' = NoSave
    /\ UNCHANGED <<manifest, bank, game, history, faults>>

\* The program stops: the player leaves, it is killed, or the watch resets,
\* between any two writes.
Stop ==
    /\ game # NoState
    /\ game' = NoState
    /\ save' = NoSave
    /\ UNCHANGED <<manifest, bank, history, faults>>

\* A stored record, or the manifest, rots.
RotRecord ==
    /\ faults < MaxFaults
    /\ faults' = faults + 1
    /\ \E b \in Banks, s \in Segments :
          /\ bank[b][s].kind = "record"
          /\ bank' = [bank EXCEPT ![b][s] = Garbage]
    /\ UNCHANGED <<manifest, save, game, history>>

RotManifest ==
    /\ faults < MaxFaults
    /\ faults' = faults + 1
    /\ HasManifest
    /\ manifest' = Garbage
    /\ UNCHANGED <<bank, save, game, history>>

SaveStep == BeginSave \/ WriteSegment \/ GarbleSegment \/ WriteManifest
                      \/ GarbleManifest \/ RefuseWrite

Next == Open \/ Play \/ SaveStep \/ Stop \/ RotRecord \/ RotManifest

Spec == Init /\ [][Next]_vars
-----------------------------------------------------------------------------
(* Properties *)

\* Durability (save_store.c:148-241): without a fault at rest, storage loads
\* exactly the last state whose save returned OK, at every moment: between any
\* two writes of a later save, after a refused or garbled record, after a stop.
Durable == last # NoState /\ faults = 0 => LoadOK /\ Loaded = last

\* The state the manifest stands for, the register of AtomicSave.
Stored == IF HasManifest THEN BankState(manifest.active) ELSE NoState

Register == INSTANCE AtomicSave WITH stored <- Stored

\* The two banks and the manifest implement one register that a save replaces
\* all at once, at the write of the manifest, and that every start of the
\* program reads back, as long as no fault at rest has happened.
AtomicRegister ==
    Register!Init /\ [][faults' = 0 => Register!Next]_(Register!vars)

\* A half-written bank is not taken for a save: while the manifest is readable
\* and no more than one save has begun since the last one that committed, what
\* a load returns, the active bank lost or not, is a state some save was
\* called with (the one-generation rule of save_store.c:125-132).
HalfWrittenBankRefused ==
    faults <= 1 /\ HasManifest /\ tries <= 1 /\ LoadOK => Loaded \in given

\* A save preserves a recoverable bank while it writes: when it starts on a
\* storage that loads, the bank it is not going to write is one that loads.
SavePreservesRecoverableBank ==
    [][BeginSave /\ HasManifest /\ LoadOK
         => \E b \in Banks \ {save'.bank} : BankOK(b)]_vars

\* What a load returns is a state that some save was called with, never the
\* segments of two saves put together.
LoadNeverTorn == LoadOK => Loaded \in given

\* The inductive invariant behind Durable and AtomicRegister.  Without faults
\* the bank the manifest names holds the last committed state whole, and a save
\* under way has written a prefix of the game to the other bank.
ActiveBankWhole ==
    faults = 0 =>
        /\ manifest # Garbage
        /\ last # NoState <=> HasManifest
        /\ HasManifest => \A s \in Segments :
              bank[manifest.active][s] = Record(manifest.gen, last[s])

SavePrefix ==
    save # NoSave =>
        /\ game # NoState
        /\ faults = 0 => save.bank = IF HasManifest THEN 1 - manifest.active ELSE 0
        /\ faults = 0 => \A s \in Segments :
              s < save.next => bank[save.bank][s] = Record(save.gen, game[s])

IInv == TypeOK /\ ActiveBankWhole /\ SavePrefix
-----------------------------------------------------------------------------
(* The inductive invariant under one fault, wherever it strikes *)

Whole(b, g, state) == \A s \in Segments : bank[b][s] = Record(g, state[s])
Empty(b) == \A s \in Segments : bank[b][s] = Absent

ActiveWhole == Whole(manifest.active, manifest.gen, last)
ActiveHit == \E s \in Segments : bank[manifest.active][s] = Garbage

Other == 1 - manifest.active
PrevGen == IF manifest.gen = 0 THEN GenMod - 1 ELSE manifest.gen - 1
NextGen == (manifest.gen + 1) % GenMod

\* Segment s of the other bank is as the save before the last one left it.
Old(s) == bank[Other][s] = IF prev = NoState THEN Absent ELSE Record(PrevGen, prev[s])

\* One save of g was cut short at segment k of the other bank.
CutShort(k, g) ==
    \A s \in Segments :
        /\ s < k => bank[Other][s] = Record(NextGen, g[s])
        /\ s = k => Old(s) \/ bank[Other][s] = Garbage
        /\ s > k => Old(s)

\* What a first save after the last committed one may have done to the other bank.
OtherOld ==
    /\ tries = 0 => \A s \in Segments : Old(s)
    /\ tries = 1 /\ save # NoSave => \A s \in Segments : s >= save.next => Old(s)
    /\ tries = 1 /\ save = NoSave => \E k \in 0 .. NSegments, g \in given : CutShort(k, g)

PrefixWhole == \A s \in Segments :
                  s < save.next => bank[save.bank][s] = Record(save.gen, game[s])
PrefixHit == \E s \in Segments : s < save.next /\ bank[save.bank][s] = Garbage

\* A save goes past the active bank.  It has written its prefix, unless the fault
\* struck there; then the active bank, if there is one, is whole.
SaveAside ==
    save # NoSave =>
        /\ tries > 0
        /\ game \in given
        /\ HasManifest => save.bank = Other /\ save.gen = NextGen
        /\ manifest = Absent => save.bank = 0
        /\ \/ PrefixWhole
           \/ /\ faults = 1 /\ PrefixHit
              /\ manifest = Absent \/ (HasManifest /\ ActiveWhole)

\* With a manifest, the active bank is whole or the fault struck it; until the
\* fault, and if it did, the other bank is the fallback.
ActiveOrFallback ==
    HasManifest =>
        /\ last # NoState
        /\ ActiveWhole \/ (faults = 1 /\ ActiveHit)
        /\ faults = 0 \/ ActiveHit => OtherOld

\* Before the first manifest only bank 0 was written to.
NothingCommitted ==
    manifest = Absent => last = NoState /\ prev = NoState /\ Empty(1)

\* The manifest is lost: until the next save both banks are what they were.
ManifestLost ==
    manifest = Garbage =>
        /\ faults > 0
        /\ last # NoState
        /\ tries = 0 => \E b \in Banks :
              /\ \E g \in Generations : Whole(b, g, last)
              /\ IF prev = NoState THEN Empty(1 - b)
                                   ELSE \E g \in Generations : Whole(1 - b, g, prev)

CommittedWereGiven == {last, prev} \subseteq given \cup {NoState}

OneFaultInv ==
    faults <= 1 => /\ SaveAside
                   /\ ActiveOrFallback
                   /\ NothingCommitted
                   /\ ManifestLost
                   /\ CommittedWereGiven
=============================================================================
