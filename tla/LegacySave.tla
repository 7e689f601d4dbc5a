----------------------------- MODULE LegacySave -----------------------------
(* How main.c starts and restarts the game over SaveStore: prv_load with the *)
(* record of version 0.1.x that prv_load_legacy migrates, and the reset of   *)
(* the testing menu.  The watch of this module holds a valid legacy record;  *)
(* without one a start is SaveStore's.                                       *)
EXTENDS SaveStore

CONSTANTS
    Migrated,   \* the game game_state_migrate_legacy makes of the record
    Fresh       \* the game game_state_init makes

ASSUME LegacySaveAssumption == Migrated \in States /\ Fresh \in States

VARIABLE legacy   \* key PERSIST_KEY_STATE: schema, sizes, checksum and the
                  \* rules of the house together make it a record or Garbage

LegacyRecord == [kind |-> "legacy record"]

lvars == <<vars, legacy>>

LegacyInit == Init /\ legacy = LegacyRecord
-----------------------------------------------------------------------------
\* prv_load finds a bank; what is stored is not touched.
LoadBanks ==
    /\ game = NoState
    /\ LoadOK
    /\ game' = Loaded
    /\ UNCHANGED <<manifest, bank, save, history, faults, legacy>>

\* Mutant: the record is removed once it has been read.
MigrateMoves ==
    /\ game = NoState
    /\ ~LoadOK
    /\ legacy = LegacyRecord
    /\ game' = Migrated
    /\ Begins(Migrated)
    /\ legacy' = Absent
    /\ UNCHANGED <<manifest, bank, last, prev, faults>>

\* prv_load_legacy: neither bank loads, the record does.  What is migrated
\* follows from the record alone, the seed of the world too, and is saved at
\* once; the record stays where it is.
Migrate ==
    /\ game = NoState
    /\ ~LoadOK
    /\ legacy = LegacyRecord
    /\ game' = Migrated
    /\ Begins(Migrated)
    /\ UNCHANGED <<manifest, bank, last, prev, faults, legacy>>

\* prv_init without anything to load: a new game, not saved yet.
StartAnew ==
    /\ game = NoState
    /\ ~LoadOK
    /\ legacy # LegacyRecord
    /\ game' = Fresh
    /\ UNCHANGED <<manifest, bank, save, history, faults, legacy>>

\* Mutant: the reset starts the storage over, generation and bank.
ResetFromScratch ==
    /\ game # NoState
    /\ save = NoSave
    /\ game' = Fresh
    /\ save' = Save(0, 1, 0)
    /\ tries' = IF tries = 2 THEN 2 ELSE tries + 1
    /\ given' = given \cup {Fresh}
    /\ UNCHANGED <<manifest, bank, last, prev, faults, legacy>>

\* prv_confirm_debug_reset: a new game is saved over nothing but the bank whose
\* turn it is.  (The generation it sets to 0 is never read.)
Reset ==
    /\ game # NoState
    /\ save = NoSave
    /\ game' = Fresh
    /\ Begins(Fresh)
    /\ UNCHANGED <<manifest, bank, last, prev, faults, legacy>>

RotLegacy ==
    /\ faults < MaxFaults
    /\ faults' = faults + 1
    /\ legacy = LegacyRecord
    /\ legacy' = Garbage
    /\ UNCHANGED <<disk, save, game, history>>

LegacyNext ==
    \/ LoadBanks \/ Migrate \/ StartAnew \/ Reset \/ RotLegacy
    \/ (Play \/ SaveStep \/ Stop \/ RotRecord \/ RotManifest) /\ UNCHANGED legacy

LegacySpec == LegacyInit /\ [][LegacyNext]_lvars
-----------------------------------------------------------------------------
(* Properties *)

\* What a program that starts now begins with.
Start == IF LoadOK THEN Loaded ELSE IF legacy = LegacyRecord THEN Migrated ELSE Fresh

\* An interrupted migration is taken up again as if it had not been begun: as
\* long as nothing but migrated games was to be saved, every start gives the
\* migrated game whole, whichever of its records are written already
\* (main.c:185-226; docs/DESIGN_BIBLE.md:905-907).
MigrationResumes == faults = 0 /\ given \subseteq {Migrated} => Start = Migrated

\* Between two saves one fault anywhere, the legacy record included, costs at
\* most the latest save: of two committed saves one loads, whole, so after a
\* reset and a save the game from before is gone for good; after a single save
\* the legacy record stands behind it, and no fault makes the house start anew
\* (save_store.c:152-178, main.c:228-239, 1605-1613).
FallsBack ==
    faults <= 1 /\ tries = 0 /\ last # NoState =>
        IF prev # NoState THEN LoadOK /\ Loaded \in {last, prev}
                          ELSE Start \in {last, Migrated}

\* The inductive invariant: that of the store; the record outlives everything
\* but a fault; and what is written, segment by segment, is of a game that was
\* to be saved.
LegacyStays == faults = 0 => legacy = LegacyRecord

WrittenWasGiven ==
    /\ save # NoSave => game \in given
    /\ \A b \in Banks, s \in Segments :
          bank[b][s].kind = "record" => \E g \in given : bank[b][s].payload = g[s]

\* The one fault that takes the legacy record leaves the store alone.
RecordOrStore ==
    faults <= 1 /\ legacy # LegacyRecord =>
        /\ manifest # Garbage
        /\ HasManifest => ActiveWhole
        /\ save # NoSave => PrefixWhole

LegacyIInv == IInv /\ LegacyStays /\ WrittenWasGiven /\ OneFaultInv /\ RecordOrStore
=============================================================================
