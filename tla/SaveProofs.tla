------------------------------ MODULE SaveProofs ------------------------------
(* Proofs about SaveStore and LegacySave, for any number of segments, any    *)
(* payloads, any generation modulus and any number of faults: the store on   *)
(* its own, what main.c does with it, and the store under one fault.         *)
EXTENDS LegacySave, TLAPS

\* What the constant sets contain.
LEMMA ConstantSets ==
    /\ 0 \in Segments
    /\ \A s \in Segments : s \in Nat /\ s < NSegments
    /\ \A b \in Banks : 1 - b \in Banks /\ 1 - b # b
    /\ 0 \in Banks
    /\ 1 \in Generations
    /\ \A g \in Generations : (g + 1) % GenMod \in Generations
  BY SaveStoreAssumption DEF Segments, Banks, Generations

\* A manifest key holds a manifest exactly when its kind says so.
LEMMA ManifestFields ==
    \A m \in Manifests \cup {Absent, Garbage} :
        /\ m.kind = "manifest" <=> m \in Manifests
        /\ m.kind = "manifest" => /\ m = Manifest(m.gen, m.active)
                                  /\ m.gen \in Generations
                                  /\ m.active \in Banks
                                  /\ m # Absent
                                  /\ m # Garbage
  BY DEF Manifests, Manifest, Absent, Garbage

\* A record key holds a record exactly when its kind says so.
LEMMA RecordFields ==
    \A r \in Records \cup {Absent, Garbage} :
        r.kind = "record" => /\ r.gen \in Generations
                             /\ r.payload \in Payloads
  BY DEF Records, Record, Absent, Garbage

\* The fields of a save in progress.
LEMMA SaveFields ==
    /\ NoSave \notin Saves
    /\ \A v \in Saves :
          /\ v.bank \in Banks
          /\ v.gen \in Generations
          /\ v.next \in 0 .. NSegments
          /\ v.next < NSegments =>
                /\ v.next \in Segments
                /\ Save(v.bank, v.gen, v.next + 1) \in Saves
    /\ \A b, g, n : /\ Save(b, g, n) # NoSave
                    /\ Save(b, g, n).bank = b
                    /\ Save(b, g, n).gen = g
                    /\ Save(b, g, n).next = n
<1>1. \A b, g, n : /\ Save(b, g, n).kind = "save"
                   /\ Save(b, g, n).bank = b
                   /\ Save(b, g, n).gen = g
                   /\ Save(b, g, n).next = n
  BY DEF Save
<1>2. NoSave.kind = "no save"
  BY DEF NoSave
<1>3. ASSUME NEW v \in Saves
      PROVE  /\ v.kind = "save"
             /\ v.bank \in Banks
             /\ v.gen \in Generations
             /\ v.next \in 0 .. NSegments
  BY <1>1 DEF Saves
<1>4. ASSUME NEW v \in Saves, v.next < NSegments
      PROVE  /\ v.next \in Segments
             /\ Save(v.bank, v.gen, v.next + 1) \in Saves
  <2>1. v.next + 1 \in 0 .. NSegments /\ v.next \in 0 .. NSegments - 1
    BY <1>3, <1>4, SaveStoreAssumption
  <2> QED BY <2>1, <1>3 DEF Saves, Segments
<1>5. NoSave \notin Saves
  BY <1>2, <1>3
<1>6. ASSUME NEW b, NEW g, NEW n PROVE Save(b, g, n) # NoSave
  <2>1. Save(b, g, n).kind = "save"
    BY <1>1
  <2> QED BY <2>1, <1>2
<1> QED BY <1>1, <1>3, <1>4, <1>5, <1>6

\* A bank that loads gives a game state.
LEMMA LoadedIsState ==
    ASSUME TypeOK, LoadOK
    PROVE  Loaded \in States
<1>1. FirstTry \in Banks /\ 1 - FirstTry \in Banks
  BY ConstantSets, ManifestFields DEF TypeOK, FirstTry, HasManifest
<1>2. ASSUME NEW b \in Banks, BankOK(b)
      PROVE  BankState(b) \in States
  <2>1. \A s \in Segments : bank[b][s].kind = "record"
    BY <1>2 DEF BankOK, BankLoads
  <2>2. \A s \in Segments : bank[b][s] \in Records \cup {Absent, Garbage}
    BY DEF TypeOK
  <2>3. \A s \in Segments : bank[b][s].payload \in Payloads
    BY <2>1, <2>2, RecordFields
  <2> QED BY <2>3 DEF BankState, States
<1>3. BankOK(FirstTry) \/ BankOK(1 - FirstTry)
  <2>1. PICK b \in Banks : BankOK(b)
    BY DEF LoadOK
  <2>2. b = FirstTry \/ b = 1 - FirstTry
    BY <1>1 DEF Banks
  <2> QED BY <2>1, <2>2
<1> QED BY <1>1, <1>2, <1>3 DEF Loaded

\* A save that begins, of whatever game, leaves the active bank alone.
LEMMA SaveBegun ==
    ASSUME IInv, game' \in States, game' # NoState, Begins(game'),
           UNCHANGED <<manifest, bank, last, prev, faults>>
    PROVE  IInv'
<1>1. /\ manifest \in Manifests \cup {Absent, Garbage}
      /\ HasManifest => manifest.active \in Banks /\ manifest.gen \in Generations
  BY ManifestFields DEF IInv, TypeOK, HasManifest
<1>2. /\ save' \in Saves
      /\ save'.next = 0
      /\ save'.bank = IF HasManifest THEN 1 - manifest.active ELSE 0
  <2>1. /\ HasManifest => 1 - manifest.active \in Banks
        /\ HasManifest => (manifest.gen + 1) % GenMod \in Generations
        /\ 0 \in 0 .. NSegments
    BY <1>1, ConstantSets, SaveStoreAssumption
  <2>2. \A b \in Banks, g \in Generations : Save(b, g, 0) \in Saves
    BY <2>1 DEF Saves
  <2>3. CASE HasManifest
    BY <2>1, <2>2, <2>3, SaveFields DEF Begins, NewSave
  <2>4. CASE ~HasManifest
    BY <2>2, <2>4, SaveFields, ConstantSets DEF Begins, NewSave
  <2> QED BY <2>3, <2>4
<1>3. TypeOK'
  BY <1>1, <1>2 DEF Begins, IInv, TypeOK
<1>4. ActiveBankWhole'
  BY DEF IInv, ActiveBankWhole, HasManifest
<1>5. SavePrefix'
  <2>1. \A s \in Segments : ~(s < save'.next)
    BY <1>2, ConstantSets
  <2> QED BY <1>2, <2>1 DEF SavePrefix, HasManifest
<1> QED BY <1>3, <1>4, <1>5 DEF IInv

\* Every step keeps the inductive invariant.
LEMMA StepKeeps ==
    ASSUME IInv, [Next]_vars
    PROVE  IInv'
<1>1. CASE Open
  <2>1. TypeOK'
    BY <1>1, LoadedIsState DEF Open, IInv, TypeOK, history
  <2>2. ActiveBankWhole'
    BY <1>1 DEF Open, IInv, ActiveBankWhole, history, HasManifest
  <2>3. SavePrefix'
    BY <1>1 DEF Open, IInv, SavePrefix
  <2> QED BY <2>1, <2>2, <2>3 DEF IInv
<1>2. CASE Play
  <2>1. TypeOK'
    BY <1>2 DEF Play, IInv, TypeOK, history
  <2>2. ActiveBankWhole'
    BY <1>2 DEF Play, IInv, ActiveBankWhole, history, HasManifest
  <2>3. SavePrefix'
    BY <1>2 DEF Play, SavePrefix
  <2> QED BY <2>1, <2>2, <2>3 DEF IInv
<1>3. CASE BeginSave
  <2>1. game' \in States /\ game' # NoState /\ Begins(game')
    BY <1>3 DEF BeginSave, IInv, TypeOK
  <2> QED BY <1>3, <2>1, SaveBegun DEF BeginSave
<1>4. CASE WriteSegment
  <2>0. /\ save \in Saves
        /\ save.bank \in Banks /\ save.gen \in Generations
        /\ save.next \in Segments
        /\ game \in States
        /\ Record(save.gen, game[save.next]) \in Records
    <3>1. save \in Saves /\ game \in States
      BY <1>4 DEF WriteSegment, IInv, TypeOK, SavePrefix
    <3>2. save.bank \in Banks /\ save.gen \in Generations /\ save.next \in Segments
      BY <3>1, <1>4, SaveFields DEF WriteSegment
    <3>3. game[save.next] \in Payloads
      BY <3>1, <3>2 DEF States
    <3> QED BY <3>1, <3>2, <3>3 DEF Records
  <2>1. bank' = [bank EXCEPT ![save.bank][save.next] = Record(save.gen, game[save.next])]
    BY <1>4 DEF WriteSegment
  <2>2. \A b \in Banks, s \in Segments :
           bank'[b][s] = IF b = save.bank /\ s = save.next
                         THEN Record(save.gen, game[save.next])
                         ELSE bank[b][s]
    BY <2>0, <2>1 DEF IInv, TypeOK
  <2>3. TypeOK'
    <3>1. bank' \in [Banks -> [Segments -> Records \cup {Absent, Garbage}]]
      BY <2>0, <2>1 DEF IInv, TypeOK
    <3>2. save' \in Saves
      BY <1>4, <2>0, SaveFields DEF WriteSegment
    <3> QED BY <3>1, <3>2, <1>4 DEF WriteSegment, IInv, TypeOK, history
  <2>4. ActiveBankWhole'
    <3> SUFFICES ASSUME faults = 0
                 PROVE  /\ manifest # Garbage
                        /\ last # NoState <=> HasManifest
                        /\ HasManifest => \A s \in Segments :
                             bank'[manifest.active][s] = Record(manifest.gen, last[s])
      BY <1>4 DEF WriteSegment, ActiveBankWhole, HasManifest, history
    <3>1. HasManifest => manifest.active \in Banks /\ manifest.active # save.bank
      BY <1>4, <2>0, ManifestFields, ConstantSets
      DEF IInv, TypeOK, SavePrefix, WriteSegment, HasManifest
    <3> QED BY <3>1, <2>2 DEF IInv, ActiveBankWhole
  <2>5. SavePrefix'
    <3>1. /\ save'.bank = save.bank /\ save'.gen = save.gen
          /\ save'.next = save.next + 1
          /\ UNCHANGED <<manifest, game, faults>>
      BY <1>4, SaveFields DEF WriteSegment
    <3>2. ASSUME faults = 0, NEW s \in Segments, s < save.next + 1
          PROVE  bank'[save.bank][s] = Record(save.gen, game[s])
      <4>1. s < save.next \/ s = save.next
        BY <3>2, <2>0, ConstantSets
      <4>2. s < save.next => bank[save.bank][s] = Record(save.gen, game[s])
        BY <3>2, <1>4 DEF IInv, SavePrefix, WriteSegment
      <4> QED BY <4>1, <4>2, <2>0, <2>2
    <3>3. /\ game # NoState
          /\ faults = 0 => save.bank = IF HasManifest THEN 1 - manifest.active ELSE 0
      BY <1>4 DEF IInv, SavePrefix, WriteSegment
    <3> QED BY <3>1, <3>2, <3>3 DEF SavePrefix, HasManifest
  <2> QED BY <2>3, <2>4, <2>5 DEF IInv
<1>5. CASE GarbleSegment
  <2>0. /\ save \in Saves
        /\ save.bank \in Banks
        /\ save.next \in Segments
    BY <1>5, SaveFields DEF GarbleSegment, IInv, TypeOK
  <2>1. TypeOK'
    BY <1>5, <2>0 DEF GarbleSegment, IInv, TypeOK, history
  <2>2. ActiveBankWhole'
    <3> SUFFICES ASSUME faults = 0
                 PROVE  /\ manifest # Garbage
                        /\ last # NoState <=> HasManifest
                        /\ HasManifest => \A s \in Segments :
                             bank'[manifest.active][s] = Record(manifest.gen, last[s])
      BY <1>5 DEF GarbleSegment, ActiveBankWhole, HasManifest, history
    <3>1. HasManifest => manifest.active \in Banks /\ manifest.active # save.bank
      BY <1>5, <2>0, ManifestFields, ConstantSets
      DEF IInv, TypeOK, SavePrefix, GarbleSegment, HasManifest
    <3>2. HasManifest => bank'[manifest.active] = bank[manifest.active]
      BY <3>1, <1>5, <2>0 DEF GarbleSegment, IInv, TypeOK
    <3> QED BY <3>2 DEF IInv, ActiveBankWhole
  <2>3. SavePrefix'
    BY <1>5 DEF GarbleSegment, SavePrefix
  <2> QED BY <2>1, <2>2, <2>3 DEF IInv
<1>6. CASE WriteManifest
  <2>0. /\ save \in Saves
        /\ save.bank \in Banks /\ save.gen \in Generations
        /\ manifest' = Manifest(save.gen, save.bank)
        /\ manifest' \in Manifests
        /\ game \in States /\ game # NoState
    BY <1>6, SaveFields DEF WriteManifest, IInv, TypeOK, SavePrefix, Manifests
  <2>1. TypeOK'
    BY <1>6, <2>0 DEF WriteManifest, IInv, TypeOK
  <2>2. ActiveBankWhole'
    <3>1. /\ manifest'.kind = "manifest" /\ manifest' # Garbage
          /\ manifest'.active = save.bank /\ manifest'.gen = save.gen
      BY <2>0 DEF Manifest, Garbage
    <3>2. faults = 0 => \A s \in Segments :
             bank[save.bank][s] = Record(save.gen, game[s])
      BY <1>6, ConstantSets DEF WriteManifest, IInv, SavePrefix
    <3> QED BY <3>1, <3>2, <2>0, <1>6 DEF WriteManifest, ActiveBankWhole, HasManifest
  <2>3. SavePrefix'
    BY <1>6 DEF WriteManifest, SavePrefix
  <2> QED BY <2>1, <2>2, <2>3 DEF IInv
<1>7. CASE GarbleManifest
  <2>0. /\ game \in States
        /\ faults' \in 0 .. MaxFaults /\ faults' # 0
    BY <1>7, SaveStoreAssumption DEF GarbleManifest, IInv, TypeOK, SavePrefix
  <2> QED BY <1>7, <2>0
      DEF GarbleManifest, IInv, TypeOK, ActiveBankWhole, SavePrefix
<1>8. CASE RefuseWrite
  BY <1>8 DEF RefuseWrite, history, IInv, TypeOK, ActiveBankWhole, SavePrefix, HasManifest
<1>9. CASE Stop
  BY <1>9 DEF Stop, history, IInv, TypeOK, ActiveBankWhole, SavePrefix, HasManifest
<1>10. CASE RotRecord
  <2>0. faults' \in 0 .. MaxFaults /\ faults' # 0
    BY <1>10, SaveStoreAssumption DEF RotRecord, IInv, TypeOK
  <2>1. bank' \in [Banks -> [Segments -> Records \cup {Absent, Garbage}]]
    BY <1>10 DEF RotRecord, IInv, TypeOK
  <2> QED BY <1>10, <2>0, <2>1
      DEF RotRecord, history, IInv, TypeOK, ActiveBankWhole, SavePrefix
<1>11. CASE RotManifest
  <2>0. faults' \in 0 .. MaxFaults /\ faults' # 0
    BY <1>11, SaveStoreAssumption DEF RotManifest, IInv, TypeOK
  <2> QED BY <1>11, <2>0
      DEF RotManifest, history, IInv, TypeOK, ActiveBankWhole, SavePrefix
<1>12. CASE UNCHANGED vars
  BY <1>12 DEF vars, IInv, TypeOK, ActiveBankWhole, SavePrefix, HasManifest
<1> QED
  BY <1>1, <1>2, <1>3, <1>4, <1>5, <1>6, <1>7, <1>8, <1>9, <1>10, <1>11,
     <1>12 DEF Next, SaveStep

\* An empty storage is in order.
LEMMA InitIInv == Init => IInv
  BY SaveStoreAssumption, ConstantSets
  DEF Init, IInv, TypeOK, ActiveBankWhole, SavePrefix, HasManifest, Absent, Garbage

\* The inductive invariant: the types, the whole active bank, and the prefix
\* a save under way has written to the other bank.
THEOREM InductiveInvariant == Spec => []IInv
<1>1. Init => IInv
  BY InitIInv
<1>2. IInv /\ [Next]_vars => IInv'
  BY StepKeeps
<1> QED
  BY <1>1, <1>2, PTL DEF Spec

\* Every variable keeps its type through every save, load, failure and fault.
THEOREM TypeCorrect == Spec => []TypeOK
  BY InductiveInvariant, PTL DEF IInv

\* The bank a faultless storage loads is the active one, and it holds the last
\* committed state.
LEMMA LoadsActiveBank ==
    ASSUME IInv, faults = 0, HasManifest
    PROVE  /\ LoadOK
           /\ Loaded = last
           /\ BankState(manifest.active) = last
<1> DEFINE a == manifest.active
<1>1. a \in Banks /\ last \in States /\ manifest.gen \in Generations
  BY ManifestFields DEF IInv, TypeOK, ActiveBankWhole, HasManifest
<1>2. \A s \in Segments : bank[a][s] = Record(manifest.gen, last[s])
  BY DEF IInv, ActiveBankWhole
<1>3. ASSUME NEW s \in Segments
      PROVE  /\ bank[a][s].kind = "record"
             /\ bank[a][s].gen = manifest.gen
             /\ bank[a][s].payload = last[s]
  <2>1. bank[a][s] = [kind |-> "record", gen |-> manifest.gen, payload |-> last[s]]
    BY <1>2 DEF Record
  <2> QED BY <2>1
<1>4. BankOK(a)
  BY <1>3, ConstantSets DEF BankOK, BankLoads
<1>5. BankState(a) = last
  BY <1>1, <1>3 DEF BankState, States
<1> QED BY <1>1, <1>4, <1>5 DEF LoadOK, Loaded, FirstTry

LEMMA StoredIsLast == IInv /\ faults = 0 /\ HasManifest => Stored = last
  BY LoadsActiveBank DEF Stored

\* Durability for any number of segments: without faults at rest, storage loads
\* the last state whose save returned OK at every moment, whatever writes of
\* later saves were done, refused, garbled or cut short.
THEOREM Durability == Spec => []Durable
<1>1. IInv => Durable
  BY LoadsActiveBank DEF IInv, ActiveBankWhole, Durable
<1> QED BY <1>1, InductiveInvariant, PTL

\* A fault that has happened is never forgotten.
LEMMA FaultsStay ==
    ASSUME IInv, [Next]_vars, faults' = 0
    PROVE  faults = 0
<1>1. faults \in Nat
  BY SaveStoreAssumption DEF IInv, TypeOK
<1>2. UNCHANGED faults \/ faults' = faults + 1
  BY DEF Next, SaveStep, Open, Play, BeginSave, WriteSegment, GarbleSegment,
         WriteManifest, GarbleManifest, RefuseWrite, Stop, RotRecord, RotManifest, vars
<1> QED BY <1>1, <1>2

\* Every step of the storage without a fault at rest is a step of the register
\* of AtomicSave or leaves it as it is.
LEMMA StepRefines ==
    ASSUME IInv, IInv', [Next]_vars, faults' = 0
    PROVE  [Register!Next]_(Register!vars)
<1> USE DEF Register!vars
<1>0. /\ faults = 0 /\ faults' = 0
      /\ HasManifest => Stored = last /\ last \in States
      /\ HasManifest' => Stored' = last'
      /\ ~HasManifest => Stored = NoState
      /\ ~HasManifest' => Stored' = NoState
  <2>1. faults = 0 /\ faults' = 0
    BY FaultsStay
  <2>2. HasManifest => Stored = last /\ last \in States
    BY <2>1, LoadsActiveBank DEF Stored, IInv, TypeOK, ActiveBankWhole
  <2>3. HasManifest' => Stored' = last'
    <3>1. (IInv /\ faults = 0 /\ HasManifest => Stored = last)'
      BY StoredIsLast, PTL
    <3> QED BY <2>1, <3>1
  <2> QED BY <2>1, <2>2, <2>3 DEF Stored
<1>1. CASE Open
  <2>1. UNCHANGED Stored
    BY <1>1 DEF Open, Stored, HasManifest, BankState
  <2>2. Stored # NoState => LoadOK /\ Loaded = Stored
    BY <1>0, LoadsActiveBank
  <2> QED BY <1>1, <2>1, <2>2, LoadedIsState DEF Open, Register!Next, Register!Open, IInv
<1>2. CASE Play
  <2>1. UNCHANGED Stored
    BY <1>2 DEF Play, Stored, HasManifest, BankState
  <2> QED BY <1>2, <2>1 DEF Play, Register!Next, Register!Play
<1>3. CASE BeginSave \/ RefuseWrite
  BY <1>3 DEF BeginSave, Begins, RefuseWrite, Stored, HasManifest, BankState
<1>4. CASE WriteSegment \/ GarbleSegment
  <2>1. UNCHANGED <<manifest, game, last>>
    BY <1>4 DEF WriteSegment, GarbleSegment, history
  <2> QED BY <1>0, <2>1 DEF HasManifest
<1>5. CASE WriteManifest
  <2>1. HasManifest'
    BY <1>5 DEF WriteManifest, HasManifest, Manifest
  <2>2. game # NoState /\ game' = game /\ Stored' = game
    BY <1>0, <1>5, <2>1 DEF WriteManifest, IInv, SavePrefix
  <2> QED BY <2>2 DEF Register!Next, Register!Commit
<1>6. CASE Stop
  <2>1. UNCHANGED Stored
    BY <1>6 DEF Stop, Stored, HasManifest, BankState
  <2> QED BY <1>6, <2>1 DEF Stop, Register!Next, Register!Close
<1>7. CASE GarbleManifest \/ RotRecord \/ RotManifest
  BY <1>0, <1>7 DEF GarbleManifest, RotRecord, RotManifest
<1>8. CASE UNCHANGED vars
  BY <1>8 DEF vars, Stored, HasManifest, BankState
<1> QED
  BY <1>1, <1>2, <1>3, <1>4, <1>5, <1>6, <1>7, <1>8 DEF Next, SaveStep

\* An empty storage is the empty register.
LEMMA InitRefines == Init => Register!Init
  BY DEF Init, Register!Init, Stored, HasManifest, Absent

\* Until a fault at rest happens the banks and the manifest implement one
\* register that changes only, and all at once, when a save's manifest is
\* written.
THEOREM Refinement == Spec => AtomicRegister
<1>1. IInv /\ IInv' /\ [Next]_vars => [faults' = 0 => Register!Next]_(Register!vars)
  BY StepRefines
<1> QED
  BY <1>1, InitRefines, InductiveInvariant, PTL DEF Spec, AtomicRegister
-----------------------------------------------------------------------------
(* LegacySave: a step of it, part by part of its invariant *)

\* A step of LegacySave is one of SaveStore, or a save that begins with a new
\* game, or the rot of the legacy record.
LEMMA StoreKept ==
    ASSUME IInv, [LegacyNext]_lvars
    PROVE  IInv'
<1>1. CASE LoadBanks
  BY <1>1, StepKeeps DEF LoadBanks, Next, Open
<1>2. CASE StartAnew
  BY <1>2, LegacySaveAssumption, StepKeeps DEF StartAnew, Next, Open
<1>3. CASE Migrate
  BY <1>3, LegacySaveAssumption, NoStateAssumption, SaveBegun DEF Migrate
<1>4. CASE Reset
  BY <1>4, LegacySaveAssumption, NoStateAssumption, SaveBegun DEF Reset
<1>5. CASE RotLegacy
  <2>1. faults' \in 0 .. MaxFaults /\ faults' # 0
    BY <1>5, SaveStoreAssumption DEF RotLegacy, IInv, TypeOK
  <2>2. TypeOK'
    BY <1>5, <2>1 DEF RotLegacy, disk, history, IInv, TypeOK
  <2>3. ActiveBankWhole'
    BY <2>1 DEF ActiveBankWhole
  <2>4. SavePrefix'
    BY <1>5, <2>1 DEF RotLegacy, disk, IInv, SavePrefix
  <2> QED BY <2>2, <2>3, <2>4 DEF IInv
<1>6. CASE Play \/ SaveStep \/ Stop \/ RotRecord \/ RotManifest
  BY <1>6, StepKeeps DEF Next
<1>7. CASE UNCHANGED lvars
  BY <1>7, StepKeeps DEF lvars
<1> QED BY <1>1, <1>2, <1>3, <1>4, <1>5, <1>6, <1>7 DEF LegacyNext

\* Only a fault takes the legacy record away.
LEMMA RecordStays ==
    ASSUME IInv, LegacyStays, [LegacyNext]_lvars
    PROVE  LegacyStays'
<1>1. faults \in Nat
  BY SaveStoreAssumption DEF IInv, TypeOK
<1>2. CASE UNCHANGED <<legacy, faults>>
  BY <1>2 DEF LegacyStays
<1>3. CASE faults' = faults + 1
  BY <1>1, <1>3 DEF LegacyStays
<1>4. UNCHANGED <<legacy, faults>> \/ faults' = faults + 1
  BY DEF LegacyNext, LoadBanks, Migrate, StartAnew, Reset, RotLegacy, Play, SaveStep,
         BeginSave, WriteSegment, GarbleSegment, WriteManifest, GarbleManifest,
         RefuseWrite, Stop, RotRecord, RotManifest, lvars, vars, history
<1> QED BY <1>2, <1>3, <1>4

\* Every written segment is one of a game that was to be saved.
LEMMA WrittenStays ==
    ASSUME IInv, WrittenWasGiven, [LegacyNext]_lvars
    PROVE  WrittenWasGiven'
<1>1. CASE Migrate \/ Reset \/ BeginSave
  <2>1. UNCHANGED bank /\ given' = given \cup {game'}
    BY <1>1 DEF Migrate, Reset, BeginSave, Begins
  <2> QED BY <2>1 DEF WrittenWasGiven
<1>2. CASE WriteSegment
  <2>1. /\ save \in Saves /\ save.bank \in Banks /\ save.next \in Segments
        /\ game \in given
    BY <1>2, SaveFields DEF WriteSegment, IInv, TypeOK, WrittenWasGiven
  <2>2. \A b \in Banks, s \in Segments :
           bank'[b][s] = IF b = save.bank /\ s = save.next
                         THEN Record(save.gen, game[save.next])
                         ELSE bank[b][s]
    BY <1>2, <2>1 DEF WriteSegment, IInv, TypeOK
  <2>3. Record(save.gen, game[save.next]).payload = game[save.next]
    BY DEF Record
  <2>4. UNCHANGED <<game, given>>
    BY <1>2 DEF WriteSegment, history
  <2> QED BY <2>1, <2>2, <2>3, <2>4 DEF WrittenWasGiven
<1>3. CASE GarbleSegment
  <2>1. save.bank \in Banks /\ save.next \in Segments
    BY <1>3, SaveFields DEF GarbleSegment, IInv, TypeOK
  <2>2. \A b \in Banks, s \in Segments :
           bank'[b][s] = bank[b][s] \/ bank'[b][s] = Garbage
    BY <1>3, <2>1 DEF GarbleSegment, IInv, TypeOK
  <2>3. UNCHANGED given /\ save' = NoSave /\ Garbage.kind # "record"
    BY <1>3 DEF GarbleSegment, history, Garbage
  <2> QED BY <2>2, <2>3 DEF WrittenWasGiven
<1>4. CASE RotRecord
  <2>1. \A b \in Banks, s \in Segments :
           bank'[b][s] = bank[b][s] \/ bank'[b][s] = Garbage
    BY <1>4 DEF RotRecord, IInv, TypeOK
  <2>2. UNCHANGED <<save, game, given>> /\ Garbage.kind # "record"
    BY <1>4 DEF RotRecord, history, Garbage
  <2> QED BY <2>1, <2>2 DEF WrittenWasGiven
<1>5. CASE LoadBanks \/ StartAnew
  <2>1. save = NoSave
    BY <1>5 DEF LoadBanks, StartAnew, IInv, SavePrefix
  <2> QED BY <1>5, <2>1 DEF LoadBanks, StartAnew, history, WrittenWasGiven
<1>6. CASE Play \/ Stop \/ RefuseWrite \/ WriteManifest \/ GarbleManifest
  <2>1. UNCHANGED <<bank, given>> /\ save' = NoSave
    BY <1>6 DEF Play, Stop, RefuseWrite, WriteManifest, GarbleManifest, history
  <2> QED BY <2>1 DEF WrittenWasGiven
<1>7. CASE RotLegacy \/ RotManifest \/ UNCHANGED lvars
  <2>1. UNCHANGED <<bank, given, save, game>>
    BY <1>7 DEF RotLegacy, RotManifest, disk, history, lvars, vars
  <2> QED BY <2>1 DEF WrittenWasGiven
<1> QED BY <1>1, <1>2, <1>3, <1>4, <1>5, <1>6, <1>7 DEF LegacyNext, SaveStep
-----------------------------------------------------------------------------
(* One fault, wherever it strikes *)

\* Counting generations up and down.
LEMMA Counting ==
    ASSUME NEW g \in Generations
    PROVE  /\ (g + 1) % GenMod = IF g + 1 = GenMod THEN 0 ELSE g + 1
           /\ (IF g = 0 THEN GenMod - 1 ELSE g - 1) \in Generations
<1>1. GenMod \in Nat /\ GenMod > 1 /\ g \in Nat /\ g < GenMod
  BY SaveStoreAssumption DEF Generations
<1>2. CASE g + 1 = GenMod
  BY <1>1, <1>2 DEF Generations
<1>3. CASE g + 1 # GenMod
  BY <1>1, <1>3 DEF Generations
<1> QED BY <1>2, <1>3

\* The three kinds of key contents, told apart.
LEMMA Kinds ==
    /\ Absent # Garbage
    /\ \A g, p : Record(g, p) # Absent /\ Record(g, p) # Garbage
    /\ \A g, b : Manifest(g, b) # Absent /\ Manifest(g, b) # Garbage
    /\ \A g, b : Manifest(g, b).gen = g /\ Manifest(g, b).active = b
    /\ \A g, b : Manifest(g, b).kind = "manifest"
    /\ \A g, p : Record(g, p).gen = g /\ Record(g, p).payload = p
    /\ \A g, p : Record(g, p).kind = "record"
    /\ Absent.kind # "record" /\ Garbage.kind # "record"
  BY DEF Absent, Garbage, Record, Manifest

\* What the invariant says of the manifest.
LEMMA ManifestCases ==
    ASSUME TypeOK
    PROVE  /\ manifest = Absent \/ manifest = Garbage \/ HasManifest
           /\ ~HasManifest <=> manifest = Absent \/ manifest = Garbage
           /\ HasManifest => /\ manifest.active \in Banks /\ Other \in Banks
                             /\ manifest.gen \in Generations
                             /\ Other # manifest.active
<1>1. manifest \in Manifests \cup {Absent, Garbage}
  BY DEF TypeOK
<1>2. Absent.kind # "manifest" /\ Garbage.kind # "manifest"
  BY DEF Absent, Garbage
<1> QED BY <1>1, <1>2, ManifestFields, ConstantSets DEF HasManifest, Other

\* The parts that look at the storage alone.
storeVars == <<manifest, bank, last, prev, faults>>

LEMMA SameStore ==
    ASSUME UNCHANGED storeVars
    PROVE  /\ HasManifest' = HasManifest
           /\ Other' = Other /\ NextGen' = NextGen
           /\ ActiveWhole' = ActiveWhole
           /\ ActiveHit' = ActiveHit
           /\ \A s \in Segments : Old(s)' = Old(s)
           /\ NothingCommitted' = NothingCommitted
<1>1. HasManifest' = HasManifest /\ Other' = Other /\ NextGen' = NextGen
  BY DEF storeVars, HasManifest, Other, NextGen
<1>2. ActiveWhole' = ActiveWhole /\ ActiveHit' = ActiveHit
  BY DEF storeVars, ActiveWhole, ActiveHit, Whole
<1>3. \A s \in Segments : Old(s)' = Old(s)
  BY <1>1 DEF storeVars, Old, PrevGen
<1>4. NothingCommitted' = NothingCommitted
  BY DEF storeVars, NothingCommitted, Empty
<1> QED BY <1>1, <1>2, <1>3, <1>4

\* A fallback that counts stands beside a prefix that is whole.
LEMMA PrefixNotHit ==
    ASSUME SaveAside, save # NoSave, HasManifest, faults = 0 \/ ActiveHit
    PROVE  PrefixWhole
<1>1. ~(ActiveHit /\ ActiveWhole)
  BY Kinds DEF ActiveHit, ActiveWhole, Whole
<1>2. manifest # Absent
  BY DEF HasManifest, Absent
<1> QED BY <1>1, <1>2 DEF SaveAside

\* While no save is under way, or one has just ended, and the storage stays as it is.
LEMMA IdleKeeps ==
    ASSUME IInv, OneFaultInv, UNCHANGED storeVars, UNCHANGED <<tries, given>>,
           save' = NoSave
    PROVE  OneFaultInv'
<1> SUFFICES ASSUME faults' <= 1
             PROVE  /\ SaveAside' /\ ActiveOrFallback' /\ NothingCommitted'
                    /\ ManifestLost' /\ CommittedWereGiven'
  BY DEF OneFaultInv
<1>1. faults <= 1 /\ SaveAside /\ ActiveOrFallback /\ NothingCommitted
      /\ ManifestLost /\ CommittedWereGiven
  BY DEF OneFaultInv, storeVars
<1>2. SaveAside'
  BY DEF SaveAside
<1>3. NothingCommitted' /\ CommittedWereGiven'
  BY <1>1, SameStore DEF CommittedWereGiven, storeVars
<1>4. ManifestLost'
  BY <1>1 DEF ManifestLost, storeVars, Whole, Empty
<1>5. ASSUME HasManifest, OtherOld, faults = 0 \/ ActiveHit PROVE OtherOld'
  <2>1. tries = 0 => \A s \in Segments : Old(s)'
    BY <1>5, SameStore DEF OtherOld
  <2>2. ASSUME tries = 1
        PROVE  \E k \in 0 .. NSegments, g \in given : CutShort(k, g)
    <3>1. CASE save = NoSave
      BY <1>5, <2>2, <3>1 DEF OtherOld
    <3>2. CASE save # NoSave
      <4>1. save \in Saves /\ save.next \in 0 .. NSegments /\ game \in given
        BY <1>1, <3>2, SaveFields DEF IInv, TypeOK, SaveAside
      <4>2. save.bank = Other /\ save.gen = NextGen
        BY <1>1, <1>5, <3>2 DEF SaveAside
      <4>3. \A s \in Segments : s >= save.next => Old(s)
        BY <1>5, <2>2, <3>2 DEF OtherOld
      <4>4. \A s \in Segments : s < save.next => bank[Other][s] = Record(NextGen, game[s])
        BY <1>1, <1>5, <3>2, <4>2, PrefixNotHit DEF PrefixWhole
      <4>5. CutShort(save.next, game)
        BY <4>1, <4>3, <4>4, ConstantSets DEF CutShort
      <4> QED BY <4>1, <4>5
    <3> QED BY <3>1, <3>2
  <2>3. ASSUME NEW k, NEW g, CutShort(k, g) PROVE CutShort(k, g)'
    BY <2>3, SameStore DEF CutShort, storeVars
  <2>4. tries' = 1 => \E k \in 0 .. NSegments, g \in given' : CutShort(k, g)'
    BY <2>2, <2>3
  <2> QED BY <2>1, <2>4 DEF OtherOld
<1>6. ActiveOrFallback'
  BY <1>1, <1>5, SameStore DEF ActiveOrFallback, storeVars
<1> QED BY <1>2, <1>3, <1>4, <1>6

\* A save begins, of whatever game: it goes to the other bank.
LEMMA BeginKeeps ==
    ASSUME IInv, OneFaultInv, IInv', Begins(game'), UNCHANGED storeVars, save = NoSave
    PROVE  OneFaultInv'
<1> SUFFICES ASSUME faults' <= 1
             PROVE  /\ SaveAside' /\ ActiveOrFallback' /\ NothingCommitted'
                    /\ ManifestLost' /\ CommittedWereGiven'
  BY DEF OneFaultInv
<1>1. /\ faults <= 1 /\ ActiveOrFallback /\ NothingCommitted
      /\ ManifestLost /\ CommittedWereGiven
  BY DEF OneFaultInv, storeVars
<1>2. /\ save' # NoSave /\ save'.next = 0
      /\ HasManifest => save'.bank = Other /\ save'.gen = NextGen
      /\ ~HasManifest => save'.bank = 0
      /\ tries' > 0 /\ tries \in 0 .. 2
      /\ tries' = 1 => tries = 0
      /\ game' \in given' /\ given \subseteq given'
  BY SaveFields DEF Begins, NewSave, Other, NextGen, IInv, TypeOK
<1>3. SaveAside'
  <2>1. PrefixWhole'
    BY <1>2, ConstantSets DEF PrefixWhole
  <2> QED BY <1>2, <2>1, SameStore, ManifestCases DEF SaveAside, storeVars, IInv
<1>4. NothingCommitted' /\ CommittedWereGiven'
  BY <1>1, <1>2, SameStore DEF CommittedWereGiven, storeVars
<1>5. ManifestLost'
  BY <1>1, <1>2 DEF ManifestLost, storeVars
<1>6. ASSUME HasManifest, OtherOld PROVE OtherOld'
  BY <1>2, <1>6, SameStore DEF OtherOld
<1>7. ActiveOrFallback'
  BY <1>1, <1>6, SameStore DEF ActiveOrFallback, storeVars
<1> QED BY <1>3, <1>4, <1>5, <1>7

\* A record is written: one more segment of the prefix.
LEMMA WriteKeeps ==
    ASSUME IInv, OneFaultInv, WriteSegment
    PROVE  OneFaultInv'
<1> SUFFICES ASSUME faults' <= 1
             PROVE  /\ SaveAside' /\ ActiveOrFallback' /\ NothingCommitted'
                    /\ ManifestLost' /\ CommittedWereGiven'
  BY DEF OneFaultInv
<1>1. /\ faults <= 1 /\ SaveAside /\ ActiveOrFallback /\ NothingCommitted
      /\ ManifestLost /\ CommittedWereGiven
      /\ UNCHANGED <<manifest, game, last, prev, tries, given, faults>>
      /\ save # NoSave /\ save.next < NSegments
  BY DEF OneFaultInv, WriteSegment, history
<1>2. /\ save.bank \in Banks /\ save.next \in Segments /\ save.next \in Nat
      /\ save' # NoSave /\ save'.bank = save.bank /\ save'.gen = save.gen
      /\ save'.next = save.next + 1
  BY <1>1, SaveFields DEF WriteSegment, IInv, TypeOK
<1>3. \A b \in Banks, s \in Segments :
         bank'[b][s] = IF b = save.bank /\ s = save.next
                       THEN Record(save.gen, game[save.next]) ELSE bank[b][s]
  BY <1>2 DEF WriteSegment, IInv, TypeOK
<1>4. /\ HasManifest' = HasManifest /\ Other' = Other /\ NextGen' = NextGen
      /\ PrevGen' = PrevGen
  BY <1>1 DEF HasManifest, Other, NextGen, PrevGen
<1>5. HasManifest => /\ manifest.active \in Banks /\ Other \in Banks
                     /\ manifest.active # save.bank /\ Other = save.bank
                     /\ manifest # Absent
  BY <1>1, ManifestCases DEF SaveAside, IInv, HasManifest, Absent
<1>6. HasManifest => /\ ActiveWhole' = ActiveWhole /\ ActiveHit' = ActiveHit
  BY <1>1, <1>3, <1>5 DEF ActiveWhole, ActiveHit, Whole
<1>7. SaveAside'
  <2>1. PrefixWhole => PrefixWhole'
    BY <1>1, <1>2, <1>3, ConstantSets DEF PrefixWhole
  <2>2. PrefixHit => PrefixHit'
    BY <1>2, <1>3, ConstantSets DEF PrefixHit
  <2> QED BY <1>1, <1>2, <1>4, <1>6, <2>1, <2>2 DEF SaveAside
<1>8. CommittedWereGiven' /\ ManifestLost'
  BY <1>1 DEF CommittedWereGiven, ManifestLost, SaveAside
<1>9. NothingCommitted'
  <2>1. manifest = Absent => save.bank = 0
    BY <1>1 DEF SaveAside
  <2> QED BY <1>1, <1>3, <2>1 DEF NothingCommitted, Empty, Banks
<1>10. ASSUME HasManifest, OtherOld PROVE OtherOld'
  <2>1. \A s \in Segments : s > save.next => (Old(s)' <=> Old(s))
    BY <1>1, <1>3, <1>4, <1>5, <1>10, ConstantSets DEF Old
  <2> QED BY <1>1, <1>2, <1>10, <2>1, ConstantSets DEF OtherOld, SaveAside
<1>11. ActiveOrFallback'
  BY <1>1, <1>4, <1>6, <1>10 DEF ActiveOrFallback
<1> QED BY <1>7, <1>8, <1>9, <1>11

\* A record reaches the storage garbled: the save is cut short there.
LEMMA GarbleKeeps ==
    ASSUME IInv, OneFaultInv, GarbleSegment
    PROVE  OneFaultInv'
<1> SUFFICES ASSUME faults' <= 1
             PROVE  /\ SaveAside' /\ ActiveOrFallback' /\ NothingCommitted'
                    /\ ManifestLost' /\ CommittedWereGiven'
  BY DEF OneFaultInv
<1>1. /\ faults <= 1 /\ SaveAside /\ ActiveOrFallback /\ NothingCommitted
      /\ ManifestLost /\ CommittedWereGiven
      /\ UNCHANGED <<manifest, game, last, prev, tries, given, faults>>
      /\ save # NoSave /\ save.next < NSegments /\ save' = NoSave
  BY DEF OneFaultInv, GarbleSegment, history
<1>2. save.bank \in Banks /\ save.next \in Segments /\ save.next \in 0 .. NSegments
  BY <1>1, SaveFields DEF IInv, TypeOK
<1>3. \A b \in Banks, s \in Segments :
         bank'[b][s] = IF b = save.bank /\ s = save.next THEN Garbage ELSE bank[b][s]
  BY <1>2 DEF GarbleSegment, IInv, TypeOK
<1>4. /\ HasManifest' = HasManifest /\ Other' = Other /\ NextGen' = NextGen
      /\ PrevGen' = PrevGen
  BY <1>1 DEF HasManifest, Other, NextGen, PrevGen
<1>5. HasManifest => /\ manifest.active \in Banks /\ Other \in Banks
                     /\ manifest.active # save.bank /\ Other = save.bank
                     /\ save.gen = NextGen
  BY <1>1, ManifestCases DEF SaveAside, IInv
<1>6. HasManifest => /\ ActiveWhole' = ActiveWhole /\ ActiveHit' = ActiveHit
  BY <1>1, <1>3, <1>5 DEF ActiveWhole, ActiveHit, Whole
<1>7. SaveAside'
  BY <1>1 DEF SaveAside
<1>8. CommittedWereGiven' /\ ManifestLost'
  BY <1>1 DEF CommittedWereGiven, ManifestLost, SaveAside
<1>9. NothingCommitted'
  <2>1. manifest = Absent => save.bank = 0
    BY <1>1 DEF SaveAside
  <2> QED BY <1>1, <1>3, <2>1 DEF NothingCommitted, Empty, Banks
<1>10. ASSUME HasManifest, OtherOld, faults = 0 \/ ActiveHit PROVE OtherOld'
  <2>1. tries' > 0
    BY <1>1 DEF SaveAside
  <2>2. ASSUME tries = 1, NEW k, k = save.next, NEW g, g = game
        PROVE  CutShort(k, g)'
    <3>1. \A s \in Segments : s > k => Old(s)'
      BY <1>1, <1>2, <1>3, <1>4, <1>5, <1>10, <2>2, ConstantSets DEF Old, OtherOld
    <3>2. \A s \in Segments : s < k => bank'[Other][s] = Record(NextGen, g[s])
      BY <1>1, <1>2, <1>3, <1>5, <1>10, <2>2, PrefixNotHit, ConstantSets DEF PrefixWhole
    <3>3. bank'[Other][k] = Garbage
      BY <1>2, <1>3, <1>5, <1>10, <2>2
    <3> QED BY <1>4, <3>1, <3>2, <3>3 DEF CutShort
  <2>3. tries = 1 => \E k \in 0 .. NSegments, g \in given : CutShort(k, g)'
    BY <1>1, <1>2, <2>2 DEF SaveAside
  <2> QED BY <1>1, <2>1, <2>3 DEF OtherOld
<1>11. ActiveOrFallback'
  BY <1>1, <1>4, <1>6, <1>10 DEF ActiveOrFallback
<1> QED BY <1>7, <1>8, <1>9, <1>11

\* A save that is through has a game on the bank it wrote, but for the fault.
LEMMA ThroughSave ==
    ASSUME IInv, OneFaultInv, faults <= 1, save # NoSave, save.next = NSegments
    PROVE  /\ save.bank \in Banks /\ 1 - save.bank \in Banks
           /\ save.gen \in Generations
           /\ game # NoState /\ game \in given
           /\ Whole(save.bank, save.gen, game)
                \/ /\ faults = 1 /\ \E s \in Segments : bank[save.bank][s] = Garbage
                   /\ manifest = Absent \/ (HasManifest /\ ActiveWhole)
           /\ HasManifest => /\ save.bank = Other /\ 1 - save.bank = manifest.active
                             /\ save.gen = NextGen
           /\ manifest = Absent => save.bank = 0
<1>1. SaveAside /\ game # NoState /\ save \in Saves
  BY DEF OneFaultInv, IInv, SavePrefix, TypeOK
<1>2. \A s \in Segments : s < save.next
  BY ConstantSets
<1>3. PrefixWhole => Whole(save.bank, save.gen, game)
  BY <1>2 DEF PrefixWhole, Whole
<1>4. HasManifest => 1 - Other = manifest.active
  BY ManifestCases DEF IInv, Other, Banks
<1> QED BY <1>1, <1>3, <1>4, SaveFields, ConstantSets DEF SaveAside, PrefixHit

\* The manifest is written: what was active is the fallback.
LEMMA CommitKeeps ==
    ASSUME IInv, OneFaultInv, WriteManifest
    PROVE  OneFaultInv'
<1> SUFFICES ASSUME faults' <= 1
             PROVE  /\ SaveAside' /\ ActiveOrFallback' /\ NothingCommitted'
                    /\ ManifestLost' /\ CommittedWereGiven'
  BY DEF OneFaultInv
<1>1. /\ faults <= 1 /\ ActiveOrFallback /\ NothingCommitted /\ ManifestLost
      /\ CommittedWereGiven
      /\ UNCHANGED <<bank, game, given, faults>>
      /\ manifest' = Manifest(save.gen, save.bank) /\ save' = NoSave
      /\ last' = game /\ prev' = last /\ tries' = 0
      /\ save # NoSave /\ save.next = NSegments
  BY DEF OneFaultInv, WriteManifest
<1>2. /\ HasManifest' /\ manifest' # Absent /\ manifest' # Garbage
      /\ manifest'.active = save.bank /\ manifest'.gen = save.gen
      /\ Other' = 1 - save.bank
  BY <1>1, Kinds DEF HasManifest, Other
<1>3. SaveAside' /\ NothingCommitted' /\ ManifestLost' /\ CommittedWereGiven'
  BY <1>1, <1>2, ThroughSave
  DEF SaveAside, NothingCommitted, ManifestLost, CommittedWereGiven
<1>4. Whole(save.bank, save.gen, game) => ActiveWhole' /\ ~ActiveHit'
  BY <1>1, <1>2, Kinds DEF ActiveWhole, ActiveHit, Whole
<1>5. (\E s \in Segments : bank[save.bank][s] = Garbage) => ActiveHit'
  BY <1>1, <1>2 DEF ActiveHit
<1>6. ASSUME HasManifest, ActiveWhole PROVE OtherOld'
  <2>1. PrevGen' = manifest.gen
    <3>1. manifest.gen \in Generations /\ save.gen = NextGen
      BY <1>1, <1>6, ManifestCases, ThroughSave DEF IInv
    <3>2. PrevGen' = IF NextGen = 0 THEN GenMod - 1 ELSE NextGen - 1
      BY <1>2, <3>1 DEF PrevGen
    <3> QED BY <3>1, <3>2, Counting, SaveStoreAssumption DEF NextGen, Generations
  <2>2. \A s \in Segments : bank[manifest.active][s] = Record(manifest.gen, last[s])
    BY <1>6 DEF ActiveWhole, Whole
  <2>3. last # NoState /\ Other' = manifest.active
    BY <1>1, <1>2, <1>6, ThroughSave DEF ActiveOrFallback
  <2> QED BY <1>1, <2>1, <2>2, <2>3 DEF OtherOld, Old
<1>7. ASSUME manifest = Absent PROVE OtherOld'
  BY <1>1, <1>2, <1>7, ThroughSave DEF NothingCommitted, Empty, OtherOld, Old
<1>8. ASSUME faults = 0 \/ ActiveHit' PROVE OtherOld'
  <2>1. manifest = Absent \/ (HasManifest /\ ActiveWhole)
    BY <1>1, <1>4, <1>8, ManifestCases, ThroughSave
    DEF IInv, ActiveOrFallback, ManifestLost
  <2> QED BY <2>1, <1>6, <1>7
<1>9. ActiveOrFallback'
  BY <1>1, <1>4, <1>5, <1>8, ThroughSave DEF ActiveOrFallback
<1> QED BY <1>3, <1>9

\* The manifest is written garbled: the two banks are the last two games.
LEMMA GarbledCommitKeeps ==
    ASSUME IInv, OneFaultInv, GarbleManifest
    PROVE  OneFaultInv'
<1> SUFFICES ASSUME faults' <= 1
             PROVE  /\ SaveAside' /\ ActiveOrFallback' /\ NothingCommitted'
                    /\ ManifestLost' /\ CommittedWereGiven'
  BY DEF OneFaultInv
<1>1. /\ faults = 0 /\ faults' = 1 /\ ActiveOrFallback /\ NothingCommitted /\ ManifestLost
      /\ CommittedWereGiven
      /\ UNCHANGED <<bank, game, given>>
      /\ manifest' = Garbage /\ save' = NoSave
      /\ last' = game /\ prev' = last /\ tries' = 0
      /\ save # NoSave /\ save.next = NSegments
  BY SaveStoreAssumption DEF OneFaultInv, GarbleManifest, IInv, TypeOK
<1>2. ~HasManifest' /\ manifest' # Absent
  BY <1>1, Kinds DEF HasManifest, Garbage
<1>3. /\ SaveAside' /\ NothingCommitted' /\ CommittedWereGiven' /\ ActiveOrFallback'
  BY <1>1, <1>2, ThroughSave
  DEF SaveAside, NothingCommitted, CommittedWereGiven, ActiveOrFallback
<1>4. \E g \in Generations : Whole(save.bank, g, game)
  BY <1>1, ThroughSave
<1>5. IF last = NoState THEN Empty(1 - save.bank)
                        ELSE \E g \in Generations : Whole(1 - save.bank, g, last)
  <2>1. CASE HasManifest
    <3>1. ActiveWhole /\ last # NoState /\ 1 - save.bank = manifest.active
      BY <1>1, <2>1, ThroughSave DEF ActiveOrFallback
    <3> QED BY <2>1, <3>1, ManifestCases DEF ActiveWhole, IInv
  <2>2. CASE ~HasManifest
    <3>1. manifest = Absent
      BY <1>1, <2>2, ManifestCases DEF IInv, ManifestLost
    <3>2. save.bank = 0 /\ last = NoState /\ Empty(1)
      BY <1>1, <3>1, ThroughSave DEF NothingCommitted
    <3> QED BY <3>2
  <2> QED BY <2>1, <2>2
<1>6. ManifestLost'
  BY <1>1, <1>4, <1>5, ThroughSave DEF ManifestLost, Whole, Empty
<1> QED BY <1>3, <1>6

\* A record rots: in the active bank, and the fallback counts; or elsewhere, and
\* the active bank is whole.
LEMMA RotKeeps ==
    ASSUME IInv, OneFaultInv, RotRecord
    PROVE  OneFaultInv'
<1> SUFFICES ASSUME faults' <= 1
             PROVE  /\ SaveAside' /\ ActiveOrFallback' /\ NothingCommitted'
                    /\ ManifestLost' /\ CommittedWereGiven'
  BY DEF OneFaultInv
<1>1. /\ faults = 0 /\ faults' = 1 /\ SaveAside /\ ActiveOrFallback /\ NothingCommitted
      /\ ManifestLost /\ CommittedWereGiven
      /\ UNCHANGED <<manifest, save, game, last, prev, tries, given>>
  BY SaveStoreAssumption DEF OneFaultInv, RotRecord, history, IInv, TypeOK
<1>2. PICK c \in Banks, t \in Segments :
         /\ bank[c][t].kind = "record"
         /\ bank' = [bank EXCEPT ![c][t] = Garbage]
  BY DEF RotRecord
<1>3. \A b \in Banks, s \in Segments :
         bank'[b][s] = IF b = c /\ s = t THEN Garbage ELSE bank[b][s]
  BY <1>2 DEF IInv, TypeOK
<1>4. /\ HasManifest' = HasManifest /\ Other' = Other /\ NextGen' = NextGen
      /\ PrevGen' = PrevGen
  BY <1>1 DEF HasManifest, Other, NextGen, PrevGen
<1>5. manifest # Garbage
  BY <1>1 DEF ManifestLost
<1>6. HasManifest => ActiveWhole /\ OtherOld
  BY <1>1 DEF ActiveOrFallback
<1>7. ASSUME HasManifest, c = manifest.active
      PROVE  ActiveHit' /\ OtherOld'
  <2>1. ActiveHit'
    BY <1>1, <1>2, <1>3, <1>7 DEF ActiveHit
  <2>2. Other \in Banks /\ Other # c
    BY <1>7, ManifestCases DEF IInv
  <2>3. \A s \in Segments : bank'[Other][s] = bank[Other][s]
    BY <1>3, <2>2
  <2>4. \A s \in Segments : Old(s)' <=> Old(s)
    BY <1>1, <1>4, <2>3 DEF Old
  <2>5. ASSUME NEW k, NEW g, CutShort(k, g) PROVE CutShort(k, g)'
    BY <1>4, <2>3, <2>4, <2>5 DEF CutShort
  <2>6. OtherOld'
    <3>1. tries = 1 /\ save = NoSave => \E k \in 0 .. NSegments, g \in given : CutShort(k, g)'
      BY <1>6, <1>7, <2>5 DEF OtherOld
    <3> QED BY <1>1, <1>6, <1>7, <2>4, <3>1 DEF OtherOld
  <2> QED BY <2>1, <2>6
<1>8. ASSUME HasManifest, c # manifest.active
      PROVE  ActiveWhole' /\ ~ActiveHit'
  BY <1>1, <1>3, <1>6, <1>8, ManifestCases, Kinds
  DEF IInv, ActiveWhole, ActiveHit, Whole
<1>9. ActiveOrFallback'
  BY <1>1, <1>4, <1>7, <1>8 DEF ActiveOrFallback
<1>10. SaveAside'
  <2> SUFFICES ASSUME save # NoSave
               PROVE  \/ PrefixWhole'
                      \/ /\ PrefixHit'
                         /\ manifest = Absent \/ (HasManifest /\ ActiveWhole')
    BY <1>1, <1>4 DEF SaveAside
  <2>1. save.bank \in Banks /\ PrefixWhole
    BY <1>1, SaveFields DEF SaveAside, IInv, TypeOK
  <2>2. CASE c = save.bank /\ t < save.next
    <3>1. PrefixHit'
      BY <1>1, <1>2, <1>3, <2>2 DEF PrefixHit
    <3>2. HasManifest => c # manifest.active
      BY <1>1, <2>2, ManifestCases DEF SaveAside, IInv
    <3> QED BY <1>5, <1>8, <3>1, <3>2, ManifestCases DEF IInv
  <2>3. CASE ~(c = save.bank /\ t < save.next)
    BY <1>1, <1>3, <2>1, <2>3 DEF PrefixWhole
  <2> QED BY <2>2, <2>3
<1>11. NothingCommitted'
  <2>1. manifest = Absent => c # 1
    BY <1>1, <1>2, Kinds DEF NothingCommitted, Empty
  <2> QED BY <1>1, <1>3, <2>1 DEF NothingCommitted, Empty, Banks
<1>12. CommittedWereGiven' /\ ManifestLost'
  BY <1>1, <1>5 DEF CommittedWereGiven, ManifestLost
<1> QED BY <1>9, <1>10, <1>11, <1>12

\* The manifest rots: the two banks are what they were.
LEMMA LostManifestKeeps ==
    ASSUME IInv, OneFaultInv, RotManifest
    PROVE  OneFaultInv'
<1> SUFFICES ASSUME faults' <= 1
             PROVE  /\ SaveAside' /\ ActiveOrFallback' /\ NothingCommitted'
                    /\ ManifestLost' /\ CommittedWereGiven'
  BY DEF OneFaultInv
<1>1. /\ faults = 0 /\ faults' = 1 /\ SaveAside /\ ActiveOrFallback
      /\ CommittedWereGiven /\ HasManifest
      /\ UNCHANGED <<bank, save, game, last, prev, tries, given>>
      /\ manifest' = Garbage
  BY SaveStoreAssumption DEF OneFaultInv, RotManifest, history, IInv, TypeOK
<1>2. ~HasManifest' /\ manifest' # Absent /\ manifest # Absent
  BY <1>1, Kinds DEF HasManifest, Garbage, Absent
<1>3. SaveAside'
  <2>1. PrefixWhole' <=> PrefixWhole
    BY <1>1 DEF PrefixWhole
  <2> QED BY <1>1, <1>2, <2>1 DEF SaveAside
<1>4. ActiveOrFallback' /\ NothingCommitted' /\ CommittedWereGiven'
  BY <1>1, <1>2 DEF ActiveOrFallback, NothingCommitted, CommittedWereGiven
<1>5. ASSUME tries = 0
      PROVE  /\ manifest.active \in Banks
             /\ \E g \in Generations : Whole(manifest.active, g, last)
             /\ IF prev = NoState THEN Empty(1 - manifest.active)
                ELSE \E g \in Generations : Whole(1 - manifest.active, g, prev)
  <2>1. /\ manifest.active \in Banks /\ manifest.gen \in Generations
        /\ PrevGen \in Generations
    BY <1>1, ManifestCases, Counting DEF IInv, PrevGen
  <2>2. ActiveWhole /\ \A s \in Segments : Old(s)
    BY <1>1, <1>5 DEF ActiveOrFallback, OtherOld
  <2>3. IF prev = NoState THEN Empty(Other) ELSE Whole(Other, PrevGen, prev)
    BY <2>2 DEF Old, Empty, Whole
  <2> QED BY <2>1, <2>2, <2>3 DEF ActiveWhole, Other
<1>6. ManifestLost'
  BY <1>1, <1>5 DEF ManifestLost, ActiveOrFallback, Whole, Empty
<1> QED BY <1>3, <1>4, <1>6

\* The legacy record rots: the store does not notice.
LEMMA LegacyRotKeeps ==
    ASSUME IInv, OneFaultInv, RotLegacy
    PROVE  OneFaultInv'
<1> SUFFICES ASSUME faults' <= 1
             PROVE  /\ SaveAside' /\ ActiveOrFallback' /\ NothingCommitted'
                    /\ ManifestLost' /\ CommittedWereGiven'
  BY DEF OneFaultInv
<1>1. /\ faults = 0 /\ faults' = 1 /\ SaveAside /\ ActiveOrFallback /\ NothingCommitted
      /\ ManifestLost /\ CommittedWereGiven
      /\ UNCHANGED <<manifest, bank, save, game, last, prev, tries, given>>
  BY SaveStoreAssumption DEF OneFaultInv, RotLegacy, disk, history, IInv, TypeOK
<1>2. manifest # Garbage
  BY <1>1 DEF ManifestLost
<1>3. HasManifest' = HasManifest /\ Other' = Other /\ NextGen' = NextGen
  BY <1>1 DEF HasManifest, Other, NextGen
<1>4. ActiveWhole' <=> ActiveWhole
  BY <1>1 DEF ActiveWhole, Whole
<1>5. PrefixWhole' <=> PrefixWhole
  BY <1>1 DEF PrefixWhole
<1>6. SaveAside'
  BY <1>1, <1>3, <1>5 DEF SaveAside
<1>7. ActiveOrFallback'
  <2>1. ActiveWhole => ~ActiveHit'
    BY <1>1, Kinds DEF ActiveWhole, ActiveHit, Whole
  <2> QED BY <1>1, <1>3, <1>4, <2>1 DEF ActiveOrFallback
<1>8. NothingCommitted' /\ ManifestLost' /\ CommittedWereGiven'
  BY <1>1, <1>2 DEF NothingCommitted, ManifestLost, CommittedWereGiven, Empty
<1> QED BY <1>6, <1>7, <1>8

LEMMA OneFaultStep ==
    ASSUME IInv, OneFaultInv, [LegacyNext]_lvars
    PROVE  OneFaultInv'
<1>0. IInv'
  BY StoreKept
<1>1. CASE LoadBanks \/ StartAnew
  <2>1. save = NoSave
    BY <1>1 DEF LoadBanks, StartAnew, IInv, SavePrefix
  <2> QED BY <1>1, <2>1, IdleKeeps DEF LoadBanks, StartAnew, history, storeVars
<1>2. CASE Migrate
  <2>1. save = NoSave
    BY <1>2 DEF Migrate, IInv, SavePrefix
  <2> QED BY <1>0, <1>2, <2>1, BeginKeeps DEF Migrate, storeVars
<1>3. CASE Reset \/ BeginSave
  BY <1>0, <1>3, BeginKeeps DEF Reset, BeginSave, storeVars
<1>4. CASE Play \/ RefuseWrite \/ Stop
  BY <1>4, IdleKeeps DEF Play, RefuseWrite, Stop, history, storeVars
<1>5. CASE UNCHANGED lvars
  <2>1. CASE save = NoSave
    BY <1>5, <2>1, IdleKeeps DEF lvars, vars, storeVars
  <2>2. CASE save # NoSave
    <3>1. UNCHANGED <<manifest, bank, save, game, last, prev, tries, given, faults>>
      BY <1>5 DEF lvars, vars
    <3> QED BY <3>1
        DEF OneFaultInv, SaveAside, ActiveOrFallback, NothingCommitted, ManifestLost,
            CommittedWereGiven, OtherOld, Old, CutShort, PrefixWhole, PrefixHit, ActiveWhole,
            ActiveHit, Whole, Empty, HasManifest, Other, PrevGen, NextGen
  <2> QED BY <2>1, <2>2
<1> QED
  BY <1>1, <1>2, <1>3, <1>4, <1>5, WriteKeeps, GarbleKeeps, CommitKeeps,
     GarbledCommitKeeps, RotKeeps, LostManifestKeeps, LegacyRotKeeps
  DEF LegacyNext, SaveStep

\* The fault that takes the legacy record leaves the store alone.
LEMMA RecordOrStoreStep ==
    ASSUME IInv, LegacyStays, OneFaultInv, RecordOrStore, [LegacyNext]_lvars
    PROVE  RecordOrStore'
<1> SUFFICES ASSUME faults' <= 1, legacy' # LegacyRecord
             PROVE  /\ manifest' # Garbage
                    /\ HasManifest' => ActiveWhole'
                    /\ save' # NoSave => PrefixWhole'
  BY DEF RecordOrStore
<1>1. CASE RotLegacy
  <2>1. /\ faults = 0 /\ SaveAside /\ ActiveOrFallback /\ ManifestLost
        /\ UNCHANGED <<manifest, bank, save, game, last>>
    BY <1>1, SaveStoreAssumption
    DEF OneFaultInv, RotLegacy, disk, history, IInv, TypeOK
  <2>2. /\ manifest # Garbage
        /\ HasManifest => ActiveWhole
        /\ save # NoSave => PrefixWhole
    BY <2>1 DEF SaveAside, ActiveOrFallback, ManifestLost
  <2> QED BY <2>1, <2>2 DEF HasManifest, ActiveWhole, PrefixWhole, Whole
<1> SUFFICES ASSUME ~RotLegacy
             PROVE  /\ manifest' # Garbage
                    /\ HasManifest' => ActiveWhole'
                    /\ save' # NoSave => PrefixWhole'
  BY <1>1
<1>2. UNCHANGED legacy
  BY DEF LegacyNext, LoadBanks, Migrate, StartAnew, Reset, lvars
<1>3. /\ faults = 1
      /\ ~(GarbleManifest \/ RotRecord \/ RotManifest)
  <2>1. faults \in Nat /\ faults # 0
    BY <1>2, SaveStoreAssumption DEF IInv, TypeOK, LegacyStays
  <2>2. GarbleManifest \/ RotRecord \/ RotManifest => faults' = faults + 1
    BY DEF GarbleManifest, RotRecord, RotManifest
  <2>3. faults' = faults \/ faults' = faults + 1
    BY DEF LegacyNext, LoadBanks, Migrate, StartAnew, Reset, RotLegacy, Play, SaveStep,
           BeginSave, WriteSegment, GarbleSegment, WriteManifest, GarbleManifest,
           RefuseWrite, Stop, RotRecord, RotManifest, lvars, vars, history
  <2> QED BY <2>1, <2>2, <2>3
<1>4. /\ manifest # Garbage
      /\ HasManifest => ActiveWhole
      /\ save # NoSave => PrefixWhole
      /\ SaveAside
  BY <1>2, <1>3 DEF RecordOrStore, OneFaultInv
<1>5. CASE LoadBanks \/ StartAnew \/ Play \/ RefuseWrite \/ Stop
  <2>1. UNCHANGED <<manifest, bank, last>>
    BY <1>5 DEF LoadBanks, StartAnew, Play, RefuseWrite, Stop, history
  <2>2. save' = NoSave
    BY <1>5 DEF LoadBanks, StartAnew, Play, RefuseWrite, Stop, IInv, SavePrefix
  <2> QED BY <1>4, <2>1, <2>2 DEF HasManifest, ActiveWhole, Whole
<1>6. CASE Migrate \/ Reset \/ BeginSave
  <2>1. UNCHANGED <<manifest, bank, last>> /\ save'.next = 0
    BY <1>6, SaveFields DEF Migrate, Reset, BeginSave, Begins, NewSave
  <2>2. PrefixWhole'
    BY <2>1, ConstantSets DEF PrefixWhole
  <2> QED BY <1>4, <2>1, <2>2 DEF HasManifest, ActiveWhole, Whole
<1>7. CASE WriteSegment \/ GarbleSegment
  <2>1. /\ UNCHANGED <<manifest, game, last>>
        /\ save # NoSave /\ save.next < NSegments
    BY <1>7 DEF WriteSegment, GarbleSegment, history
  <2>2. save.bank \in Banks /\ save.next \in Segments
    BY <2>1, SaveFields DEF IInv, TypeOK
  <2>3. /\ \A b \in Banks, s \in Segments :
              b # save.bank \/ s # save.next => bank'[b][s] = bank[b][s]
        /\ WriteSegment => bank'[save.bank][save.next] = Record(save.gen, game[save.next])
    BY <1>7, <2>2 DEF WriteSegment, GarbleSegment, IInv, TypeOK
  <2>4. HasManifest => manifest.active \in Banks /\ manifest.active # save.bank
    BY <1>4, <2>1, ManifestCases DEF SaveAside, IInv
  <2>5. HasManifest' => ActiveWhole'
    <3>1. HasManifest' => HasManifest
      BY <2>1 DEF HasManifest
    <3> QED BY <1>4, <2>1, <2>3, <2>4, <3>1 DEF ActiveWhole, Whole
  <2>6. ASSUME save' # NoSave PROVE PrefixWhole'
    <3>1. WriteSegment /\ save' = Save(save.bank, save.gen, save.next + 1)
      BY <1>7, <2>6 DEF WriteSegment, GarbleSegment
    <3>2. \A s \in Segments : s < save.next + 1 =>
             bank'[save.bank][s] = Record(save.gen, game[s])
      BY <1>4, <2>1, <2>2, <2>3, <3>1, ConstantSets DEF PrefixWhole
    <3> QED BY <2>1, <3>1, <3>2, SaveFields DEF PrefixWhole
  <2> QED BY <1>4, <2>1, <2>5, <2>6
<1>8. CASE WriteManifest
  <2>1. /\ save # NoSave /\ save.next = NSegments /\ save' = NoSave
        /\ manifest' = Manifest(save.gen, save.bank) /\ last' = game /\ UNCHANGED bank
    BY <1>8 DEF WriteManifest
  <2>2. Whole(save.bank, save.gen, game)
    BY <1>4, <2>1, ConstantSets DEF PrefixWhole, Whole
  <2> QED BY <2>1, <2>2, Kinds DEF ActiveWhole, Whole
<1>9. CASE UNCHANGED lvars
  <2>1. UNCHANGED <<manifest, bank, save, game, last>>
    BY <1>9 DEF lvars, vars
  <2> QED BY <1>4, <2>1 DEF HasManifest, ActiveWhole, PrefixWhole, Whole
<1> QED
  BY <1>3, <1>5, <1>6, <1>7, <1>8, <1>9 DEF LegacyNext, SaveStep

\* A bank that holds a state whole loads as that state.
LEMMA WholeLoads ==
    ASSUME NEW b \in Banks, NEW g \in Generations, NEW state \in States,
           Whole(b, g, state)
    PROVE  BankLoads(b, 0) /\ BankLoads(b, g) /\ BankState(b) = state
<1>1. \A s \in Segments : /\ bank[b][s].kind = "record"
                          /\ bank[b][s].gen = g
                          /\ bank[b][s].payload = state[s]
  BY Kinds DEF Whole
<1>2. BankState(b) = state
  BY <1>1 DEF BankState, States
<1> QED BY <1>1, <1>2, ConstantSets DEF BankLoads

\* A bank with a segment that is no record does not load.
LEMMA HitFails ==
    ASSUME NEW b, NEW s \in Segments, bank[b][s] \in {Absent, Garbage}, NEW e
    PROVE  ~BankLoads(b, e)
  BY Kinds DEF BankLoads

\* Between two saves, one fault: what storage and the legacy record give.
LEMMA OneFaultStart ==
    ASSUME IInv, OneFaultInv, RecordOrStore, faults <= 1, tries = 0, last # NoState
    PROVE  IF prev # NoState THEN LoadOK /\ Loaded \in {last, prev}
                             ELSE Start \in {last, Migrated}
<1>1. /\ ActiveOrFallback /\ NothingCommitted /\ ManifestLost
      /\ TypeOK /\ last \in States /\ prev \in States \cup {NoState}
  BY DEF OneFaultInv, IInv, TypeOK
<1>2. CASE HasManifest
  <2>1. /\ FirstTry = manifest.active /\ FirstTry \in Banks /\ Other \in Banks
        /\ Other = 1 - FirstTry /\ Other # FirstTry
        /\ manifest.gen \in Generations /\ PrevGen \in Generations
    BY <1>1, <1>2, ManifestCases, Counting DEF FirstTry, Other, PrevGen
  <2>2. /\ BankOK(FirstTry) <=> BankLoads(FirstTry, manifest.gen)
        /\ BankOK(Other) <=> BankLoads(Other, 0)
    BY <1>2, <2>1 DEF BankOK
  <2>3. CASE ActiveWhole
    <3>1. BankOK(FirstTry) /\ BankState(FirstTry) = last
      BY <1>1, <2>1, <2>2, <2>3, WholeLoads DEF ActiveWhole
    <3> QED BY <2>1, <3>1 DEF LoadOK, Loaded, Start
  <2>4. CASE ~ActiveWhole
    <3>1. ActiveHit /\ \A s \in Segments : Old(s)
      BY <1>1, <1>2, <2>4 DEF ActiveOrFallback, OtherOld
    <3>2. ~BankOK(FirstTry)
      BY <2>1, <2>2, <3>1, HitFails DEF ActiveHit
    <3>3. CASE prev = NoState
      <4>1. bank[Other][0] = Absent
        BY <3>1, <3>3, ConstantSets DEF Old
      <4>2. ~BankOK(Other)
        BY <2>1, <2>2, <4>1, HitFails, ConstantSets
      <4>3. ~LoadOK
        BY <2>1, <3>2, <4>2 DEF LoadOK, Banks
      <4>4. legacy = LegacyRecord
        BY <1>2, <2>4 DEF RecordOrStore
      <4> QED BY <3>3, <4>3, <4>4 DEF Start
    <3>4. CASE prev # NoState
      <4>1. Whole(Other, PrevGen, prev)
        BY <3>1, <3>4 DEF Old, Whole
      <4>2. BankOK(Other) /\ BankState(Other) = prev
        BY <1>1, <2>1, <2>2, <3>4, <4>1, WholeLoads
      <4> QED BY <2>1, <3>2, <3>4, <4>2 DEF LoadOK, Loaded
    <3> QED BY <3>3, <3>4
  <2> QED BY <2>3, <2>4
<1>3. CASE manifest = Garbage
  <2>1. PICK b \in Banks :
           /\ \E g \in Generations : Whole(b, g, last)
           /\ IF prev = NoState THEN Empty(1 - b)
                                ELSE \E g \in Generations : Whole(1 - b, g, prev)
    BY <1>1, <1>3 DEF ManifestLost
  <2>2. ~HasManifest /\ FirstTry = 0
    BY <1>1, <1>3, ManifestCases DEF FirstTry
  <2>3. \A c \in Banks : BankOK(c) <=> BankLoads(c, 0)
    BY <2>2 DEF BankOK
  <2>4. 1 - b \in Banks /\ (FirstTry = b \/ FirstTry = 1 - b)
        /\ 1 - (1 - b) = b
    BY <2>2 DEF Banks
  <2>5. BankOK(b) /\ BankState(b) = last
    BY <1>1, <2>1, <2>3, WholeLoads
  <2>6. IF prev = NoState THEN ~BankOK(1 - b)
                          ELSE BankOK(1 - b) /\ BankState(1 - b) = prev
    <3>1. CASE prev = NoState
      <4>1. bank[1 - b][0] = Absent
        BY <2>1, <3>1, ConstantSets DEF Empty
      <4> QED BY <2>3, <2>4, <3>1, <4>1, HitFails, ConstantSets
    <3>2. CASE prev # NoState
      BY <1>1, <2>1, <2>3, <2>4, <3>2, WholeLoads
    <3> QED BY <3>1, <3>2
  <2>7. LoadOK
    BY <2>5 DEF LoadOK
  <2>8. Loaded = last \/ (prev # NoState /\ Loaded = prev)
    BY <2>4, <2>5, <2>6 DEF Loaded
  <2> QED BY <2>7, <2>8 DEF Start
<1> QED BY <1>1, <1>2, <1>3, ManifestCases DEF NothingCommitted

\* A bank that a first save left at segment k, and that loads nevertheless, is of
\* one game: two generations in a row are not the same.
LEMMA HalfWritten ==
    ASSUME GenMod > 2, TypeOK, CommittedWereGiven, HasManifest,
           NEW k \in 0 .. NSegments, NEW g \in given,
           \A s \in Segments : /\ s < k => bank[Other][s] = Record(NextGen, g[s])
                               /\ s >= k => Old(s),
           BankLoads(Other, 0)
    PROVE  BankState(Other) \in given
<1>1. manifest.gen \in Generations
  BY ManifestCases
<1>2. NextGen # PrevGen
  <2>1. GenMod \in Nat /\ manifest.gen \in Nat /\ manifest.gen < GenMod
    BY <1>1, SaveStoreAssumption DEF Generations
  <2>2. NextGen = IF manifest.gen + 1 = GenMod THEN 0 ELSE manifest.gen + 1
    BY <1>1, Counting DEF NextGen
  <2> QED BY <2>1, <2>2 DEF PrevGen
<1>3. \A s \in Segments : /\ bank[Other][s].kind = "record"
                          /\ bank[Other][s].gen = bank[Other][0].gen
  BY DEF BankLoads
<1>4. given \subseteq States /\ prev \in given \cup {NoState}
  BY DEF TypeOK, CommittedWereGiven
<1>5. CASE k = 0
  <2>1. \A s \in Segments : Old(s)
    BY <1>5, ConstantSets
  <2>2. prev # NoState
    BY <1>3, <2>1, Kinds, ConstantSets DEF Old
  <2>3. \A s \in Segments : bank[Other][s].payload = prev[s]
    BY <2>1, <2>2, Kinds DEF Old
  <2> QED BY <1>4, <2>2, <2>3 DEF BankState, States
<1>6. CASE k = NSegments
  <2>1. \A s \in Segments : bank[Other][s].payload = g[s]
    BY <1>6, Kinds, ConstantSets
  <2> QED BY <1>4, <2>1 DEF BankState, States
<1>7. CASE 0 < k /\ k < NSegments
  <2>1. k \in Segments /\ Old(k)
    BY <1>7, SaveStoreAssumption DEF Segments
  <2>2. bank[Other][0].gen = NextGen
    BY <1>7, ConstantSets, Kinds
  <2>3. prev # NoState /\ bank[Other][k].gen = PrevGen
    BY <1>3, <2>1, Kinds DEF Old
  <2> QED BY <1>2, <1>3, <2>1, <2>2, <2>3
<1> QED BY <1>5, <1>6, <1>7, SaveStoreAssumption

\* While no more than one save has begun since, what loads is a game that was saved.
LEMMA OneFaultLoad ==
    ASSUME IInv, OneFaultInv, GenMod > 2, faults <= 1, HasManifest, tries <= 1, LoadOK
    PROVE  Loaded \in given
<1>1. /\ SaveAside /\ ActiveOrFallback /\ CommittedWereGiven
      /\ TypeOK /\ last \in States /\ last \in given
  BY DEF OneFaultInv, IInv, TypeOK, ActiveOrFallback, CommittedWereGiven
<1>2. /\ FirstTry = manifest.active /\ FirstTry \in Banks /\ Other \in Banks
      /\ Other = 1 - FirstTry /\ Other # FirstTry /\ manifest.gen \in Generations
  BY <1>1, ManifestCases DEF FirstTry, Other
<1>3. /\ BankOK(FirstTry) <=> BankLoads(FirstTry, manifest.gen)
      /\ BankOK(Other) <=> BankLoads(Other, 0)
  BY <1>2 DEF BankOK
<1>4. CASE ActiveWhole
  <2>1. BankOK(FirstTry) /\ BankState(FirstTry) = last
    BY <1>1, <1>2, <1>3, <1>4, WholeLoads DEF ActiveWhole
  <2> QED BY <1>1, <2>1 DEF Loaded
<1>5. CASE ~ActiveWhole
  <2>1. ActiveHit /\ OtherOld
    BY <1>1, <1>5 DEF ActiveOrFallback
  <2>2. ~BankOK(FirstTry)
    BY <1>2, <1>3, <2>1, HitFails DEF ActiveHit
  <2>3. BankLoads(Other, 0) /\ Loaded = BankState(Other)
    <3>1. BankOK(Other)
      BY <1>2, <2>2 DEF LoadOK, Banks
    <3> QED BY <1>2, <1>3, <2>2, <3>1 DEF Loaded
  <2>4. CASE tries = 0
    BY <1>1, <2>1, <2>3, <2>4, HalfWritten, SaveStoreAssumption, ConstantSets
    DEF OtherOld
  <2>5. CASE tries = 1 /\ save # NoSave
    <3>1. /\ save \in Saves /\ save.next \in 0 .. NSegments /\ game \in given
          /\ save.bank = Other /\ save.gen = NextGen /\ PrefixWhole
      BY <1>1, <2>1, <2>5, SaveFields, PrefixNotHit DEF TypeOK, SaveAside
    <3> QED BY <1>1, <2>1, <2>3, <2>5, <3>1, HalfWritten DEF OtherOld, PrefixWhole
  <2>6. CASE tries = 1 /\ save = NoSave
    <3>1. PICK k \in 0 .. NSegments, g \in given : CutShort(k, g)
      BY <2>1, <2>6 DEF OtherOld
    <3>2. \A s \in Segments : s >= k => Old(s)
      <4>1. \A s \in Segments : bank[Other][s] # Garbage
        BY <2>3, HitFails
      <4> QED BY <3>1, <4>1, ConstantSets DEF CutShort
    <3> QED BY <1>1, <2>3, <3>1, <3>2, HalfWritten DEF CutShort
  <2> QED BY <1>1, <2>4, <2>5, <2>6 DEF TypeOK
<1> QED BY <1>4, <1>5
-----------------------------------------------------------------------------
(* The theorems about LegacySave *)

\* The store keeps its invariant under migration and reset, and under one fault.
THEOREM LegacyInvariant == LegacySpec => []LegacyIInv
<1>1. LegacyInit => LegacyIInv
  <2>1. Init => IInv
    BY InitIInv
  <2>2. LegacyInit => WrittenWasGiven
    BY DEF LegacyInit, Init, WrittenWasGiven, Absent
  <2>3. Init => OneFaultInv
    BY Kinds, ConstantSets
    DEF Init, OneFaultInv, SaveAside, ActiveOrFallback, NothingCommitted, ManifestLost,
        CommittedWereGiven, HasManifest, Absent, Empty, Banks
  <2>4. LegacyInit => RecordOrStore
    BY DEF LegacyInit, RecordOrStore
  <2> QED BY <2>1, <2>2, <2>3, <2>4 DEF LegacyInit, LegacyIInv, LegacyStays
<1>2. LegacyIInv /\ [LegacyNext]_lvars => LegacyIInv'
  BY StoreKept, RecordStays, WrittenStays, OneFaultStep, RecordOrStoreStep DEF LegacyIInv
<1> QED BY <1>1, <1>2, PTL DEF LegacySpec

\* Between two saves one fault anywhere costs at most the latest save.
THEOREM OneFaultFallsBack == LegacySpec => []FallsBack
<1>1. LegacyIInv => FallsBack
  BY OneFaultStart DEF LegacyIInv, FallsBack
<1> QED BY <1>1, LegacyInvariant, PTL

\* A bank that a save left half written is not taken for a save, as long as two
\* generations in a row differ from a third: the program counts 2^32 of them.
THEOREM HalfWrittenIsRefused == GenMod > 2 => (LegacySpec => []HalfWrittenBankRefused)
<1> SUFFICES ASSUME GenMod > 2 PROVE LegacySpec => []HalfWrittenBankRefused
  OBVIOUS
<1>1. LegacyIInv => HalfWrittenBankRefused
  BY OneFaultLoad DEF LegacyIInv, HalfWrittenBankRefused
<1> QED BY <1>1, LegacyInvariant, PTL

\* A load gives the last committed game, in the middle of the writes of a
\* migration or of a reset, too.
THEOREM LegacyDurability == LegacySpec => []Durable
<1>1. LegacyIInv => Durable
  BY LoadsActiveBank DEF LegacyIInv, IInv, ActiveBankWhole, Durable
<1> QED BY <1>1, LegacyInvariant, PTL

\* A migration that was interrupted is done again with the same result.
THEOREM MigrationIsRepeatable == LegacySpec => []MigrationResumes
<1>1. LegacyIInv => MigrationResumes
  <2> SUFFICES ASSUME LegacyIInv, faults = 0, given \subseteq {Migrated}
               PROVE  Start = Migrated
    BY DEF MigrationResumes
  <2>1. legacy = LegacyRecord
    BY DEF LegacyIInv, LegacyStays
  <2>2. ASSUME NEW b \in Banks, BankOK(b)
        PROVE  BankState(b) = Migrated
    <3>1. \A s \in Segments : bank[b][s].payload = Migrated[s]
      BY <2>2 DEF LegacyIInv, WrittenWasGiven, BankOK, BankLoads
    <3> QED BY <3>1, LegacySaveAssumption DEF BankState, States
  <2>3. ASSUME LoadOK PROVE Loaded = Migrated
    <3>1. FirstTry \in Banks /\ 1 - FirstTry \in Banks
      BY ConstantSets, ManifestFields DEF LegacyIInv, IInv, TypeOK, FirstTry, HasManifest
    <3>2. BankOK(FirstTry) \/ BankOK(1 - FirstTry)
      BY <2>3, <3>1 DEF LoadOK, Banks
    <3> QED BY <2>2, <3>1, <3>2 DEF Loaded
  <2> QED BY <2>1, <2>3 DEF Start
<1> QED BY <1>1, LegacyInvariant, PTL

\* Migration and reset keep the promise of the register too.
LEMMA LegacyStepRefines ==
    ASSUME LegacyIInv, LegacyIInv', [LegacyNext]_lvars, faults' = 0
    PROVE  [Register!Next]_(Register!vars)
<1>0. IInv /\ IInv'
  BY DEF LegacyIInv
<1>1. CASE LoadBanks
  BY <1>0, <1>1, StepRefines DEF LoadBanks, Next, Open
<1>2. CASE StartAnew
  BY <1>0, <1>2, LegacySaveAssumption, StepRefines DEF StartAnew, Next, Open
<1>3. CASE Migrate
  <2>1. UNCHANGED Stored /\ faults = 0
    BY <1>3 DEF Migrate, Stored, HasManifest, BankState
  <2>2. Stored = NoState
    BY <1>0, <1>3, <2>1, LoadsActiveBank DEF Migrate, Stored
  <2> QED BY <1>3, <2>1, <2>2, LegacySaveAssumption
          DEF Migrate, Register!Next, Register!Open
<1>4. CASE Reset
  <2>1. UNCHANGED Stored
    BY <1>4 DEF Reset, Stored, HasManifest, BankState
  <2> QED BY <1>4, <2>1, LegacySaveAssumption DEF Reset, Register!Next, Register!Play
<1>5. CASE RotLegacy
  <2>1. UNCHANGED <<Stored, game>>
    BY <1>5 DEF RotLegacy, disk, Stored, HasManifest, BankState
  <2> QED BY <2>1 DEF Register!vars
<1>6. CASE Play \/ SaveStep \/ Stop \/ RotRecord \/ RotManifest
  BY <1>0, <1>6, StepRefines DEF Next
<1>7. CASE UNCHANGED lvars
  BY <1>0, <1>7, StepRefines DEF lvars
<1> QED BY <1>1, <1>2, <1>3, <1>4, <1>5, <1>6, <1>7 DEF LegacyNext

\* Until a fault at rest happens, a game that migrates, plays, saves, resets
\* and is cut off between any two writes sees one register.
THEOREM LegacyRefinement == LegacySpec => AtomicRegister
<1>1. LegacyIInv /\ LegacyIInv' /\ [LegacyNext]_lvars
        => [faults' = 0 => Register!Next]_(Register!vars)
  BY LegacyStepRefines
<1>2. LegacyInit => Register!Init
  BY InitRefines DEF LegacyInit
<1> QED
  BY <1>1, <1>2, LegacyInvariant, PTL DEF LegacySpec, AtomicRegister
-----------------------------------------------------------------------------
(* What the findings about the store leave true *)

\* A save under way goes past the bank the manifest names, whatever has happened.
Aside == save # NoSave /\ HasManifest => save.bank = 1 - manifest.active

\* Nothing but rot touches the bank the manifest names: no save, refused, garbled or
\* cut short, of play, migration or reset, and after any number of faults
\* (save_store.c:186-218).  What is overwritten is always the other bank, which
\* is the one that loads only when a fault has struck.
SavesSpareActive ==
    [][HasManifest /\ ~RotRecord => bank'[manifest.active] = bank[manifest.active]]_vars

\* Without a fault every save leaves a bank that loads (save_store.c:193-195): what
\* SavePreservesRecoverableBank misses is the save after a fallback, and no other.
CleanSavesPreserve ==
    [][BeginSave /\ HasManifest /\ faults = 0
         => \E b \in Banks \ {save'.bank} : BankOK(b)]_vars

\* Once a save has committed, a load gives no mixture of two games, however many
\* saves were begun and cut short since (save_store.c:105-178): what LoadNeverTorn
\* misses are the saves before the first manifest.
NeverTornOnceCommitted == HasManifest /\ faults = 0 => LoadOK /\ Loaded \in given

\* The target of a new save.
LEMMA NewSaveAside == HasManifest => NewSave.bank = 1 - manifest.active
  BY SaveFields DEF NewSave

\* A step of the store keeps a save aside.
LEMMA AsideStep ==
    ASSUME IInv, Aside, [Next]_vars
    PROVE  Aside'
<1>1. CASE BeginSave
  BY <1>1, NewSaveAside DEF BeginSave, Begins, Aside, HasManifest
<1>2. CASE WriteSegment
  <2>1. save'.bank = save.bank
    BY <1>2, SaveFields DEF WriteSegment
  <2> QED BY <1>2, <2>1 DEF WriteSegment, Aside, HasManifest
<1>3. CASE save' = NoSave
  BY <1>3 DEF Aside
<1>4. CASE RotManifest
  BY <1>4 DEF RotManifest, Aside, HasManifest, Garbage
<1>5. CASE UNCHANGED <<manifest, save>>
  BY <1>5 DEF Aside, HasManifest
<1> QED
  BY <1>1, <1>2, <1>3, <1>4, <1>5
  DEF Next, SaveStep, Open, Play, GarbleSegment, WriteManifest, GarbleManifest, RefuseWrite,
      Stop, RotRecord, vars

\* A step that changes the bank in use is rot.
LEMMA ActiveSpared ==
    ASSUME IInv, Aside, [Next]_vars, HasManifest, ~RotRecord
    PROVE  bank'[manifest.active] = bank[manifest.active]
<1>1. manifest.active \in Banks
  BY ManifestFields DEF IInv, TypeOK, HasManifest
<1>2. CASE WriteSegment \/ GarbleSegment
  <2>1. save.bank = 1 - manifest.active /\ save.bank # manifest.active
    BY <1>1, <1>2, ConstantSets DEF WriteSegment, GarbleSegment, Aside
  <2>2. bank \in [Banks -> [Segments -> Records \cup {Absent, Garbage}]]
    BY DEF IInv, TypeOK
  <2>3. PICK new : bank' = [bank EXCEPT ![save.bank][save.next] = new]
    BY <1>2 DEF WriteSegment, GarbleSegment
  <2> QED BY <1>1, <2>1, <2>2, <2>3
<1>3. CASE UNCHANGED bank
  BY <1>3
<1> QED
  BY <1>2, <1>3
  DEF Next, SaveStep, Open, Play, BeginSave, WriteManifest, GarbleManifest, RefuseWrite,
      Stop, RotManifest, vars

\* A save that begins on a storage without faults leaves the active bank.
LEMMA CleanBegin ==
    ASSUME IInv, BeginSave, HasManifest, faults = 0
    PROVE  \E b \in Banks \ {save'.bank} : BankOK(b)
<1>1. manifest.active \in Banks /\ save'.bank = 1 - manifest.active
  BY ManifestFields, NewSaveAside DEF IInv, TypeOK, HasManifest, BeginSave, Begins
<1>2. manifest.active \in Banks \ {save'.bank}
  BY <1>1, ConstantSets
<1>3. \A s \in Segments : /\ bank[manifest.active][s].kind = "record"
                          /\ bank[manifest.active][s].gen = manifest.gen
  <2>1. \A s \in Segments : bank[manifest.active][s] = Record(manifest.gen, last[s])
    BY DEF IInv, ActiveBankWhole
  <2>2. \A g, p : Record(g, p).kind = "record" /\ Record(g, p).gen = g
    BY DEF Record
  <2> QED BY <2>1, <2>2
<1>4. BankOK(manifest.active)
  BY <1>3, ConstantSets DEF BankOK, BankLoads
<1> QED BY <1>2, <1>4

\* The bank in use is spared by the store on its own (SavesSpareActive).
THEOREM ActiveBankSpared == Spec => SavesSpareActive
<1>1. Init => Aside
  BY DEF Init, Aside
<1>2. IInv /\ Aside /\ [Next]_vars
        => [HasManifest /\ ~RotRecord => bank'[manifest.active] = bank[manifest.active]]_vars
  BY ActiveSpared
<1> QED BY <1>1, <1>2, AsideStep, InductiveInvariant, PTL DEF Spec, SavesSpareActive

\* And by the app around it, with migration and reset, too.
THEOREM LegacyActiveSpared == LegacySpec => SavesSpareActive
<1>1. LegacyInit => Aside
  BY DEF LegacyInit, Init, Aside
<1>2. ASSUME IInv, Aside, [LegacyNext]_lvars
      PROVE  /\ Aside'
             /\ [HasManifest /\ ~RotRecord
                   => bank'[manifest.active] = bank[manifest.active]]_vars
  <2>1. CASE Migrate \/ Reset
    <3>1. UNCHANGED <<manifest, bank>> /\ save' = NewSave
      BY <2>1 DEF Migrate, Reset, Begins
    <3> QED BY <3>1, NewSaveAside DEF Aside, HasManifest
  <2>2. CASE LoadBanks \/ StartAnew \/ RotLegacy
    <3>1. UNCHANGED <<manifest, bank, save>>
      BY <2>2 DEF LoadBanks, StartAnew, RotLegacy, disk
    <3> QED BY <1>2, <3>1 DEF Aside, HasManifest
  <2>3. CASE [Next]_vars
    BY <2>3, <1>2, AsideStep, ActiveSpared
  <2> QED BY <1>2, <2>1, <2>2, <2>3 DEF LegacyNext, Next, lvars
<1>3. LegacyIInv => IInv
  BY DEF LegacyIInv
<1> QED BY <1>1, <1>2, <1>3, LegacyInvariant, PTL DEF LegacySpec, SavesSpareActive

\* Until a fault, every save leaves the game as it was to come back to.
THEOREM CleanSaves == Spec => CleanSavesPreserve
<1>1. IInv /\ [Next]_vars
        => [BeginSave /\ HasManifest /\ faults = 0
              => \E b \in Banks \ {save'.bank} : BankOK(b)]_vars
  BY CleanBegin
<1> QED BY <1>1, InductiveInvariant, PTL DEF Spec, CleanSavesPreserve

\* No load mixes two games once one was saved.
THEOREM NotTorn == LegacySpec => []NeverTornOnceCommitted
<1>1. LegacyIInv => NeverTornOnceCommitted
  <2> SUFFICES ASSUME LegacyIInv, HasManifest, faults = 0
               PROVE  LoadOK /\ Loaded \in given
    BY DEF NeverTornOnceCommitted
  <2>1. LoadOK /\ Loaded = last
    BY LoadsActiveBank DEF LegacyIInv
  <2>2. last # NoState
    BY DEF LegacyIInv, IInv, ActiveBankWhole
  <2>3. last \in given \cup {NoState}
    BY DEF LegacyIInv, OneFaultInv, CommittedWereGiven
  <2> QED BY <2>1, <2>2, <2>3
<1> QED BY <1>1, LegacyInvariant, PTL
=============================================================================
