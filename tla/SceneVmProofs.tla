---------------------------- MODULE SceneVmProofs ----------------------------
(* The machine is safe to run on any pack whatsoever: it stays inside the    *)
(* code and keeps the context in range, whatever the bytes are.  The packs   *)
(* and the games are constants, so this holds for every file and every save. *)
(* And the shipped pack, which a certificate describes, is in every game the *)
(* set of exchanges the campaign relies on.                                  *)
EXTENDS SceneCertificate, SequenceTheorems, TLAPS

\* The inductive invariant: pc inside the code is what makes the next operand
\* a byte, and a byte is what keeps a good or a flag in range.
IInv == TypeOK /\ InRange /\ InsideCode

LEMMA BytesAreNumbers == \A b \in Bytes : b \in Nat /\ b <= 255
  BY DEF Bytes

LEMMA ByteIsByte ==
    ASSUME NEW data \in Seq(Bytes), NEW at \in 0 .. Len(data) - 1
    PROVE  U8(data, at) \in Bytes
  BY DEF U8

LEMMA WordIsWord ==
    ASSUME NEW data \in Seq(Bytes), NEW at \in 0 .. Len(data) - 2
    PROVE  U16(data, at) \in Nat
  <1>1. Len(data) \in Nat
    BY LenProperties
  <1>2. U8(data, at) \in Bytes
    BY <1>1, ByteIsByte
  <1>3. at + 1 \in 0 .. Len(data) - 1
    BY <1>1
  <1>4. U8(data, at + 1) \in Bytes
    BY <1>3, ByteIsByte
  <1>5. U8(data, at) \in Nat /\ U8(data, at + 1) \in Nat
    BY <1>2, <1>4, BytesAreNumbers
  <1>6. \A low, high \in Nat : low + 256 * high \in Nat
    OBVIOUS
  <1> QED BY <1>5, <1>6 DEF U16

\* prv_begin_scene only ever hands the machine bytes of the pack.
LEMMA LoadedCode ==
    ASSUME NEW p \in Packs, NEW id, LoadScene(p, id).ok
    PROVE  LoadScene(p, id).code \in Seq(Bytes)
  <1> DEFINE Found == { i \in 0 .. U8(p.bytes, 4) - 1 :
                            /\ p.size >= Entry(p, i) + 5
                            /\ IsFirst(p, i, id)
                            /\ EntryLength(p, i) \in 1 .. CodeMax
                            /\ EntryInside(p, i) }
  <1>1. HasMagic(p, SceneMagic, 5) /\ Found # {}
    BY Zenon DEF LoadScene, Unreadable, Readable
  <1> DEFINE i == CHOOSE j \in Found : TRUE
  <1>2. i \in Found
    BY <1>1
  <1>3. LoadScene(p, id).code = CodeOf(p, i)
    BY <1>1, Zenon DEF LoadScene, Unreadable, Readable
  <1>4. p.bytes \in Seq(Bytes) /\ p.size = Len(p.bytes) /\ Len(p.bytes) \in Nat
    BY SceneVmAssumption, LenProperties
  <1>5. U8(p.bytes, 4) \in Bytes
    <2>1. 4 \in 0 .. Len(p.bytes) - 1
      BY <1>1, <1>4 DEF HasMagic
    <2> QED BY <1>4, <2>1, ByteIsByte
  <1>6. i \in Nat /\ Len(p.bytes) >= 10 + 5 * i
    BY <1>2, <1>4, <1>5 DEF Entry, Bytes
  <1>7. EntryOffset(p, i) \in Nat /\ EntryLength(p, i) \in Nat
    <2>1. /\ Entry(p, i) + 1 \in 0 .. Len(p.bytes) - 2
          /\ Entry(p, i) + 3 \in 0 .. Len(p.bytes) - 2
      BY <1>4, <1>6 DEF Entry
    <2>2. /\ U16(p.bytes, Entry(p, i) + 1) \in Nat
          /\ U16(p.bytes, Entry(p, i) + 3) \in Nat
      BY <1>4, <2>1, WordIsWord
    <2> QED BY <2>2 DEF EntryOffset, EntryLength
  <1>8. EntryOffset(p, i) + EntryLength(p, i) <= Len(p.bytes)
    BY <1>2, <1>4 DEF EntryInside
  <1>9. \A k \in EntryOffset(p, i) + 1 .. EntryOffset(p, i) + EntryLength(p, i) :
           p.bytes[k] \in Bytes
    BY <1>4, <1>7, <1>8
  <1> HIDE DEF i
  <1>10. SubSeq(p.bytes, EntryOffset(p, i) + 1, EntryOffset(p, i) + EntryLength(p, i))
            \in Seq(Bytes)
    BY <1>7, <1>9, SubSeqProperties
  <1> QED BY <1>3, <1>10 DEF CodeOf

LEMMA CappedInRange ==
    ASSUME NEW value \in Int, NEW amount \in Int
    PROVE  Capped(value, amount) \in 0 .. CapMax
  BY SceneVmAssumption DEF Capped

LEMMA TrustedInRange ==
    ASSUME NEW trust \in Int, NEW delta \in Int
    PROVE  Trusted(trust, delta) \in 0 .. 3
  BY DEF Trusted

\* The bytes an instruction is read from are there.
LEMMA Operands ==
    ASSUME TypeOK, NEW n \in Nat, Fits(n)
    PROVE  /\ \A i \in 0 .. n - 1 : Byte(i) \in Bytes
           /\ \A i \in 0 .. n - 2 : Word(i) \in Nat
           /\ pc + n <= Len(code)
  <1>1. code \in Seq(Bytes) /\ Len(code) \in Nat /\ pc \in Nat /\ pc + n <= Len(code)
    BY LenProperties DEF TypeOK, Fits
  <1>2. ASSUME NEW i \in 0 .. n - 1 PROVE Byte(i) \in Bytes
    <2>1. pc + i \in 0 .. Len(code) - 1
      BY <1>1
    <2> QED BY <1>1, <2>1, ByteIsByte DEF Byte
  <1>3. ASSUME NEW i \in 0 .. n - 2 PROVE Word(i) \in Nat
    <2>1. pc + i \in 0 .. Len(code) - 2
      BY <1>1
    <2> QED BY <1>1, <2>1, WordIsWord DEF Word
  <1> QED BY <1>1, <1>2, <1>3

LEMMA GainInRange ==
    ASSUME IInv, NEW amount \in Int, Byte(1) \in Resources, Gain(amount)
    PROVE  context' \in Contexts
  <1> DEFINE g == context.goods
  <1>1. /\ context \in [goods : [Resources -> 0 .. CapMax],
                        flags : SUBSET Flags, trust : [Guests -> 0 .. 3]]
        /\ CapMax \in Nat
    BY SceneVmAssumption DEF IInv, InRange, Contexts
  <1>2. Capped(g[Byte(1)], amount) \in 0 .. CapMax
    <2>1. g[Byte(1)] \in Int
      BY <1>1
    <2> QED BY <2>1, CappedInRange
  <1>3. context' = [context EXCEPT !.goods = [g EXCEPT ![Byte(1)] = Capped(g[Byte(1)], amount)]]
    BY DEF Gain
  <1>4. [g EXCEPT ![Byte(1)] = Capped(g[Byte(1)], amount)] \in [Resources -> 0 .. CapMax]
    BY <1>1, <1>2
  <1> QED BY <1>1, <1>3, <1>4 DEF Contexts

LEMMA SignedIsInt == ASSUME NEW n \in Int PROVE Signed(n) \in -32768 .. 32767
  BY DEF Signed
-----------------------------------------------------------------------------
LEMMA InitInv == Init => IInv
  <1> SUFFICES ASSUME Init PROVE IInv
    OBVIOUS
  <1>1. game \in Contexts /\ context = game
    BY SceneVmAssumption DEF Init
  <1>2. InRange
    BY <1>1 DEF InRange
  <1>3. code = <<>> /\ pc = 0 /\ Len(code) = 0 /\ code \in Seq(Bytes)
    BY DEF Init
  <1>4. event = Nothing /\ Nothing \in Events /\ DOMAIN Nothing.targets = {}
    BY DEF Init, Nothing, Events, Bytes
  <1>5. InsideCode
    BY <1>3, <1>4 DEF InsideCode
  <1>6. /\ game.goods \in [Resources -> Int] /\ game.flags \in SUBSET Flags
        /\ game.trust \in [Guests -> Int]
        /\ game = [goods |-> game.goods, flags |-> game.flags, trust |-> game.trust]
    BY <1>1, SceneVmAssumption DEF Contexts
  <1>7. TypeOK
    BY <1>1, <1>3, <1>4, <1>6, SceneVmAssumption DEF Init, TypeOK
  <1> QED BY <1>2, <1>5, <1>7 DEF IInv
\* A context in range is a context of the right shape.
LEMMA ContextsTyped ==
    ASSUME NEW c \in Contexts
    PROVE  c \in [goods : [Resources -> Int], flags : SUBSET Flags, trust : [Guests -> Int]]
  BY SceneVmAssumption DEF Contexts

\* What every pass that goes on with the loop leaves to show.
LEMMA PassKeepsInv ==
    ASSUME IInv, NEW opcode, Executes(opcode),
           context' \in Contexts, pc' \in Nat, pc' <= Len(code), event' \in Events,
           \A i \in DOMAIN event'.targets : event'.targets[i] < Len(code),
           UNCHANGED <<game, present, scene, code>>
    PROVE  IInv'
  <1>1. InRange'
    BY DEF IInv, InRange
  <1>2. InsideCode'
    BY DEF InsideCode, InCode
  <1>3. passes' \in 0 .. Limit /\ UNCHANGED <<pack, begun>>
    BY SceneVmAssumption DEF Executes, IInv, TypeOK
  <1>4. TypeOK'
    BY <1>3, ContextsTyped DEF IInv, TypeOK
  <1> QED BY <1>1, <1>2, <1>4 DEF IInv

\* Most instructions show nothing: only pc and the context move.
LEMMA SilentPassKeepsInv ==
    ASSUME IInv, NEW opcode, Executes(opcode),
           context' \in Contexts, pc' \in Nat, pc' <= Len(code),
           UNCHANGED <<game, present, scene, code, event>>
    PROVE  IInv'
  <1>1. event' \in Events
    BY DEF IInv, TypeOK
  <1>2. \A i \in DOMAIN event'.targets : event'.targets[i] < Len(code)
    BY DEF IInv, InsideCode, InCode
  <1> QED BY <1>1, <1>2, PassKeepsInv

\* Close leaves an empty machine.
LEMMA CloseKeepsInv ==
    ASSUME IInv, Close, event' \in Events, DOMAIN event'.targets = {},
           game' \in Contexts, present' \subseteq Guests, passes' \in 0 .. Limit,
           UNCHANGED <<pack, context, begun>>
    PROVE  IInv'
  <1>1. code' \in Seq(Bytes) /\ Len(code') = 0 /\ pc' = 0 /\ scene' = 0
    BY DEF Close
  <1>2. InRange' /\ InsideCode'
    BY <1>1 DEF IInv, InRange, InsideCode
  <1>3. TypeOK'
    BY <1>1, ContextsTyped DEF IInv, TypeOK
  <1> QED BY <1>2, <1>3 DEF IInv

\* What an instruction needs of the bytes it is read from.
LEMMA LegalBytes ==
    ASSUME IInv, NEW opcode, Executes(opcode)
    PROVE  /\ opcode = TEXT => Fits(3)
           /\ opcode = CHOICE => LegalChoice
           /\ opcode = IF_FLAG => Fits(4) /\ InCode(Word(2))
           /\ opcode = IF_RESOURCE => Fits(6) /\ InCode(Word(4))
           /\ opcode = COST => Fits(4) /\ Byte(1) \in Resources
           /\ opcode = REWARD => Fits(4) /\ Byte(1) \in Resources
           /\ opcode \in {SET_FLAG, CLEAR_FLAG} => Fits(2) /\ Byte(1) \in Flags
           /\ opcode = TRUST => Fits(3) /\ Byte(1) \in Guests
           /\ opcode = GOTO => Fits(3) /\ InCode(Word(1))
           /\ opcode = END => Fits(2)
  BY DEF Executes, Legal, LegalCost, TEXT, CHOICE, IF_FLAG, IF_RESOURCE, COST, REWARD,
         SET_FLAG, CLEAR_FLAG, TRUST, GOTO, END
-----------------------------------------------------------------------------
(* One lemma per action *)

LEMMA ZeroIsByte == 0 \in Bytes
  BY DEF Bytes

LEMMA TextKeeps == ASSUME IInv, Text PROVE IInv'
  <1>1. Executes(TEXT) /\ Fits(3)
    BY LegalBytes DEF Text
  <1>2. TypeOK /\ pc \in Nat
    BY DEF IInv, TypeOK
  <1>3. Word(1) \in Nat /\ pc + 3 <= Len(code)
    BY <1>1, <1>2, Operands
  <1>4. event' \in Events /\ DOMAIN event'.targets = {}
    <2>1. event' = [type |-> "TEXT", texts |-> <<Word(1)>>, targets |-> <<>>, result |-> 0]
      BY DEF Text, Nothing
    <2>2. <<Word(1)>> \in Seq(Nat)
      BY <1>3
    <2> QED BY <2>1, <2>2, ZeroIsByte DEF Events
  <1> QED BY <1>1, <1>2, <1>3, <1>4, PassKeepsInv DEF Text, IInv, InRange

LEMMA ChoiceKeeps == ASSUME IInv, Choice PROVE IInv'
  <1>1. Executes(CHOICE) /\ LegalChoice
    BY LegalBytes DEF Choice
  <1>2. TypeOK /\ pc \in Nat
    BY DEF IInv, TypeOK
  <1>3. Byte(1) \in 1 .. 3 /\ Fits(2 + 4 * Byte(1))
    BY <1>1 DEF LegalChoice
  <1>4. \A i \in 0 .. 4 * Byte(1) : Word(i) \in Nat
    <2>1. 2 + 4 * Byte(1) \in Nat
      BY <1>3
    <2> QED BY <1>2, <1>3, <2>1, Operands
  <1>5. \A i \in Options : Word(Option(i)) \in Nat /\ TargetOf(i) \in Nat
    BY <1>3, <1>4 DEF Options, Option, TargetOf
  <1>6. \A i \in Options : TargetOf(i) < Len(code)
    BY <1>1 DEF LegalChoice, InCode
  <1> DEFINE texts == [i \in Options |-> Word(Option(i))]
             targets == [i \in Options |-> TargetOf(i)]
  <1>7. texts \in Seq(Nat) /\ targets \in Seq(Nat)
    <2>1. texts \in [1 .. Byte(1) -> Nat] /\ targets \in [1 .. Byte(1) -> Nat]
      BY <1>5 DEF Options
    <2> QED BY <1>3, <2>1, SeqDef
  <1>8. event' = [Nothing EXCEPT !.type = "CHOICE", !.texts = texts, !.targets = targets]
    BY DEF Choice
  <1>9. event'.targets = targets
    BY <1>8 DEF Nothing
  <1>10. event' \in Events
    <2> HIDE DEF texts, targets
    <2>1. event' = [type |-> "CHOICE", texts |-> texts, targets |-> targets, result |-> 0]
      BY <1>8 DEF Nothing
    <2> QED BY <1>7, <2>1, ZeroIsByte DEF Events
  <1>11. \A i \in DOMAIN event'.targets : event'.targets[i] < Len(code)
    BY <1>6, <1>9
  <1>12. pc' \in Nat /\ pc' <= Len(code)
    BY <1>2, <1>3 DEF Choice, Fits
  <1> QED BY <1>1, <1>10, <1>11, <1>12, PassKeepsInv DEF Choice, IInv, InRange

LEMMA JumpsKeep == ASSUME IInv, IfFlag \/ IfResource \/ Goto PROVE IInv'
  <1>1. TypeOK /\ pc \in Nat /\ Len(code) \in Nat /\ context \in Contexts
    BY LenProperties DEF IInv, TypeOK, InRange
  <1>2. CASE IfFlag
    <2>1. Executes(IF_FLAG) /\ Fits(4) /\ InCode(Word(2))
      BY <1>2, LegalBytes DEF IfFlag
    <2>2. Word(2) \in Nat /\ pc + 4 <= Len(code)
      BY <1>1, <2>1, Operands
    <2> QED BY <1>1, <1>2, <2>1, <2>2, SilentPassKeepsInv DEF IfFlag, InCode
  <1>3. CASE IfResource
    <2>1. Executes(IF_RESOURCE) /\ Fits(6) /\ InCode(Word(4))
      BY <1>3, LegalBytes DEF IfResource
    <2>2. Word(4) \in Nat /\ pc + 6 <= Len(code)
      BY <1>1, <2>1, Operands
    <2> QED BY <1>1, <1>3, <2>1, <2>2, SilentPassKeepsInv DEF IfResource, InCode
  <1>4. CASE Goto
    <2>1. Executes(GOTO) /\ Fits(3) /\ InCode(Word(1))
      BY <1>4, LegalBytes DEF Goto
    <2>2. Word(1) \in Nat
      BY <1>1, <2>1, Operands
    <2> QED BY <1>1, <1>4, <2>1, <2>2, SilentPassKeepsInv DEF Goto, InCode
  <1> QED BY <1>2, <1>3, <1>4

LEMMA GoodsKeep == ASSUME IInv, Cost \/ Reward PROVE IInv'
  <1>1. TypeOK /\ pc \in Nat
    BY DEF IInv, TypeOK
  <1>2. Fits(4) /\ Byte(1) \in Resources
    BY LegalBytes DEF Cost, Reward
  <1>3. Word(2) \in Nat /\ pc + 4 <= Len(code)
    BY <1>1, <1>2, Operands
  <1>4. Signed(Word(2)) \in Int /\ Signed(-Signed(Word(2))) \in Int
    BY <1>3 DEF Signed
  <1>5. context' \in Contexts
    BY <1>2, <1>4, GainInRange DEF Cost, Reward
  <1>6. PICK opcode \in {COST, REWARD} : Executes(opcode)
    BY DEF Cost, Reward
  <1> QED BY <1>1, <1>3, <1>5, <1>6, SilentPassKeepsInv DEF Cost, Reward

LEMMA FlagsKeep == ASSUME IInv, SetFlag \/ ClearFlag PROVE IInv'
  <1>1. TypeOK /\ pc \in Nat /\ context \in Contexts
    BY DEF IInv, TypeOK, InRange
  <1>2. PICK opcode \in {SET_FLAG, CLEAR_FLAG} : Executes(opcode)
    BY DEF SetFlag, ClearFlag
  <1>3. Fits(2) /\ Byte(1) \in Flags
    BY <1>2, LegalBytes
  <1>4. pc + 2 <= Len(code)
    BY <1>1, <1>3, Operands
  <1>5. context' \in Contexts
    BY <1>1, <1>3 DEF SetFlag, ClearFlag, Contexts
  <1> QED BY <1>1, <1>2, <1>4, <1>5, SilentPassKeepsInv DEF SetFlag, ClearFlag

LEMMA TrustKeeps == ASSUME IInv, Trust PROVE IInv'
  <1>1. TypeOK /\ pc \in Nat /\ context \in Contexts
    BY DEF IInv, TypeOK, InRange
  <1>2. Executes(TRUST) /\ Fits(3) /\ Byte(1) \in Guests
    BY LegalBytes DEF Trust
  <1>3. Byte(2) \in Bytes /\ pc + 3 <= Len(code)
    BY <1>1, <1>2, Operands
  <1>4. SignedByte(Byte(2)) \in Int
    BY <1>3, BytesAreNumbers DEF SignedByte
  <1> DEFINE t == context.trust
             new == Trusted(t[Byte(1)], SignedByte(Byte(2)))
  <1>5. t \in [Guests -> 0 .. 3]
    BY <1>1 DEF Contexts
  <1>6. t[Byte(1)] \in Int
    BY <1>2, <1>5
  <1>7. new \in 0 .. 3
    BY <1>4, <1>6, TrustedInRange
  <1>8. context' = [context EXCEPT !.trust = [t EXCEPT ![Byte(1)] = new]]
    BY DEF Trust
  <1>9. [t EXCEPT ![Byte(1)] = new] \in [Guests -> 0 .. 3]
    <2> HIDE DEF new
    <2> QED BY <1>5, <1>7
  <1>10. context' \in Contexts
    <2> HIDE DEF new
    <2> QED BY <1>1, <1>8, <1>9 DEF Contexts
  <1> QED BY <1>1, <1>2, <1>3, <1>10, SilentPassKeepsInv DEF Trust
\* Cutting keys and resolve to a byte cannot take them out of range.
LEMMA AppliedInRange == ASSUME IInv PROVE Applied \in Contexts
  <1>1. context \in Contexts /\ context.goods \in [Resources -> 0 .. CapMax] /\ CapMax \in Nat
    BY SceneVmAssumption DEF IInv, InRange, Contexts
  <1>2. \A n \in 0 .. CapMax : n % 256 \in 0 .. CapMax
    BY <1>1
  <1>3. AppliedGoods \in [Resources -> 0 .. CapMax]
    BY <1>1, <1>2 DEF AppliedGoods
  <1> QED BY <1>1, <1>3 DEF Applied, Contexts

LEMMA EndKeeps == ASSUME IInv, End PROVE IInv'
  <1>1. Executes(END) /\ Fits(2) /\ Close
    BY LegalBytes DEF End
  <1>2. Byte(1) \in Bytes
    BY <1>1, Operands DEF IInv
  <1>3. event' = [type |-> "END", texts |-> <<>>, targets |-> <<>>, result |-> Byte(1)]
    BY DEF End, Nothing
  <1>4. event' \in Events /\ DOMAIN event'.targets = {}
    BY <1>2, <1>3, ZeroIsByte DEF Events
  <1>5. passes' \in 0 .. Limit /\ UNCHANGED <<pack, begun, context>>
    BY <1>1, SceneVmAssumption DEF Executes, End, IInv, TypeOK
  <1>6. game' \in Contexts
    BY AppliedInRange DEF End
  <1>7. present' \subseteq Guests
    BY DEF End, Brought, IInv, TypeOK, Guests, OREN, SERA
  <1> QED BY <1>1, <1>4, <1>5, <1>6, <1>7, CloseKeepsInv

LEMMA ErrorAndStopKeep == ASSUME IInv, Error \/ Stop PROVE IInv'
  <1>1. Close /\ UNCHANGED <<pack, game, present, passes, context, begun>>
    BY DEF Error, Stop
  <1>2. PICK type \in {"NONE", "ERROR"} :
           event' = [type |-> type, texts |-> <<>>, targets |-> <<>>, result |-> 0]
    BY DEF Error, Stop, Nothing
  <1>3. event' \in Events /\ DOMAIN event'.targets = {}
    BY <1>2, ZeroIsByte DEF Events
  <1> QED BY <1>1, <1>3, CloseKeepsInv DEF IInv, TypeOK, InRange

LEMMA BeginKeeps == ASSUME IInv, NEW id \in SceneIds, Begin(id) PROVE IInv'
  <1>1. code' \in Seq(Bytes) /\ Len(code') \in Nat
    BY LoadedCode, LenProperties DEF Begin, IInv, TypeOK
  <1>2. event' \in Events /\ DOMAIN event'.targets = {}
    <2>1. event' = [type |-> "NONE", texts |-> <<>>, targets |-> <<>>, result |-> 0]
      BY DEF Begin, Nothing
    <2> QED BY <2>1, ZeroIsByte DEF Events
  <1>3. InRange'
    BY DEF Begin, IInv, InRange
  <1>4. InsideCode'
    BY <1>1, <1>2 DEF Begin, InsideCode
  <1>5. TypeOK'
    BY <1>1, <1>2, SceneVmAssumption DEF Begin, IInv, TypeOK
  <1> QED BY <1>3, <1>4, <1>5 DEF IInv

LEMMA SelectKeeps ==
    ASSUME IInv, Continue \/ \E i \in DOMAIN event.targets : Choose(i)
    PROVE  IInv'
  <1>1. event' = [type |-> "NONE", texts |-> <<>>, targets |-> <<>>, result |-> 0]
    BY DEF Continue, Choose, Nothing
  <1>3. event' \in Events /\ DOMAIN event'.targets = {}
    BY <1>1, ZeroIsByte DEF Events
  <1>4. UNCHANGED <<pack, game, present, scene, code, context, begun>> /\ passes' = 0
    BY DEF Continue, Choose
  <1>5. pc' \in Nat /\ pc' <= Len(code)
    <2>1. CASE Continue
      BY <2>1 DEF Continue, IInv, InsideCode, TypeOK
    <2>2. CASE \E i \in DOMAIN event.targets : Choose(i)
      <3>1. PICK i \in DOMAIN event.targets : pc' = event.targets[i]
        BY <2>2 DEF Choose
      <3>2. event.targets \in Seq(Nat) /\ event.targets[i] < Len(code)
        BY DEF IInv, TypeOK, Events, InsideCode, InCode
      <3>3. event.targets[i] \in Nat
        BY <3>2, LenProperties
      <3>4. Len(code) \in Nat
        BY LenProperties DEF IInv, TypeOK
      <3> QED BY <3>1, <3>2, <3>3, <3>4
    <2> QED BY <2>1, <2>2
  <1>6. InsideCode'
    BY <1>3, <1>4, <1>5 DEF InsideCode
  <1>7. TypeOK'
    BY <1>3, <1>4, <1>5, SceneVmAssumption DEF IInv, TypeOK
  <1> QED BY <1>4, <1>6, <1>7 DEF IInv, InRange
-----------------------------------------------------------------------------
LEMMA StepKeepsInv == IInv /\ [Next]_vmVars => IInv'
  <1> SUFFICES ASSUME IInv, [Next]_vmVars PROVE IInv'
    OBVIOUS
  <1>1. CASE Pass
    BY <1>1, TextKeeps, ChoiceKeeps, JumpsKeep, GoodsKeep, FlagsKeep, TrustKeeps,
       EndKeeps, ErrorAndStopKeep DEF Pass
  <1>2. CASE \E id \in SceneIds : Begin(id)
    BY <1>2, BeginKeeps
  <1>3. CASE Continue \/ (\E i \in DOMAIN event.targets : Choose(i))
    BY <1>3, SelectKeeps
  <1>4. CASE Stop
    BY <1>4, ErrorAndStopKeep
  <1>5. CASE UNCHANGED vmVars
    <2>1. UNCHANGED <<pack, game, present, scene, code, pc, event, passes, context, begun>>
      BY <1>5 DEF vmVars, machine
    <2> QED BY <2>1 DEF IInv, TypeOK, InRange, InsideCode, InCode
  <1> QED BY <1>1, <1>2, <1>3, <1>4, <1>5 DEF Next

\* The invariant of the machine, for every pack and every game.
THEOREM Invariant == Spec => []IInv
  BY InitInv, StepKeepsInv, PTL DEF Spec

\* SceneVm's variables keep their types, so no operand is ever read beyond the
\* code (scene_vm.c:8-24).
THEOREM TypeCorrect == Spec => []TypeOK
  <1>1. IInv => TypeOK
    BY DEF IInv
  <1> QED BY <1>1, Invariant, PTL

\* Whatever the bytes, pc and every choice lead into the code
\* (scene_vm.c:76-82, 90-94, 104-109, 162-165).
THEOREM StaysInsideCode == Spec => []InsideCode
  <1>1. IInv => InsideCode
    BY DEF IInv
  <1> QED BY <1>1, Invariant, PTL

\* Whatever the bytes, goods stay between 0 and the cap and trust between 0
\* and 3, in the context and in the game (scene_vm.c:32-41, 113-128, 151-157).
THEOREM StaysInRange == Spec => []InRange
  <1>1. IInv => InRange
    BY DEF IInv
  <1> QED BY <1>1, Invariant, PTL

\* A text the tested reader finds lies within the directory the other one reads.
LEMMA TextsAgree ==
    ASSUME NEW s, s.bytes \in Seq(Bytes), s.size \in Nat,
           s.size >= 6 => Len(s.bytes) >= 6,
           NEW id \in Nat, NEW buffer, FindsText(s, id, buffer)
    PROVE  LoadsText(s, id, buffer)
  <1>1. /\ HasMagic(s, StringMagic, 6) /\ s.size >= 6
        /\ id < U16(s.bytes, 4) /\ s.size >= 6 + 3 * U16(s.bytes, 4)
        /\ TextInside(s, id) /\ TextLength(s, id) + 1 <= buffer
    BY DEF FindsText, HasMagic
  <1>2. U16(s.bytes, 4) \in Nat
    <2>1. Len(s.bytes) \in Nat /\ Len(s.bytes) >= 6
      BY <1>1, LenProperties
    <2>2. 4 \in 0 .. Len(s.bytes) - 2
      BY <2>1
    <2> QED BY <2>2, WordIsWord
  <1>3. s.size >= TextEntry(id) + 3
    BY <1>1, <1>2 DEF TextEntry
  <1> QED BY <1>1, <1>3 DEF LoadsText

\* A scene the tested reader finds is the entry the other one stops at.
LEMMA ScenesAgree ==
    ASSUME NEW p \in Packs, NEW id, FindScene(p, id).ok,
           Len(FindScene(p, id).code) \in 1 .. CodeMax
    PROVE  LoadScene(p, id) = FindScene(p, id)
  <1> DEFINE Found == { i \in 0 .. U8(p.bytes, 4) - 1 :
                            /\ IsFirst(p, i, id)
                            /\ \A j \in 0 .. i : EntryInside(p, j) }
             Loaded == { i \in 0 .. U8(p.bytes, 4) - 1 :
                            /\ p.size >= Entry(p, i) + 5
                            /\ IsFirst(p, i, id)
                            /\ EntryLength(p, i) \in 1 .. CodeMax
                            /\ EntryInside(p, i) }
             i == CHOOSE j \in Found : TRUE
             k == CHOOSE j \in Loaded : TRUE
  <1>1. /\ HasMagic(p, SceneMagic, 5) /\ p.size >= 5 + 5 * U8(p.bytes, 4)
        /\ Found # {}
    BY Zenon DEF FindScene, Unreadable, Readable
  <1>2. i \in Found
    BY <1>1
  <1>3. FindScene(p, id) = Readable(CodeOf(p, i))
    BY <1>1, Zenon DEF FindScene
  <1>4. p.bytes \in Seq(Bytes) /\ p.size = Len(p.bytes) /\ Len(p.bytes) \in Nat
    BY SceneVmAssumption, LenProperties
  <1>5. U8(p.bytes, 4) \in Nat
    <2>1. 4 \in 0 .. Len(p.bytes) - 1
      BY <1>1, <1>4 DEF HasMagic
    <2> QED BY <1>4, <2>1, ByteIsByte, BytesAreNumbers
  <1>6. /\ i \in Nat /\ i < U8(p.bytes, 4)
        /\ IsFirst(p, i, id) /\ EntryInside(p, i)
    BY <1>2, <1>5
  <1> HIDE DEF i
  <1>7. p.size >= Entry(p, i) + 5
    BY <1>1, <1>4, <1>5, <1>6 DEF Entry
  <1>8. EntryOffset(p, i) \in Nat /\ EntryLength(p, i) \in Nat
    <2>1. /\ Entry(p, i) + 1 \in 0 .. Len(p.bytes) - 2
          /\ Entry(p, i) + 3 \in 0 .. Len(p.bytes) - 2
      BY <1>4, <1>6, <1>7 DEF Entry
    <2> QED BY <1>4, <2>1, WordIsWord DEF EntryOffset, EntryLength
  <1>9. Len(CodeOf(p, i)) = EntryLength(p, i)
    <2>1. PICK o \in Nat, l \in Nat : o = EntryOffset(p, i) /\ l = EntryLength(p, i)
      BY <1>8
    <2>2. o + l <= Len(p.bytes)
      BY <1>4, <1>6, <2>1 DEF EntryInside
    <2>3. \A j \in o + 1 .. o + l : p.bytes[j] \in Bytes
      BY <1>4, <2>2, ElementOfSeq
    <2>4. Len(SubSeq(p.bytes, o + 1, o + l)) = IF o + 1 <= o + l THEN o + l - (o + 1) + 1 ELSE 0
      <3>1. o + 1 \in Int /\ o + l \in Int
        BY <2>1
      <3> QED BY <2>3, <3>1, SubSeqProperties
    <2> QED BY <2>1, <2>4 DEF CodeOf
  <1>10. EntryLength(p, i) \in 1 .. CodeMax
    BY <1>3, <1>9 DEF Readable
  <1>11. i \in Loaded
    BY <1>2, <1>6, <1>7, <1>10
  <1>12. k \in Loaded
    BY <1>11
  <1> HIDE DEF k
  <1>13. k = i
    <2>1. k \in Nat /\ IsFirst(p, k, id)
      BY <1>5, <1>12
    <2> QED BY <1>6, <2>1 DEF IsFirst
  <1>14. LoadScene(p, id) = Readable(CodeOf(p, k))
    <2> HIDE DEF Found
    <2> QED BY <1>1, <1>11, Zenon DEF LoadScene, k
  <1> QED BY <1>3, <1>13, <1>14

\* Whatever the packs hold, the reader that runs finds what the tested one finds
\* (content_format.c:9-57, main.c:929-957, 1269-1297).
THEOREM BothReadersAgree == Spec => []ReadersAgree
  <1>1. IInv => ReadersAgree
    <2> SUFFICES ASSUME IInv PROVE ReadersAgree
      OBVIOUS
    <2>1. PICK p \in Packs : p = pack
      BY DEF IInv, TypeOK
    <2>2. ASSUME NEW id \in SceneIds, FindScene(p, id).ok,
                 Len(FindScene(p, id).code) \in 1 .. CodeMax
          PROVE  LoadScene(p, id) = FindScene(p, id)
      BY <2>2, ScenesAgree
    <2>3. ASSUME NEW i \in DOMAIN event.texts, NEW size \in {ChoiceSize, PageSize},
                 FindsText(Strings[pack], event.texts[i], size)
          PROVE  LoadsText(Strings[pack], event.texts[i], size)
      <3>1. event.texts \in Seq(Nat)
        BY DEF IInv, TypeOK, Events
      <3>2. PICK n \in Nat : n = event.texts[i]
        BY <3>1, LenProperties
      <3>3. PICK s : s = Strings[p]
        OBVIOUS
      <3>4. s.bytes \in Seq(Bytes) /\ s.size \in Nat /\ (s.size >= 6 => Len(s.bytes) >= 6)
        BY <3>3, SceneVmAssumption
      <3> QED BY <2>1, <2>3, <3>2, <3>3, <3>4, TextsAgree
    <2> QED BY <2>1, <2>2, <2>3 DEF ReadersAgree
  <1> QED BY <1>1, Invariant, PTL
-----------------------------------------------------------------------------
(* The shipped scenes, in every game.  A run stands at a point of the        *)
(* certificate, and the context is the game with what that point has taken   *)
(* and given.                                                                *)

Stands(p) ==
    /\ game.goods[CLARITY] \in p.clarities
    /\ game.goods[CLARITY] >= p.taken.clarityCost
    /\ game.goods[THREAD] >= p.taken.threadCost
    /\ context.goods[CLARITY] =
          Exchange!AtMostCap(game.goods[CLARITY] - p.taken.clarityCost + p.taken.clarity)
    /\ context.goods[THREAD] =
          Exchange!AtMostCap(game.goods[THREAD] - p.taken.threadCost + p.taken.thread)
    /\ context.goods[REMNANTS] = Exchange!AtMostCap(game.goods[REMNANTS] + p.taken.remnants)
    /\ context.goods[KEYS] <= game.goods[KEYS] + p.keys
    /\ context.goods[RESOLVE] = game.goods[RESOLVE]

\* The points of the scene that is open.
Known == Certificate[pack][scene]

\* A run is at a point, and so is every run SELECT can begin.
OnCourse ==
    /\ LoadScene(pack, scene).ok
    /\ code = LoadScene(pack, scene).code
    /\ \/ event.type = "NONE" /\ \E p \in Known : p.pc = pc /\ p.passes = passes /\ Stands(p)
       \/ event.type = "TEXT" /\ \E p \in Known : p.pc = pc /\ p.passes = 0 /\ Stands(p)
       \/ /\ event.type = "CHOICE"
          /\ \A i \in DOMAIN event.targets : \E p \in Known :
                p.pc = event.targets[i] /\ p.passes = 0 /\ Stands(p)

\* The keys of the scenes to come, the open one among them, still fit.
RoomLeft ==
    /\ game.goods[KEYS] + (ScenesMax - begun) + (IF scene = 0 THEN 0 ELSE 1) <= 255
    /\ game.goods[RESOLVE] <= ResolveMax

CInv == pack \in Shipped =>
    /\ scene # 0 => OnCourse
    /\ scene = 0 => event.type \notin {"TEXT", "CHOICE"}
    /\ RoomLeft
    /\ TextsRead
    /\ AppliedWhole

\* What the certificate says of the point a run stands at.
LEMMA PointAt ==
    ASSUME TypeOK, CInv, pack \in Shipped, Running
    PROVE  \E p \in Known : /\ p.pc = pc /\ p.passes = passes /\ Stands(p)
                            /\ p \in Points
                            /\ Certain(code, Strings[pack], Exchange!LandmarkOf(scene), p)
                            /\ Followers(code, p) \subseteq Known
  <1>1. scene \in SceneIds /\ OnCourse
    BY DEF TypeOK, CInv, Running
  <1>2. PICK p \in Known : p.pc = pc /\ p.passes = passes /\ Stands(p)
    BY <1>1 DEF OnCourse, Running
  <1>3. Certain(code, Strings[pack], Exchange!LandmarkOf(scene), p)
    BY <1>1, <1>2, Certified, Zenon DEF OnCourse, Known
  <1>4. Followers(code, p) \subseteq Known
    BY <1>1, <1>2, Certified, Zenon DEF OnCourse, Known
  <1>5. p \in Points
    BY <1>3, Zenon DEF Certain
  <1> QED BY <1>2, <1>3, <1>4, <1>5

\* The point a scene begins at.
LEMMA StartKnown ==
    ASSUME NEW p \in Shipped, NEW id \in SceneIds, LoadScene(p, id).ok
    PROVE  Start \in Certificate[p][id]
  BY Certified

\* The instruction at a point is the one the machine reads.
LEMMA SameBytes ==
    ASSUME NEW p, p.pc = pc
    PROVE  /\ \A i : ByteAt(code, p, i) = Byte(i)
           /\ \A i : WordAt(code, p, i) = Word(i)
           /\ AmountAt(code, p) = Signed(Word(2))
  BY DEF ByteAt, WordAt, AmountAt, Byte, Word

LEMMA FollowersOf ==
    ASSUME NEW bytes, NEW p
    PROVE  /\ ByteAt(bytes, p, 0) = TEXT => Followers(bytes, p) = { Anew(p, p.pc + 3) }
           /\ ByteAt(bytes, p, 0) = CHOICE => Followers(bytes, p) =
                 { Anew(p, WordAt(bytes, p, Option(i) + 2)) : i \in 1 .. ByteAt(bytes, p, 1) }
           /\ ByteAt(bytes, p, 0) = IF_FLAG => Followers(bytes, p) =
                 { To(p, WordAt(bytes, p, 2)), To(p, p.pc + 4) }
           /\ ByteAt(bytes, p, 0) = IF_RESOURCE => Followers(bytes, p) =
                 { Among(To(p, WordAt(bytes, p, 4)),
                         { c \in p.clarities : c >= AmountAt(bytes, p) }),
                   Among(To(p, p.pc + 6),
                         { c \in p.clarities : c < AmountAt(bytes, p) }) }
           /\ ByteAt(bytes, p, 0) = COST => Followers(bytes, p) =
                 { Having(To(p, p.pc + 4),
                          Charged(p.taken, ByteAt(bytes, p, 1), AmountAt(bytes, p)), p.keys) }
           /\ ByteAt(bytes, p, 0) = REWARD => Followers(bytes, p) =
                 { Having(To(p, p.pc + 4),
                          Given(p.taken, ByteAt(bytes, p, 1), AmountAt(bytes, p)),
                          IF ByteAt(bytes, p, 1) = KEYS THEN p.keys + AmountAt(bytes, p)
                                                        ELSE p.keys) }
           /\ ByteAt(bytes, p, 0) \in {SET_FLAG, CLEAR_FLAG} =>
                 Followers(bytes, p) = { To(p, p.pc + 2) }
           /\ ByteAt(bytes, p, 0) = TRUST => Followers(bytes, p) = { To(p, p.pc + 3) }
           /\ ByteAt(bytes, p, 0) = GOTO =>
                 Followers(bytes, p) = { To(p, WordAt(bytes, p, 1)) }
  BY DEF Followers, TEXT, CHOICE, IF_FLAG, IF_RESOURCE, COST, REWARD, SET_FLAG, CLEAR_FLAG,
         TRUST, GOTO

\* What a certain instruction of each kind is known to be.
LEMMA CertainOf ==
    ASSUME NEW bytes, NEW texts, NEW landmark, NEW p, Certain(bytes, texts, landmark, p)
    PROVE  /\ p.passes < Limit /\ p.pc + 1 <= Len(bytes)
           /\ ByteAt(bytes, p, 0) \in TEXT .. END
           /\ ByteAt(bytes, p, 0) = TEXT =>
                 /\ p.pc + 3 <= Len(bytes)
                 /\ LoadsText(texts, WordAt(bytes, p, 1), PageSize)
           /\ ByteAt(bytes, p, 0) = CHOICE =>
                 /\ p.pc + 2 <= Len(bytes) /\ ByteAt(bytes, p, 1) \in 1 .. 3
                 /\ p.pc + (2 + 4 * ByteAt(bytes, p, 1)) <= Len(bytes)
                 /\ \A i \in 1 .. ByteAt(bytes, p, 1) :
                       /\ WordAt(bytes, p, Option(i) + 2) < Len(bytes)
                       /\ LoadsText(texts, WordAt(bytes, p, Option(i)), ChoiceSize)
           /\ ByteAt(bytes, p, 0) = IF_FLAG =>
                 p.pc + 4 <= Len(bytes) /\ ByteAt(bytes, p, 1) \in Flags
                 /\ WordAt(bytes, p, 2) < Len(bytes)
           /\ ByteAt(bytes, p, 0) = IF_RESOURCE =>
                 /\ p.pc + 6 <= Len(bytes) /\ WordAt(bytes, p, 4) < Len(bytes)
                 /\ ByteAt(bytes, p, 1) = CLARITY
                 /\ p.taken.clarityCost = 0 /\ p.taken.clarity = 0
           /\ ByteAt(bytes, p, 0) = COST =>
                 p.pc + 4 <= Len(bytes) /\ CertainCost(bytes, landmark, p)
           /\ ByteAt(bytes, p, 0) = REWARD =>
                 /\ p.pc + 4 <= Len(bytes)
                 /\ ByteAt(bytes, p, 1) \in Resources \ {RESOLVE} /\ AmountAt(bytes, p) >= 0
           /\ ByteAt(bytes, p, 0) \in {SET_FLAG, CLEAR_FLAG} =>
                 p.pc + 2 <= Len(bytes) /\ ByteAt(bytes, p, 1) \in Flags
           /\ ByteAt(bytes, p, 0) = TRUST =>
                 p.pc + 3 <= Len(bytes) /\ ByteAt(bytes, p, 1) \in Guests
           /\ ByteAt(bytes, p, 0) = GOTO =>
                 p.pc + 3 <= Len(bytes) /\ WordAt(bytes, p, 1) < Len(bytes)
           /\ ByteAt(bytes, p, 0) = END =>
                 /\ p.pc + 2 <= Len(bytes)
                 /\ \A c \in p.clarities :
                       [p.taken EXCEPT !.result = ByteAt(bytes, p, 1)]
                          \in Exchange!SceneEnds(landmark, c)
  BY DEF Certain, TEXT, CHOICE, IF_FLAG, IF_RESOURCE, COST, REWARD, SET_FLAG, CLEAR_FLAG,
         TRUST, GOTO, END

LEMMA Moved ==
    ASSUME NEW p \in Points, NEW n
    PROVE  /\ To(p, n).pc = n /\ Anew(p, n).pc = n
           /\ To(p, n).passes = p.passes + 1 /\ Anew(p, n).passes = 0
           /\ To(p, n).taken = p.taken /\ Anew(p, n).taken = p.taken
           /\ To(p, n).keys = p.keys /\ Anew(p, n).keys = p.keys
           /\ To(p, n).clarities = p.clarities /\ Anew(p, n).clarities = p.clarities
  BY DEF Points, To, Anew

LEMMA Changed ==
    ASSUME NEW p \in Points, NEW n, NEW clarities, NEW taken, NEW keys
    PROVE  /\ Among(To(p, n), clarities).pc = n
           /\ Among(To(p, n), clarities).passes = p.passes + 1
           /\ Among(To(p, n), clarities).taken = p.taken
           /\ Among(To(p, n), clarities).keys = p.keys
           /\ Among(To(p, n), clarities).clarities = clarities
           /\ Having(To(p, n), taken, keys).pc = n
           /\ Having(To(p, n), taken, keys).passes = p.passes + 1
           /\ Having(To(p, n), taken, keys).taken = taken
           /\ Having(To(p, n), taken, keys).keys = keys
           /\ Having(To(p, n), taken, keys).clarities = p.clarities
  BY DEF Points, To, Among, Having

\* A point where nothing more has been taken is one where nothing more is owed.
LEMMA StandsOn ==
    ASSUME NEW p, NEW q, Stands(p), q.taken = p.taken, q.keys = p.keys,
           game.goods[CLARITY] \in q.clarities,
           game' = game, context'.goods = context.goods
    PROVE  Stands(q)'
  BY Zenon DEF Stands

\* A pass that shows nothing keeps to the course if a point follows.
LEMMA SilentOnCourse ==
    ASSUME TypeOK, CInv, pack \in Shipped, NEW opcode, Executes(opcode),
           UNCHANGED <<game, scene, code, event>>,
           NEW q \in Known, q.pc = pc', q.passes = passes', Stands(q)'
    PROVE  CInv'
  <1>1. /\ UNCHANGED <<pack, game, scene, code, event, begun>>
        /\ scene # 0 /\ event.type = "NONE"
        /\ OnCourse /\ RoomLeft
    BY DEF Executes, Running, CInv
  <1>2. Known' = Known
    BY <1>1 DEF Known
  <1>3. OnCourse'
    BY <1>1, <1>2 DEF OnCourse
  <1>4. RoomLeft'
    BY <1>1 DEF RoomLeft
  <1>5. TextsRead' /\ AppliedWhole'
    BY <1>1 DEF TextsRead, AppliedWhole
  <1> QED BY <1>1, <1>3, <1>4, <1>5 DEF CInv

\* Of a point of the course: the machine reads the same instruction there.
LEMMA ReadAt ==
    ASSUME TypeOK, CInv, pack \in Shipped, NEW opcode, Executes(opcode)
    PROVE  \E p \in Known :
              /\ p \in Points /\ p.pc = pc /\ p.passes = passes /\ Stands(p)
              /\ Certain(code, Strings[pack], Exchange!LandmarkOf(scene), p)
              /\ Followers(code, p) \subseteq Known
              /\ ByteAt(code, p, 0) = opcode
              /\ \A i : ByteAt(code, p, i) = Byte(i)
              /\ \A i : WordAt(code, p, i) = Word(i)
              /\ AmountAt(code, p) = Signed(Word(2))
              /\ passes' = p.passes + 1
  <1>1. Running /\ Byte(0) = opcode /\ passes' = passes + 1
    BY DEF Executes
  <1>2. PICK p \in Known : /\ p.pc = pc /\ p.passes = passes /\ Stands(p)
                           /\ p \in Points
                           /\ Certain(code, Strings[pack], Exchange!LandmarkOf(scene), p)
                           /\ Followers(code, p) \subseteq Known
    BY <1>1, PointAt
  <1>3. /\ \A i : ByteAt(code, p, i) = Byte(i)
        /\ \A i : WordAt(code, p, i) = Word(i)
        /\ AmountAt(code, p) = Signed(Word(2))
    BY <1>2, SameBytes
  <1>4. ByteAt(code, p, 0) = opcode
    BY <1>1, <1>3
  <1> QED BY <1>1, <1>2, <1>3, <1>4

\* A pass that touches no good keeps to the course wherever the run goes on.
LEMMA MoveOnCourse ==
    ASSUME TypeOK, CInv, pack \in Shipped, NEW opcode, Executes(opcode),
           UNCHANGED <<game, scene, code, event>>, context'.goods = context.goods,
           NEW p \in Points, Stands(p), passes' = p.passes + 1, To(p, pc') \in Known
    PROVE  CInv'
  <1>1. PICK n : n = pc'
    OBVIOUS
  <1>2. PICK q : q = To(p, n)
    OBVIOUS
  <1>3. /\ q.pc = n /\ q.passes = passes' /\ q.taken = p.taken /\ q.keys = p.keys
        /\ q.clarities = p.clarities
    BY <1>2, Moved
  <1>4. Stands(q)'
    <2>1. game.goods[CLARITY] \in q.clarities /\ game' = game
      BY <1>3 DEF Stands
    <2> QED BY <1>3, <2>1, StandsOn
  <1>5. q \in Known
    BY <1>1, <1>2
  <1> QED BY <1>1, <1>3, <1>4, <1>5, SilentOnCourse

LEMMA JumpsOnCourse ==
    ASSUME IInv, CInv, pack \in Shipped, IfFlag \/ IfResource \/ Goto
    PROVE  CInv'
  <1>1. TypeOK /\ pc \in Nat
    BY DEF IInv, TypeOK
  <1>2. CASE IfFlag
    <2>1. /\ Executes(IF_FLAG) /\ UNCHANGED <<game, scene, code, event, context>>
          /\ pc' \in {Word(2), pc + 4}
      BY <1>2 DEF IfFlag
    <2>2. PICK p \in Known :
              /\ p \in Points /\ p.pc = pc /\ Stands(p) /\ Followers(code, p) \subseteq Known
              /\ ByteAt(code, p, 0) = IF_FLAG
              /\ WordAt(code, p, 2) = Word(2) /\ passes' = p.passes + 1
      BY <1>1, <2>1, ReadAt
    <2>3. Followers(code, p) = { To(p, WordAt(code, p, 2)), To(p, p.pc + 4) }
      BY <2>2, FollowersOf
    <2>4. To(p, pc') \in Known
      BY <2>1, <2>2, <2>3
    <2> QED BY <1>1, <2>1, <2>2, <2>4, MoveOnCourse
  <1>3. CASE Goto
    <2>1. /\ Executes(GOTO) /\ UNCHANGED <<game, scene, code, event, context>>
          /\ pc' = Word(1)
      BY <1>3 DEF Goto
    <2>2. PICK p \in Known :
              /\ p \in Points /\ p.pc = pc /\ Stands(p) /\ Followers(code, p) \subseteq Known
              /\ ByteAt(code, p, 0) = GOTO
              /\ WordAt(code, p, 1) = Word(1) /\ passes' = p.passes + 1
      BY <1>1, <2>1, ReadAt
    <2>3. Followers(code, p) = { To(p, WordAt(code, p, 1)) }
      BY <2>2, FollowersOf
    <2>4. To(p, pc') \in Known
      BY <2>1, <2>2, <2>3
    <2> QED BY <1>1, <2>1, <2>2, <2>4, MoveOnCourse
  <1>4. CASE IfResource
    <2>1. /\ Executes(IF_RESOURCE) /\ UNCHANGED <<game, scene, code, event, context>>
          /\ pc' = IF context.goods[Byte(1)] >= Signed(Word(2)) THEN Word(4) ELSE pc + 6
      BY <1>4 DEF IfResource
    <2>2. PICK p \in Known :
              /\ p \in Points /\ p.pc = pc /\ Stands(p) /\ Followers(code, p) \subseteq Known
              /\ Certain(code, Strings[pack], Exchange!LandmarkOf(scene), p)
              /\ ByteAt(code, p, 0) = IF_RESOURCE /\ ByteAt(code, p, 1) = Byte(1)
              /\ WordAt(code, p, 4) = Word(4) /\ AmountAt(code, p) = Signed(Word(2))
              /\ passes' = p.passes + 1
      BY <1>1, <2>1, ReadAt
    <2> DEFINE amount == Signed(Word(2))
               enough == { c \in p.clarities : c >= amount }
               short == { c \in p.clarities : c < amount }
    <2>3. /\ Among(To(p, Word(4)), enough) \in Known
          /\ Among(To(p, pc + 6), short) \in Known
      <3>1. Followers(code, p) =
               { Among(To(p, WordAt(code, p, 4)),
                       { c \in p.clarities : c >= AmountAt(code, p) }),
                 Among(To(p, p.pc + 6), { c \in p.clarities : c < AmountAt(code, p) }) }
        BY <2>2, FollowersOf
      <3>2. Followers(code, p) = { Among(To(p, Word(4)), enough), Among(To(p, pc + 6), short) }
        BY <2>2, <3>1
      <3> QED BY <2>2, <3>2
    <2>4. Byte(1) = CLARITY /\ p.taken.clarityCost = 0 /\ p.taken.clarity = 0
      BY <2>2, CertainOf
    <2>5. context.goods[CLARITY] = game.goods[CLARITY] /\ game.goods[CLARITY] \in 0 .. CapMax
      <3>1. game.goods[CLARITY] \in 0 .. CapMax /\ CapMax \in Nat
        BY SceneVmAssumption DEF IInv, InRange, Contexts, Resources, CLARITY
      <3>2. context.goods[CLARITY] = Exchange!AtMostCap(game.goods[CLARITY] - 0 + 0)
        BY <2>2, <2>4 DEF Stands
      <3> QED BY <3>1, <3>2 DEF Exchange!AtMostCap
    <2>6. amount \in Int
      <3>1. Fits(6)
        BY <2>1, LegalBytes
      <3>2. Word(2) \in Nat
        BY <1>1, <3>1, Operands
      <3> QED BY <3>2 DEF Signed
    <2>7. PICK n, c : /\ n = pc' /\ Among(To(p, n), c) \in Known
                      /\ game.goods[CLARITY] \in c
      <3>1. game.goods[CLARITY] \in p.clarities
        BY <2>2 DEF Stands
      <3>2. CASE game.goods[CLARITY] >= amount
        BY <2>1, <2>3, <2>4, <2>5, <3>1, <3>2
      <3>3. CASE ~(game.goods[CLARITY] >= amount)
        <4>1. game.goods[CLARITY] < amount
          BY <2>5, <2>6, <3>3
        <4> QED BY <2>1, <2>3, <2>4, <2>5, <3>1, <3>3, <4>1
      <3> QED BY <3>2, <3>3
    <2>8. PICK q : q = Among(To(p, n), c)
      OBVIOUS
    <2>9. q.pc = n /\ q.passes = passes' /\ q.taken = p.taken /\ q.keys = p.keys /\ q.clarities = c
      BY <2>2, <2>8, Changed
    <2>10. Stands(q)'
      BY <2>1, <2>2, <2>7, <2>9, StandsOn
    <2> QED BY <1>1, <2>1, <2>7, <2>8, <2>9, <2>10, SilentOnCourse
  <1> QED BY <1>2, <1>3, <1>4

LEMMA FlagsOnCourse ==
    ASSUME IInv, CInv, pack \in Shipped, SetFlag \/ ClearFlag \/ Trust
    PROVE  CInv'
  <1>1. TypeOK /\ pc \in Nat
    BY DEF IInv, TypeOK
  <1>2. CASE SetFlag \/ ClearFlag
    <2>1. PICK opcode \in {SET_FLAG, CLEAR_FLAG} : Executes(opcode)
      BY <1>2 DEF SetFlag, ClearFlag
    <2>2. UNCHANGED <<game, scene, code, event>> /\ pc' = pc + 2
      BY <1>2 DEF SetFlag, ClearFlag
    <2>3. context'.goods = context.goods
      BY <1>2 DEF SetFlag, ClearFlag, IInv, InRange, Contexts
    <2>4. PICK p \in Known :
              /\ p \in Points /\ p.pc = pc /\ Stands(p) /\ Followers(code, p) \subseteq Known
              /\ ByteAt(code, p, 0) = opcode /\ passes' = p.passes + 1
      BY <1>1, <2>1, ReadAt
    <2>5. To(p, pc') \in Known
      BY <2>2, <2>4, FollowersOf
    <2> QED BY <1>1, <2>1, <2>2, <2>3, <2>4, <2>5, MoveOnCourse
  <1>3. CASE Trust
    <2>1. Executes(TRUST) /\ UNCHANGED <<game, scene, code, event>> /\ pc' = pc + 3
      BY <1>3 DEF Trust
    <2>2. context'.goods = context.goods
      BY <1>3 DEF Trust, IInv, InRange, Contexts
    <2>3. PICK p \in Known :
              /\ p \in Points /\ p.pc = pc /\ Stands(p) /\ Followers(code, p) \subseteq Known
              /\ ByteAt(code, p, 0) = TRUST /\ passes' = p.passes + 1
      BY <1>1, <2>1, ReadAt
    <2>4. To(p, pc') \in Known
      BY <2>1, <2>3, FollowersOf
    <2> QED BY <1>1, <2>1, <2>2, <2>3, <2>4, MoveOnCourse
  <1> QED BY <1>2, <1>3

\* The goods of a game are numbers up to the cap, and so are those of a context.
LEMMA GoodsTyped ==
    ASSUME IInv
    PROVE  /\ CapMax \in Nat
           /\ \A r \in Resources : game.goods[r] \in 0 .. CapMax /\ context.goods[r] \in 0 .. CapMax
  BY SceneVmAssumption DEF IInv, InRange, Contexts

\* What an end asks for and gives is numbers.
LEMMA TakenTyped ==
    ASSUME NEW p \in Points
    PROVE  /\ p.taken.clarityCost \in Nat /\ p.taken.clarity \in Nat
           /\ p.taken.threadCost \in Nat /\ p.taken.thread \in Nat
           /\ p.taken.remnants \in Nat /\ p.keys \in {0, 1}
           /\ p.passes \in 0 .. Limit
  BY DEF Points, Exchange!Ends

\* A cost of a good of which nothing was given yet, in numbers.
LEMMA Spent ==
    ASSUME CapMax \in Nat, NEW x \in Int, x >= 0, x <= CapMax,
           NEW cost \in Int, cost >= 0, NEW amount \in Int, amount >= 0,
           x - cost >= amount
    PROVE  /\ x >= cost + amount
           /\ Capped(x - cost, -amount) = Exchange!AtMostCap(x - (cost + amount) + 0)
  BY DEF Capped, Exchange!AtMostCap

LEMMA Negated ==
    ASSUME NEW amount \in Int, amount >= 0, amount <= 32767
    PROVE  Signed(-amount) = -amount
  BY DEF Signed

LEMMA SignedTops ==
    ASSUME NEW n \in Nat
    PROVE  Signed(n) \in Int /\ Signed(n) <= 32767
  BY DEF Signed

LEMMA CostOnCourse ==
    ASSUME IInv, CInv, pack \in Shipped, Cost
    PROVE  CInv'
  <1>1. TypeOK /\ pc \in Nat
    BY DEF IInv, TypeOK
  <1>2. /\ Executes(COST) /\ UNCHANGED <<game, scene, code, event>>
        /\ Gain(Signed(-Signed(Word(2)))) /\ pc' = pc + 4
    BY DEF Cost
  <1>3. PICK p \in Known :
            /\ p \in Points /\ p.pc = pc /\ Stands(p) /\ Followers(code, p) \subseteq Known
            /\ Certain(code, Strings[pack], Exchange!LandmarkOf(scene), p)
            /\ ByteAt(code, p, 0) = COST /\ ByteAt(code, p, 1) = Byte(1)
            /\ AmountAt(code, p) = Signed(Word(2))
            /\ passes' = p.passes + 1
    BY <1>1, <1>2, ReadAt
  <1>13. PICK good, amount, q :
            /\ good = Byte(1) /\ amount = Signed(Word(2))
            /\ q = Having(To(p, pc + 4), Charged(p.taken, good, amount), p.keys)
    OBVIOUS
  <1>4. q \in Known
    <2>1. Followers(code, p) =
             { Having(To(p, p.pc + 4),
                      Charged(p.taken, ByteAt(code, p, 1), AmountAt(code, p)), p.keys) }
      BY <1>3, FollowersOf
    <2> QED BY <1>3, <1>13, <2>1
  <1>5. /\ q.pc = pc' /\ q.passes = passes' /\ q.taken = Charged(p.taken, good, amount)
        /\ q.keys = p.keys /\ q.clarities = p.clarities
    BY <1>2, <1>3, <1>13, Changed
  <1>6. /\ good \in {CLARITY, THREAD}
        /\ good = CLARITY => p.taken.clarity = 0
        /\ good = THREAD => p.taken.thread = 0
        /\ amount >= 0
    <2>1. CertainCost(code, Exchange!LandmarkOf(scene), p)
      BY <1>3, CertainOf
    <2> QED BY <1>3, <1>13, <2>1 DEF CertainCost
  <1>7. LegalCost
    BY <1>2 DEF Executes, Legal, TEXT, CHOICE, IF_FLAG, IF_RESOURCE, COST, REWARD,
               SET_FLAG, CLEAR_FLAG, TRUST, GOTO, END
  <1>8. amount \in 0 .. 32767 /\ Signed(-amount) = -amount
    <2>1. Word(2) \in Nat
      BY <1>1, <1>7, Operands DEF LegalCost
    <2>2. amount \in Int /\ amount <= 32767
      BY <1>13, <2>1, SignedTops
    <2>3. Signed(-amount) = -amount
      BY <1>6, <2>2, Negated
    <2> QED BY <1>6, <2>2, <2>3
  <1>9. context.goods[good] >= amount
    BY <1>7, <1>13 DEF LegalCost
  <1>10. context'.goods = [context.goods EXCEPT ![good] = Capped(@, -amount)]
    BY <1>2, <1>8, <1>13 DEF Gain, IInv, InRange, Contexts
  <1>11. \A r \in Resources : context'.goods[r] =
            IF r = good THEN Capped(context.goods[good], -amount) ELSE context.goods[r]
    BY <1>6, <1>10 DEF IInv, InRange, Contexts
  <1>12. Stands(q)'
    <2>1. /\ game.goods[CLARITY] \in 0 .. CapMax /\ game.goods[THREAD] \in 0 .. CapMax
          /\ CapMax \in Nat
      BY GoodsTyped DEF Resources, CLARITY, THREAD
    <2>2. /\ q.clarities = p.clarities /\ q.keys = p.keys /\ game' = game
          /\ context'.goods[REMNANTS] = context.goods[REMNANTS]
          /\ context'.goods[KEYS] = context.goods[KEYS]
          /\ context'.goods[RESOLVE] = context.goods[RESOLVE]
      BY <1>2, <1>5, <1>6, <1>11 DEF Resources, CLARITY, THREAD, REMNANTS, KEYS, RESOLVE
    <2>3. p.taken \in Exchange!Ends
      BY <1>3 DEF Points
    <2>4. CASE good = CLARITY
      <3>1. /\ q.taken.clarityCost = p.taken.clarityCost + amount
            /\ q.taken.clarity = 0 /\ p.taken.clarity = 0
            /\ q.taken.threadCost = p.taken.threadCost /\ q.taken.thread = p.taken.thread
            /\ q.taken.remnants = p.taken.remnants
        BY <1>5, <1>6, <2>3, <2>4 DEF Charged, Exchange!Ends, CLARITY, THREAD
      <3>2. /\ context.goods[CLARITY] = game.goods[CLARITY] - p.taken.clarityCost
            /\ p.taken.clarityCost \in Nat
        BY <1>3, <2>1, <3>1, TakenTyped DEF Stands, Exchange!AtMostCap
      <3>3. game.goods[CLARITY] - p.taken.clarityCost >= amount /\ amount \in Nat
        BY <1>8, <1>9, <2>4, <3>2
      <3>4. /\ game.goods[CLARITY] >= p.taken.clarityCost + amount
            /\ Capped(game.goods[CLARITY] - p.taken.clarityCost, -amount) =
                  Exchange!AtMostCap(game.goods[CLARITY] - (p.taken.clarityCost + amount) + 0)
        <4>1. PICK x \in Int : x = game.goods[CLARITY] /\ x >= 0 /\ x <= CapMax
          BY <2>1
        <4>2. PICK cost \in Int : cost = p.taken.clarityCost /\ cost >= 0
          BY <3>2
        <4>3. amount \in Int /\ amount >= 0 /\ x - cost >= amount
          BY <3>3, <4>1, <4>2
        <4> QED BY <2>1, <4>1, <4>2, <4>3, Spent
      <3>5. context'.goods[CLARITY] = Capped(context.goods[CLARITY], -amount)
        BY <1>11, <2>4 DEF Resources, CLARITY, THREAD
      <3>6. context'.goods[THREAD] = context.goods[THREAD]
        BY <1>11, <2>4 DEF Resources, CLARITY, THREAD
      <3>7. /\ game.goods[CLARITY] >= q.taken.clarityCost
            /\ context'.goods[CLARITY] =
                  Exchange!AtMostCap(game.goods[CLARITY] - q.taken.clarityCost + q.taken.clarity)
        BY <3>1, <3>2, <3>4, <3>5
      <3> QED BY <1>3, <2>2, <3>1, <3>6, <3>7 DEF Stands
    <2>5. CASE good = THREAD
      <3>1. /\ q.taken.threadCost = p.taken.threadCost + amount
            /\ q.taken.thread = 0 /\ p.taken.thread = 0
            /\ q.taken.clarityCost = p.taken.clarityCost /\ q.taken.clarity = p.taken.clarity
            /\ q.taken.remnants = p.taken.remnants
        BY <1>5, <1>6, <2>3, <2>5 DEF Charged, Exchange!Ends, CLARITY, THREAD
      <3>2. /\ context.goods[THREAD] = game.goods[THREAD] - p.taken.threadCost
            /\ p.taken.threadCost \in Nat
        BY <1>3, <2>1, <3>1, TakenTyped DEF Stands, Exchange!AtMostCap
      <3>3. game.goods[THREAD] - p.taken.threadCost >= amount /\ amount \in Nat
        BY <1>8, <1>9, <2>5, <3>2
      <3>4. /\ game.goods[THREAD] >= p.taken.threadCost + amount
            /\ Capped(game.goods[THREAD] - p.taken.threadCost, -amount) =
                  Exchange!AtMostCap(game.goods[THREAD] - (p.taken.threadCost + amount) + 0)
        <4>1. PICK x \in Int : x = game.goods[THREAD] /\ x >= 0 /\ x <= CapMax
          BY <2>1
        <4>2. PICK cost \in Int : cost = p.taken.threadCost /\ cost >= 0
          BY <3>2
        <4>3. amount \in Int /\ amount >= 0 /\ x - cost >= amount
          BY <3>3, <4>1, <4>2
        <4> QED BY <2>1, <4>1, <4>2, <4>3, Spent
      <3>5. context'.goods[THREAD] = Capped(context.goods[THREAD], -amount)
        BY <1>11, <2>5 DEF Resources, CLARITY, THREAD
      <3>6. context'.goods[CLARITY] = context.goods[CLARITY]
        BY <1>11, <2>5 DEF Resources, CLARITY, THREAD
      <3>7. /\ game.goods[THREAD] >= q.taken.threadCost
            /\ context'.goods[THREAD] =
                  Exchange!AtMostCap(game.goods[THREAD] - q.taken.threadCost + q.taken.thread)
        BY <3>1, <3>2, <3>4, <3>5
      <3> QED BY <1>3, <2>2, <3>1, <3>6, <3>7 DEF Stands
    <2> QED BY <1>6, <2>4, <2>5
  <1> QED BY <1>1, <1>2, <1>4, <1>5, <1>12, SilentOnCourse

\* A gain on top of others, in numbers: the cap is where they all end.
LEMMA Gained ==
    ASSUME CapMax \in Nat, NEW y \in Int, y >= 0, NEW amount \in Int, amount >= 0
    PROVE  Capped(Exchange!AtMostCap(y), amount) = Exchange!AtMostCap(y + amount)
  BY DEF Capped, Exchange!AtMostCap

LEMMA RewardOnCourse ==
    ASSUME IInv, CInv, pack \in Shipped, Reward
    PROVE  CInv'
  <1>1. TypeOK /\ pc \in Nat
    BY DEF IInv, TypeOK
  <1>2. /\ Executes(REWARD) /\ UNCHANGED <<game, scene, code, event>>
        /\ Gain(Signed(Word(2))) /\ pc' = pc + 4
    BY DEF Reward
  <1>3. PICK p \in Known :
            /\ p \in Points /\ p.pc = pc /\ Stands(p) /\ Followers(code, p) \subseteq Known
            /\ Certain(code, Strings[pack], Exchange!LandmarkOf(scene), p)
            /\ ByteAt(code, p, 0) = REWARD /\ ByteAt(code, p, 1) = Byte(1)
            /\ AmountAt(code, p) = Signed(Word(2))
            /\ passes' = p.passes + 1
    BY <1>1, <1>2, ReadAt
  <1>4. PICK good, amount, q :
            /\ good = Byte(1) /\ amount = Signed(Word(2))
            /\ q = Having(To(p, pc + 4), Given(p.taken, good, amount),
                          IF good = KEYS THEN p.keys + amount ELSE p.keys)
    OBVIOUS
  <1>5. q \in Known
    <2>1. Followers(code, p) =
             { Having(To(p, p.pc + 4),
                      Given(p.taken, ByteAt(code, p, 1), AmountAt(code, p)),
                      IF ByteAt(code, p, 1) = KEYS THEN p.keys + AmountAt(code, p)
                                                   ELSE p.keys) }
      BY <1>3, FollowersOf
    <2> QED BY <1>3, <1>4, <2>1
  <1>6. /\ q.pc = pc' /\ q.passes = passes' /\ q.clarities = p.clarities
        /\ q.taken = Given(p.taken, good, amount)
        /\ q.keys = IF good = KEYS THEN p.keys + amount ELSE p.keys
    BY <1>2, <1>3, <1>4, Changed
  <1>7. good \in Resources \ {RESOLVE} /\ amount \in Int /\ amount >= 0
    <2>1. good \in Resources \ {RESOLVE} /\ amount >= 0
      BY <1>3, <1>4, CertainOf
    <2>2. Word(2) \in Nat
      BY <1>1, <1>2, LegalBytes, Operands
    <2> QED BY <1>4, <2>1, <2>2, SignedTops
  <1>8. \A r \in Resources : context'.goods[r] =
           IF r = good THEN Capped(context.goods[good], amount) ELSE context.goods[r]
    <2>1. context'.goods = [context.goods EXCEPT ![good] = Capped(@, amount)]
      BY <1>2, <1>4 DEF Gain, IInv, InRange, Contexts
    <2> QED BY <1>7, <2>1 DEF IInv, InRange, Contexts
  <1>9. Stands(q)'
    <2>1. /\ CapMax \in Nat /\ game' = game
          /\ \A r \in {CLARITY, THREAD, REMNANTS, KEYS} :
                game.goods[r] \in Int /\ game.goods[r] >= 0 /\ context.goods[r] \in Int
                /\ context.goods[r] >= 0 /\ context.goods[r] <= CapMax
      BY <1>2, GoodsTyped DEF Resources, CLARITY, THREAD, REMNANTS, KEYS
    <2>2. /\ p.taken.clarityCost \in Int /\ p.taken.clarity \in Int /\ p.taken.clarity >= 0
          /\ p.taken.threadCost \in Int /\ p.taken.thread \in Int /\ p.taken.thread >= 0
          /\ p.taken.remnants \in Int /\ p.taken.remnants >= 0
          /\ p.keys \in Int
      BY <1>3, TakenTyped
    <2>3. /\ q.taken.clarityCost = p.taken.clarityCost /\ q.taken.threadCost = p.taken.threadCost
          /\ q.taken.clarity =
                IF good = CLARITY THEN p.taken.clarity + amount ELSE p.taken.clarity
          /\ q.taken.thread = IF good = THREAD THEN p.taken.thread + amount ELSE p.taken.thread
          /\ q.taken.remnants =
                IF good = REMNANTS THEN p.taken.remnants + amount ELSE p.taken.remnants
      <3>1. p.taken \in Exchange!Ends
        BY <1>3 DEF Points
      <3> QED BY <1>6, <3>1 DEF Given, Exchange!Ends, CLARITY, THREAD, REMNANTS
    <2>4. /\ game.goods[CLARITY] \in q.clarities
          /\ game.goods[CLARITY] >= q.taken.clarityCost
          /\ game.goods[THREAD] >= q.taken.threadCost
      BY <1>3, <1>6, <2>3 DEF Stands
    <2>5. context'.goods[CLARITY] =
             Exchange!AtMostCap(game.goods[CLARITY] - q.taken.clarityCost + q.taken.clarity)
      <3>1. PICK y \in Int :
               /\ y = game.goods[CLARITY] - p.taken.clarityCost + p.taken.clarity /\ y >= 0
               /\ context.goods[CLARITY] = Exchange!AtMostCap(y)
        BY <1>3, <2>1, <2>2 DEF Stands
      <3>2. CASE good = CLARITY
        <4>1. context'.goods[CLARITY] = Exchange!AtMostCap(y + amount)
          BY <1>7, <1>8, <2>1, <3>1, <3>2, Gained DEF Resources, CLARITY
        <4>2. y + amount = game.goods[CLARITY] - q.taken.clarityCost + q.taken.clarity
          BY <1>7, <2>1, <2>2, <2>3, <3>1, <3>2
        <4> QED BY <4>1, <4>2
      <3>3. CASE good # CLARITY
        BY <1>8, <2>3, <3>1, <3>3 DEF Resources, CLARITY
      <3> QED BY <3>2, <3>3
    <2>6. context'.goods[THREAD] =
             Exchange!AtMostCap(game.goods[THREAD] - q.taken.threadCost + q.taken.thread)
      <3>1. PICK y \in Int :
               /\ y = game.goods[THREAD] - p.taken.threadCost + p.taken.thread /\ y >= 0
               /\ context.goods[THREAD] = Exchange!AtMostCap(y)
        BY <1>3, <2>1, <2>2 DEF Stands
      <3>2. CASE good = THREAD
        <4>1. context'.goods[THREAD] = Exchange!AtMostCap(y + amount)
          BY <1>7, <1>8, <2>1, <3>1, <3>2, Gained DEF Resources, THREAD
        <4>2. y + amount = game.goods[THREAD] - q.taken.threadCost + q.taken.thread
          BY <1>7, <2>1, <2>2, <2>3, <3>1, <3>2
        <4> QED BY <4>1, <4>2
      <3>3. CASE good # THREAD
        BY <1>8, <2>3, <3>1, <3>3 DEF Resources, THREAD
      <3> QED BY <3>2, <3>3
    <2>7. context'.goods[REMNANTS] =
             Exchange!AtMostCap(game.goods[REMNANTS] + q.taken.remnants)
      <3>1. PICK y \in Int :
               /\ y = game.goods[REMNANTS] + p.taken.remnants /\ y >= 0
               /\ context.goods[REMNANTS] = Exchange!AtMostCap(y)
        BY <1>3, <2>1, <2>2 DEF Stands
      <3>2. CASE good = REMNANTS
        <4>1. context'.goods[REMNANTS] = Exchange!AtMostCap(y + amount)
          BY <1>7, <1>8, <2>1, <3>1, <3>2, Gained DEF Resources, REMNANTS
        <4>2. y + amount = game.goods[REMNANTS] + q.taken.remnants
          BY <1>7, <2>1, <2>2, <2>3, <3>1, <3>2
        <4> QED BY <4>1, <4>2
      <3>3. CASE good # REMNANTS
        BY <1>8, <2>3, <3>1, <3>3 DEF Resources, REMNANTS
      <3> QED BY <3>2, <3>3
    <2>8. context'.goods[KEYS] <= game.goods[KEYS] + q.keys
      <3>1. context.goods[KEYS] <= game.goods[KEYS] + p.keys
        BY <1>3 DEF Stands
      <3>2. /\ Capped(context.goods[KEYS], amount) \in Int
            /\ Capped(context.goods[KEYS], amount) <= context.goods[KEYS] + amount
        BY <1>7, <2>1 DEF Capped
      <3>3. CASE good = KEYS
        <4>1. context'.goods[KEYS] = Capped(context.goods[KEYS], amount)
          BY <1>8, <3>3 DEF Resources, KEYS
        <4> QED BY <1>6, <1>7, <2>1, <2>2, <3>1, <3>2, <3>3, <4>1
      <3>4. CASE good # KEYS
        BY <1>6, <1>8, <3>1, <3>4 DEF Resources, KEYS
      <3> QED BY <3>3, <3>4
    <2>9. context'.goods[RESOLVE] = game.goods[RESOLVE]
      BY <1>3, <1>7, <1>8 DEF Stands, Resources, RESOLVE
    <2> QED BY <2>1, <2>4, <2>5, <2>6, <2>7, <2>8, <2>9 DEF Stands
  <1> QED BY <1>1, <1>2, <1>5, <1>6, <1>9, SilentOnCourse

LEMMA TextOnCourse == ASSUME IInv, CInv, pack \in Shipped, Text PROVE CInv'
  <1>1. TypeOK /\ pc \in Nat
    BY DEF IInv, TypeOK
  <1>2. /\ Executes(TEXT) /\ UNCHANGED <<pack, game, scene, code, context, begun>>
        /\ pc' = pc + 3 /\ event'.type = "TEXT" /\ event'.texts = <<Word(1)>>
    BY DEF Text, Executes, Nothing
  <1>3. PICK p \in Known :
            /\ p \in Points /\ p.pc = pc /\ Stands(p) /\ Followers(code, p) \subseteq Known
            /\ Certain(code, Strings[pack], Exchange!LandmarkOf(scene), p)
            /\ ByteAt(code, p, 0) = TEXT /\ WordAt(code, p, 1) = Word(1)
    BY <1>1, <1>2, ReadAt
  <1>4. PICK q : q = Anew(p, pc + 3)
    OBVIOUS
  <1>5. q \in Known
    <2>1. Followers(code, p) = { Anew(p, p.pc + 3) }
      BY <1>3, FollowersOf
    <2> QED BY <1>3, <1>4, <2>1
  <1>6. q.pc = pc' /\ q.passes = 0 /\ q.taken = p.taken /\ q.keys = p.keys
        /\ q.clarities = p.clarities
    BY <1>2, <1>3, <1>4, Moved
  <1>7. Stands(q)'
    <2>1. game.goods[CLARITY] \in q.clarities
      BY <1>3, <1>6 DEF Stands
    <2> QED BY <1>2, <1>3, <1>6, <2>1, StandsOn
  <1>8. LoadsText(Strings[pack], Word(1), PageSize)
    BY <1>3, CertainOf
  <1>9. scene # 0 /\ OnCourse /\ RoomLeft
    BY <1>2 DEF Executes, Running, CInv
  <1>10. OnCourse'
    <2>1. Known' = Known
      BY <1>2 DEF Known
    <2>2. \E r \in Known' : r.pc = pc' /\ r.passes = 0 /\ Stands(r)'
      BY <1>5, <1>6, <1>7, <2>1
    <2> QED BY <1>2, <1>9, <2>2 DEF OnCourse
  <1>11. TextsRead' /\ AppliedWhole' /\ RoomLeft'
    BY <1>2, <1>8, <1>9 DEF TextsRead, AppliedWhole, RoomLeft
  <1> QED BY <1>2, <1>9, <1>10, <1>11 DEF CInv

LEMMA ChoiceOnCourse == ASSUME IInv, CInv, pack \in Shipped, Choice PROVE CInv'
  <1>1. TypeOK /\ pc \in Nat
    BY DEF IInv, TypeOK
  <1>2. /\ Executes(CHOICE) /\ UNCHANGED <<pack, game, scene, code, context, begun>>
        /\ event'.type = "CHOICE"
        /\ event'.texts = [i \in Options |-> Word(Option(i))]
        /\ event'.targets = [i \in Options |-> TargetOf(i)]
    BY DEF Choice, Executes, Nothing
  <1>3. PICK p \in Known :
            /\ p \in Points /\ p.pc = pc /\ Stands(p) /\ Followers(code, p) \subseteq Known
            /\ Certain(code, Strings[pack], Exchange!LandmarkOf(scene), p)
            /\ ByteAt(code, p, 0) = CHOICE /\ ByteAt(code, p, 1) = Byte(1)
            /\ \A i : WordAt(code, p, i) = Word(i)
    BY <1>1, <1>2, ReadAt
  <1>4. Followers(code, p) =
           { Anew(p, WordAt(code, p, Option(i) + 2)) : i \in 1 .. ByteAt(code, p, 1) }
    BY <1>3, FollowersOf
  <1>5. ASSUME NEW i \in Options
        PROVE  /\ LoadsText(Strings[pack], Word(Option(i)), ChoiceSize)
               /\ \E q \in Known : q.pc = TargetOf(i) /\ q.passes = 0 /\ Stands(q)'
    <2>1. LoadsText(Strings[pack], WordAt(code, p, Option(i)), ChoiceSize)
      BY <1>3, CertainOf DEF Options
    <2>2. PICK q : q = Anew(p, Word(Option(i) + 2))
      OBVIOUS
    <2>3. q \in Known
      BY <1>3, <1>4, <2>2 DEF Options
    <2>4. q.pc = TargetOf(i) /\ q.passes = 0 /\ q.taken = p.taken /\ q.keys = p.keys
          /\ q.clarities = p.clarities
      BY <1>3, <2>2, Moved DEF TargetOf
    <2>5. Stands(q)'
      <3>1. game.goods[CLARITY] \in q.clarities
        BY <1>3, <2>4 DEF Stands
      <3> QED BY <1>2, <1>3, <2>4, <3>1, StandsOn
    <2> QED BY <1>3, <2>1, <2>3, <2>4, <2>5
  <1>6. scene # 0 /\ OnCourse /\ RoomLeft
    BY <1>2 DEF Executes, Running, CInv
  <1>7. OnCourse'
    <2>1. Known' = Known
      BY <1>2 DEF Known
    <2>2. \A i \in DOMAIN event'.targets : \E r \in Known' :
             r.pc = event'.targets[i] /\ r.passes = 0 /\ Stands(r)'
      BY <1>2, <1>5, <2>1
    <2> QED BY <1>2, <1>6, <2>2 DEF OnCourse
  <1>8. TextsRead' /\ AppliedWhole' /\ RoomLeft'
    <2>1. \A i \in DOMAIN event'.texts : LoadsText(Strings[pack], event'.texts[i], ChoiceSize)
      BY <1>2, <1>5
    <2> QED BY <1>2, <1>6, <2>1 DEF TextsRead, AppliedWhole, RoomLeft
  <1> QED BY <1>2, <1>6, <1>7, <1>8 DEF CInv

\* Keys and resolve fit in a byte, so applying a context cuts nothing off.
LEMMA WholeContext ==
    ASSUME IInv, context.goods[KEYS] <= 255, context.goods[RESOLVE] <= 255
    PROVE  Applied = context
  <1>1. context \in [goods : [Resources -> 0 .. CapMax], flags : SUBSET Flags,
                     trust : [Guests -> 0 .. 3]]
    BY DEF IInv, InRange, Contexts
  <1>2. \A n \in Int : 0 <= n /\ n <= 255 => n % 256 = n
    OBVIOUS
  <1>3. \A r \in {KEYS, RESOLVE} :
           context.goods[r] \in Int /\ 0 <= context.goods[r] /\ context.goods[r] <= 255
    BY GoodsTyped DEF Resources, KEYS, RESOLVE
  <1>4. \A r \in Resources : AppliedGoods[r] = context.goods[r]
    BY <1>2, <1>3 DEF AppliedGoods
  <1>5. AppliedGoods = context.goods
    BY <1>1, <1>4 DEF AppliedGoods
  <1> QED BY <1>1, <1>5 DEF Applied

\* The end of a scene: what the point has taken and given is one of its ends.
LEMMA EndOnCourse ==
    ASSUME IInv, CInv, pack \in Shipped, End
    PROVE  /\ CInv'
           /\ \E end \in Exchange!SceneEnds(Exchange!LandmarkOf(scene), game.goods[CLARITY]) :
                 Exchange!Settle(end)
  <1>1. TypeOK /\ pc \in Nat /\ begun \in 0 .. ScenesMax /\ ScenesMax \in Nat
    BY SceneVmAssumption DEF IInv, TypeOK
  <1>2. /\ Executes(END) /\ UNCHANGED <<pack, begun, context>> /\ game' = Applied
        /\ scene' = 0 /\ event'.type = "END" /\ event'.result = Byte(1)
    BY DEF End, Executes, Nothing, Close
  <1>3. PICK p \in Known :
            /\ p \in Points /\ p.pc = pc /\ Stands(p) /\ Followers(code, p) \subseteq Known
            /\ Certain(code, Strings[pack], Exchange!LandmarkOf(scene), p)
            /\ ByteAt(code, p, 0) = END /\ ByteAt(code, p, 1) = Byte(1)
    BY <1>1, <1>2, ReadAt
  <1>4. scene # 0 /\ RoomLeft
    BY <1>2 DEF Executes, Running, CInv
  <1>5. /\ game.goods[KEYS] \in Nat /\ context.goods[KEYS] \in Nat
        /\ context.goods[KEYS] <= game.goods[KEYS] + 1
        /\ context.goods[RESOLVE] = game.goods[RESOLVE] /\ game.goods[RESOLVE] \in Nat
    <2>1. /\ game.goods[KEYS] \in Nat /\ context.goods[KEYS] \in Nat
          /\ game.goods[RESOLVE] \in Nat
      BY GoodsTyped DEF Resources, KEYS, RESOLVE
    <2>2. p.keys \in {0, 1}
      BY <1>3, TakenTyped
    <2> QED BY <1>3, <2>1, <2>2 DEF Stands
  <1>6. game' = context
    <2>1. context.goods[KEYS] <= 255 /\ context.goods[RESOLVE] <= 255
      BY <1>1, <1>4, <1>5, GamesLeaveRoom, SceneVmAssumption DEF RoomLeft
    <2> QED BY <1>2, <2>1, WholeContext
  <1>7. CInv'
    <2>1. RoomLeft'
      BY <1>1, <1>2, <1>4, <1>5, <1>6 DEF RoomLeft
    <2>2. AppliedWhole' /\ TextsRead'
      BY <1>2, <1>4, <1>5, <1>6 DEF AppliedWhole, TextsRead, RoomLeft
    <2> QED BY <1>2, <2>1, <2>2 DEF CInv
  <1>8. PICK end : end = [p.taken EXCEPT !.result = Byte(1)]
    OBVIOUS
  <1>9. end \in Exchange!SceneEnds(Exchange!LandmarkOf(scene), game.goods[CLARITY])
    <2>1. game.goods[CLARITY] \in p.clarities
      BY <1>3 DEF Stands
    <2> QED BY <1>3, <1>8, <2>1, CertainOf
  <1>10. /\ end.clarityCost = p.taken.clarityCost /\ end.clarity = p.taken.clarity
         /\ end.threadCost = p.taken.threadCost /\ end.thread = p.taken.thread
         /\ end.remnants = p.taken.remnants /\ end.result = Byte(1)
    <2>1. p.taken \in Exchange!Ends
      BY <1>3 DEF Points
    <2> QED BY <1>8, <2>1 DEF Exchange!Ends
  <1>11. Exchange!Settle(end)
    BY <1>2, <1>3, <1>6, <1>10 DEF Stands, Exchange!Settle, Exchange!Payable
  <1> QED BY <1>7, <1>9, <1>11

\* An error: of the shipped scenes only a cost can fail, and then the end that
\* asks for it cannot be paid.
LEMMA OnlyCostsFail ==
    ASSUME IInv, CInv, pack \in Shipped, Running, passes = Limit \/ ~Legal
    PROVE  \E end \in Exchange!SceneEnds(Exchange!LandmarkOf(scene), game.goods[CLARITY]) :
              ~Exchange!Payable(end)
  <1>1. TypeOK /\ pc \in Nat /\ Len(code) \in Nat
    BY LenProperties DEF IInv, TypeOK
  <1>2. PICK p \in Known : /\ p.pc = pc /\ p.passes = passes /\ Stands(p)
                           /\ p \in Points
                           /\ Certain(code, Strings[pack], Exchange!LandmarkOf(scene), p)
    BY <1>1, PointAt
  <1>3. /\ \A i : ByteAt(code, p, i) = Byte(i)
        /\ \A i : WordAt(code, p, i) = Word(i)
        /\ AmountAt(code, p) = Signed(Word(2))
    BY <1>2, SameBytes
  <1>4. passes # Limit
    <2>1. p.passes < Limit /\ p.passes \in Int /\ Limit \in Int
      <3>1. p.passes < Limit
        BY <1>2, CertainOf
      <3>2. p.passes \in Nat /\ Limit \in Nat
        BY <1>2, TakenTyped, SceneVmAssumption
      <3> QED BY <3>1, <3>2
    <2> QED BY <1>2, <2>1
  <1>5. Fits(1) /\ Byte(0) \in TEXT .. END
    BY <1>2, <1>3, CertainOf DEF Fits
  <1>6. ASSUME Byte(0) # COST PROVE Legal
    <2>1. CASE Byte(0) = CHOICE
      BY <1>2, <1>3, <1>5, <2>1, CertainOf
         DEF Legal, LegalChoice, Fits, InCode, Options, TargetOf
    <2>2. CASE Byte(0) = IF_RESOURCE
      <3>1. Fits(6) /\ Byte(1) = CLARITY /\ InCode(Word(4))
        <4>1. /\ ByteAt(code, p, 0) = IF_RESOURCE /\ ByteAt(code, p, 1) = Byte(1)
              /\ WordAt(code, p, 4) = Word(4)
          BY <1>3, <2>2
        <4>2. /\ p.pc + 6 <= Len(code) /\ WordAt(code, p, 4) < Len(code)
              /\ ByteAt(code, p, 1) = CLARITY
          BY <1>2, <4>1, CertainOf, Zenon
        <4> QED BY <1>2, <4>1, <4>2 DEF Fits, InCode
      <3>2. CLARITY \in Resources
        BY DEF Resources, CLARITY
      <3> QED BY <1>5, <2>2, <3>1, <3>2 DEF Legal
    <2>3. CASE Byte(0) = REWARD
      BY <1>2, <1>3, <1>5, <2>3, CertainOf DEF Legal, Fits
    <2>4. CASE Byte(0) \in {TEXT, IF_FLAG, SET_FLAG, CLEAR_FLAG, TRUST, GOTO, END}
      BY <1>2, <1>3, <1>5, <2>4, CertainOf DEF Legal, Fits, InCode
    <2>5. Byte(0) \in {TEXT, CHOICE, IF_FLAG, IF_RESOURCE, COST, REWARD, SET_FLAG,
                       CLEAR_FLAG, TRUST, GOTO, END}
      BY <1>5 DEF TEXT, CHOICE, IF_FLAG, IF_RESOURCE, COST, REWARD, SET_FLAG, CLEAR_FLAG,
                  TRUST, GOTO, END
    <2> QED BY <1>6, <2>1, <2>2, <2>3, <2>4, <2>5
  <1>7. Byte(0) = COST /\ ~LegalCost
    BY <1>4, <1>5, <1>6 DEF Legal
  <1>8. Fits(4) /\ CertainCost(code, Exchange!LandmarkOf(scene), p)
    BY <1>2, <1>3, <1>7, CertainOf DEF Fits
  <1>9. PICK good, amount : good = Byte(1) /\ amount = Signed(Word(2))
    OBVIOUS
  <1>10. /\ good \in {CLARITY, THREAD} /\ amount >= 0 /\ amount \in Int
         /\ good = CLARITY => p.taken.clarity = 0
         /\ good = THREAD => p.taken.thread = 0
    <2>1. Word(2) \in Nat
      BY <1>1, <1>8, Operands
    <2>2. amount \in Int
      BY <1>9, <2>1, SignedTops
    <2> QED BY <1>3, <1>8, <1>9, <2>2 DEF CertainCost
  <1>11. game.goods[CLARITY] \in p.clarities
    BY <1>2 DEF Stands
  <1>12. PICK end \in Exchange!SceneEnds(Exchange!LandmarkOf(scene), game.goods[CLARITY]) :
            /\ end.clarityCost >= Charged(p.taken, good, amount).clarityCost
            /\ end.threadCost >= Charged(p.taken, good, amount).threadCost
            /\ end \in Exchange!Ends
    BY <1>3, <1>8, <1>9, <1>11 DEF CertainCost
  <1>13. ~(context.goods[good] >= amount)
    BY <1>7, <1>8, <1>9, <1>10 DEF LegalCost, Resources, CLARITY, THREAD
  <1>14. ~Exchange!Payable(end)
    <2>1. p.taken \in Exchange!Ends
      BY <1>2 DEF Points
    <2>2. /\ game.goods[CLARITY] \in 0 .. CapMax /\ game.goods[THREAD] \in 0 .. CapMax
          /\ CapMax \in Nat
      BY GoodsTyped DEF Resources, CLARITY, THREAD
    <2>3. CASE good = CLARITY
      <3>1. context.goods[CLARITY] = game.goods[CLARITY] - p.taken.clarityCost
        BY <1>2, <1>10, <2>2, <2>3, TakenTyped DEF Stands, Exchange!AtMostCap
      <3>2. end.clarityCost >= p.taken.clarityCost + amount
        BY <1>12, <2>1, <2>3 DEF Charged, Exchange!Ends
      <3>3. p.taken.clarityCost \in Nat
        BY <1>2, TakenTyped
      <3> QED BY <1>10, <1>12, <1>13, <2>2, <2>3, <3>1, <3>2, <3>3
              DEF Exchange!Payable, Exchange!Ends
    <2>4. CASE good = THREAD
      <3>1. context.goods[THREAD] = game.goods[THREAD] - p.taken.threadCost
        BY <1>2, <1>10, <2>2, <2>4, TakenTyped DEF Stands, Exchange!AtMostCap
      <3>2. end.threadCost >= p.taken.threadCost + amount
        BY <1>12, <2>1, <2>4 DEF Charged, Exchange!Ends, CLARITY, THREAD
      <3>3. p.taken.threadCost \in Nat
        BY <1>2, TakenTyped
      <3> QED BY <1>10, <1>12, <1>13, <2>2, <2>4, <3>1, <3>2, <3>3
              DEF Exchange!Payable, Exchange!Ends
    <2> QED BY <1>10, <2>3, <2>4
  <1> QED BY <1>14

LEMMA BeginOnCourse ==
    ASSUME IInv, CInv, pack \in Shipped, NEW id \in SceneIds, Begin(id)
    PROVE  CInv'
  <1>1. /\ UNCHANGED <<pack, game, present>> /\ scene = 0 /\ scene' = id
        /\ LoadScene(pack, id).ok /\ code' = LoadScene(pack, id).code
        /\ pc' = 0 /\ passes' = 0 /\ context' = game /\ begun' = begun + 1
        /\ event'.type = "NONE" /\ begun \in 0 .. ScenesMax /\ ScenesMax \in Nat
        /\ begun < ScenesMax
    BY SceneVmAssumption DEF Begin, Nothing, IInv, TypeOK
  <1>2. Start \in Certificate[pack][id]
    BY <1>1, StartKnown
  <1>3. Start \in Points
    BY <1>1, Certified, Zenon DEF Certain
  <1>4. /\ Start.pc = 0 /\ Start.passes = 0 /\ Start.keys = 0
        /\ Start.clarities = 0 .. CapMax
        /\ Start.taken.clarityCost = 0 /\ Start.taken.clarity = 0
        /\ Start.taken.threadCost = 0 /\ Start.taken.thread = 0 /\ Start.taken.remnants = 0
    BY DEF Start, Exchange!Plain
  <1>5. PICK start : start = Start
    OBVIOUS
  <1>6. Stands(start)'
    <2>1. /\ CapMax \in Nat /\ game.goods[KEYS] \in Int
          /\ \A r \in {CLARITY, THREAD, REMNANTS} : game.goods[r] \in 0 .. CapMax
      BY GoodsTyped DEF Resources, CLARITY, THREAD, REMNANTS, KEYS
    <2>2. \A n \in 0 .. CapMax : /\ n = Exchange!AtMostCap(n - 0 + 0)
                                 /\ n = Exchange!AtMostCap(n + 0) /\ n >= 0
      BY <2>1 DEF Exchange!AtMostCap
    <2> QED BY <1>1, <1>4, <1>5, <2>1, <2>2 DEF Stands
  <1>7. OnCourse'
    <2>1. Known' = Certificate[pack][id]
      BY <1>1 DEF Known
    <2>2. \E p \in Known' : p.pc = pc' /\ p.passes = passes' /\ Stands(p)'
      BY <1>1, <1>2, <1>4, <1>5, <1>6, <2>1
    <2> QED BY <1>1, <2>2 DEF OnCourse
  <1>8. RoomLeft'
    <2>1. RoomLeft /\ game.goods[KEYS] \in Int
      BY GoodsTyped DEF CInv, Resources, KEYS
    <2> QED BY <1>1, <2>1 DEF RoomLeft
  <1>9. TextsRead' /\ AppliedWhole'
    BY <1>1 DEF TextsRead, AppliedWhole
  <1>10. scene' # 0 \/ event'.type \notin {"TEXT", "CHOICE"}
    BY <1>1
  <1> QED BY <1>1, <1>7, <1>8, <1>9, <1>10 DEF CInv

LEMMA SelectOnCourse ==
    ASSUME IInv, CInv, pack \in Shipped, Continue \/ \E i \in DOMAIN event.targets : Choose(i)
    PROVE  CInv'
  <1>1. /\ UNCHANGED <<pack, game, scene, code, context, begun>>
        /\ passes' = 0 /\ event'.type = "NONE" /\ scene # 0
    BY DEF Continue, Choose, Nothing
  <1>2. OnCourse /\ RoomLeft
    BY <1>1 DEF CInv
  <1>3. \E p \in Known : p.pc = pc' /\ p.passes = 0 /\ Stands(p)
    <2>1. CASE Continue
      BY <1>2, <2>1 DEF Continue, OnCourse
    <2>2. CASE \E i \in DOMAIN event.targets : Choose(i)
      <3>1. PICK i \in DOMAIN event.targets : Choose(i)
        BY <2>2
      <3>2. event.type = "CHOICE" /\ pc' = event.targets[i]
        BY <3>1 DEF Choose
      <3> QED BY <1>2, <3>2 DEF OnCourse
    <2> QED BY <2>1, <2>2
  <1>4. OnCourse'
    <2>1. PICK p \in Known : p.pc = pc' /\ p.passes = 0 /\ Stands(p)
      BY <1>3
    <2>2. Known' = Known /\ Stands(p)'
      BY <1>1, <2>1 DEF Known, Stands
    <2> QED BY <1>1, <1>2, <2>1, <2>2 DEF OnCourse
  <1>5. TextsRead' /\ AppliedWhole' /\ RoomLeft'
    BY <1>1, <1>2 DEF TextsRead, AppliedWhole, RoomLeft
  <1> QED BY <1>1, <1>4, <1>5 DEF CInv

\* A scene that is left half-way leaves the game as it is.
LEMMA LeavingOnCourse ==
    ASSUME IInv, CInv, pack \in Shipped, Error \/ Stop
    PROVE  CInv'
  <1>1. /\ UNCHANGED <<pack, game, begun>> /\ scene # 0 /\ scene' = 0
        /\ event'.type \in {"ERROR", "NONE"}
    BY DEF Error, Stop, Running, Close, Nothing
  <1>2. RoomLeft'
    <2>1. RoomLeft /\ game.goods[KEYS] \in Int /\ begun \in Int /\ ScenesMax \in Int
      BY GoodsTyped, SceneVmAssumption DEF CInv, Resources, KEYS, IInv, TypeOK
    <2> QED BY <1>1, <2>1 DEF RoomLeft
  <1>3. TextsRead' /\ AppliedWhole'
    BY <1>1 DEF TextsRead, AppliedWhole
  <1> QED BY <1>1, <1>2, <1>3 DEF CInv

LEMMA InitOnCourse == Init => CInv
  <1> SUFFICES ASSUME Init, pack \in Shipped PROVE CInv
    BY DEF CInv
  <1>1. scene = 0 /\ event.type = "NONE" /\ begun = 0 /\ game \in Games[pack]
    BY DEF Init, Nothing
  <1>2. IInv
    BY InitInv
  <1>3. RoomLeft
    <2>1. game.goods[KEYS] + ScenesMax <= 255 /\ game.goods[RESOLVE] <= ResolveMax
      BY <1>1, GamesLeaveRoom
    <2>2. game.goods[KEYS] \in Int /\ ScenesMax \in Int
      BY <1>2, GoodsTyped, SceneVmAssumption DEF Resources, KEYS
    <2> QED BY <1>1, <2>1, <2>2 DEF RoomLeft
  <1>4. TextsRead /\ AppliedWhole
    BY <1>1 DEF TextsRead, AppliedWhole
  <1> QED BY <1>1, <1>3, <1>4 DEF CInv

LEMMA StepOnCourse == IInv /\ CInv /\ [Next]_vmVars => CInv'
  <1> SUFFICES ASSUME IInv, CInv, [Next]_vmVars PROVE CInv'
    OBVIOUS
  <1>1. pack' = pack
    BY DEF Next, Pass, Text, Choice, IfFlag, IfResource, Cost, Reward, SetFlag, ClearFlag,
           Trust, Goto, End, Error, Executes, Begin, Continue, Choose, Stop, vmVars
  <1>2. CASE pack \notin Shipped
    BY <1>1, <1>2 DEF CInv
  <1>3. CASE pack \in Shipped
    <2>1. CASE Pass
      BY <1>3, <2>1, TextOnCourse, ChoiceOnCourse, JumpsOnCourse, CostOnCourse,
         RewardOnCourse, FlagsOnCourse, EndOnCourse, LeavingOnCourse DEF Pass
    <2>2. CASE \E id \in SceneIds : Begin(id)
      BY <1>3, <2>2, BeginOnCourse
    <2>3. CASE Continue \/ (\E i \in DOMAIN event.targets : Choose(i))
      BY <1>3, <2>3, SelectOnCourse
    <2>4. CASE Stop
      BY <1>3, <2>4, LeavingOnCourse
    <2>5. CASE UNCHANGED vmVars
      <3>1. UNCHANGED <<pack, game, scene, code, pc, event, passes, context, begun>>
        BY <2>5 DEF vmVars, machine
      <3> QED BY <3>1 DEF CInv, OnCourse, Known, Stands, RoomLeft, TextsRead, AppliedWhole
    <2> QED BY <2>1, <2>2, <2>3, <2>4, <2>5 DEF Next
  <1> QED BY <1>2, <1>3

\* The shipped scenes stay on the course the certificate sets them, in every
\* game (scene_vm.c:57-177).
THEOREM Course == Spec => []CInv
  <1>1. IInv /\ CInv /\ [Next]_vmVars => IInv' /\ CInv'
    BY StepKeepsInv, StepOnCourse
  <1> QED BY InitInv, InitOnCourse, <1>1, PTL DEF Spec

\* Every text of the shipped scenes fits its buffer and every context they end
\* with is written back whole, in every game that leaves room for the keys
\* (main.c:104, 972, 1207-1208, 1226).
THEOREM ShippedScenesFit == Spec => []ShippedFit
  <1>1. CInv => ShippedFit
    BY DEF CInv, ShippedFit
  <1> QED BY <1>1, Course, PTL

\* A step of the machine is a step of the exchange, or none.
LEMMA StepExchanges ==
    ASSUME IInv, CInv, pack \in Shipped, [Next]_vmVars
    PROVE  Exchange!Next \/ UNCHANGED Exchange!exchangeVars
  <1> DEFINE outcome == IF event.type \in {"END", "ERROR"}
                        THEN [type |-> event.type, result |-> event.result]
                        ELSE [type |-> "NONE", result |-> 0]
  <1>1. ASSUME UNCHANGED <<game, scene>>,
               event.type \notin {"END", "ERROR"}, event'.type \notin {"END", "ERROR"}
        PROVE  UNCHANGED Exchange!exchangeVars
    BY <1>1 DEF Exchange!exchangeVars
  <1>2. ASSUME UNCHANGED <<game, scene, event>>
        PROVE  UNCHANGED Exchange!exchangeVars
    BY <1>2 DEF Exchange!exchangeVars
  <1>3. CASE Pass
    <2>1. Running /\ scene # 0 /\ event.type = "NONE" /\ scene \in SceneIds
      BY <1>3 DEF Pass, Text, Choice, IfFlag, IfResource, Cost, Reward, SetFlag, ClearFlag,
                  Trust, Goto, End, Error, Executes, Running, IInv, TypeOK
    <2>2. CASE Text \/ Choice
      <3>1. UNCHANGED <<game, scene>> /\ event'.type \notin {"END", "ERROR"}
        BY <2>2 DEF Text, Choice, Nothing
      <3> QED BY <1>1, <2>1, <3>1
    <2>3. CASE IfFlag \/ IfResource \/ Cost \/ Reward \/ SetFlag \/ ClearFlag \/ Trust \/ Goto
      <3>1. UNCHANGED <<game, scene, event>>
        BY <2>3 DEF IfFlag, IfResource, Cost, Reward, SetFlag, ClearFlag, Trust, Goto
      <3> QED BY <1>2, <3>1
    <2>4. CASE End
      <3>1. scene' = 0
        BY <2>4 DEF End, Close
      <3> QED BY <2>1, <2>4, <3>1, EndOnCourse DEF Exchange!Next, Exchange!Close
    <2>5. CASE Error
      <3>1. /\ passes = Limit \/ ~Legal
            /\ game' = game /\ scene' = 0 /\ event'.type = "ERROR" /\ event'.result = 0
        BY <2>5 DEF Error, Close, Nothing
      <3>2. PICK end \in Exchange!SceneEnds(Exchange!LandmarkOf(scene), game.goods[CLARITY]) :
               ~Exchange!Payable(end)
        BY <2>1, <3>1, OnlyCostsFail
      <3>3. Exchange!Break(end)
        BY <3>1, <3>2 DEF Exchange!Break
      <3> QED BY <2>1, <3>1, <3>2, <3>3 DEF Exchange!Next, Exchange!Close
    <2> QED BY <1>3, <2>2, <2>3, <2>4, <2>5 DEF Pass
  <1>4. CASE \E id \in SceneIds : Begin(id)
    <2>1. PICK id \in SceneIds : Begin(id)
      BY <1>4
    <2>2. scene = 0 /\ scene' = id /\ game' = game /\ event'.type = "NONE"
      BY <2>1 DEF Begin, Nothing
    <2>3. Exchange!Open(id)
      BY <2>2 DEF Exchange!Open, Exchange!None
    <2> QED BY <2>3 DEF Exchange!Next
  <1>5. CASE Continue \/ \E i \in DOMAIN event.targets : Choose(i)
    <2>1. /\ UNCHANGED <<game, scene>> /\ event'.type = "NONE"
          /\ event.type \in {"TEXT", "CHOICE"}
      BY <1>5 DEF Continue, Choose, Nothing
    <2> QED BY <1>1, <2>1
  <1>6. CASE Stop
    <2>1. scene # 0 /\ scene' = 0 /\ game' = game /\ event'.type = "NONE"
      BY <1>6 DEF Stop, Close, Nothing
    <2>2. Exchange!Leave
      BY <2>1 DEF Exchange!Leave, Exchange!None
    <2> QED BY <2>1, <2>2 DEF Exchange!Next, Exchange!Close
  <1>7. CASE UNCHANGED vmVars
    <2>1. UNCHANGED <<game, scene, event>>
      BY <1>7 DEF vmVars, machine
    <2> QED BY <1>2, <2>1
  <1> QED BY <1>3, <1>4, <1>5, <1>6, <1>7 DEF Next

LEMMA InitExchanges == Init => (pack \in Shipped => Exchange!Init)
  <1> SUFFICES ASSUME Init PROVE Exchange!Init
    OBVIOUS
  <1>1. IInv /\ scene = 0 /\ event.type = "NONE"
    BY InitInv DEF Init, Nothing
  <1>2. \A r \in {CLARITY, THREAD, REMNANTS} : game.goods[r] \in 0 .. CapMax
    BY <1>1, GoodsTyped DEF Resources, CLARITY, THREAD, REMNANTS
  <1> QED BY <1>1, <1>2 DEF Exchange!Init, Exchange!None

\* The shipped scenes are the exchanges SceneOutcomes lists, in every game and
\* whichever way the player takes: they give and take all of an end at once,
\* and break only where an end cannot be paid (content/scenes.json,
\* main.c:1238-1266).
THEOREM ScenesAreExchanges == Spec => ImplementsExchange
  <1>1. IInv /\ CInv /\ [Next]_vmVars =>
           [(pack \in Shipped) => Exchange!Next]_(Exchange!exchangeVars)
    BY StepExchanges
  <1> QED BY InitExchanges, Invariant, Course, <1>1, PTL DEF Spec, ImplementsExchange
=============================================================================
