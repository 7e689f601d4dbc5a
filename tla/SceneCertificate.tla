-------------------------- MODULE SceneCertificate --------------------------
(* A certificate of the shipped scenes: for each scene, every point a run of *)
(* it can come to, with what the scene has taken and given on the way there. *)
(* The points are finitely many because they are relative to the game the    *)
(* scene began in.  MCSceneVm computes them from the bytes and TLC checks    *)
(* them; SceneVmProofs concludes from them for every game.                   *)
EXTENDS SceneVm

CONSTANT Certificate    \* the points, for each shipped pack and scene

\* Where a run stands and after how many passes, what it has taken and given,
\* and the clarity a game can have that comes here.
Points == [pc : Nat, passes : 0 .. Limit, taken : Exchange!Ends, keys : {0, 1},
           clarities : SUBSET (0 .. CapMax)]

Start == [pc |-> 0, passes |-> 0, taken |-> [Exchange!Plain EXCEPT !.result = 0],
          keys |-> 0, clarities |-> 0 .. CapMax]

ByteAt(bytes, p, i) == U8(bytes, p.pc + i)
WordAt(bytes, p, i) == U16(bytes, p.pc + i)
AmountAt(bytes, p) == Signed(WordAt(bytes, p, 2))

Charged(taken, good, amount) ==
    IF good = CLARITY THEN [taken EXCEPT !.clarityCost = @ + amount]
                      ELSE [taken EXCEPT !.threadCost = @ + amount]

Given(taken, good, amount) ==
    CASE good = CLARITY  -> [taken EXCEPT !.clarity = @ + amount]
      [] good = THREAD   -> [taken EXCEPT !.thread = @ + amount]
      [] good = REMNANTS -> [taken EXCEPT !.remnants = @ + amount]
      [] OTHER           -> taken

\* The run goes on, or stops to show something and begins anew.
To(p, pc_) == [p EXCEPT !.pc = pc_, !.passes = @ + 1]
Anew(p, pc_) == [p EXCEPT !.pc = pc_, !.passes = 0]

Among(p, clarities) == [p EXCEPT !.clarities = clarities]
Having(p, taken, keys) == [p EXCEPT !.taken = taken, !.keys = keys]

\* The points one instruction further.
Followers(bytes, p) ==
    LET opcode == ByteAt(bytes, p, 0)
        good == ByteAt(bytes, p, 1)
        amount == AmountAt(bytes, p)
    IN  CASE opcode = TEXT -> { Anew(p, p.pc + 3) }
          [] opcode = CHOICE -> { Anew(p, WordAt(bytes, p, Option(i) + 2)) : i \in 1 .. good }
          [] opcode = IF_FLAG -> { To(p, WordAt(bytes, p, 2)), To(p, p.pc + 4) }
          [] opcode = IF_RESOURCE ->
                { Among(To(p, WordAt(bytes, p, 4)), { c \in p.clarities : c >= amount }),
                  Among(To(p, p.pc + 6), { c \in p.clarities : c < amount }) }
          [] opcode = COST ->
                { Having(To(p, p.pc + 4), Charged(p.taken, good, amount), p.keys) }
          [] opcode = REWARD ->
                { Having(To(p, p.pc + 4), Given(p.taken, good, amount),
                         IF good = KEYS THEN p.keys + amount ELSE p.keys) }
          [] opcode \in {SET_FLAG, CLEAR_FLAG} -> { To(p, p.pc + 2) }
          [] opcode = TRUST -> { To(p, p.pc + 3) }
          [] opcode = GOTO -> { To(p, WordAt(bytes, p, 1)) }
          [] OTHER -> {}

\* A cost comes before any gain of the same good.  It is one of those an end
\* of the scene asks for, so where it cannot be paid neither can that end.
CertainCost(bytes, landmark, p) ==
    LET asked == Charged(p.taken, ByteAt(bytes, p, 1), AmountAt(bytes, p))
    IN  /\ ByteAt(bytes, p, 1) \in {CLARITY, THREAD}
        /\ AmountAt(bytes, p) >= 0
        /\ ByteAt(bytes, p, 1) = CLARITY => p.taken.clarity = 0
        /\ ByteAt(bytes, p, 1) = THREAD => p.taken.thread = 0
        /\ \A c \in p.clarities :
              \E end \in Exchange!SceneEnds(landmark, c) \cap Exchange!Ends :
                 end.clarityCost >= asked.clarityCost /\ end.threadCost >= asked.threadCost

\* The instruction at p is sure to be legal, unless it is a cost, and what it
\* shows to be readable; an end is one of the scene's.
Certain(bytes, texts, landmark, p) ==
    LET opcode == ByteAt(bytes, p, 0)
        Within(n) == p.pc + n <= Len(bytes)
        Lands(i) == WordAt(bytes, p, i) < Len(bytes)
    IN  /\ p \in Points
        /\ p.passes < Limit
        /\ Within(1)
        /\ \/ /\ opcode = TEXT /\ Within(3)
              /\ LoadsText(texts, WordAt(bytes, p, 1), PageSize)
           \/ /\ opcode = CHOICE /\ Within(2)
              /\ ByteAt(bytes, p, 1) \in 1 .. 3 /\ Within(2 + 4 * ByteAt(bytes, p, 1))
              /\ \A i \in 1 .. ByteAt(bytes, p, 1) :
                    /\ Lands(Option(i) + 2)
                    /\ LoadsText(texts, WordAt(bytes, p, Option(i)), ChoiceSize)
           \/ opcode = IF_FLAG /\ Within(4) /\ ByteAt(bytes, p, 1) \in Flags /\ Lands(2)
           \/ /\ opcode = IF_RESOURCE /\ Within(6) /\ Lands(4)
              /\ ByteAt(bytes, p, 1) = CLARITY
              /\ p.taken.clarityCost = 0 /\ p.taken.clarity = 0
           \/ opcode = COST /\ Within(4) /\ CertainCost(bytes, landmark, p)
           \/ /\ opcode = REWARD /\ Within(4)
              /\ ByteAt(bytes, p, 1) \in Resources \ {RESOLVE} /\ AmountAt(bytes, p) >= 0
           \/ opcode \in {SET_FLAG, CLEAR_FLAG} /\ Within(2) /\ ByteAt(bytes, p, 1) \in Flags
           \/ opcode = TRUST /\ Within(3) /\ ByteAt(bytes, p, 1) \in Guests
           \/ opcode = GOTO /\ Within(3) /\ Lands(1)
           \/ /\ opcode = END /\ Within(2)
              /\ \A c \in p.clarities :
                    [p.taken EXCEPT !.result = ByteAt(bytes, p, 1)]
                       \in Exchange!SceneEnds(landmark, c)

\* The bytes the build ships are certified, and so are their texts.
ASSUME Certified ==
    \A p \in Shipped, id \in SceneIds : LoadScene(p, id).ok =>
        LET bytes == LoadScene(p, id).code
            points == Certificate[p][id]
        IN  /\ Start \in points
            /\ \A point \in points :
                  /\ Certain(bytes, Strings[p], Exchange!LandmarkOf(id), point)
                  /\ Followers(bytes, point) \subseteq points

\* The games leave room: resolve is saved within its bound, and keys, of which
\* a scene gives one at most, fit in a byte with those of the scenes to come.
ASSUME GamesLeaveRoom ==
    /\ ResolveMax <= 255
    /\ \A p \in Shipped : \A g \in Games[p] :
          g.goods[KEYS] + ScenesMax <= 255 /\ g.goods[RESOLVE] <= ResolveMax
=============================================================================
