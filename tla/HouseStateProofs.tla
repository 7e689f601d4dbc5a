-------------------------- MODULE HouseStateProofs --------------------------
(* Proofs about HouseState, for all costs, periods, thresholds and limits  *)
(* that HouseAssumption allows and for absences of any length.             *)
EXTENDS HouseState, WellFoundedInduction, TLAPS

\* Quotient and remainder of what the clock divides.
LEMMA DivMod ==
    ASSUME NEW a \in Nat, NEW b \in Nat \ {0}
    PROVE  /\ a \div b \in Nat /\ a % b \in 0 .. b - 1
           /\ a = b * (a \div b) + (a % b)
<1>1. a % b \in 0 .. b - 1
  OBVIOUS
<1>2. a \div b \in Int /\ a = b * (a \div b) + (a % b)
  OBVIOUS
<1>3. a \div b >= 0
  BY <1>1, <1>2, SMTT(30)
<1> QED BY <1>1, <1>2, <1>3

\* Quotient and remainder are what they have to be.
LEMMA DivModUnique ==
    ASSUME NEW a \in Nat, NEW b \in Nat \ {0}, NEW q \in Int, NEW r \in 0 .. b - 1,
           a = b * q + r
    PROVE  a \div b = q /\ a % b = r
<1> DEFINE p == a \div b
           s == a % b
<1>1. p \in Nat /\ s \in 0 .. b - 1 /\ a = b * p + s
  BY DivMod
<1> HIDE DEF p, s
<1>2. ASSUME NEW x \in Int, NEW y \in Int, x < y PROVE b * x + b <= b * y
  <2>1. x + 1 <= y
    BY <1>2
  <2>2. b * (x + 1) <= b * y
    BY <2>1
  <2>3. b * (x + 1) = b * x + b
    OBVIOUS
  <2> QED BY <2>2, <2>3
<1>3. b * p \in Int /\ b * q \in Int
  BY <1>1
<1>4. ~(p < q) /\ ~(q < p)
  BY <1>1, <1>2, <1>3
<1>5. p = q
  BY <1>1, <1>4
<1>6. s = r
  BY <1>1, <1>3, <1>5
<1> QED BY <1>5, <1>6 DEF p, s

\* One more, and the quotient grows when the remainder wraps.
LEMMA DivModNext ==
    ASSUME NEW a \in Nat, NEW b \in Nat \ {0}
    PROVE  IF (a % b) + 1 = b
           THEN (a + 1) \div b = a \div b + 1 /\ (a + 1) % b = 0
           ELSE (a + 1) \div b = a \div b /\ (a + 1) % b = (a % b) + 1
<1> DEFINE p == a \div b
           s == a % b
<1>1. p \in Nat /\ s \in 0 .. b - 1 /\ a = b * p + s
  BY DivMod
<1> HIDE DEF p, s
<1>2. b * p \in Int /\ b * (p + 1) = b * p + b
  BY <1>1
<1>3. CASE s + 1 = b
  <2>1. a + 1 = b * (p + 1) + 0
    BY <1>1, <1>2, <1>3
  <2>2. (a + 1) \div b = p + 1 /\ (a + 1) % b = 0
    <3>1. a + 1 \in Nat /\ p + 1 \in Int /\ 0 \in 0 .. b - 1
      BY <1>1
    <3> QED BY <2>1, <3>1, DivModUnique
  <2> QED BY <1>3, <2>2 DEF p, s
<1>4. CASE s + 1 # b
  <2>1. a + 1 = b * p + (s + 1)
    BY <1>1, <1>2
  <2>2. (a + 1) \div b = p /\ (a + 1) % b = s + 1
    <3>1. a + 1 \in Nat /\ p \in Int /\ s + 1 \in 0 .. b - 1
      BY <1>1, <1>4
    <3> QED BY <2>1, <3>1, DivModUnique
  <2> QED BY <1>4, <2>2 DEF p, s
<1> QED BY <1>3, <1>4

\* Adding to the remainder is adding.
LEMMA DivModAdd ==
    ASSUME NEW a \in Nat, NEW f \in Nat, NEW b \in Nat \ {0}
    PROVE  /\ (a + f) \div b = a \div b + ((a % b) + f) \div b
           /\ (a + f) % b = ((a % b) + f) % b
<1> DEFINE p == a \div b
           s == a % b
           q == (s + f) \div b
           r == (s + f) % b
<1>1. p \in Nat /\ s \in 0 .. b - 1 /\ a = b * p + s
  BY DivMod
<1> HIDE DEF p, s
<1>2. q \in Nat /\ r \in 0 .. b - 1 /\ s + f = b * q + r
  <2>1. s + f \in Nat
    BY <1>1
  <2> QED BY <2>1, DivMod
<1> HIDE DEF q, r
<1>3. b * p \in Int /\ b * q \in Int /\ b * (p + q) = b * p + b * q
  BY <1>1, <1>2
<1>4. a + f = b * (p + q) + r
  BY <1>1, <1>2, <1>3
<1>5. (a + f) \div b = p + q /\ (a + f) % b = r
  <2>1. a + f \in Nat /\ p + q \in Int
    BY <1>1, <1>2
  <2> QED BY <1>2, <1>4, <2>1, DivModUnique
<1> QED BY <1>5 DEF p, q, r, s

\* A quotient is below a bound when the dividend is below its multiple.
LEMMA DivBelow ==
    ASSUME NEW a \in Nat, NEW b \in Nat \ {0}, NEW k \in Nat
    PROVE  a \div b < k <=> a < b * k
<1> DEFINE p == a \div b
           s == a % b
<1>1. p \in Nat /\ s \in 0 .. b - 1 /\ a = b * p + s
  BY DivMod
<1> HIDE DEF p, s
<1>2. b * p \in Nat /\ b * k \in Nat /\ b * (p + 1) = b * p + b
  BY <1>1
<1>3. CASE p < k
  <2>1. PICK e \in Nat : k = p + 1 + e
    <3>1. k - (p + 1) \in Nat /\ k = p + 1 + (k - (p + 1))
      BY <1>1, <1>3
    <3> QED BY <3>1
  <2>2. b * k = b * (p + 1) + b * e /\ b * e \in Nat
    BY <1>1, <2>1
  <2> QED BY <1>1, <1>2, <1>3, <2>2 DEF p
<1>4. CASE ~(p < k)
  <2>1. PICK e \in Nat : p = k + e
    <3>1. p - k \in Nat /\ p = k + (p - k)
      BY <1>1, <1>4
    <3> QED BY <3>1
  <2>2. b * p = b * k + b * e /\ b * e \in Nat
    BY <1>1, <2>1
  <2> QED BY <1>1, <1>2, <1>4, <2>2 DEF p
<1> QED BY <1>3, <1>4

\* What is added with a cap stays within the store.
LEMMA AddCappedRange ==
    ASSUME NEW x \in 0 .. ResourceMax, NEW n \in Nat
    PROVE  AddCapped(x, n) \in 0 .. ResourceMax
  BY HouseAssumption DEF AddCapped, AtMost

\* What has been added with a cap can be added to again.
LEMMA AddCappedTwice ==
    ASSUME NEW x \in 0 .. ResourceMax, NEW m \in Nat, NEW n \in Nat
    PROVE  AddCapped(AddCapped(x, m), n) = AddCapped(x, m + n)
  BY HouseAssumption DEF AddCapped, AtMost

\* The yield of n pieces of kindling.
LEMMA GatherRange ==
    ASSUME NEW p \in Nat, NEW n \in Nat
    PROVE  /\ GatheredRemnants(p, n) \in Nat
           /\ GatheredProgress(p, n) \in 0 .. KindlingPerRemnant - 1
<1>1. p + n \in Nat
  OBVIOUS
<1>2. /\ (p + n) \div KindlingPerRemnant \in Nat
      /\ (p + n) % KindlingPerRemnant \in 0 .. KindlingPerRemnant - 1
  BY <1>1, DivMod, HouseAssumption
<1> QED BY <1>2 DEF GatheredRemnants, GatheredProgress

\* The work done in an absence, and what is left of the last cycle.
LEMMA CyclesRange ==
    ASSUME NEW w \in Nat, NEW lit \in Int, NEW period \in Nat \ {0},
           NEW begun \in 0 .. period - 1
    PROVE  /\ w * Cycles(w, begun, lit, period) \in Nat
           /\ LeftOver(w, begun, lit, period) \in 0 .. period - 1
<1>1. CASE w > 0 /\ lit > 0
  <2>1. begun + lit \in Nat
    BY <1>1
  <2>2. (begun + lit) \div period \in Nat /\ (begun + lit) % period \in 0 .. period - 1
    BY <2>1, DivMod
  <2>3. \A k \in Nat : w * k \in Nat
    OBVIOUS
  <2> QED BY <1>1, <2>2, <2>3 DEF Cycles, LeftOver
<1>2. CASE ~(w > 0 /\ lit > 0)
  <2>1. Cycles(w, begun, lit, period) = 0
    BY <1>2 DEF Cycles
  <2>2. LeftOver(w, begun, lit, period) \in 0 .. period - 1
    BY <1>2 DEF LeftOver
  <2> QED BY <2>1, <2>2
<1> QED BY <1>1, <1>2

-----------------------------------------------------------------------------
(* Time *)

\* The level of the fire and the seconds of its current level, n seconds after
\* it stood at `level` for `burnt` seconds.
LevelAfter(level, burnt, n) ==
    IF (burnt + n) \div DecaySeconds >= level THEN 0
    ELSE level - (burnt + n) \div DecaySeconds
BurntAfter(level, burnt, n) ==
    IF (burnt + n) \div DecaySeconds >= level THEN 0 ELSE (burnt + n) % DecaySeconds

\* One more second of the fire.
LEMMA FireNext ==
    ASSUME NEW level \in Nat, NEW burnt \in 0 .. DecaySeconds - 1, NEW n \in Nat
    PROVE  LET now   == LevelAfter(level, burnt, n)
               spent == BurntAfter(level, burnt, n)
               falls == now > 0 /\ spent + 1 = DecaySeconds
           IN  /\ LevelAfter(level, burnt, n + 1) = IF falls THEN now - 1 ELSE now
               /\ BurntAfter(level, burnt, n + 1) =
                    IF now = 0 \/ falls THEN 0 ELSE spent + 1
<1> DEFINE q == (burnt + n) \div DecaySeconds
           r == (burnt + n) % DecaySeconds
           qq == (burnt + (n + 1)) \div DecaySeconds
           rr == (burnt + (n + 1)) % DecaySeconds
<1>0. burnt + n \in Nat /\ burnt + (n + 1) = (burnt + n) + 1 /\ DecaySeconds \in Nat \ {0}
  BY HouseAssumption
<1>1. q \in Nat /\ r \in 0 .. DecaySeconds - 1
  BY <1>0, DivMod
<1>2. IF r + 1 = DecaySeconds THEN qq = q + 1 /\ rr = 0 ELSE qq = q /\ rr = r + 1
  <2>1. PICK a \in Nat : a = burnt + n
    BY <1>0
  <2>2. burnt + (n + 1) = a + 1
    BY <1>0, <2>1
  <2>3. IF (a % DecaySeconds) + 1 = DecaySeconds
        THEN (a + 1) \div DecaySeconds = a \div DecaySeconds + 1 /\ (a + 1) % DecaySeconds = 0
        ELSE (a + 1) \div DecaySeconds = a \div DecaySeconds
             /\ (a + 1) % DecaySeconds = (a % DecaySeconds) + 1
    BY <1>0, DivModNext
  <2> QED BY <2>1, <2>2, <2>3
<1>3. /\ LevelAfter(level, burnt, n) = (IF q >= level THEN 0 ELSE level - q)
      /\ BurntAfter(level, burnt, n) = (IF q >= level THEN 0 ELSE r)
      /\ LevelAfter(level, burnt, n + 1) = (IF qq >= level THEN 0 ELSE level - qq)
      /\ BurntAfter(level, burnt, n + 1) = (IF qq >= level THEN 0 ELSE rr)
  BY DEF LevelAfter, BurntAfter
<1> HIDE DEF q, r, qq, rr
<1> QED BY <1>1, <1>2, <1>3, HouseAssumption

\* The seconds the fire is seen grow as long as it is.
LEMMA SeenNext ==
    ASSUME NEW c, c.level \in Nat, c.burnt \in 0 .. DecaySeconds - 1, NEW n \in Nat
    PROVE  /\ SeenSeconds(c, n) \in Nat
           /\ SeenSeconds(c, n + 1) = SeenSeconds(c, n)
                + (IF LevelAfter(c.level, c.burnt, n) >= Seen THEN 1 ELSE 0)
<1> DEFINE q == (c.burnt + n) \div DecaySeconds
<1>0. Seen \in Nat /\ Seen > 0 /\ DecaySeconds \in Nat \ {0} /\ c.burnt + n \in Nat
  BY HouseAssumption
<1>1. q \in Nat
  BY <1>0, DivMod
<1>2. LevelAfter(c.level, c.burnt, n) = (IF q >= c.level THEN 0 ELSE c.level - q)
  BY DEF LevelAfter
<1>3. CASE c.level < Seen
  <2>1. SeenSeconds(c, n) = 0 /\ SeenSeconds(c, n + 1) = 0
    BY <1>0, <1>3 DEF SeenSeconds
  <2> HIDE DEF q
  <2> QED BY <1>0, <1>1, <1>2, <1>3, <2>1
<1>4. CASE c.level >= Seen
  <2> DEFINE S == DecaySeconds - c.burnt + (c.level - Seen) * DecaySeconds
  <2>1. PICK k \in Nat : c.level - Seen = k
    BY <1>0, <1>4
  <2>2. DecaySeconds * (k + 1) = k * DecaySeconds + DecaySeconds /\ k * DecaySeconds \in Nat
    BY <1>0, <2>1
  <2>3. q < k + 1 <=> c.burnt + n < DecaySeconds * (k + 1)
    <3>1. k + 1 \in Nat
      BY <2>1
    <3> QED BY <1>0, <3>1, DivBelow
  <2>4. S = DecaySeconds - c.burnt + k * DecaySeconds
    BY <2>1
  <2>5. S \in Nat /\ (q < k + 1 <=> n < S)
    BY <1>0, <2>2, <2>3, <2>4
  <2>6. /\ SeenSeconds(c, n) = AtMost(n, S)
        /\ SeenSeconds(c, n + 1) = AtMost(n + 1, S)
    BY <1>4 DEF SeenSeconds
  <2> HIDE DEF q, S
  <2>7. LevelAfter(c.level, c.burnt, n) >= Seen <=> q < k + 1
    BY <1>0, <1>1, <1>2, <1>4, <2>1
  <2> QED BY <2>5, <2>6, <2>7 DEF AtMost
<1> QED BY <1>0, <1>3, <1>4

\* One more second of a cycle: `done` seconds of it are over, and at its end its
\* workers bring something.
WorkGoesOn(w, begun, lit, more, period) ==
    LET done  == IF w = 0 THEN 0 ELSE LeftOver(w, begun, lit, period) + more
        found == IF done = period THEN w ELSE 0
    IN  /\ LeftOver(w, begun, lit + more, period) = done % period
        /\ w * Cycles(w, begun, lit + more, period) =
             w * Cycles(w, begun, lit, period) + found
        /\ w * Cycles(w, begun, lit, period) \in Nat
        /\ found \in Nat

\* Whether the guests work in a second or not.
LEMMA WorkNext ==
    ASSUME NEW w \in Nat, NEW period \in Nat \ {0}, NEW begun \in 0 .. period - 1,
           NEW lit \in Nat, NEW more \in {0, 1}
    PROVE  WorkGoesOn(w, begun, lit, more, period)
<1> USE DEF WorkGoesOn
<1>1. CASE w = 0
  <2>1. 0 % period = 0
    OBVIOUS
  <2>2. /\ LeftOver(w, begun, lit + more, period) = 0
        /\ Cycles(w, begun, lit + more, period) = 0
        /\ Cycles(w, begun, lit, period) = 0
    BY <1>1 DEF LeftOver, Cycles
  <2> QED BY <1>1, <2>1, <2>2
<1>2. CASE w > 0
  <2> DEFINE a == begun + lit
             q == a \div period
             r == a % period
  <2>0. a \in Nat /\ period \in Nat \ {0}
    OBVIOUS
  <2>1. q \in Nat /\ r \in 0 .. period - 1
    BY <2>0, DivMod
  <2>2. begun \div period = 0 /\ begun % period = begun
    <3>1. begun \in Nat /\ begun = period * 0 + begun
      OBVIOUS
    <3> QED BY <3>1, DivModUnique
  <2>3. Cycles(w, begun, lit, period) = q /\ LeftOver(w, begun, lit, period) = r
    <3>1. CASE lit = 0
      <4>1. a = begun
        BY <3>1
      <4> QED BY <1>2, <2>2, <3>1, <4>1 DEF Cycles, LeftOver
    <3>2. CASE lit > 0
      BY <1>2, <3>2 DEF Cycles, LeftOver
    <3> QED BY <3>1, <3>2
  <2>4. CASE more = 0
    <3>1. lit + more = lit
      BY <2>4
    <3>2. r % period = r
      <4>1. r \in Nat /\ r = period * 0 + r
        BY <2>1
      <4> HIDE DEF r
      <4> QED BY <2>1, <4>1, DivModUnique
    <3>3. w * q \in Nat
      BY <2>1
    <3> HIDE DEF q, r
    <3> QED BY <1>2, <2>1, <2>3, <2>4, <3>1, <3>2, <3>3
  <2>5. CASE more = 1
    <3> DEFINE qq == (a + 1) \div period
               rr == (a + 1) % period
    <3>1. IF r + 1 = period THEN qq = q + 1 /\ rr = 0 ELSE qq = q /\ rr = r + 1
      BY <2>0, DivModNext
    <3>2. Cycles(w, begun, lit + more, period) = qq
          /\ LeftOver(w, begun, lit + more, period) = rr
      <4>1. begun + (lit + more) = a + 1 /\ lit + more > 0
        BY <2>5
      <4> QED BY <1>2, <4>1 DEF Cycles, LeftOver
    <3>3. (r + 1) % period = rr
      <4>1. CASE r + 1 = period
        <5>1. period \in Nat /\ period = period * 1 + 0 /\ 0 \in 0 .. period - 1
          OBVIOUS
        <5>2. period % period = 0
          BY <5>1, DivModUnique
        <5> HIDE DEF q, r, qq, rr
        <5> QED BY <3>1, <4>1, <5>2
      <4>2. CASE r + 1 # period
        <5> HIDE DEF q, r
        <5>1. r + 1 \in Nat /\ r + 1 = period * 0 + (r + 1) /\ r + 1 \in 0 .. period - 1
          BY <2>1, <4>2
        <5>2. (r + 1) % period = r + 1
          BY <5>1, DivModUnique
        <5> HIDE DEF qq, rr
        <5> QED BY <3>1, <4>2, <5>2
      <4> QED BY <4>1, <4>2
    <3> HIDE DEF q, r, qq, rr
    <3>4. w * q \in Nat /\ w * (q + 1) = w * q + w
      BY <2>1
    <3> QED BY <1>2, <2>1, <2>3, <2>5, <3>1, <3>2, <3>3, <3>4
  <2> QED BY <2>4, <2>5
<1> QED BY <1>1, <1>2

\* The numbers of a house that time changes, and the guests who work.
Clock(c) ==
    /\ c.level \in 0 .. HearthMax /\ c.burnt \in 0 .. DecaySeconds - 1
    /\ c.level = 0 => c.burnt = 0
    /\ c.gathered \in 0 .. GatherSeconds - 1 /\ c.listened \in 0 .. ListenSeconds - 1
    /\ c.progress \in 0 .. KindlingPerRemnant - 1
    /\ c.kindling \in 0 .. ResourceMax /\ c.remnants \in 0 .. ResourceMax
    /\ c.clarity \in 0 .. ResourceMax
    /\ gatherers \in Nat /\ listeners \in Nat

\* What is gathered and heard in n seconds.
Gathered(c, n) ==
    gatherers * Cycles(gatherers, c.gathered, SeenSeconds(c, n), GatherSeconds)
Heard(c, n) ==
    listeners * Cycles(listeners, c.listened, SeenSeconds(c, n), ListenSeconds)

\* An absence within the cap, part by part.
LEMMA CatchUpWithin ==
    ASSUME NEW c, Clock(c), NEW n \in Nat, n <= ElapsedCap
    PROVE  CatchUp(c, n) =
        [level    |-> LevelAfter(c.level, c.burnt, n),
         burnt    |-> BurntAfter(c.level, c.burnt, n),
         gathered |-> LeftOver(gatherers, c.gathered, SeenSeconds(c, n), GatherSeconds),
         listened |-> LeftOver(listeners, c.listened, SeenSeconds(c, n), ListenSeconds),
         progress |-> GatheredProgress(c.progress, Gathered(c, n)),
         kindling |-> AddCapped(c.kindling, Gathered(c, n)),
         remnants |-> AddCapped(c.remnants, GatheredRemnants(c.progress, Gathered(c, n))),
         clarity  |-> AddCapped(c.clarity, Heard(c, n))]
<1>1. AtMost(n, ElapsedCap) = n
  BY HouseAssumption DEF AtMost
<1> QED BY <1>1 DEF CatchUp, Decayed, LevelAfter, BurntAfter, Gathered, Heard

\* At the cap the fire is out.
LEMMA OutAtCap ==
    ASSUME NEW c, Clock(c)
    PROVE  LevelAfter(c.level, c.burnt, ElapsedCap) = 0
           /\ BurntAfter(c.level, c.burnt, ElapsedCap) = 0
<1>1. c.level \in Nat /\ c.burnt \in Nat /\ c.level <= HearthMax
  BY HouseAssumption DEF Clock
<1>2. c.burnt + ElapsedCap \in Nat /\ DecaySeconds \in Nat \ {0} /\ HearthMax \in Nat
  BY <1>1, HouseAssumption
<1>3. DecaySeconds * HearthMax = HearthMax * DecaySeconds
      /\ HearthMax * DecaySeconds \in Nat
  BY <1>2
<1>4. ~(c.burnt + ElapsedCap < DecaySeconds * HearthMax)
  BY <1>1, <1>2, <1>3, HouseAssumption
<1>5. ~((c.burnt + ElapsedCap) \div DecaySeconds < HearthMax)
  BY <1>2, <1>4, DivBelow
<1>6. (c.burnt + ElapsedCap) \div DecaySeconds \in Nat
  BY <1>2, DivMod
<1> QED BY <1>1, <1>2, <1>5, <1>6 DEF LevelAfter, BurntAfter

\* One more second on top of what was gathered before.
GoodsGrow(x, y, p, g, f) ==
    /\ AddCapped(x, g + f) = AddCapped(AddCapped(x, g), f)
    /\ GatheredProgress(p, g + f) = (GatheredProgress(p, g) + f) % KindlingPerRemnant
    /\ AddCapped(y, GatheredRemnants(p, g + f)) =
         AddCapped(AddCapped(y, GatheredRemnants(p, g)),
                   (GatheredProgress(p, g) + f) \div KindlingPerRemnant)

\* The kindling that does not fit counts for remnants in every order.
LEMMA GoodsNext ==
    ASSUME NEW x \in 0 .. ResourceMax, NEW y \in 0 .. ResourceMax,
           NEW p \in 0 .. KindlingPerRemnant - 1, NEW g \in Nat, NEW f \in Nat
    PROVE  GoodsGrow(x, y, p, g, f)
<1> DEFINE K == KindlingPerRemnant
<1>1. K \in Nat \ {0} /\ p + g \in Nat /\ p + (g + f) = (p + g) + f
  BY HouseAssumption
<1>2. PICK a \in Nat : a = p + g
  BY <1>1
<1>3. /\ (a + f) \div K = a \div K + ((a % K) + f) \div K
      /\ (a + f) % K = ((a % K) + f) % K
  BY <1>1, DivModAdd
<1>4. /\ a \div K \in Nat /\ (a % K) + f \in Nat
  <2>1. a \div K \in Nat /\ a % K \in 0 .. K - 1
    BY <1>1, DivMod
  <2> QED BY <1>1, <2>1
<1>5. ((a % K) + f) \div K \in Nat
  BY <1>1, <1>4, DivMod
<1>6. /\ GatheredProgress(p, g) = a % K /\ GatheredRemnants(p, g) = a \div K
      /\ GatheredProgress(p, g + f) = (a + f) % K
      /\ GatheredRemnants(p, g + f) = (a + f) \div K
  BY <1>1, <1>2 DEF GatheredProgress, GatheredRemnants
<1>7. AddCapped(x, g + f) = AddCapped(AddCapped(x, g), f)
  BY AddCappedTwice
<1>8. AddCapped(y, a \div K + ((a % K) + f) \div K) =
        AddCapped(AddCapped(y, a \div K), ((a % K) + f) \div K)
  BY <1>4, <1>5, AddCappedTwice
<1> QED BY <1>3, <1>6, <1>7, <1>8 DEF GoodsGrow

\* What is beyond the cap does not count.
LEMMA CatchUpCapped ==
    ASSUME NEW c, NEW n \in Nat
    PROVE  \E m \in 0 .. ElapsedCap :
              /\ m = AtMost(n, ElapsedCap)
              /\ CatchUp(c, n) = CatchUp(c, m)
<1>1. /\ AtMost(n, ElapsedCap) \in 0 .. ElapsedCap
      /\ AtMost(AtMost(n, ElapsedCap), ElapsedCap) = AtMost(n, ElapsedCap)
  BY HouseAssumption DEF AtMost
<1>2. CatchUp(c, n) = CatchUp(c, AtMost(n, ElapsedCap))
  BY <1>1 DEF CatchUp
<1> QED BY <1>1, <1>2

\* No time at all changes nothing that matters: the seconds of a cycle that
\* nobody works on are dropped.
LEMMA CatchUpNothing ==
    ASSUME NEW c, Clock(c)
    PROVE  CatchUp(c, 0) =
        [level    |-> c.level,
         burnt    |-> c.burnt,
         gathered |-> IF gatherers = 0 THEN 0 ELSE c.gathered,
         listened |-> IF listeners = 0 THEN 0 ELSE c.listened,
         progress |-> c.progress,
         kindling |-> c.kindling, remnants |-> c.remnants, clarity |-> c.clarity]
<1>0. /\ c.level \in Nat /\ c.burnt \in 0 .. DecaySeconds - 1
      /\ c.level = 0 => c.burnt = 0
      /\ DecaySeconds \in Nat \ {0} /\ KindlingPerRemnant \in Nat \ {0}
      /\ ElapsedCap \in Nat /\ ResourceMax \in Nat
      /\ c.progress \in 0 .. KindlingPerRemnant - 1
      /\ c.kindling \in 0 .. ResourceMax /\ c.remnants \in 0 .. ResourceMax
      /\ c.clarity \in 0 .. ResourceMax
      /\ gatherers \in Nat /\ listeners \in Nat
  BY HouseAssumption DEF Clock
<1>1. SeenSeconds(c, 0) = 0
  <2>1. SeenSeconds(c, 0) \in Nat
    BY <1>0, SeenNext
  <2>2. AtMost(0, DecaySeconds - c.burnt + (c.level - Seen) * DecaySeconds) <= 0
    <3>1. (c.level - Seen) * DecaySeconds \in Int
      BY <1>0, HouseAssumption
    <3>2. ASSUME NEW x \in Int PROVE AtMost(0, x) <= 0
      BY DEF AtMost
    <3>3. PICK x \in Int : x = DecaySeconds - c.burnt + (c.level - Seen) * DecaySeconds
      BY <1>0, <3>1
    <3> QED BY <3>2, <3>3
  <2> QED BY <2>1, <2>2 DEF SeenSeconds
<1>2. Gathered(c, 0) = 0 /\ Heard(c, 0) = 0
  BY <1>0, <1>1 DEF Gathered, Heard, Cycles
<1>3. (c.burnt + 0) \div DecaySeconds = 0 /\ (c.burnt + 0) % DecaySeconds = c.burnt
  <2>1. c.burnt \in Nat /\ c.burnt = DecaySeconds * 0 + c.burnt /\ c.burnt + 0 = c.burnt
    BY <1>0
  <2> QED BY <1>0, <2>1, DivModUnique
<1>4. (c.progress + 0) \div KindlingPerRemnant = 0
      /\ (c.progress + 0) % KindlingPerRemnant = c.progress
  <2>1. /\ c.progress \in Nat /\ c.progress = KindlingPerRemnant * 0 + c.progress
        /\ c.progress + 0 = c.progress
    BY <1>0
  <2> QED BY <1>0, <2>1, DivModUnique
<1>5. LevelAfter(c.level, c.burnt, 0) = c.level /\ BurntAfter(c.level, c.burnt, 0) = c.burnt
  <2>1. /\ LevelAfter(c.level, c.burnt, 0) = IF 0 >= c.level THEN 0 ELSE c.level - 0
        /\ BurntAfter(c.level, c.burnt, 0) = IF 0 >= c.level THEN 0 ELSE c.burnt
    BY <1>3, Zenon DEF LevelAfter, BurntAfter
  <2> QED BY <1>0, <2>1
<1>6. /\ GatheredProgress(c.progress, 0) = c.progress
      /\ GatheredRemnants(c.progress, 0) = 0
  BY <1>4 DEF GatheredProgress, GatheredRemnants
<1>7. /\ AddCapped(c.kindling, 0) = c.kindling /\ AddCapped(c.remnants, 0) = c.remnants
      /\ AddCapped(c.clarity, 0) = c.clarity
  BY <1>0 DEF AddCapped, AtMost
<1>8. /\ LeftOver(gatherers, c.gathered, 0, GatherSeconds) =
            IF gatherers = 0 THEN 0 ELSE c.gathered
      /\ LeftOver(listeners, c.listened, 0, ListenSeconds) =
            IF listeners = 0 THEN 0 ELSE c.listened
  BY DEF LeftOver
<1> QED BY <1>0, <1>1, <1>2, <1>5, <1>6, <1>7, <1>8, CatchUpWithin

\* After an absence of any length the numbers are in their ranges.
LEMMA CatchUpClock ==
    ASSUME NEW c, Clock(c), NEW n \in Nat
    PROVE  /\ Clock(CatchUp(c, n))
           /\ gatherers = 0 => CatchUp(c, n).gathered = 0
           /\ listeners = 0 => CatchUp(c, n).listened = 0
<1>0. /\ c.level \in 0 .. HearthMax /\ c.burnt \in 0 .. DecaySeconds - 1
      /\ c.gathered \in 0 .. GatherSeconds - 1 /\ c.listened \in 0 .. ListenSeconds - 1
      /\ c.progress \in 0 .. KindlingPerRemnant - 1 /\ c.progress \in Nat
      /\ c.kindling \in 0 .. ResourceMax /\ c.remnants \in 0 .. ResourceMax
      /\ c.clarity \in 0 .. ResourceMax
      /\ gatherers \in Nat /\ listeners \in Nat
      /\ DecaySeconds \in Nat \ {0} /\ HearthMax \in Nat
      /\ GatherSeconds \in Nat \ {0} /\ ListenSeconds \in Nat \ {0}
  BY HouseAssumption DEF Clock
<1>1. PICK m \in 0 .. ElapsedCap : CatchUp(c, n) = CatchUp(c, m)
  BY CatchUpCapped
<1>2. m \in Nat /\ m <= ElapsedCap
  BY <1>1, HouseAssumption
<1>3. SeenSeconds(c, m) \in Nat
  BY <1>0, <1>2, SeenNext
<1>4. PICK w \in Nat, v \in Nat, l \in Nat :
        w = gatherers /\ v = listeners /\ l = SeenSeconds(c, m)
  BY <1>0, <1>3
<1>5. /\ w * Cycles(w, c.gathered, l, GatherSeconds) \in Nat
      /\ LeftOver(w, c.gathered, l, GatherSeconds) \in 0 .. GatherSeconds - 1
      /\ v * Cycles(v, c.listened, l, ListenSeconds) \in Nat
      /\ LeftOver(v, c.listened, l, ListenSeconds) \in 0 .. ListenSeconds - 1
  <2>1. l \in Int
    OBVIOUS
  <2>2. /\ w * Cycles(w, c.gathered, l, GatherSeconds) \in Nat
        /\ LeftOver(w, c.gathered, l, GatherSeconds) \in 0 .. GatherSeconds - 1
    BY <1>0, <2>1, CyclesRange
  <2>3. /\ v * Cycles(v, c.listened, l, ListenSeconds) \in Nat
        /\ LeftOver(v, c.listened, l, ListenSeconds) \in 0 .. ListenSeconds - 1
    BY <1>0, <2>1, CyclesRange
  <2> QED BY <2>2, <2>3
<1>6. PICK g \in Nat, h \in Nat : g = Gathered(c, m) /\ h = Heard(c, m)
  BY <1>4, <1>5 DEF Gathered, Heard
<1>7. /\ LevelAfter(c.level, c.burnt, m) \in 0 .. HearthMax
      /\ BurntAfter(c.level, c.burnt, m) \in 0 .. DecaySeconds - 1
      /\ LevelAfter(c.level, c.burnt, m) = 0 => BurntAfter(c.level, c.burnt, m) = 0
  <2>1. PICK a \in Nat : a = c.burnt + m
    BY <1>0, <1>2
  <2>2. a \div DecaySeconds \in Nat /\ a % DecaySeconds \in 0 .. DecaySeconds - 1
    BY <1>0, DivMod
  <2> QED BY <1>0, <2>1, <2>2 DEF LevelAfter, BurntAfter
<1>8. /\ GatheredRemnants(c.progress, g) \in Nat
      /\ GatheredProgress(c.progress, g) \in 0 .. KindlingPerRemnant - 1
  BY <1>0, GatherRange
<1>9. /\ AddCapped(c.kindling, g) \in 0 .. ResourceMax
      /\ AddCapped(c.remnants, GatheredRemnants(c.progress, g)) \in 0 .. ResourceMax
      /\ AddCapped(c.clarity, h) \in 0 .. ResourceMax
  BY <1>0, <1>8, AddCappedRange
<1>10. /\ gatherers = 0 => LeftOver(gatherers, c.gathered, l, GatherSeconds) = 0
       /\ listeners = 0 => LeftOver(listeners, c.listened, l, ListenSeconds) = 0
  BY DEF LeftOver
<1>11. CatchUp(c, n) =
        [level    |-> LevelAfter(c.level, c.burnt, m),
         burnt    |-> BurntAfter(c.level, c.burnt, m),
         gathered |-> LeftOver(w, c.gathered, l, GatherSeconds),
         listened |-> LeftOver(v, c.listened, l, ListenSeconds),
         progress |-> GatheredProgress(c.progress, g),
         kindling |-> AddCapped(c.kindling, g),
         remnants |-> AddCapped(c.remnants, GatheredRemnants(c.progress, g)),
         clarity  |-> AddCapped(c.clarity, h)]
  BY <1>1, <1>2, <1>4, <1>6, CatchUpWithin
<1> QED BY <1>0, <1>4, <1>5, <1>7, <1>8, <1>9, <1>10, <1>11 DEF Clock

\* The seconds of an absence, one after the other.
LEMMA CatchUpNext ==
    ASSUME NEW c, Clock(c), NEW n \in Nat
    PROVE  CatchUp(c, n + 1) = SecondLater(CatchUp(c, n))
<1>0. /\ c.level \in Nat /\ c.burnt \in 0 .. DecaySeconds - 1
      /\ GatherSeconds \in Nat \ {0} /\ ListenSeconds \in Nat \ {0}
      /\ ElapsedCap \in Nat /\ KindlingPerRemnant \in Nat \ {0}
      /\ c.gathered \in 0 .. GatherSeconds - 1 /\ c.listened \in 0 .. ListenSeconds - 1
      /\ c.progress \in 0 .. KindlingPerRemnant - 1
      /\ c.kindling \in 0 .. ResourceMax /\ c.remnants \in 0 .. ResourceMax
      /\ c.clarity \in 0 .. ResourceMax
      /\ gatherers \in Nat /\ listeners \in Nat
  BY HouseAssumption DEF Clock
<1>1. CASE n < ElapsedCap
  <2> DEFINE lit == SeenSeconds(c, n)
             m == CatchUp(c, n)
             more == IF LevelAfter(c.level, c.burnt, n) >= Seen THEN 1 ELSE 0
             gather == IF gatherers = 0 THEN 0
                       ELSE LeftOver(gatherers, c.gathered, lit, GatherSeconds) + more
             listen == IF listeners = 0 THEN 0
                       ELSE LeftOver(listeners, c.listened, lit, ListenSeconds) + more
             found == IF gather = GatherSeconds THEN gatherers ELSE 0
             heard == IF listen = ListenSeconds THEN listeners ELSE 0
             now   == LevelAfter(c.level, c.burnt, n)
             spent == BurntAfter(c.level, c.burnt, n)
             falls == now > 0 /\ spent + 1 = DecaySeconds
  <2>1. lit \in Nat /\ SeenSeconds(c, n + 1) = lit + more /\ more \in {0, 1}
    BY <1>0, SeenNext
  <2>2. /\ LevelAfter(c.level, c.burnt, n + 1) = IF falls THEN now - 1 ELSE now
        /\ BurntAfter(c.level, c.burnt, n + 1) = IF now = 0 \/ falls THEN 0 ELSE spent + 1
    BY <1>0, FireNext
  <2>3. /\ LeftOver(gatherers, c.gathered, lit + more, GatherSeconds) = gather % GatherSeconds
        /\ gatherers * Cycles(gatherers, c.gathered, lit + more, GatherSeconds) =
             gatherers * Cycles(gatherers, c.gathered, lit, GatherSeconds) + found
        /\ gatherers * Cycles(gatherers, c.gathered, lit, GatherSeconds) \in Nat
        /\ found \in Nat
    <3>1. PICK w \in Nat : w = gatherers
      BY <1>0
    <3>2. PICK b \in 0 .. GatherSeconds - 1 : b = c.gathered
      BY <1>0
    <3>3. PICK l \in Nat, o \in {0, 1} : l = lit /\ o = more
      BY <2>1
    <3> DEFINE done == IF w = 0 THEN 0 ELSE LeftOver(w, b, l, GatherSeconds) + o
               yield == IF done = GatherSeconds THEN w ELSE 0
    <3>4. WorkGoesOn(w, b, l, o, GatherSeconds)
      BY <1>0, WorkNext
    <3>5. gather = done /\ found = yield
      BY <3>1, <3>2, <3>3
    <3> HIDE DEF lit, more, done, yield, gather, found
    <3> QED BY <3>1, <3>2, <3>3, <3>4, <3>5 DEF WorkGoesOn, done, yield
  <2>4. /\ LeftOver(listeners, c.listened, lit + more, ListenSeconds) = listen % ListenSeconds
        /\ listeners * Cycles(listeners, c.listened, lit + more, ListenSeconds) =
             listeners * Cycles(listeners, c.listened, lit, ListenSeconds) + heard
        /\ listeners * Cycles(listeners, c.listened, lit, ListenSeconds) \in Nat
        /\ heard \in Nat
    <3>1. PICK w \in Nat : w = listeners
      BY <1>0
    <3>2. PICK b \in 0 .. ListenSeconds - 1 : b = c.listened
      BY <1>0
    <3>3. PICK l \in Nat, o \in {0, 1} : l = lit /\ o = more
      BY <2>1
    <3> DEFINE done == IF w = 0 THEN 0 ELSE LeftOver(w, b, l, ListenSeconds) + o
               yield == IF done = ListenSeconds THEN w ELSE 0
    <3>4. WorkGoesOn(w, b, l, o, ListenSeconds)
      BY <1>0, WorkNext
    <3>5. listen = done /\ heard = yield
      BY <3>1, <3>2, <3>3
    <3> HIDE DEF lit, more, done, yield, listen, heard
    <3> QED BY <3>1, <3>2, <3>3, <3>4, <3>5 DEF WorkGoesOn, done, yield
  <2>5. /\ Gathered(c, n + 1) = Gathered(c, n) + found /\ Gathered(c, n) \in Nat
        /\ Heard(c, n + 1) = Heard(c, n) + heard /\ Heard(c, n) \in Nat
    BY <2>1, <2>3, <2>4 DEF Gathered, Heard
  <2>6. n <= ElapsedCap /\ n + 1 <= ElapsedCap /\ n + 1 \in Nat
    BY <1>0, <1>1
  <2>7. m =
        [level    |-> now,
         burnt    |-> spent,
         gathered |-> LeftOver(gatherers, c.gathered, lit, GatherSeconds),
         listened |-> LeftOver(listeners, c.listened, lit, ListenSeconds),
         progress |-> GatheredProgress(c.progress, Gathered(c, n)),
         kindling |-> AddCapped(c.kindling, Gathered(c, n)),
         remnants |-> AddCapped(c.remnants, GatheredRemnants(c.progress, Gathered(c, n))),
         clarity  |-> AddCapped(c.clarity, Heard(c, n))]
    BY <2>6, CatchUpWithin
  <2>8. CatchUp(c, n + 1) =
        [level    |-> IF falls THEN now - 1 ELSE now,
         burnt    |-> IF now = 0 \/ falls THEN 0 ELSE spent + 1,
         gathered |-> gather % GatherSeconds,
         listened |-> listen % ListenSeconds,
         progress |-> GatheredProgress(c.progress, Gathered(c, n) + found),
         kindling |-> AddCapped(c.kindling, Gathered(c, n) + found),
         remnants |-> AddCapped(c.remnants,
                                GatheredRemnants(c.progress, Gathered(c, n) + found)),
         clarity  |-> AddCapped(c.clarity, Heard(c, n) + heard)]
    <3> HIDE DEF gather, listen, found, heard, now, spent, falls, lit, more
    <3> QED BY <2>1, <2>2, <2>3, <2>4, <2>5, <2>6, CatchUpWithin
  <2>9. /\ AddCapped(c.kindling, Gathered(c, n) + found) = AddCapped(m.kindling, found)
        /\ AddCapped(c.clarity, Heard(c, n) + heard) = AddCapped(m.clarity, heard)
        /\ GatheredProgress(c.progress, Gathered(c, n) + found) =
             (m.progress + found) % KindlingPerRemnant
        /\ AddCapped(c.remnants, GatheredRemnants(c.progress, Gathered(c, n) + found)) =
             AddCapped(m.remnants, (m.progress + found) \div KindlingPerRemnant)
    <3>1. /\ m.kindling = AddCapped(c.kindling, Gathered(c, n))
          /\ m.clarity = AddCapped(c.clarity, Heard(c, n))
          /\ m.progress = GatheredProgress(c.progress, Gathered(c, n))
          /\ m.remnants = AddCapped(c.remnants, GatheredRemnants(c.progress, Gathered(c, n)))
      BY <2>7
    <3>2. PICK g \in Nat, f \in Nat : g = Gathered(c, n) /\ f = found
      BY <2>3, <2>5
    <3>3. PICK h \in Nat, e \in Nat : h = Heard(c, n) /\ e = heard
      BY <2>4, <2>5
    <3> HIDE DEF found, heard, m
    <3>4. GoodsGrow(c.kindling, c.remnants, c.progress, g, f)
      BY <1>0, GoodsNext
    <3>5. AddCapped(c.clarity, h + e) = AddCapped(AddCapped(c.clarity, h), e)
      BY <1>0, AddCappedTwice
    <3> QED BY <3>1, <3>2, <3>3, <3>4, <3>5 DEF GoodsGrow
  <2>10. SecondLater(m) =
        [level    |-> IF falls THEN now - 1 ELSE now,
         burnt    |-> IF now = 0 \/ falls THEN 0 ELSE spent + 1,
         gathered |-> gather % GatherSeconds,
         listened |-> listen % ListenSeconds,
         progress |-> (m.progress + found) % KindlingPerRemnant,
         kindling |-> AddCapped(m.kindling, found),
         remnants |-> AddCapped(m.remnants, (m.progress + found) \div KindlingPerRemnant),
         clarity  |-> AddCapped(m.clarity, heard)]
    <3>1. /\ m.level = now /\ m.burnt = spent
          /\ m.gathered = LeftOver(gatherers, c.gathered, lit, GatherSeconds)
          /\ m.listened = LeftOver(listeners, c.listened, lit, ListenSeconds)
      BY <2>7
    <3> HIDE DEF m
    <3> QED BY <3>1 DEF SecondLater
  <2> HIDE DEF m, lit, more, gather, listen, found, heard, now, spent, falls
  <2> QED BY <2>8, <2>9, <2>10 DEF m
<1>2. CASE ~(n < ElapsedCap)
  <2> DEFINE m == CatchUp(c, ElapsedCap)
  <2>1. CatchUp(c, n) = m /\ CatchUp(c, n + 1) = m
    <3>1. AtMost(n, ElapsedCap) = ElapsedCap /\ AtMost(n + 1, ElapsedCap) = ElapsedCap
          /\ AtMost(ElapsedCap, ElapsedCap) = ElapsedCap
      BY <1>0, <1>2 DEF AtMost
    <3> QED BY <3>1 DEF CatchUp
  <2>2. /\ Clock(m)
        /\ gatherers = 0 => m.gathered = 0
        /\ listeners = 0 => m.listened = 0
    BY <1>0, CatchUpClock
  <2>3. /\ m = [level |-> m.level, burnt |-> m.burnt, gathered |-> m.gathered,
                listened |-> m.listened, progress |-> m.progress, kindling |-> m.kindling,
                remnants |-> m.remnants, clarity |-> m.clarity]
        /\ m.level = 0 /\ m.burnt = 0
    <3>1. ElapsedCap <= ElapsedCap
      BY <1>0
    <3> QED BY <1>0, <3>1, CatchUpWithin, OutAtCap
  <2> HIDE DEF m
  <2>4. /\ m.gathered \in 0 .. GatherSeconds - 1 /\ m.listened \in 0 .. ListenSeconds - 1
        /\ m.progress \in 0 .. KindlingPerRemnant - 1
        /\ m.kindling \in 0 .. ResourceMax /\ m.remnants \in 0 .. ResourceMax
        /\ m.clarity \in 0 .. ResourceMax
    BY <2>2 DEF Clock
  <2>5. ASSUME NEW x \in Nat, NEW b \in Nat \ {0}, x < b PROVE x \div b = 0 /\ x % b = x
    <3>1. x \in 0 .. b - 1 /\ x = b * 0 + x
      BY <2>5
    <3> QED BY <3>1, DivModUnique
  <2>6. /\ m.gathered % GatherSeconds = m.gathered
        /\ m.listened % ListenSeconds = m.listened
        /\ (m.progress + 0) \div KindlingPerRemnant = 0
        /\ (m.progress + 0) % KindlingPerRemnant = m.progress
    <3>1. m.progress + 0 = m.progress
      BY <1>0, <2>4
    <3> QED BY <1>0, <2>4, <2>5, <3>1
  <2>7. /\ AddCapped(m.kindling, 0) = m.kindling /\ AddCapped(m.remnants, 0) = m.remnants
        /\ AddCapped(m.clarity, 0) = m.clarity
    BY <2>4, HouseAssumption DEF AddCapped, AtMost
  <2>8. ~(m.level >= Seen)
    BY <2>3, HouseAssumption
  <2>9. SecondLater(m) =
        [level |-> m.level, burnt |-> 0, gathered |-> m.gathered % GatherSeconds,
         listened |-> m.listened % ListenSeconds,
         progress |-> (m.progress + 0) % KindlingPerRemnant,
         kindling |-> AddCapped(m.kindling, 0),
         remnants |-> AddCapped(m.remnants, (m.progress + 0) \div KindlingPerRemnant),
         clarity |-> AddCapped(m.clarity, 0)]
    <3>1. /\ (IF gatherers = 0 THEN 0 ELSE m.gathered + 0) = m.gathered
          /\ (IF listeners = 0 THEN 0 ELSE m.listened + 0) = m.listened
          /\ m.gathered # GatherSeconds /\ m.listened # ListenSeconds
      BY <1>0, <2>2, <2>4
    <3> QED BY <2>3, <2>8, <3>1 DEF SecondLater
  <2> QED BY <2>1, <2>3, <2>6, <2>7, <2>9
<1> QED BY <1>1, <1>2

\* The first of them.
LEMMA CatchUpFirst ==
    ASSUME NEW c, Clock(c)
    PROVE  CatchUp(c, 1) = SecondLater(c)
<1>1. CatchUp(c, 0 + 1) = SecondLater(CatchUp(c, 0))
  BY CatchUpNext
<1>2. SecondLater(CatchUp(c, 0)) = SecondLater(c)
  <2> DEFINE m == CatchUp(c, 0)
  <2>1. /\ m.level = c.level /\ m.burnt = c.burnt /\ m.progress = c.progress
        /\ m.kindling = c.kindling /\ m.remnants = c.remnants /\ m.clarity = c.clarity
        /\ m.gathered = IF gatherers = 0 THEN 0 ELSE c.gathered
        /\ m.listened = IF listeners = 0 THEN 0 ELSE c.listened
    BY CatchUpNothing
  <2> HIDE DEF m
  <2> SUFFICES SecondLater(m) = SecondLater(c)
    BY DEF m
  <2>2. /\ (IF gatherers = 0 THEN 0 ELSE m.gathered + (IF c.level >= Seen THEN 1 ELSE 0))
             = (IF gatherers = 0 THEN 0 ELSE c.gathered + (IF c.level >= Seen THEN 1 ELSE 0))
        /\ (IF listeners = 0 THEN 0 ELSE m.listened + (IF c.level >= Seen THEN 1 ELSE 0))
             = (IF listeners = 0 THEN 0 ELSE c.listened + (IF c.level >= Seen THEN 1 ELSE 0))
    BY <2>1
  <2> QED BY <2>1, <2>2 DEF SecondLater
<1>3. 0 + 1 = 1
  OBVIOUS
<1> QED BY <1>1, <1>2, <1>3

Below == {ss \in Nat \X Nat : ss[1] < ss[2]}

\* Every set of natural numbers has a least member.
LEMMA Least ==
    ASSUME NEW T, T \subseteq Nat, T # {}
    PROVE  \E x \in T : \A y \in T : ~(y < x)
<1>1. IsWellFoundedOn(Below, Nat)
  BY NatLessThanWellFounded DEF OpToRel, Below
<1>2. PICK x \in T : \A y \in T : ~(<<y, x>> \in Below)
  BY <1>1, WFMin
<1> QED BY <1>2 DEF Below

\* The seconds of an absence one by one come to the same as the absence.
LEMMA SecondBySecond ==
    ASSUME NEW c, Clock(c), NEW d \in Nat \ {0}
    PROVE  LET later[n \in 0 .. d] == IF n = 0 THEN c ELSE SecondLater(later[n - 1])
           IN  CatchUp(c, d) = later[d]
<1> DEFINE later[n \in 0 .. d] == IF n = 0 THEN c ELSE SecondLater(later[n - 1])
           closed == [n \in 0 .. d |-> IF n = 0 THEN c ELSE CatchUp(c, n)]
<1> SUFFICES CatchUp(c, d) = later[d]
  OBVIOUS
<1>1. closed = [n \in 0 .. d |-> IF n = 0 THEN c ELSE SecondLater(closed[n - 1])]
  <2>1. ASSUME NEW n \in 0 .. d, n # 0
        PROVE  CatchUp(c, n) = SecondLater(closed[n - 1])
    <3>1. CASE n = 1
      <4>1. closed[n - 1] = c
        BY <3>1
      <4> QED BY <3>1, <4>1, CatchUpFirst
    <3>2. CASE n # 1
      <4>1. PICK k \in Nat : n = k + 1 /\ k # 0
        <5>1. n - 1 \in Nat /\ n = (n - 1) + 1 /\ n - 1 # 0
          BY <2>1, <3>2
        <5> QED BY <5>1
      <4>2. closed[n - 1] = CatchUp(c, k)
        BY <4>1
      <4> QED BY <4>1, <4>2, CatchUpNext
    <3> QED BY <3>1, <3>2
  <2> QED BY <2>1
<1> HIDE DEF closed
<1>2. later = [n \in 0 .. d |-> IF n = 0 THEN c ELSE SecondLater(later[n - 1])]
  BY <1>1
<1> HIDE DEF later
<1>3. ASSUME NEW k \in 0 .. d, k # 0, later[k] # CatchUp(c, k) PROVE FALSE
  <2> DEFINE T == {n \in 0 .. d : n # 0 /\ later[n] # CatchUp(c, n)}
  <2>1. PICK x \in T : \A y \in T : ~(y < x)
    <3>1. T \subseteq Nat /\ T # {}
      BY <1>3
    <3> HIDE DEF T
    <3> QED BY <3>1, Least
  <2>2. x - 1 \in 0 .. d /\ x - 1 < x /\ x \in 0 .. d /\ x # 0
    BY <2>1
  <2>3. later[x] = SecondLater(later[x - 1])
    BY <1>2, <2>2
  <2>4. CASE x = 1
    <3>1. later[x - 1] = c
      BY <1>2, <2>2, <2>4
    <3> QED BY <2>1, <2>3, <2>4, <3>1, CatchUpFirst
  <2>5. CASE x # 1
    <3>1. PICK j \in Nat : x = j + 1 /\ j # 0 /\ j = x - 1
      BY <2>2, <2>5
    <3>2. later[j] = CatchUp(c, j)
      BY <2>1, <2>2, <3>1
    <3> QED BY <2>1, <2>3, <3>1, <3>2, CatchUpNext
  <2> QED BY <2>4, <2>5
<1> QED BY <1>3

\* Every house in order is a clock.
LEMMA NowIsClock == ASSUME TypeOK, Valid PROVE Clock(Now)
  BY HouseAssumption DEF Clock, Now, TypeOK, Valid

\* An absence of any length leaves every part of the house that time changes
\* in its range.
LEMMA CatchUpRange ==
    ASSUME TypeOK, Valid, NEW elapsed \in Nat
    PROVE  /\ CatchUp(Now, elapsed).level \in 0 .. HearthMax
           /\ CatchUp(Now, elapsed).burnt \in 0 .. DecaySeconds - 1
           /\ CatchUp(Now, elapsed).level = 0 => CatchUp(Now, elapsed).burnt = 0
           /\ CatchUp(Now, elapsed).gathered \in 0 .. GatherSeconds - 1
           /\ CatchUp(Now, elapsed).listened \in 0 .. ListenSeconds - 1
           /\ CatchUp(Now, elapsed).progress \in 0 .. KindlingPerRemnant - 1
           /\ CatchUp(Now, elapsed).kindling \in 0 .. ResourceMax
           /\ CatchUp(Now, elapsed).remnants \in 0 .. ResourceMax
           /\ CatchUp(Now, elapsed).clarity \in 0 .. ResourceMax
<1>1. PICK c : c = Now
  OBVIOUS
<1>2. Clock(CatchUp(c, elapsed))
  BY <1>1, NowIsClock, CatchUpClock
<1> QED BY <1>1, <1>2 DEF Clock

-----------------------------------------------------------------------------
(* The house in order *)

\* The numbers of a valid house.
LEMMA HouseRanges ==
    ASSUME HouseCore
    PROVE  /\ kindling \in 0 .. ResourceMax /\ remnants \in 0 .. ResourceMax
           /\ rations \in 0 .. ResourceMax /\ clarity \in 0 .. ResourceMax
           /\ gather_progress \in 0 .. KindlingPerRemnant - 1
           /\ gather_progress \in Nat
           /\ residents \in 0 .. 2 /\ memories \in 0 .. 1
           /\ step \in 0 .. 4 /\ encounter \in 0 .. 2
           /\ exp_clarity \in 0 .. 4 /\ exp_rations \in 0 .. 2 /\ exp_resolve \in 0 .. 4
  BY HouseAssumption DEF HouseCore, TypeOK, Valid

\* A step of the house's economy leaves the expedition and the memory alone,
\* and if it keeps the goods and the people in order it keeps the invariant.
LEMMA HallUntouched ==
    ASSUME HouseCore, UNCHANGED <<memories, hall>>, built \subseteq built',
           "FIRST_MEMORY" \in story' <=> "FIRST_MEMORY" \in story,
           TypeOK', BuiltInOrder',
           kindling' \in 0 .. ResourceMax, remnants' \in 0 .. ResourceMax,
           rations' \in 0 .. ResourceMax, clarity' \in 0 .. ResourceMax,
           gather_progress' < KindlingPerRemnant,
           hearth_level' <= HearthMax, hearth_elapsed' < DecaySeconds,
           hearth_level' = 0 => hearth_elapsed' = 0,
           residents' <= 2, gatherers' + listeners' = residents'
    PROVE  HouseCore'
<1>1. Valid'
  BY DEF HouseCore, Valid, hall
<1>2. MemoryOnce'
  BY DEF HouseCore, MemoryOnce
<1>3. HallSupplies'
  BY DEF HouseCore, HallSupplies, hall, TypeOK
<1> QED BY <1>1, <1>2, <1>3 DEF HouseCore

\* A step of the expedition leaves the house alone, the goods kept apart, so
\* it keeps the invariant if it keeps the goods and the road in order.
LEMMA HouseUntouched ==
    ASSUME HouseCore,
           UNCHANGED <<kindling, labour, hearth, guests, built>>,
           remnants' \in 0 .. ResourceMax,
           rations' \in 0 .. ResourceMax, clarity' \in 0 .. ResourceMax,
           memories' \in 0 .. 1, story' \subseteq StoryFlags, MemoryOnce',
           active' \in BOOLEAN,
           step' \in 0 .. 4, encounter' \in 0 .. 2, cargo' \in Nat,
           exp_clarity' \in 0 .. 4, exp_rations' \in 0 .. 2, exp_resolve' \in 0 .. 4,
           ~active' => /\ exp_clarity' = 0 /\ exp_rations' = 0 /\ exp_resolve' = 0
                       /\ encounter' = 0 /\ step' = 0 /\ cargo' = 0,
           HallSupplies'
    PROVE  HouseCore'
<1>1. TypeOK'
  BY HouseRanges DEF HouseCore, TypeOK, labour, hearth, guests
<1>2. Valid'
  BY HouseRanges DEF HouseCore, TypeOK, Valid, labour, hearth, guests
<1>3. BuiltInOrder'
  BY DEF HouseCore, BuiltInOrder
<1> QED BY <1>1, <1>2, <1>3 DEF HouseCore

\* The way to the Hall, step by step: what is left of the provisions, and why
\* they last.
LEMMA HallStage ==
    ASSUME HouseCore, active
    PROVE  /\ built = Builds
           /\ step \in 0 .. 3 /\ encounter \in 0 .. 2
           /\ encounter > 0 => step = 2
           /\ step = 0 => exp_clarity = 4 /\ exp_rations = 2
           /\ step = 1 => exp_clarity = 3 /\ exp_rations = 2
           /\ step = 2 => exp_clarity = 2 /\ exp_rations = 1
           /\ step = 3 => exp_clarity = 1 /\ exp_rations = 1
           /\ exp_resolve = IF step < 2 \/ encounter = 2 THEN 4 ELSE 3
           /\ cargo \in Nat
<1>1. step \in 0 .. 3
  BY HouseRanges DEF HouseCore, HallSupplies
<1>2. 0 \div 2 = 0 /\ 1 \div 2 = 0 /\ 2 \div 2 = 1 /\ 3 \div 2 = 1
  OBVIOUS
<1> QED BY <1>1, <1>2, HouseRanges DEF HouseCore, HallSupplies, TypeOK

\* An advance never fails: it arrives or completes the expedition.
LEMMA AdvanceSucceeds ==
    ASSUME HouseCore, Advance
    PROVE  IF step = 3 THEN Complete ELSE Arrive(step + 1)
<1>1. 1 % 2 = 1 /\ 2 % 2 = 0 /\ 3 % 2 = 1 /\ 4 % 2 = 0
  OBVIOUS
<1>2. active /\ step \in 0 .. 3
  BY HallStage DEF Advance
<1>3. ~(\/ exp_clarity = 0
        \/ ((step + 1) % 2 = 0 /\ exp_rations = 0)
        \/ step + 1 > 4)
  BY <1>1, <1>2, HallStage
<1> QED BY <1>2, <1>3 DEF Advance

\* A cleared expedition is in order.
LEMMA ClearedInOrder ==
    ASSUME ClearExpedition
    PROVE  /\ active' = FALSE
           /\ step' \in 0 .. 4 /\ encounter' \in 0 .. 2 /\ cargo' \in Nat
           /\ exp_clarity' \in 0 .. 4 /\ exp_rations' \in 0 .. 2 /\ exp_resolve' \in 0 .. 4
           /\ exp_clarity' = 0 /\ exp_rations' = 0 /\ exp_resolve' = 0
           /\ encounter' = 0 /\ step' = 0 /\ cargo' = 0
           /\ HallSupplies'
  BY DEF ClearExpedition, HallSupplies

\* What can happen to the house, after an absence of any length.
Call ==
    \/ Search
    \/ TendHearth
    \/ PrepareRation
    \/ \E b \in Builds : Construct(b)
    \/ \E r \in Roles : Assign(r)
    \/ \E d \in Nat : Elapse(d)
    \/ StartExpedition
    \/ Advance
    \/ Remember
    \/ Retreat

\* A new house is in order.
LEMMA CoreAtStart == ASSUME Init PROVE HouseCore
<1>1. TypeOK
  <2>1. /\ 0 \in 0 .. GatherSeconds - 1 /\ 0 \in 0 .. ListenSeconds - 1
        /\ StartKindling \in Int
    BY HouseAssumption
  <2>2. built \subseteq Builds /\ story \subseteq StoryFlags /\ active \in BOOLEAN
    BY DEF Init
  <2> QED BY <2>1, <2>2 DEF Init, TypeOK
<1>2. Valid
  BY HouseAssumption DEF Init, Valid
<1>3. BuiltInOrder /\ MemoryOnce /\ HallSupplies
  BY DEF Init, BuiltInOrder, MemoryOnce, HallSupplies
<1> QED BY <1>1, <1>2, <1>3 DEF HouseCore

\* Every call leaves the house in order.
LEMMA CoreStep ==
    ASSUME HouseCore, Call \/ UNCHANGED houseVars
    PROVE  HouseCore'
<1>0. HouseCore /\ TypeOK /\ Valid /\ BuiltInOrder
  BY DEF HouseCore
<1>1. CASE Search
  <2>1. /\ kindling' \in 0 .. ResourceMax /\ remnants' \in 0 .. ResourceMax
        /\ gather_progress' \in 0 .. KindlingPerRemnant - 1
    BY <1>1, HouseRanges, GatherRange, AddCappedRange DEF Search
  <2>2. TypeOK' /\ BuiltInOrder'
    BY <1>0, <1>1, <2>1, HouseAssumption
    DEF Search, TypeOK, BuiltInOrder, hearth, guests, memory, hall
  <2> QED BY <1>0, <1>1, <2>1, <2>2, HallUntouched, HouseRanges, HouseAssumption
      DEF Search, Valid, hearth, guests, memory
<1>2. CASE TendHearth
  <2>1. kindling' \in 0 .. ResourceMax
    BY <1>2, HouseRanges, HouseAssumption DEF TendHearth, CanTendHearth
  <2>2. /\ hearth_level' = hearth_level + 1 /\ hearth_level' <= HearthMax
        /\ hearth_elapsed' = 0
        /\ UNCHANGED <<remnants, rations, clarity, labour, listeners, built, memories, hall>>
    BY <1>0, <1>2, HouseAssumption DEF TendHearth, CanTendHearth, TypeOK
  <2>3. \/ UNCHANGED <<residents, gatherers, story>>
        \/ /\ residents = 0 /\ residents' = 1 /\ gatherers' = 1
           /\ story' = story \cup {"FIRST_GUEST"}
    BY <1>2 DEF TendHearth
  <2>4. /\ residents' \in 0 .. 2 /\ gatherers' \in Nat
        /\ gatherers' + listeners' = residents'
        /\ story' \subseteq StoryFlags
        /\ "FIRST_MEMORY" \in story' <=> "FIRST_MEMORY" \in story
    <3>1. /\ residents \in 0 .. 2 /\ gatherers \in Nat /\ listeners \in Nat
          /\ gatherers + listeners = residents
          /\ story \subseteq StoryFlags /\ listeners' = listeners
      BY <1>0, <2>2, HouseRanges DEF TypeOK, Valid
    <3>2. CASE UNCHANGED <<residents, gatherers, story>>
      BY <3>1, <3>2
    <3>3. CASE /\ residents = 0 /\ residents' = 1 /\ gatherers' = 1
               /\ story' = story \cup {"FIRST_GUEST"}
      BY <3>1, <3>3 DEF StoryFlags
    <3> QED BY <2>3, <3>2, <3>3
  <2>5. BuiltInOrder'
    BY <1>0, <2>2 DEF BuiltInOrder
  <2>6. TypeOK'
    BY <1>0, <2>1, <2>2, <2>4 DEF TypeOK, labour, hall
  <2> QED BY <1>0, <2>1, <2>2, <2>4, <2>5, <2>6, HallUntouched, HouseRanges, HouseAssumption
      DEF labour
<1>3. CASE PrepareRation
  <2>1. /\ kindling' \in 0 .. ResourceMax /\ remnants' \in 0 .. ResourceMax
        /\ rations' \in 0 .. ResourceMax
    <3>1. kindling' \in 0 .. ResourceMax /\ remnants' \in 0 .. ResourceMax
      BY <1>3, HouseRanges, HouseAssumption DEF PrepareRation, CanPrepareRation
    <3>2. rations' \in 0 .. ResourceMax
      BY <1>3, HouseRanges, AddCappedRange DEF PrepareRation
    <3> QED BY <3>1, <3>2
  <2>2. TypeOK' /\ BuiltInOrder'
    BY <1>0, <1>3, <2>1
    DEF PrepareRation, TypeOK, BuiltInOrder, labour, hearth, guests, memory, hall
  <2> QED BY <1>0, <1>3, <2>1, <2>2, HallUntouched, HouseRanges
      DEF PrepareRation, Valid, labour, hearth, guests, memory
<1>4. ASSUME NEW b \in Builds, Construct(b) PROVE HouseCore'
  <2>1. kindling' \in 0 .. ResourceMax /\ remnants' \in 0 .. ResourceMax
    BY <1>4, HouseRanges, HouseAssumption DEF Construct, CanConstruct
  <2>3. TypeOK' /\ residents' \in 0 .. 2
    BY <1>0, <1>4, <2>1, HouseRanges
    DEF Construct, TypeOK, labour, hearth, memory, hall
  <2>5. BuiltInOrder'
    BY <1>0, <1>4 DEF BuiltInOrder, Construct, CanConstruct, Builds, TypeOK
  <2>4. gatherers' + listeners' = residents'
    BY <1>0, <1>4 DEF Construct, TypeOK, Valid
  <2> QED BY <1>0, <1>4, <2>1, <2>3, <2>4, <2>5, HallUntouched, HouseRanges
      DEF Construct, Valid, labour, hearth, memory
<1>5. ASSUME NEW r \in Roles, Assign(r) PROVE HouseCore'
  <2>1. /\ gatherers' \in Nat /\ listeners' \in Nat
        /\ gatherers' + listeners' = residents'
    BY <1>0, <1>5 DEF Assign, TypeOK, Valid
  <2>2. TypeOK' /\ BuiltInOrder'
    BY <1>0, <1>5, <2>1
    DEF Assign, TypeOK, BuiltInOrder, goods, labour, hearth, memory, hall
  <2> QED BY <1>0, <1>5, <2>1, <2>2, HallUntouched, HouseRanges
      DEF Assign, Valid, goods, labour, hearth, memory
<1>6. ASSUME NEW d \in Nat, Elapse(d) PROVE HouseCore'
  <2>2. /\ hearth_level' \in 0 .. HearthMax
        /\ hearth_elapsed' \in 0 .. DecaySeconds - 1
        /\ hearth_level' = 0 => hearth_elapsed' = 0
        /\ gather_elapsed' \in 0 .. GatherSeconds - 1
        /\ listen_elapsed' \in 0 .. ListenSeconds - 1
        /\ gather_progress' \in 0 .. KindlingPerRemnant - 1
        /\ kindling' \in 0 .. ResourceMax /\ remnants' \in 0 .. ResourceMax
        /\ clarity' \in 0 .. ResourceMax
    BY <1>0, <1>6, CatchUpRange DEF Elapse
  <2>3. UNCHANGED <<rations, guests, built, memory, hall>>
    BY <1>6 DEF Elapse
  <2>4. TypeOK' /\ BuiltInOrder'
    BY <1>0, <2>2, <2>3, HouseAssumption DEF TypeOK, BuiltInOrder, guests, memory, hall
  <2> QED BY <1>0, <2>2, <2>3, <2>4, HallUntouched, HouseRanges, HouseAssumption
      DEF Valid, guests, memory
<1>7. CASE StartExpedition
  <2>1. rations' \in 0 .. ResourceMax /\ clarity' \in 0 .. ResourceMax
    BY <1>7, HouseRanges, HouseAssumption DEF StartExpedition, CanExpedition
  <2>2. built = Builds
    BY <1>0, <1>7 DEF StartExpedition, CanExpedition, BuiltInOrder
  <2>3. HallSupplies'
    BY <1>7, <2>2 DEF StartExpedition, HallSupplies
  <2> QED BY <1>0, <1>7, <2>1, <2>3, HouseUntouched, HouseRanges
      DEF StartExpedition, HouseCore, TypeOK, MemoryOnce, memory
<1>8. CASE Advance
  <2>0. /\ active /\ encounter = 0
        /\ UNCHANGED <<kindling, rations, clarity, labour, hearth, guests, built>>
    BY <1>8 DEF Advance
  <2>1. CASE step = 3
    <3>1. Complete
      BY <1>8, <2>1, AdvanceSucceeds
    <3>2. remnants' \in 0 .. ResourceMax
      BY <3>1, <2>0, HallStage, HouseRanges, AddCappedRange DEF Complete
    <3>3. /\ memories' = 1 /\ story' = story \cup {"FIRST_MEMORY"}
          /\ MemoryOnce' /\ story' \subseteq StoryFlags
      BY <3>1, <1>0 DEF Complete, HouseCore, MemoryOnce, TypeOK, StoryFlags
    <3> QED BY <1>0, <2>0, <3>1, <3>2, <3>3, ClearedInOrder, HouseUntouched, HouseRanges
        DEF Complete
  <2>2. CASE step # 3
    <3>1. Arrive(step + 1)
      BY <1>8, <2>2, AdvanceSucceeds
    <3>2. step \in 0 .. 2 /\ cargo \in Nat
           /\ exp_resolve = IF step < 2 THEN 4 ELSE 3
      BY <2>0, <2>2, HallStage
    <3>3. 1 % 2 = 1 /\ 2 % 2 = 0 /\ 3 % 2 = 1
          /\ 1 \div 2 = 0 /\ 2 \div 2 = 1 /\ 3 \div 2 = 1
      OBVIOUS
    <3>4. /\ step' = step + 1 /\ exp_clarity' = 4 - step' /\ cargo' \in Nat
          /\ encounter' = (IF step = 1 THEN 2 ELSE 0)
          /\ exp_rations' = (IF step = 0 THEN 2 ELSE 1)
          /\ exp_resolve' = exp_resolve /\ active' = TRUE
          /\ UNCHANGED <<remnants, memories, story>>
      BY <2>0, <3>1, <3>2, <3>3, HallStage DEF Arrive, memory
    <3>6. HallSupplies'
      BY <2>0, <3>2, <3>3, <3>4, HallStage DEF HallSupplies
    <3>7. MemoryOnce' /\ story' \subseteq StoryFlags
      BY <1>0, <3>4 DEF HouseCore, MemoryOnce, TypeOK
    <3> QED BY <1>0, <2>0, <3>2, <3>4, <3>6, <3>7, HouseUntouched, HouseRanges
  <2> QED BY <2>1, <2>2
<1>9. CASE Remember
  <2>0. /\ active /\ encounter > 0 /\ step = 2 /\ exp_resolve > 1
        /\ UNCHANGED <<goods, labour, hearth, guests, built, memory>>
    BY <1>9, HallStage DEF Remember
  <2>1. /\ step' = step /\ active' = active
        /\ UNCHANGED <<exp_clarity, exp_rations>>
        /\ cargo' \in Nat /\ encounter' \in 0 .. 2 /\ exp_resolve' \in 0 .. 4
        /\ exp_resolve' = IF encounter' = 2 THEN 4 ELSE 3
        /\ encounter' > 0 => step' = 2
    <3>1. /\ encounter \in 1 .. 2 /\ cargo \in Nat
          /\ exp_resolve = IF encounter = 2 THEN 4 ELSE 3
      BY <2>0, HallStage
    <3>2. CASE encounter = 1
      BY <1>9, <2>0, <3>1, <3>2 DEF Remember
    <3>3. CASE encounter = 2
      BY <1>9, <2>0, <3>1, <3>3 DEF Remember
    <3> QED BY <3>1, <3>2, <3>3
  <2>2. HallSupplies'
    BY <2>0, <2>1 DEF HouseCore, HallSupplies
  <2> QED BY <1>0, <2>0, <2>1, <2>2, HouseUntouched, HouseRanges
      DEF HouseCore, TypeOK, MemoryOnce, goods, memory
<1>10. CASE Retreat
  <2>1. remnants' \in 0 .. ResourceMax
    <3>1. cargo \div 2 \in Nat
      BY <1>0, DivMod DEF TypeOK
    <3> QED BY <1>10, <3>1, HouseRanges, AddCappedRange DEF Retreat
  <2> QED BY <1>0, <1>10, <2>1, ClearedInOrder, HouseUntouched, HouseRanges
      DEF Retreat, HouseCore, TypeOK, MemoryOnce, memory
<1>11. CASE UNCHANGED houseVars
  BY <1>0, <1>11
  DEF houseVars, goods, labour, hearth, guests, memory, hall, HouseCore, TypeOK, Valid,
      BuiltInOrder, MemoryOnce, HallSupplies
<1> QED
  BY <1>1, <1>2, <1>3, <1>4, <1>5, <1>6, <1>7, <1>8, <1>9, <1>10, <1>11 DEF Call

\* A guest comes with the first fire that is seen and with the guest room, and
\* with nothing else.
LEMMA PeopleStep ==
    ASSUME HouseInv, [Next]_houseVars
    PROVE  GuestsAccounted'
<1>0. /\ residents = (IF "FIRST_GUEST" \in story THEN 1 ELSE 0)
                       + (IF "GUEST_ROOM" \in built THEN 1 ELSE 0)
      /\ residents \in Nat
  BY DEF HouseInv, HouseCore, GuestsAccounted, TypeOK
<1>1. CASE TendHearth
  BY <1>0, <1>1 DEF TendHearth, GuestsAccounted
<1>2. ASSUME NEW b \in Builds, Construct(b) PROVE GuestsAccounted'
  BY <1>0, <1>2 DEF Construct, CanConstruct, GuestsAccounted, memory
<1>3. ASSUME UNCHANGED <<residents, built>>,
             "FIRST_GUEST" \in story' <=> "FIRST_GUEST" \in story
      PROVE  GuestsAccounted'
  BY <1>0, <1>3 DEF GuestsAccounted
<1>4. CASE Search \/ PrepareRation \/ StartExpedition \/ Remember \/ Retreat
           \/ (\E d \in Gaps : Elapse(d)) \/ (\E r \in Roles : Assign(r))
           \/ UNCHANGED houseVars
  BY <1>3, <1>4 DEF Search, PrepareRation, StartExpedition, Remember, Retreat, Elapse, Assign,
     houseVars, guests, memory
<1>5. CASE Advance
  <2>1. UNCHANGED <<residents, built>>
    BY <1>5 DEF Advance, guests
  <2>2. story' = story \/ story' = story \cup {"FIRST_MEMORY"}
    BY <1>5 DEF Advance, Complete, Arrive, memory
  <2> QED BY <1>3, <2>1, <2>2
<1> QED BY <1>1, <1>2, <1>4, <1>5 DEF Next

\* Every legal sequence of calls and absences keeps the house valid, its people
\* accounted for, its memory single and its expeditions provisioned.
THEOREM HouseInvariant == Spec => []HouseInv
<1>1. Init => HouseInv
  <2>1. Init => GuestsAccounted
    BY DEF Init, GuestsAccounted
  <2> QED BY <2>1, CoreAtStart DEF HouseInv
<1>2. HouseInv /\ [Next]_houseVars => HouseInv'
  <2> SUFFICES ASSUME HouseInv, [Next]_houseVars PROVE HouseInv'
    OBVIOUS
  <2>1. Call \/ UNCHANGED houseVars
    BY HouseAssumption DEF Next, Call
  <2> QED BY <2>1, CoreStep, PeopleStep DEF HouseInv
<1> QED
  BY <1>1, <1>2, PTL DEF Spec

\* The types of the house (house_state.h:45-73).
THEOREM HouseTyped == Spec => []TypeOK
<1>1. HouseInv => TypeOK
  BY DEF HouseInv, HouseCore
<1> QED BY <1>1, HouseInvariant, PTL

\* No save is ever refused for the state of the house.
THEOREM AlwaysSavable == Spec => []Savable
  BY HouseInvariant, PTL DEF HouseInv, HouseCore, Savable

\* One guest for the first seen fire, one for the guest room, never another.
THEOREM PeopleAccounted == Spec => []GuestsAccounted
  BY HouseInvariant, PTL DEF HouseInv

\* The Hall's memory is counted once.
THEOREM OneMemory == Spec => []MemoryOnce
  BY HouseInvariant, PTL DEF HouseInv, HouseCore

\* The provisions on the road are those of the steps left.
THEOREM Provisioned == Spec => []HallSupplies
  BY HouseInvariant, PTL DEF HouseInv, HouseCore

\* No expedition to the Hall fails: it ends with a retreat or the full reward.
THEOREM NoFailedExpedition == Spec => HallEndsInReturn
<1> DEFINE Good == active /\ ~active' =>
              \/ Retreat
              \/ /\ step = 3
                 /\ remnants' = AddCapped(remnants, cargo + 1)
                 /\ "FIRST_MEMORY" \in story'
<1>1. HouseInv /\ [Next]_houseVars => Good
  <2> SUFFICES ASSUME HouseInv, [Next]_houseVars, active, ~active', ~Retreat
               PROVE  /\ step = 3
                      /\ remnants' = AddCapped(remnants, cargo + 1)
                      /\ "FIRST_MEMORY" \in story'
    OBVIOUS
  <2>0. HouseCore
    BY DEF HouseInv
  <2>1. ASSUME Remember PROVE FALSE
    <3>1. exp_resolve > 1
      BY <2>0, HallStage
    <3> QED BY <2>1, <3>1 DEF Remember
  <2>2. Advance
    BY <2>1 DEF Next, houseVars, Search, TendHearth, PrepareRation, Construct, Assign,
                Elapse, StartExpedition, hall
  <2>3. step = 3
    BY <2>0, <2>2, AdvanceSucceeds DEF Arrive
  <2>4. Complete
    BY <2>0, <2>2, <2>3, AdvanceSucceeds
  <2> QED BY <2>3, <2>4 DEF Complete
<1>2. HouseInv /\ [Next]_houseVars => [Good]_houseVars
  BY <1>1
<1> QED
  BY <1>2, HouseInvariant, PTL DEF Spec, HallEndsInReturn

\* However long the program was away, one call catches up with what a call
\* every second would have done (house_state.c:83-150).
THEOREM CatchesUp == Spec => []CatchUpIsSecondBySecond
<1>1. HouseInv => CatchUpIsSecondBySecond
  <2> SUFFICES ASSUME HouseInv, NEW d \in Gaps
               PROVE  LET later[n \in 0 .. d] ==
                              IF n = 0 THEN Now ELSE SecondLater(later[n - 1])
                      IN  CatchUp(Now, d) = later[d]
    BY DEF CatchUpIsSecondBySecond
  <2>1. PICK c : c = Now
    OBVIOUS
  <2>2. Clock(c)
    BY <2>1, NowIsClock DEF HouseInv, HouseCore
  <2>3. d \in Nat \ {0}
    BY HouseAssumption
  <2> QED BY <2>1, <2>2, <2>3, SecondBySecond
<1> QED BY <1>1, HouseInvariant, PTL

\* Two absences in a row are one: whether the house was caught up with in
\* between does not matter.
THEOREM AbsencesAdd ==
    ASSUME NEW c, Clock(c), NEW a \in Nat, NEW b \in Nat
    PROVE  CatchUp(CatchUp(c, a), b) = CatchUp(c, a + b)
<1> DEFINE m == CatchUp(c, a)
<1>1. /\ Clock(m)
      /\ gatherers = 0 => m.gathered = 0
      /\ listeners = 0 => m.listened = 0
  BY CatchUpClock
<1>2. m = [level |-> m.level, burnt |-> m.burnt, gathered |-> m.gathered,
           listened |-> m.listened, progress |-> m.progress, kindling |-> m.kindling,
           remnants |-> m.remnants, clarity |-> m.clarity]
  BY DEF CatchUp
<1> HIDE DEF m
<1>3. CatchUp(m, 0) = m
  BY <1>1, <1>2, CatchUpNothing
<1>4. ASSUME NEW k \in Nat, CatchUp(m, k) # CatchUp(c, a + k) PROVE FALSE
  <2> DEFINE T == {n \in Nat : CatchUp(m, n) # CatchUp(c, a + n)}
  <2>1. PICK x \in T : \A y \in T : ~(y < x)
    <3>1. T \subseteq Nat /\ T # {}
      BY <1>4
    <3> HIDE DEF T
    <3> QED BY <3>1, Least
  <2>2. x # 0
    BY <1>3, <2>1 DEF m
  <2>3. PICK j \in Nat : x = j + 1
    <3>1. x - 1 \in Nat /\ x = (x - 1) + 1
      BY <2>1, <2>2
    <3> QED BY <3>1
  <2>4. CatchUp(m, j) = CatchUp(c, a + j)
    BY <2>1, <2>3
  <2>5. CatchUp(m, j + 1) = SecondLater(CatchUp(m, j))
    BY <1>1, CatchUpNext
  <2>6. PICK i \in Nat : i = a + j
    OBVIOUS
  <2>7. CatchUp(c, i + 1) = SecondLater(CatchUp(c, i)) /\ a + (j + 1) = i + 1
    BY <2>6, CatchUpNext
  <2> QED BY <2>1, <2>3, <2>4, <2>5, <2>6, <2>7
<1> QED BY <1>4 DEF m

=============================================================================
