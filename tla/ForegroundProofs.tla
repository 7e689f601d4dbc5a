-------------------------- MODULE ForegroundProofs --------------------------
(* Proofs about Foreground, for all numbers of the house, for actions of    *)
(* any length and for any time that passes in them.                         *)
EXTENDS Foreground, HouseStateProofs

\* What an action rests on.
TimedInv ==
    /\ action \in TimedActions \cup {"NONE"}
    /\ TimerHeld
    /\ ActionHonoured

\* The rules look at the fire, two goods and the worktable only.
LEMMA AcceptsUnchanged ==
    ASSUME UNCHANGED <<hearth_level, kindling, remnants, built>>,
           NEW a \in TimedActions
    PROVE  Accepts(a)' = Accepts(a)
<1>1. CanTendHearth' = CanTendHearth /\ CanPrepareRation' = CanPrepareRation
  BY DEF CanTendHearth, CanPrepareRation
<1> QED BY <1>1 DEF Accepts, TimedActions

\* No step leaves an action under way on another house than the one it was
\* checked against.
LEMMA TimedInvStep ==
    ASSUME TimedInv, [FgNext]_fgVars
    PROVE  TimedInv'
<1>0. /\ action \in TimedActions \cup {"NONE"}
      /\ (action # "NONE") <=> timer
      /\ timer => running
      /\ action # "NONE" => Accepts(action)
  BY DEF TimedInv, TimerHeld, ActionHonoured
<1>1. ASSUME action' = "NONE", timer' = FALSE PROVE TimedInv'
  BY <1>1 DEF TimedInv, TimerHeld, ActionHonoured
<1>2. ASSUME UNCHANGED <<action, timer, running>>,
             UNCHANGED <<hearth_level, kindling, remnants, built>>
      PROVE  TimedInv'
  BY <1>0, <1>2, AcceptsUnchanged DEF TimedInv, TimerHeld, ActionHonoured
<1>3. ASSUME action = "NONE", UNCHANGED <<action, timer>> PROVE TimedInv'
  BY <1>0, <1>3 DEF TimedInv, TimerHeld, ActionHonoured
<1>4. ASSUME NEW b \in Builds, ActivateWorkshop(b) PROVE TimedInv'
  BY <1>3, <1>4 DEF ActivateWorkshop, Idle, timing
<1>5. ASSUME NEW role \in Roles, ActivateGuests(role) PROVE TimedInv'
  BY <1>3, <1>5 DEF ActivateGuests, Idle, timing
<1>6. CASE ActivateDoor \/ ActivateExpedition \/ ActivateEncounter
  BY <1>3, <1>6
  DEF ActivateDoor, ActivateExpedition, ActivateEncounter, Idle, timing
<1>7. ASSUME NEW a \in TimedActions, StartTimedAction(a) PROVE TimedInv'
  <2>1. /\ action' = a /\ timer' = TRUE /\ running' /\ Accepts(a)
        /\ UNCHANGED <<hearth_level, kindling, remnants, built>>
    BY <1>7 DEF StartTimedAction, Idle, houseVars, goods, hearth
  <2>2. Accepts(a)'
    BY <2>1, AcceptsUnchanged
  <2>3. a # "NONE" /\ Accepts(action)'
    BY <2>1, <2>2 DEF TimedActions, Accepts
  <2> QED BY <2>1, <2>2, <2>3 DEF TimedInv, TimerHeld, ActionHonoured
<1>8. CASE TimerUpdate
  <2>1. CASE timer' = TRUE /\ action' = action
    <3>1. UNCHANGED <<action, timer, running>>
      BY <1>0, <1>8, <2>1 DEF TimerUpdate
    <3> QED BY <1>2, <1>8, <3>1 DEF TimerUpdate, houseVars, goods, hearth
  <2>2. CASE timer' = FALSE /\ action' = "NONE"
    BY <1>1, <2>2
  <2> QED BY <1>8, <2>1, <2>2 DEF TimerUpdate
<1>9. CASE TimerComplete
  BY <1>1, <1>9 DEF TimerComplete
<1>10. CASE Tick
  <2>1. CASE action = "NONE"
    BY <1>3, <1>10, <2>1 DEF Tick, timing
  <2>2. CASE action # "NONE"
    BY <1>2, <1>10, <2>2 DEF Tick, timing, houseVars, goods, hearth
  <2> QED BY <2>1, <2>2
<1>11. CASE Deinit \/ Crash
  BY <1>1, <1>11 DEF Deinit, Crash, Stopped
<1>12. ASSUME NEW d \in Absences, PrvInit(d) PROVE TimedInv'
  BY <1>0, <1>3, <1>12 DEF PrvInit, timing
<1>13. CASE UNCHANGED fgVars
  BY <1>2, <1>13 DEF fgVars, timing, houseVars, goods, hearth
<1> QED
  BY <1>4, <1>5, <1>6, <1>7, <1>8, <1>9, <1>10, <1>11, <1>12, <1>13 DEF FgNext

\* An action rests on its timer, its timer on the app, and its promise on a
\* house that stands still (main.c:1106-1184, 1768-1776).
THEOREM TimedInvariant == FgSpec => []TimedInv
<1>1. FgInit => TimedInv
  BY DEF FgInit, TimedInv, TimerHeld, ActionHonoured
<1>2. TimedInv /\ [FgNext]_fgVars => TimedInv'
  BY TimedInvStep
<1> QED BY <1>1, <1>2, PTL DEF FgSpec

\* Whatever the house's numbers, the time an action takes and the seconds that
\* pass in it, what it was begun for can still be done when it ends
\* (main.c:1113-1138, 1151-1184).
THEOREM PromisesKept == FgSpec => []ActionHonoured
<1>1. TimedInv => ActionHonoured
  BY DEF TimedInv
<1> QED BY <1>1, TimedInvariant, PTL

\* The buttons are never dead without a registered timer in a running app
\* (main.c:1143-1148, 1176-1182).
THEOREM NeverDeafForGood == FgSpec => []TimerHeld
<1>1. TimedInv => TimerHeld
  BY DEF TimedInv
<1> QED BY <1>1, TimedInvariant, PTL
-----------------------------------------------------------------------------
(* The house behind the app *)

\* A house that was at c, n seconds later.
Caught(c, n) == IF n = 0 THEN c ELSE CatchUp(c, n)

\* The record is `since` seconds behind the house, and `deferred` more behind
\* the clock.
Behind(since) ==
    /\ Now = Caught(saved.now, since)
    /\ age = AtMost(since + deferred, ElapsedCap)

\* Only time passes between two saves, so nothing else tells the record from
\* the house.
RecordInv ==
    /\ saved.rations = rations /\ saved.guests = guests /\ saved.built = built
    /\ saved.memory = memory /\ saved.hall = hall
    /\ Clock(saved.now)
    /\ \E since \in Nat : Behind(since)
    /\ ~stored => Init /\ saved = Snapshot

\* What the app keeps beside the house.
AppTyped ==
    /\ running \in BOOLEAN /\ timer \in BOOLEAN /\ stored \in BOOLEAN
    /\ action \in TimedActions \cup {"NONE"}
    /\ progress \in 0 .. Updates
    /\ deferred \in 0 .. DeferMax
    /\ age \in 0 .. ElapsedCap

FgIInv == HouseInv /\ AppTyped /\ RecordInv

\* Time is the same for a house with the same guests at work.
LEMMA CatchUpSame ==
    ASSUME NEW c, NEW n, UNCHANGED <<gatherers, listeners>>
    PROVE  CatchUp(c, n)' = CatchUp(c, n)
  BY DEF CatchUp, Decayed, SeenSeconds, AtMost, Cycles, LeftOver, GatheredProgress,
         GatheredRemnants, AddCapped

\* The record's time is the house's.
LEMMA RecordCatchUp ==
    ASSUME saved.guests = guests, NEW c, NEW n
    PROVE  Record!CatchUp(c, n) = CatchUp(c, n)
<1>1. saved.guests[2] = gatherers /\ saved.guests[3] = listeners
  BY DEF guests
<1> QED BY <1>1
    DEF CatchUp, Decayed, SeenSeconds, AtMost, Cycles, LeftOver, GatheredProgress,
        GatheredRemnants, AddCapped,
        Record!CatchUp, Record!Decayed, Record!SeenSeconds, Record!AtMost, Record!Cycles,
        Record!LeftOver, Record!GatheredProgress, Record!GatheredRemnants,
        Record!AddCapped

\* Absences add up from the record on.
LEMMA CaughtMore ==
    ASSUME NEW c, Clock(c), NEW a \in Nat, NEW b \in Nat \ {0}
    PROVE  CatchUp(Caught(c, a), b) = Caught(c, a + b)
<1>1. CASE a = 0
  BY <1>1 DEF Caught
<1>2. CASE a # 0
  <2>1. CatchUp(CatchUp(c, a), b) = CatchUp(c, a + b)
    BY AbsencesAdd
  <2> QED BY <1>2, <2>1 DEF Caught
<1> QED BY <1>1, <1>2

\* What is counted of an absence.
LEMMA CapTwice ==
    ASSUME NEW a \in Nat, NEW b \in Nat
    PROVE  /\ AtMost(a, ElapsedCap) \in 0 .. ElapsedCap
           /\ AtMost(AtMost(a, ElapsedCap) + b, ElapsedCap) = AtMost(a + b, ElapsedCap)
  BY HouseAssumption DEF AtMost

\* A house where nothing burns and nobody works stands still.
LEMMA NewHouseStands ==
    ASSUME Init, NEW n \in Nat
    PROVE  CatchUp(Now, n) = Now
<1>1. AtMost(n, ElapsedCap) \in Nat
  BY HouseAssumption DEF AtMost
<1>2. Decayed(Now, AtMost(n, ElapsedCap)) >= 0
  BY <1>1, DivMod, HouseAssumption DEF Decayed, Now, Init
<1>3. SeenSeconds(Now, AtMost(n, ElapsedCap)) = 0
  BY HouseAssumption DEF SeenSeconds, Now, Init
<1>4. 0 % KindlingPerRemnant = 0 /\ 0 \div KindlingPerRemnant = 0
  <2>1. 0 \in Nat /\ 0 = KindlingPerRemnant * 0 + 0 /\ 0 \in 0 .. KindlingPerRemnant - 1
    BY HouseAssumption
  <2> QED BY <2>1, DivModUnique, HouseAssumption
<1>5. AddCapped(0, 0) = 0 /\ AddCapped(StartKindling, 0) = StartKindling
  BY HouseAssumption DEF AddCapped, AtMost
<1>6. GatheredProgress(0, 0) = 0 /\ GatheredRemnants(0, 0) = 0
  BY <1>4 DEF GatheredProgress, GatheredRemnants
<1> QED BY <1>2, <1>3, <1>5, <1>6 DEF CatchUp, Now, Init, Cycles, LeftOver

\* What has just been saved is the house.
LEMMA SaveKeepsRecord ==
    ASSUME HouseInv', Save, deferred' \in 0 .. DeferMax
    PROVE  RecordInv' /\ age' \in 0 .. ElapsedCap /\ stored' = TRUE
<1>1. /\ saved'.now = Now' /\ saved'.rations = rations' /\ saved'.guests = guests'
      /\ saved'.built = built' /\ saved'.memory = memory' /\ saved'.hall = hall'
  BY DEF Save, Snapshot
<1>2. Clock(saved.now)'
  <2>1. TypeOK' /\ Valid'
    BY DEF HouseInv, HouseCore
  <2>2. Clock(Now)'
    BY <2>1, HouseAssumption DEF Clock, Now, TypeOK, Valid
  <2> QED BY <1>1, <2>2 DEF Clock
<1>3. /\ AtMost(0 + deferred', ElapsedCap) = deferred'
      /\ age' = deferred' /\ age' \in 0 .. ElapsedCap
  <2>1. age' = deferred'
    BY DEF Save
  <2>2. PICK k \in 0 .. DeferMax : k = deferred'
    OBVIOUS
  <2>3. k \in 0 .. ElapsedCap /\ AtMost(0 + k, ElapsedCap) = k
    BY HouseAssumption, ForegroundAssumption DEF AtMost
  <2> QED BY <2>1, <2>2, <2>3
<1>4. Behind(0)'
  BY <1>1, <1>3 DEF Behind, Caught
<1> QED BY <1>1, <1>2, <1>3, <1>4 DEF RecordInv, Save

\* A step that saves nothing keeps the record's distance, if only time passed.
LEMMA TimeKeepsRecord ==
    ASSUME RecordInv,
           UNCHANGED <<stored, saved, rations, guests, built, memory, hall>>,
           stored \/ UNCHANGED houseVars,
           NEW since \in Nat, Behind(since)'
    PROVE  RecordInv'
<1>1. Clock(saved.now)'
  BY DEF RecordInv, Clock, guests
<1>2. ASSUME ~stored PROVE Init' /\ saved' = Snapshot'
  <2>1. Init /\ saved = Snapshot /\ UNCHANGED houseVars
    BY <1>2 DEF RecordInv
  <2>2. Init'
    BY <2>1 DEF Init, houseVars, goods, labour, hearth, guests, memory, hall
  <2>3. Snapshot' = Snapshot
    BY <2>1 DEF Snapshot, Now, houseVars, goods, labour, hearth, guests, memory, hall
  <2> QED BY <2>1, <2>2, <2>3
<1> QED BY <1>1, <1>2 DEF RecordInv

\* The same house with the same record.
LEMMA CaughtSame ==
    ASSUME UNCHANGED <<saved, guests>>, NEW n, NEW c, c = saved.now
    PROVE  Caught(saved.now, n)' = Caught(c, n)
<1>1. CatchUp(c, n)' = CatchUp(c, n)
  BY CatchUpSame DEF guests
<1>2. saved'.now = c
  OBVIOUS
<1> QED BY <1>1, <1>2 DEF Caught

\* A step beside the house.
LEMMA StandingKeepsRecord ==
    ASSUME RecordInv, UNCHANGED <<houseVars, stored, saved, age, deferred>>
    PROVE  RecordInv'
<1>1. PICK since \in Nat : Behind(since)
  BY DEF RecordInv
<1>2. PICK c : c = saved.now
  OBVIOUS
<1>3. UNCHANGED <<rations, guests, built, memory, hall>> /\ Now' = Now
  BY DEF houseVars, goods, labour, hearth, guests, memory, hall, Now
<1>4. Caught(saved.now, since)' = Caught(c, since)
  BY <1>2, <1>3, CaughtSame
<1>5. Behind(since)'
  BY <1>1, <1>2, <1>3, <1>4 DEF Behind
<1> QED BY <1>1, <1>3, <1>5, TimeKeepsRecord

\* A start makes of the record the house that was, as much later as the clock
\* is.
LEMMA StartIsTime ==
    ASSUME HouseInv, AppTyped, RecordInv, NEW d \in Absences, PrvInit(d)
    PROVE  /\ RecordInv'
           /\ age' \in 0 .. ElapsedCap
           /\ UNCHANGED houseVars \/ (\E n \in Gaps : Elapse(n))
<1>1. PICK since \in Nat : Behind(since)
  BY DEF RecordInv
<1>2. PICK c : c = saved.now
  OBVIOUS
<1>3. PICK k \in 0 .. DeferMax, a \in 0 .. ElapsedCap : k = deferred /\ a = age
  BY DEF AppTyped
<1>4. d \in Nat /\ k \in Nat /\ a \in Nat /\ ElapsedCap \in Nat /\ ElapsedCap >= 1
  <2>1. HearthMax * DecaySeconds >= 1
    <3>1. HearthMax \in Nat \ {0} /\ DecaySeconds \in Nat \ {0}
      BY HouseAssumption
    <3> QED BY <3>1
  <2> QED BY <1>3, <2>1, HouseAssumption, ForegroundAssumption
<1>5. Clock(c) /\ Now = Caught(c, since) /\ a = AtMost(since + k, ElapsedCap)
  BY <1>1, <1>2, <1>3 DEF RecordInv, Behind
<1>6. /\ UNCHANGED <<stored, saved>> /\ deferred' = 0
      /\ age' = IF stored THEN AtMost(a + d, ElapsedCap) ELSE 0
      /\ Restore(IF stored /\ a + d > 0 THEN CatchUp(c, a + d) ELSE c)
  <2>1. Record!CatchUp(c, a + d) = CatchUp(c, a + d)
    BY RecordCatchUp DEF RecordInv
  <2> QED BY <1>2, <1>3, <2>1 DEF PrvInit
<1>7. PICK x : x = IF stored /\ a + d > 0 THEN CatchUp(c, a + d) ELSE c
  OBVIOUS
<1>8. PICK n \in Nat : n = since + (k + d)
  BY <1>4
<1>9. since + k \in Nat /\ n = since + k + d
  BY <1>4, <1>8
<1>10. AtMost(a + d, ElapsedCap) = AtMost(n, ElapsedCap) /\ AtMost(n, ElapsedCap) \in 0 .. ElapsedCap
  BY <1>4, <1>5, <1>9, CapTwice
<1>11. a + d = 0 <=> n = 0
  BY <1>4, <1>5, <1>9 DEF AtMost
<1>12. stored => x = Caught(c, n)
  <2>1. CatchUp(c, a + d) = CatchUp(c, n)
    BY <1>10 DEF CatchUp
  <2> QED BY <1>4, <1>7, <1>8, <1>11, <2>1 DEF Caught
<1>13. ~stored => x = c /\ c = Now
  BY <1>2, <1>7 DEF RecordInv, Snapshot
<1>14. x = [level |-> x.level, burnt |-> x.burnt, gathered |-> x.gathered,
            listened |-> x.listened, progress |-> x.progress, kindling |-> x.kindling,
            remnants |-> x.remnants, clarity |-> x.clarity]
  <2>1. CASE ~stored \/ n = 0
    <3>1. x = Now
      <4>1. CASE ~stored
        BY <1>13, <4>1
      <4>2. CASE stored /\ n = 0
        <5>1. since = 0
          BY <1>4, <1>8, <4>2
        <5> QED BY <1>5, <1>12, <4>2, <5>1 DEF Caught
      <4> QED BY <2>1, <4>1, <4>2
    <3> QED BY <3>1 DEF Now
  <2>2. CASE stored /\ n # 0
    BY <1>12, <2>2 DEF Caught, CatchUp
  <2> QED BY <2>1, <2>2
<1>15. Restore(x)
  BY <1>6, <1>7
<1>16. Now' = x
  BY <1>14, <1>15 DEF Restore, Now
<1>17. UNCHANGED <<rations, guests, built, memory, hall>>
  BY <1>15 DEF RecordInv, Restore, guests, memory, hall
<1>18. ASSUME Now' = Now PROVE UNCHANGED houseVars
  BY <1>17, <1>18 DEF Now, houseVars, goods, labour, hearth, guests, memory, hall
<1>19. CASE ~stored
  <2>1. UNCHANGED houseVars
    BY <1>13, <1>16, <1>18, <1>19
  <2>2. Behind(0)'
    <3>1. /\ Now' = saved'.now /\ deferred' = 0 /\ age' = 0
      BY <1>2, <1>6, <1>13, <1>16, <1>19
    <3>2. AtMost(0 + 0, ElapsedCap) = 0
      BY <1>4 DEF AtMost
    <3> QED BY <3>1, <3>2 DEF Behind, Caught
  <2> QED BY <1>4, <1>6, <1>17, <1>19, <2>1, <2>2, TimeKeepsRecord
<1>20. CASE stored
  <2>1. Behind(n)'
    <3>1. Caught(saved.now, n)' = Caught(c, n)
      BY <1>2, <1>6, <1>17, CaughtSame
    <3>2. age' = AtMost(n, ElapsedCap) /\ deferred' = 0 /\ n + 0 = n
      BY <1>6, <1>10, <1>20
    <3> QED BY <1>12, <1>16, <1>20, <3>1, <3>2 DEF Behind
  <2>2. RecordInv'
    BY <1>6, <1>17, <1>20, <2>1, TimeKeepsRecord
  <2>3. CASE k + d = 0
    <3>1. n = since
      BY <1>8, <2>3
    <3>2. Now' = Now
      BY <1>5, <1>12, <1>16, <1>20, <3>1
    <3> QED BY <1>6, <1>10, <1>18, <1>20, <2>2, <3>2
  <2>4. CASE k + d # 0
    <3>1. k + d \in Nat \ {0} /\ k + d \in Gaps
      <4>1. k + d > 0 /\ k + d = d + k
        BY <1>4, <2>4
      <4> QED BY <1>4, <4>1, ForegroundAssumption
    <3>2. CatchUp(Caught(c, since), k + d) = Caught(c, since + (k + d))
      BY <1>5, <3>1, CaughtMore
    <3>3. Now' = CatchUp(Now, k + d)
      BY <1>5, <1>8, <1>12, <1>16, <1>20, <3>2
    <3>4. Elapse(k + d)
      BY <1>17, <3>3 DEF Elapse, Now
    <3> QED BY <1>6, <1>10, <1>20, <2>2, <3>1, <3>4
  <2> QED BY <2>3, <2>4
<1> QED BY <1>19, <1>20

\* A second during an action is only counted.
LEMMA BusyTickKeepsRecord ==
    ASSUME AppTyped, RecordInv, UNCHANGED <<houseVars, stored, saved>>,
           deferred' = deferred + 1, Ages(1)
    PROVE  RecordInv'
<1>1. PICK since \in Nat : Behind(since)
  BY DEF RecordInv
<1>2. PICK c : c = saved.now
  OBVIOUS
<1>3. UNCHANGED <<rations, guests, built, memory, hall>> /\ Now' = Now
  BY DEF houseVars, goods, labour, hearth, guests, memory, hall, Now
<1>4. PICK k \in Nat : k = deferred
  BY ForegroundAssumption, HouseAssumption DEF AppTyped
<1>5. since + k \in Nat /\ since + (k + 1) = (since + k) + 1
  BY <1>4
<1>6. age' = AtMost(since + (k + 1), ElapsedCap)
  BY <1>1, <1>4, <1>5, CapTwice DEF Behind, Ages
<1>7. Caught(saved.now, since)' = Caught(c, since)
  BY <1>2, <1>3, CaughtSame
<1>8. Behind(since)'
  BY <1>1, <1>2, <1>3, <1>4, <1>6, <1>7 DEF Behind
<1> QED BY <1>1, <1>3, <1>8, TimeKeepsRecord

\* A second that is simulated and shows nothing is not saved: the record falls
\* behind by it.
LEMMA QuietTickKeepsRecord ==
    ASSUME AppTyped, RecordInv, UNCHANGED <<stored, saved>>,
           Elapse(deferred + 1), deferred' = 0, Ages(1)
    PROVE  RecordInv'
<1>1. PICK since \in Nat : Behind(since)
  BY DEF RecordInv
<1>2. PICK c : c = saved.now
  OBVIOUS
<1>3. UNCHANGED <<rations, guests, built, memory, hall>>
  BY DEF Elapse
<1>4. PICK k \in Nat : k = deferred
  BY ForegroundAssumption, HouseAssumption DEF AppTyped
<1>5. Now' = CatchUp(Now, k + 1)
  <2>1. CatchUp(Now, k + 1) =
          [level |-> CatchUp(Now, k + 1).level, burnt |-> CatchUp(Now, k + 1).burnt,
           gathered |-> CatchUp(Now, k + 1).gathered,
           listened |-> CatchUp(Now, k + 1).listened,
           progress |-> CatchUp(Now, k + 1).progress,
           kindling |-> CatchUp(Now, k + 1).kindling,
           remnants |-> CatchUp(Now, k + 1).remnants,
           clarity |-> CatchUp(Now, k + 1).clarity]
    BY DEF CatchUp
  <2> QED BY <1>4, <2>1 DEF Elapse, Now
<1>6. PICK n \in Nat : n = since + (k + 1)
  BY <1>4
<1>7. since + k \in Nat /\ n = (since + k) + 1 /\ n + 0 = n /\ k + 1 \in Nat \ {0}
  BY <1>4, <1>6
<1>8. age' = AtMost(n, ElapsedCap)
  BY <1>1, <1>4, <1>7, CapTwice DEF Behind, Ages
<1>9. Now' = Caught(c, n)
  <2>1. Clock(c) /\ Now = Caught(c, since)
    BY <1>1, <1>2 DEF Behind, RecordInv
  <2>2. CatchUp(Caught(c, since), k + 1) = Caught(c, since + (k + 1))
    BY <1>7, <2>1, CaughtMore
  <2> QED BY <1>5, <1>6, <2>1, <2>2
<1>10. Caught(saved.now, n)' = Caught(c, n)
  BY <1>2, <1>3, CaughtSame
<1>11. Behind(n)'
  BY <1>7, <1>8, <1>9, <1>10 DEF Behind
<1>12. stored \/ UNCHANGED houseVars
  <2>1. ASSUME ~stored PROVE UNCHANGED houseVars
    <3>1. Now' = Now
      BY <1>5, <1>7, <2>1, NewHouseStands DEF RecordInv
    <3> QED BY <1>3, <3>1 DEF Now, houseVars, goods, labour, hearth, guests, memory, hall
  <2> QED BY <2>1
<1> QED BY <1>3, <1>11, <1>12, TimeKeepsRecord

\* Every step of the app is a call of the rules, an absence they know, or none
\* of the house's affair.
LEMMA StepIsCall ==
    ASSUME FgIInv, [FgNext]_fgVars
    PROVE  [Next]_houseVars
<1>0. HouseInv /\ AppTyped /\ RecordInv
  BY DEF FgIInv
<1>1. ASSUME NEW b \in Builds, ActivateWorkshop(b) PROVE [Next]_houseVars
  BY <1>1 DEF ActivateWorkshop, Next
<1>2. ASSUME NEW role \in Roles, ActivateGuests(role) PROVE [Next]_houseVars
  BY <1>2 DEF ActivateGuests, Next
<1>3. CASE ActivateDoor \/ ActivateExpedition \/ ActivateEncounter
  BY <1>3 DEF ActivateDoor, ActivateExpedition, ActivateEncounter, Next
<1>4. CASE (\E a \in TimedActions : StartTimedAction(a)) \/ TimerUpdate \/ Crash
  BY <1>4 DEF StartTimedAction, TimerUpdate, Crash
<1>5. CASE TimerComplete
  BY <1>5 DEF TimerComplete, Performs, Next
<1>6. CASE Tick
  <2>1. CASE action = "NONE"
    <3>1. deferred + 1 \in Gaps
      BY <1>0, ForegroundAssumption, HouseAssumption DEF AppTyped
    <3> QED BY <1>6, <2>1, <3>1 DEF Tick, Next
  <2>2. CASE action # "NONE"
    BY <1>6, <2>2 DEF Tick
  <2> QED BY <2>1, <2>2
<1>7. CASE Deinit
  <2>1. CASE deferred > 0
    <3>1. deferred \in Gaps
      BY <1>0, <2>1, ForegroundAssumption, HouseAssumption DEF AppTyped
    <3> QED BY <1>7, <2>1, <3>1 DEF Deinit, Next
  <2>2. CASE ~(deferred > 0)
    BY <1>7, <2>2 DEF Deinit
  <2> QED BY <2>1, <2>2
<1>8. ASSUME NEW d \in Absences, PrvInit(d) PROVE [Next]_houseVars
  BY <1>0, <1>8, StartIsTime DEF Next
<1>9. CASE UNCHANGED fgVars
  BY <1>9 DEF fgVars
<1> QED BY <1>1, <1>2, <1>3, <1>4, <1>5, <1>6, <1>7, <1>8, <1>9 DEF FgNext

\* The rules keep the house in order.
LEMMA HouseStep ==
    ASSUME HouseInv, [Next]_houseVars
    PROVE  HouseInv'
<1>1. Call \/ UNCHANGED houseVars
  BY HouseAssumption DEF Next, Call
<1> QED BY <1>1, CoreStep, PeopleStep DEF HouseInv

\* Every step keeps the record as far behind the house as the clock says.
LEMMA FgStep ==
    ASSUME FgIInv, [FgNext]_fgVars
    PROVE  FgIInv'
<1>0. HouseInv /\ AppTyped /\ RecordInv
  BY DEF FgIInv
<1>1. HouseInv'
  BY <1>0, StepIsCall, HouseStep
<1>2. Updates \in Nat /\ 0 \in 0 .. Updates /\ Updates \in 0 .. Updates
  BY ForegroundAssumption
<1>3. ASSUME Save, UNCHANGED <<running, timing, deferred>> PROVE FgIInv'
  BY <1>0, <1>1, <1>3, SaveKeepsRecord DEF FgIInv, AppTyped, timing
<1>4. ASSUME NEW b \in Builds, ActivateWorkshop(b) PROVE FgIInv'
  BY <1>3, <1>4 DEF ActivateWorkshop
<1>5. ASSUME NEW role \in Roles, ActivateGuests(role) PROVE FgIInv'
  BY <1>3, <1>5 DEF ActivateGuests
<1>6. CASE ActivateDoor \/ ActivateExpedition \/ ActivateEncounter
  BY <1>3, <1>6 DEF ActivateDoor, ActivateExpedition, ActivateEncounter
<1>7. ASSUME NEW a \in TimedActions, StartTimedAction(a) PROVE FgIInv'
  <2>1. AppTyped'
    BY <1>0, <1>7, ForegroundAssumption DEF StartTimedAction, AppTyped, record, Idle
  <2>2. RecordInv'
    BY <1>0, <1>7, StandingKeepsRecord DEF StartTimedAction, record
  <2> QED BY <1>1, <2>1, <2>2 DEF FgIInv
<1>8. CASE TimerUpdate
  <2>1. /\ progress' \in 0 .. Updates /\ timer' \in BOOLEAN
        /\ action' \in TimedActions \cup {"NONE"}
        /\ UNCHANGED <<running, deferred, stored, age>>
    <3>1. progress \in Nat /\ progress + 1 < Updates /\ progress' = progress + 1
      BY <1>0, <1>8, <1>2 DEF TimerUpdate, AppTyped
    <3>2. progress' \in 0 .. Updates
      BY <1>2, <3>1
    <3>3. timer' \in BOOLEAN /\ action' \in TimedActions \cup {"NONE"}
      BY <1>0, <1>8 DEF TimerUpdate, AppTyped
    <3> QED BY <1>8, <3>2, <3>3 DEF TimerUpdate, record
  <2>2. AppTyped'
    BY <1>0, <2>1 DEF AppTyped
  <2>3. RecordInv'
    BY <1>0, <1>8, StandingKeepsRecord DEF TimerUpdate, record
  <2> QED BY <1>1, <2>3, <2>2 DEF FgIInv
<1>9. CASE TimerComplete
  <2>1. Save /\ deferred' = deferred /\ running' = running
        /\ progress' = Updates /\ timer' = FALSE /\ action' = "NONE"
    BY <1>9 DEF TimerComplete
  <2>2. RecordInv' /\ age' \in 0 .. ElapsedCap /\ stored' = TRUE
    BY <1>0, <1>1, <2>1, SaveKeepsRecord DEF AppTyped
  <2>3. AppTyped'
    BY <1>0, <1>2, <2>1, <2>2 DEF AppTyped
  <2> QED BY <1>1, <2>2, <2>3 DEF FgIInv
<1>10. CASE Tick
  <2>0. UNCHANGED <<running, timing>> /\ 0 \in 0 .. DeferMax
    BY <1>10, ForegroundAssumption, HouseAssumption DEF Tick
  <2>1. ASSUME Ages(1) PROVE age' \in 0 .. ElapsedCap
    BY <1>0, <2>1, HouseAssumption DEF Ages, AtMost, AppTyped
  <2>2. CASE action = "NONE"
    <3>1. Elapse(deferred + 1) /\ deferred' = 0
      BY <1>10, <2>2 DEF Tick
    <3>2. CASE Save
      BY <1>0, <1>1, <2>0, <3>1, <3>2, SaveKeepsRecord DEF FgIInv, AppTyped, timing
    <3>3. CASE Ages(1) /\ UNCHANGED <<stored, saved>>
      BY <1>0, <1>1, <2>0, <2>1, <3>1, <3>3, QuietTickKeepsRecord
         DEF FgIInv, AppTyped, timing
    <3> QED BY <1>10, <2>2, <3>2, <3>3 DEF Tick
  <2>3. CASE action # "NONE"
    <3>1. /\ deferred < DeferMax /\ deferred' = deferred + 1 /\ Ages(1)
          /\ UNCHANGED <<houseVars, stored, saved>>
      BY <1>10, <2>3 DEF Tick
    <3>2. RecordInv'
      BY <1>0, <3>1, BusyTickKeepsRecord
    <3>3. deferred' \in 0 .. DeferMax
      BY <1>0, <3>1, ForegroundAssumption, HouseAssumption DEF AppTyped
    <3> QED BY <1>0, <1>1, <2>0, <2>1, <3>1, <3>2, <3>3 DEF FgIInv, AppTyped, timing
  <2> QED BY <2>2, <2>3
<1>11. ASSUME Stopped, UNCHANGED stored PROVE
          /\ running' \in BOOLEAN /\ timer' \in BOOLEAN
          /\ action' \in TimedActions \cup {"NONE"} /\ progress' \in 0 .. Updates
  BY <1>11, <1>2 DEF Stopped
<1>12. CASE Deinit
  <2>1. deferred' = 0 /\ 0 \in 0 .. DeferMax /\ Save /\ Stopped
    BY <1>12, ForegroundAssumption, HouseAssumption DEF Deinit
  <2>2. RecordInv' /\ age' \in 0 .. ElapsedCap /\ stored' = TRUE
    BY <1>1, <2>1, SaveKeepsRecord
  <2>3. progress' \in 0 .. Updates
    BY <2>1, ForegroundAssumption DEF Stopped
  <2> QED BY <1>1, <2>1, <2>2, <2>3 DEF FgIInv, AppTyped, Stopped
<1>13. CASE Crash
  <2>1. RecordInv'
    BY <1>0, <1>13, StandingKeepsRecord DEF Crash, record
  <2>2. AppTyped'
    BY <1>0, <1>11, <1>13 DEF Crash, AppTyped, record
  <2> QED BY <1>1, <2>1, <2>2 DEF FgIInv
<1>14. ASSUME NEW d \in Absences, PrvInit(d) PROVE FgIInv'
  <2>1. RecordInv' /\ age' \in 0 .. ElapsedCap
    BY <1>0, <1>14, StartIsTime
  <2>2. AppTyped'
    BY <1>0, <1>14, <2>1, ForegroundAssumption, HouseAssumption DEF PrvInit, AppTyped, timing
  <2> QED BY <1>1, <2>1, <2>2 DEF FgIInv
<1>15. CASE UNCHANGED fgVars
  <2>1. RecordInv'
    BY <1>0, <1>15, StandingKeepsRecord DEF fgVars, record
  <2> QED BY <1>0, <1>1, <1>15, <2>1 DEF FgIInv, AppTyped, fgVars, timing, record
<1> QED
  BY <1>4, <1>5, <1>6, <1>7, <1>8, <1>9, <1>10, <1>12, <1>13, <1>14, <1>15 DEF FgNext

\* The record, with the seconds since, is the house, in every state the app can
\* be in and after every crash (main.c:1768-1827).
THEOREM FgInvariant == FgSpec => []FgIInv
<1>1. FgInit => FgIInv
  <2> SUFFICES ASSUME FgInit PROVE FgIInv
    OBVIOUS
  <2>1. HouseInv
    <3>1. Init
      BY DEF FgInit
    <3>2. GuestsAccounted
      BY <3>1 DEF Init, GuestsAccounted
    <3> QED BY <3>1, <3>2, CoreAtStart DEF HouseInv
  <2>2. AppTyped
    <3>1. 0 \in 0 .. Updates /\ 0 \in 0 .. DeferMax /\ 0 \in 0 .. ElapsedCap
      BY ForegroundAssumption, HouseAssumption
    <3> QED BY <3>1 DEF FgInit, AppTyped
  <2>3. saved.now = Now /\ Clock(saved.now)
    BY <2>1, NowIsClock DEF FgInit, Snapshot, HouseInv, HouseCore
  <2>4. Behind(0)
    BY <2>3, HouseAssumption DEF FgInit, Behind, Caught, AtMost
  <2> QED BY <2>1, <2>2, <2>3, <2>4 DEF FgIInv, RecordInv, FgInit, Snapshot
<1>2. FgIInv /\ [FgNext]_fgVars => FgIInv'
  BY FgStep
<1> QED BY <1>1, <1>2, PTL DEF FgSpec

\* The types of the app around the house (main.c:140-186).
THEOREM FgTyped == FgSpec => []FgTypeOK
<1>1. FgIInv => FgTypeOK
  BY DEF FgIInv, HouseInv, HouseCore, AppTyped, FgTypeOK
<1> QED BY <1>1, FgInvariant, PTL

\* The app, with its deferred seconds, unsaved ticks, crashes and starts, is
\* the house of the rules (main.c:1768-1827, house_state.c:84-151).
THEOREM AppIsHouse == FgSpec => ImplementsHouse
<1>1. FgInit => Init
  BY DEF FgInit
<1>2. FgIInv /\ [FgNext]_fgVars => [Next]_houseVars
  BY StepIsCall
<1> QED BY <1>1, <1>2, FgInvariant, PTL DEF FgSpec, Spec, ImplementsHouse

\* So everything proved of the rules holds in the app: no save is refused.
THEOREM AppSavable == FgSpec => []Savable
  BY AppIsHouse, AlwaysSavable, PTL DEF ImplementsHouse

\* Its people are accounted for.
THEOREM AppPeople == FgSpec => []GuestsAccounted
  BY AppIsHouse, PeopleAccounted, PTL DEF ImplementsHouse

\* One call at the end of an absence is as good as one every second.
THEOREM AppCatchesUp == FgSpec => []CatchUpIsSecondBySecond
  BY AppIsHouse, CatchesUp, PTL DEF ImplementsHouse

\* And no expedition to the Hall fails.
THEOREM AppHallReturns == FgSpec => HallEndsInReturn
  BY AppIsHouse, NoFailedExpedition, PTL DEF ImplementsHouse
=============================================================================
