---------------------------- MODULE SceneExchange ----------------------------
(* What a scene promises the campaign: it is one exchange.  It is open for a *)
(* while and ends by one of the ends SceneOutcomes lists for it, taking and  *)
(* giving all of that end at once; if that end cannot be paid it breaks, and *)
(* if the app stops it is as if it never began: nothing is taken or given.   *)
EXTENDS SceneOutcomes

CONSTANTS CapMax, SceneIds

VARIABLES scene, clarity, thread, remnants, outcome

exchangeVars == <<scene, clarity, thread, remnants, outcome>>

None == [type |-> "NONE", result |-> 0]

Init ==
    /\ scene = 0
    /\ clarity \in 0 .. CapMax /\ thread \in 0 .. CapMax /\ remnants \in 0 .. CapMax
    /\ outcome = None

\* The landmark whose scene it is: prv_activate_drift_map.
LandmarkOf(id) == IF id = 20 THEN Porch ELSE id + 4

Payable(end) == clarity >= end.clarityCost /\ thread >= end.threadCost

AtMostCap(n) == IF n > CapMax THEN CapMax ELSE n

Open(id) ==
    /\ scene = 0
    /\ scene' = id
    /\ outcome' = None
    /\ UNCHANGED <<clarity, thread, remnants>>

Settle(end) ==
    /\ Payable(end)
    /\ clarity' = AtMostCap(clarity - end.clarityCost + end.clarity)
    /\ thread' = AtMostCap(thread - end.threadCost + end.thread)
    /\ remnants' = AtMostCap(remnants + end.remnants)
    /\ outcome' = [type |-> "END", result |-> end.result]

Break(end) ==
    /\ ~Payable(end)
    /\ outcome' = [type |-> "ERROR", result |-> 0]
    /\ UNCHANGED <<clarity, thread, remnants>>

Leave ==
    /\ outcome' = None
    /\ UNCHANGED <<clarity, thread, remnants>>

Close ==
    /\ scene # 0
    /\ scene' = 0
    /\ \/ \E end \in SceneEnds(LandmarkOf(scene), clarity) : Settle(end) \/ Break(end)
       \/ Leave

Next == Close \/ \E id \in SceneIds : Open(id)

Spec == Init /\ [][Next]_exchangeVars
=============================================================================
