--------------------------- MODULE SceneOutcomes ---------------------------
(* What the scenes of content/scenes.json do: the result each end reports    *)
(* and what the code before it takes from the expedition and gives.          *)
(* SceneVm shows that the compiled scenes do exactly this.                   *)
EXTENDS Integers

Porch == 255    \* the landmark id of the porch's scene, which has no landmark

Ends == [result : 0 .. 3, clarityCost : Nat, clarity : Nat,
         threadCost : Nat, thread : Nat, remnants : Nat]

Plain == [result |-> 1, clarityCost |-> 0, clarity |-> 0,
          threadCost |-> 0, thread |-> 0, remnants |-> 0]
Second == [Plain EXCEPT !.result = 2]

\* The ends of the scene at a landmark, id - 4, or of the porch, scene 20, for
\* an expedition that has this much clarity.
SceneEnds(landmark, clarity) ==
    CASE landmark = 5  -> { Plain, [Second EXCEPT !.clarity = 2] }
      [] landmark = 6  -> { [Plain EXCEPT !.result = 0] } \cup
                          (IF clarity >= 2 THEN { [Plain EXCEPT !.clarityCost = 2] } ELSE {})
      [] landmark = 7  -> { Plain, [Second EXCEPT !.thread = 2] }
      [] landmark = 8  -> { [Plain EXCEPT !.clarity = 2] }
      [] landmark = 9  -> { [[Second EXCEPT !.clarityCost = 2] EXCEPT !.thread = 2],
                            [Plain EXCEPT !.remnants = 3] }
      [] landmark = 10 -> { [[Second EXCEPT !.clarityCost = 3] EXCEPT !.thread = 3],
                            [Plain EXCEPT !.remnants = 3] }
      [] landmark \in {11, 15, 18} -> { [Plain EXCEPT !.clarity = 3] }
      [] landmark = 12 -> { [Plain EXCEPT !.clarity = 2],
                            [Second EXCEPT !.thread = 2] }
      [] landmark = 13 -> { [Plain EXCEPT !.thread = 2] }
      [] landmark \in {14, 23} -> { [Plain EXCEPT !.result = r] : r \in 1 .. 3 }
      [] landmark = 17 -> { [Plain EXCEPT !.thread = 3] }
      [] landmark \in {16, 19, 20, 21} -> { Plain }
      [] landmark = 22 -> { [Plain EXCEPT !.threadCost = 2] }
      [] landmark = Porch -> { [Plain EXCEPT !.clarityCost = 1],
                               [Second EXCEPT !.remnants = 2] }
      [] OTHER -> {}
=============================================================================
