------------------------------- MODULE MCDrift -------------------------------
(* Drift on a small map: two or three landmarks of each band along the paths  *)
(* that run east and west of the house, walls of echoes, one hazard, one      *)
(* porch, one domestic cell.                                                  *)
EXTENDS Drift, TLC

SmallLandmarks == {0, 5, 6, 10, 13, 15, 17, 20, 22, 23}

SmallPlace ==
    (0 :> <<0, 1>>) @@
    (5 :> <<1, 0>>) @@ (6 :> <<-1, 0>>) @@
    (10 :> <<2, 0>>) @@ (13 :> <<-2, 0>>) @@
    (15 :> <<3, 0>>) @@ (17 :> <<-3, 0>>) @@
    (20 :> <<4, 0>>) @@ (22 :> <<-4, 0>>) @@ (23 :> <<4, 1>>)

\* 0 is a hazard, 10 an echo, 15 a porch, 40 a domestic room, 80 a path.
SmallRoll ==
    [p \in Cells |->
        CASE p = <<0, -1>> -> 40
          [] p = <<1, -1>> -> 15
          [] p = <<1, 1>>  -> 0
          [] OTHER -> 10]

SmallReach == <<0, 1, 2, 3, 4, 4>>
SmallClarity == [m \in 2 .. 6 |-> 6]
SmallRations == [m \in 2 .. 6 |-> 2]
SmallNerve == [m \in 2 .. 6 |-> 2]
=============================================================================
