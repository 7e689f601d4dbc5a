----------------------------- MODULE MCWorldGen -----------------------------
(* WorldGen on the program's own map.                                      *)
EXTENDS WorldGen

\* Every seed the program can have: any transform of any region.
AllSeeds == [Regions -> 0 .. 7]

\* Under one seed the player goes to the borders, two corners, and cells whose
\* bits follow each other across the end of a row.
BorderCells == { <<15, 15>>, <<-15, -15>>, <<15, 0>>, <<-15, 1>>, <<0, -15>>, <<1, 0>> }

BorderWalk == [s \in AllSeeds |-> IF \A r \in Regions : s[r] = 0 THEN BorderCells ELSE {}]
=============================================================================
