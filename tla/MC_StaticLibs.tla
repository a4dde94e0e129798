--------------------------- MODULE MC_StaticLibs ---------------------------
(***************************************************************************)
(* StaticLibs with the target's own object and three others, two of which  *)
(* have the same member name, in three libraries of any contents.          *)
(***************************************************************************)
EXTENDS StaticLibs, TLC

CONSTANTS own, x, y, z, a1, a2, a3

MCObjects == {own, x, y, z}
MCName == [o \in MCObjects |-> IF o \in {x, y} THEN "util" ELSE
                               IF o = z THEN "z" ELSE "main"]
MCArchives == {a1, a2, a3}
MCLinkedSets == {{own} \cup S : S \in SUBSET {x, y, z}}
MCContents == SUBSET {x, y, z} \ {{}}
Symmetry == Permutations(MCArchives)
=============================================================================
