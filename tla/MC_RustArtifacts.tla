-------------------------- MODULE MC_RustArtifacts --------------------------
(***************************************************************************)
(* RustArtifacts with a package that is a library and a binary of one name *)
(* and builds under two hashes, a second binary, and a dependency in two   *)
(* versions.  The library may be split; whether it is depends on the       *)
(* option, the manifests of package and workspace, and a flag.             *)
(***************************************************************************)
EXTENDS RustArtifacts

CONSTANTS emit, cfg, whole,
          lib1, lib2, bin1, bin2, tool, dep1, dep2

MCUnits == {lib1, lib2, bin1, bin2, tool, dep1, dep2}
MCNamed == {bin1, bin2, tool}
MCCrate == [u \in MCUnits |-> IF u \in {dep1, dep2} THEN "dep"
                              ELSE IF u = tool THEN "tool" ELSE "pkg"]
MCNeeds == [u \in MCUnits |-> CASE u \in {dep1, dep2} -> {}
                                [] u \in {lib1, lib2} -> {dep1, dep2}
                                [] u \in {bin1, tool} -> {lib1, dep1, dep2}
                                [] u = bin2 -> {lib2, dep1, dep2}]
MCPlans == {{dep1, lib1, bin1}, {dep1, dep2, lib1, bin1}, {dep1, lib2, bin2},
            {dep1, lib1, bin1, tool}}

MCFlag == {emit, cfg}
MCEmitFlags == {emit}

MCSplits == {{1, 2}, {2, 3}}

ASSUME LinkProductsApart

(* The workspace asks for one unit, cargo would take 256.                  *)
MCProject == [option |-> None, encoded |-> None, plain |-> None, target |-> None,
              configs |-> <<None, [set |-> {cfg}, units |-> None]>>,
              manifests |-> <<None, 1>>, root |-> 2, usual |-> 256]
MCProjects == {MCProject,
               [MCProject EXCEPT !.option = 16],
               [MCProject EXCEPT !.manifests = <<0, 1>>],
               [MCProject EXCEPT !.option = 16, !.plain = [set |-> {cfg}, units |-> 1]]}
=============================================================================
