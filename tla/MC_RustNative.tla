--------------------------- MODULE MC_RustNative ---------------------------
(***************************************************************************)
(* RustNative with two versions of one crate and a build script, in two    *)
(* runs: any cp may fail, and any file may survive the clean between them. *)
(***************************************************************************)
EXTENDS RustNative, TLC

CONSTANTS v1, v2, script

MCUnits == {v1, v2, script}
MCCrate == [u \in MCUnits |-> IF u = script THEN "build_script" ELSE "versioned"]
MCHostOnly == {script}
Symmetry == Permutations({v1, v2})
=============================================================================
