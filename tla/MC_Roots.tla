------------------------------ MODULE MC_Roots ------------------------------
(***************************************************************************)
(* Roots with a C function, a Rust function once without and once with a   *)
(* legacy hash, one whose own name looks like a hash, a declaration and an *)
(* alias.                                                                  *)
(***************************************************************************)
EXTENDS Roots

MCBodies == {"fuzz", "_main", "_main17h1f", "_head"}
MCSymbols == MCBodies \cup {"ext"}
MCPath == [f \in MCSymbols |->
             CASE f = "_main" -> <<"app", "main">>
               [] f = "_main17h1f" -> <<"dep", "main", "h1f">>
               [] f = "_head" -> <<"app", "head">>
               [] OTHER -> <<f>>]
MCHexLike == {"head", "h1f"}
MCHashes == {"h1f"}
MCAliases == {"alias"}
MCAliasee == [a \in MCAliases |-> "_head"]

MCExpansion ==
  [r \in {"fuzz_target!", "main", "dep::main", "head", "_head", "ext", "nosuch"} |->
     CASE r = "fuzz_target!" -> <<<<"fuzz">>, <<"rust_fuzzer_test_input">>>>
       [] r = "dep::main" -> <<<<"dep", "main">>>>
       [] OTHER -> <<<<r>>>>]
MCRequests == UNION {[1 .. n -> DOMAIN MCExpansion] : n \in {1, 2}}

EdgeLists == {[f \in {} |-> {}], "fuzz" :> {"_main"}, "fuzz" :> {"ext"},
              "_main" :> {"_head"} @@ "_head" :> {"_main17h1f"}}
MCCallRelations == {[f \in MCSymbols |-> IF f \in DOMAIN E THEN E[f] ELSE {}] :
                   E \in EdgeLists}
MCLookupNames == {S \in SUBSET {"_main", "_head", "alias", "ext"} : Cardinality(S) <= 2}
=============================================================================
