----------------------------- MODULE RustFlags -----------------------------
(***************************************************************************)
(* Which flags rustc gets in a build by acquire_rust_bitcode, and into how *)
(* many codegen units it splits a crate (acquire_rust.py).  Both are       *)
(* looked for in several places, and both should be what cargo would have  *)
(* used for the build that is fuzzed.                                      *)
(*                                                                         *)
(* Settings are a record of                                                *)
(*   option           --codegen-units,                                     *)
(*   encoded, plain   CARGO_ENCODED_RUSTFLAGS and RUSTFLAGS, None if unset *)
(*                    or blank,                                            *)
(*   target           target.<triple>.rustflags in some cargo config,      *)
(*   configs          build.rustflags of each cargo config, from the       *)
(*                    project upward, that of cargo's home the last,       *)
(*   manifests        codegen-units of the profile in each Cargo.toml from *)
(*                    the project upward, 0 if it is no number,            *)
(*   root             which of these is the workspace's,                   *)
(*   usual            cargo's default for the profile.                     *)
(* Flags are a set, beside them the -Ccodegen-units there is among them.   *)
(***************************************************************************)
EXTENDS Naturals, Sequences

CONSTANTS Flag, EmitFlags, None

ASSUME FlagAssumption == EmitFlags \subseteq Flag /\ None \notin Nat

Count == Nat \ {0}
Flags == [set : SUBSET Flag, units : Count \cup {None}]

Settings ==
  [option : Count \cup {None}, encoded : Flags \cup {None}, plain : Flags \cup {None},
   target : Flags \cup {None}, configs : Seq(Flags \cup {None}),
   manifests : Seq(Nat \cup {None}), root : Nat, usual : Count]

(* The first of a list that is there, as a loop over the directories up to *)
(* the root of the file system returns it; None has no place in Flags.     *)
Nearest(list) ==
  IF \A i \in DOMAIN list : list[i] = None THEN None
  ELSE list[CHOOSE i \in DOMAIN list :
              list[i] # None /\ \A j \in 1 .. i - 1 : list[j] = None]

NoFlags == [set |-> {}, units |-> None]

(* _config_rustflags                                                       *)
ConfigFlags(s) == IF Nearest(s.configs) = None THEN NoFlags ELSE Nearest(s.configs)

(* _compose_rustflags: what is there already.                              *)
Existing(s) ==
  IF s.encoded # None THEN s.encoded
  ELSE IF s.plain # None THEN s.plain
  ELSE ConfigFlags(s)

(* _resolve_codegen_units.  A manifest with no number ends the search.     *)
ManifestUnits(s) ==
  IF Nearest(s.manifests) \in {None, 0} THEN None ELSE Nearest(s.manifests)

Resolved(s) ==
  IF s.option # None THEN s.option
  ELSE IF ManifestUnits(s) # None THEN ManifestUnits(s)
  ELSE s.usual

(* The flags of the build: of two -Ccodegen-units rustc takes the last.    *)
Composed(s) ==
  [set   |-> EmitFlags \cup Existing(s).set,
   units |-> IF Existing(s).units # None THEN Existing(s).units ELSE Resolved(s)]

-----------------------------------------------------------------------------
(* External: cargo without the driver.  The first of its four sources that *)
(* is there counts, the configs together are the last; profiles are those  *)
(* of the workspace's manifest.                                            *)
CargoConfigured(s) == {i \in DOMAIN s.configs : s.configs[i] # None}

CargoFlags(s) ==
  IF s.encoded # None THEN s.encoded.set
  ELSE IF s.plain # None THEN s.plain.set
  ELSE IF s.target # None THEN s.target.set
  ELSE UNION {s.configs[i].set : i \in CargoConfigured(s)}

CargoUnits(s) ==
  IF s.root \in DOMAIN s.manifests /\ s.manifests[s.root] \notin {None, 0}
  THEN s.manifests[s.root] ELSE s.usual

(* Settings that leave no choice between places of one kind.               *)
OneConfig(s) ==
  s.target = None /\ \A i, j \in CargoConfigured(s) : i = j
OneManifest(s) ==
  s.option = None /\ \A i \in DOMAIN s.manifests : i # s.root => s.manifests[i] = None
=============================================================================
