----------------------------- MODULE RustUnits -----------------------------
(***************************************************************************)
(* What both ways of building a Rust target have in common: cargo compiles *)
(* the units of a plan, except those it takes as up to date, in a run of   *)
(* the driver.  Earlier runs have left their files.                        *)
(***************************************************************************)
EXTENDS Naturals

CONSTANTS
  Units,      \* compiled units: a crate with a build hash in its file name
  Crate,      \* the crate name of a unit, which begins its file names
  MaxRuns     \* bound on the runs of the driver

ASSUME CrateAssumption ==
  /\ DOMAIN Crate = Units
  /\ MaxRuns \in Nat \ {0}

VARIABLES
  run,        \* number of the current or last run
  state,      \* "idle", "building", then how the build has ended
  plan,       \* units the build consists of
  fresh       \* units cargo takes as up to date
=============================================================================
