---------------------------- MODULE Publication ----------------------------
(***************************************************************************)
(* What a run of the driver promises a reader of its output files: that    *)
(* module, lists, report and graph of one analysis are there or not there, *)
(* that a new analysis takes the place of an old one only after a time     *)
(* with none, and that a run succeeds exactly when it puts its own there.  *)
(***************************************************************************)
EXTENDS Naturals

VARIABLES
  latest,       \* the number of the last run
  published,    \* the run whose whole analysis can be read, or 0
  succeeded     \* the last run has succeeded

pubVars == <<latest, published, succeeded>>

Init == latest = 0 /\ published = 0 /\ succeeded = FALSE

Begin ==
  /\ latest' = latest + 1 /\ succeeded' = FALSE
  /\ UNCHANGED published

Withdraw ==
  /\ published # 0 /\ ~succeeded
  /\ published' = 0
  /\ UNCHANGED <<latest, succeeded>>

Publish ==
  /\ published = 0 /\ ~succeeded
  /\ published' = latest /\ succeeded' = TRUE
  /\ UNCHANGED latest

Next == Begin \/ Withdraw \/ Publish

Spec == Init /\ [][Next]_pubVars
=============================================================================
