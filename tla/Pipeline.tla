------------------------------ MODULE Pipeline ------------------------------
(***************************************************************************)
(* The driver's run command: cmd_run and _clean_project of cli.py, link.py *)
(* and analyze.py, and the order in which the analyzer's main writes its   *)
(* files.  Runs follow each other in one project, with the same output     *)
(* paths; each can fail at every stage and be killed between any two       *)
(* steps.  What the acquisition does to the build tree is in CBuild,       *)
(* RustArtifacts and RustNative.                                           *)
(***************************************************************************)
EXTENDS Naturals, Sequences

CONSTANT MaxRuns    \* bound on the runs

ASSUME RunAssumption == MaxRuns \in Nat \ {0}

Runs == 1 .. MaxRuns
Absent == 0                  \* no such file
Torn == MaxRuns + 1          \* a file opened and not written to its end
                             \* any other content is that of the run that wrote it

Lists == {"reached", "not_reached"}
Files == Lists \cup {"merged", "dot", "json"}

VARIABLES
  run,       \* the number of the current or last run
  clean,     \* --clean
  dots,      \* the runs with --dot
  pc,        \* what the run does next
  drops,     \* what is left to be removed
  writes,    \* the files the run still has to write
  opened,    \* the first of these is open
  file,      \* the content of each file
  kept       \* what could not be removed in this run

vars == <<run, clean, dots, pc, drops, writes, opened, file, kept>>
options == <<run, clean, dots>>

Stages == {"idle", "toolchain", "clean", "build", "link", "analyze", "write",
           "refused", "failed", "killed", "done"}
Ended == {"idle", "refused", "failed", "killed", "done"}

CleanListOld ==                                         \* variant: one list
  IF run \in dots THEN <<"merged", "json", "reached", "dot">>
  ELSE <<"merged", "json", "reached">>

(* _clean_project drops these, then what the build made.                   *)
CleanList ==
  IF run \in dots THEN <<"merged", "json", "reached", "not_reached", "dot">>
  ELSE <<"merged", "json", "reached", "not_reached">>

WriteOrderJsonFirst ==                                  \* variant
  IF run \in dots THEN <<"json", "dot", "reached", "not_reached">>
  ELSE <<"json", "reached", "not_reached">>

(* main writes DOT and the two lists, then the JSON to its standard output, *)
(* which the driver parses and writes last.                                *)
WriteOrder ==
  IF run \in dots THEN <<"dot", "reached", "not_reached", "json">>
  ELSE <<"reached", "not_reached", "json">>

(* The values of the variables.                                            *)
TypeOK ==
  /\ run \in 0 .. MaxRuns /\ clean \in BOOLEAN /\ dots \subseteq 1 .. run
  /\ pc \in Stages
  /\ drops \in Seq(Files) /\ writes \in Seq(Files)
  /\ opened \in BOOLEAN
  /\ file \in [Files -> 0 .. Torn]
  /\ kept \subseteq Files

Init ==
  /\ run = 0 /\ clean = FALSE /\ dots = {} /\ pc = "idle"
  /\ drops = <<>> /\ writes = <<>> /\ opened = FALSE /\ kept = {}
  /\ file = [f \in Files |-> Absent]

-----------------------------------------------------------------------------
Start ==
  /\ pc \in Ended /\ run < MaxRuns
  /\ run' = run + 1
  /\ clean' \in BOOLEAN
  /\ dots' \in {dots, dots \cup {run + 1}}
  /\ pc' = "toolchain" /\ drops' = <<>> /\ writes' = <<>> /\ opened' = FALSE /\ kept' = {}
  /\ UNCHANGED file

(* Toolchain: what is refused has touched nothing.                         *)
CheckToolchain ==
  /\ pc = "toolchain"
  /\ \/ /\ pc' = IF clean THEN "clean" ELSE "build"
        /\ drops' = IF clean THEN CleanList ELSE <<>>
     \/ pc' = "refused" /\ UNCHANGED drops
  /\ UNCHANGED <<options, writes, opened, file, kept>>

(* One removal; if it fails there is a warning and the rest goes on.       *)
Drop ==
  /\ pc = "clean" /\ drops # <<>>
  /\ \/ file' = [file EXCEPT ![Head(drops)] = Absent] /\ UNCHANGED kept
     \/ kept' = kept \cup {Head(drops)} /\ UNCHANGED file
  /\ drops' = Tail(drops)
  /\ UNCHANGED <<options, pc, writes, opened>>

Cleaned ==
  /\ pc = "clean" /\ drops = <<>>
  /\ pc' = "build"
  /\ UNCHANGED <<options, drops, writes, opened, file, kept>>

(* The acquisition: CBuild and StaticLibs, RustArtifacts or RustNative.    *)
Build ==
  /\ pc = "build"
  /\ pc' = "link" /\ writes' = <<"merged">>
  /\ UNCHANGED <<options, drops, opened, file, kept>>

Analyze ==
  /\ pc = "analyze" /\ file["merged"] = run
  /\ pc' = "write" /\ writes' = WriteOrder
  /\ UNCHANGED <<options, drops, opened, file, kept>>

(* Opening truncates.                                                      *)
Open ==
  /\ pc \in {"link", "write"} /\ writes # <<>> /\ ~opened
  /\ opened' = TRUE
  /\ file' = [file EXCEPT ![Head(writes)] = Torn]
  /\ UNCHANGED <<options, pc, drops, writes, kept>>

Close ==
  /\ pc \in {"link", "write"} /\ opened
  /\ opened' = FALSE
  /\ file' = [file EXCEPT ![Head(writes)] = run]
  /\ writes' = Tail(writes)
  /\ pc' = IF Tail(writes) # <<>> THEN pc
           ELSE IF pc = "link" THEN "analyze" ELSE "done"
  /\ UNCHANGED <<options, drops, kept>>

SkipUnwritable ==                                       \* variant: only reported
  /\ writes' = Tail(writes)
  /\ pc' = IF Tail(writes) # <<>> THEN pc ELSE "done"

(* A file that cannot be opened or written to its end ends the run.        *)
AfterUnwritable == pc' = "failed" /\ UNCHANGED writes

Unwritable ==
  /\ pc = "write"
  /\ AfterUnwritable
  /\ opened' = FALSE
  /\ UNCHANGED <<options, drops, file, kept>>

(* A failed build, no bitcode, a failed link, which may leave its output   *)
(* or not, a module that does not load, an entry that is not found.        *)
Fail ==
  /\ pc \in {"build", "link", "analyze"}
  /\ pc' = "failed" /\ opened' = FALSE
  /\ file' \in {file} \cup (IF opened THEN {[file EXCEPT !["merged"] = Absent]} ELSE {})
  /\ UNCHANGED <<options, drops, writes, kept>>

Kill ==
  /\ pc \notin Ended
  /\ pc' = "killed"
  /\ UNCHANGED <<options, drops, writes, opened, file, kept>>

Next == \/ Start \/ CheckToolchain \/ Drop \/ Cleaned \/ Build \/ Analyze
        \/ Open \/ Close \/ Unwritable \/ Fail \/ Kill

Spec == Init /\ [][Next]_vars

-----------------------------------------------------------------------------
Outputs(r) == Lists \cup {"merged", "json"} \cup (IF r \in dots THEN {"dot"} ELSE {})

(* A complete report never comes with older lists or an older module: what *)
(* lies beside it, if complete, is of its run or of one that has failed or *)
(* was killed since.                                                       *)
ReportIsNotNewer ==
  file["json"] \in Runs =>
    \A f \in Outputs(file["json"]) : file[f] \in Runs => file["json"] <= file[f]

(* The types, and the age of the report.                                   *)
Inv == TypeOK /\ ReportIsNotNewer

(* Once a run with --clean has cleaned, no complete file is of an earlier  *)
(* run, however the run goes on and ends, except where a warning said so.  *)
CleanLeavesNothingOld ==
  clean /\ pc \in {"build", "link", "analyze", "write", "failed", "done"} =>
    \A f \in Outputs(run) \ kept : file[f] \in {Absent, Torn, run}

(* The run whose files are all there and whole.                            *)
WholeAnalysis ==
  IF file["json"] \in Runs /\ \A f \in Outputs(file["json"]) : file[f] = file["json"]
  THEN file["json"] ELSE 0

Abstract == INSTANCE Publication
              WITH latest <- run, published <- WholeAnalysis, succeeded <- pc = "done"

(* A reader finds one whole analysis or none, never again an earlier one,  *)
(* and a run succeeds exactly when it leaves its own.                      *)
ImplementsPublication == Abstract!Spec
=============================================================================
