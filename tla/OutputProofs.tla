---------------------------- MODULE OutputProofs ----------------------------
(***************************************************************************)
(* What can be relied on in the files a run leaves: by the order in which  *)
(* runs remove and write them, for any number of runs that are refused,    *)
(* fail or are killed anywhere (Pipeline); and by how the two coverage     *)
(* lists are made, for all names (CovLists).                               *)
(***************************************************************************)
EXTENDS Pipeline, CovLists, FiniteSetTheorems, SequenceTheorems, TLAPS

-----------------------------------------------------------------------------
(***************************************************************************)
(* The inductive invariant of Pipeline.                                    *)
(***************************************************************************)
Pending(list, f) == \E i \in DOMAIN list : list[i] = f

(* Complete files are of runs that have been; before the run has written   *)
(* one, none is of it, and the report is the last.                         *)
Contents ==
  /\ \A f \in Files : file[f] \in 0 .. run \cup {Torn}
  /\ pc = "idle" <=> run = 0
  /\ pc \in {"toolchain", "clean", "build", "link"} => \A f \in Files : file[f] # run
  /\ pc \notin {"idle", "done"} => file["json"] # run

Cleaning ==
  pc = "clean" =>
    \A f \in Outputs(run) : file[f] = Absent \/ f \in kept \/ Pending(drops, f)

(* A file that is open is torn.                                            *)
Opened ==
  opened => /\ pc \in {"link", "write", "killed"}
            /\ writes # <<>> /\ file[Head(writes)] = Torn

Linking ==
  /\ pc = "link" => writes = <<"merged">>
  /\ pc \in {"analyze", "write"} => file["merged"] = run

(* Each output has been written or still will be, the report at the end.   *)
Writing ==
  pc = "write" =>
    /\ writes # <<>> /\ writes[Len(writes)] = "json"
    /\ \A i \in DOMAIN writes : writes[i] = "json" => i = Len(writes)
    /\ ~Pending(writes, "merged")
    /\ \A f \in Outputs(run) : file[f] = run \/ Pending(writes, f)

Done == pc = "done" => \A f \in Outputs(run) : file[f] = run

IInv ==
  /\ TypeOK
  /\ Contents /\ Cleaning /\ Opened /\ Linking /\ Writing /\ Done
  /\ ReportIsNotNewer
  /\ CleanLeavesNothingOld

-----------------------------------------------------------------------------
LEMMA TornIsNoRun == Torn \in Nat /\ Torn \notin 0 .. MaxRuns /\ Runs = 1 .. MaxRuns
BY RunAssumption DEF Torn, Runs

(* What the lists name.                                                    *)
LEMMA CleanListNames ==
  /\ CleanList \in Seq(Files)
  /\ \A f \in Outputs(run) : Pending(CleanList, f)
<1>1. \A f \in {"merged", "json", "reached", "not_reached"} : Pending(CleanList, f)
  BY DEF Pending, CleanList
<1>2. run \in dots => Pending(CleanList, "dot")
  BY DEF Pending, CleanList
<1>3. CleanList \in Seq(Files)
  <2>1. /\ <<"merged", "json", "reached", "not_reached", "dot">> \in Seq(Files)
        /\ <<"merged", "json", "reached", "not_reached">> \in Seq(Files)
    BY DEF Files, Lists
  <2>. QED BY <2>1 DEF CleanList
<1>4. \A f \in Outputs(run) :
        f \in {"merged", "json", "reached", "not_reached"} \/ (f = "dot" /\ run \in dots)
  BY DEF Lists, Outputs
<1>. QED
  BY <1>1, <1>2, <1>3, <1>4

LEMMA WriteOrderNames ==
  /\ WriteOrder \in Seq(Files) /\ WriteOrder # <<>>
  /\ WriteOrder[Len(WriteOrder)] = "json"
  /\ \A i \in DOMAIN WriteOrder : WriteOrder[i] = "json" => i = Len(WriteOrder)
  /\ ~Pending(WriteOrder, "merged")
  /\ \A f \in Outputs(run) \ {"merged"} : Pending(WriteOrder, f)
<1>1. \A f \in {"json", "reached", "not_reached"} : Pending(WriteOrder, f)
  BY DEF Pending, WriteOrder
<1>2. run \in dots => Pending(WriteOrder, "dot")
  BY DEF Pending, WriteOrder
<1>3. ~Pending(WriteOrder, "merged")
  BY DEF Pending, WriteOrder
<1>4. WriteOrder \in Seq(Files) /\ WriteOrder # <<>>
  <2>1. /\ <<"dot", "reached", "not_reached", "json">> \in Seq(Files)
        /\ <<"reached", "not_reached", "json">> \in Seq(Files)
    BY DEF Files, Lists
  <2>. QED BY <2>1 DEF WriteOrder
<1>5. /\ WriteOrder[Len(WriteOrder)] = "json"
      /\ \A i \in DOMAIN WriteOrder : WriteOrder[i] = "json" => i = Len(WriteOrder)
  <2>1. CASE run \in dots
    BY <2>1 DEF WriteOrder
  <2>2. CASE run \notin dots
    BY <2>2 DEF WriteOrder
  <2>. QED BY <2>1, <2>2
<1>6. \A f \in Outputs(run) \ {"merged"} :
        f \in {"json", "reached", "not_reached"} \/ (f = "dot" /\ run \in dots)
  BY DEF Lists, Outputs
<1>. QED
  BY <1>1, <1>2, <1>3, <1>4, <1>5, <1>6

(* Of a list the head has gone when the tail is left.                      *)
LEMMA TailNames ==
  ASSUME NEW list \in Seq(Files), list # <<>>
  PROVE  /\ Head(list) \in Files /\ Tail(list) \in Seq(Files)
         /\ Pending(list, Head(list))
         /\ \A f : Pending(list, f) <=> f = Head(list) \/ Pending(Tail(list), f)
         /\ Tail(list) # <<>> => list[Len(list)] = Tail(list)[Len(Tail(list))]
         /\ Tail(list) = <<>> => list[Len(list)] = Head(list)
         /\ \A i \in DOMAIN Tail(list) : Tail(list)[i] = list[i + 1]
         /\ Len(Tail(list)) = Len(list) - 1
<1>1. \A i \in DOMAIN Tail(list) : i + 1 \in DOMAIN list /\ Tail(list)[i] = list[i + 1]
  OBVIOUS
<1>2. \A i \in DOMAIN list : i = 1 \/ i - 1 \in DOMAIN Tail(list)
  OBVIOUS
<1>3. 1 \in DOMAIN list /\ Head(list) = list[1]
  OBVIOUS
<1>4. \A f : Pending(list, f) <=> f = Head(list) \/ Pending(Tail(list), f)
  BY <1>1, <1>2, <1>3 DEF Pending
<1>. QED
  BY <1>1, <1>3, <1>4 DEF Pending

LEMMA InitInv == Init => IInv
<1>1. SUFFICES ASSUME Init
               PROVE  IInv
  OBVIOUS
<1>2. Outputs(run) \subseteq Files
  BY DEF Outputs, Files
<1>3. TypeOK
  <2>0. clean \in BOOLEAN /\ opened \in BOOLEAN
    BY <1>1 DEF Init
  <2>1. run \in 0 .. MaxRuns
    BY <1>1, RunAssumption DEF Init
  <2>2. dots \subseteq 1 .. run /\ pc \in Stages /\ kept \subseteq Files
    BY <1>1 DEF Init, Stages
  <2>3. drops \in Seq(Files) /\ writes \in Seq(Files)
    BY <1>1 DEF Init
  <2>4. file \in [Files -> 0 .. Torn]
    BY <1>1, TornIsNoRun DEF Init, Absent
  <2>. QED
    BY <2>0, <2>1, <2>2, <2>3, <2>4 DEF TypeOK
<1>4. Contents /\ ReportIsNotNewer
  BY <1>1, TornIsNoRun DEF Init, Contents, ReportIsNotNewer, Absent, Files
<1>. QED
  BY <1>1, <1>3, <1>4
     DEF Init, IInv, Cleaning, Opened, Linking, Writing, Done, CleanLeavesNothingOld

-----------------------------------------------------------------------------
(***************************************************************************)
(* Every step keeps it.                                                    *)
(***************************************************************************)
LEMMA TypeStep ==
  ASSUME TypeOK, Opened, [Next]_vars
  PROVE  TypeOK'
<1>1. run' \in 0 .. MaxRuns /\ dots' \subseteq 1 .. run'
  <2>1. CASE Start
    BY <2>1, RunAssumption DEF TypeOK, Start
  <2>2. CASE UNCHANGED options
    BY <2>2 DEF TypeOK, options
  <2>. QED BY <2>1, <2>2
       DEF Next, Start, CheckToolchain, Drop, Cleaned, Build, Analyze, Open, Close,
         Unwritable, AfterUnwritable, Fail, Kill, vars, options
<1>2. clean' \in BOOLEAN
  BY DEF TypeOK,
         Next, Start, CheckToolchain, Drop, Cleaned, Build, Analyze, Open, Close,
         Unwritable, AfterUnwritable, Fail, Kill, vars, options
<1>3. pc' \in Stages
  BY DEF TypeOK, Stages,
         Next, Start, CheckToolchain, Drop, Cleaned, Build, Analyze, Open, Close,
         Unwritable, AfterUnwritable, Fail, Kill, vars, options
<1>4. drops' \in Seq(Files)
  <2>1. drops' \in {drops, <<>>, CleanList} \/ (drops # <<>> /\ drops' = Tail(drops))
    BY DEF Next, Start, CheckToolchain, Drop, Cleaned, Build, Analyze, Open, Close,
         Unwritable, AfterUnwritable, Fail, Kill, vars, options
  <2>2. /\ drops \in Seq(Files) /\ <<>> \in Seq(Files) /\ CleanList \in Seq(Files)
        /\ drops # <<>> => Tail(drops) \in Seq(Files)
    BY TailNames, CleanListNames DEF TypeOK
  <2>. QED BY <2>1, <2>2
<1>5. writes' \in Seq(Files)
  <2>1. <<"merged">> \in Seq(Files)
    BY DEF Files
  <2>2. \/ writes' \in {writes, <<>>, <<"merged">>, WriteOrder}
        \/ writes # <<>> /\ writes' = Tail(writes)
    BY DEF Opened,
         Next, Start, CheckToolchain, Drop, Cleaned, Build, Analyze, Open, Close,
         Unwritable, AfterUnwritable, Fail, Kill, vars, options
  <2>3. /\ writes \in Seq(Files) /\ <<>> \in Seq(Files) /\ WriteOrder \in Seq(Files)
        /\ writes # <<>> => Tail(writes) \in Seq(Files)
    BY TailNames, WriteOrderNames DEF TypeOK
  <2>. QED BY <2>1, <2>2, <2>3
<1>6. opened' \in BOOLEAN
  BY DEF TypeOK,
         Next, Start, CheckToolchain, Drop, Cleaned, Build, Analyze, Open, Close,
         Unwritable, AfterUnwritable, Fail, Kill, vars, options
<1>7. file' \in [Files -> 0 .. Torn]
  <2>1. /\ file \in [Files -> 0 .. Torn] /\ Absent \in 0 .. Torn /\ Torn \in 0 .. Torn
        /\ run \in 0 .. Torn
    BY TornIsNoRun, RunAssumption DEF TypeOK, Absent, Torn
  <2>2. CASE Drop \/ Fail
    BY <2>1, <2>2 DEF Drop, Fail
  <2>3. CASE Open \/ Close
    BY <2>1, <2>3 DEF Open, Close
  <2>4. CASE UNCHANGED file
    BY <2>1, <2>4
  <2>. QED
    BY <2>2, <2>3, <2>4
       DEF Next, Start, CheckToolchain, Cleaned, Build, Analyze, Unwritable, Kill, vars
<1>8. kept' \subseteq Files
  BY TailNames DEF TypeOK,
         Next, Start, CheckToolchain, Drop, Cleaned, Build, Analyze, Open, Close,
         Unwritable, AfterUnwritable, Fail, Kill, vars, options
<1>. QED
  BY <1>1, <1>2, <1>3, <1>4, <1>5, <1>6, <1>7, <1>8 DEF TypeOK

(* Steps that complete no file leave each as it is or without content, and *)
(* the outputs of earlier runs are what they were.                         *)
NothingCompleted ==
  /\ run' \in Nat /\ run <= run' /\ run' <= MaxRuns
  /\ \A r \in 0 .. run : r \in dots' <=> r \in dots
  /\ file' \in [Files -> 0 .. Torn]
  /\ \A f \in Files : file'[f] = file[f] \/ file'[f] \in {Absent, Torn}

LEMMA NoneCompleted ==
  ASSUME TypeOK, Opened, [Next]_vars, ~Close
  PROVE  NothingCompleted
<1>1. run' \in Nat /\ run <= run' /\ run' <= MaxRuns
  BY RunAssumption DEF TypeOK,
         Next, Start, CheckToolchain, Drop, Cleaned, Build, Analyze, Open,
         Unwritable, AfterUnwritable, Fail, Kill, vars, options
<1>2. \A r \in 0 .. run : r \in dots' <=> r \in dots
  BY DEF TypeOK,
         Next, Start, CheckToolchain, Drop, Cleaned, Build, Analyze, Open,
         Unwritable, AfterUnwritable, Fail, Kill, vars, options
<1>3. file' \in [Files -> 0 .. Torn]
  BY TypeStep DEF TypeOK
<1>4. \A f \in Files : file'[f] = file[f] \/ file'[f] \in {Absent, Torn}
  BY DEF TypeOK,
         Next, Start, CheckToolchain, Drop, Cleaned, Build, Analyze, Open,
         Unwritable, AfterUnwritable, Fail, Kill, vars, options
<1>. QED
  BY <1>1, <1>2, <1>3, <1>4 DEF NothingCompleted

(* What a step keeps besides the types and the age of the report, action   *)
(* by action; conjuncts that the action hardly touches share a step.       *)
Rest ==
  Contents /\ Cleaning /\ Opened /\ Linking /\ Writing /\ Done /\ CleanLeavesNothingOld

LEMMA StartKeeps ==
  ASSUME IInv, Start
  PROVE  Rest'
<1>. USE TornIsNoRun DEF Start, IInv, options
<1>1. Contents'
  <2>1. run' = run + 1 /\ run + 1 \in 1 .. MaxRuns /\ pc' = "toolchain" /\ file' = file
    BY RunAssumption DEF TypeOK
  <2>2. \A f \in Files : file[f] \in 0 .. run \cup {Torn}
    BY DEF Contents
  <2>. QED
    BY <2>1, <2>2 DEF Contents, TypeOK, Files
<1>2. Cleaning' /\ Opened' /\ Linking' /\ Writing' /\ Done' /\ CleanLeavesNothingOld'
  BY DEF TypeOK, Contents, Cleaning, Ended, Outputs, Opened, Linking, Writing,
     Done, CleanLeavesNothingOld
<1>. QED
  BY <1>1, <1>2 DEF Rest

LEMMA CheckToolchainKeeps ==
  ASSUME IInv, CheckToolchain
  PROVE  Rest'
<1>. USE TornIsNoRun DEF CheckToolchain, IInv, options
<1>1. Contents' /\ Cleaning' /\ Opened' /\ Linking' /\ Writing' /\ Done' /\ CleanLeavesNothingOld'
  BY CleanListNames DEF TypeOK, Contents, Ended, Cleaning, Outputs, Opened,
     Linking, Writing, Done, CleanLeavesNothingOld
<1>. QED
  BY <1>1 DEF Rest

LEMMA DropKeeps ==
  ASSUME IInv, Drop
  PROVE  Rest'
<1>. USE TornIsNoRun DEF Drop, IInv, options
<1>1. Contents'
  <2>1. \A f \in Files : file'[f] \in {file[f], Absent}
    BY DEF TypeOK
  <2>2. run \in Nat \ {0}
    BY DEF TypeOK, Contents
  <2>. QED
    BY <2>1, <2>2 DEF Contents, Absent, Files
<1>2. Cleaning'
  <2>1. /\ Head(drops) \in Files
        /\ \A f : Pending(drops, f) => f = Head(drops) \/ Pending(Tail(drops), f)
    BY TailNames DEF TypeOK
  <2>2. /\ \A f \in Files \ {Head(drops)} : file'[f] = file[f]
        /\ file'[Head(drops)] = Absent \/ Head(drops) \in kept'
        /\ kept \subseteq kept'
    BY <2>1 DEF TypeOK
  <2>3. Outputs(run)' = Outputs(run) /\ Outputs(run) \subseteq Files
    BY DEF Outputs, Files
  <2>. QED
    BY <2>1, <2>2, <2>3 DEF Cleaning
<1>3. Opened' /\ Linking' /\ Writing' /\ Done' /\ CleanLeavesNothingOld'
  BY TailNames DEF TypeOK, Opened, Ended, Linking, Contents, Writing, Outputs,
     Done, CleanLeavesNothingOld, Cleaning
<1>. QED
  BY <1>1, <1>2, <1>3 DEF Rest

LEMMA CleanedKeeps ==
  ASSUME IInv, Cleaned
  PROVE  Rest'
<1>. USE TornIsNoRun DEF Cleaned, IInv, options
<1>1. CleanLeavesNothingOld'
  <2>1. \A f : ~Pending(drops, f)
    BY DEF Pending
  <2>2. Outputs(run)' = Outputs(run)
    BY DEF Outputs
  <2>. QED
    BY <2>1, <2>2 DEF CleanLeavesNothingOld, Cleaning
<1>2. Contents' /\ Cleaning' /\ Opened' /\ Linking' /\ Writing' /\ Done'
  BY DEF TypeOK, Contents, Ended, Cleaning, Outputs, Opened, Linking, Writing, Done
<1>. QED
  BY <1>1, <1>2 DEF Rest

LEMMA BuildKeeps ==
  ASSUME IInv, Build
  PROVE  Rest'
<1>. USE TornIsNoRun DEF Build, IInv, options
<1>1. Contents' /\ Cleaning' /\ Opened' /\ Linking' /\ Writing' /\ Done' /\ CleanLeavesNothingOld'
  BY DEF TypeOK, Contents, Ended, Cleaning, Outputs, Opened, Linking, Writing,
     Done, CleanLeavesNothingOld
<1>. QED
  BY <1>1 DEF Rest

LEMMA AnalyzeKeeps ==
  ASSUME IInv, Analyze
  PROVE  Rest'
<1>. USE TornIsNoRun DEF Analyze, IInv, options
<1>1. Contents' /\ Cleaning' /\ Opened' /\ Linking' /\ Writing' /\ Done' /\ CleanLeavesNothingOld'
  BY WriteOrderNames DEF TypeOK, Contents, Ended, Cleaning, Outputs, Opened,
     Linking, Writing, Done, CleanLeavesNothingOld
<1>. QED
  BY <1>1 DEF Rest

LEMMA OpenKeeps ==
  ASSUME IInv, Open
  PROVE  Rest'
<1>. USE TornIsNoRun DEF Open, IInv, options
<1>1. Linking'
  <2>1. pc = "write" => Head(writes) # "merged"
    BY TailNames DEF Writing, TypeOK
  <2>. QED
    BY <2>1 DEF Linking, TypeOK, Files
<1>2. Contents' /\ Cleaning' /\ Opened' /\ Writing' /\ Done' /\ CleanLeavesNothingOld'
  BY TailNames DEF TypeOK, Contents, Ended, Cleaning, Outputs, Opened, Linking,
     Writing, Done, CleanLeavesNothingOld
<1>. QED
  BY <1>1, <1>2 DEF Rest

LEMMA UnwritableKeeps ==
  ASSUME IInv, Unwritable
  PROVE  Rest'
<1>. USE TornIsNoRun DEF Unwritable, IInv, options
<1>1. Contents' /\ Cleaning' /\ Opened' /\ Linking' /\ Writing' /\ Done' /\ CleanLeavesNothingOld'
  BY DEF TypeOK, Contents, Ended, AfterUnwritable, Cleaning, Outputs, Opened,
     Linking, Writing, Done, CleanLeavesNothingOld
<1>. QED
  BY <1>1 DEF Rest

LEMMA FailKeeps ==
  ASSUME IInv, Fail
  PROVE  Rest'
<1>. USE TornIsNoRun DEF Fail, IInv, options
<1>1. Contents'
  <2>1. \A f \in Files : file'[f] \in {file[f], Absent}
    BY DEF TypeOK
  <2>2. run \in Nat \ {0}
    BY DEF TypeOK, Contents
  <2>. QED
    BY <2>1, <2>2 DEF Contents, Absent, Files
<1>2. CleanLeavesNothingOld'
  <2>1. \A f \in Files : file'[f] \in {file[f], Absent}
    BY DEF TypeOK
  <2>2. Outputs(run)' = Outputs(run) /\ Outputs(run) \subseteq Files
    BY DEF Outputs, Files
  <2>. QED
    BY <2>1, <2>2 DEF CleanLeavesNothingOld
<1>3. Cleaning' /\ Opened' /\ Linking' /\ Writing' /\ Done'
  BY DEF TypeOK, Contents, Cleaning, Ended, Outputs, Opened, Linking, Writing, Done
<1>. QED
  BY <1>1, <1>2, <1>3 DEF Rest

LEMMA KillKeeps ==
  ASSUME IInv, Kill
  PROVE  Rest'
<1>. USE TornIsNoRun DEF Kill, IInv, options
<1>1. Contents' /\ Cleaning' /\ Opened' /\ Linking' /\ Writing' /\ Done' /\ CleanLeavesNothingOld'
  BY DEF TypeOK, Contents, Ended, Cleaning, Outputs, Opened, Linking, Writing,
     Done, CleanLeavesNothingOld
<1>. QED
  BY <1>1 DEF Rest

(* Only Close completes a file; of the files it completes the report is    *)
(* the last, so that it leaves a whole analysis.                           *)
LEMMA CloseKeeps ==
  ASSUME IInv, Close
  PROVE  Rest' /\ ReportIsNotNewer'
<1>. DEFINE f == Head(writes)
<1>1. /\ TypeOK /\ f \in Files /\ writes # <<>> /\ file[f] = Torn
      /\ pc \in {"link", "write"} /\ run \in 1 .. MaxRuns /\ run' = run
      /\ Outputs(run) \subseteq Files
      /\ \A r : Outputs(r)' = Outputs(r)
  BY TailNames, TornIsNoRun
     DEF Close, IInv, TypeOK, Opened, Contents, options, Outputs, Files
<1>2. file'[f] = run /\ \A g \in Files \ {f} : file'[g] = file[g]
  BY <1>1 DEF Close, TypeOK
<1>3. CASE pc = "link"
  <2>1. f = "merged" /\ Tail(writes) = <<>> /\ pc' = "analyze"
    <3>1. writes = <<"merged">>
      BY <1>3 DEF IInv, Linking
    <3>2. Head(<<"merged">>) = "merged" /\ Tail(<<"merged">>) = <<>>
      OBVIOUS
    <3>. QED
      BY <1>3, <3>1, <3>2 DEF Close
  <2>2. Contents'
    BY <1>1, <1>2, <2>1 DEF IInv, Contents, TypeOK, Files
  <2>3. ReportIsNotNewer'
    BY <1>1, <1>2, <2>1, TornIsNoRun DEF IInv, ReportIsNotNewer, Contents, Files,
       Outputs
  <2>4. Cleaning' /\ Opened' /\ Linking' /\ Writing' /\ Done'
    BY <1>1, <1>2, <2>1 DEF Close, Cleaning, Opened, Linking, Writing, Done, Files
  <2>5. CleanLeavesNothingOld'
    BY <1>1, <1>2, <1>3, <2>1 DEF IInv, CleanLeavesNothingOld, Close, options
  <2>. QED
    BY <2>2, <2>3, <2>4, <2>5 DEF Rest
<1>4. CASE pc = "write"
  <2>1. /\ f # "merged" /\ \A g : Pending(writes, g) <=> g = f \/ Pending(Tail(writes), g)
        /\ writes[Len(writes)] = "json"
    BY <1>1, <1>4, TailNames DEF IInv, Writing, TypeOK
  <2>2. CASE Tail(writes) # <<>>
    <3>1. f # "json" /\ pc' = "write"
      BY <1>1, <1>4, <2>1, <2>2 DEF IInv, Writing, TypeOK, Close
    <3>2. Contents'
      BY <1>1, <1>2, <3>1, TornIsNoRun DEF IInv, Contents, TypeOK, Files
    <3>3. Writing'
      <4>1. /\ writes' = Tail(writes) /\ Len(writes') = Len(writes) - 1
            /\ writes'[Len(writes')] = "json"
            /\ \A i \in DOMAIN writes' : writes'[i] = writes[i + 1] /\ i + 1 \in DOMAIN writes
        BY <1>1, <2>1, <2>2, TailNames DEF Close, TypeOK
      <4>2. \A i \in DOMAIN writes' : writes'[i] = "json" => i = Len(writes')
        BY <1>1, <1>4, <4>1 DEF IInv, Writing, TypeOK
      <4>3. ~Pending(writes', "merged")
        BY <1>4, <2>1, <4>1 DEF IInv, Writing
      <4>4. \A g \in Outputs(run) : file'[g] = run \/ Pending(writes', g)
        BY <1>1, <1>2, <1>4, <2>1, <4>1 DEF IInv, Writing
      <4>. QED
        BY <1>1, <2>2, <4>1, <4>2, <4>3, <4>4 DEF Writing, Pending
    <3>4. ReportIsNotNewer'
      BY <1>1, <1>2, <3>1, TornIsNoRun DEF IInv, ReportIsNotNewer, Contents, Files,
         Outputs
    <3>5. Cleaning' /\ Opened' /\ Linking' /\ Done'
      BY <1>1, <1>2, <1>4, <2>1, <3>1
         DEF Close, IInv, Cleaning, Opened, Linking, Done, Files
    <3>6. CleanLeavesNothingOld'
      BY <1>1, <1>2, <1>4, <3>1 DEF IInv, CleanLeavesNothingOld, Close, options
    <3>. QED
      BY <3>2, <3>3, <3>4, <3>5, <3>6 DEF Rest
  <2>3. CASE Tail(writes) = <<>>
    <3>1. f = "json" /\ pc' = "done"
      BY <1>1, <1>4, <2>1, <2>3, TailNames DEF Close, TypeOK
    <3>2. \A g \in Outputs(run) : file'[g] = run
      <4>1. \A g : ~Pending(Tail(writes), g)
        BY <2>3 DEF Pending
      <4>. QED
        BY <1>1, <1>2, <1>4, <2>1, <4>1 DEF IInv, Writing
    <3>3. Contents'
      BY <1>1, <1>2, <3>1, TornIsNoRun DEF IInv, Contents, TypeOK, Files
    <3>. QED
      BY <1>1, <1>2, <3>1, <3>2, <3>3, TornIsNoRun
         DEF Close, Rest, Cleaning, Opened, Linking, Writing, Done,
            CleanLeavesNothingOld,
             ReportIsNotNewer, Files
  <2>. QED
    BY <2>2, <2>3
<1>. QED
  BY <1>1, <1>3, <1>4

(* A report with what lies beside it only ages with its run.               *)
LEMMA OthersKeepReport ==
  ASSUME IInv, NothingCompleted
  PROVE  ReportIsNotNewer'
<1>1. SUFFICES ASSUME file'["json"] \in Runs,
                      NEW f \in Outputs(file["json"])', file'[f] \in Runs
               PROVE  file'["json"] <= file'[f]
  BY DEF ReportIsNotNewer, Runs
<1>2. f \in Files /\ "json" \in Files
  BY DEF Outputs, Files
<1>3. file'["json"] = file["json"] /\ file'[f] = file[f]
  BY <1>1, <1>2, TornIsNoRun DEF NothingCompleted, Absent
<1>4. file["json"] \in 0 .. run
  BY <1>1, <1>2, <1>3, TornIsNoRun DEF IInv, Contents
<1>5. f \in Outputs(file["json"])
  BY <1>3, <1>4 DEF Outputs, NothingCompleted
<1>. QED
  BY <1>1, <1>3, <1>5 DEF IInv, ReportIsNotNewer

LEMMA StepInv ==
  ASSUME IInv, [Next]_vars
  PROVE  IInv'
<1>1. TypeOK'
  BY TypeStep DEF IInv
<1>2. CASE Close
  BY <1>1, <1>2, CloseKeeps DEF IInv, Rest
<1>3. CASE ~Close
  <2>1. ReportIsNotNewer'
    BY <1>3, NoneCompleted, OthersKeepReport DEF IInv
  <2>2. CASE UNCHANGED vars
    BY <1>1, <2>1, <2>2 DEF vars, IInv, Contents, Cleaning, Opened, Linking,
       Writing, Done,
       CleanLeavesNothingOld, Outputs
  <2>3. Rest' \/ UNCHANGED vars
    BY <1>3, StartKeeps, CheckToolchainKeeps, DropKeeps, CleanedKeeps, BuildKeeps,
       AnalyzeKeeps,
       OpenKeeps, UnwritableKeeps, FailKeeps, KillKeeps DEF Next
  <2>. QED
    BY <1>1, <2>1, <2>2, <2>3 DEF IInv, Rest
<1>. QED
  BY <1>2, <1>3

LEMMA Invariance == Spec => []IInv
<1>1. IInv /\ [Next]_vars => IInv'
  BY StepInv
<1>. QED
  BY <1>1, InitInv, PTL DEF Spec

(* In any number of runs a complete report is never newer than a complete  *)
(* file beside it.                                                         *)
THEOREM ReportOnlyAges == Spec => []Inv
<1>1. IInv => Inv
  BY DEF IInv, Inv
<1>. QED
  BY <1>1, Invariance, PTL

(* --clean leaves nothing old that no warning names, however the run ends. *)
THEOREM CleanIsClean == Spec => []CleanLeavesNothingOld
<1>1. IInv => CleanLeavesNothingOld
  BY DEF IInv
<1>. QED
  BY <1>1, Invariance, PTL

-----------------------------------------------------------------------------
(***************************************************************************)
(* Pipeline implements Publication.                                        *)
(***************************************************************************)

(* Where the module, the lists or the report is torn or not of one run,    *)
(* there is no whole analysis.                                             *)
NoLongerWhole == pc \in {"analyze", "write"} \/ (pc = "link" /\ opened)

LEMMA NotWhole == IInv /\ NoLongerWhole => WholeAnalysis = 0
<1>1. SUFFICES ASSUME IInv, NoLongerWhole, file["json"] \in Runs,
                      file["merged"] = file["json"]
               PROVE  FALSE
  BY DEF WholeAnalysis, Outputs
<1>2. CASE pc \in {"analyze", "write"}
  BY <1>1, <1>2 DEF IInv, Linking, Contents
<1>3. CASE pc = "link" /\ opened
  <2>1. writes = <<"merged">> /\ file[Head(writes)] = Torn
    BY <1>1, <1>3 DEF IInv, Linking, Opened
  <2>2. Head(<<"merged">>) = "merged"
    OBVIOUS
  <2>. QED
    BY <1>1, <2>1, <2>2, TornIsNoRun
<1>. QED
  BY <1>1, <1>2, <1>3 DEF NoLongerWhole

(* A step that completes no file leaves the analysis or none.              *)
LEMMA OthersWithdraw ==
  ASSUME IInv, NothingCompleted
  PROVE  WholeAnalysis' \in {WholeAnalysis, 0}
<1>1. SUFFICES ASSUME file'["json"] \in Runs,
                      \A f \in Outputs(file["json"])' : file'[f] = file'["json"]
               PROVE  WholeAnalysis = file'["json"]
  BY DEF WholeAnalysis, Runs
<1>2. \A r : Outputs(r) \subseteq Files /\ Outputs(r)' \subseteq Files /\ "json" \in Files
  BY DEF Outputs, Files
<1>3. file'["json"] = file["json"] /\ file["json"] \in 0 .. run
  BY <1>1, <1>2, TornIsNoRun DEF NothingCompleted, Absent, IInv, Contents
<1>4. Outputs(file["json"])' = Outputs(file["json"])
  BY <1>3 DEF Outputs, NothingCompleted
<1>5. \A f \in Outputs(file["json"]) : file[f] = file["json"]
  BY <1>1, <1>2, <1>3, <1>4, TornIsNoRun DEF NothingCompleted, Absent
<1>. QED
  BY <1>1, <1>3, <1>5 DEF WholeAnalysis

(* The refinement: a start begins, the Close that completes the report     *)
(* publishes, and a step that takes a file of a whole analysis away        *)
(* withdraws it; no other step shows.                                      *)
THEOREM Refinement == Spec => ImplementsPublication
<1>1. Init => Abstract!Init
  <2>1. Init => WholeAnalysis = 0
    BY DEF Init, WholeAnalysis, Runs, Absent, Files
  <2>. QED
    BY <2>1 DEF Init, Abstract!Init
<1>2. ASSUME IInv, IInv', [Next]_vars
      PROVE  [Abstract!Next]_Abstract!pubVars
  <2>1. CASE Close
    <3>1. WholeAnalysis = 0 /\ run' = run /\ pc # "done"
      BY <1>2, <2>1, NotWhole DEF NoLongerWhole, Close, IInv, Opened, options
    <3>2. CASE pc' = "done"
      <4>1. WholeAnalysis' = run
        <5>1. run \in Runs
          BY <1>2, <2>1 DEF Close, IInv, Contents, TypeOK, Runs
        <5>2. \A f \in Outputs(run)' : file'[f] = run
          BY <1>2, <3>1, <3>2 DEF IInv, Done, Outputs
        <5>3. "json" \in Outputs(run)'
          BY DEF Outputs
        <5>. QED
          BY <5>1, <5>2, <5>3, <3>1 DEF WholeAnalysis, Runs, Outputs
      <4>. QED
        BY <3>1, <3>2, <4>1 DEF Abstract!Next, Abstract!Publish
    <3>3. CASE pc' # "done"
      <4>1. IInv' /\ NoLongerWhole'
        BY <1>2, <2>1, <3>3 DEF NoLongerWhole, Close, IInv, Linking
      <4>2. (WholeAnalysis = 0)'
        BY <4>1, NotWhole, PTL
      <4>. QED
        BY <3>1, <3>3, <4>2 DEF Abstract!pubVars
    <3>. QED
      BY <3>2, <3>3
  <2>2. CASE Start
    <3>1. WholeAnalysis' = WholeAnalysis
      BY <1>2, <2>2 DEF Start, WholeAnalysis, Outputs, IInv, Contents, TypeOK,
         Files, Runs
    <3>. QED
      BY <2>2, <3>1 DEF Start, Abstract!Next, Abstract!Begin
  <2>3. CASE ~Close /\ ~Start
    <3>1. WholeAnalysis' \in {WholeAnalysis, 0} /\ run' = run /\ (pc' = "done" <=> pc = "done")
      BY <1>2, <2>3, NoneCompleted, OthersWithdraw
         DEF IInv, Next, CheckToolchain, Drop, Cleaned, Build, Analyze, Open,
             Unwritable, AfterUnwritable, Fail, Kill, vars, options, Ended
    <3>2. pc = "done" => UNCHANGED vars
      BY <1>2, <2>3
         DEF Next, CheckToolchain, Drop, Cleaned, Build, Analyze, Open, Unwritable,
            Fail, Kill, Ended
    <3>3. pc = "done" => WholeAnalysis' = WholeAnalysis
      BY <3>2 DEF vars, WholeAnalysis, Outputs
    <3>. QED
      BY <3>1, <3>3 DEF Abstract!Next, Abstract!Withdraw, Abstract!pubVars
  <2>. QED
    BY <2>1, <2>2, <2>3
<1>. QED
  BY <1>1, <1>2, Invariance, PTL DEF Spec, ImplementsPublication, Abstract!Spec

-----------------------------------------------------------------------------
(***************************************************************************)
(* The coverage lists.                                                     *)
(***************************************************************************)
(* Names and prefixes of patterns.                                         *)
Texts == Seq(Nat)

(* Names are texts.                                                        *)
LEMMA NamesAreTexts == Names \subseteq Texts
BY NameAssumption, SeqMonotonic DEF Texts

(* The order of names, character by character.                             *)
Agree(s, t, n) == \A k \in 1 .. n : s[k] = t[k]

(* Equal beginnings agree character by character.                          *)
LEMMA Pieces ==
  ASSUME NEW s \in Texts, NEW t \in Texts, NEW n \in Nat, n <= Len(s), n <= Len(t)
  PROVE  SubSeq(s, 1, n) = SubSeq(t, 1, n) <=> Agree(s, t, n)
<1>1. /\ \A i \in 1 .. n : s[i] \in Nat /\ t[i] \in Nat
      /\ Len(s) \in Nat /\ Len(t) \in Nat
  BY LenProperties, ElementOfSeq DEF Texts
<1>2. /\ SubSeq(s, 1, n) \in Seq(Nat) /\ Len(SubSeq(s, 1, n)) = n
      /\ \A i \in 1 .. n : SubSeq(s, 1, n)[i] = s[i]
  BY <1>1, SubSeqProperties
<1>3. /\ SubSeq(t, 1, n) \in Seq(Nat) /\ Len(SubSeq(t, 1, n)) = n
      /\ \A i \in 1 .. n : SubSeq(t, 1, n)[i] = t[i]
  BY <1>1, SubSeqProperties
<1>. QED
  BY <1>2, <1>3, SeqEqual DEF Agree

(* So does a prefix.                                                       *)
LEMMA PrefixAgrees ==
  ASSUME NEW s \in Texts, NEW t \in Texts
  PROVE  IsPrefix(s, t) <=> Len(s) <= Len(t) /\ Agree(s, t, Len(s))
<1>1. Len(s) \in Nat
  BY LenProperties DEF Texts
<1>. QED
  BY <1>1, Pieces DEF IsPrefix

Differ(s, t, i) == Agree(s, t, i - 1) /\ s[i] < t[i]

(* Below, by the first character that differs.                             *)
LEMMA BelowAgrees ==
  ASSUME NEW s \in Texts, NEW t \in Texts
  PROVE  Below(s, t) <=>
           \/ Len(s) < Len(t) /\ Agree(s, t, Len(s))
           \/ \E i \in 1 .. Len(s) : i <= Len(t) /\ Differ(s, t, i)
<1>1. Len(s) \in Nat /\ Len(t) \in Nat
  BY LenProperties DEF Texts
<1>2. \A i \in 1 .. Len(s) : i <= Len(t) =>
        (SubSeq(s, 1, i - 1) = SubSeq(t, 1, i - 1) <=> Agree(s, t, i - 1))
  <2> SUFFICES ASSUME NEW i \in 1 .. Len(s), i <= Len(t)
               PROVE  SubSeq(s, 1, i - 1) = SubSeq(t, 1, i - 1) <=> Agree(s, t, i - 1)
    OBVIOUS
  <2>1. i - 1 \in Nat /\ i - 1 <= Len(s) /\ i - 1 <= Len(t)
    BY <1>1
  <2>. QED BY <2>1, Pieces
<1>. QED
  BY <1>1, <1>2, PrefixAgrees DEF Below, Differ

(* The order is strict, transitive and total.                              *)
LEMMA BelowIrreflexive ==
  ASSUME NEW s \in Texts
  PROVE  ~Below(s, s)
<1>1. Len(s) \in Nat /\ \A i \in 1 .. Len(s) : s[i] \in Nat
  BY LenProperties, ElementOfSeq DEF Texts
<1>. QED
  BY <1>1, BelowAgrees DEF Differ

LEMMA BelowTransitive ==
  ASSUME NEW s \in Texts, NEW t \in Texts, NEW u \in Texts, Below(s, t), Below(t, u)
  PROVE  Below(s, u)
<1>1. /\ Len(s) \in Nat /\ Len(t) \in Nat /\ Len(u) \in Nat
      /\ \A i \in 1 .. Len(s) : s[i] \in Nat
      /\ \A i \in 1 .. Len(t) : t[i] \in Nat
      /\ \A i \in 1 .. Len(u) : u[i] \in Nat
  BY LenProperties, ElementOfSeq DEF Texts
<1>2. CASE (Len(s) < Len(t) /\ Agree(s, t, Len(s))) /\ (Len(t) < Len(u) /\ Agree(t, u, Len(t)))
  <2>1. Len(s) < Len(u) /\ Agree(s, u, Len(s))
    BY <1>1, <1>2 DEF Agree
  <2>. QED BY <2>1, BelowAgrees
<1>3. ASSUME Len(s) < Len(t), Agree(s, t, Len(s)),
             NEW i \in 1 .. Len(t), i <= Len(u), Differ(t, u, i)
      PROVE  Below(s, u)
  <2>1. CASE i <= Len(s)
    <3>1. Differ(s, u, i) /\ i \in 1 .. Len(s)
      BY <1>1, <1>3, <2>1 DEF Agree, Differ
    <3>. QED BY <1>3, <3>1, BelowAgrees
  <2>2. CASE i > Len(s)
    <3>1. Len(s) < Len(u) /\ Agree(s, u, Len(s))
      BY <1>1, <1>3, <2>2 DEF Agree, Differ
    <3>. QED BY <3>1, BelowAgrees
  <2>. QED BY <1>1, <2>1, <2>2
<1>4. ASSUME NEW i \in 1 .. Len(s), i <= Len(t), Differ(s, t, i),
             Len(t) < Len(u), Agree(t, u, Len(t))
      PROVE  Below(s, u)
  <2>1. i <= Len(u) /\ Differ(s, u, i)
    BY <1>1, <1>4 DEF Agree, Differ
  <2>. QED BY <2>1, BelowAgrees
<1>5. ASSUME NEW i \in 1 .. Len(s), i <= Len(t), Differ(s, t, i),
             NEW j \in 1 .. Len(t), j <= Len(u), Differ(t, u, j)
      PROVE  Below(s, u)
  <2>1. CASE i <= j
    <3>1. i <= Len(u) /\ Differ(s, u, i)
      <4>1. Agree(s, u, i - 1)
        BY <1>1, <1>5, <2>1 DEF Agree, Differ
      <4>2. s[i] < t[i] /\ t[i] <= u[i] /\ i <= Len(u)
        BY <1>1, <1>5, <2>1 DEF Agree, Differ
      <4>. QED BY <1>1, <1>5, <4>1, <4>2 DEF Differ
    <3>. QED BY <3>1, BelowAgrees
  <2>2. CASE j < i
    <3>1. j \in 1 .. Len(s) /\ Differ(s, u, j)
      BY <1>1, <1>5, <2>2 DEF Agree, Differ
    <3>. QED BY <1>5, <3>1, BelowAgrees
  <2>. QED BY <1>1, <2>1, <2>2
<1>. QED
  BY <1>2, <1>3, <1>4, <1>5, BelowAgrees

(* Every nonempty set of numbers has a least.                              *)
LEMMA LeastNumber ==
  ASSUME NEW S \in SUBSET Nat, S # {}
  PROVE  \E n \in S : \A m \in S : n <= m
<1>1. PICK n \in S : \A m \in S : <<m, n>> \notin OpToRel(<, Nat)
  BY NatLessThanWellFounded, WFMin
<1>2. \A m \in S : ~(m < n)
  BY <1>1 DEF OpToRel
<1>. QED
  BY <1>2

LEMMA BelowTotal ==
  ASSUME NEW s \in Texts, NEW t \in Texts
  PROVE  Below(s, t) \/ s = t \/ Below(t, s)
<1>1. /\ Len(s) \in Nat /\ Len(t) \in Nat
      /\ \A i \in 1 .. Len(s) : s[i] \in Nat
      /\ \A i \in 1 .. Len(t) : t[i] \in Nat
  BY LenProperties, ElementOfSeq DEF Texts
<1>. DEFINE Differs == {i \in 1 .. Len(s) : i <= Len(t) /\ s[i] # t[i]}
<1>2. CASE Differs = {}
  <2>1. CASE Len(s) < Len(t)
    <3>1. Agree(s, t, Len(s))
      BY <1>1, <1>2, <2>1 DEF Agree
    <3>. QED BY <2>1, <3>1, BelowAgrees
  <2>2. CASE Len(t) < Len(s)
    <3>1. Agree(t, s, Len(t))
      BY <1>1, <1>2, <2>2 DEF Agree
    <3>. QED BY <2>2, <3>1, BelowAgrees
  <2>3. CASE Len(s) = Len(t)
    <3>1. \A i \in 1 .. Len(s) : s[i] = t[i]
      BY <1>1, <1>2, <2>3
    <3>. QED BY <2>3, <3>1, SeqEqual DEF Texts
  <2>. QED BY <1>1, <2>1, <2>2, <2>3
<1>3. CASE Differs # {}
  <2>1. Differs \in SUBSET Nat
    BY <1>1
  <2>2. PICK i \in Differs : \A j \in Differs : i <= j
    <3>. HIDE DEF Differs
    <3>. QED BY <1>3, <2>1, LeastNumber
  <2>3. Agree(s, t, i - 1) /\ Agree(t, s, i - 1)
    BY <1>1, <2>2 DEF Agree
  <2>4. i \in 1 .. Len(s) /\ i \in 1 .. Len(t) /\ s[i] # t[i] /\ i <= Len(s) /\ i <= Len(t)
    BY <1>1, <2>2
  <2>5. Differ(s, t, i) \/ Differ(t, s, i)
    BY <1>1, <2>3, <2>4 DEF Differ
  <2>. QED BY <2>4, <2>5, BelowAgrees
<1>. QED
  BY <1>2, <1>3

(* A name that is not below its own prefix; and of two names in order, if  *)
(* the second has the prefix, the first has it unless it is below it.      *)
LEMMA PrefixBounds ==
  ASSUME NEW b \in Texts, NEW x \in Texts, NEW y \in Texts, IsPrefix(b, y)
  PROVE  /\ ~Below(y, b)
         /\ ~Below(x, b) /\ (x = y \/ Below(x, y)) => IsPrefix(b, x)
<1>1. /\ Len(b) \in Nat /\ Len(x) \in Nat /\ Len(y) \in Nat
      /\ \A i \in 1 .. Len(b) : b[i] \in Nat
      /\ \A i \in 1 .. Len(x) : x[i] \in Nat
      /\ \A i \in 1 .. Len(y) : y[i] \in Nat
  BY LenProperties, ElementOfSeq DEF Texts
<1>2. Len(b) <= Len(y) /\ Agree(b, y, Len(b))
  BY PrefixAgrees
<1>3. ~Below(y, b)
  BY <1>1, <1>2, BelowAgrees DEF Agree, Differ
<1>4. ASSUME ~Below(x, b), x = y \/ Below(x, y)
      PROVE  IsPrefix(b, x)
  <2>1. CASE x = y
    BY <2>1
  <2>2. CASE x = b
    BY <1>1, <2>2, PrefixAgrees DEF Agree
  <2>3. CASE Below(x, y) /\ Below(b, x)
    <3>1. CASE Len(b) < Len(x) /\ Agree(b, x, Len(b))
      BY <1>1, <3>1, PrefixAgrees
    <3>2. ASSUME NEW i \in 1 .. Len(b), i <= Len(x), Differ(b, x, i)
          PROVE  FALSE
      <4>1. i \in 1 .. Len(y) /\ Differ(y, x, i)
        BY <1>1, <1>2, <3>2 DEF Agree, Differ
      <4>2. Below(y, x)
        BY <3>2, <4>1, BelowAgrees
      <4>. QED
        BY <2>3, <4>2, BelowTransitive, BelowIrreflexive
    <3>. QED BY <2>3, <3>1, <3>2, BelowAgrees
  <2>. QED
    BY <1>4, <2>1, <2>2, <2>3, BelowTotal
<1>. QED
  BY <1>3, <1>4

-----------------------------------------------------------------------------
(* A finite set of names can be sorted: the place of a name is one more    *)
(* than the number of names below it.                                      *)
Sorted(s) == \A i, j \in DOMAIN s : i < j => Below(s[i], s[j])

LEMMA SortedExists ==
  ASSUME NEW S \in SUBSET Texts, IsFiniteSet(S)
  PROVE  \E s \in [1 .. Cardinality(S) -> S] : Sorted(s)
<1>. DEFINE n == Cardinality(S)
            Lower(x) == {y \in S : Below(y, x)}
            place == [x \in S |-> Cardinality(Lower(x)) + 1]
<1>1. n \in Nat
  BY FS_CardinalityType
<1>2. \A x \in S : IsFiniteSet(Lower(x)) /\ Cardinality(Lower(x)) \in Nat
  BY FS_Subset, FS_CardinalityType
<1>3. ASSUME NEW x \in S, NEW T \in SUBSET S, Lower(x) \subseteq T, x \notin Lower(x), x \in T
      PROVE  Cardinality(Lower(x)) < Cardinality(T)
  <2>1. IsFiniteSet(T) /\ Cardinality(T) \in Nat
    BY FS_Subset, FS_CardinalityType
  <2>2. Cardinality(Lower(x)) <= Cardinality(T)
    BY <1>3, <2>1, FS_Subset
  <2>3. Cardinality(Lower(x)) # Cardinality(T)
    <3>1. Lower(x) # T
      BY <1>3
    <3>. HIDE DEF Lower
    <3>. QED BY <1>3, <2>1, <3>1, FS_Subset
  <2>. QED BY <1>2, <2>1, <2>2, <2>3
<1>4. \A x \in S : x \notin Lower(x)
  BY BelowIrreflexive
<1>5. place \in [S -> 1 .. n]
  <2>1. \A x \in S : Cardinality(Lower(x)) < n
    BY <1>3, <1>4
  <2>. HIDE DEF Lower
  <2>. QED BY <1>1, <1>2, <2>1
<1>6. ASSUME NEW x \in S, NEW y \in S, Below(x, y)
      PROVE  place[x] < place[y]
  <2>1. Lower(x) \subseteq Lower(y)
    BY <1>6, BelowTransitive
  <2>2. x \in Lower(y) /\ Lower(y) \in SUBSET S
    BY <1>6
  <2>3. place[x] = Cardinality(Lower(x)) + 1 /\ place[y] = Cardinality(Lower(y)) + 1
    OBVIOUS
  <2>. HIDE DEF Lower, place
  <2>4. Cardinality(Lower(x)) < Cardinality(Lower(y))
    BY <1>3, <1>4, <2>1, <2>2
  <2>. QED BY <1>2, <2>3, <2>4
<1>. HIDE DEF place
<1>7. place \in Injection(S, 1 .. n)
  <2>1. \A x, y \in S : place[x] = place[y] => x = y
    <3> SUFFICES ASSUME NEW x \in S, NEW y \in S, place[x] = place[y], x # y PROVE FALSE
      OBVIOUS
    <3>1. Below(x, y) \/ Below(y, x)
      BY BelowTotal
    <3>2. place[x] \in Nat /\ place[y] \in Nat
      BY <1>1, <1>5
    <3>. QED BY <1>6, <3>1, <3>2
  <2>. QED
    BY <1>5, <2>1 DEF Injection, IsInjective
<1>8. place \in Surjection(S, 1 .. n)
  <2>1. IsFiniteSet(1 .. n) /\ Cardinality(1 .. n) = n
    BY <1>1, FS_Interval
  <2>. QED
    BY <1>7, <2>1, FS_Injection
<1>9. \A i \in 1 .. n : \E x \in S : place[x] = i
  BY <1>8 DEF Surjection
<1>. DEFINE s == [i \in 1 .. n |-> CHOOSE x \in S : place[x] = i]
<1>10. \A i \in 1 .. n : s[i] \in S /\ place[s[i]] = i
  BY <1>9
<1>11. s \in [1 .. n -> S]
  BY <1>10
<1>12. Sorted(s)
  <2> SUFFICES ASSUME NEW i \in 1 .. n, NEW j \in 1 .. n, i < j
               PROVE  Below(s[i], s[j])
    BY <1>11 DEF Sorted
  <2>. HIDE DEF s
  <2>1. s[i] \in S /\ s[j] \in S /\ place[s[i]] = i /\ place[s[j]] = j
    BY <1>10
  <2>2. s[i] # s[j] /\ ~Below(s[j], s[i])
    BY <1>1, <1>6, <2>1
  <2>. QED
    BY <2>1, <2>2, BelowTotal
<1>. QED
  BY <1>11, <1>12

(* reachedNames: all reached names, sorted.                                *)
IsList(s, S) ==
  /\ Len(s) \in Nat /\ s \in [1 .. Len(s) -> S]
  /\ \A x \in S : \E i \in 1 .. Len(s) : s[i] = x
  /\ Sorted(s)

(* What reachedNames returns is such a list.                               *)
LEMMA NamesSorted ==
  ASSUME reached \in SUBSET Texts, IsFiniteSet(reached)
  PROVE  IsList(ReachedNames, reached)
<1>. DEFINE n == Cardinality(reached)
            s == ReachedNames
<1>1. n \in Nat
  BY FS_CardinalityType
<1>2. s \in [1 .. n -> reached] /\ Sorted(s)
  BY SortedExists DEF ReachedNames, Sorted
<1>3. s \in Seq(reached) /\ Len(s) = n
  BY <1>1, <1>2, SeqDef, LenProperties
<1>4. \A i, j \in 1 .. n : s[i] = s[j] => i = j
  <2> SUFFICES ASSUME NEW i \in 1 .. n, NEW j \in 1 .. n, s[i] = s[j], i # j PROVE FALSE
    OBVIOUS
  <2>1. Below(s[i], s[j]) \/ Below(s[j], s[i])
    BY <1>1, <1>2 DEF Sorted
  <2>2. s[i] \in Texts
    BY <1>2
  <2>. QED BY <2>1, <2>2, BelowIrreflexive
<1>5. s \in Injection(1 .. n, reached)
  BY <1>2, <1>4 DEF Injection, IsInjective
<1>6. Cardinality(1 .. n) = n
  BY <1>1, FS_Interval
<1>7. s \in Surjection(1 .. n, reached)
  BY <1>5, <1>6, FS_Injection
<1>. QED
  BY <1>1, <1>2, <1>3, <1>7 DEF IsList, Surjection

-----------------------------------------------------------------------------
(* The bisection.  A sorted list is divided into the names below a prefix  *)
(* and the others; the bisection of a range ends at that point, or at the  *)
(* end of the range that is nearer to it.                                  *)
Divides(p, b) ==
  /\ p \in 1 .. Len(names) + 1
  /\ \A i \in 1 .. Len(names) : Below(names[i], b) <=> i < p

(* There is such a point.                                                  *)
LEMMA Divided ==
  ASSUME reached \in SUBSET Texts, IsList(names, reached), NEW b \in Texts
  PROVE  \E p : Divides(p, b)
<1>. DEFINE Others == {i \in 1 .. Len(names) : ~Below(names[i], b)}
<1>1. Len(names) \in Nat /\ DOMAIN names = 1 .. Len(names)
  BY DEF IsList
<1>2. CASE Others = {}
  <2>1. Divides(Len(names) + 1, b)
    BY <1>1, <1>2 DEF Divides
  <2>. QED BY <2>1
<1>3. CASE Others # {}
  <2>1. Others \in SUBSET Nat
    BY <1>1
  <2>2. PICK p \in Others : \A i \in Others : p <= i
    <3>. HIDE DEF Others
    <3>. QED BY <1>3, <2>1, LeastNumber
  <2>3. ASSUME NEW i \in 1 .. Len(names)
        PROVE  Below(names[i], b) <=> i < p
    <3>1. CASE i < p
      BY <1>1, <2>2, <3>1
    <3>2. CASE i = p
      BY <1>1, <2>2, <3>2
    <3>3. CASE p < i
      <4>1. Below(names[p], names[i])
        BY <1>1, <2>2, <3>3 DEF IsList, Sorted
      <4>2. names[p] \in Texts /\ names[i] \in Texts
        BY <2>2 DEF IsList
      <4>3. ~Below(names[i], b)
        BY <2>2, <4>1, <4>2, BelowTransitive
      <4>. QED BY <1>1, <2>2, <3>3, <4>3
    <3>. QED BY <1>1, <2>2, <3>1, <3>2, <3>3
  <2>4. Divides(p, b)
    BY <1>1, <2>2, <2>3 DEF Divides
  <2>. QED BY <2>4
<1>. QED BY <1>2, <1>3

Nearest(p, r) ==
  IF p < r[1] THEN r[1] ELSE IF p > r[1] + r[2] THEN r[1] + r[2] ELSE p

Step(f, b, r) ==
  LET half == r[2] \div 2
      middle == r[1] + half
  IN IF r[2] = 0 THEN r[1]
     ELSE IF Below(names[middle], b)
          THEN f[<<middle + 1, r[2] - half - 1>>]
          ELSE f[<<r[1], half>>]

Bisects(f, b) == f = [r \in Ranges |-> Step(f, b, r)]

(* The ranges a step goes on with are ranges, and shorter.                 *)
LEMMA RangeFacts ==
  ASSUME Len(names) \in Nat, NEW r \in Ranges, r[2] # 0
  PROVE  LET half == r[2] \div 2
             middle == r[1] + half
         IN /\ half \in Nat /\ half < r[2] /\ middle \in 1 .. Len(names)
            /\ <<middle + 1, r[2] - half - 1>> \in Ranges
            /\ <<r[1], half>> \in Ranges
            /\ r[2] - half - 1 < r[2]
<1>1. /\ r[1] \in 1 .. Len(names) + 1 /\ r[2] \in 0 .. Len(names)
      /\ r[1] + r[2] <= Len(names) + 1
  BY DEF Ranges
<1>. DEFINE half == r[2] \div 2
<1>2. half \in Nat /\ half < r[2] /\ r[2] - half - 1 \in Nat
  BY <1>1
<1>. HIDE DEF half
<1>3. \A n, a, c, h \in Nat :
        a \in 1 .. n + 1 /\ a + c <= n + 1 /\ h < c =>
          /\ a + h \in 1 .. n
          /\ a + h + 1 \in 1 .. n + 1
          /\ c - h - 1 \in 0 .. n
          /\ h \in 0 .. n
          /\ (a + h + 1) + (c - h - 1) <= n + 1
          /\ a + h <= n + 1
          /\ c - h - 1 < c
  OBVIOUS
<1>4. /\ r[1] + half \in 1 .. Len(names)
      /\ r[1] + half + 1 \in 1 .. Len(names) + 1
      /\ r[2] - half - 1 \in 0 .. Len(names)
      /\ half \in 0 .. Len(names)
      /\ (r[1] + half + 1) + (r[2] - half - 1) <= Len(names) + 1
      /\ r[1] + half <= Len(names) + 1
      /\ r[2] - half - 1 < r[2]
  <2>1. r[1] \in Nat /\ r[2] \in Nat
    BY <1>1
  <2>. QED BY <1>1, <1>2, <1>3, <2>1
<1>. QED
  BY <1>1, <1>2, <1>4 DEF Ranges, half

(* A step is right if the bisection of shorter ranges is.                  *)
LEMMA StepIsNearest ==
  ASSUME Len(names) \in Nat, NEW b, NEW p, Divides(p, b), NEW r \in Ranges, NEW f,
         \A q \in Ranges : q[2] < r[2] => f[q] = Nearest(p, q)
  PROVE  Step(f, b, r) = Nearest(p, r)
<1>1. /\ r[1] \in 1 .. Len(names) + 1 /\ r[2] \in 0 .. Len(names)
      /\ r[1] + r[2] <= Len(names) + 1
  BY DEF Ranges
<1>2. p \in 1 .. Len(names) + 1
  BY DEF Divides
<1>3. CASE r[2] = 0
  BY <1>1, <1>2, <1>3 DEF Step, Nearest
<1>4. CASE r[2] # 0
  <2>. DEFINE half == r[2] \div 2
              middle == r[1] + half
              upper == <<middle + 1, r[2] - half - 1>>
              lower == <<r[1], half>>
  <2>1. /\ half \in Nat /\ half < r[2] /\ middle \in 1 .. Len(names)
        /\ upper \in Ranges /\ lower \in Ranges
        /\ r[2] - half - 1 < r[2]
    BY <1>4, RangeFacts
  <2>2. Step(f, b, r) = IF Below(names[middle], b) THEN f[upper] ELSE f[lower]
    BY <1>4 DEF Step
  <2>3. Below(names[middle], b) <=> middle < p
    BY <2>1 DEF Divides
  <2>4. /\ upper[1] = middle + 1 /\ upper[2] = r[2] - half - 1
        /\ lower[1] = r[1] /\ lower[2] = half
    OBVIOUS
  <2>5. middle = r[1] + half
    OBVIOUS
  <2>. HIDE DEF half, middle, upper, lower
  <2>6. f[upper] = Nearest(p, upper) /\ f[lower] = Nearest(p, lower)
    BY <2>1, <2>4
  <2>7. middle < p => Nearest(p, upper) = Nearest(p, r)
    <3>1. upper[1] + upper[2] = r[1] + r[2]
      BY <1>1, <2>1, <2>4, <2>5
    <3>2. middle < p => ~(p < upper[1]) /\ ~(p < r[1])
      BY <1>1, <1>2, <2>1, <2>4, <2>5
    <3>. QED BY <3>1, <3>2 DEF Nearest
  <2>8. ~(middle < p) => Nearest(p, lower) = Nearest(p, r)
    BY <1>1, <1>2, <2>1, <2>4, <2>5 DEF Nearest
  <2>. QED BY <2>2, <2>3, <2>6, <2>7, <2>8
<1>. QED BY <1>3, <1>4

(* std::lower_bound finds the point.                                       *)
LEMMA BisectionEnds ==
  ASSUME Len(names) \in Nat, NEW b, NEW p, Divides(p, b)
  PROVE  LowerBound(b) = p
<1>. DEFINE g == [r \in Ranges |-> Nearest(p, r)]
            lb == CHOOSE f : Bisects(f, b)
<1>1. Bisects(g, b)
  <2>1. \A r \in Ranges : Step(g, b, r) = Nearest(p, r)
    BY StepIsNearest
  <2>. QED BY <2>1 DEF Bisects
<1>2. Bisects(lb, b)
  BY <1>1
<1>3. LowerBound(b) = lb[<<1, Len(names)>>]
  BY DEF LowerBound, Bisects, Step
<1>. HIDE DEF lb
<1>4. \A r \in Ranges : lb[r] = Step(lb, b, r)
  BY <1>2 DEF Bisects
<1>5. \A r \in Ranges : lb[r] = Nearest(p, r)
  <2>. DEFINE Wrong == {r \in Ranges : lb[r] # Nearest(p, r)}
              Sizes == {r[2] : r \in Wrong}
  <2> SUFFICES ASSUME Wrong # {} PROVE FALSE
    OBVIOUS
  <2>1. Sizes \in SUBSET Nat /\ Sizes # {}
    BY DEF Ranges
  <2>2. PICK n \in Sizes : \A m \in Sizes : n <= m
    <3>. HIDE DEF Sizes
    <3>. QED BY <2>1, LeastNumber
  <2>3. PICK r \in Wrong : r[2] = n
    BY <2>2
  <2>4. \A q \in Ranges : q[2] < r[2] => lb[q] = Nearest(p, q)
    <3> SUFFICES ASSUME NEW q \in Ranges, q[2] < r[2], q \in Wrong PROVE FALSE
      OBVIOUS
    <3>1. q[2] \in Sizes /\ q[2] \in Nat /\ n \in Nat
      BY <2>1, <2>2
    <3>2. n <= q[2]
      BY <2>2, <3>1
    <3>. QED BY <2>3, <3>1, <3>2
  <2>5. Step(lb, b, r) = Nearest(p, r)
    BY <2>3, <2>4, StepIsNearest
  <2>. QED BY <1>4, <2>3, <2>5
<1>6. <<1, Len(names)>> \in Ranges
  BY DEF Ranges
<1>7. Nearest(p, <<1, Len(names)>>) = p
  BY DEF Nearest, Divides
<1>. QED BY <1>3, <1>5, <1>6, <1>7

(* matchesReached: some reached name matches the pattern as a glob.        *)
LEMMA MatchesReachedExact ==
  ASSUME reached \in SUBSET Texts, IsList(names, reached), NEW p \in Texts, Len(p) > 0
  PROVE  MatchesReached(p) <=> \E name \in reached : Glob(p, name)
<1>. DEFINE b == StarsOut(p)
<1>1. Len(p) \in Nat /\ \A i \in 1 .. Len(p) : p[i] \in Nat
  BY LenProperties, ElementOfSeq DEF Texts
<1>2. Base(p) \in Texts /\ b \in Texts
  <2>1. \A i \in 1 .. Len(p) - 1 : p[i] \in Nat
    BY <1>1
  <2>2. Base(p) \in Texts
    BY <1>1, <2>1, SubSeqProperties DEF Base, Texts
  <2>. QED BY <2>2 DEF StarsOut
<1>3. Len(names) \in Nat /\ \A i \in 1 .. Len(names) : names[i] \in reached
  BY DEF IsList
<1>4. PICK k : Divides(k, b)
  BY <1>2, Divided
<1>5. LowerBound(b) = k
  BY <1>3, <1>4, BisectionEnds
<1>6. k \in 1 .. Len(names) + 1 /\ \A i \in 1 .. Len(names) : Below(names[i], b) <=> i < k
  BY <1>4 DEF Divides
<1>. HIDE DEF b
<1>7. \A j \in 1 .. Len(names) : ~Below(names[j], b) =>
        /\ k \in 1 .. Len(names) /\ ~Below(names[k], b)
        /\ names[k] = names[j] \/ Below(names[k], names[j])
  <2> SUFFICES ASSUME NEW j \in 1 .. Len(names), ~Below(names[j], b)
               PROVE  /\ k \in 1 .. Len(names) /\ ~Below(names[k], b)
                      /\ names[k] = names[j] \/ Below(names[k], names[j])
    OBVIOUS
  <2>1. k <= j /\ k \in 1 .. Len(names)
    BY <1>3, <1>6
  <2>2. ~Below(names[k], b)
    BY <1>3, <1>6, <2>1
  <2>3. k = j \/ Below(names[k], names[j])
    BY <1>3, <2>1 DEF IsList, Sorted
  <2>. QED BY <2>1, <2>2, <2>3
<1>8. CASE p[Len(p)] = Star
  <2>1. b = Base(p)
    BY <1>8 DEF b, StarsOut
  <2>2. MatchesReached(p) <=> k <= Len(names) /\ IsPrefix(b, names[k])
    BY <1>5, <1>8, <2>1 DEF MatchesReached, b
  <2>3. ASSUME k <= Len(names), IsPrefix(b, names[k])
        PROVE  \E name \in reached : Glob(p, name)
    BY <1>3, <1>6, <1>8, <2>1, <2>3 DEF Glob
  <2>4. ASSUME NEW name \in reached, Glob(p, name)
        PROVE  k <= Len(names) /\ IsPrefix(b, names[k])
    <3>1. PICK j \in 1 .. Len(names) : names[j] = name
      BY DEF IsList
    <3>2. IsPrefix(b, names[j])
      BY <1>8, <2>1, <2>4, <3>1 DEF Glob
    <3>3. ~Below(names[j], b)
      BY <1>2, <1>3, <3>2, PrefixBounds
    <3>4. /\ k \in 1 .. Len(names) /\ ~Below(names[k], b)
          /\ names[k] = names[j] \/ Below(names[k], names[j])
      BY <1>7, <3>3
    <3>5. names[k] \in Texts /\ names[j] \in Texts
      BY <1>3, <3>4
    <3>6. IsPrefix(b, names[k])
      BY <1>2, <3>2, <3>4, <3>5, PrefixBounds
    <3>. QED BY <1>3, <3>4, <3>6
  <2>. QED BY <2>2, <2>3, <2>4
<1>9. CASE p[Len(p)] # Star
  <2>1. b = p
    BY <1>9 DEF b, StarsOut
  <2>2. MatchesReached(p) <=> k <= Len(names) /\ names[k] = p
    BY <1>5, <1>9, <2>1 DEF MatchesReached, b
  <2>3. ASSUME p \in reached
        PROVE  k <= Len(names) /\ names[k] = p
    <3>1. PICK j \in 1 .. Len(names) : names[j] = p
      BY <2>3 DEF IsList
    <3>2. /\ k \in 1 .. Len(names) /\ ~Below(names[k], p)
          /\ names[k] = p \/ Below(names[k], p)
      BY <1>7, <2>1, <3>1, BelowIrreflexive
    <3>. QED BY <1>3, <3>2
  <2>4. k <= Len(names) /\ names[k] = p => p \in reached
    BY <1>3, <1>6
  <2>. QED BY <1>9, <2>2, <2>3, <2>4 DEF Glob
<1>. QED BY <1>8, <1>9

-----------------------------------------------------------------------------
(* Patterns.                                                               *)
Hashed(name) == Len(name) > 1 /\ name[Len(name)] \in Hashes

(* A name has characters, none of them a star.                             *)
LEMMA NameFacts ==
  ASSUME NEW name \in Names
  PROVE  /\ name \in Texts /\ Len(name) \in Nat \ {0}
         /\ \A i \in 1 .. Len(name) : name[i] \in Hashes \cup Letters /\ name[i] # Star
<1>1. name \in Seq(Hashes \cup Letters) /\ name # <<>>
  BY NameAssumption
<1>2. Len(name) \in Nat \ {0}
  BY <1>1, EmptySeq
<1>3. \A i \in 1 .. Len(name) : name[i] \in Hashes \cup Letters
  BY <1>1, ElementOfSeq
<1>4. Star \notin Hashes \cup Letters
  BY NameAssumption DEF Star
<1>. QED BY <1>2, <1>3, <1>4, NamesAreTexts

(* A text without its last character.                                      *)
LEMMA BaseFacts ==
  ASSUME NEW s \in Texts, Len(s) > 0
  PROVE  /\ Base(s) \in Texts /\ Len(Base(s)) = Len(s) - 1
         /\ \A i \in 1 .. Len(s) - 1 : Base(s)[i] = s[i]
<1>1. Len(s) \in Nat /\ \A i \in 1 .. Len(s) : s[i] \in Nat
  BY LenProperties, ElementOfSeq DEF Texts
<1>2. PICK n \in Nat : n = Len(s) - 1
  BY <1>1
<1>3. \A i \in 1 .. n : s[i] \in Nat
  BY <1>1, <1>2
<1>4. /\ SubSeq(s, 1, n) \in Seq(Nat)
      /\ Len(SubSeq(s, 1, n)) = IF 1 <= n THEN n - 1 + 1 ELSE 0
      /\ \A i \in 1 .. n - 1 + 1 : SubSeq(s, 1, n)[i] = s[1 + i - 1]
  BY <1>2, <1>3, SubSeqProperties
<1>5. \A i \in 1 .. n : i \in 1 .. n - 1 + 1 /\ 1 + i - 1 = i
  BY <1>2
<1>6. Len(SubSeq(s, 1, n)) = n
  BY <1>2, <1>4
<1>. QED
  BY <1>2, <1>4, <1>5, <1>6 DEF Base, Texts

(* A text with one character more.                                         *)
LEMMA Extended ==
  ASSUME NEW s \in Texts, NEW x \in Nat
  PROVE  /\ Append(s, x) \in Texts /\ Len(Append(s, x)) = Len(s) + 1
         /\ Append(s, x)[Len(s) + 1] = x
         /\ \A i \in 1 .. Len(s) : Append(s, x)[i] = s[i]
         /\ Base(Append(s, x)) = s
<1>1. /\ Append(s, x) \in Texts /\ Len(Append(s, x)) = Len(s) + 1
      /\ Append(s, x)[Len(s) + 1] = x
      /\ \A i \in 1 .. Len(s) : Append(s, x)[i] = s[i]
  BY AppendProperties DEF Texts
<1>2. Len(s) \in Nat
  BY LenProperties DEF Texts
<1>3. /\ Base(Append(s, x)) \in Texts /\ Len(Base(Append(s, x))) = Len(s)
      /\ \A i \in 1 .. Len(s) : Base(Append(s, x))[i] = Append(s, x)[i]
  <2>1. Len(Append(s, x)) > 0 /\ Len(Append(s, x)) - 1 = Len(s)
    BY <1>1, <1>2
  <2>. QED BY <1>1, <2>1, BaseFacts
<1>4. Base(Append(s, x)) = s
  BY <1>1, <1>3, SeqEqual DEF Texts
<1>. QED BY <1>1, <1>4

(* A pattern ends in a star where the name ends in a hash.                 *)
LEMMA PatternFacts ==
  ASSUME NEW name \in Names
  PROVE  LET p == Pattern(name)
         IN /\ p \in Texts /\ Len(p) > 0
            /\ Hashed(name) => p[Len(p)] = Star /\ Base(p) = Base(name)
            /\ ~Hashed(name) => p[Len(p)] # Star /\ p = name
<1>1. /\ name \in Texts /\ Len(name) \in Nat \ {0}
      /\ \A i \in 1 .. Len(name) : name[i] \in Hashes \cup Letters /\ name[i] # Star
  BY NameFacts
<1>2. Base(name) \in Texts /\ Len(Base(name)) = Len(name) - 1 /\ Star \in Nat
  BY <1>1, BaseFacts DEF Star
<1>3. CASE Hashed(name)
  <2>1. Pattern(name) = Append(Base(name), Star)
    BY <1>3 DEF Pattern, Hashed
  <2>2. /\ Append(Base(name), Star) \in Texts
        /\ Len(Append(Base(name), Star)) = Len(Base(name)) + 1
        /\ Append(Base(name), Star)[Len(Base(name)) + 1] = Star
        /\ Base(Append(Base(name), Star)) = Base(name)
    BY <1>2, Extended
  <2>. QED BY <1>1, <1>2, <1>3, <2>1, <2>2
<1>4. CASE ~Hashed(name)
  <2>1. Pattern(name) = name
    BY <1>4 DEF Pattern, Hashed
  <2>2. Len(name) \in 1 .. Len(name)
    BY <1>1
  <2>. QED BY <1>1, <1>4, <2>1, <2>2
<1>. QED BY <1>3, <1>4

(* A pattern matches its own name, and the name with any other hash.       *)
LEMMA OwnPatternMatches ==
  ASSUME NEW name \in Names, NEW other \in Rehashed(name) \cup {name}
  PROVE  Glob(Pattern(name), other)
<1>1. /\ name \in Texts /\ Len(name) \in Nat \ {0}
      /\ Base(name) \in Texts /\ Len(Base(name)) = Len(name) - 1
      /\ \A i \in 1 .. Len(name) - 1 : Base(name)[i] = name[i]
  BY NameFacts, BaseFacts
<1>2. CASE Hashed(name)
  <2>1. IsPrefix(Base(name), name)
    BY <1>1, PrefixAgrees DEF Agree
  <2>2. \A h \in Hashes : IsPrefix(Base(name), Append(Base(name), h))
    <3> SUFFICES ASSUME NEW h \in Hashes PROVE IsPrefix(Base(name), Append(Base(name), h))
      OBVIOUS
    <3>1. h \in Nat
      BY NameAssumption
    <3>2. /\ Append(Base(name), h) \in Texts
          /\ Len(Append(Base(name), h)) = Len(Base(name)) + 1
          /\ \A i \in 1 .. Len(Base(name)) : Append(Base(name), h)[i] = Base(name)[i]
      BY <1>1, <3>1, Extended
    <3>3. Len(Base(name)) <= Len(Append(Base(name), h))
      BY <1>1, <3>2
    <3>. QED BY <1>1, <3>2, <3>3, PrefixAgrees DEF Agree
  <2>3. other = name \/ \E h \in Hashes : other = Append(Base(name), h)
    BY <1>2 DEF Rehashed, Hashed
  <2>4. Pattern(name)[Len(Pattern(name))] = Star /\ Base(Pattern(name)) = Base(name)
    BY <1>2, PatternFacts
  <2>. QED BY <2>1, <2>2, <2>3, <2>4 DEF Glob
<1>3. CASE ~Hashed(name)
  <2>1. other = name
    BY <1>3 DEF Rehashed, Hashed
  <2>. QED BY <1>3, <2>1, PatternFacts DEF Glob
<1>. QED BY <1>2, <1>3

(* A pattern made of a mangled name that matches a name in another build   *)
(* matches it in this one.                                                 *)
LEMMA OtherBuildMatches ==
  ASSUME NEW q \in Names, Len(q) > 1, HashOnlyLast(q),
         NEW name \in Names, NEW other \in Rehashed(name), Glob(Pattern(q), other)
  PROVE  Glob(Pattern(q), name)
<1>1. /\ name \in Texts /\ Len(name) \in Nat \ {0}
      /\ Base(name) \in Texts /\ Len(Base(name)) = Len(name) - 1
      /\ \A i \in 1 .. Len(name) - 1 : Base(name)[i] = name[i]
  BY NameFacts, BaseFacts
<1>2. /\ q \in Texts /\ Len(q) \in Nat \ {0}
      /\ Base(q) \in Texts /\ Len(Base(q)) = Len(q) - 1
      /\ \A i \in 1 .. Len(q) - 1 : Base(q)[i] = q[i]
      /\ \A i \in 1 .. Len(q) - 1 : q[i] \notin Hashes
  <2>1. \A i \in 1 .. Len(q) - 1 : q[i] \notin Hashes
    BY NameAssumption DEF HashOnlyLast
  <2>. QED BY <2>1, NameFacts, BaseFacts
<1>3. CASE ~Hashed(name)
  <2>1. other = name
    BY <1>3 DEF Rehashed, Hashed
  <2>. QED BY <2>1
<1>4. CASE Hashed(name)
  <2>1. PICK h \in Hashes : other = Append(Base(name), h)
    BY <1>4 DEF Rehashed, Hashed
  <2>2. h \in Nat
    BY NameAssumption
  <2>3. /\ other \in Texts /\ Len(other) = Len(name) /\ other[Len(name)] = h
        /\ \A i \in 1 .. Len(name) - 1 : other[i] = name[i]
    <3>1. /\ Append(Base(name), h) \in Texts
          /\ Len(Append(Base(name), h)) = Len(Base(name)) + 1
          /\ Append(Base(name), h)[Len(Base(name)) + 1] = h
          /\ \A i \in 1 .. Len(Base(name)) : Append(Base(name), h)[i] = Base(name)[i]
      BY <1>1, <2>2, Extended
    <3>. QED BY <1>1, <2>1, <3>1
  <2>4. CASE Hashed(q)
    <3>1. Pattern(q)[Len(Pattern(q))] = Star /\ Base(Pattern(q)) = Base(q)
      BY <2>4, PatternFacts
    <3>2. Len(Base(q)) <= Len(other) /\ Agree(Base(q), other, Len(Base(q)))
      BY <1>2, <2>3, <3>1, PrefixAgrees DEF Glob
    <3>3. Len(Base(q)) # Len(name)
      <4> SUFFICES ASSUME Len(q) - 1 = Len(name) PROVE FALSE
        BY <1>2
      <4>1. q[Len(name)] = h /\ Len(name) \in 1 .. Len(q) - 1
        BY <1>1, <1>2, <2>3, <3>2 DEF Agree
      <4>. QED BY <1>2, <4>1
    <3>4. Len(Base(q)) <= Len(name) - 1
      BY <1>1, <1>2, <2>3, <3>2, <3>3
    <3>5. Agree(Base(q), name, Len(Base(q)))
      BY <1>1, <1>2, <2>3, <3>2, <3>4 DEF Agree
    <3>6. IsPrefix(Base(q), name)
      BY <1>1, <1>2, <3>4, <3>5, PrefixAgrees
    <3>. QED BY <3>1, <3>6 DEF Glob
  <2>5. CASE ~Hashed(q)
    <3>1. other = q
      BY <2>5, PatternFacts DEF Glob
    <3>2. q[Len(q)] = h
      BY <2>3, <3>1
    <3>. QED BY <2>5, <3>2 DEF Hashed
  <2>. QED BY <2>4, <2>5
<1>. QED BY <1>3, <1>4

-----------------------------------------------------------------------------
(* The state: an unreached pattern waits, is in the ignorelist, or matches *)
(* a reached name.                                                         *)
Hit(p) == \E name \in reached : Glob(p, name)

ListsInvariant ==
  /\ reached \subseteq defined /\ defined \in Modules
  /\ phase \in {"allow", "names", "ignore"}
  /\ phase = "allow" => allow = {}
  /\ phase # "allow" => allow = Patterns(reached)
  /\ phase # "ignore" => names = <<>> /\ todo = {} /\ ignore = {}
  /\ phase = "ignore" =>
       /\ IsList(names, reached)
       /\ todo \subseteq Patterns(defined \ reached)
       /\ ignore \subseteq {p \in Patterns(defined \ reached) : ~Hit(p)}
       /\ \A p \in Patterns(defined \ reached) : p \in todo \/ p \in ignore \/ Hit(p)

(* What is reached is a finite set of texts.                               *)
LEMMA ModuleFacts ==
  ASSUME reached \subseteq defined, defined \in Modules
  PROVE  /\ defined \subseteq Names /\ reached \subseteq Names
         /\ reached \in SUBSET Texts /\ IsFiniteSet(reached)
<1>1. defined \subseteq Names /\ IsFiniteSet(defined)
  BY NameAssumption
<1>. QED BY <1>1, FS_Subset, NamesAreTexts

(* The steps of the two writers keep this, whatever the names.             *)
THEOREM ListsAreWritten == ListsSpec => []ListsInvariant
<1>1. ListsInit => ListsInvariant
  BY DEF ListsInit, ListsInvariant
<1>2. ListsInvariant /\ [ListsNext]_listsVars => ListsInvariant'
  <2> SUFFICES ASSUME ListsInvariant, [ListsNext]_listsVars PROVE ListsInvariant'
    OBVIOUS
  <2>1. CASE WriteAllowlist
    BY <2>1 DEF ListsInvariant, WriteAllowlist, Patterns
  <2>2. CASE CollectNames
    <3>1. IsList(ReachedNames, reached)
      BY ModuleFacts, NamesSorted DEF ListsInvariant
    <3>2. /\ names' = ReachedNames /\ todo' = Patterns(defined \ reached) /\ phase' = "ignore"
          /\ defined' = defined /\ reached' = reached /\ ignore' = ignore /\ allow' = allow
          /\ phase = "names"
      BY <2>2 DEF CollectNames
    <3>. QED BY <3>1, <3>2 DEF ListsInvariant, Patterns, IsList, Sorted, Hit
  <2>3. CASE WriteIgnorelist
    <3>1. /\ defined' = defined /\ reached' = reached /\ names' = names /\ allow' = allow
          /\ phase' = phase /\ phase = "ignore"
      BY <2>3 DEF WriteIgnorelist
    <3>2. PICK p \in todo : /\ todo' = todo \ {p}
                           /\ ignore' = IF MatchesReached(p) THEN ignore ELSE ignore \cup {p}
      BY <2>3 DEF WriteIgnorelist
    <3>3. p \in Patterns(defined \ reached)
      BY <3>1 DEF ListsInvariant
    <3>4. p \in Texts /\ Len(p) > 0
      BY <3>3, PatternFacts, ModuleFacts DEF ListsInvariant, Patterns
    <3>5. MatchesReached(p) <=> Hit(p)
      BY <3>1, <3>4, ModuleFacts, MatchesReachedExact DEF ListsInvariant, Hit
    <3>6. \A r : Hit(r)' <=> Hit(r)
      BY <3>1 DEF Hit
    <3>7. Patterns(defined \ reached)' = Patterns(defined \ reached)
      BY <3>1 DEF Patterns
    <3>8. IsList(names, reached)'
      BY <3>1 DEF ListsInvariant, IsList, Sorted
    <3>9. /\ todo' \subseteq Patterns(defined \ reached)
          /\ ignore' \subseteq {r \in Patterns(defined \ reached) : ~Hit(r)}
          /\ \A r \in Patterns(defined \ reached) : r \in todo' \/ r \in ignore' \/ Hit(r)
      BY <3>1, <3>2, <3>3, <3>5 DEF ListsInvariant
    <3>. QED BY <3>1, <3>6, <3>7, <3>8, <3>9 DEF ListsInvariant
  <2>4. CASE UNCHANGED listsVars
    BY <2>4 DEF listsVars, ListsInvariant, Patterns, IsList, Sorted, Hit
  <2>. QED BY <2>1, <2>2, <2>3, <2>4 DEF ListsNext
<1>. QED
  BY <1>1, <1>2, PTL DEF ListsSpec

(* No pattern of the ignorelist matches a reached function, nor the same   *)
(* function in a build with other hashes, for all names and hashes.        *)
THEOREM NoReachedIsIgnored == ListsSpec => []ListsInv
<1>1. ListsInvariant => ListsInv
  <2> SUFFICES ASSUME ListsInvariant PROVE ListsInv
    OBVIOUS
  <2>1. defined \subseteq Names /\ reached \subseteq Names
    BY ModuleFacts DEF ListsInvariant
  <2>2. \A i \in 1 .. Len(names) : names[i] \in reached
    <3>1. CASE phase = "ignore"
      BY <3>1 DEF ListsInvariant, IsList
    <3>2. CASE phase # "ignore"
      BY <3>2, EmptySeq DEF ListsInvariant
    <3>. QED BY <3>1, <3>2
  <2>3. ListsTypeOK
    <3>1. Patterns(defined \ reached) \subseteq Patterns(defined)
      BY DEF Patterns
    <3>. QED BY <2>1, <2>2, <3>1 DEF ListsInvariant, ListsTypeOK
  <2>4. ASSUME NEW p \in ignore, NEW name \in reached
        PROVE  ~Glob(p, name)
    BY <2>4 DEF ListsInvariant, Hit
  <2>5. ASSUME NEW p \in ignore, NEW name \in reached, NEW q \in defined,
               Pattern(q) = p, Len(q) > 1, HashOnlyLast(q), NEW other \in Rehashed(name)
        PROVE  ~Glob(p, other)
    BY <2>1, <2>4, <2>5, OtherBuildMatches
  <2>6. IgnoreHitsNoReached
    BY <2>4, <2>5 DEF IgnoreHitsNoReached
  <2>. QED BY <2>3, <2>6 DEF ListsInv
<1>. QED
  BY <1>1, ListsAreWritten, PTL

(* Every unreached function whose pattern matches no reached one is in the *)
(* ignorelist: the bisection finds every match, and only matches.          *)
THEOREM IgnorelistIsMaximal == ListsSpec => []IgnoreIsMaximal
<1>1. ListsInvariant => IgnoreIsMaximal
  <2> SUFFICES ASSUME ListsInvariant, Written, NEW q \in defined \ reached, ~Hit(Pattern(q))
               PROVE  \E p \in ignore : Glob(p, q)
    BY DEF IgnoreIsMaximal, Hit
  <2>1. Pattern(q) \in ignore
    BY DEF ListsInvariant, Written, Patterns
  <2>2. q \in Names
    BY ModuleFacts DEF ListsInvariant
  <2>. QED BY <2>1, <2>2, OwnPatternMatches
<1>. QED
  BY <1>1, ListsAreWritten, PTL

(* The allowlist matches every reached function, whatever hash another     *)
(* build gives it.                                                         *)
THEOREM AllowlistHoldsInEveryBuild == ListsSpec => []AllowMatchesReached
<1>1. ListsInvariant => AllowMatchesReached
  <2> SUFFICES ASSUME ListsInvariant, phase # "allow", NEW name \in reached,
                      NEW other \in Rehashed(name)
               PROVE  \E p \in allow : Glob(p, other)
    BY DEF AllowMatchesReached
  <2>1. Pattern(name) \in allow
    BY DEF ListsInvariant, Patterns
  <2>2. name \in Names
    BY ModuleFacts DEF ListsInvariant
  <2>. QED BY <2>1, <2>2, OwnPatternMatches
<1>. QED
  BY <1>1, ListsAreWritten, PTL
=============================================================================
