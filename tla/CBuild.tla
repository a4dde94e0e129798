------------------------------- MODULE CBuild -------------------------------
(***************************************************************************)
(* The C path of a run: the toolchain check, --clean on a build tree       *)
(* (cli.py), the choice of a build command, the build with gllvm's         *)
(* wrappers, the choice of the artifact and the extraction of its bitcode  *)
(* (acquire_c.py).  Runs follow each other in one tree that a plain build  *)
(* may have used before, on machines whose tools change; each can fail or  *)
(* be killed anywhere.                                                     *)
(*                                                                         *)
(* Run 1 is the user's own build.  A file is known by the run that wrote   *)
(* it.  gclang leaves in an object the path of a hidden .bc file beside    *)
(* it; a product holds the paths of what it was linked from, and get-bc    *)
(* reads the .bc files as they are by then.                                *)
(***************************************************************************)
EXTENDS Toolchain, Sequences, FiniteSets

CONSTANTS
  Units,       \* sources, each with an object and a hidden .bc
  Products,    \* what the build links
  Parts,       \* the units of a product
  Library,     \* the product that is a library, static or shared
  Direct,      \* products built by one command, without objects
  Changes,     \* sets of sources that change between two runs
  Projects,    \* build files in the root, whether the library is shared
               \* unless told otherwise, and whether the option has an effect
  Machines, NoMachine,   \* machines considered, and that of no run
  MaxRuns,     \* bound on the runs
  MaxTries     \* artifacts tried at most

(* The build files, in the order in which detect_build_cmd looks for them. *)
ProbeOrder == <<"configure", "Makefile", "CMakeLists.txt", "build.ninja",
                "meson.build", "autogen.sh", "configure.ac">>
BuildFiles == {ProbeOrder[i] : i \in 1 .. 7}

ASSUME BuildAssumption ==
  /\ Parts \in [Products -> SUBSET Units] /\ Units \cap Products = {}
  /\ Library \in Products \ Direct /\ Direct \subseteq Products
  /\ Changes \subseteq SUBSET Units /\ Machines \subseteq Machine /\ NoMachine \notin Machine
  /\ Projects \subseteq [files : SUBSET BuildFiles, sharing : BOOLEAN, option : BOOLEAN]
  /\ MaxRuns \in Nat \ {0} /\ MaxTries \in Nat \ {0}

Absent == 0
Plain == 1                       \* by the user's own build
None == "none"

VARIABLES
  run, clean, machine, stage,
  project,    \* the build files there are, its use, and the option
  shared,     \* the tree is configured to build the library shared
  forced,     \* this run's build command has it built static
  changed,    \* the run before which a source changed last
  obj, bc,    \* when a unit's object and hidden .bc were written
  made,       \* when a product was linked
  holds,      \* the units whose .bc a product names
  by,         \* the compiler each run used
  left,       \* files the sweep still has to look at
  torn,       \* a clean has begun and none was completed since
  tried,      \* artifacts get-bc has failed on
  offered,    \* artifacts it may be tried on
  product, bitcode    \* the artifact taken, and the units of the bitcode from it

setup   == <<run, machine, changed>>
config  == <<project, shared, forced, by>>
links   == <<made, holds>>
tree    == <<obj, bc, made, holds>>
answer  == <<tried, offered, product, bitcode>>
buildVars == <<setup, clean, stage, config, tree, left, torn, answer>>

Ended == {"stopped", "done"}

Stop ==                          \* what the process knows is gone
  /\ stage' = "stopped"
  /\ clean' = "no" /\ machine' = NoMachine /\ forced' = FALSE /\ left' = {}
  /\ tried' = {} /\ offered' = {} /\ product' = None /\ bitcode' = {}

BuildInit ==
  /\ run = Plain /\ clean = "no" /\ machine = NoMachine /\ stage = "stopped"
  /\ project \in Projects /\ shared = project.sharing /\ forced = FALSE
  /\ changed = [u \in Units |-> Plain]
  /\ \E t \in {Absent, Plain} :
       /\ obj = [u \in Units |-> t]
       /\ made = [p \in Products |-> t]
  /\ bc = [u \in Units |-> Absent]
  /\ holds = [p \in Products |-> {}]
  /\ by = [r \in 1 .. MaxRuns |-> NoTool]
  /\ left = {} /\ torn = FALSE
  /\ tried = {} /\ offered = {} /\ product = None /\ bitcode = {}

-----------------------------------------------------------------------------
(* The user starts a run, perhaps after changes to sources and machine.    *)
Start ==
  /\ stage \in Ended /\ run < MaxRuns
  /\ run' = run + 1 /\ clean' \in {"no", "asked"} /\ machine' \in Machines
  /\ \E C \in Changes :
       changed' = [u \in Units |-> IF u \in C THEN run + 1 ELSE changed[u]]
  /\ stage' = "toolchain" /\ left' = {}
  /\ tried' = {} /\ offered' = {} /\ product' = None /\ bitcode' = {}
  /\ UNCHANGED <<config, tree, torn>>

Refused ==
  /\ stage = "toolchain" /\ ~Accepts(machine, FALSE)
  /\ Stop
  /\ UNCHANGED <<run, changed, project, shared, by, tree, torn>>

Accepted ==
  /\ stage = "toolchain" /\ Accepts(machine, FALSE)
  /\ stage' = IF clean = "asked" THEN "clean" ELSE "configure"
  /\ torn' = (torn \/ clean = "asked")
  /\ UNCHANGED <<setup, clean, config, tree, left, answer>>

(***************************************************************************)
(* _clean_c_artifacts.  First the build tool's own clean, if there is a    *)
(* build file to choose it by and the tool is installed; its exit status   *)
(* is ignored, so it may have removed any of what it built.  An object it  *)
(* removes is as well removed by the sweep that follows.                   *)
(***************************************************************************)
SuffixesOnlyBitcode == {"bc"}                     \* variant: objects are kept
SuffixesOnlyObjects == {"o"}                      \* variant: bitcode is kept
Suffixes == {"o", "bc"}                           \* _C_CLEAN_SUFFIXES

BuildToolClean ==
  /\ stage = "clean"
  /\ \E P \in SUBSET Products :
       /\ made' = [p \in Products |-> IF p \in P THEN Absent ELSE made[p]]
       /\ holds' = [p \in Products |-> IF p \in P THEN {} ELSE holds[p]]
  /\ stage' = "sweep"
  /\ left' = {f \in Suffixes \X Units : (IF f[1] = "o" THEN obj ELSE bc)[f[2]] # Absent}
  /\ UNCHANGED <<setup, clean, config, obj, bc, torn, answer>>

(* One file of the walk; if it cannot be removed there is a warning.  As   *)
(* that can befall any of them, the order of the walk makes no difference. *)
Drop ==
  /\ stage = "sweep" /\ left # {}
  /\ LET f == CHOOSE g \in left : TRUE IN
       /\ left' = left \ {f}
       /\ \/ /\ IF f[1] = "o" THEN obj' = [obj EXCEPT ![f[2]] = Absent] /\ UNCHANGED bc
                              ELSE bc' = [bc EXCEPT ![f[2]] = Absent] /\ UNCHANGED obj
             /\ UNCHANGED clean
          \/ clean' = "warned" /\ UNCHANGED <<obj, bc>>
  /\ UNCHANGED <<setup, stage, config, links, torn, answer>>

Cleaned ==
  /\ stage = "sweep" /\ left = {}
  /\ torn' = (clean = "warned")
  /\ clean' = IF clean = "warned" THEN clean ELSE "complete"
  /\ stage' = "configure"
  /\ UNCHANGED <<setup, config, tree, left, answer>>

-----------------------------------------------------------------------------
(***************************************************************************)
(* detect_build_cmd: the first build file there is decides; without any it *)
(* is make.  configure is asked whether it knows the option, which may     *)
(* fail or time out; make and ninja have none; the others just get it.     *)
(***************************************************************************)
System ==
  LET there == SelectSeq(ProbeOrder, LAMBDA f : f \in project.files)
  IN IF there = <<>> THEN "Makefile" ELSE Head(there)

Configures == System \notin {"Makefile", "build.ninja"}

Generated == CASE System = "configure" -> {"Makefile"}
               [] System \in {"autogen.sh", "configure.ac"} -> {"configure", "Makefile"}
               [] OTHER -> {}

(* A configure that is not told otherwise builds what its project is used  *)
(* to.                                                                     *)
Configure ==
  /\ stage = "configure"
  /\ \E understood \in BOOLEAN :
       forced' = (Configures /\ project.option /\ (System = "configure" => understood))
  /\ shared' = IF forced' THEN FALSE
               ELSE IF Configures THEN project.sharing ELSE shared
  /\ project' = [project EXCEPT !.files = @ \cup Generated]
  /\ by' = [by EXCEPT ![run] = Compiler(machine)]
  /\ stage' = "build"
  /\ UNCHANGED <<setup, clean, tree, left, torn, answer>>

(* --build-cmd: any command, nothing is forced.                            *)
OwnBuildCommand ==
  /\ stage = "configure"
  /\ forced' = FALSE /\ shared' \in BOOLEAN
  /\ by' = [by EXCEPT ![run] = Compiler(machine)]
  /\ stage' = "build"
  /\ UNCHANGED <<setup, clean, project, tree, left, torn, answer>>

-----------------------------------------------------------------------------
(***************************************************************************)
(* External: the build.  It compiles what is older than its source, links  *)
(* what is older than its objects, or for reasons of its own, and ends     *)
(* when its goals are up to date.                                          *)
(***************************************************************************)
Linked(p) == IF shared /\ p # Library THEN Parts[p] \ Parts[Library] ELSE Parts[p]

Current(u) == obj[u] >= changed[u]

Compile ==
  /\ stage = "build" /\ by[run] # NoTool
  /\ \E u \in Units :
       /\ ~Current(u)
       /\ obj' = [obj EXCEPT ![u] = run] /\ bc' = [bc EXCEPT ![u] = run]
  /\ UNCHANGED <<setup, clean, stage, config, links, left, torn, answer>>

Link ==
  /\ stage = "build"
  /\ \E p \in Products \ Direct :
       /\ made[p] # run /\ \A u \in Parts[p] : Current(u)
       /\ made' = [made EXCEPT ![p] = run]
       /\ holds' = [holds EXCEPT ![p] = {u \in Linked(p) : obj[u] > Plain}]
  /\ UNCHANGED <<setup, clean, stage, config, obj, bc, left, torn, answer>>

OlderThanSource(p) == \E u \in Parts[p] : made[p] < changed[u]

CompileAndLink ==
  /\ stage = "build" /\ by[run] # NoTool
  /\ \E p \in Direct :
       /\ OlderThanSource(p)
       /\ bc' = [u \in Units |-> IF u \in Parts[p] THEN run ELSE bc[u]]
       /\ made' = [made EXCEPT ![p] = run]
       /\ holds' = [holds EXCEPT ![p] = Parts[p]]
  /\ UNCHANGED <<setup, clean, stage, config, obj, left, torn, answer>>

UpToDate(p) ==
  /\ ~OlderThanSource(p)
  /\ p \notin Direct => \A u \in Parts[p] : Current(u) /\ made[p] >= obj[u]

Written(c) == IF c \in Products THEN made[c] ELSE obj[c]

Candidates == {c \in Products \cup Units : Written(c) # Absent}

Built ==
  /\ stage = "build"
  /\ \E p \in Products : UpToDate(p)
  /\ offered' = Candidates
  /\ stage' = "extract"
  /\ UNCHANGED <<setup, clean, config, tree, left, torn, tried, product, bitcode>>

-----------------------------------------------------------------------------
(* _has_bitcode_marker, _classify                                          *)
Named(c) == IF c \in Products THEN holds[c] ELSE {u \in {c} : obj[u] > Plain}

KindRank(c) == IF c \in Units THEN 0
               ELSE IF c # Library THEN 3 ELSE IF shared THEN 2 ELSE 1

Marked(c) == IF Named(c) # {} THEN 1 ELSE 0

NewerOldest(c, d) == Written(c) < Written(d)           \* variant
(* Whether a file is of this run, asked before its time, adds nothing.     *)
Newer(c, d) == Written(c) > Written(d)

(* The order find_artifacts sorts by.                                      *)
Outranks(c, d) ==
  \/ Marked(c) > Marked(d)
  \/ /\ Marked(c) = Marked(d)
     /\ \/ KindRank(c) > KindRank(d)
        \/ KindRank(c) = KindRank(d) /\ Newer(c, d)

Best == {c \in offered \ tried : \A d \in offered \ tried : ~Outranks(d, c)}

Present(c) == {u \in Named(c) : bc[u] # Absent}

(* get-bc links what is there of what an artifact names, if llvm-link      *)
(* reads it; it may take it for an error that some is missing.             *)
Take(c) ==
  /\ Present(c) # {}
  /\ \A u \in Present(c) : Reads(Found(machine, "llvm-link"), by[bc[u]])
  /\ product' = c /\ bitcode' = Present(c)
  /\ stage' = "done"
  /\ UNCHANGED <<setup, clean, config, tree, left, torn, tried>>

(* --artifact, if the file is there, is tried alone.                       *)
ExtractGiven ==
  /\ stage = "build" /\ \E p \in Products : UpToDate(p)
  /\ \E c \in Candidates : offered' = {c} /\ Take(c)

ExtractDetected ==
  /\ stage = "extract"
  /\ \E c \in Best : Take(c)
  /\ UNCHANGED offered

ExtractionFails ==
  /\ stage = "extract"
  /\ \E c \in Best : tried' = tried \cup {c}
  /\ Cardinality(tried') < MaxTries /\ tried' # offered
  /\ UNCHANGED <<setup, clean, stage, config, tree, left, torn, offered, product, bitcode>>

(* No gclang, a failed build, no artifact left to try, or a kill anywhere. *)
Abort ==
  /\ stage \notin Ended
  /\ Stop
  /\ UNCHANGED <<run, changed, project, shared, by, tree, torn>>

BuildNext ==
  \/ Start \/ Refused \/ Accepted \/ BuildToolClean \/ Drop \/ Cleaned
  \/ Configure \/ OwnBuildCommand \/ Compile \/ Link \/ CompileAndLink \/ Built
  \/ ExtractGiven \/ ExtractDetected \/ ExtractionFails \/ Abort

BuildSpec == BuildInit /\ [][BuildNext]_buildVars

-----------------------------------------------------------------------------
(* The values of the variables.                                            *)
BuildTypeOK ==
  /\ run \in 1 .. MaxRuns /\ clean \in {"no", "asked", "warned", "complete"}
  /\ stage \in Ended \cup {"toolchain", "clean", "sweep", "configure", "build", "extract"}
  /\ shared \in BOOLEAN /\ forced \in BOOLEAN /\ torn \in BOOLEAN
  /\ changed \in [Units -> 1 .. run]
  /\ obj \in [Units -> 0 .. run] /\ bc \in [Units -> 0 .. run]
  /\ made \in [Products -> 0 .. run] /\ holds \in [Products -> SUBSET Units]
  /\ left \subseteq {"o", "bc"} \X Units
  /\ offered \subseteq Units \cup Products /\ tried \subseteq offered
  /\ product \in offered \cup {None} /\ bitcode \subseteq Units

(* A hidden .bc is never older than the object that names it, and no       *)
(* object names one that is not there, unless a clean was cut short.       *)
BitcodeIsNotOlder ==
  \A u \in Units : obj[u] > Plain /\ bc[u] # Absent => bc[u] >= obj[u]
NothingMissing ==
  ~torn => \A u \in Units : obj[u] > Plain => bc[u] # Absent

(* The type invariant, and that the objects of gclang and the hidden files *)
(* they name go together from one run to the next.                         *)
BuildInv == BuildTypeOK /\ BitcodeIsNotOlder /\ NothingMissing

(* What a run returns from an artifact it has linked itself is the whole   *)
(* of it, libraries included, also after runs that were killed: unless a   *)
(* clean was cut short, an object of a plain build was kept, or the        *)
(* library is shared and the build command could not ask for another.      *)
WholeUnlessTorn ==
  /\ stage = "done" /\ product \in Products /\ made[product] = run
  /\ (forced \/ ~shared) /\ ~torn /\ \A u \in Units : obj[u] # Plain
  => bitcode = Parts[product]

(* After a clean without warnings nothing compiled earlier is returned,    *)
(* although products that the sweep does not know are still there.         *)
CleanNothingStale ==
  stage = "done" /\ clean = "complete" => \A u \in bitcode : bc[u] = run

(* An artifact of this run is passed over for an older one only if that is *)
(* of a better kind, or get-bc has failed on it.                           *)
FreshNotPassedOver ==
  stage = "done" /\ Written(product) # run =>
    \A c \in offered \ tried :
      Named(c) # {} /\ KindRank(c) >= KindRank(product) => Written(c) # run

(* What this run has compiled it can also link, on a machine where a major *)
(* is installed once and gclang runs the clang that was checked.           *)
OwnBitcodeReadable ==
  stage = "extract" /\ OneRelease(machine) /\ CheckedIsRun(machine) =>
    \A u \in Units : bc[u] = run => Reads(Found(machine, "llvm-link"), by[run])
=============================================================================
