--------------------------- MODULE RustArtifacts ---------------------------
(***************************************************************************)
(* acquire_rust_bitcode of driver/reachability/acquire_rust.py: a cargo    *)
(* build that emits bitcode, and the choice of this build's .bc files from *)
(* cargo's artifact messages.  cargo keeps the files of earlier builds, so *)
(* a history of builds with changing plans and settings precedes the one   *)
(* looked at.  rustc writes one file for a crate it does not split and     *)
(* else one for each codegen unit; a unit that is compiled anew keeps what *)
(* codegen units it no longer has.                                         *)
(***************************************************************************)
EXTENDS RustFlags, RustUnits

CONSTANTS
  Named,      \* bin, cdylib, staticlib and dylib units: messages without hash
  Needs,      \* the units a unit is compiled or linked with
  Plans,      \* the sets of units a build may consist of
  Projects,   \* settings of the project and the option, from run to run
  Whole,      \* the file of a crate that is not split
  Splits,     \* the codegen units some crates may be split into
  Splittable  \* those crates

ASSUME UnitAssumption ==
  /\ Named \subseteq Units
  /\ Needs \in [Units -> SUBSET Units]
  /\ Plans \subseteq (SUBSET Units) \ {{}} /\ Splittable \subseteq Units
  /\ \A s \in Projects : Composed(s).units \in Count
  /\ \A P \in Splits : P # {} /\ Whole \notin P

VARIABLES
  stream,      \* cargo writes the messages
  several,     \* rustc is told to split crates
  mtime,       \* time of the newest .bc file with a unit's hash, 0 if none
  there,       \* these files
  last,        \* of these, those the unit's last compilation wrote
  clock,       \* time of the last write
  built,       \* units with up-to-date output, as cargo sees it
  compiled,    \* units whose bitcode this run has written
  done,        \* units cargo has finished, compiled or not
  messages,    \* units cargo has reported as artifacts
  noCompile,   \* units whose compilation failed
  noLink,      \* units compiled whose link failed
  collected    \* the files returned

build == <<plan, fresh, stream, several>>
written == <<mtime, clock, there, last>>
failures == <<noCompile, noLink>>
vars == <<run, state, build, written, built, compiled, done, messages, failures, collected>>

Parts == {Whole} \cup UNION Splits     \* what a unit's files can be

TypeOK ==
  /\ run \in 0 .. MaxRuns
  /\ state \in {"idle", "building", "collected", "error"}
  /\ plan \subseteq Units /\ fresh \subseteq plan
  /\ stream \in BOOLEAN /\ several \in BOOLEAN
  /\ mtime \in [Units -> Nat] /\ clock \in Nat
  /\ there \in [Units -> SUBSET Parts] /\ last \in [Units -> SUBSET Parts]
  /\ \A u \in Units : last[u] \subseteq there[u] /\ (there[u] = {} <=> mtime[u] = 0)
  /\ built \subseteq Units
  /\ compiled \subseteq plan \ fresh /\ done \subseteq plan
  /\ messages \subseteq done
  /\ noCompile \subseteq plan \ done /\ noLink \subseteq compiled \ done
  /\ collected \subseteq UNION {{u} \X there[u] : u \in Units}

Init ==
  /\ run = 0 /\ state = "idle" /\ plan = {} /\ fresh = {}
  /\ stream = TRUE /\ several = FALSE
  /\ mtime = [u \in Units |-> 0] /\ clock = 0
  /\ there = [u \in Units |-> {}] /\ last = [u \in Units |-> {}]
  /\ built = {} /\ compiled = {} /\ done = {} /\ messages = {}
  /\ noCompile = {} /\ noLink = {} /\ collected = {}

-----------------------------------------------------------------------------
(* _cargo_clean: by cargo or by hand, target/ is removed.                  *)
Clean ==
  /\ mtime' = [u \in Units |-> 0] /\ built' = {}
  /\ there' = [u \in Units |-> {}] /\ last' = [u \in Units |-> {}]

(* cargo.  Between runs sources, features, versions and flags change: the  *)
(* plan is another, some units are out of date, and so are all units that  *)
(* need one of these or one compiled since.                                *)
StartRun ==
  /\ state # "building" /\ run < MaxRuns
  /\ run' = run + 1 /\ state' = "building"
  /\ Clean \/ UNCHANGED <<mtime, there, last, built>>
  /\ \E s \in Projects : several' = (Composed(s).units > 1)
  /\ plan' \in Plans
  /\ stream' \in BOOLEAN
  /\ \E upToDate \in SUBSET (built' \cap plan') :
       /\ \A u \in upToDate : Needs[u] \cap plan' \subseteq upToDate
       /\ fresh' = upToDate
  /\ compiled' = {} /\ done' = {} /\ messages' = {} /\ collected' = {}
  /\ noCompile' = {} /\ noLink' = {}
  /\ UNCHANGED clock

Ready(u) ==
  /\ state = "building"
  /\ u \in plan \ (done \cup noCompile \cup noLink)
  /\ Needs[u] \cap plan \subseteq done

Report(u) == messages' = IF stream THEN messages \cup {u} ELSE messages

(* A unit that is up to date is reported like a compiled one.              *)
Reuse(u) ==
  /\ Ready(u) /\ u \in fresh
  /\ done' = done \cup {u}
  /\ Report(u)
  /\ UNCHANGED <<run, state, build, written, built, compiled, failures, collected>>

Emit(u) ==
  /\ clock' = clock + 1
  /\ mtime' = [mtime EXCEPT ![u] = clock + 1]
  /\ \E P \in {{Whole}} \cup (IF several /\ u \in Splittable THEN Splits ELSE {}) :
       /\ there' = [there EXCEPT ![u] = @ \cup P]
       /\ last' = [last EXCEPT ![u] = P]
  /\ compiled' = compiled \cup {u}

Compile(u) ==
  /\ Ready(u) /\ u \notin fresh
  /\ Emit(u)
  /\ done' = done \cup {u}
  /\ built' = (built \cup {u}) \ {v \in Units : u \in Needs[v]}
  /\ Report(u)
  /\ UNCHANGED <<run, state, build, failures, collected>>

(* The link of a named unit fails after its bitcode is written: for cargo  *)
(* the unit has failed, so it is neither up to date nor reported.          *)
FailLink(u) ==
  /\ Ready(u) /\ u \in Named \ fresh
  /\ Emit(u)
  /\ built' = built \ {u}
  /\ noLink' = noLink \cup {u}
  /\ UNCHANGED <<run, state, build, done, messages, noCompile, collected>>

FailCompile(u) ==
  /\ Ready(u) /\ u \notin fresh
  /\ built' = built \ {u}
  /\ noCompile' = noCompile \cup {u}
  /\ UNCHANGED <<run, state, build, written, compiled, done, messages, noLink, collected>>

(* cargo ends when all is done, or after an error at some time, since jobs *)
(* that run then are finished and no others started.                       *)
BuildEnded == /\ state = "building"
              /\ noCompile # {} \/ noLink # {} \/ done = plan

-----------------------------------------------------------------------------
(* Files are chosen with all others of their hash, so units stand for      *)
(* their files until these are returned.                                   *)
WithFiles == {u \in Units : there[u] # {}}
SameCrate(u) == {v \in WithFiles : Crate[v] = Crate[u]}
Oldest(S) == {v \in S : \A w \in S : mtime[w] >= mtime[v]}   \* variant: min
Newest(S) == {v \in S : \A w \in S : mtime[w] <= mtime[v]}

(* A library's message has its hash.  For the others the newest file with  *)
(* the crate's name is taken, and with it all files of its hash.           *)
HashFiles(u) == {u} \cap WithFiles
NamedBcPathsNone(u) == {}                            \* variant: hashes only
NamedBcPaths(u) == Newest(SameCrate(u))
BuildBcPaths ==
  UNION {IF u \in Named THEN NamedBcPaths(u) ELSE HashFiles(u) : u \in messages}

(* Without messages: for every crate in deps/ the newest build's file.     *)
DedupNewestPerCrate == UNION {Newest(SameCrate(u)) : u \in WithFiles}

(* Compile errors are fatal, link errors are not, nor is anything that     *)
(* cargo calls an error without giving its reason.                         *)
Fatal == noCompile # {}

Chosen == IF BuildBcPaths = {} /\ noLink = {} THEN DedupNewestPerCrate
          ELSE BuildBcPaths

FilesOf(U) == UNION {{u} \X there[u] : u \in U}

Return ==
  /\ BuildEnded
  /\ IF Fatal \/ Chosen = {}
     THEN state' = "error" /\ UNCHANGED collected
     ELSE state' = "collected" /\ collected' = FilesOf(Chosen)
  /\ UNCHANGED <<run, build, written, built, compiled, done, messages, failures>>

(* cargo gives up for a reason that is neither a compile nor a link error. *)
Abort ==
  /\ state = "building" /\ noCompile = {} /\ noLink = {}
  /\ state' = "error"
  /\ UNCHANGED <<run, build, written, built, compiled, done, messages, failures, collected>>

Next ==
  \/ StartRun \/ Return \/ Abort
  \/ \E u \in Units : Reuse(u) \/ Compile(u) \/ FailLink(u) \/ FailCompile(u)

Spec == Init /\ [][Next]_vars

-----------------------------------------------------------------------------
LastWritten(U) == UNION {{u} \X last[u] : u \in U}
Succeeded == state = "collected" /\ noLink = {}

(* The file names of a link product begin like those of no other unit of   *)
(* the build, unless it needs that one, as a binary its package's library. *)
LinkProductsApart ==
  \A P \in Plans : \A u \in P \cap Named : \A v \in P \ {u} :
    Crate[v] = Crate[u] => v \in Needs[u]

(* Nothing of the plan is missing, but what cargo has not built anew of    *)
(* the link products.  When it builds all of them anew, LinkProductsApart  *)
(* given, the files returned are exactly those of the plan: whatever       *)
(* earlier builds have left, up-to-date libraries included and different   *)
(* versions of one crate kept apart.                                       *)
(* Excepted are                                                            *)
(*   - a link product that is up to date: the newest file of its name may  *)
(*     be another build's;                                                 *)
(*   - one whose link failed, which cargo does not report;                 *)
(*   - a unit that was split otherwise before: the files it then had keep  *)
(*     its hash.                                                           *)
RebuiltExact ==
  Succeeded /\ stream =>
    /\ LastWritten(plan \ (Named \ compiled)) \subseteq collected
    /\ plan \cap Named \subseteq compiled /\ FilesOf(plan) = LastWritten(plan)
         => collected = LastWritten(plan)

(* Nothing is returned when a crate did not compile, even if a link failed *)
(* in the same build.                                                      *)
CompileFailureIsFatal == state = "collected" => noCompile = {}

(* Without messages there is one unit per crate, and for a crate that this *)
(* build has compiled it is one that this build has written, as a whole.   *)
FallbackIsCurrent ==
  Succeeded /\ ~stream =>
    /\ \A x, y \in collected : Crate[x[1]] = Crate[y[1]] => x[1] = y[1]
    /\ \A u \in compiled : \E v \in compiled :
         Crate[u] = Crate[v] /\ LastWritten({v}) \subseteq collected

(* The types, the fallback, and that errors are not overlooked.            *)
Inv == TypeOK /\ FallbackIsCurrent /\ CompileFailureIsFatal
=============================================================================
