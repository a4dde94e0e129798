----------------------------- MODULE RustProofs -----------------------------
(***************************************************************************)
(* What acquire_rust.py guarantees: what is left of a project's own        *)
(* settings in the driver's build, for all settings, and what the wrapped  *)
(* native build collects, and which files the cargo build with messages    *)
(* takes, for any units and any number of runs; and what toolchain.py asks *)
(* of a machine for a Rust target.                                         *)
(***************************************************************************)
EXTENDS Toolchain, RustNative, RustArtifacts, WellFoundedInduction, TLAPS

(* A machine accepted for a Rust target has a linker and an optimizer that *)
(* read what rustc writes, whatever its patch level.                       *)
THEOREM RustIsReadable ==
  ASSUME NEW m \in Machine, Accepts(m, TRUE)
  PROVE  \A tool \in {"llvm-link", "opt"} : Reads(Found(m, tool), m.rustc)
<1>1. Place(m, "llvm-link") \in Places /\ Place(m, "opt") \in Places
  BY DEF Place, Places
<1>2. Found(m, "llvm-link") \in Version /\ Found(m, "opt") \in Version /\ m.rustc \in Version
  BY <1>1 DEF Machine, Found, Tools
<1>3. RustBitcodeReadable(m)
  BY DEF Accepts
<1>4. \A v, w, r \in Version :
        AtLeast(IF AtLeast(v, w) THEN w ELSE v, r) => AtLeast(v, r) /\ AtLeast(w, r)
  BY DEF AtLeast, Major, Version
<1> QED
  BY <1>2, <1>3, <1>4 DEF RustBitcodeReadable, Reads

-----------------------------------------------------------------------------
(* Nearest gives the only element that is there.                           *)
LEMMA NearestOfOne ==
  ASSUME NEW S, NEW list \in Seq(S), NEW k \in DOMAIN list, list[k] # None,
         \A i \in DOMAIN list : list[i] # None => i = k
  PROVE  Nearest(list) = list[k]
<1> DEFINE First(i) == list[i] # None /\ \A j \in 1 .. i - 1 : list[j] = None
<1>1. First(k)
  <2>1. \A j \in 1 .. k - 1 : j \in DOMAIN list /\ j # k
    OBVIOUS
  <2> QED BY <2>1
<1>2. (CHOOSE i \in DOMAIN list : First(i)) = k
  <2>1. \E i \in DOMAIN list : First(i)
    BY <1>1
  <2> QED BY <2>1
<1> QED BY <1>2 DEF Nearest

(* No flag of the project is lost, whether it stands in the environment or *)
(* in a cargo config, unless there are several configs or flags for one    *)
(* target; and what it asks for by itself the driver does not undo.        *)
THEOREM ProjectFlagsSurvive ==
  ASSUME NEW s \in Settings, s.encoded # None \/ s.plain # None \/ OneConfig(s)
  PROVE  /\ Composed(s).set = EmitFlags \cup CargoFlags(s)
         /\ Existing(s).units # None => Composed(s).units = Existing(s).units
<1>1. Existing(s).set = CargoFlags(s)
  <2>1. CASE s.encoded # None
    BY <2>1 DEF Existing, CargoFlags
  <2>2. CASE s.encoded = None /\ s.plain # None
    BY <2>2 DEF Existing, CargoFlags
  <2>3. CASE s.encoded = None /\ s.plain = None
    <3>1. s.target = None /\ \A i, j \in CargoConfigured(s) : i = j
      BY <2>3 DEF OneConfig
    <3>2. CargoFlags(s) = UNION {s.configs[i].set : i \in CargoConfigured(s)}
      BY <2>3, <3>1 DEF CargoFlags
    <3>3. Existing(s) = ConfigFlags(s)
      BY <2>3 DEF Existing
    <3>4. s.configs \in Seq(Flags \cup {None})
      BY DEF Settings
    <3>5. CASE CargoConfigured(s) = {}
      BY <3>2, <3>3, <3>5 DEF ConfigFlags, Nearest, CargoConfigured, NoFlags
    <3>6. CASE CargoConfigured(s) # {}
      <4>1. PICK k \in CargoConfigured(s) : TRUE
        BY <3>6
      <4>2. CargoConfigured(s) = {k}
        BY <3>1, <4>1
      <4>3. k \in DOMAIN s.configs /\ s.configs[k] # None
            /\ \A i \in DOMAIN s.configs : s.configs[i] # None => i = k
        BY <4>1, <4>2 DEF CargoConfigured
      <4>4. Nearest(s.configs) = s.configs[k]
        BY <3>4, <4>3, NearestOfOne
      <4>5. CargoFlags(s) = s.configs[k].set
        BY <3>2, <4>2
      <4> QED BY <3>3, <4>3, <4>4, <4>5 DEF ConfigFlags
    <3> QED BY <3>5, <3>6
  <2> QED BY <2>1, <2>2, <2>3
<1> QED BY <1>1 DEF Composed

(* The build is split as cargo would have done it when the workspace's     *)
(* manifest alone sets the number and no flag does.                        *)
THEOREM UnitsAsCargo ==
  ASSUME NEW s \in Settings, OneManifest(s), Existing(s).units = None
  PROVE  Composed(s).units = CargoUnits(s)
<1>1. s.manifests \in Seq(Nat \cup {None})
  BY DEF Settings
<1>2. Composed(s).units = IF ManifestUnits(s) # None THEN ManifestUnits(s) ELSE s.usual
  BY DEF Composed, Resolved, OneManifest
<1>3. CASE \A i \in DOMAIN s.manifests : s.manifests[i] = None
  BY <1>2, <1>3 DEF ManifestUnits, Nearest, CargoUnits
<1>4. CASE \E i \in DOMAIN s.manifests : s.manifests[i] # None
  <2>1. /\ s.root \in DOMAIN s.manifests /\ s.manifests[s.root] # None
        /\ \A i \in DOMAIN s.manifests : s.manifests[i] # None => i = s.root
    BY <1>4 DEF OneManifest
  <2>2. Nearest(s.manifests) = s.manifests[s.root]
    BY <1>1, <2>1, NearestOfOne
  <2> QED BY <1>2, <2>1, <2>2 DEF ManifestUnits, CargoUnits
<1> QED BY <1>3, <1>4

-----------------------------------------------------------------------------
(***************************************************************************)
(* The inductive invariant of RustNative.                                  *)
(***************************************************************************)

(* A wrapper has files to copy only while it copies, those of its crate,   *)
(* and copies one at a time.                                               *)
Wrappers ==
  /\ state # "idle" => run \in Runs
  /\ \A u \in Units : proc[u] # "none" => u \in plan
  /\ \A u \in Units : files[u] # {} => proc[u] = "copying" /\ u \notin HostOnly
  /\ \A u \in Units : \A v \in files[u] : Crate[v] = Crate[u]
  /\ \A u \in Units : \A v, w \in open[u] : v = w

(* What a rustc that has ended without failure has written stays.          *)
Emitted ==
  ~failed => \A u \in Units : proc[u] \in {"emitted", "copying", "exited"} => deps[u] = run

(* Its wrapper's copy is complete, or will be: the wrapper has still to    *)
(* make it, or some wrapper is just making it.  Or a cp of it has failed.  *)
CopiedOrCopying ==
  ~failed =>
    \A u \in Units \ HostOnly :
      proc[u] \in {"copying", "exited"} =>
        \/ u \in uncopied \/ collect[u] = run
        \/ u \in files[u] \/ \E w \in Units : u \in open[w]

(* What is collected, a unit of the crate has brought along.               *)
Sourced ==
  \A v \in Units : collect[v] # Absent =>
    \E u \in Units \ HostOnly : Crate[u] = Crate[v] /\ proc[u] \in {"copying", "exited"}

(* Besides what earlier runs have left, only what this one has compiled is *)
(* up to date, and only what it has planned is there.                      *)
NewOrLeft ==
  /\ fresh \subseteq Compiled \cup left
  /\ \A u \in Units \ left : deps[u] # Absent \/ collect[u] # Absent => u \in plan
  /\ \A u \in Units : files[u] \subseteq plan \cup left

Finished == state = "collected" => ~failed /\ Running = {} /\ plan \subseteq fresh

IInv ==
  NativeTypeOK /\ Wrappers /\ Emitted /\ CopiedOrCopying /\ Sourced /\ NewOrLeft /\ Finished

LEMMA RunContents ==
  /\ Runs \subseteq Content /\ Absent \in Content /\ Partial \in Content
  /\ Absent \notin Runs /\ Partial \notin Runs /\ Partial # Absent
BY CrateAssumption, HostAssumption DEF Absent, Runs, Content, Partial

LEMMA InitInv == NativeInit => IInv
<1>1. SUFFICES ASSUME NativeInit
               PROVE  IInv
  OBVIOUS
<1>2. run \in 0 .. MaxRuns /\ state = "idle" /\ plan = {} /\ fresh = {}
  BY <1>1, CrateAssumption, HostAssumption DEF NativeInit
<1>3. left = {} /\ uncopied = {} /\ failed = FALSE
  BY <1>1 DEF NativeInit
<1>4. \A u \in Units : /\ proc[u] = "none" /\ files[u] = {} /\ open[u] = {}
                       /\ deps[u] = Absent /\ collect[u] = Absent
  BY <1>1 DEF NativeInit
<1>5. NativeTypeOK
  <2>1. /\ deps \in [Units -> Content] /\ collect \in [Units -> Content]
        /\ files \in [Units -> SUBSET Units] /\ open \in [Units -> SUBSET Units]
        /\ proc \in [Units -> {"none", "rustc", "writing", "emitted", "copying", "exited"}]
    BY <1>1, RunContents DEF NativeInit
  <2>. QED
    BY <1>2, <1>3, <1>4, <2>1 DEF NativeTypeOK
<1>. QED
  BY <1>2, <1>3, <1>4, <1>5
     DEF IInv, Wrappers, Emitted, CopiedOrCopying, Sourced, NewOrLeft, Finished

LEMMA TypeStep ==
  ASSUME NativeTypeOK, Wrappers, [NativeNext]_nativeVars
  PROVE  NativeTypeOK'
<1>1. run' \in 0 .. MaxRuns /\ plan' \subseteq Units /\ fresh' \subseteq Units
  <2>1. CASE StartNative
    <3>1. run' = run + 1 /\ run < MaxRuns /\ plan' \subseteq Units
      BY <2>1 DEF StartNative
    <3>2. fresh' \subseteq fresh
      BY <2>1 DEF StartNative
    <3>. QED
      BY <3>1, <3>2, CrateAssumption, HostAssumption DEF NativeTypeOK
  <2>2. CASE ~StartNative
    BY <2>2 DEF NativeTypeOK, NativeNext, StartNative, StartRustc, WriteBitcode,
       FailRustc, Glob,
       Copy, FailCopy, Exit,
     ReturnNative, Kill, nativeVars
  <2>. QED BY <2>1, <2>2
<1>2. state' \in {"idle", "building", "collected", "error", "killed"}
  BY DEF NativeTypeOK, NativeNext, StartNative, StartRustc, WriteBitcode,
     FailRustc, Glob, Copy, FailCopy, Exit,
     ReturnNative, Kill, nativeVars
<1>3. left' \subseteq Units /\ uncopied' \subseteq Units
  BY DEF NativeTypeOK, NativeNext, StartNative, StartRustc, WriteBitcode,
     FailRustc, Glob, Copy, FailCopy, Exit,
     ReturnNative, Kill, nativeVars
<1>4. failed' \in BOOLEAN
  BY DEF NativeTypeOK, NativeNext, StartNative, StartRustc, WriteBitcode,
     FailRustc, Glob, Copy, FailCopy, Exit,
     ReturnNative, Kill, nativeVars
<1>5. deps' \in [Units -> Content]
  <2>1. run \in Content
    BY CrateAssumption, HostAssumption DEF NativeTypeOK, Content
  <2>. QED
    BY <2>1, RunContents DEF NativeTypeOK, Emptied, NativeNext, StartNative, StartRustc,
       WriteBitcode, FailRustc, Glob, Copy, FailCopy, Exit,
     ReturnNative, Kill, nativeVars
<1>6. proc' \in [Units -> {"none", "rustc", "writing", "emitted", "copying", "exited"}]
  BY DEF NativeTypeOK, NativeNext, StartNative, StartRustc, WriteBitcode,
     FailRustc, Glob, Copy, FailCopy, Exit,
     ReturnNative, Kill, nativeVars
<1>7. collect' \in [Units -> Content]
  BY RunContents DEF NativeTypeOK, Copied, NativeNext, StartNative, StartRustc,
     WriteBitcode,
     FailRustc, Glob, Copy, FailCopy, Exit,
     ReturnNative, Kill, nativeVars
<1>8. /\ files' \in [Units -> SUBSET Units] /\ open' \in [Units -> SUBSET Units]
      /\ \A u \in Units : open'[u] \subseteq files'[u]
  <2>1. CASE \E u \in Units : Copy(u)
    <3>1. PICK u \in Units : Copy(u)
      BY <2>1
    <3>2. CASE UNCHANGED files
      BY <3>1, <3>2 DEF NativeTypeOK, Copy
    <3>3. CASE ~UNCHANGED files
      BY <3>1, <3>3 DEF NativeTypeOK, Copy
    <3>. QED BY <3>2, <3>3
  <2>2. CASE \E u \in Units : Glob(u)
    <3>1. PICK u \in Units : Glob(u)
      BY <2>2
    <3>2. open[u] = {}
      BY <3>1 DEF Glob, NativeTypeOK, Wrappers
    <3>. QED
      BY <3>1, <3>2 DEF NativeTypeOK, Glob, Matching
  <2>3. CASE StartNative
    BY <2>3 DEF NativeTypeOK, StartNative
  <2>4. CASE UNCHANGED <<files, open>>
    BY <2>4 DEF NativeTypeOK
  <2>5. CASE \E u \in Units : FailCopy(u)
    <3>1. PICK u \in Units : FailCopy(u)
      BY <2>5
    <3>. QED
      BY <3>1 DEF NativeTypeOK, FailCopy
  <2>. QED
    BY <2>1, <2>2, <2>3, <2>4, <2>5
       DEF NativeNext, StartRustc, WriteBitcode, FailRustc, Exit, ReturnNative,
          Kill, nativeVars
<1>. QED
  BY <1>1, <1>2, <1>3, <1>4, <1>5, <1>6, <1>7, <1>8 DEF NativeTypeOK

(* What a step keeps besides the types, action by action.                  *)
Rest == Wrappers /\ Emitted /\ CopiedOrCopying /\ Sourced /\ NewOrLeft /\ Finished

LEMMA StartRunKeeps ==
  ASSUME IInv, StartNative
  PROVE  Rest'
<1>. USE RunContents, CrateAssumption, HostAssumption DEF StartNative, IInv, NativeTypeOK
<1>1. Wrappers'
  <2>1. run' = run + 1 /\ run + 1 \in Runs
    BY DEF Runs
  <2>. QED
    BY <2>1 DEF Wrappers
<1>2. Emitted'
  BY DEF Emitted, Wrappers
<1>3. CopiedOrCopying'
  BY DEF CopiedOrCopying, Emitted, Wrappers, Copied, Matching
<1>4. Sourced'
  BY DEF Sourced, Wrappers, Copied
<1>5. NewOrLeft'
  BY DEF NewOrLeft, Compiled, Wrappers, Emptied, Matching
<1>6. Finished'
  BY DEF Finished, WrappersEnded, Running
<1>. QED
  BY <1>1, <1>2, <1>3, <1>4, <1>5, <1>6 DEF Rest

LEMMA StartRustcKeeps ==
  ASSUME IInv, NEW u \in Units, StartRustc(u)
  PROVE  Rest'
<1>. USE RunContents, CrateAssumption, HostAssumption DEF StartRustc, IInv, NativeTypeOK
<1>1. Wrappers'
  BY DEF Wrappers, Matching
<1>2. Emitted'
  BY DEF Emitted, Wrappers
<1>3. CopiedOrCopying'
  BY DEF CopiedOrCopying, Emitted, Wrappers, Copied, Matching
<1>4. Sourced'
  BY DEF Sourced, Wrappers, Copied
<1>5. NewOrLeft'
  BY DEF NewOrLeft, Compiled, Wrappers, Emptied, Matching
<1>6. Finished'
  BY DEF Finished, WrappersEnded, Running
<1>. QED
  BY <1>1, <1>2, <1>3, <1>4, <1>5, <1>6 DEF Rest

LEMMA WriteBitcodeKeeps ==
  ASSUME IInv, NEW u \in Units, WriteBitcode(u)
  PROVE  Rest'
<1>. USE RunContents, CrateAssumption, HostAssumption DEF WriteBitcode, IInv, NativeTypeOK
<1>1. Wrappers'
  BY DEF Wrappers, Matching
<1>2. Emitted'
  BY DEF Emitted, Wrappers
<1>3. CopiedOrCopying'
  BY DEF CopiedOrCopying, Emitted, Wrappers, Copied, Matching
<1>4. Sourced'
  BY DEF Sourced, Wrappers, Copied
<1>5. NewOrLeft'
  BY DEF NewOrLeft, Compiled, Wrappers, Emptied, Matching
<1>6. Finished'
  BY DEF Finished, WrappersEnded, Running
<1>. QED
  BY <1>1, <1>2, <1>3, <1>4, <1>5, <1>6 DEF Rest

LEMMA FailRustcKeeps ==
  ASSUME IInv, NEW u \in Units, FailRustc(u)
  PROVE  Rest'
<1>. USE RunContents, CrateAssumption, HostAssumption DEF FailRustc, IInv, NativeTypeOK
<1>1. Wrappers'
  BY DEF Wrappers, Matching
<1>2. Emitted'
  BY DEF Emitted, Wrappers
<1>3. CopiedOrCopying'
  BY DEF CopiedOrCopying, Emitted, Wrappers, Copied, Matching
<1>4. Sourced'
  BY DEF Sourced, Wrappers, Copied
<1>5. NewOrLeft'
  BY DEF NewOrLeft, Compiled, Wrappers, Emptied, Matching
<1>6. Finished'
  BY DEF Finished, WrappersEnded, Running
<1>. QED
  BY <1>1, <1>2, <1>3, <1>4, <1>5, <1>6 DEF Rest

LEMMA GlobKeeps ==
  ASSUME IInv, NEW u \in Units, Glob(u)
  PROVE  Rest'
<1>. USE RunContents, CrateAssumption, HostAssumption DEF Glob, IInv, NativeTypeOK
<1>1. Wrappers'
  BY DEF Wrappers, Matching
<1>2. Emitted'
  BY DEF Emitted, Wrappers
<1>3. CopiedOrCopying'
  BY DEF CopiedOrCopying, Emitted, Wrappers, Copied, Matching
<1>4. Sourced'
  BY DEF Sourced, Wrappers, Copied
<1>5. NewOrLeft'
  BY DEF NewOrLeft, Compiled, Wrappers, Emptied, Matching
<1>6. Finished'
  BY DEF Finished, WrappersEnded, Running
<1>. QED
  BY <1>1, <1>2, <1>3, <1>4, <1>5, <1>6 DEF Rest

LEMMA CopyKeeps ==
  ASSUME IInv, NEW u \in Units, Copy(u)
  PROVE  Rest'
<1>. USE RunContents, CrateAssumption, HostAssumption DEF Copy, IInv, NativeTypeOK
<1>1. Wrappers'
  BY DEF Wrappers, Matching
<1>2. Emitted'
  BY DEF Emitted, Wrappers
<1>3. CopiedOrCopying'
  <2>1. SUFFICES ASSUME ~failed, NEW x \in Units \ HostOnly, proc[x] \in {"copying", "exited"}
                 PROVE  \/ x \in uncopied' \/ collect'[x] = run
                        \/ x \in files'[x] \/ \E w \in Units : x \in open'[w]
    BY DEF CopiedOrCopying
  <2>2. x \in uncopied \/ collect[x] = run \/ x \in files[x] \/ \E w \in Units : x \in open[w]
    BY <2>1 DEF CopiedOrCopying
  <2>3. deps[x] = run
    BY <2>1 DEF Emitted
  <2>4. ASSUME NEW v \in files[u], open' = [open EXCEPT ![u] = {v}],
               collect' = [collect EXCEPT ![v] = Partial], UNCHANGED files, open[u] = {}
        PROVE  \/ x \in uncopied \/ collect'[x] = run
               \/ x \in files'[x] \/ \E w \in Units : x \in open'[w]
    BY <2>2, <2>4
  <2>5. ASSUME NEW v \in open[u], open' = [open EXCEPT ![u] = {}],
               files' = [files EXCEPT ![u] = @ \ {v}], collect' = [collect EXCEPT ![v] = Copied(v)]
        PROVE  \/ x \in uncopied \/ collect'[x] = run
               \/ x \in files'[x] \/ \E w \in Units : x \in open'[w]
    <3>1. CASE v = x
      BY <2>3, <2>5, <3>1 DEF Copied
    <3>2. CASE v # x
      BY <2>2, <2>5, <3>2 DEF Copied, Wrappers
    <3>. QED BY <3>1, <3>2
  <2>. QED
    BY <2>4, <2>5
<1>4. Sourced'
  BY DEF Sourced, Wrappers, Copied
<1>5. NewOrLeft'
  BY DEF NewOrLeft, Compiled, Wrappers, Emptied, Matching
<1>6. Finished'
  BY DEF Finished, WrappersEnded, Running
<1>. QED
  BY <1>1, <1>2, <1>3, <1>4, <1>5, <1>6 DEF Rest

LEMMA FailCopyKeeps ==
  ASSUME IInv, NEW u \in Units, FailCopy(u)
  PROVE  Rest'
<1>. USE RunContents, CrateAssumption, HostAssumption DEF FailCopy, IInv, NativeTypeOK
<1>0. PICK v \in files[u] :
        /\ open[u] \subseteq {v}
        /\ \E rest \in {collect[v], IF open[u] = {} THEN Absent ELSE Partial} :
             collect' = [collect EXCEPT ![v] = rest]
        /\ files' = [files EXCEPT ![u] = files[u] \ {v}]
        /\ uncopied' = uncopied \cup {v}
  OBVIOUS
<1>1. Wrappers'
  BY <1>0 DEF Wrappers
<1>2. Emitted'
  BY DEF Emitted, Wrappers
<1>3. CopiedOrCopying'
  <2>1. SUFFICES ASSUME ~failed, NEW x \in Units \ HostOnly,
                        proc[x] \in {"copying", "exited"}, x # v
                 PROVE  \/ x \in uncopied \/ collect'[x] = run
                        \/ x \in files'[x] \/ \E w \in Units : x \in open'[w]
    BY <1>0 DEF CopiedOrCopying
  <2>2. \/ x \in uncopied \/ collect[x] = run
        \/ x \in files[x] \/ \E w \in Units : x \in open[w]
    BY <2>1 DEF CopiedOrCopying
  <2>. QED
    BY <1>0, <2>1, <2>2
<1>4. Sourced'
  BY <1>0 DEF Sourced, Wrappers
<1>5. NewOrLeft'
  BY <1>0 DEF NewOrLeft, Compiled, Wrappers
<1>6. Finished'
  BY DEF Finished, WrappersEnded, Running
<1>. QED
  BY <1>1, <1>2, <1>3, <1>4, <1>5, <1>6 DEF Rest

LEMMA ExitKeeps ==
  ASSUME IInv, NEW u \in Units, Exit(u)
  PROVE  Rest'
<1>. USE RunContents, CrateAssumption, HostAssumption DEF Exit, IInv, NativeTypeOK
<1>1. Wrappers'
  BY DEF Wrappers, Matching
<1>2. Emitted'
  BY DEF Emitted, Wrappers
<1>3. CopiedOrCopying'
  BY DEF CopiedOrCopying, Emitted, Wrappers, Copied, Matching
<1>4. Sourced'
  BY DEF Sourced, Wrappers, Copied
<1>5. NewOrLeft'
  BY DEF NewOrLeft, Compiled, Wrappers, Emptied, Matching
<1>6. Finished'
  BY DEF Finished, WrappersEnded, Running
<1>. QED
  BY <1>1, <1>2, <1>3, <1>4, <1>5, <1>6 DEF Rest

LEMMA ReturnKeeps ==
  ASSUME IInv, ReturnNative
  PROVE  Rest'
<1>. USE RunContents, CrateAssumption, HostAssumption DEF ReturnNative, IInv, NativeTypeOK
<1>1. Wrappers'
  BY DEF Wrappers, WrappersEnded
<1>2. Emitted'
  BY DEF Emitted, Wrappers
<1>3. CopiedOrCopying'
  BY DEF CopiedOrCopying, Emitted, Wrappers, Copied, Matching
<1>4. Sourced'
  BY DEF Sourced, Wrappers, Copied
<1>5. NewOrLeft'
  BY DEF NewOrLeft, Compiled, Wrappers, Emptied, Matching
<1>6. Finished'
  BY DEF Finished, WrappersEnded, Running
<1>. QED
  BY <1>1, <1>2, <1>3, <1>4, <1>5, <1>6 DEF Rest

LEMMA KillKeeps ==
  ASSUME IInv, Kill
  PROVE  Rest'
<1>. USE RunContents, CrateAssumption, HostAssumption DEF Kill, IInv, NativeTypeOK
<1>1. Wrappers'
  BY DEF Wrappers, Matching
<1>2. Emitted'
  BY DEF Emitted, Wrappers
<1>3. CopiedOrCopying'
  BY DEF CopiedOrCopying, Emitted, Wrappers, Copied, Matching
<1>4. Sourced'
  BY DEF Sourced, Wrappers, Copied
<1>5. NewOrLeft'
  BY DEF NewOrLeft, Compiled, Wrappers, Emptied, Matching
<1>6. Finished'
  BY DEF Finished, WrappersEnded, Running
<1>. QED
  BY <1>1, <1>2, <1>3, <1>4, <1>5, <1>6 DEF Rest

LEMMA StepInv ==
  ASSUME IInv, [NativeNext]_nativeVars
  PROVE  IInv'
<1>1. NativeTypeOK'
  BY TypeStep DEF IInv
<1>2. CASE UNCHANGED nativeVars
  BY <1>1, <1>2
     DEF nativeVars, IInv, Wrappers, Emitted, CopiedOrCopying, Sourced, NewOrLeft,
        Finished,
         Compiled, Running
<1>3. CASE NativeNext
  BY <1>1, <1>3, StartRunKeeps, StartRustcKeeps, WriteBitcodeKeeps, FailRustcKeeps,
     GlobKeeps,
     CopyKeeps, FailCopyKeeps, ExitKeeps, ReturnKeeps, KillKeeps DEF NativeNext, IInv, Rest
<1>. QED
  BY <1>2, <1>3

LEMMA Invariance == NativeSpec => []IInv
<1>1. IInv /\ [NativeNext]_nativeVars => IInv'
  BY StepInv
<1>. QED
  BY <1>1, InitInv, PTL DEF NativeSpec

(* When the build has ended every wrapper has, and none copies any more.   *)
LEMMA AllCopied ==
  ASSUME IInv, state = "collected"
  PROVE  /\ \A u \in Library(Compiled) \ uncopied : collect[u] = run
         /\ \A v \in Collected : \E u \in Library(Compiled) : Crate[u] = Crate[v]
<1>1. Running = {} /\ ~failed
  BY DEF IInv, Finished
<1>2. \A u \in Units : proc[u] # "copying" /\ files[u] = {} /\ open[u] = {}
  BY <1>1 DEF Running, IInv, Wrappers, NativeTypeOK
<1>. QED
  BY <1>1, <1>2 DEF IInv, CopiedOrCopying, Sourced, Library, Compiled, Collected

(* However the wrappers of crates of one name overlap, and whatever        *)
(* earlier runs have left, the units compiled in a run are collected whole *)
(* but for those of which a cp failed, and nothing is collected without a  *)
(* unit of its crate.                                                      *)
THEOREM CompiledIsCollected == NativeSpec => []NativeInv
<1>1. IInv => NativeInv
  BY AllCopied DEF IInv, NativeInv, OwnBitcodeWhole
<1>. QED
  BY <1>1, Invariance, PTL

(* A glob for the name of a library finds build scripts and proc-macros of *)
(* the same name, if there are any.                                        *)
NamesApart == \A u \in HostOnly : \A v \in Units \ HostOnly : Crate[u] # Crate[v]

(* Where no build script or proc-macro has the name of a library, a run    *)
(* collects, of the units of which its clean has left nothing behind and   *)
(* no cp failed, the libraries of the plan, whole, and nothing else.       *)
THEOREM CleanIsComplete ==
  ASSUME NamesApart
  PROVE  NativeSpec => []CleanRunIsComplete
<1>1. IInv => CleanRunIsComplete
  <2>1. SUFFICES ASSUME IInv, state = "collected", NEW u \in Units \ (left \cup uncopied)
                 PROVE  collect[u] = IF u \in Library(plan) THEN run ELSE Absent
    BY DEF CleanRunIsComplete
  <2>2. u \in plan => u \in Compiled
    BY <2>1 DEF IInv, Finished, NewOrLeft
  <2>3. CASE u \in Library(plan)
    BY <2>1, <2>2, <2>3, AllCopied DEF Library
  <2>4. CASE u \notin Library(plan)
    <3>1. CASE u \in HostOnly
      BY <2>1, <3>1, AllCopied DEF Library, Compiled, NamesApart, Collected
    <3>2. CASE u \notin HostOnly
      BY <2>1, <2>4, <3>2 DEF Library, IInv, NewOrLeft
    <3>. QED
      BY <2>4, <3>1, <3>2
  <2>. QED
    BY <2>3, <2>4
<1>. QED
  BY <1>1, Invariance, PTL


-----------------------------------------------------------------------------
(***************************************************************************)
(* The other way of acquisition: the inductive invariant of RustArtifacts. *)
(***************************************************************************)

(* cargo has reported what is done, if it reports at all.                  *)
Reported == messages = IF stream THEN done ELSE {}

(* What cargo takes as up to date or finished has files.                   *)
HasFiles == \A u \in fresh \cup built \cup done \cup compiled : there[u] # {}

(* The files of each hash have a time of their own, those this run has     *)
(* compiled the latest.                                                    *)
Ordered ==
  /\ \A u \in Units : mtime[u] <= clock
  /\ \A u, v \in Units : mtime[u] = mtime[v] /\ mtime[u] # 0 => u = v
  /\ \A u \in compiled : \A v \in Units \ compiled : mtime[v] < mtime[u]

(* What this run has compiled was finished, or its link failed.            *)
Ended == compiled \subseteq done \cup noLink

(* What a unit needs was finished when it was compiled.                    *)
NeededFirst ==
  \A u \in compiled : \A v \in Needs[u] \cap plan : v \in done /\ mtime[v] < mtime[u]

ArtifactInv ==
  /\ TypeOK
  /\ Reported /\ HasFiles /\ Ordered /\ Ended /\ NeededFirst
  /\ FallbackIsCurrent /\ CompileFailureIsFatal

-----------------------------------------------------------------------------
(* Of some units there is always one with the latest time.                 *)
LEMMA LatestExists ==
  ASSUME NEW U, NEW time \in [U -> Nat], NEW n \in Nat, \A u \in U : time[u] <= n,
         NEW S \in SUBSET U, S # {}
  PROVE  \E v \in S : \A w \in S : time[w] <= time[v]
<1>. DEFINE T == {n - time[v] : v \in S}
            Less == {p \in Nat \X Nat : p[1] < p[2]}
<1>1. T \subseteq Nat /\ T # {}
  OBVIOUS
<1>2. IsWellFoundedOn(Less, Nat)
  BY NatLessThanWellFounded DEF OpToRel
<1>3. \E x \in T : \A y \in T : <<y, x>> \notin Less
  <2>. HIDE DEF T, Less
  <2>. QED BY <1>1, <1>2, WFMin
<1>4. PICK v \in S : \A y \in T : <<y, n - time[v]>> \notin Less
  BY <1>3
<1>5. ASSUME NEW w \in S
      PROVE  time[w] <= time[v]
  <2>1. n - time[w] \in Nat /\ n - time[v] \in Nat
    OBVIOUS
  <2>2. ~ (n - time[w] < n - time[v])
    BY <1>4, <2>1
  <2>. QED
    BY <2>2
<1>. QED
  BY <1>5

(* What a compilation that ends does to the files.                         *)
LEMMA Emitting ==
  ASSUME ArtifactInv,
         NEW u \in plan, Emit(u)
  PROVE  /\ u \in Units
         /\ clock' = clock + 1 /\ clock' \in Nat
         /\ mtime' \in [Units -> Nat] /\ mtime'[u] = clock + 1
         /\ there' \in [Units -> SUBSET Parts]
         /\ last' \in [Units -> SUBSET Parts]
         /\ \A v \in Units \ {u} :
              mtime'[v] = mtime[v] /\ there'[v] = there[v] /\ last'[v] = last[v]
         /\ there[u] \subseteq there'[u] /\ last'[u] \subseteq there'[u] /\ last'[u] # {}
         /\ compiled' = compiled \cup {u}
<1>1. PICK P \in {{Whole}} \cup Splits :
        /\ there' = [there EXCEPT ![u] = @ \cup P]
        /\ last' = [last EXCEPT ![u] = P]
  BY DEF Emit
<1>2. P # {} /\ P \subseteq Parts
  BY <1>1, UnitAssumption, CrateAssumption DEF Parts
<1>3. /\ u \in Units /\ compiled' = compiled \cup {u} /\ clock' = clock + 1 /\ clock' \in Nat
      /\ mtime' = [mtime EXCEPT ![u] = clock + 1] /\ mtime \in [Units -> Nat] /\ clock + 1 \in Nat
  BY DEF Emit, ArtifactInv, TypeOK
<1>4. /\ mtime' \in [Units -> Nat] /\ mtime'[u] = clock + 1
      /\ \A v \in Units \ {u} : mtime'[v] = mtime[v]
  BY <1>3
<1>5. /\ there' \in [Units -> SUBSET Parts]
      /\ last' \in [Units -> SUBSET Parts]
      /\ \A v \in Units \ {u} : there'[v] = there[v] /\ last'[v] = last[v]
      /\ there'[u] = there[u] \cup P /\ last'[u] = P
  BY <1>1, <1>2, <1>3 DEF ArtifactInv, TypeOK
<1>. QED
  BY <1>2, <1>3, <1>4, <1>5

LEMMA EmitTypes ==
  ASSUME ArtifactInv, NEW u \in Units, Ready(u),
         u \notin fresh, Emit(u),
         UNCHANGED <<run, state, plan, fresh, stream, several, noCompile, collected>>,
         built' \subseteq built \cup {u},
         \/ /\ done' = done \cup {u} /\ noLink' = noLink
            /\ messages' \subseteq messages \cup {u}
         \/ /\ done' = done /\ messages' = messages /\ noLink' = noLink \cup {u}
  PROVE  TypeOK'
<1>1. u \in plan /\ u \notin done /\ u \notin noCompile /\ u \notin noLink
  BY DEF Ready
<1>2. /\ clock' \in Nat /\ mtime' \in [Units -> Nat]
      /\ there' \in [Units -> SUBSET Parts]
      /\ last' \in [Units -> SUBSET Parts]
      /\ compiled' = compiled \cup {u}
  BY <1>1, Emitting
<1>3. \A v \in Units : /\ last'[v] \subseteq there'[v] /\ there[v] \subseteq there'[v]
                       /\ there'[v] = {} <=> mtime'[v] = 0
  <2>1. /\ clock \in Nat /\ mtime'[u] = clock + 1 /\ last'[u] \subseteq there'[u]
        /\ last'[u] # {} /\ there[u] \subseteq there'[u]
        /\ \A v \in Units \ {u} :
             mtime'[v] = mtime[v] /\ there'[v] = there[v] /\ last'[v] = last[v]
    BY <1>1, Emitting DEF ArtifactInv, TypeOK
  <2>2. \A v \in Units : last[v] \subseteq there[v] /\ (there[v] = {} <=> mtime[v] = 0)
    BY DEF ArtifactInv, TypeOK
  <2>. QED
    BY <2>1, <2>2
<1>4. collected' \subseteq UNION {{v} \X there'[v] : v \in Units}
  BY <1>3 DEF ArtifactInv, TypeOK
<1>5. /\ compiled' \subseteq plan' \ fresh' /\ done' \subseteq plan' /\ messages' \subseteq done'
      /\ noCompile' \subseteq plan' \ done' /\ noLink' \subseteq compiled' \ done'
  BY <1>1, <1>2 DEF ArtifactInv, TypeOK
<1>6. (Parts)' = Parts
  BY DEF Parts
<1>. QED
  BY <1>2, <1>3, <1>4, <1>5 DEF ArtifactInv, TypeOK

-----------------------------------------------------------------------------
(***************************************************************************)
(* It holds at first, and every step keeps it.                             *)
(***************************************************************************)
LEMMA ArtifactsAtFirst ==
  ASSUME Init
  PROVE  ArtifactInv
<1>1. TypeOK
  <2>1. 0 \in 0 .. MaxRuns
    BY UnitAssumption, CrateAssumption
  <2>2. /\ mtime \in [Units -> Nat] /\ there \in [Units -> SUBSET Parts]
        /\ last \in [Units -> SUBSET Parts]
        /\ \A u \in Units : last[u] \subseteq there[u] /\ (there[u] = {} <=> mtime[u] = 0)
    BY DEF Init
  <2>. QED
    BY <2>1, <2>2 DEF Init, TypeOK
<1>2. Reported /\ HasFiles /\ Ordered /\ Ended /\ NeededFirst
  BY DEF Init, Reported, HasFiles, Ordered, Ended, NeededFirst
<1>3. FallbackIsCurrent /\ CompileFailureIsFatal
  BY DEF Init, FallbackIsCurrent, Succeeded,
     CompileFailureIsFatal
<1>. QED
  BY <1>1, <1>2, <1>3 DEF ArtifactInv

LEMMA NextBuildKeeps ==
  ASSUME ArtifactInv, StartRun
  PROVE  ArtifactInv'
<1>1. \/ /\ mtime' = [u \in Units |-> 0] /\ built' = {}
         /\ there' = [u \in Units |-> {}] /\ last' = [u \in Units |-> {}]
      \/ UNCHANGED <<mtime, there, last, built>>
  BY DEF StartRun, Clean
<1>2. /\ run' \in 0 .. MaxRuns /\ state' = "building" /\ plan' \subseteq Units
      /\ fresh' \subseteq built' \cap plan' /\ stream' \in BOOLEAN
      /\ compiled' = {} /\ done' = {} /\ messages' = {} /\ collected' = {}
      /\ noCompile' = {} /\ noLink' = {} /\ clock' = clock
  BY UnitAssumption, CrateAssumption DEF StartRun, ArtifactInv, TypeOK
<1>3. several' \in BOOLEAN
  BY DEF StartRun
<1>4. TypeOK'
  <2>1. mtime \in [Units -> Nat] /\ there \in [Units -> SUBSET Parts]
    BY DEF ArtifactInv, TypeOK
  <2>. QED
    BY <1>1, <1>2, <1>3, <2>1 DEF ArtifactInv, TypeOK, Parts
<1>5. (Reported /\ Ended /\ NeededFirst)'
  BY <1>2 DEF Reported, Ended, NeededFirst
<1>6. HasFiles'
  BY <1>1, <1>2 DEF ArtifactInv, HasFiles
<1>7. Ordered'
  BY <1>1, <1>2 DEF ArtifactInv, Ordered, TypeOK
<1>8. (FallbackIsCurrent /\ CompileFailureIsFatal)'
  BY <1>2 DEF FallbackIsCurrent, CompileFailureIsFatal,
     Succeeded
<1>. QED
  BY <1>4, <1>5, <1>6, <1>7, <1>8 DEF ArtifactInv

LEMMA ReuseKeeps ==
  ASSUME ArtifactInv, NEW u \in Units, Reuse(u)
  PROVE  ArtifactInv'
<1>1. /\ state = "building" /\ u \in plan \ (done \cup noCompile \cup noLink) /\ u \in fresh
      /\ done' = done \cup {u}
      /\ messages' = IF stream THEN messages \cup {u} ELSE messages
      /\ UNCHANGED <<run, state, plan, fresh, stream, several, mtime, clock, there, last,
                     built, compiled, noCompile, noLink, collected>>
  BY DEF Reuse, Ready, Report, build,
     written,
     failures
<1>2. TypeOK'
  BY <1>1 DEF ArtifactInv, TypeOK, Parts
<1>3. (Reported /\ HasFiles /\ Ordered /\ Ended /\ NeededFirst)'
  BY <1>1 DEF ArtifactInv, Reported, HasFiles, Ordered, Ended, NeededFirst
<1>4. (FallbackIsCurrent /\ CompileFailureIsFatal)'
  BY <1>1 DEF FallbackIsCurrent, CompileFailureIsFatal,
     Succeeded
<1>. QED
  BY <1>2, <1>3, <1>4 DEF ArtifactInv

(* A unit that is compiled is new among those this run has written, and    *)
(* what it needs is finished.                                              *)
LEMMA EmitKeeps ==
  ASSUME ArtifactInv, NEW u \in Units, Ready(u),
         Emit(u), UNCHANGED <<plan, fresh>>, done' \in {done, done \cup {u}},
         built' \subseteq built \cup {u}
  PROVE  (HasFiles /\ Ordered /\ NeededFirst)'
<1>1. /\ u \in plan /\ u \notin done /\ u \notin compiled
      /\ Needs[u] \cap plan \subseteq done /\ plan \subseteq Units /\ compiled \subseteq Units
  BY DEF ArtifactInv, Ended, Ready, TypeOK
<1>2. /\ clock \in Nat /\ clock' = clock + 1
      /\ mtime \in [Units -> Nat] /\ mtime'[u] = clock + 1
      /\ \A v \in Units \ {u} : mtime'[v] = mtime[v] /\ there'[v] = there[v]
      /\ there'[u] # {} /\ compiled' = compiled \cup {u}
  BY <1>1, Emitting DEF ArtifactInv, TypeOK
<1>3. HasFiles'
  <2>1. \A v \in fresh \cup built \cup done \cup compiled : v \in Units /\ there[v] # {}
    BY DEF ArtifactInv, HasFiles, TypeOK
  <2>2. fresh' \cup built' \cup done' \cup compiled'
          \subseteq (fresh \cup built \cup done \cup compiled) \cup {u}
    BY <1>2
  <2>. QED
    BY <1>2, <2>1, <2>2 DEF HasFiles
<1>4. Ordered'
  <2>1. \A v \in Units \ {u} : mtime'[v] \in Nat /\ mtime'[v] <= clock
    BY <1>2 DEF ArtifactInv, Ordered
  <2>2. \A v \in Units : mtime'[v] <= clock'
    BY <1>2, <2>1
  <2>3. \A v, w \in Units : mtime'[v] = mtime'[w] /\ mtime'[v] # 0 => v = w
    BY <1>2, <2>1 DEF ArtifactInv, Ordered
  <2>4. \A v \in compiled' : \A w \in Units \ compiled' : mtime'[w] < mtime'[v]
    BY <1>1, <1>2, <2>1 DEF ArtifactInv, Ordered
  <2>. QED
    BY <2>2, <2>3, <2>4 DEF Ordered
<1>5. NeededFirst'
  <2>1. \A v \in done : v # u /\ v \in done' /\ mtime'[v] = mtime[v] /\ mtime[v] <= clock
    BY <1>1, <1>2 DEF ArtifactInv, Ordered, TypeOK
  <2>2. \A v \in compiled : v # u /\ mtime'[v] = mtime[v]
    BY <1>1, <1>2
  <2>3. \A w \in Needs[u] \cap plan : w \in done' /\ mtime'[w] < mtime'[u]
    BY <1>1, <1>2, <2>1
  <2>. QED
    BY <1>2, <2>1, <2>2, <2>3 DEF ArtifactInv, NeededFirst
<1>. QED
  BY <1>3, <1>4, <1>5

LEMMA CompileKeeps ==
  ASSUME ArtifactInv, NEW u \in Units, Compile(u)
  PROVE  ArtifactInv'
<1>1. /\ state = "building" /\ u \in plan \ (done \cup noCompile \cup noLink) /\ u \notin fresh
      /\ done' = done \cup {u} /\ built' \subseteq built \cup {u}
      /\ messages' = IF stream THEN messages \cup {u} ELSE messages
      /\ UNCHANGED <<run, state, plan, fresh, stream, several, noCompile, noLink, collected>>
  BY DEF Compile, Ready, Report, build,
     failures
<1>2. Ready(u) /\ Emit(u)
  BY DEF Compile
<1>3. (HasFiles /\ Ordered /\ NeededFirst)'
  BY <1>1, <1>2, EmitKeeps
<1>4. (Reported /\ Ended)'
  BY <1>1, <1>2, Emitting DEF ArtifactInv, Reported, Ended
<1>5. TypeOK'
  BY <1>1, <1>2, EmitTypes
<1>6. (FallbackIsCurrent /\ CompileFailureIsFatal)'
  BY <1>1 DEF FallbackIsCurrent, CompileFailureIsFatal,
     Succeeded
<1>. QED
  BY <1>3, <1>4, <1>5, <1>6 DEF ArtifactInv

LEMMA FailLinkKeeps ==
  ASSUME ArtifactInv, NEW u \in Units, FailLink(u)
  PROVE  ArtifactInv'
<1>1. /\ state = "building" /\ u \in plan \ (done \cup noCompile \cup noLink) /\ u \notin fresh
      /\ noLink' = noLink \cup {u} /\ built' \subseteq built \cup {u}
      /\ UNCHANGED <<run, state, plan, fresh, stream, several, done, messages, noCompile,
                     collected>>
  BY DEF FailLink, Ready, build
<1>2. Ready(u) /\ Emit(u)
  BY DEF FailLink
<1>3. (HasFiles /\ Ordered /\ NeededFirst)'
  BY <1>1, <1>2, EmitKeeps
<1>4. (Reported /\ Ended)'
  BY <1>1, <1>2, Emitting DEF ArtifactInv, Reported, Ended
<1>5. TypeOK'
  BY <1>1, <1>2, EmitTypes
<1>6. (FallbackIsCurrent /\ CompileFailureIsFatal)'
  BY <1>1 DEF FallbackIsCurrent, CompileFailureIsFatal,
     Succeeded
<1>. QED
  BY <1>3, <1>4, <1>5, <1>6 DEF ArtifactInv

LEMMA FailCompileKeeps ==
  ASSUME ArtifactInv, NEW u \in Units, FailCompile(u)
  PROVE  ArtifactInv'
<1>1. /\ state = "building" /\ u \in plan \ (done \cup noCompile \cup noLink)
      /\ built' \subseteq built /\ noCompile' = noCompile \cup {u}
      /\ UNCHANGED <<run, state, plan, fresh, stream, several, mtime, clock, there, last,
                     compiled, done, messages, noLink, collected>>
  BY DEF FailCompile, Ready, build, written
<1>2. TypeOK'
  BY <1>1 DEF ArtifactInv, TypeOK, Parts
<1>3. (Reported /\ HasFiles /\ Ordered /\ Ended /\ NeededFirst)'
  BY <1>1 DEF ArtifactInv, Reported, HasFiles, Ordered, Ended, NeededFirst
<1>4. (FallbackIsCurrent /\ CompileFailureIsFatal)'
  BY <1>1 DEF FallbackIsCurrent, CompileFailureIsFatal,
     Succeeded
<1>. QED
  BY <1>2, <1>3, <1>4 DEF ArtifactInv

(* Among the files of one crate the newest are those of one unit, and of a *)
(* unit this run has compiled if there is one.                             *)
LEMMA NewestOfCrate ==
  ASSUME ArtifactInv, NEW u \in WithFiles
  PROVE  /\ \E v : Newest(SameCrate(u)) = {v}
         /\ Newest(SameCrate(u)) \subseteq SameCrate(u)
         /\ u \in compiled => Newest(SameCrate(u)) \subseteq compiled
<1>. DEFINE S == SameCrate(u)
<1>1. S \subseteq Units /\ u \in S
  BY DEF SameCrate, WithFiles
<1>2. mtime \in [Units -> Nat] /\ clock \in Nat /\ \A v \in Units : mtime[v] <= clock
  BY DEF ArtifactInv, Ordered, TypeOK
<1>3. PICK v \in S : \A w \in S : mtime[w] <= mtime[v]
  BY <1>1, <1>2, LatestExists
<1>4. ASSUME NEW w \in S, w # v
      PROVE  mtime[w] < mtime[v]
  <2>1. w \in Units /\ v \in Units /\ there[w] # {}
    BY <1>1 DEF SameCrate, WithFiles
  <2>2. mtime[w] = mtime[v] => mtime[w] = 0
    BY <1>4, <2>1 DEF ArtifactInv, Ordered
  <2>3. mtime[w] # 0 /\ mtime[w] \in Nat /\ mtime[v] \in Nat /\ mtime[w] <= mtime[v]
    BY <1>2, <1>3, <2>1 DEF ArtifactInv, TypeOK
  <2>. QED
    BY <2>2, <2>3
<1>5. Newest(S) = {v}
  BY <1>1, <1>2, <1>3, <1>4 DEF Newest
<1>6. u \in compiled => v \in compiled
  BY <1>1, <1>2, <1>3 DEF ArtifactInv, Ordered
<1>. QED
  BY <1>1, <1>3, <1>5, <1>6

(* Every file a unit has is taken when its hash is.                        *)
LEMMA Returning ==
  ASSUME ArtifactInv, Return, state' = "collected"
  PROVE  /\ noCompile = {}
         /\ noLink = {} => done = plan
         /\ Chosen # {} /\ collected' = FilesOf(Chosen)
         /\ UNCHANGED <<run, plan, fresh, stream, several, mtime, clock, there, last,
                        built, compiled, done, messages, noCompile, noLink>>
BY DEF Return, BuildEnded, Fatal, build,
   written,
   failures

LEMMA ReturnFallsBack ==
  ASSUME ArtifactInv, Return
  PROVE  FallbackIsCurrent'
<1>1. SUFFICES ASSUME state' = "collected", noLink' = {}, ~stream'
               PROVE  FallbackIsCurrent'
  BY DEF FallbackIsCurrent, Succeeded
<1>2. /\ noLink = {} /\ ~stream /\ collected' = FilesOf(Chosen)
      /\ UNCHANGED <<there, last, compiled>>
  BY <1>1, Returning
<1>3. Chosen = DedupNewestPerCrate
  BY <1>2 DEF ArtifactInv, Reported, BuildBcPaths, Chosen
<1>4. ASSUME NEW x \in collected', NEW y \in collected', Crate[x[1]] = Crate[y[1]]
      PROVE  x[1] = y[1]
  <2>1. PICK u \in WithFiles : x[1] \in Newest(SameCrate(u))
    BY <1>2, <1>3 DEF FilesOf, DedupNewestPerCrate
  <2>2. PICK v \in WithFiles : y[1] \in Newest(SameCrate(v))
    BY <1>2, <1>3 DEF FilesOf, DedupNewestPerCrate
  <2>3. Crate[u] = Crate[x[1]] /\ Crate[v] = Crate[y[1]]
    BY <2>1, <2>2 DEF Newest, SameCrate
  <2>4. SameCrate(u) = SameCrate(v)
    BY <1>4, <2>3 DEF SameCrate
  <2>. QED
    BY <2>1, <2>2, <2>4, NewestOfCrate
<1>5. ASSUME NEW u \in compiled
      PROVE  \E v \in compiled : /\ Crate[u] = Crate[v]
                                 /\ LastWritten({v})' \subseteq collected'
  <2>1. u \in WithFiles
    BY DEF ArtifactInv, HasFiles, WithFiles, TypeOK
  <2>2. PICK v : /\ Newest(SameCrate(u)) = {v}
                 /\ v \in SameCrate(u) /\ v \in compiled
    BY <2>1, NewestOfCrate
  <2>3. v \in Chosen /\ Crate[u] = Crate[v] /\ v \in Units
    BY <1>3, <2>1, <2>2 DEF DedupNewestPerCrate, SameCrate,
       WithFiles
  <2>4. {v} \X last[v] \subseteq collected'
    BY <1>2, <2>3 DEF ArtifactInv, TypeOK, FilesOf
  <2>. QED
    BY <1>2, <2>2, <2>3, <2>4 DEF LastWritten
<1>. QED
  BY <1>2, <1>4, <1>5 DEF FallbackIsCurrent

LEMMA BuildReturnKeeps ==
  ASSUME ArtifactInv, Return
  PROVE  ArtifactInv'
<1>1. /\ state' \in {"error", "collected"} /\ collected' \subseteq UNION {{u} \X there[u] : u \in Units}
      /\ UNCHANGED <<run, plan, fresh, stream, several, mtime, clock, there, last,
                     built, compiled, done, messages, noCompile, noLink>>
  <2>1. Chosen \subseteq Units
    BY DEF Chosen, BuildBcPaths, DedupNewestPerCrate,
       NamedBcPaths, HashFiles, Newest, SameCrate,
       WithFiles
  <2>2. \/ state' = "error" /\ UNCHANGED collected
        \/ state' = "collected" /\ collected' = FilesOf(Chosen)
    BY DEF Return
  <2>3. FilesOf(Chosen) \subseteq UNION {{u} \X there[u] : u \in Units}
    BY <2>1 DEF FilesOf
  <2>4. collected \subseteq UNION {{u} \X there[u] : u \in Units}
    BY DEF ArtifactInv, TypeOK
  <2>5. UNCHANGED <<run, plan, fresh, stream, several, mtime, clock, there, last,
                    built, compiled, done, messages, noCompile, noLink>>
    BY DEF Return, build, written, failures
  <2>. QED
    BY <2>2, <2>3, <2>4, <2>5
<1>2. TypeOK'
  BY <1>1 DEF ArtifactInv, TypeOK, Parts
<1>3. (Reported /\ HasFiles /\ Ordered /\ Ended /\ NeededFirst)'
  BY <1>1 DEF ArtifactInv, Reported, HasFiles, Ordered, Ended, NeededFirst
<1>4. CompileFailureIsFatal'
  BY Returning DEF CompileFailureIsFatal
<1>. QED
  BY <1>2, <1>3, <1>4, ReturnFallsBack DEF ArtifactInv

LEMMA AbortKeeps ==
  ASSUME ArtifactInv, Abort
  PROVE  ArtifactInv'
<1>1. /\ state' = "error"
      /\ UNCHANGED <<run, plan, fresh, stream, several, mtime, clock, there, last,
                     built, compiled, done, messages, noCompile, noLink, collected>>
  BY DEF Abort, build, written, failures
<1>2. TypeOK'
  BY <1>1 DEF ArtifactInv, TypeOK, Parts
<1>3. (Reported /\ HasFiles /\ Ordered /\ Ended /\ NeededFirst)'
  BY <1>1 DEF ArtifactInv, Reported, HasFiles, Ordered, Ended, NeededFirst
<1>4. (FallbackIsCurrent /\ CompileFailureIsFatal)'
  BY <1>1 DEF FallbackIsCurrent, CompileFailureIsFatal,
     Succeeded
<1>. QED
  BY <1>2, <1>3, <1>4 DEF ArtifactInv

LEMMA IdleKeeps ==
  ASSUME ArtifactInv, UNCHANGED vars
  PROVE  ArtifactInv'
<1>1. UNCHANGED <<run, state, plan, fresh, stream, several, mtime, clock, there, last,
                  built, compiled, done, messages, noCompile, noLink, collected>>
  BY DEF vars, build, written, failures
<1>2. TypeOK'
  BY <1>1 DEF ArtifactInv, TypeOK, Parts
<1>3. (Reported /\ HasFiles /\ Ordered /\ Ended /\ NeededFirst)'
  BY <1>1 DEF ArtifactInv, Reported, HasFiles, Ordered, Ended, NeededFirst
<1>4. (FallbackIsCurrent /\ CompileFailureIsFatal)'
  BY <1>1 DEF ArtifactInv, FallbackIsCurrent, CompileFailureIsFatal,
     Succeeded, LastWritten
<1>. QED
  BY <1>2, <1>3, <1>4 DEF ArtifactInv

LEMMA ArtifactsInvariant ==
  Spec => []ArtifactInv
<1>1. Init => ArtifactInv
  BY ArtifactsAtFirst
<1>2. ArtifactInv /\ [Next]_vars => ArtifactInv'
  <2>1. SUFFICES ASSUME ArtifactInv, [Next]_vars
                 PROVE  ArtifactInv'
    OBVIOUS
  <2>2. CASE StartRun
    BY <2>1, <2>2, NextBuildKeeps
  <2>3. CASE Return
    BY <2>1, <2>3, BuildReturnKeeps
  <2>4. CASE Abort
    BY <2>1, <2>4, AbortKeeps
  <2>5. ASSUME NEW u \in Units, Reuse(u)
        PROVE  ArtifactInv'
    BY <2>1, <2>5, ReuseKeeps
  <2>6. ASSUME NEW u \in Units, Compile(u)
        PROVE  ArtifactInv'
    BY <2>1, <2>6, CompileKeeps
  <2>7. ASSUME NEW u \in Units, FailLink(u)
        PROVE  ArtifactInv'
    BY <2>1, <2>7, FailLinkKeeps
  <2>8. ASSUME NEW u \in Units, FailCompile(u)
        PROVE  ArtifactInv'
    BY <2>1, <2>8, FailCompileKeeps
  <2>9. CASE UNCHANGED vars
    BY <2>1, <2>9, IdleKeeps
  <2>. QED
    BY <2>1, <2>2, <2>3, <2>4, <2>5, <2>6, <2>7, <2>8, <2>9 DEF Next
<1>. QED
  BY <1>1, <1>2, PTL DEF Spec

(* For any units, plans and settings: the fallback takes one unit of each  *)
(* crate, of a crate that was compiled one that was compiled just now, and *)
(* no file is returned when a crate did not compile.                       *)
THEOREM ArtifactsAreCurrent ==
  Spec => []Inv
<1>1. ArtifactInv => Inv
  BY DEF ArtifactInv, Inv
<1>. QED
  BY <1>1, ArtifactsInvariant, PTL

-----------------------------------------------------------------------------
(* The newest file with the name of a link product that was compiled is    *)
(* its own: what else has that name and was compiled in this run had to be *)
(* finished before.                                                        *)
LEMMA NewestIsOwn ==
  ASSUME ArtifactInv, LinkProductsApart, plan \in Plans,
         NEW u \in Named \cap compiled
  PROVE  NamedBcPaths(u) = {u}
<1>1. u \in WithFiles /\ u \in Units /\ compiled \subseteq plan
  BY DEF ArtifactInv, HasFiles, WithFiles, TypeOK
<1>2. PICK v : /\ Newest(SameCrate(u)) = {v}
               /\ v \in SameCrate(u) /\ v \in compiled
  BY <1>1, NewestOfCrate
<1>3. mtime[u] <= mtime[v]
  BY <1>1, <1>2 DEF Newest, SameCrate
<1>4. v # u => mtime[v] < mtime[u]
  BY <1>1, <1>2 DEF LinkProductsApart, ArtifactInv, NeededFirst,
     SameCrate
<1>5. mtime[u] \in Nat /\ mtime[v] \in Nat
  BY <1>1, <1>2 DEF ArtifactInv, TypeOK
<1>. QED
  BY <1>2, <1>3, <1>4, <1>5 DEF NamedBcPaths

LEMMA ReturnIsExact ==
  ASSUME ArtifactInv, LinkProductsApart, plan \in Plans,
         Return
  PROVE  RebuiltExact'
<1>1. SUFFICES ASSUME state' = "collected", noLink' = {}, stream'
               PROVE  RebuiltExact'
  BY DEF RebuiltExact, Succeeded
<1>2. /\ noLink = {} /\ stream /\ done = plan
      /\ collected' = FilesOf(Chosen)
      /\ UNCHANGED <<plan, there, last, compiled>>
  BY <1>1, Returning
<1>3. messages = plan /\ plan # {} /\ plan \subseteq Units
  BY <1>2, UnitAssumption, CrateAssumption DEF ArtifactInv, Reported, TypeOK
<1>4. \A u \in plan : u \in WithFiles
  BY <1>2, <1>3 DEF ArtifactInv, HasFiles, WithFiles
<1>5. \A u \in plan \ (Named \ compiled) : u \in BuildBcPaths
  <2>1. ASSUME NEW u \in plan, u \notin Named
        PROVE  u \in BuildBcPaths
    BY <1>3, <1>4, <2>1 DEF BuildBcPaths, HashFiles
  <2>2. ASSUME NEW u \in plan, u \in Named, u \in compiled
        PROVE  u \in BuildBcPaths
    BY <1>3, <2>2, NewestIsOwn DEF BuildBcPaths
  <2>. QED
    BY <2>1, <2>2
<1>6. ASSUME NEW u \in plan \ (Named \ compiled)
      PROVE  {u} \X last[u] \subseteq collected'
  <2>1. Chosen = BuildBcPaths
    BY <1>5 DEF Chosen
  <2>. QED
    BY <1>2, <1>3, <1>5, <2>1 DEF ArtifactInv, TypeOK, FilesOf
<1>7. ASSUME plan \cap Named \subseteq compiled
      PROVE  Chosen = plan
  <2>1. BuildBcPaths = plan
    <3>1. \A u \in plan \cap Named : NamedBcPaths(u) = {u}
      BY <1>7, NewestIsOwn
    <3>2. \A u \in plan \ Named : HashFiles(u) = {u}
      BY <1>4 DEF HashFiles
    <3>. QED
      BY <1>3, <3>1, <3>2 DEF BuildBcPaths
  <2>. QED
    BY <1>3, <2>1 DEF Chosen
<1>8. LastWritten(plan \ (Named \ compiled))' \subseteq collected'
  BY <1>2, <1>6 DEF LastWritten
<1>9. (FilesOf(plan) = FilesOf(plan)') /\ plan' = plan
  BY <1>2 DEF FilesOf
<1>. QED
  BY <1>2, <1>7, <1>8, <1>9 DEF RebuiltExact

(* With link products apart, a build that succeeds and whose messages are read *)
(* leaves out nothing but link products it did not compile; and if it      *)
(* compiled all of them, it takes exactly the files of its own units.      *)
THEOREM RebuiltIsExact ==
  ASSUME LinkProductsApart
  PROVE  Spec => []RebuiltExact
<1>. DEFINE Planned == state = "idle" \/ plan \in Plans
            Exact == Planned /\ RebuiltExact
<1>1. Init => Exact
  BY DEF Init, RebuiltExact, Succeeded
<1>2. ArtifactInv /\ Exact /\ [Next]_vars => Exact'
  <2>1. SUFFICES ASSUME ArtifactInv, Exact, [Next]_vars
                 PROVE  Exact'
    OBVIOUS
  <2>2. CASE StartRun
    BY <2>2 DEF StartRun, RebuiltExact, Succeeded
  <2>3. CASE Return
    <3>1. plan \in Plans /\ plan' = plan
      BY <2>1, <2>3 DEF Return, BuildEnded, build
    <3>. QED
      BY <2>1, <2>3, <3>1, ReturnIsExact
  <2>4. CASE Abort \/ \E u \in Units : \/ Reuse(u) \/ Compile(u)
                                                \/ FailLink(u) \/ FailCompile(u)
    <3>1. state = "building" /\ state' \in {"building", "error"} /\ plan' = plan
      BY <2>4 DEF Abort, Reuse, Compile,
         FailLink,
         FailCompile, Ready, build
    <3>. QED
      BY <2>1, <3>1 DEF RebuiltExact, Succeeded
  <2>5. CASE UNCHANGED vars
    <3>1. UNCHANGED <<state, plan, stream, there, last, compiled, noLink, collected>>
      BY <2>5 DEF vars, build, written, failures
    <3>. QED
      BY <2>1, <3>1 DEF RebuiltExact, Succeeded,
         LastWritten,
         FilesOf
  <2>. QED
    BY <2>1, <2>2, <2>3, <2>4, <2>5 DEF Next
<1>3. Spec => []Exact
  BY <1>1, <1>2, ArtifactsInvariant, PTL DEF Spec
<1>4. Exact => RebuiltExact
  OBVIOUS
<1>. QED
  BY <1>3, <1>4, PTL
=============================================================================
