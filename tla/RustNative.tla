----------------------------- MODULE RustNative -----------------------------
(***************************************************************************)
(* acquire_rust_bitcode_native of driver/reachability/acquire_rust.py: the *)
(* fuzzer's own build runs with a wrapper around every rustc.  Each wrapper *)
(* adds --emit=llvm-bc, waits for its rustc and copies the bitcode of its  *)
(* crate, found by the crate's name, into a directory of this run.  The    *)
(* wrappers run in parallel.  Several runs follow each other in one        *)
(* project; a run may fail and may be killed.  Two failures nobody sees: a *)
(* wrapper ignores that its cp failed, and --clean what it cannot remove.  *)
(***************************************************************************)
EXTENDS RustUnits

CONSTANT HostOnly       \* build scripts and proc-macros

ASSUME HostAssumption == HostOnly \subseteq Units

Runs == 1 .. MaxRuns
Absent == 0                    \* no such file
Partial == MaxRuns + 1         \* a file that is not written to its end
Content == 0 .. MaxRuns + 1    \* else the run whose rustc wrote the file

VARIABLES
  left,      \* the units of which earlier runs had left something in target/
  deps,      \* the .bc file of each unit in target/<profile>/deps
  proc,      \* the wrapper of each unit
  files,     \* the files a wrapper's loop still has to copy
  open,      \* of these, the one a wrapper's cp has opened, if any
  collect,   \* the .bc file of each unit in REACH_BC_DIR
  uncopied,  \* the files of which a cp of this run failed
  failed     \* some rustc of this run failed

nativeVars == <<run, state, left, plan, fresh, deps, proc, files, open, collect,
                uncopied, failed>>

NativeTypeOK ==
  /\ run \in 0 .. MaxRuns
  /\ state \in {"idle", "building", "collected", "error", "killed"}
  /\ left \subseteq Units /\ uncopied \subseteq Units /\ failed \in BOOLEAN
  /\ plan \subseteq Units /\ fresh \subseteq Units
  /\ deps \in [Units -> Content] /\ collect \in [Units -> Content]
  /\ proc \in [Units -> {"none", "rustc", "writing", "emitted", "copying", "exited"}]
  /\ files \in [Units -> SUBSET Units]
  /\ open \in [Units -> SUBSET Units] /\ \A u \in Units : open[u] \subseteq files[u]

NativeInit ==
  /\ run = 0 /\ state = "idle"
  /\ left = {} /\ uncopied = {} /\ failed = FALSE
  /\ plan = {} /\ fresh = {}
  /\ deps = [u \in Units |-> Absent]
  /\ proc = [u \in Units |-> "none"]
  /\ files = [u \in Units |-> {}] /\ open = [u \in Units |-> {}]
  /\ collect = [u \in Units |-> Absent]

-----------------------------------------------------------------------------
EmptiedFreshOnly(kept, f) == f                     \* variant: bitcode is kept
(* --clean drops the target directory: its bitcode and what cargo knows to *)
(* be up to date.  What `cargo clean` and, when that fails, rmtree cannot  *)
(* remove is kept, without a message; without --clean all is.              *)
Emptied(kept, f) == [u \in Units |-> IF u \in kept THEN f[u] ELSE Absent]

(* A run starts, after a clean or without one.  The sources may have       *)
(* changed since the last one, so units may be out of date, and other      *)
(* versions or features change the plan.  A run killed within its clean is *)
(* one that is killed before its first rustc.                              *)
StartNative ==
  /\ state # "building" /\ run < MaxRuns
  /\ run' = run + 1
  /\ state' = "building"
  /\ plan' \in (SUBSET Units) \ {{}}
  /\ \E kept \in SUBSET {u \in Units : deps[u] # Absent}, upToDate \in SUBSET fresh :
       /\ deps' = Emptied(kept, deps)
       /\ fresh' = upToDate
       /\ left' = kept \cup upToDate
  /\ proc' = [u \in Units |-> "none"]
  /\ files' = [u \in Units |-> {}] /\ open' = [u \in Units |-> {}]
  /\ collect' = [u \in Units |-> Absent]
  /\ uncopied' = {} /\ failed' = FALSE

(* cargo starts a rustc for a unit that is not up to date; after a failure *)
(* it starts no more.                                                      *)
StartRustc(u) ==
  /\ state = "building" /\ ~failed
  /\ u \in plan \ fresh /\ proc[u] = "none"
  /\ proc' = [proc EXCEPT ![u] = "rustc"]
  /\ UNCHANGED <<run, state, left, plan, fresh, deps, files, open, collect,
                 uncopied, failed>>

(* rustc begins to write the unit's bitcode, over an earlier file if there *)
(* is one, and completes it.                                               *)
WriteBitcode(u) ==
  /\ state = "building" /\ proc[u] \in {"rustc", "writing"}
  /\ IF proc[u] = "rustc"
     THEN /\ proc' = [proc EXCEPT ![u] = "writing"]
          /\ deps' = [deps EXCEPT ![u] = Partial]
     ELSE /\ proc' = [proc EXCEPT ![u] = "emitted"]
          /\ deps' = [deps EXCEPT ![u] = run]
  /\ UNCHANGED <<run, state, left, plan, fresh, files, open, collect,
                 uncopied, failed>>

(* rustc fails; the wrapper copies nevertheless what there is.             *)
FailRustc(u) ==
  /\ state = "building" /\ proc[u] \in {"rustc", "writing"}
  /\ proc' = [proc EXCEPT ![u] = "emitted"]
  /\ failed' = TRUE
  /\ UNCHANGED <<run, state, left, plan, fresh, deps, files, open, collect, uncopied>>

(* The glob "$outdir/$cname"-*.bc.                                         *)
MatchingNew(u) ==                                          \* variant: cp -n
  {v \in Units : Crate[v] = Crate[u] /\ deps[v] # Absent /\ collect[v] = Absent}
Matching(u) == {v \in Units : Crate[v] = Crate[u] /\ deps[v] # Absent}

(* Nothing is copied for build scripts and proc-macros.                    *)
Glob(u) ==
  /\ state = "building" /\ proc[u] = "emitted"
  /\ proc' = [proc EXCEPT ![u] = "copying"]
  /\ files' = [files EXCEPT ![u] = IF u \in HostOnly THEN {} ELSE Matching(u)]
  /\ UNCHANGED <<run, state, left, plan, fresh, deps, open, collect,
                 uncopied, failed>>

(* cp -f opens its target, which truncates what lies there, then writes    *)
(* what the file holds at that time.                                       *)
Copied(v) == deps[v]

Copy(u) ==
  /\ state = "building" /\ proc[u] = "copying"
  /\ \/ /\ open[u] = {}
        /\ \E v \in files[u] : /\ open' = [open EXCEPT ![u] = {v}]
                               /\ collect' = [collect EXCEPT ![v] = Partial]
        /\ UNCHANGED files
     \/ \E v \in open[u] :
          /\ files' = [files EXCEPT ![u] = @ \ {v}]
          /\ open' = [open EXCEPT ![u] = {}]
          /\ collect' = [collect EXCEPT ![v] = Copied(v)]
  /\ UNCHANGED <<run, state, left, plan, fresh, deps, proc,
                 uncopied, failed>>

(* A cp fails.  The wrapper hides its message, takes the next file and     *)
(* ends as if nothing had been.  What stays is what was there, nothing if  *)
(* -f has removed that, or a part if the target was open already.          *)
FailCopy(u) ==
  /\ state = "building" /\ proc[u] = "copying"
  /\ \E v \in files[u] :
       /\ open[u] \subseteq {v}
       /\ \E rest \in {collect[v], IF open[u] = {} THEN Absent ELSE Partial} :
            collect' = [collect EXCEPT ![v] = rest]
       /\ files' = [files EXCEPT ![u] = @ \ {v}]
       /\ uncopied' = uncopied \cup {v}
  /\ open' = [open EXCEPT ![u] = {}]
  /\ UNCHANGED <<run, state, left, plan, fresh, deps, proc, failed>>

(* The wrapper ends and with it, for cargo, rustc.                         *)
Exit(u) ==
  /\ state = "building" /\ proc[u] = "copying" /\ files[u] = {}
  /\ proc' = [proc EXCEPT ![u] = "exited"]
  /\ fresh' = IF deps[u] = run THEN fresh \cup {u} ELSE fresh
  /\ UNCHANGED <<run, state, left, plan, deps, files, open, collect,
                 uncopied, failed>>

-----------------------------------------------------------------------------
Running == {u \in Units : proc[u] \in {"rustc", "writing", "emitted", "copying"}}
Compiled == {u \in Units : proc[u] = "exited"}

(* The build command ends when all is compiled or, after a failure, when   *)
(* the processes that still ran have ended.                                *)
WrappersEnded ==
  /\ state = "building" /\ Running = {}
  /\ failed \/ plan \subseteq fresh

Collected == {u \in Units : collect[u] # Absent}

(* A build that failed and a build that compiled nothing are errors.       *)
ReturnNative ==
  /\ WrappersEnded
  /\ state' = IF failed \/ Collected = {} THEN "error" ELSE "collected"
  /\ UNCHANGED <<run, left, plan, fresh, deps, proc, files, open, collect,
                 uncopied, failed>>

(* The driver and all it started are killed.                               *)
Kill ==
  /\ state = "building"
  /\ state' = "killed"
  /\ UNCHANGED <<run, left, plan, fresh, deps, proc, files, open, collect,
                 uncopied, failed>>

NativeNext ==
  \/ StartNative \/ ReturnNative \/ Kill
  \/ \E u \in Units :
       \/ StartRustc(u) \/ WriteBitcode(u) \/ FailRustc(u)
       \/ Glob(u) \/ Copy(u) \/ FailCopy(u) \/ Exit(u)

NativeSpec == NativeInit /\ [][NativeNext]_nativeVars

-----------------------------------------------------------------------------
Library(U) == U \ HostOnly

(* Whatever the wrappers of crates of one name copy of each other's files  *)
(* while these are written, at the end the file of every unit compiled in  *)
(* this run is the whole one, unless a cp of just this file failed.  A     *)
(* file of another run can be collected, as the glob asks for the crate's  *)
(* name only; but it comes along with a unit of its crate that was         *)
(* compiled in this one, and never with a build script.                    *)
OwnBitcodeWhole ==
  state = "collected" =>
    /\ \A u \in Library(Compiled) \ uncopied : collect[u] = run
    /\ \A v \in Collected : \E u \in Library(Compiled) : Crate[u] = Crate[v]

(* The types, and that this run's files are whole.                         *)
NativeInv == NativeTypeOK /\ OwnBitcodeWhole

(* Of the units of which a clean has left nothing behind, after a whole    *)
(* clean all, exactly the plan is collected, each file whole and of this   *)
(* run: nothing of earlier or killed runs comes back, and nothing is taken *)
(* as done.  It is claimed unit by unit: what a clean could not remove, or *)
(* a cp not write, spoils no other unit.                                   *)
CleanRunIsComplete ==
  state = "collected" =>
    \A u \in Units \ (left \cup uncopied) :
      collect[u] = IF u \in Library(plan) THEN run ELSE Absent
=============================================================================
