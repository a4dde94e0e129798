# A formal model of the static fuzz-reachability analyzer

This directory holds TLA+ modules that model the analyzer, TLC configurations
that check them on small instances, and proofs that TLAPS checks for all sizes.
The property everything serves is the one the repository's README starts with:
*no function that is actually reachable is ever reported unreachable*
(`README.md:9-11`).

## The system and its parts

A Python driver builds the project under analysis, collects its LLVM bitcode and
links it into one module; a C++ analyzer reads the module, builds a call graph,
searches it from the entry points and writes reports.

| Part | State | Operations | Interacts with |
| --- | --- | --- | --- |
| Call-graph builders (`CallGraph.cpp`, `TypeBasedResolver.cpp`) | edge lists with deduplication, the escape index (stores by object, call sites by callee), buckets of address-taken functions | `buildDirectEdges`, `buildEscapeEdges`, `buildIndirectEdges`, `computeAddressFlowTargets` | run by `main` in that order; fill the graph the search reads |
| Escape components (`computeEscapeSets`) | explicit stack of frames, component stack, index and low links, sinks per component | one iterative Tarjan search per root | called by the escape builder and by the flow-target computation |
| Reachability search (`Reachability.cpp`) | FIFO queue, via and depth per function, missing names | `computeReachability` | reads the graph and the roots; its result feeds lists, metrics, JSON and DOT |
| Metrics (`Metrics.cpp`) | per-function counters, the interesting flag, dominators | `computeInteresting`, `computeBottleneck`, `computeLocal` | reads graph, result and roots |
| Entry resolution (`main.cpp`) | requested and resolved names | `resolveEntries`, `collectNameReferencedRoots` | produces the roots |
| Reports (`JsonReport.cpp`, `DotExport.cpp`, `CovLists.cpp`) | output files | one writer per file | written in a fixed order by `main`; the first failure ends the run |
| Driver pipeline (`cli.py`, `link.py`, `analyze.py`) | files under the project: objects, `merged.bc`, three outputs | check toolchain, clean, acquire, link, analyze, write | subprocesses; stops at the first error |
| C/C++ acquisition (`acquire_c.py`) | the build tree with objects, hidden bitcode and products, candidate artifacts, archive plans | choose a build command, build, choose an artifact, extract, expand static libraries | gllvm, the project's build tool |
| Rust acquisition (`acquire_rust.py`) | flags, artifact stream, collection directory | compose flags, cargo build, collect by hash or by wrapper | cargo, parallel rustc processes |
| Toolchain (`toolchain.py`) | versions | find tools, coherence checks | what the compilers write must be readable for the linker and the analyzer |

The analyzer is sequential. What is hard in it is *order*: edges come in the
order of instructions and of hash tables, the escape relation is cyclic, a
function is found in several ways, and the dominator passes revisit nodes. What
is hard in its meaning is that external code runs callbacks at any time with
whatever it has been given. The driver's difficulties are partial failure, stale
files and, in the Rust wrapper, parallel processes.

What makes each part correct:

* the search returns exactly the functions reached from the entries, with
  shortest depths, and `via` summarises every edge kind that leads to a function
  whatever the edge order;
* every value gets exactly the functions it can carry, whatever the order in
  which a cyclic flow is explored;
* every function an execution of the analyzed program enters, callbacks of
  external code included, is reached;
* bottlenecks are exactly the functions no path can avoid, interesting functions
  exactly those on an unbroken chain of pointer-taking functions;
* every requested entry gives all functions it means, and what the program looks
  up by name is a root too;
* the ignorelist, read as globs, excludes no reachable function of this build or
  of one with other hashes, and the allowlist matches all of them;
* a reader finds one whole analysis or none, never an earlier one again, whatever
  failed or was killed, and `--clean` leaves nothing old;
* a run that the toolchain check lets go on can read what its compilers write;
* the project is built with its own flags and as many codegen units;
* the bitcode that is linked is this build's, complete, and defines nothing twice.

## Modules

| Module | Models | Correspondence |
| --- | --- | --- |
| `ReachableSet` | nothing of the code: what the search promises | a set grows by successors of its members and is returned only when closed |
| `Reachability` | `computeReachability` | `Seed*`: iterations of the loop over the entries; `Dequeue`: lines 33-38; `Discover`, `Revisit`: the two cases of the loop over edges; `Return` |
| `ReachabilityProofs` | | theorems about `Reachability` and `Roots` |
| `ValueFlow` | nothing of the code: what it means to carry a value | `Carries` is the least closed set, `Closure` the way TLC computes it |
| `ValueFlowProofs` | | that both are the same, and lemmas about closed sets |
| `EscapeSets` | `computeEscapeSets` | `TakeRoot`, `SkipRoot`: the loop over roots; `Descend`, `LookBack`: the inner loop over successors; `Close`, `Ascend`: completing a component and returning to the parent |
| `EscapeSetsProofs` | | theorems about `EscapeSets` |
| `CallGraph` | the builders, the escape successors, the resolvers | one operator per function of `CallGraph.cpp`, over programs of a small IR |
| `Soundness` | the composition: a program is analyzed, then runs | `Analyze` runs the builders in `main`'s order; the other actions execute instructions or are external code |
| `SoundnessProofs` | | theorems about `Soundness` and the operators of `CallGraph`, and about the parts of the analyzer joined as `main` joins them |
| `Metrics` | `computeMetrics`: `computeInteresting`, then `computeBottleneck` | `Seed`, `Pop`, `Visit`: the threading of pointers; `Look`, `Finish`: the depth-first search; `StartPass`, `Meet`, `Assign`: the passes; `Mark` |
| `MetricsProofs` | | theorems about `Metrics` |
| `Roots` | `resolveEntries`, `collectNameReferencedRoots` and `main`'s union of their results | `Resolve`: one request; `CollectRoots`: lines 285-312 of `main.cpp`; `Call`, `LookUp`: the analyzed program and `dlsym` |
| `CovLists` | `CovLists.cpp` | `WriteAllowlist`; `CollectNames` and `WriteIgnorelist`: the sorted reached names, then one pattern at a time |
| `Publication` | nothing of the code: what a run promises to a reader of its files | an analysis is there or not, is withdrawn before the next one is published, and a run succeeds by publishing |
| `Pipeline` | `cmd_run`, `_clean_project`, `link.py`, `analyze.py` and the order of the files in `main.cpp` | one action per stage; `Open` truncates a file, `Close` completes it; `Fail`, `Unwritable`, `Kill` |
| `Toolchain` | `toolchain.py` and the check in `cmd_run` | operators on a machine: `Found`, `Coherent`, `RustBitcodeReadable`, `Accepts` |
| `OutputProofs` | | theorems about `Pipeline` and `CovLists` |
| `CBuild` | the C path of a run: `_clean_c_artifacts`, `detect_build_cmd`, `find_artifacts`, `acquire_c_bitcode` up to the static libraries | `Start`, `Refused`, `Accepted`: the check; `BuildToolClean`, `Drop`, `Cleaned`: `--clean`; `Configure`, `OwnBuildCommand`: the build command; `Compile`, `Link`, `CompileAndLink`: the build tool with gclang; `Built`, `Extract*`, `ExtractionFails`: the artifact; `Abort` |
| `StaticLibs` | `_include_static_libs` and the merge in `link.py` | `List`, `Plan`, `Extract`, `Decide`, `Sift`, `Compose`: the stages of the function; `Merge`: `link_bitcode` |
| `CProofs` | | theorems about `StaticLibs`, `CBuild` and, for C, `Toolchain` |
| `RustFlags` | `_compose_rustflags`, `_resolve_codegen_units` and what they look through | one operator per function |
| `RustUnits` | what both ways of building a Rust target share | the units with their crate names; the run, its plan, what cargo takes as up to date |
| `RustArtifacts` | `acquire_rust_bitcode` | `Reuse`, `Compile`, `FailCompile`, `FailLink`: cargo; `Return`: errors, choice of files, fallback |
| `RustNative` | `acquire_rust_bitcode_native` and its rustc wrapper | `StartNative`; `StartRustc`, `WriteBitcode`: cargo and rustc; `Glob`, `Copy`, `FailCopy`, `Exit`: the wrapper's shell script; `ReturnNative` |
| `RustProofs` | | theorems about `RustFlags`, `RustNative`, `RustArtifacts` and, for Rust, `Toolchain` |
| `MC_*` | instances for TLC | |

Between the driver's stages only a list of files passes, and `Pipeline` keeps of a
file only whether it is complete and which run wrote it. Therefore a run is
modelled once as a whole (`Pipeline`) and once for each way of acquisition, with
everything that a run does to a build tree (`CBuild`, then `StaticLibs` on the
artifact found; `RustArtifacts`; `RustNative`). `CBuild` extends `Toolchain`: whether a run
goes on, which linker reads its bitcode and which compiler writes it are
`Toolchain`'s operators on the machine of that run. `RustArtifacts` extends
`RustFlags`: whether crates are split is what the settings of the run resolve to.

`Soundness` uses the operators of `CallGraph`. It takes the escape sets and the
reached set from `ValueFlow`'s `Closure`, so the algorithms do not have to run inside
the model of the whole. That they compute exactly these is proved: `EscapeEdgesAreComputed`
for `computeEscapeSets` with the loop over the sites behind it, `SearchIsClosure` for
`computeReachability`. `EnteredIsReported` joins the state machines as `main` joins the
functions.

In the other state machines than `Reachability`, `Inv` is the type invariant together with the
structural invariant named beside it. It is seldom inductive; the proof modules
name what has to be added (`IInv`; `ThreadInv`, `SearchInv`, `PassInv` for the three
phases of `Metrics`; `BuildInvariant`, `Sifted`, `RootsInvariant`, `ListsInvariant`,
`ArtifactInv`). `SearchInv`, `BreadthFirst` and `OnlyReachable` of `Reachability` are proved
and therefore not checked again by a run.

A proof module extends the modules it speaks of. Where it extends several state
machines, all but one have names of their own: `BuildInit`, `BuildNext`, `BuildInv`
in `CBuild`, and in the same way `Native...`, `Roots...` and `Lists...`.

Some definitions are followed by, or follow, a one-line *variant*: the same
definition with a plausible mistake. No specification uses them. Replacing the
definition by its variant must break the property named in `PROJECT.json`
("mutants"), which shows that the property depends on that code.

### What is abstract

* A function is its symbol name; an edge is a triple (`addEdge` removes
  duplicates). The order of a function's edges is left open, since it is the
  order of instructions and of builders.
* `main` passes only distinct names of defined functions to the search.
  `SeedMissing` and `SeedAgain` are in the code for other callers, and the
  bounded entry lists contain one that takes these branches.
* In the IR, functions have at most one parameter, pointer casts are stripped
  (`stripPointerCasts`), `select` stands for every instruction that forwards its
  operands, a `getelementptr` addresses its base object. Cells hold several
  addresses, so aggregates need no fields.
* A program is what LLVM's verifier accepts: every register has one definition,
  operands are defined, an alias that is used has an aliasee (`IsModule`). Values
  and functions are finitely many. That is all the proofs assume of a program
  beyond the conditions under "Which programs are covered".
* An execution accumulates: registers and cells keep every address they ever
  received and an instruction of an entered function may execute at any time.
  This over-approximates all control flow that the same instructions can have;
  a violation found this way is checked to be a real execution before it is
  listed (the traces below are straight-line programs).
* In `Roots` a demangled name is a path, a sequence of components; a token is one
  too, and "ends with `::token`" is being a suffix of the path. The tokens of the
  string constants are given. Demangling itself is LLVM's.
* In `CovLists` a name is a sequence of characters and the twenty characters of a
  hash tail (`17h`, sixteen digits, `E`) are one of them: the code recognises and
  drops them as a whole. The order of names, on which the bisection rests, is
  the lexicographic one of the code.
* `Pipeline` keeps of a file the run that wrote it, or that it is torn. All runs
  of a project write to the same paths. Cleaning and building the tree has no
  effect on these. Failures before anything is touched (options, toolchain) are
  one action.
* A version in `Toolchain` is a major and one number for the rest. That LLVM reads
  what the same or an older version wrote is the policy the module's head states
  (`toolchain.py:8-14`).
* In `CBuild` a file is known by the run that wrote it; time is counted in runs.
  The build tool is external: it compiles what is older than its source, may link
  anything again, and ends when its goals are up to date. Every compiler call of
  the build goes through `CC`/`CXX`, and only the first build, the user's, may have
  been a plain one. Units have one object; a product may also be built by one
  command without objects. Of the files the sweep removes, objects and hidden
  bitcode are told apart; extracted modules (`app.bc`) are rewritten by every
  extraction. An artifact's kind is that of its product.
* `RustFlags` takes flags as a set and keeps the codegen units among them apart.
  A cargo config counts once, whichever of its two names it has. What cargo does
  by itself (`CargoFlags`, `CargoUnits`) is external. A variable that is set and
  blank, which cargo takes for no flags, is not told from one that is not set.
* In `StaticLibs` an object is its real path and has a member name that others
  may share; a library's bitcode is the set of its objects; two modules collide
  when they share an object. Two different objects that define one function
  collide for the real linker too, and are not considered.
* In both Rust modules a unit is a crate with a build hash. In `RustArtifacts` it
  has a bitcode file for each of its codegen units, and cargo may keep the hash
  when the flags change, as its versions before 1.85 do; in `RustNative` it has
  one file, since all are copied together. Which units a build has, which are up to date and in which order
  they are compiled is cargo's choice and left open, as far as dependencies allow.
* In `RustNative`, `cp` opens its target, which truncates it, and then writes what
  the source holds at that moment. Several `cp` of one target, by wrappers of
  equally named crates, interleave between these steps, not within the second. A
  `cp` may fail at either step (`FailCopy`). `--clean` removes any part of what is
  there; `left` says of which units something survives, `uncopied` of which files
  a `cp` failed. The program keeps neither, so no action reads them.
* `--clean` in `RustArtifacts` removes everything or is not made. A clean that
  removes bitcode and keeps what cargo knows to be up to date (`cli.py:120` ignores
  errors) leaves units without files there, and these are then missing. A
  link fails only for a unit that cargo reports without a hash (a program or a
  `cdylib`, say); that of a proc-macro or a build script is taken to succeed.
* In `CBuild` gclang writes an object and names the bitcode in it in one step. It is
  not killed in between, which would leave an object like those of a plain build.
* `get-bc`, `ar`, `llvm-link`, cargo, rustc and the project's build tool are
  external: they may fail, and `get-bc` may leave out objects without bitcode.
* A well-typed indirect call reaches functions of the call's type. Calls through
  a mismatched type are undefined behaviour and left out, as the type-based
  resolver documents.

## What TLC checks

| Run | Question | Bounds |
| --- | --- | --- |
| `reachability_search` | Does the search return exactly what is reachable, with right via, depth, missing names? Does it implement `ReachableSet`? | three bodies, one declaration, every graph of at most four edges of both kinds that leave functions the entries or other edges arrive at, three entry lists |
| `escape_components` | Does the Tarjan search give every value exactly its functions, in any order, and end? | four values, one function, at most five flow edges that leave values the roots or other edges arrive at, one or two roots |
| `soundness` | Is every function an execution enters reached, with an indirect edge for each callback? Has every called address flow evidence? | two allocas and at most four more instructions of a pool of forty-five, with and without an alias, a global that is initialized with a function or with itself, and `--indirect-any` |
| `written_global` | A program outside the covered ones: is the same still true? (It is not.) | two instructions |
| `metrics` | Is the interesting flag exact, and do the dominator passes end with exact bottlenecks? | at most four edges over four bodies and a declaration, or five over three bodies; one or two roots; all functions take a pointer, or one root and one body do not |
| `roots` | Is every request answered with exactly what it means, once, and is what is looked up by name reached? | a C function, three Rust functions with and without a legacy hash, a declaration, an alias; lists of one or two of seven requests; up to two names looked up |
| `coverage_lists` | Do the lists, as globs, match what they should and nothing else? | up to four of twelve names that share prefixes and two hashes, every reached subset |
| `pipeline` | Does a reader find one whole analysis or none? Are the files beside a report at least as new, and those after `--clean` not old? | three runs, with and without `--clean` and `--dot` |
| `c_build` | Is the bitcode of the artifact whole, of this run after a clean, from the newest artifact of its kind, and readable? | two units; a program, a library and a tool built without objects; a bootstrapped and a plain make project; the user's build and two runs, before each of which one source may change; three machines; two artifacts tried |
| `static_libraries` | Is nothing linked lost, nothing foreign added, failure atomic, nesting harmless? | four objects, two of one name, three libraries of any contents, any extraction failing |
| `rust_artifacts` | Is nothing of this build missing, and are the chosen files exactly its own? | seven units of three crate names under up to two hashes, one of them split in up to two ways, four settings, three runs with and without a clean, link and compile errors anywhere |
| `rust_wrappers` | Do parallel wrappers collect whole files, and exactly the plan after a clean? | two versions of one crate, a build script, two runs, any `cp` failing, any part surviving the clean |

Why the bounds are enough. Four call edges suffice for a diamond with a cycle
and for two paths of different length and kind to one function. Five flow edges
over five values allow two interlocked cycles with a function behind them, the
shape that goes wrong when low links are mishandled; all mutants are found well
inside the bound. Three nodes and three edges with two roots are the smallest
irreducible graph that needs a second dominator pass; the bound is two edges
larger. A file of the driver can be stale in two ways: it is of the last run or
of an earlier one, which takes three runs in `pipeline` and in `rust_artifacts`
(build under one hash, another, the first again); `c_build` needs a plain build, a
run that leaves something half done and one that finds it, a unit that is in two
products and one that is in the library only, and a machine for each way the
tools can differ (a newer plain clang beside the checked one, a linker named by
the environment that is of an older major and refused); the wrappers need one run that
leaves files and one that finds them. Three libraries over three shared objects
contain each nesting, overlap and disjointness, and two objects of one name
suffice for a coincidence of names. In `soundness`, the longest chain of the escape analysis (store, pass to
the wrapper, forward, call back) takes four instructions.

### Which programs are covered

`Soundness!Covered` names the three conditions under which `NoUnderReporting`
holds in the run `soundness`. Each is needed: with `CoveredOnly = FALSE` and a
`Pool` of the instructions named here TLC finds the function that is entered and
not reached; the run `written_global` does so for the second.

* *Stores name their object.* `buildEscapeIndex` files a store under the
  underlying object of its address. For `q = &s; *q = t; ext(&s)` that object is
  the load of `q`, so nothing connects `t` with `s`.
* *A global that is written at run time is otherwise only loaded.* For a global
  `escapeSuccessors` returns the initializer and stops, so after `g = t; ext(&g)`
  the callback `t` has no edge (`written_global`). A load of `g` is fine, since
  loads do look at the stores. "Otherwise" includes the uses of `g` under the name
  of an alias and in the initializer of another global: through either, external
  code gets at `g` as well.
* *Aliases are direct.* `directCallee` looks through one alias, and `isIndirect`
  declines every alias, so a call through an alias of an alias has no edge at
  all.

The condition of `EvidenceUnlessMoved` concerns confidence, not reachability: intrinsics are no roots
of the flow, so a callback that `memcpy` moves into a struct is rated `low`
although an escape edge, not a type match, reaches it.

### What the conditions of the properties leave out

`written_global` is the one run that ends in a violation: it contradicts
`README.md:9-11`. Other properties hold under a condition that stands in their
definition, and each condition is there because TLC refutes the property
without it. What happens then:

* `LookUpsReached`, "no name of an alias": the scan in `main.cpp:213` sees
  functions only, so the function behind an alias that is looked up by name can be
  entered without being reached.
* `EveryRequestAnswered`, "unless its own name looks like a hash": `stripLegacyHash`
  counts no digits and asks for no mangling scheme, so of `crate::head` only
  `crate` is left and the entry `head` is unresolved, although the comment at
  `main.cpp:114-116` promises the match.
* `OwnBitcodeWhole` and `CleanRunIsComplete`, "not in `uncopied`": the wrapper hides the
  messages of `cp` and ends with the status of rustc (`acquire_rust.py:408-410`). When
  a `cp` fails, on a full disk for instance, the file is missing in
  `REACH_BC_DIR`, or torn, also where another wrapper had copied it whole, and the
  run goes on to an analysis that lacks a crate. Only when nothing at all
  arrives does the driver stop (`acquire_rust.py:456`).
* `CleanRunIsComplete`, "not in `left`": the wrapper copies `<crate>-*.bc`, also what
  earlier builds left under other hashes, and a unit that cargo takes as up to date
  is not compiled and may not be collected. Without `--clean` both are normal;
  with it they happen to what `cargo clean` and then `rmtree(..., ignore_errors=True)`
  could not remove, of which nothing tells (`cli.py:117-121`), and nothing is
  removed by hand when the target directory is elsewhere. The property
  therefore speaks of each unit of which nothing was left; after a whole clean
  these are all. The second part of `OwnBitcodeWhole` holds of the others too.
* `WholeUnlessTorn`: after a clean that was killed or could not remove everything
  (`cli.py:197`), an object can name bitcode that is gone while the build tool takes
  it as up to date; an object of a plain build names none and is missing without
  a word; a shared library's bitcode does not reach the program (`acquire_c.py:107`),
  which the driver prevents except for make and ninja, with `--build-cmd`, and when
  `configure --help` fails or takes more than a minute (`acquire_c.py:75`).
* `CleanNothingStale`, a clean "without warnings", and not that the artifact is of
  this run: the sweep keeps products (`cli.py:105`), so one that the build does not
  make any more can still be chosen; it gives bitcode of this run or none.
* `FreshNotPassedOver`, "of a better kind": an old executable goes before a new
  library (`acquire_c.py:223`).
* `OwnBitcodeReadable`, `OneRelease` and `CheckedIsRun`: for C only majors are compared
  (`toolchain.py:165`), and gclang runs the file `clang` beside the clang that was
  checked (`acquire_c.py:422`), which need not be the same. What an earlier run
  compiled with a newer compiler is not covered either.
* `RebuiltExact`, "split otherwise before": all files of the build's hash are taken
  (`acquire_rust.py:284`, `314`), so when a unit is compiled into other codegen units
  than before, those it no longer has come along. A clean removes them.
* `RebuiltExact`, "every link product is rebuilt": when one is up to date, the
  newest file of its name can be another build's (one hash, another, the first
  again), against the comment at `acquire_rust.py:264-265`.
* `RebuiltExact`, and its theorem, when two link products of one build have file
  names that begin alike and neither needs the other: the newest of both is taken
  for both (`acquire_rust.py:251`). `LinkProductsApart` excludes it; the instance
  satisfies it.
* `RebuiltExact`, "no link failed": cargo reports no artifact for a unit whose link
  failed, so its bitcode, which was written, is not collected, although
  collection goes on (`acquire_rust.py:354`).
* `NestedLibrariesMerge`, "the artifact is linked": for an archive or object as
  artifact, `all` does not leave out libraries that a larger one covers, and
  `llvm-link` fails on the duplicates.

## Fairness

`Reachability`, `EscapeSets` and `Metrics` are sequential code
in which nothing blocks: as long as a step is possible the program takes it,
which is `WF_vars(Next)`. Nothing is assumed about which of several steps. The
`Termination` properties need no more. The other modules state only safety and assume
no fairness. Deadlock checking is off where the modelled function returns.

## What is proved

`ReachabilityProofs` proves, for every module, call graph and entry list:

* `TypeCorrect`: the type invariant. It is inductive by itself.
* `FrontierCorrect`: `SearchInv`, the inductive invariant of the search. It says
  that the queue has no duplicates and holds reached functions, that the seeded
  roots are reached, and that every edge of a function that has left the queue
  is visited or pending, so its target is reached. `NoUnderReporting` alone is
  not inductive: it says nothing before the search returns.
* `NeverUnderReports`: when the search returns, queue and pending edges are
  empty, so the frontier invariant says the reached set is closed.
* `NeverOverReports`: the reached set stays inside every closed set that holds
  the entries. Together with the last theorem it is the least such set.
* `LevelByLevel`: `BreadthFirst`, that the queue is sorted by depth and spans two
  levels, and `ShortestDepths` from it: no edge can shorten a depth.
* `ViaExact`: at every moment `via` is the summary of the edge kinds visited so
  far, in any order; `EvidenceIsFinal`: nothing reached is forgotten, no depth
  changes, evidence is only added.
* `Refinement`: `Spec` implements `ReachableSet`, by the mapping that reads the
  abstract set off `via`; discovering is growing, returning is returning, and
  everything else stutters.

* `SearchIsClosure`: what the search of a finite module returns is `Closure` of the call
  graph around the entries, the set that `Roots` and `Soundness` call reached.
* `EveryStepAdvances` and `WorkIsFinite`: every step seeds an entry, expands a function,
  visits an edge or returns, each for the first time, and none of this is ever
  undone; in a finite module the pieces of work form a finite set. So no
  behaviour has infinitely many steps, which is the half of `Termination` that
  needs no fairness.

The proofs rest on one assumption, `ModuleAssumption`: edges leave defined
functions, since all builders skip declarations (`CallGraph.cpp:41`, `61`, `270`).

And for every module, any requests and any string constants, what the search is
given:

* `RootsAreDistinctFunctions`: `RootsInv`, that roots and entries are distinct defined
  functions;
* `RequestsAreAnswered`: every request looked at has given all the functions it means
  and is reported as unresolved only if there are none, hash-like names apart (see
  above);
* `RequestsAreRoots`: when the search starts, every function a request means is among its
  roots, hash-like names apart;
* `LookUpsAreReached`: what the program calls or looks up by name is reached from the
  roots, if no alias is looked up;
* `LookUpsAreReported`: the same with the search run on these roots
  (`HandedToSearch`): what is entered is in what the search returns.

The inductive invariant (`RootsInvariant`, theorem `RootsAreCollected`) is about the
lists: the requests looked at so far are answered (`Answered`), the roots are the
entries with the name roots behind them, each once (`Started`), and what the
program has entered lies in the least closed set around the roots
(`EnteredIsFound`). A lemma about appending what is not there yet stands for the
code's loops over a result list with its `is new` test. `RootAssumption` says that there are
finitely many functions, that edges leave defined ones, and that a legacy hash always follows a
path.

`CProofs` follows a C target from the build tree to the linked module. For any units,
products and machines, any project, any number of runs, and builds and cleans
that are cut short anywhere:

* `BitcodeGoesWithObjects`: `BuildInv`, that an object names no older bitcode than its own
  and none that is missing unless a clean was torn;
* `ArtifactIsWhole`, `CleanBuildIsFresh`, `FreshComesFirst`: the artifact this run has linked comes
  out whole; after a clean all bitcode is of this run; an artifact of this run
  loses to an older one only by its kind, by having no bitcode or after a failed
  extraction. The conditions are those of the properties (see above);
* `OwnBitcodeIsReadable`: the linker reads what this run has compiled.

`BuildInvariant` relates the run's stage to the tree. Before a build no product is
of this run (`Stages`); what the sweep has dealt with is gone or there was a warning, and
a complete clean leaves no bitcode but what this run writes (`Sweeping`, `Swept`); a
product linked by this run holds its current objects (`LinkedNow`); beyond the check the machine is
coherent and compiles with what was found (`Reading`). A clean that is killed is the reason for
`torn` in almost every part. It rests on `BuildAssumption`, the types of the constants.

`CIsReadable` says the same of any machine: on an accepted one the linker reads what
gclang writes and the analyzer what the linker writes, if a major is installed
once and gclang runs the clang that was checked. The check compares majors, so
both are needed.

For any finite set of objects, any member names, any libraries and any contents:

* `NothingIsLost`: the type invariant, and that every object the linker took is
  in what is linked (`NothingLinkedIsLost`);
* `FallbackIsAtomic`: a failed extraction leaves the linker's view alone;
* `AutoTakesTheLinked`: in auto mode exactly the target and the whole libraries
  it links are merged;
* `NestedLibrariesLink`: when `llvm-link` finds a function twice, two of the chosen
  libraries overlap and neither contains the other.

The first three speak of the moment of return. The inductive invariant `IInv` adds what
the stages before it have established: the input does not change and the
manifest, if there is one, is what is linked; nothing is kept before the
sifting; and while libraries are sifted, those kept and those still to come hold
together the objects of all relevant ones, because a library is dropped only
when the kept ones cover it. One lemma per action shows that it is preserved;
`LinkersViewSafe` is shared by the two stages that may fall back. The order in
which the sifting takes the libraries matters for the fourth only. Its invariant
`Sifted` says that kept libraries are at least as large as those to come, so that
of two kept ones neither is inside the other: a later one would be covered, an
earlier one would be smaller. The merge counts modules; that more than one
holds an object is two different ones that do (`TwiceMeansTwo`). The proofs rest on
`ObjectAssumption`, which gives the constants their types and says that a build
has finitely many objects.

`ValueFlowProofs` proves what the other modules use of `ValueFlow`, for every finite
flow: `Closure`, the computation, gives the least closed set around its start
(`ClosureIsLeast`), and from one value what `Carries` names (`ClosureIsCarried`).
`Closure` is a recursive function on sets, of which the provers know only the
equation that defines it. The argument therefore works with `Least`, the intersection of
all closed sets: the function that maps each set to its `Least` satisfies the
equation, and every other solution agrees with it, since a largest set on which one
did not would be closed. The lemmas about `Least` (it is closed, monotonic, transitive, a
path lemma) are what the following modules cite.

`EscapeSetsProofs` proves, for every finite flow and every order in which roots and
successors are taken:

* `StacksAgree`: `Inv`, the types and the discipline of the two stacks;
* `SinksAreExact`: each completed value has exactly the functions it can carry,
  although members of a cycle are visited while their sets are still unknown;
* `ComponentsAreClasses`: two completed values have one component exactly when each
  can carry the other;
* `EveryRootIsCompleted`: when the search is done, each root has its set, and
  `RootsHaveTheirSinks`: this is the functions of the least closed set around it;
* `EveryStepAdvances` and `WorkIsFinite`: a step takes a root, looks at a successor or
  leaves a frame for the first time and undoes nothing, and there are finitely many of
  each. So no behaviour has infinitely many steps, however cyclic the flow.

The inductive invariant is Tarjan's argument. Frames form a path down the flow
(`Path`), what a frame has looked at is visited (`Explored`), a low link is the
number of an open value that can be carried (`LowReached`), and it is not larger
than the number of any open value that the values between two frames flow to
(`LowBounds`). When a frame closes with its low link unchanged, these make the
values above it on the component stack a whole class, from which the flow leads to
completed values only (`Settled`). The union that `Close` forms is then the exact
set. Nothing about the flow is assumed but `FlowAssumption`.

`SoundnessProofs` proves the analyzer's promise, for programs of any size, any
number of functions, globals and registers, and any behaviour of external code:

* `NothingEnteredIsUnreached`: every function an execution of a covered program
  enters is reached in the call graph the builders make;
* `LeaksAreEdges`: `Inv`, that a defined function external code has learnt of is the
  target of an indirect edge of a function entered before;
* `CalledHasEvidence`: what is called through a pointer or known outside is an
  address-flow target, if the program has no `memcpy` and no inline assembly.

All three have the hypothesis `CoveredOnly`, that only covered programs are analyzed;
the run `soundness` has it too, and `written_global` shows that it is needed. The inductive
invariant relates the execution to the static flow (`FlowInv`): a register holds what it can carry
or what is exposed, that is, what an escape site of an entered function can
carry; a cell holds what its initializer and the stores that name it can carry
or what is exposed; what external code knows is exposed. `DataInv` adds that the
address of a written global or of a function that is only called by name is
never handed around. Without it `FlowInv` is not inductive, since external code that
knew a written global would read more than the initializer. `NoUnderReporting`
is part of the invariant because entering a function depends on the edges of those
entered before. This proof found that the condition on written globals had to
name aliases and initializers too.

So far the escape edges and the reached set are given by definition. Three more
theorems put the algorithms in their place:

* `EscapeEdgesAreComputed`: in every module, the edges `buildEscapeEdges` makes of the
  sets that `EscapeSets` ends with (`ComputedEdges`) are those of `CallGraph`;
* `EnteredIsReported`: of a covered program that is run from a requested entry,
  everything that it or external code enters is in what `Reachability` returns;
* `EnteredIsNotIgnored`: no pattern of the ignorelist matches the symbol name of such
  a function.

They speak of the conjunction of the specifications, each a state machine with its
own variables, of which any may step at any time: `Soundness`, `EscapeSets`, `Roots`,
`Reachability` and, for the third, `CovLists`. What `main` hands from one to the next is a
hypothesis. `Handed` says that the module analyzed is the one that runs, that the
search has returned only for the edges of the three builders, whose escape edges are
those of a completed component search, and that its entries are the roots
collected. `Requested` says that the program's entry is meant by a request and does
not look like a hash, and `Listed` that the lists are written for the symbol names of
what the search returned. The assumptions on the constants of `Roots` and `CovLists` are hypotheses
too, since `Soundness` has no demangled names; those of `EscapeSets` and `Reachability` are
proved for the flow and the graph of a module. `EnteredIsNotIgnored` uses
`OutputProofs`, which also extends `Pipeline`; its variables play no part and have constants
in their place. Functions entered by look-up are the subject of `LookUpsAreReported` and
not joined with the callbacks of external code.

`MetricsProofs` proves, for every call graph, reducible or not, and every order
of edges:

* `InterestingIsExact`: the flagged functions are those at the end of an unbroken chain
  of pointer-taking functions from a root;
* `ChainsAlwaysClimb`: `Inv`, that the loop in `intersect` walks through processed nodes
  with ever larger numbers and so ends at the virtual root;
* `BottlenecksAreDominators`: the marked functions are exactly those that lie on
  every path to some other reached function;
* `IdomOnlyRises`: a pass replaces an immediate dominator only by a node further up its
  chain;
* `EveryStepAdvances` and `WorkIsFinite`: every step lowers a measure whose parts are finite
  sets, lengths and positions, compared in the order in which the phases run. For the
  passes its first part is `Candidates`, the pairs of a function and a node that can still be
  on its chain. A change of an immediate dominator removes candidates and none comes
  back; without a change a pass only goes down the postorder, and a pass that
  changed nothing is the last. So the passes end, as does the whole computation.

Each phase has its invariant. `ThreadInv` is a frontier invariant as in the search.
`SearchInv` says that every visited node has a frame or a number and that each
numbered node but the virtual root has a predecessor that is numbered later. `PassInv` is for
the passes. That the result is exact needs two bounds: the chain of a node loses
none of its dominators (`Keeping`), which every step preserves because a dominator of
a node is one of all its predecessors; and when a pass ends without a change, chains agree with
those of the predecessors (`Settling`), so a node that can be reached around
`d` has a chain without `d`. `Agreeing` and `Rising` are for `IdomRises`: chains in the part of
the graph this pass has dealt with agree with those of predecessors with
larger numbers, and what the processed predecessors share lies at the immediate dominator or
above. From predecessors with smaller numbers neither follows in the middle of a pass, and
`Keeping` says with `Down` that a chain leads down to its node by decreasing numbers, which is
why they cannot raise it too far. All rests on `InputAssumption`.

`OutputProofs` proves, for any number of runs of one project, with failures, unwritable
files and kills anywhere:

* `ReportOnlyAges`: `Inv`, that a complete report is never newer than the files
  beside it;
* `CleanIsClean`: after `--clean` no file of an earlier run is left but those a warning
  names (`CleanLeavesNothingOld`);
* `Refinement`: `Pipeline` implements `Publication`; opening the report withdraws the
  analysis that was there, closing it publishes, all else stutters.

The inductive invariant follows the run through its stages: no complete file is
of this run before the run has written it and the report is the last
(`Contents`, `Writing`), an open file is torn (`Opened`), what is to be cleaned is gone, kept
with a warning or still listed (`Cleaning`). It rests on `RunAssumption`, that at
least one run is made.

And for every finite set of names and every reached part of it, what the two lists
of names exclude and include:

* `ListsAreWritten`: `ListsInvariant`, the progress of the writer from list to list;
* `NoReachedIsIgnored`: `ListsInv`, that no pattern of the ignorelist, read as a glob,
  matches a reached function, nor, if its own hash ends the name, that function
  under another build's hash;
* `IgnorelistIsMaximal`: each unreached name whose pattern matches no reached one is on it;
* `AllowlistHoldsInEveryBuild`: the allowlist matches every reached function, also under
  the hash of another build.

All rests on the bisection of `matchesReached` over sorted names, which is shown to be
exact (`MatchesReachedExact`). The order of the code is a strict total order
(`BelowIrreflexive`, `BelowTransitive`, `BelowTotal`); names with a common prefix are
neighbours in it, so in a sorted list those below a pattern's prefix come first
(`Divided`), and the bisection ends at that point (`Nearest`). No induction over lists is used. A finite set is
sorted by counting the names below each (`SortedExists`). `LowerBound` is a recursive
function on index ranges, of which the provers know the equation that defines
it: the answer satisfies the equation, and a shortest range for which another
solution differed could not exist. `NameAssumption` says that names are not empty and that
a hash tail is told from other characters.

`RustProofs` proves, for all versions, what the policy of `toolchain.py` buys:

* `RustIsReadable`: on a machine that is accepted for a Rust target, `llvm-link` and
  `opt` read what rustc writes, whatever the patch levels. `check-toolchain` alone
  does not give this: it asks for `CoherentForRust` only (`cli.py:284`), although
  `docs/llvm-support.md` explains why the full version matters.

For all settings:

* `ProjectFlagsSurvive`: rustc gets the driver's flags and those cargo would have
  given it, unless several cargo configs set some (cargo joins them, the driver
  reads the nearest) or there are some for one target; a `-Ccodegen-units` among
  them wins over the driver's.
* `UnitsAsCargo`: the number of codegen units is cargo's own when the workspace's
  manifest alone sets it. (cargo ignores the profiles of other manifests, the
  driver takes the nearest.)

Both rest on `NearestOfOne`, that a search upward finds the only place there is.
And for any units, crate names and number of parallel wrappers of `RustNative`:

* `CompiledIsCollected`: `NativeInv`, that a run which ends has collected the whole bitcode of every
  library unit it compiled, but for files of which a `cp` failed, however the
  wrappers and their copies interleave;
* `CleanIsComplete`: of the units of which the clean has left nothing, and no `cp`
  failed, exactly the libraries of the plan are collected, if no build script
  or proc-macro has the crate name of a library (`NamesApart`): the wrapper
  goes by crate name only, and tells the two apart by the kind of the compilation.

What several `cp` of one target do to it is the point of the first: between opening
and writing the file is partial. The invariant says that the copy a wrapper owes is
complete, still in its list, being made by some wrapper, or has failed (`CopiedOrCopying`), that what
rustc has written stays (`Emitted`), and that besides what was left only what this run
compiled is up to date and only what it planned is there (`NewOrLeft`).

And for any units, dependencies, plans, splits and settings of `RustArtifacts`, over any
number of runs with and without a clean, link and compile errors anywhere:

* `ArtifactsAreCurrent`: `Inv`, that nothing is returned when a crate did not compile, and that
  the fallback takes one unit per crate name, the files of this build whole if
  it has compiled one of that name;
* `RebuiltIsExact`: `RebuiltExact` under `LinkProductsApart`, that of the plan at most link products
  that were up to date are missing and, when all of them are rebuilt and no unit
  was split otherwise before, that the files returned are exactly those of the
  plan.

`ArtifactInv` relates cargo's messages, which is all the code sees, to the files. What is
done has been reported if anything is (`Reported`) and has files (`HasFiles`). The code takes for a link
product, whose hash cargo does not report, the newest file of its crate name.
This is right because files of each hash have a time of their own and those of this
run are the latest (`Ordered`), and because what a unit needs was finished before (`NeededFirst`), so
a package's binary is newer than its library of the same name. That a newest
file exists is the well-foundedness of times below the clock (`LatestExists`).

Only model-checked is liveness: `Termination` of the search, the escape components and the
metrics. Of all three it is proved that every step lowers a measure that cannot be
lowered for ever (`EveryStepAdvances`, `WorkIsFinite`); that a step is possible until the
result is there, and taken, rests on `ENABLED` and fairness, which are out of the
provers' reach, as is the induction over the measure. Every other property that a
passing run checks is stated by one of the theorems above.

## Not modelled

`computeLocal` (counts of instructions), the formatting of JSON and DOT, option
parsing (`--no-name-roots` and `--dump-edges` with it), module loading and
demangling (LLVM calls), the walk over string constants, the parsing of version
texts and of cargo's configuration files, targets that mix C and Rust (each part
is acquired as modelled, one after the other), installation scripts, fixtures and
tests. Two runs on one project at the same time: nothing locks the project, and
nothing promises that this works.

## Plan

Done, in this order: `ReachableSet`, `Reachability`, its proofs; `ValueFlow`,
`EscapeSets`; `CallGraph`, `Soundness`; `Metrics`; `StaticLibs`, its proofs;
`Pipeline`; `RustNative`, `RustArtifacts`; `Roots`, `CovLists`; `Toolchain`, its proofs,
`CBuild`; `RustFlags`, its proofs; `Publication`; the proofs about `ValueFlow`,
`Soundness`, `Pipeline`, `RustNative`, `EscapeSets`, `Metrics`, `Roots`, `CBuild`, `RustArtifacts`,
`CovLists` and the nesting of static libraries; the proofs that join the parts of the
analyzer, from the requests to the ignorelist, and those that each of the
analyzer's loops advances with every step.

Next, to prove: the promise for a program that both looks up names and hands callbacks
to external code.

Next, to extend the models: an abstract specification for both Rust modules, a
set of this build's bitcode; targets that mix C and Rust, whose second part runs
in a tree the first has just built in.
