------------------------------- MODULE CProofs -------------------------------
(***************************************************************************)
(* Theorems about the acquisition of C and C++ bitcode.                    *)
(*                                                                         *)
(* StaticLibs, for any objects, member names, libraries and contents:      *)
(* whatever libraries replace the linker's view of the target, nothing     *)
(* linked is lost, failures fall back as a whole, and in auto mode exactly *)
(* the linked libraries are added.                                         *)
(*                                                                         *)
(* CBuild, for any units, products, machines and number of runs: the       *)
(* bitcode of the artifact is whole, of this run after a clean, from the   *)
(* newest artifact of its kind, and readable; by what toolchain.py asks of *)
(* a machine.                                                              *)
(***************************************************************************)
EXTENDS StaticLibs, CBuild, FiniteSetTheorems, TLAPS

(* On a machine where every major is installed once and the clang beside   *)
(* the checked one is the checked one, the linker reads what gclang        *)
(* writes and the analyzer reads what the linker writes.  The check itself *)
(* compares majors only, so both conditions are needed.                    *)
THEOREM CIsReadable ==
  ASSUME NEW m \in Machine, Accepts(m, FALSE), OneRelease(m), CheckedIsRun(m)
  PROVE  /\ Reads(Found(m, "llvm-link"), Compiler(m))
         /\ Reads(m.analyzer, Found(m, "llvm-link"))
<1>1. \A tool \in Tools : Major(Found(m, tool)) = Major(m.analyzer)
  BY DEF Accepts, Coherent
<1>2. \A tool \in Tools : Found(m, tool) = m.analyzer
  BY <1>1 DEF OneRelease
<1>3. m.analyzer \in Version
  BY DEF Machine
<1>4. \A v \in Version : AtLeast(v, v)
  BY DEF AtLeast, Major, Version
<1> QED
  BY <1>2, <1>3, <1>4 DEF Tools, CheckedIsRun, Reads

-----------------------------------------------------------------------------
(***************************************************************************)
(* The inductive invariant.                                                *)
(***************************************************************************)

(* The input: the manifest, if it can be read, is what is linked.          *)
InputOK ==
  /\ mode \in {"auto", "all"}
  /\ kind \in {"linked", "whole"}
  /\ linked \subseteq Objects
  /\ manifest \in {linked, {}}
  /\ kind = "whole" => manifest = {}
  /\ contents \in [Archives -> SUBSET Objects]

Union(S) == UNION {got[a] : a \in S}

(* What the stages have established.  Before the plan nothing is chosen;   *)
(* auto mode chooses nothing without a manifest; and during the sifting    *)
(* nothing has failed, and what is kept and what is still to come are      *)
(* together the objects of the relevant libraries.                         *)
StageInv ==
  /\ pc \in {"list", "plan", "extract", "decide"} => kept = {}
  /\ pc \in {"list", "plan"} =>
       /\ chosen = {} /\ todo = {}
       /\ \A a \in Archives : got[a] = {}
  /\ mode = "auto" /\ manifest = {} => chosen = {}
  /\ pc \in {"extract", "decide"} => chosen # {}
  /\ pc = "sift" =>
       /\ manifest = linked
       /\ ~Incomplete
       /\ kept \cup todo \subseteq Relevant
       /\ Union(kept) \cup Union(todo) = Union(Relevant)

IInv == TypeOK /\ InputOK /\ StageInv
          /\ NothingLinkedIsLost /\ FailureIsAtomic /\ AutoIsExact

-----------------------------------------------------------------------------
(* The invariant holds when the target has been chosen.                    *)
LEMMA InitInv == Init => IInv
BY ObjectAssumption
   DEF Init, IInv, TypeOK, InputOK, StageInv, NothingLinkedIsLost,
       FailureIsAtomic, AutoIsExact, Returned, Incomplete, Relevant

(* What is returned as the linker's view satisfies all three properties    *)
(* when an extraction failed, the manifest is missing, or, in auto mode,   *)
(* no chosen library is linked.                                            *)
LEMMA LinkersViewSafe ==
  ASSUME modules' = {linked'},
         Incomplete' \/ manifest' = {} \/ (mode' = "auto" => Relevant' = {}),
         InputOK'
  PROVE  NothingLinkedIsLost' /\ FailureIsAtomic' /\ AutoIsExact'
<1>1. Merged' = linked'
  BY DEF Merged
<1>2. mode' = "auto" => 
        IF Incomplete' \/ manifest' = {} THEN TRUE
        ELSE Union({b \in chosen : got[b] \cap linked # {}})' = {}
  BY DEF Relevant, InputOK, Union
<1>. QED
  BY <1>1, <1>2
     DEF NothingLinkedIsLost, FailureIsAtomic, AutoIsExact, Union

(* Listing the members of the archives chooses nothing yet.                *)
LEMMA ListInv ==
  ASSUME IInv, List
  PROVE  IInv'
<1>1. members' \in [Archives -> SUBSET Names(Objects)]
  BY DEF List, IInv, InputOK, Names
<1>. QED
  BY <1>1 DEF List, IInv, TypeOK, InputOK, StageInv, NothingLinkedIsLost,
       FailureIsAtomic, AutoIsExact, Returned, Incomplete, Relevant, input

(* Without a chosen archive, the linker's view is returned at once.        *)
LEMMA PlanInv ==
  ASSUME IInv, Plan
  PROVE  IInv'
<1>1. InputOK' /\ Chosen \subseteq Archives
  BY DEF Plan, IInv, InputOK, input, Chosen
<1>2. TypeOK'
  BY DEF Plan, LinkersView, IInv, TypeOK, StageInv, InputOK, Chosen, input
<1>3. mode' = "auto" /\ manifest' = {} => chosen' = {}
  BY DEF Plan, Chosen, Names, input
<1>4. CASE Chosen = {}
  <2>1. modules' = {linked'} /\ pc' = "merge" /\ Relevant' = {}
    BY <1>4 DEF Plan, LinkersView, input, Relevant
  <2>2. StageInv'
    BY <1>3, <2>1 DEF StageInv
  <2>. QED
    BY <1>1, <1>2, <2>1, <2>2, LinkersViewSafe DEF IInv
<1>5. CASE Chosen # {}
  <2>1. pc' = "extract" /\ chosen' # {}
    BY <1>5 DEF Plan
  <2>2. StageInv'
    BY <1>3, <2>1 DEF Plan, IInv, StageInv
  <2>. QED
    BY <1>1, <1>2, <2>1, <2>2
       DEF IInv, NothingLinkedIsLost, FailureIsAtomic, AutoIsExact, Returned
<1>. QED
  BY <1>4, <1>5

(* Extracting one more archive changes no choice.                          *)
LEMMA ExtractInv ==
  ASSUME IInv, Extract
  PROVE  IInv'
<1>1. PICK a \in todo : \E S \in SUBSET contents[a] :
        todo' = todo \ {a} /\ got' = [got EXCEPT ![a] = S]
  BY DEF Extract
<1>2. a \in chosen /\ a \in Archives /\ contents[a] \subseteq Objects
  BY <1>1 DEF IInv, TypeOK, InputOK
<1>3. TypeOK' /\ InputOK'
  BY <1>1, <1>2 DEF Extract, IInv, TypeOK, InputOK, input
<1>4. pc' \in {"extract", "decide"} /\ chosen' # {}
  BY DEF Extract, IInv, StageInv
<1>5. StageInv'
  BY <1>4 DEF Extract, IInv, StageInv, input
<1>. QED
  BY <1>3, <1>4, <1>5
     DEF IInv, NothingLinkedIsLost, FailureIsAtomic, AutoIsExact, Returned

(* Deciding ends in the linker's view or starts the sifting.               *)
LEMMA DecideInv ==
  ASSUME IInv, Decide
  PROVE  IInv'
<1>1. InputOK' /\ UNCHANGED <<mode, kind, linked, manifest, chosen, got>>
  BY DEF Decide, IInv, InputOK, input
<1>2. Incomplete' = Incomplete /\ Relevant' = Relevant /\ Relevant \subseteq chosen
  BY <1>1 DEF Incomplete, Relevant
<1>3. chosen # {} /\ (mode = "auto" => manifest # {} /\ manifest = linked)
  BY DEF Decide, IInv, InputOK, StageInv
<1>a. kept \subseteq chosen
  BY DEF IInv, TypeOK
<1>4. CASE Incomplete \/ (kind = "linked" /\ (manifest = {} \/ Relevant = {}))
  <2>1. modules' = {linked'} /\ pc' = "merge" /\ UNCHANGED <<todo, kept>>
    BY <1>4, <1>1 DEF Decide, LinkersView
  <2>2. TypeOK'
    BY <2>1, <1>1 DEF Decide, IInv, TypeOK, InputOK, input
  <2>3. StageInv'
    BY <2>1, <1>1 DEF IInv, StageInv
  <2>. QED
    BY <1>1, <1>2, <1>4, <2>1, <2>2, <2>3, LinkersViewSafe DEF IInv
<1>5. CASE ~Incomplete /\ kind = "linked" /\ manifest # {} /\ Relevant # {}
  <2>1. pc' = "sift" /\ todo' = Relevant /\ UNCHANGED <<kept, modules>>
    BY <1>5 DEF Decide
  <2>2. TypeOK'
    BY <2>1, <1>1, <1>2 DEF Decide, IInv, TypeOK, InputOK, input
  <2>3. Union(kept)' = {} /\ Union(todo)' = Union(Relevant)'
    BY <1>1, <1>2, <2>1 DEF Decide, IInv, StageInv, Union
  <2>4. StageInv'
    BY <1>1, <1>2, <1>3, <1>5, <2>1, <2>3 DEF Decide, IInv, InputOK, StageInv
  <2>. QED
    BY <1>1, <2>1, <2>2, <2>4
       DEF IInv, NothingLinkedIsLost, FailureIsAtomic, AutoIsExact, Returned
<1>6. CASE ~Incomplete /\ kind # "linked"
  <2>1. /\ pc' = "merge" /\ kept' = chosen /\ UNCHANGED todo
        /\ modules' = {linked} \cup {got[a] : a \in chosen}
    BY <1>6 DEF Decide
  <2>2. mode = "all"
    BY <1>3, <1>6 DEF IInv, InputOK
  <2>3. TypeOK'
    BY <2>1, <1>1 DEF Decide, IInv, TypeOK, InputOK, input
  <2>4. linked' \subseteq Merged'
    BY <2>1, <1>1 DEF Merged
  <2>. QED
    BY <1>1, <1>2, <1>3, <1>6, <2>1, <2>2, <2>3, <2>4
       DEF IInv, StageInv, NothingLinkedIsLost, FailureIsAtomic, AutoIsExact, Incomplete
<1>. QED
  BY <1>4, <1>5, <1>6

(* A dropped library is covered by one that is kept, so no object leaves.  *)
LEMMA SiftInv ==
  ASSUME IInv, Sift
  PROVE  IInv'
<1>1. PICK a \in todo :
        /\ todo' = todo \ {a}
        /\ kept' = IF got[a] \subseteq Covered THEN kept ELSE kept \cup {a}
  BY DEF Sift, Largest
<1>2. UNCHANGED <<input, members, pc, chosen, got, modules>> /\ pc = "sift"
  BY DEF Sift
<1>3. InputOK' /\ Incomplete' = Incomplete /\ Relevant' = Relevant
  BY <1>2 DEF input, IInv, InputOK, Incomplete, Relevant
<1>4. TypeOK'
  BY <1>1, <1>2 DEF IInv, TypeOK, InputOK, input
<1>5. Union(kept)' \cup Union(todo)' = Union(kept) \cup Union(todo)
  <2>1. Union(kept)' = Union(kept) \cup got[a] \/ (got[a] \subseteq Union(kept) /\ kept' = kept)
    BY <1>1, <1>2 DEF Union, Covered
  <2>2. Union(todo) = Union(todo \ {a}) \cup got[a]
    BY <1>1 DEF Union
  <2>3. Union(todo)' = Union(todo \ {a}) /\ (kept' = kept => Union(kept)' = Union(kept))
    BY <1>1, <1>2 DEF Union
  <2>. QED
    BY <2>1, <2>2, <2>3
<1>6. StageInv'
  <2>1. Union(Relevant)' = Union(Relevant)
    BY <1>2, <1>3 DEF Union
  <2>. QED
    BY <1>1, <1>2, <1>3, <1>5, <2>1 DEF IInv, StageInv, input
<1>. QED
  BY <1>2, <1>3, <1>4, <1>6
     DEF IInv, NothingLinkedIsLost, FailureIsAtomic, AutoIsExact, Returned

(* What is composed is the target and the libraries kept.                  *)
LEMMA ComposeInv ==
  ASSUME IInv, Compose
  PROVE  IInv'
<1>1. /\ modules' = {{o} : o \in OwnObjects} \cup {got[a] : a \in kept}
      /\ pc' = "merge" /\ pc = "sift" /\ todo = {}
      /\ UNCHANGED <<input, members, chosen, todo, got, kept>>
  BY DEF Compose
<1>2. /\ InputOK' /\ Incomplete' = Incomplete /\ Relevant' = Relevant
      /\ manifest = linked /\ ~Incomplete
  BY <1>1 DEF input, IInv, InputOK, Incomplete, Relevant, StageInv
<1>3. OwnObjects \subseteq Objects /\ kept \subseteq Archives
  BY <1>1, <1>2 DEF OwnObjects, IInv, InputOK, TypeOK
<1>4. TypeOK'
  BY <1>1, <1>3 DEF IInv, TypeOK, InputOK, input
<1>5. Merged' = OwnObjects \cup Union(kept)
  BY <1>1 DEF Merged, Union
<1>6. Merged' = linked \cup Union(Relevant)
  <2>1. Union(kept) = Union(Relevant)
    BY <1>1 DEF IInv, StageInv, Union
  <2>. QED
    BY <1>2, <1>5, <2>1 DEF OwnObjects, Covered, Union
<1>7. mode = "auto" => Union(Relevant) = Union({b \in chosen : got[b] \cap linked # {}})
  BY <1>2 DEF Relevant
<1>8. linked = {} => Union({b \in chosen : got[b] \cap linked # {}}) = {}
  BY DEF Union
<1>9. AutoIsExact'
  BY <1>1, <1>2, <1>6, <1>7, <1>8 DEF AutoIsExact, Union, input
<1>10. NothingLinkedIsLost' /\ FailureIsAtomic' /\ StageInv'
  BY <1>1, <1>2, <1>6
     DEF NothingLinkedIsLost, FailureIsAtomic, StageInv, IInv, Incomplete, input
<1>. QED
  BY <1>2, <1>4, <1>9, <1>10 DEF IInv

(* The merge changes no module.                                            *)
LEMMA MergeInv ==
  ASSUME IInv, Merge
  PROVE  IInv'
BY DEF Merge, IInv, TypeOK, InputOK, StageInv, NothingLinkedIsLost, FailureIsAtomic,
       AutoIsExact, Returned, Merged, Incomplete, Relevant, Union, input

(* The invariant depends on the variables only.                            *)
LEMMA StutterInv ==
  ASSUME IInv, UNCHANGED vars
  PROVE  IInv'
<1>. USE DEF vars, input
<1>1. TypeOK' /\ InputOK'
  BY DEF IInv, TypeOK, InputOK
<1>2. StageInv'
  <2>1. Incomplete' = Incomplete /\ Relevant' = Relevant
    BY DEF Incomplete, Relevant
  <2>2. /\ Union(kept)' = Union(kept) /\ Union(todo)' = Union(todo)
        /\ Union(Relevant)' = Union(Relevant)
    BY <2>1 DEF Union
  <2>. QED
    BY <2>1, <2>2 DEF IInv, StageInv
<1>3. NothingLinkedIsLost' /\ FailureIsAtomic'
  BY DEF IInv, NothingLinkedIsLost, FailureIsAtomic, Returned, Merged
<1>4. AutoIsExact'
  BY DEF IInv, AutoIsExact, Returned, Merged, Incomplete
<1>. QED
  BY <1>1, <1>2, <1>3, <1>4 DEF IInv

-----------------------------------------------------------------------------
(* The inductive invariant holds of every behaviour. *)
LEMMA Invariance == Spec => []IInv
<1>1. ASSUME IInv, [Next]_vars
      PROVE  IInv'
  BY <1>1, ListInv, PlanInv, ExtractInv, DecideInv, SiftInv, ComposeInv, MergeInv,
     StutterInv DEF Next
<1>. QED
  BY <1>1, InitInv, PTL DEF Spec

(* Nothing the linker took into the target is lost by replacing its view   *)
(* with whole libraries, whatever objects they share and however the names *)
(* of their members collide.                                               *)
THEOREM NothingIsLost == Spec => []Inv
<1>1. IInv => Inv
  BY DEF IInv, Inv
<1>. QED
  BY <1>1, Invariance, PTL

(* A failed extraction, of whichever library and however late, leaves the  *)
(* linker's view and nothing else.                                         *)
THEOREM FallbackIsAtomic == Spec => []FailureIsAtomic
<1>1. IInv => FailureIsAtomic
  BY DEF IInv
<1>. QED
  BY <1>1, Invariance, PTL

(* In auto mode what is merged is the target and all libraries that have   *)
(* an object in common with it, no more.                                   *)
THEOREM AutoTakesTheLinked == Spec => []AutoIsExact
<1>1. IInv => AutoIsExact
  BY DEF IInv
<1>. QED
  BY <1>1, Invariance, PTL


(***************************************************************************)
(* The sifting takes the larger libraries first, so that none it keeps is  *)
(* inside another; and the target's own objects are in none of them.       *)
(***************************************************************************)
Sifted ==
  /\ pc = "sift" => \A a \in kept, b \in todo : Cardinality(got[b]) <= Cardinality(got[a])
  /\ kind = "linked" => \A a, b \in kept : a = b \/ ~(got[a] \subseteq got[b])
  /\ Returned /\ kind = "linked" =>
       modules = {linked} \/ modules = {{o} : o \in OwnObjects} \cup {got[a] : a \in kept}

LEMMA ContentsAreFinite ==
  ASSUME TypeOK, NEW a \in Archives
  PROVE  got[a] \subseteq Objects /\ IsFiniteSet(got[a]) /\ Cardinality(got[a]) \in Nat
BY ObjectAssumption, FS_Subset, FS_CardinalityType DEF TypeOK

(* A library not yet covered is inside none that is kept, and none that is *)
(* kept is inside it, being at least as large.                             *)
LEMMA SiftKeepsSifted ==
  ASSUME IInv, Sifted, Sift
  PROVE  Sifted'
<1>1. PICK a \in Largest(todo) :
        /\ todo' = todo \ {a}
        /\ kept' = IF got[a] \subseteq Covered THEN kept ELSE kept \cup {a}
  BY DEF Sift
<1>2. /\ pc = "sift" /\ pc' = pc /\ got' = got /\ kind' = kind /\ a \in todo
      /\ \A b \in todo : Cardinality(got[b]) <= Cardinality(got[a])
  BY DEF Sift, input, Largest
<1>3. /\ TypeOK /\ todo \subseteq Archives /\ kept \subseteq Archives
      /\ \A b \in kept, c \in todo : Cardinality(got[c]) <= Cardinality(got[b])
  BY <1>2 DEF IInv, TypeOK, Sifted
<1>4. \A b \in kept', c \in todo' : Cardinality(got[c]) <= Cardinality(got[b])
  BY <1>1, <1>2, <1>3
<1>5. ASSUME kind = "linked", NEW b \in kept, ~(got[a] \subseteq Covered)
      PROVE  ~(got[a] \subseteq got[b]) /\ ~(got[b] \subseteq got[a])
  <2>1. ~(got[a] \subseteq got[b])
    BY <1>5 DEF Covered
  <2>2. ASSUME got[b] \subseteq got[a]
        PROVE  FALSE
    <3>1. /\ IsFiniteSet(got[a]) /\ Cardinality(got[a]) \in Nat
          /\ Cardinality(got[b]) \in Nat
      BY <1>2, <1>3, ContentsAreFinite
    <3>2. Cardinality(got[a]) <= Cardinality(got[b])
      BY <1>2, <1>3
    <3>3. Cardinality(got[b]) <= Cardinality(got[a])
      BY <2>2, <3>1, FS_Subset
    <3>4. got[a] = got[b]
      BY <2>2, <3>1, <3>2, <3>3, FS_Subset
    <3>. QED BY <2>1, <3>4
  <2>. QED BY <2>1, <2>2
<1>6. kind = "linked" => \A b, c \in kept' : b = c \/ ~(got[b] \subseteq got[c])
  BY <1>1, <1>5 DEF Sifted
<1>. QED
  BY <1>2, <1>4, <1>6 DEF Sifted, Returned

LEMMA StepKeepsSifted ==
  ASSUME IInv, Sifted, [Next]_vars
  PROVE  Sifted'
<1>1. CASE List
  BY <1>1 DEF IInv, StageInv, Sifted, List, Returned, input
<1>2. CASE Plan
  BY <1>2 DEF IInv, StageInv, Sifted, Plan, Returned, input, LinkersView
<1>3. CASE Extract
  BY <1>3 DEF IInv, StageInv, Sifted, Extract, Returned, input
<1>4. CASE Decide
  BY <1>4 DEF IInv, StageInv, Sifted, Decide, Returned, input, LinkersView
<1>5. CASE Sift
  BY <1>5, SiftKeepsSifted
<1>6. CASE Compose
  BY <1>6 DEF Sifted, Compose, Returned, input, OwnObjects, Covered
<1>7. CASE Merge
  BY <1>7 DEF Sifted, Merge, Returned, input, OwnObjects, Covered
<1>8. CASE UNCHANGED vars
  BY <1>8 DEF Sifted, vars, Returned, input, OwnObjects, Covered
<1>. QED
  BY <1>1, <1>2, <1>3, <1>4, <1>5, <1>6, <1>7, <1>8 DEF Next

(* pc is "error" only where an object is defined twice.                    *)
ErrorIsTwice == pc = "error" => Twice # {}

(* Of modules that define one object twice, two differ.                    *)
LEMMA TwiceMeansTwo ==
  ASSUME NEW o \in Twice
  PROVE  \E m, n \in modules : m # n /\ o \in m /\ o \in n
<1>. DEFINE M == {m \in modules : o \in m}
<1> SUFFICES ASSUME \A m, n \in M : m = n PROVE FALSE
  OBVIOUS
<1>1. M = {} \/ \E m : M = {m}
  OBVIOUS
<1>2. Cardinality(M) = 0 \/ Cardinality(M) = 1
  BY <1>1, FS_EmptySet, FS_Singleton
<1>3. Cardinality(M) > 1
  BY DEF Twice
<1>. QED BY <1>2, <1>3

(* Libraries that are disjoint or one inside the other are linked without  *)
(* a definition twice.                                                     *)
THEOREM NestedLibrariesLink == Spec => []NestedLibrariesMerge
<1>1. Init => Sifted /\ ErrorIsTwice
  BY DEF Init, Sifted, ErrorIsTwice, Returned
<1>2. IInv /\ Sifted /\ [Next]_vars => Sifted'
  BY StepKeepsSifted
<1>3. ErrorIsTwice /\ [Next]_vars => ErrorIsTwice'
  BY DEF ErrorIsTwice, Next, vars, List, Plan, LinkersView, Extract, Decide, Sift, Compose,
         Merge, Twice
<1>4. IInv /\ Sifted /\ ErrorIsTwice => NestedLibrariesMerge
  <2> SUFFICES ASSUME IInv, Sifted, Twice # {}, pc = "error", kind = "linked"
               PROVE  \E a, b \in chosen : /\ got[a] \cap got[b] # {}
                                          /\ ~(got[a] \subseteq got[b])
                                          /\ ~(got[b] \subseteq got[a])
    BY DEF NestedLibrariesMerge, ErrorIsTwice
  <2>1. PICK o \in Twice : TRUE
    OBVIOUS
  <2>2. PICK m \in modules, n \in modules : m # n /\ o \in m /\ o \in n
    BY TwiceMeansTwo
  <2>3. modules = {{q} : q \in OwnObjects} \cup {got[a] : a \in kept}
    BY <2>2 DEF Sifted, Returned
  <2>4. \A q \in OwnObjects, a \in kept : q \notin got[a]
    BY DEF OwnObjects, Covered
  <2>5. PICK a \in kept, b \in kept : m = got[a] /\ n = got[b]
    BY <2>2, <2>3, <2>4
  <2>6. a # b /\ a \in chosen /\ b \in chosen
    BY <2>2, <2>5 DEF IInv, TypeOK
  <2>. QED
    BY <2>2, <2>5, <2>6 DEF Sifted
<1>. QED
  BY <1>1, <1>2, <1>3, <1>4, Invariance, PTL DEF Spec

-----------------------------------------------------------------------------
(***************************************************************************)
(* The build that precedes: the inductive invariant of CBuild.             *)
(***************************************************************************)

(* The types, also of what the run reads but no property speaks of.        *)
Types ==
  /\ BuildTypeOK
  /\ project \in [files : SUBSET BuildFiles, sharing : BOOLEAN, option : BOOLEAN]
  /\ by \in [1 .. MaxRuns -> Version]

(* What is settled at each stage.                                          *)
Linking == {"build", "extract", "done"}

Stages ==
  /\ stage # "stopped" => machine \in Machines
  /\ stage \in {"toolchain", "clean", "sweep", "configure"} => \A p \in Products : made[p] < run
  /\ stage = "toolchain" => clean \in {"no", "asked"}
  /\ stage = "clean" => clean = "asked"
  /\ stage = "sweep" => clean \in {"asked", "warned"}
  /\ stage \in {"configure"} \cup Linking => clean # "asked"
  /\ stage \notin {"extract", "done"} => tried = {} /\ product = None
  /\ forced => ~shared

(* What the sweep has dealt with is gone, or there was a warning.          *)
Sweeping ==
  /\ stage \in {"clean", "sweep"} => torn
  /\ stage = "sweep" /\ clean # "warned" =>
       \A u \in Units : /\ (<<"o", u>> \in left \/ obj[u] = Absent)
                        /\ (<<"bc", u>> \in left \/ bc[u] = Absent)

Swept == clean = "complete" => \A u \in Units : bc[u] \in {Absent, run}

(* What a product linked by this run names.                                *)
LinkedNow ==
  stage \in Linking => \A p \in Products : made[p] = run =>
    /\ p \in Direct => holds[p] = Parts[p] /\ \A u \in Parts[p] : bc[u] = run
    /\ p \notin Direct =>
         /\ \A u \in Parts[p] : Current(u)
         /\ ~shared => holds[p] = {u \in Parts[p] : obj[u] > Plain}

(* A run beyond the check has been accepted, and compiles with what it     *)
(* found.                                                                  *)
Going == {"clean", "sweep", "configure", "build", "extract"}

Reading ==
  /\ stage \in Going => Coherent(machine)
  /\ stage \in {"build", "extract"} => by[run] = Compiler(machine)

Taken == stage = "done" => product \in offered /\ bitcode = Present(product)

BuildInvariant ==
  /\ Types /\ Stages /\ Sweeping /\ Swept /\ LinkedNow /\ Reading /\ Taken
  /\ BitcodeIsNotOlder /\ NothingMissing /\ FreshNotPassedOver

-----------------------------------------------------------------------------
LEMMA CompilerHasVersion ==
  ASSUME NEW m \in Machine
  PROVE  Compiler(m) \in Version
BY DEF Machine, Compiler, Place, Places

LEMMA BuildAtFirst ==
  ASSUME BuildInit
  PROVE  BuildInvariant
<1>1. Types
  <2>1. /\ project \in [files : SUBSET BuildFiles, sharing : BOOLEAN, option : BOOLEAN]
        /\ shared \in BOOLEAN
    BY BuildAssumption DEF BuildInit
  <2>2. by \in [1 .. MaxRuns -> Version]
    BY DEF BuildInit, NoTool, Version
  <2>3. run = 1 /\ 1 \in 1 .. MaxRuns
    BY BuildAssumption DEF BuildInit, Plain
  <2>4. /\ obj \in [Units -> 0 .. 1] /\ bc \in [Units -> 0 .. 1]
        /\ changed \in [Units -> 1 .. 1]
        /\ made \in [Products -> 0 .. 1] /\ holds \in [Products -> SUBSET Units]
    BY DEF BuildInit, Absent, Plain
  <2>5. forced \in BOOLEAN /\ torn \in BOOLEAN
    BY DEF BuildInit
  <2>. QED
    BY <2>1, <2>2, <2>3, <2>4, <2>5 DEF Types, BuildTypeOK, BuildInit, Ended
<1>2. Stages /\ Reading /\ Sweeping /\ Swept /\ LinkedNow /\ Taken
  BY DEF BuildInit, Stages, Linking, Reading, Going, Sweeping, Swept, LinkedNow, Taken
<1>3. BitcodeIsNotOlder /\ NothingMissing /\ FreshNotPassedOver
  BY BuildAssumption DEF BuildInit, BitcodeIsNotOlder, NothingMissing,
     FreshNotPassedOver, Absent, Plain
<1>. QED
  BY <1>1, <1>2, <1>3 DEF BuildInvariant

-----------------------------------------------------------------------------
(***************************************************************************)
(* Every step of a run keeps it.                                           *)
(***************************************************************************)
LEMMA StartKeeps ==
  ASSUME BuildInvariant, Start
  PROVE  BuildInvariant'
<1>1. Types'
  BY BuildAssumption DEF BuildInvariant, Types, BuildTypeOK, Start, Ended,
     None, config, tree
<1>2. (Stages /\ Reading)'
  BY BuildAssumption DEF BuildInvariant, Stages, Linking, Reading, Going, Start,
     Ended, None, config, tree, Types, BuildTypeOK, Absent, Plain
<1>3. (Sweeping /\ Swept /\ BitcodeIsNotOlder /\ NothingMissing)'
  BY DEF BuildInvariant, Sweeping, Absent, Swept, BitcodeIsNotOlder,
     NothingMissing, Start, Ended, None,
     config, tree
<1>4. (LinkedNow /\ Taken /\ FreshNotPassedOver)'
  BY DEF BuildInvariant, LinkedNow, Linking, Current, Plain, Taken,
     Present, Named, FreshNotPassedOver, KindRank,
     Written, Start, Ended, None, config,
     tree
<1>. QED
  BY <1>1, <1>2, <1>3, <1>4 DEF BuildInvariant

LEMMA RefusedKeeps ==
  ASSUME BuildInvariant, Refused
  PROVE  BuildInvariant'
<1>1. Types'
  BY DEF BuildInvariant, Types, BuildTypeOK, Ended, Refused, Stop,
     None,
     tree
<1>2. (Stages /\ Reading)'
  BY DEF BuildInvariant, Stages, Linking, Reading, Going, Refused,
     None, Stop, tree
<1>3. (Sweeping /\ Swept /\ BitcodeIsNotOlder /\ NothingMissing)'
  BY DEF BuildInvariant, Sweeping, Absent, Swept, BitcodeIsNotOlder,
     NothingMissing, Refused, None, Stop,
     tree
<1>4. (LinkedNow /\ Taken /\ FreshNotPassedOver)'
  BY DEF BuildInvariant, LinkedNow, Linking, Current, Plain, Taken,
     Present, Named, FreshNotPassedOver, KindRank,
     Written, Refused, None, Stop, tree
<1>. QED
  BY <1>1, <1>2, <1>3, <1>4 DEF BuildInvariant

LEMMA AcceptedKeeps ==
  ASSUME BuildInvariant, Accepted
  PROVE  BuildInvariant'
<1>1. Types'
  BY DEF BuildInvariant, Types, BuildTypeOK, Accepted, answer,
     config, setup, tree
<1>2. (Stages /\ Reading)'
  BY DEF BuildInvariant, Stages, Linking, Reading, Going, Accepted, Accepts,
     setup, config, tree, answer
<1>3. (Sweeping /\ Swept /\ BitcodeIsNotOlder /\ NothingMissing)'
  BY DEF BuildInvariant, Sweeping, Absent, Swept, BitcodeIsNotOlder,
     NothingMissing, Accepted, answer, config,
     setup, tree
<1>4. (LinkedNow /\ Taken /\ FreshNotPassedOver)'
  BY DEF BuildInvariant, LinkedNow, Linking, Current, Plain, Taken,
     Present, Named, FreshNotPassedOver, KindRank,
     Written, Accepted, answer, config,
     setup, tree
<1>. QED
  BY <1>1, <1>2, <1>3, <1>4 DEF BuildInvariant

LEMMA BuildToolCleanKeeps ==
  ASSUME BuildInvariant, BuildToolClean
  PROVE  BuildInvariant'
<1>1. Types'
  BY DEF BuildInvariant, Types, BuildTypeOK, BuildToolClean,
     Absent, Suffixes, answer, config, setup
<1>2. (Stages /\ Reading)'
  BY BuildAssumption DEF BuildInvariant, Stages, Linking, Reading, Going,
     BuildToolClean, Absent, Suffixes, answer, config, setup, Types, BuildTypeOK,
     Plain
<1>3. (Sweeping /\ Swept /\ BitcodeIsNotOlder /\ NothingMissing)'
  BY DEF BuildInvariant, Sweeping, Absent, Swept, BitcodeIsNotOlder,
     NothingMissing, BuildToolClean, Suffixes,
     answer, config, setup
<1>4. (LinkedNow /\ Taken /\ FreshNotPassedOver)'
  BY DEF BuildInvariant, LinkedNow, Linking, Current, Plain, Taken,
     Present, Named, FreshNotPassedOver, KindRank,
     Written, BuildToolClean, Absent, Suffixes,
     answer, config, setup
<1>. QED
  BY <1>1, <1>2, <1>3, <1>4 DEF BuildInvariant

LEMMA DropKeeps ==
  ASSUME BuildInvariant, Drop
  PROVE  BuildInvariant'
<1>1. Types'
  <2>0. \E x : /\ obj' = [obj EXCEPT ![x] = Absent] \/ UNCHANGED obj
               /\ bc' = [bc EXCEPT ![x] = Absent] \/ UNCHANGED bc
    BY DEF Drop
  <2>1. obj' \in [Units -> 0 .. run] /\ bc' \in [Units -> 0 .. run]
    <3>1. Absent \in 0 .. run
      BY BuildAssumption DEF BuildInvariant, Types, BuildTypeOK, Absent
    <3>2. obj \in [Units -> 0 .. run] /\ bc \in [Units -> 0 .. run]
      BY DEF BuildInvariant, Types, BuildTypeOK
    <3>. QED
      BY <2>0, <3>1, <3>2
  <2>2. left' \subseteq left /\ clean' \in {clean, "warned"}
    BY DEF Drop
  <2>. QED
    BY <2>1, <2>2 DEF BuildInvariant, Types, BuildTypeOK, Drop, setup,
       config,
       links, answer
<1>2. (Stages /\ Reading)'
  BY DEF BuildInvariant, Stages, Linking, Reading, Going, Drop,
     Absent, answer, config, links, setup
<1>3. (Sweeping /\ Swept /\ BitcodeIsNotOlder /\ NothingMissing)'
  <2>1. PICK f \in left :
          /\ left' = left \ {f}
          /\ \/ /\ IF f[1] = "o" THEN obj' = [obj EXCEPT ![f[2]] = Absent] /\ UNCHANGED bc
                                 ELSE bc' = [bc EXCEPT ![f[2]] = Absent] /\ UNCHANGED obj
                /\ UNCHANGED clean
             \/ clean' = "warned" /\ UNCHANGED <<obj, bc>>
    BY DEF Drop
  <2>2. PICK u \in Units : f = <<"o", u>> \/ f = <<"bc", u>>
    BY <2>1 DEF BuildInvariant, Types, BuildTypeOK
  <2>3. \A v \in Units : v # u => obj'[v] = obj[v] /\ bc'[v] = bc[v]
    BY <2>1, <2>2 DEF BuildInvariant, Types, BuildTypeOK
  <2>4. \/ clean' = "warned" /\ UNCHANGED <<obj, bc>>
        \/ UNCHANGED <<clean, bc>> /\ obj'[u] = Absent /\ f = <<"o", u>>
        \/ UNCHANGED <<clean, obj>> /\ bc'[u] = Absent /\ f = <<"bc", u>>
    BY <2>1, <2>2 DEF BuildInvariant, Types, BuildTypeOK
  <2>5. torn /\ UNCHANGED <<run, stage, torn>> /\ clean # "complete" /\ clean' # "complete"
    BY <2>1 DEF BuildInvariant, Sweeping, Stages, Drop, setup
  <2>6. Sweeping'
    BY <2>1, <2>2, <2>3, <2>4, <2>5 DEF BuildInvariant, Sweeping
  <2>7. BitcodeIsNotOlder'
    BY <2>2, <2>3, <2>4, <2>5 DEF BuildInvariant, BitcodeIsNotOlder, Absent,
       Plain
  <2>. QED
    BY <2>5, <2>6, <2>7 DEF Swept, NothingMissing
<1>4. (LinkedNow /\ Taken /\ FreshNotPassedOver)'
  BY DEF BuildInvariant, LinkedNow, Linking, Current, Plain, Taken,
     Present, Named, FreshNotPassedOver, KindRank,
     Written, Drop, Absent, answer, config,
     links, setup
<1>. QED
  BY <1>1, <1>2, <1>3, <1>4 DEF BuildInvariant

LEMMA CleanedKeeps ==
  ASSUME BuildInvariant, Cleaned
  PROVE  BuildInvariant'
<1>1. Types'
  BY DEF BuildInvariant, Types, BuildTypeOK, Cleaned, answer,
     config, setup, tree
<1>2. (Stages /\ Reading)'
  BY DEF BuildInvariant, Stages, Linking, Reading, Going, Cleaned,
     answer, config, setup, tree
<1>3. (Sweeping /\ Swept /\ BitcodeIsNotOlder /\ NothingMissing)'
  <2>1. /\ left = {} /\ UNCHANGED <<run, obj, bc>> /\ stage = "sweep" /\ stage' = "configure"
        /\ torn' <=> clean = "warned"
        /\ clean' = "complete" => clean # "warned"
    BY DEF BuildInvariant, Stages, Cleaned, setup, tree
  <2>2. clean # "warned" => \A u \in Units : obj[u] = Absent /\ bc[u] = Absent
    BY <2>1 DEF BuildInvariant, Sweeping
  <2>. QED
    BY <2>1, <2>2 DEF BuildInvariant, Sweeping, Swept, BitcodeIsNotOlder,
       NothingMissing, Absent, Plain
<1>4. (LinkedNow /\ Taken /\ FreshNotPassedOver)'
  BY DEF BuildInvariant, LinkedNow, Linking, Current, Plain, Taken,
     Present, Named, FreshNotPassedOver, KindRank,
     Written, Cleaned, answer, config,
     setup, tree
<1>. QED
  BY <1>1, <1>2, <1>3, <1>4 DEF BuildInvariant

LEMMA ConfigureKeeps ==
  ASSUME BuildInvariant, Configure
  PROVE  BuildInvariant'
<1>1. Types'
  <2>1. machine \in Machine
    BY BuildAssumption DEF BuildInvariant, Stages, Configure
  <2>2. by' \in [1 .. MaxRuns -> Version]
    BY <2>1, CompilerHasVersion DEF BuildInvariant, Types, Configure
  <2>3. project' \in [files : SUBSET BuildFiles, sharing : BOOLEAN, option : BOOLEAN]
    <3>1. Generated \in SUBSET BuildFiles
      <4>1. ProbeOrder[1] = "configure" /\ ProbeOrder[2] = "Makefile"
        BY DEF ProbeOrder
      <4>2. "configure" \in BuildFiles /\ "Makefile" \in BuildFiles
        BY <4>1 DEF BuildFiles
      <4>3. \/ Generated = {} \/ Generated = {"Makefile"}
            \/ Generated = {"configure", "Makefile"}
        BY DEF Generated
      <4>. QED
        BY <4>2, <4>3
    <3>2. project' = [project EXCEPT !.files = @ \cup Generated]
      BY DEF Configure
    <3>3. project \in [files : SUBSET BuildFiles, sharing : BOOLEAN, option : BOOLEAN]
      BY DEF BuildInvariant, Types
    <3>4. project.files \cup Generated \in SUBSET BuildFiles
      BY <3>1, <3>3
    <3>. QED
      BY <3>2, <3>3, <3>4
  <2>4. shared' \in BOOLEAN /\ forced' \in BOOLEAN
    BY DEF BuildInvariant, Types, BuildTypeOK, Configure
  <2>. QED
    BY <2>2, <2>3, <2>4
    DEF BuildInvariant, Types, BuildTypeOK, Configure, setup, tree,
       answer
<1>2. (Stages /\ Reading)'
  BY BuildAssumption DEF BuildInvariant, Stages, Linking, Reading, Going,
     Configure, answer, setup, tree, Types, BuildTypeOK, Absent, Plain
<1>3. (Sweeping /\ Swept /\ BitcodeIsNotOlder /\ NothingMissing)'
  BY DEF BuildInvariant, Sweeping, Absent, Swept, BitcodeIsNotOlder,
     NothingMissing, Configure, answer, setup,
     tree
<1>4. (LinkedNow /\ Taken /\ FreshNotPassedOver)'
  BY BuildAssumption DEF BuildInvariant, LinkedNow, Linking, Current, Plain, Taken,
     Present, Named, FreshNotPassedOver, KindRank, Written, Configure, answer,
     setup, tree, Types, BuildTypeOK, Absent, Stages, Sweeping
<1>. QED
  BY <1>1, <1>2, <1>3, <1>4 DEF BuildInvariant

LEMMA OwnBuildCommandKeeps ==
  ASSUME BuildInvariant, OwnBuildCommand
  PROVE  BuildInvariant'
<1>1. Types'
  <2>1. machine \in Machine
    BY BuildAssumption DEF BuildInvariant, Stages, OwnBuildCommand
  <2>2. by' \in [1 .. MaxRuns -> Version]
    BY <2>1, CompilerHasVersion DEF BuildInvariant, Types, OwnBuildCommand
  <2>3. project' \in [files : SUBSET BuildFiles, sharing : BOOLEAN, option : BOOLEAN]
    BY DEF BuildInvariant, Types, OwnBuildCommand
  <2>4. shared' \in BOOLEAN /\ forced' \in BOOLEAN
    BY DEF BuildInvariant, Types, BuildTypeOK, OwnBuildCommand
  <2>. QED
    BY <2>2, <2>3, <2>4
    DEF BuildInvariant, Types, BuildTypeOK, OwnBuildCommand, setup,
       tree, answer
<1>2. (Stages /\ Reading)'
  BY BuildAssumption DEF BuildInvariant, Stages, Linking, Reading, Going,
     OwnBuildCommand, answer, setup, tree, Types, BuildTypeOK, Absent, Plain
<1>3. (Sweeping /\ Swept /\ BitcodeIsNotOlder /\ NothingMissing)'
  BY DEF BuildInvariant, Sweeping, Absent, Swept, BitcodeIsNotOlder,
     NothingMissing, OwnBuildCommand, answer,
     setup, tree
<1>4. (LinkedNow /\ Taken /\ FreshNotPassedOver)'
  BY BuildAssumption DEF BuildInvariant, LinkedNow, Linking, Current, Plain, Taken,
     Present, Named, FreshNotPassedOver, KindRank, Written, OwnBuildCommand,
     answer, setup, tree, Types, BuildTypeOK, Absent, Stages, Sweeping
<1>. QED
  BY <1>1, <1>2, <1>3, <1>4 DEF BuildInvariant

LEMMA CompileKeeps ==
  ASSUME BuildInvariant, Compile
  PROVE  BuildInvariant'
<1>1. Types'
  BY DEF BuildInvariant, Types, BuildTypeOK, Compile, Current,
     answer, config, links, setup
<1>2. (Stages /\ Reading)'
  BY DEF BuildInvariant, Stages, Linking, Reading, Going, Compile,
     Current, answer, config, links, setup
<1>3. (Sweeping /\ Swept /\ BitcodeIsNotOlder /\ NothingMissing)'
  BY BuildAssumption DEF BuildInvariant, Sweeping, Absent, Swept,
     BitcodeIsNotOlder, NothingMissing, Compile, Current, answer, config, links,
     setup, Types, BuildTypeOK, Plain
<1>4. (LinkedNow /\ Taken /\ FreshNotPassedOver)'
  BY DEF BuildInvariant, LinkedNow, Linking, Current, Plain, Taken,
     Present, Named, FreshNotPassedOver, KindRank,
     Written, Compile, answer, config,
     links, setup
<1>. QED
  BY <1>1, <1>2, <1>3, <1>4 DEF BuildInvariant

LEMMA LinkKeeps ==
  ASSUME BuildInvariant, Link
  PROVE  BuildInvariant'
<1>1. Types'
  <2>1. PICK p \in Products : /\ made' = [made EXCEPT ![p] = run]
                              /\ holds' = [holds EXCEPT ![p] = {u \in Linked(p) : obj[u] > Plain}]
    BY DEF Link
  <2>2. Linked(p) \subseteq Units
    BY BuildAssumption DEF Linked
  <2>3. made' \in [Products -> 0 .. run] /\ holds' \in [Products -> SUBSET Units]
    BY <2>1, <2>2 DEF BuildInvariant, Types, BuildTypeOK
  <2>. QED
    BY <2>3 DEF BuildInvariant, Types, BuildTypeOK, Link, answer, config, setup
<1>2. (Stages /\ Reading)'
  BY DEF BuildInvariant, Stages, Linking, Reading, Going, Link,
     Current, Linked, Plain, answer, config,
     setup
<1>3. (Sweeping /\ Swept /\ BitcodeIsNotOlder /\ NothingMissing)'
  BY DEF BuildInvariant, Sweeping, Absent, Swept, BitcodeIsNotOlder,
     NothingMissing, Link, Current, Linked,
     Plain, answer, config, setup
<1>4. (LinkedNow /\ Taken /\ FreshNotPassedOver)'
  BY BuildAssumption DEF BuildInvariant, LinkedNow, Linking, Current, Plain, Taken,
     Present, Named, FreshNotPassedOver, KindRank, Written, Link, Linked, answer,
     config, setup, Types, BuildTypeOK, Absent
<1>. QED
  BY <1>1, <1>2, <1>3, <1>4 DEF BuildInvariant

LEMMA CompileAndLinkKeeps ==
  ASSUME BuildInvariant, CompileAndLink
  PROVE  BuildInvariant'
<1>1. Types'
  <2>1. PICK p \in Direct : /\ bc' = [u \in Units |-> IF u \in Parts[p] THEN run ELSE bc[u]]
                            /\ made' = [made EXCEPT ![p] = run]
                            /\ holds' = [holds EXCEPT ![p] = Parts[p]]
    BY DEF CompileAndLink
  <2>2. p \in Products /\ Parts[p] \subseteq Units
    BY BuildAssumption
  <2>3. /\ made' \in [Products -> 0 .. run] /\ holds' \in [Products -> SUBSET Units]
        /\ bc' \in [Units -> 0 .. run]
    BY <2>1, <2>2 DEF BuildInvariant, Types, BuildTypeOK
  <2>. QED
    BY <2>3 DEF BuildInvariant, Types, BuildTypeOK, CompileAndLink, answer, config, setup
<1>2. (Stages /\ Reading)'
  BY DEF BuildInvariant, Stages, Linking, Reading, Going, CompileAndLink,
     OlderThanSource, answer, config, setup
<1>3. (Sweeping /\ Swept /\ BitcodeIsNotOlder /\ NothingMissing)'
  BY BuildAssumption DEF BuildInvariant, Sweeping, Absent, Swept,
     BitcodeIsNotOlder, NothingMissing, CompileAndLink, OlderThanSource, answer,
     config, setup, Types, BuildTypeOK, Plain
<1>4. LinkedNow'
  <2>1. PICK p \in Direct : /\ bc' = [u \in Units |-> IF u \in Parts[p] THEN run ELSE bc[u]]
                            /\ made' = [made EXCEPT ![p] = run]
                            /\ holds' = [holds EXCEPT ![p] = Parts[p]]
    BY DEF CompileAndLink
  <2>2. p \in Products /\ Direct \subseteq Products /\ Parts \in [Products -> SUBSET Units]
    BY BuildAssumption
  <2>3. UNCHANGED <<stage, run, obj, changed, shared>>
    BY DEF CompileAndLink, setup, config
  <2>4. /\ made'[p] = run /\ holds'[p] = Parts[p]
        /\ \A q \in Products \ {p} : made'[q] = made[q] /\ holds'[q] = holds[q]
        /\ \A u \in Units : bc'[u] = IF u \in Parts[p] THEN run ELSE bc[u]
    BY <2>1, <2>2 DEF BuildInvariant, Types, BuildTypeOK
  <2>. QED
    BY <2>2, <2>3, <2>4 DEF BuildInvariant, LinkedNow, Current, Linking
<1>5. (Taken /\ FreshNotPassedOver)'
  BY DEF BuildInvariant, Taken, FreshNotPassedOver, CompileAndLink, setup
<1>. QED
  BY <1>1, <1>2, <1>3, <1>4, <1>5 DEF BuildInvariant

LEMMA BuiltKeeps ==
  ASSUME BuildInvariant, Built
  PROVE  BuildInvariant'
<1>1. Types'
  BY BuildAssumption DEF BuildInvariant, Types, BuildTypeOK, Built, Absent,
     Candidates, config, setup, tree, Plain, Stages, Linking, Sweeping, LinkedNow,
     Current
<1>2. (Stages /\ Reading)'
  BY DEF BuildInvariant, Stages, Linking, Reading, Going, Built,
     Absent, Candidates, config, setup, tree
<1>3. (Sweeping /\ Swept /\ BitcodeIsNotOlder /\ NothingMissing)'
  BY DEF BuildInvariant, Sweeping, Absent, Swept, BitcodeIsNotOlder,
     NothingMissing, Built, Candidates, config,
     setup, tree
<1>4. (LinkedNow /\ Taken /\ FreshNotPassedOver)'
  BY DEF BuildInvariant, LinkedNow, Linking, Current, Plain, Taken,
     Present, Named, FreshNotPassedOver, KindRank,
     Written, Built, Absent, Candidates,
     config, setup, tree
<1>. QED
  BY <1>1, <1>2, <1>3, <1>4 DEF BuildInvariant

LEMMA ExtractGivenKeeps ==
  ASSUME BuildInvariant, ExtractGiven
  PROVE  BuildInvariant'
<1>1. Types'
  <2>1. PICK c \in Candidates : offered' = {c} /\ Take(c)
    BY DEF ExtractGiven
  <2>2. c \in Units \cup Products /\ Present(c) \subseteq Units
    BY <2>1 DEF BuildInvariant, Types, BuildTypeOK, Candidates, Present,
       Named
  <2>3. tried = {}
    BY DEF BuildInvariant, Stages, ExtractGiven
  <2>. QED
    BY <2>1, <2>2, <2>3 DEF BuildInvariant, Types, BuildTypeOK, Take, Ended,
       setup, config, tree
<1>2. (Stages /\ Reading)'
  BY DEF BuildInvariant, Stages, Linking, Reading, Going, ExtractGiven,
     Absent, Candidates, Take, config,
     setup, tree
<1>3. (Sweeping /\ Swept /\ BitcodeIsNotOlder /\ NothingMissing)'
  BY DEF BuildInvariant, Sweeping, Absent, Swept, BitcodeIsNotOlder,
     NothingMissing, ExtractGiven, Candidates,
     Take, config, setup, tree
<1>4. (LinkedNow /\ Taken /\ FreshNotPassedOver)'
  BY DEF BuildInvariant, LinkedNow, Linking, Current, Plain, Taken,
     Present, Named, FreshNotPassedOver, KindRank,
     Written, ExtractGiven, Absent, Candidates,
     Take, config, setup, tree
<1>. QED
  BY <1>1, <1>2, <1>3, <1>4 DEF BuildInvariant

LEMMA ExtractDetectedKeeps ==
  ASSUME BuildInvariant, ExtractDetected
  PROVE  BuildInvariant'
<1>1. Types'
  <2>1. PICK c \in Best : Take(c) /\ UNCHANGED offered
    BY DEF ExtractDetected
  <2>2. c \in offered /\ Present(c) \subseteq Units
    BY <2>1 DEF BuildInvariant, Types, BuildTypeOK, Best, Present, Named
  <2>. QED
    BY <2>1, <2>2 DEF BuildInvariant, Types, BuildTypeOK, Take, Ended,
       setup, config, tree
<1>2. (Stages /\ Reading)'
  BY DEF BuildInvariant, Stages, Linking, Reading, Going, ExtractDetected,
     Best, Take, config, setup, tree
<1>3. (Sweeping /\ Swept /\ BitcodeIsNotOlder /\ NothingMissing)'
  BY DEF BuildInvariant, Sweeping, Absent, Swept, BitcodeIsNotOlder,
     NothingMissing, ExtractDetected, Best, Take,
     config, setup, tree
<1>4. (LinkedNow /\ Taken /\ FreshNotPassedOver)'
  <2>1. PICK c \in Best : Take(c) /\ UNCHANGED offered
    BY DEF ExtractDetected
  <2>2. /\ UNCHANGED <<run, shared, changed, obj, bc, made, holds, tried>>
        /\ stage = "extract" /\ stage' = "done" /\ product' = c /\ bitcode' = Present(c)
    BY <2>1 DEF ExtractDetected, Take, setup, config, tree
  <2>3. LinkedNow'
    BY <2>2 DEF BuildInvariant, LinkedNow, Linking, Current
  <2>4. Taken'
    BY <2>1, <2>2 DEF Taken, Best, Present, Named
  <2>5. ASSUME NEW d \in offered \ tried, Written(c) # run, Named(d) # {},
               KindRank(d) >= KindRank(c)
        PROVE  Written(d) # run
    <3>1. /\ c \in Units \cup Products /\ d \in Units \cup Products
          /\ \A x \in Units \cup Products :
               Written(x) \in 0 .. run /\ run \in Nat /\ KindRank(x) \in Nat
      BY <2>1 DEF BuildInvariant, Types, BuildTypeOK, Best, Written,
         KindRank
    <3>2. Marked(c) = 1 /\ Marked(d) = 1
      BY <2>1, <2>5 DEF Take, Present, Marked
    <3>3. ~Outranks(d, c)
      BY <2>1, <2>5 DEF Best
    <3>. QED
      BY <2>5, <3>1, <3>2, <3>3 DEF Outranks, Newer
  <2>6. FreshNotPassedOver'
    BY <2>2, <2>1, <2>5 DEF FreshNotPassedOver, Written, Named,
       KindRank
  <2>. QED
    BY <2>3, <2>4, <2>6
<1>. QED
  BY <1>1, <1>2, <1>3, <1>4 DEF BuildInvariant

LEMMA ExtractionFailsKeeps ==
  ASSUME BuildInvariant, ExtractionFails
  PROVE  BuildInvariant'
<1>1. Types'
  BY DEF BuildInvariant, Types, BuildTypeOK, ExtractionFails, Best,
     config, setup, tree
<1>2. (Stages /\ Reading)'
  BY DEF BuildInvariant, Stages, Linking, Reading, Going, ExtractionFails,
     Best, config, setup, tree
<1>3. (Sweeping /\ Swept /\ BitcodeIsNotOlder /\ NothingMissing)'
  BY DEF BuildInvariant, Sweeping, Absent, Swept, BitcodeIsNotOlder,
     NothingMissing, ExtractionFails, Best,
     config, setup, tree
<1>4. (LinkedNow /\ Taken /\ FreshNotPassedOver)'
  BY DEF BuildInvariant, LinkedNow, Linking, Current, Plain, Taken,
     Present, Named, FreshNotPassedOver, KindRank,
     Written, ExtractionFails, Best, config,
     setup, tree
<1>. QED
  BY <1>1, <1>2, <1>3, <1>4 DEF BuildInvariant

LEMMA AbortKeeps ==
  ASSUME BuildInvariant, Abort
  PROVE  BuildInvariant'
<1>1. Types'
  BY DEF BuildInvariant, Types, BuildTypeOK, Abort, Ended,
     None, Stop, tree
<1>2. (Stages /\ Reading)'
  BY DEF BuildInvariant, Stages, Linking, Reading, Going, Abort,
     Ended, None, Stop, tree
<1>3. (Sweeping /\ Swept /\ BitcodeIsNotOlder /\ NothingMissing)'
  BY DEF BuildInvariant, Sweeping, Absent, Swept, BitcodeIsNotOlder,
     NothingMissing, Abort, Ended, None,
     Stop, tree
<1>4. (LinkedNow /\ Taken /\ FreshNotPassedOver)'
  BY DEF BuildInvariant, LinkedNow, Linking, Current, Plain, Taken,
     Present, Named, FreshNotPassedOver, KindRank,
     Written, Abort, Ended, None, Stop,
     tree
<1>. QED
  BY <1>1, <1>2, <1>3, <1>4 DEF BuildInvariant

LEMMA StutterKeeps ==
  ASSUME BuildInvariant, UNCHANGED buildVars
  PROVE  BuildInvariant'
<1>1. (Types /\ Stages /\ Reading)'
  BY DEF BuildInvariant, Types, BuildTypeOK, Stages, Linking, Reading, Going,
     buildVars, setup,
     config, tree, answer
<1>2. (Sweeping /\ Swept /\ BitcodeIsNotOlder /\ NothingMissing)'
  BY DEF BuildInvariant, Sweeping, Swept, BitcodeIsNotOlder, NothingMissing,
     buildVars,
     setup, tree
<1>3. (LinkedNow /\ Taken /\ FreshNotPassedOver)'
  BY DEF BuildInvariant, LinkedNow, Linking, Current, Taken, Present, Named,
     FreshNotPassedOver, KindRank, Written, buildVars, setup,
     config, tree, answer
<1>. QED
  BY <1>1, <1>2, <1>3 DEF BuildInvariant

LEMMA BuildInvariance ==
  BuildSpec => []BuildInvariant
<1>1. BuildInit => BuildInvariant
  BY BuildAtFirst
<1>2. BuildInvariant /\ [BuildNext]_buildVars => BuildInvariant'
  BY StutterKeeps, StartKeeps, RefusedKeeps, AcceptedKeeps, BuildToolCleanKeeps,
     DropKeeps, CleanedKeeps, ConfigureKeeps, OwnBuildCommandKeeps, CompileKeeps,
     LinkKeeps, CompileAndLinkKeeps, BuiltKeeps, ExtractGivenKeeps,
     ExtractDetectedKeeps, ExtractionFailsKeeps, AbortKeeps
  DEF BuildNext
<1>. QED
  BY <1>1, <1>2, PTL DEF BuildSpec

-----------------------------------------------------------------------------
(***************************************************************************)
(* What a build gives the analyzer.                                        *)
(***************************************************************************)

(* The objects of gclang and the hidden bitcode they name go together,     *)
(* whatever the build tool does and wherever runs are killed: no object    *)
(* names older bitcode, nor any that is missing unless a clean was cut     *)
(* short.                                                                  *)
THEOREM BitcodeGoesWithObjects ==
  BuildSpec => []BuildInv
<1>1. BuildInvariant => BuildInv
  BY DEF BuildInvariant, Types, BuildInv
<1>. QED
  BY <1>1, BuildInvariance, PTL

(* The artifact that this run has linked comes out whole, unless a clean   *)
(* was cut short, the user's objects were kept or a shared library could   *)
(* not be avoided.                                                         *)
THEOREM ArtifactIsWhole ==
  BuildSpec => []WholeUnlessTorn
<1>1. BuildInvariant => WholeUnlessTorn
  <2>1. SUFFICES ASSUME BuildInvariant, stage = "done", product \in Products, made[product] = run,
                        forced \/ ~shared, ~torn, \A u \in Units : obj[u] # Plain
                 PROVE  bitcode = Parts[product]
    BY DEF WholeUnlessTorn
  <2>2. /\ bitcode = {u \in holds[product] : bc[u] # Absent}
        /\ ~shared /\ Parts[product] \subseteq Units
    BY <2>1, BuildAssumption DEF BuildInvariant, Taken, Present, Named, Stages
  <2>3. CASE product \in Direct
    BY <2>1, <2>2, <2>3
    DEF BuildInvariant, LinkedNow, Linking, Types, BuildTypeOK, Absent
  <2>4. CASE product \notin Direct
    <3>1. /\ \A u \in Parts[product] : Current(u)
          /\ holds[product] = {u \in Parts[product] : obj[u] > Plain}
      BY <2>1, <2>2, <2>4 DEF BuildInvariant, LinkedNow, Linking
    <3>2. \A u \in Parts[product] : obj[u] > Plain
      BY <2>1, <2>2, <3>1 DEF BuildInvariant, Types, BuildTypeOK, Current, Plain
    <3>. QED
      BY <2>1, <2>2, <3>1, <3>2 DEF BuildInvariant, NothingMissing
  <2>. QED
    BY <2>3, <2>4
<1>. QED
  BY <1>1, BuildInvariance, PTL

(* After a clean without warnings all bitcode that is returned is of this  *)
(* run, although products the sweep does not know may be older.            *)
THEOREM CleanBuildIsFresh ==
  BuildSpec => []CleanNothingStale
<1>1. BuildInvariant => CleanNothingStale
  <2>1. SUFFICES ASSUME BuildInvariant, stage = "done", clean = "complete", NEW u \in bitcode
                 PROVE  bc[u] = run
    BY DEF CleanNothingStale
  <2>2. u \in Units /\ bc[u] # Absent
    BY <2>1 DEF BuildInvariant, Types, BuildTypeOK, Taken, Present
  <2>. QED
    BY <2>1, <2>2 DEF BuildInvariant, Swept
<1>. QED
  BY <1>1, BuildInvariance, PTL

(* An artifact of this run loses to an older one only by its kind, by      *)
(* having no bitcode, or after a failed extraction.                        *)
THEOREM FreshComesFirst ==
  BuildSpec => []FreshNotPassedOver
<1>1. BuildInvariant => FreshNotPassedOver
  BY DEF BuildInvariant
<1>. QED
  BY <1>1, BuildInvariance, PTL

(* What this run has compiled the linker it found can read, where a major  *)
(* is installed once and gclang runs the checked clang.                    *)
THEOREM OwnBitcodeIsReadable ==
  BuildSpec => []OwnBitcodeReadable
<1>1. BuildInvariant => OwnBitcodeReadable
  <2>1. SUFFICES ASSUME BuildInvariant, stage = "extract", OneRelease(machine),
                        CheckedIsRun(machine)
                 PROVE  Reads(Found(machine, "llvm-link"), by[run])
    BY DEF OwnBitcodeReadable
  <2>2. /\ machine \in Machine /\ Coherent(machine)
        /\ by[run] = Compiler(machine)
    BY <2>1, BuildAssumption DEF BuildInvariant, Stages, Reading, Going
  <2>3. Compiler(machine) = Found(machine, "llvm-link")
    BY <2>1, <2>2 DEF Coherent, Tools, OneRelease, CheckedIsRun
  <2>4. Compiler(machine) \in Version
    BY <2>2, CompilerHasVersion
  <2>5. \A v \in Version : AtLeast(v, v)
    BY DEF AtLeast, Major, Version
  <2>. QED
    BY <2>2, <2>3, <2>4, <2>5 DEF Reads
<1>. QED
  BY <1>1, BuildInvariance, PTL
=============================================================================
