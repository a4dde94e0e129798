----------------------------- MODULE StaticLibs -----------------------------
(***************************************************************************)
(* _include_static_libs of driver/reachability/acquire_c.py, and the merge *)
(* in link.py that takes its result.  A linked binary has only the objects *)
(* the linker took from static libraries; the driver replaces it by the    *)
(* target's own objects and the whole libraries, or leaves it as it is.    *)
(***************************************************************************)
EXTENDS Naturals, FiniteSets

CONSTANTS
  Objects,    \* bitcode objects, by real path
  Name,       \* the member name of an object, which other objects may share
  Archives,   \* the static libraries in the tree, other than the artifact
  LinkedSets, \* the sets of objects the artifact may consist of
  Contents    \* the sets of objects a library may consist of

ASSUME ObjectAssumption ==
  /\ IsFiniteSet(Objects) /\ DOMAIN Name = Objects
  /\ LinkedSets \subseteq SUBSET Objects
  /\ Contents \subseteq SUBSET Objects

VARIABLES
  mode,       \* --static-libs, "auto" or "all"
  kind,       \* "linked" (exec, shared) or "whole" (archive, object)
  linked,     \* the objects in the artifact and so in the primary bitcode
  manifest,   \* those that the artifact's manifest names
  contents,   \* the objects of each library
  members,    \* the member names `ar t` lists, none if it fails
  pc,
  chosen,     \* libraries to be extracted in full
  todo,       \* of these, the ones left in the current loop
  got,        \* the objects in a library's extracted bitcode, none if it failed
  kept,       \* extracted libraries that are linked
  modules     \* the bitcode modules returned, each as its set of objects

vars == <<mode, kind, linked, manifest, contents, members, pc, chosen, todo, got,
          kept, modules>>
input == <<mode, kind, linked, manifest, contents>>

Names(S) == {Name[o] : o \in S}

TypeOK ==
  /\ manifest \subseteq linked
  /\ members \in [Archives -> SUBSET Names(Objects)]
  /\ pc \in {"list", "plan", "extract", "decide", "sift", "merge", "linked", "error"}
  /\ chosen \subseteq Archives /\ todo \subseteq chosen /\ kept \subseteq chosen
  /\ got \in [Archives -> SUBSET Objects]
  /\ \A a \in Archives : got[a] # {} => a \in chosen
  /\ modules \subseteq SUBSET Objects

(* Only a linked artifact has a manifest, and it may be unreadable.        *)
Init ==
  /\ mode \in {"auto", "all"}
  /\ kind \in {"linked", "whole"}
  /\ linked \in LinkedSets
  /\ manifest \in IF kind = "linked" THEN {linked, {}} ELSE {{}}
  /\ contents \in [Archives -> Contents]
  /\ members = [a \in Archives |-> {}]
  /\ pc = "list"
  /\ chosen = {} /\ todo = {} /\ kept = {} /\ modules = {}
  /\ got = [a \in Archives |-> {}]

-----------------------------------------------------------------------------
(* `ar t` of each library; a library that cannot be listed has no members. *)
List ==
  /\ pc = "list"
  /\ \E unlisted \in SUBSET Archives :
       members' = [a \in Archives |->
                     IF a \in unlisted THEN {} ELSE Names(contents[a])]
  /\ pc' = "plan"
  /\ UNCHANGED <<input, chosen, todo, got, kept, modules>>

LinkersView == modules' = {linked} /\ pc' = "merge"

(* _plan_static_libs                                                       *)
Chosen == {a \in Archives : /\ members[a] # {}
                            /\ mode = "auto" => members[a] \cap Names(manifest) # {}}

Plan ==
  /\ pc = "plan"
  /\ chosen' = Chosen /\ todo' = Chosen
  /\ IF Chosen = {} THEN LinkersView ELSE pc' = "extract" /\ UNCHANGED modules
  /\ UNCHANGED <<input, members, got, kept>>

(* get-bc -b on the next library: it may fail, or name no object in the    *)
(* manifest it writes, or leave out an object that has no bitcode.         *)
Extract ==
  /\ pc = "extract"
  /\ \E a \in todo :
       /\ todo' = todo \ {a}
       /\ \E S \in {{}, contents[a]} \cup {contents[a] \ {o} : o \in contents[a]} :
            got' = [got EXCEPT ![a] = S]
  /\ pc' = IF todo' = {} THEN "decide" ELSE "extract"
  /\ UNCHANGED <<input, members, chosen, kept, modules>>

IncompleteIfAll == \A a \in chosen : got[a] = {}    \* variant: some suffice

(* All libraries or none.                                                  *)
Incomplete == \E a \in chosen : got[a] = {}

RelevantByName == chosen                             \* variant: names suffice

(* In auto mode a library counts as linked if it has an object in common   *)
(* with the artifact; the names that brought it here may be a coincidence. *)
Relevant == IF mode = "auto" THEN {a \in chosen : got[a] \cap manifest # {}}
            ELSE chosen

Decide ==
  /\ pc = "decide"
  /\ IF Incomplete \/ (kind = "linked" /\ (manifest = {} \/ Relevant = {}))
     THEN LinkersView /\ UNCHANGED <<todo, kept>>
     ELSE IF kind = "linked"
     THEN pc' = "sift" /\ todo' = Relevant /\ UNCHANGED <<kept, modules>>
     ELSE /\ pc' = "merge"
          /\ kept' = chosen
          /\ modules' = {linked} \cup {got[a] : a \in chosen}
          /\ UNCHANGED todo
  /\ UNCHANGED <<input, members, chosen, got>>

Covered == UNION {got[a] : a \in kept}

AnyOf(S) == S                                        \* variant: not sorted

(* The loop over the libraries, largest first; those of one size come in   *)
(* the order of the directory walk.                                        *)
Largest(S) == {a \in S : \A b \in S : Cardinality(got[b]) <= Cardinality(got[a])}

Sift ==
  /\ pc = "sift" /\ todo # {}
  /\ \E a \in Largest(todo) :
       /\ todo' = todo \ {a}
       /\ kept' = IF got[a] \subseteq Covered THEN kept ELSE kept \cup {a}
  /\ UNCHANGED <<input, members, pc, chosen, got, modules>>

OwnByName == {o \in manifest : Name[o] \notin Names(Covered)}  \* variant: as planned

(* The target's own objects: those in no library that is kept.             *)
OwnObjects == {o \in manifest : o \notin Covered}

Compose ==
  /\ pc = "sift" /\ todo = {}
  /\ modules' = {{o} : o \in OwnObjects} \cup {got[a] : a \in kept}
  /\ pc' = "merge"
  /\ UNCHANGED <<input, members, chosen, todo, got, kept>>

(* link_bitcode: identical modules are one (the set), and llvm-link        *)
(* refuses two definitions of one function.                                *)
Twice == {o \in Objects : Cardinality({m \in modules : o \in m}) > 1}

Merge ==
  /\ pc = "merge"
  /\ pc' = IF Twice = {} THEN "linked" ELSE "error"
  /\ UNCHANGED <<input, members, chosen, todo, got, kept, modules>>

Next == List \/ Plan \/ Extract \/ Decide \/ Sift \/ Compose \/ Merge

Spec == Init /\ [][Next]_vars

-----------------------------------------------------------------------------
Returned == pc \in {"merge", "linked", "error"}
Merged == UNION modules

(* Nothing the linker took is lost, whatever libraries replace its view,   *)
(* however names collide and whichever objects have no bitcode.            *)
NothingLinkedIsLost == Returned => linked \subseteq Merged

(* The types, and that nothing is lost.                                    *)
Inv == TypeOK /\ NothingLinkedIsLost

(* All or nothing: after any extraction failed the result is the linker's  *)
(* view.  Otherwise, in auto mode, it is that and each library the target  *)
(* links as a whole, and nothing of a library it does not link.            *)
AutoIsExact ==
  Returned /\ mode = "auto" =>
    Merged = linked \cup
      IF Incomplete \/ manifest = {} THEN {}
      ELSE UNION {got[a] : a \in {b \in chosen : got[b] \cap linked # {}}}

FailureIsAtomic ==
  Returned /\ (\E a \in chosen : got[a] = {}) => modules = {linked}

(* Libraries that are disjoint, or one inside the other, or the same, are  *)
(* linked without a definition twice.  For an archive as artifact this does *)
(* not hold: there "all" keeps libraries that a larger one covers.         *)
NestedLibrariesMerge ==
  /\ pc = "error" /\ kind = "linked" =>
       \E a, b \in chosen : /\ got[a] \cap got[b] # {}
                            /\ ~(got[a] \subseteq got[b]) /\ ~(got[b] \subseteq got[a])

=============================================================================
