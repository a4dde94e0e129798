------------------------------- MODULE Roots -------------------------------
(***************************************************************************)
(* The part of main.cpp that finds the roots: resolveEntries turns the     *)
(* requested entries into functions, collectNameReferencedRoots adds the   *)
(* functions a program may look up by name, and the search starts from     *)
(* both.  Then the analyzed program runs and looks functions up.           *)
(***************************************************************************)
EXTENDS Naturals, Sequences, FiniteSets, SequencesExt, Functions, ValueFlow

CONSTANTS
  Symbols,     \* symbol names of functions
  Bodies,      \* of those with a body
  Path,        \* the demangled name of a function, split at "::"
  HexLike,     \* path components "h<hex digits>"
  Hashes,      \* of these, the ones that legacy mangling has added
  Aliases,     \* symbol names of aliases
  Aliasee,     \* the function an alias stands for
  Expansion,   \* the tokens of a request; more than one for fuzz_target!
  Requests,    \* lists of requests considered
  CallRelations,  \* those considered
  LookupNames  \* sets of string constants considered

ASSUME RootAssumption ==
  /\ Bodies \subseteq Symbols /\ Aliases \cap Symbols = {}
  /\ IsFiniteSet(Symbols)
  /\ DOMAIN Path = Symbols /\ Hashes \subseteq HexLike
  /\ \A f \in Symbols : Len(Path[f]) > 1 \/ Last(Path[f]) \notin Hashes
  /\ Aliasee \in [Aliases -> Bodies]
  /\ CallRelations \subseteq [Symbols -> SUBSET Symbols]
  /\ \A G \in CallRelations : \A f \in Symbols \ Bodies : G[f] = {}
  /\ Requests \subseteq Seq(DOMAIN Expansion)

VARIABLES
  requested,   \* the --entry options
  calls,       \* the call graph
  strings,     \* the tokens of all string constants
  local,       \* defined functions with internal linkage
  lookup,      \* the module declares dlsym or another lookup function
  pos,         \* the next request
  resolved,    \* entries
  unresolved,
  roots,       \* what the search starts from
  pc,
  entered      \* functions the program has entered

rootsVars == <<requested, calls, strings, local, lookup, pos, resolved, unresolved,
          roots, pc, entered>>
given == <<requested, calls, strings, local, lookup>>

RootsInit ==
  /\ requested \in Requests
  /\ calls \in CallRelations
  /\ strings \in LookupNames
  /\ local \in SUBSET Bodies
  /\ lookup \in BOOLEAN
  /\ pos = 1 /\ resolved = <<>> /\ unresolved = <<>> /\ roots = <<>>
  /\ pc = "resolve" /\ entered = {}

-----------------------------------------------------------------------------
KeepHash(path) == path                                \* variant: nothing dropped
(* stripLegacyHash: the last component is dropped if it looks like a hash. *)
StripLegacyHash(path) ==
  IF Len(path) > 1 /\ Last(path) \in HexLike THEN Front(path) ELSE path

(* A token is a path; that of a symbol name is the symbol alone.           *)
MatchesToken(f, token) ==
  \/ token = <<f>>
  \/ IsSuffix(token, StripLegacyHash(Path[f]))

Matches(request) ==
  {f \in Bodies : \E i \in 1 .. Len(Expansion[request]) :
                     MatchesToken(f, Expansion[request][i])}

NewAll(request) == Matches(request)                   \* variant: seen not asked

(* Matches that are new are added; their order is that of the module.      *)
New(request) == Matches(request) \ ToSet(resolved)

Resolve ==
  /\ pc = "resolve" /\ pos <= Len(requested)
  /\ pos' = pos + 1
  /\ IF Matches(requested[pos]) = {}
     THEN unresolved' = Append(unresolved, requested[pos]) /\ UNCHANGED resolved
     ELSE resolved' = resolved \o SetToSeq(New(requested[pos])) /\ UNCHANGED unresolved
  /\ UNCHANGED <<given, roots, pc, entered>>

NameRootsLocal ==                                     \* variant: internal ones only
  IF lookup THEN {f \in Bodies : f \in local /\ f \in strings} ELSE {}

(* collectNameReferencedRoots                                              *)
NameRoots == IF lookup THEN {f \in Bodies : f \notin local /\ f \in strings} ELSE {}

(* Without an entry main gives up, even if there are functions to look up. *)
CollectRoots ==
  /\ pc = "resolve" /\ pos > Len(requested)
  /\ IF resolved = <<>>
     THEN pc' = "failed" /\ UNCHANGED <<roots, entered>>
     ELSE /\ pc' = "run"
          /\ roots' = resolved \o SetToSeq(NameRoots \ ToSet(resolved))
          /\ entered' = ToSet(resolved)
  /\ UNCHANGED <<given, pos, resolved, unresolved>>

ReachedFromRoots == Closure(calls, ToSet(roots))

-----------------------------------------------------------------------------
(* The program runs: a function calls another, or, if it looks up symbols, *)
(* any symbol whose name it holds and the dynamic linker sees.             *)
Call ==
  /\ pc = "run"
  /\ \E f \in entered \cap Bodies : \E g \in calls[f] : entered' = entered \cup {g}
  /\ UNCHANGED <<given, pos, resolved, unresolved, roots, pc>>

LookUp ==
  /\ pc = "run" /\ lookup
  /\ \E name \in strings :
       \/ name \in Bodies \ local /\ entered' = entered \cup {name}
       \/ name \in Aliases /\ entered' = entered \cup {Aliasee[name]}
  /\ UNCHANGED <<given, pos, resolved, unresolved, roots, pc>>

RootsNext == Resolve \/ CollectRoots \/ Call \/ LookUp

RootsSpec == RootsInit /\ [][RootsNext]_rootsVars

-----------------------------------------------------------------------------
RootsTypeOK ==
  /\ pos \in 1 .. Len(requested) + 1
  /\ ToSet(resolved) \subseteq Bodies
  /\ ToSet(unresolved) \subseteq ToSet(requested)
  /\ ToSet(roots) \subseteq Bodies
  /\ pc \in {"resolve", "run", "failed"}
  /\ entered \subseteq Symbols

(* The search gets each root once, entries first.                          *)
RootsAreDistinct ==
  /\ IsInjective(resolved) /\ IsInjective(roots)
  /\ pc = "run" => IsPrefix(resolved, roots)

(* The types and the distinctness of roots.                                *)
RootsInv == RootsTypeOK /\ RootsAreDistinct

(* What a reader sees as a function's name, and the functions a request    *)
(* means: by symbol, by demangled name or by a suffix of that.             *)
HumanPath(f) == IF Last(Path[f]) \in Hashes THEN Front(Path[f]) ELSE Path[f]
LooksHashed(f) == Last(Path[f]) \in HexLike \ Hashes
Meant(request) ==
  {f \in Bodies : \E i \in 1 .. Len(Expansion[request]) :
     Expansion[request][i] = <<f>> \/ IsSuffix(Expansion[request][i], HumanPath(f))}

(* Every request is answered: all functions it means are entries, and it   *)
(* is reported only if there are none; unless a function's own name looks  *)
(* like a hash.                                                            *)
EveryRequestAnswered ==
  \A i \in 1 .. pos - 1 : \A f \in Meant(requested[i]) :
    LooksHashed(f) \/ (f \in ToSet(resolved) /\ requested[i] \notin ToSet(unresolved))

(* What the program enters is reached, although no call edge leads to what *)
(* is looked up by name, unless the name is an alias's: the scan sees      *)
(* functions only.                                                         *)
LookUpsReached ==
  strings \cap Aliases = {} => entered \subseteq ReachedFromRoots

=============================================================================
