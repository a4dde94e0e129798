------------------------------ MODULE CovLists ------------------------------
(***************************************************************************)
(* CovLists.cpp: the allowlist of the reached and the ignorelist of the    *)
(* unreached functions, as patterns in which the hash of a Rust symbol is  *)
(* a star.  A name is a sequence of characters; the twenty characters      *)
(* "17h<16 hex digits>E" are one symbol, of Hashes, since they are         *)
(* recognised and compared as a whole.                                     *)
(***************************************************************************)
EXTENDS Naturals, Sequences, FiniteSets, SequencesExt

CONSTANTS
  Hashes,     \* hash tails, ordered as numbers with the letters
  Letters,    \* all other characters
  Names,      \* names considered
  Modules     \* the sets of functions considered that a module defines

ASSUME NameAssumption ==
  /\ Hashes \subseteq Nat \ {0} /\ Letters \subseteq Nat \ {0}
  /\ Hashes \cap Letters = {}
  /\ Names \subseteq Seq(Hashes \cup Letters) \ {<<>>}
  /\ \A D \in Modules : D \subseteq Names /\ IsFiniteSet(D)

Star == 0

VARIABLES
  defined,   \* names of the defined functions
  reached,   \* those that are reached
  names,     \* reachedNames, sorted
  todo,      \* patterns of unreached functions, to be looked at
  ignore,    \* ignorelist
  allow,     \* allowlist
  phase

listsVars == <<defined, reached, names, todo, ignore, allow, phase>>

ListsInit ==
  /\ defined \in Modules
  /\ reached \in SUBSET defined
  /\ names = <<>> /\ todo = {} /\ ignore = {} /\ allow = {}
  /\ phase = "allow"

-----------------------------------------------------------------------------
Base(s) == SubSeq(s, 1, Len(s) - 1)

PatternNone(name) == name                     \* variant: hashes are kept

(* toPattern                                                               *)
Pattern(name) ==
  IF Len(name) > 1 /\ name[Len(name)] \in Hashes
  THEN Append(Base(name), Star) ELSE name

Patterns(S) == {Pattern(name) : name \in S}

Below(s, t) ==
  \/ Len(s) < Len(t) /\ IsPrefix(s, t)
  \/ \E i \in 1 .. Len(s) : /\ i <= Len(t)
                            /\ SubSeq(s, 1, i - 1) = SubSeq(t, 1, i - 1)
                            /\ s[i] < t[i]

ReachedReversed ==                                 \* variant: sorted downwards
  CHOOSE s \in [1 .. Cardinality(reached) -> reached] :
    \A i, j \in DOMAIN s : i < j => Below(s[j], s[i])

(* reachedNames                                                            *)
ReachedNames ==
  CHOOSE s \in [1 .. Cardinality(reached) -> reached] :
    \A i, j \in DOMAIN s : i < j => Below(s[i], s[j])

(* std::lower_bound: bisection between first and first + len.              *)
Ranges == {r \in (1 .. Len(names) + 1) \X (0 .. Len(names)) : r[1] + r[2] <= Len(names) + 1}

LowerBound(prefix) ==
  LET lb[r \in Ranges] ==
        LET half == r[2] \div 2
            middle == r[1] + half
        IN IF r[2] = 0 THEN r[1]
           ELSE IF Below(names[middle], prefix)
                THEN lb[<<middle + 1, r[2] - half - 1>>]
                ELSE lb[<<r[1], half>>]
  IN lb[<<1, Len(names)>>]

StarsOut(p) == IF p[Len(p)] = Star THEN Base(p) ELSE p

MatchesReachedPrefix(p) ==                            \* variant: always as a prefix
  LET i == LowerBound(StarsOut(p))
  IN i <= Len(names) /\ IsPrefix(StarsOut(p), names[i])

(* matchesReached                                                          *)
MatchesReached(p) ==
  LET i == LowerBound(StarsOut(p))
  IN /\ i <= Len(names)
     /\ IF p[Len(p)] = Star THEN IsPrefix(Base(p), names[i]) ELSE names[i] = p

WriteAllowlist ==
  /\ phase = "allow"
  /\ allow' = Patterns(reached)
  /\ phase' = "names"
  /\ UNCHANGED <<defined, reached, names, todo, ignore>>

CollectNames ==
  /\ phase = "names"
  /\ names' = ReachedNames
  /\ todo' = Patterns(defined \ reached)
  /\ phase' = "ignore"
  /\ UNCHANGED <<defined, reached, ignore, allow>>

WriteIgnorelist ==
  /\ phase = "ignore"
  /\ \E p \in todo :
       /\ todo' = todo \ {p}
       /\ ignore' = IF MatchesReached(p) THEN ignore ELSE ignore \cup {p}
  /\ UNCHANGED <<defined, reached, names, allow, phase>>

ListsNext == WriteAllowlist \/ CollectNames \/ WriteIgnorelist

ListsSpec == ListsInit /\ [][ListsNext]_listsVars

-----------------------------------------------------------------------------
Written == phase = "ignore" /\ todo = {}

(* How the compiler reads a pattern: a star is any string.                 *)
Glob(p, name) == IF p[Len(p)] = Star THEN IsPrefix(Base(p), name) ELSE p = name

(* The same function in another build: it has another hash.                *)
Rehashed(name) == IF Len(name) > 1 /\ name[Len(name)] \in Hashes
                  THEN {Append(Base(name), h) : h \in Hashes} ELSE {name}
HashOnlyLast(name) == \A i \in 1 .. Len(name) - 1 : name[i] \in Letters

ListsTypeOK ==
  /\ reached \subseteq defined /\ defined \subseteq Names
  /\ \A i \in 1 .. Len(names) : names[i] \in reached
  /\ todo \subseteq Patterns(defined) /\ ignore \subseteq Patterns(defined \ reached)
  /\ allow \subseteq Patterns(reached)

(* The ignorelist excludes no reached function, of this build or, hashes   *)
(* of mangled names differing, of another.                                 *)
IgnoreHitsNoReached ==
  \A p \in ignore, name \in reached :
    /\ ~Glob(p, name)
    /\ \A q \in defined :
         Pattern(q) = p /\ Len(q) > 1 /\ HashOnlyLast(q) /\ HashOnlyLast(name) =>
           \A other \in Rehashed(name) : ~Glob(p, other)

(* The types, and that no reached function is excluded.                    *)
ListsInv == ListsTypeOK /\ IgnoreHitsNoReached

(* It leaves no function out that it could exclude.                        *)
IgnoreIsMaximal ==
  Written => \A q \in defined \ reached :
    (\A name \in reached : ~Glob(Pattern(q), name)) => \E p \in ignore : Glob(p, q)

(* The allowlist matches every reached function in every build.            *)
AllowMatchesReached ==
  phase # "allow" => \A name \in reached : \A other \in Rehashed(name) :
                    \E p \in allow : Glob(p, other)
=============================================================================
