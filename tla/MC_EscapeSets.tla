--------------------------- MODULE MC_EscapeSets ---------------------------
(***************************************************************************)
(* EscapeSets on every flow relation of at most five edges over four       *)
(* values and one function.  Relations with an edge no root reaches are    *)
(* left out: the search never looks at such an edge.                       *)
(***************************************************************************)
EXTENDS EscapeSets

CONSTANTS a, b, c, d,   \* values that are not functions
          f             \* a function

MCValues    == {a, b, c, d, f}
MCFunctions == {f}
MCRootSets  == {{a}, {a, b}}

PossibleEdges == (MCValues \ MCFunctions) \X MCValues

(* Edges are added only where the roots arrive, so the order in which a    *)
(* relation grows follows the flow.  c and d differ in name only: d comes  *)
(* after c.                                                                *)
Arrived(R) == {a, b} \cup {e[2] : e \in R}

IsNext(R, e) == e[1] \in Arrived(R) /\ (e[2] = d => c \in Arrived(R))

OneEdgeMore(rels) ==
  rels \cup {IF IsNext(R, e) THEN R \cup {e} ELSE R : R \in rels, e \in PossibleEdges}

UpTo3 == OneEdgeMore(OneEdgeMore(OneEdgeMore({{}})))

FlowOf(R) == [v \in MCValues |-> {w \in MCValues : <<v, w>> \in R}]

MCFlows == {FlowOf(R) : R \in OneEdgeMore(OneEdgeMore(UpTo3))}

(* The least closed set and the one found by following the flow agree.     *)
ASSUME CarriesIsClosure ==
  \A R \in UpTo3 : \A v \in MCValues :
    Carries(FlowOf(R), v) = Closure(FlowOf(R), {v})
=============================================================================
