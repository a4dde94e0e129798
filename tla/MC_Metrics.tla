----------------------------- MODULE MC_Metrics -----------------------------
(***************************************************************************)
(* Metrics on the call graphs of at most four edges over four bodies and a *)
(* declaration, or of five edges over three, with one or two roots; all    *)
(* functions take a pointer, or one root and one body do not.              *)
(***************************************************************************)
EXTENDS Metrics

CONSTANTS a, b, c, e,   \* functions with a body
          d             \* a declaration

MCDefined   == {a, b, c, e}
MCFunctions == MCDefined \cup {d}

(* One edge to the declaration and one self call are enough of each.       *)
PossibleEdges ==
  {p \in MCDefined \X MCDefined : p[1] # p[2]} \cup {<<a, a>>, <<b, d>>}

Arrived(R) == {a} \cup {p[2] : p \in R}

Follows(p, R, roots, bodies) ==
  p[1] \in roots \cup Arrived(R) /\ p[2] \in bodies \cup {d}

OneEdgeMore(rels, roots, bodies) ==
  rels \cup {IF Follows(p, R, roots, bodies) THEN R \cup {p} ELSE R : R \in rels, p \in PossibleEdges}

UpTo4(roots, bodies) ==
  LET two == OneEdgeMore(OneEdgeMore({{}}, roots, bodies), roots, bodies)
  IN OneEdgeMore(OneEdgeMore(two, roots, bodies), roots, bodies)

UpTo5(roots, bodies) == OneEdgeMore(UpTo4(roots, bodies), roots, bodies)

Graphs(roots) == UpTo4(roots, MCDefined) \cup UpTo5(roots, {a, b, c})

InputOf(R, roots, ptrArg) ==
  [calls |-> [f \in MCFunctions |-> {p[2] : p \in {x \in R : x[1] = f}}],
   roots |-> roots, ptrArg |-> ptrArg]

MCInputs ==
  UNION {{InputOf(R, roots, MCFunctions \ cut) : R \in Graphs(roots), cut \in {{}, {b, e}}} :
           roots \in {{a}, {a, b}}}
=============================================================================
