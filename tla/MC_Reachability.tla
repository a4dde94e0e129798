-------------------------- MODULE MC_Reachability --------------------------
(***************************************************************************)
(* Reachability on every call graph of at most four edges over three       *)
(* defined functions and one declaration.  Graphs with an edge of a        *)
(* function that no entry arrives at are left out: the search never looks  *)
(* at such an edge.                                                        *)
(***************************************************************************)
EXTENDS Reachability

CONSTANTS f, g, h,     \* functions with a body
          d,           \* a declaration
          nosym        \* a name the module does not have

MCFunctions == {f, g, h, d}
MCDefined   == {f, g, h}
MCNames     == MCFunctions \cup {nosym}

PossibleEdges == [from : MCDefined, to : MCFunctions, kind : {"Direct", "Indirect"}]

(* Edges are added only where the entries arrive.                          *)
Arrived(G) == {f, g} \cup {e.to : e \in G}

OneEdgeMore(graphs) ==
  graphs \cup {IF e.from \in Arrived(G) THEN G \cup {e} ELSE G : G \in graphs, e \in PossibleEdges}

MCCallGraphs == OneEdgeMore(OneEdgeMore(OneEdgeMore(OneEdgeMore({{}}))))

(* main.cpp passes distinct, defined names only (the first two lists); the *)
(* third takes the branches the function has for any other caller.         *)
MCEntryLists == {<<f>>, <<f, g>>, <<nosym, g, d, g>>}
=============================================================================
