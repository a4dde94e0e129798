------------------------------ MODULE Metrics ------------------------------
(***************************************************************************)
(* computeMetrics of analyzer/src/Metrics.cpp on the reached functions:    *)
(*  - computeInteresting flags those into which the fuzzer's input, a      *)
(*    pointer, can be threaded, because they and all functions on some     *)
(*    call path from a root take a pointer;                                *)
(*  - computeBottleneck flags the immediate dominators, computed as        *)
(*    Cooper, Harvey and Kennedy do: a depth-first postorder from a        *)
(*    virtual root over the roots, then passes in reverse postorder that   *)
(*    meet the processed predecessors, until a pass changes nothing.       *)
(*                                                                         *)
(* The order of successors and of predecessors comes from DenseMap         *)
(* iteration and instruction order: it is left open.                       *)
(***************************************************************************)
EXTENDS Naturals, Sequences, FiniteSets, ValueFlow

CONSTANTS
  Functions,     \* functions of the call graph
  Defined,       \* those with a body
  VirtualRoot,   \* the node R
  NoNode,        \* the -1 of idom
  Inputs         \* call relation, roots and pointer-taking functions

ASSUME InputAssumption ==
  /\ IsFiniteSet(Functions)
  /\ Defined \subseteq Functions
  /\ VirtualRoot \notin Functions /\ NoNode \notin Functions \cup {VirtualRoot}
  /\ \A I \in Inputs :
       /\ I.calls \in [Functions -> SUBSET Functions]
       /\ \A f \in Functions \ Defined : I.calls[f] = {}
       /\ I.roots \subseteq Defined /\ I.roots # {}
       /\ I.ptrArg \subseteq Functions

VARIABLES
  in,            \* the input
  seeds,         \* roots computeInteresting has not looked at
  work,          \* its FIFO work list
  pending,       \* callees of the function being expanded, not visited yet
  interesting,   \* functions with the flag set
  stack,         \* frames of the search: a node and its successors not looked at
  visited,
  order,         \* the postorder
  idom,
  changed,       \* whether the current pass changed idom
  todo,          \* position in order of the node being processed, 0 between passes
  preds,         \* its predecessors not met yet
  newIdom,
  marked,        \* the last loop has run
  bottleneck     \* the functions it marked

threading == <<seeds, work, pending, interesting>>
search    == <<stack, visited, order>>
passes    == <<idom, changed, todo, preds, newIdom>>
vars      == <<in, threading, search, passes, marked, bottleneck>>

(* An entry for each reached function with a body.                         *)
Measured == Closure(in.calls, in.roots) \cap Defined

V == Measured \cup {VirtualRoot}

Frame == [node : V, left : SUBSET V]

TypeOK ==
  /\ seeds \subseteq in.roots
  /\ work \in Seq(Measured)
  /\ pending \subseteq Functions
  /\ interesting \subseteq Measured
  /\ stack \in Seq(Frame)
  /\ visited \subseteq V
  /\ order \in Seq(V)
  /\ idom \in [V -> V \cup {NoNode}]
  /\ changed \in BOOLEAN
  /\ todo \in 0 .. Len(order)
  /\ preds \subseteq V
  /\ newIdom \in V \cup {NoNode}
  /\ marked \in BOOLEAN
  /\ bottleneck \subseteq Measured

(* Edges to functions without metrics and calls of oneself are left out.   *)
Succ(v) == IF v = VirtualRoot THEN in.roots
           ELSE (in.calls[v] \cap Measured) \ {v}

Pred(w) == {v \in V : w \in Succ(v)}

Init ==
  /\ in \in Inputs
  /\ seeds = in.roots /\ work = <<>> /\ pending = {} /\ interesting = {}
  /\ stack = <<[node |-> VirtualRoot, left |-> Succ(VirtualRoot)]>>
  /\ visited = {VirtualRoot}
  /\ order = <<>>
  /\ idom = [v \in V |-> IF v = VirtualRoot THEN v ELSE NoNode]
  /\ changed = TRUE /\ todo = 0 /\ preds = {} /\ newIdom = NoNode
  /\ marked = FALSE /\ bottleneck = {}

-----------------------------------------------------------------------------
(***************************************************************************)
(* computeInteresting                                                      *)
(***************************************************************************)
AnyMeasured(f) == f \in Measured \ interesting      \* variant: pointer not asked for
Qualifies(f) == f \in (Measured \cap in.ptrArg) \ interesting

(* A function that qualifies is flagged and waits to be expanded.          *)
Flag(f) ==
  IF Qualifies(f)
  THEN interesting' = interesting \cup {f} /\ work' = Append(work, f)
  ELSE UNCHANGED <<work, interesting>>

Seed ==
  \E f \in seeds :
    /\ Flag(f)
    /\ seeds' = seeds \ {f}
    /\ UNCHANGED <<in, pending, search, passes, marked, bottleneck>>

Pop ==
  /\ seeds = {} /\ pending = {} /\ work # <<>>
  /\ pending' = in.calls[Head(work)]
  /\ work' = Tail(work)
  /\ UNCHANGED <<in, seeds, interesting, search, passes, marked, bottleneck>>

Visit ==
  \E f \in pending :
    /\ Flag(f)
    /\ pending' = pending \ {f}
    /\ UNCHANGED <<in, seeds, search, passes, marked, bottleneck>>

Threaded == seeds = {} /\ pending = {} /\ work = <<>>

-----------------------------------------------------------------------------
(***************************************************************************)
(* computeBottleneck: the depth-first search.                              *)
(***************************************************************************)
Top == stack[Len(stack)]
Below == SubSeq(stack, 1, Len(stack) - 1)

Look ==
  /\ Threaded /\ stack # <<>>
  /\ \E w \in Top.left :
       LET rest == Append(Below, [Top EXCEPT !.left = @ \ {w}])
       IN /\ stack' = IF w \in visited THEN rest
                      ELSE Append(rest, [node |-> w, left |-> Succ(w)])
          /\ visited' = visited \cup {w}
  /\ UNCHANGED <<in, threading, order, passes, marked, bottleneck>>

Finish ==
  /\ Threaded /\ stack # <<>>
  /\ Top.left = {}
  /\ order' = Append(order, Top.node)
  /\ stack' = Below
  /\ UNCHANGED <<in, threading, visited, passes, marked, bottleneck>>

(***************************************************************************)
(* The passes.  VirtualRoot ends the postorder, so a pass starts before it. *)
(***************************************************************************)
postnum(v) == CHOOSE k \in 1 .. Len(order) : order[k] = v

Processed(p) == idom[p] # NoNode

takeFirst(x, y) == x                            \* variant: no meet
intersect(x, y) ==
  LET processed == {v \in V : Processed(v)}
      meet[p \in processed \X processed] ==
        IF p[1] = p[2] THEN p[1]
        ELSE IF postnum(p[1]) < postnum(p[2]) THEN meet[<<idom[p[1]], p[2]>>]
        ELSE meet[<<p[1], idom[p[2]]>>]
  IN meet[<<x, y>>]

Between == stack = <<>> /\ todo = 0

Once == \A f \in Measured : idom[f] = NoNode     \* variant: one pass
Again == changed

StartPass ==
  /\ Between /\ Again
  /\ changed' = FALSE
  /\ todo' = Len(order) - 1
  /\ preds' = Pred(order[todo'])
  /\ UNCHANGED <<in, threading, search, idom, newIdom, marked, bottleneck>>

Meet ==
  \E p \in preds :
    /\ preds' = preds \ {p}
    /\ newIdom' = IF ~Processed(p) THEN newIdom
                  ELSE IF newIdom = NoNode THEN p
                  ELSE intersect(p, newIdom)
    /\ UNCHANGED <<in, threading, search, idom, changed, todo, marked, bottleneck>>

Known == newIdom # NoNode                       \* variant: no test for a change
Improves == newIdom # NoNode /\ idom[order[todo]] # newIdom

Assign ==
  /\ todo > 0 /\ preds = {}
  /\ idom' = IF Improves THEN [idom EXCEPT ![order[todo]] = newIdom] ELSE idom
  /\ changed' = (changed \/ Improves)
  /\ todo' = todo - 1
  /\ preds' = IF todo > 1 THEN Pred(order[todo - 1]) ELSE {}
  /\ newIdom' = NoNode
  /\ UNCHANGED <<in, threading, search, marked, bottleneck>>

Idoms == {idom[v] : v \in Measured} \ {NoNode, VirtualRoot}

Mark ==
  /\ Between /\ ~Again /\ ~marked
  /\ marked' = TRUE
  /\ bottleneck' = Idoms
  /\ UNCHANGED <<in, threading, search, passes>>

Next == \/ Seed \/ Pop \/ Visit
        \/ Look \/ Finish \/ StartPass \/ Meet \/ Assign \/ Mark

Spec == Init /\ [][Next]_vars /\ WF_vars(Next)

-----------------------------------------------------------------------------
(* What a path from a root reaches when it may only pass through functions *)
(* with a pointer argument.                                                *)
Taint ==
  Closure([f \in Functions |-> in.calls[f] \cap in.ptrArg], in.roots \cap in.ptrArg)
    \cap Defined

(* Exactly the functions at the end of an unbroken chain of pointer-taking *)
(* functions from some root are interesting, whatever the visiting order.  *)
InterestingExact == Threaded => interesting = Taint

(* d lies on every path from a root to f.                                  *)
StrictlyDominates(d, f) ==
  d # f /\ f \notin Closure([v \in V |-> Succ(v) \ {d}], {VirtualRoot})

(* v and its ancestors in the tree of idom.                                *)
Chain(v) == Closure([u \in V |-> {idom[u]} \ {NoNode}], {v})

(* The functions marked are those that gate another reached function: no   *)
(* path from a root avoids them.                                           *)
BottleneckExact ==
  marked => bottleneck = {d \in Measured : \E f \in Measured : StrictlyDominates(d, f)}

(* intersect is safe: from a processed node, idom leads up the postorder   *)
(* through processed nodes to the virtual root, never to the -1.           *)
ChainsClimb ==
  stack = <<>> =>
    \A v \in V \ {VirtualRoot} : idom[v] # NoNode =>
      /\ idom[idom[v]] # NoNode
      /\ postnum(v) < postnum(idom[v])

(* The types and the shape of the chains.                                  *)
Inv == TypeOK /\ ChainsClimb

(* From pass to pass an immediate dominator only moves up its own chain;   *)
(* it cannot swing between the predecessors.                               *)
IdomRises ==
  [][\A v \in Measured : idom[v] # NoNode => idom'[v] \in Chain(v) \ {v}]_idom

(* The work list empties and the passes end.                               *)
Termination == <>marked
=============================================================================
