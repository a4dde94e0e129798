----------------------------- MODULE EscapeSets -----------------------------
(***************************************************************************)
(* computeEscapeSets of analyzer/src/CallGraph.cpp: for every value that a *)
(* root can reach in the flow relation, the functions it can carry.  The   *)
(* code is an iterative Tarjan search: strongly connected components are   *)
(* completed callees first, so the sinks of a component are its own        *)
(* functions plus the sinks of the components it flows into.               *)
(*                                                                         *)
(* Values stand for IR values modulo pointer casts (stripEscape), and      *)
(* flow[v] for the targets of escapeSuccessors(v).  Successors are taken   *)
(* in any order; so are the roots.  The iteration that pushes a frame and  *)
(* the one that enters it (next == 0) are one step, since nothing happens  *)
(* in between.                                                             *)
(***************************************************************************)
EXTENDS Naturals, Sequences, FiniteSets, ValueFlow

CONSTANTS
  Values,      \* every value of the module
  Functions,   \* the values that are functions: the sinks
  Flows,       \* the flow relations considered
  RootSets     \* the sets of roots considered

(* A module has finitely many values, and escapeSuccessors gives a function *)
(* no successors.                                                          *)
ASSUME FlowAssumption ==
  /\ IsFiniteSet(Values)
  /\ Functions \subseteq Values
  /\ Flows \subseteq [Values -> SUBSET Values]
  /\ \A flow \in Flows : \A f \in Functions : flow[f] = {}
  /\ RootSets \subseteq SUBSET Values

VARIABLES
  flow,     \* the flow relation, fixed during the computation
  roots,    \* the roots, fixed
  todo,     \* roots still to be taken by the outer loop
  index,    \* order of first visit, 0 where the map has no key
  low,      \* low link, 0 where the map has no key
  comp,     \* visited values of components not completed yet
  stack,    \* frames: a value and the successors left to look at
  sccOf,    \* component of a completed value, 0 where the map has no key
  sinks     \* sccSinks: the functions each component carries

vars == <<flow, roots, todo, index, low, comp, stack, sccOf, sinks>>
input == <<flow, roots>>

Frame == [v : Values, rest : SUBSET Values]

TypeOK ==
  /\ flow \in [Values -> SUBSET Values]
  /\ roots \in SUBSET Values
  /\ todo \in SUBSET roots
  /\ index \in [Values -> Nat]
  /\ low \in [Values -> Nat]
  /\ comp \in Seq(Values)
  /\ stack \in Seq(Frame)
  /\ sccOf \in [Values -> 0 .. Len(sinks)]
  /\ sinks \in Seq(SUBSET Functions)

Visited == {v \in Values : index[v] # 0}

counter == Cardinality(Visited)

Completed == {v \in Values : sccOf[v] # 0}

Fresh(w) == w \notin Visited

onStack == {comp[i] : i \in 1 .. Len(comp)}

Top == stack[Len(stack)]

-----------------------------------------------------------------------------
Init ==
  /\ flow \in Flows
  /\ roots \in RootSets
  /\ todo = roots
  /\ index = [v \in Values |-> 0]
  /\ low = [v \in Values |-> 0]
  /\ comp = <<>>
  /\ stack = <<>>
  /\ sccOf = [v \in Values |-> 0]
  /\ sinks = <<>>

(* Push a frame for w above the frames `below` and enter it.               *)
Open(w, below) ==
  /\ index' = [index EXCEPT ![w] = counter + 1]
  /\ low' = [low EXCEPT ![w] = counter + 1]
  /\ comp' = Append(comp, w)
  /\ stack' = Append(below, [v |-> w, rest |-> flow[w]])

TakeRoot ==
  /\ stack = <<>>
  /\ \E r \in todo :
       /\ Fresh(r)
       /\ todo' = todo \ {r}
       /\ Open(r, stack)
  /\ UNCHANGED <<input, sccOf, sinks>>

SkipRoot ==
  /\ stack = <<>>
  /\ \E r \in todo :
       /\ ~Fresh(r)
       /\ todo' = todo \ {r}
  /\ UNCHANGED <<input, index, low, comp, stack, sccOf, sinks>>

(* Take the successor w off the top frame.                                 *)
LookedAgain(w) == stack                        \* variant: next not incremented
Looked(w) == [stack EXCEPT ![Len(stack)].rest = @ \ {w}]

Descend ==
  /\ stack # <<>>
  /\ \E w \in Top.rest :
       /\ Fresh(w)
       /\ Open(w, Looked(w))
  /\ UNCHANGED <<input, todo, sccOf, sinks>>

LookBackNever(w) == low                         \* variant: no low link
LookBack(w) ==
  IF w \in onStack /\ index[w] < low[Top.v]
    THEN [low EXCEPT ![Top.v] = index[w]]
    ELSE low

Look ==
  /\ stack # <<>>
  /\ \E w \in Top.rest :
       /\ ~Fresh(w)
       /\ stack' = Looked(w)
       /\ low' = LookBack(w)
  /\ UNCHANGED <<input, todo, index, comp, sccOf, sinks>>

(* The frame is exhausted: pop it and hand its low link to the parent.     *)
Pop(ll) ==
  LET v == Top.v
      n == Len(stack) - 1
      p == stack[n].v
  IN /\ stack' = SubSeq(stack, 1, n)
     /\ low' = IF n > 0 /\ ll[v] < ll[p] THEN [ll EXCEPT ![p] = ll[v]] ELSE ll

(* The members of the component whose first visited value is v: everything *)
(* above v on comp.                                                        *)
FirstOf(v) == CHOOSE i \in 1 .. Len(comp) : comp[i] = v

LastMember(v) == {comp[Len(comp)]}             \* variant: the loop pops once
Members(v) == {comp[i] : i \in FirstOf(v) .. Len(comp)}

OwnSinks(C) == C \cap Functions                 \* variant: successors ignored
SinksOf(C) ==
  (C \cap Functions) \cup
    UNION {sinks[sccOf[s]] : s \in (UNION {flow[w] : w \in C}) \cap Completed}

Close ==
  /\ stack # <<>>
  /\ Top.rest = {}
  /\ low[Top.v] = index[Top.v]
  /\ LET C == Members(Top.v)
     IN /\ comp' = SubSeq(comp, 1, FirstOf(Top.v) - 1)
        /\ sccOf' = [w \in Values |-> IF w \in C THEN Len(sinks) + 1 ELSE sccOf[w]]
        /\ sinks' = Append(sinks, SinksOf(C))
  /\ Pop(low)
  /\ UNCHANGED <<input, todo, index>>

Ascend ==
  /\ stack # <<>>
  /\ Top.rest = {}
  /\ low[Top.v] # index[Top.v]
  /\ Pop(low)
  /\ UNCHANGED <<input, todo, index, comp, sccOf, sinks>>

Next == TakeRoot \/ SkipRoot \/ Descend \/ Look \/ Close \/ Ascend

(* Sequential code that nothing blocks.                                    *)
Spec == Init /\ [][Next]_vars /\ WF_vars(Next)

Done == todo = {} /\ stack = <<>>

-----------------------------------------------------------------------------
(* The values v can carry.                                                 *)
Carried(v) == Closure(flow, {v})

(* A completed component lists exactly the functions its members can       *)
(* carry, from the moment it is completed: buildEscapeEdges turns these    *)
(* sets into call edges, so a missing function would be a missed callback  *)
(* and an extra one a false edge.                                          *)
SinksExact ==
  \A v \in Completed : sinks[sccOf[v]] = Carried(v) \cap Functions

(* Components are the classes of mutual flow: no cycle is split between    *)
(* two components and no component joins two classes.                      *)
ComponentsAreCycles ==
  \A v \in Completed :
    LET carried == Carried(v)
    IN \A w \in Completed :
         sccOf[v] = sccOf[w] <=> w \in carried /\ v \in Carried(w)

(* The values below the top of the search: comp holds the visited values   *)
(* whose component is open, in visiting order, and each of them can still  *)
(* flow back to a value on the path of frames.                             *)
OpenValues ==
  /\ onStack = Visited \ Completed
  /\ \A i, j \in 1 .. Len(comp) : i < j => index[comp[i]] < index[comp[j]]
  /\ \A i \in 1 .. Len(stack) : stack[i].v \in onStack
  /\ \A v \in onStack :
       {stack[i].v : i \in {j \in 1 .. Len(stack) : index[stack[j].v] <= index[v]}}
         \cap Carried(v) # {}

(* The types and the discipline of the two stacks.                         *)
Inv == TypeOK /\ OpenValues

(* The computation ends.                                                   *)
Termination == <>Done
=============================================================================
