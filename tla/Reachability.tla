---------------------------- MODULE Reachability ----------------------------
(***************************************************************************)
(* The breadth-first search of analyzer/src/Reachability.cpp.  It receives *)
(* a call graph and a list of entry names and returns the reached          *)
(* functions, each with the way it was reached (Via) and its depth, and    *)
(* the names it could not resolve.                                         *)
(*                                                                         *)
(* The call graph and the entry list are arbitrary inputs, drawn in Init   *)
(* from CallGraphs and EntryLists.  The order of the edges of one function *)
(* is an accident of the order of instructions, hence a visit takes any    *)
(* pending edge.  A function is identified with its (unique) symbol name,  *)
(* so Functions is a subset of Names and a name outside it is one for      *)
(* which Module::getFunction returns null.                                 *)
(***************************************************************************)
EXTENDS Naturals, Sequences, FiniteSets

CONSTANTS
  Functions,    \* every function of the LLVM module
  Defined,      \* those with a body; the others are declarations
  Names,        \* names an entry list can mention
  CallGraphs,   \* the call graphs considered, each a set of edges
  EntryLists    \* the entry lists considered

EdgeKinds == {"Direct", "Indirect"}
Vias      == {"Direct", "Indirect", "Both"}
Unreached == "Unreached"                  \* no entry in ReachResult::reached

Edges == [from : Functions, to : Functions, kind : EdgeKinds]

(***************************************************************************)
(* Only a body has call sites, so every edge leaves a defined function:    *)
(* all three edge builders of CallGraph.cpp skip declarations.             *)
(***************************************************************************)
ASSUME ModuleAssumption ==
  /\ Defined \subseteq Functions
  /\ Functions \subseteq Names
  /\ CallGraphs \subseteq SUBSET [from : Defined, to : Functions, kind : EdgeKinds]
  /\ EntryLists \subseteq Seq(Names)

VARIABLES
  edges,      \* the call graph; addEdge keeps at most one edge per kind
  entries,    \* the entry names, in the order given
  next,       \* position of the next entry to seed
  missing,    \* ReachResult::missingNames
  queue,      \* the FIFO work list
  pending,    \* edges of the function being expanded, not yet visited
  via,        \* ReachResult::reached, with Unreached where it has no key
  depth,      \* ReachResult::depth, 0 where it has no key
  returned    \* computeReachability has returned

vars == <<edges, entries, next, missing, queue, pending, via, depth, returned>>
input == <<edges, entries>>

TypeOK ==
  /\ edges \in SUBSET Edges
  /\ entries \in Seq(Names)
  /\ next \in 1 .. Len(entries) + 1
  /\ missing \in Seq(Names)
  /\ queue \in Seq(Functions)
  /\ pending \in SUBSET edges
  /\ via \in [Functions -> Vias \cup {Unreached}]
  /\ depth \in [Functions -> Nat]
  /\ returned \in BOOLEAN

Reached == {f \in Functions : via[f] # Unreached}

fromKind(k) == IF k = "Direct" THEN "Direct" ELSE "Indirect"

mergeViaFirst(a, b) == a                       \* variant: the first way wins
mergeVia(a, b) == IF a = b THEN a ELSE "Both"

-----------------------------------------------------------------------------
Init ==
  /\ edges \in CallGraphs
  /\ entries \in EntryLists
  /\ next = 1
  /\ missing = <<>>
  /\ queue = <<>>
  /\ pending = {}
  /\ via = [f \in Functions |-> Unreached]
  /\ depth = [f \in Functions |-> 0]
  /\ returned = FALSE

(***************************************************************************)
(* One iteration of the loop over the entries: a name without a definition *)
(* is reported, a new root is enqueued, and a root that was already seeded *)
(* is skipped.                                                             *)
(***************************************************************************)
Seeding == next <= Len(entries)

IsRoot(name) == name \in Defined

PushFront(f) == <<f>> \o queue                 \* variant: a stack, not a queue
Enqueue(f) == Append(queue, f)

SeedMissing ==
  /\ Seeding
  /\ ~IsRoot(entries[next])
  /\ missing' = Append(missing, entries[next])
  /\ next' = next + 1
  /\ UNCHANGED <<input, queue, pending, via, depth, returned>>

SeedRoot ==
  /\ Seeding
  /\ IsRoot(entries[next])
  /\ entries[next] \notin Reached
  /\ via' = [via EXCEPT ![entries[next]] = "Direct"]
  /\ depth' = [depth EXCEPT ![entries[next]] = 0]
  /\ queue' = Enqueue(entries[next])
  /\ next' = next + 1
  /\ UNCHANGED <<input, missing, pending, returned>>

SeedAgain ==
  /\ Seeding
  /\ IsRoot(entries[next])
  /\ entries[next] \in Reached
  /\ next' = next + 1
  /\ UNCHANGED <<input, missing, queue, pending, via, depth, returned>>

(***************************************************************************)
(* The search: pop a function and look up its edges (none for a leaf, the  *)
(* early `continue`), then visit the edges one by one.                     *)
(***************************************************************************)
Idle == ~Seeding /\ pending = {}

DirectOnly(f) == {e \in edges : e.from = f /\ e.kind = "Direct"}  \* variant
Outgoing(f) == {e \in edges : e.from = f}

PeekOnly ==                                     \* variant: front without pop
  /\ Idle
  /\ queue # <<>>
  /\ pending' = Outgoing(Head(queue))
  /\ UNCHANGED <<input, next, missing, queue, via, depth, returned>>

Dequeue ==
  /\ Idle
  /\ queue # <<>>
  /\ queue' = Tail(queue)
  /\ pending' = Outgoing(Head(queue))
  /\ UNCHANGED <<input, next, missing, via, depth, returned>>

Discover(e) ==
  /\ e.to \notin Reached
  /\ via' = [via EXCEPT ![e.to] = fromKind(e.kind)]
  /\ depth' = [depth EXCEPT ![e.to] = depth[e.from] + 1]
  /\ queue' = Enqueue(e.to)

RevisitDeeper(e) ==                            \* variant: the last depth wins
  /\ e.to \in Reached
  /\ via' = [via EXCEPT ![e.to] = mergeVia(via[e.to], fromKind(e.kind))]
  /\ depth' = [depth EXCEPT ![e.to] = depth[e.from] + 1]
  /\ UNCHANGED queue

Revisit(e) ==
  /\ e.to \in Reached
  /\ via' = [via EXCEPT ![e.to] = mergeVia(via[e.to], fromKind(e.kind))]
  /\ UNCHANGED <<depth, queue>>

Visit ==
  \E e \in pending :
    /\ Discover(e) \/ Revisit(e)
    /\ pending' = pending \ {e}
    /\ UNCHANGED <<input, next, missing, returned>>

ReturnEarly ==                                 \* variant: work still queued
  /\ Idle
  /\ ~returned
  /\ returned' = TRUE
  /\ UNCHANGED <<input, next, missing, queue, pending, via, depth>>

Return ==
  /\ Idle
  /\ queue = <<>>
  /\ ~returned
  /\ returned' = TRUE
  /\ UNCHANGED <<input, next, missing, queue, pending, via, depth>>

Next ==
  \/ SeedMissing \/ SeedRoot \/ SeedAgain
  \/ Dequeue \/ Visit \/ Return

(***************************************************************************)
(* The function is sequential code that nothing blocks: it always takes    *)
(* its next step.                                                          *)
(***************************************************************************)
Spec == Init /\ [][Next]_vars /\ WF_vars(Next)

-----------------------------------------------------------------------------
(***************************************************************************)
(* Reading the state.                                                      *)
(***************************************************************************)
Queued == {queue[i] : i \in 1 .. Len(queue)}

Roots == {entries[i] : i \in 1 .. Len(entries)} \cap Defined

SeededRoots == {entries[i] : i \in 1 .. next - 1} \cap Defined

\* An edge was visited once its caller left the queue and it is not pending.
Visited(e) == e.from \in Reached /\ e.from \notin Queued /\ e \notin pending

\* The kinds by which f is known to be reached; a root counts as Direct.
Evidence(f) ==
  {e.kind : e \in {d \in edges : d.to = f /\ Visited(d)}}
    \cup {k \in {"Direct"} : f \in SeededRoots}

ViaOf(kinds) ==
  CASE kinds = {}           -> Unreached
    [] kinds = {"Direct"}   -> "Direct"
    [] kinds = {"Indirect"} -> "Indirect"
    [] OTHER                -> "Both"

\* S holds the roots and is closed under calls.
Closed(S) ==
  /\ Roots \subseteq S
  /\ \A e \in edges : e.from \in S => e.to \in S

-----------------------------------------------------------------------------
(***************************************************************************)
(* Safety.                                                                 *)
(***************************************************************************)

(* No under-reporting: the returned set holds every defined entry and,     *)
(* with a function, everything the function has an edge to.  This is the   *)
(* guarantee the README states first.                                      *)
NoUnderReporting == returned => Closed(Reached)

(* No function is reported that the call graph does not reach: at every    *)
(* moment the reached set lies inside every closed set.                    *)
OnlyReachable == \A S \in SUBSET Functions : Closed(S) => Reached \subseteq S

(* via summarises all the evidence seen so far and nothing else, whatever  *)
(* the order of the edges.  When the search returns this makes `indirect`  *)
(* mean "by indirect edges only", the surface a user is told to audit.     *)
ViaSummarisesEvidence == \A f \in Functions : via[f] = ViaOf(Evidence(f))

(* depth is the length of a shortest path from an entry: entries are at 0, *)
(* no edge of a reached caller skips a level, and every other function is  *)
(* one level below some caller.                                            *)
DepthIsShortest ==
  returned =>
    /\ \A f \in Roots : depth[f] = 0
    /\ \A e \in edges : e.from \in Reached => depth[e.to] <= depth[e.from] + 1
    /\ \A f \in Reached \ Roots : \E e \in edges :
         /\ e.to = f
         /\ e.from \in Reached
         /\ depth[f] = depth[e.from] + 1

(***************************************************************************)
(* Why the search is correct: the inductive strengthening of the above.    *)
(***************************************************************************)

(* The work list is a frontier.  Seeding finishes before any edge is       *)
(* followed; a function enters the queue once, when it is reached; and a   *)
(* function that left the queue has each edge either visited, its target   *)
(* reached, or pending; the pending edges all leave one function.          *)
SearchInv ==
  /\ SeededRoots \subseteq Reached
  /\ Seeding => pending = {} /\ Reached = Queued
  /\ Queued \subseteq Reached
  /\ \A i, j \in 1 .. Len(queue) : queue[i] = queue[j] => i = j
  /\ \A e, d \in pending : e.from \in Reached \ Queued /\ d.from = e.from
  /\ \A e \in edges : Visited(e) => e.to \in Reached
  /\ returned => Idle /\ queue = <<>>

(* Expansion goes level by level: the queue is sorted by depth, and no     *)
(* function lies more than one level below the one being expanded or, in   *)
(* between, the next one.                                                  *)
BreadthFirst ==
  /\ \A i, j \in 1 .. Len(queue) : i <= j => depth[queue[i]] <= depth[queue[j]]
  /\ \A e \in pending :
       /\ \A f \in Reached : depth[f] <= depth[e.from] + 1
       /\ \A f \in Queued : depth[e.from] <= depth[f]
  /\ pending = {} /\ queue # <<>> =>
       \A f \in Reached : depth[f] <= depth[queue[1]] + 1
  /\ \A e \in edges : Visited(e) => depth[e.to] <= depth[e.from] + 1
  /\ \A f \in SeededRoots : depth[f] = 0
  /\ \A f \in Reached \ SeededRoots : \E e \in edges :
       Visited(e) /\ e.to = f /\ depth[f] = depth[e.from] + 1

(***************************************************************************)
(* What a step may never do: forget a function, change the depth of a      *)
(* reached function, or withdraw evidence (Both is final).                 *)
(***************************************************************************)
NothingIsForgotten ==
  [][\A f \in Reached :
       /\ depth'[f] = depth[f]
       /\ via'[f] = via[f] \/ via'[f] = "Both"]_vars

(* The search returns: every function is expanded at most once.            *)
Termination == <>returned

(* The search implements the abstract reachable set.                       *)
Abstract == INSTANCE ReachableSet
              WITH roots <- Roots, found <- Reached, answered <- returned

ImplementsReachableSet == Abstract!Spec
=============================================================================
