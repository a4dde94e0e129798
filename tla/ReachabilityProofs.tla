------------------------- MODULE ReachabilityProofs -------------------------
(***************************************************************************)
(* Proofs about Reachability for every module, call graph and entry list,  *)
(* and about Roots, which finds what the search starts from.               *)
(***************************************************************************)
EXTENDS Reachability, Roots, ValueFlowProofs

(* Names for one expression of the code each; always expanded.            *)
USE DEF IsRoot, Enqueue, Outgoing

(***************************************************************************)
(* Every variable keeps its type.                                          *)
(***************************************************************************)
THEOREM TypeCorrect == Spec => []TypeOK
<1> USE ModuleAssumption DEF TypeOK, Edges, EdgeKinds, Vias, Unreached
<1>1. Init => TypeOK
  <2> SUFFICES ASSUME Init PROVE TypeOK
    OBVIOUS
  <2>1. edges \in SUBSET Edges /\ pending \in SUBSET edges
    BY DEF Init
  <2>2. entries \in Seq(Names) /\ next \in 1 .. Len(entries) + 1
    BY DEF Init
  <2>3. missing \in Seq(Names) /\ queue \in Seq(Functions) /\ returned \in BOOLEAN
    BY EmptySeq DEF Init
  <2>4. via \in [Functions -> Vias \cup {Unreached}]
    BY DEF Init
  <2>5. depth \in [Functions -> Nat]
    BY DEF Init
  <2> QED
    BY <2>1, <2>2, <2>3, <2>4, <2>5
<1>2. TypeOK /\ [Next]_vars => TypeOK'
  <2> SUFFICES ASSUME TypeOK, [Next]_vars PROVE TypeOK'
    OBVIOUS
  <2>1. CASE SeedMissing
    BY <2>1 DEF SeedMissing, Seeding, input
  <2>2. CASE SeedRoot
    BY <2>2 DEF SeedRoot, Seeding, input
  <2>3. CASE SeedAgain
    BY <2>3 DEF SeedAgain, Seeding, input
  <2>4. CASE Dequeue
    BY <2>4 DEF Dequeue, input
  <2>5. ASSUME NEW e \in pending,
               Discover(e),
               pending' = pending \ {e},
               UNCHANGED <<input, next, missing, returned>>
        PROVE  TypeOK'
    <3>1. e \in edges /\ e.to \in Functions /\ e.from \in Functions
      OBVIOUS
    <3>2. via' \in [Functions -> Vias \cup {Unreached}]
      BY <2>5, <3>1 DEF Discover, fromKind
    <3>3. depth' \in [Functions -> Nat] /\ queue' \in Seq(Functions)
      BY <2>5, <3>1 DEF Discover
    <3> QED
      BY <2>5, <3>2, <3>3 DEF input
  <2>6. ASSUME NEW e \in pending,
               Revisit(e),
               pending' = pending \ {e},
               UNCHANGED <<input, next, missing, returned>>
        PROVE  TypeOK'
    <3>1. e \in edges /\ e.to \in Functions
      OBVIOUS
    <3>2. via' \in [Functions -> Vias \cup {Unreached}]
      BY <2>6, <3>1 DEF Revisit, fromKind, mergeVia
    <3> QED
      BY <2>6, <3>2 DEF Revisit, input
  <2>7. CASE Return
    BY <2>7 DEF Return, input
  <2>8. CASE UNCHANGED vars
    BY <2>8 DEF vars
  <2> QED
    BY <2>1, <2>2, <2>3, <2>4, <2>5, <2>6, <2>7, <2>8 DEF Next, Visit
<1> QED
  BY <1>1, <1>2, PTL DEF Spec

-----------------------------------------------------------------------------
(***************************************************************************)
(* The work list and the reached set after one operation on them.          *)
(***************************************************************************)

(* Appending a function to the queue adds exactly that function to it.     *)
LEMMA QueueAppend ==
  ASSUME TypeOK, NEW f \in Functions, queue' = Append(queue, f)
  PROVE  /\ Queued' = Queued \cup {f}
         /\ Len(queue) \in Nat
         /\ Len(queue') = Len(queue) + 1
         /\ \A i \in 1 .. Len(queue) : queue'[i] = queue[i]
         /\ queue'[Len(queue) + 1] = f
<1>1. queue \in Seq(Functions)
  BY DEF TypeOK
<1>2. /\ Len(queue) \in Nat
      /\ Len(queue') = Len(queue) + 1
      /\ \A i \in 1 .. Len(queue) : queue'[i] = queue[i]
      /\ queue'[Len(queue) + 1] = f
  BY <1>1, AppendProperties
<1>3. Queued' = Queued \cup {f}
  BY <1>2 DEF Queued
<1> QED
  BY <1>2, <1>3

(* Popping the queue removes its first element.                            *)
LEMMA QueuePop ==
  ASSUME TypeOK, queue # <<>>, queue' = Tail(queue)
  PROVE  /\ Head(queue) = queue[1]
         /\ queue[1] \in Functions
         /\ Len(queue) \in Nat \ {0}
         /\ Len(queue') = Len(queue) - 1
         /\ \A i \in 1 .. Len(queue') : queue'[i] = queue[i + 1]
         /\ Queued = Queued' \cup {queue[1]}
<1>1. queue \in Seq(Functions)
  BY DEF TypeOK
<1>2. /\ Head(queue) = queue[1]
      /\ queue[1] \in Functions
      /\ Len(queue) \in Nat \ {0}
      /\ Len(queue') = Len(queue) - 1
      /\ \A i \in 1 .. Len(queue') : queue'[i] = queue[i + 1]
  BY <1>1, HeadTailProperties, EmptySeq
<1>3. ASSUME NEW i \in 1 .. Len(queue)
      PROVE  queue[i] \in Queued' \cup {queue[1]}
  <2>1. CASE i = 1
    BY <2>1
  <2>2. CASE i # 1
    <3>1. i - 1 \in 1 .. Len(queue') /\ queue'[i - 1] = queue[i]
      BY <1>2, <2>2
    <3> QED
      BY <3>1 DEF Queued
  <2> QED
    BY <2>1, <2>2
<1>4. Queued' \cup {queue[1]} \subseteq Queued
  BY <1>2 DEF Queued
<1>5. Queued \subseteq Queued' \cup {queue[1]}
  BY <1>3 DEF Queued
<1> QED
  BY <1>2, <1>4, <1>5

(* Recording a way for f makes f reached and changes nothing else.         *)
LEMMA ReachedAdd ==
  ASSUME TypeOK, NEW f \in Functions, NEW k \in Vias,
         via' = [via EXCEPT ![f] = k]
  PROVE  Reached' = Reached \cup {f}
BY DEF TypeOK, Reached, Vias, Unreached

(* Seeding one more entry adds at most that entry to the seeded roots.     *)
LEMMA SeedNext ==
  ASSUME TypeOK, Seeding, next' = next + 1, UNCHANGED entries
  PROVE  SeededRoots' = SeededRoots \cup ({entries[next]} \cap Defined)
<1>1. next \in Nat \ {0} /\ Len(entries) \in Nat
  BY DEF TypeOK
<1>2. 1 .. next' - 1 = (1 .. next - 1) \cup {next}
  BY <1>1
<1> QED
  BY <1>1, <1>2 DEF SeededRoots

(* Edges run between functions.                                            *)
LEMMA EdgeEnds ==
  ASSUME TypeOK, NEW e \in edges
  PROVE  e.from \in Functions /\ e.to \in Functions /\ e.kind \in EdgeKinds
BY DEF TypeOK, Edges

(* The kind of an edge and a merge are ways of being reached.              *)
LEMMA ViaOfStep ==
  ASSUME NEW k \in EdgeKinds, NEW v \in Vias
  PROVE  fromKind(k) = k /\ fromKind(k) \in Vias /\ mergeVia(v, k) \in Vias
BY DEF EdgeKinds, Vias, fromKind, mergeVia

-----------------------------------------------------------------------------
(***************************************************************************)
(* The frontier invariant.                                                 *)
(***************************************************************************)

(* A step that leaves the search alone keeps the frontier.                 *)
LEMMA SearchInvStutter ==
  ASSUME SearchInv, UNCHANGED vars
  PROVE  SearchInv'
BY DEF SearchInv, SeededRoots, Reached, Queued, Seeding, Idle, Visited, vars

(* Seeding an entry keeps the frontier: a new root is reached and queued.  *)
LEMMA SearchInvSeed ==
  ASSUME TypeOK, TypeOK', SearchInv, SeedMissing \/ SeedRoot \/ SeedAgain
  PROVE  SearchInv' /\ Reached' = Queued'
<1>1. /\ pending = {} /\ Reached = Queued /\ ~returned
      /\ next' = next + 1 /\ UNCHANGED <<edges, entries, pending, returned>>
  BY DEF SearchInv, SeedMissing, SeedRoot, SeedAgain, Seeding, Idle, input
<1>2. SeededRoots' = SeededRoots \cup ({entries[next]} \cap Defined)
  BY <1>1, SeedNext DEF SeedMissing, SeedRoot, SeedAgain
<1>3. CASE SeedMissing \/ SeedAgain
  <2>1. UNCHANGED <<queue, via>> /\ entries[next] \notin Defined \ Reached
    BY <1>3 DEF SeedMissing, SeedAgain
  <2>2. Queued' = Queued /\ Reached' = Reached
    BY <2>1 DEF Queued, Reached
  <2> QED
    BY <1>1, <1>2, <2>1, <2>2 DEF SearchInv, Visited
<1>4. CASE SeedRoot
  <2> DEFINE r == entries[next]
  <2>1. r \in Functions /\ r \notin Reached /\ queue' = Append(queue, r)
    BY <1>4, ModuleAssumption DEF SeedRoot
  <2>2. Reached' = Reached \cup {r}
    BY <1>4, <2>1, ReachedAdd DEF SeedRoot, Vias
  <2>3. /\ Queued' = Queued \cup {r}
        /\ Len(queue) \in Nat
        /\ Len(queue') = Len(queue) + 1
        /\ \A i \in 1 .. Len(queue) : queue'[i] = queue[i]
        /\ queue'[Len(queue) + 1] = r
    BY <2>1, QueueAppend
  <2>4. \A i, j \in 1 .. Len(queue') : queue'[i] = queue'[j] => i = j
    BY <1>1, <2>1, <2>3 DEF SearchInv, Queued
  <2> HIDE DEF r
  <2> QED
    BY <1>1, <1>2, <2>2, <2>3, <2>4 DEF SearchInv, Visited, r
<1> QED
  BY <1>3, <1>4

(* Dequeuing keeps the frontier: all edges of the function are pending.    *)
LEMMA SearchInvDequeue ==
  ASSUME TypeOK, TypeOK', SearchInv, Dequeue
  PROVE  SearchInv'
<1>1. /\ ~Seeding /\ pending = {} /\ queue # <<>> /\ queue' = Tail(queue)
      /\ UNCHANGED <<edges, entries, next, via, returned>>
      /\ pending' = {e \in edges : e.from = Head(queue)}
  BY DEF Dequeue, Idle, input
<1>2. /\ Reached' = Reached /\ SeededRoots' = SeededRoots /\ ~Seeding'
      /\ ~returned'
  BY <1>1 DEF Reached, SeededRoots, Seeding, SearchInv
<1>3. /\ Head(queue) = queue[1]
      /\ queue[1] \in Functions
      /\ Len(queue) \in Nat \ {0}
      /\ Len(queue') = Len(queue) - 1
      /\ \A i \in 1 .. Len(queue') : queue'[i] = queue[i + 1]
      /\ Queued = Queued' \cup {queue[1]}
  BY <1>1, QueuePop
<1>4. \A i, j \in 1 .. Len(queue') : queue'[i] = queue'[j] => i = j
  <2> SUFFICES ASSUME NEW i \in 1 .. Len(queue'), NEW j \in 1 .. Len(queue'),
                      queue'[i] = queue'[j]
               PROVE  i = j
    OBVIOUS
  <2>1. i + 1 \in 1 .. Len(queue) /\ j + 1 \in 1 .. Len(queue)
    BY <1>3
  <2>2. queue[i + 1] = queue[j + 1]
    BY <1>3
  <2> QED
    BY <2>1, <2>2 DEF SearchInv
<1>5. queue[1] \notin Queued'
  <2> SUFFICES ASSUME NEW i \in 1 .. Len(queue'), queue'[i] = queue[1]
               PROVE  FALSE
    BY DEF Queued
  <2>1. i + 1 \in 1 .. Len(queue) /\ 1 \in 1 .. Len(queue) /\ i + 1 # 1
    BY <1>3
  <2>2. queue[i + 1] = queue[1]
    BY <1>3
  <2> QED
    BY <2>1, <2>2 DEF SearchInv
<1>6. \A e, d \in pending' : e.from \in Reached' \ Queued' /\ d.from = e.from
  BY <1>1, <1>2, <1>3, <1>5 DEF SearchInv
<1>7. \A e \in edges' : Visited(e)' => Visited(e)
  BY <1>1, <1>2, <1>3 DEF Visited
<1> QED
  BY <1>1, <1>2, <1>3, <1>4, <1>6, <1>7 DEF SearchInv

(* Visiting the edge e of the expanded function: what both cases share.    *)
LEMMA SearchInvVisit ==
  ASSUME TypeOK, TypeOK', SearchInv,
         NEW e \in pending,
         Discover(e) \/ Revisit(e),
         pending' = pending \ {e},
         UNCHANGED <<input, next, missing, returned>>
  PROVE  SearchInv'
<1>1. /\ e \in edges /\ e.to \in Functions /\ e.from \in Functions
      /\ e.kind \in EdgeKinds /\ e.from \in Reached \ Queued
  BY EdgeEnds DEF TypeOK, SearchInv
<1>2. ~Seeding /\ ~Seeding' /\ ~returned /\ ~returned' /\ SeededRoots' = SeededRoots
  BY DEF SearchInv, Seeding, Idle, SeededRoots, input
<1>3. UNCHANGED edges
  BY DEF input
<1>4. CASE Discover(e)
  <2>1. e.to \notin Reached /\ queue' = Append(queue, e.to)
    BY <1>4 DEF Discover
  <2>2. Reached' = Reached \cup {e.to}
    BY <1>1, <1>4, ReachedAdd, ViaOfStep DEF Discover, Vias
  <2>3. /\ Queued' = Queued \cup {e.to}
        /\ Len(queue) \in Nat
        /\ Len(queue') = Len(queue) + 1
        /\ \A i \in 1 .. Len(queue) : queue'[i] = queue[i]
        /\ queue'[Len(queue) + 1] = e.to
    BY <1>1, <2>1, QueueAppend
  <2>4. \A i, j \in 1 .. Len(queue') : queue'[i] = queue'[j] => i = j
    BY <2>1, <2>3 DEF SearchInv, Queued
  <2>5. \A d, c \in pending' : d.from \in Reached' \ Queued' /\ c.from = d.from
    BY <2>1, <2>2, <2>3 DEF SearchInv
  <2>6. \A d \in edges' : Visited(d)' => Visited(d) \/ d = e
    BY <1>3, <2>2, <2>3 DEF Visited
  <2> QED
    BY <1>2, <1>3, <2>2, <2>3, <2>4, <2>5, <2>6 DEF SearchInv
<1>5. CASE Revisit(e)
  <2>1. e.to \in Reached /\ UNCHANGED queue
    BY <1>5 DEF Revisit
  <2>2. Reached' = Reached
    <3>1. via[e.to] \in Vias
      BY <1>1, <2>1 DEF Reached, TypeOK
    <3>2. mergeVia(via[e.to], fromKind(e.kind)) \in Vias
      BY <1>1, <3>1, ViaOfStep
    <3>3. Reached' = Reached \cup {e.to}
      BY <1>1, <1>5, <3>2, ReachedAdd DEF Revisit
    <3> QED
      BY <2>1, <3>3
  <2>3. Queued' = Queued
    BY <2>1 DEF Queued
  <2>4. \A d \in edges' : Visited(d)' => Visited(d) \/ d = e
    BY <1>3, <2>2, <2>3 DEF Visited
  <2> QED
    BY <1>2, <1>3, <2>1, <2>2, <2>3, <2>4 DEF SearchInv
<1> QED
  BY <1>4, <1>5

(* Returning keeps the frontier: only `returned` changes.                  *)
LEMMA SearchInvReturn ==
  ASSUME TypeOK, SearchInv, Return
  PROVE  SearchInv'
BY DEF Return, SearchInv, SeededRoots, Reached, Queued, Seeding, Idle, Visited, input

(* The frontier invariant: a function is queued once, when it is reached,  *)
(* and a dequeued function has each of its edges visited or pending.       *)
THEOREM FrontierCorrect == Spec => []SearchInv
<1>1. Init => SearchInv
  BY DEF Init, SearchInv, SeededRoots, Reached, Queued, Seeding, Idle, Visited
<1>2. TypeOK /\ TypeOK' /\ SearchInv /\ [Next]_vars => SearchInv'
  BY SearchInvStutter, SearchInvSeed, SearchInvDequeue, SearchInvVisit,
     SearchInvReturn DEF Next, Visit
<1> QED
  BY <1>1, <1>2, TypeCorrect, PTL DEF Spec

(***************************************************************************)
(* Which edges count as visited after a step of the search.                *)
(***************************************************************************)
(* Dequeuing leaves the visited edges as they are.                         *)
LEMMA VisitedDequeue ==
  ASSUME TypeOK, TypeOK', SearchInv, Dequeue, NEW e \in edges
  PROVE  Visited(e)' <=> Visited(e)
<1>1. /\ pending = {} /\ queue # <<>> /\ queue' = Tail(queue)
      /\ UNCHANGED via
      /\ pending' = {d \in edges : d.from = Head(queue)}
  BY DEF Dequeue, Idle
<1>2. Reached' = Reached
  BY <1>1 DEF Reached
<1>3. Head(queue) = queue[1] /\ Queued = Queued' \cup {queue[1]}
  BY <1>1, QueuePop
<1>4. e.from \in Queued => e.from \in Queued' \/ e \in pending'
  BY <1>1, <1>3
<1>5. SearchInv'
  BY SearchInvDequeue
<1> QED
  BY <1>1, <1>2, <1>3, <1>4, <1>5 DEF Visited, SearchInv

(* Merging a way into a reached function reaches nothing new.              *)
LEMMA RevisitKeeps ==
  ASSUME TypeOK, SearchInv, NEW e \in pending, Revisit(e)
  PROVE  Reached' = Reached /\ Queued' = Queued
<1>1. e.to \in Functions /\ e.kind \in EdgeKinds /\ e.to \in Reached
  BY EdgeEnds DEF TypeOK, Revisit
<1>2. mergeVia(via[e.to], fromKind(e.kind)) \in Vias
  <2>1. via[e.to] \in Vias
    BY <1>1 DEF Reached, TypeOK
  <2> QED
    BY <1>1, <2>1, ViaOfStep
<1>3. Reached' = Reached \cup {e.to}
  BY <1>1, <1>2, ReachedAdd DEF Revisit
<1> QED
  BY <1>1, <1>3 DEF Revisit, Queued

(* Visiting the pending edge e adds e to the visited edges.                *)
LEMMA VisitedVisit ==
  ASSUME TypeOK, SearchInv,
         NEW e \in pending,
         Discover(e) \/ Revisit(e),
         pending' = pending \ {e},
         NEW d \in edges
  PROVE  Visited(d)' <=> Visited(d) \/ d = e
<1>1. /\ e.to \in Functions /\ e.kind \in EdgeKinds /\ e.from \in Reached \ Queued
  BY EdgeEnds DEF TypeOK, SearchInv
<1>2. CASE Discover(e)
  <2>1. e.to \notin Reached
    BY <1>2 DEF Discover
  <2>2. Reached' = Reached \cup {e.to} /\ Queued' = Queued \cup {e.to}
    BY <1>1, <1>2, ReachedAdd, QueueAppend, ViaOfStep DEF Discover, Vias
  <2>3. d.from = e.to => ~Visited(d) /\ d # e
    BY <1>1, <2>1 DEF Visited
  <2> QED
    BY <1>1, <2>2, <2>3 DEF Visited
<1>3. CASE Revisit(e)
  BY <1>1, <1>3, RevisitKeeps DEF Visited
<1> QED
  BY <1>2, <1>3

-----------------------------------------------------------------------------
(***************************************************************************)
(* The reached set is exact.                                               *)
(***************************************************************************)

(* When the search returns, the reached set contains the defined entries   *)
(* and is closed under calls: nothing reachable is left out.               *)
THEOREM NeverUnderReports == Spec => []NoUnderReporting
<1>1. TypeOK /\ SearchInv => NoUnderReporting
  <2> SUFFICES ASSUME TypeOK, SearchInv, returned
               PROVE  Closed(Reached)
    BY DEF NoUnderReporting
  <2>1. ~Seeding /\ pending = {} /\ queue = <<>>
    BY DEF SearchInv, Idle
  <2>2. SeededRoots = Roots
    <3>1. next - 1 = Len(entries)
      BY <2>1 DEF Seeding, TypeOK
    <3> QED
      BY <3>1 DEF SeededRoots, Roots
  <2>3. Queued = {}
    BY <2>1, EmptySeq DEF Queued
  <2> QED
    BY <2>1, <2>2, <2>3 DEF SearchInv, Closed, Visited
<1> QED
  BY <1>1, TypeCorrect, FrontierCorrect, PTL

(* At every moment the reached set lies within every set of functions that *)
(* holds the entries and is closed under calls: nothing else is reported.  *)
THEOREM NeverOverReports == Spec => []OnlyReachable
<1>1. Init => OnlyReachable
  BY DEF Init, OnlyReachable, Reached
<1>2. TypeOK /\ SearchInv /\ OnlyReachable /\ [Next]_vars => OnlyReachable'
  <2> SUFFICES ASSUME TypeOK, SearchInv, OnlyReachable, [Next]_vars,
                      NEW S \in SUBSET Functions, Closed(S)'
               PROVE  Reached' \subseteq S
    BY DEF OnlyReachable
  <2>1. UNCHANGED <<edges, entries>>
    BY DEF Next, vars, SeedMissing, SeedRoot, SeedAgain, Dequeue, Visit, Return, input
  <2>2. Closed(S) /\ Reached \subseteq S
    BY <2>1 DEF Closed, Roots, OnlyReachable
  <2>3. CASE UNCHANGED via
    BY <2>2, <2>3 DEF Reached
  <2>4. CASE SeedRoot
    <3>1. entries[next] \in Roots /\ entries[next] \in Functions
      BY <2>4, ModuleAssumption DEF SeedRoot, Seeding, Roots, TypeOK
    <3>2. Reached' = Reached \cup {entries[next]}
      BY <2>4, <3>1, ReachedAdd DEF SeedRoot, Vias
    <3> QED
      BY <2>2, <3>1, <3>2 DEF Closed
  <2>5. CASE Visit
    <3> PICK e \in pending : Discover(e) \/ Revisit(e)
      BY <2>5 DEF Visit
    <3>1. e \in edges /\ e.to \in Functions /\ e.from \in Reached /\ e.kind \in EdgeKinds
      BY EdgeEnds DEF TypeOK, SearchInv
    <3>2. e.to \in S
      BY <2>2, <3>1 DEF Closed
    <3>3. Reached' \subseteq Reached \cup {e.to}
      BY <3>1 DEF Discover, Revisit, Reached, TypeOK
    <3> QED
      BY <2>2, <3>2, <3>3
  <2> QED
    BY <2>3, <2>4, <2>5 DEF Next, vars, SeedMissing, SeedAgain, Dequeue, Return
<1> QED
  BY <1>1, <1>2, TypeCorrect, FrontierCorrect, PTL DEF Spec

-----------------------------------------------------------------------------
(***************************************************************************)
(* The search is breadth-first, hence depths are shortest distances.       *)
(***************************************************************************)
(* Seeding keeps the queue sorted by depth: every root has depth 0.        *)
LEMMA BreadthFirstSeed ==
  ASSUME TypeOK, TypeOK', SearchInv, BreadthFirst,
         SeedMissing \/ SeedRoot \/ SeedAgain
  PROVE  BreadthFirst'
<1>1. /\ pending = {} /\ Reached = Queued
      /\ next' = next + 1 /\ UNCHANGED <<edges, entries, pending>>
  BY DEF SearchInv, SeedMissing, SeedRoot, SeedAgain, Seeding, input
<1>2. SeededRoots' = SeededRoots \cup ({entries[next]} \cap Defined)
  BY <1>1, SeedNext DEF SeedMissing, SeedRoot, SeedAgain
<1>3. Reached = SeededRoots /\ \A f \in Reached : depth[f] = 0
  BY <1>1 DEF SearchInv, BreadthFirst, Visited
<1>4. CASE SeedMissing \/ SeedAgain
  <2>1. UNCHANGED <<queue, via, depth>> /\ entries[next] \notin Defined \ Reached
    BY <1>4 DEF SeedMissing, SeedAgain
  <2>2. Queued' = Queued /\ Reached' = Reached /\ SeededRoots' = SeededRoots
    BY <1>2, <1>3, <2>1 DEF Queued, Reached
  <2> QED
    BY <1>1, <2>1, <2>2 DEF BreadthFirst, Visited
<1>5. CASE SeedRoot
  <2> DEFINE r == entries[next]
  <2>1. /\ r \in Functions /\ r \in Defined /\ r \notin Reached
        /\ queue' = Append(queue, r)
    BY <1>5, ModuleAssumption DEF SeedRoot
  <2>2. Reached' = Reached \cup {r}
    BY <1>5, <2>1, ReachedAdd DEF SeedRoot, Vias
  <2>3. /\ Queued' = Queued \cup {r}
        /\ Len(queue) \in Nat
        /\ Len(queue') = Len(queue) + 1
    BY <2>1, QueueAppend
  <2>4. \A f \in Reached' : depth'[f] = 0
    BY <1>3, <1>5, <2>1, <2>2 DEF SeedRoot, TypeOK
  <2>5. \A i \in 1 .. Len(queue') : queue'[i] \in Reached'
    BY <1>1, <2>2, <2>3 DEF Queued
  <2>6. SeededRoots' = Reached'
    BY <1>2, <1>3, <2>1, <2>2
  <2>7. \A e \in edges' : ~Visited(e)'
    BY <1>1, <2>2, <2>3 DEF Visited
  <2>8. pending' = {} /\ 1 \in 1 .. Len(queue')
    BY <1>1, <2>3
  <2> HIDE DEF r
  <2> QED
    BY <2>4, <2>5, <2>6, <2>7, <2>8 DEF BreadthFirst
<1> QED
  BY <1>4, <1>5

(* Dequeuing keeps the queue sorted and within two levels.                 *)
LEMMA BreadthFirstDequeue ==
  ASSUME TypeOK, TypeOK', SearchInv, BreadthFirst, Dequeue
  PROVE  BreadthFirst'
<1>1. /\ pending = {} /\ queue # <<>> /\ queue' = Tail(queue)
      /\ UNCHANGED <<edges, entries, next, via, depth>>
      /\ pending' = {e \in edges : e.from = Head(queue)}
  BY DEF Dequeue, Idle, input
<1>2. Reached' = Reached /\ SeededRoots' = SeededRoots
  BY <1>1 DEF Reached, SeededRoots
<1>3. /\ Head(queue) = queue[1]
      /\ queue[1] \in Functions
      /\ Len(queue) \in Nat \ {0}
      /\ Len(queue') = Len(queue) - 1
      /\ \A i \in 1 .. Len(queue') : queue'[i] = queue[i + 1]
      /\ Queued = Queued' \cup {queue[1]}
  BY <1>1, QueuePop
<1>4. \A f \in Functions : depth[f] \in Nat
  BY DEF TypeOK
<1>5. \A f \in Reached : f \in Functions /\ depth[f] <= depth[queue[1]] + 1
  BY <1>1 DEF BreadthFirst, Reached
<1>6. \A i \in 1 .. Len(queue) : depth[queue[1]] <= depth[queue[i]]
  BY <1>3 DEF BreadthFirst
<1>7. \A f \in Queued : f \in Functions /\ depth[queue[1]] <= depth[f]
  BY <1>6 DEF Queued, SearchInv, Reached
<1>8. \A i, j \in 1 .. Len(queue') : i <= j => depth'[queue'[i]] <= depth'[queue'[j]]
  <2> SUFFICES ASSUME NEW i \in 1 .. Len(queue'), NEW j \in 1 .. Len(queue'), i <= j
               PROVE  depth[queue'[i]] <= depth[queue'[j]]
    BY <1>1
  <2>1. i + 1 \in 1 .. Len(queue) /\ j + 1 \in 1 .. Len(queue) /\ i + 1 <= j + 1
    BY <1>3
  <2> QED
    BY <1>3, <2>1 DEF BreadthFirst
<1>9. \A e \in pending' :
        /\ \A f \in Reached' : depth'[f] <= depth'[e.from] + 1
        /\ \A f \in Queued' : depth'[e.from] <= depth'[f]
  BY <1>1, <1>2, <1>3, <1>5, <1>7
<1>10. queue' # <<>> => \A f \in Reached' : depth'[f] <= depth'[queue'[1]] + 1
  <2> SUFFICES ASSUME queue' # <<>>, NEW f \in Reached
               PROVE  depth[f] <= depth[queue'[1]] + 1
    BY <1>1, <1>2
  <2>1. queue \in Seq(Functions) /\ queue' \in Seq(Functions)
    BY DEF TypeOK
  <2>2. 1 \in 1 .. Len(queue') /\ 2 \in 1 .. Len(queue)
    BY <1>3, <2>1, EmptySeq
  <2>3. queue'[1] = queue[2] /\ queue[2] \in Functions
    BY <1>3, <2>1, <2>2
  <2>4. depth[queue[1]] <= depth[queue[2]]
    BY <1>6, <2>2
  <2> QED
    BY <1>3, <1>4, <1>5, <2>3, <2>4
<1>11. \A e \in edges : Visited(e)' <=> Visited(e)
  BY VisitedDequeue
<1> QED
  BY <1>1, <1>2, <1>8, <1>9, <1>10, <1>11 DEF BreadthFirst

(* A discovered function goes to the end, one level below the expanded     *)
(* one.                                                                    *)
LEMMA BreadthFirstDiscover ==
  ASSUME TypeOK, TypeOK', SearchInv, BreadthFirst,
         NEW e \in pending,
         Discover(e),
         pending' = pending \ {e},
         UNCHANGED <<input, next, missing, returned>>
  PROVE  BreadthFirst'
<1>1. /\ e \in edges /\ e.to \in Functions /\ e.from \in Functions
      /\ e.kind \in EdgeKinds /\ e.from \in Reached \ Queued
  BY EdgeEnds DEF TypeOK, SearchInv
<1>2. /\ e.to \notin Reached /\ queue' = Append(queue, e.to)
      /\ depth' = [depth EXCEPT ![e.to] = depth[e.from] + 1]
      /\ UNCHANGED <<edges, entries, next>>
  BY DEF Discover, input
<1>3. Reached' = Reached \cup {e.to} /\ SeededRoots' = SeededRoots
  <2>1. Reached' = Reached \cup {e.to}
    BY <1>1, ReachedAdd, ViaOfStep DEF Discover, Vias
  <2> QED
    BY <1>2, <2>1 DEF SeededRoots
<1>4. /\ Queued' = Queued \cup {e.to}
      /\ Len(queue) \in Nat
      /\ Len(queue') = Len(queue) + 1
      /\ \A i \in 1 .. Len(queue) : queue'[i] = queue[i]
      /\ queue'[Len(queue) + 1] = e.to
  BY <1>1, <1>2, QueueAppend
<1>5. /\ \A f \in Functions : depth[f] \in Nat
      /\ Reached \subseteq Functions
      /\ Queued \subseteq Reached
      /\ \A i \in 1 .. Len(queue) : queue[i] \in Queued
  BY DEF TypeOK, SearchInv, Reached, Queued
<1>6. /\ \A f \in Reached : depth'[f] = depth[f]
      /\ depth'[e.to] = depth[e.from] + 1
  BY <1>1, <1>2, <1>5 DEF TypeOK
<1>7. /\ \A f \in Reached : depth[f] <= depth[e.from] + 1
      /\ \A f \in Queued : depth[e.from] <= depth[f]
  BY DEF BreadthFirst
<1>8. \A d \in pending : d.from = e.from
  BY DEF SearchInv
<1>9. \A i, j \in 1 .. Len(queue') : i <= j => depth'[queue'[i]] <= depth'[queue'[j]]
  <2> SUFFICES ASSUME NEW i \in 1 .. Len(queue'), NEW j \in 1 .. Len(queue'), i <= j
               PROVE  depth'[queue'[i]] <= depth'[queue'[j]]
    OBVIOUS
  <2>1. CASE j \in 1 .. Len(queue)
    <3>1. i \in 1 .. Len(queue)
      BY <1>4, <2>1
    <3> QED
      BY <1>4, <1>5, <1>6, <2>1, <3>1 DEF BreadthFirst
  <2>2. CASE j = Len(queue) + 1
    <3>1. depth'[queue'[j]] = depth[e.from] + 1
      BY <1>4, <1>6, <2>2
    <3>2. CASE i \in 1 .. Len(queue)
      BY <1>4, <1>5, <1>6, <1>7, <3>1, <3>2
    <3>3. CASE i = Len(queue) + 1
      BY <2>2, <3>1, <3>3, <1>1, <1>5
    <3> QED
      BY <1>4, <3>2, <3>3
  <2> QED
    BY <1>4, <2>1, <2>2
<1>10. /\ \A f \in Reached' : depth'[f] <= depth'[e.from] + 1
       /\ \A f \in Queued' : depth'[e.from] <= depth'[f]
       /\ depth'[e.from] \in Nat
  BY <1>1, <1>3, <1>4, <1>5, <1>6, <1>7
<1>11. queue'[1] \in Queued' /\ queue'[1] \in Reached' /\ depth'[queue'[1]] \in Nat
  <2>1. 1 \in 1 .. Len(queue')
    BY <1>4
  <2>2. queue'[1] \in Queued'
    BY <2>1 DEF Queued
  <2> QED
    BY <1>1, <1>3, <1>4, <1>5, <2>2 DEF TypeOK
<1>12. \A f \in Reached' : depth'[f] <= depth'[queue'[1]] + 1
  <2> SUFFICES ASSUME NEW f \in Reached' PROVE depth'[f] <= depth'[queue'[1]] + 1
    OBVIOUS
  <2>1. depth'[f] \in Nat
    BY <1>1, <1>3, <1>5 DEF TypeOK
  <2> QED
    BY <1>10, <1>11, <2>1
<1>13. \A d \in edges : Visited(d)' <=> Visited(d) \/ d = e
  BY VisitedVisit
<1>14. \A d \in edges : Visited(d) => d.from \in Reached /\ d.to \in Reached
  BY DEF Visited, SearchInv
<1>15. \A d \in edges : Visited(d)' => depth'[d.to] <= depth'[d.from] + 1
  BY <1>1, <1>5, <1>6, <1>13, <1>14 DEF BreadthFirst
<1>16. \A f \in SeededRoots' : depth'[f] = 0
  BY <1>3, <1>6 DEF BreadthFirst, SearchInv
<1>17. \A f \in Reached' \ SeededRoots' : \E d \in edges' :
         Visited(d)' /\ d.to = f /\ depth'[f] = depth'[d.from] + 1
  BY <1>1, <1>2, <1>3, <1>6, <1>13, <1>14 DEF BreadthFirst
<1> QED
  BY <1>2, <1>8, <1>9, <1>10, <1>12, <1>15, <1>16, <1>17 DEF BreadthFirst

(* Revisiting a reached function changes neither queue nor depths.         *)
LEMMA BreadthFirstRevisit ==
  ASSUME TypeOK, SearchInv, BreadthFirst,
         NEW e \in pending,
         Revisit(e),
         pending' = pending \ {e},
         UNCHANGED <<input, next, missing, returned>>
  PROVE  BreadthFirst'
<1>1. /\ e \in edges /\ e.to \in Reached /\ e.from \in Reached \ Queued
      /\ UNCHANGED <<edges, entries, next, queue, depth>>
  BY DEF Revisit, SearchInv, TypeOK, input
<1>2. Reached' = Reached /\ Queued' = Queued /\ SeededRoots' = SeededRoots
  BY <1>1, RevisitKeeps DEF SeededRoots
<1>3. \A d \in edges : Visited(d)' <=> Visited(d) \/ d = e
  BY VisitedVisit
<1>4. depth[e.to] <= depth[e.from] + 1
  BY <1>1 DEF BreadthFirst
<1>5. queue # <<>> => \A f \in Reached : depth[f] <= depth[queue[1]] + 1
  <2> SUFFICES ASSUME queue # <<>>, NEW f \in Reached
               PROVE  depth[f] <= depth[queue[1]] + 1
    OBVIOUS
  <2>1. queue \in Seq(Functions) /\ Len(queue) \in Nat \ {0}
    BY EmptySeq DEF TypeOK
  <2>2. queue[1] \in Queued
    BY <2>1 DEF Queued
  <2>3. depth[f] <= depth[e.from] + 1 /\ depth[e.from] <= depth[queue[1]]
    BY <2>2 DEF BreadthFirst
  <2>4. depth[f] \in Nat /\ depth[e.from] \in Nat /\ depth[queue[1]] \in Nat
    BY <1>1, <2>2 DEF TypeOK, SearchInv, Reached
  <2> QED
    BY <2>3, <2>4
<1> QED
  BY <1>1, <1>2, <1>3, <1>4, <1>5 DEF BreadthFirst

(* The queue is sorted by depth and spans at most two levels.              *)
THEOREM LevelByLevel == Spec => []BreadthFirst
<1>1. Init => BreadthFirst
  BY EmptySeq DEF Init, BreadthFirst, SeededRoots, Reached, Queued, Visited
<1>2. TypeOK /\ TypeOK' /\ SearchInv /\ BreadthFirst /\ [Next]_vars => BreadthFirst'
  <2>1. ASSUME BreadthFirst, Return \/ UNCHANGED vars
        PROVE  BreadthFirst'
    BY <2>1 DEF Return, vars, input, BreadthFirst, SeededRoots, Reached, Queued, Visited
  <2> QED
    BY <2>1, BreadthFirstSeed, BreadthFirstDequeue, BreadthFirstDiscover,
       BreadthFirstRevisit DEF Next, Visit
<1> QED
  BY <1>1, <1>2, TypeCorrect, FrontierCorrect, PTL DEF Spec

(* Once the search returns, depth is the distance from the entries.        *)
THEOREM ShortestDepths == Spec => []DepthIsShortest
<1>1. TypeOK /\ SearchInv /\ BreadthFirst => DepthIsShortest
  <2> SUFFICES ASSUME TypeOK, SearchInv, BreadthFirst, returned
               PROVE  DepthIsShortest
    BY DEF DepthIsShortest
  <2>1. ~Seeding /\ pending = {} /\ queue = <<>>
    BY DEF SearchInv, Idle
  <2>2. SeededRoots = Roots
    <3>1. next - 1 = Len(entries)
      BY <2>1 DEF Seeding, TypeOK
    <3> QED
      BY <3>1 DEF SeededRoots, Roots
  <2>3. \A e \in edges : e.from \in Reached <=> Visited(e)
    BY <2>1, EmptySeq DEF Visited, Queued
  <2> QED
    BY <2>2, <2>3 DEF BreadthFirst, DepthIsShortest, Visited
<1> QED
  BY <1>1, TypeCorrect, FrontierCorrect, LevelByLevel, PTL

-----------------------------------------------------------------------------
(***************************************************************************)
(* via says exactly what the visited edges say.                            *)
(***************************************************************************)

(* Merging one more kind into the summary of a nonempty evidence.          *)
LEMMA MergeSummarises ==
  ASSUME NEW K \in SUBSET EdgeKinds, NEW k \in EdgeKinds
  PROVE  /\ K # {} => ViaOf(K \cup {k}) = mergeVia(ViaOf(K), fromKind(k))
         /\ ViaOf({k}) = fromKind(k)
         /\ ViaOf(K) = Unreached <=> K = {}
<1>1. K = {} \/ K = {"Direct"} \/ K = {"Indirect"} \/ K = {"Direct", "Indirect"}
  BY DEF EdgeKinds
<1>2. k = "Direct" \/ k = "Indirect"
  BY DEF EdgeKinds
<1>3. /\ ViaOf({}) = "Unreached" /\ ViaOf({"Direct"}) = "Direct"
      /\ ViaOf({"Indirect"}) = "Indirect" /\ ViaOf({"Direct", "Indirect"}) = "Both"
  BY DEF ViaOf, Unreached
<1>4. /\ {"Direct"} \cup {"Indirect"} = {"Direct", "Indirect"}
      /\ {"Indirect"} \cup {"Direct"} = {"Direct", "Indirect"}
      /\ {"Direct", "Indirect"} \cup {"Direct"} = {"Direct", "Indirect"}
      /\ {"Direct", "Indirect"} \cup {"Indirect"} = {"Direct", "Indirect"}
      /\ {"Direct"} \cup {"Direct"} = {"Direct"}
      /\ {"Indirect"} \cup {"Indirect"} = {"Indirect"}
  OBVIOUS
<1> QED
  BY <1>1, <1>2, <1>3, <1>4 DEF mergeVia, fromKind, Unreached

(* via is the summary of the evidence, at every moment of the search.      *)
THEOREM ViaExact == Spec => []ViaSummarisesEvidence
<1>1. Init => ViaSummarisesEvidence
  <2> SUFFICES ASSUME Init, NEW f \in Functions
               PROVE  via[f] = ViaOf(Evidence(f))
    BY DEF ViaSummarisesEvidence
  <2>1. Reached = {} /\ SeededRoots = {}
    BY DEF Init, Reached, SeededRoots
  <2>2. Evidence(f) = {}
    BY <2>1 DEF Evidence, Visited
  <2> QED
    BY <2>2 DEF Init, ViaOf
<1>2. TypeOK /\ TypeOK' /\ SearchInv /\ SearchInv' /\ ViaSummarisesEvidence
        /\ [Next]_vars => ViaSummarisesEvidence'
  <2> SUFFICES ASSUME TypeOK, TypeOK', SearchInv, SearchInv',
                      ViaSummarisesEvidence, [Next]_vars,
                      NEW f \in Functions
               PROVE  via'[f] = ViaOf(Evidence(f)')
    BY DEF ViaSummarisesEvidence
  <2>1. via[f] = ViaOf(Evidence(f))
    BY DEF ViaSummarisesEvidence
  <2>2. ASSUME via'[f] = via[f],
               \A d \in edges : Visited(d)' <=> Visited(d),
               edges' = edges,
               f \in SeededRoots' <=> f \in SeededRoots
        PROVE  via'[f] = ViaOf(Evidence(f)')
    BY <2>1, <2>2 DEF Evidence
  <2>3. Evidence(f) \in SUBSET EdgeKinds /\ (via[f] = Unreached <=> Evidence(f) = {})
    <3>1. Evidence(f) \in SUBSET EdgeKinds
      BY EdgeEnds DEF Evidence, EdgeKinds
    <3>2. "Direct" \in EdgeKinds
      BY DEF EdgeKinds
    <3> QED
      BY <2>1, <3>1, <3>2, MergeSummarises
  <2>4. CASE SeedMissing \/ SeedRoot \/ SeedAgain
    <3> DEFINE r == entries[next]
    <3>1. /\ pending = {} /\ pending' = {} /\ Reached = Queued /\ UNCHANGED edges
          /\ Seeding /\ next' = next + 1 /\ UNCHANGED entries
      BY <2>4 DEF SearchInv, SeedMissing, SeedRoot, SeedAgain, input
    <3>2. SeededRoots' = SeededRoots \cup ({r} \cap Defined)
      BY <3>1, SeedNext
    <3>3. Reached' = Queued'
      BY <2>4, SearchInvSeed
    <3>4. \A d \in edges : ~Visited(d) /\ ~Visited(d)'
      BY <3>1, <3>3 DEF Visited
    <3>5. f \in Reached => f \in SeededRoots
      BY <2>3, <3>4 DEF Evidence, Reached
    <3>6. CASE f = r /\ SeedRoot
      <4>1. Evidence(f)' = {"Direct"}
        BY <3>1, <3>2, <3>4, <3>6 DEF Evidence, SeedRoot
      <4>2. via'[f] = "Direct"
        BY <3>6 DEF SeedRoot, TypeOK
      <4> QED
        BY <4>1, <4>2 DEF ViaOf
    <3>7. CASE f # r \/ ~SeedRoot
      <4>1. via'[f] = via[f]
        BY <2>4, <3>7 DEF SeedRoot, SeedMissing, SeedAgain, TypeOK
      <4>2. f \in SeededRoots' <=> f \in SeededRoots
        BY <2>4, <3>2, <3>5, <3>7 DEF SeedMissing, SeedAgain
      <4> QED
        BY <2>2, <3>1, <3>4, <4>1, <4>2
    <3> QED
      BY <3>6, <3>7
  <2>5. CASE Dequeue
    <3>1. UNCHANGED <<edges, entries, next, via>>
      BY <2>5 DEF Dequeue, input
    <3> QED
      BY <2>2, <2>5, <3>1, VisitedDequeue DEF SeededRoots
  <2>6. ASSUME NEW e \in pending,
               Discover(e) \/ Revisit(e),
               pending' = pending \ {e},
               UNCHANGED <<input, next, missing, returned>>
        PROVE  via'[f] = ViaOf(Evidence(f)')
    <3>1. e \in edges /\ e.to \in Functions /\ e.kind \in EdgeKinds
      BY EdgeEnds DEF TypeOK
    <3>2. UNCHANGED edges /\ SeededRoots' = SeededRoots
      BY <2>6 DEF input, SeededRoots
    <3>3. \A d \in edges : Visited(d)' <=> Visited(d) \/ d = e
      BY <2>6, VisitedVisit
    <3>4. CASE f # e.to
      <4>1. via'[f] = via[f]
        BY <2>6, <3>4 DEF Discover, Revisit, TypeOK
      <4>2. Evidence(f)' = Evidence(f)
        BY <3>1, <3>2, <3>3, <3>4 DEF Evidence
      <4> QED
        BY <2>1, <4>1, <4>2
    <3>5. CASE f = e.to
      <4>1. Evidence(f)' = Evidence(f) \cup {e.kind}
        BY <3>1, <3>2, <3>3, <3>5 DEF Evidence
      <4>2. CASE Discover(e)
        <5>1. via'[f] = fromKind(e.kind) /\ via[f] = Unreached
          BY <3>5, <4>2 DEF Discover, Reached, TypeOK
        <5>2. Evidence(f)' = {e.kind}
          BY <2>3, <4>1, <5>1
        <5> QED
          BY <3>1, <5>1, <5>2, MergeSummarises
      <4>3. CASE Revisit(e)
        <5>1. via'[f] = mergeVia(via[f], fromKind(e.kind)) /\ via[f] # Unreached
          BY <3>5, <4>3 DEF Revisit, Reached, TypeOK
        <5> QED
          BY <2>1, <2>3, <3>1, <4>1, <5>1, MergeSummarises
      <4> QED
        BY <2>6, <4>2, <4>3
    <3> QED
      BY <3>4, <3>5
  <2>7. CASE Return \/ UNCHANGED vars
    <3>1. UNCHANGED <<edges, entries, next, queue, pending, via>>
      BY <2>7 DEF Return, vars, input
    <3> QED
      BY <2>2, <3>1 DEF Visited, Reached, Queued, SeededRoots
  <2> QED
    BY <2>4, <2>5, <2>6, <2>7 DEF Next, Visit
<1> QED
  BY <1>1, <1>2, TypeCorrect, FrontierCorrect, PTL DEF Spec

-----------------------------------------------------------------------------
(* Along a search no function is forgotten, no depth of a reached function *)
(* changes, and evidence is only added.                                    *)
THEOREM EvidenceIsFinal == Spec => NothingIsForgotten
<1>1. TypeOK /\ SearchInv /\ [Next]_vars =>
        [\A f \in Reached : /\ depth'[f] = depth[f]
                            /\ via'[f] = via[f] \/ via'[f] = "Both"]_vars
  <2> SUFFICES ASSUME TypeOK, SearchInv, Next, NEW f \in Reached
               PROVE  depth'[f] = depth[f] /\ (via'[f] = via[f] \/ via'[f] = "Both")
    OBVIOUS
  <2>1. CASE SeedMissing \/ SeedAgain \/ Dequeue \/ Return
    BY <2>1 DEF SeedMissing, SeedAgain, Dequeue, Return
  <2>2. CASE SeedRoot
    <3>1. f # entries[next]
      BY <2>2 DEF SeedRoot
    <3> QED
      BY <2>2, <3>1 DEF SeedRoot, TypeOK, Reached
  <2>3. ASSUME NEW e \in pending, Discover(e)
        PROVE  depth'[f] = depth[f] /\ via'[f] = via[f]
    <3>1. f # e.to
      BY <2>3 DEF Discover
    <3> QED
      BY <2>3, <3>1 DEF Discover, TypeOK, Reached
  <2>4. ASSUME NEW e \in pending, Revisit(e)
        PROVE  depth'[f] = depth[f] /\ (via'[f] = via[f] \/ via'[f] = "Both")
    BY <2>4 DEF Revisit, mergeVia, TypeOK, Reached
  <2> QED
    BY <2>1, <2>2, <2>3, <2>4 DEF Next, Visit
<1> QED
  BY <1>1, TypeCorrect, FrontierCorrect, PTL DEF Spec, NothingIsForgotten

(***************************************************************************)
(* The search implements the abstract reachable set: a step of it finds    *)
(* one function, gives the complete answer, or is invisible.               *)
(***************************************************************************)
THEOREM Refinement == Spec => ImplementsReachableSet
<1>1. Init => Abstract!Init
  <2> SUFFICES ASSUME Init PROVE Abstract!Init
    OBVIOUS
  <2>1. edges \in SUBSET [from : Functions, to : Functions, kind : {"Direct", "Indirect"}]
    BY ModuleAssumption DEF Init, EdgeKinds
  <2>2. Roots \in SUBSET Functions
    BY ModuleAssumption DEF Roots
  <2>3. Reached = {} /\ returned = FALSE
    BY DEF Init, Reached
  <2> QED
    BY <2>1, <2>2, <2>3 DEF Abstract!Init
<1>2. TypeOK /\ SearchInv /\ NoUnderReporting' /\ [Next]_vars
        => [Abstract!Next]_(Abstract!vars)
  <2> SUFFICES ASSUME TypeOK, SearchInv, NoUnderReporting', [Next]_vars
               PROVE  Abstract!Next \/ UNCHANGED Abstract!vars
    OBVIOUS
  <2>1. UNCHANGED <<edges, entries>> /\ Roots' = Roots
    BY DEF Next, vars, SeedMissing, SeedRoot, SeedAgain, Dequeue, Visit, Return,
           input, Roots
  <2>2. CASE UNCHANGED <<via, returned>>
    BY <2>1, <2>2 DEF Abstract!vars, Reached
  <2>3. ASSUME NEW f \in Functions, Reached' = Reached \cup {f}, ~returned,
               UNCHANGED returned,
               f \in Roots \/ \E e \in edges : e.from \in Reached /\ e.to = f
        PROVE  Abstract!Next
    BY <2>1, <2>3 DEF Abstract!Next, Abstract!Find, Abstract!Successors
  <2>4. CASE SeedRoot
    <3>1. entries[next] \in Roots /\ entries[next] \in Functions
      BY <2>4, ModuleAssumption DEF SeedRoot, Seeding, Roots, TypeOK
    <3>2. Reached' = Reached \cup {entries[next]}
      BY <2>4, <3>1, ReachedAdd DEF SeedRoot, Vias
    <3>3. ~returned /\ UNCHANGED returned
      BY <2>4 DEF SeedRoot, SearchInv, Idle
    <3> QED
      BY <2>3, <3>1, <3>2, <3>3
  <2>5. CASE Visit
    <3> PICK e \in pending : (Discover(e) \/ Revisit(e)) /\ UNCHANGED returned
      BY <2>5 DEF Visit
    <3>1. /\ e \in edges /\ e.to \in Functions /\ e.from \in Reached
          /\ e.kind \in EdgeKinds /\ ~returned
      BY EdgeEnds DEF TypeOK, SearchInv, Idle
    <3>2. CASE Discover(e)
      <4>1. Reached' = Reached \cup {e.to}
        BY <3>1, <3>2, ReachedAdd, ViaOfStep DEF Discover, Vias
      <4> QED
        BY <2>3, <3>1, <4>1
    <3>3. CASE Revisit(e)
      BY <2>1, <3>3, RevisitKeeps DEF Abstract!vars
    <3> QED
      BY <3>2, <3>3
  <2>6. CASE Return
    <3>1. Reached' = Reached /\ ~returned /\ returned' = TRUE
      BY <2>6 DEF Return, Reached
    <3>2. Closed(Reached)
      BY <2>1, <3>1 DEF NoUnderReporting, Closed
    <3>3. Abstract!Complete
      BY <3>2 DEF Closed, Abstract!Complete, Abstract!Successors
    <3> QED
      BY <2>1, <3>1, <3>3 DEF Abstract!Next, Abstract!Answer
  <2> QED
    BY <2>2, <2>4, <2>5, <2>6 DEF Next, vars, SeedMissing, SeedAgain, Dequeue
<1> QED
  BY <1>1, <1>2, TypeCorrect, FrontierCorrect, NeverUnderReports, PTL
  DEF Spec, ImplementsReachableSet, Abstract!Spec

-----------------------------------------------------------------------------
(***************************************************************************)
(* The roots.                                                              *)
(***************************************************************************)
(* The members of a finite set, each once, in some order.                  *)
LEMMA SetToSeqLists ==
  ASSUME NEW S, IsFiniteSet(S)
  PROVE  /\ SetToSeq(S) \in Seq(S)
         /\ IsInjective(SetToSeq(S))
         /\ ToSet(SetToSeq(S)) = S
<1>. DEFINE n == Cardinality(S)
            s == SetToSeq(S)
<1>1. n \in Nat /\ Bijection(1 .. n, S) # {}
  BY FS_CardinalityType DEF ExistsBijection
<1>2. \E f \in [1 .. n -> S] : IsInjective(f)
  BY <1>1 DEF Bijection, Injection
<1>3. s \in [1 .. n -> S] /\ IsInjective(s)
  BY <1>2 DEF SetToSeq
<1>4. s \in Injection(1 .. n, S)
  BY <1>3 DEF Injection
<1>5. s \in Surjection(1 .. n, S)
  <2>1. Cardinality(1 .. n) = n
    BY <1>1, FS_Interval
  <2>. QED
    BY <1>4, <2>1, FS_Injection
<1>6. \A x \in S : \E i \in 1 .. n : s[i] = x
  BY <1>5 DEF Surjection
<1>7. s \in Seq(S)
  BY <1>1, <1>3, SeqDef
<1>. QED
  BY <1>3, <1>6, <1>7 DEF ToSet

(* Appending new members to a list of distinct ones.                       *)
LEMMA ListMore ==
  ASSUME NEW S, NEW s \in Seq(S), IsInjective(s),
         NEW T \in SUBSET S, IsFiniteSet(T), T \cap ToSet(s) = {}
  PROVE  /\ s \o SetToSeq(T) \in Seq(S)
         /\ IsInjective(s \o SetToSeq(T))
         /\ ToSet(s \o SetToSeq(T)) = ToSet(s) \cup T
         /\ IsPrefix(s, s \o SetToSeq(T))
<1>. DEFINE t == SetToSeq(T)
            c == s \o t
<1>1. t \in Seq(T) /\ IsInjective(t) /\ ToSet(t) = T
  BY SetToSeqLists
<1>2. t \in Seq(S)
  BY <1>1, SeqMonotonic
<1>. HIDE DEF t
<1>3. /\ c \in Seq(S)
      /\ Len(c) = Len(s) + Len(t)
      /\ \A i \in 1 .. Len(s) + Len(t) : c[i] = IF i <= Len(s) THEN s[i] ELSE t[i - Len(s)]
  BY <1>2, ConcatProperties
<1>4. Len(s) \in Nat /\ Len(t) \in Nat /\ DOMAIN s = 1 .. Len(s) /\ DOMAIN t = 1 .. Len(t)
  BY <1>2, LenProperties
<1>5. DOMAIN c = 1 .. Len(s) + Len(t)
  BY <1>3, LenProperties
<1>. HIDE DEF c
<1>6. \A i \in 1 .. Len(s) : c[i] = s[i] /\ s[i] \in ToSet(s)
  BY <1>3, <1>4 DEF ToSet
<1>7. \A i \in Len(s) + 1 .. Len(s) + Len(t) :
        i - Len(s) \in 1 .. Len(t) /\ c[i] = t[i - Len(s)] /\ t[i - Len(s)] \in T
  <2>1. \A i \in 1 .. Len(t) : t[i] \in T
    BY <1>1, <1>4 DEF ToSet
  <2>. QED
    BY <1>3, <1>4, <2>1
<1>8. IsInjective(c)
  <2> SUFFICES ASSUME NEW i \in DOMAIN c, NEW j \in DOMAIN c, c[i] = c[j]
               PROVE  i = j
    BY DEF IsInjective
  <2>1. CASE i <= Len(s) /\ j <= Len(s)
    BY <1>4, <1>5, <1>6, <2>1 DEF IsInjective
  <2>2. CASE i <= Len(s) /\ j > Len(s)
    BY <1>4, <1>5, <1>6, <1>7, <2>2
  <2>3. CASE i > Len(s) /\ j <= Len(s)
    BY <1>4, <1>5, <1>6, <1>7, <2>3
  <2>4. CASE i > Len(s) /\ j > Len(s)
    <3>1. i - Len(s) = j - Len(s)
      BY <1>1, <1>4, <1>5, <1>7, <2>4 DEF IsInjective
    <3>. QED BY <1>4, <1>5, <2>4, <3>1
  <2>. QED
    BY <1>4, <1>5, <2>1, <2>2, <2>3, <2>4
<1>9. ToSet(c) = ToSet(s) \cup T
  <2>1. ToSet(c) \subseteq ToSet(s) \cup T
    BY <1>4, <1>5, <1>6, <1>7 DEF ToSet
  <2>2. ToSet(s) \subseteq ToSet(c)
    BY <1>4, <1>5, <1>6 DEF ToSet
  <2>3. ASSUME NEW x \in T
        PROVE  x \in ToSet(c)
    <3>1. PICK i \in 1 .. Len(t) : t[i] = x
      BY <1>1, <1>4 DEF ToSet
    <3>2. i + Len(s) \in Len(s) + 1 .. Len(s) + Len(t) /\ (i + Len(s)) - Len(s) = i
      BY <1>4, <3>1
    <3>3. c[i + Len(s)] = x /\ i + Len(s) \in DOMAIN c
      BY <1>4, <1>5, <1>7, <3>1, <3>2
    <3>. QED BY <3>3 DEF ToSet
  <2>. QED BY <2>1, <2>2, <2>3
<1>10. IsPrefix(s, c)
  <2>1. \A i \in 1 .. Len(s) : c[i] \in S
    BY <1>6, ElementOfSeq
  <2>2. /\ SubSeq(c, 1, Len(s)) \in Seq(S)
        /\ Len(SubSeq(c, 1, Len(s))) = Len(s)
        /\ \A i \in 1 .. Len(s) : SubSeq(c, 1, Len(s))[i] = c[i]
    BY <1>4, <2>1, SubSeqProperties
  <2>3. SubSeq(s, 1, Len(s)) = s
    BY SubSeqFull
  <2>4. SubSeq(c, 1, Len(s)) = s
    BY <1>6, <2>2, SeqEqual
  <2>. QED
    BY <1>3, <1>4, <2>3, <2>4 DEF IsPrefix
<1>. QED
  BY <1>3, <1>8, <1>9, <1>10 DEF c, t

(***************************************************************************)
(* The entries answer the requests looked at so far, and the search starts *)
(* from them and from what is looked up by name.                           *)
(***************************************************************************)
RootLists ==
  /\ requested \in Seq(DOMAIN Expansion) /\ calls \in CallRelations
  /\ pos \in 1 .. Len(requested) + 1
  /\ resolved \in Seq(Bodies) /\ IsInjective(resolved)
  /\ roots \in Seq(Bodies) /\ IsInjective(roots)
  /\ unresolved \in Seq(ToSet(requested))

Answered ==
  /\ \A i \in 1 .. pos - 1 : Matches(requested[i]) \subseteq ToSet(resolved)
  /\ \A r \in ToSet(unresolved) : Matches(r) = {}

Started ==
  /\ pc \in {"resolve", "run", "failed"}
  /\ pc = "run" => /\ ToSet(roots) = ToSet(resolved) \cup NameRoots
                  /\ IsPrefix(resolved, roots)
  /\ pc # "run" => entered = {}

EnteredIsFound ==
  /\ entered \subseteq Symbols
  /\ strings \cap Aliases = {} => entered \subseteq Least(calls, ToSet(roots))

RootsInvariant == RootLists /\ Answered /\ Started /\ EnteredIsFound

(* What a list holds.                                                      *)
LEMMA MembersTyped ==
  ASSUME NEW S, NEW s \in Seq(S)
  PROVE  ToSet(s) \subseteq S
BY LenProperties, ElementOfSeq DEF ToSet

(* Appending adds the last member.                                         *)
LEMMA MembersAppend ==
  ASSUME NEW S, NEW s \in Seq(S), NEW x \in S
  PROVE  /\ Append(s, x) \in Seq(S)
         /\ ToSet(Append(s, x)) = ToSet(s) \cup {x}
<1>1. /\ Append(s, x) \in Seq(S)
      /\ Len(Append(s, x)) = Len(s) + 1
      /\ \A i \in 1 .. Len(s) : Append(s, x)[i] = s[i]
      /\ Append(s, x)[Len(s) + 1] = x
  BY AppendProperties
<1>2. DOMAIN s = 1 .. Len(s) /\ DOMAIN Append(s, x) = 1 .. Len(s) + 1 /\ Len(s) \in Nat
  BY <1>1, LenProperties
<1>3. 1 .. Len(s) + 1 = (1 .. Len(s)) \cup {Len(s) + 1}
  BY <1>2
<1>. QED
  BY <1>1, <1>2, <1>3 DEF ToSet

LEMMA FiniteBodies == \A S \in SUBSET Bodies : IsFiniteSet(S)
BY RootAssumption, FS_Subset

LEMMA MatchesTyped == \A r : Matches(r) \subseteq Bodies
BY DEF Matches

LEMMA NameRootsTyped == NameRoots \subseteq Bodies
BY DEF NameRoots

LEMMA RootsInvariantInit == RootsInit => RootsInvariant
<1> SUFFICES ASSUME RootsInit PROVE RootsInvariant
  OBVIOUS
<1>1. RootLists
  <2>1. requested \in Seq(DOMAIN Expansion) /\ calls \in CallRelations
    BY RootAssumption DEF RootsInit
  <2>2. Len(requested) \in Nat
    BY <2>1, LenProperties
  <2>3. \A S : <<>> \in Seq(S)
    BY EmptySeq
  <2>4. IsInjective(<<>>)
    BY DEF IsInjective
  <2>. QED
    BY <2>1, <2>2, <2>3, <2>4 DEF RootLists, RootsInit
<1>2. Answered
  BY DEF Answered, RootsInit, ToSet
<1>3. Started /\ EnteredIsFound
  BY DEF Started, EnteredIsFound, RootsInit
<1>. QED
  BY <1>1, <1>2, <1>3 DEF RootsInvariant

(* One request: its new matches are appended, or it is unresolved.         *)
LEMMA ResolveKeeps == RootsInvariant /\ Resolve => RootsInvariant'
<1> SUFFICES ASSUME RootsInvariant, Resolve PROVE RootsInvariant'
  OBVIOUS
<1>. DEFINE r == requested[pos]
<1>1. /\ pc = "resolve" /\ pos' = pos + 1
      /\ requested' = requested /\ calls' = calls /\ strings' = strings /\ local' = local
      /\ lookup' = lookup /\ roots' = roots /\ pc' = pc /\ entered' = entered
  BY DEF Resolve, given
<1>2. /\ requested \in Seq(DOMAIN Expansion) /\ Len(requested) \in Nat
      /\ pos \in 1 .. Len(requested)
  BY LenProperties DEF RootsInvariant, RootLists, Resolve
<1>3. r \in ToSet(requested)
  BY <1>2, LenProperties DEF ToSet
<1>4. /\ resolved' \in Seq(Bodies) /\ IsInjective(resolved)'
      /\ ToSet(resolved') = ToSet(resolved) \cup Matches(r)
      /\ unresolved' \in Seq(ToSet(requested))
      /\ ToSet(unresolved') = ToSet(unresolved) \cup (IF Matches(r) = {} THEN {r} ELSE {})
  <2>1. CASE Matches(r) = {}
    <3>1. unresolved' = Append(unresolved, r) /\ resolved' = resolved
      BY <2>1 DEF Resolve
    <3>2. /\ Append(unresolved, r) \in Seq(ToSet(requested))
          /\ ToSet(Append(unresolved, r)) = ToSet(unresolved) \cup {r}
      BY <1>3, MembersAppend DEF RootsInvariant, RootLists
    <3>. QED
      BY <2>1, <3>1, <3>2 DEF RootsInvariant, RootLists
  <2>2. CASE Matches(r) # {}
    <3>1. resolved' = resolved \o SetToSeq(New(r)) /\ unresolved' = unresolved
      BY <2>2 DEF Resolve
    <3>2. New(r) \in SUBSET Bodies /\ New(r) \cap ToSet(resolved) = {}
      BY MatchesTyped DEF New
    <3>3. /\ resolved \o SetToSeq(New(r)) \in Seq(Bodies)
          /\ IsInjective(resolved \o SetToSeq(New(r)))
          /\ ToSet(resolved \o SetToSeq(New(r))) = ToSet(resolved) \cup New(r)
      BY <3>2, FiniteBodies, ListMore DEF RootsInvariant, RootLists
    <3>4. ToSet(resolved) \cup New(r) = ToSet(resolved) \cup Matches(r)
      BY DEF New
    <3>. QED
      BY <2>2, <3>1, <3>3, <3>4 DEF RootsInvariant, RootLists
  <2>. QED BY <2>1, <2>2
<1>5. RootLists'
  BY <1>1, <1>2, <1>4 DEF RootsInvariant, RootLists
<1>6. Answered'
  <2>1. \A i \in 1 .. pos' - 1 : Matches(requested[i]) \subseteq ToSet(resolved')
    BY <1>1, <1>2, <1>4 DEF RootsInvariant, Answered
  <2>2. \A x \in ToSet(unresolved') : Matches(x) = {}
    BY <1>4 DEF RootsInvariant, Answered
  <2>. QED
    BY <1>1, <2>1, <2>2 DEF Answered, Matches, MatchesToken
<1>7. Started'
  BY <1>1 DEF RootsInvariant, Started
<1>8. EnteredIsFound'
  BY <1>1 DEF RootsInvariant, EnteredIsFound
<1>. QED
  BY <1>5, <1>6, <1>7, <1>8 DEF RootsInvariant

(* The roots are the entries and what is looked up by name.                *)
LEMMA CollectKeeps == RootsInvariant /\ CollectRoots => RootsInvariant'
<1> SUFFICES ASSUME RootsInvariant, CollectRoots PROVE RootsInvariant'
  OBVIOUS
<1>1. /\ requested' = requested /\ calls' = calls /\ strings' = strings /\ local' = local
      /\ lookup' = lookup /\ pos' = pos /\ resolved' = resolved /\ unresolved' = unresolved
  BY DEF CollectRoots, given
<1>2. Answered'
  BY <1>1 DEF RootsInvariant, Answered, Matches, MatchesToken
<1>3. CASE resolved = <<>>
  <2>1. pc' = "failed" /\ roots' = roots /\ entered' = entered /\ pc # "run"
    BY <1>3 DEF CollectRoots
  <2>2. RootLists' /\ Started' /\ EnteredIsFound'
    BY <1>1, <2>1 DEF RootsInvariant, RootLists, Started, EnteredIsFound
  <2>. QED
    BY <1>2, <2>2 DEF RootsInvariant
<1>4. CASE resolved # <<>>
  <2>. DEFINE more == NameRoots \ ToSet(resolved)
  <2>1. pc' = "run" /\ roots' = resolved \o SetToSeq(more) /\ entered' = ToSet(resolved)
    BY <1>4 DEF CollectRoots
  <2>2. /\ more \in SUBSET Bodies /\ more \cap ToSet(resolved) = {} /\ IsFiniteSet(more)
        /\ resolved \in Seq(Bodies) /\ IsInjective(resolved)
    BY NameRootsTyped, FiniteBodies DEF RootsInvariant, RootLists
  <2>. HIDE DEF more
  <2>3. /\ roots' \in Seq(Bodies) /\ IsInjective(roots')
        /\ ToSet(roots') = ToSet(resolved) \cup more
        /\ IsPrefix(resolved, roots')
    BY <2>1, <2>2, ListMore
  <2>4. RootLists'
    BY <1>1, <2>3 DEF RootsInvariant, RootLists
  <2>5. Started'
    <3>1. NameRoots' = NameRoots
      BY <1>1 DEF NameRoots
    <3>2. ToSet(resolved) \cup more = ToSet(resolved) \cup NameRoots
      BY DEF more
    <3>. QED BY <1>1, <2>1, <2>3, <3>1, <3>2 DEF Started
  <2>6. EnteredIsFound'
    <3>1. ToSet(resolved) \subseteq Symbols /\ ToSet(roots') \subseteq Symbols
      BY <2>3, MembersTyped, RootAssumption DEF RootsInvariant, RootLists
    <3>2. calls \in [Symbols -> SUBSET Symbols]
      BY RootAssumption DEF RootsInvariant, RootLists
    <3>3. ToSet(roots') \subseteq Least(calls, ToSet(roots'))
      BY <3>1, <3>2, LeastIsClosed
    <3>. QED
      BY <1>1, <2>1, <2>3, <3>1, <3>3 DEF EnteredIsFound
  <2>. QED
    BY <1>2, <2>4, <2>5, <2>6 DEF RootsInvariant
<1>. QED
  BY <1>3, <1>4

(* Where the program runs, what is found is closed under calls and holds   *)
(* all that is looked up.                                                  *)
LEMMA FoundFacts ==
  ASSUME RootLists, Started
  PROVE  /\ calls \in [Symbols -> SUBSET Symbols]
         /\ FlowClosed(calls, Least(calls, ToSet(roots)))
         /\ pc = "run" => NameRoots \subseteq Least(calls, ToSet(roots))
<1>1. calls \in [Symbols -> SUBSET Symbols] /\ ToSet(roots) \in SUBSET Symbols
  BY MembersTyped, RootAssumption DEF RootLists
<1>2. FlowClosed(calls, Least(calls, ToSet(roots))) /\ ToSet(roots) \subseteq Least(calls, ToSet(roots))
  BY <1>1, LeastIsClosed
<1>. QED
  BY <1>1, <1>2 DEF Started

(* The program enters only what calls or the roots lead to.                *)
LEMMA ProgramKeeps == RootsInvariant /\ (Call \/ LookUp) => RootsInvariant'
<1> SUFFICES ASSUME RootsInvariant, Call \/ LookUp PROVE RootsInvariant'
  OBVIOUS
<1>1. /\ requested' = requested /\ calls' = calls /\ strings' = strings /\ local' = local
      /\ lookup' = lookup /\ pos' = pos /\ resolved' = resolved /\ unresolved' = unresolved
      /\ roots' = roots /\ pc' = pc /\ pc = "run"
  BY DEF Call, LookUp, given
<1>2. RootLists' /\ Answered'
  BY <1>1 DEF RootsInvariant, RootLists, Answered, Matches, MatchesToken
<1>3. Started'
  BY <1>1 DEF RootsInvariant, Started, NameRoots
<1>4. /\ calls \in [Symbols -> SUBSET Symbols]
      /\ FlowClosed(calls, Least(calls, ToSet(roots)))
      /\ NameRoots \subseteq Least(calls, ToSet(roots))
  BY <1>1, FoundFacts DEF RootsInvariant
<1>5. EnteredIsFound'
  <2>1. CASE Call
    <3>1. PICK f \in entered \cap Bodies : \E g \in calls[f] : entered' = entered \cup {g}
      BY <2>1 DEF Call
    <3>2. PICK g \in calls[f] : entered' = entered \cup {g}
      BY <3>1
    <3>3. g \in Symbols
      BY <1>4, <3>1, <3>2 DEF RootsInvariant, EnteredIsFound
    <3>4. f \in Least(calls, ToSet(roots)) => g \in Least(calls, ToSet(roots))
      BY <1>4, <3>2 DEF FlowClosed
    <3>. QED
      BY <1>1, <3>1, <3>2, <3>3, <3>4 DEF RootsInvariant, EnteredIsFound
  <2>2. CASE LookUp
    <3>1. PICK name \in strings :
            \/ name \in Bodies \ local /\ entered' = entered \cup {name}
            \/ name \in Aliases /\ entered' = entered \cup {Aliasee[name]}
      BY <2>2 DEF LookUp
    <3>2. CASE name \in Bodies \ local /\ entered' = entered \cup {name}
      <4>1. name \in NameRoots
        BY <2>2, <3>2 DEF LookUp, NameRoots
      <4>. QED
        BY <1>1, <1>4, <3>2, <4>1, RootAssumption DEF RootsInvariant, EnteredIsFound
    <3>3. CASE name \in Aliases /\ entered' = entered \cup {Aliasee[name]}
      BY <1>1, <3>1, <3>3, RootAssumption DEF RootsInvariant, EnteredIsFound
    <3>. QED BY <3>1, <3>2, <3>3
  <2>. QED BY <2>1, <2>2
<1>. QED
  BY <1>2, <1>3, <1>5 DEF RootsInvariant

(* resolveEntries and the collection of roots keep the invariant, whatever *)
(* the requests, and so does the analyzed program.                         *)
THEOREM RootsAreCollected == RootsSpec => []RootsInvariant
<1>1. RootsInit => RootsInvariant
  BY RootsInvariantInit
<1>2. RootsInvariant /\ [RootsNext]_rootsVars => RootsInvariant'
  <2>1. RootsInvariant /\ RootsNext => RootsInvariant'
    BY ResolveKeeps, CollectKeeps, ProgramKeeps DEF RootsNext
  <2>2. RootsInvariant /\ UNCHANGED rootsVars => RootsInvariant'
    BY DEF RootsInvariant, RootLists, Answered, Started, EnteredIsFound, rootsVars,
           Matches, MatchesToken, NameRoots
  <2>. QED BY <2>1, <2>2
<1>. QED
  BY <1>1, <1>2, PTL DEF RootsSpec

(* The search gets each root once, entries first, and all are functions    *)
(* with a body.                                                            *)
THEOREM RootsAreDistinctFunctions == RootsSpec => []RootsInv
<1>1. RootsInvariant => RootsInv
  <2> SUFFICES ASSUME RootsInvariant PROVE RootsInv
    OBVIOUS
  <2>1. RootsTypeOK
    BY MembersTyped DEF RootsInvariant, RootLists, Started, EnteredIsFound, RootsTypeOK
  <2>2. RootsAreDistinct
    BY DEF RootsInvariant, RootLists, Started, RootsAreDistinct
  <2>. QED BY <2>1, <2>2 DEF RootsInv
<1>. QED
  BY <1>1, RootsAreCollected, PTL

(* All functions a request means are entries, and it is reported           *)
(* unresolved only if there are none, unless the own name of a function    *)
(* looks like a hash.                                                      *)
THEOREM RequestsAreAnswered == RootsSpec => []EveryRequestAnswered
<1>1. RootsInvariant => EveryRequestAnswered
  <2> SUFFICES ASSUME RootsInvariant, NEW i \in 1 .. pos - 1,
                      NEW f \in Meant(requested[i]), ~LooksHashed(f)
               PROVE  f \in ToSet(resolved) /\ requested[i] \notin ToSet(unresolved)
    BY DEF EveryRequestAnswered
  <2>1. f \in Bodies /\ f \in Symbols
    BY RootAssumption DEF Meant
  <2>2. HumanPath(f) = StripLegacyHash(Path[f])
    BY <2>1, RootAssumption DEF HumanPath, StripLegacyHash, LooksHashed
  <2>3. f \in Matches(requested[i])
    BY <2>1, <2>2 DEF Meant, Matches, MatchesToken
  <2>. QED
    BY <2>3 DEF RootsInvariant, Answered
<1>. QED
  BY <1>1, RootsAreCollected, PTL

(* When the search starts, every function a request means is a root,       *)
(* unless its own name looks like a hash.                                  *)
MeantAreRoots ==
  pc = "run" =>
    \A i \in 1 .. Len(requested) : \A f \in Meant(requested[i]) :
      LooksHashed(f) \/ f \in ToSet(roots)

THEOREM RequestsAreRoots == RootsSpec => []MeantAreRoots
<1>. DEFINE Asked == pc \in {"run", "failed"} => pos > Len(requested)
<1>1. RootsInit => Asked
  BY DEF RootsInit
<1>2. Asked /\ [RootsNext]_rootsVars => Asked'
  BY DEF RootsNext, Resolve, CollectRoots, Call, LookUp, rootsVars, given
<1>3. RootsInvariant /\ Asked /\ EveryRequestAnswered => MeantAreRoots
  <2>1. SUFFICES ASSUME RootsInvariant, Asked, EveryRequestAnswered, pc = "run",
                        NEW i \in 1 .. Len(requested), NEW f \in Meant(requested[i])
                 PROVE  LooksHashed(f) \/ f \in ToSet(roots)
    BY DEF MeantAreRoots
  <2>2. Len(requested) \in Nat /\ pos \in Nat
    BY <2>1, LenProperties DEF RootsInvariant, RootLists
  <2>3. i \in 1 .. pos - 1
    BY <2>1, <2>2
  <2>4. ToSet(resolved) \subseteq ToSet(roots)
    BY <2>1 DEF RootsInvariant, Started
  <2>. QED
    BY <2>1, <2>3, <2>4 DEF EveryRequestAnswered
<1>. QED
  BY <1>1, <1>2, <1>3, RootsAreCollected, RequestsAreAnswered, PTL DEF RootsSpec

(* Whatever the program enters by calls or by name is reached from the     *)
(* roots, when no string constant is the name of an alias.                 *)
THEOREM LookUpsAreReached == RootsSpec => []LookUpsReached
<1>1. RootsInvariant => LookUpsReached
  <2> SUFFICES ASSUME RootsInvariant PROVE LookUpsReached
    OBVIOUS
  <2>1. calls \in [Symbols -> SUBSET Symbols] /\ ToSet(roots) \in SUBSET Symbols
    BY MembersTyped, RootAssumption DEF RootsInvariant, RootLists
  <2>2. Closure(calls, ToSet(roots)) = Least(calls, ToSet(roots))
    BY <2>1, ClosureIsLeast, RootAssumption
  <2>. QED
    BY <2>2 DEF RootsInvariant, EnteredIsFound, LookUpsReached, ReachedFromRoots
<1>. QED
  BY <1>1, RootsAreCollected, PTL

-----------------------------------------------------------------------------
(***************************************************************************)
(* Every step does work that is not done again, and there is only so much. *)
(***************************************************************************)
Done ==
  ({"entry"} \X (1 .. next - 1)) \cup ({"function"} \X (Reached \ Queued))
    \cup ({"edge"} \X {e \in edges : Visited(e)})
    \cup ({"search"} \X {b \in {TRUE} : returned})

Work ==
  ({"entry"} \X (1 .. Len(entries))) \cup ({"function"} \X Functions)
    \cup ({"edge"} \X edges) \cup ({"search"} \X {TRUE})

Advances == Done \subseteq Done' /\ Done' # Done /\ Work' = Work

LEMMA DoneInParts ==
  ASSUME 1 .. next - 1 \subseteq (1 .. next - 1)',
         Reached \ Queued \subseteq (Reached \ Queued)',
         \A e \in edges : Visited(e) => Visited(e)',
         returned => returned', UNCHANGED input,
         \/ next \notin 1 .. next - 1 /\ next \in (1 .. next - 1)'
         \/ \E f : f \notin Reached \ Queued /\ f \in (Reached \ Queued)'
         \/ \E e \in edges : ~Visited(e) /\ Visited(e)'
         \/ ~returned /\ returned'
  PROVE  Advances
<1>1. Work' = Work
  BY DEF Work, input
<1>2. Done \subseteq Done'
  <2>1. /\ {"entry"} \X (1 .. next - 1) \subseteq Done'
        /\ {"function"} \X (Reached \ Queued) \subseteq Done'
    BY DEF Done
  <2>2. {"edge"} \X {e \in edges : Visited(e)} \subseteq Done'
    BY DEF Done, input
  <2>3. {"search"} \X {b \in {TRUE} : returned} \subseteq Done'
    BY DEF Done
  <2>. QED BY <2>1, <2>2, <2>3 DEF Done
<1>3. CASE next \notin 1 .. next - 1 /\ next \in (1 .. next - 1)'
  <2>1. <<"entry", next>> \in Done' /\ <<"entry", next>> \notin Done
    BY <1>3 DEF Done
  <2>. QED BY <1>1, <1>2, <2>1 DEF Advances
<1>4. CASE \E f : f \notin Reached \ Queued /\ f \in (Reached \ Queued)'
  <2>1. PICK f : f \notin Reached \ Queued /\ f \in (Reached \ Queued)'
    BY <1>4
  <2>2. <<"function", f>> \in Done' /\ <<"function", f>> \notin Done
    BY <2>1 DEF Done
  <2>. QED BY <1>1, <1>2, <2>2 DEF Advances
<1>5. CASE \E e \in edges : ~Visited(e) /\ Visited(e)'
  <2>1. PICK e \in edges : ~Visited(e) /\ Visited(e)'
    BY <1>5
  <2>2. <<"edge", e>> \in Done' /\ <<"edge", e>> \notin Done
    BY <2>1 DEF Done, input
  <2>. QED BY <1>1, <1>2, <2>2 DEF Advances
<1>6. CASE ~returned /\ returned'
  <2>1. <<"search", TRUE>> \in Done' /\ <<"search", TRUE>> \notin Done
    BY <1>6 DEF Done
  <2>. QED BY <1>1, <1>2, <2>1 DEF Advances
<1>. QED
  BY <1>3, <1>4, <1>5, <1>6

LEMMA SeedAdvances ==
  ASSUME TypeOK, TypeOK', SearchInv, SearchInv', SeedMissing \/ SeedRoot \/ SeedAgain
  PROVE  Advances
<1>1. /\ pending = {} /\ Reached = Queued /\ Reached' = Queued'
      /\ next' = next + 1 /\ UNCHANGED <<edges, entries, pending, returned>>
  BY SearchInvSeed DEF SearchInv, SeedMissing, SeedRoot, SeedAgain, Seeding, Idle, input
<1>2. next \in Nat \ {0}
  BY DEF TypeOK
<1>3. /\ 1 .. next - 1 \subseteq (1 .. next - 1)'
      /\ next \notin 1 .. next - 1 /\ next \in (1 .. next - 1)'
  BY <1>1, <1>2
<1>4. \A e \in edges : ~Visited(e)
  BY <1>1 DEF Visited
<1>. QED
  BY <1>1, <1>3, <1>4, DoneInParts DEF input

LEMMA DequeueAdvances ==
  ASSUME TypeOK, SearchInv, Dequeue
  PROVE  Advances
<1>1. /\ pending = {} /\ queue # <<>> /\ queue' = Tail(queue)
      /\ UNCHANGED <<edges, entries, next, via, returned>>
      /\ pending' = {e \in edges : e.from = Head(queue)}
  BY DEF Dequeue, Idle, input
<1>2. Reached' = Reached
  BY <1>1 DEF Reached
<1>3. /\ Head(queue) = queue[1]
      /\ Len(queue) \in Nat \ {0}
      /\ Len(queue') = Len(queue) - 1
      /\ \A i \in 1 .. Len(queue') : queue'[i] = queue[i + 1]
      /\ Queued = Queued' \cup {queue[1]}
  BY <1>1, QueuePop
<1>4. queue[1] \notin Queued' /\ queue[1] \in Reached /\ queue[1] \in Queued
  <2> SUFFICES ASSUME NEW i \in 1 .. Len(queue'), queue'[i] = queue[1]
               PROVE  FALSE
    BY <1>3 DEF Queued, SearchInv
  <2>1. i + 1 \in 1 .. Len(queue) /\ 1 \in 1 .. Len(queue) /\ i + 1 # 1
    BY <1>3
  <2>2. queue[i + 1] = queue[1]
    BY <1>3
  <2> QED
    BY <2>1, <2>2 DEF SearchInv
<1>5. \A e \in edges : Visited(e) => Visited(e)'
  BY <1>1, <1>2, <1>3, <1>4 DEF Visited
<1>. QED
  BY <1>1, <1>2, <1>3, <1>4, <1>5, DoneInParts DEF input

LEMMA VisitAdvances ==
  ASSUME TypeOK, SearchInv, Visit
  PROVE  Advances
<1>1. PICK e \in pending : /\ Discover(e) \/ Revisit(e)
                          /\ pending' = pending \ {e}
                          /\ UNCHANGED <<input, next, missing, returned>>
  BY DEF Visit
<1>2. /\ e \in edges /\ e.to \in Functions /\ e.from \in Reached \ Queued
      /\ e.kind \in EdgeKinds
  BY EdgeEnds DEF TypeOK, SearchInv
<1>3. Reached \ Queued \subseteq (Reached \ Queued)'
  <2>1. CASE Discover(e)
    <3>1. Reached' = Reached \cup {e.to} /\ e.to \notin Reached
      BY <1>2, <2>1, ReachedAdd, ViaOfStep DEF Discover, Vias
    <3>2. Queued' = Queued \cup {e.to}
      BY <1>2, <2>1, QueueAppend DEF Discover
    <3>. QED BY <3>1, <3>2
  <2>2. CASE Revisit(e)
    <3>1. via[e.to] \in Vias
      BY <1>2, <2>2 DEF Revisit, Reached, TypeOK
    <3>2. mergeVia(via[e.to], fromKind(e.kind)) \in Vias
      BY <1>2, <3>1, ViaOfStep
    <3>3. Reached' = Reached \cup {e.to}
      BY <1>2, <2>2, <3>2, ReachedAdd DEF Revisit
    <3>4. Queued' = Queued
      BY <2>2 DEF Revisit, Queued
    <3>. QED BY <3>3, <3>4
  <2>. QED BY <1>1, <2>1, <2>2
<1>4. \A d \in edges : Visited(d) => Visited(d)'
  BY <1>1, <1>3 DEF Visited
<1>5. ~Visited(e) /\ Visited(e)'
  BY <1>1, <1>2, <1>3 DEF Visited
<1>. QED
  BY <1>1, <1>2, <1>3, <1>4, <1>5, DoneInParts

LEMMA ReturnAdvances ==
  ASSUME Return
  PROVE  Advances
<1>1. /\ ~returned /\ returned'
      /\ UNCHANGED <<input, next, missing, queue, pending, via, depth>>
  BY DEF Return
<1>2. Reached' = Reached /\ Queued' = Queued
  BY <1>1 DEF Reached, Queued
<1>3. \A e \in edges : Visited(e) => Visited(e)'
  BY <1>1, <1>2 DEF Visited
<1>. QED
  BY <1>1, <1>2, <1>3, DoneInParts

(* Every step of the search does new work and undoes none: it seeds one    *)
(* more entry, expands one more function, visits one more edge or returns. *)
THEOREM EveryStepAdvances == Spec => [][Advances]_vars
<1>1. TypeOK /\ TypeOK' /\ SearchInv /\ SearchInv' /\ [Next]_vars => [Advances]_vars
  BY SeedAdvances, DequeueAdvances, VisitAdvances, ReturnAdvances DEF Next
<1>. QED
  BY <1>1, TypeCorrect, FrontierCorrect, PTL DEF Spec

(* All the work is a finite set, so the search takes finitely many steps   *)
(* in any module.                                                          *)
THEOREM WorkIsFinite ==
  ASSUME IsFiniteSet(Functions)
  PROVE  Spec => [](Done \subseteq Work /\ IsFiniteSet(Work))
<1>1. TypeOK => Done \subseteq Work
  <2>1. SUFFICES ASSUME TypeOK PROVE Done \subseteq Work
    OBVIOUS
  <2>2. 1 .. next - 1 \subseteq 1 .. Len(entries)
    BY <2>1 DEF TypeOK
  <2>3. Reached \subseteq Functions
    BY DEF Reached
  <2>. QED BY <2>2, <2>3 DEF Done, Work
<1>2. IsFiniteSet(Edges)
  <2>. DEFINE Ends == (Functions \X Functions) \X EdgeKinds
              ends == [e \in Edges |-> <<<<e.from, e.to>>, e.kind>>]
  <2>1. IsFiniteSet(EdgeKinds)
    <3>1. IsFiniteSet({"Direct"}) /\ IsFiniteSet({"Indirect"})
      BY FS_Singleton
    <3>2. EdgeKinds = {"Direct"} \cup {"Indirect"}
      BY DEF EdgeKinds
    <3>. QED BY <3>1, <3>2, FS_Union
  <2>2. IsFiniteSet(Ends)
    BY <2>1, FS_Product
  <2>3. ends \in Injection(Edges, Ends)
    BY DEF Injection, IsInjective, Edges
  <2>. HIDE DEF Ends, ends
  <2>. QED BY <2>2, <2>3, FS_Injection
<1>3. TypeOK => IsFiniteSet(Work)
  <2>1. SUFFICES ASSUME TypeOK PROVE IsFiniteSet(Work)
    OBVIOUS
  <2>2. IsFiniteSet(1 .. Len(entries)) /\ IsFiniteSet(edges)
    BY <2>1, <1>2, FS_Interval, FS_Subset DEF TypeOK
  <2>3. /\ IsFiniteSet({"entry"}) /\ IsFiniteSet({"function"}) /\ IsFiniteSet({"edge"})
        /\ IsFiniteSet({"search"} \X {TRUE})
    BY FS_Singleton, FS_Product
  <2>4. /\ IsFiniteSet({"entry"} \X (1 .. Len(entries)))
        /\ IsFiniteSet({"function"} \X Functions)
        /\ IsFiniteSet({"edge"} \X edges)
    BY <2>2, <2>3, FS_Product
  <2>. QED BY <2>3, <2>4, FS_Union DEF Work
<1>. QED
  BY <1>1, <1>3, TypeCorrect, PTL

-----------------------------------------------------------------------------
(***************************************************************************)
(* The search in terms of ValueFlow, and what it gives for the roots that  *)
(* main hands to it.                                                       *)
(***************************************************************************)
Callees == [f \in Functions |-> {e.to : e \in {d \in edges : d.from = f}}]

LEMMA CalleesTyped ==
  ASSUME TypeOK
  PROVE  /\ Callees \in [Functions -> SUBSET Functions]
         /\ Roots \in SUBSET Functions
         /\ Reached \in SUBSET Functions
<1>1. /\ \A e \in edges : e.from \in Functions /\ e.to \in Functions
      /\ entries \in Seq(Names)
  BY DEF TypeOK, Edges
<1>2. Callees \in [Functions -> SUBSET Functions]
  BY <1>1 DEF Callees
<1>. QED
  BY <1>1, <1>2, ModuleAssumption DEF Roots, Reached

(* Being closed under edges is being closed in the flow of calls.          *)
LEMMA ClosedIsFlowClosed ==
  ASSUME TypeOK, NEW S \in SUBSET Functions
  PROVE  Closed(S) <=> Roots \subseteq S /\ FlowClosed(Callees, S)
<1>1. \A e \in edges : e.from \in Functions /\ e.to \in Functions
  BY DEF TypeOK, Edges
<1>2. \A f \in S : Callees[f] = {e.to : e \in {d \in edges : d.from = f}}
  BY DEF Callees
<1>. QED
  BY <1>1, <1>2 DEF Closed, FlowClosed

(* What the search returns is the closure of the entries in the call       *)
(* graph, the set the other modules call reached.                          *)
THEOREM SearchIsClosure ==
  ASSUME IsFiniteSet(Functions)
  PROVE  Spec => [](returned => Reached = Closure(Callees, Roots))
<1>1. TypeOK /\ NoUnderReporting /\ OnlyReachable
        => (returned => Reached = Closure(Callees, Roots))
  <2>1. SUFFICES ASSUME TypeOK, NoUnderReporting, OnlyReachable, returned
                 PROVE  Reached = Closure(Callees, Roots)
    OBVIOUS
  <2>2. Closure(Callees, Roots) = Least(Callees, Roots)
    BY <2>1, CalleesTyped, ClosureIsLeast
  <2>3. /\ Least(Callees, Roots) \in SUBSET Functions
        /\ Roots \subseteq Least(Callees, Roots)
        /\ FlowClosed(Callees, Least(Callees, Roots))
        /\ \A T \in SUBSET Functions :
             Roots \subseteq T /\ FlowClosed(Callees, T) => Least(Callees, Roots) \subseteq T
    BY <2>1, CalleesTyped, LeastIsClosed
  <2>4. Least(Callees, Roots) \subseteq Reached
    BY <2>1, <2>3, CalleesTyped, ClosedIsFlowClosed DEF NoUnderReporting
  <2>5. Reached \subseteq Least(Callees, Roots)
    BY <2>1, <2>3, ClosedIsFlowClosed DEF OnlyReachable
  <2>. QED
    BY <2>2, <2>4, <2>5
<1>. QED
  BY <1>1, TypeCorrect, NeverUnderReports, NeverOverReports, PTL

(* main runs the search on the graph, from the roots it has collected.     *)
HandedToSearch == pc = "run" => entries = roots /\ calls = Callees

(* What the program enters, by calls or by name, is in what the search     *)
(* returns for the collected roots, when no string constant is the name of *)
(* an alias.                                                               *)
THEOREM LookUpsAreReported ==
  ASSUME Symbols = Functions, Bodies = Defined
  PROVE  Spec /\ RootsSpec /\ []HandedToSearch =>
           [](pc = "run" /\ returned /\ strings \cap Aliases = {} => entered \subseteq Reached)
<1>1. ASSUME HandedToSearch, LookUpsReached, RootsInv,
             returned => Reached = Closure(Callees, Roots),
             pc = "run", returned, strings \cap Aliases = {}
      PROVE  entered \subseteq Reached
  <2>1. entries = roots /\ calls = Callees
    BY <1>1 DEF HandedToSearch
  <2>2. Roots = ToSet(roots)
    BY <1>1, <2>1 DEF Roots, ToSet, RootsInv, RootsTypeOK
  <2>3. Reached = Closure(calls, ToSet(roots))
    BY <1>1, <2>1, <2>2
  <2>. QED
    BY <1>1, <2>3 DEF LookUpsReached, ReachedFromRoots
<1>2. IsFiniteSet(Functions)
  BY RootAssumption
<1>. QED
  BY <1>1, <1>2, SearchIsClosure, LookUpsAreReached, RootsAreDistinctFunctions, PTL
=============================================================================
