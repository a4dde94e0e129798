--------------------------- MODULE MetricsProofs ---------------------------
(***************************************************************************)
(* computeMetrics is correct for every call graph: the functions flagged   *)
(* as interesting are those at the end of an unbroken chain, and those     *)
(* marked as bottlenecks are the dominators of some other function.  And   *)
(* every step advances towards the end.                                    *)
(***************************************************************************)
EXTENDS Metrics, ValueFlowProofs

(***************************************************************************)
(* The inductive invariant of computeInteresting: what is flagged is       *)
(* tainted, and nothing is forgotten that a flagged function calls.        *)
(***************************************************************************)
Waiting(f) == \E i \in 1 .. Len(work) : work[i] = f

Threading ==
  /\ interesting \subseteq Taint
  /\ (in.roots \cap in.ptrArg) \ seeds \subseteq interesting
  /\ \A i \in 1 .. Len(work) : work[i] \in interesting
  /\ \A f \in interesting : ~Waiting(f) =>
       in.calls[f] \cap Measured \cap in.ptrArg \subseteq interesting \cup pending
  /\ \A g \in pending : \E f \in interesting : g \in in.calls[f]

(***************************************************************************)
(* The search: every visited node has a frame or a number, and a           *)
(* predecessor that is numbered later.                                     *)
(***************************************************************************)
Open == {stack[i].node : i \in 1 .. Len(stack)}
Finished == {order[k] : k \in 1 .. Len(order)}

Later(p, k) == p \in Open \/ \E m \in k + 1 .. Len(order) : order[m] = p

Searching ==
  /\ visited = Open \cup Finished
  /\ Open \cap Finished = {}
  /\ \A i, j \in 1 .. Len(stack) : stack[i].node = stack[j].node => i = j
  /\ \A k, m \in 1 .. Len(order) : order[k] = order[m] => k = m
  /\ stack # <<>> => stack[1].node = VirtualRoot
  /\ stack = <<>> => Len(order) > 1 /\ order[Len(order)] = VirtualRoot
  /\ \A i \in 1 .. Len(stack) - 1 : stack[i + 1].node \in Succ(stack[i].node)
  /\ \A i \in 1 .. Len(stack) :
       /\ stack[i].left \subseteq Succ(stack[i].node)
       /\ Succ(stack[i].node) \ stack[i].left \subseteq visited
  /\ \A v \in Finished : Succ(v) \subseteq visited
  /\ \A k \in 1 .. Len(order) : order[k] # VirtualRoot =>
       \E p \in Pred(order[k]) : Later(p, k)

(* The passes wait for the search.                                         *)
Untouched ==
  /\ idom = [v \in V |-> IF v = VirtualRoot THEN v ELSE NoNode]
  /\ changed /\ todo = 0 /\ preds = {} /\ newIdom = NoNode
  /\ ~marked

(***************************************************************************)
(* The passes.                                                             *)
(***************************************************************************)
Num == [v \in V |-> postnum(v)]

(* What is reached from a going to ever smaller numbers.                   *)
Down(a) == Closure([u \in V |-> {w \in Succ(u) : Num[w] < Num[u]}], {a})

(* What is reached without d.                                              *)
Avoiding(d) == Closure([v \in V |-> Succ(v) \ {d}], {VirtualRoot})

Met == {p \in Pred(order[todo]) \ preds : Processed(p)}

(* newIdom stands for the chain that the processed predecessors share.     *)
Meeting ==
  /\ todo < Len(order)
  /\ todo = 0 => preds = {} /\ newIdom = NoNode
  /\ todo > 0 =>
       /\ preds \subseteq Pred(order[todo])
       /\ newIdom = NoNode => Met = {}
       /\ newIdom # NoNode =>
            /\ Processed(newIdom)
            /\ Met # {}
            /\ \A c \in V : c \in Chain(newIdom) <=> \A p \in Met : c \in Chain(p)

(* What this pass has dealt with is processed.                             *)
Advancing ==
  todo > 0 \/ ~changed => \A k \in todo + 1 .. Len(order) : Processed(order[k])

(* Chains lose no dominator, and each node of a chain leads down to f.     *)
Keeping ==
  \A f \in V : Processed(f) =>
    /\ \A d \in V \ {f} : f \notin Avoiding(d) => d \in Chain(f)
    /\ \A v \in Chain(f) : f \in Down(v)

(* In this pass chains agree with those of the predecessors above.         *)
Agreeing ==
  todo > 0 => \A k \in todo + 1 .. Len(order) - 1 : \A p \in Pred(order[k]) :
    Num[p] > k => Chain(idom[order[k]]) \subseteq Chain(p)

(* What the predecessors share lies at the immediate dominator or above.   *)
Rising ==
  \A v \in Measured : Processed(v) =>
    \A c \in V : (\A p \in Pred(v) : Processed(p) => c \in Chain(p)) => Num[c] >= Num[idom[v]]

(* A pass without a change finds a fixed point.                            *)
Settling ==
  ~changed => \A k \in todo + 1 .. Len(order) - 1 : \A p \in Pred(order[k]) :
    Processed(p) => Chain(idom[order[k]]) \subseteq Chain(p)

Marking ==
  marked => ~changed /\ todo = 0 /\ bottleneck = Idoms

PassBody ==
  /\ idom[VirtualRoot] = VirtualRoot
  /\ ChainsClimb
  /\ Meeting
  /\ Advancing
  /\ Keeping
  /\ Agreeing
  /\ Rising
  /\ Settling
  /\ Marking

(***************************************************************************)
(* The inductive invariants, one for each phase; each has the types of its *)
(* variables, and the passes build on the search.                          *)
(***************************************************************************)
ThreadTypes ==
  /\ seeds \subseteq in.roots
  /\ work \in Seq(Measured)
  /\ pending \subseteq Functions
  /\ interesting \subseteq Measured

ThreadInv == in \in Inputs /\ ThreadTypes /\ Threading

SearchTypes ==
  /\ stack \in Seq(Frame)
  /\ visited \subseteq V
  /\ order \in Seq(V)

SearchInv == in \in Inputs /\ SearchTypes /\ Searching

PassTypes ==
  /\ idom \in [V -> V \cup {NoNode}]
  /\ changed \in BOOLEAN
  /\ todo \in 0 .. Len(order)
  /\ preds \subseteq V
  /\ newIdom \in V \cup {NoNode}
  /\ marked \in BOOLEAN
  /\ bottleneck \subseteq Measured

PassInv ==
  /\ SearchInv
  /\ PassTypes
  /\ IF stack # <<>> THEN Untouched ELSE PassBody

-----------------------------------------------------------------------------
(***************************************************************************)
(* Trees given by a parent function, of which only a part may be known:    *)
(* up[v] is NoNode where it is not.  Numbers grow towards the root r.      *)
(***************************************************************************)
ChainOf(up, v) == Closure([u \in DOMAIN up |-> {up[u]} \ {NoNode}], {v})

Climbs(D, r, num, up) ==
  /\ IsFiniteSet(D) /\ r \in D /\ NoNode \notin D
  /\ num \in [D -> Nat]
  /\ \A x, y \in D : num[x] = num[y] => x = y
  /\ \A x \in D : num[x] <= num[r]
  /\ up \in [D -> D \cup {NoNode}] /\ up[r] = r
  /\ \A x \in D \ {r} : up[x] # NoNode => up[up[x]] # NoNode /\ num[x] < num[up[x]]

LEMMA ClosureFacts ==
  ASSUME NEW D, IsFiniteSet(D), NEW rel \in [D -> SUBSET D], NEW S \in SUBSET D
  PROVE  /\ Closure(rel, S) \in SUBSET D
         /\ S \subseteq Closure(rel, S)
         /\ \A x \in Closure(rel, S) : rel[x] \subseteq Closure(rel, S)
         /\ \A T \in SUBSET D :
              S \subseteq T /\ (\A x \in T : rel[x] \subseteq T) => Closure(rel, S) \subseteq T
<1>1. Closure(rel, S) = Least(rel, S)
  BY ClosureIsLeast
<1>2. /\ Least(rel, S) \in SUBSET D
      /\ S \subseteq Least(rel, S)
      /\ FlowClosed(rel, Least(rel, S))
      /\ \A T \in SUBSET D : S \subseteq T /\ FlowClosed(rel, T) => Least(rel, S) \subseteq T
  BY LeastIsClosed
<1>. QED
  BY <1>1, <1>2 DEF FlowClosed

LEMMA ChainClosed ==
  ASSUME NEW D, IsFiniteSet(D), NEW up \in [D -> D \cup {NoNode}], NEW v \in D
  PROVE  /\ ChainOf(up, v) \in SUBSET D
         /\ v \in ChainOf(up, v)
         /\ \A x \in ChainOf(up, v) : up[x] # NoNode => up[x] \in ChainOf(up, v)
         /\ \A T \in SUBSET D :
              v \in T /\ (\A x \in T : up[x] # NoNode => up[x] \in T) => ChainOf(up, v) \subseteq T
<1>. DEFINE rel == [u \in D |-> {up[u]} \ {NoNode}]
<1>1. rel \in [D -> SUBSET D] /\ {v} \in SUBSET D
  OBVIOUS
<1>2. ChainOf(up, v) = Closure(rel, {v})
  BY DEF ChainOf
<1>3. \A x \in D, T \in SUBSET D : rel[x] \subseteq T <=> (up[x] # NoNode => up[x] \in T)
  OBVIOUS
<1>. HIDE DEF rel
<1>4. /\ Closure(rel, {v}) \in SUBSET D
      /\ {v} \subseteq Closure(rel, {v})
      /\ \A x \in Closure(rel, {v}) : rel[x] \subseteq Closure(rel, {v})
      /\ \A T \in SUBSET D :
           {v} \subseteq T /\ (\A x \in T : rel[x] \subseteq T) => Closure(rel, {v}) \subseteq T
  BY <1>1, ClosureFacts
<1>5. \A x \in ChainOf(up, v) : up[x] # NoNode => up[x] \in ChainOf(up, v)
  BY <1>2, <1>3, <1>4
<1>6. ASSUME NEW T \in SUBSET D, v \in T, \A x \in T : up[x] # NoNode => up[x] \in T
      PROVE  ChainOf(up, v) \subseteq T
  <2>1. \A x \in T : rel[x] \subseteq T
    BY <1>3, <1>6
  <2>. QED BY <1>2, <1>4, <1>6, <2>1
<1>. QED
  BY <1>2, <1>4, <1>5, <1>6

LEMMA ChainLeast ==
  ASSUME NEW D, IsFiniteSet(D), NEW up \in [D -> D \cup {NoNode}], NEW v \in D,
         NEW T \in SUBSET D, v \in T, \A x \in T : up[x] # NoNode => up[x] \in T
  PROVE  ChainOf(up, v) \subseteq T
BY ChainClosed

LEMMA ChainInside ==
  ASSUME NEW D, IsFiniteSet(D), NEW up \in [D -> D \cup {NoNode}], NEW v \in D,
         NEW x \in ChainOf(up, v)
  PROVE  ChainOf(up, x) \subseteq ChainOf(up, v)
<1>1. ChainOf(up, v) \in SUBSET D /\ x \in D
  BY ChainClosed
<1>. QED
  BY <1>1, ChainClosed

(* A chain is its first node and the chain of its parent.                  *)
LEMMA ChainStep ==
  ASSUME NEW D, IsFiniteSet(D), NoNode \notin D, NEW up \in [D -> D \cup {NoNode}],
         NEW v \in D, up[v] # NoNode
  PROVE  up[v] \in D /\ ChainOf(up, v) = {v} \cup ChainOf(up, up[v])
<1>1. up[v] \in D
  OBVIOUS
<1>2. ChainOf(up, up[v]) \subseteq ChainOf(up, v) /\ v \in ChainOf(up, v)
  BY ChainClosed, ChainInside
<1>3. ChainOf(up, v) \subseteq {v} \cup ChainOf(up, up[v])
  <2>. DEFINE T == {v} \cup ChainOf(up, up[v])
  <2>1. T \in SUBSET D /\ v \in T
    BY <1>1, ChainClosed
  <2>2. \A x \in T : up[x] # NoNode => up[x] \in T
    BY <1>1, ChainClosed
  <2>. HIDE DEF T
  <2>3. ChainOf(up, v) \subseteq T
    BY <2>1, <2>2, ChainLeast
  <2>. QED BY <2>3 DEF T
<1>. QED
  BY <1>1, <1>2, <1>3

LEMMA ChainOfRoot ==
  ASSUME NEW D, NEW r, NEW num, NEW up, Climbs(D, r, num, up)
  PROVE  ChainOf(up, r) = {r}
<1>1. /\ IsFiniteSet(D) /\ up \in [D -> D \cup {NoNode}] /\ r \in D /\ up[r] = r
      /\ {r} \in SUBSET D
  BY DEF Climbs
<1>2. \A x \in {r} : up[x] # NoNode => up[x] \in {r}
  BY <1>1
<1>3. ChainOf(up, r) \subseteq {r} /\ r \in ChainOf(up, r)
  BY <1>1, <1>2, ChainLeast, ChainClosed
<1>. QED
  BY <1>3

(* The nodes of a known chain are known, and their numbers grow.           *)
LEMMA ChainGrows ==
  ASSUME NEW D, NEW r, NEW num, NEW up, Climbs(D, r, num, up), NEW v \in D, up[v] # NoNode
  PROVE  \A x \in ChainOf(up, v) : up[x] # NoNode /\ num[v] <= num[x] /\ (x # v => num[v] < num[x])
<1>1. /\ IsFiniteSet(D) /\ up \in [D -> D \cup {NoNode}] /\ r \in D /\ up[r] = r
      /\ num \in [D -> Nat] /\ \A x \in D : num[x] <= num[r]
      /\ \A x, y \in D : num[x] = num[y] => x = y
      /\ \A x \in D \ {r} : up[x] # NoNode => up[up[x]] # NoNode /\ num[x] < num[up[x]]
  BY DEF Climbs
<1>. DEFINE T == {x \in D : up[x] # NoNode /\ num[v] <= num[x]}
<1>2. \A x \in T : up[x] \in T
  <2>1. ASSUME NEW x \in T, x # r
        PROVE  up[x] \in T
    <3>1. up[x] \in D /\ up[up[x]] # NoNode /\ num[x] < num[up[x]] /\ num[v] <= num[x]
      BY <1>1, <2>1
    <3>2. num[v] <= num[up[x]]
      BY <1>1, <3>1
    <3>. QED BY <3>1, <3>2
  <2>. QED BY <1>1, <2>1
<1>3. v \in T
  BY <1>1
<1>4. ChainOf(up, v) \subseteq T
  <2>1. T \in SUBSET D
    OBVIOUS
  <2>. HIDE DEF T
  <2>. QED BY <1>1, <1>2, <1>3, <2>1, ChainLeast
<1>5. \A x \in T : x # v => num[v] < num[x]
  BY <1>1
<1>. QED
  BY <1>4, <1>5

(* A finite set has a member with the largest number, and one with the     *)
(* smallest.                                                               *)
LEMMA MaxExists ==
  ASSUME NEW D, IsFiniteSet(D), NEW num \in [D -> Nat], NEW S \in SUBSET D, S # {}
  PROVE  \E w \in S : \A x \in S : num[x] <= num[w]
<1>. DEFINE Upto(w) == {x \in D : num[x] <= num[w]}
            B == {Upto(w) : w \in S}
<1>1. B \in SUBSET (SUBSET D) /\ B # {}
  OBVIOUS
<1>2. PICK T \in B : \A U \in B : T \subseteq U => U = T
  <2>. HIDE DEF B
  <2>. QED BY <1>1, MaximalExists
<1>3. PICK w \in S : T = Upto(w)
  OBVIOUS
<1>4. ASSUME NEW x \in S
      PROVE  num[x] <= num[w]
  <2>1. SUFFICES ASSUME num[w] < num[x]
                 PROVE  FALSE
    OBVIOUS
  <2>2. Upto(w) \subseteq Upto(x)
    BY <2>1
  <2>3. Upto(x) = Upto(w)
    <3>1. Upto(x) \in B
      OBVIOUS
    <3>. HIDE DEF B, Upto
    <3>. QED BY <1>2, <1>3, <2>2, <3>1
  <2>4. x \in Upto(x)
    OBVIOUS
  <2>. QED BY <2>1, <2>3, <2>4
<1>. QED
  BY <1>4

LEMMA MinExists ==
  ASSUME NEW D, IsFiniteSet(D), NEW num \in [D -> Nat], NEW r \in D,
         \A x \in D : num[x] <= num[r], NEW S \in SUBSET D, S # {}
  PROVE  \E w \in S : \A x \in S : num[w] <= num[x]
<1>. DEFINE below == [x \in D |-> num[r] - num[x]]
<1>1. below \in [D -> Nat]
  OBVIOUS
<1>2. \A x, w \in D : below[x] <= below[w] <=> num[w] <= num[x]
  OBVIOUS
<1>. HIDE DEF below
<1>3. PICK w \in S : \A x \in S : below[x] <= below[w]
  BY <1>1, MaxExists
<1>. QED
  BY <1>2, <1>3

LEMMA ChainHasRoot ==
  ASSUME NEW D, NEW r, NEW num, NEW up, Climbs(D, r, num, up), NEW v \in D, up[v] # NoNode
  PROVE  r \in ChainOf(up, v)
<1>. DEFINE S == {w \in D : up[w] # NoNode /\ r \notin ChainOf(up, w)}
<1>1. /\ IsFiniteSet(D) /\ NoNode \notin D /\ up \in [D -> D \cup {NoNode}] /\ num \in [D -> Nat]
      /\ \A x \in D \ {r} : up[x] # NoNode => up[up[x]] # NoNode /\ num[x] < num[up[x]]
  BY DEF Climbs
<1>2. SUFFICES ASSUME S # {}
               PROVE  FALSE
  OBVIOUS
<1>3. PICK w \in S : \A x \in S : num[x] <= num[w]
  <2>1. S \in SUBSET D
    OBVIOUS
  <2>. HIDE DEF S
  <2>. QED BY <1>1, <1>2, <2>1, MaxExists
<1>4. w \in D /\ up[w] # NoNode /\ r \notin ChainOf(up, w)
  OBVIOUS
<1>5. up[w] \in D /\ ChainOf(up, w) = {w} \cup ChainOf(up, up[w])
  BY <1>1, <1>4, ChainStep
<1>6. w # r
  BY <1>4, <1>5
<1>7. up[w] \in S /\ num[w] < num[up[w]]
  BY <1>1, <1>4, <1>5, <1>6
<1>. QED
  BY <1>1, <1>3, <1>4, <1>5, <1>7

(* The nodes of a chain are ordered by their numbers.                      *)
LEMMA ChainOrdered ==
  ASSUME NEW D, NEW r, NEW num, NEW up, Climbs(D, r, num, up), NEW v \in D, up[v] # NoNode,
         NEW c \in ChainOf(up, v), NEW d \in ChainOf(up, v), num[c] <= num[d]
  PROVE  d \in ChainOf(up, c)
<1>. DEFINE T == {x \in D : (up[x] # NoNode /\ c \in ChainOf(up, x)) \/ x \in ChainOf(up, c)}
<1>1. /\ IsFiniteSet(D) /\ NoNode \notin D /\ up \in [D -> D \cup {NoNode}] /\ num \in [D -> Nat]
      /\ \A x, y \in D : num[x] = num[y] => x = y
  BY DEF Climbs
<1>2. c \in D /\ d \in D /\ up[c] # NoNode /\ up[d] # NoNode
  BY <1>1, ChainClosed, ChainGrows
<1>3. ASSUME NEW x \in T, up[x] # NoNode
      PROVE  up[x] \in T
  <2>1. up[x] \in D /\ ChainOf(up, x) = {x} \cup ChainOf(up, up[x])
    BY <1>1, <1>3, ChainStep
  <2>2. CASE x \in ChainOf(up, c)
    BY <1>1, <1>2, <1>3, <2>1, <2>2, ChainClosed
  <2>3. CASE c \in ChainOf(up, x) /\ x # c
    <3>1. up[up[x]] # NoNode
      <4>1. up[x] \in ChainOf(up, x)
        BY <1>1, <1>3, ChainClosed
      <4>. QED BY <1>3, <4>1, ChainGrows
    <3>. QED BY <2>1, <2>3, <3>1
  <2>4. CASE x = c
    <3>1. c \in ChainOf(up, c)
      BY <1>1, <1>2, ChainClosed
    <3>. QED BY <2>2, <2>4, <3>1
  <2>. QED BY <2>2, <2>3, <2>4
<1>4. ChainOf(up, v) \subseteq T
  <2>1. T \in SUBSET D /\ v \in T
    OBVIOUS
  <2>. HIDE DEF T
  <2>. QED BY <1>1, <1>3, <2>1, ChainLeast
<1>5. CASE d \in ChainOf(up, c)
  BY <1>5
<1>6. CASE c \in ChainOf(up, d)
  <2>1. num[d] <= num[c]
    BY <1>2, <1>6, ChainGrows
  <2>2. c = d
    BY <1>1, <1>2, <2>1
  <2>. QED BY <1>6, <2>2
<1>. QED
  BY <1>4, <1>5, <1>6

(* Two known chains share a chain.                                         *)
KnownIn(D, up) == {v \in D : up[v] # NoNode}

Meets(D, up, x, y, c) ==
  c \in KnownIn(D, up) /\ ChainOf(up, c) = ChainOf(up, x) \cap ChainOf(up, y)

LEMMA ChainsMeet ==
  ASSUME NEW D, NEW r, NEW num, NEW up, Climbs(D, r, num, up),
         NEW x \in KnownIn(D, up), NEW y \in KnownIn(D, up)
  PROVE  \E c : Meets(D, up, x, y, c)
<1>. DEFINE S == ChainOf(up, x) \cap ChainOf(up, y)
<1>1. /\ IsFiniteSet(D) /\ up \in [D -> D \cup {NoNode}] /\ num \in [D -> Nat] /\ r \in D
      /\ \A z \in D : num[z] <= num[r]
      /\ x \in D /\ up[x] # NoNode /\ y \in D /\ up[y] # NoNode
  BY DEF Climbs, KnownIn
<1>2. S \in SUBSET D /\ S # {}
  BY <1>1, ChainClosed, ChainHasRoot
<1>3. PICK c \in S : \A d \in S : num[c] <= num[d]
  <2>. HIDE DEF S
  <2>. QED BY <1>1, <1>2, MinExists
<1>4. up[c] # NoNode /\ c \in D
  BY <1>1, <1>2, ChainGrows
<1>5. ChainOf(up, c) \subseteq S
  BY <1>1, ChainInside
<1>6. S \subseteq ChainOf(up, c)
  BY <1>1, <1>3, ChainOrdered
<1>7. Meets(D, up, x, y, c)
  BY <1>4, <1>5, <1>6 DEF Meets, KnownIn
<1>. QED
  BY <1>7

LEMMA ChainNames ==
  ASSUME NEW D, NEW r, NEW num, NEW up, Climbs(D, r, num, up),
         NEW x \in D, up[x] # NoNode, NEW y \in D, up[y] # NoNode,
         ChainOf(up, x) = ChainOf(up, y)
  PROVE  x = y
<1>1. /\ IsFiniteSet(D) /\ up \in [D -> D \cup {NoNode}] /\ num \in [D -> Nat]
      /\ \A a, b \in D : num[a] = num[b] => a = b
  BY DEF Climbs
<1>2. x \in ChainOf(up, y) /\ y \in ChainOf(up, x)
  BY <1>1, ChainClosed
<1>3. num[x] <= num[y] /\ num[y] <= num[x]
  BY <1>2, ChainGrows
<1>. QED
  BY <1>1, <1>3

(***************************************************************************)
(* intersect: climbing from two known nodes, always from the one with the  *)
(* smaller number, ends where their chains meet.                           *)
(***************************************************************************)
Climbing(D, num, up, g) ==
  g = [p \in KnownIn(D, up) \X KnownIn(D, up) |->
         IF p[1] = p[2] THEN p[1]
         ELSE IF num[p[1]] < num[p[2]] THEN g[<<up[p[1]], p[2]>>]
         ELSE g[<<p[1], up[p[2]]>>]]

LEMMA MeetsStep ==
  ASSUME NEW D, NEW r, NEW num, NEW up, Climbs(D, r, num, up),
         NEW x \in KnownIn(D, up), NEW y \in KnownIn(D, up), num[x] < num[y]
  PROVE  /\ up[x] \in KnownIn(D, up) /\ num[x] < num[up[x]]
         /\ \A c : Meets(D, up, x, y, c) <=> Meets(D, up, up[x], y, c)
<1>1. /\ IsFiniteSet(D) /\ NoNode \notin D /\ up \in [D -> D \cup {NoNode}] /\ num \in [D -> Nat]
      /\ r \in D /\ \A z \in D : num[z] <= num[r]
      /\ \A z \in D \ {r} : up[z] # NoNode => up[up[z]] # NoNode /\ num[z] < num[up[z]]
  BY DEF Climbs
<1>2. x \in D /\ y \in D /\ up[x] # NoNode /\ up[y] # NoNode
  BY DEF KnownIn
<1>3. x # r
  BY <1>1, <1>2
<1>4. up[x] \in KnownIn(D, up) /\ num[x] < num[up[x]]
  BY <1>1, <1>2, <1>3 DEF KnownIn
<1>5. ChainOf(up, x) = {x} \cup ChainOf(up, up[x])
  BY <1>1, <1>2, ChainStep
<1>6. x \notin ChainOf(up, y)
  <2>1. SUFFICES ASSUME x \in ChainOf(up, y)
                 PROVE  FALSE
    OBVIOUS
  <2>2. num[y] <= num[x]
    BY <1>2, <2>1, ChainGrows
  <2>. QED BY <1>1, <1>2, <2>2
<1>. QED
  BY <1>4, <1>5, <1>6 DEF Meets

LEMMA MeetsUnique ==
  ASSUME NEW D, NEW r, NEW num, NEW up, Climbs(D, r, num, up),
         NEW x, NEW y, NEW c, Meets(D, up, x, y, c), NEW d, Meets(D, up, x, y, d)
  PROVE  c = d
BY ChainNames DEF Meets, KnownIn

LEMMA MeetsSelf ==
  ASSUME NEW D, NEW up, NEW x \in KnownIn(D, up)
  PROVE  Meets(D, up, x, x, x)
BY DEF Meets

LEMMA MeetsSwapped ==
  ASSUME NEW D, NEW up, NEW x, NEW y, NEW c
  PROVE  Meets(D, up, x, y, c) <=> Meets(D, up, y, x, c)
BY DEF Meets

(* Where the chains meet solves the equation of intersect's function.      *)
LEMMA MeetingClimbs ==
  ASSUME NEW D, NEW r, NEW num, NEW up, Climbs(D, r, num, up)
  PROVE  \E g : Climbing(D, num, up, g)
<1>. DEFINE K == KnownIn(D, up)
            at(x, y) == CHOOSE c : Meets(D, up, x, y, c)
            g == [p \in K \X K |-> at(p[1], p[2])]
<1>1. /\ num \in [D -> Nat] /\ \A x, y \in D : num[x] = num[y] => x = y
      /\ K \subseteq D
  BY DEF Climbs, KnownIn
<1>2. ASSUME NEW x \in K, NEW y \in K
      PROVE  at(x, y) = IF x = y THEN x
                        ELSE IF num[x] < num[y] THEN at(up[x], y) ELSE at(x, up[y])
  <2>0. \E c : Meets(D, up, x, y, c)
    BY ChainsMeet
  <2>1. Meets(D, up, x, y, at(x, y))
    BY <2>0
  <2>2. CASE x = y
    BY <2>1, <2>2, MeetsSelf, MeetsUnique
  <2>3. CASE x # y /\ num[x] < num[y]
    <3>1. \A c : Meets(D, up, x, y, c) <=> Meets(D, up, up[x], y, c)
      BY <2>3, MeetsStep
    <3>2. at(x, y) = at(up[x], y)
      BY <3>1
    <3>. QED BY <2>3, <3>2
  <2>4. CASE x # y /\ ~(num[x] < num[y])
    <3>1. num[y] < num[x]
      BY <1>1, <2>4
    <3>2. \A c : Meets(D, up, y, x, c) <=> Meets(D, up, up[y], x, c)
      BY <3>1, MeetsStep
    <3>3. \A c : Meets(D, up, x, y, c) <=> Meets(D, up, x, up[y], c)
      BY <3>2, MeetsSwapped
    <3>4. at(x, y) = at(x, up[y])
      BY <3>3
    <3>. QED BY <2>4, <3>4
  <2>. QED BY <2>2, <2>3, <2>4
<1>3. \A x, y \in K : x # y => (num[x] < num[y] => up[x] \in K) /\ (~(num[x] < num[y]) => up[y] \in K)
  <2>1. ASSUME NEW x \in K, NEW y \in K, x # y, ~(num[x] < num[y])
        PROVE  up[y] \in K
    <3>1. num[y] < num[x]
      BY <1>1, <2>1
    <3>. QED BY <3>1, MeetsStep
  <2>. QED BY <2>1, MeetsStep
<1>4. ASSUME NEW p \in K \X K
      PROVE  g[p] = IF p[1] = p[2] THEN p[1]
                    ELSE IF num[p[1]] < num[p[2]] THEN g[<<up[p[1]], p[2]>>]
                    ELSE g[<<p[1], up[p[2]]>>]
  <2>1. PICK x \in K, y \in K : p = <<x, y>>
    OBVIOUS
  <2>2. \A a, b \in K : g[<<a, b>>] = at(a, b)
    OBVIOUS
  <2>. HIDE DEF g, at, K
  <2>3. g[<<x, y>>] = IF x = y THEN x
                      ELSE IF num[x] < num[y] THEN g[<<up[x], y>>] ELSE g[<<x, up[y]>>]
    BY <1>2, <1>3, <2>2
  <2>. QED BY <2>1, <2>3
<1>5. g = [p \in K \X K |-> IF p[1] = p[2] THEN p[1]
                            ELSE IF num[p[1]] < num[p[2]] THEN g[<<up[p[1]], p[2]>>]
                            ELSE g[<<p[1], up[p[2]]>>]]
  <2>1. g = [p \in K \X K |-> at(p[1], p[2])] /\ \A p \in K \X K : g[p] = at(p[1], p[2])
    BY DEF g
  <2>. HIDE DEF g, at, K
  <2>. QED BY <1>4, <2>1
<1>6. Climbing(D, num, up, g)
  BY <1>5 DEF Climbing
<1>. QED
  BY <1>6

LEMMA ClimbingMeets ==
  ASSUME NEW D, NEW r, NEW num, NEW up, Climbs(D, r, num, up),
         NEW g, Climbing(D, num, up, g), NEW x \in KnownIn(D, up), NEW y \in KnownIn(D, up)
  PROVE  Meets(D, up, x, y, g[<<x, y>>])
<1>. DEFINE K == KnownIn(D, up)
            Wrong(a) == {b \in K : ~Meets(D, up, a, b, g[<<a, b>>])}
            S == {a \in K : Wrong(a) # {}}
<1>1. /\ IsFiniteSet(D) /\ num \in [D -> Nat] /\ \A a, b \in D : num[a] = num[b] => a = b
      /\ K \subseteq D
  BY DEF Climbs, KnownIn
<1>2. \A a, b \in K :
        g[<<a, b>>] = IF a = b THEN a
                      ELSE IF num[a] < num[b] THEN g[<<up[a], b>>] ELSE g[<<a, up[b]>>]
  BY DEF Climbing
<1>3. SUFFICES ASSUME ~Meets(D, up, x, y, g[<<x, y>>])
               PROVE  FALSE
  OBVIOUS
<1>4. PICK a \in S : \A b \in S : num[b] <= num[a]
  <2>1. y \in Wrong(x)
    BY <1>3
  <2>2. S \in SUBSET D /\ S # {}
    BY <1>1, <2>1
  <2>. HIDE DEF S
  <2>. QED BY <1>1, <2>2, MaxExists
<1>5. PICK b \in Wrong(a) : \A c \in Wrong(a) : num[c] <= num[b]
  <2>1. Wrong(a) \in SUBSET D /\ Wrong(a) # {}
    BY <1>1
  <2>. HIDE DEF Wrong
  <2>. QED BY <1>1, <2>1, MaxExists
<1>6. a \in K /\ b \in K /\ ~Meets(D, up, a, b, g[<<a, b>>])
  BY <1>4
<1>7. CASE a = b
  <2>. HIDE DEF S, Wrong, K
  <2>1. g[<<a, b>>] = a
    BY <1>2, <1>6, <1>7
  <2>2. Meets(D, up, a, a, a)
    BY <1>6, MeetsSelf DEF K
  <2>. QED BY <1>6, <1>7, <2>1, <2>2
<1>8. CASE a # b /\ num[a] < num[b]
  <2>1. /\ up[a] \in K /\ num[a] < num[up[a]]
        /\ \A c : Meets(D, up, a, b, c) <=> Meets(D, up, up[a], b, c)
    BY <1>6, <1>8, MeetsStep
  <2>2. up[a] \notin S
    <3>1. num[a] \in Nat /\ num[up[a]] \in Nat
      BY <1>1, <1>6, <2>1
    <3>2. ~(num[up[a]] <= num[a])
      BY <2>1, <3>1
    <3>. HIDE DEF S
    <3>. QED BY <1>4, <3>2
  <2>3. Meets(D, up, up[a], b, g[<<up[a], b>>])
    BY <1>6, <2>1, <2>2
  <2>. QED BY <1>2, <1>6, <1>8, <2>1, <2>3
<1>9. CASE a # b /\ ~(num[a] < num[b])
  <2>1. num[b] < num[a]
    BY <1>1, <1>6, <1>9
  <2>2. /\ up[b] \in K /\ num[b] < num[up[b]]
        /\ \A c : Meets(D, up, b, a, c) <=> Meets(D, up, up[b], a, c)
    BY <1>6, <2>1, MeetsStep
  <2>3. up[b] \notin Wrong(a)
    <3>1. num[b] \in Nat /\ num[up[b]] \in Nat
      BY <1>1, <1>6, <2>2
    <3>2. ~(num[up[b]] <= num[b])
      BY <2>2, <3>1
    <3>. HIDE DEF Wrong
    <3>. QED BY <1>5, <3>2
  <2>4. Meets(D, up, a, up[b], g[<<a, up[b]>>])
    BY <1>6, <2>2, <2>3
  <2>5. Meets(D, up, b, a, g[<<a, up[b]>>])
    BY <2>2, <2>4, MeetsSwapped
  <2>. QED BY <1>2, <1>6, <1>9, <2>5, MeetsSwapped
<1>. QED
  BY <1>7, <1>8, <1>9

(***************************************************************************)
(* Giving y the parent z, which is known and above y, replaces y's chain   *)
(* wherever it occurs.                                                     *)
(***************************************************************************)
Replaces(D, r, num, up, y, z, up2) ==
  /\ Climbs(D, r, num, up)
  /\ y \in D \ {r} /\ z \in KnownIn(D, up) /\ num[y] < num[z]
  /\ up2 = [up EXCEPT ![y] = z]

LEMMA ReplaceClimbs ==
  ASSUME NEW D, NEW r, NEW num, NEW up, NEW y, NEW z, NEW up2, Replaces(D, r, num, up, y, z, up2)
  PROVE  /\ Climbs(D, r, num, up2)
         /\ up2[y] = z /\ \A x \in D \ {y} : up2[x] = up[x]
         /\ KnownIn(D, up2) = KnownIn(D, up) \cup {y}
<1>1. /\ IsFiniteSet(D) /\ r \in D /\ NoNode \notin D /\ num \in [D -> Nat]
      /\ \A a, b \in D : num[a] = num[b] => a = b
      /\ \A x \in D : num[x] <= num[r]
      /\ up \in [D -> D \cup {NoNode}] /\ up[r] = r
      /\ \A x \in D \ {r} : up[x] # NoNode => up[up[x]] # NoNode /\ num[x] < num[up[x]]
  BY DEF Replaces, Climbs
<1>2. y \in D /\ y # r /\ z \in D /\ up[z] # NoNode /\ num[y] < num[z] /\ z # NoNode
  BY <1>1 DEF Replaces, KnownIn
<1>3. up2 \in [D -> D \cup {NoNode}] /\ up2[y] = z /\ \A x \in D \ {y} : up2[x] = up[x]
  BY <1>1, <1>2 DEF Replaces
<1>4. y # z
  BY <1>1, <1>2
<1>5. ASSUME NEW x \in D \ {r}, up2[x] # NoNode
      PROVE  up2[up2[x]] # NoNode /\ num[x] < num[up2[x]]
  <2>1. CASE x = y
    BY <1>2, <1>3, <1>4, <2>1
  <2>2. CASE x # y
    BY <1>1, <1>2, <1>3, <1>5, <2>2
  <2>. QED BY <2>1, <2>2
<1>6. Climbs(D, r, num, up2)
  BY <1>1, <1>2, <1>3, <1>5 DEF Climbs
<1>7. KnownIn(D, up2) = KnownIn(D, up) \cup {y}
  BY <1>2, <1>3 DEF KnownIn
<1>. QED
  BY <1>3, <1>6, <1>7

LEMMA ReplaceElsewhere ==
  ASSUME NEW D, NEW r, NEW num, NEW up, NEW y, NEW z, NEW up2, Replaces(D, r, num, up, y, z, up2),
         NEW p \in D, y \notin ChainOf(up, p)
  PROVE  ChainOf(up2, p) = ChainOf(up, p)
<1>1. /\ IsFiniteSet(D) /\ up \in [D -> D \cup {NoNode}] /\ up2 \in [D -> D \cup {NoNode}]
      /\ \A x \in D \ {y} : up2[x] = up[x]
  BY ReplaceClimbs DEF Replaces, Climbs
<1>2. ChainOf(up, p) \in SUBSET D /\ p \in ChainOf(up, p)
  BY <1>1, ChainClosed
<1>3. \A x \in ChainOf(up, p) : up2[x] = up[x]
  BY <1>1, <1>2
<1>4. ChainOf(up2, p) \subseteq ChainOf(up, p)
  <2>1. \A x \in ChainOf(up, p) : up2[x] # NoNode => up2[x] \in ChainOf(up, p)
    BY <1>1, <1>3, ChainClosed
  <2>. QED BY <1>1, <1>2, <2>1, ChainLeast
<1>5. ChainOf(up, p) \subseteq ChainOf(up2, p)
  <2>1. ChainOf(up2, p) \in SUBSET D /\ p \in ChainOf(up2, p)
    BY <1>1, ChainClosed
  <2>2. \A x \in ChainOf(up2, p) : up[x] # NoNode => up[x] \in ChainOf(up2, p)
    BY <1>1, <1>3, <1>4, ChainClosed
  <2>. QED BY <1>1, <2>1, <2>2, ChainLeast
<1>. QED
  BY <1>4, <1>5

LEMMA ReplaceSelf ==
  ASSUME NEW D, NEW r, NEW num, NEW up, NEW y, NEW z, NEW up2, Replaces(D, r, num, up, y, z, up2)
  PROVE  ChainOf(up2, y) = {y} \cup ChainOf(up, z)
<1>1. Climbs(D, r, num, up) /\ y \in D /\ z \in D /\ up[z] # NoNode /\ num[y] < num[z]
      /\ NoNode \notin D /\ IsFiniteSet(D) /\ num \in [D -> Nat]
  BY DEF Replaces, Climbs, KnownIn
<1>2. y \notin ChainOf(up, z)
  <2>1. SUFFICES ASSUME y \in ChainOf(up, z)
                 PROVE  FALSE
    OBVIOUS
  <2>2. num[z] <= num[y]
    BY <1>1, <2>1, ChainGrows
  <2>. QED BY <1>1, <2>2
<1>3. ChainOf(up2, z) = ChainOf(up, z)
  BY <1>1, <1>2, ReplaceElsewhere
<1>4. up2 \in [D -> D \cup {NoNode}] /\ up2[y] = z /\ z # NoNode
  BY <1>1, ReplaceClimbs DEF Climbs
<1>5. ChainOf(up2, y) = {y} \cup ChainOf(up2, up2[y])
  BY <1>1, <1>4, ChainStep
<1>. QED
  BY <1>3, <1>4, <1>5

LEMMA ReplaceBelow ==
  ASSUME NEW D, NEW r, NEW num, NEW up, NEW y, NEW z, NEW up2, Replaces(D, r, num, up, y, z, up2),
         NEW p \in KnownIn(D, up), y \in ChainOf(up, p)
  PROVE  ChainOf(up2, p) = {x \in ChainOf(up, p) : y \in ChainOf(up, x)} \cup ChainOf(up, z)
<1>. DEFINE Seg == {x \in ChainOf(up, p) : y \in ChainOf(up, x)}
<1>1. /\ Climbs(D, r, num, up) /\ y \in D /\ z \in D /\ up[z] # NoNode /\ num[y] < num[z]
      /\ NoNode \notin D /\ IsFiniteSet(D) /\ num \in [D -> Nat]
      /\ up \in [D -> D \cup {NoNode}] /\ p \in D /\ up[p] # NoNode
  BY DEF Replaces, Climbs, KnownIn
<1>2. /\ up2 \in [D -> D \cup {NoNode}] /\ up2[y] = z
      /\ \A x \in D \ {y} : up2[x] = up[x]
  BY ReplaceClimbs DEF Climbs
<1>3. ChainOf(up2, y) = {y} \cup ChainOf(up, z)
  BY ReplaceSelf
<1>4. /\ ChainOf(up, p) \in SUBSET D /\ ChainOf(up2, p) \in SUBSET D
      /\ ChainOf(up, z) \in SUBSET D
      /\ p \in ChainOf(up, p) /\ p \in ChainOf(up2, p) /\ z \in ChainOf(up, z)
      /\ \A x \in ChainOf(up, p) : up[x] # NoNode /\ up[x] \in ChainOf(up, p)
  <2>1. \A x \in ChainOf(up, p) : up[x] # NoNode
    BY <1>1, ChainGrows
  <2>. QED BY <1>1, <1>2, <2>1, ChainClosed
<1>5. y \in ChainOf(up, y) /\ y \notin ChainOf(up, z)
  <2>1. y \in ChainOf(up, y)
    BY <1>1, ChainClosed
  <2>2. SUFFICES ASSUME y \in ChainOf(up, z)
                 PROVE  FALSE
    BY <2>1
  <2>3. num[z] <= num[y]
    BY <1>1, <2>2, ChainGrows
  <2>. QED BY <1>1, <2>3
<1>6. \A x \in ChainOf(up, p) : ChainOf(up, x) = {x} \cup ChainOf(up, up[x])
  BY <1>1, <1>4, ChainStep
<1>7. ChainOf(up2, p) \subseteq Seg \cup ChainOf(up, z)
  <2>. DEFINE T == Seg \cup ChainOf(up, z)
  <2>1. T \in SUBSET D /\ p \in T
    BY <1>4
  <2>2. ASSUME NEW x \in T
        PROVE  up2[x] # NoNode => up2[x] \in T
    <3>1. CASE x = y
      BY <1>2, <1>4, <3>1
    <3>2. CASE x # y /\ x \in Seg
      <4>1. up2[x] = up[x] /\ up[x] \in ChainOf(up, p)
        BY <1>2, <1>4, <3>2
      <4>2. y \in ChainOf(up, up[x])
        BY <1>6, <3>2
      <4>. QED BY <4>1, <4>2
    <3>3. CASE x # y /\ x \in ChainOf(up, z)
      <4>1. up2[x] = up[x]
        BY <1>2, <1>4, <3>3
      <4>2. up[x] # NoNode => up[x] \in ChainOf(up, z)
        BY <1>1, <3>3, ChainClosed
      <4>. QED BY <4>1, <4>2
    <3>. QED BY <3>1, <3>2, <3>3
  <2>. HIDE DEF T
  <2>3. ChainOf(up2, p) \subseteq T
    BY <1>1, <1>2, <2>1, <2>2, ChainLeast
  <2>. QED BY <2>3 DEF T
<1>8. Seg \subseteq ChainOf(up2, p)
  <2>. DEFINE T == {x \in ChainOf(up, p) : y \notin ChainOf(up, x) \/ x \in ChainOf(up2, p)}
  <2>1. T \in SUBSET D /\ p \in T
    BY <1>4
  <2>2. ASSUME NEW x \in T
        PROVE  up[x] \in T
    <3>1. up[x] \in ChainOf(up, p)
      BY <1>4
    <3>2. CASE y \notin ChainOf(up, x)
      BY <1>6, <3>1, <3>2
    <3>3. CASE x = y
      <4>1. up[y] \in D /\ up[y] # NoNode /\ y # r
        BY <1>1, <1>4, <3>3 DEF Replaces
      <4>2. num[y] < num[up[y]] /\ up[up[y]] # NoNode
        BY <1>1, <4>1 DEF Climbs
      <4>3. y \notin ChainOf(up, up[y])
        <5>1. SUFFICES ASSUME y \in ChainOf(up, up[y])
                       PROVE  FALSE
          OBVIOUS
        <5>2. num[up[y]] <= num[y]
          BY <1>1, <4>1, <4>2, <5>1, ChainGrows
        <5>. QED BY <1>1, <4>1, <4>2, <5>2
      <4>. QED BY <3>1, <3>3, <4>3
    <3>4. CASE x # y /\ x \in ChainOf(up2, p)
      <4>1. up2[x] = up[x] /\ up[x] # NoNode
        BY <1>2, <1>4, <3>4
      <4>2. up2[x] \in ChainOf(up2, p)
        BY <1>1, <1>2, <3>4, <4>1, ChainClosed
      <4>. QED BY <3>1, <4>1, <4>2
    <3>. QED BY <3>2, <3>3, <3>4
  <2>. HIDE DEF T
  <2>3. ChainOf(up, p) \subseteq T
    BY <1>1, <2>1, <2>2, ChainLeast
  <2>. QED BY <2>3 DEF T
<1>9. ChainOf(up, z) \subseteq ChainOf(up2, p)
  <2>1. y \in ChainOf(up2, p)
    BY <1>5, <1>8
  <2>2. ChainOf(up2, y) \subseteq ChainOf(up2, p)
    BY <1>1, <1>2, <2>1, ChainInside
  <2>. QED BY <1>3, <2>2
<1>. QED
  BY <1>7, <1>8, <1>9

-----------------------------------------------------------------------------
(***************************************************************************)
(* What the input is, once chosen.                                         *)
(***************************************************************************)
LEMMA InputFacts ==
  ASSUME in \in Inputs
  PROVE  /\ in.calls \in [Functions -> SUBSET Functions]
         /\ in.roots \subseteq Measured /\ in.roots # {} /\ in.roots \subseteq Defined
         /\ in.ptrArg \subseteq Functions
         /\ Measured \subseteq Functions
         /\ IsFiniteSet(V)
         /\ VirtualRoot \notin Measured /\ NoNode \notin V
         /\ \A f \in Measured : in.calls[f] \cap Defined \subseteq Measured
         /\ \A T \in SUBSET Measured :
              in.roots \subseteq T /\ (\A f \in T : in.calls[f] \cap Measured \subseteq T)
                => Measured \subseteq T
<1>1. /\ IsFiniteSet(Functions) /\ Defined \subseteq Functions
      /\ VirtualRoot \notin Functions /\ NoNode \notin Functions \cup {VirtualRoot}
      /\ in.calls \in [Functions -> SUBSET Functions]
      /\ \A f \in Functions \ Defined : in.calls[f] = {}
      /\ in.roots \subseteq Defined /\ in.roots # {}
      /\ in.ptrArg \subseteq Functions
  BY InputAssumption
<1>. DEFINE R == Closure(in.calls, in.roots)
<1>2. in.roots \in SUBSET Functions
  BY <1>1
<1>3. /\ R \in SUBSET Functions
      /\ in.roots \subseteq R
      /\ \A x \in R : in.calls[x] \subseteq R
      /\ \A T \in SUBSET Functions :
           in.roots \subseteq T /\ (\A x \in T : in.calls[x] \subseteq T) => R \subseteq T
  BY <1>1, <1>2, ClosureFacts
<1>4. Measured = R \cap Defined
  BY DEF Measured
<1>. HIDE DEF R
<1>5. in.roots \subseteq Measured /\ Measured \subseteq Functions
  BY <1>1, <1>3, <1>4
<1>6. IsFiniteSet(V)
  <2>1. IsFiniteSet(Measured)
    BY <1>1, <1>5, FS_Subset
  <2>. QED BY <2>1, FS_AddElement DEF V
<1>7. VirtualRoot \notin Measured /\ NoNode \notin V
  BY <1>1, <1>5 DEF V
<1>8. \A f \in Measured : in.calls[f] \cap Defined \subseteq Measured
  BY <1>3, <1>4
<1>9. ASSUME NEW T \in SUBSET Measured, in.roots \subseteq T,
             \A f \in T : in.calls[f] \cap Measured \subseteq T
      PROVE  Measured \subseteq T
  <2>. DEFINE U == T \cup (R \ Defined)
  <2>1. U \in SUBSET Functions /\ in.roots \subseteq U
    BY <1>3, <1>5, <1>9
  <2>2. \A x \in U : in.calls[x] \subseteq U
    BY <1>1, <1>3, <1>4, <1>9
  <2>3. R \subseteq U
    <3>. HIDE DEF U
    <3>. QED BY <1>3, <2>1, <2>2
  <2>. QED BY <1>4, <2>3
<1>. QED
  BY <1>1, <1>5, <1>6, <1>7, <1>8, <1>9

(* Taint is what the pointer-taking roots and their pointer-taking callees *)
(* make up.                                                                *)
LEMMA TaintFacts ==
  ASSUME in \in Inputs
  PROVE  /\ Taint \subseteq Measured
         /\ in.roots \cap in.ptrArg \subseteq Taint
         /\ \A f \in Taint : in.calls[f] \cap in.ptrArg \cap Measured \subseteq Taint
         /\ \A T \in SUBSET Measured :
              /\ in.roots \cap in.ptrArg \subseteq T
              /\ \A f \in T : in.calls[f] \cap in.ptrArg \cap Measured \subseteq T
              => Taint \subseteq T
<1>1. /\ IsFiniteSet(Functions) /\ Defined \subseteq Functions
      /\ \A f \in Functions \ Defined : in.calls[f] = {}
  BY InputAssumption
<1>2. /\ in.calls \in [Functions -> SUBSET Functions]
      /\ in.roots \subseteq Measured /\ in.roots \subseteq Defined
      /\ Measured \subseteq Functions
      /\ \A f \in Measured : in.calls[f] \cap Defined \subseteq Measured
      /\ Measured \subseteq Defined
  BY InputFacts DEF Measured
<1>. DEFINE rel == [f \in Functions |-> in.calls[f] \cap in.ptrArg]
            S == in.roots \cap in.ptrArg
            R == Closure(rel, S)
<1>3. rel \in [Functions -> SUBSET Functions] /\ S \in SUBSET Functions
  BY <1>1, <1>2
<1>4. Taint = R \cap Defined
  BY DEF Taint
<1>5. \A f \in Functions : rel[f] = in.calls[f] \cap in.ptrArg
  OBVIOUS
<1>. HIDE DEF rel, S
<1>6. /\ R \in SUBSET Functions
      /\ S \subseteq R
      /\ \A x \in R : rel[x] \subseteq R
      /\ \A T \in SUBSET Functions :
           S \subseteq T /\ (\A x \in T : rel[x] \subseteq T) => R \subseteq T
  BY <1>1, <1>3, ClosureFacts
<1>. HIDE DEF R
<1>7. ASSUME NEW T \in SUBSET Measured, in.roots \cap in.ptrArg \subseteq T,
             \A f \in T : in.calls[f] \cap in.ptrArg \cap Measured \subseteq T
      PROVE  Taint \subseteq T
  <2>. DEFINE U == T \cup (Functions \ Defined)
  <2>1. U \in SUBSET Functions /\ S \subseteq U
    BY <1>1, <1>2, <1>7 DEF S
  <2>2. ASSUME NEW x \in U
        PROVE  rel[x] \subseteq U
    <3>1. CASE x \in T
      <4>1. \A g \in rel[x] : g \in Functions /\ (g \in Defined => g \in Measured)
        BY <1>2, <1>3, <1>5, <3>1
      <4>. QED BY <1>2, <1>5, <1>7, <3>1, <4>1
    <3>2. CASE x \in Functions \ Defined
      BY <1>1, <1>5, <3>2
    <3>. QED BY <3>1, <3>2
  <2>3. R \subseteq U
    <3>. HIDE DEF U
    <3>. QED BY <1>6, <2>1, <2>2
  <2>. QED BY <1>4, <2>3
<1>8. Taint \subseteq Measured
  <2>. DEFINE T == Measured
  <2>1. T \in SUBSET Measured /\ in.roots \cap in.ptrArg \subseteq T
    BY <1>2
  <2>2. \A f \in T : in.calls[f] \cap in.ptrArg \cap Measured \subseteq T
    OBVIOUS
  <2>. HIDE DEF T
  <2>3. Taint \subseteq T
    BY <1>7, <2>1, <2>2
  <2>. QED BY <2>3 DEF T
<1>9. in.roots \cap in.ptrArg \subseteq Taint
  BY <1>2, <1>4, <1>6 DEF S
<1>10. \A f \in Taint : in.calls[f] \cap in.ptrArg \cap Measured \subseteq Taint
  BY <1>1, <1>2, <1>4, <1>5, <1>6
<1>. QED
  BY <1>7, <1>8, <1>9, <1>10

(* The input does not change.                                              *)
LEMMA InputKept ==
  ASSUME [Next]_vars
  PROVE  /\ in' = in
         /\ Measured' = Measured /\ V' = V /\ Taint' = Taint
         /\ \A v : Succ(v)' = Succ(v)
         /\ \A v : Pred(v)' = Pred(v)
<1>1. in' = in
  BY DEF Next, vars, Seed, Pop, Visit, Look, Finish, StartPass, Meet, Assign, Mark
<1>2. Measured' = Measured /\ Taint' = Taint
  BY <1>1 DEF Measured, Taint
<1>3. V' = V
  BY <1>2 DEF V
<1>4. \A v : Succ(v)' = Succ(v)
  BY <1>1, <1>2 DEF Succ
<1>5. \A v : Pred(v)' = Pred(v)
  BY <1>3, <1>4 DEF Pred
<1>. QED
  BY <1>1, <1>2, <1>3, <1>4, <1>5

(***************************************************************************)
(* computeInteresting.                                                     *)
(***************************************************************************)
(* Flag forgets nothing, and what it adds waits.                           *)
LEMMA FlagKeeps ==
  ASSUME ThreadInv, in' = in, NEW f, Flag(f), Qualifies(f) => f \in Taint
  PROVE  /\ work' \in Seq(Measured) /\ interesting' \subseteq Measured
         /\ interesting' \subseteq Taint
         /\ interesting \subseteq interesting'
         /\ f \in Measured \cap in.ptrArg => f \in interesting'
         /\ \A i \in 1 .. Len(work') : work'[i] \in interesting'
         /\ \A g \in interesting' : ~Waiting(g)' => g \in interesting /\ ~Waiting(g)
<1>1. /\ work \in Seq(Measured) /\ interesting \subseteq Measured /\ interesting \subseteq Taint
      /\ \A i \in 1 .. Len(work) : work[i] \in interesting
  BY DEF ThreadInv, ThreadTypes, Threading
<1>2. CASE Qualifies(f)
  <2>1. interesting' = interesting \cup {f} /\ work' = Append(work, f) /\ f \in Measured
    BY <1>2 DEF Flag, Qualifies
  <2>2. /\ work' \in Seq(Measured) /\ Len(work') = Len(work) + 1 /\ work'[Len(work) + 1] = f
        /\ \A i \in 1 .. Len(work) : work'[i] = work[i]
        /\ Len(work) \in Nat
    BY <1>1, <2>1
  <2>3. \A i \in 1 .. Len(work') : i \in 1 .. Len(work) \/ i = Len(work) + 1
    BY <2>2
  <2>4. \A i \in 1 .. Len(work') : work'[i] \in interesting'
    BY <1>1, <2>1, <2>2, <2>3
  <2>5. ASSUME NEW g \in interesting', ~Waiting(g)'
        PROVE  g \in interesting /\ ~Waiting(g)
    <3>1. ~ \E i \in 1 .. Len(work') : work'[i] = g
      BY <2>5 DEF Waiting
    <3>2. Len(work) + 1 \in 1 .. Len(work')
      BY <2>2
    <3>3. \A i \in 1 .. Len(work) : i \in 1 .. Len(work')
      BY <2>2
    <3>4. g # f
      BY <2>2, <3>1, <3>2
    <3>5. ~Waiting(g)
      BY <2>2, <3>1, <3>3 DEF Waiting
    <3>. QED BY <2>1, <2>5, <3>4, <3>5
  <2>. QED BY <1>1, <1>2, <2>1, <2>2, <2>4, <2>5
<1>3. CASE ~Qualifies(f)
  <2>1. interesting' = interesting /\ work' = work
    BY <1>3 DEF Flag
  <2>2. f \in Measured \cap in.ptrArg => f \in interesting
    BY <1>3 DEF Qualifies
  <2>. QED BY <1>1, <2>1, <2>2 DEF Waiting
<1>. QED
  BY <1>2, <1>3

LEMMA SeedKeeps ==
  ASSUME ThreadInv, Seed, in' = in, Measured' = Measured, Taint' = Taint
  PROVE  ThreadTypes' /\ Threading'
<1>1. PICK f \in seeds : Flag(f) /\ seeds' = seeds \ {f} /\ pending' = pending
  BY DEF Seed
<1>2. /\ seeds \subseteq in.roots /\ pending \subseteq Functions
      /\ (in.roots \cap in.ptrArg) \ seeds \subseteq interesting
      /\ \A g \in interesting : ~Waiting(g) =>
           in.calls[g] \cap Measured \cap in.ptrArg \subseteq interesting \cup pending
      /\ \A g \in pending : \E h \in interesting : g \in in.calls[h]
  BY DEF ThreadInv, ThreadTypes, Threading
<1>3. in.roots \subseteq Measured /\ in.roots \cap in.ptrArg \subseteq Taint
  BY InputFacts, TaintFacts DEF ThreadInv
<1>4. Qualifies(f) => f \in Taint
  BY <1>1, <1>2, <1>3 DEF Qualifies
<1>5. /\ work' \in Seq(Measured) /\ interesting' \subseteq Measured
      /\ interesting' \subseteq Taint
      /\ interesting \subseteq interesting'
      /\ f \in Measured \cap in.ptrArg => f \in interesting'
      /\ \A i \in 1 .. Len(work') : work'[i] \in interesting'
      /\ \A g \in interesting' : ~Waiting(g)' => g \in interesting /\ ~Waiting(g)
  BY <1>1, <1>4, FlagKeeps
<1>6. (in.roots \cap in.ptrArg) \ seeds' \subseteq interesting'
  BY <1>1, <1>2, <1>3, <1>5
<1>7. \A g \in interesting' : ~Waiting(g)' =>
        in.calls[g] \cap Measured \cap in.ptrArg \subseteq interesting' \cup pending'
  BY <1>1, <1>2, <1>5
<1>8. \A g \in pending' : \E h \in interesting' : g \in in.calls[h]
  BY <1>1, <1>2, <1>5
<1>. QED
  BY <1>1, <1>2, <1>5, <1>6, <1>7, <1>8 DEF ThreadTypes, Threading

LEMMA PopKeeps ==
  ASSUME ThreadInv, Pop, in' = in, Measured' = Measured, Taint' = Taint
  PROVE  ThreadTypes' /\ Threading'
<1>1. /\ seeds = {} /\ pending = {} /\ work # <<>>
      /\ pending' = in.calls[Head(work)] /\ work' = Tail(work)
      /\ seeds' = seeds /\ interesting' = interesting
  BY DEF Pop
<1>2. /\ work \in Seq(Measured) /\ interesting \subseteq Measured /\ interesting \subseteq Taint
      /\ (in.roots \cap in.ptrArg) \ seeds \subseteq interesting
      /\ \A i \in 1 .. Len(work) : work[i] \in interesting
      /\ \A g \in interesting : ~Waiting(g) =>
           in.calls[g] \cap Measured \cap in.ptrArg \subseteq interesting
  BY <1>1 DEF ThreadInv, ThreadTypes, Threading
<1>3. /\ Len(work) \in Nat /\ Len(work) >= 1 /\ Head(work) = work[1]
      /\ work' \in Seq(Measured) /\ Len(work') = Len(work) - 1
      /\ \A i \in 1 .. Len(work') : work'[i] = work[i + 1]
  BY <1>1, <1>2
<1>4. Head(work) \in interesting
  BY <1>2, <1>3
<1>5. in.calls \in [Functions -> SUBSET Functions] /\ Measured \subseteq Functions
  BY InputFacts DEF ThreadInv
<1>6. pending' \subseteq Functions
  BY <1>1, <1>2, <1>4, <1>5
<1>7. \A i \in 1 .. Len(work') : work'[i] \in interesting'
  <2>1. \A i \in 1 .. Len(work') : i + 1 \in 1 .. Len(work)
    BY <1>3
  <2>. QED BY <1>1, <1>2, <1>3, <2>1
<1>8. ASSUME NEW g \in interesting', ~Waiting(g)'
      PROVE  in.calls[g] \cap Measured \cap in.ptrArg \subseteq interesting' \cup pending'
  <2>1. CASE g = Head(work)
    BY <1>1, <2>1
  <2>2. CASE g # Head(work)
    <3>1. ASSUME NEW i \in 1 .. Len(work)
          PROVE  work[i] # g
      <4>1. CASE i = 1
        BY <1>3, <2>2, <4>1
      <4>2. CASE i # 1
        <5>1. i - 1 \in 1 .. Len(work') /\ (i - 1) + 1 = i
          BY <1>3, <4>2
        <5>2. work'[i - 1] = work[i]
          BY <1>3, <5>1
        <5>. QED BY <1>8, <5>1, <5>2 DEF Waiting
      <4>. QED BY <4>1, <4>2
    <3>2. ~Waiting(g)
      BY <3>1 DEF Waiting
    <3>. QED BY <1>1, <1>2, <1>8, <3>2
  <2>. QED BY <2>1, <2>2
<1>9. \A g \in pending' : \E h \in interesting' : g \in in.calls[h]
  BY <1>1, <1>4
<1>. QED
  BY <1>1, <1>2, <1>3, <1>6, <1>7, <1>8, <1>9 DEF ThreadTypes, Threading

LEMMA VisitKeeps ==
  ASSUME ThreadInv, Visit, in' = in, Measured' = Measured, Taint' = Taint
  PROVE  ThreadTypes' /\ Threading'
<1>1. PICK f \in pending : Flag(f) /\ pending' = pending \ {f} /\ seeds' = seeds
  BY DEF Visit
<1>2. /\ seeds \subseteq in.roots /\ pending \subseteq Functions
      /\ interesting \subseteq Taint
      /\ (in.roots \cap in.ptrArg) \ seeds \subseteq interesting
      /\ \A g \in interesting : ~Waiting(g) =>
           in.calls[g] \cap Measured \cap in.ptrArg \subseteq interesting \cup pending
      /\ \A g \in pending : \E h \in interesting : g \in in.calls[h]
  BY DEF ThreadInv, ThreadTypes, Threading
<1>3. \A h \in Taint : in.calls[h] \cap in.ptrArg \cap Measured \subseteq Taint
  BY TaintFacts DEF ThreadInv
<1>4. Qualifies(f) => f \in Taint
  BY <1>1, <1>2, <1>3 DEF Qualifies
<1>5. /\ work' \in Seq(Measured) /\ interesting' \subseteq Measured
      /\ interesting' \subseteq Taint
      /\ interesting \subseteq interesting'
      /\ f \in Measured \cap in.ptrArg => f \in interesting'
      /\ \A i \in 1 .. Len(work') : work'[i] \in interesting'
      /\ \A g \in interesting' : ~Waiting(g)' => g \in interesting /\ ~Waiting(g)
  BY <1>1, <1>4, FlagKeeps
<1>6. \A g \in interesting' : ~Waiting(g)' =>
        in.calls[g] \cap Measured \cap in.ptrArg \subseteq interesting' \cup pending'
  BY <1>1, <1>2, <1>5
<1>7. \A g \in pending' : \E h \in interesting' : g \in in.calls[h]
  BY <1>1, <1>2, <1>5
<1>. QED
  BY <1>1, <1>2, <1>5, <1>6, <1>7 DEF ThreadTypes, Threading

LEMMA ThreadNext ==
  ASSUME ThreadInv, [Next]_vars
  PROVE  ThreadInv'
<1>1. in' = in /\ Measured' = Measured /\ Taint' = Taint
  BY InputKept
<1>2. ASSUME threading' = threading
      PROVE  ThreadTypes' /\ Threading'
  <2>1. seeds' = seeds /\ work' = work /\ pending' = pending /\ interesting' = interesting
    BY <1>2 DEF threading
  <2>. QED BY <1>1, <2>1 DEF ThreadInv, ThreadTypes, Threading, Waiting
<1>3. ThreadTypes' /\ Threading'
  <2>1. CASE Seed
    BY <1>1, <2>1, SeedKeeps
  <2>2. CASE Pop
    BY <1>1, <2>2, PopKeeps
  <2>3. CASE Visit
    BY <1>1, <2>3, VisitKeeps
  <2>4. CASE Look \/ Finish \/ StartPass \/ Meet \/ Assign \/ Mark \/ UNCHANGED vars
    BY <1>2, <2>4 DEF Look, Finish, StartPass, Meet, Assign, Mark, vars
  <2>. QED BY <2>1, <2>2, <2>3, <2>4 DEF Next
<1>. QED
  BY <1>1, <1>3 DEF ThreadInv

LEMMA ThreadInit ==
  ASSUME Init
  PROVE  ThreadInv
BY DEF Init, ThreadInv, ThreadTypes, Threading, Waiting

(* When nothing is left to look at, the flagged functions are closed under *)
(* pointer-taking calls.                                                   *)
LEMMA ThreadedIsExact ==
  ASSUME ThreadInv
  PROVE  InterestingExact
<1>1. SUFFICES ASSUME Threaded
               PROVE  interesting = Taint
  BY DEF InterestingExact
<1>2. seeds = {} /\ pending = {} /\ work = <<>>
  BY <1>1 DEF Threaded
<1>3. \A g : ~Waiting(g)
  BY <1>2 DEF Waiting
<1>4. /\ interesting \in SUBSET Measured /\ interesting \subseteq Taint
      /\ in.roots \cap in.ptrArg \subseteq interesting
      /\ \A f \in interesting : in.calls[f] \cap in.ptrArg \cap Measured \subseteq interesting
  BY <1>2, <1>3 DEF ThreadInv, ThreadTypes, Threading
<1>. QED
  BY <1>4, TaintFacts DEF ThreadInv

LEMMA ThreadHolds == Spec => []ThreadInv
<1>. QED
  BY ThreadInit, ThreadNext, PTL DEF Spec

(***************************************************************************)
(* computeInteresting flags exactly the functions at the end of an         *)
(* unbroken chain of pointer-taking functions from some root, in whatever  *)
(* order it takes roots and callees.                                       *)
(***************************************************************************)
THEOREM InterestingIsExact == Spec => []InterestingExact
BY ThreadHolds, ThreadedIsExact, PTL

(***************************************************************************)
(* The depth-first search.                                                 *)
(***************************************************************************)
LEMMA SuccFacts ==
  ASSUME in \in Inputs
  PROVE  /\ \A v \in V : Succ(v) \subseteq Measured /\ v \notin Succ(v)
         /\ Succ(VirtualRoot) = in.roots /\ Succ(VirtualRoot) # {}
         /\ \A v \in V : Pred(v) \subseteq V /\ v \notin Pred(v)
         /\ \A v, w \in V : w \in Succ(v) <=> v \in Pred(w)
<1>1. in.roots \subseteq Measured /\ in.roots # {} /\ VirtualRoot \notin Measured
  BY InputFacts
<1>2. \A v \in V : Succ(v) \subseteq Measured /\ v \notin Succ(v)
  BY <1>1 DEF Succ, V
<1>. QED
  BY <1>1, <1>2 DEF Pred, Succ

LEMMA BelowFacts ==
  ASSUME stack \in Seq(Frame), stack # <<>>
  PROVE  /\ Len(stack) \in Nat /\ Len(stack) >= 1
         /\ Below \in Seq(Frame) /\ Len(Below) = Len(stack) - 1
         /\ \A i \in 1 .. Len(stack) - 1 : Below[i] = stack[i]
         /\ Top = stack[Len(stack)] /\ Top \in Frame
         /\ \A i \in 1 .. Len(stack) : stack[i] \in Frame /\ stack[i].node \in V /\ stack[i].left \subseteq V
<1>1. Len(stack) \in Nat /\ Len(stack) >= 1
  OBVIOUS
<1>2. \A i \in 1 .. Len(stack) : stack[i] \in Frame /\ stack[i].node \in V /\ stack[i].left \subseteq V
  <2>1. \A i \in 1 .. Len(stack) : stack[i] \in Frame
    OBVIOUS
  <2>2. \A fr \in Frame : fr.node \in V /\ fr.left \subseteq V
    BY DEF Frame
  <2>. QED BY <2>1, <2>2
<1>3. Len(stack) - 1 \in 0 .. Len(stack)
  BY <1>1
<1>4. /\ Below \in Seq(Frame) /\ Len(Below) = Len(stack) - 1
      /\ \A i \in 1 .. Len(stack) - 1 : Below[i] = stack[i]
  BY <1>3, Prefix DEF Below
<1>. QED
  BY <1>1, <1>2, <1>4 DEF Top

(* The effect of Look: the top frame loses w, which is visited.            *)
Looked(w, n) ==
  /\ w \in stack[n].left
  /\ stack' \in Seq(Frame)
  /\ Len(stack') = IF w \in visited THEN n ELSE n + 1
  /\ \A i \in 1 .. n : stack'[i].node = stack[i].node
  /\ \A i \in 1 .. n - 1 : stack'[i].left = stack[i].left
  /\ stack'[n].left = stack[n].left \ {w}
  /\ w \notin visited => stack'[n + 1].node = w /\ stack'[n + 1].left = Succ(w)
  /\ visited' = visited \cup {w}
  /\ order' = order

LEMMA LookLooks ==
  ASSUME SearchInv, Look, stack # <<>>
  PROVE  \E w \in V : Looked(w, Len(stack))
<1>1. stack \in Seq(Frame)
  BY DEF SearchInv, SearchTypes
<1>. DEFINE n == Len(stack)
<1>2. /\ n \in Nat /\ n >= 1 /\ Below \in Seq(Frame) /\ Len(Below) = n - 1
      /\ \A i \in 1 .. n - 1 : Below[i] = stack[i]
      /\ Top = stack[n] /\ Top \in Frame
      /\ \A i \in 1 .. n : stack[i] \in Frame /\ stack[i].node \in V /\ stack[i].left \subseteq V
  BY <1>1, BelowFacts
<1>. DEFINE rest(w) == Append(Below, [Top EXCEPT !.left = @ \ {w}])
<1>3. PICK w \in Top.left :
        /\ stack' = IF w \in visited THEN rest(w)
                    ELSE Append(rest(w), [node |-> w, left |-> Succ(w)])
        /\ visited' = visited \cup {w} /\ order' = order
  BY DEF Look
<1>4. w \in V /\ w \in stack[n].left
  BY <1>2, <1>3
<1>. DEFINE fr == [Top EXCEPT !.left = @ \ {w}]
<1>5. fr \in Frame /\ fr.node = stack[n].node /\ fr.left = stack[n].left \ {w}
  BY <1>2 DEF Frame
<1>. HIDE DEF fr
<1>6. /\ rest(w) \in Seq(Frame) /\ Len(rest(w)) = n
      /\ \A i \in 1 .. n - 1 : rest(w)[i] = stack[i]
      /\ rest(w)[n] = fr
  <2>1. rest(w) = Append(Below, fr)
    BY DEF fr
  <2>. HIDE DEF rest
  <2>. QED BY <1>2, <1>5, <2>1
<1>7. [node |-> w, left |-> Succ(w)] \in Frame
  <2>1. Succ(w) \subseteq V
    BY <1>4, SuccFacts DEF SearchInv, V
  <2>. QED BY <1>4, <2>1 DEF Frame
<1>. DEFINE new == [node |-> w, left |-> Succ(w)]
<1>8. new.node = w /\ new.left = Succ(w) /\ new \in Frame
  BY <1>7
<1>. HIDE DEF new, rest, n
<1>9. CASE w \in visited
  <2>1. stack' = rest(w)
    BY <1>3, <1>9
  <2>2. \A i \in 1 .. n : stack'[i].node = stack[i].node
    <3>1. \A i \in 1 .. n : i \in 1 .. n - 1 \/ i = n
      BY <1>2
    <3>. QED BY <1>5, <1>6, <2>1, <3>1
  <2>3. stack' \in Seq(Frame) /\ Len(stack') = n /\ stack'[n].left = stack[n].left \ {w}
    BY <1>5, <1>6, <2>1
  <2>4. \A i \in 1 .. n - 1 : stack'[i].left = stack[i].left
    BY <1>6, <2>1
  <2>5. Looked(w, n)
    BY <1>3, <1>4, <1>9, <2>2, <2>3, <2>4 DEF Looked
  <2>. QED BY <1>4, <2>5 DEF n
<1>10. CASE w \notin visited
  <2>1. stack' = Append(rest(w), new)
    BY <1>3, <1>10 DEF new
  <2>2. /\ stack' \in Seq(Frame) /\ Len(stack') = n + 1 /\ stack'[n + 1] = new
        /\ \A i \in 1 .. n : stack'[i] = rest(w)[i]
    BY <1>2, <1>6, <1>8, <2>1
  <2>3. \A i \in 1 .. n : stack'[i].node = stack[i].node
    <3>1. \A i \in 1 .. n : i \in 1 .. n - 1 \/ i = n
      BY <1>2
    <3>. QED BY <1>5, <1>6, <2>2, <3>1
  <2>4. stack'[n].left = stack[n].left \ {w}
    BY <1>2, <1>5, <1>6, <2>2
  <2>5. \A i \in 1 .. n - 1 : stack'[i].left = stack[i].left
    BY <1>2, <1>6, <2>2
  <2>6. Looked(w, n)
    BY <1>3, <1>4, <1>8, <1>10, <2>2, <2>3, <2>4, <2>5 DEF Looked
  <2>. QED BY <1>4, <2>6 DEF n
<1>. QED
  BY <1>9, <1>10

(* The frames of a search in progress, as facts about positions.           *)
LEMMA SearchFacts ==
  ASSUME SearchInv
  PROVE  /\ visited \subseteq V
         /\ \A v : v \in visited <=> v \in Open \/ v \in Finished
         /\ \A v : ~(v \in Open /\ v \in Finished)
         /\ \A v : v \in Open <=> \E i \in 1 .. Len(stack) : stack[i].node = v
         /\ \A v : v \in Finished <=> \E k \in 1 .. Len(order) : order[k] = v
         /\ Len(order) \in Nat /\ \A k \in 1 .. Len(order) : order[k] \in V
<1>1. /\ \A v : v \in Open <=> \E i \in 1 .. Len(stack) : stack[i].node = v
      /\ \A v : v \in Finished <=> \E k \in 1 .. Len(order) : order[k] = v
  BY DEF Open, Finished
<1>2. /\ visited = Open \cup Finished /\ Open \cap Finished = {} /\ visited \subseteq V
      /\ order \in Seq(V)
  BY DEF SearchInv, SearchTypes, Searching
<1>3. Len(order) \in Nat /\ \A k \in 1 .. Len(order) : order[k] \in V
  BY <1>2
<1>. QED
  BY <1>1, <1>2, <1>3

LEMMA LookKeeps ==
  ASSUME SearchInv, Look, stack # <<>>, in' = in, V' = V, \A v : Succ(v)' = Succ(v),
         \A v : Pred(v)' = Pred(v)
  PROVE  SearchTypes' /\ Searching'
<1>. DEFINE n == Len(stack)
<1>1. PICK w \in V : Looked(w, n)
  BY LookLooks
<1>2. /\ n \in Nat /\ n >= 1
      /\ \A i \in 1 .. n : stack[i].node \in V /\ stack[i].left \subseteq V
  BY BelowFacts DEF SearchInv, SearchTypes
<1>3. /\ w \in stack[n].left /\ stack' \in Seq(Frame)
      /\ Len(stack') = IF w \in visited THEN n ELSE n + 1
      /\ \A i \in 1 .. n : stack'[i].node = stack[i].node
      /\ \A i \in 1 .. n - 1 : stack'[i].left = stack[i].left
      /\ stack'[n].left = stack[n].left \ {w}
      /\ w \notin visited => stack'[n + 1].node = w /\ stack'[n + 1].left = Succ(w)
      /\ visited' = visited \cup {w}
      /\ order' = order
  BY <1>1 DEF Looked
<1>. HIDE DEF n
<1>4. /\ visited \subseteq V
      /\ \A v : v \in visited <=> v \in Open \/ v \in Finished
      /\ \A v : ~(v \in Open /\ v \in Finished)
      /\ \A v : v \in Open <=> \E i \in 1 .. n : stack[i].node = v
      /\ Len(order) \in Nat
  BY SearchFacts DEF n
<1>5. \A i \in 1 .. Len(stack') : i \in 1 .. n \/ (w \notin visited /\ i = n + 1 /\ stack'[i].node = w)
  BY <1>2, <1>3
<1>6. \A i \in 1 .. n : i \in 1 .. Len(stack')
  BY <1>2, <1>3
<1>7. \A v : v \in Open' <=> v \in Open \/ (v = w /\ w \notin visited)
  <2>1. \A v : v \in Open' <=> \E i \in 1 .. Len(stack') : stack'[i].node = v
    BY DEF Open
  <2>2. w \notin visited => n + 1 \in 1 .. Len(stack') /\ stack'[n + 1].node = w
    BY <1>2, <1>3
  <2>. QED BY <1>3, <1>4, <1>5, <1>6, <2>1, <2>2
<1>8. Finished' = Finished
  BY <1>3 DEF Finished
<1>9. SearchTypes'
  <2>1. Frame' = Frame
    BY DEF Frame
  <2>. QED BY <1>3, <1>4, <2>1 DEF SearchInv, SearchTypes
<1>10. visited' = Open' \cup Finished' /\ Open' \cap Finished' = {}
  BY <1>3, <1>4, <1>7, <1>8
<1>11. \A i, j \in 1 .. Len(stack') : stack'[i].node = stack'[j].node => i = j
  <2>1. \A i, j \in 1 .. n : stack[i].node = stack[j].node => i = j
    BY DEF SearchInv, Searching, n
  <2>2. \A i \in 1 .. n : w \notin visited => stack'[i].node # w
    BY <1>3, <1>4
  <2>. QED BY <1>3, <1>5, <2>1, <2>2
<1>12. stack'[1].node = VirtualRoot /\ stack' # <<>>
  <2>1. stack[1].node = VirtualRoot
    BY DEF SearchInv, Searching
  <2>2. 1 \in 1 .. n /\ Len(stack') >= 1
    BY <1>2, <1>3
  <2>. QED BY <1>3, <2>1, <2>2
<1>13. \A i \in 1 .. Len(stack') - 1 : stack'[i + 1].node \in Succ(stack'[i].node)
  <2>1. ASSUME NEW i \in 1 .. Len(stack') - 1
        PROVE  stack'[i + 1].node \in Succ(stack'[i].node)
    <3>1. CASE i \in 1 .. n - 1
      <4>1. stack[i + 1].node \in Succ(stack[i].node)
        BY <3>1 DEF SearchInv, Searching, n
      <4>2. i \in 1 .. n /\ i + 1 \in 1 .. n
        BY <1>2, <3>1
      <4>. QED BY <1>3, <4>1, <4>2
    <3>2. CASE i = n /\ w \notin visited
      <4>1. stack[n].left \subseteq Succ(stack[n].node) /\ n \in 1 .. n
        BY <1>2 DEF SearchInv, Searching, n
      <4>. QED BY <1>3, <3>2, <4>1
    <3>3. i \in 1 .. n - 1 \/ (i = n /\ w \notin visited)
      BY <1>2, <1>3
    <3>. QED BY <3>1, <3>2, <3>3
  <2>. QED BY <2>1
<1>14. ASSUME NEW i \in 1 .. Len(stack')
       PROVE  /\ stack'[i].left \subseteq Succ(stack'[i].node)
              /\ Succ(stack'[i].node) \ stack'[i].left \subseteq visited'
  <2>1. CASE i \in 1 .. n
    <3>1. /\ stack[i].left \subseteq Succ(stack[i].node)
          /\ Succ(stack[i].node) \ stack[i].left \subseteq visited
      BY <2>1 DEF SearchInv, Searching, n
    <3>2. CASE i = n
      BY <1>2, <1>3, <3>1, <3>2
    <3>3. CASE i # n
      <4>1. i \in 1 .. n - 1
        BY <1>2, <2>1, <3>3
      <4>. QED BY <1>3, <2>1, <3>1, <4>1
    <3>. QED BY <3>2, <3>3
  <2>2. CASE i = n + 1 /\ w \notin visited
    BY <1>3, <2>2
  <2>. QED BY <1>5, <2>1, <2>2
<1>15. \A v \in Finished' : Succ(v) \subseteq visited'
  BY <1>3, <1>8 DEF SearchInv, Searching
<1>16. ASSUME NEW k \in 1 .. Len(order), order[k] # VirtualRoot
       PROVE  \E p \in Pred(order[k]) : Later(p, k)'
  <2>1. PICK p \in Pred(order[k]) : Later(p, k)
    BY <1>16 DEF SearchInv, Searching
  <2>2. Later(p, k)'
    BY <1>3, <1>7, <2>1 DEF Later
  <2>. QED BY <2>2
<1>17. \A k, m \in 1 .. Len(order) : order[k] = order[m] => k = m
  BY DEF SearchInv, Searching
<1>18. Searching'
  BY <1>3, <1>10, <1>11, <1>12, <1>13, <1>14, <1>15, <1>16, <1>17 DEF Searching
<1>. QED
  BY <1>9, <1>18

LEMMA FinishKeeps ==
  ASSUME SearchInv, Finish, stack # <<>>, in' = in, V' = V, \A v : Succ(v)' = Succ(v),
         \A v : Pred(v)' = Pred(v)
  PROVE  SearchTypes' /\ Searching'
<1>. DEFINE n == Len(stack)
            N == Len(order)
            t == stack[n].node
<1>1. /\ n \in Nat /\ n >= 1 /\ Below \in Seq(Frame) /\ Len(Below) = n - 1
      /\ \A i \in 1 .. n - 1 : Below[i] = stack[i]
      /\ Top = stack[n]
      /\ \A i \in 1 .. n : stack[i].node \in V /\ stack[i].left \subseteq V
  BY BelowFacts DEF SearchInv, SearchTypes
<1>2. /\ visited \subseteq V
      /\ \A v : v \in visited <=> v \in Open \/ v \in Finished
      /\ \A v : ~(v \in Open /\ v \in Finished)
      /\ \A v : v \in Open <=> \E i \in 1 .. n : stack[i].node = v
      /\ \A v : v \in Finished <=> \E k \in 1 .. N : order[k] = v
      /\ N \in Nat /\ \A k \in 1 .. N : order[k] \in V
  BY SearchFacts
<1>3. /\ stack[n].left = {} /\ order' = Append(order, t) /\ stack' = Below /\ visited' = visited
  BY <1>1 DEF Finish
<1>4. t \in V /\ order \in Seq(V) /\ n \in 1 .. n
  BY <1>1 DEF SearchInv, SearchTypes
<1>5. /\ order' \in Seq(V) /\ Len(order') = N + 1 /\ order'[N + 1] = t
      /\ \A k \in 1 .. N : order'[k] = order[k]
  <2>. HIDE DEF t
  <2>. QED BY <1>3, <1>4
<1>6. stack' \in Seq(Frame) /\ Len(stack') = n - 1 /\ \A i \in 1 .. n - 1 : stack'[i] = stack[i]
  BY <1>1, <1>3
<1>7. \A i \in 1 .. n : i \in 1 .. n - 1 \/ i = n
  BY <1>1
<1>8. \A k \in 1 .. N + 1 : k \in 1 .. N \/ k = N + 1
  BY <1>2
<1>9. \A i, j \in 1 .. n : stack[i].node = stack[j].node => i = j
  BY DEF SearchInv, Searching
<1>. HIDE DEF n, N, t
<1>10. SearchTypes'
  <2>1. Frame' = Frame
    BY DEF Frame
  <2>. QED BY <1>2, <1>3, <1>5, <1>6, <2>1 DEF SearchTypes
<1>11. \A v : v \in Open' <=> v \in Open /\ v # t
  <2>1. \A v : v \in Open' <=> \E i \in 1 .. n - 1 : stack[i].node = v
    <3>1. \A v : v \in Open' <=> \E i \in 1 .. Len(stack') : stack'[i].node = v
      BY DEF Open
    <3>. QED BY <1>6, <3>1
  <2>2. \A i \in 1 .. n - 1 : i \in 1 .. n /\ i # n
    BY <1>1
  <2>3. \A i \in 1 .. n - 1 : stack[i].node # t
    BY <1>4, <1>9, <2>2 DEF t
  <2>. QED BY <1>2, <1>7, <2>1, <2>2, <2>3 DEF t
<1>12. \A v : v \in Finished' <=> v \in Finished \/ v = t
  <2>1. \A v : v \in Finished' <=> \E k \in 1 .. N + 1 : order'[k] = v
    <3>1. \A v : v \in Finished' <=> \E k \in 1 .. Len(order') : order'[k] = v
      BY DEF Finished
    <3>. QED BY <1>5, <3>1
  <2>2. N + 1 \in 1 .. N + 1 /\ \A k \in 1 .. N : k \in 1 .. N + 1
    BY <1>2
  <2>. QED BY <1>2, <1>5, <1>8, <2>1, <2>2
<1>13. t \in Open
  BY <1>2, <1>4 DEF t
<1>14. visited' = Open' \cup Finished' /\ Open' \cap Finished' = {}
  BY <1>2, <1>3, <1>11, <1>12, <1>13
<1>15. \A i, j \in 1 .. Len(stack') : stack'[i].node = stack'[j].node => i = j
  <2>1. \A i \in 1 .. n - 1 : i \in 1 .. n
    BY <1>1
  <2>. QED BY <1>6, <1>9, <2>1
<1>16. \A k, m \in 1 .. Len(order') : order'[k] = order'[m] => k = m
  <2>1. \A k, m \in 1 .. N : order[k] = order[m] => k = m
    BY DEF SearchInv, Searching, N
  <2>2. \A k \in 1 .. N : order[k] # t
    BY <1>2, <1>13
  <2>. QED BY <1>5, <1>8, <2>1, <2>2
<1>17. stack[1].node = VirtualRoot
  BY DEF SearchInv, Searching
<1>18. stack' # <<>> => stack'[1].node = VirtualRoot
  <2>1. stack' # <<>> => Len(stack') >= 1
    BY <1>6
  <2>. QED BY <1>1, <1>6, <1>17, <2>1
<1>19. stack' = <<>> => Len(order') > 1 /\ order'[Len(order')] = VirtualRoot
  <2>1. SUFFICES ASSUME stack' = <<>>
                 PROVE  Len(order') > 1 /\ order'[Len(order')] = VirtualRoot
    OBVIOUS
  <2>2. n = 1
    BY <1>1, <1>6, <2>1
  <2>3. t = VirtualRoot
    BY <1>17, <2>2 DEF t
  <2>4. PICK v : v \in Succ(VirtualRoot)
    BY SuccFacts DEF SearchInv
  <2>5. v \in visited /\ v # VirtualRoot
    <3>1. Succ(stack[n].node) \ stack[n].left \subseteq visited
      BY <1>4 DEF SearchInv, Searching, n
    <3>2. v # VirtualRoot
      BY <2>4, SuccFacts DEF SearchInv, V
    <3>. QED BY <1>3, <2>3, <2>4, <3>1, <3>2 DEF t
  <2>6. v \notin Open
    BY <1>2, <1>7, <2>2, <2>3, <2>5 DEF t
  <2>7. PICK k \in 1 .. N : order[k] = v
    BY <1>2, <2>5, <2>6
  <2>8. N >= 1
    BY <1>2, <2>7
  <2>. QED BY <1>2, <1>5, <2>3, <2>8
<1>20. \A i \in 1 .. Len(stack') - 1 : stack'[i + 1].node \in Succ(stack'[i].node)
  <2>1. ASSUME NEW i \in 1 .. Len(stack') - 1
        PROVE  stack'[i + 1].node \in Succ(stack'[i].node)
    <3>1. i \in 1 .. n - 1 /\ i + 1 \in 1 .. n - 1
      BY <1>1, <1>6
    <3>2. stack[i + 1].node \in Succ(stack[i].node)
      BY <3>1 DEF SearchInv, Searching, n
    <3>. QED BY <1>6, <3>1, <3>2
  <2>. QED BY <2>1
<1>21. ASSUME NEW i \in 1 .. Len(stack')
       PROVE  /\ stack'[i].left \subseteq Succ(stack'[i].node)
              /\ Succ(stack'[i].node) \ stack'[i].left \subseteq visited'
  <2>1. i \in 1 .. n - 1 /\ i \in 1 .. n
    BY <1>1, <1>6
  <2>2. /\ stack[i].left \subseteq Succ(stack[i].node)
        /\ Succ(stack[i].node) \ stack[i].left \subseteq visited
    BY <2>1 DEF SearchInv, Searching, n
  <2>. QED BY <1>3, <1>6, <2>1, <2>2
<1>22. \A v \in Finished' : Succ(v) \subseteq visited'
  <2>1. Succ(stack[n].node) \ stack[n].left \subseteq visited
    BY <1>4 DEF SearchInv, Searching, n
  <2>2. \A v \in Finished : Succ(v) \subseteq visited
    BY DEF SearchInv, Searching
  <2>. QED BY <1>3, <1>12, <2>1, <2>2 DEF t
<1>23. ASSUME NEW k \in 1 .. Len(order'), order'[k] # VirtualRoot
       PROVE  \E p \in Pred(order'[k]) : Later(p, k)'
  <2>1. CASE k \in 1 .. N
    <3>1. PICK p \in Pred(order[k]) : Later(p, k)
      BY <1>5, <1>23, <2>1 DEF SearchInv, Searching, N
    <3>2. CASE p \in Open /\ p # t
      <4>1. Later(p, k)'
        BY <1>11, <3>2 DEF Later
      <4>. QED BY <1>5, <2>1, <3>1, <4>1
    <3>3. CASE p = t
      <4>1. N + 1 \in k + 1 .. Len(order')
        BY <1>2, <1>5, <2>1
      <4>2. Later(p, k)'
        BY <1>5, <3>3, <4>1 DEF Later
      <4>. QED BY <1>5, <2>1, <3>1, <4>2
    <3>4. CASE \E m \in k + 1 .. N : order[m] = p
      <4>1. PICK m \in k + 1 .. N : order[m] = p
        BY <3>4
      <4>2. m \in k + 1 .. Len(order') /\ m \in 1 .. N
        BY <1>2, <1>5, <2>1
      <4>3. Later(p, k)'
        BY <1>5, <4>1, <4>2 DEF Later
      <4>. QED BY <1>5, <2>1, <3>1, <4>3
    <3>. QED BY <3>1, <3>2, <3>3, <3>4 DEF Later, N
  <2>2. CASE k = N + 1
    <3>1. n # 1
      BY <1>5, <1>17, <1>23, <2>2 DEF t
    <3>2. n - 1 \in 1 .. n - 1 /\ n - 1 \in 1 .. n /\ (n - 1) + 1 = n
      BY <1>1, <3>1
    <3>3. stack[(n - 1) + 1].node \in Succ(stack[n - 1].node)
      BY <3>2 DEF SearchInv, Searching, n
    <3>4. PICK p \in V : p = stack[n - 1].node
      BY <1>1, <3>2
    <3>5. p \in Pred(t)
      BY <1>1, <3>2, <3>3, <3>4 DEF Pred, t
    <3>6. p \in Open'
      BY <1>2, <1>4, <1>9, <1>11, <3>2, <3>4 DEF t
    <3>7. Later(p, k)'
      BY <3>6 DEF Later
    <3>. QED BY <1>5, <2>2, <3>5, <3>7
  <2>. QED BY <1>5, <1>8, <2>1, <2>2
<1>24. Searching'
  BY <1>14, <1>15, <1>16, <1>18, <1>19, <1>20, <1>21, <1>22, <1>23 DEF Searching
<1>. QED
  BY <1>10, <1>24

LEMMA SearchNext ==
  ASSUME SearchInv, [Next]_vars
  PROVE  SearchInv'
<1>1. /\ in' = in /\ V' = V
      /\ \A v : Succ(v)' = Succ(v)
      /\ \A v : Pred(v)' = Pred(v)
  BY InputKept
<1>2. ASSUME search' = search
      PROVE  SearchTypes' /\ Searching'
  <2>1. stack' = stack /\ visited' = visited /\ order' = order
    BY <1>2 DEF search
  <2>2. Frame' = Frame /\ Open' = Open /\ Finished' = Finished
    BY <1>1, <2>1 DEF Frame, Open, Finished
  <2>3. SearchTypes'
    BY <1>1, <2>1, <2>2 DEF SearchInv, SearchTypes
  <2>4. \A p, k : Later(p, k)' <=> Later(p, k)
    BY <2>1, <2>2 DEF Later
  <2>5. Searching'
    BY <1>1, <2>1, <2>2, <2>4 DEF SearchInv, Searching
  <2>. QED BY <2>3, <2>5
<1>3. SearchTypes' /\ Searching'
  <2>1. CASE Look
    BY <1>1, <2>1, LookKeeps DEF Look
  <2>2. CASE Finish
    BY <1>1, <2>2, FinishKeeps DEF Finish
  <2>3. CASE Seed \/ Pop \/ Visit \/ StartPass \/ Meet \/ Assign \/ Mark \/ UNCHANGED vars
    BY <1>2, <2>3 DEF Seed, Pop, Visit, StartPass, Meet, Assign, Mark, vars
  <2>. QED BY <2>1, <2>2, <2>3 DEF Next
<1>. QED
  BY <1>1, <1>3 DEF SearchInv

LEMMA SearchInit ==
  ASSUME Init
  PROVE  SearchInv
<1>1. /\ in \in Inputs /\ stack = <<[node |-> VirtualRoot, left |-> Succ(VirtualRoot)]>>
      /\ visited = {VirtualRoot} /\ order = <<>>
  BY DEF Init
<1>2. Succ(VirtualRoot) \subseteq V /\ VirtualRoot \in V
  BY <1>1, SuccFacts DEF V
<1>. DEFINE fr == [node |-> VirtualRoot, left |-> Succ(VirtualRoot)]
<1>3. fr \in Frame /\ fr.node = VirtualRoot /\ fr.left = Succ(VirtualRoot)
  BY <1>2 DEF Frame
<1>. HIDE DEF fr
<1>4. stack = <<fr>>
  BY <1>1 DEF fr
<1>5. stack \in Seq(Frame) /\ Len(stack) = 1 /\ stack[1] = fr /\ stack # <<>>
  BY <1>3, <1>4
<1>6. Open = {VirtualRoot} /\ Finished = {} /\ Len(order) = 0
  BY <1>1, <1>3, <1>5 DEF Open, Finished
<1>7. SearchTypes
  BY <1>1, <1>2, <1>5 DEF SearchTypes
<1>8. Searching
  BY <1>1, <1>3, <1>5, <1>6 DEF Searching
<1>. QED
  BY <1>1, <1>7, <1>8 DEF SearchInv

LEMMA SearchHolds == Spec => []SearchInv
BY SearchInit, SearchNext, PTL DEF Spec

(***************************************************************************)
(* The postorder numbers every node, the virtual root last; every other    *)
(* node has a predecessor with a larger number.                            *)
(***************************************************************************)
LEMMA Numbering ==
  ASSUME SearchInv, stack = <<>>
  PROVE  /\ Len(order) \in Nat /\ Len(order) > 1
         /\ \A k \in 1 .. Len(order) : order[k] \in V /\ Num[order[k]] = k
         /\ \A v \in V : Num[v] \in 1 .. Len(order) /\ order[Num[v]] = v /\ postnum(v) = Num[v]
         /\ VirtualRoot \in V /\ Num[VirtualRoot] = Len(order)
         /\ \A v \in Measured : Num[v] < Len(order) /\ \E p \in Pred(v) : Num[p] > Num[v]
<1>. DEFINE N == Len(order)
<1>1. /\ visited \subseteq V
      /\ \A v : v \in visited <=> v \in Open \/ v \in Finished
      /\ \A v : v \in Open <=> \E i \in 1 .. Len(stack) : stack[i].node = v
      /\ \A v : v \in Finished <=> \E k \in 1 .. N : order[k] = v
      /\ N \in Nat /\ \A k \in 1 .. N : order[k] \in V
  BY SearchFacts
<1>2. N > 1 /\ order[N] = VirtualRoot /\ \A k, m \in 1 .. N : order[k] = order[m] => k = m
  BY DEF SearchInv, Searching
<1>3. Open = {}
  BY DEF Open
<1>4. \A v \in Finished : Succ(v) \subseteq Finished
  <2>1. \A v \in Finished : Succ(v) \subseteq visited
    BY DEF SearchInv, Searching
  <2>. QED BY <1>1, <1>3, <2>1
<1>5. VirtualRoot \in Finished /\ Finished \subseteq V
  BY <1>1, <1>2
<1>6. Measured \subseteq Finished
  <2>. DEFINE T == Finished \cap Measured
  <2>1. in \in Inputs /\ in.roots \subseteq Measured /\ VirtualRoot \notin Measured
    BY InputFacts DEF SearchInv
  <2>2. in.roots \subseteq T
    BY <1>4, <1>5, <2>1, SuccFacts
  <2>3. ASSUME NEW f \in T
        PROVE  in.calls[f] \cap Measured \subseteq T
    <3>1. Succ(f) \subseteq Finished /\ Succ(f) = (in.calls[f] \cap Measured) \ {f}
      BY <1>4, <2>1, <2>3 DEF Succ
    <3>. QED BY <2>3, <3>1
  <2>4. T \in SUBSET Measured
    OBVIOUS
  <2>5. Measured \subseteq T
    <3>. HIDE DEF T
    <3>. QED BY <2>1, <2>2, <2>3, <2>4, InputFacts
  <2>. QED BY <2>5
<1>7. \A v \in V : \E k \in 1 .. N : order[k] = v
  BY <1>1, <1>5, <1>6 DEF V
<1>8. ASSUME NEW v \in V
      PROVE  postnum(v) \in 1 .. N /\ order[postnum(v)] = v
  BY <1>7 DEF postnum
<1>9. \A v \in V : Num[v] = postnum(v)
  BY DEF Num
<1>10. \A k \in 1 .. N : Num[order[k]] = k
  BY <1>1, <1>2, <1>8, <1>9
<1>11. VirtualRoot \in V /\ Num[VirtualRoot] = N
  <2>1. N \in 1 .. N
    BY <1>1, <1>2
  <2>. QED BY <1>2, <1>10, <2>1 DEF V
<1>12. ASSUME NEW v \in Measured
       PROVE  Num[v] < N /\ \E p \in Pred(v) : Num[p] > Num[v]
  <2>1. v \in V /\ v # VirtualRoot
    BY InputFacts DEF V, SearchInv
  <2>2. PICK k \in 1 .. N : k = Num[v] /\ order[k] = v
    BY <1>8, <1>9, <2>1
  <2>3. k # N
    BY <1>2, <2>1, <2>2
  <2>4. PICK p \in Pred(v) : Later(p, k)
    BY <2>1, <2>2 DEF SearchInv, Searching
  <2>5. PICK m \in k + 1 .. N : order[m] = p
    BY <1>3, <2>4 DEF Later
  <2>6. m \in 1 .. N /\ Num[p] = m
    BY <1>1, <1>10, <2>2, <2>5
  <2>. QED BY <1>1, <2>2, <2>3, <2>4, <2>6
<1>. QED
  BY <1>1, <1>2, <1>8, <1>9, <1>10, <1>11, <1>12

(* What is reached along Succ without d, or to ever smaller numbers.       *)
LEMMA AvoidingFacts ==
  ASSUME in \in Inputs, NEW d
  PROVE  /\ Avoiding(d) \in SUBSET V
         /\ VirtualRoot \in Avoiding(d)
         /\ \A v \in Avoiding(d), w \in V : w \in Succ(v) /\ w # d => w \in Avoiding(d)
         /\ \A T \in SUBSET V :
              VirtualRoot \in T /\ (\A v \in T : Succ(v) \ {d} \subseteq T) => Avoiding(d) \subseteq T
<1>. DEFINE rel == [v \in V |-> Succ(v) \ {d}]
<1>1. IsFiniteSet(V)
  BY InputFacts
<1>2. rel \in [V -> SUBSET V] /\ {VirtualRoot} \in SUBSET V /\ \A v \in V : rel[v] = Succ(v) \ {d}
  BY SuccFacts DEF V
<1>3. Avoiding(d) = Closure(rel, {VirtualRoot})
  BY DEF Avoiding
<1>. HIDE DEF rel
<1>4. /\ Avoiding(d) \in SUBSET V
      /\ {VirtualRoot} \subseteq Avoiding(d)
      /\ \A x \in Avoiding(d) : rel[x] \subseteq Avoiding(d)
      /\ \A T \in SUBSET V :
           {VirtualRoot} \subseteq T /\ (\A x \in T : rel[x] \subseteq T) => Avoiding(d) \subseteq T
  BY <1>1, <1>2, <1>3, ClosureFacts
<1>5. \A v \in Avoiding(d), w \in V : w \in Succ(v) /\ w # d => w \in Avoiding(d)
  BY <1>2, <1>4
<1>6. ASSUME NEW T \in SUBSET V, VirtualRoot \in T, \A v \in T : Succ(v) \ {d} \subseteq T
      PROVE  Avoiding(d) \subseteq T
  <2>1. \A x \in T : rel[x] \subseteq T
    BY <1>2, <1>6
  <2>. QED BY <1>4, <1>6, <2>1
<1>. QED
  BY <1>4, <1>5, <1>6

LEMMA DownFacts ==
  ASSUME in \in Inputs, NEW a \in V
  PROVE  /\ Down(a) \in SUBSET V
         /\ a \in Down(a)
         /\ \A v \in Down(a), w \in V : w \in Succ(v) /\ Num[w] < Num[v] => w \in Down(a)
         /\ \A T \in SUBSET V :
              /\ a \in T
              /\ \A v \in T, w \in V : w \in Succ(v) /\ Num[w] < Num[v] => w \in T
              => Down(a) \subseteq T
<1>. DEFINE rel == [u \in V |-> {w \in Succ(u) : Num[w] < Num[u]}]
<1>1. IsFiniteSet(V)
  BY InputFacts
<1>2. \A u \in V : Succ(u) \subseteq V
  BY SuccFacts DEF V
<1>3. /\ rel \in [V -> SUBSET V] /\ {a} \in SUBSET V
      /\ \A v \in V : rel[v] = {w \in Succ(v) : Num[w] < Num[v]}
  BY <1>2
<1>4. Down(a) = Closure(rel, {a})
  BY DEF Down
<1>. HIDE DEF rel
<1>5. /\ Down(a) \in SUBSET V
      /\ {a} \subseteq Down(a)
      /\ \A x \in Down(a) : rel[x] \subseteq Down(a)
      /\ \A T \in SUBSET V :
           {a} \subseteq T /\ (\A x \in T : rel[x] \subseteq T) => Down(a) \subseteq T
  BY <1>1, <1>3, <1>4, ClosureFacts
<1>6. \A v \in Down(a), w \in V : w \in Succ(v) /\ Num[w] < Num[v] => w \in Down(a)
  BY <1>3, <1>5
<1>7. ASSUME NEW T \in SUBSET V, a \in T,
             \A v \in T, w \in V : w \in Succ(v) /\ Num[w] < Num[v] => w \in T
      PROVE  Down(a) \subseteq T
  <2>1. \A x \in T : rel[x] \subseteq T
    BY <1>2, <1>3, <1>7
  <2>. QED BY <1>5, <1>7, <2>1
<1>. QED
  BY <1>5, <1>6, <1>7

LEMMA DownLeast ==
  ASSUME in \in Inputs, NEW a \in V, NEW T \in SUBSET V, a \in T,
         \A v \in T, w \in V : w \in Succ(v) /\ Num[w] < Num[v] => w \in T
  PROVE  Down(a) \subseteq T
BY DownFacts

LEMMA DownInside ==
  ASSUME in \in Inputs, NEW a \in V, NEW b \in Down(a)
  PROVE  Down(b) \subseteq Down(a)
<1>1. Down(a) \in SUBSET V /\ b \in V
  BY DownFacts
<1>2. \A v \in Down(a), w \in V : w \in Succ(v) /\ Num[w] < Num[v] => w \in Down(a)
  BY DownFacts
<1>. QED
  BY <1>1, <1>2, DownLeast

(***************************************************************************)
(* The passes, once the search has ended.                                  *)
(***************************************************************************)
LEMMA Parents ==
  ASSUME SearchInv, stack = <<>>, idom \in [V -> V \cup {NoNode}],
         idom[VirtualRoot] = VirtualRoot, ChainsClimb
  PROVE  /\ Climbs(V, VirtualRoot, Num, idom)
         /\ \A v : Chain(v) = ChainOf(idom, v)
         /\ \A v \in V : Processed(v) <=> v \in KnownIn(V, idom)
<1>1. /\ Len(order) \in Nat
      /\ \A v \in V : Num[v] \in 1 .. Len(order) /\ order[Num[v]] = v /\ postnum(v) = Num[v]
      /\ VirtualRoot \in V /\ Num[VirtualRoot] = Len(order)
  BY Numbering
<1>2. IsFiniteSet(V) /\ NoNode \notin V
  BY InputFacts DEF SearchInv
<1>3. Num \in [V -> Nat]
  <2>1. Num = [v \in V |-> Num[v]]
    BY DEF Num
  <2>2. \A v \in V : Num[v] \in Nat
    BY <1>1
  <2>. QED BY <2>1, <2>2
<1>4. \A x, y \in V : Num[x] = Num[y] => x = y
  BY <1>1
<1>5. \A x \in V : Num[x] <= Num[VirtualRoot]
  BY <1>1
<1>6. ASSUME NEW x \in V \ {VirtualRoot}, idom[x] # NoNode
      PROVE  idom[idom[x]] # NoNode /\ Num[x] < Num[idom[x]]
  BY <1>1, <1>6 DEF ChainsClimb
<1>7. Climbs(V, VirtualRoot, Num, idom)
  BY <1>1, <1>2, <1>3, <1>4, <1>5, <1>6 DEF Climbs
<1>8. \A v : Chain(v) = ChainOf(idom, v)
  BY DEF Chain, ChainOf
<1>9. \A v \in V : Processed(v) <=> v \in KnownIn(V, idom)
  BY DEF Processed, KnownIn
<1>. QED
  BY <1>7, <1>8, <1>9

Solves(g) ==
  LET processed == {v \in V : Processed(v)}
  IN g = [p \in processed \X processed |->
            IF p[1] = p[2] THEN p[1]
            ELSE IF postnum(p[1]) < postnum(p[2]) THEN g[<<idom[p[1]], p[2]>>]
            ELSE g[<<p[1], idom[p[2]]>>]]

(* intersect finds the node whose chain the two chains share.              *)
LEMMA IntersectMeets ==
  ASSUME SearchInv, stack = <<>>, idom \in [V -> V \cup {NoNode}],
         idom[VirtualRoot] = VirtualRoot, ChainsClimb,
         NEW x \in V, Processed(x), NEW y \in V, Processed(y)
  PROVE  Meets(V, idom, x, y, intersect(x, y))
<1>. DEFINE processed == {v \in V : Processed(v)}
            meet == CHOOSE g : Solves(g)
<1>1. /\ Climbs(V, VirtualRoot, Num, idom)
      /\ processed = KnownIn(V, idom)
  <2>1. \A v \in V : Processed(v) <=> v \in KnownIn(V, idom)
    BY Parents
  <2>2. KnownIn(V, idom) \subseteq V
    BY DEF KnownIn
  <2>. QED BY <2>1, <2>2, Parents
<1>2. \A v \in V : postnum(v) = Num[v]
  BY Numbering
<1>3. ASSUME NEW g
      PROVE  Solves(g) <=> Climbing(V, Num, idom, g)
  <2>. DEFINE Q == processed \X processed
  <2>1. \A p \in Q : p[1] \in V /\ p[2] \in V
    OBVIOUS
  <2>2. [p \in Q |->
            IF p[1] = p[2] THEN p[1]
            ELSE IF postnum(p[1]) < postnum(p[2]) THEN g[<<idom[p[1]], p[2]>>]
            ELSE g[<<p[1], idom[p[2]]>>]]
        = [p \in Q |->
            IF p[1] = p[2] THEN p[1]
            ELSE IF Num[p[1]] < Num[p[2]] THEN g[<<idom[p[1]], p[2]>>]
            ELSE g[<<p[1], idom[p[2]]>>]]
    <3>. HIDE DEF Q
    <3>. QED BY <1>2, <2>1
  <2>. QED BY <1>1, <2>2 DEF Solves, Climbing
<1>4. Solves(meet)
  <2>1. \E g : Solves(g)
    BY <1>1, <1>3, MeetingClimbs
  <2>. QED BY <2>1
<1>5. intersect(x, y) = meet[<<x, y>>]
  BY DEF intersect, Solves
<1>6. x \in KnownIn(V, idom) /\ y \in KnownIn(V, idom)
  BY <1>1
<1>. HIDE DEF meet
<1>7. Climbing(V, Num, idom, meet)
  BY <1>3, <1>4
<1>. QED
  BY <1>1, <1>5, <1>6, <1>7, ClimbingMeets

LEMMA PassFacts ==
  ASSUME PassInv, stack = <<>>
  PROVE  /\ PassBody
         /\ Climbs(V, VirtualRoot, Num, idom)
         /\ \A v : Chain(v) = ChainOf(idom, v)
         /\ \A v \in V : Processed(v) =>
              /\ Chain(v) \in SUBSET V /\ v \in Chain(v)
              /\ \A c \in Chain(v) :
                   /\ Processed(c) /\ Chain(c) \subseteq Chain(v)
                   /\ Num[v] <= Num[c] /\ (c # v => Num[v] < Num[c])
         /\ \A v \in Measured : Processed(v) =>
              /\ idom[v] \in V /\ Processed(idom[v]) /\ Num[v] < Num[idom[v]]
              /\ Chain(v) = {v} \cup Chain(idom[v])
<1>1. PassBody /\ idom \in [V -> V \cup {NoNode}] /\ SearchInv
  BY DEF PassInv, PassTypes
<1>2. idom[VirtualRoot] = VirtualRoot /\ ChainsClimb
  BY <1>1 DEF PassBody
<1>3. Climbs(V, VirtualRoot, Num, idom) /\ \A v : Chain(v) = ChainOf(idom, v)
  BY <1>1, <1>2, Parents
<1>4. /\ IsFiniteSet(V) /\ NoNode \notin V
      /\ \A x \in V \ {VirtualRoot} : idom[x] # NoNode => idom[idom[x]] # NoNode /\ Num[x] < Num[idom[x]]
  BY <1>3 DEF Climbs
<1>5. ASSUME NEW v \in V, Processed(v)
      PROVE  /\ Chain(v) \in SUBSET V /\ v \in Chain(v)
             /\ \A c \in Chain(v) :
                  /\ Processed(c) /\ Chain(c) \subseteq Chain(v)
                  /\ Num[v] <= Num[c] /\ (c # v => Num[v] < Num[c])
  <2>1. idom[v] # NoNode
    BY <1>5 DEF Processed
  <2>2. ChainOf(idom, v) \in SUBSET V /\ v \in ChainOf(idom, v)
    BY <1>1, <1>4, ChainClosed
  <2>3. \A c \in ChainOf(idom, v) : idom[c] # NoNode /\ Num[v] <= Num[c] /\ (c # v => Num[v] < Num[c])
    BY <1>3, <2>1, ChainGrows
  <2>4. \A c \in ChainOf(idom, v) : ChainOf(idom, c) \subseteq ChainOf(idom, v)
    BY <1>1, <1>4, ChainInside
  <2>. QED BY <1>3, <2>2, <2>3, <2>4 DEF Processed
<1>6. ASSUME NEW v \in Measured, Processed(v)
      PROVE  /\ idom[v] \in V /\ Processed(idom[v]) /\ Num[v] < Num[idom[v]]
             /\ Chain(v) = {v} \cup Chain(idom[v])
  <2>1. v \in V /\ v # VirtualRoot /\ idom[v] # NoNode
    BY <1>1, <1>6, InputFacts DEF V, Processed, SearchInv
  <2>2. idom[v] \in V /\ ChainOf(idom, v) = {v} \cup ChainOf(idom, idom[v])
    BY <1>1, <1>4, <2>1, ChainStep
  <2>. QED BY <1>3, <1>4, <2>1, <2>2 DEF Processed
<1>. QED
  BY <1>1, <1>3, <1>5, <1>6

(* Steps that leave the search and idom alone leave the chains alone.      *)
LEMMA Frozen ==
  ASSUME [Next]_vars, stack' = stack, order' = order
  PROVE  /\ Num' = Num
         /\ \A a : Down(a)' = Down(a)
         /\ \A d : Avoiding(d)' = Avoiding(d)
         /\ idom' = idom =>
              /\ \A v : Chain(v)' = Chain(v)
              /\ \A v : Processed(v)' <=> Processed(v)
              /\ ChainsClimb => ChainsClimb'
<1>1. /\ V' = V /\ \A v : Succ(v)' = Succ(v)
  BY InputKept
<1>2. \A v : postnum(v)' = postnum(v)
  BY DEF postnum
<1>3. Num' = Num
  BY <1>1, <1>2 DEF Num
<1>4. \A a : Down(a)' = Down(a)
  BY <1>1, <1>3 DEF Down
<1>5. \A d : Avoiding(d)' = Avoiding(d)
  BY <1>1 DEF Avoiding
<1>6. ASSUME idom' = idom
      PROVE  /\ \A v : Chain(v)' = Chain(v)
             /\ \A v : Processed(v)' <=> Processed(v)
             /\ ChainsClimb => ChainsClimb'
  <2>1. \A v : Chain(v)' = Chain(v)
    BY <1>1, <1>6 DEF Chain
  <2>2. \A v : Processed(v)' <=> Processed(v)
    BY <1>6 DEF Processed
  <2>3. ChainsClimb => ChainsClimb'
    BY <1>1, <1>2, <1>6 DEF ChainsClimb
  <2>. QED BY <2>1, <2>2, <2>3
<1>. QED
  BY <1>3, <1>4, <1>5, <1>6

LEMMA FrozenKeeps ==
  ASSUME PassInv, [Next]_vars, stack = <<>>, search' = search, idom' = idom
  PROVE  /\ idom'[VirtualRoot] = VirtualRoot
         /\ ChainsClimb' /\ Keeping' /\ Rising'
<1>1. stack' = stack /\ order' = order /\ visited' = visited
  BY DEF search
<1>2. V' = V /\ Measured' = Measured /\ \A v : Pred(v)' = Pred(v)
  BY InputKept
<1>3. /\ Num' = Num
      /\ \A a : Down(a)' = Down(a)
      /\ \A d : Avoiding(d)' = Avoiding(d)
      /\ \A v : Chain(v)' = Chain(v)
      /\ \A v : Processed(v)' <=> Processed(v)
      /\ ChainsClimb => ChainsClimb'
  BY <1>1, Frozen
<1>4. PassBody
  BY PassFacts
<1>5. Keeping'
  BY <1>2, <1>3, <1>4 DEF Keeping, PassBody
<1>6. Rising'
  BY <1>2, <1>3, <1>4 DEF Rising, PassBody
<1>. QED
  BY <1>3, <1>4, <1>5, <1>6 DEF PassBody

(* What the search leaves is where the passes start.                       *)
LEMMA PassesStart ==
  ASSUME SearchInv, PassTypes, stack = <<>>, Untouched
  PROVE  PassBody
<1>1. /\ idom = [v \in V |-> IF v = VirtualRoot THEN v ELSE NoNode]
      /\ changed /\ todo = 0 /\ preds = {} /\ newIdom = NoNode /\ ~marked
  BY DEF Untouched
<1>2. /\ VirtualRoot \in V /\ VirtualRoot \notin Measured /\ NoNode \notin V /\ Measured \subseteq V
      /\ IsFiniteSet(V) /\ in \in Inputs
  BY InputFacts DEF V, SearchInv
<1>3. /\ idom \in [V -> V \cup {NoNode}] /\ idom[VirtualRoot] = VirtualRoot
      /\ \A v \in V : v # VirtualRoot => idom[v] = NoNode
  BY <1>1, <1>2
<1>4. \A v \in V : Processed(v) <=> v = VirtualRoot
  BY <1>2, <1>3 DEF Processed
<1>5. ChainsClimb
  BY <1>3 DEF ChainsClimb
<1>6. Climbs(V, VirtualRoot, Num, idom) /\ \A v : Chain(v) = ChainOf(idom, v)
  BY <1>3, <1>5, Parents
<1>7. Len(order) \in Nat /\ Len(order) > 1
  BY Numbering
<1>8. Meeting
  BY <1>1, <1>7 DEF Meeting
<1>9. Advancing /\ Agreeing /\ Settling /\ Marking
  BY <1>1 DEF Advancing, Agreeing, Settling, Marking
<1>10. Keeping
  <2>1. SUFFICES ASSUME NEW f \in V, Processed(f)
                 PROVE  /\ \A d \in V \ {f} : f \notin Avoiding(d) => d \in Chain(f)
                        /\ \A v \in Chain(f) : f \in Down(v)
    BY DEF Keeping
  <2>2. f = VirtualRoot /\ Chain(f) = {f}
    BY <1>4, <1>6, <2>1, ChainOfRoot
  <2>3. \A d : f \in Avoiding(d)
    BY <1>2, <2>2, AvoidingFacts
  <2>4. f \in Down(f)
    BY <1>2, DownFacts
  <2>. QED BY <2>2, <2>3, <2>4
<1>11. Rising
  BY <1>2, <1>4 DEF Rising
<1>. QED
  BY <1>3, <1>5, <1>8, <1>9, <1>10, <1>11 DEF PassBody

LEMMA StartPassKeeps ==
  ASSUME PassInv, [Next]_vars, StartPass
  PROVE  PassTypes' /\ PassBody' /\ stack' = <<>>
<1>1. /\ stack = <<>> /\ todo = 0 /\ changed
      /\ changed' = FALSE /\ todo' = Len(order) - 1 /\ preds' = Pred(order[todo'])
      /\ search' = search /\ idom' = idom /\ newIdom' = newIdom
      /\ marked' = marked /\ bottleneck' = bottleneck
  BY DEF StartPass, Between, Again
<1>2. stack' = <<>> /\ order' = order
  BY <1>1 DEF search
<1>3. PassBody /\ PassTypes /\ SearchInv
  BY <1>1, PassFacts DEF PassInv
<1>4. /\ Len(order) \in Nat /\ Len(order) > 1
      /\ \A k \in 1 .. Len(order) : order[k] \in V
      /\ order[Len(order)] = VirtualRoot
  BY <1>1, <1>3, Numbering DEF SearchInv, Searching
<1>5. V' = V /\ Measured' = Measured /\ \A v : Pred(v)' = Pred(v)
  BY InputKept
<1>6. todo' \in 1 .. Len(order) - 1 /\ order[todo'] \in V
  BY <1>1, <1>4
<1>7. preds' \subseteq V
  BY <1>1, <1>6 DEF Pred
<1>8. PassTypes'
  <2>1. todo' \in 0 .. Len(order')
    BY <1>2, <1>4, <1>6
  <2>. QED BY <1>1, <1>3, <1>5, <1>7, <2>1 DEF PassTypes
<1>9. newIdom' = NoNode
  BY <1>1, <1>3 DEF PassBody, Meeting
<1>10. Met' = {}
  BY <1>1, <1>2, <1>5 DEF Met
<1>11. Meeting'
  BY <1>1, <1>2, <1>4, <1>5, <1>6, <1>9, <1>10 DEF Meeting
<1>12. Advancing'
  <2>1. \A k \in todo' + 1 .. Len(order') : order'[k] = VirtualRoot
    BY <1>1, <1>2, <1>4
  <2>2. Processed(VirtualRoot)'
    BY <1>1, <1>3, InputFacts DEF Processed, PassBody, SearchInv, V
  <2>. QED BY <2>1, <2>2 DEF Advancing
<1>13. Agreeing' /\ Settling'
  <2>1. ~ \E k \in todo' + 1 .. Len(order') - 1 : TRUE
    BY <1>1, <1>2, <1>4
  <2>. QED BY <2>1 DEF Agreeing, Settling
<1>14. Marking'
  BY <1>1, <1>3 DEF Marking, PassBody
<1>15. idom'[VirtualRoot] = VirtualRoot /\ ChainsClimb' /\ Keeping' /\ Rising'
  BY <1>1, FrozenKeeps
<1>. QED
  BY <1>2, <1>8, <1>11, <1>12, <1>13, <1>14, <1>15 DEF PassBody

LEMMA MarkKeeps ==
  ASSUME PassInv, [Next]_vars, Mark, stack = <<>>
  PROVE  PassTypes' /\ PassBody' /\ stack' = <<>>
<1>1. /\ todo = 0 /\ ~changed /\ marked' = TRUE /\ bottleneck' = Idoms
      /\ search' = search /\ idom' = idom /\ changed' = changed /\ todo' = todo
      /\ preds' = preds /\ newIdom' = newIdom
  BY DEF Mark, Between, Again, passes
<1>2. stack' = <<>> /\ order' = order
  BY <1>1 DEF search
<1>3. PassBody /\ PassTypes /\ SearchInv
  BY PassFacts DEF PassInv
<1>4. V' = V /\ Measured' = Measured /\ \A v : Pred(v)' = Pred(v)
  BY InputKept
<1>5. Idoms \subseteq Measured
  <2>1. \A v \in Measured : idom[v] \in V \cup {NoNode}
    BY <1>3 DEF PassTypes, V
  <2>. QED BY <2>1 DEF Idoms, V
<1>6. PassTypes'
  BY <1>1, <1>2, <1>3, <1>4, <1>5 DEF PassTypes
<1>7. Idoms' = Idoms
  BY <1>1, <1>4 DEF Idoms
<1>8. /\ \A v : Chain(v)' = Chain(v)
      /\ \A v : Processed(v)' <=> Processed(v)
      /\ Num' = Num
  BY <1>1, <1>2, Frozen
<1>9. Met' = Met
  BY <1>1, <1>2, <1>4, <1>8 DEF Met
<1>10. Meeting'
  BY <1>1, <1>2, <1>3, <1>4, <1>8, <1>9 DEF Meeting, PassBody
<1>11. Advancing' /\ Agreeing' /\ Settling'
  BY <1>1, <1>2, <1>3, <1>4, <1>8 DEF Advancing, Agreeing, Settling, PassBody
<1>12. Marking'
  BY <1>1, <1>7 DEF Marking
<1>13. idom'[VirtualRoot] = VirtualRoot /\ ChainsClimb' /\ Keeping' /\ Rising'
  BY <1>1, FrozenKeeps
<1>. QED
  BY <1>2, <1>6, <1>10, <1>11, <1>12, <1>13 DEF PassBody

LEMMA MeetKeeps ==
  ASSUME PassInv, [Next]_vars, Meet, stack = <<>>
  PROVE  PassTypes' /\ PassBody' /\ stack' = <<>>
<1>1. PICK p \in preds :
        /\ preds' = preds \ {p}
        /\ newIdom' = IF ~Processed(p) THEN newIdom
                      ELSE IF newIdom = NoNode THEN p
                      ELSE intersect(p, newIdom)
        /\ search' = search /\ idom' = idom /\ changed' = changed /\ todo' = todo
        /\ marked' = marked /\ bottleneck' = bottleneck
  BY DEF Meet
<1>2. stack' = <<>> /\ order' = order
  BY <1>1 DEF search
<1>3. PassBody /\ PassTypes /\ SearchInv
  BY PassFacts DEF PassInv
<1>4. V' = V /\ Measured' = Measured /\ \A v : Pred(v)' = Pred(v)
  BY InputKept
<1>5. /\ \A v : Chain(v)' = Chain(v)
      /\ \A v : Processed(v)' <=> Processed(v)
      /\ Num' = Num
  BY <1>1, <1>2, Frozen
<1>6. /\ todo > 0 /\ todo < Len(order)
      /\ preds \subseteq Pred(order[todo])
      /\ newIdom = NoNode => Met = {}
      /\ newIdom # NoNode =>
           /\ Processed(newIdom)
           /\ Met # {}
           /\ \A c \in V : c \in Chain(newIdom) <=> \A q \in Met : c \in Chain(q)
  BY <1>1, <1>3 DEF PassBody, Meeting, PassTypes
<1>7. p \in V /\ NoNode \notin V
  BY <1>3, InputFacts DEF PassTypes, SearchInv
<1>8. Met' = IF Processed(p) THEN Met \cup {p} ELSE Met
  BY <1>1, <1>2, <1>4, <1>5, <1>6 DEF Met
<1>9. /\ newIdom' = NoNode => Met' = {}
      /\ newIdom' # NoNode =>
           /\ newIdom' \in V
           /\ Processed(newIdom')
           /\ Met' # {}
           /\ \A c \in V : c \in Chain(newIdom') <=> \A q \in Met' : c \in Chain(q)
  <2>1. CASE ~Processed(p)
    BY <1>1, <1>3, <1>6, <1>8, <2>1 DEF PassTypes
  <2>2. CASE Processed(p) /\ newIdom = NoNode
    BY <1>1, <1>6, <1>7, <1>8, <2>2
  <2>3. CASE Processed(p) /\ newIdom # NoNode
    <3>1. newIdom \in V /\ newIdom' = intersect(p, newIdom)
      BY <1>1, <1>3, <2>3 DEF PassTypes
    <3>2. Meets(V, idom, p, newIdom, newIdom')
      BY <1>3, <1>6, <1>7, <2>3, <3>1, IntersectMeets DEF PassTypes, PassBody
    <3>3. /\ newIdom' \in V /\ idom[newIdom'] # NoNode
          /\ Chain(newIdom') = Chain(p) \cap Chain(newIdom)
      BY <3>2, PassFacts DEF Meets, KnownIn
    <3>. QED BY <1>6, <1>7, <1>8, <2>3, <3>3 DEF Processed
  <2>. QED BY <2>1, <2>2, <2>3
<1>10. Meeting'
  <2>1. /\ todo' < Len(order') /\ todo' > 0 /\ preds' \subseteq Pred(order[todo'])
    BY <1>1, <1>2, <1>6
  <2>2. PICK z : z = newIdom'
    OBVIOUS
  <2>3. z # NoNode =>
          /\ Processed(z)'
          /\ \A c \in V : c \in Chain(z)' <=> \A q \in Met' : c \in Chain(q)'
    BY <1>5, <1>9, <2>2
  <2>. QED BY <1>2, <1>4, <1>5, <1>9, <2>1 DEF Meeting
<1>11. PassTypes'
  BY <1>1, <1>2, <1>3, <1>4, <1>9 DEF PassTypes
<1>12. Advancing' /\ Agreeing' /\ Settling'
  BY <1>1, <1>2, <1>3, <1>4, <1>5 DEF Advancing, Agreeing, Settling, PassBody
<1>13. Marking'
  BY <1>1, <1>3, <1>6 DEF Marking, PassBody
<1>14. idom'[VirtualRoot] = VirtualRoot /\ ChainsClimb' /\ Keeping' /\ Rising'
  BY <1>1, FrozenKeeps
<1>. QED
  BY <1>2, <1>10, <1>11, <1>12, <1>13, <1>14 DEF PassBody

(***************************************************************************)
(* Assign gives node y the parent z.                                       *)
(***************************************************************************)
Assigning(y, z) ==
  /\ y = order[todo] /\ z = newIdom /\ todo > 0 /\ Num[y] = todo
  /\ y \in Measured /\ z \in V /\ Processed(z) /\ Num[y] < Num[z]
  /\ \A p \in Pred(y) : Processed(p) => Chain(z) \subseteq Chain(p)
  /\ \A c \in V : (\A p \in Pred(y) : Processed(p) => c \in Chain(p)) => c \in Chain(z)
  /\ \E u \in Pred(y) : Processed(u) /\ Num[y] < Num[u]
  /\ \A v \in V : Num[y] < Num[v] => Processed(v)

LEMMA AssignMeans ==
  ASSUME PassInv, stack = <<>>, todo > 0, preds = {}
  PROVE  \E y, z \in V : Assigning(y, z)
<1>. DEFINE y == order[todo]
            z == newIdom
<1>1. PassBody /\ PassTypes /\ SearchInv
  BY PassFacts DEF PassInv
<1>2. /\ Len(order) \in Nat
      /\ \A k \in 1 .. Len(order) : order[k] \in V /\ Num[order[k]] = k
      /\ \A v \in V : Num[v] \in 1 .. Len(order) /\ order[Num[v]] = v
      /\ VirtualRoot \in V /\ Num[VirtualRoot] = Len(order)
      /\ \A v \in Measured : Num[v] < Len(order) /\ \E p \in Pred(v) : Num[p] > Num[v]
  BY <1>1, Numbering
<1>3. /\ todo < Len(order) /\ todo \in Nat
      /\ z = NoNode => Met = {}
      /\ z # NoNode =>
           /\ Processed(z)
           /\ Met # {}
           /\ \A c \in V : c \in Chain(z) <=> \A q \in Met : c \in Chain(q)
  BY <1>1, <1>2 DEF PassBody, Meeting, PassTypes
<1>4. todo \in 1 .. Len(order)
  BY <1>2, <1>3
<1>5. y \in Measured /\ Num[y] = todo
  BY <1>2, <1>3, <1>4 DEF V
<1>6. \A p : p \in Met <=> p \in Pred(y) /\ Processed(p)
  BY DEF Met
<1>7. ASSUME NEW v \in V, Num[y] < Num[v]
      PROVE  Processed(v)
  <2>1. Num[v] \in todo + 1 .. Len(order)
    BY <1>2, <1>3, <1>5, <1>7
  <2>2. \A k \in todo + 1 .. Len(order) : Processed(order[k])
    BY <1>1 DEF PassBody, Advancing
  <2>. QED BY <1>2, <2>1, <2>2
<1>8. PICK u \in Pred(y) : Num[u] > Num[y]
  BY <1>2, <1>5
<1>9. u \in V /\ Num[y] < Num[u] /\ Num[u] \in Nat /\ Num[y] \in Nat
  BY <1>2, <1>5, <1>8 DEF Pred, V
<1>10. Processed(u) /\ u \in Met
  BY <1>6, <1>7, <1>8, <1>9
<1>11. z # NoNode
  BY <1>3, <1>10
<1>12. z \in V /\ Processed(z)
  BY <1>1, <1>3, <1>11 DEF PassTypes
<1>13. Chain(z) \subseteq V /\ z \in Chain(z)
  BY <1>12, PassFacts
<1>14. \A p \in Pred(y) : Processed(p) => Chain(z) \subseteq Chain(p)
  BY <1>3, <1>6, <1>11, <1>13
<1>15. Num[y] < Num[z]
  <2>1. z \in Chain(u)
    BY <1>8, <1>10, <1>13, <1>14
  <2>2. Num[u] <= Num[z]
    BY <1>9, <1>10, <2>1, PassFacts
  <2>. QED BY <1>2, <1>9, <1>12, <2>2
<1>16. \A c \in V : (\A p \in Pred(y) : Processed(p) => c \in Chain(p)) => c \in Chain(z)
  BY <1>3, <1>6, <1>11
<1>17. Assigning(y, z)
  BY <1>5, <1>7, <1>8, <1>9, <1>10, <1>12, <1>14, <1>15, <1>16 DEF Assigning
<1>18. y \in V
  BY <1>5 DEF V
<1>. QED
  BY <1>12, <1>17, <1>18

(* An immediate dominator found anew lies on the old chain: otherwise the  *)
(* nodes below the old one from which it is missing would lead down to y,  *)
(* and their chains agree in this pass.                                    *)
LEMMA AssignRises ==
  ASSUME PassInv, stack = <<>>, NEW y, NEW z, Assigning(y, z), Processed(y)
  PROVE  z \in Chain(y) \ {y}
<1>1. /\ y \in Measured /\ z \in V /\ Processed(z) /\ Num[y] < Num[z] /\ todo > 0 /\ Num[y] = todo
      /\ \A p \in Pred(y) : Processed(p) => Chain(z) \subseteq Chain(p)
      /\ \A v \in V : Num[y] < Num[v] => Processed(v)
  BY DEF Assigning
<1>. DEFINE e == idom[y]
<1>2. /\ PassBody
      /\ \A v \in V : Processed(v) =>
           /\ Chain(v) \in SUBSET V /\ v \in Chain(v)
           /\ \A c \in Chain(v) : Num[v] <= Num[c]
      /\ \A v \in Measured : Processed(v) =>
           /\ idom[v] \in V /\ Processed(idom[v]) /\ Num[v] < Num[idom[v]]
           /\ Chain(v) = {v} \cup Chain(idom[v])
  BY PassFacts
<1>3. /\ Len(order) \in Nat /\ todo \in Nat
      /\ \A k \in 1 .. Len(order) : order[k] \in V /\ Num[order[k]] = k
      /\ \A v \in V : Num[v] \in 1 .. Len(order) /\ order[Num[v]] = v
      /\ \A v \in Measured : Num[v] < Len(order)
  BY Numbering DEF PassInv, PassTypes
<1>4. /\ e \in V /\ Processed(e) /\ Num[y] < Num[e] /\ Chain(y) = {y} \cup Chain(e)
      /\ y \in V /\ in \in Inputs
  BY <1>1, <1>2 DEF V, PassInv, SearchInv
<1>5. \A v \in V : Num[v] \in Nat
  BY <1>3
<1>6. y # z
  BY <1>1, <1>3, <1>4
<1>7. z \in Chain(z)
  BY <1>1, <1>2
<1>8. Num[z] >= Num[e]
  <2>1. \A p \in Pred(y) : Processed(p) => z \in Chain(p)
    BY <1>1, <1>7
  <2>2. Rising
    BY <1>2 DEF PassBody
  <2>. QED BY <1>1, <2>1, <2>2 DEF Rising
<1>9. SUFFICES ASSUME z \notin Chain(e)
               PROVE  FALSE
  BY <1>4, <1>6
<1>. DEFINE T == {x \in V : Num[x] < Num[y]}
                   \cup {x \in V : Num[y] < Num[x] /\ z \notin Chain(x) /\ Num[x] <= Num[e]}
<1>. HIDE DEF e
<1>10. ASSUME NEW x \in T, NEW w \in V, w \in Succ(x), Num[w] < Num[x]
       PROVE  w \in T
  <2>0. x \in V /\ Num[x] \in Nat /\ Num[w] \in Nat /\ Num[y] \in Nat /\ Num[e] \in Nat /\ Num[z] \in Nat
    BY <1>1, <1>4, <1>5
  <2>1. CASE Num[w] < Num[y]
    BY <2>1
  <2>2. CASE ~(Num[w] < Num[y])
    <3>1. Num[y] < Num[x] /\ z \notin Chain(x) /\ Num[x] <= Num[e]
      <4>1. ~(Num[x] < Num[y])
        BY <1>10, <2>0, <2>2
      <4>. QED BY <4>1
    <3>2. Processed(x) /\ x \in Pred(w)
      BY <1>1, <1>10, <2>0, <3>1 DEF Pred
    <3>3. w # y
      BY <1>1, <1>7, <3>1, <3>2
    <3>4. Num[w] # Num[y]
      BY <1>3, <1>4, <3>3
    <3>5. Num[y] < Num[w]
      BY <2>0, <2>2, <3>4
    <3>6. w \in Measured /\ Processed(w)
      BY <1>1, <1>4, <1>10, <2>0, <3>5, SuccFacts
    <3>7. Num[w] \in todo + 1 .. Len(order) - 1 /\ order[Num[w]] = w
      BY <1>1, <1>3, <3>5, <3>6
    <3>8. Chain(idom[w]) \subseteq Chain(x)
      <4>1. Agreeing
        BY <1>2 DEF PassBody
      <4>2. \A p \in Pred(w) : Num[p] > Num[w] => Chain(idom[w]) \subseteq Chain(p)
        BY <1>1, <3>7, <4>1 DEF Agreeing
      <4>. QED BY <1>10, <2>0, <3>2, <4>2
    <3>9. z # w
      BY <1>8, <1>10, <2>0, <3>1
    <3>10. z \notin Chain(w)
      BY <1>2, <3>1, <3>6, <3>8, <3>9
    <3>11. Num[w] <= Num[e]
      BY <1>10, <2>0, <3>1
    <3>. QED BY <3>5, <3>10, <3>11
  <2>. QED BY <2>1, <2>2
<1>11. e \in T
  BY <1>4, <1>5, <1>9
<1>12. y \in Down(e)
  <2>1. e \in Chain(y)
    BY <1>2, <1>4
  <2>2. Keeping
    BY <1>2 DEF PassBody
  <2>. QED BY <1>4, <2>1, <2>2 DEF Keeping
<1>13. Down(e) \subseteq T
  <2>1. T \in SUBSET V
    OBVIOUS
  <2>. HIDE DEF T
  <2>. QED BY <1>4, <1>10, <1>11, <2>1, DownLeast
<1>14. y \in T
  BY <1>12, <1>13
<1>. QED
  BY <1>4, <1>5, <1>14

(* The chains after the step.                                              *)
Reparented(y, z) ==
  /\ idom' \in [V -> V \cup {NoNode}] /\ idom'[VirtualRoot] = VirtualRoot
  /\ idom'[y] = z /\ \A v \in V \ {y} : idom'[v] = idom[v]
  /\ ChainsClimb'
  /\ \A v \in V : Processed(v)' <=> Processed(v) \/ v = y
  /\ Chain(y)' = {y} \cup Chain(z)
  /\ \A v \in V : y \notin Chain(v) => Chain(v)' = Chain(v)
  /\ \A v \in V : Processed(v) /\ y \in Chain(v) =>
       Chain(v)' = {x \in Chain(v) : y \in Chain(x)} \cup Chain(z)

LEMMA AssignReparents ==
  ASSUME PassInv, [Next]_vars, stack = <<>>, Assign, NEW y \in V, NEW z \in V, Assigning(y, z)
  PROVE  Reparented(y, z)
<1>1. /\ y = order[todo] /\ z = newIdom /\ y \in Measured /\ Processed(z) /\ Num[y] < Num[z]
  BY DEF Assigning
<1>2. /\ SearchInv /\ PassTypes /\ PassBody
      /\ Climbs(V, VirtualRoot, Num, idom)
      /\ \A v : Chain(v) = ChainOf(idom, v)
      /\ VirtualRoot \in V /\ VirtualRoot \notin Measured /\ NoNode \notin V
  BY PassFacts, InputFacts DEF PassInv, SearchInv, V
<1>3. /\ search' = search /\ stack' = stack /\ order' = order
      /\ idom' = IF Improves THEN [idom EXCEPT ![y] = z] ELSE idom
  BY <1>1 DEF Assign, search
<1>4. idom' = [idom EXCEPT ![y] = z]
  <2>1. CASE Improves
    BY <1>3, <2>1
  <2>2. CASE ~Improves
    <3>1. idom[y] = z /\ idom \in [V -> V \cup {NoNode}]
      BY <1>1, <1>2, <2>2 DEF Improves, PassTypes
    <3>. QED BY <1>3, <2>2, <3>1
  <2>. QED BY <2>1, <2>2
<1>5. Replaces(V, VirtualRoot, Num, idom, y, z, idom')
  BY <1>1, <1>2, <1>4 DEF Replaces, KnownIn, Processed
<1>6. /\ Climbs(V, VirtualRoot, Num, idom')
      /\ idom'[y] = z /\ \A x \in V \ {y} : idom'[x] = idom[x]
      /\ KnownIn(V, idom') = KnownIn(V, idom) \cup {y}
  BY <1>5, ReplaceClimbs
<1>7. V' = V /\ Num' = Num /\ \A v \in V : postnum(v) = Num[v]
  BY <1>2, <1>3, InputKept, Frozen, Numbering
<1>8. \A v : postnum(v)' = postnum(v)
  BY <1>3 DEF postnum
<1>9. \A v : Chain(v)' = ChainOf(idom', v)
  <2>1. DOMAIN idom' = V
    BY <1>6 DEF Climbs
  <2>. QED BY <1>7, <2>1 DEF Chain, ChainOf
<1>10. idom' \in [V -> V \cup {NoNode}] /\ idom'[VirtualRoot] = VirtualRoot
  BY <1>6 DEF Climbs
<1>11. ChainsClimb'
  <2>1. \A x \in V \ {VirtualRoot} : idom'[x] # NoNode => idom'[idom'[x]] # NoNode /\ Num[x] < Num[idom'[x]]
    BY <1>6 DEF Climbs
  <2>2. \A x \in V : idom'[x] # NoNode => idom'[x] \in V
    BY <1>10
  <2>. QED BY <1>3, <1>7, <1>8, <2>1, <2>2 DEF ChainsClimb
<1>12. \A v \in V : Processed(v)' <=> Processed(v) \/ v = y
  <2>1. \A v \in V : v \in KnownIn(V, idom') <=> idom'[v] # NoNode
    BY DEF KnownIn
  <2>2. \A v \in V : v \in KnownIn(V, idom) <=> idom[v] # NoNode
    BY DEF KnownIn
  <2>. QED BY <1>6, <2>1, <2>2 DEF Processed
<1>13. Chain(y)' = {y} \cup Chain(z)
  BY <1>2, <1>5, <1>9, ReplaceSelf
<1>14. \A v \in V : y \notin Chain(v) => Chain(v)' = Chain(v)
  BY <1>2, <1>5, <1>9, ReplaceElsewhere
<1>15. ASSUME NEW v \in V, Processed(v), y \in Chain(v)
       PROVE  Chain(v)' = {x \in Chain(v) : y \in Chain(x)} \cup Chain(z)
  <2>1. v \in KnownIn(V, idom) /\ y \in ChainOf(idom, v)
    BY <1>2, <1>15 DEF KnownIn, Processed
  <2>2. ChainOf(idom', v) = {x \in ChainOf(idom, v) : y \in ChainOf(idom, x)} \cup ChainOf(idom, z)
    BY <1>5, <2>1, ReplaceBelow
  <2>. QED BY <1>2, <1>9, <2>2
<1>. QED
  BY <1>6, <1>10, <1>11, <1>12, <1>13, <1>14, <1>15 DEF Reparented

(* No chain gains a node.                                                  *)
LEMMA AssignShrinks ==
  ASSUME PassInv, stack = <<>>, NEW y \in V, NEW z \in V, Assigning(y, z), Reparented(y, z),
         NEW v \in V, Processed(v)
  PROVE  Chain(v)' \subseteq Chain(v)
<1>1. CASE y \notin Chain(v)
  BY <1>1 DEF Reparented
<1>2. CASE y \in Chain(v)
  <2>1. Processed(y) /\ Chain(y) \subseteq Chain(v)
    BY <1>2, PassFacts
  <2>2. z \in Chain(y)
    BY <2>1, AssignRises
  <2>3. Chain(z) \subseteq Chain(v)
    BY <2>1, <2>2, PassFacts
  <2>. QED BY <1>2, <2>3 DEF Reparented
<1>. QED
  BY <1>1, <1>2

(* A node above y has the chain it had.                                    *)
LEMMA AssignAbove ==
  ASSUME PassInv, stack = <<>>, NEW y \in V, NEW z \in V, Assigning(y, z), Reparented(y, z),
         NEW v \in V, Num[y] < Num[v]
  PROVE  Processed(v) /\ Chain(v)' = Chain(v)
<1>1. Processed(v)
  BY DEF Assigning
<1>2. y \notin Chain(v)
  <2>1. \A c \in Chain(v) : Num[v] <= Num[c]
    BY <1>1, PassFacts
  <2>2. Num[y] \in Nat /\ Num[v] \in Nat
    BY Numbering DEF PassInv
  <2>. QED BY <2>1, <2>2
<1>. QED
  BY <1>1, <1>2 DEF Reparented

(* What dominates y is on the chain of z, and z leads down to y.           *)
LEMMA AssignDominates ==
  ASSUME PassInv, stack = <<>>, NEW y \in V, NEW z \in V, Assigning(y, z)
  PROVE  /\ \A d \in V \ {y} : y \notin Avoiding(d) => d \in Chain(z)
         /\ \A v \in Chain(z) : y \in Down(v)
<1>1. /\ Processed(z)
      /\ \A p \in Pred(y) : Processed(p) => Chain(z) \subseteq Chain(p)
      /\ \A c \in V : (\A p \in Pred(y) : Processed(p) => c \in Chain(p)) => c \in Chain(z)
  BY DEF Assigning
<1>2. PICK u \in Pred(y) : Processed(u) /\ Num[y] < Num[u]
  BY DEF Assigning
<1>3. Keeping /\ in \in Inputs /\ \A v \in V : Processed(v) => Chain(v) \in SUBSET V /\ v \in Chain(v)
  BY PassFacts DEF PassBody, PassInv, SearchInv
<1>4. ASSUME NEW d \in V \ {y}, y \notin Avoiding(d)
      PROVE  d \in Chain(z)
  <2>1. ASSUME NEW p \in Pred(y), Processed(p)
        PROVE  d \in Chain(p)
    <3>1. p \in V /\ y \in Succ(p)
      BY DEF Pred
    <3>2. p \notin Avoiding(d)
      BY <1>3, <1>4, <3>1, AvoidingFacts
    <3>3. CASE p = d
      BY <1>3, <2>1, <3>1, <3>3
    <3>4. CASE p # d
      BY <1>3, <2>1, <3>1, <3>2, <3>4 DEF Keeping
    <3>. QED BY <3>3, <3>4
  <2>. QED BY <1>1, <1>4, <2>1
<1>5. ASSUME NEW v \in Chain(z)
      PROVE  y \in Down(v)
  <2>1. u \in V /\ y \in Succ(u)
    BY DEF Pred
  <2>2. v \in Chain(u) /\ v \in V
    BY <1>1, <1>2, <1>3, <2>1
  <2>3. u \in Down(v)
    BY <1>2, <1>3, <2>1, <2>2 DEF Keeping
  <2>. QED BY <1>2, <1>3, <2>1, <2>2, <2>3, DownFacts
<1>. QED
  BY <1>4, <1>5

(* A dominator of f that lies above y dominates y: nodes numbered below it *)
(* that avoid it lead down to f only through such nodes.                   *)
LEMMA AboveDominates ==
  ASSUME PassInv, stack = <<>>, NEW f \in V, Processed(f), NEW y \in Chain(f),
         NEW d \in Chain(y), d # y, f \notin Avoiding(d)
  PROVE  y \notin Avoiding(d)
<1>1. SUFFICES ASSUME y \in Avoiding(d)
               PROVE  FALSE
  OBVIOUS
<1>2. /\ Keeping /\ in \in Inputs /\ y \in V /\ Processed(y)
      /\ d \in V /\ Num[y] < Num[d]
  <2>1. y \in V /\ Processed(y)
    BY PassFacts
  <2>2. d \in V /\ Num[y] < Num[d]
    BY <2>1, PassFacts
  <2>. QED BY <2>1, <2>2, PassFacts DEF PassBody, PassInv, SearchInv
<1>3. \A v \in V : Num[v] \in Nat
  BY Numbering DEF PassInv
<1>4. f \in Down(y)
  BY <1>2 DEF Keeping
<1>. DEFINE T == {w \in V : w \in Avoiding(d) /\ Num[w] < Num[d]}
<1>5. ASSUME NEW v \in T, NEW w \in V, w \in Succ(v), Num[w] < Num[v]
      PROVE  w \in T
  <2>1. Num[w] < Num[d]
    BY <1>2, <1>3, <1>5
  <2>2. w # d
    BY <1>3, <2>1
  <2>. QED BY <1>2, <1>5, <2>1, <2>2, AvoidingFacts
<1>6. Down(y) \subseteq T
  <2>1. T \in SUBSET V /\ y \in T
    BY <1>1, <1>2
  <2>. HIDE DEF T
  <2>. QED BY <1>2, <1>5, <2>1, DownLeast
<1>. QED
  BY <1>4, <1>6

LEMMA AssignKeepsDominators ==
  ASSUME PassInv, [Next]_vars, stack = <<>>, Assign, NEW y \in V, NEW z \in V,
         Assigning(y, z), Reparented(y, z)
  PROVE  Keeping'
<1>1. /\ V' = V /\ \A a : Down(a)' = Down(a) /\ \A d : Avoiding(d)' = Avoiding(d)
  BY InputKept, Frozen DEF Assign, search
<1>2. /\ Keeping /\ in \in Inputs
      /\ \A v \in V : Processed(v) =>
           Chain(v) \in SUBSET V /\ v \in Chain(v) /\ \A c \in Chain(v) : Processed(c)
  BY PassFacts DEF PassBody, PassInv, SearchInv
<1>3. /\ \A d \in V \ {y} : y \notin Avoiding(d) => d \in Chain(z)
      /\ \A v \in Chain(z) : y \in Down(v)
  BY AssignDominates
<1>4. /\ \A v \in V : Processed(v)' <=> Processed(v) \/ v = y
      /\ Chain(y)' = {y} \cup Chain(z)
      /\ \A v \in V : y \notin Chain(v) => Chain(v)' = Chain(v)
      /\ \A v \in V : Processed(v) /\ y \in Chain(v) =>
           Chain(v)' = {x \in Chain(v) : y \in Chain(x)} \cup Chain(z)
      /\ Chain(z) \subseteq V
  <2>1. Chain(z) \subseteq V
    BY <1>2 DEF Assigning
  <2>. QED BY <2>1 DEF Reparented
<1>5. ASSUME NEW f \in V, Processed(f)'
      PROVE  /\ \A d \in V \ {f} : f \notin Avoiding(d) => d \in Chain(f)'
             /\ \A v \in Chain(f)' : f \in Down(v)
  <2>1. CASE f = y
    <3>1. y \in Down(y)
      BY <1>2, DownFacts
    <3>. QED BY <1>3, <1>4, <2>1, <3>1
  <2>2. CASE f # y /\ y \notin Chain(f)
    BY <1>2, <1>4, <1>5, <2>2 DEF Keeping
  <2>3. CASE f # y /\ y \in Chain(f)
    <3>1. Processed(f) /\ Chain(f)' = {x \in Chain(f) : y \in Chain(x)} \cup Chain(z)
      BY <1>4, <1>5, <2>3
    <3>2. Processed(y) /\ f \in Down(y)
      BY <1>2, <2>3, <3>1 DEF Keeping
    <3>3. ASSUME NEW d \in V \ {f}, f \notin Avoiding(d)
          PROVE  d \in Chain(f)'
      <4>1. d \in Chain(f)
        BY <1>2, <3>1, <3>3 DEF Keeping
      <4>2. CASE y \in Chain(d)
        BY <3>1, <4>1, <4>2
      <4>3. CASE y \notin Chain(d)
        <5>1. d # y
          BY <1>2, <3>2, <4>3
        <5>2. d \in Chain(y)
          <6>1. /\ Climbs(V, VirtualRoot, Num, idom)
                /\ \A v : Chain(v) = ChainOf(idom, v)
                /\ idom[f] # NoNode
            BY <3>1, PassFacts DEF Processed
          <6>2. /\ y \in ChainOf(idom, f) /\ d \in ChainOf(idom, f)
                /\ ~(y \in ChainOf(idom, d))
            BY <2>3, <4>1, <4>3, <6>1
          <6>3. Num[d] <= Num[y] \/ Num[y] <= Num[d]
            BY Numbering DEF PassInv
          <6>. QED BY <6>1, <6>2, <6>3, ChainOrdered
        <5>3. y \notin Avoiding(d)
          BY <2>3, <3>1, <3>3, <5>1, <5>2, AboveDominates
        <5>. QED BY <1>3, <3>1, <5>1, <5>3
      <4>. QED BY <4>2, <4>3
    <3>4. ASSUME NEW v \in Chain(f)'
          PROVE  f \in Down(v)
      <4>1. CASE v \in Chain(f)
        BY <1>2, <3>1, <4>1 DEF Keeping
      <4>2. CASE v \in Chain(z)
        <5>1. y \in Down(v) /\ v \in V
          BY <1>3, <1>4, <4>2
        <5>. QED BY <1>2, <3>2, <5>1, DownInside
      <4>. QED BY <3>1, <3>4, <4>1, <4>2
    <3>. QED BY <3>3, <3>4
  <2>. QED BY <2>1, <2>2, <2>3
<1>. QED
  BY <1>1, <1>5 DEF Keeping

LEMMA AssignKeepsAgreement ==
  ASSUME PassInv, [Next]_vars, stack = <<>>, Assign, NEW y \in V, NEW z \in V,
         Assigning(y, z), Reparented(y, z)
  PROVE  Agreeing' /\ Settling'
<1>1. /\ order' = order /\ todo' = todo - 1 /\ changed' = (changed \/ Improves)
      /\ \A v : Pred(v)' = Pred(v) /\ Num' = Num
  BY InputKept, Frozen DEF Assign, search
<1>2. /\ Len(order) \in Nat /\ todo \in Nat /\ todo > 0
      /\ \A k \in 1 .. Len(order) : order[k] \in V /\ Num[order[k]] = k
      /\ \A v \in V : Num[v] \in 1 .. Len(order)
      /\ VirtualRoot \in V /\ Num[VirtualRoot] = Len(order)
  BY Numbering DEF PassInv, PassTypes, Assigning
<1>3. /\ y = order[todo] /\ z = newIdom /\ Num[y] = todo /\ y \in Measured /\ Processed(z)
      /\ Num[y] < Num[z]
      /\ \A p \in Pred(y) : Processed(p) => Chain(z) \subseteq Chain(p)
  BY DEF Assigning
<1>4. /\ \A v \in V : Processed(v)' <=> Processed(v) \/ v = y
      /\ idom'[y] = z /\ \A v \in V \ {y} : idom'[v] = idom[v]
  BY DEF Reparented
<1>5. \A v \in V : Num[y] < Num[v] => Processed(v) /\ Chain(v)' = Chain(v)
  BY AssignAbove
<1>6. Agreeing /\ Settling
  BY PassFacts DEF PassBody
<1>7. \A k \in todo' + 1 .. Len(order') - 1 : k = todo \/ k \in todo + 1 .. Len(order) - 1
  BY <1>1, <1>2
<1>8. ASSUME NEW k \in todo + 1 .. Len(order) - 1
      PROVE  /\ order[k] \in V \ {y} /\ Num[y] < k /\ k \in Nat
             /\ idom[order[k]] \in V /\ Num[y] < Num[idom[order[k]]]
  <2>1. k \in 1 .. Len(order) /\ Num[y] < k /\ k \in Nat
    BY <1>2, <1>3
  <2>2. order[k] \in V \ {y} /\ Num[order[k]] = k
    BY <1>2, <1>3, <2>1
  <2>3. Processed(order[k]) /\ order[k] \in Measured
    <3>1. order[k] # VirtualRoot
      BY <1>2, <2>2
    <3>. QED BY <1>5, <2>1, <2>2, <3>1 DEF V
  <2>4. idom[order[k]] \in V /\ k < Num[idom[order[k]]]
    BY <2>2, <2>3, PassFacts
  <2>5. Num[idom[order[k]]] \in Nat /\ Num[y] \in Nat
    BY <1>2, <1>3, <2>4
  <2>6. Num[y] < Num[idom[order[k]]]
    BY <2>1, <2>4, <2>5
  <2>. QED BY <2>1, <2>2, <2>4, <2>6
<1>9. Agreeing'
  <2>1. SUFFICES ASSUME NEW k \in todo' + 1 .. Len(order) - 1, NEW q \in Pred(order[k]), Num[q] > k
                 PROVE  Chain(idom[order[k]])' \subseteq Chain(q)'
    BY <1>1 DEF Agreeing
  <2>2. q \in V
    BY DEF Pred
  <2>3. CASE k = todo
    <3>1. Chain(z) \subseteq Chain(q) /\ Chain(q)' = Chain(q)
      BY <1>2, <1>3, <1>5, <2>1, <2>2, <2>3
    <3>2. Chain(z)' = Chain(z)
      BY <1>3, <1>5
    <3>3. (idom[order[k]])' = z
      BY <1>1, <1>3, <1>4, <2>3
    <3>. QED BY <3>1, <3>2, <3>3
  <2>4. CASE k \in todo + 1 .. Len(order) - 1
    <3>1. PICK e \in V : e = idom[order[k]]
      BY <1>8, <2>4
    <3>2. Num[y] < Num[e] /\ (idom[order[k]])' = e
      BY <1>1, <1>4, <1>8, <2>4, <3>1
    <3>3. Num[y] < Num[q]
      BY <1>2, <1>8, <2>1, <2>2, <2>4
    <3>4. Chain(e)' = Chain(e) /\ Chain(q)' = Chain(q)
      BY <1>5, <2>2, <3>2, <3>3
    <3>5. Chain(e) \subseteq Chain(q)
      BY <1>2, <1>6, <2>1, <2>4, <3>1 DEF Agreeing
    <3>. QED BY <3>2, <3>4, <3>5
  <2>. QED BY <1>1, <1>7, <2>1, <2>3, <2>4
<1>10. Settling'
  <2>1. SUFFICES ASSUME ~changed'
                 PROVE  Settling'
    BY DEF Settling
  <2>2. ~changed /\ ~Improves /\ idom' = idom
    BY <1>1, <2>1 DEF Assign
  <2>3. /\ \A v : Chain(v)' = Chain(v)
        /\ \A v : Processed(v)' <=> Processed(v)
    BY <2>2, Frozen DEF Assign, search
  <2>4. idom[y] = z
    BY <1>3, <1>4, <2>2
  <2>5. ASSUME NEW k \in todo' + 1 .. Len(order) - 1, NEW q \in Pred(order[k]), Processed(q)
        PROVE  Chain(idom[order[k]]) \subseteq Chain(q)
    <3>1. CASE k = todo
      BY <1>3, <2>4, <2>5, <3>1
    <3>2. CASE k \in todo + 1 .. Len(order) - 1
      BY <1>6, <2>2, <2>5, <3>2 DEF Settling
    <3>. QED BY <1>1, <1>7, <2>5, <3>1, <3>2
  <2>. QED BY <1>1, <2>2, <2>3, <2>5 DEF Settling
<1>. QED
  BY <1>9, <1>10

LEMMA AssignKeepsRising ==
  ASSUME PassInv, [Next]_vars, stack = <<>>, Assign, NEW y \in V, NEW z \in V,
         Assigning(y, z), Reparented(y, z)
  PROVE  Rising'
<1>1. V' = V /\ Measured' = Measured /\ Num' = Num /\ \A v : Pred(v)' = Pred(v)
  BY InputKept, Frozen DEF Assign, search
<1>2. /\ y \in Measured /\ Processed(z)
      /\ \A p \in Pred(y) : Processed(p) => Chain(z) \subseteq Chain(p)
      /\ \A c \in V : (\A p \in Pred(y) : Processed(p) => c \in Chain(p)) => c \in Chain(z)
  BY DEF Assigning
<1>3. /\ \A v \in V : Processed(v)' <=> Processed(v) \/ v = y
      /\ idom'[y] = z /\ \A v \in V \ {y} : idom'[v] = idom[v]
      /\ \A v \in V : y \notin Chain(v) => Chain(v)' = Chain(v)
      /\ \A v \in V : Processed(v) /\ y \in Chain(v) =>
           Chain(v)' = {x \in Chain(v) : y \in Chain(x)} \cup Chain(z)
  BY DEF Reparented
<1>4. /\ Rising
      /\ \A v \in V : Processed(v) =>
           /\ Chain(v) \in SUBSET V
           /\ \A c \in Chain(v) : Processed(c) /\ Num[v] <= Num[c]
      /\ \A v \in V : Num[v] \in Nat
      /\ \A v : Pred(v) \subseteq V
      /\ Measured \subseteq V
  BY PassFacts, Numbering DEF PassBody, PassInv, Pred, V
<1>5. \A v \in V : Processed(v) => Chain(v)' \subseteq Chain(v)
  BY AssignShrinks
<1>6. ASSUME NEW v \in Measured, Processed(v)', NEW c \in V,
             \A p \in Pred(v) : Processed(p)' => c \in Chain(p)'
      PROVE  Num[c] >= Num[idom'[v]]
  <2>1. \A p \in Pred(v) : Processed(p) => c \in Chain(p)'
    BY <1>3, <1>4, <1>6
  <2>2. CASE v = y
    <3>1. PICK u \in Pred(y) : Processed(u) /\ Num[y] < Num[u]
      BY DEF Assigning
    <3>2. u \in V /\ Chain(u)' = Chain(u)
      BY <1>4, <3>1, AssignAbove
    <3>3. Num[y] < Num[c]
      <4>1. c \in Chain(u)
        BY <2>1, <2>2, <3>1, <3>2
      <4>. QED BY <1>4, <3>1, <3>2, <4>1
    <3>4. ASSUME NEW p \in Pred(y), Processed(p)
          PROVE  c \in Chain(p)
      BY <1>4, <1>5, <2>1, <2>2, <3>4
    <3>5. c \in Chain(z)
      BY <1>2, <3>4
    <3>. QED BY <1>2, <1>3, <1>4, <2>2, <3>5
  <2>3. CASE v # y
    <3>1. \A p \in Pred(v) : Processed(p) => c \in Chain(p)
      BY <1>4, <1>5, <2>1
    <3>2. Processed(v) /\ idom'[v] = idom[v]
      BY <1>3, <1>4, <1>6, <2>3
    <3>. QED BY <1>4, <3>1, <3>2 DEF Rising
  <2>. QED BY <2>2, <2>3
<1>. QED
  BY <1>1, <1>6 DEF Rising

LEMMA AssignKeeps ==
  ASSUME PassInv, [Next]_vars, Assign, stack = <<>>
  PROVE  PassTypes' /\ PassBody' /\ stack' = <<>>
<1>1. /\ todo > 0 /\ preds = {}
      /\ changed' = (changed \/ Improves) /\ todo' = todo - 1
      /\ preds' = IF todo > 1 THEN Pred(order[todo - 1]) ELSE {}
      /\ newIdom' = NoNode
      /\ stack' = stack /\ order' = order /\ marked' = marked /\ bottleneck' = bottleneck
  BY DEF Assign, search
<1>2. PICK y, z \in V : Assigning(y, z)
  BY <1>1, AssignMeans
<1>3. Reparented(y, z)
  BY <1>2, AssignReparents
<1>4. PassBody /\ PassTypes /\ SearchInv
  BY PassFacts DEF PassInv
<1>5. /\ V' = V /\ Measured' = Measured /\ \A v : Pred(v)' = Pred(v)
      /\ \A v : Pred(v) \subseteq V
  BY InputKept DEF Pred
<1>6. Len(order) \in Nat /\ todo \in Nat /\ todo < Len(order)
  BY <1>4, Numbering DEF PassTypes, PassBody, Meeting
<1>7. idom' \in [V -> V \cup {NoNode}] /\ idom'[VirtualRoot] = VirtualRoot /\ ChainsClimb'
  BY <1>3 DEF Reparented
<1>8. PassTypes'
  <2>1. changed' \in BOOLEAN
    BY <1>1, <1>4 DEF PassTypes, Improves
  <2>2. todo' \in 0 .. Len(order') /\ preds' \subseteq V
    BY <1>1, <1>5, <1>6
  <2>. QED BY <1>1, <1>4, <1>5, <1>7, <2>1, <2>2 DEF PassTypes
<1>9. Meeting'
  <2>1. todo' < Len(order')
    BY <1>1, <1>6
  <2>2. todo' = 0 => preds' = {}
    BY <1>1, <1>6
  <2>3. todo' > 0 => preds' = Pred(order[todo'])
    BY <1>1, <1>6
  <2>4. todo' > 0 => Met' = {}
    BY <1>1, <1>5, <2>3 DEF Met
  <2>. QED BY <1>1, <1>5, <2>1, <2>2, <2>3, <2>4 DEF Meeting
<1>10. Advancing'
  <2>1. ASSUME NEW k \in todo' + 1 .. Len(order)
        PROVE  Processed(order[k])'
    <3>1. \A v \in V : Processed(v)' <=> Processed(v) \/ v = y
      BY <1>3 DEF Reparented
    <3>2. k \in 1 .. Len(order) /\ order[k] \in V
      <4>1. k \in 1 .. Len(order)
        BY <1>1, <1>6
      <4>. QED BY <1>4, <4>1, Numbering
    <3>3. PICK v \in V : v = order[k] /\ v = (order[k])'
      BY <1>1, <3>2
    <3>4. CASE k = todo
      BY <1>2, <3>1, <3>3, <3>4 DEF Assigning
    <3>5. CASE k # todo
      <4>1. k \in todo + 1 .. Len(order)
        BY <1>1, <1>6, <3>5
      <4>2. Processed(v)
        BY <1>1, <1>4, <3>3, <4>1 DEF PassBody, Advancing
      <4>. QED BY <3>1, <3>3, <4>2
    <3>. QED BY <3>4, <3>5
  <2>. QED BY <1>1, <2>1 DEF Advancing
<1>11. Keeping' /\ Agreeing' /\ Settling' /\ Rising'
  BY <1>2, <1>3, AssignKeepsDominators, AssignKeepsAgreement, AssignKeepsRising
<1>12. Marking'
  BY <1>1, <1>4 DEF PassBody, Marking
<1>. QED
  BY <1>1, <1>7, <1>8, <1>9, <1>10, <1>11, <1>12 DEF PassBody

LEMMA PassNext ==
  ASSUME PassInv, [Next]_vars
  PROVE  PassInv'
<1>1. SearchInv'
  BY SearchNext DEF PassInv
<1>2. /\ in' = in /\ V' = V /\ Measured' = Measured
      /\ \A v : Pred(v)' = Pred(v)
  BY InputKept
<1>3. CASE stack # <<>>
  <2>1. Untouched /\ PassTypes
    BY <1>3 DEF PassInv
  <2>2. todo = 0
    BY <2>1 DEF Untouched
  <2>3. ~StartPass /\ ~Assign /\ ~Meet /\ ~Mark
    <3>1. ~Meet
      BY <2>1 DEF Meet, Untouched
    <3>. QED BY <1>3, <2>2, <3>1 DEF StartPass, Assign, Mark, Between
  <2>4. Seed \/ Pop \/ Visit \/ Look \/ Finish \/ UNCHANGED vars
    BY <2>3 DEF Next
  <2>5. passes' = passes /\ marked' = marked /\ bottleneck' = bottleneck
    BY <2>4 DEF Seed, Pop, Visit, Look, Finish, vars
  <2>6. /\ idom' = idom /\ changed' = changed /\ todo' = todo /\ preds' = preds
        /\ newIdom' = newIdom
    BY <2>5 DEF passes
  <2>7. Untouched'
    BY <1>2, <2>1, <2>5, <2>6 DEF Untouched
  <2>8. PassTypes'
    <3>1. Len(order') \in Nat
      BY <1>1 DEF SearchInv, SearchTypes
    <3>2. todo' \in 0 .. Len(order')
      BY <2>2, <2>6, <3>1
    <3>. QED BY <1>2, <2>1, <2>5, <2>6, <3>2 DEF PassTypes
  <2>9. stack' = <<>> => PassBody'
    <3>1. (SearchInv /\ PassTypes /\ stack = <<>> /\ Untouched => PassBody)'
      BY PassesStart, PTL
    <3>. QED BY <1>1, <2>7, <2>8, <3>1
  <2>. QED BY <1>1, <2>7, <2>8, <2>9 DEF PassInv
<1>4. CASE stack = <<>>
  <2>1. CASE Seed \/ Pop \/ Visit \/ UNCHANGED vars
    <3>1. /\ search' = search /\ passes' = passes /\ marked' = marked /\ bottleneck' = bottleneck
      BY <2>1 DEF Seed, Pop, Visit, vars
    <3>2. /\ stack' = stack /\ order' = order
          /\ idom' = idom /\ changed' = changed /\ todo' = todo /\ preds' = preds
          /\ newIdom' = newIdom
      BY <3>1 DEF search, passes
    <3>3. /\ \A v : Chain(v)' = Chain(v)
          /\ \A v : Processed(v)' <=> Processed(v)
          /\ Num' = Num
      BY <3>2, Frozen
    <3>4. PassBody /\ PassTypes
      BY <1>4, PassFacts DEF PassInv
    <3>5. Met' = Met
      BY <1>2, <3>2, <3>3 DEF Met
    <3>6. Meeting'
      BY <1>2, <3>2, <3>3, <3>4, <3>5 DEF Meeting, PassBody
    <3>7. Advancing' /\ Agreeing' /\ Settling'
      BY <1>2, <3>2, <3>3, <3>4 DEF Advancing, Agreeing, Settling, PassBody
    <3>8. Marking'
      <4>1. Idoms' = Idoms
        BY <1>2, <3>2 DEF Idoms
      <4>. QED BY <3>1, <3>2, <3>4, <4>1 DEF Marking, PassBody
    <3>9. idom'[VirtualRoot] = VirtualRoot /\ ChainsClimb' /\ Keeping' /\ Rising'
      BY <1>4, <3>1, <3>2, FrozenKeeps
    <3>10. PassTypes'
      BY <1>2, <3>1, <3>2, <3>4 DEF PassTypes
    <3>. QED
      BY <1>1, <1>4, <3>2, <3>6, <3>7, <3>8, <3>9, <3>10 DEF PassInv, PassBody
  <2>2. CASE StartPass
    BY <1>1, <2>2, StartPassKeeps DEF PassInv
  <2>3. CASE Meet
    BY <1>1, <1>4, <2>3, MeetKeeps DEF PassInv
  <2>4. CASE Assign
    BY <1>1, <1>4, <2>4, AssignKeeps DEF PassInv
  <2>5. CASE Mark
    BY <1>1, <1>4, <2>5, MarkKeeps DEF PassInv
  <2>6. ~Look /\ ~Finish
    BY <1>4 DEF Look, Finish
  <2>. QED BY <2>1, <2>2, <2>3, <2>4, <2>5, <2>6 DEF Next
<1>. QED
  BY <1>3, <1>4

LEMMA PassInit ==
  ASSUME Init
  PROVE  PassInv
<1>1. SearchInv
  BY SearchInit
<1>2. Untouched /\ stack # <<>>
  BY DEF Init, Untouched
<1>3. PassTypes
  <2>1. /\ Len(order) = 0 /\ todo = 0 /\ bottleneck = {} /\ VirtualRoot \in V
        /\ changed = TRUE /\ marked = FALSE /\ preds = {} /\ newIdom = NoNode
    BY DEF Init, V
  <2>2. idom \in [V -> V \cup {NoNode}]
    BY <2>1 DEF Init
  <2>3. todo \in 0 .. Len(order)
    BY <2>1
  <2>. QED BY <2>1, <2>2, <2>3 DEF PassTypes
<1>. QED
  BY <1>1, <1>2, <1>3 DEF PassInv

LEMMA PassHolds == Spec => []PassInv
BY PassInit, PassNext, PTL DEF Spec

-----------------------------------------------------------------------------
LEMMA InvHolds ==
  ASSUME ThreadInv, SearchInv, PassInv
  PROVE  Inv
<1>1. ChainsClimb
  <2>1. CASE stack = <<>>
    BY <2>1, PassFacts DEF PassBody
  <2>2. CASE stack # <<>>
    BY <2>2 DEF ChainsClimb
  <2>. QED BY <2>1, <2>2
<1>2. TypeOK
  BY DEF TypeOK, ThreadInv, ThreadTypes, SearchInv, SearchTypes, PassInv, PassTypes
<1>. QED
  BY <1>1, <1>2 DEF Inv

(***************************************************************************)
(* The variables have their types, and when intersect climbs from a        *)
(* processed node, it climbs through processed nodes of ever larger        *)
(* numbers to the virtual root: idom is never read at the -1.              *)
(***************************************************************************)
THEOREM ChainsAlwaysClimb == Spec => []Inv
BY ThreadHolds, SearchHolds, PassHolds, InvHolds, PTL

(* What lies on a chain that no pass changes any more dominates.           *)
LEMMA FixedPointDominates ==
  ASSUME PassInv, marked
  PROVE  /\ stack = <<>> /\ bottleneck = Idoms
         /\ \A v \in V : Processed(v)
         /\ \A f \in V, d \in V \ {VirtualRoot} : d \in Chain(f) => f \notin Avoiding(d)
<1>1. stack = <<>>
  BY DEF PassInv, Untouched
<1>2. PassBody /\ PassTypes /\ SearchInv
  BY <1>1, PassFacts DEF PassInv
<1>3. ~changed /\ todo = 0 /\ bottleneck = Idoms
  BY <1>2 DEF PassBody, Marking
<1>4. /\ Len(order) \in Nat
      /\ \A v \in V : Num[v] \in 1 .. Len(order) /\ order[Num[v]] = v
      /\ \A v \in Measured : Num[v] < Len(order)
  BY <1>1, <1>2, Numbering
<1>5. \A v \in V : Processed(v)
  <2>1. \A k \in 1 .. Len(order) : Processed(order[k])
    BY <1>2, <1>3 DEF PassBody, Advancing
  <2>. QED BY <1>4, <2>1
<1>6. /\ in \in Inputs /\ Measured \subseteq V /\ VirtualRoot \in V
      /\ \A v \in Measured : Chain(v) = {v} \cup Chain(idom[v])
  BY <1>1, <1>2, <1>5, PassFacts DEF SearchInv, V
<1>7. \A w \in Measured : \A v \in Pred(w) : Chain(idom[w]) \subseteq Chain(v)
  <2>1. ASSUME NEW w \in Measured, NEW v \in Pred(w)
        PROVE  Chain(idom[w]) \subseteq Chain(v)
    <3>1. Num[w] \in todo + 1 .. Len(order) - 1 /\ order[Num[w]] = w
      BY <1>3, <1>4, <1>6
    <3>2. Processed(v)
      BY <1>5 DEF Pred
    <3>. QED BY <1>2, <1>3, <3>1, <3>2 DEF PassBody, Settling
  <2>. QED BY <2>1
<1>8. ASSUME NEW f \in V, NEW d \in V \ {VirtualRoot}, d \in Chain(f)
      PROVE  f \notin Avoiding(d)
  <2>. DEFINE T == {x \in V : d \notin Chain(x)}
  <2>1. VirtualRoot \in T
    <3>1. Chain(VirtualRoot) = {VirtualRoot}
      BY <1>1, <1>6, PassFacts, ChainOfRoot
    <3>. QED BY <1>6, <3>1
  <2>2. ASSUME NEW v \in T, NEW w \in Succ(v) \ {d}
        PROVE  w \in T
    <3>1. w \in Measured /\ v \in Pred(w)
      BY <1>6, <2>2, SuccFacts DEF Pred
    <3>. QED BY <1>6, <1>7, <2>2, <3>1
  <2>3. Avoiding(d) \subseteq T
    <3>1. T \in SUBSET V
      OBVIOUS
    <3>. HIDE DEF T
    <3>. QED BY <1>6, <2>1, <2>2, <3>1, AvoidingFacts
  <2>. QED BY <1>8, <2>3
<1>. QED
  BY <1>1, <1>3, <1>5, <1>8

LEMMA MarkedIsExact ==
  ASSUME PassInv
  PROVE  BottleneckExact
<1>1. SUFFICES ASSUME marked
               PROVE  Idoms = {d \in Measured : \E f \in Measured : StrictlyDominates(d, f)}
  BY FixedPointDominates DEF BottleneckExact
<1>2. /\ stack = <<>>
      /\ \A v \in V : Processed(v)
      /\ \A f \in V, d \in V \ {VirtualRoot} : d \in Chain(f) => f \notin Avoiding(d)
  BY <1>1, FixedPointDominates
<1>3. /\ Measured \subseteq V /\ VirtualRoot \notin Measured /\ NoNode \notin V
      /\ V = Measured \cup {VirtualRoot}
      /\ \A v \in V : Num[v] \in Nat
  BY <1>2, InputFacts, Numbering DEF PassInv, SearchInv, V
<1>4. /\ Keeping /\ idom[VirtualRoot] = VirtualRoot
      /\ \A v \in V : Chain(v) \in SUBSET V /\ v \in Chain(v)
      /\ \A v \in Measured :
           /\ idom[v] \in V /\ Num[v] < Num[idom[v]]
           /\ Chain(v) = {v} \cup Chain(idom[v])
  BY <1>2, <1>3, PassFacts DEF PassBody
<1>5. \A d, f : StrictlyDominates(d, f) <=> d # f /\ f \notin Avoiding(d)
  BY DEF StrictlyDominates, Avoiding
<1>6. ASSUME NEW d \in Idoms
      PROVE  d \in Measured /\ \E f \in Measured : StrictlyDominates(d, f)
  <2>1. PICK v \in Measured : d = idom[v]
    BY DEF Idoms
  <2>2. d \in V \ {VirtualRoot} /\ d \in Chain(v) /\ d # v
    BY <1>3, <1>4, <2>1 DEF Idoms
  <2>. QED BY <1>2, <1>3, <1>5, <2>2
<1>7. ASSUME NEW d \in Measured, NEW f \in Measured, StrictlyDominates(d, f)
      PROVE  d \in Idoms
  <2>1. d \in Chain(f) /\ d # f
    BY <1>2, <1>3, <1>4, <1>5, <1>7 DEF Keeping
  <2>. DEFINE T == {y \in Chain(f) : y = f \/ \E x \in Measured : idom[x] = y}
  <2>2. ASSUME NEW y \in T
        PROVE  idom[y] \in T
    <3>1. CASE y = VirtualRoot
      BY <1>4, <3>1
    <3>2. CASE y # VirtualRoot
      <4>1. y \in Measured
        BY <1>3, <1>4, <3>2
      <4>2. idom[y] \in Chain(y)
        BY <1>4, <4>1
      <4>3. Chain(y) \subseteq Chain(f)
        BY <1>2, <1>3, PassFacts
      <4>. QED BY <4>1, <4>2, <4>3
    <3>. QED BY <3>1, <3>2
  <2>3. Chain(f) \subseteq T
    <3>1. T \in SUBSET V /\ f \in T
      BY <1>3, <1>4
    <3>2. /\ IsFiniteSet(V) /\ idom \in [V -> V \cup {NoNode}]
          /\ Chain(f) = ChainOf(idom, f) /\ f \in V
      BY <1>2, <1>3, PassFacts, InputFacts DEF PassInv, PassTypes, SearchInv
    <3>. HIDE DEF T
    <3>. QED BY <2>2, <3>1, <3>2, ChainLeast
  <2>4. PICK x \in Measured : idom[x] = d
    BY <2>1, <2>3
  <2>. QED BY <1>3, <2>4 DEF Idoms
<1>. QED
  BY <1>6, <1>7

(***************************************************************************)
(* When the passes have ended, the functions marked are exactly those that *)
(* every path from a root to some other reached function goes through,     *)
(* whatever the order of successors and predecessors.                      *)
(***************************************************************************)
THEOREM BottlenecksAreDominators == Spec => []BottleneckExact
BY PassHolds, MarkedIsExact, PTL

LEMMA IdomStep ==
  ASSUME PassInv, [Next]_vars
  PROVE  [\A v \in Measured : idom[v] # NoNode => idom'[v] \in Chain(v) \ {v}]_idom
<1>1. SUFFICES ASSUME idom' # idom, NEW v \in Measured, idom[v] # NoNode
               PROVE  idom'[v] \in Chain(v) \ {v}
  OBVIOUS
<1>2. Assign
  BY <1>1 DEF Next, vars, passes, Seed, Pop, Visit, Look, Finish, StartPass, Meet, Mark
<1>3. stack = <<>> /\ todo > 0 /\ preds = {}
  BY <1>2 DEF Assign, PassInv, Untouched
<1>4. PICK y, z \in V : Assigning(y, z)
  BY <1>3, AssignMeans
<1>5. idom'[y] = z /\ \A x \in V \ {y} : idom'[x] = idom[x]
  BY <1>2, <1>3, <1>4, AssignReparents DEF Reparented
<1>6. Processed(v) /\ v \in V
  BY <1>1 DEF Processed, V
<1>7. CASE v = y
  BY <1>3, <1>4, <1>5, <1>6, <1>7, AssignRises
<1>8. CASE v # y
  <2>1. /\ idom[v] \in V /\ Processed(idom[v]) /\ Num[v] < Num[idom[v]]
        /\ Chain(v) = {v} \cup Chain(idom[v])
    BY <1>1, <1>3, <1>6, PassFacts
  <2>2. idom[v] \in Chain(idom[v])
    BY <1>3, <2>1, PassFacts
  <2>3. v # idom[v]
    BY <1>3, <1>6, <2>1, Numbering DEF PassInv
  <2>. QED BY <1>5, <1>6, <1>8, <2>1, <2>2, <2>3
<1>. QED
  BY <1>7, <1>8

(***************************************************************************)
(* A pass that gives a function another immediate dominator takes it from  *)
(* the function's own chain, so the passes cannot go round in circles.     *)
(***************************************************************************)
THEOREM IdomOnlyRises == Spec => IdomRises
<1>1. PassInv /\ [Next]_vars
        => [\A v \in Measured : idom[v] # NoNode => idom'[v] \in Chain(v) \ {v}]_idom
  BY IdomStep
<1>. QED
  BY <1>1, PassHolds, PTL DEF Spec, IdomRises

-----------------------------------------------------------------------------
(***************************************************************************)
(* Every step lowers a measure, the parts of which count in this order:    *)
(* what computeInteresting has left, what the depth-first search has left, *)
(* and what the passes have left.                                          *)
(***************************************************************************)
Within(A, B) == A \subseteq B /\ A # B

ThreadingAdvances ==
  \/ Within(seeds', seeds)
  \/ UNCHANGED seeds /\ Within(interesting, interesting')
  \/ UNCHANGED <<seeds, interesting>> /\ Len(work') < Len(work)
  \/ UNCHANGED <<seeds, interesting, work>> /\ Within(pending', pending)

SearchAdvances ==
  /\ UNCHANGED threading
  /\ \/ Within(visited, visited')
     \/ UNCHANGED visited /\ Len(stack') < Len(stack)
     \/ UNCHANGED visited /\ Len(stack') = Len(stack) /\ Within(Top.left', Top.left)

(* What can still be found on the chain of a function; NoNode stands for   *)
(* its having no chain yet.                                                *)
Candidates ==
  {p \in Measured \X (V \cup {NoNode}) : Processed(p[1]) => p[2] \in Chain(p[1])}

(* A pass may start over only after candidates have gone.                  *)
PassAdvances ==
  /\ UNCHANGED <<threading, search>>
  /\ \/ Within(Candidates', Candidates)
     \/ /\ UNCHANGED Candidates
        /\ \/ changed /\ ~changed'
           \/ UNCHANGED changed /\ todo' < todo
           \/ UNCHANGED <<changed, todo>> /\ Within(preds', preds)
           \/ UNCHANGED <<changed, todo, preds>> /\ ~marked /\ marked'

Advances ==
  /\ UNCHANGED <<Measured, V>>
  /\ ThreadingAdvances \/ SearchAdvances \/ PassAdvances

LEMMA ThreadStepAdvances ==
  ASSUME ThreadInv, Seed \/ Pop \/ Visit
  PROVE  ThreadingAdvances
<1>1. work \in Seq(Measured)
  BY DEF ThreadInv, ThreadTypes
<1>2. CASE Seed
  BY <1>2 DEF Seed, ThreadingAdvances, Within
<1>3. CASE Pop
  <2>1. Len(work') < Len(work)
    BY <1>1, <1>3 DEF Pop
  <2>. QED BY <1>3, <2>1 DEF Pop, ThreadingAdvances
<1>4. CASE Visit
  <2>1. PICK f \in pending : Flag(f) /\ pending' = pending \ {f} /\ seeds' = seeds
    BY <1>4 DEF Visit
  <2>2. CASE Qualifies(f)
    BY <2>1, <2>2 DEF Flag, Qualifies, ThreadingAdvances, Within
  <2>3. CASE ~Qualifies(f)
    BY <2>1, <2>3 DEF Flag, ThreadingAdvances, Within
  <2>. QED BY <2>2, <2>3
<1>. QED
  BY <1>2, <1>3, <1>4

LEMMA SearchStepAdvances ==
  ASSUME SearchInv, Look \/ Finish
  PROVE  SearchAdvances
<1>1. stack \in Seq(Frame) /\ stack # <<>> /\ UNCHANGED threading
  BY DEF SearchInv, SearchTypes, Look, Finish
<1>2. /\ Len(stack) \in Nat /\ Len(stack) >= 1
      /\ Below \in Seq(Frame) /\ Len(Below) = Len(stack) - 1
      /\ Top = stack[Len(stack)]
  BY <1>1, BelowFacts
<1>3. CASE Look
  <2>1. PICK w \in V : Looked(w, Len(stack)) /\ w \in Top.left
    BY <1>1, <1>2, <1>3, LookLooks DEF Looked
  <2>2. CASE w \in visited
    <3>1. visited' = visited /\ Len(stack') = Len(stack)
      BY <2>1, <2>2 DEF Looked
    <3>2. Top'.left = Top.left \ {w}
      BY <1>2, <2>1, <3>1 DEF Looked, Top
    <3>. QED BY <1>1, <2>1, <3>1, <3>2 DEF SearchAdvances, Within
  <2>3. CASE w \notin visited
    BY <1>1, <2>1, <2>3 DEF Looked, SearchAdvances, Within
  <2>. QED BY <2>2, <2>3
<1>4. CASE Finish
  <2>1. visited' = visited /\ Len(stack') < Len(stack)
    BY <1>2, <1>4 DEF Finish
  <2>. QED BY <1>1, <2>1 DEF SearchAdvances
<1>. QED
  BY <1>3, <1>4

LEMMA AssignDropsCandidates ==
  ASSUME PassInv, [Next]_vars, Assign, idom' # idom
  PROVE  Within(Candidates', Candidates)
<1>1. stack = <<>> /\ todo > 0 /\ preds = {}
  BY DEF Assign, PassInv, Untouched
<1>2. PICK y, z \in V : Assigning(y, z)
  BY <1>1, AssignMeans
<1>3. Reparented(y, z) /\ Measured' = Measured /\ V' = V
  BY <1>1, <1>2, AssignReparents, InputKept
<1>4. /\ y \in Measured /\ z \in V /\ Processed(z) /\ Num[y] < Num[z]
      /\ idom'[y] = z /\ \A v \in V \ {y} : idom'[v] = idom[v]
      /\ \A v \in V : Processed(v)' <=> Processed(v) \/ v = y
      /\ Chain(y)' = {y} \cup Chain(z)
  BY <1>2, <1>3 DEF Assigning, Reparented
<1>5. /\ NoNode \notin V /\ Measured \subseteq V
      /\ \A v \in V : Processed(v) => Chain(v) \in SUBSET V /\ v \in Chain(v)
  BY <1>1, PassFacts, InputFacts DEF PassInv, SearchInv, V
<1>6. \A v \in V : Processed(v) => Chain(v)' \subseteq Chain(v)
  BY <1>1, <1>2, <1>3, AssignShrinks
<1>7. Candidates' \subseteq Candidates
  <2>1. ASSUME NEW v \in Measured, NEW c \in V \cup {NoNode}, Processed(v)' => c \in Chain(v)',
               Processed(v)
        PROVE  c \in Chain(v)
    BY <1>4, <1>5, <1>6, <2>1
  <2>. QED BY <1>3, <2>1 DEF Candidates
<1>8. idom[y] # z
  <2>1. idom \in [V -> V \cup {NoNode}] /\ idom' \in [V -> V \cup {NoNode}]
    BY <1>3 DEF PassInv, PassTypes, Reparented
  <2>. QED BY <1>4, <2>1
<1>9. CASE ~Processed(y)
  <2>1. <<y, NoNode>> \in Candidates
    BY <1>4, <1>9 DEF Candidates
  <2>2. <<y, NoNode>> \notin Candidates'
    BY <1>3, <1>4, <1>5 DEF Candidates
  <2>. QED BY <1>7, <2>1, <2>2 DEF Within
<1>10. CASE Processed(y)
  <2>. DEFINE e == idom[y]
  <2>1. e \in V /\ Processed(e) /\ Num[y] < Num[e] /\ Chain(y) = {y} \cup Chain(e)
    BY <1>1, <1>4, <1>10, PassFacts
  <2>2. z \in Chain(e)
    BY <1>1, <1>2, <1>10, <2>1, AssignRises
  <2>3. e # y
    BY <1>4, <1>5, <2>1, Numbering, <1>1 DEF PassInv
  <2>4. e \notin Chain(z)
    <3>1. SUFFICES ASSUME e \in Chain(z)
                   PROVE  FALSE
      OBVIOUS
    <3>2. Num[e] < Num[z] /\ Num[z] < Num[e]
      BY <1>1, <1>4, <1>8, <2>1, <2>2, <3>1, PassFacts
    <3>3. Num[e] \in Nat /\ Num[z] \in Nat
      BY <1>1, <1>4, <2>1, Numbering DEF PassInv
    <3>. QED BY <3>2, <3>3
  <2>5. e \in Chain(y) /\ e \notin Chain(y)'
    BY <1>4, <1>5, <2>1, <2>3, <2>4
  <2>6. <<y, e>> \in Candidates /\ <<y, e>> \notin Candidates'
    BY <1>3, <1>4, <2>1, <2>5 DEF Candidates
  <2>. QED BY <1>7, <2>6 DEF Within
<1>. QED
  BY <1>9, <1>10

LEMMA PassStepAdvances ==
  ASSUME PassInv, [Next]_vars, StartPass \/ Meet \/ Assign \/ Mark
  PROVE  PassAdvances
<1>1. UNCHANGED <<threading, search>>
  BY DEF StartPass, Meet, Assign, Mark
<1>2. ASSUME idom' = idom
      PROVE  Candidates' = Candidates
  <2>1. stack' = stack /\ order' = order
    BY <1>1 DEF search
  <2>2. /\ \A v : Chain(v)' = Chain(v)
        /\ \A v : Processed(v)' <=> Processed(v)
    BY <1>2, <2>1, Frozen
  <2>. QED BY <2>2, InputKept DEF Candidates
<1>3. CASE StartPass
  BY <1>1, <1>2, <1>3 DEF StartPass, Again, PassAdvances
<1>4. CASE Meet
  BY <1>1, <1>2, <1>4 DEF Meet, PassAdvances, Within
<1>5. CASE Assign /\ idom' # idom
  BY <1>1, <1>5, AssignDropsCandidates DEF PassAdvances
<1>6. CASE Assign /\ idom' = idom
  <2>1. todo \in Nat /\ todo > 0 /\ changed \in BOOLEAN /\ stack = <<>> /\ preds = {}
    BY <1>6, Numbering DEF Assign, PassInv, PassTypes, SearchInv, SearchTypes, Untouched
  <2>2. ~Improves
    <3>1. PICK y, z \in V : Assigning(y, z)
      BY <2>1, AssignMeans
    <3>2. idom'[y] = z /\ y = order[todo] /\ z = newIdom
      BY <1>6, <2>1, <3>1, AssignReparents DEF Reparented, Assigning
    <3>. QED BY <1>6, <3>2 DEF Improves
  <2>3. changed' = changed /\ todo' < todo
    BY <1>6, <2>1, <2>2 DEF Assign
  <2>. QED BY <1>1, <1>2, <1>6, <2>3 DEF PassAdvances
<1>7. CASE Mark
  BY <1>1, <1>2, <1>7 DEF Mark, passes, PassAdvances
<1>. QED
  BY <1>3, <1>4, <1>5, <1>6, <1>7

(***************************************************************************)
(* Every step lowers the measure.  What a pass changes removes candidates  *)
(* and brings none back, so a pass that starts over has less left.         *)
(***************************************************************************)
THEOREM EveryStepAdvances == Spec => [][Advances]_vars
<1>1. ThreadInv /\ SearchInv /\ PassInv /\ [Next]_vars => [Advances]_vars
  <2>1. SUFFICES ASSUME ThreadInv, SearchInv, PassInv, Next
                 PROVE  Advances
    OBVIOUS
  <2>2. UNCHANGED <<Measured, V>>
    BY <2>1, InputKept
  <2>. QED
    BY <2>1, <2>2, ThreadStepAdvances, SearchStepAdvances, PassStepAdvances DEF Next, Advances
<1>. QED
  BY <1>1, ThreadHolds, SearchHolds, PassHolds, PTL DEF Spec

(***************************************************************************)
(* The parts of the measure are finite sets, lengths and positions, so it  *)
(* cannot be lowered for ever: computeMetrics takes finitely many steps.   *)
(***************************************************************************)
THEOREM WorkIsFinite ==
  Spec => [](/\ seeds \subseteq V /\ interesting \subseteq V /\ visited \subseteq V /\ preds \subseteq V
             /\ IsFiniteSet(V) /\ IsFiniteSet(pending) /\ IsFiniteSet(Candidates)
             /\ stack # <<>> => Top.left \subseteq V)
<1>1. ASSUME ThreadInv, SearchInv, PassInv
      PROVE  /\ seeds \subseteq V /\ interesting \subseteq V /\ visited \subseteq V /\ preds \subseteq V
             /\ IsFiniteSet(V) /\ IsFiniteSet(pending) /\ IsFiniteSet(Candidates)
             /\ stack # <<>> => Top.left \subseteq V
  <2>1. IsFiniteSet(V) /\ in.roots \subseteq Measured /\ Measured \subseteq V
    BY <1>1, InputFacts DEF ThreadInv, V
  <2>2. seeds \subseteq V /\ interesting \subseteq V /\ visited \subseteq V /\ preds \subseteq V
    BY <1>1, <2>1 DEF ThreadInv, ThreadTypes, SearchInv, SearchTypes, PassInv, PassTypes
  <2>3. IsFiniteSet(pending)
    BY <1>1, InputAssumption, FS_Subset DEF ThreadInv, ThreadTypes
  <2>4. IsFiniteSet(Candidates)
    <3>1. IsFiniteSet(V \cup {NoNode})
      BY <2>1, FS_AddElement
    <3>2. IsFiniteSet(Measured)
      BY <2>1, FS_Subset
    <3>3. IsFiniteSet(Measured \X (V \cup {NoNode}))
      BY <3>1, <3>2, FS_Product
    <3>. QED BY <3>3, FS_Subset DEF Candidates
  <2>5. stack # <<>> => Top.left \subseteq V
    BY <1>1, BelowFacts DEF SearchInv, SearchTypes
  <2>. QED BY <2>1, <2>2, <2>3, <2>4, <2>5
<1>. QED
  BY <1>1, ThreadHolds, SearchHolds, PassHolds, PTL
=============================================================================
