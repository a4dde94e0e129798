-------------------------- MODULE EscapeSetsProofs --------------------------
(***************************************************************************)
(* The search for escape components is correct for every flow relation.    *)
(***************************************************************************)
EXTENDS EscapeSets, ValueFlowProofs

(* Values are numbered in the order of their first visit.                  *)
Numbered ==
  /\ \A v \in Values : index[v] <= counter
  /\ Completed \subseteq Visited
  /\ roots \ todo \subseteq Visited

(* The frames form a path down the flow, oldest value first: every open    *)
(* value visited after a frame can be carried by the frame's value.        *)
OnPath(v) == \E i \in 1 .. Len(stack) : stack[i].v = v

Path ==
  /\ stack = <<>> => onStack = {}
  /\ stack # <<>> => \A v \in onStack : index[stack[1].v] <= index[v]
  /\ \A i, j \in 1 .. Len(stack) : i < j => index[stack[i].v] < index[stack[j].v]
  /\ \A i \in 1 .. Len(stack) : \A w \in onStack :
       index[stack[i].v] <= index[w] => w \in Carried(stack[i].v)

(* What a frame has looked at is visited, and so is everything a value     *)
(* without a frame flows to.                                               *)
Explored ==
  /\ \A i \in 1 .. Len(stack) :
       /\ stack[i].rest \subseteq flow[stack[i].v]
       /\ flow[stack[i].v] \ stack[i].rest \subseteq Visited
  /\ \A v \in Visited : ~OnPath(v) => flow[v] \subseteq Visited

(* A low link is the number of an open value the value can carry.          *)
LowReached ==
  \A v \in onStack :
    /\ low[v] <= index[v]
    /\ \E u \in onStack : u \in Carried(v) /\ index[u] = low[v]

(* The low link of a frame bounds what the values between it and the next  *)
(* frame flow to.                                                          *)
Between(i, w) ==
  /\ index[stack[i].v] <= index[w]
  /\ i < Len(stack) => index[w] < index[stack[i + 1].v]

LowBounds ==
  \A i \in 1 .. Len(stack) : \A w \in onStack :
    Between(i, w) =>
      \A u \in flow[w] \cap onStack :
        \/ w = stack[i].v /\ u \in stack[i].rest
        \/ low[stack[i].v] <= index[u]

(* Completed values flow to completed values only.                         *)
Settled == \A v \in Completed : flow[v] \subseteq Completed

IInv ==
  /\ TypeOK
  /\ Numbered
  /\ OpenValues
  /\ Path
  /\ Explored
  /\ LowReached
  /\ LowBounds
  /\ Settled
  /\ SinksExact
  /\ ComponentsAreCycles

-----------------------------------------------------------------------------
(* Carried(v) is the least closed set around v.                            *)
LEMMA CarriedIsLeast ==
  ASSUME NEW rel \in [Values -> SUBSET Values], NEW v \in Values
  PROVE  /\ Closure(rel, {v}) \in SUBSET Values
         /\ v \in Closure(rel, {v})
         /\ FlowClosed(rel, Closure(rel, {v}))
         /\ \A T \in SUBSET Values : v \in T /\ FlowClosed(rel, T) => Closure(rel, {v}) \subseteq T
<1>1. Closure(rel, {v}) = Least(rel, {v})
  BY ClosureIsLeast, FlowAssumption
<1>2. {v} \in SUBSET Values
  OBVIOUS
<1>3. /\ Least(rel, {v}) \in SUBSET Values
      /\ {v} \subseteq Least(rel, {v})
      /\ FlowClosed(rel, Least(rel, {v}))
      /\ \A T \in SUBSET Values :
           {v} \subseteq T /\ FlowClosed(rel, T) => Least(rel, {v}) \subseteq T
  BY <1>2, LeastIsClosed
<1>. QED
  BY <1>1, <1>3

LEMMA CarriedFacts ==
  ASSUME flow \in [Values -> SUBSET Values], NEW v \in Values
  PROVE  /\ Carried(v) \in SUBSET Values
         /\ v \in Carried(v)
         /\ \A w \in Carried(v) : flow[w] \subseteq Carried(v) /\ Carried(w) \subseteq Carried(v)
         /\ \A w \in flow[v] : Carried(w) \subseteq Carried(v)
         /\ \A T \in SUBSET Values :
              v \in T /\ (\A w \in T : flow[w] \subseteq T) => Carried(v) \subseteq T
<1>1. \A w \in Values :
        /\ Carried(w) \in SUBSET Values
        /\ w \in Carried(w)
        /\ \A u \in Carried(w) : flow[u] \subseteq Carried(w)
        /\ \A T \in SUBSET Values :
             w \in T /\ (\A u \in T : flow[u] \subseteq T) => Carried(w) \subseteq T
  BY CarriedIsLeast DEF Carried, FlowClosed
<1>2. \A w \in Carried(v) : Carried(w) \subseteq Carried(v)
  BY <1>1
<1>3. \A w \in flow[v] : w \in Carried(v)
  BY <1>1
<1>. QED
  BY <1>1, <1>2, <1>3

LEMMA SameCarried ==
  ASSUME flow' = flow
  PROVE  \A v : Carried(v)' = Carried(v)
BY DEF Carried

LEMMA CounterFacts ==
  ASSUME TypeOK
  PROVE  /\ IsFiniteSet(Visited)
         /\ counter \in Nat
BY FlowAssumption, FS_Subset, FS_CardinalityType DEF Visited, counter

-----------------------------------------------------------------------------
LEMMA InitHolds ==
  ASSUME Init
  PROVE  IInv
<1>1. TypeOK
  BY FlowAssumption DEF Init, TypeOK
<1>2. Visited = {} /\ Completed = {} /\ onStack = {}
  BY DEF Init, Visited, Completed, onStack
<1>3. Numbered
  BY <1>1, <1>2, CounterFacts DEF Numbered, Init
<1>4. OpenValues
  BY <1>2 DEF OpenValues, Init
<1>5. Path /\ Explored /\ LowReached /\ LowBounds
  BY <1>2 DEF Path, Explored, LowReached, LowBounds, Init
<1>6. Settled /\ SinksExact /\ ComponentsAreCycles
  BY <1>2 DEF Settled, SinksExact, ComponentsAreCycles
<1>. QED
  BY <1>1, <1>3, <1>4, <1>5, <1>6 DEF IInv

LEMMA RangeAppend ==
  ASSUME NEW S, NEW s \in Seq(S), NEW t \in Seq(S), NEW w,
         Len(t) = Len(s) + 1, t[Len(s) + 1] = w, \A i \in 1 .. Len(s) : t[i] = s[i]
  PROVE  {t[i] : i \in 1 .. Len(t)} = {s[i] : i \in 1 .. Len(s)} \cup {w}
<1>1. Len(s) \in Nat
  OBVIOUS
<1>2. PICK n \in Nat : n = Len(s)
  BY <1>1
<1>3. 1 .. Len(t) = (1 .. n) \cup {n + 1}
  BY <1>2
<1>. QED
  BY <1>2, <1>3

(* A value is opened: it has the largest number, and its frame comes on    *)
(* top of the others, of which the last has just taken it off.             *)
Opens(w, below) ==
  /\ Fresh(w)
  /\ below \in Seq(Frame)
  /\ Len(below) = Len(stack)
  /\ \A i \in 1 .. Len(stack) :
       /\ below[i].v = stack[i].v
       /\ below[i].rest \subseteq stack[i].rest
       /\ stack[i].rest \subseteq below[i].rest \cup {w}
  /\ stack # <<>> => w \in Carried(stack[Len(stack)].v)
  /\ Open(w, below)
  /\ todo' \in SUBSET todo
  /\ todo \subseteq todo' \cup {w}
  /\ UNCHANGED <<input, sccOf, sinks>>

Opened(w, below) ==
  /\ TypeOK'
  /\ index'[w] = counter + 1 /\ low'[w] = counter + 1
  /\ \A v \in Values \ {w} : index'[v] = index[v] /\ low'[v] = low[v]
  /\ Visited' = Visited \cup {w}
  /\ counter \in Nat /\ counter' = counter + 1
  /\ Completed' = Completed
  /\ onStack' = onStack \cup {w}
  /\ Len(comp') = Len(comp) + 1
  /\ comp'[Len(comp) + 1] = w
  /\ \A i \in 1 .. Len(comp) : comp'[i] = comp[i]
  /\ Len(stack') = Len(stack) + 1
  /\ stack'[Len(stack) + 1] = [v |-> w, rest |-> flow[w]]
  /\ \A i \in 1 .. Len(stack) : stack'[i] = below[i]

LEMMA OpenShape ==
  ASSUME IInv, NEW w \in Values, NEW below, Opens(w, below)
  PROVE  Opened(w, below)
<1>. USE DEF IInv, TypeOK
<1>1. index' = [index EXCEPT ![w] = counter + 1] /\ low' = [low EXCEPT ![w] = counter + 1]
  BY DEF Opens, Open
<1>2. comp' = Append(comp, w) /\ stack' = Append(below, [v |-> w, rest |-> flow[w]])
  BY DEF Opens, Open
<1>3. counter \in Nat /\ IsFiniteSet(Visited)
  BY CounterFacts
<1>4. TypeOK'
  <2>1. index' \in [Values -> Nat] /\ low' \in [Values -> Nat]
    BY <1>1, <1>3
  <2>2. comp' \in Seq(Values)
    BY <1>2
  <2>3. stack' \in Seq(Frame)
    <3>1. below \in Seq(Frame) /\ [v |-> w, rest |-> flow[w]] \in Frame
      BY DEF Opens, Frame
    <3>. QED BY <1>2, <3>1
  <2>4. /\ flow' = flow /\ roots' = roots /\ todo' \in SUBSET todo
        /\ sccOf' = sccOf /\ sinks' = sinks
    BY DEF Opens, input
  <2>. QED
    BY <2>1, <2>2, <2>3, <2>4
<1>5. Visited' = Visited \cup {w} /\ counter' = counter + 1
  <2>1. Visited' = Visited \cup {w}
    BY <1>1, <1>3 DEF Visited
  <2>2. w \notin Visited
    BY DEF Opens, Fresh
  <2>. QED
    BY <2>1, <2>2, <1>3, FS_AddElement DEF counter
<1>6. Completed' = Completed
  BY DEF Opens, Completed
<1>7. /\ Len(comp') = Len(comp) + 1 /\ comp'[Len(comp) + 1] = w
      /\ \A i \in 1 .. Len(comp) : comp'[i] = comp[i]
  BY <1>2
<1>8. onStack' = onStack \cup {w}
  BY <1>2, <1>7, <1>4, RangeAppend DEF onStack
<1>9. /\ Len(stack') = Len(stack) + 1
      /\ stack'[Len(stack) + 1] = [v |-> w, rest |-> flow[w]]
      /\ \A i \in 1 .. Len(stack) : stack'[i] = below[i]
  BY <1>2 DEF Opens
<1>10. index'[w] = counter + 1 /\ low'[w] = counter + 1
  BY <1>1
<1>11. \A v \in Values \ {w} : index'[v] = index[v] /\ low'[v] = low[v]
  BY <1>1
<1>. HIDE DEF IInv, TypeOK
<1>. QED
  BY <1>3, <1>4, <1>5, <1>6, <1>7, <1>8, <1>9, <1>10, <1>11 DEF Opened

(* The last conjunct of OpenValues, said with the frame's number.          *)
Witnessed ==
  \A v \in onStack : \E i \in 1 .. Len(stack) :
    index[stack[i].v] <= index[v] /\ stack[i].v \in Carried(v)

LEMMA WitnessedIsOpen ==
  OpenValues <=>
    /\ onStack = Visited \ Completed
    /\ \A i, j \in 1 .. Len(comp) : i < j => index[comp[i]] < index[comp[j]]
    /\ \A i \in 1 .. Len(stack) : stack[i].v \in onStack
    /\ Witnessed
BY DEF OpenValues, Witnessed

Sequenced ==
  /\ onStack \subseteq Values
  /\ \A i \in 1 .. Len(comp) : comp[i] \in onStack
  /\ \A v \in onStack : \E i \in 1 .. Len(comp) : comp[i] = v
  /\ \A i \in 1 .. Len(stack) :
       /\ stack[i] \in Frame
       /\ stack[i].v \in Values
       /\ stack[i].rest \subseteq Values
  /\ Len(stack) \in Nat /\ Len(comp) \in Nat /\ Len(sinks) \in Nat
  /\ stack # <<>> <=> Len(stack) >= 1

LEMMA TypesSequenced ==
  ASSUME TypeOK
  PROVE  Sequenced
<1>1. stack \in Seq(Frame) /\ comp \in Seq(Values)
  BY DEF TypeOK
<1>2. \A i \in 1 .. Len(stack) : stack[i] \in Frame
  BY <1>1
<1>3. Len(stack) \in Nat /\ Len(comp) \in Nat /\ (stack # <<>> <=> Len(stack) >= 1)
  BY <1>1
<1>4. Len(sinks) \in Nat
  BY DEF TypeOK
<1>5. \A i \in 1 .. Len(comp) : comp[i] \in Values
  BY <1>1
<1>. QED
  BY <1>2, <1>3, <1>4, <1>5 DEF Frame, onStack, Sequenced

LEMMA OpenKeepsNumbered ==
  ASSUME IInv, NEW w \in Values, NEW below, Opens(w, below)
  PROVE  Numbered'
<1>1. Opened(w, below) /\ index \in [Values -> Nat]
  BY OpenShape DEF IInv, TypeOK
<1>2. roots' = roots /\ todo \subseteq todo' \cup {w}
  BY DEF Opens, input
<1>3. \A v \in Values : index[v] <= counter
  BY DEF IInv, Numbered
<1>4. \A v \in Values : index'[v] <= counter'
  BY <1>1, <1>3 DEF Opened
<1>. QED
  BY <1>1, <1>2, <1>4 DEF IInv, Numbered, Opened

LEMMA OpenKeepsOpenValues ==
  ASSUME IInv, NEW w \in Values, NEW below, Opens(w, below)
  PROVE  OpenValues'
<1>. DEFINE n == Len(stack)
            m == Len(comp)
<1>1. Opened(w, below) /\ Sequenced /\ Witnessed
  BY OpenShape, TypesSequenced, WitnessedIsOpen DEF IInv
<1>2. index \in [Values -> Nat] /\ index' \in [Values -> Nat]
  BY <1>1 DEF IInv, TypeOK, Opened
<1>3. w \notin Visited /\ w \notin onStack /\ w \notin Completed
  BY DEF Opens, Fresh, IInv, OpenValues, Numbered
<1>4. onStack' = Visited' \ Completed'
  BY <1>1, <1>3 DEF IInv, OpenValues, Opened
<1>5. \A v \in onStack : v \in Values /\ v # w /\ index'[v] = index[v] /\ index[v] <= counter
  BY <1>1, <1>3 DEF IInv, Numbered, Opened, Sequenced
<1>6. ASSUME NEW i \in 1 .. Len(comp'), NEW j \in 1 .. Len(comp'), i < j
      PROVE  index'[comp'[i]] < index'[comp'[j]]
  <2>0. m \in Nat /\ Len(comp') = m + 1
    BY <1>1 DEF Opened, Sequenced
  <2>1. i \in 1 .. m /\ comp'[i] = comp[i] /\ comp[i] \in onStack
    <3>1. i \in 1 .. m
      BY <1>6, <2>0
    <3>. QED BY <1>1, <3>1 DEF Opened, Sequenced
  <2>2. CASE j = m + 1
    BY <1>1, <1>2, <1>5, <2>1, <2>2 DEF Opened
  <2>3. CASE j \in 1 .. m
    <3>1. comp'[j] = comp[j] /\ comp[j] \in onStack
      BY <1>1, <2>3 DEF Opened, Sequenced
    <3>2. index[comp[i]] < index[comp[j]]
      BY <1>6, <2>1, <2>3 DEF IInv, OpenValues
    <3>. QED BY <1>5, <2>1, <3>1, <3>2
  <2>4. j = m + 1 \/ j \in 1 .. m
    BY <2>0
  <2>. QED BY <2>2, <2>3, <2>4
<1>7. /\ Len(stack') = n + 1 /\ n \in Nat /\ stack'[n + 1].v = w
      /\ \A i \in 1 .. n : stack'[i].v = stack[i].v /\ stack[i].v \in onStack
  <2>1. Len(stack') = n + 1 /\ n \in Nat /\ stack'[n + 1].v = w
    BY <1>1 DEF Opened, Sequenced
  <2>2. \A i \in 1 .. n : stack'[i].v = stack[i].v
    BY <1>1 DEF Opened, Opens
  <2>. QED
    BY <2>1, <2>2 DEF IInv, OpenValues
<1>8. \A i \in 1 .. Len(stack') : stack'[i].v \in onStack'
  <2>1. \A i \in 1 .. n + 1 : i = n + 1 \/ i \in 1 .. n
    BY <1>7
  <2>. QED BY <1>1, <1>7, <2>1 DEF Opened
<1>9. \A v : Carried(v)' = Carried(v)
  BY SameCarried DEF Opens, input
<1>10. Witnessed'
  <2>1. ASSUME NEW v \in onStack'
        PROVE  \E i \in 1 .. Len(stack') :
                 index'[stack'[i].v] <= index'[v] /\ stack'[i].v \in Carried(v)
    <3>1. CASE v = w
      <4>1. n + 1 \in 1 .. Len(stack') /\ index'[w] \in Nat
        BY <1>2, <1>7
      <4>2. w \in Carried(w)
        BY CarriedFacts DEF IInv, TypeOK
      <4>. QED BY <1>7, <3>1, <4>1, <4>2
    <3>2. CASE v # w
      <4>1. v \in onStack
        BY <1>1, <3>2 DEF Opened
      <4>2. PICK i \in 1 .. n : index[stack[i].v] <= index[v] /\ stack[i].v \in Carried(v)
        BY <1>1, <4>1 DEF Witnessed
      <4>3. index'[stack'[i].v] <= index'[v] /\ stack'[i].v \in Carried(v)
        BY <1>5, <1>7, <4>1, <4>2
      <4>4. i \in 1 .. Len(stack')
        BY <1>7
      <4>. QED BY <4>3, <4>4
    <3>. QED BY <3>1, <3>2
  <2>. QED BY <2>1, <1>9 DEF Witnessed
<1>11. OpenValues' <=>
         /\ (onStack = Visited \ Completed)'
         /\ (\A i, j \in 1 .. Len(comp) : i < j => index[comp[i]] < index[comp[j]])'
         /\ (\A i \in 1 .. Len(stack) : stack[i].v \in onStack)'
         /\ Witnessed'
  BY WitnessedIsOpen, PTL
<1>. QED
  BY <1>4, <1>6, <1>8, <1>10, <1>11

(* The same step, in the terms of the invariant's other conjuncts.         *)
Deepened(w) ==
  /\ Len(stack) \in Nat /\ Len(stack') = Len(stack) + 1
  /\ stack'[Len(stack) + 1].v = w /\ stack'[Len(stack) + 1].rest = flow[w]
  /\ \A i \in 1 .. Len(stack) :
       /\ stack[i].v \in onStack
       /\ stack'[i].v = stack[i].v
       /\ stack'[i].rest \subseteq stack[i].rest
       /\ stack[i].rest \subseteq stack'[i].rest \cup {w}
  /\ \A i \in 1 .. Len(stack') : i \in 1 .. Len(stack) \/ i = Len(stack) + 1
  /\ \A v \in onStack :
       /\ v \in Values /\ v # w
       /\ index'[v] = index[v] /\ low'[v] = low[v]
       /\ index[v] \in Nat /\ low[v] \in Nat /\ index[v] <= counter
  /\ counter \in Nat /\ index'[w] = counter + 1 /\ low'[w] = counter + 1
  /\ w \in Values /\ w \notin Visited
  /\ onStack' = onStack \cup {w} /\ Visited' = Visited \cup {w} /\ Completed' = Completed
  /\ flow' = flow /\ flow \in [Values -> SUBSET Values]
  /\ \A v : Carried(v)' = Carried(v)

LEMMA OpenDeepens ==
  ASSUME IInv, NEW w \in Values, NEW below, Opens(w, below)
  PROVE  Deepened(w)
<1>1. Opened(w, below) /\ Sequenced
  BY OpenShape, TypesSequenced DEF IInv
<1>2. w \notin Visited /\ w \notin onStack
  BY DEF Opens, Fresh, IInv, OpenValues
<1>3. \A v \in onStack : v \in Values /\ v # w
  BY <1>1, <1>2 DEF Sequenced
<1>4. \A v \in onStack :
        /\ index'[v] = index[v] /\ low'[v] = low[v]
        /\ index[v] \in Nat /\ low[v] \in Nat /\ index[v] <= counter
  BY <1>1, <1>3 DEF IInv, TypeOK, Numbered, Opened
<1>5. Len(stack) \in Nat /\ Len(stack') = Len(stack) + 1
  BY <1>1 DEF Opened, Sequenced
<1>6. stack'[Len(stack) + 1].v = w /\ stack'[Len(stack) + 1].rest = flow[w]
  BY <1>1 DEF Opened
<1>7. \A i \in 1 .. Len(stack) :
        /\ stack'[i].v = stack[i].v
        /\ stack'[i].rest \subseteq stack[i].rest
        /\ stack[i].rest \subseteq stack'[i].rest \cup {w}
  BY <1>1 DEF Opened, Opens
<1>8. \A i \in 1 .. Len(stack) : stack[i].v \in onStack
  BY DEF IInv, OpenValues
<1>9. \A i \in 1 .. Len(stack') : i \in 1 .. Len(stack) \/ i = Len(stack) + 1
  BY <1>5
<1>10. flow' = flow /\ flow \in [Values -> SUBSET Values] /\ \A v : Carried(v)' = Carried(v)
  BY SameCarried DEF Opens, input, IInv, TypeOK
<1>11. counter \in Nat /\ index'[w] = counter + 1 /\ low'[w] = counter + 1
  BY <1>1 DEF Opened
<1>12. onStack' = onStack \cup {w} /\ Visited' = Visited \cup {w} /\ Completed' = Completed
  BY <1>1 DEF Opened
<1>. QED
  BY <1>2, <1>3, <1>4, <1>5, <1>6, <1>7, <1>8, <1>9, <1>10, <1>11, <1>12 DEF Deepened

LEMMA OpenKeepsPath ==
  ASSUME IInv, NEW w \in Values, NEW below, Opens(w, below)
  PROVE  Path'
<1>. DEFINE n == Len(stack)
<1>1. Deepened(w) /\ Path
  BY OpenDeepens DEF IInv
<1>2. stack' # <<>>
  BY <1>1 DEF Deepened
<1>3. ASSUME NEW v \in onStack'
      PROVE  index'[stack'[1].v] <= index'[v]
  <2>1. CASE n = 0
    <3>1. onStack = {}
      BY <1>1, <2>1, TypesSequenced DEF Path, IInv, Sequenced
    <3>2. v = w /\ stack'[1].v = w
      BY <1>1, <2>1, <3>1 DEF Deepened
    <3>. QED BY <1>1, <3>2 DEF Deepened
  <2>2. CASE n # 0
    <3>1. 1 \in 1 .. n /\ stack # <<>>
      BY <1>1, <2>2 DEF Deepened
    <3>2. stack'[1].v = stack[1].v /\ stack[1].v \in onStack
      BY <1>1, <3>1 DEF Deepened
    <3>3. CASE v = w
      BY <1>1, <3>2, <3>3 DEF Deepened
    <3>4. CASE v \in onStack
      BY <1>1, <3>1, <3>2, <3>4 DEF Deepened, Path
    <3>. QED BY <1>1, <3>3, <3>4 DEF Deepened
  <2>. QED BY <2>1, <2>2
<1>4. ASSUME NEW i \in 1 .. Len(stack'), NEW j \in 1 .. Len(stack'), i < j
      PROVE  index'[stack'[i].v] < index'[stack'[j].v]
  <2>1. i \in 1 .. n
    BY <1>1, <1>4 DEF Deepened
  <2>2. CASE j = n + 1
    BY <1>1, <2>1, <2>2 DEF Deepened
  <2>3. CASE j \in 1 .. n
    <3>1. index[stack[i].v] < index[stack[j].v]
      BY <1>1, <1>4, <2>1, <2>3 DEF Path
    <3>. QED BY <1>1, <2>1, <2>3, <3>1 DEF Deepened
  <2>. QED BY <1>1, <2>2, <2>3 DEF Deepened
<1>5. ASSUME NEW i \in 1 .. Len(stack'), NEW v \in onStack', index'[stack'[i].v] <= index'[v]
      PROVE  v \in Carried(stack'[i].v)
  <2>1. CASE v = w
    <3>1. CASE i = n + 1
      BY <1>1, <2>1, <3>1, CarriedFacts DEF Deepened
    <3>2. CASE i \in 1 .. n
      <4>1. n \in 1 .. n /\ stack # <<>>
        BY <1>1, <3>2 DEF Deepened
      <4>2. w \in Carried(stack[n].v) /\ stack[n].v \in onStack /\ stack[i].v \in onStack
        BY <1>1, <3>2, <4>1 DEF Opens, Deepened
      <4>3. index[stack[i].v] <= index[stack[n].v]
        <5>1. i = n \/ i < n
          BY <1>1, <3>2 DEF Deepened
        <5>. QED BY <1>1, <3>2, <4>1, <4>2, <5>1 DEF Path, Deepened
      <4>4. stack[n].v \in Carried(stack[i].v)
        BY <1>1, <3>2, <4>2, <4>3 DEF Path
      <4>5. stack[i].v \in Values
        BY <1>1, <4>2 DEF Deepened
      <4>6. w \in Carried(stack[i].v)
        BY <1>1, <4>2, <4>4, <4>5, CarriedFacts DEF Deepened
      <4>. QED BY <1>1, <2>1, <3>2, <4>6 DEF Deepened
    <3>. QED BY <1>1, <3>1, <3>2 DEF Deepened
  <2>2. CASE v \in onStack
    <3>1. i \in 1 .. n
      BY <1>1, <1>5, <2>2 DEF Deepened
    <3>. QED BY <1>1, <1>5, <2>2, <3>1 DEF Deepened, Path
  <2>. QED BY <1>1, <2>1, <2>2 DEF Deepened
<1>6. \A v : Carried(v)' = Carried(v)
  BY <1>1 DEF Deepened
<1>. QED
  BY <1>2, <1>3, <1>4, <1>5, <1>6 DEF Path

LEMMA OpenKeepsExplored ==
  ASSUME IInv, NEW w \in Values, NEW below, Opens(w, below)
  PROVE  Explored'
<1>. DEFINE n == Len(stack)
<1>1. Deepened(w) /\ Explored
  BY OpenDeepens DEF IInv
<1>2. ASSUME NEW i \in 1 .. Len(stack')
      PROVE  /\ stack'[i].rest \subseteq flow'[stack'[i].v]
             /\ flow'[stack'[i].v] \ stack'[i].rest \subseteq Visited'
  <2>1. CASE i = n + 1
    BY <1>1, <2>1 DEF Deepened
  <2>2. CASE i \in 1 .. n
    BY <1>1, <2>2 DEF Deepened, Explored
  <2>. QED BY <1>1, <2>1, <2>2 DEF Deepened
<1>3. ASSUME NEW v \in Visited', ~OnPath(v)'
      PROVE  flow'[v] \subseteq Visited'
  <2>1. n + 1 \in 1 .. Len(stack') /\ \A i \in 1 .. n : i \in 1 .. Len(stack')
    BY <1>1 DEF Deepened
  <2>2. v # w /\ ~OnPath(v)
    BY <1>1, <1>3, <2>1 DEF Deepened, OnPath
  <2>. QED BY <1>1, <2>2 DEF Deepened, Explored
<1>. QED
  BY <1>2, <1>3 DEF Explored

LEMMA OpenKeepsLow ==
  ASSUME IInv, NEW w \in Values, NEW below, Opens(w, below)
  PROVE  LowReached' /\ LowBounds'
<1>. DEFINE n == Len(stack)
<1>1. Deepened(w) /\ LowReached /\ LowBounds
  BY OpenDeepens DEF IInv
<1>2. LowReached'
  <2>1. ASSUME NEW v \in onStack'
        PROVE  /\ low'[v] <= index'[v]
               /\ \E u \in onStack' : u \in Carried(v) /\ index'[u] = low'[v]
    <3>1. CASE v = w
      BY <1>1, <3>1, CarriedFacts DEF Deepened
    <3>2. CASE v \in onStack
      BY <1>1, <3>2 DEF Deepened, LowReached
    <3>. QED BY <1>1, <3>1, <3>2 DEF Deepened
  <2>. QED BY <1>1, <2>1 DEF Deepened, LowReached
<1>3. LowBounds'
  <2>1. SUFFICES ASSUME NEW i \in 1 .. Len(stack'), NEW v \in onStack', Between(i, v)',
                        NEW u \in flow'[v] \cap onStack',
                        ~(v = stack'[i].v /\ u \in stack'[i].rest)
                 PROVE  low'[stack'[i].v] <= index'[u]
    BY DEF LowBounds
  <2>2. index'[stack'[i].v] <= index'[v]
    BY <2>1 DEF Between
  <2>3. CASE i = n + 1
    <3>1. v = w
      BY <1>1, <2>2, <2>3 DEF Deepened
    <3>. QED BY <1>1, <2>1, <2>3, <3>1 DEF Deepened
  <2>4. CASE i \in 1 .. n
    <3>1. stack'[i].v = stack[i].v /\ stack[i].v \in onStack
      BY <1>1, <2>4 DEF Deepened
    <3>2. low'[stack[i].v] = low[stack[i].v] /\ low[stack[i].v] <= counter /\ low[stack[i].v] \in Nat
      BY <1>1, <3>1 DEF Deepened, LowReached
    <3>3. CASE u = w
      BY <1>1, <3>1, <3>2, <3>3 DEF Deepened
    <3>4. CASE u # w
      <4>1. u \in onStack /\ u \in flow[v]
        BY <1>1, <2>1, <3>4 DEF Deepened
      <4>2. v \in onStack /\ index'[v] = index[v] /\ (i < n => index[v] < index[stack[i + 1].v])
        <5>1. i < Len(stack')
          BY <1>1, <2>4 DEF Deepened
        <5>2. index'[v] < index'[stack'[i + 1].v]
          BY <2>1, <5>1 DEF Between
        <5>3. index'[stack'[i + 1].v] <= counter + 1
          <6>1. CASE i < n
            BY <1>1, <2>4, <6>1 DEF Deepened
          <6>2. CASE i = n
            BY <1>1, <6>2 DEF Deepened
          <6>. QED BY <1>1, <2>4, <6>1, <6>2 DEF Deepened
        <5>4. v \in onStack
          <6>1. v # w
            <7>1. SUFFICES ASSUME v = w PROVE FALSE
              OBVIOUS
            <7>2. i + 1 \in 1 .. n \/ i + 1 = n + 1
              BY <1>1, <2>4 DEF Deepened
            <7>3. index'[stack'[i + 1].v] \in Nat
              BY <1>1, <7>2 DEF Deepened
            <7>. QED BY <1>1, <5>2, <5>3, <7>1, <7>3 DEF Deepened
          <6>. QED BY <1>1, <6>1 DEF Deepened
        <5>5. i < n => i + 1 \in 1 .. n
          BY <1>1, <2>4 DEF Deepened
        <5>. QED BY <1>1, <5>2, <5>4, <5>5 DEF Deepened
      <4>3. Between(i, v)
        BY <1>1, <2>2, <3>1, <4>2 DEF Between, Deepened
      <4>4. ~(v = stack[i].v /\ u \in stack[i].rest)
        BY <1>1, <2>1, <2>4, <3>1, <3>4 DEF Deepened
      <4>5. low[stack[i].v] <= index[u]
        BY <1>1, <2>4, <4>1, <4>2, <4>3, <4>4 DEF LowBounds
      <4>. QED BY <1>1, <3>1, <3>2, <4>1, <4>5 DEF Deepened
    <3>. QED BY <3>3, <3>4
  <2>. QED BY <1>1, <2>3, <2>4 DEF Deepened
<1>. QED
  BY <1>2, <1>3

LEMMA OpenKeepsResults ==
  ASSUME IInv, NEW w \in Values, NEW below, Opens(w, below)
  PROVE  Settled' /\ SinksExact' /\ ComponentsAreCycles'
<1>1. flow' = flow /\ sccOf' = sccOf /\ sinks' = sinks
  BY DEF Opens, input
<1>2. Completed' = Completed /\ \A v : Carried(v)' = Carried(v)
  BY <1>1, SameCarried DEF Completed
<1>3. Settled'
  BY <1>1, <1>2 DEF IInv, Settled
<1>4. SinksExact'
  BY <1>1, <1>2 DEF IInv, SinksExact
<1>5. ComponentsAreCycles'
  BY <1>1, <1>2 DEF IInv, ComponentsAreCycles
<1>. QED
  BY <1>3, <1>4, <1>5

LEMMA OpenKeeps ==
  ASSUME IInv, NEW w \in Values, NEW below, Opens(w, below)
  PROVE  IInv'
BY OpenShape, OpenKeepsNumbered, OpenKeepsOpenValues, OpenKeepsPath, OpenKeepsExplored,
   OpenKeepsLow, OpenKeepsResults DEF IInv, Opened

LEMMA TakeRootKeeps ==
  ASSUME IInv, TakeRoot
  PROVE  IInv'
<1>1. PICK r \in todo : Fresh(r) /\ todo' = todo \ {r} /\ Open(r, stack)
  BY DEF TakeRoot
<1>2. stack = <<>> /\ stack \in Seq(Frame) /\ r \in Values
  BY DEF TakeRoot, IInv, TypeOK
<1>3. todo' \in SUBSET todo /\ todo \subseteq todo' \cup {r}
  BY <1>1
<1>4. Opens(r, stack)
  BY <1>1, <1>2, <1>3 DEF Opens, TakeRoot
<1>. QED
  BY <1>2, <1>4, OpenKeeps

(* Taking a successor off the top frame leaves the values of the frames.   *)
LEMMA TopFacts ==
  ASSUME TypeOK, stack # <<>>
  PROVE  /\ Len(stack) \in 1 .. Len(stack)
         /\ Top = stack[Len(stack)] /\ Top \in Frame
         /\ Top.v \in Values /\ Top.rest \subseteq Values
<1>1. Sequenced
  BY TypesSequenced
<1>2. Len(stack) \in 1 .. Len(stack)
  BY <1>1 DEF Sequenced
<1>. QED
  BY <1>1, <1>2 DEF Sequenced, Top

LEMMA RestReplaced ==
  ASSUME NEW fr \in Frame, NEW rest
  PROVE  [fr EXCEPT !.rest = rest] = [v |-> fr.v, rest |-> rest]
BY DEF Frame

TakesOff(w) ==
  /\ Looked(w) \in Seq(Frame)
  /\ Len(Looked(w)) = Len(stack)
  /\ \A i \in 1 .. Len(stack) :
       /\ Looked(w)[i].v = stack[i].v
       /\ Looked(w)[i].rest \subseteq stack[i].rest
       /\ stack[i].rest \subseteq Looked(w)[i].rest \cup {w}
  /\ \A i \in 1 .. Len(stack) : i # Len(stack) => Looked(w)[i] = stack[i]

LEMMA LookedTakesOff ==
  ASSUME TypeOK, stack # <<>>, NEW w
  PROVE  TakesOff(w)
<1>1. stack \in Seq(Frame)
  BY DEF TypeOK
<1>2. PICK n \in 1 .. Len(stack) : n = Len(stack)
  BY TopFacts
<1>3. Top = stack[n] /\ Top \in Frame
  BY <1>2, TopFacts
<1>4. Looked(w) = [stack EXCEPT ![n] = [Top EXCEPT !.rest = @ \ {w}]]
  BY <1>2, <1>3 DEF Looked
<1>5. [Top EXCEPT !.rest = @ \ {w}] = [v |-> Top.v, rest |-> Top.rest \ {w}]
  BY <1>3, RestReplaced
<1>6. PICK fr \in Frame : fr = [v |-> Top.v, rest |-> Top.rest \ {w}]
  BY <1>3 DEF Frame
<1>7. Looked(w) = [stack EXCEPT ![n] = fr]
  BY <1>4, <1>5, <1>6
<1>8. Looked(w) \in Seq(Frame) /\ Len(Looked(w)) = Len(stack) /\ Looked(w)[n] = fr
  BY <1>1, <1>2, <1>7
<1>9. \A i \in 1 .. Len(stack) : i # n => Looked(w)[i] = stack[i]
  BY <1>1, <1>2, <1>7
<1>. QED
  BY <1>2, <1>3, <1>6, <1>8, <1>9 DEF TakesOff

LEMMA DescendKeeps ==
  ASSUME IInv, Descend
  PROVE  IInv'
<1>1. PICK w \in Top.rest : Fresh(w) /\ Open(w, Looked(w))
  BY DEF Descend
<1>2. /\ Len(stack) \in 1 .. Len(stack) /\ Top = stack[Len(stack)]
      /\ Top.v \in Values /\ Top.rest \subseteq Values
  BY TopFacts DEF Descend, IInv
<1>3. w \in Values /\ w \in flow[Top.v] /\ flow \in [Values -> SUBSET Values]
  BY <1>2 DEF IInv, Explored, TypeOK
<1>4. TakesOff(w)
  BY LookedTakesOff DEF Descend, IInv
<1>5. w \in Carried(stack[Len(stack)].v)
  BY <1>2, <1>3, CarriedFacts
<1>6. UNCHANGED todo
  BY DEF Descend
<1>7. Opens(w, Looked(w))
  BY <1>1, <1>4, <1>5, <1>6 DEF Opens, Descend, TakesOff
<1>. QED
  BY <1>3, <1>7, OpenKeeps

(* Only the roots still to be taken change.                                *)
LEMMA SearchUnchanged ==
  ASSUME IInv, flow' = flow, index' = index, low' = low, comp' = comp, stack' = stack,
         sccOf' = sccOf, sinks' = sinks, TypeOK', Numbered'
  PROVE  IInv'
<1>1. /\ Visited' = Visited /\ Completed' = Completed /\ onStack' = onStack
      /\ \A v : Carried(v)' = Carried(v)
  BY SameCarried DEF Visited, Completed, onStack
<1>2. OpenValues'
  BY <1>1 DEF IInv, OpenValues
<1>3. Path'
  BY <1>1 DEF IInv, Path
<1>4. Explored'
  BY <1>1 DEF IInv, Explored, OnPath
<1>5. LowReached'
  BY <1>1 DEF IInv, LowReached
<1>6. LowBounds'
  BY <1>1 DEF IInv, LowBounds, Between
<1>7. Settled'
  BY <1>1 DEF IInv, Settled
<1>8. SinksExact'
  BY <1>1 DEF IInv, SinksExact
<1>9. ComponentsAreCycles'
  BY <1>1 DEF IInv, ComponentsAreCycles
<1>. QED
  BY <1>2, <1>3, <1>4, <1>5, <1>6, <1>7, <1>8, <1>9 DEF IInv

LEMMA SkipRootKeeps ==
  ASSUME IInv, SkipRoot
  PROVE  IInv'
<1>1. /\ flow' = flow /\ roots' = roots /\ index' = index /\ low' = low /\ comp' = comp
      /\ stack' = stack /\ sccOf' = sccOf /\ sinks' = sinks
  BY DEF SkipRoot, input
<1>2. PICK r \in todo : r \notin Values \ Visited /\ todo' = todo \ {r}
  BY DEF SkipRoot, Fresh
<1>3. Visited' = Visited /\ Completed' = Completed /\ counter' = counter
  BY <1>1 DEF Visited, Completed, counter
<1>4. TypeOK'
  BY <1>1, <1>2 DEF IInv, TypeOK
<1>5. Numbered'
  <2>1. r \in Visited
    BY <1>2 DEF IInv, TypeOK
  <2>. QED
    BY <1>1, <1>2, <1>3, <2>1 DEF IInv, Numbered
<1>. QED
  BY <1>1, <1>4, <1>5, SearchUnchanged

(* Looking at a visited successor can only lower the low link of the top.  *)
Looks(w) ==
  /\ flow' = flow /\ roots' = roots /\ todo' = todo /\ index' = index /\ comp' = comp
  /\ sccOf' = sccOf /\ sinks' = sinks
  /\ Visited' = Visited /\ Completed' = Completed /\ onStack' = onStack
  /\ counter' = counter /\ \A v : Carried(v)' = Carried(v)
  /\ Len(stack) \in 1 .. Len(stack) /\ Len(stack') = Len(stack) /\ Len(stack) \in Nat
  /\ \A i \in 1 .. Len(stack) :
       /\ stack[i].v \in onStack
       /\ stack'[i].v = stack[i].v
       /\ stack'[i].rest \subseteq stack[i].rest
       /\ stack[i].rest \subseteq stack'[i].rest \cup {w}
       /\ i # Len(stack) => stack'[i].rest = stack[i].rest
  /\ w \in Visited /\ w \in flow[Top.v] /\ Top = stack[Len(stack)] /\ Top.v \in Values
  /\ flow \in [Values -> SUBSET Values] /\ onStack \subseteq Values
  /\ index \in [Values -> Nat] /\ low \in [Values -> Nat] /\ low' \in [Values -> Nat]
  /\ \A v \in Values : v # Top.v => low'[v] = low[v]
  /\ low'[Top.v] <= low[Top.v]
  /\ w \in onStack => low'[Top.v] <= index[w]
  /\ low'[Top.v] = low[Top.v] \/ (w \in onStack /\ low'[Top.v] = index[w])

LEMMA LookLooks ==
  ASSUME IInv, Look
  PROVE  TypeOK' /\ \E w \in Values : Looks(w)
<1>1. PICK w \in Top.rest : ~Fresh(w) /\ stack' = Looked(w) /\ low' = LookBack(w)
  BY DEF Look
<1>2. TypeOK /\ stack # <<>> /\ Sequenced
  BY TypesSequenced DEF Look, IInv
<1>3. /\ Len(stack) \in 1 .. Len(stack) /\ Top = stack[Len(stack)]
      /\ Top.v \in Values /\ Top.rest \subseteq Values
  BY <1>2, TopFacts
<1>4. TakesOff(w)
  BY <1>2, LookedTakesOff
<1>5. /\ flow' = flow /\ roots' = roots /\ todo' = todo /\ index' = index /\ comp' = comp
      /\ sccOf' = sccOf /\ sinks' = sinks
  BY DEF Look, input
<1>6. /\ Visited' = Visited /\ Completed' = Completed /\ onStack' = onStack
      /\ counter' = counter /\ \A v : Carried(v)' = Carried(v)
  BY <1>5, SameCarried DEF Visited, Completed, onStack, counter
<1>7. /\ index \in [Values -> Nat] /\ low \in [Values -> Nat]
      /\ flow \in [Values -> SUBSET Values] /\ onStack \subseteq Values
  BY <1>2 DEF TypeOK, Sequenced
<1>8. w \in Visited /\ w \in flow[Top.v] /\ w \in Values
  BY <1>1, <1>3 DEF Fresh, IInv, Explored
<1>9. /\ low' \in [Values -> Nat]
      /\ \A v \in Values : v # Top.v => low'[v] = low[v]
      /\ low'[Top.v] <= low[Top.v]
      /\ w \in onStack => low'[Top.v] <= index[w]
      /\ low'[Top.v] = low[Top.v] \/ (w \in onStack /\ low'[Top.v] = index[w])
  BY <1>1, <1>3, <1>7, <1>8 DEF LookBack
<1>10. TypeOK'
  BY <1>1, <1>2, <1>4, <1>5, <1>9 DEF TypeOK, TakesOff
<1>11. \A i \in 1 .. Len(stack) : stack[i].v \in onStack
  BY DEF IInv, OpenValues
<1>12. Len(stack') = Len(stack) /\ Len(stack) \in Nat
  BY <1>1, <1>2, <1>4 DEF TakesOff, Sequenced
<1>13. \A i \in 1 .. Len(stack) :
       /\ stack'[i].v = stack[i].v
       /\ stack'[i].rest \subseteq stack[i].rest
       /\ stack[i].rest \subseteq stack'[i].rest \cup {w}
       /\ i # Len(stack) => stack'[i].rest = stack[i].rest
  BY <1>1, <1>4 DEF TakesOff
<1>14. Looks(w)
  BY <1>3, <1>5, <1>6, <1>7, <1>8, <1>9, <1>11, <1>12, <1>13 DEF Looks
<1>. QED
  BY <1>8, <1>10, <1>14

LEMMA LookKeeps ==
  ASSUME IInv, Look
  PROVE  IInv'
<1>. DEFINE n == Len(stack)
<1>1. TypeOK'
  BY LookLooks
<1>2. PICK w \in Values : Looks(w)
  BY LookLooks
<1>3. Numbered'
  BY <1>2 DEF IInv, Numbered, Looks
<1>4. OpenValues'
  <2>1. Witnessed
    BY WitnessedIsOpen DEF IInv
  <2>2. Witnessed'
    BY <1>2, <2>1 DEF Witnessed, Looks
  <2>3. (onStack = Visited \ Completed)'
    BY <1>2 DEF IInv, OpenValues, Looks
  <2>4. (\A i, j \in 1 .. Len(comp) : i < j => index[comp[i]] < index[comp[j]])'
    BY <1>2 DEF IInv, OpenValues, Looks
  <2>5. (\A i \in 1 .. Len(stack) : stack[i].v \in onStack)'
    BY <1>2 DEF Looks
  <2>6. OpenValues' <=>
         /\ (onStack = Visited \ Completed)'
         /\ (\A i, j \in 1 .. Len(comp) : i < j => index[comp[i]] < index[comp[j]])'
         /\ (\A i \in 1 .. Len(stack) : stack[i].v \in onStack)'
         /\ Witnessed'
    BY WitnessedIsOpen, PTL
  <2>. QED
    BY <2>2, <2>3, <2>4, <2>5, <2>6
<1>5. Path'
  <2>1. stack # <<>> /\ stack' # <<>>
    BY <1>2 DEF Looks
  <2>2. \A v \in onStack' : index'[stack'[1].v] <= index'[v]
    <3>1. 1 \in 1 .. n
      BY <1>2 DEF Looks
    <3>. QED BY <1>2, <2>1, <3>1 DEF IInv, Path, Looks
  <2>3. \A i, j \in 1 .. Len(stack') : i < j => index'[stack'[i].v] < index'[stack'[j].v]
    BY <1>2 DEF IInv, Path, Looks
  <2>4. \A i \in 1 .. Len(stack') : \A v \in onStack' :
          index'[stack'[i].v] <= index'[v] => v \in Carried(stack'[i].v)
    BY <1>2 DEF IInv, Path, Looks
  <2>5. \A v : Carried(v)' = Carried(v)
    BY <1>2 DEF Looks
  <2>. QED BY <2>1, <2>2, <2>3, <2>4, <2>5 DEF Path
<1>6. Explored'
  <2>1. \A v : OnPath(v)' <=> OnPath(v)
    BY <1>2 DEF OnPath, Looks
  <2>2. \A i \in 1 .. Len(stack') :
          /\ stack'[i].rest \subseteq flow'[stack'[i].v]
          /\ flow'[stack'[i].v] \ stack'[i].rest \subseteq Visited'
    BY <1>2 DEF IInv, Explored, Looks
  <2>3. \A v \in Visited' : ~OnPath(v)' => flow'[v] \subseteq Visited'
    BY <1>2, <2>1 DEF IInv, Explored, Looks
  <2>. QED BY <2>2, <2>3 DEF Explored
<1>7. LowReached'
  <2>1. ASSUME NEW v \in onStack
        PROVE  /\ low'[v] <= index[v]
               /\ \E u \in onStack : u \in Carried(v) /\ index[u] = low'[v]
    <3>1. low[v] <= index[v] /\ \E u \in onStack : u \in Carried(v) /\ index[u] = low[v]
      BY DEF IInv, LowReached
    <3>2. CASE v = Top.v /\ low'[v] # low[v]
      <4>1. w \in onStack /\ index[w] = low'[v] /\ w \in Carried(v)
        BY <1>2, <3>2, CarriedFacts DEF Looks
      <4>2. low'[v] <= index[v]
        BY <1>2, <3>1, <3>2 DEF Looks
      <4>. QED BY <4>1, <4>2
    <3>3. CASE v # Top.v \/ low'[v] = low[v]
      BY <1>2, <3>1, <3>3 DEF Looks
    <3>. QED BY <3>2, <3>3
  <2>. QED BY <1>2, <2>1 DEF LowReached, Looks
<1>8. LowBounds'
  <2>1. SUFFICES ASSUME NEW i \in 1 .. n, NEW v \in onStack, Between(i, v)',
                        NEW u \in flow[v] \cap onStack,
                        ~(v = stack[i].v /\ u \in stack'[i].rest)
                 PROVE  low'[stack[i].v] <= index[u]
    BY <1>2 DEF LowBounds, Looks
  <2>2. Between(i, v)
    <3>1. Len(stack') = n /\ index' = index /\ stack'[i].v = stack[i].v
      BY <1>2, <2>1 DEF Looks
    <3>2. i < n => stack'[i + 1].v = stack[i + 1].v
      <4>1. i < n => i + 1 \in 1 .. n
        BY <1>2, <2>1 DEF Looks
      <4>. QED BY <1>2, <4>1 DEF Looks
    <3>. QED BY <2>1, <3>1, <3>2 DEF Between
  <2>3. low'[stack[i].v] <= low[stack[i].v]
    <3>1. stack[i].v \in Values
      BY <1>2, <2>1 DEF Looks
    <3>2. low[stack[i].v] \in Nat
      BY <1>2, <3>1 DEF Looks
    <3>3. CASE stack[i].v = Top.v
      BY <1>2, <3>3 DEF Looks
    <3>4. CASE stack[i].v # Top.v
      BY <1>2, <3>1, <3>2, <3>4 DEF Looks
    <3>. QED BY <3>3, <3>4
  <2>4. CASE ~(v = stack[i].v /\ u \in stack[i].rest)
    <3>1. low[stack[i].v] <= index[u]
      BY <2>1, <2>2, <2>4 DEF IInv, LowBounds
    <3>2. stack[i].v \in Values /\ u \in Values
      BY <1>2, <2>1 DEF Looks
    <3>. QED BY <1>2, <2>3, <3>1, <3>2 DEF Looks
  <2>5. CASE u \in stack[i].rest /\ u \notin stack'[i].rest
    <3>1. u = w /\ i = n
      BY <1>2, <2>1, <2>5 DEF Looks
    <3>. QED BY <1>2, <2>1, <3>1 DEF Looks
  <2>. QED BY <2>1, <2>4, <2>5
<1>9. Settled' /\ SinksExact' /\ ComponentsAreCycles'
  <2>1. Settled'
    BY <1>2 DEF IInv, Settled, Looks
  <2>2. SinksExact'
    BY <1>2 DEF IInv, SinksExact, Looks
  <2>3. ComponentsAreCycles'
    BY <1>2 DEF IInv, ComponentsAreCycles, Looks
  <2>. QED BY <2>1, <2>2, <2>3
<1>. QED
  BY <1>1, <1>3, <1>4, <1>5, <1>6, <1>7, <1>8, <1>9 DEF IInv

(* Popping the top frame.                                                  *)
Popped ==
  /\ stack' \in Seq(Frame)
  /\ Len(stack) \in Nat /\ Len(stack) \in 1 .. Len(stack)
  /\ Len(stack') = Len(stack) - 1
  /\ \A i \in 1 .. Len(stack') : i \in 1 .. Len(stack) /\ i < Len(stack) /\ stack'[i] = stack[i]
  /\ \A i \in 1 .. Len(stack) : i = Len(stack) \/ i \in 1 .. Len(stack')
  /\ stack' = <<>> <=> Len(stack) = 1

LEMMA PopShape ==
  ASSUME TypeOK, stack # <<>>, NEW ll, Pop(ll)
  PROVE  /\ Popped
         /\ low' = IF Len(stack) > 1 /\ ll[Top.v] < ll[stack[Len(stack) - 1].v]
                     THEN [ll EXCEPT ![stack[Len(stack) - 1].v] = ll[Top.v]]
                     ELSE ll
<1>1. stack \in Seq(Frame) /\ Len(stack) \in Nat /\ Len(stack) >= 1
  BY TypesSequenced DEF TypeOK, Sequenced
<1>2. stack' = SubSeq(stack, 1, Len(stack) - 1)
  BY DEF Pop
<1>3. /\ stack' \in Seq(Frame) /\ Len(stack') = Len(stack) - 1
      /\ \A i \in 1 .. Len(stack') : stack'[i] = stack[i]
  <2>1. Len(stack) - 1 \in 0 .. Len(stack)
    BY <1>1
  <2>. QED BY <1>1, <1>2, <2>1, Prefix
<1>4. stack' = <<>> <=> Len(stack) = 1
  BY <1>1, <1>3
<1>5. Popped
  BY <1>1, <1>3, <1>4 DEF Popped
<1>6. Len(stack) - 1 > 0 <=> Len(stack) > 1
  BY <1>1
<1>. QED
  BY <1>5, <1>6 DEF Pop

(* The frames below the top one hold values visited before the top's.      *)
LEMMA TopIsLast ==
  ASSUME IInv, stack # <<>>
  PROVE  /\ Top.v \in onStack /\ Top.v = stack[Len(stack)].v /\ onStack \subseteq Values
         /\ \A i \in 1 .. Len(stack) :
              /\ stack[i].v \in onStack
              /\ i # Len(stack) => index[stack[i].v] < index[Top.v]
              /\ index[stack[i].v] <= index[Top.v]
<1>1. Len(stack) \in 1 .. Len(stack) /\ Top = stack[Len(stack)] /\ Sequenced
  BY TopFacts, TypesSequenced DEF IInv
<1>2. \A i \in 1 .. Len(stack) : stack[i].v \in onStack
  BY DEF IInv, OpenValues
<1>3. onStack \subseteq Values /\ index \in [Values -> Nat]
  BY <1>1 DEF Sequenced, IInv, TypeOK
<1>4. \A i \in 1 .. Len(stack) : i # Len(stack) => i < Len(stack)
  BY <1>1
<1>5. \A i \in 1 .. Len(stack) : i # Len(stack) => index[stack[i].v] < index[Top.v]
  BY <1>1, <1>4 DEF IInv, Path
<1>6. \A i \in 1 .. Len(stack) : index[stack[i].v] <= index[Top.v]
  <2>1. ASSUME NEW i \in 1 .. Len(stack)
        PROVE  index[stack[i].v] <= index[Top.v]
    <3>1. index[stack[i].v] \in Nat /\ index[Top.v] \in Nat
      BY <1>1, <1>2, <1>3
    <3>2. CASE i = Len(stack)
      BY <1>1, <3>1, <3>2
    <3>3. CASE i # Len(stack)
      BY <1>5, <3>1, <3>3
    <3>. QED BY <3>2, <3>3
  <2>. QED BY <2>1
<1>. QED
  BY <1>1, <1>2, <1>3, <1>5, <1>6

(* The members of the component of v are the open values visited since v.  *)
Since(v) == {u \in onStack : index[v] <= index[u]}

LEMMA MembersSince ==
  ASSUME IInv, NEW v \in onStack
  PROVE  /\ Members(v) = Since(v)
         /\ FirstOf(v) \in 1 .. Len(comp)
         /\ {comp[i] : i \in 1 .. FirstOf(v) - 1} = onStack \ Since(v)
<1>1. Sequenced /\ index \in [Values -> Nat]
  BY TypesSequenced DEF IInv, TypeOK
<1>2. FirstOf(v) \in 1 .. Len(comp) /\ comp[FirstOf(v)] = v
  BY <1>1 DEF FirstOf, Sequenced
<1>3. PICK k \in 1 .. Len(comp) : k = FirstOf(v) /\ comp[k] = v
  BY <1>2
<1>4. PICK m \in Nat : m = Len(comp)
  BY <1>1 DEF Sequenced
<1>5. \A i \in 1 .. m : comp[i] \in onStack /\ index[comp[i]] \in Nat
  BY <1>1, <1>4 DEF Sequenced
<1>6. \A i \in 1 .. m : i < k => index[comp[i]] < index[v]
  BY <1>3, <1>4 DEF IInv, OpenValues
<1>7. \A i \in 1 .. m : i > k => index[v] < index[comp[i]]
  BY <1>3, <1>4 DEF IInv, OpenValues
<1>8. \A i \in 1 .. m : index[v] <= index[comp[i]] <=> i >= k
  BY <1>3, <1>4, <1>5, <1>6, <1>7
<1>9. onStack = {comp[i] : i \in 1 .. m}
  BY <1>4 DEF onStack
<1>10. Members(v) = {comp[i] : i \in k .. m}
  BY <1>3, <1>4 DEF Members
<1>11. Members(v) = Since(v)
  <2>1. \A i \in k .. m : i \in 1 .. m /\ i >= k
    BY <1>3, <1>4
  <2>2. \A i \in 1 .. m : i >= k => i \in k .. m
    BY <1>3, <1>4
  <2>. QED BY <1>8, <1>9, <1>10, <2>1, <2>2 DEF Since
<1>12. {comp[i] : i \in 1 .. k - 1} = onStack \ Since(v)
  <2>1. \A i \in 1 .. k - 1 : i \in 1 .. m /\ ~(i >= k)
    BY <1>3, <1>4
  <2>2. \A i \in 1 .. m : ~(i >= k) => i \in 1 .. k - 1
    BY <1>3, <1>4
  <2>. QED BY <1>8, <1>9, <2>1, <2>2 DEF Since
<1>. QED
  BY <1>2, <1>3, <1>11, <1>12

LEMMA PopKeepsExplored ==
  ASSUME IInv, stack # <<>>, Top.rest = {}, Popped, flow' = flow, index' = index
  PROVE  Explored'
<1>1. Visited' = Visited
  BY DEF Visited
<1>2. \A i \in 1 .. Len(stack') :
        /\ stack'[i].rest \subseteq flow'[stack'[i].v]
        /\ flow'[stack'[i].v] \ stack'[i].rest \subseteq Visited'
  BY <1>1 DEF IInv, Explored, Popped
<1>3. ASSUME NEW v \in Visited, ~OnPath(v)'
      PROVE  flow[v] \subseteq Visited
  <2>1. CASE ~OnPath(v)
    BY <2>1 DEF IInv, Explored
  <2>2. CASE OnPath(v)
    <3>1. PICK i \in 1 .. Len(stack) : stack[i].v = v
      BY <2>2 DEF OnPath
    <3>2. i = Len(stack)
      BY <1>3, <3>1 DEF OnPath, Popped
    <3>3. flow[v] \ Top.rest \subseteq Visited
      BY <3>1, <3>2 DEF IInv, Explored, Top
    <3>. QED BY <3>3
  <2>. QED BY <2>1, <2>2
<1>. QED
  BY <1>1, <1>2, <1>3 DEF Explored

LEMMA PopKeepsPath ==
  ASSUME IInv, stack # <<>>, Popped, flow' = flow, index' = index,
         onStack' \subseteq onStack, stack' = <<>> => onStack' = {}
  PROVE  Path'
<1>1. stack' # <<>> => \A v \in onStack' : index'[stack'[1].v] <= index'[v]
  <2>1. SUFFICES ASSUME stack' # <<>>
                 PROVE  \A v \in onStack' : index'[stack'[1].v] <= index'[v]
    OBVIOUS
  <2>2. 1 \in 1 .. Len(stack')
    BY <2>1 DEF Popped
  <2>. QED BY <2>2 DEF IInv, Path, Popped
<1>2. \A i, j \in 1 .. Len(stack') : i < j => index'[stack'[i].v] < index'[stack'[j].v]
  BY DEF IInv, Path, Popped
<1>3. \A i \in 1 .. Len(stack') : \A v \in onStack' :
        index'[stack'[i].v] <= index'[v] => v \in Carried(stack'[i].v)
  BY DEF IInv, Path, Popped
<1>4. \A v : Carried(v)' = Carried(v)
  BY SameCarried
<1>. QED
  BY <1>1, <1>2, <1>3, <1>4 DEF Path

(* A component is closed.                                                  *)
Closes(C) ==
  /\ flow' = flow /\ roots' = roots /\ todo' = todo /\ index' = index /\ low' = low
  /\ Popped
  /\ C \subseteq onStack /\ C = Since(Top.v)
  /\ onStack' = onStack \ C
  /\ comp' \in Seq(Values)
  /\ Len(comp') <= Len(comp) /\ \A i \in 1 .. Len(comp') : comp'[i] = comp[i]
  /\ sccOf' = [w \in Values |-> IF w \in C THEN Len(sinks) + 1 ELSE sccOf[w]]
  /\ sinks' = Append(sinks, SinksOf(C))
  /\ Visited' = Visited /\ counter' = counter
  /\ Completed' = Completed \cup C
  /\ \A v : Carried(v)' = Carried(v)

LEMMA CloseCloses ==
  ASSUME IInv, Close
  PROVE  Closes(Members(Top.v))
<1>. DEFINE v == Top.v
            n == Len(stack)
            C == Members(Top.v)
<1>1. /\ stack # <<>> /\ low[v] = index[v] /\ Pop(low)
      /\ comp' = SubSeq(comp, 1, FirstOf(v) - 1)
      /\ sccOf' = [w \in Values |-> IF w \in C THEN Len(sinks) + 1 ELSE sccOf[w]]
      /\ sinks' = Append(sinks, SinksOf(C))
  BY DEF Close
<1>2. /\ flow' = flow /\ roots' = roots /\ todo' = todo /\ index' = index
  BY DEF Close, input
<1>3. v \in onStack /\ TypeOK /\ Sequenced
  BY <1>1, TopIsLast, TypesSequenced DEF IInv
<1>4. /\ C = Since(v) /\ FirstOf(v) \in 1 .. Len(comp)
      /\ {comp[i] : i \in 1 .. FirstOf(v) - 1} = onStack \ C
  BY <1>3, MembersSince
<1>5. Popped
  BY <1>1, <1>3, PopShape
<1>6. low' = low
  <2>1. CASE n > 1
    <3>1. n - 1 \in 1 .. n /\ n - 1 # n
      BY <2>1, <1>3 DEF Sequenced
    <3>2. index[stack[n - 1].v] < index[v] /\ stack[n - 1].v \in onStack
      BY <1>1, <3>1, TopIsLast
    <3>3. low[stack[n - 1].v] <= index[stack[n - 1].v]
      BY <3>2 DEF IInv, LowReached
    <3>4. index \in [Values -> Nat] /\ low \in [Values -> Nat] /\ onStack \subseteq Values
      BY <1>3 DEF TypeOK, Sequenced
    <3>5. ~(low[v] < low[stack[n - 1].v])
      BY <1>1, <1>3, <3>2, <3>3, <3>4
    <3>. QED BY <1>1, <1>3, <3>5, PopShape
  <2>2. CASE ~(n > 1)
    BY <1>1, <1>3, <2>2, PopShape
  <2>. QED BY <2>1, <2>2
<1>7. /\ comp' \in Seq(Values) /\ Len(comp') = FirstOf(v) - 1
      /\ \A i \in 1 .. Len(comp') : comp'[i] = comp[i]
  <2>1. PICK m \in 0 .. Len(comp) : m = FirstOf(v) - 1
    BY <1>4
  <2>. QED BY <1>1, <1>3, <2>1, Prefix DEF TypeOK
<1>8. onStack' = onStack \ C
  BY <1>4, <1>7 DEF onStack
<1>9. Len(comp') <= Len(comp)
  BY <1>4, <1>7
<1>10. Visited' = Visited /\ counter' = counter /\ \A x : Carried(x)' = Carried(x)
  BY <1>2, SameCarried DEF Visited, counter
<1>11. Completed' = Completed \cup C
  <2>1. Len(sinks) \in Nat /\ C \subseteq Values
    BY <1>3, <1>4 DEF Sequenced, Since
  <2>. QED BY <1>1, <2>1 DEF Completed
<1>12. C \subseteq onStack
  BY <1>4 DEF Since
<1>. QED
  BY <1>1, <1>2, <1>4, <1>5, <1>6, <1>7, <1>8, <1>9, <1>10, <1>11, <1>12 DEF Closes

(* What is closed is a class of mutual flow that flows to itself and to    *)
(* completed components only.                                              *)
LEMMA ClosedIsClass ==
  ASSUME IInv, stack # <<>>, Top.rest = {}, low[Top.v] = index[Top.v],
         NEW w \in Since(Top.v)
  PROVE  /\ Top.v \in Carried(w) /\ w \in Carried(Top.v)
         /\ flow[w] \subseteq Since(Top.v) \cup Completed
<1>. DEFINE v == Top.v
            n == Len(stack)
<1>1. /\ v \in onStack /\ v = stack[n].v /\ onStack \subseteq Values
      /\ \A i \in 1 .. n :
           /\ stack[i].v \in onStack
           /\ i # n => index[stack[i].v] < index[v]
           /\ index[stack[i].v] <= index[v]
  BY TopIsLast
<1>2. n \in 1 .. n /\ n \in Nat
  BY TopFacts DEF IInv
<1>3. w \in onStack /\ index[v] <= index[w]
  BY DEF Since
<1>4. index \in [Values -> Nat] /\ flow \in [Values -> SUBSET Values]
  BY DEF IInv, TypeOK
<1>5. w \in Carried(v)
  BY <1>1, <1>2, <1>3 DEF IInv, Path
<1>6. v \in Carried(w)
  <2>1. PICK i \in 1 .. n : index[stack[i].v] <= index[w] /\ stack[i].v \in Carried(w)
    BY <1>3, WitnessedIsOpen DEF IInv, Witnessed
  <2>2. v \in Carried(stack[i].v)
    BY <1>1 DEF IInv, Path
  <2>. QED BY <1>1, <1>3, <1>4, <2>1, <2>2, CarriedFacts
<1>7. flow[w] \subseteq Visited
  <2>1. CASE OnPath(w)
    <3>1. PICK i \in 1 .. n : stack[i].v = w
      BY <2>1 DEF OnPath
    <3>2. i = n
      BY <1>1, <1>3, <1>4, <3>1
    <3>. QED BY <3>1, <3>2 DEF IInv, Explored, Top
  <2>2. CASE ~OnPath(w)
    <3>1. w \in Visited
      BY <1>3 DEF IInv, OpenValues
    <3>. QED BY <2>2, <3>1 DEF IInv, Explored
  <2>. QED BY <2>1, <2>2
<1>8. ASSUME NEW u \in flow[w], u \notin Completed
      PROVE  u \in Since(v)
  <2>1. u \in onStack
    BY <1>7, <1>8 DEF IInv, OpenValues
  <2>2. Between(n, w)
    BY <1>1, <1>2, <1>3 DEF Between
  <2>3. stack[n].rest = {}
    BY DEF Top
  <2>4. low[v] <= index[u]
    BY <1>1, <1>2, <1>3, <1>8, <2>1, <2>2, <2>3 DEF IInv, LowBounds
  <2>. QED BY <2>1, <2>4 DEF Since
<1>. QED
  BY <1>5, <1>6, <1>8

LEMMA CloseKeepsTypes ==
  ASSUME IInv, Close
  PROVE  TypeOK' /\ Numbered'
<1>1. Closes(Members(Top.v)) /\ TypeOK /\ Sequenced
  BY CloseCloses, TypesSequenced DEF IInv
<1>2. PICK C : C = Members(Top.v)
  OBVIOUS
<1>3. SinksOf(C) \in SUBSET Functions
  <2>1. \A s \in Completed : sinks[sccOf[s]] \subseteq Functions
    <3>1. \A s \in Completed : sccOf[s] \in 1 .. Len(sinks)
      BY <1>1 DEF Completed, TypeOK, Sequenced
    <3>. QED BY <1>1, <3>1 DEF TypeOK
  <2>. QED BY <2>1 DEF SinksOf
<1>4. sinks' \in Seq(SUBSET Functions) /\ Len(sinks') = Len(sinks) + 1
  BY <1>1, <1>2, <1>3 DEF Closes, TypeOK
<1>5. sccOf' \in [Values -> 0 .. Len(sinks')]
  <2>1. Len(sinks) \in Nat /\ sccOf \in [Values -> 0 .. Len(sinks)]
    BY <1>1 DEF TypeOK, Sequenced
  <2>2. \A x \in 0 .. Len(sinks) : x \in 0 .. Len(sinks')
    BY <1>4, <2>1
  <2>3. Len(sinks) + 1 \in 0 .. Len(sinks')
    BY <1>4, <2>1
  <2>. QED BY <1>1, <2>1, <2>2, <2>3 DEF Closes
<1>6. TypeOK'
  BY <1>1, <1>4, <1>5 DEF Closes, TypeOK, Popped
<1>7. Numbered'
  <2>1. Completed' \subseteq Visited'
    BY <1>1 DEF Closes, IInv, Numbered, OpenValues
  <2>. QED BY <1>1, <2>1 DEF Closes, IInv, Numbered
<1>. QED
  BY <1>6, <1>7

LEMMA CloseKeepsOpen ==
  ASSUME IInv, Close
  PROVE  OpenValues' /\ LowReached'
<1>. DEFINE v == Top.v
            n == Len(stack)
            C == Members(v)
<1>1. Closes(C) /\ stack # <<>> /\ Sequenced /\ Witnessed
  BY CloseCloses, TypesSequenced, WitnessedIsOpen DEF IInv, Close
<1>2. /\ v \in onStack /\ v = stack[n].v
      /\ \A i \in 1 .. n : stack[i].v \in onStack /\ (i # n => index[stack[i].v] < index[v])
  BY <1>1, TopIsLast
<1>3. index \in [Values -> Nat] /\ low \in [Values -> Nat] /\ onStack \subseteq Values
  BY <1>1 DEF IInv, TypeOK, Sequenced
<1>4. \A u \in onStack : index[u] < index[v] <=> u \in onStack'
  BY <1>1, <1>2, <1>3 DEF Closes, Since
<1>5. onStack' \subseteq onStack /\ Popped /\ index' = index /\ low' = low
  BY <1>1 DEF Closes
<1>6. \A x : Carried(x)' = Carried(x)
  BY <1>1 DEF Closes
<1>7. (onStack = Visited \ Completed)'
  BY <1>1 DEF Closes, IInv, OpenValues
<1>8. (\A i, j \in 1 .. Len(comp) : i < j => index[comp[i]] < index[comp[j]])'
  <2>1. Len(comp') \in Nat /\ Len(comp) \in Nat /\ Len(comp') <= Len(comp)
    BY <1>1 DEF Closes, Sequenced
  <2>2. \A i \in 1 .. Len(comp') : i \in 1 .. Len(comp) /\ comp'[i] = comp[i]
    BY <1>1, <2>1 DEF Closes
  <2>. QED BY <1>5, <2>2 DEF IInv, OpenValues
<1>9. (\A i \in 1 .. Len(stack) : stack[i].v \in onStack)'
  <2>1. \A i \in 1 .. Len(stack') : i \in 1 .. n /\ i # n /\ stack'[i] = stack[i]
    BY <1>5 DEF Popped
  <2>. QED BY <1>2, <1>4, <2>1
<1>10. Witnessed'
  <2>1. ASSUME NEW u \in onStack'
        PROVE  \E i \in 1 .. Len(stack') :
                 index[stack'[i].v] <= index[u] /\ stack'[i].v \in Carried(u)
    <3>1. PICK i \in 1 .. n : index[stack[i].v] <= index[u] /\ stack[i].v \in Carried(u)
      BY <1>1, <1>5 DEF Witnessed
    <3>2. i # n
      BY <1>2, <1>3, <1>4, <1>5, <3>1
    <3>3. i \in 1 .. Len(stack') /\ stack'[i] = stack[i]
      BY <1>5, <3>2 DEF Popped
    <3>. QED BY <3>1, <3>3
  <2>. QED BY <1>5, <1>6, <2>1 DEF Witnessed
<1>11. OpenValues' <=>
         /\ (onStack = Visited \ Completed)'
         /\ (\A i, j \in 1 .. Len(comp) : i < j => index[comp[i]] < index[comp[j]])'
         /\ (\A i \in 1 .. Len(stack) : stack[i].v \in onStack)'
         /\ Witnessed'
  BY WitnessedIsOpen, PTL
<1>12. OpenValues'
  BY <1>7, <1>8, <1>9, <1>10, <1>11
<1>13. LowReached'
  <2>1. ASSUME NEW x \in onStack'
        PROVE  low[x] <= index[x] /\ \E u \in onStack' : u \in Carried(x) /\ index[u] = low[x]
    <3>1. PICK u \in onStack : u \in Carried(x) /\ index[u] = low[x]
      BY <1>5 DEF IInv, LowReached
    <3>2. low[x] <= index[x] /\ index[x] < index[v]
      BY <1>4, <1>5 DEF IInv, LowReached
    <3>3. u \in onStack'
      BY <1>2, <1>3, <1>4, <1>5, <3>1, <3>2
    <3>. QED BY <3>1, <3>2, <3>3
  <2>. QED BY <1>5, <1>6, <2>1 DEF LowReached
<1>. QED
  BY <1>12, <1>13

LEMMA CloseKeepsPath ==
  ASSUME IInv, Close
  PROVE  Path' /\ Explored' /\ LowBounds'
<1>. DEFINE v == Top.v
            n == Len(stack)
            C == Members(v)
<1>1. Closes(C) /\ stack # <<>> /\ Top.rest = {}
  BY CloseCloses DEF Close
<1>2. v = stack[n].v /\ v \in onStack /\ onStack \subseteq Values
  BY <1>1, TopIsLast
<1>3. /\ Popped /\ flow' = flow /\ index' = index /\ low' = low
      /\ onStack' \subseteq onStack /\ onStack' = onStack \ Since(v)
  BY <1>1 DEF Closes
<1>4. stack' = <<>> => onStack' = {}
  <2>1. SUFFICES ASSUME n = 1
                 PROVE  onStack' = {}
    BY <1>3 DEF Popped
  <2>2. \A u \in onStack : index[v] <= index[u]
    BY <1>1, <1>2, <2>1 DEF IInv, Path
  <2>. QED BY <1>3, <2>2 DEF Since
<1>5. Path' /\ Explored'
  BY <1>1, <1>3, <1>4, PopKeepsPath, PopKeepsExplored
<1>6. LowBounds'
  <2>1. SUFFICES ASSUME NEW i \in 1 .. Len(stack'), NEW x \in onStack', Between(i, x)',
                        NEW u \in flow[x] \cap onStack',
                        ~(x = stack'[i].v /\ u \in stack'[i].rest)
                 PROVE  low[stack'[i].v] <= index[u]
    BY <1>3 DEF LowBounds
  <2>2. i \in 1 .. n /\ i < n /\ stack'[i] = stack[i] /\ n \in Nat /\ Len(stack') = n - 1
    BY <1>3 DEF Popped
  <2>3. index \in [Values -> Nat]
    BY DEF IInv, TypeOK
  <2>4. Between(i, x)
    <3>1. index[stack[i].v] <= index[x]
      BY <1>3, <2>1, <2>2 DEF Between
    <3>2. CASE i = n - 1
      <4>1. index[x] < index[v]
        BY <1>2, <1>3, <2>3 DEF Since
      <4>. QED BY <1>2, <2>2, <3>1, <3>2, <4>1 DEF Between
    <3>3. CASE i < n - 1
      <4>1. i + 1 \in 1 .. Len(stack')
        BY <2>2, <3>3
      <4>2. index[x] < index[stack[i + 1].v]
        BY <1>3, <2>1, <2>2, <3>3, <4>1 DEF Between, Popped
      <4>. QED BY <3>1, <4>2 DEF Between
    <3>. QED BY <2>2, <3>2, <3>3
  <2>. QED BY <1>3, <2>1, <2>2, <2>4 DEF IInv, LowBounds
<1>. QED
  BY <1>5, <1>6

(* Completed values carry completed values only.                           *)
LEMMA CarriedSettled ==
  ASSUME IInv, NEW v \in Completed
  PROVE  Carried(v) \subseteq Completed
<1>1. Completed \in SUBSET Values /\ v \in Values /\ flow \in [Values -> SUBSET Values]
  BY DEF Completed, IInv, TypeOK
<1>. QED
  BY <1>1, CarriedFacts DEF IInv, Settled

(* The functions a class carries: its own and those of the components it   *)
(* flows into.                                                             *)
LEMMA ClassSinks ==
  ASSUME IInv, stack # <<>>, Top.rest = {}, low[Top.v] = index[Top.v],
         NEW C, C = Since(Top.v), NEW w \in C
  PROVE  SinksOf(C) = Carried(w) \cap Functions
<1>. DEFINE Into == (UNION {flow[x] : x \in C}) \cap Completed
            T == C \cup UNION {Carried(s) : s \in Into}
<1>1. /\ Top.v \in onStack /\ onStack \subseteq Values /\ C \subseteq onStack
      /\ flow \in [Values -> SUBSET Values] /\ Completed \subseteq Values
  BY TopIsLast DEF Since, IInv, TypeOK, Completed
<1>2. \A x \in C : /\ Top.v \in Carried(x) /\ x \in Carried(Top.v)
                   /\ flow[x] \subseteq C \cup Completed
  BY ClosedIsClass
<1>3. \A x \in C : x \in Carried(w) /\ Carried(x) \subseteq Carried(w)
  <2>1. \A x \in C : x \in Carried(w)
    BY <1>1, <1>2, CarriedFacts
  <2>. QED BY <1>1, <2>1, CarriedFacts
<1>4. \A s \in Into : s \in Values /\ s \in Completed /\ Carried(s) \subseteq Carried(w)
  <2>1. ASSUME NEW x \in C, NEW s \in flow[x]
        PROVE  Carried(s) \subseteq Carried(w)
    BY <1>1, <1>3, <2>1, CarriedFacts
  <2>. QED BY <1>1, <2>1
<1>5. T \in SUBSET Values /\ w \in T /\ \A x \in T : flow[x] \subseteq T
  <2>1. \A s \in Into : Carried(s) \subseteq Values /\ s \in Carried(s)
    BY <1>1, <1>4, CarriedFacts
  <2>2. ASSUME NEW x \in C
        PROVE  flow[x] \subseteq T
    <3>1. \A s \in flow[x] : s \in C \/ s \in Into
      BY <1>2
    <3>. QED BY <2>1, <3>1
  <2>3. ASSUME NEW s \in Into, NEW x \in Carried(s)
        PROVE  flow[x] \subseteq T
    <3>1. flow[x] \subseteq Carried(s)
      BY <1>1, <1>4, <2>3, CarriedFacts
    <3>. QED BY <3>1
  <2>. QED BY <1>1, <2>1, <2>2, <2>3
<1>6. Carried(w) = T
  <2>1. Carried(w) \subseteq T
    <3>. HIDE DEF T
    <3>. QED BY <1>1, <1>5, CarriedFacts
  <2>2. T \subseteq Carried(w)
    BY <1>3, <1>4
  <2>. QED BY <2>1, <2>2
<1>7. \A s \in Into : sinks[sccOf[s]] = Carried(s) \cap Functions
  BY <1>4 DEF IInv, SinksExact
<1>8. SinksOf(C) = (C \cap Functions) \cup UNION {sinks[sccOf[s]] : s \in Into}
  BY DEF SinksOf
<1>9. UNION {sinks[sccOf[s]] : s \in Into} = (UNION {Carried(s) : s \in Into}) \cap Functions
  <2>. HIDE DEF Into
  <2>. QED BY <1>7
<1>. QED
  BY <1>6, <1>8, <1>9

LEMMA CloseKeepsResults ==
  ASSUME IInv, Close
  PROVE  Settled' /\ SinksExact' /\ ComponentsAreCycles'
<1>1. PICK C : C = Members(Top.v)
  OBVIOUS
<1>2. /\ stack # <<>> /\ Top.rest = {} /\ low[Top.v] = index[Top.v]
      /\ Closes(C) /\ C = Since(Top.v) /\ TypeOK' /\ Sequenced /\ TypeOK
  BY <1>1, CloseCloses, CloseKeepsTypes, TypesSequenced DEF Close, Closes, IInv
<1>3. /\ flow' = flow /\ Completed' = Completed \cup C /\ \A v : Carried(v)' = Carried(v)
      /\ C \subseteq Values /\ C \cap Completed = {}
  BY <1>2 DEF Closes, Sequenced, IInv, OpenValues
<1>4. \A w \in C : Top.v \in Carried(w) /\ w \in Carried(Top.v) /\ flow[w] \subseteq C \cup Completed
  BY <1>2, ClosedIsClass
<1>5. Len(sinks) \in Nat /\ sinks' = Append(sinks, SinksOf(C)) /\ sinks \in Seq(SUBSET Functions)
  BY <1>2 DEF Closes, Sequenced, TypeOK
<1>6. \A v \in C : sccOf'[v] = Len(sinks) + 1 /\ sinks'[sccOf'[v]] = SinksOf(C)
  BY <1>2, <1>3, <1>5 DEF Closes
<1>7. \A v \in Completed :
        /\ sccOf'[v] = sccOf[v] /\ sccOf[v] \in 1 .. Len(sinks)
        /\ sinks'[sccOf'[v]] = sinks[sccOf[v]]
  <2>1. \A v \in Completed : sccOf'[v] = sccOf[v] /\ sccOf[v] \in 1 .. Len(sinks)
    BY <1>2, <1>3, <1>5 DEF Closes, Completed, TypeOK
  <2>2. \A i \in 1 .. Len(sinks) : sinks'[i] = sinks[i]
    BY <1>5
  <2>. QED BY <2>1, <2>2
<1>8. Settled'
  BY <1>3, <1>4 DEF IInv, Settled
<1>9. SinksExact'
  <2>1. ASSUME NEW v \in Completed'
        PROVE  sinks'[sccOf'[v]] = Carried(v) \cap Functions
    <3>1. CASE v \in C
      BY <1>2, <1>6, <3>1, ClassSinks
    <3>2. CASE v \in Completed
      BY <1>7, <3>2 DEF IInv, SinksExact
    <3>. QED BY <1>3, <3>1, <3>2
  <2>. QED BY <1>3, <2>1 DEF SinksExact
<1>10. ComponentsAreCycles'
  <2>1. \A v \in Completed : Carried(v) \subseteq Completed
    BY CarriedSettled
  <2>2. \A v \in C : v \in Values /\ \A w \in C : w \in Carried(v)
    <3>1. \A v \in C : v \in Values /\ flow \in [Values -> SUBSET Values]
      BY <1>2, <1>3 DEF TypeOK
    <3>. QED BY <1>4, <3>1, CarriedFacts
  <2>3. ASSUME NEW v \in Completed', NEW w \in Completed'
        PROVE  sccOf'[v] = sccOf'[w] <=> w \in Carried(v) /\ v \in Carried(w)
    <3>1. CASE v \in C /\ w \in C
      BY <1>6, <2>2, <3>1
    <3>2. CASE v \in C /\ w \in Completed
      BY <1>3, <1>5, <1>6, <1>7, <2>1, <3>2
    <3>3. CASE v \in Completed /\ w \in C
      BY <1>3, <1>5, <1>6, <1>7, <2>1, <3>3
    <3>4. CASE v \in Completed /\ w \in Completed
      BY <1>7, <3>4 DEF IInv, ComponentsAreCycles
    <3>. QED BY <1>3, <3>1, <3>2, <3>3, <3>4
  <2>. QED BY <1>3, <2>3 DEF ComponentsAreCycles
<1>. QED
  BY <1>8, <1>9, <1>10

LEMMA CloseKeeps ==
  ASSUME IInv, Close
  PROVE  IInv'
BY CloseKeepsTypes, CloseKeepsOpen, CloseKeepsPath, CloseKeepsResults DEF IInv

(* An exhausted frame that is not the first of its component hands its low *)
(* link down.                                                              *)
LEMMA AscendKeeps ==
  ASSUME IInv, Ascend
  PROVE  IInv'
<1>. DEFINE v == Top.v
            n == Len(stack)
            p == stack[n - 1].v
<1>1. /\ stack # <<>> /\ Top.rest = {} /\ low[v] # index[v] /\ Pop(low) /\ TypeOK /\ Sequenced
      /\ flow' = flow /\ roots' = roots /\ todo' = todo /\ index' = index /\ comp' = comp
      /\ sccOf' = sccOf /\ sinks' = sinks
  BY TypesSequenced DEF Ascend, input, IInv
<1>2. /\ v \in onStack /\ v = stack[n].v
      /\ \A i \in 1 .. n : stack[i].v \in onStack /\ (i # n => index[stack[i].v] < index[v])
  BY <1>1, TopIsLast
<1>3. index \in [Values -> Nat] /\ low \in [Values -> Nat] /\ onStack \subseteq Values
  BY <1>1 DEF TypeOK, Sequenced
<1>4. PICK u \in onStack : u \in Carried(v) /\ index[u] = low[v] /\ index[u] < index[v]
  <2>1. PICK u \in onStack : u \in Carried(v) /\ index[u] = low[v]
    BY <1>2 DEF IInv, LowReached
  <2>2. low[v] <= index[v]
    BY <1>2 DEF IInv, LowReached
  <2>. QED BY <1>1, <1>2, <1>3, <2>1, <2>2
<1>5. Popped /\ n \in Nat /\ n > 1 /\ n - 1 \in 1 .. n /\ n - 1 # n
  <2>1. Popped
    BY <1>1, PopShape
  <2>2. n # 1
    <3>1. SUFFICES ASSUME n = 1 PROVE FALSE
      OBVIOUS
    <3>2. index[v] <= index[u]
      BY <1>1, <1>2, <3>1 DEF IInv, Path
    <3>. QED BY <1>2, <1>3, <1>4, <3>2
  <2>. QED BY <2>1, <2>2 DEF Popped
<1>6. p \in onStack /\ index[p] < index[v] /\ v \in Carried(p)
  <2>1. p \in onStack /\ index[p] < index[v]
    BY <1>2, <1>5
  <2>. QED BY <1>2, <1>3, <1>5, <2>1 DEF IInv, Path
<1>7. low' = IF low[v] < low[p] THEN [low EXCEPT ![p] = low[v]] ELSE low
  BY <1>1, <1>5, PopShape
<1>8. /\ low' \in [Values -> Nat] /\ low'[p] <= low[p] /\ low'[p] <= low[v]
      /\ low'[p] = low[p] \/ low'[p] = low[v]
      /\ \A x \in Values : x # p => low'[x] = low[x]
  BY <1>2, <1>3, <1>6, <1>7
<1>9. /\ Visited' = Visited /\ Completed' = Completed /\ onStack' = onStack
      /\ counter' = counter /\ \A x : Carried(x)' = Carried(x)
  BY <1>1, SameCarried DEF Visited, Completed, onStack, counter
<1>10. TypeOK'
  BY <1>1, <1>5, <1>8 DEF TypeOK, Popped
<1>11. Numbered'
  BY <1>1, <1>9 DEF IInv, Numbered
<1>12. flow \in [Values -> SUBSET Values]
  BY <1>1 DEF TypeOK
<1>13. OpenValues'
  <2>1. ASSUME NEW x \in onStack
        PROVE  \E i \in 1 .. Len(stack') : index[stack'[i].v] <= index[x] /\ stack'[i].v \in Carried(x)
    <3>1. PICK i \in 1 .. n : index[stack[i].v] <= index[x] /\ stack[i].v \in Carried(x)
      BY WitnessedIsOpen DEF IInv, Witnessed
    <3>2. CASE i # n
      BY <1>5, <3>1, <3>2 DEF Popped
    <3>3. CASE i = n
      <4>1. PICK j \in 1 .. n : index[stack[j].v] <= index[u] /\ stack[j].v \in Carried(u)
        BY WitnessedIsOpen DEF IInv, Witnessed
      <4>2. j # n
        BY <1>2, <1>3, <1>4, <4>1
      <4>3. j \in 1 .. Len(stack') /\ stack'[j] = stack[j]
        BY <1>5, <4>2 DEF Popped
      <4>4. index[stack[j].v] <= index[x]
        BY <1>2, <1>3, <1>4, <3>1, <3>3, <4>1
      <4>5. stack[j].v \in Carried(x)
        <5>1. Carried(v) \subseteq Carried(x) /\ Carried(u) \subseteq Carried(v)
          BY <1>2, <1>3, <1>4, <1>12, <3>1, <3>3, CarriedFacts
        <5>. QED BY <4>1, <5>1
      <4>. QED BY <4>3, <4>4, <4>5
    <3>. QED BY <3>2, <3>3
  <2>2. Witnessed'
    BY <1>1, <1>9, <2>1 DEF Witnessed
  <2>3. (onStack = Visited \ Completed)'
    BY <1>9 DEF IInv, OpenValues
  <2>4. (\A i, j \in 1 .. Len(comp) : i < j => index[comp[i]] < index[comp[j]])'
    BY <1>1 DEF IInv, OpenValues
  <2>5. (\A i \in 1 .. Len(stack) : stack[i].v \in onStack)'
    BY <1>2, <1>5, <1>9 DEF Popped
  <2>6. OpenValues' <=>
         /\ (onStack = Visited \ Completed)'
         /\ (\A i, j \in 1 .. Len(comp) : i < j => index[comp[i]] < index[comp[j]])'
         /\ (\A i \in 1 .. Len(stack) : stack[i].v \in onStack)'
         /\ Witnessed'
    BY WitnessedIsOpen, PTL
  <2>. QED BY <2>2, <2>3, <2>4, <2>5, <2>6
<1>14. Path' /\ Explored'
  <2>1. stack' # <<>>
    BY <1>5 DEF Popped
  <2>. QED BY <1>1, <1>5, <1>9, <2>1, PopKeepsPath, PopKeepsExplored
<1>15. LowReached'
  <2>1. ASSUME NEW x \in onStack
        PROVE  low'[x] <= index[x] /\ \E y \in onStack : y \in Carried(x) /\ index[y] = low'[x]
    <3>1. low[x] <= index[x] /\ \E y \in onStack : y \in Carried(x) /\ index[y] = low[x]
      BY DEF IInv, LowReached
    <3>2. CASE x = p /\ low'[x] = low[v]
      <4>1. u \in Carried(p)
        BY <1>3, <1>4, <1>6, <1>12, CarriedFacts
      <4>2. low'[p] <= index[p]
        BY <1>3, <1>6, <1>8, <3>1, <3>2
      <4>. QED BY <1>4, <3>2, <4>1, <4>2
    <3>3. CASE low'[x] = low[x]
      BY <3>1, <3>3
    <3>. QED BY <1>3, <1>8, <3>2, <3>3
  <2>. QED BY <1>1, <1>9, <2>1 DEF LowReached
<1>16. LowBounds'
  <2>1. SUFFICES ASSUME NEW i \in 1 .. Len(stack'), NEW x \in onStack, Between(i, x)',
                        NEW y \in flow[x] \cap onStack,
                        ~(x = stack'[i].v /\ y \in stack'[i].rest)
                 PROVE  low'[stack'[i].v] <= index[y]
    BY <1>1, <1>9 DEF LowBounds
  <2>2. i \in 1 .. n /\ i < n /\ stack'[i] = stack[i] /\ Len(stack') = n - 1
    BY <1>5 DEF Popped
  <2>3. index[stack[i].v] <= index[x] /\ stack[i].v \in onStack
    BY <1>1, <1>2, <2>1, <2>2 DEF Between
  <2>4. low'[stack[i].v] <= low[stack[i].v] /\ low'[stack[i].v] \in Nat /\ low[stack[i].v] \in Nat
    <3>1. PICK x1 \in Values : x1 = stack[i].v
      BY <1>3, <2>3
    <3>2. low'[x1] \in Nat /\ low[x1] \in Nat
      BY <1>3, <1>8
    <3>3. low'[x1] <= low[x1]
      <4>1. CASE x1 = p
        BY <1>8, <4>1
      <4>2. CASE x1 # p
        BY <1>8, <3>2, <4>2
      <4>. QED BY <4>1, <4>2
    <3>. QED BY <2>2, <3>1, <3>2, <3>3
  <2>5. CASE Between(i, x)
    <3>1. low[stack[i].v] <= index[y]
      BY <2>1, <2>2, <2>5 DEF IInv, LowBounds
    <3>2. index[y] \in Nat
      BY <1>3
    <3>. QED BY <2>2, <2>4, <3>1, <3>2
  <2>6. CASE ~Between(i, x)
    <3>1. i = n - 1
      <4>1. SUFFICES ASSUME i < n - 1 PROVE FALSE
        BY <1>5, <2>2
      <4>2. i + 1 \in 1 .. Len(stack')
        BY <1>5, <2>2, <4>1
      <4>3. stack'[i + 1] = stack[i + 1]
        BY <1>5, <4>2 DEF Popped
      <4>. QED BY <1>1, <2>1, <2>2, <2>3, <2>6, <4>1, <4>3 DEF Between
    <3>2. index[v] <= index[x]
      BY <1>2, <1>3, <1>5, <2>3, <2>6, <3>1 DEF Between
    <3>3. Between(n, x) /\ n \in 1 .. n
      BY <1>2, <1>5, <3>2 DEF Between
    <3>4. low[v] <= index[y]
      BY <1>1, <1>2, <2>1, <3>3 DEF IInv, LowBounds, Top
    <3>5. index[y] \in Nat /\ low[v] \in Nat /\ low'[p] \in Nat /\ stack'[i].v = p
      BY <1>2, <1>3, <1>6, <1>8, <2>2, <3>1
    <3>. QED BY <1>8, <3>4, <3>5
  <2>. QED BY <2>5, <2>6
<1>17. Settled' /\ SinksExact' /\ ComponentsAreCycles'
  <2>1. Settled'
    BY <1>1, <1>9 DEF IInv, Settled
  <2>2. SinksExact'
    BY <1>1, <1>9 DEF IInv, SinksExact
  <2>3. ComponentsAreCycles'
    BY <1>1, <1>9 DEF IInv, ComponentsAreCycles
  <2>. QED BY <2>1, <2>2, <2>3
<1>. QED
  BY <1>10, <1>11, <1>13, <1>14, <1>15, <1>16, <1>17 DEF IInv

-----------------------------------------------------------------------------
LEMMA StutterKeeps ==
  ASSUME IInv, UNCHANGED vars
  PROVE  IInv'
<1>1. /\ flow' = flow /\ roots' = roots /\ todo' = todo /\ index' = index /\ low' = low
      /\ comp' = comp /\ stack' = stack /\ sccOf' = sccOf /\ sinks' = sinks
  BY DEF vars
<1>2. TypeOK'
  BY <1>1 DEF IInv, TypeOK
<1>3. Numbered'
  BY <1>1 DEF IInv, Numbered, Visited, Completed, counter
<1>. QED
  BY <1>1, <1>2, <1>3, SearchUnchanged

LEMMA Invariance == Spec => []IInv
<1>1. ASSUME IInv, [Next]_vars
      PROVE  IInv'
  <2>1. CASE TakeRoot
    BY <1>1, <2>1, TakeRootKeeps
  <2>2. CASE SkipRoot
    BY <1>1, <2>2, SkipRootKeeps
  <2>3. CASE Descend
    BY <1>1, <2>3, DescendKeeps
  <2>4. CASE Look
    BY <1>1, <2>4, LookKeeps
  <2>5. CASE Close
    BY <1>1, <2>5, CloseKeeps
  <2>6. CASE Ascend
    BY <1>1, <2>6, AscendKeeps
  <2>7. CASE UNCHANGED vars
    BY <1>1, <2>7, StutterKeeps
  <2>. QED
    BY <1>1, <2>1, <2>2, <2>3, <2>4, <2>5, <2>6, <2>7 DEF Next
<1>. QED
  BY <1>1, InitHolds, PTL DEF Spec

(* The two stacks of computeEscapeSets hold what the search assumes.       *)
THEOREM StacksAgree == Spec => []Inv
<1>1. IInv => Inv
  BY DEF IInv, Inv
<1>. QED
  BY <1>1, Invariance, PTL

(* From the moment a component is completed its sinks are exactly the      *)
(* functions that each of its members can carry: the escape edges miss no  *)
(* callback and add none.                                                  *)
THEOREM SinksAreExact == Spec => []SinksExact
<1>1. IInv => SinksExact
  BY DEF IInv
<1>. QED
  BY <1>1, Invariance, PTL

(* Components are exactly the cycles of the flow.                          *)
THEOREM ComponentsAreClasses == Spec => []ComponentsAreCycles
<1>1. IInv => ComponentsAreCycles
  BY DEF IInv
<1>. QED
  BY <1>1, Invariance, PTL

(* When the computation has ended every root has a component, and with it  *)
(* its sinks.                                                              *)
THEOREM EveryRootIsCompleted == Spec => [](Done => roots \subseteq Completed)
<1>1. IInv /\ Done => roots \subseteq Completed
  BY DEF IInv, Done, Numbered, Path, OpenValues
<1>. QED
  BY <1>1, Invariance, PTL

(* They are the functions in the least closed set around the root.         *)
RootsSinks ==
  Done => \A v \in roots : sinks[sccOf[v]] = {f \in Functions : f \in Least(flow, {v})}

THEOREM RootsHaveTheirSinks == Spec => []RootsSinks
<1>1. IInv => RootsSinks
  <2>1. SUFFICES ASSUME IInv, Done, NEW v \in roots
                 PROVE  sinks[sccOf[v]] = {f \in Functions : f \in Least(flow, {v})}
    BY DEF RootsSinks
  <2>2. v \in Completed /\ v \in Values /\ flow \in [Values -> SUBSET Values]
    BY <2>1 DEF IInv, Done, Numbered, Path, OpenValues, TypeOK
  <2>3. sinks[sccOf[v]] = Carried(v) \cap Functions
    BY <2>1, <2>2 DEF IInv, SinksExact
  <2>4. Carried(v) = Least(flow, {v})
    BY <2>2, ClosureIsLeast, FlowAssumption DEF Carried
  <2>. QED
    BY <2>3, <2>4
<1>. QED
  BY <1>1, Invariance, PTL

-----------------------------------------------------------------------------
(***************************************************************************)
(* Every step does work that is not done again, and there is only so much: *)
(* a root is taken, a successor looked at or a frame left.                 *)
(***************************************************************************)
Taken == roots \ todo

LookedAt ==
  {p \in Values \X Values :
     /\ p[1] \in Visited /\ p[2] \in flow[p[1]]
     /\ \A i \in 1 .. Len(stack) : stack[i].v = p[1] => p[2] \notin stack[i].rest}

Left == {v \in Visited : ~OnPath(v)}

Advances ==
  /\ Taken \subseteq Taken' /\ LookedAt \subseteq LookedAt' /\ Left \subseteq Left'
  /\ <<Taken, LookedAt, Left>>' # <<Taken, LookedAt, Left>>

(* A value has at most one frame, and its value is visited.                *)
LEMMA FramesDiffer ==
  ASSUME IInv
  PROVE  /\ \A i, j \in 1 .. Len(stack) : stack[i].v = stack[j].v => i = j
         /\ \A i \in 1 .. Len(stack) : stack[i].v \in Visited
<1>1. Sequenced /\ TypeOK
  BY TypesSequenced DEF IInv
<1>2. \A i \in 1 .. Len(stack) : stack[i].v \in Visited /\ index[stack[i].v] \in Nat
  BY <1>1 DEF IInv, OpenValues, Sequenced, TypeOK
<1>3. ASSUME NEW i \in 1 .. Len(stack), NEW j \in 1 .. Len(stack), stack[i].v = stack[j].v
      PROVE  i = j
  <2>1. ~(i < j) /\ ~(j < i)
    BY <1>2, <1>3 DEF IInv, Path
  <2>. QED BY <2>1
<1>. QED
  BY <1>2, <1>3

(* Opening a value that is not a root takes it off the top frame for good. *)
LEMMA OpenGrows ==
  ASSUME IInv, NEW w \in Values, NEW below, Opens(w, below)
  PROVE  /\ Taken \subseteq Taken' /\ LookedAt \subseteq LookedAt' /\ Left \subseteq Left'
         /\ \A i \in 1 .. Len(stack) : stack'[i] = below[i] /\ below[i].v = stack[i].v
         /\ \A i \in 1 .. Len(stack') :
              i \in 1 .. Len(stack) \/ stack'[i] = [v |-> w, rest |-> flow[w]]
<1>1. Opened(w, below) /\ Sequenced /\ w \notin Visited
  BY OpenShape, TypesSequenced DEF IInv, Opens, Fresh
<1>2. flow' = flow /\ roots' = roots /\ Visited' = Visited \cup {w}
  BY <1>1 DEF Opens, Opened, input
<1>3. /\ \A i \in 1 .. Len(stack) :
            /\ stack'[i] = below[i] /\ below[i].v = stack[i].v
            /\ below[i].rest \subseteq stack[i].rest
      /\ \A i \in 1 .. Len(stack') :
            i \in 1 .. Len(stack) \/ stack'[i] = [v |-> w, rest |-> flow[w]]
  BY <1>1 DEF Opens, Opened, Sequenced
<1>4. Taken \subseteq Taken'
  BY <1>2 DEF Taken, Opens
<1>5. LookedAt \subseteq LookedAt'
  <2>1. SUFFICES ASSUME NEW p \in LookedAt, NEW i \in 1 .. Len(stack'), stack'[i].v = p[1]
                 PROVE  p[2] \notin stack'[i].rest
    BY <1>2 DEF LookedAt
  <2>2. p[1] # w
    BY <1>1 DEF LookedAt
  <2>3. i \in 1 .. Len(stack)
    BY <1>3, <2>1, <2>2
  <2>. QED
    BY <1>3, <2>1, <2>3 DEF LookedAt
<1>6. Left \subseteq Left'
  <2>1. SUFFICES ASSUME NEW v \in Left, NEW i \in 1 .. Len(stack'), stack'[i].v = v
                 PROVE  FALSE
    BY <1>2 DEF Left, OnPath
  <2>2. v # w
    BY <1>1 DEF Left
  <2>3. i \in 1 .. Len(stack)
    BY <1>3, <2>1, <2>2
  <2>. QED
    BY <1>3, <2>1, <2>3 DEF Left, OnPath
<1>. QED
  BY <1>3, <1>4, <1>5, <1>6

LEMMA TakeRootAdvances ==
  ASSUME IInv, TakeRoot
  PROVE  Advances
<1>1. PICK r \in todo : Fresh(r) /\ todo' = todo \ {r} /\ Open(r, stack)
  BY DEF TakeRoot
<1>2. stack = <<>> /\ stack \in Seq(Frame) /\ r \in Values /\ r \in roots /\ roots' = roots
  BY DEF TakeRoot, IInv, TypeOK, input
<1>3. todo' \in SUBSET todo /\ todo \subseteq todo' \cup {r}
  BY <1>1
<1>4. Opens(r, stack)
  BY <1>1, <1>2, <1>3 DEF Opens, TakeRoot
<1>5. r \in Taken' /\ r \notin Taken
  BY <1>1, <1>2 DEF Taken
<1>. QED
  BY <1>2, <1>4, <1>5, OpenGrows DEF Advances

LEMMA SkipRootAdvances ==
  ASSUME IInv, SkipRoot
  PROVE  Advances
<1>1. PICK r \in todo : todo' = todo \ {r}
  BY DEF SkipRoot
<1>2. r \in roots /\ roots' = roots /\ flow' = flow /\ index' = index /\ stack' = stack
  BY DEF SkipRoot, IInv, TypeOK, input
<1>3. LookedAt' = LookedAt /\ Left' = Left
  BY <1>2 DEF LookedAt, Left, OnPath, Visited
<1>4. Taken \subseteq Taken' /\ r \in Taken' /\ r \notin Taken
  BY <1>1, <1>2 DEF Taken
<1>. QED
  BY <1>3, <1>4 DEF Advances

(* A successor taken off the top frame has been looked at from then on.    *)
LEMMA LookedIsOff ==
  ASSUME TypeOK, stack # <<>>, NEW w
  PROVE  w \notin Looked(w)[Len(stack)].rest
<1>1. stack \in Seq(Frame)
  BY DEF TypeOK
<1>2. PICK n \in 1 .. Len(stack) : n = Len(stack)
  BY TopFacts
<1>3. Top = stack[n] /\ Top \in Frame
  BY <1>2, TopFacts
<1>4. Looked(w) = [stack EXCEPT ![n] = [Top EXCEPT !.rest = @ \ {w}]]
  BY <1>2, <1>3 DEF Looked
<1>5. [Top EXCEPT !.rest = @ \ {w}] = [v |-> Top.v, rest |-> Top.rest \ {w}]
  BY <1>3, RestReplaced
<1>6. PICK fr \in Frame : fr = [v |-> Top.v, rest |-> Top.rest \ {w}]
  BY <1>3 DEF Frame
<1>7. Looked(w) = [stack EXCEPT ![n] = fr]
  BY <1>4, <1>5, <1>6
<1>8. Looked(w)[n] = fr
  BY <1>1, <1>2, <1>7
<1>. QED
  BY <1>2, <1>6, <1>8

LEMMA TopNotLookedAt ==
  ASSUME TypeOK, stack # <<>>, NEW w \in Top.rest
  PROVE  <<Top.v, w>> \notin LookedAt
<1>1. Len(stack) \in 1 .. Len(stack) /\ Top = stack[Len(stack)]
  BY TopFacts
<1>. QED
  BY <1>1 DEF LookedAt

LEMMA DescendAdvances ==
  ASSUME IInv, Descend
  PROVE  Advances
<1>1. PICK w \in Top.rest : Fresh(w) /\ Open(w, Looked(w))
  BY DEF Descend
<1>2. /\ Len(stack) \in 1 .. Len(stack) /\ Top = stack[Len(stack)] /\ stack # <<>> /\ TypeOK
      /\ Top.v \in Values /\ Top.rest \subseteq Values
  BY TopFacts DEF Descend, IInv
<1>3. w \in Values /\ w \in flow[Top.v] /\ flow \in [Values -> SUBSET Values] /\ flow' = flow
  BY <1>2 DEF IInv, Explored, TypeOK, Descend, input
<1>4. TakesOff(w)
  BY <1>2, LookedTakesOff
<1>5. w \in Carried(stack[Len(stack)].v)
  BY <1>2, <1>3, CarriedFacts
<1>6. Opens(w, Looked(w))
  BY <1>1, <1>4, <1>5 DEF Opens, Descend, TakesOff
<1>7. <<Top.v, w>> \in LookedAt'
  <2>1. Visited' = Visited \cup {w} /\ Top.v \in Visited /\ w \notin Visited
    BY <1>1, <1>2, <1>3, <1>6, OpenShape, FramesDiffer DEF Opened, Fresh
  <2>2. ASSUME NEW i \in 1 .. Len(stack'), stack'[i].v = Top.v
        PROVE  w \notin stack'[i].rest
    <3>1. /\ \A k \in 1 .. Len(stack) :
                 stack'[k] = Looked(w)[k] /\ Looked(w)[k].v = stack[k].v
          /\ \A k \in 1 .. Len(stack') :
                 k \in 1 .. Len(stack) \/ stack'[k] = [v |-> w, rest |-> flow[w]]
      BY <1>3, <1>6, OpenGrows
    <3>2. i \in 1 .. Len(stack)
      BY <2>1, <2>2, <3>1
    <3>3. stack'[i] = Looked(w)[i] /\ stack[i].v = Top.v
      BY <2>2, <3>1, <3>2
    <3>4. i = Len(stack)
      BY <1>2, <3>2, <3>3, FramesDiffer
    <3>. QED BY <1>2, <3>3, <3>4, LookedIsOff
  <2>. QED
    BY <1>2, <1>3, <2>1, <2>2 DEF LookedAt
<1>. QED
  BY <1>2, <1>3, <1>6, <1>7, TopNotLookedAt, OpenGrows DEF Advances

LEMMA LookAdvances ==
  ASSUME IInv, Look
  PROVE  Advances
<1>1. PICK w \in Top.rest : ~Fresh(w) /\ stack' = Looked(w)
  BY DEF Look
<1>2. /\ Len(stack) \in 1 .. Len(stack) /\ Top = stack[Len(stack)] /\ stack # <<>> /\ TypeOK
      /\ Top.v \in Values /\ Top.rest \subseteq Values
  BY TopFacts DEF Look, IInv
<1>3. /\ flow' = flow /\ roots' = roots /\ todo' = todo /\ Visited' = Visited
      /\ w \in Values /\ w \in flow[Top.v]
  BY <1>2 DEF Look, input, Visited, IInv, Explored
<1>4. /\ Len(stack') = Len(stack)
      /\ \A i \in 1 .. Len(stack) :
           stack'[i].v = stack[i].v /\ stack'[i].rest \subseteq stack[i].rest
  BY <1>1, <1>2, LookedTakesOff DEF TakesOff
<1>5. Taken' = Taken /\ Left' = Left
  BY <1>3, <1>4 DEF Taken, Left, OnPath
<1>6. LookedAt \subseteq LookedAt'
  BY <1>3, <1>4 DEF LookedAt
<1>7. <<Top.v, w>> \in LookedAt'
  <2>1. Top.v \in Visited
    BY <1>2, FramesDiffer
  <2>2. ASSUME NEW i \in 1 .. Len(stack'), stack'[i].v = Top.v
        PROVE  w \notin stack'[i].rest
    <3>1. i = Len(stack)
      BY <1>2, <1>4, <2>2, FramesDiffer
    <3>. QED BY <1>1, <1>2, <3>1, LookedIsOff
  <2>. QED
    BY <1>2, <1>3, <2>1, <2>2 DEF LookedAt
<1>. QED
  BY <1>2, <1>5, <1>6, <1>7, TopNotLookedAt DEF Advances

LEMMA PopAdvances ==
  ASSUME IInv, stack # <<>>, Popped, flow' = flow, roots' = roots, todo' = todo, index' = index
  PROVE  Advances
<1>1. Len(stack) \in 1 .. Len(stack) /\ Top = stack[Len(stack)] /\ Top.v \in Visited
  BY TopFacts, FramesDiffer DEF IInv
<1>2. Visited' = Visited /\ Taken' = Taken
  BY DEF Visited, Taken
<1>3. LookedAt \subseteq LookedAt'
  <2>1. \A i \in 1 .. Len(stack') : i \in 1 .. Len(stack) /\ stack'[i] = stack[i]
    BY DEF Popped
  <2>2. ASSUME NEW p \in LookedAt, NEW i \in 1 .. Len(stack'), stack'[i].v = p[1]
        PROVE  p[2] \notin stack'[i].rest
    BY <2>1, <2>2 DEF LookedAt
  <2>. QED
    BY <1>2, <2>2 DEF LookedAt
<1>4. Left \subseteq Left'
  BY <1>2 DEF Left, OnPath, Popped
<1>5. Top.v \in Left' /\ Top.v \notin Left
  <2>1. \A i \in 1 .. Len(stack') : stack'[i].v # Top.v
    BY <1>1, FramesDiffer DEF Popped
  <2>. QED
    BY <1>1, <1>2, <2>1 DEF Left, OnPath
<1>. QED
  BY <1>2, <1>3, <1>4, <1>5 DEF Advances

(* No step is undone or repeated, and the three sets are parts of finite   *)
(* ones: in any module the computation takes finitely many steps.          *)
THEOREM EveryStepAdvances == Spec => [][Advances]_vars
<1>1. ASSUME IInv, [Next]_vars
      PROVE  [Advances]_vars
  <2>1. CASE Close
    <3>1. Closes(Members(Top.v)) /\ stack # <<>>
      BY <1>1, <2>1, CloseCloses DEF Close
    <3>. QED BY <1>1, <3>1, PopAdvances DEF Closes
  <2>2. CASE Ascend
    <3>1. /\ stack # <<>> /\ Pop(low) /\ TypeOK
          /\ flow' = flow /\ roots' = roots /\ todo' = todo /\ index' = index
      BY <1>1, <2>2 DEF Ascend, input, IInv
    <3>. QED BY <1>1, <3>1, PopShape, PopAdvances
  <2>. QED
    BY <1>1, <2>1, <2>2, TakeRootAdvances, SkipRootAdvances, DescendAdvances, LookAdvances
       DEF Next
<1>. QED
  BY <1>1, Invariance, PTL DEF Spec

THEOREM WorkIsFinite ==
  Spec => [](/\ Taken \subseteq Values /\ LookedAt \subseteq Values \X Values /\ Left \subseteq Values
             /\ IsFiniteSet(Values) /\ IsFiniteSet(Values \X Values))
<1>1. IInv => /\ Taken \subseteq Values /\ LookedAt \subseteq Values \X Values
              /\ Left \subseteq Values
  BY DEF IInv, TypeOK, Taken, LookedAt, Left, Visited
<1>2. IsFiniteSet(Values) /\ IsFiniteSet(Values \X Values)
  BY FlowAssumption, FS_Product
<1>. QED
  BY <1>1, <1>2, Invariance, PTL
=============================================================================
