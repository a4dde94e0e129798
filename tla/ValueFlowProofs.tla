-------------------------- MODULE ValueFlowProofs --------------------------
(***************************************************************************)
(* What the algorithms rely on when they follow a relation: for a finite   *)
(* flow, following it until nothing new is found arrives at the least      *)
(* closed set, and a value carries exactly what every closed set around it *)
(* holds.                                                                  *)
(***************************************************************************)
EXTENDS ValueFlow, FiniteSetTheorems, SequenceTheorems, TLAPS

Least(flow, S) ==
  {w \in DOMAIN flow :
     \A T \in SUBSET DOMAIN flow : S \subseteq T /\ FlowClosed(flow, T) => w \in T}

(* The least closed set is one.                                            *)
LEMMA LeastIsClosed ==
  ASSUME NEW D, NEW flow \in [D -> SUBSET D], NEW S \in SUBSET D
  PROVE  /\ Least(flow, S) \in SUBSET D
         /\ S \subseteq Least(flow, S)
         /\ FlowClosed(flow, Least(flow, S))
         /\ \A T \in SUBSET D : S \subseteq T /\ FlowClosed(flow, T) => Least(flow, S) \subseteq T
BY DEF Least, FlowClosed

(* The steps of Closure do not change it.                                  *)
More(flow, T) == T \cup UNION {flow[v] : v \in T}

LEMMA LeastOfMore ==
  ASSUME NEW D, NEW flow \in [D -> SUBSET D], NEW T \in SUBSET D
  PROVE  /\ More(flow, T) \in SUBSET D
         /\ T \subseteq More(flow, T)
         /\ More(flow, T) = T => Least(flow, T) = T
         /\ Least(flow, More(flow, T)) = Least(flow, T)
<1>1. More(flow, T) \in SUBSET D /\ T \subseteq More(flow, T)
  BY DEF More
<1>2. \A U \in SUBSET D : FlowClosed(flow, U) => (T \subseteq U <=> More(flow, T) \subseteq U)
  BY DEF More, FlowClosed
<1>3. More(flow, T) = T => FlowClosed(flow, T)
  BY DEF More, FlowClosed
<1>4. More(flow, T) = T => Least(flow, T) = T
  BY <1>3 DEF Least
<1>5. Least(flow, More(flow, T)) = Least(flow, T)
  BY <1>1, <1>2 DEF Least
<1>. QED
  BY <1>1, <1>4, <1>5

(* Among sets of subsets of a finite set there is always one that no other *)
(* contains.                                                               *)
LEMMA MaximalExists ==
  ASSUME NEW D, IsFiniteSet(D), NEW B \in SUBSET (SUBSET D), B # {}
  PROVE  \E T \in B : \A U \in B : T \subseteq U => U = T
<1>. DEFINE C == {D \ T : T \in B}
<1>1. C # {} /\ C \subseteq FiniteSubsetsOf(D)
  <2>1. \A X \in SUBSET D : IsFiniteSet(X)
    BY FS_Subset
  <2>2. \A X \in SUBSET D : X \in FiniteSubsetsOf(D)
    BY <2>1 DEF FiniteSubsetsOf
  <2>3. C \subseteq SUBSET D
    OBVIOUS
  <2>4. PICK T \in B : TRUE
    OBVIOUS
  <2>5. D \ T \in C
    BY <2>4
  <2>. QED BY <2>2, <2>3, <2>5
<1>2. IsWellFoundedOn(StrictSubsetOrdering(D), FiniteSubsetsOf(D))
  BY FS_StrictSubsetOrderingWellFounded
<1>3. PICK X \in C : \A Y \in C : ~ (<<Y, X>> \in StrictSubsetOrdering(D))
  <2>. HIDE DEF C
  <2>. QED BY <1>1, <1>2, WFMin
<1>4. PICK T \in B : X = D \ T
  BY <1>3
<1>5. ASSUME NEW U \in B, T \subseteq U
      PROVE  U = T
  <2>1. ~ (<<D \ U, D \ T>> \in StrictSubsetOrdering(D))
    BY <1>3, <1>4
  <2>2. D \ U = D \ T
    BY <2>1, <1>5 DEF StrictSubsetOrdering
  <2>. QED
    BY <2>2, <1>5
<1>. QED
  BY <1>5

(* The least closed sets satisfy the equation of Closure's function; in a  *)
(* finite flow nothing else does, since a largest set at which another     *)
(* solution differs has no larger one to differ at.                        *)
Follows(flow, D, g) ==
  g = [T \in SUBSET D |->
         LET more == T \cup UNION {flow[v] : v \in T} IN IF more = T THEN T ELSE g[more]]

LEMMA LeastFollows ==
  ASSUME NEW D, NEW flow \in [D -> SUBSET D]
  PROVE  Follows(flow, D, [T \in SUBSET D |-> Least(flow, T)])
<1>. DEFINE g == [T \in SUBSET D |-> Least(flow, T)]
<1>1. ASSUME NEW T \in SUBSET D
      PROVE  Least(flow, T) = IF More(flow, T) = T THEN T ELSE g[More(flow, T)]
  BY LeastOfMore
<1>. QED
  BY <1>1 DEF Follows, More

LEMMA FollowsUnique ==
  ASSUME NEW D, IsFiniteSet(D), NEW flow \in [D -> SUBSET D],
         NEW g, Follows(flow, D, g), NEW S \in SUBSET D
  PROVE  g[S] = Least(flow, S)
<1>. DEFINE Other == {T \in SUBSET D : g[T] # Least(flow, T)}
<1>1. \A T \in SUBSET D : g[T] = IF More(flow, T) = T THEN T ELSE g[More(flow, T)]
  BY DEF Follows, More
<1>2. SUFFICES ASSUME Other # {}
               PROVE  FALSE
  OBVIOUS
<1>3. PICK T \in Other : \A U \in Other : T \subseteq U => U = T
  <2>1. Other \in SUBSET (SUBSET D)
    OBVIOUS
  <2>. HIDE DEF Other
  <2>. QED BY <1>2, <2>1, MaximalExists
<1>4. /\ More(flow, T) \in SUBSET D /\ T \subseteq More(flow, T)
      /\ More(flow, T) = T => Least(flow, T) = T
      /\ Least(flow, More(flow, T)) = Least(flow, T)
  BY <1>3, LeastOfMore
<1>5. More(flow, T) # T
  BY <1>1, <1>3, <1>4
<1>6. g[More(flow, T)] = Least(flow, More(flow, T))
  BY <1>3, <1>4, <1>5
<1>. QED
  BY <1>1, <1>3, <1>4, <1>5, <1>6

(* Following a finite flow ends in the least closed set around the start.  *)
THEOREM ClosureIsLeast ==
  ASSUME NEW D, IsFiniteSet(D), NEW flow \in [D -> SUBSET D], NEW S \in SUBSET D
  PROVE  Closure(flow, S) = Least(flow, S)
<1>. DEFINE follow == CHOOSE g : Follows(flow, D, g)
<1>1. Follows(flow, D, follow)
  BY LeastFollows
<1>2. Closure(flow, S) = follow[S]
  BY DEF Closure, Follows
<1>. QED
  BY <1>1, <1>2, FollowsUnique

(* What following a flow from one value finds is what the value carries.   *)
THEOREM ClosureIsCarried ==
  ASSUME NEW D, IsFiniteSet(D), NEW flow \in [D -> SUBSET D], NEW v \in D
  PROVE  Closure(flow, {v}) = Carries(flow, v)
<1>1. Closure(flow, {v}) = Least(flow, {v})
  BY ClosureIsLeast
<1>. QED
  BY <1>1 DEF Least, Carries, ClosedAround

(* The searches along a relation keep a stack, whose lower part this is.   *)
LEMMA Prefix ==
  ASSUME NEW S, NEW s \in Seq(S), NEW n \in 0 .. Len(s)
  PROVE  /\ SubSeq(s, 1, n) \in Seq(S)
         /\ Len(SubSeq(s, 1, n)) = n
         /\ \A i \in 1 .. n : SubSeq(s, 1, n)[i] = s[i]
<1>1. n \in Nat /\ \A i \in 1 .. n : i \in 1 .. Len(s)
  OBVIOUS
<1>2. Len(SubSeq(s, 1, n)) = n /\ \A i \in 1 .. n : SubSeq(s, 1, n)[i] = s[i]
  BY <1>1
<1>3. SubSeq(s, 1, n) \in Seq(S)
  BY <1>1, SubSeqProperties
<1>. QED
  BY <1>2, <1>3
=============================================================================
