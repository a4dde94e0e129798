----------------------------- MODULE ValueFlow -----------------------------
(***************************************************************************)
(* What a flow relation means.  A flow maps every value to the set of      *)
(* values its content may come from; v can carry w when following the      *)
(* relation from v arrives at w.                                           *)
(***************************************************************************)
(* S contains everything its members may come from.                        *)
FlowClosed(flow, S) == \A v \in S : flow[v] \subseteq S

(* The values v can carry, itself included: those of every closed set that *)
(* holds v.                                                                *)
ClosedAround(flow, v) ==
  {S \in SUBSET DOMAIN flow : v \in S /\ FlowClosed(flow, S)}

Carries(flow, v) ==
  LET around == ClosedAround(flow, v)
  IN {w \in DOMAIN flow : \A S \in around : w \in S}

(* The same set for a whole set of start values, computed by following the *)
(* flow until nothing new is found; MC_EscapeSets checks that they agree.  *)
Closure(flow, S) ==
  LET follow[T \in SUBSET DOMAIN flow] ==
        LET more == T \cup UNION {flow[v] : v \in T}
        IN IF more = T THEN T ELSE follow[more]
  IN follow[S]
=============================================================================
