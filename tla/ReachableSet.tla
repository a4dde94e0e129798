---------------------------- MODULE ReachableSet ----------------------------
(***************************************************************************)
(* What the analyzer promises about reachability, without the search that  *)
(* computes it: starting from nothing, a function may be added to the      *)
(* answer only if it is an entry or is called by a function already in     *)
(* the answer, and the answer may be given only once it is complete.  The  *)
(* answer therefore is neither more nor less than the functions the call   *)
(* graph reaches from the entries.                                         *)
(***************************************************************************)
CONSTANT Functions

VARIABLES
  edges,     \* the call graph, as computeReachability receives it
  roots,     \* the requested entries that are defined in the module
  found,     \* the functions known to be reachable
  answered   \* the answer was handed to the caller

vars == <<edges, roots, found, answered>>

Successors(S) == {e.to : e \in {d \in edges : d.from \in S}}

Complete == roots \cup Successors(found) \subseteq found

Init ==
  /\ edges \in SUBSET [from : Functions, to : Functions,
                       kind : {"Direct", "Indirect"}]
  /\ roots \in SUBSET Functions
  /\ found = {}
  /\ answered = FALSE

Find(f) ==
  /\ ~answered
  /\ f \in roots \cup Successors(found)
  /\ found' = found \cup {f}
  /\ UNCHANGED <<edges, roots, answered>>

Answer ==
  /\ ~answered
  /\ Complete
  /\ answered' = TRUE
  /\ UNCHANGED <<edges, roots, found>>

Next == Answer \/ \E f \in Functions : Find(f)

Spec == Init /\ [][Next]_vars
=============================================================================
