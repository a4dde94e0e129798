----------------------------- MODULE Soundness -----------------------------
(***************************************************************************)
(* The analysis against the execution of the analyzed program.             *)
(*                                                                         *)
(* CallGraph computes the edges of a program, Reachability the functions   *)
(* they reach from the entry.  Here a program is written, analyzed and     *)
(* run: its functions move addresses through registers and memory and call *)
(* each other, and external code does whatever it can with the addresses   *)
(* it was given.  Every function the run enters must be among the reached  *)
(* ones.                                                                   *)
(*                                                                         *)
(* The run accumulates: a register or a cell holds every address it ever   *)
(* received, and any instruction of an entered function may execute at     *)
(* any time.  That covers every control flow the same instructions could   *)
(* be arranged in.                                                         *)
(***************************************************************************)
EXTENDS CallGraph, Naturals, FiniteSets

CONSTANTS
  Entry,        \* the entry point, defined
  Skeletons,    \* the programs that writing starts from
  Pool,         \* the instructions that may be added
  MaxCode,      \* bound on the instructions of a program
  CoveredOnly   \* whether only covered programs are analyzed

Operands(i) == {i.a, i.b} \ {NoValue}

(* What the verifier of LLVM demands of the instructions used here,        *)
Shaped(i) ==
  /\ i.op \in {"call", "load", "store"} => i.a # NoValue
  /\ i.op = "store" => i.b # NoValue
  /\ i.op = "field" => i.a # NoValue /\ i.b = NoValue
  /\ i.op = "alloca" => i.reg # NoValue

(* and of a module: registers have one definition, what is used is defined.*)
IsModule(Q) ==
  /\ Q \in [code : SUBSET Instructions,
            aliasee : [Aliases -> Functions \cup Aliases \cup Globals \cup {NoValue}],
            init : [Globals -> Functions \cup Globals \cup {NoValue}],
            indirectAny : BOOLEAN]
  /\ \A i \in Q.code : Shaped(i)
  /\ \A i, j \in Q.code : i.reg = j.reg /\ i.reg # NoValue => i = j
  /\ \A i \in Q.code :
       /\ Operands(i) \cap Registers \subseteq {j.reg : j \in Q.code}
       /\ \A v \in Operands(i) \cap Aliases : Q.aliasee[v] # NoValue

ASSUME EntryAssumption ==
  /\ Entry \in Defined
  /\ \A i \in Pool : i \in Instructions /\ Shaped(i)
  /\ \A Q \in Skeletons : IsModule(Q)
  /\ MaxCode \in Nat
  /\ CoveredOnly \in BOOLEAN

VARIABLES
  P,          \* the program
  built,      \* whether the analyzer has seen it
  edges,      \* the call graph the analyzer built for it
  entered,    \* the functions entered so far
  holds,      \* the addresses a parameter or register received
  mem,        \* the addresses a cell received
  leaked      \* the addresses external code knows

vars == <<P, built, edges, entered, holds, mem, leaked>>

analysis == <<P, built, edges>>

(* A cell is a global variable or what an alloca allocates, named by its   *)
(* register; an address is that of a cell or of a function.                *)
Cells == Globals \cup {i.reg : i \in {j \in P.code : j.op = "alloca"}}

Addresses == Functions \cup Cells

AliasTarget ==
  LET target[a \in Aliases] ==
        IF P.aliasee[a] \in Aliases THEN target[P.aliasee[a]] ELSE P.aliasee[a]
  IN target

(* The addresses operand v can evaluate to.                                *)
Eval(v) ==
  IF v = NoValue THEN {}
  ELSE IF v \in Addresses THEN {v}
  ELSE IF v \in Aliases THEN {AliasTarget[v]}
  ELSE holds[v]

TypeOK ==
  /\ IsModule(P)
  /\ built \in BOOLEAN
  /\ edges \subseteq [from : Defined, to : Functions, kind : {"Direct", "Indirect"}]
  /\ entered \subseteq Defined
  /\ holds \in [Params \cup Registers -> SUBSET Addresses]
  /\ mem \in [Globals \cup Registers -> SUBSET Addresses]
  /\ leaked \subseteq Addresses

Init ==
  /\ P \in Skeletons
  /\ built = FALSE
  /\ edges = {}
  /\ entered = {}
  /\ holds = [v \in Params \cup Registers |-> {}]
  /\ mem = [c \in Globals \cup Registers |->
              IF c \in Globals /\ P.init[c] # NoValue THEN {P.init[c]} ELSE {}]
  /\ leaked = {}

-----------------------------------------------------------------------------
(***************************************************************************)
(* The program and its analysis.                                           *)
(***************************************************************************)
(* i has a register of its own, uses defined registers and aliases and is  *)
(* not in a function that nothing mentions.                                *)
WellFormed(i) ==
  /\ i.fn = Entry \/ \E j \in P.code : i.fn \in Operands(j)
  /\ i.reg # NoValue => \A j \in P.code : j.reg # i.reg
  /\ Operands(i) \cap Registers \subseteq {j.reg : j \in P.code}
  /\ \A v \in Operands(i) \cap Aliases : P.aliasee[v] # NoValue

Write ==
  \E i \in Pool :
    /\ ~built /\ Cardinality(P.code) < MaxCode /\ WellFormed(i)
    /\ P' = [P EXCEPT !.code = @ \cup {i}]
    /\ UNCHANGED <<built, edges, entered, holds, mem, leaked>>

(* The programs the analysis covers.  A store names the alloca or global   *)
(* it writes (storedTo is keyed on the underlying object),                 *)
StoresAreNamed ==
  \A i \in P.code : i.op = "store" => Underlying(P, i.b) \in Cells

(* a global that is written is otherwise only loaded (of a global only the *)
(* initializer is followed), under its own name or an alias,               *)
Written ==
  {g \in Globals : \E i \in P.code : i.op = "store" /\ Underlying(P, i.b) = g}

NamesOf(g) == {g} \cup {a \in Aliases : P.aliasee[a] = g}

WrittenGlobalsArePrivate ==
  \A g \in Written :
    /\ \A i \in P.code : Operands(i) \cap NamesOf(g) # {} =>
         i.op = "load" \/ (i.op = "store" /\ i.a \notin NamesOf(g))
    /\ \A h \in Globals : P.init[h] # g

(* and an alias names its function directly.                               *)
AliasesAreDirect == \A a \in Aliases : P.aliasee[a] \notin Aliases

Covered == StoresAreNamed /\ WrittenGlobalsArePrivate /\ AliasesAreDirect

(* The builders run, then the program.                                     *)
Analyze ==
  /\ ~built /\ (CoveredOnly => Covered)
  /\ built' = TRUE
  /\ edges' = CallEdges(P)
  /\ entered' = {Entry}
  /\ UNCHANGED <<P, holds, mem, leaked>>

Running(op) == {i \in P.code : i.op = op /\ i.fn \in entered}

(* Give v the addresses A as well.                                         *)
Receive(f, v, A) == [f EXCEPT ![v] = @ \cup A]

-----------------------------------------------------------------------------
(***************************************************************************)
(* Instructions.                                                           *)
(***************************************************************************)
Move ==
  \E i \in Running("select") \cup Running("field") :
    /\ holds' = Receive(holds, i.reg, Eval(i.a) \cup Eval(i.b))
    /\ UNCHANGED <<analysis, entered, mem, leaked>>

Load ==
  \E i \in Running("load") : \E c \in Eval(i.a) \cap Cells :
    /\ holds' = Receive(holds, i.reg, mem[c])
    /\ UNCHANGED <<analysis, entered, mem, leaked>>

Store ==
  \E i \in Running("store") : \E c \in Eval(i.b) \cap Cells :
    /\ mem' = Receive(mem, c, Eval(i.a))
    /\ UNCHANGED <<analysis, entered, holds, leaked>>

Copy ==
  \E i \in Running("copy") :
    \E to \in Eval(i.a) \cap Cells : \E from \in Eval(i.b) \cap Cells :
      /\ mem' = Receive(mem, to, mem[from])
      /\ UNCHANGED <<analysis, entered, holds, leaked>>

(* The functions a call can arrive at: an indirect call is well typed.     *)
Callees(i) ==
  {f \in Eval(i.a) \cap Functions : i.a \in Functions \cup Aliases \/ TypeOf[f] = i.type}

Enter(f, A) ==
  /\ entered' = entered \cup {f}
  /\ holds' = [v \in Params \cup Registers |->
                 IF v \in Params /\ OwnerOf[v] = f THEN holds[v] \cup A ELSE holds[v]]

Call ==
  \E i \in Running("call") : \E f \in Callees(i) \cap Defined :
    /\ Enter(f, Eval(i.b))
    /\ UNCHANGED <<analysis, mem, leaked>>

Return ==
  \E i \in Running("call") : \E f \in Callees(i) \cap entered :
    /\ i.reg # NoValue
    /\ holds' = Receive(holds, i.reg, UNION {Eval(v) : v \in ReturnValues(P, f)})
    /\ UNCHANGED <<analysis, entered, mem, leaked>>

-----------------------------------------------------------------------------
(***************************************************************************)
(* External code.                                                          *)
(***************************************************************************)
(* A call of it leaks the argument and may return anything it knows.       *)
CallOut ==
  \E i \in Running("call") \cup Running("asm") :
    /\ i.op = "asm" \/ Callees(i) \cap Declared # {}
    /\ leaked' = leaked \cup Eval(i.b)
    /\ holds' = IF i.reg = NoValue THEN holds ELSE Receive(holds, i.reg, leaked')
    /\ UNCHANGED <<analysis, entered, mem>>

(* It follows the addresses it knows into memory,                          *)
Peek ==
  \E c \in leaked \cap Cells :
    /\ leaked' = leaked \cup mem[c]
    /\ UNCHANGED <<analysis, entered, holds, mem>>

(* overwrites that memory with them,                                       *)
Poke ==
  \E c \in leaked \cap Cells :
    /\ mem' = Receive(mem, c, leaked)
    /\ UNCHANGED <<analysis, entered, holds, leaked>>

(* and calls the functions it knows, during the call or any time later.    *)
CallBack ==
  \E f \in leaked \cap Defined :
    /\ Enter(f, leaked)
    /\ leaked' = leaked \cup UNION {Eval(v) : v \in ReturnValues(P, f)}
    /\ UNCHANGED <<analysis, mem>>

Next ==
  \/ Write \/ Analyze
  \/ Move \/ Load \/ Store \/ Copy \/ Call \/ Return
  \/ CallOut \/ Peek \/ Poke \/ CallBack

Spec == Init /\ [][Next]_vars

-----------------------------------------------------------------------------
Callgraph == [f \in Functions |-> {e.to : e \in {d \in edges : d.from = f}}]

Reached == Closure(Callgraph, {Entry})

(* No function that is actually reachable is reported unreachable.         *)
NoUnderReporting == entered \subseteq Reached

(* Escape analysis covers what external code can call: a defined function  *)
(* it knows is the target of an indirect edge of an entered function.      *)
EscapesAreEdges ==
  \A f \in leaked \cap Defined :
    \E e \in edges : e.kind = "Indirect" /\ e.to = f /\ e.from \in entered

(* The types, and that what leaks is covered.                              *)
Inv == TypeOK /\ EscapesAreEdges

(* A function whose address is called, in the module or by external code,  *)
(* has value-flow evidence and at least medium confidence; low is left to  *)
(* functions that are reached by a type match only.                        *)
CalledHasFlowEvidence ==
  LET targets == AddressFlowTargets(P)
  IN /\ \A i \in Running("call") : IsIndirect(P, i) => Callees(i) \cap Defined \subseteq targets
     /\ leaked \cap Defined \subseteq targets

(* The same of programs without the instructions that hand an address on   *)
(* unseen by computeAddressFlowTargets: memcpy and inline assembly.        *)
EvidenceUnlessMoved ==
  Running("copy") \cup Running("asm") = {} => CalledHasFlowEvidence
=============================================================================
