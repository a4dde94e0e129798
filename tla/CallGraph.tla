----------------------------- MODULE CallGraph -----------------------------
(***************************************************************************)
(* The call-graph builders of analyzer/src/CallGraph.cpp and the resolvers *)
(* of TypeBasedResolver.cpp, as operators on a program P in a small LLVM   *)
(* IR.                                                                     *)
(*                                                                         *)
(* A program has code, a set of instructions, the targets of its aliases   *)
(* and the initializers of its global variables.  Values are taken modulo  *)
(* pointer casts (stripPointerCasts), so casts have no instruction; a      *)
(* function has at most one parameter and an instruction's register is     *)
(* itself a value.  The instruction "select" stands for everything that    *)
(* merely forwards its operands (phi, select, freeze, insertvalue, ...),   *)
(* "field" for a getelementptr, whose underlying object is its base.       *)
(***************************************************************************)
EXTENDS ValueFlow, FiniteSets

CONSTANTS
  Defined,     \* functions with a body
  Declared,    \* external functions
  MemCpy,      \* the declared intrinsic that copies memory
  Aliases,     \* global aliases
  Globals,     \* global variables
  Params,      \* parameters
  Registers,   \* results of instructions
  Types,       \* function types
  OwnerOf,     \* the function of a parameter
  TypeOf,      \* the type of a function
  NoValue      \* an absent operand

Functions == Defined \cup Declared
Values == Functions \cup Aliases \cup Globals \cup Params \cup Registers

Opcodes == {"call", "asm", "load", "store", "alloca", "select", "field", "copy", "ret"}

(* fn contains the instruction.  a and b are its operands: the callee and  *)
(* argument of a call of type `type`, the value and address of a store,    *)
(* the destination and source of a copy.                                   *)
Instructions ==
  [fn : Defined, op : Opcodes, reg : Registers \cup {NoValue},
   a : Values \cup {NoValue}, b : Values \cup {NoValue},
   type : Types \cup {NoValue}]

(* A module is finite, and a value is of one kind.                         *)
ASSUME IRAssumption ==
  /\ MemCpy \in Declared
  /\ Defined \cap Declared = {}
  /\ Functions \cap (Aliases \cup Globals \cup Params \cup Registers) = {}
  /\ Aliases \cap (Globals \cup Params \cup Registers) = {}
  /\ Globals \cap (Params \cup Registers) = {}
  /\ Params \cap Registers = {}
  /\ OwnerOf \in [Params -> Defined]
  /\ TypeOf \in [Functions -> Types]
  /\ NoValue \notin Values
  /\ IsFiniteSet(Values)

-----------------------------------------------------------------------------
(***************************************************************************)
(* Calls.                                                                  *)
(***************************************************************************)
CallBases(P) == {i \in P.code : i.op \in {"call", "asm", "copy"}}

Arguments(i) == (IF i.op = "copy" THEN {i.a, i.b} ELSE {i.b}) \ {NoValue}

(* A set with the function a call names, directly or as the target of an   *)
(* alias; empty for an indirect call and for inline assembly.              *)
CalledFunction(P, i) ==                      \* variant: aliases not seen through
  IF i.op = "copy" THEN {MemCpy}
  ELSE IF i.op = "call" THEN {i.a} \cap Functions ELSE {}
DirectCallee(P, i) ==
  IF i.op = "asm" THEN {}
  ELSE IF i.op = "copy" THEN {MemCpy}
  ELSE IF i.a \in Functions THEN {i.a}
  ELSE IF i.a \in Aliases THEN {P.aliasee[i.a]} \cap Functions
  ELSE {}

IsIndirect(P, i) == i.op = "call" /\ i.a \notin Functions \cup Aliases

CallsAnalyzableCallee(P, i) == DirectCallee(P, i) \cap Defined # {}

(* Function::hasAddressTaken: some use is not the callee of a call of the  *)
(* function's own type.                                                    *)
AddressTaken(P) ==
  {f \in Defined :
     \/ \E i \in P.code : i.b = f \/ (i.a = f /\ (i.op # "call" \/ i.type # TypeOf[f]))
     \/ \E v \in DOMAIN P.aliasee : P.aliasee[v] = f
     \/ \E g \in DOMAIN P.init : P.init[g] = f}

(* TypeBasedResolver: the address-taken functions of the call's type.      *)
ResolveTyped(P, i) == {f \in AddressTaken(P) : TypeOf[f] = i.type}

(* AnyResolver: every address-taken function.                              *)
ResolveAny(P, i) == AddressTaken(P)

Edge(from, to, kind) == [from |-> from, to |-> to, kind |-> kind]

DirectEdges(P) ==
  UNION {{Edge(i.fn, f, "Direct") : f \in DirectCallee(P, i)} : i \in CallBases(P)}

Resolve(P, i) == IF P.indirectAny THEN ResolveAny(P, i) ELSE ResolveTyped(P, i)

IndirectEdges(P) ==
  UNION {{Edge(i.fn, f, "Indirect") : f \in Resolve(P, i)} :
           i \in {c \in CallBases(P) : IsIndirect(P, c)}}

-----------------------------------------------------------------------------
(***************************************************************************)
(* Escape analysis.                                                        *)
(***************************************************************************)
Def(P, r) == CHOOSE i \in P.code : i.reg = r

(* llvm::getUnderlyingObject, for the addresses of this IR: it looks       *)
(* through a field and through an alias, unless that can be replaced when  *)
(* the program is linked.                                                  *)
Underlying(P, v) ==
  LET base == IF v \in Registers /\ Def(P, v).op = "field" THEN Def(P, v).a ELSE v
  IN IF base \in Aliases THEN P.aliasee[base] ELSE base

(* EscapeIndex::storedTo and EscapeIndex::callSites.                       *)
StoredHere(P, base) ==                       \* variant: fields not seen through
  {i.a : i \in {s \in P.code : s.op = "store" /\ s.b = base}}
StoredTo(P, base) ==
  {i.a : i \in {s \in P.code : s.op = "store" /\ Underlying(P, s.b) = base}}

CallSites(P, f) == {i \in CallBases(P) : f \in DirectCallee(P, i)}

ReturnValues(P, f) ==
  {i.a : i \in {r \in P.code : r.op = "ret" /\ r.fn = f}}

(* The successors of v in the flow: where its content may come from.  Of a *)
(* global variable only the initializer is followed.                       *)
EscapeSuccessors(P, v) ==
  LET d == Def(P, v)
      next ==
        CASE v \in Aliases -> {P.aliasee[v]}
          [] v \in Globals -> {P.init[v]}
          [] v \in Params -> {i.b : i \in CallSites(P, OwnerOf[v])}
          [] v \in Registers /\ d.op = "load" ->
               {Underlying(P, d.a)} \cup StoredTo(P, Underlying(P, d.a))
          [] v \in Registers /\ d.op = "call" ->
               UNION {ReturnValues(P, f) : f \in DirectCallee(P, d) \cap Defined}
          [] v \in Registers /\ d.op \in {"select", "field", "alloca"} ->
               {d.a, d.b} \cup StoredTo(P, Underlying(P, v))
          [] OTHER -> {}
  IN next \ {NoValue}

(* The values of P: a register counts when an instruction defines it.      *)
ValuesOf(P) == (Values \ Registers) \cup ({i.reg : i \in P.code} \ {NoValue})

Flow(P) == [v \in ValuesOf(P) |-> EscapeSuccessors(P, v)]

(* The functions v can carry: what computeEscapeSets yields (EscapeSets).  *)
Sinks(flow, v) == Closure(flow, {v}) \cap Functions

(* What may escape in i: the arguments of a call into code that is not     *)
(* analyzed, and a returned value.                                         *)
Escaping(P, i) ==
  IF i.op = "ret" THEN {i.a} \ {NoValue}
  ELSE IF i \in CallBases(P) /\ ~CallsAnalyzableCallee(P, i) THEN Arguments(i) ELSE {}

EscapeSites(P) == UNION {{i.fn} \X Escaping(P, i) : i \in P.code}

EscapeEdges(P) ==
  LET flow == Flow(P)
  IN UNION {{Edge(s[1], f, "Indirect") : f \in Sinks(flow, s[2])} : s \in EscapeSites(P)}

(* The three builders in the order main runs them; edges form a set.       *)
CallEdges(P) == DirectEdges(P) \cup EscapeEdges(P) \cup IndirectEdges(P)

(* Roots of computeAddressFlowTargets: as the escape sites, without inline *)
(* assembly and intrinsics but with the callees of indirect calls.         *)
EscapedOnly(P) == {s[2] : s \in EscapeSites(P)}  \* variant: no callee operands
FlowRoots(P) ==
  LET calls == {i \in P.code : i.op = "call"}
  IN {i.a : i \in {c \in calls : IsIndirect(P, c)}}
       \cup (UNION {Arguments(i) : i \in {c \in calls : ~CallsAnalyzableCallee(P, c)}})
       \cup {i.a : i \in {r \in P.code : r.op = "ret" /\ r.a # NoValue}}

AddressFlowTargets(P) == Closure(Flow(P), FlowRoots(P)) \cap Functions
=============================================================================
