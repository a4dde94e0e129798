-------------------------- MODULE SoundnessProofs --------------------------
(***************************************************************************)
(* Theorems about Soundness, for every covered program: whatever its run   *)
(* and external code do, every function that is entered is reached, what   *)
(* escapes has an edge, and what is called has flow evidence.              *)
(***************************************************************************)
EXTENDS Soundness, ValueFlowProofs

-----------------------------------------------------------------------------
(***************************************************************************)
(* The inductive invariant.                                                *)
(***************************************************************************)

(* What value v of program Q can carry.                                    *)
Carry(Q, v) == Least(Flow(Q), {v})

(* What the analysis takes to be known outside once the functions E have   *)
(* been entered: whatever a site in them can carry.                        *)
Exposed(Q, E) ==
  {w \in ValuesOf(Q) : \E s \in EscapeSites(Q) : s[1] \in E /\ w \in Carry(Q, s[2])}

(* What a cell can hold: of a global, Carry has the initializer only.      *)
Content(Q, c) ==
  Carry(Q, c) \cup
    {w \in ValuesOf(Q) : \E i \in Q.code :
       i.op = "store" /\ Underlying(Q, i.b) = c /\ w \in Carry(Q, i.a)}

(* The addresses that can be handed around: a function that is not only    *)
(* called by name, and a cell that is not a written global.                *)
Data == {a \in Addresses : a \notin Written /\ (a \in Defined => a \in AddressTaken(P))}

DataInv ==
  /\ holds \in [Params \cup Registers -> SUBSET Data]
  /\ mem \in [Globals \cup Registers -> SUBSET Data]
  /\ leaked \subseteq Data

(* Every address is where the flow says it can be, or known outside.       *)
FlowInv ==
  /\ \A v \in Params \cup Registers : holds[v] \subseteq Carry(P, v) \cup Exposed(P, entered)
  /\ \A i \in P.code : i.op = "field" /\ i.reg # NoValue => holds[i.reg] \subseteq Eval(i.a)
  /\ \A c \in Globals \cup Registers : mem[c] \subseteq Content(P, c) \cup Exposed(P, entered)
  /\ leaked \subseteq Exposed(P, entered)

Fresh ==
  /\ edges = {} /\ entered = {} /\ leaked = {}
  /\ holds = [v \in Params \cup Registers |-> {}]
  /\ mem = [c \in Globals \cup Registers |->
              IF c \in Globals /\ P.init[c] # NoValue THEN {P.init[c]} ELSE {}]

RunInv ==
  /\ edges = CallEdges(P)
  /\ Covered
  /\ Entry \in entered /\ entered \subseteq Defined
  /\ NoUnderReporting
  /\ DataInv
  /\ FlowInv

IInv ==
  /\ IsModule(P)
  /\ built \in BOOLEAN
  /\ ~built => Fresh
  /\ built => RunInv

-----------------------------------------------------------------------------
(***************************************************************************)
(* The flow of a module.                                                   *)
(***************************************************************************)

(* A register has its instruction as definition.                           *)
LEMMA DefOf ==
  ASSUME NEW Q, IsModule(Q), NEW i \in Q.code, i.reg # NoValue
  PROVE  Def(Q, i.reg) = i /\ i.reg \in Registers /\ i \in Instructions /\ Shaped(i)
BY DEF Def, IsModule, Instructions

(* An operand is a value of the module, and so is its object.              *)
LEMMA OperandType ==
  ASSUME NEW Q, IsModule(Q), NEW i \in Q.code, NEW v \in Operands(i)
  PROVE  v \in ValuesOf(Q) /\ (v \in Aliases => Q.aliasee[v] \in Functions \cup Globals \cup Aliases)
<1>1. v \in Values /\ (v \in Registers => v \in {j.reg : j \in Q.code})
  BY DEF IsModule, Instructions, Operands
<1>. QED
  BY <1>1, IRAssumption DEF IsModule, ValuesOf, Values

LEMMA UnderlyingType ==
  ASSUME NEW Q, IsModule(Q), NEW i \in Q.code, NEW v \in Operands(i)
  PROVE  Underlying(Q, v) \in ValuesOf(Q)
<1>1. CASE v \in Registers /\ Def(Q, v).op = "field"
  <2>1. PICK j \in Q.code : j.reg = v
    BY <1>1, OperandType, IRAssumption DEF ValuesOf, Values
  <2>2. j = Def(Q, v) /\ Shaped(j) /\ j \in Instructions
    BY <2>1, <1>1, DefOf, IRAssumption DEF Values
  <2>3. j.a \in Operands(j)
    BY <1>1, <2>2 DEF Operands, Shaped
  <2>. QED
    BY <1>1, <2>2, <2>3, OperandType, IRAssumption DEF Underlying, ValuesOf, Values
<1>2. CASE ~(v \in Registers /\ Def(Q, v).op = "field")
  BY <1>2, OperandType, IRAssumption DEF Underlying, ValuesOf, Values
<1>. QED
  BY <1>1, <1>2

(* Where a value gets its content from, by the kind of the value.          *)
LEMMA Successors ==
  ASSUME NEW Q, IsModule(Q)
  PROVE  /\ \A a \in Aliases : EscapeSuccessors(Q, a) = {Q.aliasee[a]} \ {NoValue}
         /\ \A g \in Globals : EscapeSuccessors(Q, g) = {Q.init[g]} \ {NoValue}
         /\ \A v \in Params :
              EscapeSuccessors(Q, v) = {i.b : i \in CallSites(Q, OwnerOf[v])} \ {NoValue}
         /\ \A f \in Functions : EscapeSuccessors(Q, f) = {}
BY IRAssumption DEF EscapeSuccessors

LEMMA RegisterSuccessors ==
  ASSUME NEW Q, IsModule(Q), NEW i \in Q.code, i.reg # NoValue
  PROVE  EscapeSuccessors(Q, i.reg) =
           (CASE i.op = "load" -> {Underlying(Q, i.a)} \cup StoredTo(Q, Underlying(Q, i.a))
              [] i.op = "call" -> UNION {ReturnValues(Q, f) : f \in DirectCallee(Q, i) \cap Defined}
              [] i.op \in {"select", "field", "alloca"} ->
                   {i.a, i.b} \cup StoredTo(Q, Underlying(Q, i.reg))
              [] OTHER -> {}) \ {NoValue}
<1>1. i.reg \in Registers /\ Def(Q, i.reg) = i
  BY DefOf
<1>2. i.reg \notin Aliases /\ i.reg \notin Globals /\ i.reg \notin Params
  BY <1>1, IRAssumption
<1>. QED
  BY <1>1, <1>2 DEF EscapeSuccessors

(* Values come from values.                                                *)
LEMMA FlowType ==
  ASSUME NEW Q, IsModule(Q)
  PROVE  /\ IsFiniteSet(ValuesOf(Q))
         /\ Flow(Q) \in [ValuesOf(Q) -> SUBSET ValuesOf(Q)]
<1>1. ValuesOf(Q) \subseteq Values
  BY DEF ValuesOf, IsModule, Instructions, Values
<1>2. IsFiniteSet(ValuesOf(Q))
  BY <1>1, IRAssumption, FS_Subset
<1>3. \A b : StoredTo(Q, b) \ {NoValue} \subseteq ValuesOf(Q)
  BY OperandType DEF StoredTo, Operands
<1>4. ASSUME NEW v \in ValuesOf(Q)
      PROVE  EscapeSuccessors(Q, v) \subseteq ValuesOf(Q)
  <2>1. CASE v \in Aliases \cup Globals \cup Functions
    BY <2>1, Successors, IRAssumption DEF IsModule, ValuesOf, Values
  <2>2. CASE v \in Params
    BY <2>2, Successors, OperandType DEF CallSites, CallBases, Operands
  <2>3. CASE v \in Registers
    <3>1. PICK i \in Q.code : i.reg = v /\ i.reg # NoValue
      BY <2>3, IRAssumption DEF ValuesOf, Values
    <3>2. i.op = "load" => {Underlying(Q, i.a)} \ {NoValue} \subseteq ValuesOf(Q)
      BY <3>1, DefOf, UnderlyingType DEF Operands, Shaped
    <3>3. {i.a, i.b} \ {NoValue} \subseteq ValuesOf(Q)
      BY OperandType DEF Operands
    <3>4. \A f : ReturnValues(Q, f) \ {NoValue} \subseteq ValuesOf(Q)
      BY OperandType DEF ReturnValues, Operands
    <3>. QED
      BY <3>1, <3>2, <3>3, <3>4, <1>3, RegisterSuccessors
  <2>. QED
    BY <1>1, <2>1, <2>2, <2>3 DEF Values
<1>. QED
  BY <1>2, <1>4 DEF Flow

(* Carrying is reflexive and follows the flow.                             *)
LEMMA CarryFacts ==
  ASSUME NEW Q, IsModule(Q), NEW v \in ValuesOf(Q)
  PROVE  /\ Carry(Q, v) \subseteq ValuesOf(Q)
         /\ v \in Carry(Q, v)
         /\ \A w \in Carry(Q, v) : Carry(Q, w) \subseteq Carry(Q, v)
         /\ \A w \in EscapeSuccessors(Q, v) :
              /\ w \in ValuesOf(Q) /\ w \in Carry(Q, v)
              /\ Carry(Q, w) \subseteq Carry(Q, v)
<1>. DEFINE flow == Flow(Q)  D == ValuesOf(Q)
<1>1. flow \in [D -> SUBSET D] /\ flow[v] = EscapeSuccessors(Q, v)
  BY FlowType DEF Flow
<1>2. ASSUME NEW u \in D
      PROVE  /\ Least(flow, {u}) \in SUBSET D
             /\ {u} \subseteq Least(flow, {u})
             /\ FlowClosed(flow, Least(flow, {u}))
             /\ \A T \in SUBSET D : {u} \subseteq T /\ FlowClosed(flow, T) => Least(flow, {u}) \subseteq T
  <2>. HIDE DEF flow, D
  <2>. QED BY <1>1, LeastIsClosed
<1>3. \A w \in Carry(Q, v) : w \in D /\ Carry(Q, w) \subseteq Carry(Q, v)
  BY <1>2 DEF Carry
<1>4. EscapeSuccessors(Q, v) \subseteq Carry(Q, v)
  BY <1>1, <1>2 DEF Carry, FlowClosed
<1>. QED
  BY <1>2, <1>3, <1>4 DEF Carry

(* Every site is of an instruction.                                        *)
LEMMA Sites ==
  ASSUME NEW Q, IsModule(Q)
  PROVE  /\ \A s \in EscapeSites(Q) : \E i \in Q.code : s = <<i.fn, s[2]>> /\ s[2] \in Escaping(Q, i)
         /\ \A i \in Q.code : \A v \in Escaping(Q, i) : <<i.fn, v>> \in EscapeSites(Q)
         /\ \A i \in Q.code : Escaping(Q, i) \subseteq ValuesOf(Q) /\ i.fn \in Defined
<1>. DEFINE At(i) == {i.fn} \X Escaping(Q, i)
<1>1. EscapeSites(Q) = UNION {At(i) : i \in Q.code}
  BY DEF EscapeSites
<1>2. \A s : s \in EscapeSites(Q) <=> \E i \in Q.code : s \in At(i)
  <2>. HIDE DEF At
  <2>. QED BY <1>1
<1>3. \A i \in Q.code : Escaping(Q, i) \subseteq Operands(i)
  BY DEF Escaping, Arguments, Operands
<1>4. \A i \in Q.code : i.fn \in Defined
  BY DEF IsModule, Instructions
<1>. QED
  BY <1>2, <1>3, <1>4, OperandType

(* What is known outside only grows, and holds what it can carry.          *)
LEMMA ExposedFacts ==
  ASSUME NEW Q, IsModule(Q), NEW E
  PROVE  /\ \A F : E \subseteq F => Exposed(Q, E) \subseteq Exposed(Q, F)
         /\ \A w \in Exposed(Q, E) : w \in ValuesOf(Q) /\ Carry(Q, w) \subseteq Exposed(Q, E)
         /\ \A i \in Q.code : i.fn \in E =>
              \A v \in Escaping(Q, i) : Carry(Q, v) \subseteq Exposed(Q, E)
<1>1. ASSUME NEW s \in EscapeSites(Q)
      PROVE  s[2] \in ValuesOf(Q)
  BY Sites
<1>2. ASSUME NEW i \in Q.code, i.fn \in E, NEW v \in Escaping(Q, i)
      PROVE  Carry(Q, v) \subseteq Exposed(Q, E)
  <2>1. <<i.fn, v>> \in EscapeSites(Q) /\ v \in ValuesOf(Q)
    BY Sites
  <2>2. Carry(Q, v) \subseteq ValuesOf(Q)
    BY <2>1, CarryFacts
  <2>. QED
    BY <1>2, <2>1, <2>2 DEF Exposed
<1>. QED
  BY <1>1, <1>2, CarryFacts DEF Exposed

-----------------------------------------------------------------------------
(***************************************************************************)
(* What operands evaluate to.                                              *)
(***************************************************************************)

(* A cell is a global or the register of an alloca.                        *)
LEMMA CellsType ==
  ASSUME IsModule(P)
  PROVE  /\ Cells \subseteq Globals \cup Registers
         /\ \A c \in Cells \ Globals : \E i \in P.code : i.op = "alloca" /\ i.reg = c /\ c # NoValue
         /\ Addresses \subseteq ValuesOf(P)
BY DefOf, IRAssumption DEF Cells, IsModule, Instructions, Shaped, Addresses, ValuesOf, Values

(* Aliases that are direct name their function or cell.                    *)
LEMMA AliasesResolved ==
  ASSUME IsModule(P), Covered
  PROVE  \A a \in Aliases : AliasTarget[a] = P.aliasee[a]
<1>. DEFINE Resolves(g) ==
       g = [a \in Aliases |->
              IF P.aliasee[a] \in Aliases THEN g[P.aliasee[a]] ELSE P.aliasee[a]]
<1>1. \A a \in Aliases : P.aliasee[a] \notin Aliases
  BY DEF Covered, AliasesAreDirect
<1>2. Resolves([a \in Aliases |-> P.aliasee[a]])
  BY <1>1
<1>3. AliasTarget = CHOOSE g : Resolves(g)
  BY DEF AliasTarget
<1>4. Resolves(AliasTarget)
  BY <1>2, <1>3
<1>. QED
  BY <1>1, <1>4

(* The cases of an operand.                                                *)
LEMMA EvalCases ==
  ASSUME IsModule(P), Covered, NEW i \in P.code, NEW v \in Operands(i)
  PROVE  \/ v \in Addresses /\ Eval(v) = {v}
         \/ /\ v \in Aliases /\ Eval(v) = {P.aliasee[v]}
            /\ P.aliasee[v] \in Functions \cup Globals
            /\ P.aliasee[v] \in Carry(P, v)
         \/ v \in Params \cup Registers /\ v \notin Addresses /\ Eval(v) = holds[v]
<1>1. v \in Values /\ v # NoValue /\ v \in ValuesOf(P)
  BY OperandType, IRAssumption DEF IsModule, Instructions, Operands
<1>2. CASE v \in Aliases
  <2>1. P.aliasee[v] \in Functions \cup Globals
    BY <1>2, OperandType DEF Covered, AliasesAreDirect
  <2>2. P.aliasee[v] \in EscapeSuccessors(P, v)
    BY <1>2, <2>1, Successors, IRAssumption DEF Values
  <2>3. v \notin Addresses
    BY <1>2, CellsType, IRAssumption DEF Addresses
  <2>4. P.aliasee[v] \in Carry(P, v)
    BY <1>1, <2>2, CarryFacts
  <2>. QED
    BY <1>1, <1>2, <2>1, <2>3, <2>4, AliasesResolved DEF Eval
<1>3. CASE v \notin Aliases
  BY <1>1, <1>3 DEF Eval, Values, Addresses, Cells
<1>. QED
  BY <1>2, <1>3

(* An operand evaluates to what it carries or what is known outside.       *)
LEMMA EvalCarried ==
  ASSUME IsModule(P), RunInv, NEW i \in P.code, NEW v \in Operands(i)
  PROVE  Eval(v) \subseteq Carry(P, v) \cup Exposed(P, entered)
<1>1. v \in Carry(P, v)
  BY OperandType, CarryFacts
<1>. QED
  BY <1>1, EvalCases DEF RunInv, FlowInv

(* An operand that is not called and not the address of a load or store    *)
(* evaluates to data.                                                      *)
IsData(i, v) ==
  /\ v \in Operands(i)
  /\ i.op # "load"
  /\ i.op = "store" => v = i.a
  /\ i.op = "call" => v = i.b

LEMMA EvalData ==
  ASSUME IsModule(P), RunInv, NEW i \in P.code, NEW v, IsData(i, v)
  PROVE  Eval(v) \subseteq Data
<1>1. v \in Operands(i)
  BY DEF IsData
<1>2. \A g \in Written : v \notin NamesOf(g)
  BY DEF IsData, RunInv, Covered, WrittenGlobalsArePrivate
<1>3. CASE v \in Addresses /\ Eval(v) = {v}
  <2>1. v \in Defined => v \in AddressTaken(P)
    BY DEF IsData, AddressTaken, Operands
  <2>2. v \notin Written
    BY <1>2 DEF NamesOf
  <2>. QED
    BY <1>3, <2>1, <2>2 DEF Data
<1>4. CASE v \in Aliases /\ Eval(v) = {P.aliasee[v]} /\ P.aliasee[v] \in Functions \cup Globals
  <2>1. P.aliasee[v] \in Defined => P.aliasee[v] \in AddressTaken(P)
    BY <1>4 DEF AddressTaken, IsModule
  <2>2. P.aliasee[v] \notin Written
    BY <1>2, <1>4 DEF NamesOf
  <2>3. P.aliasee[v] \in Addresses
    BY <1>4 DEF Addresses, Cells
  <2>. QED
    BY <1>4, <2>1, <2>2, <2>3 DEF Data
<1>5. CASE v \in Params \cup Registers /\ Eval(v) = holds[v]
  BY <1>5 DEF RunInv, DataInv
<1>. QED
  BY <1>1, <1>3, <1>4, <1>5, EvalCases DEF RunInv

(* A cell that an address operand evaluates to is its underlying object,   *)
(* if that is a cell or the cell is a written global; otherwise the object *)
(* carries it or it is known outside.                                      *)
ObjectOf(c, u) ==
  /\ c \in Carry(P, u) \cup Exposed(P, entered)
  /\ u \in Cells \/ c \in Written => c = u

LEMMA BaseObject ==
  ASSUME IsModule(P), RunInv, NEW i \in P.code, NEW v \in Operands(i), NEW c \in Eval(v) \cap Cells
  PROVE  ObjectOf(c, IF v \in Aliases THEN P.aliasee[v] ELSE v)
<1>1. v \in ValuesOf(P) /\ c \in ValuesOf(P) /\ v \in Carry(P, v) /\ c \in Carry(P, c)
  BY OperandType, CellsType, CarryFacts DEF Addresses
<1>2. c \in Carry(P, v) \cup Exposed(P, entered)
  BY EvalCarried
<1>3. CASE v \in Addresses /\ Eval(v) = {v}
  BY <1>1, <1>3, CellsType, IRAssumption DEF ObjectOf, Addresses
<1>4. CASE v \in Aliases /\ Eval(v) = {P.aliasee[v]}
  BY <1>1, <1>4 DEF ObjectOf
<1>5. CASE v \in Params \cup Registers /\ v \notin Addresses /\ Eval(v) = holds[v]
  <2>1. v \notin Cells /\ v \notin Aliases
    BY <1>5, IRAssumption DEF Addresses
  <2>2. c \notin Written
    BY <1>5 DEF RunInv, DataInv, Data
  <2>. QED
    BY <1>2, <2>1, <2>2 DEF ObjectOf
<1>. QED
  BY <1>3, <1>4, <1>5, EvalCases DEF RunInv

LEMMA UnderlyingObject ==
  ASSUME IsModule(P), RunInv, NEW i \in P.code, NEW v \in Operands(i), NEW c \in Eval(v) \cap Cells
  PROVE  ObjectOf(c, Underlying(P, v))
<1>1. CASE v \in Registers /\ Def(P, v).op = "field"
  <2>1. PICK j \in P.code : j.reg = v /\ v # NoValue
    BY <1>1, OperandType, IRAssumption DEF ValuesOf, Values
  <2>2. j = Def(P, v) /\ j.op = "field" /\ j.a \in Operands(j)
    BY <2>1, <1>1, DefOf DEF Operands, Shaped
  <2>3. v \notin Addresses
    <3>1. v \notin Cells
      BY <2>1, <2>2, <1>1, CellsType, IRAssumption DEF IsModule
    <3>. QED
      BY <3>1, <1>1, IRAssumption DEF Addresses
  <2>4. c \in Eval(j.a)
    BY <2>1, <2>2, <2>3, <1>1, EvalCases, IRAssumption DEF RunInv, FlowInv
  <2>5. ObjectOf(c, IF j.a \in Aliases THEN P.aliasee[j.a] ELSE j.a)
    BY <2>2, <2>4, BaseObject
  <2>. QED
    BY <1>1, <2>2, <2>5 DEF Underlying
<1>2. CASE ~(v \in Registers /\ Def(P, v).op = "field")
  BY <1>2, BaseObject DEF Underlying
<1>. QED
  BY <1>1, <1>2

(* The content of a cell that is not a written global is carried by it.    *)
LEMMA ContentCarried ==
  ASSUME IsModule(P), RunInv, NEW c \in Cells, c \notin Written
  PROVE  mem[c] \subseteq Carry(P, c) \cup Exposed(P, entered)
<1>1. c \in ValuesOf(P) /\ c \in Globals \cup Registers
  BY CellsType DEF Addresses
<1>2. ASSUME NEW s \in P.code, s.op = "store", Underlying(P, s.b) = c
      PROVE  Carry(P, s.a) \subseteq Carry(P, c)
  <2>1. c \notin Globals
    BY <1>2 DEF Written
  <2>2. PICK i \in P.code : i.op = "alloca" /\ i.reg = c /\ c # NoValue
    BY <2>1, CellsType
  <2>3. c \in Registers /\ Def(P, c) = i
    BY <2>2, DefOf
  <2>4. Underlying(P, c) = c
    BY <2>2, <2>3, IRAssumption DEF Underlying
  <2>5. s.a \in StoredTo(P, c) /\ s.a # NoValue
    BY <1>2 DEF StoredTo, IsModule, Shaped
  <2>6. s.a \in EscapeSuccessors(P, c)
    BY <2>2, <2>4, <2>5, RegisterSuccessors
  <2>. QED
    BY <1>1, <2>6, CarryFacts
<1>. QED
  BY <1>1, <1>2 DEF RunInv, FlowInv, Content

(* What a load gives, its register carries or is known outside.            *)
LEMMA LoadCarried ==
  ASSUME IsModule(P), RunInv, NEW i \in P.code, i.op = "load", i.reg # NoValue,
         NEW c \in Eval(i.a) \cap Cells
  PROVE  mem[c] \subseteq Carry(P, i.reg) \cup Exposed(P, entered)
<1>. DEFINE u == Underlying(P, i.a)
<1>1. i.a \in Operands(i) /\ i.reg \in ValuesOf(P)
  BY DefOf DEF Operands, Shaped, ValuesOf
<1>2. ObjectOf(c, u) /\ u \in ValuesOf(P)
  BY <1>1, UnderlyingObject, UnderlyingType
<1>3. u # NoValue
  BY <1>2, IRAssumption DEF ValuesOf, Values
<1>4. Carry(P, u) \subseteq Carry(P, i.reg)
  <2>1. u \in EscapeSuccessors(P, i.reg)
    BY <1>3, RegisterSuccessors
  <2>. QED BY <1>1, <2>1, CarryFacts
<1>5. CASE c = u
  <2>1. ASSUME NEW s \in P.code, s.op = "store", Underlying(P, s.b) = c
        PROVE  Carry(P, s.a) \subseteq Carry(P, i.reg)
    <3>1. s.a \in StoredTo(P, u) /\ s.a # NoValue
      BY <1>5, <2>1 DEF StoredTo, IsModule, Shaped
    <3>2. s.a \in EscapeSuccessors(P, i.reg)
      BY <3>1, RegisterSuccessors
    <3>. QED BY <1>1, <3>2, CarryFacts
  <2>. QED
    BY <1>4, <1>5, <2>1, CellsType DEF RunInv, FlowInv, Content
<1>6. CASE c # u
  <2>1. c \notin Written /\ c \in Carry(P, u) \cup Exposed(P, entered)
    BY <1>2, <1>6 DEF ObjectOf
  <2>2. Carry(P, c) \subseteq Carry(P, u) \cup Exposed(P, entered)
    BY <1>2, <2>1, CarryFacts, ExposedFacts
  <2>. QED
    BY <1>4, <2>1, <2>2, ContentCarried
<1>. QED
  BY <1>5, <1>6

-----------------------------------------------------------------------------
(***************************************************************************)
(* The edges.                                                              *)
(***************************************************************************)

(* What computeEscapeSets gives for a value is what the value carries.     *)
LEMMA SinksCarried ==
  ASSUME NEW Q, IsModule(Q), NEW v \in ValuesOf(Q)
  PROVE  Sinks(Flow(Q), v) = Carry(Q, v) \cap Functions
<1>1. Closure(Flow(Q), {v}) = Least(Flow(Q), {v})
  BY FlowType, ClosureIsLeast
<1>. QED
  BY <1>1 DEF Sinks, Carry

LEMMA EdgeCases ==
  ASSUME NEW Q, IsModule(Q)
  PROVE  \A e : e \in CallEdges(Q) <=>
           \/ \E i \in CallBases(Q) : \E f \in DirectCallee(Q, i) : e = Edge(i.fn, f, "Direct")
           \/ \E s \in EscapeSites(Q) : \E f \in Sinks(Flow(Q), s[2]) : e = Edge(s[1], f, "Indirect")
           \/ \E i \in CallBases(Q) : IsIndirect(Q, i) /\
                \E f \in Resolve(Q, i) : e = Edge(i.fn, f, "Indirect")
<1>. DEFINE D(i) == {Edge(i.fn, f, "Direct") : f \in DirectCallee(Q, i)}
            S(s) == {Edge(s[1], f, "Indirect") : f \in Sinks(Flow(Q), s[2])}
            R(i) == {Edge(i.fn, f, "Indirect") : f \in Resolve(Q, i)}
<1>1. DirectEdges(Q) = UNION {D(i) : i \in CallBases(Q)}
  BY DEF DirectEdges
<1>2. EscapeEdges(Q) = UNION {S(s) : s \in EscapeSites(Q)}
  BY DEF EscapeEdges
<1>3. IndirectEdges(Q) = UNION {R(i) : i \in {c \in CallBases(Q) : IsIndirect(Q, c)}}
  BY DEF IndirectEdges
<1>4. \A e : e \in CallEdges(Q) <=>
        \/ \E i \in CallBases(Q) : e \in D(i)
        \/ \E s \in EscapeSites(Q) : e \in S(s)
        \/ \E i \in CallBases(Q) : IsIndirect(Q, i) /\ e \in R(i)
  <2>. HIDE DEF D, S, R
  <2>. QED BY <1>1, <1>2, <1>3 DEF CallEdges
<1>. QED
  BY <1>4

LEMMA EdgeType ==
  ASSUME NEW Q, IsModule(Q), NEW e \in CallEdges(Q)
  PROVE  /\ e.from \in Defined /\ e.to \in Functions
         /\ e \in [from : Defined, to : Functions, kind : {"Direct", "Indirect"}]
<1>1. \A i \in CallBases(Q) : i.fn \in Defined
  BY DEF CallBases, IsModule, Instructions
<1>2. \A i \in CallBases(Q) : DirectCallee(Q, i) \subseteq Functions
  BY IRAssumption DEF DirectCallee, Functions
<1>3. \A s \in EscapeSites(Q) : s[1] \in Defined
  BY Sites
<1>4. \A i \in CallBases(Q) : Resolve(Q, i) \subseteq Functions
  BY DEF Resolve, ResolveAny, ResolveTyped, AddressTaken, Functions
<1>5. \E a \in Defined, b \in Functions, k \in {"Direct", "Indirect"} : e = Edge(a, b, k)
  <2>1. CASE \E i \in CallBases(Q) : \E f \in DirectCallee(Q, i) : e = Edge(i.fn, f, "Direct")
    BY <2>1, <1>1, <1>2
  <2>2. CASE \E s \in EscapeSites(Q) : \E f \in Sinks(Flow(Q), s[2]) : e = Edge(s[1], f, "Indirect")
    BY <2>2, <1>3 DEF Sinks
  <2>3. CASE \E i \in CallBases(Q) : \E f \in Resolve(Q, i) : e = Edge(i.fn, f, "Indirect")
    BY <2>3, <1>1, <1>4
  <2>. QED
    BY <2>1, <2>2, <2>3, EdgeCases
<1>. QED
  BY <1>5 DEF Edge

(* What a reached function has an edge to is reached.                      *)
LEMMA ReachedClosed ==
  ASSUME IsModule(P), edges = CallEdges(P)
  PROVE  /\ Entry \in Reached
         /\ \A e \in edges : e.from \in Reached => e.to \in Reached
<1>1. IsFiniteSet(Functions)
  BY IRAssumption, FS_Subset DEF Values
<1>2. Callgraph \in [Functions -> SUBSET Functions]
  BY EdgeType DEF Callgraph
<1>3. Entry \in Functions
  BY EntryAssumption DEF Functions
<1>4. Reached = Least(Callgraph, {Entry})
  BY <1>1, <1>2, <1>3, ClosureIsLeast DEF Reached
<1>5. Entry \in Reached /\ FlowClosed(Callgraph, Reached)
  BY <1>2, <1>3, <1>4, LeastIsClosed
<1>6. \A e \in edges : e.from \in Functions /\ e.to \in Callgraph[e.from]
  BY EdgeType DEF Callgraph, Functions
<1>. QED
  BY <1>5, <1>6 DEF FlowClosed

(* What is known outside has an indirect edge from an entered function.    *)
LEMMA ExposedEdge ==
  ASSUME IsModule(P), RunInv, NEW f \in Exposed(P, entered) \cap Functions
  PROVE  \E e \in edges : e.kind = "Indirect" /\ e.to = f /\ e.from \in entered
<1>1. PICK s \in EscapeSites(P) : s[1] \in entered /\ f \in Carry(P, s[2])
  BY DEF Exposed
<1>2. f \in Sinks(Flow(P), s[2])
  BY <1>1, Sites, SinksCarried
<1>3. Edge(s[1], f, "Indirect") \in edges
  BY <1>2, EdgeCases DEF RunInv
<1>. QED
  BY <1>1, <1>3 DEF Edge

(* A function a call arrives at is its direct callee, or, unless the call  *)
(* is direct, has had its address taken.                                   *)
LEMMA CalleeCases ==
  ASSUME IsModule(P), RunInv, NEW i \in P.code, i.op = "call", NEW f \in Callees(i)
  PROVE  /\ f \in Functions
         /\ ~IsIndirect(P, i) => f \in DirectCallee(P, i) /\ DirectCallee(P, i) = {f}
         /\ IsIndirect(P, i) => /\ DirectCallee(P, i) = {}
                                /\ f \in Defined => f \in Resolve(P, i)
                                /\ f \in Carry(P, i.a) \cup Exposed(P, entered)
<1>1. i.a \in Operands(i) /\ f \in Functions /\ f \in Eval(i.a)
  BY DEF Callees, Operands, IsModule, Shaped
<1>2. CASE i.a \in Functions
  <2>1. f = i.a
    BY <1>1, <1>2 DEF Eval, Addresses
  <2>. QED
    BY <1>1, <1>2, <2>1 DEF IsIndirect, DirectCallee
<1>3. CASE i.a \in Aliases
  <2>1. f = P.aliasee[i.a]
    BY <1>1, <1>3, EvalCases, CellsType, IRAssumption DEF RunInv, Addresses
  <2>. QED
    BY <1>1, <1>3, <2>1, IRAssumption DEF IsIndirect, DirectCallee
<1>4. CASE i.a \notin Functions \cup Aliases
  <2>1. f # i.a
    BY <1>1, <1>4
  <2>2. i.a \in Params \cup Registers /\ f \in holds[i.a]
    BY <1>1, <1>4, <2>1, EvalCases DEF RunInv
  <2>3. f \in Defined => f \in AddressTaken(P)
    BY <2>2 DEF RunInv, DataInv, Data
  <2>4. TypeOf[f] = i.type
    BY <1>4 DEF Callees
  <2>5. f \in Carry(P, i.a) \cup Exposed(P, entered)
    BY <2>2 DEF RunInv, FlowInv
  <2>. QED
    BY <1>1, <1>4, <2>3, <2>4, <2>5
       DEF IsIndirect, DirectCallee, Resolve, ResolveAny, ResolveTyped
<1>. QED
  BY <1>2, <1>3, <1>4

(* so that it is reached with the caller.                                  *)
LEMMA CalleeReached ==
  ASSUME IsModule(P), RunInv, NEW i \in Running("call"), NEW f \in Callees(i) \cap Defined
  PROVE  f \in Reached
<1>1. i \in P.code /\ i.op = "call" /\ i \in CallBases(P) /\ i.fn \in Reached
  BY DEF Running, CallBases, RunInv, NoUnderReporting
<1>2. \E k : Edge(i.fn, f, k) \in edges
  BY <1>1, CalleeCases, EdgeCases DEF RunInv
<1>3. \E e \in edges : e.from = i.fn /\ e.to = f
  BY <1>2 DEF Edge
<1>. QED
  BY <1>1, <1>3, ReachedClosed DEF RunInv

-----------------------------------------------------------------------------
(***************************************************************************)
(* The steps of a run.                                                     *)
(***************************************************************************)

(* What a step may add.                                                    *)
EnterGrow ==
  /\ entered \subseteq entered'
  /\ entered' \subseteq Defined /\ entered' \subseteq Reached

HoldsGrow ==
  /\ holds' \in [Params \cup Registers -> SUBSET Data]
  /\ \A v \in Params \cup Registers :
       /\ holds[v] \subseteq holds'[v]
       /\ holds'[v] \subseteq holds[v] \cup Carry(P, v) \cup Exposed(P, entered')
  /\ \A i \in P.code : i.op = "field" /\ i.reg # NoValue =>
       holds'[i.reg] \subseteq holds[i.reg] \cup Eval(i.a)

MemGrow ==
  /\ mem' \in [Globals \cup Registers -> SUBSET Data]
  /\ \A c \in Globals \cup Registers :
       mem'[c] \subseteq mem[c] \cup Content(P, c) \cup Exposed(P, entered')

LeakGrow ==
  /\ leaked' \subseteq Data
  /\ leaked' \subseteq leaked \cup Exposed(P, entered')

(* A step that adds no more preserves the invariant.                       *)
LEMMA Grow ==
  ASSUME IsModule(P), built, RunInv, UNCHANGED analysis,
         EnterGrow, HoldsGrow, MemGrow, LeakGrow
  PROVE  IInv'
<1>1. P' = P /\ built' = built /\ edges' = edges
  BY DEF analysis
<1>2. /\ Data' = Data /\ Covered' = Covered /\ Reached' = Reached
      /\ Addresses' = Addresses /\ AliasTarget' = AliasTarget
  BY <1>1 DEF Data, Addresses, Cells, Written, Covered, StoresAreNamed,
     WrittenGlobalsArePrivate, AliasesAreDirect, NamesOf, Reached, Callgraph, AliasTarget
<1>3. Exposed(P, entered) \subseteq Exposed(P, entered')
  BY ExposedFacts DEF EnterGrow
<1>4. \A i \in P.code : i.op = "field" => i.a \in Values
  BY DEF IsModule, Shaped, Instructions
<1>5. ASSUME NEW v \in Values
      PROVE  Eval(v) \subseteq Eval(v)'
  <2>1. Eval(v)' = IF v = NoValue THEN {}
                   ELSE IF v \in Addresses THEN {v}
                   ELSE IF v \in Aliases THEN {AliasTarget[v]}
                   ELSE holds'[v]
    BY <1>2 DEF Eval
  <2>2. CASE v \in Params \cup Registers
    BY <2>1, <2>2 DEF Eval, HoldsGrow
  <2>3. CASE v \notin Params \cup Registers
    BY <2>1, <2>3 DEF Eval, Values, Addresses, Cells
  <2>. QED
    BY <2>2, <2>3
<1>6. DataInv'
  BY <1>2 DEF DataInv, HoldsGrow, MemGrow, LeakGrow
<1>7. FlowInv'
  <2>1. \A v \in Params \cup Registers :
          holds'[v] \subseteq Carry(P, v) \cup Exposed(P, entered')
    BY <1>3 DEF HoldsGrow, RunInv, FlowInv
  <2>2. \A i \in P.code : i.op = "field" /\ i.reg # NoValue => holds'[i.reg] \subseteq Eval(i.a)'
    BY <1>4, <1>5 DEF HoldsGrow, RunInv, FlowInv
  <2>3. \A c \in Globals \cup Registers :
          mem'[c] \subseteq Content(P, c) \cup Exposed(P, entered')
    BY <1>3 DEF MemGrow, RunInv, FlowInv
  <2>4. leaked' \subseteq Exposed(P, entered')
    BY <1>3 DEF LeakGrow, RunInv, FlowInv
  <2>. QED
    BY <1>1, <2>1, <2>2, <2>3, <2>4 DEF FlowInv
<1>8. RunInv'
  BY <1>1, <1>2, <1>6, <1>7 DEF RunInv, EnterGrow, NoUnderReporting
<1>. QED
  BY <1>1, <1>8 DEF IInv

(* What does not change grows by nothing.                                  *)
LEMMA Unchanged ==
  ASSUME IsModule(P), RunInv
  PROVE  /\ UNCHANGED entered => EnterGrow
         /\ UNCHANGED holds => HoldsGrow
         /\ UNCHANGED mem => MemGrow
         /\ UNCHANGED leaked => LeakGrow
BY DefOf DEF RunInv, DataInv, NoUnderReporting, EnterGrow, HoldsGrow, MemGrow, LeakGrow

(* A register may receive what it carries or what is known outside.        *)
LEMMA ReceiveGrow ==
  ASSUME IsModule(P), RunInv, entered \subseteq entered',
         NEW i \in P.code, NEW A, holds' = Receive(holds, i.reg, A),
         A \subseteq Data,
         i.reg # NoValue => A \subseteq Carry(P, i.reg) \cup Exposed(P, entered'),
         i.op = "field" => A \subseteq Eval(i.a)
  PROVE  HoldsGrow
<1>1. holds \in [Params \cup Registers -> SUBSET Data]
  BY DEF RunInv, DataInv
<1>2. i.reg \in Registers \/ i.reg = NoValue
  BY DEF IsModule, Instructions
<1>3. \A j \in P.code : j.reg = i.reg /\ j.reg # NoValue => j = i
  BY DEF IsModule
<1>4. \A j \in P.code : j.reg # NoValue => j.reg \in Registers
  BY DefOf
<1>5. \A v \in Params \cup Registers :
        holds'[v] = IF v = i.reg THEN holds[v] \cup A ELSE holds[v]
  BY <1>1 DEF Receive
<1>6. holds' \in [Params \cup Registers -> SUBSET Data]
  BY <1>1 DEF Receive
<1>7. NoValue \notin Params \cup Registers
  BY IRAssumption DEF Values
<1>. QED
  BY <1>1, <1>2, <1>3, <1>4, <1>5, <1>6, <1>7 DEF HoldsGrow

(* So may a cell, what it can contain.                                     *)
LEMMA StoreGrow ==
  ASSUME IsModule(P), RunInv, entered \subseteq entered',
         NEW c, NEW A, mem' = Receive(mem, c, A), A \subseteq Data,
         A \subseteq Content(P, c) \cup Exposed(P, entered')
  PROVE  MemGrow
<1>1. mem \in [Globals \cup Registers -> SUBSET Data]
  BY DEF RunInv, DataInv
<1>. QED
  BY <1>1 DEF Receive, MemGrow

(* A function that is entered receives its arguments.                      *)
LEMMA EnterGrows ==
  ASSUME IsModule(P), RunInv, NEW f \in Defined, f \in Reached, NEW A, Enter(f, A),
         A \subseteq Data,
         \A v \in Params : OwnerOf[v] = f => A \subseteq Carry(P, v) \cup Exposed(P, entered')
  PROVE  EnterGrow /\ HoldsGrow
<1>1. holds \in [Params \cup Registers -> SUBSET Data]
  BY DEF RunInv, DataInv
<1>2. \A i \in P.code : i.reg # NoValue => i.reg \in Registers /\ i.reg \notin Params
  BY DefOf, IRAssumption
<1>3. HoldsGrow
  BY <1>1, <1>2 DEF Enter, HoldsGrow
<1>. QED
  BY <1>3 DEF Enter, EnterGrow, RunInv, NoUnderReporting

(* What flows into a value is carried by it or known outside.              *)
LEMMA EvalInto ==
  ASSUME IsModule(P), RunInv, NEW i \in P.code, NEW v \in {i.a, i.b}, NEW r \in ValuesOf(P),
         v # NoValue => v \in EscapeSuccessors(P, r)
  PROVE  Eval(v) \subseteq Carry(P, r) \cup Exposed(P, entered)
<1>1. CASE v = NoValue
  BY <1>1 DEF Eval
<1>2. CASE v # NoValue
  BY <1>2, EvalCarried, CarryFacts DEF Operands
<1>. QED
  BY <1>1, <1>2

(* What escapes in an entered function is known outside.                   *)
LEMMA EvalEscapes ==
  ASSUME IsModule(P), RunInv, NEW i \in P.code, i.fn \in entered, NEW v \in {i.a, i.b},
         v = NoValue \/ v \in Escaping(P, i)
  PROVE  Eval(v) \subseteq Exposed(P, entered)
<1>1. CASE v = NoValue
  BY <1>1 DEF Eval
<1>2. CASE v # NoValue
  BY <1>2, EvalCarried, ExposedFacts DEF Operands
<1>. QED
  BY <1>1, <1>2

LEMMA EvalNothing == ASSUME NEW i, NEW v \in {i.a, i.b}, v \notin Operands(i)
                     PROVE  Eval(v) = {}
BY DEF Operands, Eval

(* What a function returns, a call of it can have, and if the function has *)
(* been entered it is known outside.                                       *)
LEMMA ReturnsEscape ==
  ASSUME IsModule(P), RunInv, NEW f, NEW v \in ReturnValues(P, f)
  PROVE  /\ Eval(v) \subseteq Data
         /\ f \in entered => Eval(v) \subseteq Exposed(P, entered)
<1>1. PICK r \in P.code : r.op = "ret" /\ r.fn = f /\ v = r.a
  BY DEF ReturnValues
<1>2. Eval(v) \subseteq Data
  BY <1>1, EvalData, EvalNothing DEF IsData
<1>3. f \in entered => Eval(v) \subseteq Exposed(P, entered)
  BY <1>1, EvalEscapes DEF Escaping
<1>. QED
  BY <1>2, <1>3

LEMMA MoveInv ==
  ASSUME IInv, built, Move
  PROVE  IInv'
<1>1. IsModule(P) /\ RunInv
  BY DEF IInv
<1>2. PICK i \in Running("select") \cup Running("field") :
        holds' = Receive(holds, i.reg, Eval(i.a) \cup Eval(i.b))
  BY DEF Move
<1>3. UNCHANGED <<analysis, entered, mem, leaked>>
  BY DEF Move
<1>4. i \in P.code /\ i.op \in {"select", "field"}
  BY <1>2 DEF Running
<1>5. Eval(i.a) \cup Eval(i.b) \subseteq Data
  BY <1>1, <1>4, EvalData, EvalNothing DEF IsData
<1>6. i.reg # NoValue =>
        Eval(i.a) \cup Eval(i.b) \subseteq Carry(P, i.reg) \cup Exposed(P, entered)
  <2>1. SUFFICES ASSUME i.reg # NoValue
                 PROVE  Eval(i.a) \cup Eval(i.b) \subseteq Carry(P, i.reg) \cup Exposed(P, entered)
    OBVIOUS
  <2>2. i.reg \in ValuesOf(P)
    BY <1>4, <2>1 DEF ValuesOf
  <2>3. {i.a, i.b} \ {NoValue} \subseteq EscapeSuccessors(P, i.reg)
    BY <1>1, <1>4, <2>1, RegisterSuccessors
  <2>. QED
    BY <1>1, <1>4, <2>2, <2>3, EvalInto
<1>7. i.op = "field" => Eval(i.b) = {}
  BY <1>1, <1>4 DEF IsModule, Shaped, Eval
<1>8. HoldsGrow
  BY <1>1, <1>2, <1>3, <1>4, <1>5, <1>6, <1>7, ReceiveGrow
<1>. QED
  BY <1>1, <1>3, <1>8, Grow, Unchanged

LEMMA LoadInv ==
  ASSUME IInv, built, Load
  PROVE  IInv'
<1>1. IsModule(P) /\ RunInv
  BY DEF IInv
<1>i. PICK i \in Running("load") : \E c \in Eval(i.a) \cap Cells :
        holds' = Receive(holds, i.reg, mem[c])
  BY DEF Load
<1>2. PICK c \in Eval(i.a) \cap Cells : holds' = Receive(holds, i.reg, mem[c])
  BY <1>i
<1>3. UNCHANGED <<analysis, entered, mem, leaked>>
  BY DEF Load
<1>4. i \in P.code /\ i.op = "load"
  BY <1>2 DEF Running
<1>5. mem[c] \subseteq Data
  BY <1>1, <1>2, CellsType DEF RunInv, DataInv
<1>6. i.reg # NoValue => mem[c] \subseteq Carry(P, i.reg) \cup Exposed(P, entered)
  BY <1>1, <1>2, <1>4, LoadCarried
<1>7. HoldsGrow
  BY <1>1, <1>2, <1>3, <1>4, <1>5, <1>6, ReceiveGrow
<1>. QED
  BY <1>1, <1>3, <1>7, Grow, Unchanged

LEMMA StoreInv ==
  ASSUME IInv, built, Store
  PROVE  IInv'
<1>1. IsModule(P) /\ RunInv
  BY DEF IInv
<1>i. PICK i \in Running("store") : \E c \in Eval(i.b) \cap Cells :
        mem' = Receive(mem, c, Eval(i.a))
  BY DEF Store
<1>2. PICK c \in Eval(i.b) \cap Cells : mem' = Receive(mem, c, Eval(i.a))
  BY <1>i
<1>3. UNCHANGED <<analysis, entered, holds, leaked>>
  BY DEF Store
<1>4. i \in P.code /\ i.op = "store" /\ i.a \in Operands(i) /\ i.b \in Operands(i)
  BY <1>1, <1>2 DEF Running, IsModule, Shaped, Operands
<1>5. Eval(i.a) \subseteq Data
  BY <1>1, <1>4, EvalData DEF IsData
<1>6. c = Underlying(P, i.b)
  <2>1. Underlying(P, i.b) \in Cells
    BY <1>1, <1>4 DEF RunInv, Covered, StoresAreNamed
  <2>2. ObjectOf(c, Underlying(P, i.b))
    BY <1>1, <1>2, <1>4, UnderlyingObject
  <2>. QED
    BY <2>1, <2>2 DEF ObjectOf
<1>7. Eval(i.a) \subseteq Content(P, c) \cup Exposed(P, entered)
  <2>1. Carry(P, i.a) \subseteq ValuesOf(P)
    BY <1>1, <1>4, OperandType, CarryFacts
  <2>. QED
    BY <1>1, <1>4, <1>6, <2>1, EvalCarried DEF Content
<1>8. MemGrow
  BY <1>1, <1>2, <1>3, <1>5, <1>7, StoreGrow
<1>. QED
  BY <1>1, <1>3, <1>8, Grow, Unchanged

LEMMA CopyInv ==
  ASSUME IInv, built, Copy
  PROVE  IInv'
<1>1. IsModule(P) /\ RunInv
  BY DEF IInv
<1>i. PICK i \in Running("copy") :
        \E to \in Eval(i.a) \cap Cells : \E from \in Eval(i.b) \cap Cells :
          mem' = Receive(mem, to, mem[from])
  BY DEF Copy
<1>to. PICK to \in Eval(i.a) \cap Cells : \E from \in Eval(i.b) \cap Cells :
        mem' = Receive(mem, to, mem[from])
  BY <1>i
<1>2. PICK from \in Eval(i.b) \cap Cells : mem' = Receive(mem, to, mem[from])
  BY <1>to
<1>3. UNCHANGED <<analysis, entered, holds, leaked>>
  BY DEF Copy
<1>4. i \in P.code /\ i.op = "copy" /\ i.fn \in entered /\ i.b \in Operands(i)
  BY EvalNothing DEF Running
<1>5. i.b \in Escaping(P, i)
  BY <1>4, IRAssumption
     DEF Escaping, CallBases, CallsAnalyzableCallee, DirectCallee, Arguments, Operands
<1>6. from \in Exposed(P, entered) /\ from \in Data
  BY <1>1, <1>2, <1>4, <1>5, EvalEscapes, EvalData DEF IsData
<1>7. mem[from] \subseteq Exposed(P, entered)
  BY <1>1, <1>2, <1>6, ContentCarried, ExposedFacts DEF Data
<1>8. mem[from] \subseteq Data
  BY <1>1, <1>2, CellsType DEF RunInv, DataInv
<1>9. MemGrow
  BY <1>1, <1>2, <1>3, <1>7, <1>8, StoreGrow
<1>. QED
  BY <1>1, <1>3, <1>9, Grow, Unchanged

(* A call gives its argument to its callee.                                *)
LEMMA CallInv ==
  ASSUME IInv, built, Call
  PROVE  IInv'
<1>1. IsModule(P) /\ RunInv
  BY DEF IInv
<1>i. PICK i \in Running("call") : \E f \in Callees(i) \cap Defined : Enter(f, Eval(i.b))
  BY DEF Call
<1>2. PICK f \in Callees(i) \cap Defined : Enter(f, Eval(i.b))
  BY <1>i
<1>3. UNCHANGED <<analysis, mem, leaked>>
  BY DEF Call
<1>4. i \in P.code /\ i.op = "call" /\ i.fn \in entered /\ i \in CallBases(P)
  BY DEF Running, CallBases
<1>5. Eval(i.b) \subseteq Data
  BY <1>1, <1>4, EvalData, EvalNothing DEF IsData
<1>6. Exposed(P, entered) \subseteq Exposed(P, entered')
  BY <1>1, <1>2, ExposedFacts DEF Enter
<1>7. ASSUME NEW v \in Params, OwnerOf[v] = f
      PROVE  Eval(i.b) \subseteq Carry(P, v) \cup Exposed(P, entered')
  <2>1. v \in ValuesOf(P)
    BY IRAssumption DEF ValuesOf, Values
  <2>2. CASE IsIndirect(P, i)
    <3>1. i.b = NoValue \/ i.b \in Escaping(P, i)
      BY <1>1, <1>4, <2>2, CalleeCases
         DEF Escaping, CallsAnalyzableCallee, Arguments
    <3>. QED
      BY <1>1, <1>4, <1>6, <3>1, EvalEscapes
  <2>3. CASE ~IsIndirect(P, i)
    <3>1. i \in CallSites(P, OwnerOf[v])
      BY <1>1, <1>4, <1>7, <2>3, CalleeCases DEF CallSites
    <3>2. i.b # NoValue => i.b \in EscapeSuccessors(P, v)
      BY <1>1, <3>1, Successors
    <3>. QED
      BY <1>1, <1>4, <1>6, <2>1, <3>2, EvalInto
  <2>. QED
    BY <2>2, <2>3
<1>8. f \in Reached
  BY <1>1, CalleeReached
<1>9. EnterGrow /\ HoldsGrow
  BY <1>1, <1>2, <1>5, <1>7, <1>8, EnterGrows
<1>. QED
  BY <1>1, <1>3, <1>9, Grow, Unchanged

LEMMA ReturnInv ==
  ASSUME IInv, built, Return
  PROVE  IInv'
<1>1. IsModule(P) /\ RunInv
  BY DEF IInv
<1>i. PICK i \in Running("call") : \E f \in Callees(i) \cap entered :
        /\ i.reg # NoValue
        /\ holds' = Receive(holds, i.reg, UNION {Eval(v) : v \in ReturnValues(P, f)})
  BY DEF Return
<1>2. PICK f \in Callees(i) \cap entered :
        /\ i.reg # NoValue
        /\ holds' = Receive(holds, i.reg, UNION {Eval(v) : v \in ReturnValues(P, f)})
  BY <1>i
<1>3. UNCHANGED <<analysis, entered, mem, leaked>>
  BY DEF Return
<1>4. i \in P.code /\ i.op = "call"
  BY DEF Running
<1>5. UNION {Eval(v) : v \in ReturnValues(P, f)} \subseteq Data \cap Exposed(P, entered)
  BY <1>1, ReturnsEscape
<1>6. HoldsGrow
  BY <1>1, <1>2, <1>3, <1>4, <1>5, ReceiveGrow
<1>. QED
  BY <1>1, <1>3, <1>6, Grow, Unchanged

(* External code is given arguments that escape.                           *)
LEMMA CallOutInv ==
  ASSUME IInv, built, CallOut
  PROVE  IInv'
<1>1. IsModule(P) /\ RunInv
  BY DEF IInv
<1>2. PICK i \in Running("call") \cup Running("asm") :
        /\ i.op = "asm" \/ Callees(i) \cap Declared # {}
        /\ leaked' = leaked \cup Eval(i.b)
        /\ holds' = IF i.reg = NoValue THEN holds ELSE Receive(holds, i.reg, leaked')
  BY DEF CallOut
<1>3. UNCHANGED <<analysis, entered, mem>>
  BY DEF CallOut
<1>4. i \in P.code /\ i.op \in {"call", "asm"} /\ i.fn \in entered /\ i \in CallBases(P)
  BY DEF Running, CallBases
<1>5. ~CallsAnalyzableCallee(P, i)
  <2>1. CASE i.op = "asm"
    BY <2>1 DEF CallsAnalyzableCallee, DirectCallee
  <2>2. CASE i.op = "call"
    <3>1. PICK f \in Callees(i) : f \in Declared
      BY <1>2, <2>2
    <3>. QED
      BY <1>1, <1>4, <2>2, <3>1, CalleeCases, IRAssumption DEF CallsAnalyzableCallee
  <2>. QED
    BY <1>4, <2>1, <2>2
<1>6. i.b = NoValue \/ i.b \in Escaping(P, i)
  BY <1>4, <1>5 DEF Escaping, Arguments
<1>7. Eval(i.b) \subseteq Data /\ Eval(i.b) \subseteq Exposed(P, entered)
  BY <1>1, <1>4, <1>6, EvalEscapes, EvalData, EvalNothing DEF IsData
<1>8. leaked' \subseteq Data /\ leaked' \subseteq Exposed(P, entered)
  BY <1>1, <1>2, <1>7 DEF RunInv, DataInv, FlowInv
<1>9. HoldsGrow
  BY <1>1, <1>2, <1>3, <1>4, <1>8, ReceiveGrow, Unchanged
<1>10. LeakGrow
  BY <1>3, <1>8 DEF LeakGrow
<1>. QED
  BY <1>1, <1>3, <1>9, <1>10, Grow, Unchanged

(* What it knows it finds in memory, and may leave there.                  *)
LEMMA LeakedCells ==
  ASSUME IsModule(P), RunInv, NEW c \in leaked \cap Cells
  PROVE  /\ mem[c] \subseteq Data
         /\ mem[c] \subseteq Exposed(P, entered)
<1>1. c \in Data /\ c \in Exposed(P, entered)
  BY DEF RunInv, DataInv, FlowInv
<1>2. mem[c] \subseteq Exposed(P, entered)
  BY <1>1, ContentCarried, ExposedFacts DEF Data
<1>. QED
  BY <1>2, CellsType DEF RunInv, DataInv

LEMMA PeekInv ==
  ASSUME IInv, built, Peek
  PROVE  IInv'
<1>1. IsModule(P) /\ RunInv
  BY DEF IInv
<1>2. PICK c \in leaked \cap Cells : leaked' = leaked \cup mem[c]
  BY DEF Peek
<1>3. UNCHANGED <<analysis, entered, holds, mem>>
  BY DEF Peek
<1>4. LeakGrow
  BY <1>1, <1>2, <1>3, LeakedCells DEF LeakGrow, RunInv, DataInv
<1>. QED
  BY <1>1, <1>3, <1>4, Grow, Unchanged

LEMMA PokeInv ==
  ASSUME IInv, built, Poke
  PROVE  IInv'
<1>1. IsModule(P) /\ RunInv
  BY DEF IInv
<1>2. PICK c \in leaked \cap Cells : mem' = Receive(mem, c, leaked)
  BY DEF Poke
<1>3. UNCHANGED <<analysis, entered, holds, leaked>>
  BY DEF Poke
<1>4. leaked \subseteq Data /\ leaked \subseteq Exposed(P, entered)
  BY <1>1 DEF RunInv, DataInv, FlowInv
<1>5. MemGrow
  BY <1>1, <1>2, <1>3, <1>4, StoreGrow
<1>. QED
  BY <1>1, <1>3, <1>5, Grow, Unchanged

(* What it calls is the target of an edge, and what it gets back escapes.  *)
LEMMA CallBackInv ==
  ASSUME IInv, built, CallBack
  PROVE  IInv'
<1>1. IsModule(P) /\ RunInv
  BY DEF IInv
<1>2. PICK f \in leaked \cap Defined :
        /\ Enter(f, leaked)
        /\ leaked' = leaked \cup UNION {Eval(v) : v \in ReturnValues(P, f)}
  BY DEF CallBack
<1>3. UNCHANGED <<analysis, mem>>
  BY DEF CallBack
<1>4. leaked \subseteq Data /\ leaked \subseteq Exposed(P, entered)
  BY <1>1 DEF RunInv, DataInv, FlowInv
<1>5. Exposed(P, entered) \subseteq Exposed(P, entered') /\ f \in entered'
  BY <1>1, <1>2, ExposedFacts DEF Enter
<1>6. f \in Reached
  <2>1. PICK e \in edges : e.to = f /\ e.from \in entered
    BY <1>1, <1>2, <1>4, ExposedEdge DEF Functions
  <2>. QED
    BY <1>1, <2>1, ReachedClosed DEF RunInv, NoUnderReporting
<1>7. EnterGrow /\ HoldsGrow
  BY <1>1, <1>2, <1>4, <1>5, <1>6, EnterGrows
<1>8. ASSUME NEW v \in ReturnValues(P, f)
      PROVE  Eval(v) \subseteq Data /\ Eval(v) \subseteq Exposed(P, entered')
  <2>1. PICK r \in P.code : r.op = "ret" /\ r.fn = f /\ v = r.a
    BY DEF ReturnValues
  <2>2. CASE v = NoValue
    BY <2>2 DEF Eval
  <2>3. CASE v # NoValue
    <3>1. v \in Operands(r) /\ v \in Escaping(P, r)
      BY <2>1, <2>3 DEF Operands, Escaping
    <3>. QED
      BY <1>1, <1>5, <2>1, <3>1, EvalCarried, ExposedFacts, ReturnsEscape
  <2>. QED
    BY <2>2, <2>3
<1>9. LeakGrow
  BY <1>2, <1>4, <1>5, <1>8 DEF LeakGrow
<1>. QED
  BY <1>1, <1>3, <1>7, <1>9, Grow, Unchanged

(* A written program is a module still, and nothing has run.               *)
LEMMA WriteInv ==
  ASSUME IInv, Write
  PROVE  IInv'
<1>1. PICK i \in Pool : WellFormed(i) /\ P' = [P EXCEPT !.code = @ \cup {i}]
  BY DEF Write
<1>2. ~built /\ UNCHANGED <<built, edges, entered, holds, mem, leaked>>
  BY DEF Write
<1>3. i \in Instructions /\ Shaped(i)
  BY EntryAssumption
<1>4. IsModule(P) /\ Fresh
  BY <1>2 DEF IInv
<1>5. IsModule(P')
  <2>1. P'.aliasee = P.aliasee /\ P'.init = P.init
    BY <1>1
  <2>2. P'.code = P.code \cup {i}
    BY <1>1, <1>4 DEF IsModule
  <2>. QED
    BY <1>1, <1>3, <1>4, <2>1, <2>2 DEF IsModule, WellFormed
<1>6. P'.init = P.init
  BY <1>1
<1>. QED
  BY <1>2, <1>4, <1>5, <1>6 DEF IInv, Fresh

(* Before the program runs its cells hold the initializers.                *)
LEMMA AnalyzeInv ==
  ASSUME IInv, CoveredOnly, Analyze
  PROVE  IInv'
<1>1. /\ ~built /\ Covered /\ built' = TRUE
      /\ edges' = CallEdges(P) /\ entered' = {Entry}
      /\ P' = P /\ holds' = holds /\ mem' = mem /\ leaked' = leaked
  BY DEF Analyze
<1>2. IsModule(P) /\ Fresh
  BY <1>1 DEF IInv
<1>3. Data' = Data /\ Covered' = Covered /\ Entry \in Defined
  BY <1>1, EntryAssumption
     DEF Data, Addresses, Cells, Written, Covered, StoresAreNamed,
         WrittenGlobalsArePrivate, AliasesAreDirect, NamesOf
<1>4. NoUnderReporting'
  <2>1. (Entry \in Reached)'
    <3>1. IsModule(P)' /\ (edges = CallEdges(P))'
      BY <1>1, <1>2
    <3>. QED
      BY <3>1, ReachedClosed, PTL
  <2>. QED
    BY <1>1, <2>1 DEF NoUnderReporting
<1>5. \A v \in Params \cup Registers : holds[v] = {}
  BY <1>2 DEF Fresh
<1>6. ASSUME NEW h \in Globals, P.init[h] # NoValue
      PROVE  P.init[h] \in Data /\ P.init[h] \in Content(P, h)
  <2>1. P.init[h] \in Addresses /\ P.init[h] \notin Written
    BY <1>1, <1>2, <1>6 DEF IsModule, Addresses, Cells, Covered, WrittenGlobalsArePrivate, Written
  <2>2. P.init[h] \in Defined => P.init[h] \in AddressTaken(P)
    BY <1>2 DEF AddressTaken, IsModule
  <2>3. P.init[h] \in EscapeSuccessors(P, h)
    BY <1>2, <1>6, Successors
  <2>4. h \in ValuesOf(P)
    BY IRAssumption DEF ValuesOf, Values
  <2>. QED
    BY <1>2, <2>1, <2>2, <2>3, <2>4, CarryFacts DEF Data, Content
<1>7. \A k \in Globals \cup Registers : mem[k] \subseteq Data /\ mem[k] \subseteq Content(P, k)
  BY <1>2, <1>6, IRAssumption DEF Fresh
<1>8. DataInv'
  BY <1>1, <1>2, <1>3, <1>5, <1>7 DEF DataInv, Fresh
<1>9. FlowInv'
  <2>1. \A i \in P.code : i.reg # NoValue => i.reg \in Registers
    BY <1>2, DefOf
  <2>2. leaked = {}
    BY <1>2 DEF Fresh
  <2>. QED
    BY <1>1, <1>5, <1>7, <2>1, <2>2 DEF FlowInv
<1>. QED
  BY <1>1, <1>2, <1>3, <1>4, <1>8, <1>9 DEF IInv, RunInv

LEMMA InitInv ==
  Init => IInv
BY EntryAssumption DEF Init, IInv, Fresh

(* Nothing runs before the program has been analyzed.                      *)
LEMMA StepInv ==
  ASSUME IInv, CoveredOnly, [Next]_vars
  PROVE  IInv'
<1>1. CASE Write
  BY <1>1, WriteInv
<1>2. CASE Analyze
  BY <1>2, AnalyzeInv
<1>3. CASE UNCHANGED vars
  <2>1. CASE ~built
    BY <1>3, <2>1 DEF vars, IInv, Fresh
  <2>2. CASE built
    BY <1>3, <2>2, Grow, Unchanged DEF vars, analysis, IInv
  <2>. QED
    BY <2>1, <2>2
<1>4. ASSUME Move \/ Load \/ Store \/ Copy \/ Call \/ Return \/ CallOut \/ Peek \/ Poke \/ CallBack
      PROVE  IInv'
  <2>1. built
    BY <1>4 DEF IInv, Fresh, Move, Load, Store, Copy, Call, Return, CallOut, Peek, Poke, CallBack, Running
  <2>. QED
    BY <1>4, <2>1, MoveInv, LoadInv, StoreInv, CopyInv, CallInv, ReturnInv, CallOutInv,
       PeekInv, PokeInv, CallBackInv
<1>. QED
  BY <1>1, <1>2, <1>3, <1>4 DEF Next

LEMMA Invariance ==
  ASSUME CoveredOnly
  PROVE  Spec => []IInv
<1>1. IInv /\ [Next]_vars => IInv'
  BY StepInv
<1>. QED
  BY <1>1, InitInv, PTL DEF Spec

-----------------------------------------------------------------------------
(***************************************************************************)
(* What the analysis promises of a covered program.                        *)
(***************************************************************************)

(* No function that the run or external code enters is missing from what   *)
(* the search finds from the entry on the edges of the builders.           *)
THEOREM NothingEnteredIsUnreached ==
  ASSUME CoveredOnly
  PROVE  Spec => []NoUnderReporting
<1>1. IInv => NoUnderReporting
  BY DEF IInv, Fresh, RunInv, NoUnderReporting
<1>. QED
  BY <1>1, Invariance, PTL

(* The program stays a module and the run within its addresses, and a      *)
(* defined function external code has learnt of is the target of an        *)
(* indirect edge of a function that was entered.                           *)
THEOREM LeaksAreEdges ==
  ASSUME CoveredOnly
  PROVE  Spec => []Inv
<1>1. IInv => Inv
  <2>1. SUFFICES ASSUME IInv
                 PROVE  Inv
    OBVIOUS
  <2>2. IsModule(P)
    BY <2>1 DEF IInv
  <2>3. CASE ~built
    <3>1. Fresh
      BY <2>1, <2>3 DEF IInv
    <3>2. \A g \in Globals : P.init[g] # NoValue => P.init[g] \in Addresses
      BY <2>2 DEF IsModule, Addresses, Cells
    <3>3. /\ edges = {} /\ entered = {} /\ leaked = {}
          /\ holds \in [Params \cup Registers -> SUBSET Addresses]
      BY <3>1 DEF Fresh
    <3>4. mem \in [Globals \cup Registers -> SUBSET Addresses]
      BY <3>1, <3>2 DEF Fresh
    <3>5. built \in BOOLEAN
      BY <2>1 DEF IInv
    <3>6. TypeOK
      BY <2>2, <3>3, <3>4, <3>5 DEF TypeOK
    <3>. QED
      BY <3>3, <3>6 DEF Inv, EscapesAreEdges
  <2>4. CASE built
    <3>1. RunInv
      BY <2>1, <2>4 DEF IInv
    <3>2. edges \subseteq [from : Defined, to : Functions, kind : {"Direct", "Indirect"}]
      BY <2>2, <3>1, EdgeType DEF RunInv
    <3>3. TypeOK
      BY <2>2, <2>4, <3>1, <3>2 DEF TypeOK, RunInv, DataInv, Data
    <3>4. EscapesAreEdges
      BY <2>2, <3>1, ExposedEdge DEF EscapesAreEdges, RunInv, FlowInv, Functions
    <3>. QED
      BY <3>3, <3>4 DEF Inv
  <2>. QED
    BY <2>1, <2>3, <2>4 DEF IInv
<1>. QED
  BY <1>1, Invariance, PTL

(* Without memcpy and inline assembly, every site that escapes in a        *)
(* function that was entered is a root of the address flow.                *)
LEMMA ExposedIsRooted ==
  ASSUME IsModule(P), RunInv, Running("copy") \cup Running("asm") = {}
  PROVE  /\ \A v \in FlowRoots(P) : Carry(P, v) \cap Functions \subseteq AddressFlowTargets(P)
         /\ Exposed(P, entered) \cap Functions \subseteq AddressFlowTargets(P)
<1>. DEFINE flow == Flow(P)  D == ValuesOf(P)  roots == FlowRoots(P)
            Of(i) == IF CallsAnalyzableCallee(P, i) THEN {} ELSE Arguments(i)
<1>1. flow \in [D -> SUBSET D] /\ IsFiniteSet(D)
  BY FlowType
<1>2. \A v : v \in roots <=>
        \/ \E i \in P.code : i.op = "call" /\ IsIndirect(P, i) /\ v = i.a
        \/ \E i \in P.code : i.op = "call" /\ v \in Of(i)
        \/ \E i \in P.code : i.op = "ret" /\ i.a # NoValue /\ v = i.a
  <2>1. DEFINE A == {i.a : i \in {c \in {i \in P.code : i.op = "call"} : IsIndirect(P, c)}}
               B == UNION {Arguments(i) : i \in {c \in {i \in P.code : i.op = "call"} :
                                                 ~CallsAnalyzableCallee(P, c)}}
               C == {i.a : i \in {r \in P.code : r.op = "ret" /\ r.a # NoValue}}
  <2>2. roots = A \cup B \cup C
    BY Zenon DEF FlowRoots
  <2>3. \A v : v \in A <=> \E i \in P.code : i.op = "call" /\ IsIndirect(P, i) /\ v = i.a
    OBVIOUS
  <2>4. \A v : v \in B <=> \E i \in P.code : i.op = "call" /\ v \in Of(i)
    OBVIOUS
  <2>5. \A v : v \in C <=> \E i \in P.code : i.op = "ret" /\ i.a # NoValue /\ v = i.a
    OBVIOUS
  <2>. HIDE DEF Of, roots, A, B, C
  <2>. QED BY <2>2, <2>3, <2>4, <2>5
<1>3. roots \subseteq D
  <2>1. \A i \in P.code : Of(i) \subseteq Operands(i)
    BY DEF Arguments, Operands
  <2>2. \A i \in P.code : i.op \in {"call", "ret"} /\ i.a # NoValue => i.a \in Operands(i)
    BY DEF Operands
  <2>3. \A i \in P.code : i.op = "call" => i.a # NoValue
    BY DEF IsModule, Shaped
  <2>. HIDE DEF Of, roots
  <2>. QED BY <1>2, <2>1, <2>2, <2>3, OperandType
<1>4. \A v \in roots : Carry(P, v) \subseteq Closure(flow, roots)
  <2>1. Closure(flow, roots) = Least(flow, roots)
    BY <1>1, <1>3, ClosureIsLeast
  <2>2. FlowClosed(flow, Least(flow, roots)) /\ roots \subseteq Least(flow, roots)
        /\ Least(flow, roots) \in SUBSET D
    BY <1>1, <1>3, LeastIsClosed
  <2>3. \A v \in roots : Least(flow, {v}) \subseteq Least(flow, roots)
    BY <1>1, <1>3, <2>2, LeastIsClosed
  <2>. QED
    BY <2>1, <2>3 DEF Carry
<1>5. \A v \in roots : Carry(P, v) \cap Functions \subseteq AddressFlowTargets(P)
  BY <1>4 DEF AddressFlowTargets
<1>6. ASSUME NEW s \in EscapeSites(P), s[1] \in entered
      PROVE  s[2] \in roots
  <2>1. PICK i \in P.code : s = <<i.fn, s[2]>> /\ s[2] \in Escaping(P, i)
    BY Sites
  <2>2. i.op \notin {"copy", "asm"}
    BY <1>6, <2>1 DEF Running
  <2>. QED
    BY <1>2, <2>1, <2>2 DEF Escaping, CallBases
<1>. QED
  BY <1>5, <1>6 DEF Exposed

(* What is called through a value or by external code in a program without *)
(* memcpy and inline assembly, has value-flow evidence.                    *)
THEOREM CalledHasEvidence ==
  ASSUME CoveredOnly
  PROVE  Spec => []EvidenceUnlessMoved
<1>1. IInv => EvidenceUnlessMoved
  <2>1. SUFFICES ASSUME IInv, Running("copy") \cup Running("asm") = {}
                 PROVE  CalledHasFlowEvidence
    BY DEF EvidenceUnlessMoved
  <2>2. IsModule(P)
    BY <2>1 DEF IInv
  <2>3. CASE ~built
    BY <2>1, <2>3 DEF IInv, Fresh, CalledHasFlowEvidence, Running
  <2>4. CASE built
    <3>1. RunInv
      BY <2>1, <2>4 DEF IInv
    <3>2. leaked \cap Defined \subseteq AddressFlowTargets(P)
      BY <2>1, <2>2, <3>1, ExposedIsRooted DEF RunInv, FlowInv, Functions
    <3>3. ASSUME NEW i \in Running("call"), IsIndirect(P, i), NEW f \in Callees(i) \cap Defined
          PROVE  f \in AddressFlowTargets(P)
      <4>1. i \in P.code /\ i.op = "call"
        BY DEF Running
      <4>2. f \in Functions /\ f \in Carry(P, i.a) \cup Exposed(P, entered)
        BY <2>2, <3>1, <3>3, <4>1, CalleeCases
      <4>3. i.a \in FlowRoots(P)
        BY <3>3, <4>1 DEF FlowRoots
      <4>. QED
        BY <2>1, <2>2, <3>1, <4>2, <4>3, ExposedIsRooted
    <3>. QED
      BY <3>2, <3>3 DEF CalledHasFlowEvidence
  <2>. QED
    BY <2>1, <2>3, <2>4 DEF IInv
<1>. QED
  BY <1>1, Invariance, PTL

-----------------------------------------------------------------------------
(***************************************************************************)
(* Where the builders take the sinks of a value from: computeEscapeSets,   *)
(* run on the flow of a module from the values that may escape in it.  The *)
(* new variables are those of EscapeSets.                                  *)
(***************************************************************************)
CONSTANT Program    \* the module

VARIABLES flow, escaping, escapeTodo, index, low, comp, stack, sccOf, sinks

Escapes == INSTANCE EscapeSetsProofs
             WITH Values <- ValuesOf(Program), Flows <- {Flow(Program)},
                  RootSets <- {{s[2] : s \in EscapeSites(Program)}},
                  roots <- escaping, todo <- escapeTodo

(* A module is an input computeEscapeSets can be given.                    *)
LEMMA ModuleFlow ==
  ASSUME IsModule(Program)
  PROVE  /\ IsFiniteSet(ValuesOf(Program))
         /\ Functions \subseteq ValuesOf(Program)
         /\ {Flow(Program)} \subseteq [ValuesOf(Program) -> SUBSET ValuesOf(Program)]
         /\ \A rel \in {Flow(Program)} : \A f \in Functions : rel[f] = {}
         /\ {{s[2] : s \in EscapeSites(Program)}} \subseteq SUBSET ValuesOf(Program)
<1>1. Functions \subseteq ValuesOf(Program)
  BY IRAssumption DEF ValuesOf, Values
<1>2. \A f \in Functions : EscapeSuccessors(Program, f) = {}
  BY Successors, IRAssumption, <1>1
<1>3. \A f \in Functions : Flow(Program)[f] = {}
  BY <1>1, <1>2 DEF Flow
<1>4. \A s \in EscapeSites(Program) : s[2] \in ValuesOf(Program)
  BY Sites
<1>. QED
  BY <1>1, <1>3, <1>4, FlowType

(* buildEscapeEdges: from each site to the sinks that the two stacks have  *)
(* found for the component of its value.                                   *)
ComputedEdges ==
  UNION {{Edge(s[1], f, "Indirect") : f \in sinks[sccOf[s[2]]]} : s \in EscapeSites(Program)}

(* They are the escape edges of the module.                                *)
THEOREM EscapeEdgesAreComputed ==
  ASSUME IsModule(Program)
  PROVE  Escapes!Spec => [](Escapes!Done => ComputedEdges = EscapeEdges(Program))
<1>1. Escapes!Spec => [](flow = Flow(Program) /\ escaping = {s[2] : s \in EscapeSites(Program)})
  <2>. DEFINE Given == flow = Flow(Program) /\ escaping = {s[2] : s \in EscapeSites(Program)}
  <2>1. Escapes!Init => Given
    BY DEF Escapes!Init
  <2>2. Given /\ [Escapes!Next]_Escapes!vars => Given'
    BY DEF Escapes!Next, Escapes!TakeRoot, Escapes!SkipRoot, Escapes!Descend, Escapes!Look,
           Escapes!Close, Escapes!Ascend, Escapes!input, Escapes!vars
  <2>. QED
    BY <2>1, <2>2, PTL DEF Escapes!Spec
<1>2. Escapes!Spec => []Escapes!RootsSinks
  <2>1. Escapes!IsFiniteSet(ValuesOf(Program))
    BY ModuleFlow DEF IsFiniteSet, Escapes!IsFiniteSet
  <2>2. /\ Functions \subseteq ValuesOf(Program)
        /\ {Flow(Program)} \subseteq [ValuesOf(Program) -> SUBSET ValuesOf(Program)]
        /\ \A rel \in {Flow(Program)} : \A f \in Functions : rel[f] = {}
        /\ {{s[2] : s \in EscapeSites(Program)}} \subseteq SUBSET ValuesOf(Program)
    BY ModuleFlow
  <2>. QED
    BY <2>1, <2>2, Escapes!RootsHaveTheirSinks
<1>3. ASSUME flow = Flow(Program), escaping = {s[2] : s \in EscapeSites(Program)},
             Escapes!RootsSinks, Escapes!Done
      PROVE  ComputedEdges = EscapeEdges(Program)
  <2>1. ASSUME NEW s \in EscapeSites(Program)
        PROVE  Sinks(Flow(Program), s[2]) = sinks[sccOf[s[2]]]
    <3>1. s[2] \in ValuesOf(Program)
      BY Sites
    <3>2. Closure(Flow(Program), {s[2]}) = Least(Flow(Program), {s[2]})
      BY <3>1, FlowType, ClosureIsLeast
    <3>3. Least(Flow(Program), {s[2]}) = Escapes!Least(flow, {s[2]})
      BY <1>3 DEF Least, Escapes!Least, FlowClosed, Escapes!FlowClosed
    <3>4. sinks[sccOf[s[2]]] = {f \in Functions : f \in Escapes!Least(flow, {s[2]})}
      BY <1>3 DEF Escapes!RootsSinks
    <3>. QED
      BY <3>2, <3>3, <3>4 DEF Sinks
  <2>. QED
    BY <2>1 DEF EscapeEdges, ComputedEdges
<1>. QED
  BY <1>1, <1>2, <1>3, PTL

-----------------------------------------------------------------------------
(***************************************************************************)
(* The analyzer as main runs it: the roots are found for the requests, the *)
(* builders make the call graph, the search follows it from the roots, and *)
(* what it returns is compared with what the program enters.  The new      *)
(* constants and variables are those of Roots and of Reachability.         *)
(***************************************************************************)
CONSTANTS Path, HexLike, Hashes, Aliasee, Expansion, Requests, LookupNames

VARIABLES
  requested, calls, strings, local, lookup, pos, resolved, unresolved, roots, pc,
  named,      \* what Roots enters, by calls and by name
  graph,      \* the edges the search is given
  entries, next, missing, queue, pending, via, depth, returned

Main == INSTANCE ReachabilityProofs
          WITH Names <- Functions, EntryLists <- Seq(Functions),
               CallGraphs <- SUBSET [from : Defined, to : Functions,
                                     kind : {"Direct", "Indirect"}],
               Symbols <- Functions, Bodies <- Defined, Aliases <- DOMAIN Aliasee,
               CallRelations <- {G \in [Functions -> SUBSET Functions] :
                                   \A f \in Declared : G[f] = {}},
               edges <- graph, entered <- named

(* main hands the edges of the three builders and the roots to the search. *)
Handed ==
  /\ built => P = Program
  /\ built /\ returned =>
       /\ Escapes!Done
       /\ graph = DirectEdges(Program) \cup ComputedEdges \cup IndirectEdges(Program)
  /\ pc = "run" => entries = roots

(* The program is run from an entry that was asked for.                    *)
Requested ==
  \E i \in 1 .. Len(requested) :
    Entry \in Main!Meant(requested[i]) /\ ~Main!LooksHashed(Entry)

LEMMA FlowOfTheRun ==
  ASSUME IsModule(P), edges = CallEdges(P), NEW S \in SUBSET Functions, Entry \in S,
         \A e \in edges : e.from \in S => e.to \in S
  PROVE  Reached \subseteq S
<1>1. IsFiniteSet(Functions)
  BY IRAssumption, FS_Subset DEF Values
<1>2. Callgraph \in [Functions -> SUBSET Functions]
  BY EdgeType DEF Callgraph
<1>3. Entry \in Functions
  BY EntryAssumption DEF Functions
<1>4. Reached = Least(Callgraph, {Entry})
  BY <1>1, <1>2, <1>3, ClosureIsLeast DEF Reached
<1>5. FlowClosed(Callgraph, S)
  BY <1>2 DEF FlowClosed, Callgraph
<1>. QED
  BY <1>2, <1>3, <1>4, <1>5, LeastIsClosed

(* Of a covered program, run from a requested entry, everything that it or *)
(* external code enters is in what the search returns to main.             *)
THEOREM EnteredIsReported ==
  ASSUME CoveredOnly, IsModule(Program), Main!RootAssumption
  PROVE  Spec /\ Escapes!Spec /\ Main!RootsSpec /\ Main!Spec /\ []Handed /\ []Requested =>
           [](pc = "run" /\ returned => entered \subseteq Main!Reached)
<1>1. ASSUME IInv, Main!NoUnderReporting, Main!MeantAreRoots, Handed, Requested,
             Escapes!Done => ComputedEdges = EscapeEdges(Program), pc = "run", returned
      PROVE  entered \subseteq Main!Reached
  <2>1. CASE ~built
    BY <1>1, <2>1 DEF IInv, Fresh
  <2>2. CASE built
    <3>1. RunInv /\ IsModule(P) /\ graph = edges /\ entries = roots
      BY <1>1, <2>2 DEF IInv, RunInv, Handed, CallEdges
    <3>2. Main!Reached \in SUBSET Functions
      BY DEF Main!Reached
    <3>3. Main!Roots \subseteq Main!Reached
      BY <1>1 DEF Main!NoUnderReporting, Main!Closed
    <3>4. \A e \in edges : e.from \in Main!Reached => e.to \in Main!Reached
      BY <1>1, <3>1 DEF Main!NoUnderReporting, Main!Closed
    <3>5. Entry \in Main!ToSet(roots)
      BY <1>1 DEF Requested, Main!MeantAreRoots
    <3>6. Entry \in Main!Roots
      BY <3>1, <3>5, EntryAssumption DEF Main!Roots, Main!ToSet
    <3>7. Reached \subseteq Main!Reached
      BY <3>1, <3>2, <3>3, <3>4, <3>6, FlowOfTheRun DEF RunInv
    <3>. QED
      BY <3>1, <3>7 DEF RunInv, NoUnderReporting
  <2>. QED
    BY <2>1, <2>2, <1>1 DEF IInv
<1>2. Spec => []IInv
  BY Invariance
<1>3. Main!RootsSpec => []Main!MeantAreRoots
  BY Main!RequestsAreRoots DEF Functions, Main!EdgeKinds
<1>4. Main!Spec => []Main!NoUnderReporting
  BY Main!NeverUnderReports DEF Functions, Main!EdgeKinds
<1>. QED
  BY <1>1, <1>2, <1>3, <1>4, EscapeEdgesAreComputed, PTL

(* The two lists of the coverage filters are then written for the symbol   *)
(* names of the defined and of the reached functions.  The state of the    *)
(* driver, Pipeline, plays no part in it.                                  *)
CONSTANTS Letters, HashTails, SymbolName

VARIABLES defined, reached, names, todo, ignore, allow, phase

Lists == INSTANCE OutputProofs
           WITH Hashes <- HashTails,
                Names <- {SymbolName[f] : f \in Defined},
                Modules <- {{SymbolName[f] : f \in Defined}},
                MaxRuns <- 1, run <- 0, clean <- FALSE, dots <- {}, pc <- "idle",
                drops <- <<>>, writes <- <<>>, opened <- FALSE, file <- <<>>, kept <- {}

Listed == returned => reached = {SymbolName[f] : f \in Main!Reached \cap Defined}

(* Of a covered program, run from a requested entry, no pattern of the     *)
(* ignorelist matches a function that it or external code enters.          *)
THEOREM EnteredIsNotIgnored ==
  ASSUME CoveredOnly, IsModule(Program), Main!RootAssumption, Lists!NameAssumption
  PROVE  Spec /\ Escapes!Spec /\ Main!RootsSpec /\ Main!Spec /\ Lists!ListsSpec
           /\ []Handed /\ []Requested /\ []Listed =>
           [](pc = "run" /\ returned =>
                \A p \in ignore, f \in entered : ~Lists!Glob(p, SymbolName[f]))
<1>1. ASSUME IInv, Lists!ListsInv, Listed, pc = "run", returned, entered \subseteq Main!Reached
      PROVE  \A p \in ignore, f \in entered : ~Lists!Glob(p, SymbolName[f])
  <2>1. entered \subseteq Defined
    BY <1>1 DEF IInv, Fresh, RunInv
  <2>2. \A f \in entered : SymbolName[f] \in reached
    BY <1>1, <2>1 DEF Listed
  <2>3. \A p \in ignore, name \in reached : ~Lists!Glob(p, name)
    BY <1>1 DEF Lists!ListsInv, Lists!IgnoreHitsNoReached
  <2>. QED
    BY <2>2, <2>3
<1>2. Spec => []IInv
  BY Invariance
<1>3. Lists!ListsSpec => []Lists!ListsInv
  BY Lists!NoReachedIsIgnored, 1 \in Nat \ {0}
<1>. QED
  BY <1>1, <1>2, <1>3, EnteredIsReported, PTL
=============================================================================
