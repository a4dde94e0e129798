---------------------------- MODULE MC_Soundness ----------------------------
(***************************************************************************)
(* Soundness on the programs of at most four instructions from a pool.     *)
(*                                                                         *)
(* main owns the cells s and q and may store, load, copy and pass on the   *)
(* function t, directly or through its alias ta, the global g, a register  *)
(* or the wrapper w; w has the parameter p and may pass on, call, load     *)
(* through or return it; ext is external.                                  *)
(***************************************************************************)
EXTENDS Soundness, TLC

CONSTANTS main, w, t, ext, memcpy, ta, taa, g, p, s, q, r, c, x, l, M, F

MCDefined   == {main, w, t}
MCDeclared  == {ext, memcpy}
MCAliases   == {ta, taa}
MCGlobals   == {g}
MCParams    == {p}
MCRegisters == {s, q, r, c, x, l}
MCTypes     == {M, F}
MCOwnerOf   == (p :> w)
MCTypeOf    == [f \in MCDefined \cup MCDeclared |-> IF f \in {w, t} THEN F ELSE M]

Instr(fn, op, reg, a, b, type) ==
  [fn |-> fn, op |-> op, reg |-> reg, a |-> a, b |-> b, type |-> type]

None == NoValue

Call1(fn, reg, callee, arg) ==
  Instr(fn, "call", reg, callee, arg, IF callee \in {main, ext} THEN M ELSE F)

Cell(reg)        == Instr(main, "alloca", reg, None, None, None)
StoreIn(fn, v, to) == Instr(fn, "store", None, v, to, None)

(* What main can do.                                                       *)
MainPool ==
  {StoreIn(main, v, to) : v \in {t, s}, to \in {s, q, g, x}}
  \cup {Instr(main, "load", r, a, None, None) : a \in {s, q, g, x}}
  \cup {Instr(main, "field", x, s, None, None)}
  \cup {Instr(main, "select", x, a, b, None) : a \in {t, q}, b \in {s}}
  \cup {Instr(main, "copy", None, q, b, None) : b \in {s, g}}
  \cup {Instr(main, "asm", None, None, s, None)}
  \cup {Instr(main, "ret", None, v, None, None) : v \in {t, r}}
  \cup {Call1(main, None, ext, v) : v \in {ta, q, g, r, c, x}}
  \cup {Call1(main, c, ext, s)}
  \cup {Call1(main, c, w, v) : v \in {t, ta, s, g}}
  \cup {Call1(main, None, f, None) : f \in {ta, r, c, x}}

(* What w can do.                                                          *)
WrapperPool ==
  {Instr(w, "load", l, p, None, None), StoreIn(w, p, g)}
  \cup {Call1(w, None, ext, v) : v \in {p, l}}
  \cup {Call1(w, None, f, None) : f \in {p, l, t}}
  \cup {Instr(w, "ret", None, v, None, None) : v \in {p, l, t}}

MCPool == MainPool \cup WrapperPool

(* For what the analysis does not cover: a global is written at run time   *)
(* and passed on.                                                          *)
MCWrittenGlobalPool == {StoreIn(main, t, g), Call1(main, None, ext, g)}

Program(target, init, any) ==
  [code |-> {Cell(s), Cell(q)}, aliasee |-> (ta :> target) @@ (taa :> None),
   init |-> (g :> init), indirectAny |-> any]

MCSkeletons ==
  {Program(None, None, FALSE), Program(t, t, FALSE), Program(g, g, FALSE),
   Program(None, None, TRUE)}
=============================================================================
