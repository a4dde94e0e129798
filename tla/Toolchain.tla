----------------------------- MODULE Toolchain -----------------------------
(***************************************************************************)
(* toolchain.py: which tools a run uses on a machine, and whether it goes  *)
(* on with them.                                                           *)
(*                                                                         *)
(* A version is a pair: the major, and the rest as one number.  What runs  *)
(* under a name is known by its version; no such tool is <<0, 0>>, one     *)
(* that does not run, so that asking for its version raises, is <<0, 1>>.  *)
(* A machine says                                                          *)
(*   analyzer, rustc  the LLVM they were built with,                       *)
(*   at               each tool as the environment variable, the name with *)
(*                    the major and the plain name find it,                *)
(*   beside           the file `clang` in the directory of each clang: the *)
(*                    compiler gclang runs.                                *)
(***************************************************************************)
EXTENDS Naturals

CONSTANT MIN_LLVM_MAJOR

ASSUME MajorAssumption == MIN_LLVM_MAJOR \in Nat \ {0}

Version == Nat \X Nat
Major(v) == v[1]
NoTool == <<0, 0>>

AtLeast(v, w) == Major(v) > Major(w) \/ (Major(v) = Major(w) /\ v[2] >= w[2])

Tools  == {"clang", "clang++", "llvm-link", "opt"}
Places == {"env", "versioned", "plain"}

Machine == [analyzer : Version, rustc : Version,
            at : [Tools -> [Places -> Version]], beside : [Places -> Version]]

(* find_tool: the variable, then the versioned name, then the plain one.   *)
Place(m, tool) ==
  IF m.at[tool]["env"] # NoTool THEN "env"
  ELSE IF m.at[tool]["versioned"] # NoTool THEN "versioned"
  ELSE "plain"

Found(m, tool) == m.at[tool][Place(m, tool)]

(* check_coherence, up to rustc: the first tool missing or of another      *)
(* major than the analyzer ends the run.                                   *)
CoherentButLinker(m) ==                             \* variant: one tool forgotten
  /\ Major(m.analyzer) >= MIN_LLVM_MAJOR
  /\ \A tool \in Tools \ {"llvm-link"} : Major(Found(m, tool)) = Major(m.analyzer)
Coherent(m) ==
  /\ Major(m.analyzer) >= MIN_LLVM_MAJOR
  /\ \A tool \in Tools : Major(Found(m, tool)) = Major(m.analyzer)

(* check_coherence with require_rust: check-toolchain asks no more.        *)
CoherentForRust(m) ==
  Coherent(m) /\ m.rustc # NoTool /\ Major(m.rustc) <= Major(m.analyzer)

(* rust_bitcode_readable: the older of llvm-link and opt is at least rustc.*)
RustBitcodeReadable(m) ==
  LET link == Found(m, "llvm-link") opt == Found(m, "opt")
  IN AtLeast(IF AtLeast(link, opt) THEN opt ELSE link, m.rustc)

(* What a run asks, by its kind of target.                                 *)
Accepts(m, rustTarget) ==
  IF rustTarget THEN CoherentForRust(m) /\ RustBitcodeReadable(m) ELSE Coherent(m)

-----------------------------------------------------------------------------
(* External: LLVM reads bitcode of its own and of older versions.          *)
Reads(reader, producer) == AtLeast(reader, producer)

(* External: gclang runs the file `clang` in the directory _build_env      *)
(* passes it, whichever clang was checked.                                 *)
Compiler(m) == m.beside[Place(m, "clang")]

(* A major is installed once: two tools of it are of one version.          *)
OneRelease(m) ==
  LET all == {m.analyzer, Compiler(m)} \cup {Found(m, tool) : tool \in Tools}
  IN \A v, w \in all : Major(v) = Major(w) => v = w
CheckedIsRun(m) == Compiler(m) = Found(m, "clang")
=============================================================================
