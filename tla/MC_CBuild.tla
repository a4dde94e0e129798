----------------------------- MODULE MC_CBuild -----------------------------
(***************************************************************************)
(* CBuild with a program of two units, a library of one of them and a tool *)
(* built straight from the other's source.                                 *)
(***************************************************************************)
EXTENDS CBuild, TLC

CONSTANTS m, u, prog, lib, tool

MCUnits    == {m, u}
MCProducts == {prog, lib, tool}
MCParts    == prog :> {m, u} @@ lib :> {u} @@ tool :> {m}
MCDirect   == {tool}
MCChanges  == {{}, {m}}

MCProjects == {[files |-> {"autogen.sh", "configure.ac"}, sharing |-> TRUE, option |-> TRUE],
               [files |-> {"Makefile"}, sharing |-> TRUE, option |-> FALSE]}

(* All tools of one version.                                               *)
Uniform(v) ==
  [analyzer |-> v, rustc |-> NoTool, beside |-> [k \in Places |-> v],
   at |-> [t \in Tools |-> [k \in Places |-> IF k = "env" THEN NoTool ELSE v]]]

With(mac, tool_, place, v) == [mac EXCEPT !.at[tool_][place] = v]

(* All of one version; a newer plain clang beside the checked one; an older *)
(* llvm-link named by the environment.                                     *)
MCMachines ==
  LET old == Uniform(<<21, 1>>)
  IN {old,
      [With(old, "clang", "plain", <<22, 1>>) EXCEPT !.beside["versioned"] = <<22, 1>>],
      With(Uniform(<<22, 1>>), "llvm-link", "env", <<21, 1>>)}
=============================================================================
