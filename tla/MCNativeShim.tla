---------------------------- MODULE MCNativeShim ----------------------------
(* Small instances of NativeShim: a preferred candidate that lacks one symbol,
   and a later one that exports everything. *)
EXTENDS NativeShim

CONSTANTS k1, k2

Exports2 == << Syms \ {"hipModuleGetGlobal"}, Syms >>
Limits == [k \in Kinds |-> IF k = "var" THEN 1 ELSE 2]
=============================================================================
