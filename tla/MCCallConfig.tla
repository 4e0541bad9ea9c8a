---------------------------- MODULE MCCallConfig ----------------------------
(* Small instances of CallConfig: threads are interchangeable. *)
EXTENDS CallConfig, TLC

Symmetric == Permutations(Threads)
=============================================================================
