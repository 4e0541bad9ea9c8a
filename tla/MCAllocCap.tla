----------------------------- MODULE MCAllocCap -----------------------------
(* Small instances of AllocCap: pointers and threads are interchangeable. *)
EXTENDS AllocCap, TLC

Symmetric == Permutations(Threads) \cup Permutations(Ptrs)
=============================================================================
