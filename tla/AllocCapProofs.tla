--------------------------- MODULE AllocCapProofs ---------------------------
(***************************************************************************)
(* For any number of threads, addresses and table slots: the races on the  *)
(* unlocked statics of alloc_cap.c never take an index outside allocs.     *)
(* While calls do not overlap, the table is an exact ledger: its sizes add *)
(* up to total_bytes, so the test against the cap is a test of what is     *)
(* live.  Sums over sets of slots and of addresses are reasoned about by   *)
(* induction over the subsets of a finite set (SubsetInduction).           *)
(***************************************************************************)
EXTENDS AllocCap, FiniteSetTheorems, TLAPS

(* From hipMalloc's success to its return, the call holds the new address:
   what makes `owned` and `missed` sets of addresses. *)
HoldsPointer ==
  \A t \in Threads :
    pc[t] \in {"record", "append", "addcount", "addload", "addstore"} => req[t].ptr \in Ptrs

IInv == TypeOK /\ NoTableOverrun /\ HoldsPointer

LEMMA WordArithmetic ==
  ASSUME NEW a \in Int
  PROVE  a % WordSize \in 0 .. WordSize - 1
BY AllocAssumption

LEMMA InitInv == Init => IInv
<1> SUFFICES ASSUME Init PROVE IInv
  OBVIOUS
<1>1. NoEntry \in Entry /\ 0 \in 0 .. WordSize - 1 /\ 1 \in 1 .. MaxTracked
  BY AllocAssumption DEF Entry, NoEntry
<1>2. TypeOK
  <2>1. pc \in [Threads -> PCs] /\ req \in [Threads -> Entry] /\ reg \in [Threads -> 0 .. WordSize - 1]
    BY <1>1 DEF Init, PCs
  <2>2. allocs \in [1 .. MaxTracked -> Entry] /\ live \in [Ptrs -> 0 .. WordSize - 1]
    BY <1>1 DEF Init
  <2>3. slot \in [Threads -> 1 .. MaxTracked] /\ alloc_count \in 0 .. MaxTracked
    BY <1>1, AllocAssumption DEF Init
  <2>4. owned \subseteq Ptrs /\ missed \subseteq Ptrs
    BY DEF Init
  <2>5. vram_cap_read \in BOOLEAN /\ raced \in BOOLEAN /\ vram_cap_bytes \in {0, EnvCap}
    BY DEF Init
  <2>6. total_bytes \in 0 .. WordSize - 1
    BY <1>1 DEF Init
  <2> QED
    BY <2>1, <2>2, <2>3, <2>4, <2>5, <2>6 DEF TypeOK
<1> QED
  BY <1>2, AllocAssumption DEF Init, IInv, NoTableOverrun, HoldsPointer

(* A returning call leaves only well-formed defaults in its locals. *)
LEMMA FinishTypes ==
  ASSUME IInv, NEW t \in Threads, Finish(t)
  PROVE  /\ pc' \in [Threads -> PCs]
         /\ req' \in [Threads -> Entry]
         /\ reg' \in [Threads -> 0 .. WordSize - 1]
         /\ slot' \in [Threads -> 1 .. MaxTracked]
         /\ \A u \in Threads : pc'[u] # "idle" =>
              pc'[u] = pc[u] /\ req'[u] = req[u] /\ slot'[u] = slot[u] /\ reg'[u] = reg[u]
BY AllocAssumption DEF IInv, TypeOK, Finish, Goto, PCs, Entry, NoEntry

LEMMA StepInv == IInv /\ [Next]_vars => IInv'
<1> SUFFICES ASSUME IInv, [Next]_vars PROVE IInv'
  OBVIOUS
<1> USE AllocAssumption DEF IInv, TypeOK, NoTableOverrun, HoldsPointer, PCs, capVars, tableVars, heapVars, ghosts
<1>1. CASE UNCHANGED vars
  BY <1>1 DEF vars
<1>2. ASSUME NEW t \in Threads, MallocBegin(t) PROVE IInv'
  BY <1>2 DEF MallocBegin, Start, Goto, Entry
<1>3. ASSUME NEW t \in Threads, SetCap(t) PROVE IInv'
  BY <1>3 DEF SetCap, Goto
<1>4. ASSUME NEW t \in Threads, RejectOverCap(t) PROVE IInv'
  BY <1>4, FinishTypes DEF RejectOverCap
<1>5. ASSUME NEW t \in Threads, PassCap(t) PROVE IInv'
  BY <1>5 DEF PassCap, Goto
<1>6. ASSUME NEW t \in Threads, HipMallocNothing(t) PROVE IInv'
  BY <1>6, FinishTypes DEF HipMallocNothing
<1>7. ASSUME NEW t \in Threads, HipMalloc(t) PROVE IInv'
  <2>1. PICK p \in Ptrs : /\ live' = [live EXCEPT ![p] = req[t].size]
                          /\ req' = [req EXCEPT ![t] = [ptr |-> p, size |-> req[t].size]]
    BY <1>7 DEF HipMalloc
  <2>2. req[t].size \in 0 .. WordSize - 1
    BY DEF Entry
  <2>3. live' \in [Ptrs -> 0 .. WordSize - 1]
    BY <2>1, <2>2
  <2>4. req' \in [Threads -> Entry] /\ req'[t].ptr \in Ptrs /\ \A u \in Threads \ {t} : req'[u] = req[u]
    BY <2>1, <2>2 DEF Entry
  <2> QED
    BY <1>7, <2>3, <2>4 DEF HipMalloc, Goto
<1>8. ASSUME NEW t \in Threads, RecordRefused(t) PROVE IInv'
  BY <1>8, FinishTypes DEF RecordRefused
<1>9. ASSUME NEW t \in Threads, RecordLoad(t) PROVE IInv'
  BY <1>9 DEF RecordLoad, RecordFull, Goto
<1>10. ASSUME NEW t \in Threads, RecordAppend(t) PROVE IInv'
  BY <1>10 DEF RecordAppend, Goto, SetReg
<1>11. ASSUME NEW t \in Threads, TotalAdd(t) PROVE IInv'
  <2>1. reg[t] + req[t].size \in Int
    BY DEF Entry
  <2>2. total_bytes' \in 0 .. WordSize - 1
    BY <1>11, <2>1, WordArithmetic DEF TotalAdd
  <2> QED
    BY <1>11, <2>2, FinishTypes DEF TotalAdd
<1>12. ASSUME NEW t \in Threads, HipFree(t) PROVE IInv'
  <2>1. PICK p \in Ptrs :
          /\ Start(t, "find", p, 0)
          /\ live' = [live EXCEPT ![p] = 0]
          /\ owned' = owned \ {p}
          /\ missed' = missed \ {p}
          /\ UNCHANGED <<capVars, tableVars, total_bytes, reg, slot>>
    BY <1>12 DEF HipFree
  <2>2. raced' \in BOOLEAN
    BY <2>1 DEF Start
  <2>3. req' \in [Threads -> Entry] /\ live' \in [Ptrs -> 0 .. WordSize - 1]
    BY <2>1 DEF Start, Entry
  <2>4. owned' \subseteq Ptrs /\ missed' \subseteq Ptrs
    BY <2>1
  <2>5. pc' = [pc EXCEPT ![t] = "find"] /\ \A u \in Threads \ {t} : req'[u] = req[u]
    BY <2>1 DEF Start, Goto
  <2> QED
    BY <2>1, <2>2, <2>3, <2>4, <2>5
<1>13. ASSUME NEW t \in Threads, ReleaseUntracked(t) PROVE IInv'
  BY <1>13, FinishTypes DEF ReleaseUntracked
<1>14. ASSUME NEW t \in Threads, ReleaseFind(t) PROVE IInv'
  <2>1. PICK i \in 1 .. alloc_count :
          /\ slot' = [slot EXCEPT ![t] = i]
          /\ req' = [req EXCEPT ![t] = allocs[i]]
    BY <1>14 DEF ReleaseFind, Matches
  <2>2. alloc_count \in 1 .. MaxTracked
    BY <2>1
  <2> QED
    BY <1>14, <2>1, <2>2 DEF ReleaseFind, Goto, SetReg
<1>15. ASSUME NEW t \in Threads, ReleaseRemove(t) PROVE IInv'
  BY <1>15 DEF ReleaseRemove, Goto, SetReg
<1>16. ASSUME NEW t \in Threads, TotalSubtract(t) PROVE IInv'
  <2>1. reg[t] - req[t].size \in Int
    BY DEF Entry
  <2>2. total_bytes' \in 0 .. WordSize - 1
    BY <1>16, <2>1, WordArithmetic DEF TotalSubtract
  <2> QED
    BY <1>16, <2>2, FinishTypes DEF TotalSubtract
<1>17. ASSUME NEW t \in Threads, StoreCount(t) PROVE IInv'
  BY <1>17 DEF StoreCount, Goto
<1>18. ASSUME NEW t \in Threads, TotalLoad(t) PROVE IInv'
  BY <1>18 DEF TotalLoad, Goto, SetReg
<1>19. ASSUME NEW t \in Threads, SetCapFlag(t) PROVE IInv'
  BY <1>19 DEF SetCapFlag, Goto
<1> QED
  BY <1>1, <1>2, <1>3, <1>4, <1>5, <1>6, <1>7, <1>8, <1>9, <1>10, <1>11, <1>12,
     <1>13, <1>14, <1>15, <1>16, <1>17, <1>18, <1>19 DEF Next, Malloc, Free

(* Every variable keeps its type whatever the threads do to the statics. *)
THEOREM TypeCorrect == Spec => []TypeOK
<1>1. IInv => TypeOK
  BY DEF IInv
<1> QED
  BY InitInv, StepInv, <1>1, PTL DEF Spec

(* alloc_cap_record and alloc_cap_release stay inside allocs for any number
   of racing threads and any table size. *)
THEOREM TableNeverOverrun == Spec => []NoTableOverrun
<1>1. IInv => NoTableOverrun
  BY DEF IInv
<1> QED
  BY InitInv, StepInv, <1>1, PTL DEF Spec
-----------------------------------------------------------------------------
(* Induction over the subsets of a finite set, for a set of them rather than a
   predicate on them. *)
LEMMA SubsetInduction ==
  ASSUME NEW S, IsFiniteSet(S), NEW P \in SUBSET SUBSET S,
         \A T \in SUBSET S : (\A U \in SUBSET T : U # T => U \in P) => T \in P
  PROVE  P = SUBSET S
<1>1. SUFFICES ASSUME P # SUBSET S PROVE FALSE
  OBVIOUS
<1> DEFINE Others == (SUBSET S) \ P
           R == StrictSubsetOrdering(S)
           All == SUBSET S
<1>2. Others # {} /\ Others \subseteq All
  BY <1>1
<1>3. IsWellFoundedOn(R, All)
  BY FS_StrictSubsetOrderingWellFounded, FS_FiniteSubsetsOfFinite
<1> HIDE DEF Others, R, All
<1>4. PICK T \in Others : \A U \in Others : <<U, T>> \notin R
  BY <1>2, <1>3, WFMin
<1> USE DEF Others, R
<1>5. ASSUME NEW U \in SUBSET T, U # T PROVE U \in P
  <2>1. <<U, T>> \in StrictSubsetOrdering(S)
    BY <1>5 DEF StrictSubsetOrdering
  <2> QED
    BY <2>1, <1>4
<1> QED
  BY <1>4, <1>5

Sum(f, S) == MapThenSumSet(LAMBDA x : f[x], S)
Pick(s) == CHOOSE x \in s : TRUE
Adds(g, f, S) == g = [s \in SUBSET S |-> IF s = {} THEN 0 ELSE f[Pick(s)] + g[s \ {Pick(s)}]]

LEMMA SumUnfolded ==
  ASSUME NEW f, NEW S
  PROVE  Sum(f, S) = (CHOOSE g : Adds(g, f, S))[S]
BY DEF Sum, MapThenSumSet, MapThenFoldSet, Pick, Adds

LEMMA PickMember == ASSUME NEW s, s # {} PROVE Pick(s) \in s
BY DEF Pick

LEMMA AddsStep ==
  ASSUME NEW f, NEW S, NEW g, Adds(g, f, S)
  PROVE  \A s \in SUBSET S : g[s] = IF s = {} THEN 0 ELSE f[Pick(s)] + g[s \ {Pick(s)}]
BY DEF Adds

LEMMA AddsAgree ==
  ASSUME NEW f, NEW f2, NEW S, NEW T, NEW g, NEW h, Adds(g, f, S), Adds(h, f2, T),
         IsFiniteSet(S), S \subseteq T, \A x \in S : f[x] = f2[x]
  PROVE  \A s \in SUBSET S : g[s] = h[s]
<1> DEFINE P == {s \in SUBSET S : g[s] = h[s]}
<1>a. \A s \in SUBSET S : g[s] = IF s = {} THEN 0 ELSE f[Pick(s)] + g[s \ {Pick(s)}]
  BY DEF Adds
<1>b. \A s \in SUBSET T : h[s] = IF s = {} THEN 0 ELSE f2[Pick(s)] + h[s \ {Pick(s)}]
  BY DEF Adds
<1>1. ASSUME NEW s \in SUBSET S, \A U \in SUBSET s : U # s => U \in P PROVE s \in P
  <2>1. CASE s = {}
    BY <2>1, <1>a, <1>b
  <2>2. CASE s # {}
    <3>1. Pick(s) \in s
      BY <2>2, PickMember
    <3>2. g[s \ {Pick(s)}] = h[s \ {Pick(s)}]
      BY <1>1, <3>1
    <3>3. g[s] = f[Pick(s)] + g[s \ {Pick(s)}]
      BY <2>2, <1>a
    <3>4. h[s] = f2[Pick(s)] + h[s \ {Pick(s)}]
      BY <2>2, <1>b
    <3> QED
      BY <3>1, <3>2, <3>3, <3>4
  <2> QED
    BY <2>1, <2>2
<1> HIDE DEF P
<1>2. P \in SUBSET SUBSET S
  BY DEF P
<1>3. P = SUBSET S
  BY <1>1, <1>2, SubsetInduction
<1> QED
  BY <1>3 DEF P

LEMMA AddsExists ==
  ASSUME NEW f, NEW S, IsFiniteSet(S)
  PROVE  \A T \in SUBSET S : \E g : Adds(g, f, T)
<1> DEFINE P == {T \in SUBSET S : \E g : Adds(g, f, T)}
<1>1. ASSUME NEW T \in SUBSET S, \A U \in SUBSET T : U # T => U \in P PROVE T \in P
  <2> DEFINE G(u) == CHOOSE g : Adds(g, f, u)
             V(u) == G(u)[u]
             W(s) == IF s = {} THEN 0 ELSE f[Pick(s)] + V(s \ {Pick(s)})
             h == [s \in SUBSET T |-> W(s)]
  <2>1. ASSUME NEW u \in SUBSET T, u # T PROVE Adds(G(u), f, u)
    BY <1>1, <2>1
  <2>2. ASSUME NEW u \in SUBSET T, u # T PROVE V(u) = W(u)
    <3>0. Adds(G(u), f, u)
      BY <2>1, <2>2
    <3>1. CASE u = {}
      <4>1. G(u)[u] = 0
        BY <3>0, <3>1, AddsStep
      <4> QED
        BY <4>1, <3>1
    <3>2. CASE u # {}
      <4> DEFINE v == u \ {Pick(u)}
      <4>1. Pick(u) \in u
        BY <3>2, PickMember
      <4>2. Adds(G(v), f, v)
        BY <2>1, <4>1
      <4>3. IsFiniteSet(v)
        BY FS_Subset
      <4> HIDE DEF G
      <4>4. G(v)[v] = G(u)[v]
        BY <3>0, <4>2, <4>3, AddsAgree
      <4>5. G(u)[u] = f[Pick(u)] + G(u)[v]
        BY <3>0, <3>2, AddsStep
      <4> QED
        BY <4>4, <4>5, <3>2
    <3> QED
      BY <3>1, <3>2
  <2>3. ASSUME NEW s \in SUBSET T PROVE W(s) = IF s = {} THEN 0 ELSE f[Pick(s)] + h[s \ {Pick(s)}]
    <3>1. CASE s = {}
      BY <3>1
    <3>2. CASE s # {}
      <4>1. Pick(s) \in s
        BY <3>2, PickMember
      <4>2. s \ {Pick(s)} \in SUBSET T /\ s \ {Pick(s)} # T
        BY <4>1
      <4>3. V(s \ {Pick(s)}) = W(s \ {Pick(s)})
        BY <4>2, <2>2
      <4> HIDE DEF V, G
      <4>4. h[s \ {Pick(s)}] = W(s \ {Pick(s)})
        BY <4>2
      <4> HIDE DEF h
      <4> QED
        BY <4>3, <4>4, <3>2
    <3> QED
      BY <3>1, <3>2
  <2> HIDE DEF W
  <2>4. Adds(h, f, T)
    <3>1. h = [s \in SUBSET T |-> IF s = {} THEN 0 ELSE f[Pick(s)] + h[s \ {Pick(s)}]]
      BY <2>3
    <3> HIDE DEF h
    <3> QED
      BY <3>1 DEF Adds
  <2> HIDE DEF h
  <2> QED
    BY <2>4
<1> HIDE DEF P
<1>2. P \in SUBSET SUBSET S
  BY DEF P
<1>3. P = SUBSET S
  BY <1>1, <1>2, SubsetInduction
<1> QED
  BY <1>3 DEF P

LEMMA SumAgree ==
  ASSUME NEW f, NEW S, IsFiniteSet(S), NEW h, NEW T, S \subseteq T, Adds(h, f, T)
  PROVE  Sum(f, S) = h[S]
<1>1. \E g : Adds(g, f, S)
  BY AddsExists
<1>2. Adds(CHOOSE g : Adds(g, f, S), f, S)
  BY <1>1
<1> DEFINE G == CHOOSE g : Adds(g, f, S)
<1>3. Sum(f, S) = G[S] /\ Adds(G, f, S)
  BY <1>2, SumUnfolded
<1> HIDE DEF G
<1> QED
  BY <1>3, AddsAgree

(* The sum over a set of functions that agree on it is the same. *)
LEMMA SumSame ==
  ASSUME NEW f, NEW g, NEW S, IsFiniteSet(S), \A x \in S : f[x] = g[x]
  PROVE  Sum(f, S) = Sum(g, S)
<1>1. PICK a : Adds(a, f, S)
  BY AddsExists
<1>2. PICK b : Adds(b, g, S)
  BY AddsExists
<1>3. a[S] = b[S]
  BY <1>1, <1>2, AddsAgree
<1>4. Sum(f, S) = a[S]
  BY <1>1, SumAgree
<1>5. Sum(g, S) = b[S]
  BY <1>2, SumAgree
<1> QED
  BY <1>3, <1>4, <1>5

LEMMA SumEmpty == ASSUME NEW f PROVE Sum(f, {}) = 0
<1>1. PICK g : Adds(g, f, {})
  BY AddsExists, FS_EmptySet
<1>2. Sum(f, {}) = g[{}]
  BY <1>1, SumAgree, FS_EmptySet
<1> QED
  BY <1>1, <1>2, AddsStep

LEMMA SumPicks ==
  ASSUME NEW f, NEW S, IsFiniteSet(S), S # {}
  PROVE  Sum(f, S) = f[Pick(S)] + Sum(f, S \ {Pick(S)})
<1>1. PICK g : Adds(g, f, S)
  BY AddsExists
<1>2. Sum(f, S) = g[S]
  BY <1>1, SumAgree
<1>3. IsFiniteSet(S \ {Pick(S)})
  BY FS_Subset
<1>4. Sum(f, S \ {Pick(S)}) = g[S \ {Pick(S)}]
  BY <1>1, <1>3, SumAgree
<1> QED
  BY <1>1, <1>2, <1>4, AddsStep

LEMMA SumNat ==
  ASSUME NEW f, NEW S, IsFiniteSet(S), \A x \in S : f[x] \in Nat
  PROVE  Sum(f, S) \in Nat
<1> DEFINE P == {s \in SUBSET S : Sum(f, s) \in Nat}
<1>1. ASSUME NEW s \in SUBSET S, \A U \in SUBSET s : U # s => U \in P PROVE s \in P
  <2>1. CASE s = {}
    BY <2>1, SumEmpty
  <2>2. CASE s # {}
    <3>1. Pick(s) \in s
      BY <2>2, PickMember
    <3>2. Sum(f, s \ {Pick(s)}) \in Nat
      BY <1>1, <3>1
    <3>3. Sum(f, s) = f[Pick(s)] + Sum(f, s \ {Pick(s)})
      BY <2>2, SumPicks, FS_Subset
    <3>4. f[Pick(s)] \in Nat
      BY <3>1
    <3> QED
      BY <3>2, <3>3, <3>4
  <2> QED
    BY <2>1, <2>2
<1> HIDE DEF P
<1>2. P \in SUBSET SUBSET S
  BY DEF P
<1>3. P = SUBSET S
  BY <1>1, <1>2, SubsetInduction
<1> QED
  BY <1>3 DEF P

(* The order in which the elements are added does not matter. *)
LEMMA SumWithout ==
  ASSUME NEW f, NEW S, IsFiniteSet(S), \A x \in S : f[x] \in Nat, NEW x \in S
  PROVE  Sum(f, S) = Sum(f, S \ {x}) + f[x]
<1> DEFINE P == {s \in SUBSET S : \A y \in s : Sum(f, s) = Sum(f, s \ {y}) + f[y]}
<1>1. ASSUME NEW s \in SUBSET S, \A U \in SUBSET s : U # s => U \in P PROVE s \in P
  <2>1. SUFFICES ASSUME NEW y \in s PROVE Sum(f, s) = Sum(f, s \ {y}) + f[y]
    OBVIOUS
  <2>2. PICK z \in s : z = Pick(s)
    BY PickMember
  <2>3. IsFiniteSet(s) /\ f[z] \in Nat /\ f[y] \in Nat
    BY FS_Subset
  <2>4. Sum(f, s) = f[z] + Sum(f, s \ {z})
    BY <2>2, <2>3, SumPicks
  <2>5. IsFiniteSet(s \ {z}) /\ IsFiniteSet(s \ {y}) /\ IsFiniteSet((s \ {z}) \ {y})
    BY FS_Subset
  <2>6. Sum(f, s \ {z}) \in Nat /\ Sum(f, s \ {y}) \in Nat /\ Sum(f, (s \ {z}) \ {y}) \in Nat
    BY <2>5, SumNat
  <2>7. CASE y = z
    BY <2>3, <2>4, <2>6, <2>7
  <2>8. CASE y # z
    <3>1. Sum(f, s \ {z}) = Sum(f, (s \ {z}) \ {y}) + f[y]
      BY <1>1, <2>8
    <3>2. Sum(f, s \ {y}) = Sum(f, (s \ {y}) \ {z}) + f[z]
      BY <1>1, <2>8
    <3>3. (s \ {y}) \ {z} = (s \ {z}) \ {y}
      OBVIOUS
    <3>4. Sum(f, s \ {y}) = Sum(f, (s \ {z}) \ {y}) + f[z]
      BY <3>2, <3>3
    <3> QED
      BY <2>3, <2>4, <2>6, <3>1, <3>4
  <2> QED
    BY <2>7, <2>8
<1> HIDE DEF P
<1>2. P \in SUBSET SUBSET S
  BY DEF P
<1>3. P = SUBSET S
  BY <1>1, <1>2, SubsetInduction
<1> QED
  BY <1>3 DEF P

LEMMA SumZeros ==
  ASSUME NEW f, NEW S, IsFiniteSet(S), \A x \in S : f[x] = 0
  PROVE  Sum(f, S) = 0
<1> DEFINE P == {s \in SUBSET S : Sum(f, s) = 0}
<1>1. ASSUME NEW s \in SUBSET S, \A U \in SUBSET s : U # s => U \in P PROVE s \in P
  <2>1. CASE s = {}
    BY <2>1, SumEmpty
  <2>2. CASE s # {}
    <3>1. Pick(s) \in s
      BY <2>2, PickMember
    <3>2. Sum(f, s \ {Pick(s)}) = 0
      BY <1>1, <3>1
    <3>3. Sum(f, s) = f[Pick(s)] + Sum(f, s \ {Pick(s)})
      BY <2>2, SumPicks, FS_Subset
    <3>4. f[Pick(s)] = 0
      BY <3>1
    <3> QED
      BY <3>2, <3>3, <3>4
  <2> QED
    BY <2>1, <2>2
<1> HIDE DEF P
<1>2. P \in SUBSET SUBSET S
  BY DEF P
<1>3. P = SUBSET S
  BY <1>1, <1>2, SubsetInduction
<1> QED
  BY <1>3 DEF P

(* A larger set of naturals has the larger sum. *)
LEMMA SumMonotone ==
  ASSUME NEW f, NEW S, IsFiniteSet(S), \A x \in S : f[x] \in Nat, NEW T \in SUBSET S
  PROVE  Sum(f, T) <= Sum(f, S)
<1> DEFINE P == {s \in SUBSET S : \A U \in SUBSET s : Sum(f, U) <= Sum(f, s)}
<1>1. ASSUME NEW s \in SUBSET S, \A V \in SUBSET s : V # s => V \in P PROVE s \in P
  <2>1. SUFFICES ASSUME NEW U \in SUBSET s PROVE Sum(f, U) <= Sum(f, s)
    OBVIOUS
  <2>2. IsFiniteSet(s) /\ Sum(f, s) \in Nat /\ Sum(f, U) \in Nat
    BY FS_Subset, SumNat
  <2>3. CASE U = s
    BY <2>2, <2>3
  <2>4. CASE U # s
    <3>1. PICK x \in s : x \notin U
      BY <2>4
    <3>2. Sum(f, U) <= Sum(f, s \ {x})
      BY <1>1, <3>1
    <3>3. Sum(f, s) = Sum(f, s \ {x}) + f[x] /\ f[x] \in Nat
      BY <2>2, <3>1, SumWithout
    <3>4. Sum(f, s \ {x}) \in Nat
      BY FS_Subset, SumNat
    <3> QED
      BY <2>2, <3>2, <3>3, <3>4
  <2> QED
    BY <2>3, <2>4
<1> HIDE DEF P
<1>2. P \in SUBSET SUBSET S
  BY DEF P
<1>3. P = SUBSET S
  BY <1>1, <1>2, SubsetInduction
<1>4. S \in P
  BY <1>3
<1> QED
  BY <1>4 DEF P
-----------------------------------------------------------------------------
(***************************************************************************)
(* The ledger while calls do not overlap.                                  *)
(***************************************************************************)
(* The sizes in a table, as a function. *)
SizesOf(table) == [i \in 1 .. MaxTracked |-> table[i].size]
Charged(n) == Sum(SizesOf(allocs), 1 .. n)
Recorded == Sum(live, Ptrs \ missed)

Early == {"idle", "capflag", "capset", "check", "alloc"}
Recording == {"record", "append", "addcount", "addload", "addstore"}

(* The entries at indices I are exact, and cover what is live but for the
   addresses P: no two for one address, none for a freed or a refused one. *)
Ledger(I, P) ==
  /\ \A i \in I : /\ allocs[i].ptr \in (Ptrs \ missed) \ P
                  /\ allocs[i].size = live[allocs[i].ptr]
                  /\ live[allocs[i].ptr] > 0
  /\ \A i, j \in I : allocs[i].ptr = allocs[j].ptr => i = j
  /\ \A p \in (Ptrs \ missed) \ P : live[p] > 0 => \E i \in I : allocs[i].ptr = p

Balanced == /\ Ledger(1 .. alloc_count, {})
            /\ total_bytes = Charged(alloc_count)
            /\ total_bytes = Recorded

(* An allocation that succeeded and is not charged yet. *)
Uncharged(t) ==
  /\ req[t].ptr \in Ptrs \ missed
  /\ req[t].size = live[req[t].ptr]
  /\ req[t].size > 0
  /\ Recorded = total_bytes + req[t].size

(* A freed pointer whose entry is still at index i, and still charged. *)
Releasing(t, i) ==
  /\ i \in 1 .. alloc_count
  /\ allocs[i].ptr = req[t].ptr
  /\ Ledger((1 .. alloc_count) \ {i}, {req[t].ptr})
  /\ live[req[t].ptr] = 0
  /\ total_bytes = Charged(alloc_count)
  /\ total_bytes = Recorded + allocs[i].size

LateRelease(t, n) ==
  /\ Ledger(1 .. n, {})
  /\ total_bytes = Charged(n) + req[t].size
  /\ total_bytes = Recorded + req[t].size

(* What the one call under way has done of its part of the ledger. *)
Phase(t) ==
  /\ pc[t] \in {"record", "append", "addcount"} =>
       /\ Uncharged(t)
       /\ Ledger(1 .. alloc_count, {req[t].ptr})
       /\ total_bytes = Charged(alloc_count)
  /\ pc[t] \in {"append", "addcount"} => slot[t] = alloc_count + 1
  /\ pc[t] = "addcount" => allocs[slot[t]] = req[t] /\ reg[t] = slot[t]
  /\ pc[t] \in {"addload", "addstore"} =>
       /\ Uncharged(t)
       /\ Ledger(1 .. alloc_count, {})
       /\ Charged(alloc_count) = total_bytes + req[t].size
  /\ pc[t] \in {"addstore", "substore"} => reg[t] = total_bytes
  /\ pc[t] = "find" =>
       \/ Balanced /\ Matches(t) = {}
       \/ \E i \in 1 .. alloc_count : Releasing(t, i)
  /\ pc[t] = "remove" => reg[t] = alloc_count /\ req[t] = allocs[slot[t]] /\ Releasing(t, slot[t])
  /\ pc[t] = "subcount" => reg[t] \in 0 .. MaxTracked /\ reg[t] = alloc_count - 1 /\ LateRelease(t, reg[t])
  /\ pc[t] \in {"subload", "substore"} => LateRelease(t, alloc_count)

OneAtATime == \A t, u \in Threads : pc[t] # "idle" /\ pc[u] # "idle" => t = u

(* Callers own live memory, and what the full table refused is theirs. *)
OwnedIsLive ==
  /\ missed \subseteq owned
  /\ \A p \in owned : live[p] > 0
  /\ \A t \in Threads : pc[t] \in Recording => req[t].ptr \notin owned

FitsDevice == LiveBytes <= DeviceBytes

SerialLedger ==
  ~raced =>
    /\ OneAtATime
    /\ OwnedIsLive
    /\ (\A t \in Threads : pc[t] \in Early) => Balanced
    /\ \A t \in Threads : Phase(t)

(* The cap a call compares with has been read, and what passed it fits. *)
CapRead ==
  ~raced =>
    /\ vram_cap_read => vram_cap_bytes = EnvCap \/ \E t \in Threads : pc[t] = "capset"
    /\ \A t \in Threads : pc[t] = "check" => vram_cap_bytes = EnvCap
    /\ \A t \in Threads : pc[t] = "alloc" /\ EnvCap # 0 => (total_bytes + req[t].size) % WordSize <= EnvCap

-----------------------------------------------------------------------------
(***************************************************************************)
(* The sums of the ledger under the changes the calls make.                *)
(***************************************************************************)
LEMMA LiveSum ==
  ASSUME NEW f \in [Ptrs -> Nat], NEW S \in SUBSET Ptrs, NEW p \in Ptrs
  PROVE  /\ Sum(f, S) \in Nat /\ Sum(f, S \ {p}) \in Nat
         /\ Sum(f, S) <= Sum(f, Ptrs)
         /\ p \in S => Sum(f, S) = Sum(f, S \ {p}) + f[p]
<1>1. IsFiniteSet(S) /\ IsFiniteSet(S \ {p}) /\ IsFiniteSet(Ptrs)
  BY AddressesAssumption, FS_Subset
<1>2. Sum(f, S) \in Nat /\ Sum(f, S \ {p}) \in Nat
  BY <1>1, SumNat
<1>3. Sum(f, S) <= Sum(f, Ptrs)
  BY <1>1, SumMonotone
<1>4. p \in S => Sum(f, S) = Sum(f, S \ {p}) + f[p]
  BY <1>1, SumWithout
<1> QED
  BY <1>2, <1>3, <1>4

LEMMA LiveUpdate ==
  ASSUME NEW f \in [Ptrs -> Nat], NEW g \in [Ptrs -> Nat], NEW p \in Ptrs,
         \A q \in Ptrs \ {p} : g[q] = f[q],
         NEW S \in SUBSET Ptrs
  PROVE  /\ p \in S => Sum(g, S) = Sum(f, S \ {p}) + g[p]
         /\ p \notin S => Sum(g, S) = Sum(f, S)
<1>1. IsFiniteSet(S) /\ IsFiniteSet(S \ {p})
  BY AddressesAssumption, FS_Subset
<1>2. p \in S => Sum(g, S) = Sum(f, S \ {p}) + g[p]
  <2>1. p \in S => Sum(g, S) = Sum(g, S \ {p}) + g[p]
    BY <1>1, SumWithout
  <2>2. Sum(g, S \ {p}) = Sum(f, S \ {p})
    BY <1>1, SumSame
  <2> QED
    BY <2>1, <2>2
<1>3. p \notin S => Sum(g, S) = Sum(f, S)
  BY <1>1, SumSame
<1> QED
  BY <1>2, <1>3

LEMMA SmallWord == ASSUME NEW a \in 0 .. WordSize - 1 PROVE a % WordSize = a
BY AllocAssumption

Table == [1 .. MaxTracked -> Entry]

LEMMA TableTypes ==
  ASSUME NEW table \in Table, NEW n \in 0 .. MaxTracked
  PROVE  /\ IsFiniteSet(1 .. n)
         /\ \A i \in 1 .. n : SizesOf(table)[i] = table[i].size /\ table[i].size \in Nat
         /\ Sum(SizesOf(table), 1 .. n) \in Nat
<1>1. IsFiniteSet(1 .. n)
  BY AllocAssumption, FS_Interval
<1>2. \A i \in 1 .. n : SizesOf(table)[i] = table[i].size /\ table[i].size \in Nat
  BY AllocAssumption DEF SizesOf, Table, Entry
<1> QED
  BY <1>1, <1>2, SumNat

LEMMA TableLast ==
  ASSUME NEW table \in Table, NEW n \in 1 .. MaxTracked
  PROVE  Sum(SizesOf(table), 1 .. n) = Sum(SizesOf(table), 1 .. n - 1) + table[n].size
<1> DEFINE f == SizesOf(table)
<1>1. (1 .. n) \ {n} = 1 .. n - 1 /\ n \in 1 .. n /\ n \in 0 .. MaxTracked
  BY AllocAssumption
<1>2. IsFiniteSet(1 .. n) /\ \A i \in 1 .. n : f[i] = table[i].size /\ f[i] \in Nat
  BY <1>1, TableTypes
<1> HIDE DEF f
<1>3. Sum(f, 1 .. n) = Sum(f, (1 .. n) \ {n}) + f[n]
  BY <1>1, <1>2, SumWithout
<1> QED
  BY <1>1, <1>2, <1>3 DEF f

LEMMA TableAppend ==
  ASSUME NEW table \in Table, NEW n \in 0 .. MaxTracked - 1, NEW e \in Entry
  PROVE  Sum(SizesOf([table EXCEPT ![n + 1] = e]), 1 .. n) = Sum(SizesOf(table), 1 .. n)
<1> DEFINE new == [table EXCEPT ![n + 1] = e]
<1>0. \A i \in 1 .. n : i \in 1 .. MaxTracked /\ i # n + 1
  BY AllocAssumption
<1>3. \A i \in 1 .. n : new[i] = table[i]
  BY <1>0 DEF Table
<1> HIDE DEF new
<1>1. \A i \in 1 .. n : SizesOf(new)[i] = SizesOf(table)[i]
  BY <1>0, <1>3 DEF SizesOf
<1>2. IsFiniteSet(1 .. n)
  BY AllocAssumption, FS_Interval
<1>4. Sum(SizesOf(new), 1 .. n) = Sum(SizesOf(table), 1 .. n)
  BY <1>1, <1>2, SumSame
<1> QED
  BY <1>4 DEF new

(* The release of entry i: the last entry in its place, and one entry less. *)
LEMMA TableRemove ==
  ASSUME NEW table \in Table, NEW n \in 1 .. MaxTracked, NEW i \in 1 .. n
  PROVE  Sum(SizesOf(table), 1 .. n)
           = Sum(SizesOf([table EXCEPT ![i] = table[n]]), 1 .. n - 1) + table[i].size
<1> DEFINE new == [table EXCEPT ![i] = table[n]]
           f == SizesOf(table)
           g == SizesOf(new)
<1>1. new \in Table /\ n \in 0 .. MaxTracked /\ n - 1 \in 0 .. MaxTracked
  BY AllocAssumption DEF Table
<1>2. /\ \A j \in 1 .. n : f[j] = table[j].size /\ f[j] \in Nat
      /\ \A j \in 1 .. n - 1 : g[j] = new[j].size /\ g[j] \in Nat
  <2> HIDE DEF new
  <2> QED
    BY <1>1, TableTypes
<1>3. Sum(f, 1 .. n) = Sum(f, 1 .. n - 1) + f[n]
  <2>1. n \in 1 .. n
    BY <1>1
  <2> QED
    BY <1>2, <2>1, TableLast
<1>4. IsFiniteSet(1 .. n - 1) /\ IsFiniteSet((1 .. n - 1) \ {i})
  <2>1. IsFiniteSet(1 .. n - 1)
    BY <1>1, TableTypes
  <2> QED
    BY <2>1, FS_Subset
<1>0. new[i] = table[n] /\ \A j \in 1 .. n : j # i => new[j] = table[j]
  <2>1. 1 .. n \subseteq 1 .. MaxTracked
    BY AllocAssumption
  <2> QED
    BY <2>1 DEF Table
<1> HIDE DEF f, g, new
<1>5. CASE i = n
  <2>1. \A j \in 1 .. n - 1 : f[j] = g[j]
    BY <1>0, <1>2, <1>5
  <2>2. Sum(f, 1 .. n - 1) = Sum(g, 1 .. n - 1)
    BY <1>4, <2>1, SumSame
  <2> QED
    BY <1>2, <1>3, <1>5, <2>2 DEF f, g, new
<1>6. CASE i # n
  <2>0. i \in 1 .. n - 1 /\ n \in 1 .. n
    BY <1>6
  <2>1. \A j \in (1 .. n - 1) \ {i} : f[j] = g[j]
    BY <1>0, <1>2
  <2>2. Sum(f, (1 .. n - 1) \ {i}) = Sum(g, (1 .. n - 1) \ {i})
    BY <1>4, <2>1, SumSame
  <2>3. Sum(f, 1 .. n - 1) = Sum(f, (1 .. n - 1) \ {i}) + f[i]
    <3>1. \A j \in 1 .. n - 1 : f[j] \in Nat
      BY <1>2
    <3> QED
      BY <1>4, <2>0, <3>1, SumWithout
  <2>4. Sum(g, 1 .. n - 1) = Sum(g, (1 .. n - 1) \ {i}) + g[i]
    BY <1>2, <1>4, <2>0, SumWithout
  <2>5. Sum(f, (1 .. n - 1) \ {i}) \in Nat
    BY <1>2, <1>4, SumNat
  <2>6. f[i] = table[i].size /\ g[i] = f[n] /\ f[i] \in Nat /\ f[n] \in Nat
    BY <1>0, <1>2, <2>0
  <2>7. Sum(f, 1 .. n) = Sum(g, 1 .. n - 1) + f[i]
    BY <1>3, <2>2, <2>3, <2>4, <2>5, <2>6
  <2> QED
    BY <2>6, <2>7 DEF f, g, new
<1> QED
  BY <1>5, <1>6

-----------------------------------------------------------------------------
(***************************************************************************)
(* Each step of the one call under way takes the ledger to the next phase. *)
(***************************************************************************)
Alone(t) == \A u \in Threads \ {t} : pc[u] = "idle"

SerialState(t) ==
  /\ OwnedIsLive
  /\ pc[t] \in Early => Balanced
  /\ Phase(t)

LEMMA SerialToState ==
  ASSUME IInv, SerialLedger, ~raced, NEW t \in Threads, Alone(t)
  PROVE  SerialState(t)
BY DEF SerialLedger, Alone, SerialState, Early

LEMMA StateToSerial ==
  ASSUME IInv', NEW t \in Threads, Alone(t)', SerialState(t)'
  PROVE  SerialLedger'
<1>1. OneAtATime'
  BY DEF OneAtATime, Alone
<1>2. \A u \in Threads : Phase(u)'
  <2>1. ASSUME NEW u \in Threads, u # t PROVE Phase(u)'
    <3>1. pc'[u] = "idle"
      BY <2>1 DEF Alone
    <3> QED
      BY <3>1 DEF Phase
  <2> QED
    BY <2>1 DEF SerialState
<1>3. (\A u \in Threads : pc[u] \in Early)' => Balanced'
  BY DEF SerialState
<1> QED
  BY <1>1, <1>2, <1>3 DEF SerialLedger, SerialState

LEMMA Types ==
  ASSUME IInv
  PROVE  /\ MaxTracked \in Nat \ {0} /\ WordSize \in Nat /\ DeviceBytes \in Nat
         /\ allocs \in Table /\ alloc_count \in 0 .. MaxTracked
         /\ live \in [Ptrs -> Nat] /\ total_bytes \in 0 .. WordSize - 1
         /\ Ptrs \ missed \in SUBSET Ptrs
         /\ \A t \in Threads : req[t] \in Entry /\ req[t].size \in Nat
                               /\ slot[t] \in 1 .. MaxTracked /\ reg[t] \in Nat
         /\ Recorded \in Nat /\ Charged(alloc_count) \in Nat
<1>1. /\ MaxTracked \in Nat \ {0} /\ WordSize \in Nat /\ DeviceBytes \in Nat
      /\ allocs \in Table /\ alloc_count \in 0 .. MaxTracked
      /\ live \in [Ptrs -> Nat] /\ total_bytes \in 0 .. WordSize - 1
      /\ Ptrs \ missed \in SUBSET Ptrs
      /\ \A t \in Threads : req[t] \in Entry /\ req[t].size \in Nat
                            /\ slot[t] \in 1 .. MaxTracked /\ reg[t] \in Nat
  BY AllocAssumption DEF IInv, TypeOK, Table, Entry
<1>2. Charged(alloc_count) \in Nat
  BY <1>1, TableTypes DEF Charged
<1>3. Recorded \in Nat
  <2>1. IsFiniteSet(Ptrs \ missed) /\ \A p \in Ptrs \ missed : live[p] \in Nat
    BY <1>1, AddressesAssumption, FS_Subset
  <2> QED
    BY <2>1, SumNat DEF Recorded
<1> QED
  BY <1>1, <1>2, <1>3

(* Steps before hipMalloc touch nothing the ledger is about. *)
LEMMA EarlyStep ==
  ASSUME IInv, NEW t \in Threads, SerialState(t), pc[t] \in Early, pc'[t] \in Early,
         UNCHANGED <<allocs, alloc_count, total_bytes, live, owned, missed>>,
         \A u \in Threads \ {t} : pc'[u] = "idle"
  PROVE  SerialState(t)'
<1>1. Balanced'
  BY DEF SerialState, Balanced, Ledger, Charged, Recorded
<1>2. OwnedIsLive'
  BY DEF SerialState, OwnedIsLive, Early, Recording
<1>3. Phase(t)'
  BY DEF Phase, Early
<1> QED
  BY <1>1, <1>2, <1>3 DEF SerialState

LEMMA HipMallocKeeps ==
  ASSUME IInv, NEW t \in Threads, Alone(t), SerialState(t), HipMalloc(t)
  PROVE  SerialState(t)'
<1> DEFINE s == req[t].size
<1>0. PICK p \in Ptrs :
        /\ live[p] = 0
        /\ live' = [live EXCEPT ![p] = s]
        /\ req' = [req EXCEPT ![t] = [ptr |-> p, size |-> s]]
  BY DEF HipMalloc
<1>1. /\ pc[t] = "alloc" /\ s > 0 /\ pc' = [pc EXCEPT ![t] = "record"]
      /\ UNCHANGED <<allocs, alloc_count, total_bytes, owned, missed>>
  BY DEF HipMalloc, Goto, tableVars, ghosts
<1>2. pc'[t] = "record" /\ \A u \in Threads \ {t} : pc'[u] = "idle"
  BY <1>1 DEF Alone, IInv, TypeOK
<1>3. req'[t].ptr = p /\ req'[t].size = s
  BY <1>0 DEF IInv, TypeOK
<1>4. Balanced /\ OwnedIsLive
  BY <1>1 DEF SerialState, Early
<1>5. s \in Nat /\ live \in [Ptrs -> Nat] /\ Recorded \in Nat /\ Ptrs \ missed \in SUBSET Ptrs
  BY Types
<1>6. p \notin owned /\ p \in Ptrs \ missed
  BY <1>0, <1>4 DEF OwnedIsLive
<1>7. live'[p] = s /\ \A q \in Ptrs \ {p} : live'[q] = live[q]
  BY <1>0, <1>5
<1>8. OwnedIsLive'
  <2>1. \A q \in owned : live'[q] > 0
    BY <1>4, <1>6, <1>7 DEF OwnedIsLive, IInv, TypeOK
  <2> QED
    BY <1>1, <1>2, <1>3, <1>4, <1>6, <2>1 DEF OwnedIsLive, Recording
<1>9. Recorded' = Recorded + s
  <2> HIDE DEF s
  <2>1. Sum(live, Ptrs \ missed) = Sum(live, (Ptrs \ missed) \ {p}) + live[p]
    BY <1>5, <1>6, LiveSum
  <2>2. Sum(live', Ptrs \ missed) = Sum(live, (Ptrs \ missed) \ {p}) + s
    <3>1. live' \in [Ptrs -> Nat]
      BY <1>0, <1>5
    <3> QED
      BY <1>5, <1>6, <1>7, <3>1, LiveUpdate
  <2>3. Sum(live, (Ptrs \ missed) \ {p}) \in Nat
    BY <1>5, <1>6, LiveSum
  <2> QED
    BY <1>0, <1>1, <1>5, <2>1, <2>2, <2>3 DEF Recorded
<1>10. Ledger(1 .. alloc_count, {p})'
  BY <1>0, <1>1, <1>4, <1>7 DEF Balanced, Ledger
<1>11. Uncharged(t)'
  BY <1>1, <1>3, <1>4, <1>6, <1>7, <1>9 DEF Uncharged, Balanced
<1>12. Charged(alloc_count)' = Charged(alloc_count)
  BY <1>1 DEF Charged
<1>13. Phase(t)'
  BY <1>1, <1>2, <1>3, <1>4, <1>10, <1>11, <1>12 DEF Phase, Balanced
<1> QED
  BY <1>2, <1>8, <1>13 DEF SerialState, Early

LEMMA RecordRefusedKeeps ==
  ASSUME IInv, NEW t \in Threads, Alone(t), SerialState(t), RecordRefused(t)
  PROVE  SerialState(t)'
<1> DEFINE p == req[t].ptr
           S == Ptrs \ missed
<1>1. /\ pc[t] = "record" /\ missed' = missed \cup {p} /\ owned' = owned \cup {p}
      /\ UNCHANGED <<allocs, alloc_count, total_bytes, live>>
  BY DEF RecordRefused, tableVars
<1>2. pc'[t] = "idle" /\ \A u \in Threads \ {t} : pc'[u] = "idle"
  BY DEF RecordRefused, Finish, Goto, Alone, IInv, TypeOK
<1>3. /\ Uncharged(t) /\ Ledger(1 .. alloc_count, {p})
      /\ total_bytes = Charged(alloc_count) /\ OwnedIsLive
  BY <1>1 DEF SerialState, Phase
<1>4. live \in [Ptrs -> Nat] /\ S \in SUBSET Ptrs /\ p \in S /\ total_bytes \in Nat /\ live[p] \in Nat
  BY <1>3, Types DEF Uncharged
<1>5. OwnedIsLive'
  BY <1>1, <1>2, <1>3 DEF OwnedIsLive, Uncharged, Recording
<1>6. Recorded' = total_bytes
  <2>1. Sum(live, S) = Sum(live, S \ {p}) + live[p] /\ Sum(live, S \ {p}) \in Nat
    BY <1>4, LiveSum
  <2>2. Ptrs \ missed' = S \ {p}
    BY <1>1
  <2> HIDE DEF S
  <2>3. Recorded' = Sum(live, S \ {p})
    BY <1>1, <2>2 DEF Recorded
  <2>4. Sum(live, S) = total_bytes + live[p]
    BY <1>3 DEF Uncharged, Recorded, S
  <2>5. total_bytes \in Nat /\ live[p] \in Nat /\ Sum(live, S \ {p}) \in Nat
    BY <1>4, <2>1
  <2> HIDE DEF p
  <2>6. Sum(live, S \ {p}) = total_bytes
    BY <2>1, <2>4, <2>5
  <2> QED
    BY <2>3, <2>6
<1>7. Ledger(1 .. alloc_count, {})'
  BY <1>1, <1>3 DEF Ledger
<1>8. Charged(alloc_count)' = Charged(alloc_count)
  BY <1>1 DEF Charged
<1>9. Balanced'
  BY <1>1, <1>3, <1>6, <1>7, <1>8 DEF Balanced
<1> QED
  BY <1>2, <1>5, <1>9 DEF SerialState, Phase

(* While an entry is written, the table it is written to is unchanged as far
   as the ledger goes. *)
LEMMA RecordLoadKeeps ==
  ASSUME IInv, NEW t \in Threads, Alone(t), SerialState(t), RecordLoad(t)
  PROVE  SerialState(t)'
<1>1. /\ pc[t] = "record" /\ slot' = [slot EXCEPT ![t] = alloc_count + 1]
      /\ UNCHANGED <<allocs, alloc_count, total_bytes, live, owned, missed, req, reg>>
  BY DEF RecordLoad, tableVars, heapVars, ghosts
<1>2. pc'[t] = "append" /\ slot'[t] = alloc_count + 1 /\ \A u \in Threads \ {t} : pc'[u] = "idle"
  BY <1>1 DEF RecordLoad, Goto, Alone, IInv, TypeOK
<1>3. Uncharged(t)' /\ Ledger(1 .. alloc_count, {req[t].ptr})' /\ (total_bytes = Charged(alloc_count))'
  BY <1>1 DEF SerialState, Phase, Uncharged, Ledger, Charged, Recorded
<1>4. OwnedIsLive'
  BY <1>1, <1>2 DEF SerialState, OwnedIsLive, Recording
<1> QED
  BY <1>1, <1>2, <1>3, <1>4 DEF SerialState, Phase, Early

LEMMA RecordAppendKeeps ==
  ASSUME IInv, NEW t \in Threads, Alone(t), SerialState(t), RecordAppend(t)
  PROVE  SerialState(t)'
<1> DEFINE n == alloc_count
<1>1. /\ pc[t] = "append" /\ allocs' = [allocs EXCEPT ![slot[t]] = req[t]]
      /\ reg' = [reg EXCEPT ![t] = slot[t]]
      /\ UNCHANGED <<alloc_count, total_bytes, live, owned, missed, req, slot>>
  BY DEF RecordAppend, SetReg, heapVars, ghosts
<1>2. pc'[t] = "addcount" /\ reg'[t] = slot[t] /\ \A u \in Threads \ {t} : pc'[u] = "idle"
  BY <1>1 DEF RecordAppend, Goto, Alone, IInv, TypeOK
<1>3. /\ Uncharged(t) /\ Ledger(1 .. n, {req[t].ptr}) /\ total_bytes = Charged(n)
      /\ OwnedIsLive /\ slot[t] = n + 1
  BY <1>1 DEF SerialState, Phase
<1>4. /\ n \in 0 .. MaxTracked - 1 /\ req[t] \in Entry /\ allocs \in Table
  BY <1>3, Types
<1>5. allocs'[slot[t]] = req[t] /\ \A i \in 1 .. n : allocs'[i] = allocs[i]
  BY <1>1, <1>3, <1>4, AllocAssumption DEF Table
<1>6. Charged(n)' = Charged(n)
  BY <1>1, <1>3, <1>4, TableAppend DEF Charged
<1>7. Ledger(1 .. n, {req[t].ptr})'
  BY <1>1, <1>3, <1>5 DEF Ledger
<1>8. Uncharged(t)'
  BY <1>1, <1>3 DEF Uncharged, Recorded
<1>9. OwnedIsLive'
  BY <1>1, <1>2, <1>3 DEF SerialState, OwnedIsLive, Recording
<1> QED
  BY <1>1, <1>2, <1>3, <1>5, <1>6, <1>7, <1>8, <1>9 DEF SerialState, Phase, Early

LEMMA StoreCountAddKeeps ==
  ASSUME IInv, NEW t \in Threads, Alone(t), SerialState(t), StoreCount(t), pc[t] = "addcount"
  PROVE  SerialState(t)'
<1> DEFINE n == alloc_count
<1>1. /\ alloc_count' = reg[t]
      /\ UNCHANGED <<allocs, total_bytes, live, owned, missed, req, slot, reg>>
  BY DEF StoreCount, heapVars, ghosts
<1>2. pc'[t] = "addload" /\ \A u \in Threads \ {t} : pc'[u] = "idle"
  BY DEF StoreCount, Goto, Alone, IInv, TypeOK
<1>3. /\ Uncharged(t) /\ Ledger(1 .. n, {req[t].ptr}) /\ total_bytes = Charged(n)
      /\ OwnedIsLive /\ reg[t] = n + 1 /\ allocs[n + 1] = req[t]
  BY DEF SerialState, Phase
<1>4. n + 1 \in 1 .. MaxTracked /\ allocs \in Table /\ n \in Nat
  <2>1. slot[t] = n + 1
    BY DEF SerialState, Phase
  <2> QED
    BY <2>1, Types
<1>5. Charged(n + 1) = total_bytes + req[t].size
  BY <1>3, <1>4, TableLast DEF Charged
<1>6. Ledger(1 .. n + 1, {})
  BY <1>3, <1>4 DEF Ledger, Uncharged
<1>7. Ledger(1 .. alloc_count, {})' /\ (Charged(alloc_count) = total_bytes + req[t].size)'
  BY <1>1, <1>3, <1>5, <1>6 DEF Ledger, Charged
<1>8. Uncharged(t)'
  BY <1>1, <1>3 DEF Uncharged, Recorded
<1>9. OwnedIsLive'
  BY <1>1, <1>2, <1>3 DEF SerialState, OwnedIsLive, Recording
<1> QED
  BY <1>2, <1>7, <1>8, <1>9 DEF SerialState, Phase, Early

LEMMA StoreCountSubKeeps ==
  ASSUME IInv, NEW t \in Threads, Alone(t), SerialState(t), StoreCount(t), pc[t] = "subcount"
  PROVE  SerialState(t)'
<1>1. /\ alloc_count' = reg[t]
      /\ UNCHANGED <<allocs, total_bytes, live, owned, missed, req, slot, reg>>
  BY DEF StoreCount, heapVars, ghosts
<1>2. pc'[t] = "subload" /\ \A u \in Threads \ {t} : pc'[u] = "idle"
  BY DEF StoreCount, Goto, Alone, IInv, TypeOK
<1>3. LateRelease(t, reg[t]) /\ OwnedIsLive
  BY DEF SerialState, Phase
<1>4. LateRelease(t, alloc_count)'
  BY <1>1, <1>3 DEF LateRelease, Ledger, Charged, Recorded
<1>5. OwnedIsLive'
  BY <1>1, <1>2, <1>3 DEF OwnedIsLive, Recording
<1> QED
  BY <1>2, <1>4, <1>5 DEF SerialState, Phase, Early

LEMMA TotalLoadKeeps ==
  ASSUME IInv, NEW t \in Threads, Alone(t), SerialState(t), TotalLoad(t)
  PROVE  SerialState(t)'
<1>1. /\ pc[t] \in {"addload", "subload"} /\ reg' = [reg EXCEPT ![t] = total_bytes]
      /\ UNCHANGED <<allocs, alloc_count, total_bytes, live, owned, missed, req, slot>>
  BY DEF TotalLoad, SetReg, tableVars, heapVars, ghosts
<1>2. /\ pc[t] = "addload" => pc'[t] = "addstore"
      /\ pc[t] = "subload" => pc'[t] = "substore"
      /\ reg'[t] = total_bytes /\ \A u \in Threads \ {t} : pc'[u] = "idle"
  BY <1>1 DEF TotalLoad, Goto, Alone, IInv, TypeOK
<1>3. pc[t] = "addload" =>
        Uncharged(t)' /\ Ledger(1 .. alloc_count, {})' /\ (Charged(alloc_count) = total_bytes + req[t].size)'
  BY <1>1 DEF SerialState, Phase, Uncharged, Ledger, Charged, Recorded
<1>4. pc[t] = "subload" => LateRelease(t, alloc_count)'
  BY <1>1 DEF SerialState, Phase, LateRelease, Ledger, Charged, Recorded
<1>5. OwnedIsLive'
  BY <1>1, <1>2 DEF SerialState, OwnedIsLive, Recording
<1>6. CASE pc[t] = "addload"
  BY <1>1, <1>2, <1>3, <1>5, <1>6 DEF SerialState, Phase, Early
<1>7. CASE pc[t] = "subload"
  BY <1>1, <1>2, <1>4, <1>5, <1>7 DEF SerialState, Phase, Early
<1> QED
  BY <1>1, <1>6, <1>7

LEMMA TotalAddKeeps ==
  ASSUME IInv, NEW t \in Threads, Alone(t), SerialState(t), TotalAdd(t), FitsDevice
  PROVE  SerialState(t)'
<1> DEFINE s == req[t].size
<1>1. /\ pc[t] = "addstore" /\ total_bytes' = (reg[t] + s) % WordSize
      /\ owned' = owned \cup {req[t].ptr}
      /\ UNCHANGED <<allocs, alloc_count, live, missed>>
  BY DEF TotalAdd, tableVars, ghosts
<1>2. pc'[t] = "idle" /\ \A u \in Threads \ {t} : pc'[u] = "idle"
  BY DEF TotalAdd, Finish, Goto, Alone, IInv, TypeOK
<1>3. /\ Uncharged(t) /\ Ledger(1 .. alloc_count, {}) /\ reg[t] = total_bytes
      /\ Charged(alloc_count) = total_bytes + s /\ OwnedIsLive
  BY <1>1 DEF SerialState, Phase
<1>4. Recorded = total_bytes + s /\ Recorded <= DeviceBytes /\ Recorded \in Nat
  <2>1. live \in [Ptrs -> Nat] /\ Ptrs \ missed \in SUBSET Ptrs /\ req[t].ptr \in Ptrs /\ Recorded \in Nat
    BY <1>3, Types DEF Uncharged
  <2>2. Recorded <= Sum(live, Ptrs)
    BY <2>1, LiveSum DEF Recorded
  <2>3. Sum(live, Ptrs) <= DeviceBytes
    BY DEF FitsDevice, LiveBytes, Sum
  <2>4. Sum(live, Ptrs) \in Nat /\ DeviceBytes \in Nat
    BY <2>1, Types, LiveSum
  <2> QED
    BY <1>3, <2>1, <2>2, <2>3, <2>4 DEF Uncharged
<1>5. total_bytes' = total_bytes + s
  <2>1. Recorded \in 0 .. WordSize - 1
    BY <1>4, AllocAssumption
  <2>2. total_bytes + s = Recorded
    BY <1>4
  <2> QED
    BY <1>1, <1>3, <2>1, <2>2, SmallWord
<1>6. Balanced'
  BY <1>1, <1>3, <1>4, <1>5 DEF Balanced, Ledger, Charged, Recorded
<1>7. OwnedIsLive'
  BY <1>1, <1>2, <1>3 DEF OwnedIsLive, Uncharged, Recording
<1> QED
  BY <1>2, <1>6, <1>7 DEF SerialState, Phase

LEMMA HipFreeKeeps ==
  ASSUME IInv, NEW t \in Threads, Alone(t), SerialState(t), HipFree(t)
  PROVE  SerialState(t)'
<1> DEFINE n == alloc_count
           S == Ptrs \ missed
<1>0. PICK p \in owned :
        /\ req' = [req EXCEPT ![t] = [ptr |-> p, size |-> 0]]
        /\ live' = [live EXCEPT ![p] = 0]
        /\ owned' = owned \ {p}
        /\ missed' = missed \ {p}
  BY DEF HipFree, Start
<1>1. pc[t] = "idle" /\ UNCHANGED <<allocs, alloc_count, total_bytes>>
  BY DEF HipFree, Start, tableVars
<1>2. pc'[t] = "find" /\ \A u \in Threads \ {t} : pc'[u] = "idle"
  BY DEF HipFree, Start, Goto, Alone, IInv, TypeOK
<1>3. Balanced /\ OwnedIsLive
  BY <1>1 DEF SerialState, Early
<1>4. /\ live \in [Ptrs -> Nat] /\ S \in SUBSET Ptrs /\ p \in Ptrs /\ total_bytes \in Nat
      /\ n \in 0 .. MaxTracked /\ allocs \in Table /\ live[p] \in Nat /\ live[p] > 0
  BY <1>3, Types DEF OwnedIsLive, IInv, TypeOK
<1>5. live' \in [Ptrs -> Nat] /\ req'[t].ptr = p /\ live'[p] = 0 /\ \A q \in Ptrs \ {p} : live'[q] = live[q]
  BY <1>0, <1>4 DEF IInv, TypeOK
<1>6. OwnedIsLive'
  <2>1. \A q \in owned' : live'[q] > 0
    BY <1>0, <1>3, <1>5 DEF OwnedIsLive, IInv, TypeOK
  <2> QED
    BY <1>0, <1>2, <1>3, <2>1 DEF OwnedIsLive, Recording
<1>7. Charged(n)' = Charged(n)
  BY <1>1 DEF Charged
<1>8. CASE p \in missed
  <2>1. Ptrs \ missed' = S \cup {p} /\ p \notin S /\ S \cup {p} \in SUBSET Ptrs /\ (S \cup {p}) \ {p} = S
    BY <1>0, <1>4, <1>8
  <2>2. Recorded' = Recorded
    <3> HIDE DEF S
    <3>1. Sum(live', S \cup {p}) = Sum(live, (S \cup {p}) \ {p}) + 0
      BY <1>4, <1>5, <2>1, LiveUpdate
    <3>2. Recorded' = Sum(live, S) + 0
      BY <1>0, <2>1, <3>1 DEF Recorded
    <3>3. Recorded = Sum(live, S) /\ Recorded \in Nat
      BY Types DEF Recorded, S
    <3> QED
      BY <3>2, <3>3
  <2>3. Ledger(1 .. n, {})'
    <3>1. \A i \in 1 .. n : allocs[i].ptr # p
      BY <1>3, <1>8 DEF Balanced, Ledger
    <3> QED
      BY <1>0, <1>1, <1>3, <1>5, <3>1 DEF Balanced, Ledger
  <2>4. Balanced'
    BY <1>1, <1>3, <1>7, <2>2, <2>3 DEF Balanced
  <2>5. Matches(t)' = {}
    BY <1>1, <1>3, <1>5, <1>8 DEF Balanced, Ledger, Matches
  <2> QED
    BY <1>2, <1>6, <2>4, <2>5 DEF SerialState, Phase, Early
<1>9. CASE p \notin missed
  <2>1. PICK i \in 1 .. n : allocs[i].ptr = p
    BY <1>3, <1>4, <1>9 DEF Balanced, Ledger
  <2>2. missed' = missed /\ p \in S /\ allocs[i].size = live[p]
    BY <1>0, <1>3, <1>4, <1>9, <2>1 DEF Balanced, Ledger
  <2>3. Recorded = Recorded' + live[p]
    <3> HIDE DEF S
    <3>1. Sum(live', S) = Sum(live, S \ {p}) + 0
      BY <1>4, <1>5, <2>2, LiveUpdate
    <3>2. Sum(live, S) = Sum(live, S \ {p}) + live[p] /\ Sum(live, S \ {p}) \in Nat
      BY <1>4, <2>2, LiveSum
    <3>3. Recorded' = Sum(live', S) /\ Recorded = Sum(live, S)
      BY <1>0, <2>2 DEF Recorded, S
    <3> QED
      BY <1>4, <3>1, <3>2, <3>3
  <2>4. Ledger((1 .. n) \ {i}, {p})'
    <3>1. \A j \in (1 .. n) \ {i} : allocs[j].ptr # p
      BY <1>3, <2>1 DEF Balanced, Ledger
    <3> QED
      BY <1>1, <1>3, <1>5, <2>1, <2>2, <3>1 DEF Balanced, Ledger
  <2>5. Releasing(t, i)'
    BY <1>1, <1>3, <1>5, <1>7, <2>1, <2>2, <2>3, <2>4 DEF Balanced, Releasing
  <2>6. \E k \in 1 .. n : Releasing(t, k)'
    BY <2>5
  <2> QED
    BY <1>1, <1>2, <1>6, <2>6 DEF SerialState, Phase, Early
<1> QED
  BY <1>8, <1>9

LEMMA ReleaseUntrackedKeeps ==
  ASSUME IInv, NEW t \in Threads, Alone(t), SerialState(t), ReleaseUntracked(t)
  PROVE  SerialState(t)'
<1>1. /\ pc[t] = "find" /\ Matches(t) = {}
      /\ UNCHANGED <<allocs, alloc_count, total_bytes, live, owned, missed>>
  BY DEF ReleaseUntracked, tableVars, heapVars, ghosts
<1>2. pc'[t] = "idle" /\ \A u \in Threads \ {t} : pc'[u] = "idle"
  BY DEF ReleaseUntracked, Finish, Goto, Alone, IInv, TypeOK
<1>3. Balanced /\ OwnedIsLive
  BY <1>1 DEF SerialState, Phase, Releasing, Matches
<1>4. Balanced' /\ OwnedIsLive'
  BY <1>1, <1>2, <1>3 DEF Balanced, Ledger, Charged, Recorded, OwnedIsLive, Recording
<1> QED
  BY <1>2, <1>4 DEF SerialState, Phase

LEMMA ReleaseFindKeeps ==
  ASSUME IInv, NEW t \in Threads, Alone(t), SerialState(t), ReleaseFind(t)
  PROVE  SerialState(t)'
<1>0. PICK i \in Matches(t) :
        /\ slot' = [slot EXCEPT ![t] = i]
        /\ req' = [req EXCEPT ![t] = allocs[i]]
  BY DEF ReleaseFind
<1>1. /\ pc[t] = "find" /\ reg' = [reg EXCEPT ![t] = alloc_count]
      /\ UNCHANGED <<allocs, alloc_count, total_bytes, live, owned, missed>>
  BY DEF ReleaseFind, SetReg, tableVars, heapVars, ghosts
<1>2. /\ pc'[t] = "remove" /\ \A u \in Threads \ {t} : pc'[u] = "idle"
      /\ slot'[t] = i /\ req'[t] = allocs[i] /\ reg'[t] = alloc_count
  BY <1>0, <1>1 DEF ReleaseFind, Goto, Alone, IInv, TypeOK
<1>3. i \in 1 .. alloc_count /\ allocs[i].ptr = req[t].ptr
  BY DEF Matches
<1>4. PICK k \in 1 .. alloc_count : Releasing(t, k)
  BY <1>1, <1>3 DEF SerialState, Phase
<1>5. k = i
  BY <1>3, <1>4 DEF Releasing, Ledger
<1>6. Releasing(t, i)'
  BY <1>1, <1>2, <1>3, <1>4, <1>5 DEF Releasing, Ledger, Charged, Recorded
<1>7. OwnedIsLive'
  BY <1>1, <1>2 DEF SerialState, OwnedIsLive, Recording
<1> QED
  BY <1>1, <1>2, <1>6, <1>7 DEF SerialState, Phase, Early

LEMMA ReleaseRemoveKeeps ==
  ASSUME IInv, NEW t \in Threads, Alone(t), SerialState(t), ReleaseRemove(t)
  PROVE  SerialState(t)'
<1> DEFINE n == alloc_count
           i == slot[t]
<1>1. /\ pc[t] = "remove" /\ allocs' = [allocs EXCEPT ![i] = allocs[reg[t]]]
      /\ reg' = [reg EXCEPT ![t] = reg[t] - 1]
      /\ UNCHANGED <<alloc_count, total_bytes, live, owned, missed, req, slot>>
  BY DEF ReleaseRemove, SetReg, heapVars, ghosts
<1>2. /\ pc'[t] = "subcount" /\ \A u \in Threads \ {t} : pc'[u] = "idle"
      /\ reg'[t] = reg[t] - 1
  BY <1>1 DEF ReleaseRemove, Goto, Alone, IInv, TypeOK
<1>3. reg[t] = n /\ req[t] = allocs[i] /\ Releasing(t, i) /\ OwnedIsLive
  BY <1>1 DEF SerialState, Phase
<1>4. /\ i \in 1 .. n /\ n \in 1 .. MaxTracked /\ n - 1 \in 0 .. MaxTracked
      /\ allocs \in Table /\ n \in 1 .. n
  BY <1>3, Types DEF Releasing
<1>5. allocs'[i] = allocs[n] /\ \A j \in 1 .. n : j # i => allocs'[j] = allocs[j]
  <2>1. 1 .. n \subseteq 1 .. MaxTracked
    BY <1>4, AllocAssumption
  <2> QED
    BY <1>1, <1>3, <1>4, <2>1 DEF Table
<1>6. Charged(n) = Charged(n - 1)' + req[t].size
  <2>1. Sum(SizesOf(allocs), 1 .. n)
          = Sum(SizesOf([allocs EXCEPT ![i] = allocs[n]]), 1 .. n - 1) + allocs[i].size
    BY <1>4, TableRemove
  <2> QED
    BY <1>1, <1>3, <2>1 DEF Charged
<1>7. Ledger(1 .. n - 1, {})'
  <2>1. \A j \in 1 .. n - 1 : \E k \in (1 .. n) \ {i} :
          allocs'[j] = allocs[k] /\ (k = j \/ (j = i /\ k = n))
    BY <1>4, <1>5
  <2>2. \A k \in (1 .. n) \ {i} : \E j \in 1 .. n - 1 : allocs'[j] = allocs[k]
    BY <1>4, <1>5
  <2>3. /\ Ledger((1 .. n) \ {i}, {req[t].ptr}) /\ live[req[t].ptr] = 0
    BY <1>3 DEF Releasing
  <2>4. \A j \in 1 .. n - 1 : /\ allocs'[j].ptr \in Ptrs \ missed
                              /\ allocs'[j].size = live[allocs'[j].ptr]
                              /\ live[allocs'[j].ptr] > 0
    BY <2>1, <2>3 DEF Ledger
  <2>5. \A j, k \in 1 .. n - 1 : allocs'[j].ptr = allocs'[k].ptr => j = k
    BY <2>1, <2>3, <1>4 DEF Ledger
  <2>6. \A p \in Ptrs \ missed : live[p] > 0 => \E j \in 1 .. n - 1 : allocs'[j].ptr = p
    <3>1. SUFFICES ASSUME NEW p \in Ptrs \ missed, live[p] > 0
                   PROVE  \E j \in 1 .. n - 1 : allocs'[j].ptr = p
      OBVIOUS
    <3>2. p # req[t].ptr
      BY <3>1, <2>3
    <3>3. PICK k \in (1 .. n) \ {i} : allocs[k].ptr = p
      BY <3>1, <3>2, <2>3 DEF Ledger
    <3> QED
      BY <3>3, <2>2
  <2> QED
    BY <1>1, <2>4, <2>5, <2>6 DEF Ledger
<1>8. total_bytes = Recorded' + req[t].size
  BY <1>1, <1>3 DEF Releasing, Recorded
<1>9. LateRelease(t, n - 1)'
  BY <1>1, <1>3, <1>6, <1>7, <1>8 DEF LateRelease, Releasing
<1>10. OwnedIsLive'
  BY <1>1, <1>2, <1>3 DEF OwnedIsLive, Recording
<1> QED
  BY <1>1, <1>2, <1>3, <1>4, <1>9, <1>10 DEF SerialState, Phase, Early

LEMMA TotalSubtractKeeps ==
  ASSUME IInv, NEW t \in Threads, Alone(t), SerialState(t), TotalSubtract(t)
  PROVE  SerialState(t)'
<1> DEFINE s == req[t].size
<1>1. /\ pc[t] = "substore" /\ total_bytes' = (reg[t] - s) % WordSize
      /\ UNCHANGED <<allocs, alloc_count, live, owned, missed>>
  BY DEF TotalSubtract, tableVars, heapVars, ghosts
<1>2. pc'[t] = "idle" /\ \A u \in Threads \ {t} : pc'[u] = "idle"
  BY DEF TotalSubtract, Finish, Goto, Alone, IInv, TypeOK
<1>3. LateRelease(t, alloc_count) /\ reg[t] = total_bytes /\ OwnedIsLive
  BY <1>1 DEF SerialState, Phase
<1>4. /\ total_bytes = Recorded + s /\ Recorded \in Nat /\ s \in Nat
      /\ total_bytes = Charged(alloc_count) + s /\ Charged(alloc_count) \in Nat
      /\ total_bytes \in 0 .. WordSize - 1 /\ WordSize \in Nat
  BY <1>3, Types DEF LateRelease
<1>5. total_bytes - s \in 0 .. WordSize - 1 /\ total_bytes - s = Recorded
  <2> HIDE DEF s
  <2> QED
    BY <1>4
<1>6. total_bytes' = Recorded
  BY <1>1, <1>3, <1>5, SmallWord
<1>7. Recorded = Charged(alloc_count)
  <2> HIDE DEF s
  <2> QED
    BY <1>4
<1>8. Balanced'
  BY <1>1, <1>3, <1>6, <1>7 DEF Balanced, LateRelease, Ledger, Charged, Recorded
<1>9. OwnedIsLive'
  BY <1>1, <1>2, <1>3 DEF OwnedIsLive, Recording
<1> QED
  BY <1>2, <1>8, <1>9 DEF SerialState, Phase

(* What is outstanding fits the device, raced or not. *)
LEMMA FitsInit == Init => FitsDevice
<1> SUFFICES ASSUME Init PROVE Sum(live, Ptrs) <= DeviceBytes
  BY DEF FitsDevice, LiveBytes, Sum
<1>1. IsFiniteSet(Ptrs) /\ \A p \in Ptrs : live[p] = 0
  BY AddressesAssumption DEF Init
<1>2. Sum(live, Ptrs) = 0
  BY <1>1, SumZeros
<1> QED
  BY <1>2, AllocAssumption

LEMMA FitsStep == IInv /\ IInv' /\ FitsDevice /\ [Next]_vars => FitsDevice'
<1> SUFFICES ASSUME IInv, IInv', FitsDevice, [Next]_vars PROVE FitsDevice'
  OBVIOUS
<1>1. LiveBytes = Sum(live, Ptrs) /\ LiveBytes' = Sum(live', Ptrs)
  <2>1. LiveBytes = Sum(live, Ptrs)
    BY DEF LiveBytes, Sum
  <2>2. LiveBytes' = Sum(live', Ptrs)
    BY DEF LiveBytes, Sum, MapThenSumSet, MapThenFoldSet
  <2> QED
    BY <2>1, <2>2
<1>2. live \in [Ptrs -> Nat] /\ live' \in [Ptrs -> Nat] /\ DeviceBytes \in Nat
  BY Types, AllocAssumption DEF IInv, TypeOK
<1>3. ASSUME NEW t \in Threads, HipMalloc(t) PROVE FitsDevice'
  <2>1. PICK p \in Ptrs : live[p] = 0 /\ live' = [live EXCEPT ![p] = req[t].size]
    BY <1>3 DEF HipMalloc
  <2>2. live'[p] = req[t].size /\ \A q \in Ptrs \ {p} : live'[q] = live[q]
    BY <1>2, <2>1
  <2>3. Sum(live', Ptrs) = Sum(live, Ptrs \ {p}) + req[t].size
    BY <1>2, <2>2, LiveUpdate
  <2>4. Sum(live, Ptrs) = Sum(live, Ptrs \ {p}) + live[p] /\ Sum(live, Ptrs \ {p}) \in Nat
    BY <1>2, LiveSum
  <2>5. LiveBytes + req[t].size <= DeviceBytes
    BY <1>3 DEF HipMalloc
  <2> QED
    BY <1>1, <2>1, <2>3, <2>4, <2>5 DEF FitsDevice
<1>4. ASSUME NEW t \in Threads, HipFree(t) PROVE FitsDevice'
  <2>1. PICK p \in Ptrs : live' = [live EXCEPT ![p] = 0]
    BY <1>4 DEF HipFree, IInv, TypeOK
  <2>2. live'[p] = 0 /\ \A q \in Ptrs \ {p} : live'[q] = live[q]
    BY <1>2, <2>1
  <2>3. Sum(live', Ptrs) = Sum(live, Ptrs \ {p}) + live'[p]
    BY <1>2, <2>2, LiveUpdate
  <2>4. Sum(live, Ptrs) = Sum(live, Ptrs \ {p}) + live[p] /\ Sum(live, Ptrs \ {p}) \in Nat /\ live[p] \in Nat
    BY <1>2, LiveSum
  <2>5. Sum(live', Ptrs) <= Sum(live, Ptrs)
    BY <2>2, <2>3, <2>4
  <2>6. Sum(live', Ptrs) \in Nat /\ Sum(live, Ptrs) \in Nat
    BY <1>2, <2>1, LiveSum
  <2> QED
    BY <1>1, <1>2, <2>5, <2>6 DEF FitsDevice
<1>5. CASE UNCHANGED live
  BY <1>1, <1>5 DEF FitsDevice
<1>6. CASE UNCHANGED vars
  BY <1>5, <1>6 DEF vars
<1>7. ASSUME NEW t \in Threads, Malloc(t) \/ Free(t) \/ StoreCount(t) \/ TotalLoad(t),
             ~HipMalloc(t), ~HipFree(t)
      PROVE  UNCHANGED live
  BY <1>7 DEF Malloc, Free, StoreCount, TotalLoad, MallocBegin, SetCapFlag, SetCap, RejectOverCap,
    PassCap, HipMallocNothing, RecordRefused, RecordLoad, RecordAppend, TotalAdd,
    ReleaseUntracked, ReleaseFind, ReleaseRemove, TotalSubtract, heapVars
<1> QED
  BY <1>3, <1>4, <1>5, <1>6, <1>7 DEF Next

(* Without overlap, whoever steps is the only one inside a call. *)
LEMMA OnlyOne ==
  ASSUME IInv, SerialLedger, ~raced', NEW t \in Threads,
         Malloc(t) \/ Free(t) \/ StoreCount(t) \/ TotalLoad(t)
  PROVE  ~raced /\ Alone(t) /\ Alone(t)'
<1>1. CASE MallocBegin(t) \/ HipFree(t)
  <2>1. ~raced /\ Alone(t)
    BY <1>1 DEF MallocBegin, HipFree, Start, Busy, Alone
  <2>2. Alone(t)'
    BY <1>1, <2>1 DEF MallocBegin, HipFree, Start, Goto, Alone, IInv, TypeOK
  <2> QED
    BY <2>1, <2>2
<1>2. CASE ~(MallocBegin(t) \/ HipFree(t))
  <2>1. raced' = raced /\ pc[t] # "idle"
    BY <1>2 DEF Malloc, Free, StoreCount, TotalLoad, SetCapFlag, SetCap, RejectOverCap,
      PassCap, HipMallocNothing, HipMalloc, RecordRefused, RecordLoad, RecordAppend, TotalAdd,
      ReleaseUntracked, ReleaseFind, ReleaseRemove, TotalSubtract, ghosts
  <2>2. \A u \in Threads \ {t} : pc'[u] = pc[u]
    BY <1>2 DEF Malloc, Free, StoreCount, TotalLoad, SetCapFlag, SetCap, RejectOverCap,
      PassCap, HipMallocNothing, HipMalloc, RecordRefused, RecordLoad, RecordAppend, TotalAdd,
      ReleaseUntracked, ReleaseFind, ReleaseRemove, TotalSubtract, Goto, Finish, IInv, TypeOK
  <2>3. Alone(t)
    BY <2>1 DEF SerialLedger, OneAtATime, Alone
  <2> QED
    BY <2>1, <2>2, <2>3 DEF Alone
<1> QED
  BY <1>1, <1>2

LEMMA SerialInit == Init => SerialLedger
<1> SUFFICES ASSUME Init PROVE SerialLedger
  OBVIOUS
<1>1. alloc_count = 0 /\ total_bytes = 0 /\ 1 .. 0 = {} /\ 1 .. alloc_count = {} /\ \A p \in Ptrs : live[p] = 0
  BY DEF Init
<1>2. Charged(alloc_count) = 0
  BY <1>1, SumEmpty DEF Charged
<1>3. Recorded = 0
  <2>1. IsFiniteSet(Ptrs \ missed) /\ \A p \in Ptrs \ missed : live[p] = 0
    BY <1>1, AddressesAssumption, FS_Subset
  <2> QED
    BY <2>1, SumZeros DEF Recorded
<1>4. Balanced
  BY <1>1, <1>2, <1>3 DEF Balanced, Ledger
<1> QED
  BY <1>4 DEF Init, SerialLedger, OneAtATime, OwnedIsLive, Recording, Phase

LEMMA SerialStep == IInv /\ IInv' /\ FitsDevice /\ SerialLedger /\ [Next]_vars => SerialLedger'
<1> SUFFICES ASSUME IInv, IInv', FitsDevice, SerialLedger, [Next]_vars, ~raced' PROVE SerialLedger'
  BY DEF SerialLedger
<1>1. CASE UNCHANGED vars
  <2>1. /\ allocs' = allocs /\ alloc_count' = alloc_count /\ total_bytes' = total_bytes /\ live' = live
        /\ owned' = owned /\ missed' = missed /\ pc' = pc /\ req' = req /\ reg' = reg /\ slot' = slot
        /\ raced' = raced
    BY <1>1 DEF vars
  <2>2. Balanced => Balanced'
    BY <2>1 DEF Balanced, Ledger, Charged, Recorded
  <2>3. ASSUME NEW t \in Threads PROVE Phase(t) => Phase(t)'
    <3>1. Uncharged(t) => Uncharged(t)'
      BY <2>1 DEF Uncharged, Recorded
    <3>2. \A i \in 1 .. alloc_count : Releasing(t, i) => Releasing(t, i)'
      BY <2>1 DEF Releasing, Ledger, Charged, Recorded
    <3>3. \A n \in 0 .. MaxTracked : LateRelease(t, n) => LateRelease(t, n)'
      BY <2>1 DEF LateRelease, Ledger, Charged, Recorded
    <3>4. LateRelease(t, alloc_count) => LateRelease(t, alloc_count)'
      BY <2>1 DEF LateRelease, Ledger, Charged, Recorded
    <3>5. Matches(t)' = Matches(t) /\ Charged(alloc_count)' = Charged(alloc_count)
      BY <2>1 DEF Matches, Charged
    <3>6. /\ Ledger(1 .. alloc_count, {req[t].ptr}) => Ledger(1 .. alloc_count, {req[t].ptr})'
          /\ Ledger(1 .. alloc_count, {}) => Ledger(1 .. alloc_count, {})'
      BY <2>1 DEF Ledger
    <3>7. CASE pc[t] \in {"record", "append", "addcount"}
      BY <2>1, <3>1, <3>5, <3>6, <3>7 DEF Phase
    <3>8. CASE pc[t] \in {"addload", "addstore"}
      BY <2>1, <3>1, <3>5, <3>6, <3>8 DEF Phase
    <3>9. CASE pc[t] = "find"
      BY <2>1, <2>2, <3>2, <3>5, <3>9 DEF Phase
    <3>10. CASE pc[t] = "remove"
      <4>1. Phase(t) => slot[t] \in 1 .. alloc_count
        BY <3>10 DEF Phase, Releasing
      <4> QED
        BY <2>1, <3>2, <3>10, <4>1 DEF Phase
    <3>11. CASE pc[t] = "subcount"
      BY <2>1, <3>3, <3>11 DEF Phase
    <3>12. CASE pc[t] \in {"subload", "substore"}
      BY <2>1, <3>4, <3>12 DEF Phase
    <3> QED
      BY <2>1, <3>7, <3>8, <3>9, <3>10, <3>11, <3>12 DEF Phase
  <2> QED
    BY <2>1, <2>2, <2>3 DEF SerialLedger, OneAtATime, OwnedIsLive
<1>2. ASSUME NEW t \in Threads, Malloc(t) \/ Free(t) \/ StoreCount(t) \/ TotalLoad(t)
      PROVE  SerialLedger'
  <2>1. ~raced /\ Alone(t) /\ Alone(t)'
    BY <1>2, OnlyOne
  <2>2. SerialState(t)
    BY <2>1, SerialToState
  <2>3. \A u \in Threads \ {t} : pc'[u] = "idle"
    BY <2>1 DEF Alone
  <2>4. SerialState(t)'
    <3>1. CASE HipMalloc(t) BY <2>1, <2>2, <3>1, HipMallocKeeps
    <3>2. CASE RecordRefused(t) BY <2>1, <2>2, <3>2, RecordRefusedKeeps
    <3>3. CASE RecordLoad(t) BY <2>1, <2>2, <3>3, RecordLoadKeeps
    <3>4. CASE RecordAppend(t) BY <2>1, <2>2, <3>4, RecordAppendKeeps
    <3>5. CASE StoreCount(t)
      <4>1. pc[t] \in {"addcount", "subcount"}
        BY <3>5 DEF StoreCount
      <4> QED
        BY <2>1, <2>2, <3>5, <4>1, StoreCountAddKeeps, StoreCountSubKeeps
    <3>6. CASE TotalLoad(t) BY <2>1, <2>2, <3>6, TotalLoadKeeps
    <3>7. CASE TotalAdd(t) BY <2>1, <2>2, <3>7, TotalAddKeeps
    <3>8. CASE HipFree(t) BY <2>1, <2>2, <3>8, HipFreeKeeps
    <3>9. CASE ReleaseUntracked(t) BY <2>1, <2>2, <3>9, ReleaseUntrackedKeeps
    <3>10. CASE ReleaseFind(t) BY <2>1, <2>2, <3>10, ReleaseFindKeeps
    <3>11. CASE ReleaseRemove(t) BY <2>1, <2>2, <3>11, ReleaseRemoveKeeps
    <3>12. CASE TotalSubtract(t) BY <2>1, <2>2, <3>12, TotalSubtractKeeps
    <3>13. CASE \/ MallocBegin(t) \/ SetCapFlag(t) \/ SetCap(t)
                \/ RejectOverCap(t) \/ PassCap(t) \/ HipMallocNothing(t)
      <4>1. UNCHANGED <<allocs, alloc_count, total_bytes, live, owned, missed>>
        BY <3>13 DEF MallocBegin, SetCapFlag, SetCap, RejectOverCap, PassCap, HipMallocNothing,
          tableVars, heapVars, ghosts
      <4>2. pc[t] \in Early /\ pc'[t] \in Early
        BY <3>13 DEF MallocBegin, SetCapFlag, SetCap, RejectOverCap, PassCap, HipMallocNothing,
          Start, Goto, Finish, Early, IInv, TypeOK
      <4> QED
        BY <2>2, <2>3, <4>1, <4>2, EarlyStep
    <3> QED
      BY <1>2, <3>1, <3>2, <3>3, <3>4, <3>5, <3>6, <3>7, <3>8, <3>9, <3>10, <3>11, <3>12, <3>13
         DEF Malloc, Free
  <2> QED
    BY <2>1, <2>4, StateToSerial
<1> QED
  BY <1>1, <1>2 DEF Next

LInv == IInv /\ FitsDevice /\ SerialLedger

LEMMA LedgerInvariant == Spec => []LInv
<1>1. Init => LInv
  BY InitInv, FitsInit, SerialInit DEF LInv
<1>2. LInv /\ [Next]_vars => LInv'
  BY StepInv, FitsStep, SerialStep DEF LInv
<1> QED
  BY <1>1, <1>2, PTL DEF Spec

-----------------------------------------------------------------------------
(* The sum over the table as SerialAccounting writes it. *)
LEMMA ChargedIsSum ==
  ASSUME IInv
  PROVE  Charged(alloc_count) = MapThenSumSet(LAMBDA i : allocs[i].size, 1 .. alloc_count)
<1> DEFINE S == 1 .. alloc_count
           f == SizesOf(allocs)
           AddsUp(g) == g = [s \in SUBSET S |-> IF s = {} THEN 0 ELSE allocs[Pick(s)].size + g[s \ {Pick(s)}]]
           G == CHOOSE g : AddsUp(g)
<1>1. MapThenSumSet(LAMBDA i : allocs[i].size, S) = G[S]
  BY DEF MapThenSumSet, MapThenFoldSet, Pick
<1>2. \A i \in S : f[i] = allocs[i].size
  BY Types, TableTypes
<1>3. IsFiniteSet(S)
  BY Types, TableTypes
<1> HIDE DEF f, S
<1>4. \A s \in SUBSET S : s # {} => f[Pick(s)] = allocs[Pick(s)].size
  BY <1>2, PickMember
<1>5. \A g : Adds(g, f, S) <=> AddsUp(g)
  BY <1>4 DEF Adds
<1>6. \E g : Adds(g, f, S)
  BY <1>3, AddsExists
<1>7. AddsUp(G)
  BY <1>5, <1>6
<1> HIDE DEF G
<1>8. Adds(G, f, S)
  BY <1>5, <1>7
<1>9. Sum(f, S) = G[S]
  BY <1>3, <1>8, SumAgree
<1> QED
  BY <1>1, <1>9 DEF Charged, f, S

(* As many pointers are tracked as there are entries: none has two. *)
LEMMA TrackedCount ==
  ASSUME IInv, Ledger(1 .. alloc_count, {})
  PROVE  Cardinality(Tracked) = alloc_count
<1> DEFINE n == alloc_count
           h == [i \in 1 .. n |-> allocs[i].ptr]
<1>1. n \in Nat
  BY Types
<1>2. h \in Bijection(1 .. n, Tracked)
  <2>1. h \in [1 .. n -> Tracked] /\ \A i \in 1 .. n : h[i] = allocs[i].ptr
    BY DEF Tracked
  <2>2. \A i, j \in 1 .. n : h[i] = h[j] => i = j
    BY <2>1 DEF Ledger
  <2>3. \A p \in Tracked : \E i \in 1 .. n : h[i] = p
    BY <2>1 DEF Tracked
  <2> HIDE DEF h
  <2> QED
    BY <2>1, <2>2, <2>3 DEF Bijection, Injection, Surjection, IsInjective
<1>3. ExistsBijection(1 .. n, Tracked)
  BY <1>2 DEF ExistsBijection
<1> QED
  BY <1>1, <1>3, FS_CountingElements

(* Between calls that never overlapped, the table is an exact ledger: every
   hipMalloc is charged and every hipFree given back, for any table size. *)
THEOREM LedgerExact == Spec => []SerialAccounting
<1>1. ASSUME LInv PROVE SerialAccounting
  <2>1. SUFFICES ASSUME ~raced, Quiet
                 PROVE  /\ Cardinality(Tracked) = alloc_count
                        /\ \A i \in 1 .. alloc_count : allocs[i].size = live[allocs[i].ptr]
                        /\ total_bytes = MapThenSumSet(LAMBDA i : allocs[i].size, 1 .. alloc_count)
                        /\ {p \in Ptrs : live[p] > 0} = Tracked \cup missed
                        /\ Tracked \cap missed = {}
    BY DEF SerialAccounting
  <2>2. Balanced /\ OwnedIsLive /\ IInv
    BY <1>1, <2>1 DEF LInv, SerialLedger, Quiet, Early
  <2>3. Cardinality(Tracked) = alloc_count
    BY <2>2, TrackedCount DEF Balanced
  <2>4. \A i \in 1 .. alloc_count : allocs[i].size = live[allocs[i].ptr]
    BY <2>2 DEF Balanced, Ledger
  <2>5. total_bytes = MapThenSumSet(LAMBDA i : allocs[i].size, 1 .. alloc_count)
    BY <2>2, ChargedIsSum DEF Balanced
  <2>6. {p \in Ptrs : live[p] > 0} = Tracked \cup missed
    <3>1. \A p \in Ptrs : live[p] > 0 => p \in Tracked \cup missed
      BY <2>2 DEF Balanced, Ledger, Tracked
    <3>2. \A p \in Tracked : p \in Ptrs /\ live[p] > 0
      BY <2>2 DEF Balanced, Ledger, Tracked
    <3>3. \A p \in missed : p \in Ptrs /\ live[p] > 0
      BY <2>2 DEF OwnedIsLive, IInv, TypeOK
    <3> QED
      BY <3>1, <3>2, <3>3
  <2>7. Tracked \cap missed = {}
    BY <2>2 DEF Balanced, Ledger, Tracked
  <2> QED
    BY <2>3, <2>4, <2>5, <2>6, <2>7
<1> QED
  BY <1>1, LedgerInvariant, PTL

-----------------------------------------------------------------------------
LEMMA CapIsRecorded == CapHonoured <=> (~raced /\ EnvCap # 0 => Recorded <= EnvCap)
BY DEF CapHonoured, Recorded, Sum

LEMMA CapInit == Init => CapRead /\ CapHonoured
<1> SUFFICES ASSUME Init PROVE CapRead /\ CapHonoured
  OBVIOUS
<1>1. IsFiniteSet(Ptrs \ missed) /\ \A p \in Ptrs \ missed : live[p] = 0
  BY AddressesAssumption, FS_Subset DEF Init
<1>2. Recorded = 0
  BY <1>1, SumZeros DEF Recorded
<1>3. CapHonoured
  BY <1>2, CapIsRecorded, AllocAssumption
<1> QED
  BY <1>3 DEF Init, CapRead

LEMMA CapReadStep == LInv /\ LInv' /\ CapRead /\ [Next]_vars => CapRead'
<1> SUFFICES ASSUME LInv, LInv', CapRead, [Next]_vars, ~raced' PROVE CapRead'
  BY DEF CapRead
<1>1. CASE UNCHANGED vars
  BY <1>1 DEF vars, CapRead
<1>2. ASSUME NEW t \in Threads, Malloc(t) \/ Free(t) \/ StoreCount(t) \/ TotalLoad(t)
      PROVE  CapRead'
  <2>1. ~raced /\ Alone(t) /\ Alone(t)' /\ IInv
    BY <1>2, OnlyOne DEF LInv
  <2>2. \A u \in Threads \ {t} : pc[u] = "idle" /\ pc'[u] = "idle"
    BY <2>1 DEF Alone
  <2>3. pc \in [Threads -> PCs] /\ req \in [Threads -> Entry] /\ CapRead
    BY <2>1 DEF IInv, TypeOK
  <2>4. CASE MallocBegin(t)
    <3>1. vram_cap_read' = vram_cap_read /\ vram_cap_bytes' = vram_cap_bytes /\ pc[t] = "idle"
          /\ pc'[t] = IF vram_cap_read THEN "check" ELSE "capflag"
      BY <2>3, <2>4 DEF MallocBegin, Start, Goto, capVars
    <3>2. vram_cap_read => vram_cap_bytes = EnvCap
      BY <2>1, <2>2, <2>3, <3>1 DEF CapRead
    <3> QED
      BY <2>2, <3>1, <3>2 DEF CapRead
  <2>5. CASE SetCapFlag(t)
    BY <2>2, <2>3, <2>5 DEF SetCapFlag, Goto, CapRead
  <2>6. CASE SetCap(t)
    BY <2>2, <2>3, <2>6 DEF SetCap, Goto, CapRead
  <2>7. CASE PassCap(t)
    <3>1. /\ vram_cap_read' = vram_cap_read /\ vram_cap_bytes' = vram_cap_bytes /\ pc[t] = "check"
          /\ pc'[t] = "alloc" /\ total_bytes' = total_bytes /\ req' = req
          /\ ~WouldExceed(total_bytes, req[t].size, vram_cap_bytes)
      BY <2>3, <2>7 DEF PassCap, Goto, capVars
    <3>2. vram_cap_bytes = EnvCap
      BY <2>1, <2>3, <3>1 DEF CapRead
    <3>3. EnvCap # 0 => (total_bytes + req[t].size) % WordSize <= EnvCap
      <4>1. (total_bytes + req[t].size) % WordSize \in 0 .. WordSize - 1
        BY <2>1, Types, WordArithmetic
      <4> QED
        BY <3>1, <3>2, <4>1, AllocAssumption DEF WouldExceed
    <3> QED
      BY <2>2, <3>1, <3>2, <3>3 DEF CapRead
  <2>8. CASE ~(MallocBegin(t) \/ SetCapFlag(t) \/ SetCap(t) \/ PassCap(t))
    <3>1. /\ vram_cap_read' = vram_cap_read /\ vram_cap_bytes' = vram_cap_bytes
      BY <1>2, <2>8 DEF Malloc, Free, StoreCount, TotalLoad, RejectOverCap, HipMallocNothing, HipMalloc,
        RecordRefused, RecordLoad, RecordAppend, TotalAdd, HipFree,
        ReleaseUntracked, ReleaseFind, ReleaseRemove, TotalSubtract, capVars
    <3>2. pc'[t] \notin {"check", "alloc"} /\ pc[t] # "capset"
      BY <1>2, <2>3, <2>8 DEF Malloc, Free, StoreCount, TotalLoad, RejectOverCap, HipMallocNothing, HipMalloc,
        RecordRefused, RecordLoad, RecordAppend, TotalAdd, HipFree,
        ReleaseUntracked, ReleaseFind, ReleaseRemove, TotalSubtract, Start, Goto, Finish
    <3> QED
      BY <2>1, <2>2, <2>3, <3>1, <3>2 DEF CapRead
  <2> QED
    BY <2>4, <2>5, <2>6, <2>7, <2>8
<1> QED
  BY <1>1, <1>2 DEF Next

LEMMA CapStep == LInv /\ LInv' /\ CapRead /\ CapHonoured /\ [Next]_vars => CapHonoured'
<1> SUFFICES ASSUME LInv, LInv', CapRead, CapHonoured, [Next]_vars, ~raced', EnvCap # 0
             PROVE  Recorded' <= EnvCap
  <2>1. CapHonoured' <=> (~raced' /\ EnvCap # 0 => Recorded' <= EnvCap)
    BY DEF CapHonoured, Recorded, Sum, MapThenSumSet, MapThenFoldSet
  <2> QED
    BY <2>1
<1>1. CASE UNCHANGED vars
  <2>1. ~raced /\ Recorded' = Recorded
    BY <1>1 DEF vars, Recorded
  <2> QED
    BY <2>1, CapIsRecorded
<1>2. ASSUME NEW t \in Threads, Malloc(t) \/ Free(t) \/ StoreCount(t) \/ TotalLoad(t)
      PROVE  Recorded' <= EnvCap
  <2>1. ~raced /\ Alone(t) /\ IInv /\ IInv'
    BY <1>2, OnlyOne DEF LInv
  <2>2. SerialState(t) /\ Phase(t)'
    BY <2>1, SerialToState DEF LInv, SerialLedger
  <2>3. Recorded <= EnvCap /\ Recorded \in Nat /\ EnvCap \in Nat
    BY <2>1, CapIsRecorded, Types, AllocAssumption
  <2>4. Recorded' \in Nat
    <3>1. live' \in [Ptrs -> Nat] /\ Ptrs \ missed' \in SUBSET Ptrs
      BY <2>1, AllocAssumption DEF IInv, TypeOK
    <3>2. IsFiniteSet(Ptrs \ missed') /\ \A p \in Ptrs \ missed' : live'[p] \in Nat
      BY <3>1, AddressesAssumption, FS_Subset
    <3>3. Sum(live', Ptrs \ missed') \in Nat
      BY <3>2, SumNat
    <3> QED
      BY <3>3 DEF Recorded
  <2>5. CASE HipMalloc(t)
    <3> DEFINE s == req[t].size
    <3>1. /\ pc[t] = "alloc" /\ pc'[t] = "record" /\ total_bytes' = total_bytes
          /\ req'[t].size = s /\ LiveBytes + s <= DeviceBytes
      BY <2>1, <2>5 DEF HipMalloc, Goto, IInv, TypeOK
    <3>2. Recorded' = total_bytes + s
      BY <2>2, <3>1 DEF Phase, Uncharged
    <3>3. Recorded = total_bytes
      BY <2>2, <3>1 DEF SerialState, Early, Balanced
    <3>4. (total_bytes + s) % WordSize <= EnvCap
      BY <2>1, <3>1 DEF CapRead
    <3>5. LiveBytes \in Nat /\ s \in Nat /\ total_bytes \in Nat /\ DeviceBytes \in Nat
      <4>1. IsFiniteSet(Ptrs) /\ \A p \in Ptrs : live[p] \in Nat
        BY <2>1, AddressesAssumption, Types
      <4>2. Sum(live, Ptrs) \in Nat
        BY <4>1, SumNat
      <4>3. LiveBytes = Sum(live, Ptrs)
        BY DEF LiveBytes, Sum
      <4> QED
        BY <2>1, <4>2, <4>3, Types
    <3>6. total_bytes + s \in 0 .. WordSize - 1
      <4> HIDE DEF s
      <4>1. s <= DeviceBytes /\ total_bytes <= EnvCap
        BY <2>3, <3>1, <3>3, <3>5
      <4> QED
        BY <3>5, <4>1, AllocAssumption
    <3> QED
      BY <3>2, <3>4, <3>6, SmallWord
  <2>6. CASE RecordRefused(t)
    <3>1. pc[t] = "record" /\ pc'[t] = "idle" /\ total_bytes' = total_bytes
      BY <2>1, <2>6 DEF RecordRefused, Finish, Goto, IInv, TypeOK
    <3>2. Recorded = total_bytes + req[t].size /\ total_bytes \in Nat /\ req[t].size \in Nat
      BY <2>1, <2>2, <3>1, Types DEF SerialState, Phase, Uncharged
    <3>3. Recorded' = total_bytes'
      BY <2>1, <2>2, <2>6, <3>1, RecordRefusedKeeps DEF SerialState, Early, Balanced
    <3> QED
      BY <2>3, <3>1, <3>2, <3>3
  <2>7. CASE HipFree(t)
    <3>1. pc[t] = "idle" /\ pc'[t] = "find" /\ UNCHANGED <<total_bytes, allocs>>
      BY <2>1, <2>7 DEF HipFree, Start, Goto, tableVars, IInv, TypeOK
    <3>2. Recorded = total_bytes
      BY <2>2, <3>1 DEF SerialState, Early, Balanced
    <3>3. Recorded' <= total_bytes'
      <4>1. CASE Balanced'
        BY <2>4, <4>1 DEF Balanced
      <4>2. CASE (\E i \in 1 .. alloc_count : Releasing(t, i))'
        <5>1. PICK i \in 1 .. alloc_count' : Releasing(t, i)'
          BY <4>2
        <5>2. total_bytes' = Recorded' + allocs'[i].size
          BY <5>1 DEF Releasing
        <5>3. allocs'[i].size \in Nat
          <6>1. allocs' \in [1 .. MaxTracked -> Entry] /\ alloc_count' \in 0 .. MaxTracked
            BY <2>1 DEF IInv, TypeOK
          <6>2. i \in 1 .. MaxTracked
            BY <6>1, AllocAssumption
          <6> QED
            BY <6>1, <6>2, AllocAssumption DEF Entry
        <5> QED
          BY <2>4, <5>2, <5>3
      <4> QED
        BY <2>2, <3>1, <4>1, <4>2 DEF Phase
    <3> QED
      BY <2>3, <2>4, <3>1, <3>2, <3>3
  <2>8. CASE ~(HipMalloc(t) \/ RecordRefused(t) \/ HipFree(t))
    <3>1. live' = live /\ missed' = missed
      BY <1>2, <2>8 DEF Malloc, Free, StoreCount, TotalLoad, MallocBegin, SetCapFlag, SetCap, RejectOverCap,
        PassCap, HipMallocNothing, RecordLoad, RecordAppend, TotalAdd,
        ReleaseUntracked, ReleaseFind, ReleaseRemove, TotalSubtract, heapVars, ghosts
    <3>2. Recorded' = Recorded
      BY <3>1 DEF Recorded
    <3> QED
      BY <2>3, <3>2
  <2> QED
    BY <2>5, <2>6, <2>7, <2>8
<1> QED
  BY <1>1, <1>2 DEF Next

(* Without overlap the memory outstanding stays under the cap, whatever is
   asked for and however the 64-bit sum wraps. *)
THEOREM CapIsHonoured == Spec => []CapHonoured
<1> DEFINE Inv == LInv /\ CapRead /\ CapHonoured
<1>1. Init => Inv
  BY InitInv, FitsInit, SerialInit, CapInit DEF LInv
<1>2. Inv /\ [Next]_vars => Inv'
  <2> SUFFICES ASSUME Inv, [Next]_vars PROVE Inv'
    OBVIOUS
  <2>1. LInv'
    BY StepInv, FitsStep, SerialStep DEF LInv
  <2> QED
    BY <2>1, CapReadStep, CapStep
<1> QED
  BY <1>1, <1>2, PTL DEF Spec
=============================================================================
