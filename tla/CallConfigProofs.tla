-------------------------- MODULE CallConfigProofs --------------------------
(***************************************************************************)
(* For any number of threads and any stack size: the shared configuration  *)
(* stack stays in range whatever the race for its lock, and, when the lazy *)
(* initialisation did not race, the lock excludes and is given back, the   *)
(* depth counts the launches between their push and their pop, and every   *)
(* pushed configuration is launched exactly once; a launch that was never  *)
(* overlapped by another gets its own, and an error is reported once.      *)
(***************************************************************************)
EXTENDS CallConfig, FiniteSetTheorems, TLAPS

(* Until the critical section is initialised nobody can be past its Enter. *)
NobodyBeforeInit ==
  inits = 0 => /\ ~call_config_lock_init
               /\ \A t \in Threads : pc[t] \notin Critical \cup {"publish", "enter"}

(* Whoever is inside owns the section: what makes MutualExclusion inductive. *)
InsideOwns == inits <= 1 => \A t \in Threads : pc[t] \in Critical => lock_owner = t

(* The depth a thread loaded is still current when it stores. *)
DepthFresh == inits <= 1 => \A t \in Threads : pc[t] = "store" => reg[t] = call_config_depth

(* A caller outside a launch has nothing half done: its next call is a push. *)
IdleBeforePush == \A t \in Threads : pc[t] \in {"idle", "reset"} => op[t] = "push"

(* The last call of a launch touches neither the stack nor its lock. *)
OpShape ==
  \A t \in Threads :
    /\ pc[t] = "launch" => op[t] = "launch"
    /\ op[t] = "launch" => pc[t] \in {"launch", "fail"}

LockInv == IdleBeforePush /\ NobodyBeforeInit /\ InsideOwns /\ LockNotLeaked /\ OpShape

IInv == TypeOK /\ LockInv /\ DepthFresh /\ DepthCountsLaunches

-----------------------------------------------------------------------------
LEMMA InitInv == Init => IInv
<1> SUFFICES ASSUME Init PROVE IInv
  OBVIOUS
<1>1. TypeOK
  <2>1. call_config_lock_init \in BOOLEAN /\ overlapped \in BOOLEAN /\ unread \in BOOLEAN
    BY DEF Init
  <2>2. /\ pc \in [Threads -> PCs] /\ op \in [Threads -> Ops]
        /\ \A t \in Threads : pc[t] # "store"
    BY DEF Init, PCs, Ops
  <2>3. /\ call_config_stack \in [1 .. StackSize -> Threads \cup {NoThread}]
        /\ got \in [Threads -> Threads \cup {NoThread}]
        /\ lock_owner \in Threads \cup {NoThread}
    BY DEF Init
  <2>4. /\ call_config_depth \in 0 .. StackSize
        /\ reg \in [Threads -> (0 .. StackSize) \cup {HIP_ERROR_NOT_SUPPORTED}]
        /\ inits \in Nat
        /\ outstanding \in [Threads -> Int]
        /\ last_error \in {HIP_SUCCESS, HIP_ERROR_NOT_SUPPORTED}
    BY CallAssumption DEF Init
  <2> QED
    BY <2>1, <2>2, <2>3, <2>4 DEF TypeOK
<1>2. Holding = {}
  BY DEF Init, Holding
<1>3. DepthCountsLaunches
  BY <1>2, FS_EmptySet DEF Init, DepthCountsLaunches
<1> QED
  BY <1>1, <1>3, CallAssumption DEF Init, IInv, LockInv, IdleBeforePush, NobodyBeforeInit, InsideOwns,
     LockNotLeaked, OpShape, DepthFresh, Critical

LEMMA TypeStep == TypeOK /\ [Next]_vars => TypeOK'
<1> SUFFICES ASSUME TypeOK, [Next]_vars PROVE TypeOK'
  OBVIOUS
<1> USE CallAssumption DEF TypeOK, PCs, Ops, HIP_SUCCESS, HIP_ERROR_NOT_SUPPORTED,
        lockVars, stackVars, errorVars, Goto, Call, Finish
<1>1. CASE UNCHANGED vars
  BY <1>1 DEF vars
<1>2. ASSUME NEW t \in Threads, BeginPush(t) PROVE TypeOK'
  BY <1>2 DEF BeginPush
<1>3. ASSUME NEW t \in Threads, PushNull(t) PROVE TypeOK'
  BY <1>3 DEF PushNull
<1>4. ASSUME NEW t \in Threads, TestLockInit(t) PROVE TypeOK'
  BY <1>4 DEF TestLockInit
<1>5. ASSUME NEW t \in Threads, InitLock(t) PROVE TypeOK'
  BY <1>5 DEF InitLock
<1>6. ASSUME NEW t \in Threads, PublishLock(t) PROVE TypeOK'
  BY <1>6 DEF PublishLock
<1>7. ASSUME NEW t \in Threads, EnterLock(t) PROVE TypeOK'
  BY <1>7 DEF EnterLock
<1>8. ASSUME NEW t \in Threads, LoadDepth(t) PROVE TypeOK'
  BY <1>8 DEF LoadDepth, GivesUp, StackFull, StackEmpty
<1>9. ASSUME NEW t \in Threads, StorePush(t) PROVE TypeOK'
  BY <1>9 DEF StorePush, PushSlot
<1>10. ASSUME NEW t \in Threads, StorePop(t) PROVE TypeOK'
  BY <1>10 DEF StorePop, PopSlot, DecrementDepth
<1>11. ASSUME NEW t \in Threads, LeaveLock(t) PROVE TypeOK'
  BY <1>11 DEF LeaveLock
<1>12. ASSUME NEW t \in Threads, BailOut(t) PROVE TypeOK'
  BY <1>12 DEF BailOut
<1>13. ASSUME NEW t \in Threads, SetLastError(t) PROVE TypeOK'
  <2>1. unread' \in BOOLEAN /\ last_error' \in {HIP_SUCCESS, HIP_ERROR_NOT_SUPPORTED}
    BY <1>13 DEF SetLastError
  <2>2. CASE op[t] = "pop"
    <3>1. pc' = [pc EXCEPT ![t] = "launch"] /\ op' = [op EXCEPT ![t] = "launch"]
      BY <1>13, <2>2 DEF SetLastError
    <3>2. pc' \in [Threads -> PCs] /\ op' \in [Threads -> Ops]
      BY <3>1
    <3>3. reg' = reg /\ got' = got
      BY <1>13, <2>2 DEF SetLastError
    <3>4. \A u \in Threads : pc'[u] = "store" => pc[u] = "store" /\ op'[u] = op[u]
      BY <3>1
    <3>5. UNCHANGED <<lockVars, stackVars, overlapped>>
      BY <1>13 DEF SetLastError
    <3> QED
      BY <2>1, <3>2, <3>3, <3>4, <3>5
  <2>3. CASE op[t] # "pop"
    <3>1. Finish(t)
      BY <1>13, <2>3 DEF SetLastError
    <3>2. /\ pc' \in [Threads -> PCs] /\ op' \in [Threads -> Ops]
          /\ \A u \in Threads : pc'[u] = "store" => u # t
      BY <3>1
    <3>3. /\ got' \in [Threads -> Threads \cup {NoThread}]
          /\ reg' \in [Threads -> (0 .. StackSize) \cup {HIP_ERROR_NOT_SUPPORTED}]
          /\ \A u \in Threads \ {t} : pc'[u] = pc[u] /\ op'[u] = op[u] /\ reg'[u] = reg[u]
      BY <3>1
    <3>4. UNCHANGED <<lockVars, stackVars, overlapped>>
      BY <1>13 DEF SetLastError
    <3>5. \A u \in Threads : pc'[u] = "store" => pc[u] = "store" /\ op'[u] = op[u] /\ reg'[u] = reg[u]
      BY <3>2, <3>3
    <3> QED
      BY <2>1, <3>2, <3>3, <3>4, <3>5
  <2> QED
    BY <2>2, <2>3
<1>14. ASSUME NEW t \in Threads, LaunchSucceeds(t) PROVE TypeOK'
  BY <1>14 DEF LaunchSucceeds, Launched
<1>15. ASSUME NEW t \in Threads, LaunchFails(t) PROVE TypeOK'
  BY <1>15 DEF LaunchFails, Launched
<1>16. ASSUME NEW t \in Threads, LoadLastError(t) PROVE TypeOK'
  <2>1. unread' \in BOOLEAN
    BY <1>16 DEF LoadLastError
  <2>2. /\ pc' \in [Threads -> PCs]
        /\ reg' \in [Threads -> (0 .. StackSize) \cup {HIP_ERROR_NOT_SUPPORTED}]
        /\ \A u \in Threads : pc'[u] = "store" => pc[u] = "store" /\ reg'[u] = reg[u]
    BY <1>16 DEF LoadLastError
  <2> QED
    BY <1>16, <2>1, <2>2 DEF LoadLastError
<1>17. ASSUME NEW t \in Threads, ResetLastError(t) PROVE TypeOK'
  BY <1>17 DEF ResetLastError
<1> QED
  BY <1>1, <1>2, <1>3, <1>4, <1>5, <1>6, <1>7, <1>8, <1>9, <1>10, <1>11, <1>12, <1>13, <1>14, <1>15, <1>16, <1>17 DEF Next, Continue

-----------------------------------------------------------------------------
(* What a step must show besides its types: that the section stays excluded,
   and that the depth follows the set of launches that hold a configuration. *)
LEMMA LockStep == IInv /\ [Next]_vars => LockInv'
<1> SUFFICES ASSUME IInv, [Next]_vars PROVE LockInv'
  OBVIOUS
<1> USE CallAssumption DEF IInv, LockInv, TypeOK, IdleBeforePush, NobodyBeforeInit, InsideOwns,
        LockNotLeaked, OpShape, Critical, lockVars, Goto, Call, Finish
<1>1. CASE UNCHANGED vars
  BY <1>1 DEF vars
<1>2. ASSUME NEW t \in Threads, BeginPush(t) PROVE LockInv'
  BY <1>2 DEF BeginPush
<1>3. ASSUME NEW t \in Threads, PushNull(t) PROVE LockInv'
  BY <1>3 DEF PushNull
<1>4. ASSUME NEW t \in Threads, TestLockInit(t) PROVE LockInv'
  BY <1>4 DEF TestLockInit
<1>5. ASSUME NEW t \in Threads, InitLock(t) PROVE LockInv'
  BY <1>5 DEF InitLock
<1>6. ASSUME NEW t \in Threads, PublishLock(t) PROVE LockInv'
  BY <1>6 DEF PublishLock
<1>7. ASSUME NEW t \in Threads, EnterLock(t) PROVE LockInv'
  BY <1>7 DEF EnterLock
<1>8. ASSUME NEW t \in Threads, LoadDepth(t) PROVE LockInv'
  BY <1>8 DEF LoadDepth
<1>9. ASSUME NEW t \in Threads, StorePush(t) PROVE LockInv'
  BY <1>9 DEF StorePush
<1>10. ASSUME NEW t \in Threads, StorePop(t) PROVE LockInv'
  BY <1>10 DEF StorePop
<1>11. ASSUME NEW t \in Threads, LeaveLock(t) PROVE LockInv'
  BY <1>11 DEF LeaveLock
<1>12. ASSUME NEW t \in Threads, BailOut(t) PROVE LockInv'
  BY <1>12 DEF BailOut
<1>13. ASSUME NEW t \in Threads, SetLastError(t) PROVE LockInv'
  <2>1. UNCHANGED lockVars /\ pc[t] = "fail"
    BY <1>13 DEF SetLastError
  <2>2. CASE op[t] = "pop"
    <3>1. pc' = [pc EXCEPT ![t] = "launch"] /\ op' = [op EXCEPT ![t] = "launch"]
      BY <1>13, <2>2 DEF SetLastError
    <3> QED
      BY <2>1, <3>1
  <2>3. CASE op[t] # "pop"
    <3>1. pc' = [pc EXCEPT ![t] = "idle"] /\ op' = [op EXCEPT ![t] = "push"]
      BY <1>13, <2>3 DEF SetLastError
    <3> QED
      BY <2>1, <3>1
  <2> QED
    BY <2>2, <2>3
<1>14. ASSUME NEW t \in Threads, LaunchSucceeds(t) PROVE LockInv'
  BY <1>14 DEF LaunchSucceeds
<1>15. ASSUME NEW t \in Threads, LaunchFails(t) PROVE LockInv'
  BY <1>15 DEF LaunchFails
<1>16. ASSUME NEW t \in Threads, LoadLastError(t) PROVE LockInv'
  BY <1>16 DEF LoadLastError
<1>17. ASSUME NEW t \in Threads, ResetLastError(t) PROVE LockInv'
  BY <1>17 DEF ResetLastError
<1> QED
  BY <1>1, <1>2, <1>3, <1>4, <1>5, <1>6, <1>7, <1>8, <1>9, <1>10, <1>11, <1>12, <1>13, <1>14, <1>15, <1>16, <1>17 DEF Next, Continue

-----------------------------------------------------------------------------
LEMMA HoldingFinite == IsFiniteSet(Holding) /\ Holding \subseteq Threads
BY CallAssumption, FS_Subset DEF Holding

(* Every step but the two that store keeps the depth and the holders. *)
LEMMA DepthStep == IInv /\ [Next]_vars => DepthFresh' /\ DepthCountsLaunches'
<1> SUFFICES ASSUME IInv, [Next]_vars, inits' <= 1
             PROVE  /\ \A u \in Threads : pc'[u] = "store" => reg'[u] = call_config_depth'
                    /\ call_config_depth' = Cardinality(Holding')
  BY DEF DepthFresh, DepthCountsLaunches, Holding
<1> DEFINE Kept == /\ \A u \in Threads : pc'[u] = "store" => reg'[u] = call_config_depth'
                   /\ call_config_depth' = Cardinality(Holding')
<1>a. inits <= 1
  BY DEF IInv, LockInv, TypeOK, Next, Continue, vars, lockVars, BeginPush, PushNull, TestLockInit, InitLock,
         PublishLock, EnterLock, LoadDepth, StorePush, StorePop, LeaveLock, BailOut, SetLastError,
         LaunchSucceeds, LaunchFails, LoadLastError, ResetLastError
<1>b. call_config_depth = Cardinality(Holding) /\ call_config_depth \in 0 .. StackSize
  BY <1>a DEF IInv, LockInv, TypeOK, DepthCountsLaunches
<1>c. \A u \in Threads : pc[u] = "store" => reg[u] = call_config_depth
  BY <1>a DEF IInv, LockInv, DepthFresh
<1>d. \A t, u \in Threads : pc[t] \in Critical /\ pc[u] \in Critical => t = u
  BY <1>a DEF IInv, LockInv, InsideOwns
<1>e. ASSUME call_config_depth' = call_config_depth, Holding' = Holding,
             \A u \in Threads : pc'[u] = "store" => pc[u] = "store" /\ reg'[u] = reg[u]
      PROVE  Kept
  BY <1>b, <1>c, <1>e
<1>t. pc \in [Threads -> PCs] /\ op \in [Threads -> Ops] /\ reg \in [Threads -> (0 .. StackSize) \cup {HIP_ERROR_NOT_SUPPORTED}]
  BY DEF IInv, LockInv, TypeOK
<1> USE <1>t DEF stackVars, Goto, Call, Finish
<1> HIDE DEF Kept
<1>1. CASE UNCHANGED vars
  <2>1. pc' = pc /\ op' = op
    BY <1>1 DEF vars
  <2>2. Holding' = Holding
    BY <2>1 DEF Holding
  <2> QED
    BY <1>1, <1>e, <2>2 DEF vars, Kept
<1>2. ASSUME NEW t \in Threads, BeginPush(t) PROVE Kept
  <2>1. op' = op /\ pc' = [pc EXCEPT ![t] = "ensure"] /\ pc[t] = "idle"
    BY <1>2 DEF BeginPush
  <2>3. op[t] = "push"
    BY <2>1 DEF IInv, LockInv, IdleBeforePush
  <2>2. Holding' = Holding
    BY <2>1, <2>3 DEF Holding
  <2> QED
    BY <1>2, <1>e, <2>2 DEF BeginPush
<1>3. ASSUME NEW t \in Threads, PushNull(t) PROVE Kept
  <2>1. Holding' = Holding
    BY <1>3 DEF PushNull, Holding
  <2> QED
    BY <1>3, <1>e, <2>1 DEF PushNull
<1>4. ASSUME NEW t \in Threads, TestLockInit(t) PROVE Kept
  <2>1. Holding' = Holding
    BY <1>4 DEF TestLockInit, Holding
  <2> QED
    BY <1>4, <1>e, <2>1 DEF TestLockInit
<1>5. ASSUME NEW t \in Threads, InitLock(t) PROVE Kept
  <2>1. Holding' = Holding
    BY <1>5 DEF InitLock, Holding
  <2> QED
    BY <1>5, <1>e, <2>1 DEF InitLock
<1>6. ASSUME NEW t \in Threads, PublishLock(t) PROVE Kept
  <2>1. Holding' = Holding
    BY <1>6 DEF PublishLock, Holding
  <2> QED
    BY <1>6, <1>e, <2>1 DEF PublishLock
<1>7. ASSUME NEW t \in Threads, EnterLock(t) PROVE Kept
  <2>1. Holding' = Holding
    BY <1>7 DEF EnterLock, Holding
  <2> QED
    BY <1>7, <1>e, <2>1 DEF EnterLock
<1>8. ASSUME NEW t \in Threads, LoadDepth(t) PROVE Kept
  <2>1. CASE GivesUp(t)
    <3>1. op[t] # "pop"
      <4>1. SUFFICES ASSUME op[t] = "pop" PROVE FALSE
        OBVIOUS
      <4>2. t \in Holding
        BY <1>8, <4>1 DEF LoadDepth, Holding
      <4>3. Cardinality(Holding) = 0
        BY <1>b, <2>1, <4>1 DEF GivesUp, StackEmpty
      <4> QED
        BY <4>2, <4>3, HoldingFinite, FS_EmptySet
    <3>2. Holding' = Holding
      BY <1>8, <2>1, <3>1 DEF LoadDepth, Holding
    <3> QED
      BY <1>8, <1>e, <2>1, <3>2 DEF LoadDepth
  <2>2. CASE ~GivesUp(t)
    <3>1. Holding' = Holding
      BY <1>8, <2>2 DEF LoadDepth, Holding
    <3>2. \A u \in Threads : pc'[u] = "store" => reg'[u] = call_config_depth'
      BY <1>8, <1>c, <2>2 DEF LoadDepth
    <3> QED
      BY <1>8, <1>b, <3>1, <3>2 DEF LoadDepth, Kept
  <2> QED
    BY <2>1, <2>2
<1>9. ASSUME NEW t \in Threads, StorePush(t) PROVE Kept
  <2>1. Holding' = Holding \cup {t} /\ t \notin Holding
    BY <1>9 DEF StorePush, Holding
  <2>2. Cardinality(Holding') = Cardinality(Holding) + 1
    BY <2>1, HoldingFinite, FS_AddElement
  <2>3. call_config_depth' = call_config_depth + 1
    BY <1>9, <1>c DEF StorePush
  <2>4. \A u \in Threads : pc'[u] # "store"
    BY <1>9, <1>d DEF StorePush, Critical
  <2> QED
    BY <1>b, <2>2, <2>3, <2>4 DEF Kept
<1>10. ASSUME NEW t \in Threads, StorePop(t) PROVE Kept
  <2>1. Holding' = Holding \ {t} /\ t \in Holding
    BY <1>10 DEF StorePop, Holding
  <2>2. Cardinality(Holding') = Cardinality(Holding) - 1
    BY <2>1, HoldingFinite, FS_RemoveElement
  <2>3. call_config_depth' = call_config_depth - 1
    BY <1>10, <1>c DEF StorePop, DecrementDepth
  <2>4. \A u \in Threads : pc'[u] # "store"
    BY <1>10, <1>d DEF StorePop, Critical
  <2> QED
    BY <1>b, <2>2, <2>3, <2>4 DEF Kept
<1>11. ASSUME NEW t \in Threads, LeaveLock(t) PROVE Kept
  <2>1. Holding' = Holding
    BY <1>11 DEF LeaveLock, Holding
  <2> QED
    BY <1>11, <1>e, <2>1 DEF LeaveLock
<1>12. ASSUME NEW t \in Threads, BailOut(t) PROVE Kept
  <2>1. Holding' = Holding
    BY <1>12 DEF BailOut, Holding
  <2> QED
    BY <1>12, <1>e, <2>1 DEF BailOut
<1>13. ASSUME NEW t \in Threads, SetLastError(t) PROVE Kept
  <2>1. Holding' = Holding
    BY <1>13 DEF SetLastError, Holding
  <2> QED
    BY <1>13, <1>e, <2>1 DEF SetLastError
<1>14. ASSUME NEW t \in Threads, LaunchSucceeds(t) PROVE Kept
  <2>1. Holding' = Holding
    BY <1>14 DEF LaunchSucceeds, Holding
  <2> QED
    BY <1>14, <1>e, <2>1 DEF LaunchSucceeds
<1>15. ASSUME NEW t \in Threads, LaunchFails(t) PROVE Kept
  <2>1. Holding' = Holding
    BY <1>15 DEF LaunchFails, Holding
  <2> QED
    BY <1>15, <1>e, <2>1 DEF LaunchFails
<1>16. ASSUME NEW t \in Threads, LoadLastError(t) PROVE Kept
  <2>1. Holding' = Holding
    BY <1>16 DEF LoadLastError, Holding
  <2> QED
    BY <1>16, <1>e, <2>1 DEF LoadLastError
<1>17. ASSUME NEW t \in Threads, ResetLastError(t) PROVE Kept
  <2>1. Holding' = Holding
    BY <1>17 DEF ResetLastError, Holding
  <2> QED
    BY <1>17, <1>e, <2>1 DEF ResetLastError
<1> QED
  BY <1>1, <1>2, <1>3, <1>4, <1>5, <1>6, <1>7, <1>8, <1>9, <1>10, <1>11, <1>12, <1>13, <1>14, <1>15, <1>16, <1>17 DEF Next, Continue, Kept

-----------------------------------------------------------------------------
LEMMA StepInv == IInv /\ [Next]_vars => IInv'
BY TypeStep, LockStep, DepthStep DEF IInv, LockInv

(* Every variable keeps its type, and no push or pop leaves the stack, even
   when the lock was initialised twice. *)
THEOREM TypeCorrect == Spec => []TypeOK
<1>1. IInv => TypeOK
  BY DEF IInv, LockInv
<1> QED
  BY InitInv, StepInv, <1>1, PTL DEF Spec

(* call_config_lock excludes whenever its lazy initialisation did not race. *)
THEOREM LockExcludes == Spec => []MutualExclusion
<1>1. IInv => MutualExclusion
  BY DEF IInv, LockInv, InsideOwns, MutualExclusion
<1> QED
  BY InitInv, StepInv, <1>1, PTL DEF Spec

(* Nobody outside a push or a pop owns the lock, whenever the initialisation
   did not race. *)
THEOREM LockGivenBack == Spec => []LockNotLeaked
<1>1. IInv => LockNotLeaked
  BY DEF IInv, LockInv
<1> QED
  BY InitInv, StepInv, <1>1, PTL DEF Spec

(* A pop never finds the stack empty, and a push is refused only when StackSize
   other launches are half way, whenever the initialisation did not race. *)
THEOREM DepthIsExact == Spec => []DepthCountsLaunches
<1>1. IInv => DepthCountsLaunches
  BY DEF IInv, LockInv
<1> QED
  BY InitInv, StepInv, <1>1, PTL DEF Spec

-----------------------------------------------------------------------------
(* A popped configuration is with its thread from the pop's store to the
   launch, and at no other step. *)
GotShape ==
  \A t \in Threads : got[t] # NoThread =>
    \/ op[t] = "pop" /\ pc[t] = "leave"
    \/ op[t] = "launch" /\ pc[t] = "launch"

OnStack(c) == {i \in 1 .. call_config_depth : call_config_stack[i] = c}
With(c) == {t \in Threads : got[t] = c}

LEMMA GotShapeStep == IInv /\ GotShape /\ [Next]_vars => GotShape'
<1> SUFFICES ASSUME IInv, GotShape, [Next]_vars PROVE GotShape'
  OBVIOUS
<1>a. /\ pc \in [Threads -> PCs] /\ op \in [Threads -> Ops]
      /\ got \in [Threads -> Threads \cup {NoThread}]
      /\ \A t \in Threads : pc[t] \in {"idle", "reset"} => op[t] = "push"
  BY DEF IInv, LockInv, TypeOK, IdleBeforePush
<1> USE <1>a DEF GotShape, Goto, Call, Finish
<1>1. CASE UNCHANGED vars
  BY <1>1 DEF vars
<1>2. ASSUME NEW t \in Threads,
             \/ BeginPush(t) \/ PushNull(t) \/ TestLockInit(t) \/ InitLock(t) \/ PublishLock(t)
             \/ EnterLock(t) \/ LoadDepth(t) \/ BailOut(t) \/ LoadLastError(t)
      PROVE  GotShape'
  BY <1>2 DEF BeginPush, PushNull, TestLockInit, InitLock, PublishLock, EnterLock, LoadDepth,
     BailOut, LoadLastError
<1>3. ASSUME NEW t \in Threads, StorePush(t) PROVE GotShape'
  <2>1. pc[t] = "store" /\ pc' = [pc EXCEPT ![t] = "leave"] /\ op' = op /\ got' = got
    BY <1>3 DEF StorePush
  <2> QED
    BY <2>1
<1>4. ASSUME NEW t \in Threads, StorePop(t) PROVE GotShape'
  <2>1. /\ op[t] = "pop" /\ pc' = [pc EXCEPT ![t] = "leave"] /\ op' = op
        /\ \A u \in Threads \ {t} : got'[u] = got[u]
    BY <1>4 DEF StorePop
  <2> QED
    BY <2>1
<1>5. ASSUME NEW t \in Threads, LeaveLock(t) PROVE GotShape'
  BY <1>5 DEF LeaveLock
<1>6. ASSUME NEW t \in Threads, SetLastError(t) PROVE GotShape'
  BY <1>6 DEF SetLastError
<1>7. ASSUME NEW t \in Threads, LaunchSucceeds(t) \/ LaunchFails(t) \/ ResetLastError(t)
      PROVE  GotShape'
  BY <1>7 DEF LaunchSucceeds, LaunchFails, ResetLastError
<1> QED
  BY <1>1, <1>2, <1>3, <1>4, <1>5, <1>6, <1>7 DEF Next, Continue

(* Only four steps move a configuration. *)
LEMMA ConfigFrame ==
  ASSUME IInv, GotShape, [Next]_vars
  PROVE  \/ UNCHANGED <<stackVars, got>>
         \/ \E t \in Threads : StorePush(t) \/ StorePop(t) \/ LaunchSucceeds(t) \/ LaunchFails(t)
<1>a. got \in [Threads -> Threads \cup {NoThread}]
  BY DEF IInv, LockInv, TypeOK
<1>1. CASE UNCHANGED vars
  BY <1>1 DEF vars, stackVars
<1>2. ASSUME NEW t \in Threads,
             \/ BeginPush(t) \/ PushNull(t) \/ TestLockInit(t) \/ InitLock(t) \/ PublishLock(t)
             \/ EnterLock(t) \/ LoadDepth(t) \/ BailOut(t) \/ LoadLastError(t) \/ LeaveLock(t)
      PROVE  UNCHANGED <<stackVars, got>>
  BY <1>2 DEF BeginPush, PushNull, TestLockInit, InitLock, PublishLock, EnterLock, LoadDepth,
     BailOut, LoadLastError, LeaveLock, stackVars
<1>3. ASSUME NEW t \in Threads, SetLastError(t) \/ ResetLastError(t)
      PROVE  UNCHANGED <<stackVars, got>>
  <2>1. got[t] = NoThread
    BY <1>3 DEF SetLastError, ResetLastError, GotShape
  <2>2. got' = got \/ got' = [got EXCEPT ![t] = NoThread]
    BY <1>3 DEF SetLastError, ResetLastError, Finish
  <2> QED
    BY <1>a, <1>3, <2>1, <2>2 DEF SetLastError, ResetLastError, stackVars
<1> QED
  BY <1>1, <1>2, <1>3 DEF Next, Continue

LEMMA InitsFrame == IInv /\ [Next]_vars /\ inits' <= 1 => inits <= 1
BY DEF IInv, LockInv, TypeOK, Next, Continue, vars, lockVars, BeginPush, PushNull, TestLockInit, InitLock,
       PublishLock, EnterLock, LoadDepth, StorePush, StorePop, LeaveLock, BailOut, SetLastError,
       LaunchSucceeds, LaunchFails, LoadLastError, ResetLastError

LEMMA ConfigsFinite ==
  ASSUME TypeOK, NEW c
  PROVE  /\ IsFiniteSet(OnStack(c)) /\ Cardinality(OnStack(c)) \in Nat
         /\ IsFiniteSet(With(c)) /\ Cardinality(With(c)) \in Nat
<1>1. call_config_depth \in Int
  BY CallAssumption DEF TypeOK
<1>2. IsFiniteSet(1 .. call_config_depth)
  BY <1>1, 1 \in Int, FS_Interval
<1>3. OnStack(c) \subseteq 1 .. call_config_depth /\ With(c) \subseteq Threads
  BY DEF OnStack, With
<1>4. IsFiniteSet(OnStack(c)) /\ IsFiniteSet(With(c))
  BY <1>2, <1>3, FS_Subset, CallAssumption
<1> QED
  BY <1>4, FS_CardinalityType

LEMMA LaunchBalances ==
  ASSUME IInv, inits <= 1, NEW t \in Threads, NEW c \in Threads,
         outstanding[c] = Cardinality(OnStack(c)) + Cardinality(With(c)),
         call_config_depth' = call_config_depth, call_config_stack' = call_config_stack,
         Launched(t), got' = [got EXCEPT ![t] = NoThread]
  PROVE  outstanding'[c] = Cardinality(OnStack(c)') + Cardinality(With(c)')
<1>1. got \in [Threads -> Threads \cup {NoThread}] /\ outstanding \in [Threads -> Int] /\ TypeOK
  BY DEF IInv, LockInv, TypeOK
<1>2. OnStack(c)' = OnStack(c)
  BY DEF OnStack
<1>3. CASE got[t] = c
  <2>1. With(c)' = With(c) \ {t} /\ t \in With(c)
    BY <1>1, <1>3, CallAssumption DEF With
  <2>2. Cardinality(With(c)') = Cardinality(With(c)) - 1
    BY <1>1, <2>1, ConfigsFinite, FS_RemoveElement
  <2>3. outstanding'[c] = outstanding[c] - 1
    BY <1>1, <1>3 DEF Launched
  <2> QED
    BY <1>1, <1>2, <2>2, <2>3, ConfigsFinite
<1>4. CASE got[t] # c
  <2>1. With(c)' = With(c)
    BY <1>1, <1>4, CallAssumption DEF With
  <2>2. outstanding'[c] = outstanding[c]
    BY <1>1, <1>4 DEF Launched
  <2> QED
    BY <1>2, <2>1, <2>2
<1> QED
  BY <1>3, <1>4

(* A push adds its configuration at the top of the stack, a pop hands the top
   to its thread, a launch uses up what its thread holds. *)
LEMMA AccountStep ==
  ASSUME IInv, GotShape, [Next]_vars, inits' <= 1, NEW c \in Threads,
         outstanding[c] = Cardinality(OnStack(c)) + Cardinality(With(c))
  PROVE  outstanding'[c] = Cardinality(OnStack(c)') + Cardinality(With(c)')
<1>a. /\ TypeOK /\ got \in [Threads -> Threads \cup {NoThread}]
      /\ outstanding \in [Threads -> Int] /\ call_config_depth \in 0 .. StackSize
      /\ call_config_stack \in [1 .. StackSize -> Threads \cup {NoThread}]
      /\ StackSize \in Nat
  BY CallAssumption DEF IInv, LockInv, TypeOK
<1>b. inits <= 1
  BY InitsFrame
<1>c. \A t \in Threads : pc[t] = "store" => reg[t] = call_config_depth
  BY <1>b DEF IInv, LockInv, DepthFresh
<1>d. /\ IsFiniteSet(OnStack(c)) /\ Cardinality(OnStack(c)) \in Nat
      /\ IsFiniteSet(With(c)) /\ Cardinality(With(c)) \in Nat
  BY <1>a, ConfigsFinite
<1>1. CASE UNCHANGED <<stackVars, got>>
  <2>1. /\ outstanding' = outstanding /\ got' = got
        /\ call_config_depth' = call_config_depth /\ call_config_stack' = call_config_stack
    BY <1>1 DEF stackVars
  <2>2. OnStack(c)' = OnStack(c) /\ With(c)' = With(c)
    BY <2>1 DEF OnStack, With
  <2> QED
    BY <2>1, <2>2
<1>2. ASSUME NEW t \in Threads, StorePush(t)
      PROVE  outstanding'[c] = Cardinality(OnStack(c)') + Cardinality(With(c)')
  <2>1. /\ call_config_depth' = call_config_depth + 1 /\ got' = got
        /\ call_config_stack' = [call_config_stack EXCEPT ![call_config_depth + 1] = t]
        /\ outstanding' = [outstanding EXCEPT ![t] = @ + 1]
    BY <1>b, <1>c, <1>2 DEF StorePush, PushSlot
  <2>2. call_config_depth + 1 \in 1 .. StackSize
    BY <1>a, <1>c, <1>2 DEF StorePush, TypeOK
  <2>3. With(c)' = With(c)
    BY <2>1 DEF With
  <2>4. \A i \in 1 .. call_config_depth : call_config_stack'[i] = call_config_stack[i]
    BY <1>a, <2>1, <2>2
  <2>5. call_config_stack'[call_config_depth + 1] = t
    BY <1>a, <2>1, <2>2
  <2>6. 1 .. call_config_depth' = (1 .. call_config_depth) \cup {call_config_depth + 1}
    BY <1>a, <2>1
  <2>7. CASE t = c
    <3>1. OnStack(c)' = OnStack(c) \cup {call_config_depth + 1}
      BY <2>4, <2>5, <2>6, <2>7 DEF OnStack
    <3>2. call_config_depth + 1 \notin OnStack(c)
      BY <1>a DEF OnStack
    <3>3. Cardinality(OnStack(c)') = Cardinality(OnStack(c)) + 1
      BY <1>d, <3>1, <3>2, FS_AddElement
    <3> QED
      BY <1>a, <1>d, <2>1, <2>3, <2>7, <3>3
  <2>8. CASE t # c
    <3>1. OnStack(c)' = OnStack(c)
      BY <2>4, <2>5, <2>6, <2>8 DEF OnStack
    <3> QED
      BY <1>a, <2>1, <2>3, <2>8, <3>1
  <2> QED
    BY <2>7, <2>8
<1>3. ASSUME NEW t \in Threads, StorePop(t)
      PROVE  outstanding'[c] = Cardinality(OnStack(c)') + Cardinality(With(c)')
  <2>1. /\ call_config_depth' = call_config_depth - 1 /\ outstanding' = outstanding
        /\ got' = [got EXCEPT ![t] = call_config_stack[call_config_depth]]
        /\ call_config_stack' = call_config_stack
    BY <1>c, <1>3 DEF StorePop, PopSlot, DecrementDepth
  <2>2. call_config_depth \in 1 .. StackSize
    BY <1>a, <1>c, <1>3 DEF StorePop, TypeOK
  <2>3. got[t] = NoThread
    BY <1>3 DEF StorePop, GotShape
  <2>4. 1 .. call_config_depth' = (1 .. call_config_depth) \ {call_config_depth}
    BY <1>a, <2>1, <2>2
  <2>5. OnStack(c)' = OnStack(c) \ {call_config_depth}
    BY <2>1, <2>4 DEF OnStack
  <2>6. CASE call_config_stack[call_config_depth] = c
    <3>1. call_config_depth \in OnStack(c)
      BY <2>2, <2>6 DEF OnStack
    <3>2. Cardinality(OnStack(c)') = Cardinality(OnStack(c)) - 1
      BY <1>d, <2>5, <3>1, FS_RemoveElement
    <3>3. With(c)' = With(c) \cup {t} /\ t \notin With(c)
      BY <1>a, <2>1, <2>3, <2>6, CallAssumption DEF With
    <3>4. Cardinality(With(c)') = Cardinality(With(c)) + 1
      BY <1>d, <3>3, FS_AddElement
    <3> QED
      BY <1>a, <1>d, <2>1, <3>2, <3>4
  <2>7. CASE call_config_stack[call_config_depth] # c
    <3>1. OnStack(c)' = OnStack(c)
      BY <2>5, <2>7 DEF OnStack
    <3>2. With(c)' = With(c)
      BY <1>a, <2>1, <2>3, <2>7, CallAssumption DEF With
    <3> QED
      BY <2>1, <3>1, <3>2
  <2> QED
    BY <2>6, <2>7
<1>4. ASSUME NEW t \in Threads, LaunchSucceeds(t) \/ LaunchFails(t)
      PROVE  outstanding'[c] = Cardinality(OnStack(c)') + Cardinality(With(c)')
  <2>1. /\ Launched(t) /\ got' = [got EXCEPT ![t] = NoThread]
        /\ call_config_depth' = call_config_depth /\ call_config_stack' = call_config_stack
    BY <1>4 DEF LaunchSucceeds, LaunchFails, Finish
  <2> QED
    BY <1>b, <2>1, LaunchBalances
<1> QED
  BY <1>1, <1>2, <1>3, <1>4, ConfigFrame

LEMMA AccountInit == Init => GotShape /\ EachConfigLaunchedOnce
<1> SUFFICES ASSUME Init PROVE GotShape /\ EachConfigLaunchedOnce
  OBVIOUS
<1>1. ASSUME NEW c \in Threads PROVE OnStack(c) = {} /\ With(c) = {} /\ outstanding[c] = 0
  BY CallAssumption DEF Init, OnStack, With
<1>2. EachConfigLaunchedOnce
  BY <1>1, FS_EmptySet DEF EachConfigLaunchedOnce, OnStack, With
<1> QED
  BY <1>2 DEF Init, GotShape

(* Every configuration a push stored is launched exactly once, for any number
   of threads and any stack size, when the lazy initialisation did not race. *)
THEOREM ConfigsLaunchedOnce == Spec => []EachConfigLaunchedOnce
<1>1. IInv /\ GotShape /\ EachConfigLaunchedOnce /\ [Next]_vars => EachConfigLaunchedOnce'
  <2> SUFFICES ASSUME IInv, GotShape, EachConfigLaunchedOnce, [Next]_vars, inits' <= 1,
                      NEW c \in Threads
               PROVE  outstanding'[c] = Cardinality(OnStack(c)') + Cardinality(With(c)')
    BY DEF EachConfigLaunchedOnce, OnStack, With
  <2>1. outstanding[c] = Cardinality(OnStack(c)) + Cardinality(With(c))
    BY InitsFrame DEF EachConfigLaunchedOnce, OnStack, With
  <2> QED
    BY <2>1, AccountStep
<1> QED
  BY InitInv, StepInv, AccountInit, GotShapeStep, <1>1, PTL DEF Spec

-----------------------------------------------------------------------------
(* While launches never overlap: one thread launches at a time, so the lock is
   initialised once; what that thread pushed is the bottom of the stack; and its
   pop finds it there. *)
OneLaunches == \A t, u \in Threads : Launching(t) /\ Launching(u) => t = u

InitOnce ==
  /\ inits <= 1
  /\ inits = 0 \/ call_config_lock_init \/ \E t \in Threads : pc[t] = "publish"
  /\ \A t \in Threads : pc[t] = "init" => inits = 0

OwnOnStack == \A t \in Holding : call_config_stack[1] = t

OwnPopped ==
  \A t \in Threads :
    /\ op[t] = "pop" => pc[t] \notin {"bail", "fail"}
    /\ op[t] = "pop" /\ pc[t] = "leave" => got[t] = t
    /\ pc[t] = "launch" => got[t] = t

Alone == ~overlapped => OneLaunches /\ InitOnce /\ OwnOnStack /\ OwnPopped

LEMMA AloneDepth ==
  ASSUME IInv, OneLaunches, inits <= 1, NEW t \in Threads, Launching(t)
  PROVE  call_config_depth = IF t \in Holding THEN 1 ELSE 0
<1>1. \A u \in Holding : u \in Threads /\ Launching(u)
  BY DEF Holding, Launching
<1>2. call_config_depth = Cardinality(Holding)
  BY DEF IInv, LockInv, DepthCountsLaunches
<1>3. Holding = IF t \in Holding THEN {t} ELSE {}
  BY <1>1 DEF OneLaunches
<1> QED
  BY <1>2, <1>3, FS_EmptySet, FS_Singleton

LEMMA OverlappedKept == IInv /\ [Next]_vars /\ ~overlapped' => ~overlapped
BY DEF IInv, LockInv, TypeOK, Next, Continue, vars, BeginPush, PushNull, TestLockInit, InitLock, PublishLock,
       EnterLock, LoadDepth, StorePush, StorePop, LeaveLock, BailOut, SetLastError, LaunchSucceeds,
       LaunchFails, LoadLastError, ResetLastError

LEMMA OneLaunchesStep ==
  ASSUME IInv, OneLaunches, [Next]_vars, ~overlapped' PROVE OneLaunches'
<1>a. pc \in [Threads -> PCs] /\ overlapped \in BOOLEAN
  BY DEF IInv, LockInv, TypeOK
<1> USE <1>a DEF OneLaunches, Launching, Goto, Finish
<1>1. CASE UNCHANGED vars
  BY <1>1 DEF vars
<1>2. ASSUME NEW t \in Threads, BeginPush(t) \/ PushNull(t) PROVE OneLaunches'
  BY <1>2 DEF BeginPush, PushNull
<1>3. ASSUME NEW t \in Threads, LoadLastError(t) PROVE OneLaunches'
  BY <1>3 DEF LoadLastError
<1>4. ASSUME NEW t \in Threads, Continue(t) PROVE OneLaunches'
  <2>1. \A u \in Threads \ {t} : pc'[u] = pc[u]
    BY <1>4 DEF Continue, TestLockInit, InitLock, PublishLock, EnterLock, LoadDepth, StorePush,
       StorePop, LeaveLock, BailOut, SetLastError, LaunchSucceeds, LaunchFails, ResetLastError
  <2>2. pc[t] \in {"idle", "reset"} => pc'[t] \in {"idle", "reset"}
    BY <1>4 DEF Continue, TestLockInit, InitLock, PublishLock, EnterLock, LoadDepth, StorePush,
       StorePop, LeaveLock, BailOut, SetLastError, LaunchSucceeds, LaunchFails, ResetLastError
  <2> QED
    BY <2>1, <2>2
<1> QED
  BY <1>1, <1>2, <1>3, <1>4 DEF Next

LEMMA InitOnceStep ==
  ASSUME IInv, OneLaunches, InitOnce, [Next]_vars, ~overlapped' PROVE InitOnce'
<1>a. pc \in [Threads -> PCs] /\ call_config_lock_init \in BOOLEAN /\ inits \in Nat
  BY DEF IInv, LockInv, TypeOK
<1> USE <1>a DEF InitOnce, lockVars, Goto, Finish
<1>1. CASE UNCHANGED vars
  BY <1>1 DEF vars
<1>2. ASSUME NEW t \in Threads, UNCHANGED lockVars, pc[t] # "publish",
             pc'[t] # "init", \A u \in Threads \ {t} : pc'[u] = pc[u]
      PROVE  InitOnce'
  BY <1>2
<1>3. ASSUME NEW t \in Threads, BeginPush(t) \/ PushNull(t) \/ LoadLastError(t) PROVE InitOnce'
  <2>1. pc[t] # "publish" /\ pc'[t] # "init" /\ \A u \in Threads \ {t} : pc'[u] = pc[u]
    BY <1>3 DEF BeginPush, PushNull, LoadLastError
  <2> QED
    BY <1>2, <1>3, <2>1 DEF BeginPush, PushNull, LoadLastError
<1>4. ASSUME NEW t \in Threads, TestLockInit(t) PROVE InitOnce'
  <2>1. /\ pc[t] = "ensure" /\ UNCHANGED lockVars
        /\ pc' = [pc EXCEPT ![t] = IF call_config_lock_init THEN "enter" ELSE "init"]
    BY <1>4 DEF TestLockInit
  <2>2. \A u \in Threads : pc[u] # "publish"
    BY <2>1 DEF OneLaunches, Launching
  <2> QED
    BY <2>1, <2>2
<1>5. ASSUME NEW t \in Threads, InitLock(t) PROVE InitOnce'
  <2>1. /\ pc[t] = "init" /\ inits' = inits + 1 /\ pc' = [pc EXCEPT ![t] = "publish"]
        /\ \A u \in Threads : pc[u] = "init" => u = t
    BY <1>5 DEF InitLock, OneLaunches, Launching
  <2> QED
    BY <2>1
<1>6. ASSUME NEW t \in Threads, PublishLock(t) PROVE InitOnce'
  BY <1>6 DEF PublishLock
<1>7. ASSUME NEW t \in Threads,
             \/ EnterLock(t) \/ LoadDepth(t) \/ StorePush(t) \/ StorePop(t) \/ LeaveLock(t)
             \/ BailOut(t) \/ SetLastError(t) \/ LaunchSucceeds(t) \/ LaunchFails(t)
             \/ ResetLastError(t)
      PROVE  InitOnce'
  <2>1. pc[t] # "publish" /\ pc'[t] # "init" /\ \A u \in Threads \ {t} : pc'[u] = pc[u]
    BY <1>7 DEF EnterLock, LoadDepth, StorePush, StorePop, LeaveLock, BailOut, SetLastError,
       LaunchSucceeds, LaunchFails, ResetLastError
  <2>2. UNCHANGED <<call_config_lock_init, inits>>
    BY <1>7 DEF EnterLock, LoadDepth, StorePush, StorePop, LeaveLock, BailOut, SetLastError,
       LaunchSucceeds, LaunchFails, ResetLastError
  <2> QED
    BY <2>1, <2>2
<1> QED
  BY <1>1, <1>3, <1>4, <1>5, <1>6, <1>7 DEF Next, Continue

(* Whom the steps other than a store leave holding a configuration. *)
LEMMA HoldingFrame ==
  ASSUME IInv, OneLaunches, inits <= 1, [Next]_vars
  PROVE  (\E t \in Threads : StorePush(t)) \/ Holding' \subseteq Holding
<1>a. /\ pc \in [Threads -> PCs] /\ op \in [Threads -> Ops]
      /\ \A t \in Threads : pc[t] \in {"idle", "reset"} => op[t] = "push"
  BY DEF IInv, LockInv, TypeOK, IdleBeforePush
<1> USE <1>a DEF Holding, Goto, Call, Finish
<1>1. CASE UNCHANGED vars
  BY <1>1 DEF vars
<1>2. ASSUME NEW t \in Threads,
             \/ BeginPush(t) \/ PushNull(t) \/ TestLockInit(t) \/ InitLock(t) \/ PublishLock(t)
             \/ EnterLock(t) \/ LoadDepth(t) \/ BailOut(t) \/ LoadLastError(t)
      PROVE  Holding' \subseteq Holding
  BY <1>2 DEF BeginPush, PushNull, TestLockInit, InitLock, PublishLock, EnterLock, LoadDepth,
     BailOut, LoadLastError
<1>3. ASSUME NEW t \in Threads, StorePop(t) PROVE Holding' \subseteq Holding
  BY <1>3 DEF StorePop
<1>4. ASSUME NEW t \in Threads, LeaveLock(t) PROVE Holding' \subseteq Holding
  BY <1>4 DEF LeaveLock
<1>5. ASSUME NEW t \in Threads, SetLastError(t) PROVE Holding' \subseteq Holding
  BY <1>5 DEF SetLastError
<1>6. ASSUME NEW t \in Threads, LaunchSucceeds(t) \/ LaunchFails(t) \/ ResetLastError(t)
      PROVE  Holding' \subseteq Holding
  BY <1>6 DEF LaunchSucceeds, LaunchFails, ResetLastError
<1> QED
  BY <1>1, <1>2, <1>3, <1>4, <1>5, <1>6 DEF Next, Continue

LEMMA OwnOnStackStep ==
  ASSUME IInv, OneLaunches, inits <= 1, OwnOnStack, [Next]_vars PROVE OwnOnStack'
<1>a. /\ pc \in [Threads -> PCs] /\ op \in [Threads -> Ops]
      /\ call_config_stack \in [1 .. StackSize -> Threads \cup {NoThread}]
      /\ 1 \in 1 .. StackSize
  BY CallAssumption DEF IInv, LockInv, TypeOK
<1>1. ASSUME NEW t \in Threads, StorePush(t) PROVE OwnOnStack'
  <2>1. pc[t] = "store" /\ op[t] = "push" /\ Launching(t) /\ t \notin Holding
    BY <1>1 DEF StorePush, Launching, Holding
  <2>2. call_config_depth = 0 /\ reg[t] = 0
    BY <2>1, AloneDepth DEF IInv, LockInv, DepthFresh
  <2>3. call_config_stack' = [call_config_stack EXCEPT ![1] = t]
    BY <1>1, <2>2 DEF StorePush, PushSlot
  <2>4. Holding' = Holding \cup {t}
    BY <1>a, <1>1 DEF StorePush, Holding, Goto
  <2>5. Holding = {}
    BY <2>1 DEF Holding, OneLaunches, Launching
  <2> QED
    BY <1>a, <2>3, <2>4, <2>5 DEF OwnOnStack
<1>2. CASE \A t \in Threads : ~StorePush(t)
  <2>1. call_config_stack' = call_config_stack
    BY <1>2 DEF Next, Continue, vars, stackVars, BeginPush, PushNull, TestLockInit, InitLock,
       PublishLock, EnterLock, LoadDepth, StorePop, LeaveLock, BailOut, SetLastError,
       LaunchSucceeds, LaunchFails, LoadLastError, ResetLastError
  <2>2. Holding' \subseteq Holding
    BY <1>2, HoldingFrame
  <2> QED
    BY <2>1, <2>2 DEF OwnOnStack
<1> QED
  BY <1>1, <1>2

LEMMA OwnPoppedStep ==
  ASSUME IInv, OneLaunches, inits <= 1, OwnOnStack, OwnPopped, [Next]_vars PROVE OwnPopped'
<1>a. /\ pc \in [Threads -> PCs] /\ op \in [Threads -> Ops]
      /\ got \in [Threads -> Threads \cup {NoThread}]
      /\ \A t \in Threads : pc[t] \in {"idle", "reset"} => op[t] = "push"
  BY DEF IInv, LockInv, TypeOK, IdleBeforePush
<1> USE <1>a DEF OwnPopped, Goto, Call, Finish
<1>1. CASE UNCHANGED vars
  BY <1>1 DEF vars
<1>2. ASSUME NEW t \in Threads,
             \/ BeginPush(t) \/ PushNull(t) \/ TestLockInit(t) \/ InitLock(t) \/ PublishLock(t)
             \/ EnterLock(t) \/ BailOut(t) \/ LoadLastError(t)
      PROVE  OwnPopped'
  BY <1>2 DEF BeginPush, PushNull, TestLockInit, InitLock, PublishLock, EnterLock, BailOut,
     LoadLastError
<1>3. ASSUME NEW t \in Threads, LoadDepth(t) PROVE OwnPopped'
  <2>1. op[t] = "pop" => ~GivesUp(t)
    <3> SUFFICES ASSUME op[t] = "pop" PROVE call_config_depth = 1
      BY DEF GivesUp, StackEmpty
    <3>1. t \in Holding /\ Launching(t)
      BY <1>3 DEF LoadDepth, Holding, Launching
    <3> QED
      BY <3>1, AloneDepth
  <2>2. /\ pc' = [pc EXCEPT ![t] = IF GivesUp(t) THEN "bail" ELSE "store"]
        /\ op' = op /\ got' = got
    BY <1>3 DEF LoadDepth
  <2> HIDE DEF GivesUp
  <2> QED
    BY <2>1, <2>2
<1>4. ASSUME NEW t \in Threads, StorePush(t) PROVE OwnPopped'
  <2>1. op[t] = "push" /\ pc' = [pc EXCEPT ![t] = "leave"] /\ op' = op /\ got' = got
    BY <1>4 DEF StorePush
  <2> QED
    BY <2>1
<1>5. ASSUME NEW t \in Threads, StorePop(t) PROVE OwnPopped'
  <2>1. t \in Holding /\ Launching(t) /\ pc[t] = "store"
    BY <1>5 DEF StorePop, Holding, Launching
  <2>2. reg[t] = 1 /\ call_config_stack[1] = t
    BY <2>1, AloneDepth DEF IInv, LockInv, DepthFresh, OwnOnStack
  <2>3. got' = [got EXCEPT ![t] = t]
    BY <1>5, <2>2 DEF StorePop, PopSlot
  <2>4. pc' = [pc EXCEPT ![t] = "leave"] /\ op' = op
    BY <1>5 DEF StorePop
  <2> QED
    BY <2>3, <2>4
<1>6. ASSUME NEW t \in Threads, LeaveLock(t) PROVE OwnPopped'
  <2>1. /\ pc[t] = "leave" /\ got' = got
        /\ pc' = [pc EXCEPT ![t] = IF op[t] = "push" THEN "ensure" ELSE "launch"]
        /\ op' = [op EXCEPT ![t] = IF op[t] = "push" THEN "pop" ELSE "launch"]
    BY <1>6 DEF LeaveLock
  <2>2. op[t] \in {"push", "pop"}
    BY <1>a, <2>1 DEF IInv, LockInv, OpShape, Ops
  <2> QED
    BY <2>1, <2>2
<1>7. ASSUME NEW t \in Threads, SetLastError(t) PROVE OwnPopped'
  <2>1. op[t] # "pop"
    BY <1>7 DEF SetLastError
  <2>2. pc' = [pc EXCEPT ![t] = "idle"] /\ op' = [op EXCEPT ![t] = "push"] /\ got' = [got EXCEPT ![t] = NoThread]
    BY <1>7, <2>1 DEF SetLastError
  <2> QED
    BY <2>2
<1>8. ASSUME NEW t \in Threads, LaunchSucceeds(t) \/ ResetLastError(t) PROVE OwnPopped'
  BY <1>8 DEF LaunchSucceeds, ResetLastError
<1>9. ASSUME NEW t \in Threads, LaunchFails(t) PROVE OwnPopped'
  <2>1. /\ pc[t] = "launch" /\ pc' = [pc EXCEPT ![t] = "fail"] /\ op' = op
        /\ got' = [got EXCEPT ![t] = NoThread]
    BY <1>9 DEF LaunchFails
  <2>2. op[t] = "launch"
    BY <2>1 DEF IInv, LockInv, OpShape
  <2> QED
    BY <2>1, <2>2
<1> QED
  BY <1>1, <1>2, <1>3, <1>4, <1>5, <1>6, <1>7, <1>8, <1>9 DEF Next, Continue

(* A thread that launches while nobody else does uses the configuration it
   pushed, for any number of threads and any stack size. *)
THEOREM OwnConfig == Spec => []OwnConfigWhenAlone
<1>1. Init => Alone
  BY DEF Init, Alone, OneLaunches, Launching, InitOnce, OwnOnStack, Holding, OwnPopped
<1>2. IInv /\ Alone /\ [Next]_vars => Alone'
  <2> SUFFICES ASSUME IInv, Alone, [Next]_vars, ~overlapped'
               PROVE  OneLaunches' /\ InitOnce' /\ OwnOnStack' /\ OwnPopped'
    BY DEF Alone
  <2>1. ~overlapped
    BY OverlappedKept
  <2>2. OneLaunches /\ InitOnce /\ OwnOnStack /\ OwnPopped /\ inits <= 1
    BY <2>1 DEF Alone, InitOnce
  <2> QED
    BY <2>2, OneLaunchesStep, InitOnceStep, OwnOnStackStep, OwnPoppedStep
<1>3. Alone => OwnConfigWhenAlone
  BY DEF Alone, OwnPopped, OwnConfigWhenAlone
<1> QED
  BY InitInv, StepInv, <1>1, <1>2, <1>3, PTL DEF Spec
-----------------------------------------------------------------------------
(* A failure nobody has loaded keeps `unread` set; once it is loaded, the thread
   that loaded it is about to reset last_error.  This is what last_error being
   non-zero means at any time, for any number of threads. *)
StaleOnlyInReset == last_error # HIP_SUCCESS => unread \/ \E u \in Threads : pc[u] = "reset"

LEMMA StaleStep ==
  ASSUME IInv, StaleOnlyInReset, [Next]_vars PROVE StaleOnlyInReset'
<1>a. pc \in [Threads -> PCs]
  BY DEF IInv, LockInv, TypeOK
<1> USE <1>a DEF StaleOnlyInReset, errorVars, Goto, Finish
<1>1. CASE UNCHANGED vars
  BY <1>1 DEF vars
<1>2. ASSUME NEW t \in Threads,
             \/ BeginPush(t) \/ PushNull(t) \/ TestLockInit(t) \/ InitLock(t) \/ PublishLock(t)
             \/ EnterLock(t) \/ LoadDepth(t) \/ StorePush(t) \/ StorePop(t) \/ LeaveLock(t)
             \/ BailOut(t) \/ LaunchSucceeds(t) \/ LaunchFails(t)
      PROVE  StaleOnlyInReset'
  <2>1. UNCHANGED <<last_error, unread>> /\ pc[t] # "reset" /\ \A u \in Threads \ {t} : pc'[u] = pc[u]
    BY <1>2 DEF BeginPush, PushNull, TestLockInit, InitLock, PublishLock, EnterLock, LoadDepth,
       StorePush, StorePop, LeaveLock, BailOut, LaunchSucceeds, LaunchFails
  <2> QED
    BY <2>1
<1>3. ASSUME NEW t \in Threads, SetLastError(t) PROVE StaleOnlyInReset'
  BY <1>3 DEF SetLastError
<1>4. ASSUME NEW t \in Threads, LoadLastError(t) PROVE StaleOnlyInReset'
  <2>1. pc'[t] = "reset"
    BY <1>4 DEF LoadLastError
  <2> QED
    BY <2>1
<1>5. ASSUME NEW t \in Threads, ResetLastError(t) PROVE StaleOnlyInReset'
  BY <1>5 DEF ResetLastError
<1> QED
  BY <1>1, <1>2, <1>3, <1>4, <1>5 DEF Next, Continue

(* One failure is reported to one hipGetLastError: a non-zero error is loaded
   only if a call failed since the last load, or while another thread is between
   its load and its reset. *)
THEOREM ErrorsReadOnce == Spec => NoStaleError
<1>1. Init => StaleOnlyInReset
  BY DEF Init, StaleOnlyInReset
<1>2. IInv /\ StaleOnlyInReset /\ [Next]_vars => StaleOnlyInReset'
  BY StaleStep
<1>3. StaleOnlyInReset =>
        [\A t \in Threads :
           LoadLastError(t) /\ last_error # HIP_SUCCESS =>
             unread \/ \E u \in Threads : pc[u] = "reset"]_vars
  BY DEF StaleOnlyInReset
<1> QED
  BY InitInv, StepInv, <1>1, <1>2, <1>3, PTL DEF Spec, NoStaleError
=============================================================================
