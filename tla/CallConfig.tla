----------------------------- MODULE CallConfig -----------------------------
(***************************************************************************)
(* Kernel launches as the compiler-generated stub of a <<<>>> expression   *)
(* makes them through pe_shim.c: __hipPushCallConfiguration, then          *)
(* __hipPopCallConfiguration, then hipLaunchKernel, on whatever thread the *)
(* caller runs; and hipGetLastError at any time.                           *)
(*                                                                         *)
(* The configuration stack is one static array shared by every thread, its *)
(* critical section is initialised lazily by an unlocked test, and         *)
(* last_error is one unlocked static.  A configuration is named by the     *)
(* thread that pushed it; grid, block, shared memory and stream are what   *)
(* it stands for.  What hipLaunchKernel does on the other side of the unix *)
(* call is NativeShim's subject: here it only succeeds or fails.           *)
(***************************************************************************)
EXTENDS Integers, FiniteSets

CONSTANTS
  Threads,    \* threads that launch kernels
  NoThread,   \* no owner, and the uninitialised configuration of a failed pop
  StackSize   \* CALL_CONFIG_STACK_SIZE

ASSUME CallAssumption ==
  /\ IsFiniteSet(Threads)
  /\ NoThread \notin Threads
  /\ StackSize \in Nat \ {0}

VARIABLES
  call_config_lock_init, call_config_depth, call_config_stack, last_error,
  lock_owner,  \* owner of call_config_lock
  pc, op,      \* per thread: the step, and the call it belongs to
  reg,         \* per thread: the depth, or the error, last loaded
  got,         \* per thread: the configuration the pop stored for the launch
  inits,       \* history: how often InitializeCriticalSection has run
  overlapped,  \* history: whether two launches were ever in progress at once
  outstanding, \* history: per configuration, pushes less launches
  unread       \* history: a failure has been stored that nobody loaded since

vars == <<call_config_lock_init, call_config_depth, call_config_stack, last_error,
          lock_owner, pc, op, reg, got, inits, overlapped, outstanding, unread>>

lockVars == <<call_config_lock_init, lock_owner, inits>>
stackVars == <<call_config_depth, call_config_stack, outstanding>>
errorVars == <<last_error, unread>>

HIP_SUCCESS == 0
HIP_ERROR_NOT_SUPPORTED == 801

PCs == {"idle", "ensure", "init", "publish", "enter", "load", "store",
        "leave", "bail", "fail", "launch", "reset"}
Ops == {"push", "pop", "launch"}

Init ==
  /\ call_config_lock_init = FALSE
  /\ call_config_depth = 0
  /\ call_config_stack = [i \in 1 .. StackSize |-> NoThread]
  /\ last_error = HIP_SUCCESS
  /\ lock_owner = NoThread
  /\ pc = [t \in Threads |-> "idle"]
  /\ op = [t \in Threads |-> "push"]
  /\ reg = [t \in Threads |-> 0]
  /\ got = [t \in Threads |-> NoThread]
  /\ inits = 0
  /\ overlapped = FALSE
  /\ outstanding = [t \in Threads |-> 0]
  /\ unread = FALSE

Goto(t, label) == pc' = [pc EXCEPT ![t] = label]
Call(t, name) == op' = [op EXCEPT ![t] = name]
Launching(t) == pc[t] \notin {"idle", "reset"}

(* The stub returns to its caller; its locals are dead. *)
Finish(t) ==
  /\ Goto(t, "idle")
  /\ Call(t, "push")
  /\ reg' = [reg EXCEPT ![t] = 0]
  /\ got' = [got EXCEPT ![t] = NoThread]

-----------------------------------------------------------------------------
(* Plausible wrong versions of the code, for the mutation runs. *)

EnterUnlocked(t) ==
  /\ pc[t] = "enter"
  /\ lock_owner' = t
  /\ Goto(t, "load")
  /\ UNCHANGED <<call_config_lock_init, inits, stackVars, errorVars, op, reg, got, overlapped>>

BailStillLocked(t) ==
  /\ pc[t] = "bail"
  /\ Goto(t, "fail")
  /\ UNCHANGED <<lockVars, stackVars, errorVars, op, reg, got, overlapped>>

ReadWithoutReset(t) ==
  /\ pc[t] = "reset"
  /\ Finish(t)
  /\ UNCHANGED <<lockVars, stackVars, errorVars, overlapped>>

PopReadsBeforeDecrement(d) == IF d < StackSize THEN d + 1 ELSE d
StackNeverFull == FALSE
PopWithoutDecrement(t) == call_config_depth' = call_config_depth

-----------------------------------------------------------------------------
(* ensure_call_config_lock, at the start of a push and of a pop: the flag is
   tested and set outside any lock. *)
BeginPush(t) ==
  /\ pc[t] = "idle"
  /\ Goto(t, "ensure")
  /\ overlapped' = (overlapped \/ \E u \in Threads \ {t} : Launching(u))
  /\ UNCHANGED <<lockVars, stackVars, errorVars, op, reg, got>>

(* A push without grid or block pointers fails before it takes the lock. *)
PushNull(t) ==
  /\ pc[t] = "idle"
  /\ Goto(t, "fail")
  /\ overlapped' = (overlapped \/ \E u \in Threads \ {t} : Launching(u))
  /\ UNCHANGED <<lockVars, stackVars, errorVars, op, reg, got>>

TestLockInit(t) ==
  /\ pc[t] = "ensure"
  /\ Goto(t, IF call_config_lock_init THEN "enter" ELSE "init")
  /\ UNCHANGED <<lockVars, stackVars, errorVars, op, reg, got, overlapped>>

(* InitializeCriticalSection writes an unowned section over whatever is there. *)
InitLock(t) ==
  /\ pc[t] = "init"
  /\ lock_owner' = NoThread
  /\ inits' = inits + 1
  /\ Goto(t, "publish")
  /\ UNCHANGED <<call_config_lock_init, stackVars, errorVars, op, reg, got, overlapped>>

PublishLock(t) ==
  /\ pc[t] = "publish"
  /\ call_config_lock_init' = TRUE
  /\ Goto(t, "enter")
  /\ UNCHANGED <<lock_owner, inits, stackVars, errorVars, op, reg, got, overlapped>>

EnterLock(t) ==
  /\ pc[t] = "enter"
  /\ lock_owner = NoThread
  /\ lock_owner' = t
  /\ Goto(t, "load")
  /\ UNCHANGED <<call_config_lock_init, inits, stackVars, errorVars, op, reg, got, overlapped>>

(* What makes a push or a pop give up once it has loaded the depth. *)
StackFull == call_config_depth >= StackSize
StackEmpty == call_config_depth <= 0
GivesUp(t) == IF op[t] = "push" THEN StackFull ELSE StackEmpty

LoadDepth(t) ==
  /\ pc[t] = "load"
  /\ Goto(t, IF GivesUp(t) THEN "bail" ELSE "store")
  /\ reg' = [reg EXCEPT ![t] = IF GivesUp(t) THEN 0 ELSE call_config_depth]
  /\ UNCHANGED <<lockVars, stackVars, errorVars, op, got, overlapped>>

(* The slot a push fills, and the one a pop then empties, at that depth. *)
PushSlot(d) == d + 1
PopSlot(d) == d

StorePush(t) ==
  /\ pc[t] = "store" /\ op[t] = "push"
  /\ call_config_stack' = [call_config_stack EXCEPT ![PushSlot(reg[t])] = t]
  /\ call_config_depth' = reg[t] + 1
  /\ outstanding' = IF inits <= 1 THEN [outstanding EXCEPT ![t] = @ + 1] ELSE outstanding
  /\ reg' = [reg EXCEPT ![t] = 0]
  /\ Goto(t, "leave")
  /\ UNCHANGED <<lockVars, errorVars, op, got, overlapped>>

DecrementDepth(t) == call_config_depth' = reg[t] - 1

StorePop(t) ==
  /\ pc[t] = "store" /\ op[t] = "pop"
  /\ got' = [got EXCEPT ![t] = call_config_stack[PopSlot(reg[t])]]
  /\ DecrementDepth(t)
  /\ reg' = [reg EXCEPT ![t] = 0]
  /\ Goto(t, "leave")
  /\ UNCHANGED <<lockVars, call_config_stack, outstanding, errorVars, op, overlapped>>

(* A push that succeeded is followed by the pop, the pop by the launch. *)
LeaveLock(t) ==
  /\ pc[t] = "leave"
  /\ lock_owner' = NoThread
  /\ Goto(t, IF op[t] = "push" THEN "ensure" ELSE "launch")
  /\ Call(t, IF op[t] = "push" THEN "pop" ELSE "launch")
  /\ UNCHANGED <<call_config_lock_init, inits, stackVars, errorVars, reg, got, overlapped>>

BailOut(t) ==
  /\ pc[t] = "bail"
  /\ lock_owner' = NoThread
  /\ Goto(t, "fail")
  /\ UNCHANGED <<call_config_lock_init, inits, stackVars, errorVars, op, reg, got, overlapped>>

(* set_last_error.  The stub gives up after a failed push; it does not look
   at what the pop returned. *)
SetLastError(t) ==
  /\ pc[t] = "fail"
  /\ last_error' = HIP_ERROR_NOT_SUPPORTED
  /\ unread' = TRUE
  /\ IF op[t] = "pop"
       THEN Goto(t, "launch") /\ Call(t, "launch") /\ UNCHANGED <<reg, got>>
       ELSE Finish(t)
  /\ UNCHANGED <<lockVars, stackVars, overlapped>>

Launched(t) ==
  outstanding' = IF inits <= 1 /\ got[t] \in Threads
                   THEN [outstanding EXCEPT ![got[t]] = @ - 1] ELSE outstanding

LaunchSucceeds(t) ==
  /\ pc[t] = "launch"
  /\ Launched(t)
  /\ Finish(t)
  /\ UNCHANGED <<lockVars, call_config_depth, call_config_stack, errorVars, overlapped>>

LaunchFails(t) ==
  /\ pc[t] = "launch"
  /\ Launched(t)
  /\ Goto(t, "fail")
  /\ got' = [got EXCEPT ![t] = NoThread]
  /\ UNCHANGED <<lockVars, call_config_depth, call_config_stack, errorVars, op, reg, overlapped>>

(* hipGetLastError: the load and the reset are two accesses. *)
LoadLastError(t) ==
  /\ pc[t] = "idle"
  /\ reg' = [reg EXCEPT ![t] = last_error]
  /\ unread' = FALSE
  /\ Goto(t, "reset")
  /\ UNCHANGED <<lockVars, stackVars, last_error, op, got, overlapped>>

ResetLastError(t) ==
  /\ pc[t] = "reset"
  /\ last_error' = HIP_SUCCESS
  /\ Finish(t)
  /\ UNCHANGED <<lockVars, stackVars, unread, overlapped>>

-----------------------------------------------------------------------------
(* The steps of a call under way, as opposed to the caller starting one. *)
Continue(t) ==
  \/ TestLockInit(t)
  \/ InitLock(t)
  \/ PublishLock(t)
  \/ EnterLock(t)
  \/ LoadDepth(t)
  \/ StorePush(t)
  \/ StorePop(t)
  \/ LeaveLock(t)
  \/ BailOut(t)
  \/ SetLastError(t)
  \/ LaunchSucceeds(t)
  \/ LaunchFails(t)
  \/ ResetLastError(t)

Next == \E t \in Threads : BeginPush(t) \/ PushNull(t) \/ LoadLastError(t) \/ Continue(t)

Spec == Init /\ [][Next]_vars

-----------------------------------------------------------------------------
(* Even when two first launches initialise the critical section twice and so
   break it, no access leaves the stack: call_config_depth stays in range and a
   push or a pop only uses a slot that exists. *)
TypeOK ==
  /\ call_config_lock_init \in BOOLEAN
  /\ call_config_depth \in 0 .. StackSize
  /\ call_config_stack \in [1 .. StackSize -> Threads \cup {NoThread}]
  /\ last_error \in {HIP_SUCCESS, HIP_ERROR_NOT_SUPPORTED}
  /\ lock_owner \in Threads \cup {NoThread}
  /\ pc \in [Threads -> PCs]
  /\ op \in [Threads -> Ops]
  /\ reg \in [Threads -> (0 .. StackSize) \cup {HIP_ERROR_NOT_SUPPORTED}]
  /\ got \in [Threads -> Threads \cup {NoThread}]
  /\ inits \in Nat
  /\ overlapped \in BOOLEAN
  /\ outstanding \in [Threads -> Int]
  /\ unread \in BOOLEAN
  /\ \A t \in Threads : pc[t] = "store" =>
       IF op[t] = "push" THEN reg[t] \in 0 .. StackSize - 1 ELSE reg[t] \in 1 .. StackSize

Critical == {"load", "store", "leave", "bail"}
Holding == {t \in Threads : \/ op[t] = "push" /\ pc[t] = "leave"
                            \/ op[t] = "pop" /\ pc[t] \in {"ensure", "init", "publish", "enter", "load", "store"}}

(* When the lazy initialisation did not race, call_config_lock protects the
   stack: no two threads are between its Enter and its Leave. *)
MutualExclusion ==
  inits <= 1 =>
    \A t, u \in Threads : pc[t] \in Critical /\ pc[u] \in Critical => t = u

(* When the lazy initialisation did not race, nobody leaves a push or a pop,
   refused or not, and keeps call_config_lock: its owner is between its Enter
   and its Leave, so the next launch never waits for a thread that is gone. *)
LockNotLeaked ==
  inits <= 1 => \A t \in Threads : lock_owner = t => pc[t] \in Critical

(* When the lazy initialisation did not race, the depth counts the launches
   between their push and their pop.  So a pop never finds the stack empty, and
   a push is refused only when StackSize other launches are half way. *)
DepthCountsLaunches ==
  inits <= 1 => call_config_depth = Cardinality(Holding)

(* When the lazy initialisation did not race, each pushed configuration is
   launched exactly once: it is on the stack, or with the one thread that
   popped it, until that thread launches with it. *)
EachConfigLaunchedOnce ==
  inits <= 1 =>
    \A c \in Threads :
      outstanding[c] =
        Cardinality({i \in 1 .. call_config_depth : call_config_stack[i] = c}) +
        Cardinality({t \in Threads : got[t] = c})

(* While launches never overlap, the configuration a launch uses is the one its
   own thread pushed: nothing of an earlier or a refused launch leaks into it. *)
OwnConfigWhenAlone ==
  ~overlapped => \A t \in Threads : pc[t] = "launch" => got[t] = t

(* A failure is reported to one hipGetLastError only: a non-zero value is loaded
   only if some call failed since the last load, unless another thread's
   hipGetLastError is between its load and its reset. *)
NoStaleError ==
  [][\A t \in Threads :
       LoadLastError(t) /\ last_error # HIP_SUCCESS =>
         unread \/ \E u \in Threads : pc[u] = "reset"]_vars

(* hip-stub's comment, whose behaviour pe_shim.c says it matches exactly: the
   configuration is stored "for the *current thread*", so a launch uses the one
   its own thread pushed. *)
ThreadGetsOwnConfig ==
  \A t \in Threads : pc[t] = "launch" => got[t] = t
=============================================================================
