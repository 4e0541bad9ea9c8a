------------------------------ MODULE AllocCap ------------------------------
(***************************************************************************)
(* The opt-in cap on outstanding GPU memory: unix_malloc and unix_free of  *)
(* native.c over the tracking table of alloc_cap.c.                        *)
(*                                                                         *)
(* Neither file takes a lock, and Wine runs the handler on the calling     *)
(* thread, so a call is modelled as its sequence of loads and stores of    *)
(* the shared statics: alloc_count is read once into a register and        *)
(* written back, and total_bytes is a separate read-modify-write.  The     *)
(* real allocator (hipMalloc, hipFree) is external: it owns `live`.        *)
(*                                                                         *)
(* The history variable `raced` records that two calls have ever been in   *)
(* flight together; `missed` holds the pointers the full table refused.    *)
(***************************************************************************)
EXTENDS Integers, FiniteSets, FiniteSetsExt

CONSTANTS
  Threads,      \* threads of the process that call hipMalloc and hipFree
  Ptrs,         \* device addresses hipMalloc may return
  NoPtr,        \* the null pointer
  Sizes,        \* request sizes, in bytes
  EnvCap,       \* DLSSNR_VRAM_CAP_BYTES; 0 when it is not set
  MaxTracked,   \* MAX_TRACKED_ALLOCS
  DeviceBytes,  \* what the device can hold: larger requests fail in hipMalloc
  WordSize      \* 2^64: unsigned long long arithmetic is modulo this

ASSUME AllocAssumption ==
  /\ NoPtr \notin Ptrs
  /\ MaxTracked \in Nat \ {0}
  /\ DeviceBytes \in Nat
  /\ WordSize \in Nat
  /\ EnvCap \in 0 .. WordSize - 1
  /\ Sizes \subseteq 0 .. WordSize - 1
  /\ EnvCap + DeviceBytes < WordSize
  /\ MaxTracked < WordSize

ASSUME AddressesAssumption == IsFiniteSet(Ptrs)

VARIABLES
  vram_cap_read, vram_cap_bytes,   \* native.c statics
  allocs, alloc_count, total_bytes,\* alloc_cap.c statics
  live,      \* external: bytes the real allocator holds at each address
  owned,     \* pointers a finished hipMalloc handed to the caller
  pc, req,   \* per thread: where the call is, and its pointer and size
  reg,       \* per thread: the value last loaded from a shared static
  slot,      \* per thread: the table index the call works on
  raced, missed

vars == <<vram_cap_read, vram_cap_bytes, allocs, alloc_count, total_bytes,
          live, owned, pc, req, reg, slot, raced, missed>>

capVars == <<vram_cap_read, vram_cap_bytes>>
tableVars == <<allocs, alloc_count>>
heapVars == <<live, owned>>
ghosts == <<raced, missed>>

Entry == [ptr : Ptrs \cup {NoPtr}, size : 0 .. WordSize - 1]
NoEntry == [ptr |-> NoPtr, size |-> 0]

PCs == {"idle", "capflag", "capset", "check", "alloc", "record", "append",
        "addcount", "addload", "addstore",
        "find", "remove", "subcount", "subload", "substore"}

Init ==
  /\ vram_cap_read = FALSE
  /\ vram_cap_bytes = 0
  /\ allocs = [i \in 1 .. MaxTracked |-> NoEntry]
  /\ alloc_count = 0
  /\ total_bytes = 0
  /\ live = [p \in Ptrs |-> 0]
  /\ owned = {}
  /\ pc = [t \in Threads |-> "idle"]
  /\ req = [t \in Threads |-> NoEntry]
  /\ reg = [t \in Threads |-> 0]
  /\ slot = [t \in Threads |-> 1]
  /\ raced = FALSE
  /\ missed = {}

Goto(t, label) == pc' = [pc EXCEPT ![t] = label]
SetReg(t, v) == reg' = [reg EXCEPT ![t] = v]

Busy(t) == \E u \in Threads \ {t} : pc[u] # "idle"
Start(t, label, ptr, size) ==
  /\ pc[t] = "idle"
  /\ Goto(t, label)
  /\ req' = [req EXCEPT ![t] = [ptr |-> ptr, size |-> size]]
  /\ raced' = (raced \/ Busy(t))

(* The call returns; its locals are dead. *)
Finish(t) ==
  /\ Goto(t, "idle")
  /\ req' = [req EXCEPT ![t] = NoEntry]
  /\ reg' = [reg EXCEPT ![t] = 0]
  /\ slot' = [slot EXCEPT ![t] = 1]

-----------------------------------------------------------------------------
(* Plausible wrong versions of the code, for the mutation runs. *)

WouldExceedIgnoringRequest(total, size, cap) == cap # 0 /\ total > cap
RecordFullOffByOne == alloc_count > MaxTracked
FindNothing(t) == {}

-----------------------------------------------------------------------------
(* alloc_cap_would_exceed *)
WouldExceed(total, size, cap) ==
  cap # 0 /\ (total + size) % WordSize > cap

(* The guard of alloc_cap_record. *)
RecordFull == alloc_count >= MaxTracked

(* The entries alloc_cap_release's scan can stop at; it takes the first. *)
Matches(t) == {i \in 1 .. alloc_count : allocs[i].ptr = req[t].ptr}

(***************************************************************************)
(* unix_malloc                                                             *)
(***************************************************************************)
(* The call enters and tests vram_cap_read.  ensure_vram_cap_read sets its
   flag before it sets the value, so another thread can pass the test and
   still read a cap of 0. *)
MallocBegin(t) ==
  /\ \E size \in Sizes : Start(t, IF vram_cap_read THEN "check" ELSE "capflag", NoPtr, size)
  /\ UNCHANGED <<capVars, tableVars, total_bytes, heapVars, reg, slot, missed>>

SetCapFlag(t) ==
  /\ pc[t] = "capflag"
  /\ vram_cap_read' = TRUE
  /\ Goto(t, "capset")
  /\ UNCHANGED <<vram_cap_bytes, tableVars, total_bytes, heapVars, req, reg, slot, ghosts>>

SetCap(t) ==
  /\ pc[t] = "capset"
  /\ vram_cap_bytes' = EnvCap
  /\ Goto(t, "check")
  /\ UNCHANGED <<vram_cap_read, tableVars, total_bytes, heapVars, req, reg, slot, ghosts>>

RejectOverCap(t) ==
  /\ pc[t] = "check"
  /\ WouldExceed(total_bytes, req[t].size, vram_cap_bytes)
  /\ Finish(t)
  /\ UNCHANGED <<capVars, tableVars, total_bytes, heapVars, ghosts>>

PassCap(t) ==
  /\ pc[t] = "check"
  /\ ~WouldExceed(total_bytes, req[t].size, vram_cap_bytes)
  /\ Goto(t, "alloc")
  /\ UNCHANGED <<capVars, tableVars, total_bytes, heapVars, req, reg, slot, ghosts>>

(* hipMalloc fails, or succeeds with a null pointer for a request of 0 bytes:
   nothing is recorded. *)
HipMallocNothing(t) ==
  /\ pc[t] = "alloc"
  /\ Finish(t)
  /\ UNCHANGED <<capVars, tableVars, total_bytes, heapVars, ghosts>>

LiveBytes == MapThenSumSet(LAMBDA p : live[p], Ptrs)

HipMalloc(t) ==
  /\ pc[t] = "alloc"
  /\ req[t].size > 0
  /\ LiveBytes + req[t].size <= DeviceBytes
  /\ \E p \in Ptrs :
       /\ live[p] = 0
       /\ live' = [live EXCEPT ![p] = req[t].size]
       /\ req' = [req EXCEPT ![t] = [ptr |-> p, size |-> req[t].size]]
  /\ Goto(t, "record")
  /\ UNCHANGED <<capVars, tableVars, total_bytes, owned, reg, slot, ghosts>>

(* alloc_cap_record: load alloc_count, test it, store the entry and the
   count, then add to total_bytes. *)
RecordRefused(t) ==
  /\ pc[t] = "record"
  /\ RecordFull
  /\ missed' = missed \cup {req[t].ptr}
  /\ Finish(t)
  /\ owned' = owned \cup {req[t].ptr}
  /\ UNCHANGED <<capVars, tableVars, total_bytes, live, raced>>

RecordLoad(t) ==
  /\ pc[t] = "record"
  /\ ~RecordFull
  /\ slot' = [slot EXCEPT ![t] = alloc_count + 1]
  /\ Goto(t, "append")
  /\ UNCHANGED <<capVars, tableVars, total_bytes, heapVars, req, reg, ghosts>>

RecordAppend(t) ==
  /\ pc[t] = "append"
  /\ allocs' = [allocs EXCEPT ![slot[t]] = req[t]]
  /\ SetReg(t, slot[t])
  /\ Goto(t, "addcount")
  /\ UNCHANGED <<capVars, alloc_count, total_bytes, heapVars, req, slot, ghosts>>

(* alloc_count++ and alloc_count-- store the value computed from the load. *)
StoreCount(t) ==
  /\ pc[t] \in {"addcount", "subcount"}
  /\ alloc_count' = reg[t]
  /\ Goto(t, IF pc[t] = "addcount" THEN "addload" ELSE "subload")
  /\ UNCHANGED <<capVars, allocs, total_bytes, heapVars, req, reg, slot, ghosts>>

TotalLoad(t) ==
  /\ pc[t] \in {"addload", "subload"}
  /\ SetReg(t, total_bytes)
  /\ Goto(t, IF pc[t] = "addload" THEN "addstore" ELSE "substore")
  /\ UNCHANGED <<capVars, tableVars, total_bytes, heapVars, req, slot, ghosts>>

TotalAdd(t) ==
  /\ pc[t] = "addstore"
  /\ total_bytes' = (reg[t] + req[t].size) % WordSize
  /\ Finish(t)
  /\ owned' = owned \cup {req[t].ptr}
  /\ UNCHANGED <<capVars, tableVars, live, ghosts>>

(***************************************************************************)
(* unix_free.  The caller frees a pointer it was given, once; a hipFree     *)
(* that fails returns its error and changes nothing.                       *)
(***************************************************************************)
HipFree(t) ==
  \E p \in owned :
    /\ Start(t, "find", p, 0)
    /\ live' = [live EXCEPT ![p] = 0]
    /\ owned' = owned \ {p}
    /\ missed' = missed \ {p}
    /\ UNCHANGED <<capVars, tableVars, total_bytes, reg, slot>>

(* alloc_cap_release: scan for the pointer, overwrite the entry with the last
   one, shrink the table, then subtract from total_bytes. *)
ReleaseUntracked(t) ==
  /\ pc[t] = "find"
  /\ Matches(t) = {}
  /\ Finish(t)
  /\ UNCHANGED <<capVars, tableVars, total_bytes, heapVars, ghosts>>

ReleaseFind(t) ==
  /\ pc[t] = "find"
  /\ \E i \in Matches(t) :
       /\ \A k \in Matches(t) : i <= k
       /\ slot' = [slot EXCEPT ![t] = i]
       /\ req' = [req EXCEPT ![t] = allocs[i]]
  /\ SetReg(t, alloc_count)
  /\ Goto(t, "remove")
  /\ UNCHANGED <<capVars, tableVars, total_bytes, heapVars, ghosts>>

ReleaseRemove(t) ==
  /\ pc[t] = "remove"
  /\ allocs' = [allocs EXCEPT ![slot[t]] = allocs[reg[t]]]
  /\ SetReg(t, reg[t] - 1)
  /\ Goto(t, "subcount")
  /\ UNCHANGED <<capVars, alloc_count, total_bytes, heapVars, req, slot, ghosts>>

TotalSubtract(t) ==
  /\ pc[t] = "substore"
  /\ total_bytes' = (reg[t] - req[t].size) % WordSize
  /\ Finish(t)
  /\ UNCHANGED <<capVars, tableVars, heapVars, ghosts>>

-----------------------------------------------------------------------------
Malloc(t) ==
  \/ MallocBegin(t)
  \/ SetCapFlag(t)
  \/ SetCap(t)
  \/ RejectOverCap(t)
  \/ PassCap(t)
  \/ HipMallocNothing(t)
  \/ HipMalloc(t)
  \/ RecordRefused(t)
  \/ RecordLoad(t)
  \/ RecordAppend(t)
  \/ TotalAdd(t)

Free(t) ==
  \/ HipFree(t)
  \/ ReleaseUntracked(t)
  \/ ReleaseFind(t)
  \/ ReleaseRemove(t)
  \/ TotalSubtract(t)

Next == \E t \in Threads : Malloc(t) \/ Free(t) \/ StoreCount(t) \/ TotalLoad(t)

Spec == Init /\ [][Next]_vars

-----------------------------------------------------------------------------
TypeOK ==
  /\ vram_cap_read \in BOOLEAN
  /\ vram_cap_bytes \in {0, EnvCap}
  /\ allocs \in [1 .. MaxTracked -> Entry]
  /\ alloc_count \in 0 .. MaxTracked
  /\ total_bytes \in 0 .. WordSize - 1
  /\ live \in [Ptrs -> 0 .. WordSize - 1]
  /\ owned \subseteq Ptrs
  /\ pc \in [Threads -> PCs]
  /\ req \in [Threads -> Entry]
  /\ reg \in [Threads -> 0 .. WordSize - 1]
  /\ slot \in [Threads -> 1 .. MaxTracked]
  /\ raced \in BOOLEAN
  /\ missed \subseteq Ptrs

Tracked == {allocs[i].ptr : i \in 1 .. alloc_count}
Quiet == \A t \in Threads : pc[t] = "idle"

(* However calls race for the unlocked statics, no thread ever indexes the
   table outside allocs[0 .. MAX_TRACKED_ALLOCS - 1]: two recorders competing
   for the last slot overwrite each other, they do not run past the end, and
   two releases never drive alloc_count below zero. *)
NoTableOverrun ==
  /\ alloc_count \in 0 .. MaxTracked
  /\ \A t \in Threads :
       /\ pc[t] = "append" => slot[t] \in 1 .. MaxTracked
       /\ pc[t] = "remove" => slot[t] \in 1 .. MaxTracked /\ reg[t] \in 1 .. MaxTracked
       /\ pc[t] \in {"addcount", "subcount"} => reg[t] \in 0 .. MaxTracked

(* While calls do not overlap, the table is an exact ledger between calls:
   one entry per tracked allocation, with its size; total_bytes is their sum;
   and an allocation is outside it only because the table was full when it was
   made.  So a free always gives back exactly what its malloc charged. *)
SerialAccounting ==
  (~raced /\ Quiet) =>
    /\ Cardinality(Tracked) = alloc_count
    /\ \A i \in 1 .. alloc_count : allocs[i].size = live[allocs[i].ptr]
    /\ total_bytes = MapThenSumSet(LAMBDA i : allocs[i].size, 1 .. alloc_count)
    /\ {p \in Ptrs : live[p] > 0} = Tracked \cup missed
    /\ Tracked \cap missed = {}

(* While calls do not overlap, the memory really outstanding (leaving aside
   what the full table could not record) never exceeds a configured cap, even
   for a request large enough to wrap the 64-bit sum. *)
CapHonoured ==
  (~raced /\ EnvCap # 0) =>
    MapThenSumSet(LAMBDA p : live[p], Ptrs \ missed) <= EnvCap

(* alloc_cap.h says a full table makes the cap "conservative rather than wrong
   in the unsafe direction": what is outstanding, the unrecorded allocations
   included, still never exceeds the cap. *)
CapConservative ==
  (~raced /\ EnvCap # 0) => LiveBytes <= EnvCap
=============================================================================
