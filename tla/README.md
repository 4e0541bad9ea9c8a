# A TLA+ model of dlssnr-on-amd-linux

The repository makes a Windows program's HIP calls run on Linux under
Wine/Proton. It does so in two ways, and the project here models both:

- the **unixlib shim** (`windows-runtime-bridge/hip-unixlib`): a PE library in
  the game process calls a native library in the same process, which loads the
  real ROCm runtime;
- the **TCP bridge** (`hip-stub`, `hip-bridge`): a shim in the game process
  sends each call to a native daemon.

Paths below are relative to `src/windows-runtime-bridge/`.

## The system

| component | state | operations | hard behaviour | correct when |
|---|---|---|---|---|
| pe_shim.c: launches, last_error.c | a static call-configuration stack, its lazily made lock, one last error | push, pop, launch, hipGetLastError | stack, lock flag and error are shared by all threads; the flag and the error are unlocked | configurations reach the launch they were pushed for; the lock excludes and is given back; an error is reported once |
| pe_shim.c: exports, the dispatch table and forwarding handlers of native.c, hip_forward.c, memcpy_kind.c, version_query.c | the last error | about 25 exports: check the arguments, fill in a struct, make one unix call, turn its result into a code of the shim's | calls block in the library on the caller's thread; streams are per caller, errors shared by all | success tells the truth; work keeps the order of the callers' streams; an error stays until it is read |
| ext_mem.c, external memory in native.c, CreateSharedHandle of vkd3d-proton as patched | the process's descriptor table; handles the game holds | export, import, map, destroy | a descriptor travels as a HANDLE, a number among other numbers | an import holds what its handle was given out for |
| native.c: loader | `hip_handle`, the `p_*` pointers, `init_mutex` | ensure_loaded, on the first call of any handler | first calls race; candidates may be missing now and appear later | loaded once; no pointer is used before all are resolved |
| native.c: handlers, registry.c | three bounded tables under `registry_mutex` | register a fat binary, kernel or variable; launch; hipMemcpyToSymbol | lookup and use are separate critical sections; full tables drop entries silently | a table is a write-once map; a launch logs the kernel it launched |
| alloc_cap.c with unix_malloc, unix_free | a table of outstanding allocations, their sum, the cap | check, record, release | no lock at all; the table has 8192 slots; the sum is unsigned | the table is never overrun; the ledger is exact and the cap holds while calls do not overlap |
| hip-stub | one TCP connection under a mutex; the address space; fat binaries; kernels; last error | about 30 exports; calls, copies, registration and launches go through call_bridge | threads share the connection; it is made once and dropped for good after an error | a call gets its own response; what the shim remembers exists in the daemon |
| hip-stub: AddressSpace | next base, ranges | allocate, resolve, remove_exact | addresses come back from the middle of an allocation, or after it was freed | an address means one allocation for ever |
| hip-bridge daemon | three handle tables; the client being served | accept, read a request, run it, answer | one client at a time; tables outlive the client and are lost with the process; the HIP runtime may abort it | a handle never means something it did not mean to the caller |
| wire protocol | none | framing with a 32-bit length and a cap of 256 MiB | a refused or wrapped length | the stream stays in step, or is closed |
| pe-client | none | a transport experiment, run once top to bottom | none | not modelled |
| submission probes (investigations/) | a ring of command lists, a fence with one event, the poll of a readback buffer | submit, wait for a value, flush, compare, give a verdict | the GPU works on while lists are reused and results polled | a list in flight is left alone; a wait covers its value; a verdict against the stack is true |
| snapshot_gate.c | none | snapshot_batch_match | a list twice in a batch, one too many | true exactly if the result may be trusted |
| other probes (investigations/) | none | straight-line programs over the real library | none | not modelled |
| proton-patches, beyond CreateSharedHandle | Vulkan extensions and export flags | at creation only | none | not modelled |
| switch_backend.sh | files in a game directory | back up, copy, restore | none but an interruption | not modelled |

Within a process the PE half and the native half interact by a synchronous call
on the caller's thread (`WINE_UNIX_CALL`), so every race between threads of the
game is also a race in native.c. The stub and the daemon interact only through
one TCP connection per game. The two ways are alternatives: a game loads one
shim or the other.

## The modules

Each action is a handler or the part of one between two accesses to shared
state, and is named after the code. "Plausible wrong versions" at the head of
each module are mistakes the properties were tried against; no specification
uses them.

**AllocCap** (alloc_cap.c, and unix_malloc, unix_free of native.c). Nothing is
locked, so a call is its sequence of loads and stores of `alloc_count`, the
table and `total_bytes`: `alloc_count` is loaded once into a register, as the
optimised build does, and written back. The word has `WordSize` values, so the
unsigned sum wraps. hipMalloc and hipFree are external and own `live`. `raced`
is history: whether two calls were ever in flight together; `missed` holds the
pointers a full table refused.

**CallConfig** (push, pop, launch and hipGetLastError in pe_shim.c). A
configuration is named by the thread that pushed it. The lock is a critical
section made by an unlocked test-and-set, so two first launches may initialise
it twice (`inits`). Depth and last error are loaded and stored in separate
steps.

**NativeShim** (native.c's loader and registering, launching and copying
handlers; registry.c). `init_mutex` is explicit. `registry_mutex` is held around
one table access and no call, so each access is one step. Which library
candidates exist, what they export and what HIP returns is the environment's
choice. **SymbolTable** is the abstract specification of the registry: a map
that binds each key once, with callers that look up and bind. NativeShim
implements it: the first entry of each key is its binding.

**BridgeLink, BridgeClient, BridgeDaemon, Bridge**. BridgeLink has the
connection: both ends, the frames under way and `stray`, set when unread bytes
of an earlier body come before the next response. A frame is known by its call
and by the length of its body, written modulo `FrameMod` (2^32 in the code).
BridgeClient has the exports up to call_bridge (`Begin*`), call_bridge (connect
once, lock, write, read, drop the connection on an error) and what the exports
do with the answer (`Complete`); a process may end at any point (`Exit`).
BridgeDaemon accepts, runs, answers, refuses oversized requests, and may die and
be started again with empty tables and the same handle numbers. Bridge composes
them. **RemoteCalls** is the abstract specification: a call runs at most once,
and has run if it returned success. The `obj` in handles and `n` in responses
are history that no action of the program reads.

**AddressSpace** (hip-stub). The arithmetic of synthetic addresses, with page
size, base and sizes as parameters. It justifies what BridgeClient assumes: a
pointer is known by the malloc it came from.

**HipRuntime, ExternalMemory, HipForward, StreamOrder**. HipRuntime is the real
library, external: streams and events once created, the operations it was given
(`work`) and those the GPU has finished. A stream runs in order; the null stream
takes turns with every stream not created non-blocking. ExternalMemory has the
descriptors vkd3d-proton exports, the handles it gives out for them (the null
handle for a texture, which has no exportable memory) and what
hip_ext_mem_extract_fd makes of them. HipForward has the exports, `Dispatch`
through the two enumerations that must agree (`hip_unix_call`,
`unix_call_funcs`), and the handlers. An export up to its entry into the library
is one step, its return another; a blocking call stays in `"library"` between
them. `asked` records what callers asked for in their own terms, whatever stream
the shim then named to the library, and `promise` what the success of the call
under way vouches for. **StreamOrder** is the abstract specification: work is
asked for on streams and finishes in the order of each.

**D3D12Queue, FenceWait, SnapshotGate, RingSubmission, SubmissionTiming,
ReadbackCoherency**. D3D12Queue is external: a queue, one fence with an
auto-reset event, the buffers. Its fault model is what the probes set out to
detect: an operation may run before earlier lists, which sets `overtaken`;
signals keep their order. FenceWait is the wait all three share
(`AskCompleted`, `ArmEvent`, `Wake`) and check_hr. Each of the other three is the
loop of one probe: the ring of faithful_submission_probe.c, the poll of
submission_timing_probe.c, the write and read back of
readback_coherency_probe.c. SnapshotGate is snapshot_batch_match with, beside
it, what its header promises (`Trustworthy`). `slipped` is history: a copy
landed at a place the scan under way had passed.

What the models leave out: logging, the bytes of bodies and names, HIP's own
results beyond success and failure; in the bridge also the last error, the
bundle parser, the thread-local call configuration and the exports that only
return an error. `next_base` is a natural number: a range is only reserved after
hipMalloc has granted the memory, so its 64 bits do not run out. In HipForward
the launch and the copy to a symbol may fail for want of a registration without
modelling the tables again (NativeShim does), and hipMalloc and hipFree without
the ledger (AllocCap does). In the probes a clock is a choice of when the budget
or a time limit ends, and the removal of the device (a completed value of
2^64-1) does not happen. The creation of devices, queues and buffers, where any
failure ends the program, is in the initial states. Not modelled at all:
pe-client and the other probes (straight-line programs that print what they
get), switch_backend.sh (sequential, its state is files), the parts of the
patches that change code the repository does not have.

## What the runs check

| run | instance | shows |
|---|---|---|
| alloc_cap | 2 threads, 3 addresses, table of 2, cap 3, 8-value word | `NoTableOverrun` however calls race; `SerialAccounting` and `CapHonoured` while they do not overlap |
| alloc_cap_full | 1 thread, table of 2 | **violation**: a full table does not make the cap conservative |
| call_config | 3 threads, stack of 2 | `MutualExclusion`, `LockNotLeaked`, `DepthCountsLaunches`, `EachConfigLaunchedOnce` if the lock was made once; `OwnConfigWhenAlone`; `NoStaleError` |
| call_config_own | 2 threads | **violation**: the stack is not thread-local |
| native_shim | 2 threads, 2 tokens, 2 candidate libraries, tables of 2 and 1 | `ResolvedBeforeUse`, `LoadedOnce`, `NameMatchesLaunch`; `ImplementsSymbolTable`; `InitMutexReleased` |
| bridge | 2 threads of a game, 4 calls, 1 death of the daemon, one oversized body length | `OwnResponse`, `HandleDenotes`, `KnownIsLive`, `AtMostOnce` |
| bridge_live | 2 games of a thread each, 3 calls, 1 death, a wrapping length | `CallReturns` |
| bridge_frame | 2 threads, 3 calls, a wrapping length | **violation**: a wrapped length puts the stream out of step |
| address_space | 4 allocations of 0, 1, 4 or 6 bytes, pages of 4 | `PointerMeaning`, `NoSpill` |
| hip_forward | 2 threads, a created and the null stream, 2 events, 2 operations, 2 buffers and a texture | `SyncTellsTruth`, `ErrorKeptUntilRead`, `ImportDenotes`; `ImplementsStreamOrder`; `CallsReturn` |
| hip_not_supported | 1 thread, a library error that is not 801 | **violation**: an 801 of the shim need not be the library's |
| submission | 5 submissions, a ring of 2, a queue that may lose its order | `InFlightUntouched`, `NoEarlyReturn`, `IdleAtRelease`; `FailBlamesStack`, `FlagMeansReorder`; `GateExact`; `ProbeEnds` |

Why the bounds suffice. Two threads are enough for every race on one shared
word, and the third of call_config makes the stack full while another launch is
half way. Tables of one or two entries are full, emptied and swapped within a
few calls. The 8-value word wraps on one large request. In the bridge, four
calls allow malloc, free, malloc and a use of the first pointer; one death
allows a table rebuilt with the same numbers; a length over the cap and one that
wraps are each in a run. AddressSpace has a size on each side of every boundary
of the rounding. Two operations are on one stream or on two, in either order of
their kinds, and may straddle a recording. Five submissions go twice and more
through a ring of two, and make batches that hold a list twice and batches over
the limit. Bounded counters are `MaxCalls`, `MaxCrashes`, the sets of pointers,
tokens and handles; each is a CONSTANT with a comment. MCHipForward keeps the
stream calls, the device calls and the interop calls in separate executions
(`use`): they share only the last error, which all set in the same way. Its
library fails calls with 801 or for a missing symbol; the code makes no
difference between codes until hip_not_supported adds another one. MCSubmission
runs one probe per execution (`probe`). The bridge runs have CHECK_DEADLOCK
FALSE since calls are bounded and a game may end; every other run checks
deadlock.

Two properties hold only under a condition the code needs as well and are stated
that way: the ledger and the cap while calls do not overlap, and the
configuration stack if its lock was not initialised twice. Without it they fail
in the model, and the code claims nothing then; `TypeOK` and `NoTableOverrun`
hold regardless.

**Fairness.** A thread inside a call keeps running: WF on the steps of a call
under way, per thread. A daemon that is up keeps serving: WF on `Serve`. Nothing
makes a caller start a call, a library appear, a daemon die or be restarted, or
a game end. Locks are only assumed weakly fair, so nothing is claimed about a
particular waiter; `InitMutexReleased` and `CallReturns` are about the holder.
`CallReturns` excepts a daemon busy with another game: it serves one client until
that disconnects, so a second game really waits. In HipForward the GPU keeps
finishing work (WF on `GpuStep`): a call that waits for it has no time limit, and
the code relies on it. So do the two probes that wait with INFINITE; the ring
waits at most 30 seconds and `ProbeEnds` asks nothing of the GPU there. The
budget of the timing probe runs out however often its loop comes back to it:
SF, since every pass disables that step for a while.

## What the code does not keep

- alloc_cap.h:33-35 says a full table makes the cap "conservative rather than
  wrong in the unsafe direction"; alloc_cap_record does not charge what it cannot
  record, so later requests pass although the cap is exceeded
  (`CapConservative`).
- hip-stub/src/lib.rs:444-448, which pe_shim.c says it matches, and
  docs/linux-support-spec.md:1502-1503 describe a thread-local configuration
  stack; pe_shim.c has one static stack (`ThreadGetsOwnConfig`).
- docs/linux-support-spec.md:3538-3541 takes an error 801 for "a genuine return
  code from the real ROCm stack, not something fabricated by this project", and
  4398-4400 hipGetLastError's 801 for "HIP's real, honest report". Every export
  replaces the library's code by 801 or 100 (pe_shim.c:397-402 and its
  neighbours), so an event that is merely not ready also leaves 801 in the last
  error (`NotSupportedIsGenuine`).
- hip-bridge/protocol/src/lib.rs:247 writes a body's length as 32 bits unchecked.
  A copy from the device of 4 GiB or more leaves its tail in the stream, which
  the next call reads as its response (`OwnResponse` in bridge_frame).

Related, without a run of its own: submission_timing_probe.c says
of its flag "real reordering, not just latency" (232-234), but a scan that looks
at slot i just before it lands and sees slot i+1 landed sets the flag when it
comes back to i, over a queue in perfect order (184-194). `FlagMeansReorder`
therefore excepts `slipped`.

## What is proved

The theorems hold for every value of the constants that satisfies the ASSUMEs of
the modules (sizes are naturals, markers such as NoThread are not members of the
sets, FirstBase is on a page, the addresses of AllocCap are finitely many as a
word's are; nothing about how many threads, calls or entries there are).

| module | theorems | argument |
|---|---|---|
| AllocCapProofs | `TypeCorrect`, `TableNeverOverrun`, `LedgerExact`, `CapIsHonoured` | `alloc_count` may be stale but every store puts back a value that was in range when loaded; the register is part of the invariant. The ledger is exact because a call alone in the library knows at each of its steps by how much the table, the sum and what is live differ; sums are compared by induction over the subsets of a finite set (`SubsetInduction`) |
| CallConfigProofs | `TypeCorrect`, `LockExcludes`, `LockGivenBack`, `DepthIsExact`, `ConfigsLaunchedOnce`, `OwnConfig`, `ErrorsReadOnce` | before the lock is made nobody is past it (`NobodyBeforeInit`); who is inside owns it (`InsideOwns`), so the loaded depth is still current at the store (`DepthFresh`), and every configuration is in one place: a slot below the depth or one thread's hands. An error that is still there after a read is new (`unread`), or its reader has the reset ahead of it |
| NativeShimProofs | `TypeCorrect`, `ReadyBeforeUse`, `LibraryLoadedOnce`, `LogNamesLaunched`, `RegistryIsWriteOnce` | one thread is in the loader (`LoaderExcludes`) and has resolved a prefix of the pointers (`ResolvedPrefix`); handlers that skip ensure_loaded found an entry, which only a loaded library can have made (`EntriesAfterLoad`). A first match stays the first as a table only grows, so the later lookup of the name finds the launched entry. The last theorem is a refinement: every step maps to a step of SymbolTable or a stutter |
| BridgeProofs | `TypeCorrect`, `ResponsesMatch`, `RunsAtMostOnce`, `HandlesDenote`, `KnownLive` | the holder of the mutex is the only reader (`LockOwned`), and an open connection carries nothing, or exactly the request, answer or response of the call its holder waits for (`OneInFlight`). Assumes `BodiesFit`: no body of 4 GiB or more, the case bridge_frame refutes. A call is in one place, its thread, one queue or the calls run, so none runs twice (`SendingIsUnsent`, `QueuedOnce`, `OnlyMadeRun`): a refinement of RemoteCalls. Numbers below next_id keep their object, so a handle denotes the same thing or nothing (`CallsGenuine`, `RequestsGenuine`); a game the daemon has not served yet knows no handle (`UnservedIsFresh`); and what a request frees is no longer mapped by its game (`FreeForgets`), while a number being created has no name there yet (`NumbersFresh`), so what the game knows is live |
| AddressSpaceProofs | `TypeCorrect`, `AddressesKeepMeaning`, `NothingSpills` | all ranges ever issued lie one after another below next_base, each with its guard page (`IssuedApart`, `IssuedBelow`), so the closest base below an address is its owner's |
| HipForwardProofs | `ForwardTypeCorrect`, `SyncTruthful`, `ErrorsKept`, `ImportsDenote`, `ForwardRefinesOrder` | `work` and `asked` agree operation by operation, streams included; what a blocked call waits for contains, by the order of streams, all its promise vouches for; a handle's number is the descriptor it was given out for or null. Refinement: every step maps to a step of StreamOrder or a stutter |
| RingSubmissionProofs | `RingTypeCorrect`, `RingBlamesRightly`, `RingReleasesIdle`, `RingLeavesInFlight`, `RingWaitsFully`, `GateMeetsHeader`, `RingGateExact` | submissions and signals alternate in the queue, the fence's value counts the signals that ran, and while nothing was overtaken those that ran are a prefix; so a completed value covers every list up to it, and a slot's value its last list. An armed event belongs to the wait under way |
| SubmissionProofs | `TimingInvariant`, `TimingFlagRight`, `CoherencyInvariant`, `ProbesTypeCorrect`, `ProbesBlameRightly`, `ProbesFlagRight`, `ProbesReleaseIdle`, `ProbesLeaveInFlight`, `ProbesWaitFully` | while the queue keeps its order and nothing lands behind a scan, the places landed and the places seen are each a first part of all, so the next one seen is never below the last. The coherency probe has at most one list on its way, and none outside its wait. Each probe keeps its own invariant and leaves the variables of the others at their start, so the theorems hold of MCSubmission, whichever probe runs |

Every invariant and action property of the passing runs, and the three
refinements, are stated by a theorem. Only model-checked: the liveness
properties `InitMutexReleased`, `CallReturns`, `CallsReturn` and `ProbeEnds`,
since fairness and ENABLED are beyond the prover, and what the violation runs
refute. The invariants of the proofs were checked by TLC on the runs' instances
before they were proved.

## Running it

    tlasany M.tla
    tlc -workers 2 -config MCBridge.cfg MCBridge
    tlapm BridgeProofs.tla

`PROJECT.json` lists the runs with their properties, for each property a mutant
of the code that breaks it, the source lines each definition stands for, and the
hazards the properties are for.

## Plan

Done, in this order: AllocCap, CallConfig, NativeShim with SymbolTable, the
bridge with RemoteCalls, AddressSpace, HipForward with StreamOrder, the
submission probes, and the proofs above, the last ones those of the ledger, of
the handles and of the refinement to RemoteCalls. Left: to split the longest
leaves of the proofs, and to state what each table of the daemon holds after a
game has gone (hip-bridge/native-daemon/src/main.rs:63), for which no property
is stated yet.
