----------------------------- MODULE HipForward -----------------------------
(***************************************************************************)
(* The calls the shim forwards: the exports of pe_shim.c, the dispatch     *)
(* table, the handlers of native.c, and the one last error they share, in  *)
(* front of the real runtime (HipRuntime) and of memory shared with        *)
(* Direct3D (ExternalMemory).                                              *)
(*                                                                         *)
(* A unix call runs on the caller's thread, so an export up to the entry   *)
(* of the library is one step, and so is its return; a blocking call stays *)
(* in the library until what it waits for has finished.  Any call may fail *)
(* in the library, or because the library or a symbol of it is missing     *)
(* (NativeShim has the loader, AllocCap the bookkeeping of hipMalloc and   *)
(* hipFree, CallConfig the launch configuration).                          *)
(*                                                                         *)
(* asked and told are history: what callers asked for and were told, in    *)
(* terms of their own arguments, whatever the shim made of these.          *)
(***************************************************************************)
EXTENDS HipRuntime, ExternalMemory

CONSTANTS
  Threads,
  LibraryErrors  \* codes the library fails a call with

ASSUME ForwardAssumption == LibraryErrors \subseteq Nat \ {0}

VARIABLES
  last_error,
  pc, rc,   \* per thread: where it is, and a->ret
  error,    \* per thread: what its export reports instead of a failure
  waits,    \* per thread: the operations the library waits for
  promise,  \* history, per thread: the operations asked for that success vouches for
  asked,    \* history: the operations callers asked for, with their own arguments
  told,     \* history: the operations some call reported finished
  unread,   \* history: a call failed and no hipGetLastError has run since
  raced     \* history: a call failed while a hipGetLastError was half way

callVars == <<pc, rc, error, waits>>
reportVars == <<last_error, told, unread, raced>>
vars == <<runtimeVars, memoryVars, callVars, reportVars, promise, asked>>

HIP_SUCCESS == 0
HIP_ERROR_NO_DEVICE == 100
HIP_ERROR_NOT_READY == 600
HIP_ERROR_NOT_SUPPORTED == 801
NO_SYMBOL == -1

FailCodes == LibraryErrors \cup {NO_SYMBOL}
ReturnCodes == FailCodes \cup {HIP_SUCCESS, HIP_ERROR_NOT_READY}
ReportedCodes == {HIP_SUCCESS, HIP_ERROR_NO_DEVICE, HIP_ERROR_NOT_SUPPORTED}

Init ==
  /\ RuntimeInit
  /\ MemoryInit
  /\ last_error = HIP_SUCCESS
  /\ pc = [t \in Threads |-> "idle"]
  /\ rc = [t \in Threads |-> HIP_SUCCESS]
  /\ error = [t \in Threads |-> HIP_SUCCESS]
  /\ waits = [t \in Threads |-> {}]
  /\ promise = [t \in Threads |-> {}]
  /\ asked = <<>>
  /\ told = {}
  /\ unread = FALSE
  /\ raced = FALSE

-----------------------------------------------------------------------------
(* Inside the library. *)

(* The library answers at once, with code c. *)
Reply(t, c) ==
  /\ pc' = [pc EXCEPT ![t] = "returned"]
  /\ rc' = [rc EXCEPT ![t] = c]
  /\ UNCHANGED waits

(* The library will answer once all of S has finished. *)
Block(t, S) ==
  /\ pc' = [pc EXCEPT ![t] = "library"]
  /\ waits' = [waits EXCEPT ![t] = S]
  /\ UNCHANGED rc

Fails(t) == \E c \in FailCodes : Reply(t, c) /\ UNCHANGED <<runtimeVars, memoryVars>>

Succeeds(t) == Reply(t, HIP_SUCCESS) /\ UNCHANGED <<runtimeVars, memoryVars>>

Enqueue(t, s, e) ==
  \/ Fails(t)
  \/ Submit(s, e) /\ Reply(t, HIP_SUCCESS) /\ UNCHANGED memoryVars

EnqueueAndWait(t, s) ==
  \/ Fails(t)
  \/ Submit(s, NoEvent) /\ Block(t, {Len(work) + 1}) /\ UNCHANGED memoryVars

WaitFor(t, S) ==
  \/ Fails(t)
  \/ Block(t, S) /\ UNCHANGED <<runtimeVars, memoryVars>>

-----------------------------------------------------------------------------
(* Plausible wrong versions of the code, for the mutation runs. *)

LaunchOnNullStream(t, a) == Enqueue(t, NullStream, NoEvent)
SynchronizeNothing(t, a) == Fails(t) \/ Succeeds(t)
SynchronizeOneTooMany(t, a) == WaitFor(t, 1 .. MaxWork)
SuccessOverwrites(t) == last_error' = IF rc[t] = HIP_SUCCESS THEN HIP_SUCCESS ELSE error[t]
ReportRealCode(t) == last_error' = IF rc[t] = HIP_SUCCESS THEN last_error ELSE rc[t]

-----------------------------------------------------------------------------
(* The handlers of native.c.  A memcpy_to_symbol or a launch whose symbol or
   kernel was never registered is one of the failures. *)
unix_memcpy(t, a) == EnqueueAndWait(t, NullStream)
unix_memset(t, a) == EnqueueAndWait(t, NullStream)
unix_memcpy_to_symbol(t, a) == EnqueueAndWait(t, NullStream)
unix_memcpy_async(t, a) == Enqueue(t, a.stream, NoEvent)
unix_memset_async(t, a) == Enqueue(t, a.stream, NoEvent)
unix_launch_kernel(t, a) == Enqueue(t, a.stream, NoEvent)
unix_event_record(t, a) == Enqueue(t, a.stream, a.event)

unix_device_synchronize(t, a) == WaitFor(t, DOMAIN work)
unix_stream_synchronize(t, a) == WaitFor(t, OnStream(work, a.stream))
unix_event_synchronize(t, a) == WaitFor(t, LastRecord(work, a.event))

unix_event_query(t, a) ==
  \/ Fails(t)
  \/ /\ Reply(t, IF LastRecord(work, a.event) \subseteq finished
                   THEN HIP_SUCCESS ELSE HIP_ERROR_NOT_READY)
     /\ UNCHANGED <<runtimeVars, memoryVars>>

(* The time between two events that were recorded and have both happened. *)
unix_event_elapsed_time(t, a) ==
  LET records == LastRecord(work, a.start) \cup LastRecord(work, a.event)
      recorded == LastRecord(work, a.start) # {} /\ LastRecord(work, a.event) # {}
  IN  \/ Fails(t)
      \/ /\ recorded
         /\ Reply(t, IF records \subseteq finished THEN HIP_SUCCESS ELSE HIP_ERROR_NOT_READY)
         /\ UNCHANGED <<runtimeVars, memoryVars>>

(* hip_forward_ptr_result: a handle and a code, both as the library gave them. *)
unix_stream_create(t, a) ==
  \/ Fails(t)
  \/ CreateStream /\ Reply(t, HIP_SUCCESS) /\ UNCHANGED memoryVars
unix_event_create(t, a) ==
  \/ Fails(t)
  \/ CreateEvent /\ Reply(t, HIP_SUCCESS) /\ UNCHANGED memoryVars
unix_import_external_memory(t, a) ==
  \/ Fails(t)
  \/ ImportFd(a.fd, a.meant) /\ Reply(t, HIP_SUCCESS) /\ UNCHANGED runtimeVars
unix_external_memory_get_mapped_buffer(t, a) ==
  \/ Fails(t)
  \/ imported # {} /\ Succeeds(t)
unix_destroy_external_memory(t, a) ==
  \/ Fails(t)
  \/ DestroyMemory /\ Reply(t, HIP_SUCCESS) /\ UNCHANGED runtimeVars

(* Calls whose effect on the library no other call here can see. *)
unix_get_device_count(t, a) == Fails(t) \/ Succeeds(t)
unix_set_device(t, a) == Fails(t) \/ Succeeds(t)
unix_get_device_properties(t, a) == Fails(t) \/ Succeeds(t)
unix_malloc(t, a) == Fails(t) \/ Succeeds(t)
unix_free(t, a) == Fails(t) \/ Succeeds(t)
hip_version_query_apply(t) == Fails(t) \/ Succeeds(t)
unix_driver_get_version(t, a) == hip_version_query_apply(t)
unix_runtime_get_version(t, a) == hip_version_query_apply(t)

-----------------------------------------------------------------------------
(* enum hip_unix_call, the codes the PE side calls with; and the table the
   Unix side looks them up in. *)
hip_unix_call ==
  [GET_DEVICE_COUNT |-> 0, SET_DEVICE |-> 1, DRIVER_GET_VERSION |-> 2,
   RUNTIME_GET_VERSION |-> 3, GET_ERROR_STRING |-> 4, GET_DEVICE_PROPERTIES |-> 5,
   MALLOC |-> 6, FREE |-> 7, MEMCPY |-> 8, DEVICE_SYNCHRONIZE |-> 9,
   REGISTER_FAT_BINARY |-> 10, REGISTER_FUNCTION |-> 11, UNREGISTER_FAT_BINARY |-> 12,
   LAUNCH_KERNEL |-> 13, IMPORT_EXTERNAL_MEMORY |-> 14,
   EXTERNAL_MEMORY_GET_MAPPED_BUFFER |-> 15, DESTROY_EXTERNAL_MEMORY |-> 16,
   EVENT_CREATE |-> 17, EVENT_RECORD |-> 18, EVENT_SYNCHRONIZE |-> 19, EVENT_QUERY |-> 20,
   EVENT_ELAPSED_TIME |-> 21, STREAM_CREATE |-> 22, STREAM_SYNCHRONIZE |-> 23,
   MEMSET |-> 24, MEMSET_ASYNC |-> 25, REGISTER_VAR |-> 26, MEMCPY_TO_SYMBOL |-> 27,
   MEMCPY_ASYNC |-> 28]

unix_call_funcs ==
  <<"get_device_count", "set_device", "driver_get_version", "runtime_get_version",
    "get_error_string", "get_device_properties", "malloc", "free", "memcpy",
    "device_synchronize", "register_fat_binary", "register_function",
    "unregister_fat_binary", "launch_kernel", "import_external_memory",
    "external_memory_get_mapped_buffer", "destroy_external_memory", "event_create",
    "event_record", "event_synchronize", "event_query", "event_elapsed_time",
    "stream_create", "stream_synchronize", "memset", "memset_async", "register_var",
    "memcpy_to_symbol", "memcpy_async">>

(* WINE_UNIX_CALL, for the handlers of this module. *)
Dispatch(t, code, a) ==
  LET func == unix_call_funcs[code + 1]
  IN  \/ func = "get_device_count" /\ unix_get_device_count(t, a)
      \/ func = "set_device" /\ unix_set_device(t, a)
      \/ func = "driver_get_version" /\ unix_driver_get_version(t, a)
      \/ func = "runtime_get_version" /\ unix_runtime_get_version(t, a)
      \/ func = "get_device_properties" /\ unix_get_device_properties(t, a)
      \/ func = "malloc" /\ unix_malloc(t, a)
      \/ func = "free" /\ unix_free(t, a)
      \/ func = "memcpy" /\ unix_memcpy(t, a)
      \/ func = "device_synchronize" /\ unix_device_synchronize(t, a)
      \/ func = "launch_kernel" /\ unix_launch_kernel(t, a)
      \/ func = "import_external_memory" /\ unix_import_external_memory(t, a)
      \/ func = "external_memory_get_mapped_buffer"
           /\ unix_external_memory_get_mapped_buffer(t, a)
      \/ func = "destroy_external_memory" /\ unix_destroy_external_memory(t, a)
      \/ func = "event_create" /\ unix_event_create(t, a)
      \/ func = "event_record" /\ unix_event_record(t, a)
      \/ func = "event_synchronize" /\ unix_event_synchronize(t, a)
      \/ func = "event_query" /\ unix_event_query(t, a)
      \/ func = "event_elapsed_time" /\ unix_event_elapsed_time(t, a)
      \/ func = "stream_create" /\ unix_stream_create(t, a)
      \/ func = "stream_synchronize" /\ unix_stream_synchronize(t, a)
      \/ func = "memset" /\ unix_memset(t, a)
      \/ func = "memset_async" /\ unix_memset_async(t, a)
      \/ func = "memcpy_to_symbol" /\ unix_memcpy_to_symbol(t, a)
      \/ func = "memcpy_async" /\ unix_memcpy_async(t, a)

-----------------------------------------------------------------------------
(* The exports of pe_shim.c: each fills in its arguments, makes one unix call,
   and reports err should that call fail.  P is what its success vouches for.
   hipFree(NULL) does nothing; hipGetErrorString reads a text and no state. *)
UnixCall(t, code, a, err, P) ==
  /\ pc[t] = "idle"
  /\ Dispatch(t, code, a)
  /\ error' = [error EXCEPT ![t] = err]
  /\ asked' = IF work' = work THEN asked
              ELSE Append(asked, [stream |-> a.stream, event |-> a.event])
  /\ promise' = [promise EXCEPT ![t] = IF rc'[t] = HIP_SUCCESS THEN P ELSE {}]
  /\ UNCHANGED reportVars

(* Every failure notes that it has happened, and whether it fell between the two
   halves of a hipGetLastError. *)
NoteFailure ==
  /\ unread' = TRUE
  /\ raced' = (raced \/ \E u \in Threads : pc[u] = "reset")

(* An export that rejects its arguments never makes the unix call. *)
Reject(t) ==
  /\ pc[t] = "idle"
  /\ last_error' = HIP_ERROR_NOT_SUPPORTED
  /\ NoteFailure
  /\ UNCHANGED <<runtimeVars, memoryVars, callVars, promise, asked, told>>

NoArgs == [stream |-> NullStream, event |-> NoEvent, start |-> NoEvent, fd |-> -1,
           meant |-> Foreign]
OnEvent(e) == [NoArgs EXCEPT !.event = e]

hipGetDeviceCount(t) ==
  UnixCall(t, hip_unix_call.GET_DEVICE_COUNT, NoArgs, HIP_ERROR_NO_DEVICE, {})
hipGetDevicePropertiesR0600(t) ==
  UnixCall(t, hip_unix_call.GET_DEVICE_PROPERTIES, NoArgs, HIP_ERROR_NOT_SUPPORTED, {})
hipSetDevice(t) == UnixCall(t, hip_unix_call.SET_DEVICE, NoArgs, HIP_ERROR_NO_DEVICE, {})
hipMalloc(t) == UnixCall(t, hip_unix_call.MALLOC, NoArgs, HIP_ERROR_NO_DEVICE, {})
hipFree(t) == UnixCall(t, hip_unix_call.FREE, NoArgs, HIP_ERROR_NOT_SUPPORTED, {})

(* These two never look at a->ret. *)
hipDriverGetVersion(t) ==
  UnixCall(t, hip_unix_call.DRIVER_GET_VERSION, NoArgs, HIP_SUCCESS, {})
hipRuntimeGetVersion(t) ==
  UnixCall(t, hip_unix_call.RUNTIME_GET_VERSION, NoArgs, HIP_SUCCESS, {})

(* hipMemcpyKind as callers pass it, one value on either side of the range. *)
MemcpyKinds == {-1, 0, 4, 5}
hip_memcpy_kind_supported(kind) == kind \in 0 .. 4

(* All that the null stream was given, once asked' has this call. *)
AllOnNullStream == OnStream(asked', NullStream)

memcpy_forward(t) ==
  \E kind \in MemcpyKinds :
    \/ ~hip_memcpy_kind_supported(kind) /\ Reject(t)
    \/ hip_memcpy_kind_supported(kind)
         /\ UnixCall(t, hip_unix_call.MEMCPY, NoArgs, HIP_ERROR_NOT_SUPPORTED, AllOnNullStream)
hipMemcpy(t) == memcpy_forward(t)

hipMemcpyToSymbol(t) ==
  \E kind \in MemcpyKinds :
    \/ ~hip_memcpy_kind_supported(kind) /\ Reject(t)
    \/ hip_memcpy_kind_supported(kind)
         /\ UnixCall(t, hip_unix_call.MEMCPY_TO_SYMBOL, NoArgs, HIP_ERROR_NOT_SUPPORTED,
                     AllOnNullStream)

hipMemcpyAsync(t) ==
  \E kind \in MemcpyKinds, s \in UsableStreams :
    \/ ~hip_memcpy_kind_supported(kind) /\ Reject(t)
    \/ hip_memcpy_kind_supported(kind)
         /\ UnixCall(t, hip_unix_call.MEMCPY_ASYNC, [NoArgs EXCEPT !.stream = s],
                     HIP_ERROR_NOT_SUPPORTED, {})

memset_forward(t) ==
  UnixCall(t, hip_unix_call.MEMSET, NoArgs, HIP_ERROR_NOT_SUPPORTED, AllOnNullStream)
hipMemset(t) == memset_forward(t)

hipMemsetAsync(t) ==
  \E s \in UsableStreams :
    UnixCall(t, hip_unix_call.MEMSET_ASYNC, [NoArgs EXCEPT !.stream = s],
             HIP_ERROR_NOT_SUPPORTED, {})

(* A null grid, block or argument pointer is rejected. *)
hipLaunchKernel(t) ==
  \/ Reject(t)
  \/ \E s \in UsableStreams :
       UnixCall(t, hip_unix_call.LAUNCH_KERNEL, [NoArgs EXCEPT !.stream = s],
                HIP_ERROR_NOT_SUPPORTED, {})

hipDeviceSynchronize(t) ==
  UnixCall(t, hip_unix_call.DEVICE_SYNCHRONIZE, NoArgs, HIP_ERROR_NOT_SUPPORTED, DOMAIN asked)

hipStreamCreateWithFlags(t) ==
  UnixCall(t, hip_unix_call.STREAM_CREATE, NoArgs, HIP_ERROR_NOT_SUPPORTED, {})

hipStreamSynchronize(t) ==
  \E s \in UsableStreams :
    UnixCall(t, hip_unix_call.STREAM_SYNCHRONIZE, [NoArgs EXCEPT !.stream = s],
             HIP_ERROR_NOT_SUPPORTED, OnStream(asked, s))

(* hipEventCreateWithFlags is the same call with other flags. *)
hipEventCreate(t) ==
  UnixCall(t, hip_unix_call.EVENT_CREATE, NoArgs, HIP_ERROR_NOT_SUPPORTED, {})
hipEventCreateWithFlags(t) == hipEventCreate(t)

hipEventRecord(t) ==
  \E e \in events, s \in UsableStreams :
    UnixCall(t, hip_unix_call.EVENT_RECORD, [OnEvent(e) EXCEPT !.stream = s],
             HIP_ERROR_NOT_SUPPORTED, {})

hipEventQuery(t) ==
  \E e \in events :
    UnixCall(t, hip_unix_call.EVENT_QUERY, OnEvent(e), HIP_ERROR_NOT_SUPPORTED,
             UpToRecord(asked, e))

hipEventSynchronize(t) ==
  \E e \in events :
    UnixCall(t, hip_unix_call.EVENT_SYNCHRONIZE, OnEvent(e), HIP_ERROR_NOT_SUPPORTED,
             UpToRecord(asked, e))

hipEventElapsedTime(t) ==
  \E start, stop \in events :
    UnixCall(t, hip_unix_call.EVENT_ELAPSED_TIME, [OnEvent(stop) EXCEPT !.start = start],
             HIP_ERROR_NOT_SUPPORTED, UpToRecord(asked, start) \cup UpToRecord(asked, stop))

(* A null descriptor is rejected, and so is one no descriptor can be taken from. *)
hipImportExternalMemory(t) ==
  \/ Reject(t)
  \/ \E d \in Descriptors :
       LET fd == hip_ext_mem_extract_fd(d.type, d.number)
       IN  \/ fd < 0 /\ Reject(t)
           \/ fd >= 0
                /\ UnixCall(t, hip_unix_call.IMPORT_EXTERNAL_MEMORY,
                            [NoArgs EXCEPT !.fd = fd, !.meant = d.means],
                            HIP_ERROR_NOT_SUPPORTED, {})

hipExternalMemoryGetMappedBuffer(t) ==
  \/ Reject(t)
  \/ UnixCall(t, hip_unix_call.EXTERNAL_MEMORY_GET_MAPPED_BUFFER, NoArgs,
              HIP_ERROR_NOT_SUPPORTED, {})

hipDestroyExternalMemory(t) ==
  UnixCall(t, hip_unix_call.DESTROY_EXTERNAL_MEMORY, NoArgs, HIP_ERROR_NOT_SUPPORTED, {})

-----------------------------------------------------------------------------
(* The blocking call in the library comes back: what it waits for has finished,
   or the library gives up on it. *)
LibraryReturns(t) ==
  /\ pc[t] = "library"
  /\ waits[t] \subseteq finished
  /\ pc' = [pc EXCEPT ![t] = "returned"]
  /\ waits' = [waits EXCEPT ![t] = {}]
  /\ UNCHANGED <<runtimeVars, memoryVars, reportVars, rc, error, promise, asked>>

LibraryFails(t) ==
  /\ pc[t] = "library"
  /\ \E c \in FailCodes : rc' = [rc EXCEPT ![t] = c]
  /\ pc' = [pc EXCEPT ![t] = "returned"]
  /\ waits' = [waits EXCEPT ![t] = {}]
  /\ promise' = [promise EXCEPT ![t] = {}]
  /\ UNCHANGED <<runtimeVars, memoryVars, reportVars, error, asked>>

(* return a.ret == HIP_SUCCESS ? HIP_SUCCESS : set_last_error(error) *)
ReportError(t) ==
  last_error' = IF rc[t] = HIP_SUCCESS \/ error[t] = HIP_SUCCESS THEN last_error ELSE error[t]

Return(t) ==
  /\ pc[t] = "returned"
  /\ ReportError(t)
  /\ IF rc[t] = HIP_SUCCESS \/ error[t] = HIP_SUCCESS
       THEN UNCHANGED <<unread, raced>> ELSE NoteFailure
  /\ told' = told \cup promise[t]
  /\ pc' = [pc EXCEPT ![t] = "idle"]
  /\ rc' = [rc EXCEPT ![t] = HIP_SUCCESS]
  /\ error' = [error EXCEPT ![t] = HIP_SUCCESS]
  /\ promise' = [promise EXCEPT ![t] = {}]
  /\ UNCHANGED <<runtimeVars, memoryVars, waits, asked>>

(* hipGetLastError loads the error, and a later store resets it. *)
LoadLastError(t) ==
  /\ pc[t] = "idle"
  /\ pc' = [pc EXCEPT ![t] = "reset"]
  /\ unread' = FALSE
  /\ UNCHANGED <<runtimeVars, memoryVars, rc, error, waits, last_error, told, raced,
                 promise, asked>>

ResetLastError(t) ==
  /\ pc[t] = "reset"
  /\ last_error' = HIP_SUCCESS
  /\ pc' = [pc EXCEPT ![t] = "idle"]
  /\ UNCHANGED <<runtimeVars, memoryVars, rc, error, waits, told, unread, raced,
                 promise, asked>>

-----------------------------------------------------------------------------
StreamCall(t) ==
  \/ hipMemcpy(t) \/ hipMemcpyToSymbol(t) \/ hipMemcpyAsync(t)
  \/ hipMemset(t) \/ hipMemsetAsync(t) \/ hipLaunchKernel(t)
  \/ hipDeviceSynchronize(t) \/ hipStreamCreateWithFlags(t) \/ hipStreamSynchronize(t)
  \/ hipEventCreate(t) \/ hipEventCreateWithFlags(t) \/ hipEventRecord(t)
  \/ hipEventQuery(t) \/ hipEventSynchronize(t) \/ hipEventElapsedTime(t)

DeviceCall(t) ==
  \/ hipGetDeviceCount(t) \/ hipGetDevicePropertiesR0600(t) \/ hipSetDevice(t)
  \/ hipMalloc(t) \/ hipFree(t) \/ hipDriverGetVersion(t) \/ hipRuntimeGetVersion(t)

InteropCall(t) ==
  \/ hipImportExternalMemory(t) \/ hipExternalMemoryGetMappedBuffer(t)
  \/ hipDestroyExternalMemory(t)

hipGetLastError(t) == LoadLastError(t) \/ ResetLastError(t)

Finishing(t) == LibraryReturns(t) \/ LibraryFails(t) \/ Return(t)

(* The GPU, and Direct3D on its own threads. *)
GpuStep == GpuFinishes /\ UNCHANGED <<memoryVars, callVars, reportVars, promise, asked>>
ShareStep ==
  CreateSharedHandle /\ UNCHANGED <<runtimeVars, callVars, reportVars, promise, asked>>

Next ==
  \/ \E t \in Threads : StreamCall(t) \/ DeviceCall(t) \/ InteropCall(t)
                       \/ hipGetLastError(t) \/ Finishing(t)
  \/ GpuStep
  \/ ShareStep

Spec == Init /\ [][Next]_vars

(* The GPU does not stop, and a thread in a call gets to run. *)
Fairness ==
  /\ WF_vars(GpuStep)
  /\ \A t \in Threads : WF_vars(LibraryReturns(t) \/ Return(t) \/ ResetLastError(t))

FairSpec == Spec /\ Fairness

(* What callers may rely on, with their own streams for the library's. *)
Order == INSTANCE StreamOrder WITH
  Streams <- AnyStream, asked <- [i \in DOMAIN asked |-> asked[i].stream]

-----------------------------------------------------------------------------
TypeOK ==
  /\ work \in Seq(Operation) /\ Len(work) <= MaxWork
  /\ finished \subseteq DOMAIN work
  /\ streams \in [Streams -> StreamKinds]
  /\ events \subseteq Events
  /\ exported \in Seq(Buffers) /\ Len(exported) <= MaxFds
  /\ handles \subseteq Handle
  /\ imported \subseteq ImportedMemory
  /\ last_error \in ReportedCodes
  /\ pc \in [Threads -> {"idle", "library", "returned", "reset"}]
  /\ rc \in [Threads -> ReturnCodes]
  /\ error \in [Threads -> ReportedCodes]
  /\ waits \in [Threads -> SUBSET (1 .. MaxWork)]
  /\ promise \in [Threads -> SUBSET (DOMAIN asked)]
  /\ asked \in Seq(Operation)
  /\ told \subseteq DOMAIN asked
  /\ unread \in BOOLEAN /\ raced \in BOOLEAN

(* A call that reports success tells the truth: everything on the stream that
   hipStreamSynchronize was given, everything at all for hipDeviceSynchronize,
   everything up to the recording of the event for hipEventSynchronize,
   hipEventQuery and hipEventElapsedTime, and the copy itself for a blocking
   copy, has finished on the GPU, whichever thread asked for it. *)
SyncTellsTruth == told \subseteq finished

(* Behind the shim, work finishes in the order of the streams that callers
   named, not of a stream the shim put in their place (native.c:447-467 tells of
   the time when every call ran on the null stream). *)
ImplementsStreamOrder == Order!Spec

(* A failure stays in last_error, past later calls that succeed and whichever
   thread makes them, until some thread has read it; and nothing is in it once
   it has been read, unless a failure fell inside a hipGetLastError. *)
ErrorKeptUntilRead ==
  ~raced /\ (\A t \in Threads : pc[t] # "reset") => (last_error # HIP_SUCCESS <=> unread)

(* A call that blocks in the library comes back as long as the GPU makes
   progress, whatever the other threads ask for meanwhile. *)
CallsReturn == \A t \in Threads : pc[t] = "library" ~> pc[t] = "idle"

(* An external memory object holds the resource its handle was given out for:
   numbers that are descriptors are never mistaken for Win32 handles, nor is the
   null handle of a texture for descriptor 0. *)
ImportDenotes == \A m \in imported : m.holds = m.meant

(* docs/linux-support-spec.md:3538-3541 and 4398-4400: an error 801 is "a genuine
   return code from the real ROCm stack, not something fabricated by this
   project", hipGetLastError's 801 "HIP's real, honest report". *)
NotSupportedIsGenuine ==
  [][\A t \in Threads :
       pc[t] = "returned" /\ rc[t] \notin {HIP_SUCCESS, NO_SYMBOL} /\ pc'[t] = "idle"
         => (last_error' = HIP_ERROR_NOT_SUPPORTED => rc[t] = HIP_ERROR_NOT_SUPPORTED)]_vars
=============================================================================
