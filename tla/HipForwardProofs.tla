--------------------------- MODULE HipForwardProofs ---------------------------
(***************************************************************************)
(* Proofs about HipForward.  Every export is shown to be a Served step (or *)
(* a rejection): one operation at most is given to the library, it is the  *)
(* operation the caller asked for, and success vouches for nothing that    *)
(* the library has not waited for.  The invariant and the refinement then  *)
(* follow from Served alone.                                               *)
(***************************************************************************)
EXTENDS HipForward, SequenceTheorems, TLAPS

(* Everything in P is, on its own stream, no later than something in W. *)
Covers(ops, W, P) ==
  \A i \in P : \E w \in W \cap DOMAIN ops : i <= w /\ ops[i].stream = ops[w].stream

FinishedInOrder ==
  \A i \in finished : \A j \in 1 .. i - 1 : work[j].stream = work[i].stream => j \in finished

PromisesCovered ==
  \A t \in Threads :
    /\ pc[t] = "library" => Covers(work, waits[t], promise[t])
    /\ pc[t] = "returned" => promise[t] \subseteq finished

HandlesDenote ==
  \A h \in handles :
    h.number # NULL_HANDLE => h.number \in DOMAIN exported /\ exported[h.number] = h.means

ErrorInv ==
  ~raced => /\ (\E u \in Threads : pc[u] = "reset") => ~unread
            /\ (\A u \in Threads : pc[u] # "reset") => (last_error # HIP_SUCCESS <=> unread)

IInv ==
  /\ TypeOK
  /\ asked = work
  /\ FinishedInOrder
  /\ PromisesCovered
  /\ SyncTellsTruth
  /\ HandlesDenote
  /\ ImportDenotes
  /\ ErrorInv

-----------------------------------------------------------------------------
(* What any handler does. *)
Handled(t) ==
  /\ \E p \in {"library", "returned"} : pc' = [pc EXCEPT ![t] = p]
  /\ \E c \in ReturnCodes : rc' = [rc EXCEPT ![t] = c]
  /\ \E W \in SUBSET (1 .. MaxWork) : waits' = [waits EXCEPT ![t] = W]
  /\ Len(work') <= MaxWork
  /\ finished' = finished
  /\ streams' \in [Streams -> StreamKinds]
  /\ events' \subseteq Events
  /\ exported' = exported /\ handles' = handles
  /\ imported' \subseteq ImportedMemory

Refused(t) == work' = work /\ pc'[t] = "returned" /\ rc'[t] # HIP_SUCCESS

Served(t) ==
  /\ pc[t] = "idle"
  /\ Handled(t)
  /\ UNCHANGED reportVars
  /\ error' \in [Threads -> ReportedCodes]
  /\ \/ work' = work /\ asked' = asked
     \/ \E o \in Operation : work' = Append(work, o) /\ asked' = Append(asked, o)
  /\ \E P \in SUBSET (DOMAIN work') :
       /\ promise' = [promise EXCEPT ![t] = P]
       /\ pc'[t] = "library" => Covers(work', waits'[t], P)
       /\ pc'[t] = "returned" => P \subseteq finished
  /\ \A m \in imported' : m \in imported \/ m.holds = m.meant

LEMMA FailsHandled ==
  ASSUME TypeOK, NEW t \in Threads, Fails(t)
  PROVE  Handled(t) /\ Refused(t) /\ imported' = imported
<1>1. PICK c \in FailCodes : Reply(t, c) /\ UNCHANGED <<runtimeVars, memoryVars>>
  BY DEF Fails
<1>2. c \in ReturnCodes /\ c # HIP_SUCCESS
  BY <1>1, ForwardAssumption DEF FailCodes, ReturnCodes, NO_SYMBOL, HIP_SUCCESS
<1>3. waits' = [waits EXCEPT ![t] = waits[t]] /\ waits[t] \in SUBSET (1 .. MaxWork)
  BY <1>1 DEF Reply, TypeOK
<1> QED
  BY <1>1, <1>2, <1>3 DEF Reply, Handled, Refused, TypeOK, runtimeVars, memoryVars

LEMMA SucceedsHandled ==
  ASSUME TypeOK, NEW t \in Threads, Succeeds(t)
  PROVE  Handled(t) /\ work' = work /\ imported' = imported
<1>1. waits' = [waits EXCEPT ![t] = waits[t]] /\ waits[t] \in SUBSET (1 .. MaxWork)
  BY DEF Succeeds, Reply, TypeOK
<1> QED
  BY <1>1 DEF Succeeds, Reply, Handled, ReturnCodes, TypeOK, runtimeVars, memoryVars

LEMMA EnqueueHandled ==
  ASSUME TypeOK, NEW t \in Threads, NEW s \in AnyStream, NEW e \in AnyEvent, Enqueue(t, s, e)
  PROVE  /\ Handled(t) /\ imported' = imported /\ pc'[t] = "returned"
         /\ \/ Refused(t)
            \/ work' = Append(work, [stream |-> s, event |-> e])
<1>1. CASE Fails(t)
  BY <1>1, FailsHandled DEF Refused
<1>2. CASE Submit(s, e) /\ Reply(t, HIP_SUCCESS) /\ UNCHANGED memoryVars
  <2>1. waits' = [waits EXCEPT ![t] = waits[t]] /\ waits[t] \in SUBSET (1 .. MaxWork)
    BY <1>2 DEF Reply, TypeOK
  <2>2. Len(work') <= MaxWork
    BY <1>2, RuntimeAssumption, LenProperties, AppendProperties DEF Submit, TypeOK
  <2> QED
    BY <1>2, <2>1, <2>2 DEF Submit, Reply, Handled, ReturnCodes, TypeOK, memoryVars
<1> QED
  BY <1>1, <1>2 DEF Enqueue

LEMMA EnqueueAndWaitHandled ==
  ASSUME TypeOK, NEW t \in Threads, NEW s \in AnyStream, EnqueueAndWait(t, s)
  PROVE  /\ Handled(t) /\ imported' = imported
         /\ \/ Refused(t)
            \/ /\ work' = Append(work, [stream |-> s, event |-> NoEvent])
               /\ pc'[t] = "library" /\ waits'[t] = {Len(work) + 1}
<1>1. CASE Fails(t)
  BY <1>1, FailsHandled DEF Refused
<1>2. CASE Submit(s, NoEvent) /\ Block(t, {Len(work) + 1}) /\ UNCHANGED memoryVars
  <2>1. Len(work) \in Nat /\ Len(work) < MaxWork /\ MaxWork \in Nat
    BY <1>2, RuntimeAssumption, LenProperties DEF Submit, TypeOK
  <2>2. Len(work') = Len(work) + 1
    BY <1>2, AppendProperties DEF Submit, TypeOK, Operation, AnyEvent
  <2>3. {Len(work) + 1} \in SUBSET (1 .. MaxWork)
    BY <2>1
  <2>4. rc' = [rc EXCEPT ![t] = rc[t]] /\ rc[t] \in ReturnCodes
    BY <1>2 DEF Block, TypeOK
  <2>5. /\ work' = Append(work, [stream |-> s, event |-> NoEvent])
        /\ pc'[t] = "library" /\ waits'[t] = {Len(work) + 1} /\ imported' = imported
    BY <1>2 DEF Submit, Block, TypeOK, memoryVars
  <2>6. Len(work') <= MaxWork
    BY <2>1, <2>2
  <2>7. Handled(t)
    BY <1>2, <2>3, <2>4, <2>6 DEF Submit, Block, Handled, TypeOK, memoryVars
  <2> QED
    BY <2>5, <2>7
<1> QED
  BY <1>1, <1>2 DEF EnqueueAndWait

LEMMA WaitForHandled ==
  ASSUME TypeOK, NEW t \in Threads, NEW S \in SUBSET (DOMAIN work), WaitFor(t, S)
  PROVE  /\ Handled(t) /\ imported' = imported /\ work' = work
         /\ \/ Refused(t)
            \/ (pc'[t] = "library" /\ waits'[t] = S)
<1>1. CASE Fails(t)
  BY <1>1, FailsHandled DEF Refused
<1>2. CASE Block(t, S) /\ UNCHANGED <<runtimeVars, memoryVars>>
  <2>1. S \in SUBSET (1 .. MaxWork)
    BY RuntimeAssumption, LenProperties DEF TypeOK
  <2>2. rc' = [rc EXCEPT ![t] = rc[t]] /\ rc[t] \in ReturnCodes
    BY <1>2 DEF Block, TypeOK
  <2> QED
    BY <1>2, <2>1, <2>2 DEF Block, Handled, TypeOK, runtimeVars, memoryVars
<1> QED
  BY <1>1, <1>2 DEF WaitFor

-----------------------------------------------------------------------------
(* From a handler to the export that called it. *)
LEMMA CallServed ==
  ASSUME IInv, NEW t \in Threads, NEW code, NEW err \in ReportedCodes, NEW P,
         NEW a, a.stream \in AnyStream, a.event \in AnyEvent,
         pc[t] = "idle", Handled(t),
         error' = [error EXCEPT ![t] = err],
         asked' = IF work' = work THEN asked
                  ELSE Append(asked, [stream |-> a.stream, event |-> a.event]),
         promise' = [promise EXCEPT ![t] = IF rc'[t] = HIP_SUCCESS THEN P ELSE {}],
         UNCHANGED reportVars,
         work' = work \/ work' = Append(work, [stream |-> a.stream, event |-> a.event]),
         \/ rc'[t] # HIP_SUCCESS
         \/ /\ P \in SUBSET (DOMAIN work')
            /\ pc'[t] = "library" => Covers(work', waits'[t], P)
            /\ pc'[t] = "returned" => P \subseteq finished,
         \A m \in imported' : m \in imported \/ m.holds = m.meant
  PROVE  Served(t)
<1>1. asked = work
  BY DEF IInv
<1>2. error' \in [Threads -> ReportedCodes]
  BY DEF IInv, TypeOK
<1>3. \/ work' = work /\ asked' = asked
      \/ \E o \in Operation : work' = Append(work, o) /\ asked' = Append(asked, o)
  <2> DEFINE o == [stream |-> a.stream, event |-> a.event]
  <2>1. o \in Operation
    BY DEF Operation
  <2>2. CASE work' = work
    BY <2>2
  <2>3. CASE work' # work
    BY <2>1, <2>3
  <2> QED
    BY <2>2, <2>3
<1>4. \E Q \in SUBSET (DOMAIN work') :
        /\ promise' = [promise EXCEPT ![t] = Q]
        /\ pc'[t] = "library" => Covers(work', waits'[t], Q)
        /\ pc'[t] = "returned" => Q \subseteq finished
  <2>1. CASE rc'[t] # HIP_SUCCESS
    <3>1. promise' = [promise EXCEPT ![t] = {}]
      BY <2>1
    <3>2. Covers(work', waits'[t], {})
      BY DEF Covers
    <3> QED
      BY <3>1, <3>2
  <2>2. CASE rc'[t] = HIP_SUCCESS
    <3>1. promise' = [promise EXCEPT ![t] = P]
      BY <2>2
    <3> QED
      BY <2>2, <3>1
  <2> QED
    BY <2>1, <2>2
<1> QED
  BY <1>2, <1>3, <1>4 DEF Served

(* The code an export calls with finds the handler the export means. *)
LEMMA Table ==
  /\ unix_call_funcs[hip_unix_call.GET_DEVICE_COUNT + 1] = "get_device_count"
  /\ unix_call_funcs[hip_unix_call.SET_DEVICE + 1] = "set_device"
  /\ unix_call_funcs[hip_unix_call.DRIVER_GET_VERSION + 1] = "driver_get_version"
  /\ unix_call_funcs[hip_unix_call.RUNTIME_GET_VERSION + 1] = "runtime_get_version"
  /\ unix_call_funcs[hip_unix_call.GET_DEVICE_PROPERTIES + 1] = "get_device_properties"
  /\ unix_call_funcs[hip_unix_call.MALLOC + 1] = "malloc"
  /\ unix_call_funcs[hip_unix_call.FREE + 1] = "free"
  /\ unix_call_funcs[hip_unix_call.MEMCPY + 1] = "memcpy"
  /\ unix_call_funcs[hip_unix_call.DEVICE_SYNCHRONIZE + 1] = "device_synchronize"
  /\ unix_call_funcs[hip_unix_call.LAUNCH_KERNEL + 1] = "launch_kernel"
  /\ unix_call_funcs[hip_unix_call.IMPORT_EXTERNAL_MEMORY + 1] = "import_external_memory"
  /\ unix_call_funcs[hip_unix_call.EXTERNAL_MEMORY_GET_MAPPED_BUFFER + 1]
       = "external_memory_get_mapped_buffer"
  /\ unix_call_funcs[hip_unix_call.DESTROY_EXTERNAL_MEMORY + 1] = "destroy_external_memory"
  /\ unix_call_funcs[hip_unix_call.EVENT_CREATE + 1] = "event_create"
  /\ unix_call_funcs[hip_unix_call.EVENT_RECORD + 1] = "event_record"
  /\ unix_call_funcs[hip_unix_call.EVENT_SYNCHRONIZE + 1] = "event_synchronize"
  /\ unix_call_funcs[hip_unix_call.EVENT_QUERY + 1] = "event_query"
  /\ unix_call_funcs[hip_unix_call.EVENT_ELAPSED_TIME + 1] = "event_elapsed_time"
  /\ unix_call_funcs[hip_unix_call.STREAM_CREATE + 1] = "stream_create"
  /\ unix_call_funcs[hip_unix_call.STREAM_SYNCHRONIZE + 1] = "stream_synchronize"
  /\ unix_call_funcs[hip_unix_call.MEMSET + 1] = "memset"
  /\ unix_call_funcs[hip_unix_call.MEMSET_ASYNC + 1] = "memset_async"
  /\ unix_call_funcs[hip_unix_call.MEMCPY_TO_SYMBOL + 1] = "memcpy_to_symbol"
  /\ unix_call_funcs[hip_unix_call.MEMCPY_ASYNC + 1] = "memcpy_async"
  BY DEF hip_unix_call, unix_call_funcs

(* A call that gives the library nothing and vouches for nothing. *)
LEMMA PlainServed ==
  ASSUME IInv, NEW t \in Threads, NEW code, NEW a, NEW err \in ReportedCodes,
         a.stream \in AnyStream, a.event \in AnyEvent,
         UnixCall(t, code, a, err, {}), Handled(t), work' = work,
         \A m \in imported' : m \in imported \/ m.holds = m.meant
  PROVE  Served(t)
<1>1. Covers(work', waits'[t], {}) /\ {} \in SUBSET (DOMAIN work') /\ {} \subseteq finished
  BY DEF Covers
<1> QED
  BY <1>1, CallServed DEF UnixCall

LEMMA Arguments ==
  /\ NoArgs.stream = NullStream /\ NoArgs.event = NoEvent /\ NoArgs.start = NoEvent
  /\ NullStream \in AnyStream /\ NoEvent \in AnyEvent
  /\ {HIP_SUCCESS, HIP_ERROR_NO_DEVICE, HIP_ERROR_NOT_SUPPORTED} \subseteq ReportedCodes
  BY DEF NoArgs, AnyStream, AnyEvent, ReportedCodes

LEMMA PlainHandlers ==
  ASSUME TypeOK, NEW t \in Threads, Fails(t) \/ Succeeds(t)
  PROVE  Handled(t) /\ work' = work /\ imported' = imported
BY FailsHandled, SucceedsHandled DEF Refused

LEMMA DeviceCallServed ==
  ASSUME IInv, NEW t \in Threads, DeviceCall(t)
  PROVE  Served(t)
<1>1. TypeOK
  BY DEF IInv
<1> DEFINE Plain(code, err) == UnixCall(t, code, NoArgs, err, {})
<1>2. ASSUME NEW code, NEW err \in ReportedCodes, Plain(code, err), Fails(t) \/ Succeeds(t)
      PROVE  Served(t)
  BY <1>1, <1>2, PlainHandlers, PlainServed, Arguments
<1>3. CASE hipGetDeviceCount(t)
  BY <1>2, <1>3, Table, Arguments DEF hipGetDeviceCount, UnixCall, Dispatch, unix_get_device_count
<1>4. CASE hipGetDevicePropertiesR0600(t)
  BY <1>2, <1>4, Table, Arguments
  DEF hipGetDevicePropertiesR0600, UnixCall, Dispatch, unix_get_device_properties
<1>5. CASE hipSetDevice(t)
  BY <1>2, <1>5, Table, Arguments DEF hipSetDevice, UnixCall, Dispatch, unix_set_device
<1>6. CASE hipMalloc(t)
  BY <1>2, <1>6, Table, Arguments DEF hipMalloc, UnixCall, Dispatch, unix_malloc
<1>7. CASE hipFree(t)
  BY <1>2, <1>7, Table, Arguments DEF hipFree, UnixCall, Dispatch, unix_free
<1>8. CASE hipDriverGetVersion(t)
  BY <1>2, <1>8, Table, Arguments
  DEF hipDriverGetVersion, UnixCall, Dispatch, unix_driver_get_version, hip_version_query_apply
<1>9. CASE hipRuntimeGetVersion(t)
  BY <1>2, <1>9, Table, Arguments
  DEF hipRuntimeGetVersion, UnixCall, Dispatch, unix_runtime_get_version, hip_version_query_apply
<1> QED
  BY <1>3, <1>4, <1>5, <1>6, <1>7, <1>8, <1>9 DEF DeviceCall

LEMMA InteropCallServed ==
  ASSUME IInv, NEW t \in Threads, InteropCall(t)
  PROVE  Served(t) \/ Reject(t)
<1>1. TypeOK /\ HandlesDenote
  BY DEF IInv
<1>2. ASSUME NEW d \in Descriptors, hip_ext_mem_extract_fd(d.type, d.number) >= 0,
             UnixCall(t, hip_unix_call.IMPORT_EXTERNAL_MEMORY,
                      [NoArgs EXCEPT !.fd = hip_ext_mem_extract_fd(d.type, d.number),
                                     !.meant = d.means],
                      HIP_ERROR_NOT_SUPPORTED, {})
      PROVE  Served(t)
  <2> DEFINE a == [NoArgs EXCEPT !.fd = hip_ext_mem_extract_fd(d.type, d.number),
                                 !.meant = d.means]
  <2>1. /\ a.stream = NullStream /\ a.event = NoEvent
        /\ a.fd = hip_ext_mem_extract_fd(d.type, d.number) /\ a.meant = d.means
    BY DEF NoArgs
  <2>2. unix_import_external_memory(t, a)
    BY <1>2, Table DEF UnixCall, Dispatch
  <2>3. CASE Fails(t)
    BY <1>1, <1>2, <2>1, <2>3, PlainHandlers, PlainServed, Arguments
  <2>4. CASE ImportFd(a.fd, a.meant) /\ Reply(t, HIP_SUCCESS) /\ UNCHANGED runtimeVars
    <3>1. waits' = [waits EXCEPT ![t] = waits[t]] /\ waits[t] \in SUBSET (1 .. MaxWork)
      BY <1>1, <2>4 DEF Reply, TypeOK
    <3>2. d \in [type : {HIP_EXT_MEM_TYPE_OPAQUE_FD, HIP_EXT_MEM_TYPE_D3D12_RESOURCE},
                 number : 0 .. MaxFds, means : Resources]
           /\ \E h \in handles : h.number = d.number /\ h.means = d.means
      <4>1. PICK ty \in {HIP_EXT_MEM_TYPE_OPAQUE_FD, HIP_EXT_MEM_TYPE_D3D12_RESOURCE},
                 h \in handles : d = [type |-> ty, number |-> h.number, means |-> h.means]
        <5>1. ASSUME NEW n \in 1 .. MaxFds,
                     d = [type |-> HIP_EXT_MEM_TYPE_OPAQUE_WIN32, number |-> n, means |-> Foreign]
              PROVE  FALSE
          BY <1>2, <5>1 DEF hip_ext_mem_extract_fd, HIP_EXT_MEM_TYPE_OPAQUE_WIN32,
             HIP_EXT_MEM_TYPE_OPAQUE_FD, HIP_EXT_MEM_TYPE_D3D12_RESOURCE
        <5> QED
          BY <5>1 DEF Descriptors
      <4>2. h \in Handle
        BY <1>1 DEF TypeOK
      <4> QED
        BY <4>1, <4>2 DEF Handle
    <3>3. a.fd = d.number
      BY <2>1, <3>2 DEF hip_ext_mem_extract_fd
    <3>4. a.fd \in DOMAIN exported /\ exported[a.fd] = d.means
      <4>1. a.fd # NULL_HANDLE
        BY <1>1, <2>4, LenProperties DEF ImportFd, NULL_HANDLE, TypeOK
      <4> QED
        BY <1>1, <2>4, <3>2, <3>3, <4>1 DEF HandlesDenote, ImportFd
    <3>5. imported' = imported \cup {[holds |-> d.means, meant |-> d.means]}
      BY <2>1, <2>4, <3>4 DEF ImportFd
    <3>6. imported' \subseteq ImportedMemory
      BY <1>1, <3>2, <3>5 DEF TypeOK, ImportedMemory
    <3>7. \A m \in imported' : m \in imported \/ m.holds = m.meant
      BY <3>5
    <3>8. Handled(t) /\ work' = work
      BY <1>1, <2>4, <3>1, <3>6 DEF ImportFd, Reply, Handled, ReturnCodes, TypeOK, runtimeVars
    <3> QED
      BY <1>2, <2>1, <3>7, <3>8, PlainServed, Arguments
  <2> QED
    BY <2>2, <2>3, <2>4 DEF unix_import_external_memory
<1>3. CASE hipImportExternalMemory(t)
  BY <1>2, <1>3 DEF hipImportExternalMemory
<1>4. CASE hipExternalMemoryGetMappedBuffer(t)
  BY <1>1, <1>4, Table, PlainHandlers, PlainServed, Arguments
  DEF hipExternalMemoryGetMappedBuffer, UnixCall, Dispatch, unix_external_memory_get_mapped_buffer
<1>5. CASE hipDestroyExternalMemory(t)
  <2>1. UnixCall(t, hip_unix_call.DESTROY_EXTERNAL_MEMORY, NoArgs, HIP_ERROR_NOT_SUPPORTED, {})
    BY <1>5 DEF hipDestroyExternalMemory
  <2>2. unix_destroy_external_memory(t, NoArgs)
    BY <2>1, Table DEF UnixCall, Dispatch
  <2>3. CASE Fails(t)
    BY <1>1, <2>1, <2>3, PlainHandlers, PlainServed, Arguments
  <2>4. CASE DestroyMemory /\ Reply(t, HIP_SUCCESS) /\ UNCHANGED runtimeVars
    <3>1. waits' = [waits EXCEPT ![t] = waits[t]] /\ waits[t] \in SUBSET (1 .. MaxWork)
      BY <1>1, <2>4 DEF Reply, TypeOK
    <3>2. imported' \subseteq imported
      BY <2>4 DEF DestroyMemory
    <3>3. Handled(t) /\ work' = work
      BY <1>1, <2>4, <3>1, <3>2 DEF DestroyMemory, Reply, Handled, ReturnCodes, TypeOK, runtimeVars
    <3> QED
      BY <2>1, <3>2, <3>3, PlainServed, Arguments
  <2> QED
    BY <2>2, <2>3, <2>4 DEF unix_destroy_external_memory
<1> QED
  BY <1>3, <1>4, <1>5 DEF InteropCall
-----------------------------------------------------------------------------
(* Stream calls. *)
LEMMA AsyncServed ==
  ASSUME IInv, NEW t \in Threads, NEW code, NEW a, a.stream \in AnyStream, a.event \in AnyEvent,
         UnixCall(t, code, a, HIP_ERROR_NOT_SUPPORTED, {}), Enqueue(t, a.stream, a.event)
  PROVE  Served(t)
<1>1. TypeOK
  BY DEF IInv
<1>2. /\ Handled(t) /\ imported' = imported
      /\ work' = work \/ work' = Append(work, [stream |-> a.stream, event |-> a.event])
  BY <1>1, EnqueueHandled DEF Refused
<1>3. /\ Covers(work', waits'[t], {}) /\ {} \in SUBSET (DOMAIN work')
      /\ {} \subseteq finished
  BY DEF Covers
<1> QED
  BY <1>2, <1>3, CallServed, Arguments DEF UnixCall

(* A blocking copy vouches for all the null stream was given before it. *)
LEMMA CopyServed ==
  ASSUME IInv, NEW t \in Threads, NEW code,
         UnixCall(t, code, NoArgs, HIP_ERROR_NOT_SUPPORTED, AllOnNullStream),
         EnqueueAndWait(t, NullStream)
  PROVE  Served(t)
<1>1. TypeOK /\ asked = work /\ work \in Seq(Operation)
  BY DEF IInv, TypeOK
<1>2. /\ Handled(t) /\ imported' = imported
      /\ \/ Refused(t)
         \/ /\ work' = Append(work, [stream |-> NullStream, event |-> NoEvent])
            /\ pc'[t] = "library" /\ waits'[t] = {Len(work) + 1}
  BY <1>1, EnqueueAndWaitHandled, Arguments
<1>3. CASE Refused(t)
  BY <1>2, <1>3, CallServed, Arguments DEF UnixCall, Refused
<1>4. CASE /\ work' = Append(work, [stream |-> NullStream, event |-> NoEvent])
           /\ pc'[t] = "library" /\ waits'[t] = {Len(work) + 1}
  <2> DEFINE o == [stream |-> NullStream, event |-> NoEvent]
  <2>1. /\ DOMAIN work = 1 .. Len(work) /\ Len(work) \in Nat
        /\ o \in Operation
    BY <1>1, LenProperties, Arguments DEF Operation
  <2>2. /\ work' \in Seq(Operation) /\ Len(work') = Len(work) + 1
        /\ work'[Len(work) + 1] = o
    BY <1>1, <1>4, <2>1, AppendProperties
  <2>3. DOMAIN work' = 1 .. Len(work) + 1 /\ work' # work
    BY <2>1, <2>2, LenProperties
  <2>4. asked' = work'
    BY <1>1, <1>4, <2>3, Arguments DEF UnixCall
  <2>5. AllOnNullStream = {i \in DOMAIN work' : work'[i].stream = NullStream}
    BY <2>4 DEF AllOnNullStream, OnStream
  <2>6. Covers(work', waits'[t], AllOnNullStream)
    <3> DEFINE w == Len(work) + 1
    <3>1. w \in waits'[t]
      BY <1>4
    <3>2. w \in DOMAIN work'
      BY <2>1, <2>3
    <3>3. work'[w].stream = NullStream
      BY <2>2
    <3>4. \A i \in AllOnNullStream : i <= w /\ work'[i].stream = NullStream
      BY <2>1, <2>3, <2>5
    <3> QED
      BY <3>1, <3>2, <3>3, <3>4 DEF Covers
  <2>7. AllOnNullStream \in SUBSET (DOMAIN work')
    BY <2>5
  <2> QED
    BY <1>2, <1>4, <2>6, <2>7, CallServed, Arguments DEF UnixCall
<1> QED
  BY <1>2, <1>3, <1>4

(* A call that waits for S vouches for what S covers. *)
LEMMA WaitServed ==
  ASSUME IInv, NEW t \in Threads, NEW code, NEW a, a.stream \in AnyStream, a.event \in AnyEvent,
         NEW S \in SUBSET (DOMAIN work), NEW P \in SUBSET (DOMAIN work), Covers(work, S, P),
         UnixCall(t, code, a, HIP_ERROR_NOT_SUPPORTED, P), WaitFor(t, S)
  PROVE  Served(t)
<1>1. TypeOK
  BY DEF IInv
<1>2. /\ Handled(t) /\ imported' = imported /\ work' = work
      /\ Refused(t) \/ (pc'[t] = "library" /\ waits'[t] = S)
  BY <1>1, WaitForHandled
<1>3. \/ rc'[t] # HIP_SUCCESS
      \/ /\ P \in SUBSET (DOMAIN work')
         /\ pc'[t] = "library" => Covers(work', waits'[t], P)
         /\ pc'[t] = "returned" => P \subseteq finished
  BY <1>2 DEF Refused
<1> QED
  BY <1>2, <1>3, CallServed, Arguments DEF UnixCall

(* A call that looks at records of events vouches for what came before them if
   they have all finished. *)
LEMMA LookServed ==
  ASSUME IInv, NEW t \in Threads, NEW code, NEW a, a.stream \in AnyStream, a.event \in AnyEvent,
         NEW S \in SUBSET (DOMAIN work), NEW P \in SUBSET (DOMAIN work), Covers(work, S, P),
         UnixCall(t, code, a, HIP_ERROR_NOT_SUPPORTED, P),
         \/ Fails(t)
         \/ /\ Reply(t, IF S \subseteq finished THEN HIP_SUCCESS ELSE HIP_ERROR_NOT_READY)
            /\ UNCHANGED <<runtimeVars, memoryVars>>
  PROVE  Served(t)
<1>1. TypeOK /\ FinishedInOrder
  BY DEF IInv
<1>2. CASE Fails(t)
  BY <1>1, <1>2, FailsHandled, CallServed, Arguments DEF UnixCall, Refused
<1>3. CASE /\ Reply(t, IF S \subseteq finished THEN HIP_SUCCESS ELSE HIP_ERROR_NOT_READY)
           /\ UNCHANGED <<runtimeVars, memoryVars>>
  <2>1. waits' = [waits EXCEPT ![t] = waits[t]] /\ waits[t] \in SUBSET (1 .. MaxWork)
    BY <1>1, <1>3 DEF Reply, TypeOK
  <2>2. /\ Handled(t) /\ work' = work /\ imported' = imported /\ pc'[t] = "returned"
    BY <1>1, <1>3, <2>1 DEF Reply, Handled, ReturnCodes, TypeOK, runtimeVars, memoryVars
  <2>3. rc'[t] # HIP_SUCCESS \/ S \subseteq finished
    BY <1>1, <1>3 DEF Reply, TypeOK, HIP_SUCCESS, HIP_ERROR_NOT_READY
  <2>4. S \subseteq finished => P \subseteq finished
    <3>1. DOMAIN work = 1 .. Len(work) /\ Len(work) \in Nat
      BY <1>1, LenProperties DEF TypeOK
    <3>2. ASSUME S \subseteq finished, NEW i \in P
          PROVE  i \in finished
      <4>1. PICK w \in S \cap DOMAIN work : i <= w /\ work[i].stream = work[w].stream
        BY DEF Covers
      <4>2. i \in 1 .. Len(work) /\ w \in 1 .. Len(work) /\ w \in finished
        BY <3>1, <3>2, <4>1
      <4>3. i = w \/ i \in 1 .. w - 1
        BY <3>1, <4>1, <4>2
      <4> QED
        BY <1>1, <4>1, <4>2, <4>3 DEF FinishedInOrder
    <3> QED
      BY <3>2
  <2> QED
    BY <2>2, <2>3, <2>4, CallServed, Arguments DEF UnixCall
<1> QED
  BY <1>2, <1>3

LEMMA RecordsInWork ==
  ASSUME IInv, NEW e
  PROVE  /\ LastRecord(work, e) \in SUBSET (DOMAIN work)
         /\ UpToRecord(work, e) \in SUBSET (DOMAIN work)
         /\ Covers(work, LastRecord(work, e), UpToRecord(work, e))
<1>1. \A i \in UpToRecord(work, e) :
        \E w \in LastRecord(work, e) :
          i \in DOMAIN work /\ w \in DOMAIN work /\ i <= w /\ work[i].stream = work[w].stream
  BY DEF UpToRecord, UpTo, OnStream, LastRecord
<1>2. LastRecord(work, e) \in SUBSET (DOMAIN work)
  BY DEF LastRecord
<1> QED
  BY <1>1, <1>2 DEF Covers

LEMMA StreamCallServed ==
  ASSUME IInv, NEW t \in Threads, StreamCall(t)
  PROVE  Served(t) \/ Reject(t)
<1>1. TypeOK /\ asked = work /\ work \in Seq(Operation)
  BY DEF IInv, TypeOK
<1>2. /\ UsableStreams \subseteq AnyStream
      /\ events \subseteq AnyEvent
  BY <1>1 DEF UsableStreams, AnyStream, AnyEvent, TypeOK
<1>3. DOMAIN work = 1 .. Len(work)
  BY <1>1, LenProperties
<1>4. ASSUME NEW S \in SUBSET (DOMAIN work)
      PROVE  Covers(work, S, S)
  BY <1>3, LenProperties DEF Covers
<1>5. CASE hipMemcpy(t)
  <2>1. SUFFICES ASSUME UnixCall(t, hip_unix_call.MEMCPY, NoArgs, HIP_ERROR_NOT_SUPPORTED,
                                 AllOnNullStream)
                 PROVE  Served(t)
    BY <1>5 DEF hipMemcpy, memcpy_forward
  <2>2. EnqueueAndWait(t, NullStream)
    BY <2>1, Table DEF UnixCall, Dispatch, unix_memcpy
  <2> QED
    BY <2>1, <2>2, CopyServed
<1>6. CASE hipMemcpyToSymbol(t)
  <2>1. SUFFICES ASSUME UnixCall(t, hip_unix_call.MEMCPY_TO_SYMBOL, NoArgs,
                                 HIP_ERROR_NOT_SUPPORTED, AllOnNullStream)
                 PROVE  Served(t)
    BY <1>6 DEF hipMemcpyToSymbol
  <2>2. EnqueueAndWait(t, NullStream)
    BY <2>1, Table DEF UnixCall, Dispatch, unix_memcpy_to_symbol
  <2> QED
    BY <2>1, <2>2, CopyServed
<1>7. CASE hipMemset(t)
  <2>1. UnixCall(t, hip_unix_call.MEMSET, NoArgs, HIP_ERROR_NOT_SUPPORTED, AllOnNullStream)
    BY <1>7 DEF hipMemset, memset_forward
  <2>2. EnqueueAndWait(t, NullStream)
    BY <2>1, Table DEF UnixCall, Dispatch, unix_memset
  <2> QED
    BY <2>1, <2>2, CopyServed
<1>8. CASE hipMemcpyAsync(t)
  <2>1. SUFFICES ASSUME NEW s \in UsableStreams,
                        UnixCall(t, hip_unix_call.MEMCPY_ASYNC, [NoArgs EXCEPT !.stream = s],
                                 HIP_ERROR_NOT_SUPPORTED, {})
                 PROVE  Served(t)
    BY <1>8 DEF hipMemcpyAsync
  <2> DEFINE a == [NoArgs EXCEPT !.stream = s]
  <2>2. a.stream = s /\ a.event = NoEvent
    BY DEF NoArgs
  <2>3. Enqueue(t, a.stream, a.event)
    BY <2>1, <2>2, Table DEF UnixCall, Dispatch, unix_memcpy_async
  <2> QED
    BY <1>2, <2>1, <2>2, <2>3, AsyncServed, Arguments
<1>9. CASE hipMemsetAsync(t)
  <2>1. PICK s \in UsableStreams :
          UnixCall(t, hip_unix_call.MEMSET_ASYNC, [NoArgs EXCEPT !.stream = s],
                   HIP_ERROR_NOT_SUPPORTED, {})
    BY <1>9 DEF hipMemsetAsync
  <2> DEFINE a == [NoArgs EXCEPT !.stream = s]
  <2>2. a.stream = s /\ a.event = NoEvent
    BY DEF NoArgs
  <2>3. Enqueue(t, a.stream, a.event)
    BY <2>1, <2>2, Table DEF UnixCall, Dispatch, unix_memset_async
  <2> QED
    BY <1>2, <2>1, <2>2, <2>3, AsyncServed, Arguments
<1>10. CASE hipLaunchKernel(t)
  <2>1. SUFFICES ASSUME NEW s \in UsableStreams,
                        UnixCall(t, hip_unix_call.LAUNCH_KERNEL, [NoArgs EXCEPT !.stream = s],
                                 HIP_ERROR_NOT_SUPPORTED, {})
                 PROVE  Served(t)
    BY <1>10 DEF hipLaunchKernel
  <2> DEFINE a == [NoArgs EXCEPT !.stream = s]
  <2>2. a.stream = s /\ a.event = NoEvent
    BY DEF NoArgs
  <2>3. Enqueue(t, a.stream, a.event)
    BY <2>1, <2>2, Table DEF UnixCall, Dispatch, unix_launch_kernel
  <2> QED
    BY <1>2, <2>1, <2>2, <2>3, AsyncServed, Arguments
<1>11. CASE hipEventRecord(t)
  <2>1. PICK e \in events, s \in UsableStreams :
          UnixCall(t, hip_unix_call.EVENT_RECORD, [OnEvent(e) EXCEPT !.stream = s],
                   HIP_ERROR_NOT_SUPPORTED, {})
    BY <1>11 DEF hipEventRecord
  <2> DEFINE a == [OnEvent(e) EXCEPT !.stream = s]
  <2>2. a.stream = s /\ a.event = e
    BY DEF NoArgs, OnEvent
  <2>3. Enqueue(t, a.stream, a.event)
    BY <2>1, <2>2, Table DEF UnixCall, Dispatch, unix_event_record
  <2> QED
    BY <1>2, <2>1, <2>2, <2>3, AsyncServed
<1>12. CASE hipDeviceSynchronize(t)
  <2>1. UnixCall(t, hip_unix_call.DEVICE_SYNCHRONIZE, NoArgs, HIP_ERROR_NOT_SUPPORTED, DOMAIN work)
    BY <1>1, <1>12 DEF hipDeviceSynchronize
  <2>2. WaitFor(t, DOMAIN work)
    BY <2>1, Table DEF UnixCall, Dispatch, unix_device_synchronize
  <2> QED
    BY <1>4, <2>1, <2>2, WaitServed, Arguments
<1>13. CASE hipStreamSynchronize(t)
  <2>1. PICK s \in UsableStreams :
          UnixCall(t, hip_unix_call.STREAM_SYNCHRONIZE, [NoArgs EXCEPT !.stream = s],
                   HIP_ERROR_NOT_SUPPORTED, OnStream(work, s))
    BY <1>1, <1>13 DEF hipStreamSynchronize
  <2> DEFINE a == [NoArgs EXCEPT !.stream = s]
  <2>2. a.stream = s /\ a.event = NoEvent
    BY DEF NoArgs
  <2>3. WaitFor(t, OnStream(work, s))
    BY <2>1, <2>2, Table DEF UnixCall, Dispatch, unix_stream_synchronize
  <2>4. OnStream(work, s) \in SUBSET (DOMAIN work)
    BY DEF OnStream
  <2> QED
    BY <1>2, <1>4, <2>1, <2>2, <2>3, <2>4, WaitServed, Arguments
<1>14. CASE hipEventSynchronize(t)
  <2>1. PICK e \in events :
          UnixCall(t, hip_unix_call.EVENT_SYNCHRONIZE, OnEvent(e), HIP_ERROR_NOT_SUPPORTED,
                   UpToRecord(work, e))
    BY <1>1, <1>14 DEF hipEventSynchronize
  <2>2. OnEvent(e).stream = NullStream /\ OnEvent(e).event = e
    BY DEF NoArgs, OnEvent
  <2>3. WaitFor(t, LastRecord(work, e))
    BY <2>1, <2>2, Table DEF UnixCall, Dispatch, unix_event_synchronize
  <2> QED
    BY <1>2, <2>1, <2>2, <2>3, RecordsInWork, WaitServed, Arguments
<1>15. CASE hipEventQuery(t)
  <2>1. PICK e \in events :
          UnixCall(t, hip_unix_call.EVENT_QUERY, OnEvent(e), HIP_ERROR_NOT_SUPPORTED,
                   UpToRecord(work, e))
    BY <1>1, <1>15 DEF hipEventQuery
  <2>2. OnEvent(e).stream = NullStream /\ OnEvent(e).event = e
    BY DEF NoArgs, OnEvent
  <2>3. unix_event_query(t, OnEvent(e))
    BY <2>1, Table DEF UnixCall, Dispatch
  <2> QED
    BY <1>2, <2>1, <2>2, <2>3, RecordsInWork, LookServed, Arguments DEF unix_event_query
<1>16. CASE hipEventElapsedTime(t)
  <2>1. PICK start \in events, stop \in events :
          UnixCall(t, hip_unix_call.EVENT_ELAPSED_TIME, [OnEvent(stop) EXCEPT !.start = start],
                   HIP_ERROR_NOT_SUPPORTED, UpToRecord(work, start) \cup UpToRecord(work, stop))
    BY <1>1, <1>16 DEF hipEventElapsedTime
  <2> DEFINE a == [OnEvent(stop) EXCEPT !.start = start]
             S == LastRecord(work, start) \cup LastRecord(work, stop)
             P == UpToRecord(work, start) \cup UpToRecord(work, stop)
  <2>2. a.stream = NullStream /\ a.event = stop /\ a.start = start
    BY DEF NoArgs, OnEvent
  <2>3. unix_event_elapsed_time(t, a)
    BY <2>1, Table DEF UnixCall, Dispatch
  <2>4. S \in SUBSET (DOMAIN work) /\ P \in SUBSET (DOMAIN work) /\ Covers(work, S, P)
    BY RecordsInWork DEF Covers
  <2>5. \/ Fails(t)
        \/ /\ Reply(t, IF S \subseteq finished THEN HIP_SUCCESS ELSE HIP_ERROR_NOT_READY)
           /\ UNCHANGED <<runtimeVars, memoryVars>>
    BY <2>2, <2>3 DEF unix_event_elapsed_time
  <2> HIDE DEF S, P
  <2> QED
    BY <1>2, <2>1, <2>2, <2>4, <2>5, LookServed, Arguments DEF P
<1>17. CASE hipStreamCreateWithFlags(t)
  <2>1. UnixCall(t, hip_unix_call.STREAM_CREATE, NoArgs, HIP_ERROR_NOT_SUPPORTED, {})
    BY <1>17 DEF hipStreamCreateWithFlags
  <2>2. unix_stream_create(t, NoArgs)
    BY <2>1, Table DEF UnixCall, Dispatch
  <2>3. CASE CreateStream /\ Reply(t, HIP_SUCCESS) /\ UNCHANGED memoryVars
    <3>1. waits' = [waits EXCEPT ![t] = waits[t]] /\ waits[t] \in SUBSET (1 .. MaxWork)
      BY <1>1, <2>3 DEF Reply, TypeOK
    <3>2. streams' \in [Streams -> StreamKinds]
      BY <1>1, <2>3 DEF CreateStream, StreamKinds, TypeOK
    <3>3. Handled(t) /\ work' = work /\ imported' = imported
      BY <1>1, <2>3, <3>1, <3>2 DEF CreateStream, Reply, Handled, ReturnCodes, TypeOK, memoryVars
    <3> QED
      BY <2>1, <3>3, PlainServed, Arguments
  <2> QED
    BY <1>1, <2>1, <2>2, <2>3, PlainHandlers, PlainServed, Arguments DEF unix_stream_create
<1>18. CASE hipEventCreate(t) \/ hipEventCreateWithFlags(t)
  <2>1. UnixCall(t, hip_unix_call.EVENT_CREATE, NoArgs, HIP_ERROR_NOT_SUPPORTED, {})
    BY <1>18 DEF hipEventCreate, hipEventCreateWithFlags
  <2>2. unix_event_create(t, NoArgs)
    BY <2>1, Table DEF UnixCall, Dispatch
  <2>3. CASE CreateEvent /\ Reply(t, HIP_SUCCESS) /\ UNCHANGED memoryVars
    <3>1. waits' = [waits EXCEPT ![t] = waits[t]] /\ waits[t] \in SUBSET (1 .. MaxWork)
      BY <1>1, <2>3 DEF Reply, TypeOK
    <3>2. Handled(t) /\ work' = work /\ imported' = imported
      BY <1>1, <2>3, <3>1 DEF CreateEvent, Reply, Handled, ReturnCodes, TypeOK, memoryVars
    <3> QED
      BY <2>1, <3>2, PlainServed, Arguments
  <2> QED
    BY <1>1, <2>1, <2>2, <2>3, PlainHandlers, PlainServed, Arguments DEF unix_event_create
<1> QED
  BY <1>5, <1>6, <1>7, <1>8, <1>9, <1>10, <1>11, <1>12, <1>13, <1>14, <1>15, <1>16, <1>17, <1>18
  DEF StreamCall
-----------------------------------------------------------------------------
(* The invariant. *)
LEMMA InitIInv == Init => IInv
<1> SUFFICES ASSUME Init PROVE IInv
  OBVIOUS
<1> USE DEF Init, RuntimeInit, MemoryInit
<1>1. TypeOK
  <2>1. /\ work \in Seq(Operation) /\ asked \in Seq(Operation) /\ exported \in Seq(Buffers)
        /\ Len(work) = 0 /\ Len(exported) = 0
    BY EmptySeq
  <2>2. Len(work) <= MaxWork /\ Len(exported) <= MaxFds
    BY <2>1, RuntimeAssumption, ExternalMemoryAssumption
  <2>3. /\ finished \subseteq DOMAIN work /\ events \subseteq Events /\ handles \subseteq Handle
        /\ imported \subseteq ImportedMemory /\ told \subseteq DOMAIN asked
        /\ unread \in BOOLEAN /\ raced \in BOOLEAN
    OBVIOUS
  <2>4. /\ streams \in [Streams -> StreamKinds] /\ last_error \in ReportedCodes
        /\ pc \in [Threads -> {"idle", "library", "returned", "reset"}]
        /\ rc \in [Threads -> ReturnCodes] /\ error \in [Threads -> ReportedCodes]
    BY DEF StreamKinds, ReportedCodes, ReturnCodes
  <2>5. /\ waits \in [Threads -> SUBSET (1 .. MaxWork)]
        /\ promise \in [Threads -> SUBSET (DOMAIN asked)]
    OBVIOUS
  <2> QED
    BY <2>1, <2>2, <2>3, <2>4, <2>5 DEF TypeOK
<1>2. FinishedInOrder /\ PromisesCovered /\ SyncTellsTruth
  BY DEF FinishedInOrder, PromisesCovered, SyncTellsTruth
<1>3. HandlesDenote /\ ImportDenotes /\ ErrorInv
  BY DEF HandlesDenote, ImportDenotes, ErrorInv
<1> QED
  BY <1>1, <1>2, <1>3 DEF IInv

(* Later operations change nothing about those already there. *)
LEMMA Extend ==
  ASSUME NEW S, NEW ops \in Seq(S), NEW o \in S, NEW ops2, ops2 = Append(ops, o)
  PROVE  /\ ops2 \in Seq(S) /\ Len(ops2) = Len(ops) + 1
         /\ DOMAIN ops2 = DOMAIN ops \cup {Len(ops) + 1}
         /\ \A i \in DOMAIN ops : ops2[i] = ops[i]
         /\ ops2[Len(ops) + 1] = o
<1>1. /\ Len(ops) \in Nat /\ DOMAIN ops = 1 .. Len(ops)
      /\ Append(ops, o) \in Seq(S)
      /\ Len(Append(ops, o)) = Len(ops) + 1
      /\ \A i \in 1 .. Len(ops) : Append(ops, o)[i] = ops[i]
      /\ Append(ops, o)[Len(ops) + 1] = o
  BY AppendProperties, LenProperties
<1>2. DOMAIN ops2 = 1 .. Len(ops) + 1
  BY <1>1, LenProperties
<1> QED
  BY <1>1, <1>2

LEMMA ServedKeeps ==
  ASSUME IInv, NEW t \in Threads, Served(t)
  PROVE  IInv'
<1>1. TypeOK /\ asked = work /\ work \in Seq(Operation)
  BY DEF IInv, TypeOK
<1>2. PICK p \in {"library", "returned"} : pc' = [pc EXCEPT ![t] = p]
  BY DEF Served, Handled
<1>3. PICK W \in SUBSET (1 .. MaxWork) : waits' = [waits EXCEPT ![t] = W]
  BY DEF Served, Handled
<1>4. PICK P \in SUBSET (DOMAIN work') :
        /\ promise' = [promise EXCEPT ![t] = P]
        /\ pc'[t] = "library" => Covers(work', waits'[t], P)
        /\ pc'[t] = "returned" => P \subseteq finished
  BY DEF Served
<1>5. /\ work' \in Seq(Operation) /\ DOMAIN work \subseteq DOMAIN work'
      /\ \A i \in DOMAIN work : work'[i] = work[i]
      /\ asked' = work'
  <2>1. CASE work' = work /\ asked' = asked
    BY <1>1, <2>1
  <2>2. ASSUME NEW o \in Operation, work' = Append(work, o), asked' = Append(asked, o)
        PROVE  /\ work' \in Seq(Operation) /\ DOMAIN work \subseteq DOMAIN work'
               /\ \A i \in DOMAIN work : work'[i] = work[i]
               /\ asked' = work'
    BY <1>1, <2>2, Extend
  <2> QED
    BY <2>1, <2>2 DEF Served
<1>6. TypeOK'
  <2>1. /\ work' \in Seq(Operation) /\ Len(work') <= MaxWork
        /\ asked' \in Seq(Operation) /\ finished' \subseteq DOMAIN work'
        /\ told' \subseteq DOMAIN asked'
    BY <1>1, <1>5 DEF Served, Handled, reportVars, TypeOK
  <2>2. promise' \in [Threads -> SUBSET (DOMAIN asked')]
    <3>1. promise \in [Threads -> SUBSET (DOMAIN work')]
      BY <1>1, <1>5 DEF TypeOK
    <3> QED
      BY <1>4, <1>5, <3>1
  <2>3. /\ pc' \in [Threads -> {"idle", "library", "returned", "reset"}]
        /\ waits' \in [Threads -> SUBSET (1 .. MaxWork)]
        /\ rc' \in [Threads -> ReturnCodes]
    BY <1>1, <1>2, <1>3 DEF Served, Handled, TypeOK
  <2>4. /\ streams' \in [Streams -> StreamKinds] /\ events' \subseteq Events
        /\ exported' \in Seq(Buffers) /\ Len(exported') <= MaxFds
        /\ handles' \subseteq Handle /\ imported' \subseteq ImportedMemory
        /\ last_error' \in ReportedCodes /\ error' \in [Threads -> ReportedCodes]
        /\ unread' \in BOOLEAN /\ raced' \in BOOLEAN
    BY <1>1 DEF Served, Handled, reportVars, TypeOK
  <2> QED
    BY <2>1, <2>2, <2>3, <2>4 DEF TypeOK
<1>7. FinishedInOrder'
  <2>1. finished' = finished /\ finished \subseteq DOMAIN work /\ DOMAIN work = 1 .. Len(work)
        /\ Len(work) \in Nat
    BY <1>1, LenProperties DEF Served, Handled, TypeOK
  <2>2. \A i \in finished : \A j \in 1 .. i - 1 : j \in DOMAIN work
    BY <2>1
  <2> QED
    BY <1>5, <2>1, <2>2 DEF IInv, FinishedInOrder
<1>8. PromisesCovered'
  <2>1. SUFFICES ASSUME NEW u \in Threads
                 PROVE  /\ pc'[u] = "library" => Covers(work', waits'[u], promise'[u])
                        /\ pc'[u] = "returned" => promise'[u] \subseteq finished'
    BY DEF PromisesCovered
  <2>2. CASE u = t
    BY <1>1, <1>4, <2>2 DEF Served, Handled, TypeOK
  <2>3. CASE u # t
    <3>1. pc'[u] = pc[u] /\ waits'[u] = waits[u] /\ promise'[u] = promise[u]
          /\ promise[u] \subseteq DOMAIN work /\ finished' = finished
      BY <1>1, <1>2, <1>3, <1>4, <2>3 DEF Served, Handled, TypeOK
    <3>2. Covers(work, waits[u], promise[u]) => Covers(work', waits[u], promise[u])
      BY <1>5, <3>1 DEF Covers
    <3> QED
      BY <3>1, <3>2 DEF IInv, PromisesCovered
  <2> QED
    BY <2>2, <2>3
<1>9. SyncTellsTruth'
  BY DEF IInv, SyncTellsTruth, Served, Handled, reportVars
<1>10. HandlesDenote' /\ ImportDenotes'
  BY DEF IInv, HandlesDenote, ImportDenotes, Served, Handled
<1>11. ErrorInv'
  <2>1. \A u \in Threads : pc'[u] = "reset" <=> pc[u] = "reset"
    BY <1>1, <1>2 DEF Served, TypeOK
  <2> QED
    BY <2>1 DEF IInv, ErrorInv, Served, reportVars
<1> QED
  BY <1>5, <1>6, <1>7, <1>8, <1>9, <1>10, <1>11 DEF IInv

LEMMA RejectKeeps ==
  ASSUME IInv, NEW t \in Threads, Reject(t)
  PROVE  IInv'
<1> USE DEF IInv, Reject, NoteFailure, runtimeVars, memoryVars, callVars
<1>1. TypeOK'
  BY DEF TypeOK, ReportedCodes
<1>2. FinishedInOrder' /\ PromisesCovered' /\ SyncTellsTruth'
  BY DEF FinishedInOrder, PromisesCovered, SyncTellsTruth
<1>3. HandlesDenote' /\ ImportDenotes'
  BY DEF HandlesDenote, ImportDenotes
<1>4. ErrorInv'
  <2>1. last_error' # HIP_SUCCESS /\ unread' /\ pc' = pc
    BY DEF HIP_ERROR_NOT_SUPPORTED, HIP_SUCCESS
  <2>2. ~raced' => \A u \in Threads : pc[u] # "reset"
    OBVIOUS
  <2> QED
    BY <2>1, <2>2 DEF ErrorInv
<1> QED
  BY <1>1, <1>2, <1>3, <1>4

(* The library comes back: by FinishedInOrder, what the wait covers has finished
   along with what it waits for. *)
LEMMA LibraryReturnsKeeps ==
  ASSUME IInv, NEW t \in Threads, LibraryReturns(t)
  PROVE  IInv'
<1> USE DEF IInv, LibraryReturns, runtimeVars, memoryVars, reportVars
<1>1. TypeOK'
  BY DEF TypeOK
<1>2. promise[t] \subseteq finished
  <2>1. /\ DOMAIN work = 1 .. Len(work) /\ Len(work) \in Nat /\ promise[t] \subseteq DOMAIN work
    BY LenProperties DEF TypeOK
  <2>2. ASSUME NEW i \in promise[t]
        PROVE  i \in finished
    <3>1. PICK w \in waits[t] \cap DOMAIN work : i <= w /\ work[i].stream = work[w].stream
      BY DEF PromisesCovered, Covers
    <3>2. i \in 1 .. Len(work) /\ w \in 1 .. Len(work) /\ w \in finished
      BY <2>1, <2>2, <3>1
    <3>3. i = w \/ i \in 1 .. w - 1
      BY <2>1, <3>1, <3>2
    <3> QED
      BY <3>1, <3>2, <3>3 DEF FinishedInOrder
  <2> QED
    BY <2>2
<1>3. PromisesCovered'
  BY <1>2 DEF PromisesCovered, TypeOK
<1>4. FinishedInOrder' /\ SyncTellsTruth' /\ HandlesDenote' /\ ImportDenotes'
  BY DEF FinishedInOrder, SyncTellsTruth, HandlesDenote, ImportDenotes
<1>5. ErrorInv'
  BY DEF ErrorInv, TypeOK
<1> QED
  BY <1>1, <1>3, <1>4, <1>5

LEMMA LibraryFailsKeeps ==
  ASSUME IInv, NEW t \in Threads, LibraryFails(t)
  PROVE  IInv'
<1> USE DEF IInv, LibraryFails, runtimeVars, memoryVars, reportVars
<1>1. TypeOK'
  BY DEF TypeOK, ReturnCodes
<1>2. PromisesCovered'
  BY DEF PromisesCovered, TypeOK
<1>3. FinishedInOrder' /\ SyncTellsTruth' /\ HandlesDenote' /\ ImportDenotes'
  BY DEF FinishedInOrder, SyncTellsTruth, HandlesDenote, ImportDenotes
<1>4. ErrorInv'
  BY DEF ErrorInv, TypeOK
<1> QED
  BY <1>1, <1>2, <1>3, <1>4

LEMMA ReturnKeeps ==
  ASSUME IInv, NEW t \in Threads, Return(t)
  PROVE  IInv'
<1> USE DEF IInv, Return, ReportError, NoteFailure, runtimeVars, memoryVars
<1>1. TypeOK'
  BY DEF TypeOK, ReportedCodes, ReturnCodes
<1>2. PromisesCovered'
  BY DEF PromisesCovered, TypeOK
<1>3. SyncTellsTruth'
  BY DEF SyncTellsTruth, PromisesCovered
<1>4. FinishedInOrder' /\ HandlesDenote' /\ ImportDenotes'
  BY DEF FinishedInOrder, HandlesDenote, ImportDenotes
<1>5. ErrorInv'
  <2>1. \A u \in Threads : pc'[u] = "reset" <=> pc[u] = "reset"
    BY DEF TypeOK
  <2>2. unread \in BOOLEAN /\ raced \in BOOLEAN
    BY DEF TypeOK
  <2> QED
    BY <2>1, <2>2 DEF ErrorInv
<1> QED
  BY <1>1, <1>2, <1>3, <1>4, <1>5

LEMMA LoadLastErrorKeeps ==
  ASSUME IInv, NEW t \in Threads, LoadLastError(t)
  PROVE  IInv'
<1> USE DEF IInv, LoadLastError, runtimeVars, memoryVars
<1>1. TypeOK'
  BY DEF TypeOK
<1>2. PromisesCovered'
  BY DEF PromisesCovered, TypeOK
<1>3. FinishedInOrder' /\ SyncTellsTruth' /\ HandlesDenote' /\ ImportDenotes'
  BY DEF FinishedInOrder, SyncTellsTruth, HandlesDenote, ImportDenotes
<1>4. ErrorInv'
  BY DEF ErrorInv, TypeOK
<1> QED
  BY <1>1, <1>2, <1>3, <1>4

LEMMA ResetLastErrorKeeps ==
  ASSUME IInv, NEW t \in Threads, ResetLastError(t)
  PROVE  IInv'
<1> USE DEF IInv, ResetLastError, runtimeVars, memoryVars
<1>1. TypeOK'
  BY DEF TypeOK, ReportedCodes
<1>2. PromisesCovered'
  BY DEF PromisesCovered, TypeOK
<1>3. FinishedInOrder' /\ SyncTellsTruth' /\ HandlesDenote' /\ ImportDenotes'
  BY DEF FinishedInOrder, SyncTellsTruth, HandlesDenote, ImportDenotes
<1>4. ErrorInv'
  BY DEF ErrorInv, TypeOK
<1> QED
  BY <1>1, <1>2, <1>3, <1>4

LEMMA GpuStepKeeps == IInv /\ GpuStep => IInv'
<1> SUFFICES ASSUME IInv, GpuStep PROVE IInv'
  OBVIOUS
<1> USE DEF IInv, GpuStep, GpuFinishes, memoryVars, callVars, reportVars
<1>1. PICK i \in DOMAIN work \ finished :
        /\ \A j \in 1 .. i - 1 : Serial(work[j].stream, work[i].stream) => j \in finished
        /\ finished' = finished \cup {i}
  OBVIOUS
<1>2. TypeOK'
  BY <1>1 DEF TypeOK
<1>3. FinishedInOrder'
  BY <1>1 DEF FinishedInOrder, Serial
<1>4. PromisesCovered' /\ SyncTellsTruth'
  BY <1>1 DEF PromisesCovered, SyncTellsTruth
<1>5. HandlesDenote' /\ ImportDenotes' /\ ErrorInv'
  BY DEF HandlesDenote, ImportDenotes, ErrorInv
<1> QED
  BY <1>2, <1>3, <1>4, <1>5

LEMMA ShareStepKeeps == IInv /\ ShareStep => IInv'
<1> SUFFICES ASSUME IInv, ShareStep PROVE IInv'
  OBVIOUS
<1>1. /\ HandlesDenote /\ exported \in Seq(Buffers) /\ DOMAIN exported = 1 .. Len(exported)
      /\ Len(exported) \in Nat /\ MaxFds \in Nat /\ Len(exported) <= MaxFds
      /\ handles \subseteq Handle
  BY LenProperties, ExternalMemoryAssumption DEF IInv, TypeOK
<1>2. PICK r \in Resources :
        \/ /\ r \in Buffers /\ FdExtension
           /\ Len(exported) < MaxFds
           /\ exported' = Append(exported, r)
           /\ handles' = handles \cup {[number |-> Len(exported) + 1, means |-> r]}
        \/ /\ handles' = handles \cup {[number |-> NULL_HANDLE, means |-> r]}
           /\ UNCHANGED exported
  BY DEF ShareStep, CreateSharedHandle
<1>3. /\ exported' \in Seq(Buffers) /\ Len(exported') <= MaxFds
      /\ handles' \subseteq Handle /\ HandlesDenote'
  <2>1. CASE /\ r \in Buffers
             /\ Len(exported) < MaxFds
             /\ exported' = Append(exported, r)
             /\ handles' = handles \cup {[number |-> Len(exported) + 1, means |-> r]}
    <3>1. /\ exported' \in Seq(Buffers) /\ Len(exported') = Len(exported) + 1
          /\ DOMAIN exported' = DOMAIN exported \cup {Len(exported) + 1}
          /\ \A n \in DOMAIN exported : exported'[n] = exported[n]
          /\ exported'[Len(exported) + 1] = r
      BY <1>1, <2>1, Extend
    <3>2. Len(exported') <= MaxFds /\ Len(exported) + 1 \in 0 .. MaxFds
      BY <1>1, <2>1, <3>1
    <3>3. [number |-> Len(exported) + 1, means |-> r] \in Handle
      BY <2>1, <3>2 DEF Handle, Resources
    <3>4. ASSUME NEW h \in handles', h.number # NULL_HANDLE
          PROVE  h.number \in DOMAIN exported' /\ exported'[h.number] = h.means
      <4>1. CASE h = [number |-> Len(exported) + 1, means |-> r]
        BY <3>1, <4>1
      <4>2. CASE h \in handles
        <5>1. h.number \in DOMAIN exported /\ exported[h.number] = h.means
          BY <1>1, <3>4, <4>2 DEF HandlesDenote
        <5> QED
          BY <3>1, <5>1
      <4> QED
        BY <2>1, <4>1, <4>2
    <3>5. HandlesDenote'
      BY <3>4 DEF HandlesDenote
    <3> QED
      BY <1>1, <2>1, <3>1, <3>2, <3>3, <3>5
  <2>2. CASE /\ handles' = handles \cup {[number |-> NULL_HANDLE, means |-> r]}
             /\ UNCHANGED exported
    <3>1. [number |-> NULL_HANDLE, means |-> r] \in Handle
      BY <1>1 DEF Handle, NULL_HANDLE
    <3>2. handles' \subseteq Handle
      BY <1>1, <2>2, <3>1
    <3>3. HandlesDenote'
      BY <1>1, <2>2 DEF HandlesDenote
    <3> QED
      BY <1>1, <2>2, <3>2, <3>3
  <2> QED
    BY <1>2, <2>1, <2>2
<1> USE DEF IInv, ShareStep, CreateSharedHandle, runtimeVars, callVars, reportVars
<1>4. TypeOK'
  BY <1>3 DEF TypeOK
<1>5. FinishedInOrder' /\ PromisesCovered' /\ SyncTellsTruth' /\ ImportDenotes' /\ ErrorInv'
  BY DEF FinishedInOrder, PromisesCovered, SyncTellsTruth, ImportDenotes, ErrorInv
<1> QED
  BY <1>3, <1>4, <1>5

LEMMA StepKeeps == IInv /\ [Next]_vars => IInv'
<1> SUFFICES ASSUME IInv, [Next]_vars PROVE IInv'
  OBVIOUS
<1>1. ASSUME NEW t \in Threads, StreamCall(t) PROVE IInv'
  BY <1>1, StreamCallServed, ServedKeeps, RejectKeeps
<1>2. ASSUME NEW t \in Threads, DeviceCall(t) PROVE IInv'
  BY <1>2, DeviceCallServed, ServedKeeps
<1>3. ASSUME NEW t \in Threads, InteropCall(t) PROVE IInv'
  BY <1>3, InteropCallServed, ServedKeeps, RejectKeeps
<1>4. ASSUME NEW t \in Threads, hipGetLastError(t) PROVE IInv'
  BY <1>4, LoadLastErrorKeeps, ResetLastErrorKeeps DEF hipGetLastError
<1>5. ASSUME NEW t \in Threads, Finishing(t) PROVE IInv'
  BY <1>5, LibraryReturnsKeeps, LibraryFailsKeeps, ReturnKeeps DEF Finishing
<1>6. CASE GpuStep
  BY <1>6, GpuStepKeeps
<1>7. CASE ShareStep
  BY <1>7, ShareStepKeeps
<1>8. CASE UNCHANGED vars
  <2> USE <1>8 DEF IInv, vars, runtimeVars, memoryVars, callVars, reportVars
  <2>1. TypeOK'
    BY DEF TypeOK
  <2>2. FinishedInOrder' /\ PromisesCovered' /\ SyncTellsTruth'
    BY DEF FinishedInOrder, PromisesCovered, SyncTellsTruth
  <2>3. HandlesDenote' /\ ImportDenotes' /\ ErrorInv'
    BY DEF HandlesDenote, ImportDenotes, ErrorInv
  <2> QED
    BY <2>1, <2>2, <2>3
<1> QED
  BY <1>1, <1>2, <1>3, <1>4, <1>5, <1>6, <1>7, <1>8 DEF Next

THEOREM ForwardInvariant == Spec => []IInv
BY InitIInv, StepKeeps, PTL DEF Spec

(* Type correctness of the forwarded calls. *)
THEOREM ForwardTypeCorrect == Spec => []TypeOK
<1>1. IInv => TypeOK
  BY DEF IInv
<1> QED
  BY <1>1, ForwardInvariant, PTL

(* No call that reports success vouches for work the GPU has not finished: every
   export reaches the handler it means, on the stream its caller named. *)
THEOREM SyncTruthful == Spec => []SyncTellsTruth
<1>1. IInv => SyncTellsTruth
  BY DEF IInv
<1> QED
  BY <1>1, ForwardInvariant, PTL

(* Imported memory is the memory its handle was given out for. *)
THEOREM ImportsDenote == Spec => []ImportDenotes
<1>1. IInv => ImportDenotes
  BY DEF IInv
<1> QED
  BY <1>1, ForwardInvariant, PTL

(* A failure is kept until it is read, and nothing else is. *)
THEOREM ErrorsKept == Spec => []ErrorKeptUntilRead
<1>1. IInv => ErrorKeptUntilRead
  BY DEF IInv, ErrorInv, ErrorKeptUntilRead
<1> QED
  BY <1>1, ForwardInvariant, PTL

-----------------------------------------------------------------------------
(* The refinement: a call asks at most, the GPU finishes, a return tells. *)
AskedStreams == [i \in DOMAIN asked |-> asked[i].stream]

LEMMA CallAsks ==
  ASSUME IInv, NEW t \in Threads, Served(t)
  PROVE  Order!Next \/ UNCHANGED <<AskedStreams, finished, told>>
<1>1. finished' = finished /\ told' = told /\ asked \in Seq(Operation)
  BY DEF Served, Handled, reportVars, IInv, TypeOK
<1>2. CASE asked' = asked
  BY <1>1, <1>2 DEF AskedStreams
<1>3. ASSUME NEW o \in Operation, asked' = Append(asked, o)
      PROVE  Order!Ask
  <2>1. /\ asked' \in Seq(Operation) /\ Len(asked') = Len(asked) + 1
        /\ DOMAIN asked' = DOMAIN asked \cup {Len(asked) + 1}
        /\ \A i \in DOMAIN asked : asked'[i] = asked[i]
        /\ asked'[Len(asked) + 1] = o
    BY <1>1, <1>3, Extend
  <2>2. /\ Len(asked) \in Nat /\ DOMAIN asked = 1 .. Len(asked)
        /\ \A i \in DOMAIN asked : asked[i].stream \in AnyStream
        /\ o.stream \in AnyStream
    <3>1. Len(asked) \in Nat /\ DOMAIN asked = 1 .. Len(asked)
      BY <1>1, LenProperties
    <3>2. \A i \in 1 .. Len(asked) : asked[i] \in Operation
      BY <1>1, ElementOfSeq
    <3> QED
      BY <3>1, <3>2 DEF Operation
  <2>3. AskedStreams \in Seq(AnyStream) /\ Len(AskedStreams) = Len(asked)
    <3>1. AskedStreams \in [1 .. Len(asked) -> AnyStream]
      BY <2>2 DEF AskedStreams
    <3> QED
      BY <2>2, <3>1, SeqDef
  <2>4. Append(AskedStreams, o.stream) = AskedStreams'
    <3>1. /\ Append(AskedStreams, o.stream) \in Seq(AnyStream)
          /\ Len(Append(AskedStreams, o.stream)) = Len(asked) + 1
          /\ \A i \in 1 .. Len(asked) : Append(AskedStreams, o.stream)[i] = asked[i].stream
          /\ Append(AskedStreams, o.stream)[Len(asked) + 1] = o.stream
      BY <2>2, <2>3, AppendProperties DEF AskedStreams
    <3>2. AskedStreams' = [i \in 1 .. Len(asked) + 1 |-> asked'[i].stream]
      BY <2>1, <2>2 DEF AskedStreams
    <3>3. Append(AskedStreams, o.stream)
            = [i \in 1 .. Len(asked) + 1 |-> Append(AskedStreams, o.stream)[i]]
      BY <3>1, LenProperties
    <3>4. \A i \in 1 .. Len(asked) + 1 :
            Append(AskedStreams, o.stream)[i] = asked'[i].stream
      BY <2>1, <2>2, <3>1
    <3> QED
      BY <3>2, <3>3, <3>4
  <2> QED
    BY <1>1, <2>2, <2>4 DEF Order!Ask, AskedStreams
<1> QED
  BY <1>2, <1>3 DEF Served, Order!Next

orderVars == <<AskedStreams, finished, told>>

LEMMA ForwardRefinesStep == IInv /\ [Next]_vars => [Order!Next]_orderVars
<1> SUFFICES ASSUME IInv, [Next]_vars PROVE [Order!Next]_orderVars
  OBVIOUS
<1>1. CASE UNCHANGED <<asked, finished, told>>
  BY <1>1 DEF AskedStreams, orderVars
<1>2. ASSUME NEW t \in Threads, Served(t) PROVE [Order!Next]_orderVars
  BY <1>2, CallAsks DEF orderVars
<1>3. ASSUME NEW t \in Threads, Reject(t) PROVE [Order!Next]_orderVars
  BY <1>1, <1>3 DEF Reject, runtimeVars
<1>4. ASSUME NEW t \in Threads, hipGetLastError(t) \/ LibraryReturns(t) \/ LibraryFails(t)
      PROVE  [Order!Next]_orderVars
  BY <1>1, <1>4 DEF hipGetLastError, LoadLastError, ResetLastError, LibraryReturns, LibraryFails,
     runtimeVars, reportVars
<1>5. ASSUME NEW t \in Threads, Return(t)
      PROVE  [Order!Next]_orderVars
  <2>1. IInv'
    BY <1>5, ReturnKeeps
  <2>2. told \subseteq told' /\ finished' = finished /\ asked' = asked
    BY <1>5 DEF Return, runtimeVars
  <2>3. told' \subseteq finished
    BY <2>1, <2>2 DEF IInv, SyncTellsTruth
  <2> QED
    BY <2>2, <2>3 DEF Order!Next, Order!Tell
<1>6. CASE GpuStep
  <2>1. PICK i \in DOMAIN work \ finished :
          /\ \A j \in 1 .. i - 1 : Serial(work[j].stream, work[i].stream) => j \in finished
          /\ finished' = finished \cup {i}
    BY <1>6 DEF GpuStep, GpuFinishes
  <2>2. asked = work /\ asked' = asked /\ told' = told
    BY <1>6 DEF IInv, GpuStep, reportVars
  <2>3. DOMAIN AskedStreams = DOMAIN work /\ \A j \in DOMAIN work : AskedStreams[j] = work[j].stream
    BY <2>2 DEF AskedStreams
  <2>4. /\ DOMAIN work = 1 .. Len(work) /\ Len(work) \in Nat
    BY LenProperties DEF IInv, TypeOK
  <2>5. \A j \in 1 .. i - 1 : AskedStreams[j] = AskedStreams[i] => j \in finished
    BY <2>1, <2>3, <2>4 DEF Serial
  <2>6. /\ i \in DOMAIN AskedStreams \ finished
        /\ \A j \in 1 .. i - 1 : AskedStreams[j] = AskedStreams[i] => j \in finished
        /\ finished' = finished \cup {i}
        /\ AskedStreams' = AskedStreams /\ told' = told
    BY <2>1, <2>2, <2>3, <2>5 DEF AskedStreams
  <2>7. Order!Finish
    BY <2>6 DEF Order!Finish, AskedStreams
  <2> QED
    BY <2>7 DEF Order!Next
<1>7. CASE ShareStep \/ UNCHANGED vars
  BY <1>1, <1>7 DEF ShareStep, runtimeVars, reportVars, vars
<1>8. ASSUME NEW t \in Threads, StreamCall(t) PROVE [Order!Next]_orderVars
  BY <1>2, <1>3, <1>8, StreamCallServed
<1>9. ASSUME NEW t \in Threads, DeviceCall(t) PROVE [Order!Next]_orderVars
  BY <1>2, <1>9, DeviceCallServed
<1>10. ASSUME NEW t \in Threads, InteropCall(t) PROVE [Order!Next]_orderVars
  BY <1>2, <1>3, <1>10, InteropCallServed
<1> QED
  BY <1>4, <1>5, <1>6, <1>7, <1>8, <1>9, <1>10 DEF Next, Finishing

LEMMA ForwardRefinesInit == Init => Order!Init
<1> SUFFICES ASSUME Init PROVE AskedStreams = <<>> /\ finished = {} /\ told = {}
  BY DEF Order!Init, AskedStreams
<1>1. asked = <<>> /\ finished = {} /\ told = {} /\ DOMAIN asked = {}
  BY DEF Init, RuntimeInit
<1> QED
  BY <1>1 DEF AskedStreams

(* Behind shim, table and library, work finishes in the order of the streams the
   callers named: every step of the forwarding is a step of StreamOrder. *)
THEOREM ForwardRefinesOrder == Spec => ImplementsStreamOrder
<1>1. Init => Order!Init
  BY ForwardRefinesInit
<1>2. IInv /\ [Next]_vars => [Order!Next]_orderVars
  BY ForwardRefinesStep
<1> QED
  BY <1>1, <1>2, ForwardInvariant, PTL
  DEF Spec, ImplementsStreamOrder, Order!Spec, orderVars, AskedStreams
=============================================================================
