------------------------ MODULE RingSubmissionProofs ------------------------
(***************************************************************************)
(* The ring of faithful_submission_probe.c, for any number of slots and    *)
(* submissions.  The argument runs along the queue: every list in it is    *)
(* followed by the signal its slot remembers, signals rise, so once the    *)
(* fence has reached a slot's value that slot's list has run, and it is    *)
(* the only list a reset can disturb.  What the thread knows (Thread)      *)
(* holds however the GPU behaves; what the queue holds (Queue), as long as *)
(* the GPU keeps its order.                                                *)
(***************************************************************************)
EXTENDS RingSubmission, FiniteSetTheorems, SequenceTheorems, TLAPS

Preparing == {"reset", "record", "execute"}
Asking == {"ask", "arm", "wait"}
Closing == {"compare", "done"}
PCs == {"reserve", "signal", "fatal"} \cup Preparing \cup Asking \cup Closing

(* The thread: how far it is, and what it waits for. *)
Progress ==
  /\ pc \in PCs
  /\ i = value
  /\ pc \in Preparing \cup {"signal"} => i < Submissions
  /\ pc \in Closing => i = Submissions
  /\ pc \in Asking =>
       \/ resume = "reset" /\ i < Submissions /\ target = ring_values[Slot]
       \/ resume = "compare" /\ i = Submissions /\ target = value

(* Fence values rise along the queue, and those to come are new. *)
SignalsRise ==
  /\ completed <= value
  /\ \A k \in DOMAIN submitted : submitted[k].kind = "signal" =>
       /\ submitted[k].of \in 1 .. value
       /\ k \notin ran => submitted[k].of > completed
  /\ \A j, k \in DOMAIN submitted :
       j < k /\ submitted[j].kind = "signal" /\ submitted[k].kind = "signal" =>
         submitted[j].of < submitted[k].of

(* The event is set or armed for the wait going on, and for no other. *)
EventOwned ==
  /\ signalled => pc \in {"wait", "fatal"} /\ completed >= target
  /\ armed # 0 => pc \in {"wait", "fatal"} /\ armed = target /\ armed > completed

(* While the queue keeps its order, nothing has run before what came earlier. *)
RanInOrder ==
  ~overtaken => \A j, k \in DOMAIN submitted : j < k /\ k \in ran => j \in ran

(* A list in the queue is followed by the signal its slot remembers. *)
Followed(k) ==
  \/ pc = "signal" /\ submitted[k].of = Slot /\ k = Len(submitted)
  \/ \E j \in DOMAIN submitted : k < j /\ submitted[j] = Signalling(ring_values[submitted[k].of])

ListsFollowed == pc = "fatal" \/ \A k \in DOMAIN submitted : PendingList(k) => Followed(k)

(* Past the wait, the slot's list has run; past the flush, all have. *)
SlotIdle ==
  ~overtaken /\ pc \in Preparing =>
    \A k \in DOMAIN submitted : PendingList(k) => submitted[k].of # Slot
QueueIdle == ~overtaken /\ pc \in Closing => Pending = {}

(* Every place submitted has been copied, or is about to be. *)
Submitted(p) == p < i \/ (p = i /\ pc = "signal")
OnItsWay(p) ==
  \/ readback[p] = Marker(p)
  \/ \E k \in DOMAIN submitted : PendingList(k) /\ recorded[submitted[k].of] = p
CopiesLand ==
  /\ upload = [p \in Places |-> Marker(p)]
  /\ pc = "execute" => recorded[Slot] = i
  /\ ~overtaken => \A p \in Places : Submitted(p) => OnItsWay(p)

Thread == RingTypeOK /\ Progress /\ SignalsRise /\ EventOwned
Queue == RanInOrder /\ ListsFollowed /\ SlotIdle /\ QueueIdle /\ CopiesLand
RingInv == Thread /\ Queue /\ FailBlamesStack

(* What the queue is a sequence of. *)
Operations == [kind : {"execute"}, of : Lists] \cup [kind : {"signal"}, of : Nat]

LEMMA SlotInRing ==
  ASSUME value \in Nat
  PROVE  Slot \in 0 .. Slots - 1 /\ Slot \in Lists /\ Slot \in Nat
BY SlotsAssumption, SubmissionsAssumption, SMT DEF Slot, Lists, Places

LEMMA Appended ==
  ASSUME NEW S, NEW s \in Seq(S), NEW op \in S, NEW t, t = Append(s, op)
  PROVE  /\ t \in Seq(S)
         /\ Len(s) \in Nat
         /\ DOMAIN s = 1 .. Len(s)
         /\ Len(t) = Len(s) + 1
         /\ DOMAIN t = 1 .. Len(s) + 1
         /\ \A k \in DOMAIN s : t[k] = s[k]
         /\ t[Len(s) + 1] = op
BY AppendProperties, LenProperties

LEMMA OperationKinds ==
  ASSUME RingTypeOK, NEW k \in DOMAIN submitted
  PROVE  /\ submitted[k] \in Operations
         /\ k \in Nat /\ k > 0 /\ k <= Len(submitted)
         /\ submitted[k].kind = "execute" =>
              submitted[k].of \in Lists /\ submitted[k] = Execution(submitted[k].of)
         /\ submitted[k].kind = "signal" =>
              submitted[k].of \in Nat /\ submitted[k] = Signalling(submitted[k].of)
         /\ submitted[k].kind \in {"execute", "signal"}
<1>1. submitted[k] \in Operations /\ k \in 1 .. Len(submitted) /\ Len(submitted) \in Nat
  BY ElementOfSeq, LenProperties DEF RingTypeOK, DeviceTypeOK, Operations
<1>2. QED
  BY <1>1 DEF Operations, Execution, Signalling

(* The thread's steps keep the types. *)
LEMMA CpuKeepsTypes ==
  ASSUME RingTypeOK, Progress, RingCpu
  PROVE  RingTypeOK'
<1> USE SubmissionsAssumption, SlotsAssumption DEF RingTypeOK, DeviceTypeOK, CpuTypeOK, Places, Lists, Markers
<1>0. Slot \in 0 .. Slots - 1 /\ Slot \in Lists
  BY SlotInRing
<1>1. CASE ring_submit_reserve
  <2>1. ring_values[Slot] \in 0 .. value
    BY <1>0
  <2>2. target' \in 0 .. value'
    <3>1. CASE Busy(Slot)
      BY <1>1, <2>1, <3>1 DEF ring_submit_reserve, WaitValue
    <3>2. CASE ~Busy(Slot)
      BY <1>1, <3>2 DEF ring_submit_reserve, Goto
    <3>3. QED
      BY <3>1, <3>2
  <2>3. UNCHANGED <<i, value, mismatches>>
    BY <1>1 DEF ring_submit_reserve, Goto
  <2>4. QED
    BY <1>1, <2>2, <2>3 DEF ring_submit_reserve, deviceVars, ringVars
<1>2. CASE ring_submit_reset
  BY <1>0, <1>2 DEF ring_submit_reset, Record, Goto, Nothing, ringVars
<1>3. CASE ring_submit_record
  BY <1>0, <1>3, SMT DEF ring_submit_record, Record, Goto, Nothing, ringVars, Progress, Preparing
<1>4. CASE ring_submit_execute
  <2>1. snapshot_batch_match("main", "main", Slot, <<Slot>>)
    BY <1>0, GateAssumption, SMT DEF snapshot_batch_match
  <2>2. submitted' \in Seq(Operations) /\ DOMAIN submitted \subseteq DOMAIN submitted'
    BY <1>0, <1>4, Appended DEF ring_submit_execute, Enqueue, Execution, Operations
  <2>3. QED
    BY <1>4, <2>1, <2>2 DEF ring_submit_execute, Enqueue, Goto, Operations
<1>5. CASE ring_submit_signal
  <2>1. value + 1 \in Nat /\ value' = value + 1 /\ value' <= Submissions /\ i' \in 0 .. Submissions
    BY <1>5, SMT DEF ring_submit_signal, Progress, Preparing
  <2>2. submitted' \in Seq(Operations) /\ DOMAIN submitted \subseteq DOMAIN submitted'
    <3>1. submitted' = Append(submitted, Signalling(value + 1))
      BY <1>5 DEF ring_submit_signal, Enqueue
    <3>2. Signalling(value + 1) \in Operations
      BY <2>1 DEF Signalling, Operations
    <3>3. submitted \in Seq(Operations)
      BY DEF Operations
    <3>4. QED
      BY <3>1, <3>2, <3>3, Appended
  <2>3. ring_values' \in [0 .. Slots - 1 -> 0 .. value']
    BY <1>0, <1>5, <2>1, SMT DEF ring_submit_signal, Remember
  <2>4. target' \in 0 .. value'
    BY <1>5, <2>1, SMT DEF ring_submit_signal
  <2>5. /\ UNCHANGED <<upload, readback, recorded, ran, completed, armed, signalled, overtaken>>
        /\ UNCHANGED <<mismatches, gate_failures>>
    BY <1>5 DEF ring_submit_signal, Enqueue
  <2>6. value' \in 0 .. Submissions /\ mismatches' \in 0 .. Submissions
    BY <2>1, <2>5
  <2>7. DeviceTypeOK'
    BY <2>2, <2>5 DEF Operations
  <2>8. QED
    BY <2>1, <2>3, <2>4, <2>5, <2>6, <2>7
<1>6. CASE ring_flush
  <2>1. UNCHANGED <<i, value, mismatches>> /\ UNCHANGED <<deviceVars, ringVars>>
    BY <1>6 DEF ring_flush, Goto
  <2>2. target' \in 0 .. value'
    <3>1. CASE value # 0
      BY <1>6, <3>1, <2>1 DEF ring_flush, WaitValue
    <3>2. CASE value = 0
      BY <1>6, <3>2, <2>1 DEF ring_flush, Goto
    <3>3. QED
      BY <3>1, <3>2
  <2>3. QED
    BY <2>1, <2>2 DEF deviceVars, ringVars
<1>7. CASE ring_compare
  <2> DEFINE Wrong == {p \in Places : readback[p] # Marker(p)}
  <2>2. IsFiniteSet(Places) /\ Cardinality(Places) = Submissions
    BY FS_Interval
  <2>3. Cardinality(Wrong) \in Nat /\ Cardinality(Wrong) <= Submissions
    BY <2>2, FS_Subset, FS_CardinalityType
  <2>4. QED
    BY <1>7, <2>3 DEF ring_compare, deviceVars, ringVars
<1>8. CASE ring_wait_value
  <2>1. UNCHANGED <<upload, readback, recorded, submitted, ran, completed, overtaken>>
        /\ UNCHANGED <<i, value, target, mismatches, ringVars>>
    BY <1>8 DEF ring_wait_value, Waiting, AskCompleted, ArmEvent, SetEventOnCompletion, Wake,
      ConsumeEvent, Goto, deviceVars
  <2>2. signalled' \in BOOLEAN /\ armed' \in Nat
    <3>1. CASE AskCompleted
      BY <3>1 DEF AskCompleted, deviceVars
    <3>2. CASE ArmEvent /\ completed >= target
      BY <3>2 DEF ArmEvent, SetEventOnCompletion
    <3>3. CASE ArmEvent /\ ~(completed >= target)
      BY <3>3 DEF ArmEvent, SetEventOnCompletion
    <3>4. CASE Wake
      BY <3>4 DEF Wake, ConsumeEvent
    <3>5. QED
      BY <1>8, <3>1, <3>2, <3>3, <3>4 DEF ring_wait_value, Waiting
  <2>3. QED
    BY <2>1, <2>2 DEF ringVars
<1>9. CASE ring_wait_timeout
  BY <1>9 DEF ring_wait_timeout, Goto, deviceVars, ringVars
<1>10. CASE ring_check_hr
  BY <1>10 DEF ring_check_hr, check_hr, Goto, deviceVars, ringVars
<1>11. QED
  BY <1>1, <1>2, <1>3, <1>4, <1>5, <1>6, <1>7, <1>8, <1>9, <1>10 DEF RingCpu

LEMMA GpuKeepsTypes ==
  ASSUME RingTypeOK, RingGpu
  PROVE  RingTypeOK'
<1>1. PICK k \in Pending : GpuRuns!(k)
  BY DEF RingGpu, GpuRuns
<1>2. k \in DOMAIN submitted
  BY DEF Pending
<1>3. UNCHANGED <<upload, recorded, submitted, cpuVars, ringVars>> /\ ran' \subseteq DOMAIN submitted
  BY <1>1, <1>2 DEF RingGpu, RingTypeOK, DeviceTypeOK
<1>4. CASE submitted[k].kind = "execute" /\ Copy(submitted[k].of)
  <2>1. submitted[k].of \in Lists
    BY <1>2, <1>4, OperationKinds
  <2>2. readback' \in [Places -> Markers \cup {0}]
    BY <1>4, <2>1 DEF Copy, RingTypeOK, DeviceTypeOK, Nothing
  <2>3. QED
    BY <1>1, <1>3, <1>4, <2>2 DEF Copy, RingTypeOK, DeviceTypeOK, CpuTypeOK, cpuVars, ringVars
<1>5. CASE submitted[k].kind = "signal" /\ Complete(submitted[k].of)
  <2>1. submitted[k].of \in Nat
    BY <1>2, <1>5, OperationKinds
  <2>2. completed' \in Nat /\ armed' \in Nat /\ signalled' \in BOOLEAN /\ UNCHANGED readback
    <3>1. CASE armed \in 1 .. submitted[k].of
      BY <1>5, <2>1, <3>1 DEF Complete
    <3>2. CASE armed \notin 1 .. submitted[k].of
      BY <1>5, <2>1, <3>2 DEF Complete, RingTypeOK, DeviceTypeOK
    <3>3. QED
      BY <3>1, <3>2
  <2>3. QED
    BY <1>1, <1>3, <2>2 DEF RingTypeOK, DeviceTypeOK, CpuTypeOK, cpuVars, ringVars
<1>6. QED
  BY <1>1, <1>4, <1>5

-----------------------------------------------------------------------------
(* The thread. *)

LEMMA CpuKeepsProgress ==
  ASSUME RingTypeOK, Progress, RingCpu
  PROVE  Progress'
<1> USE SubmissionsAssumption, SlotsAssumption
<1> USE DEF Progress, PCs, Preparing, Asking, Closing
<1>0. i \in Nat /\ value \in Nat /\ i <= Submissions /\ Submissions \in Nat
  BY DEF RingTypeOK, CpuTypeOK
<1>1. CASE ring_submit_reserve
  <2>1. UNCHANGED <<i, value, ring_values>> /\ pc = "reserve" /\ i < Submissions
    BY <1>1 DEF ring_submit_reserve, Goto, ringVars
  <2>2. CASE Busy(Slot)
    BY <1>0, <1>1, <2>1, <2>2 DEF ring_submit_reserve, WaitValue, Slot
  <2>3. CASE ~Busy(Slot)
    BY <1>0, <1>1, <2>1, <2>3 DEF ring_submit_reserve, Goto
  <2>4. QED
    BY <2>2, <2>3
<1>2. CASE ring_submit_reset
  BY <1>2 DEF ring_submit_reset, Goto
<1>3. CASE ring_submit_record
  BY <1>3 DEF ring_submit_record, Goto
<1>4. CASE ring_submit_execute
  BY <1>4 DEF ring_submit_execute, Goto
<1>5. CASE ring_submit_signal
  BY <1>0, <1>5 DEF ring_submit_signal
<1>6. CASE ring_flush
  <2>1. value # 0 /\ i = Submissions /\ UNCHANGED <<i, value, ring_values>>
    BY <1>0, <1>6, SMT DEF ring_flush, Goto, ringVars
  <2>2. QED
    BY <1>0, <1>6, <2>1 DEF ring_flush, WaitValue
<1>7. CASE ring_compare
  BY <1>7 DEF ring_compare
<1>8. CASE ring_wait_value
  <2>1. UNCHANGED <<i, value, target, resume, ring_values>> /\ pc \in Asking
    BY <1>8 DEF ring_wait_value, Waiting, AskCompleted, ArmEvent, Wake, Goto, ringVars
  <2>2. pc' \in {"arm", "wait", resume}
    BY <1>8 DEF ring_wait_value, Waiting, AskCompleted, ArmEvent, Wake, Goto
  <2>3. QED
    BY <1>0, <2>1, <2>2 DEF Slot
<1>9. CASE ring_wait_timeout
  BY <1>9 DEF ring_wait_timeout, Goto
<1>10. CASE ring_check_hr
  BY <1>10 DEF ring_check_hr, check_hr, Goto
<1>11. QED
  BY <1>1, <1>2, <1>3, <1>4, <1>5, <1>6, <1>7, <1>8, <1>9, <1>10 DEF RingCpu

LEMMA GpuKeepsProgress ==
  ASSUME Progress, RingGpu
  PROVE  Progress'
BY DEF Progress, RingGpu, cpuVars, ringVars, Slot

(* What the thread does to the queue: at most one operation is added to it,
   and a signal carries a value above all before. *)
LEMMA CpuAndQueue ==
  ASSUME RingTypeOK, RingCpu
  PROVE  /\ UNCHANGED <<readback, ran, completed, overtaken>>
         /\ \/ UNCHANGED <<submitted, value>>
            \/ ring_submit_execute /\ UNCHANGED value
            \/ ring_submit_signal
BY DEF RingCpu, ring_submit_reserve, ring_submit_reset, ring_submit_record, ring_submit_execute,
  ring_submit_signal, ring_flush, ring_compare, ring_wait_value, ring_wait_timeout, ring_check_hr,
  check_hr, Waiting, AskCompleted, ArmEvent, Wake, SetEventOnCompletion, ConsumeEvent, Record,
  Enqueue, WaitValue, Goto, deviceVars

LEMMA ExecuteAdds ==
  ASSUME RingTypeOK, ring_submit_execute
  PROVE  /\ Len(submitted) \in Nat /\ Len(submitted') = Len(submitted) + 1
         /\ DOMAIN submitted = 1 .. Len(submitted)
         /\ DOMAIN submitted' = 1 .. Len(submitted) + 1
         /\ \A k \in DOMAIN submitted : submitted'[k] = submitted[k]
         /\ submitted'[Len(submitted) + 1].kind = "execute"
         /\ submitted'[Len(submitted) + 1].of = Slot
         /\ ran \subseteq DOMAIN submitted
         /\ UNCHANGED <<upload, readback, recorded, ran, completed, overtaken, i, value, ring_values>>
         /\ pc = "execute" /\ pc' = "signal"
<1>1. Execution(Slot) \in Operations /\ submitted \in Seq(Operations)
  BY SlotInRing DEF RingTypeOK, DeviceTypeOK, CpuTypeOK, Execution, Operations
<1>2. submitted' = Append(submitted, Execution(Slot))
  BY DEF ring_submit_execute, Enqueue
<1>3. QED
  BY <1>1, <1>2, Appended DEF ring_submit_execute, Enqueue, Execution, Goto, RingTypeOK, DeviceTypeOK

LEMMA SignalAdds ==
  ASSUME RingTypeOK, ring_submit_signal
  PROVE  /\ Len(submitted) \in Nat /\ Len(submitted') = Len(submitted) + 1
         /\ DOMAIN submitted = 1 .. Len(submitted)
         /\ DOMAIN submitted' = 1 .. Len(submitted) + 1
         /\ \A k \in DOMAIN submitted : submitted'[k] = submitted[k]
         /\ submitted'[Len(submitted) + 1] = Signalling(value + 1)
         /\ submitted'[Len(submitted) + 1].kind = "signal"
         /\ submitted'[Len(submitted) + 1].of = value + 1
         /\ ran \subseteq DOMAIN submitted
         /\ UNCHANGED <<upload, readback, recorded, ran, completed, overtaken>>
         /\ value' = value + 1 /\ i' = i + 1
         /\ ring_values' = [ring_values EXCEPT ![Slot] = value + 1]
         /\ pc = "signal" /\ pc' = "reserve"
<1>1. Signalling(value + 1) \in Operations /\ submitted \in Seq(Operations)
  BY DEF RingTypeOK, DeviceTypeOK, CpuTypeOK, Signalling, Operations
<1>2. submitted' = Append(submitted, Signalling(value + 1))
  BY DEF ring_submit_signal, Enqueue
<1>3. QED
  BY <1>1, <1>2, Appended
    DEF ring_submit_signal, Enqueue, Signalling, Remember, RingTypeOK, DeviceTypeOK

LEMMA CpuKeepsSignals ==
  ASSUME RingTypeOK, SignalsRise, RingCpu
  PROVE  SignalsRise'
<1>0. /\ UNCHANGED <<readback, ran, completed, overtaken>>
      /\ \/ UNCHANGED <<submitted, value>>
         \/ ring_submit_execute /\ UNCHANGED value
         \/ ring_submit_signal
  BY CpuAndQueue
<1>1. CASE UNCHANGED <<submitted, value>>
  BY <1>0, <1>1 DEF SignalsRise
<1>2. CASE ring_submit_execute /\ UNCHANGED value
  <2>1. \A k \in DOMAIN submitted' : submitted'[k].kind = "signal" =>
          k \in DOMAIN submitted /\ submitted'[k] = submitted[k]
    BY <1>2, ExecuteAdds
  <2>2. QED
    BY <1>0, <1>2, <2>1 DEF SignalsRise
<1>3. CASE ring_submit_signal
  <2> DEFINE last == Len(submitted) + 1
  <2>0. value \in Nat /\ completed \in Nat
    BY DEF RingTypeOK, DeviceTypeOK, CpuTypeOK
  <2>1. /\ last \in Nat /\ last \notin ran /\ last \notin DOMAIN submitted
        /\ submitted'[last].of = value + 1 /\ value' = value + 1
        /\ \A k \in DOMAIN submitted' :
             k = last \/ (k \in DOMAIN submitted /\ submitted'[k] = submitted[k] /\ k < last)
    BY <1>3, SignalAdds
  <2>2. \A k \in DOMAIN submitted : submitted[k].kind = "signal" =>
          submitted[k].of \in 1 .. value /\ (k \notin ran => submitted[k].of > completed)
    BY DEF SignalsRise
  <2>3. \A k \in DOMAIN submitted' : submitted'[k].kind = "signal" =>
          /\ submitted'[k].of \in 1 .. value'
          /\ k \notin ran' => submitted'[k].of > completed'
    BY <1>0, <2>0, <2>1, <2>2 DEF SignalsRise
  <2>4. ASSUME NEW j \in DOMAIN submitted', NEW k \in DOMAIN submitted', j < k,
               submitted'[j].kind = "signal", submitted'[k].kind = "signal"
        PROVE  submitted'[j].of < submitted'[k].of
    <3>1. j \in DOMAIN submitted /\ submitted'[j] = submitted[j]
      BY <2>1, <2>4, SignalAdds, <1>3
    <3>2. CASE k = last
      BY <2>0, <2>1, <2>2, <2>4, <3>1, <3>2
    <3>3. CASE k \in DOMAIN submitted /\ submitted'[k] = submitted[k]
      BY <2>4, <3>1, <3>3 DEF SignalsRise
    <3>4. QED
      BY <2>1, <3>2, <3>3
  <2>5. completed' <= value'
    BY <1>0, <2>0, <2>1 DEF SignalsRise
  <2>6. QED
    BY <2>3, <2>4, <2>5 DEF SignalsRise
<1>4. QED
  BY <1>0, <1>1, <1>2, <1>3

Running(k) ==
  /\ k \notin ran
  /\ \A j \in DOMAIN submitted : j < k /\ j \notin ran => submitted[j].kind = "execute"
  /\ ran' = ran \cup {k}
  /\ ~overtaken' => ~overtaken /\ \A j \in DOMAIN submitted : j < k => j \in ran
  /\ \/ submitted[k].kind = "execute" /\ Copy(submitted[k].of)
     \/ submitted[k].kind = "signal" /\ Complete(submitted[k].of)
  /\ UNCHANGED <<upload, recorded, submitted, cpuVars, ringVars>>

LEMMA GpuStep ==
  ASSUME RingTypeOK, RingGpu
  PROVE  \E k \in DOMAIN submitted : Running(k)
<1>1. PICK k \in Pending : GpuRuns!(k)
  BY DEF RingGpu, GpuRuns
<1>2. k \in DOMAIN submitted /\ k \notin ran
  BY DEF Pending
<1>3. \A j \in DOMAIN submitted : j < k /\ j \notin ran => j \in Earlier(k)
  BY DEF Earlier, Pending
<1>4. QED
  BY <1>1, <1>2, <1>3 DEF RingGpu, Running

LEMMA GpuKeepsSignals ==
  ASSUME RingTypeOK, SignalsRise, RingGpu
  PROVE  SignalsRise'
<1>1. PICK k \in DOMAIN submitted : Running(k)
  BY GpuStep
<1> USE DEF Running
<1>2. UNCHANGED <<submitted, value>>
  BY <1>1 DEF cpuVars
<1>3. CASE submitted[k].kind = "execute" /\ Copy(submitted[k].of)
  BY <1>1, <1>2, <1>3 DEF SignalsRise, Copy
<1>4. CASE submitted[k].kind = "signal" /\ Complete(submitted[k].of)
  <2>1. completed' = submitted[k].of /\ submitted[k].of \in 1 .. value /\ value \in Nat
    BY <1>4 DEF Complete, SignalsRise, RingTypeOK, CpuTypeOK
  <2>2. \A j \in DOMAIN submitted : submitted[j].kind = "signal" /\ j \notin ran' => k < j
    <3>1. \A j \in DOMAIN submitted : j \in Nat
      BY OperationKinds
    <3>2. QED
      BY <1>1, <1>4, <3>1
  <2>3. QED
    BY <1>1, <1>2, <1>4, <2>1, <2>2 DEF SignalsRise
<1>5. QED
  BY <1>1, <1>3, <1>4

(* The event. *)
LEMMA CpuKeepsEvent ==
  ASSUME RingTypeOK, Progress, SignalsRise, EventOwned, RingCpu
  PROVE  EventOwned'
<1>0. completed \in Nat /\ target \in Nat /\ armed \in Nat /\ signalled \in BOOLEAN
  BY DEF RingTypeOK, DeviceTypeOK, CpuTypeOK
<1>1. CASE pc \notin {"arm", "wait", "fatal"}
  <2>1. UNCHANGED <<signalled, armed>> /\ ~signalled /\ armed = 0
    BY <1>1 DEF EventOwned, RingCpu, ring_submit_reserve, ring_submit_reset, ring_submit_record,
      ring_submit_execute, ring_submit_signal, ring_flush, ring_compare, ring_wait_value,
      ring_wait_timeout, ring_check_hr, check_hr, Waiting, AskCompleted, ArmEvent, Wake, Record,
      Enqueue, deviceVars
  <2>2. QED
    BY <2>1 DEF EventOwned
<1>2. CASE pc = "arm"
  <2>1. ~signalled /\ armed = 0
    BY <1>2 DEF EventOwned
  <2>2. (ArmEvent /\ UNCHANGED ringVars) \/ ring_check_hr
    BY <1>2 DEF RingCpu, ring_submit_reserve, ring_submit_reset, ring_submit_record,
      ring_submit_execute, ring_submit_signal, ring_flush, ring_compare, ring_wait_value,
      ring_wait_timeout, Waiting, AskCompleted, Wake
  <2>3. CASE ArmEvent /\ completed >= target
    BY <1>0, <2>1, <2>3 DEF EventOwned, ArmEvent, SetEventOnCompletion, Goto
  <2>4. CASE ArmEvent /\ ~(completed >= target)
    BY <1>0, <2>1, <2>4 DEF EventOwned, ArmEvent, SetEventOnCompletion, Goto
  <2>5. CASE ring_check_hr
    BY <2>1, <2>5 DEF EventOwned, ring_check_hr, check_hr, deviceVars
  <2>6. QED
    BY <2>2, <2>3, <2>4, <2>5
<1>3. CASE pc \in {"wait", "fatal"}
  <2>1. (Wake /\ UNCHANGED ringVars) \/ ring_wait_timeout
    BY <1>3 DEF RingCpu, ring_submit_reserve, ring_submit_reset, ring_submit_record,
      ring_submit_execute, ring_submit_signal, ring_flush, ring_compare, ring_wait_value,
      ring_check_hr, check_hr, Waiting, AskCompleted, ArmEvent
  <2>2. CASE Wake
    BY <1>0, <2>2 DEF EventOwned, Wake, ConsumeEvent, Goto
  <2>3. CASE ring_wait_timeout
    BY <2>3 DEF EventOwned, ring_wait_timeout, Goto, deviceVars
  <2>4. QED
    BY <2>1, <2>2, <2>3
<1>4. QED
  BY <1>1, <1>2, <1>3

LEMMA GpuKeepsEvent ==
  ASSUME RingTypeOK, SignalsRise, EventOwned, RingGpu
  PROVE  EventOwned'
<1>0. completed \in Nat /\ target \in Nat /\ armed \in Nat
  BY DEF RingTypeOK, DeviceTypeOK, CpuTypeOK
<1>1. PICK k \in DOMAIN submitted : Running(k)
  BY GpuStep
<1> USE DEF Running
<1>2. UNCHANGED <<pc, target>>
  BY <1>1 DEF cpuVars
<1>3. CASE Copy(submitted[k].of)
  BY <1>2, <1>3 DEF EventOwned, Copy
<1>4. CASE submitted[k].kind = "signal" /\ Complete(submitted[k].of)
  <2>1. completed' > completed /\ completed' = submitted[k].of /\ completed' \in Nat
    BY <1>0, <1>1, <1>4, OperationKinds DEF SignalsRise, Complete
  <2>2. CASE armed \in 1 .. submitted[k].of
    BY <1>0, <1>2, <1>4, <2>1, <2>2 DEF EventOwned, Complete
  <2>3. CASE armed \notin 1 .. submitted[k].of
    BY <1>0, <1>2, <1>4, <2>1, <2>3 DEF EventOwned, Complete
  <2>4. QED
    BY <2>2, <2>3
<1>5. QED
  BY <1>1, <1>3, <1>4

-----------------------------------------------------------------------------
(* The queue. *)

(* A step of the thread that adds nothing to the queue. *)
LEMMA QuietStep ==
  ASSUME RingTypeOK, Progress, RingCpu, UNCHANGED <<submitted, value>>
  PROVE  /\ UNCHANGED <<upload, readback, ran, completed, overtaken, i, ring_values>>
         /\ pc # "fatal" /\ pc' # "signal"
         /\ pc = "signal" => pc' = "fatal"
         /\ UNCHANGED recorded \/ ring_submit_reset \/ ring_submit_record
<1>1. ~ring_submit_execute /\ ~ring_submit_signal
  <2>1. ring_submit_execute => Len(submitted') = Len(submitted) + 1 /\ Len(submitted) \in Nat
    BY ExecuteAdds
  <2>2. ring_submit_signal => Len(submitted') = Len(submitted) + 1 /\ Len(submitted) \in Nat
    BY SignalAdds
  <2>3. QED
    BY <2>1, <2>2
<1>2. UNCHANGED <<readback, ran, completed, overtaken>>
  BY CpuAndQueue
<1>3. pc \in Asking => resume \in {"reset", "compare"}
  BY DEF Progress
<1>4. QED
  BY <1>1, <1>2, <1>3 DEF Asking, RingCpu, ring_submit_reserve, ring_submit_reset, ring_submit_record, ring_flush,
    ring_compare, ring_wait_value, ring_wait_timeout, ring_check_hr, check_hr, Waiting,
    AskCompleted, ArmEvent, Wake, SetEventOnCompletion, ConsumeEvent, Record, WaitValue, Goto,
    deviceVars, ringVars

(* How the thread comes to a slot it may reset, or to the end. *)
LEMMA Arrivals ==
  ASSUME RingTypeOK, Progress, EventOwned, RingCpu, pc' \in Preparing \cup Closing
  PROVE  /\ UNCHANGED <<submitted, value>>
         /\ \/ pc \in Preparing /\ pc' \in Preparing
            \/ pc \in Closing /\ pc' \in Closing
            \/ pc = "reserve" /\ pc' \in Preparing /\ ring_values[Slot] = 0
            \/ pc \in {"ask", "wait"} /\ pc' = resume /\ completed >= target
<1> USE DEF Preparing, Closing
<1>1. CASE ring_submit_reserve
  <2>1. ~Busy(Slot)
    BY <1>1 DEF ring_submit_reserve, WaitValue
  <2>2. QED
    BY <1>1, <2>1 DEF ring_submit_reserve, Busy, Goto, deviceVars
<1>2. CASE ring_submit_reset \/ ring_submit_record
  BY <1>2 DEF ring_submit_reset, ring_submit_record, Record, Goto
<1>3. CASE ring_submit_execute \/ ring_submit_signal
  BY <1>3 DEF ring_submit_execute, ring_submit_signal, Goto
<1>4. CASE ring_flush
  <2>1. value # 0
    BY <1>4, SubmissionsAssumption DEF ring_flush, Progress
  <2>2. QED
    BY <1>4, <2>1 DEF ring_flush, WaitValue
<1>5. CASE ring_compare
  BY <1>5 DEF ring_compare, deviceVars
<1>6. CASE ring_wait_value
  <2>1. CASE AskCompleted
    <3>1. completed >= target
      BY <2>1 DEF AskCompleted, Goto
    <3>2. QED
      BY <2>1, <3>1 DEF AskCompleted, Goto, deviceVars
  <2>2. CASE ArmEvent
    BY <2>2 DEF ArmEvent, Goto
  <2>3. CASE Wake
    BY <2>3 DEF Wake, ConsumeEvent, Goto, EventOwned
  <2>4. QED
    BY <1>6, <2>1, <2>2, <2>3 DEF ring_wait_value, Waiting
<1>7. CASE ring_wait_timeout \/ ring_check_hr
  BY <1>7 DEF ring_wait_timeout, ring_check_hr, check_hr, Goto
<1>8. QED
  BY <1>1, <1>2, <1>3, <1>4, <1>5, <1>6, <1>7 DEF RingCpu

(* A list still in the queue has its slot's fence value to come. *)
LEMMA ListAheadOfSignal ==
  ASSUME RingTypeOK, SignalsRise, RanInOrder, ListsFollowed, ~overtaken, pc \notin {"signal", "fatal"},
         NEW k \in DOMAIN submitted, PendingList(k)
  PROVE  /\ ring_values[submitted[k].of] \in 1 .. value
         /\ ring_values[submitted[k].of] > completed
<1>1. PICK j \in DOMAIN submitted : k < j /\ submitted[j] = Signalling(ring_values[submitted[k].of])
  BY DEF ListsFollowed, Followed
<1>2. k \notin ran
  BY DEF PendingList, Pending
<1>3. j \notin ran
  BY <1>1, <1>2 DEF RanInOrder
<1>4. submitted[j].kind = "signal" /\ submitted[j].of = ring_values[submitted[k].of]
  BY <1>1 DEF Signalling
<1>5. QED
  BY <1>3, <1>4 DEF SignalsRise

LEMMA CpuKeepsRanInOrder ==
  ASSUME RingTypeOK, RanInOrder, RingCpu
  PROVE  RanInOrder'
<1>0. UNCHANGED <<ran, overtaken>>
  BY CpuAndQueue
<1>1. CASE UNCHANGED submitted
  BY <1>0, <1>1 DEF RanInOrder
<1>2. CASE ring_submit_execute \/ ring_submit_signal
  <2>1. /\ Len(submitted) \in Nat /\ DOMAIN submitted = 1 .. Len(submitted)
        /\ DOMAIN submitted' = 1 .. Len(submitted) + 1 /\ ran \subseteq DOMAIN submitted
    BY <1>2, ExecuteAdds, SignalAdds
  <2>2. ASSUME NEW j \in DOMAIN submitted', NEW k \in ran, j < k
        PROVE  j \in DOMAIN submitted
    BY <2>1, <2>2
  <2>3. QED
    BY <1>0, <2>1, <2>2 DEF RanInOrder
<1>3. QED
  BY <1>1, <1>2, CpuAndQueue

LEMMA CpuKeepsListsFollowed ==
  ASSUME RingTypeOK, Progress, ListsFollowed, RingCpu
  PROVE  ListsFollowed'
<1>0. value \in Nat /\ ring_values \in [0 .. Slots - 1 -> 0 .. value]
  BY DEF RingTypeOK, CpuTypeOK
<1>1. CASE UNCHANGED <<submitted, value>>
  <2>1. UNCHANGED <<ran, ring_values>> /\ pc # "fatal" /\ (pc = "signal" => pc' = "fatal")
    BY <1>1, QuietStep
  <2>2. ASSUME pc' # "fatal", NEW k \in DOMAIN submitted', PendingList(k)'
        PROVE  Followed(k)'
    <3>1. PendingList(k) /\ k \in DOMAIN submitted /\ pc # "signal"
      BY <1>1, <2>1, <2>2 DEF PendingList, Pending
    <3>2. \E j \in DOMAIN submitted : k < j /\ submitted[j] = Signalling(ring_values[submitted[k].of])
      BY <2>1, <3>1 DEF ListsFollowed, Followed
    <3>3. QED
      BY <1>1, <2>1, <3>2 DEF Followed
  <2>3. QED
    BY <2>2 DEF ListsFollowed
<1>2. CASE ring_submit_execute
  <2> DEFINE last == Len(submitted) + 1
  <2>1. /\ pc = "execute" /\ pc' = "signal" /\ UNCHANGED <<ran, ring_values, value>>
        /\ DOMAIN submitted' = DOMAIN submitted \cup {last} /\ Len(submitted') = last
        /\ submitted'[last].of = Slot
        /\ \A k \in DOMAIN submitted : submitted'[k] = submitted[k]
    BY <1>2, ExecuteAdds
  <2>2. ASSUME NEW k \in DOMAIN submitted', PendingList(k)'
        PROVE  Followed(k)'
    <3>1. CASE k = last
      BY <2>1, <3>1 DEF Followed, Slot
    <3>2. CASE k \in DOMAIN submitted
      <4>1. PendingList(k)
        BY <2>1, <2>2, <3>2 DEF PendingList, Pending
      <4>2. \E j \in DOMAIN submitted : k < j /\ submitted[j] = Signalling(ring_values[submitted[k].of])
        BY <2>1, <3>2, <4>1 DEF ListsFollowed, Followed
      <4>3. QED
        BY <2>1, <3>2, <4>2 DEF Followed
    <3>3. QED
      BY <2>1, <2>2, <3>1, <3>2
  <2>3. QED
    BY <2>2 DEF ListsFollowed
<1>3. CASE ring_submit_signal
  <2> DEFINE last == Len(submitted) + 1
  <2>0. Slot \in 0 .. Slots - 1
    BY <1>0, SlotInRing
  <2>1. /\ pc = "signal" /\ UNCHANGED ran
        /\ ring_values' = [ring_values EXCEPT ![Slot] = value + 1]
        /\ DOMAIN submitted' = DOMAIN submitted \cup {last}
        /\ submitted'[last] = Signalling(value + 1) /\ submitted'[last].kind = "signal"
        /\ \A k \in DOMAIN submitted : submitted'[k] = submitted[k] /\ k < last
    BY <1>3, SignalAdds
  <2>2. ASSUME NEW k \in DOMAIN submitted', PendingList(k)'
        PROVE  Followed(k)'
    <3>1. k \in DOMAIN submitted /\ PendingList(k) /\ submitted'[k] = submitted[k]
      BY <2>1, <2>2 DEF PendingList, Pending
    <3>2. CASE submitted[k].of = Slot
      <4>1. submitted'[last] = Signalling(ring_values'[submitted'[k].of])
        BY <1>0, <2>0, <2>1, <3>1, <3>2
      <4>2. QED
        BY <2>1, <3>1, <4>1 DEF Followed
    <3>3. CASE submitted[k].of # Slot
      <4>1. ring_values'[submitted'[k].of] = ring_values[submitted[k].of]
        BY <1>0, <2>1, <3>1, <3>3
      <4>2. PICK j \in DOMAIN submitted : k < j /\ submitted[j] = Signalling(ring_values[submitted[k].of])
        BY <2>1, <3>1, <3>3 DEF ListsFollowed, Followed
      <4>3. QED
        BY <2>1, <4>1, <4>2 DEF Followed
    <3>4. QED
      BY <3>2, <3>3
  <2>3. QED
    BY <2>2 DEF ListsFollowed
<1>4. QED
  BY <1>1, <1>2, <1>3, CpuAndQueue

LEMMA CpuKeepsIdle ==
  ASSUME Thread, Queue, RingCpu
  PROVE  SlotIdle' /\ QueueIdle'
<1> USE DEF Thread, Queue
<1>0. /\ value \in Nat /\ completed \in Nat /\ target \in Nat
      /\ ring_values \in [0 .. Slots - 1 -> 0 .. value] /\ Slot \in 0 .. Slots - 1
  BY SlotInRing DEF RingTypeOK, DeviceTypeOK, CpuTypeOK
<1>1. SUFFICES ASSUME ~overtaken', pc' \in Preparing \cup Closing
               PROVE  /\ pc' \in Preparing =>
                           \A k \in DOMAIN submitted' : PendingList(k)' => submitted'[k].of # Slot'
                      /\ pc' \in Closing => Pending' = {}
  BY DEF SlotIdle, QueueIdle
<1>2. /\ UNCHANGED <<submitted, value, ran, overtaken>> /\ ~overtaken
      /\ \/ pc \in Preparing /\ pc' \in Preparing
         \/ pc \in Closing /\ pc' \in Closing
         \/ pc = "reserve" /\ pc' \in Preparing /\ ring_values[Slot] = 0
         \/ pc \in {"ask", "wait"} /\ pc' = resume /\ completed >= target
  BY <1>1, Arrivals, CpuAndQueue
<1>3. UNCHANGED Slot /\ Pending' = Pending /\ \A k : PendingList(k)' <=> PendingList(k)
  BY <1>2 DEF Slot, Pending, PendingList
<1>4. Preparing \cap Closing = {}
  BY DEF Preparing, Closing
<1>5. CASE pc \in Preparing /\ pc' \in Preparing
  BY <1>2, <1>3, <1>4, <1>5 DEF SlotIdle
<1>6. CASE pc \in Closing /\ pc' \in Closing
  BY <1>2, <1>3, <1>4, <1>6 DEF QueueIdle
<1>7. CASE pc = "reserve" /\ pc' \in Preparing /\ ring_values[Slot] = 0
  <2>1. \A k \in DOMAIN submitted : PendingList(k) => submitted[k].of # Slot
    BY <1>0, <1>2, <1>7, ListAheadOfSignal
  <2>2. QED
    BY <1>2, <1>3, <1>4, <1>7, <2>1
<1>8. CASE pc \in {"ask", "wait"} /\ pc' = resume /\ completed >= target
  <2>1. CASE resume = "reset" /\ target = ring_values[Slot]
    <3>1. \A k \in DOMAIN submitted : PendingList(k) => submitted[k].of # Slot
      BY <1>0, <1>2, <1>8, <2>1, ListAheadOfSignal
    <3>2. QED
      BY <1>2, <1>3, <1>8, <2>1, <3>1 DEF Closing
  <2>2. CASE resume = "compare" /\ target = value
    <3>1. ASSUME NEW k \in Pending
          PROVE  FALSE
      <4>1. k \in DOMAIN submitted /\ k \notin ran
        BY DEF Pending
      <4>2. CASE submitted[k].kind = "execute"
        BY <1>0, <1>2, <1>8, <2>2, <4>1, <4>2, ListAheadOfSignal DEF PendingList, Pending
      <4>3. CASE submitted[k].kind = "signal"
        BY <1>0, <1>8, <2>2, <4>1, <4>3 DEF SignalsRise
      <4>4. QED
        BY <4>1, <4>2, <4>3, OperationKinds
    <3>2. QED
      BY <1>3, <1>8, <2>2, <3>1 DEF Preparing
  <2>3. QED
    BY <1>8, <2>1, <2>2 DEF Progress, Asking
<1>9. QED
  BY <1>2, <1>5, <1>6, <1>7, <1>8

LEMMA CpuKeepsCopies ==
  ASSUME Thread, Queue, RingCpu
  PROVE  CopiesLand'
<1> USE DEF Thread, Queue
<1>0. /\ value \in Nat /\ i = value /\ Slot \in Lists /\ recorded \in [Lists -> Places \cup {Nothing}]
      /\ UNCHANGED <<readback, ran, overtaken>>
  BY SlotInRing, CpuAndQueue DEF RingTypeOK, DeviceTypeOK, CpuTypeOK, Progress
<1>1. CASE UNCHANGED <<submitted, value>>
  <2>1. UNCHANGED <<upload, i, ring_values>> /\ pc # "fatal" /\ pc' # "signal"
        /\ (UNCHANGED recorded \/ ring_submit_reset \/ ring_submit_record)
    BY <1>1, QuietStep
  <2>2. pc' = "execute" => recorded'[Slot'] = i'
    <3>1. CASE pc' = "execute"
      <4>1. ring_submit_record
        BY <1>1, <2>1, <3>1 DEF RingCpu, ring_submit_reserve, ring_submit_reset, ring_submit_execute,
          ring_submit_signal, ring_flush, ring_compare, ring_wait_value, ring_wait_timeout,
          ring_check_hr, check_hr, Waiting, AskCompleted, ArmEvent, Wake, WaitValue, Goto,
          Progress, Asking
      <4>2. QED
        BY <1>0, <1>1, <2>1, <4>1 DEF ring_submit_record, Record, Slot
    <3>2. QED
      BY <3>1
  <2>3. ASSUME ~overtaken', NEW k \in DOMAIN submitted, PendingList(k)
        PROVE  recorded'[submitted[k].of] = recorded[submitted[k].of]
    <3>1. CASE UNCHANGED recorded
      BY <3>1
    <3>2. CASE ring_submit_reset \/ ring_submit_record
      <4>1. submitted[k].of # Slot
        BY <1>0, <2>3, <3>2 DEF SlotIdle, Preparing, ring_submit_reset, ring_submit_record
      <4>2. submitted[k].of \in Lists
        BY <2>3, OperationKinds DEF PendingList
      <4>3. QED
        BY <1>0, <3>2, <4>1, <4>2 DEF ring_submit_reset, ring_submit_record, Record
    <3>3. QED
      BY <2>1, <3>1, <3>2
  <2>4. ASSUME ~overtaken', NEW p \in Places, Submitted(p)'
        PROVE  OnItsWay(p)'
    <3>1. OnItsWay(p)
      BY <1>0, <2>1, <2>4 DEF Submitted, CopiesLand
    <3>2. \A k : PendingList(k)' <=> PendingList(k)
      BY <1>0, <1>1 DEF PendingList, Pending
    <3>3. QED
      BY <1>0, <1>1, <2>3, <2>4, <3>1, <3>2 DEF OnItsWay
  <2>5. QED
    BY <2>1, <2>2, <2>4 DEF CopiesLand
<1>2. CASE ring_submit_execute
  <2>0. PICK last \in Nat : last = Len(submitted) + 1
    BY <1>2, ExecuteAdds
  <2>1. /\ pc = "execute" /\ pc' = "signal" /\ UNCHANGED <<upload, recorded, i, value>>
        /\ DOMAIN submitted' = DOMAIN submitted \cup {last}
        /\ last \notin ran
        /\ submitted'[last].of = Slot /\ submitted'[last].kind = "execute"
        /\ \A k \in DOMAIN submitted : submitted'[k] = submitted[k]
    BY <1>2, <2>0, ExecuteAdds
  <2>2. \A k \in DOMAIN submitted : PendingList(k) => PendingList(k)'
    BY <1>0, <2>1 DEF PendingList, Pending
  <2>3. PendingList(last)'
    BY <1>0, <2>1 DEF PendingList, Pending
  <2>4. ASSUME ~overtaken', NEW p \in Places, Submitted(p)'
        PROVE  OnItsWay(p)'
    <3>1. CASE p = i
      <4>1. recorded'[submitted'[last].of] = p
        BY <2>1, <3>1 DEF CopiesLand
      <4>2. QED
        BY <2>1, <2>3, <4>1 DEF OnItsWay
    <3>2. CASE p < i
      <4>1. OnItsWay(p)
        BY <1>0, <2>4, <3>2 DEF Submitted, CopiesLand
      <4>2. QED
        BY <1>0, <2>1, <2>2, <4>1 DEF OnItsWay
    <3>3. QED
      BY <2>1, <2>4, <3>1, <3>2 DEF Submitted
  <2>5. QED
    BY <2>1, <2>4 DEF CopiesLand
<1>3. CASE ring_submit_signal
  <2>1. /\ pc = "signal" /\ pc' = "reserve" /\ UNCHANGED <<upload, recorded>> /\ i' = i + 1
        /\ DOMAIN submitted' = DOMAIN submitted \cup {Len(submitted) + 1}
        /\ \A k \in DOMAIN submitted : submitted'[k] = submitted[k]
    BY <1>3, SignalAdds
  <2>2. \A k \in DOMAIN submitted : PendingList(k) => PendingList(k)'
    BY <1>0, <2>1 DEF PendingList, Pending
  <2>3. ASSUME ~overtaken', NEW p \in Places, Submitted(p)'
        PROVE  OnItsWay(p)'
    <3>1. p \in Int /\ i \in Int
      BY <1>0 DEF Places
    <3>2. Submitted(p)
      BY <2>1, <2>3, <3>1 DEF Submitted
    <3>3. OnItsWay(p)
      BY <1>0, <2>3, <3>2 DEF CopiesLand
    <3>4. QED
      BY <1>0, <2>1, <2>2, <3>3 DEF OnItsWay
  <2>4. QED
    BY <2>1, <2>3 DEF CopiesLand
<1>4. QED
  BY <1>1, <1>2, <1>3, CpuAndQueue

LEMMA CpuKeepsBlame ==
  ASSUME Thread, Queue, FailBlamesStack, RingCpu
  PROVE  FailBlamesStack'
<1> USE DEF Thread, Queue
<1>0. UNCHANGED <<readback, overtaken>> /\ mismatches \in 0 .. Submissions /\ overtaken \in BOOLEAN
  BY CpuAndQueue DEF RingTypeOK, DeviceTypeOK, CpuTypeOK
<1>1. CASE ring_compare
  <2>1. ASSUME ~overtaken
        PROVE  mismatches' = 0
    <3>1. Pending = {} /\ i = Submissions
      BY <1>1, <2>1 DEF QueueIdle, Progress, Closing, ring_compare
    <3>2. \A p \in Places : Submitted(p)
      BY <3>1, SubmissionsAssumption DEF Submitted, Places
    <3>3. \A p \in Places : readback[p] = Marker(p)
      BY <2>1, <3>1, <3>2 DEF CopiesLand, OnItsWay, PendingList
    <3>4. {p \in Places : readback[p] # Marker(p)} = {}
      BY <3>3
    <3>5. QED
      BY <1>1, <3>4, FS_EmptySet DEF ring_compare
  <2>2. QED
    BY <1>0, <1>1, <2>1 DEF FailBlamesStack, ring_compare, ringVars
<1>2. CASE ring_submit_execute
  <2>1. snapshot_batch_match("main", "main", Slot, <<Slot>>)
    BY SlotInRing, GateAssumption, SMT DEF snapshot_batch_match, RingTypeOK, CpuTypeOK
  <2>2. QED
    BY <1>0, <1>2, <2>1 DEF FailBlamesStack, ring_submit_execute, Goto
<1>3. CASE ~ring_compare /\ ~ring_submit_execute
  <2>1. UNCHANGED <<mismatches, gate_failures>>
    BY <1>3 DEF RingCpu, ring_submit_reserve, ring_submit_reset, ring_submit_record, ring_submit_signal,
      ring_flush, ring_wait_value, ring_wait_timeout, ring_check_hr, check_hr, Waiting,
      AskCompleted, ArmEvent, Wake, WaitValue, Goto, ringVars
  <2>2. QED
    BY <1>0, <2>1 DEF FailBlamesStack
<1>4. QED
  BY <1>1, <1>2, <1>3

LEMMA GpuKeepsQueue ==
  ASSUME Thread, Queue, FailBlamesStack, RingGpu
  PROVE  Queue' /\ FailBlamesStack'
<1> USE DEF Thread, Queue
<1>1. PICK k \in DOMAIN submitted : Running(k)
  BY GpuStep
<1>2. /\ UNCHANGED <<upload, recorded, submitted, pc, i, value, mismatches, ring_values, gate_failures>>
      /\ ran' = ran \cup {k} /\ (~overtaken' => ~overtaken) /\ k \notin ran
  BY <1>1 DEF Running, cpuVars, ringVars
<1>3. UNCHANGED Slot /\ \A j : PendingList(j)' <=> PendingList(j) /\ j # k
  BY <1>2 DEF Slot, PendingList, Pending
<1>4. RanInOrder'
  <2>1. CASE overtaken'
    BY <2>1 DEF RanInOrder
  <2>2. CASE ~overtaken'
    BY <1>1, <1>2, <2>2 DEF RanInOrder, Running
  <2>3. QED
    BY <2>1, <2>2
<1>5. ListsFollowed'
  BY <1>2, <1>3 DEF ListsFollowed, Followed
<1>6. SlotIdle'
  BY <1>2, <1>3 DEF SlotIdle
<1>7. QueueIdle'
  BY <1>2 DEF QueueIdle, Pending
<1>8. CopiesLand'
  <2>1. ASSUME ~overtaken', NEW p \in Places, Submitted(p)'
        PROVE  OnItsWay(p)'
    <3>1. OnItsWay(p)
      BY <1>2, <2>1 DEF CopiesLand, Submitted
    <3>2. readback \in [Places -> Markers \cup {0}]
      BY DEF RingTypeOK, DeviceTypeOK
    <3>3. CASE submitted[k].kind = "execute" /\ Copy(submitted[k].of)
      <4>1. CASE recorded[submitted[k].of] = p
        <5>1. p # Nothing
          BY SubmissionsAssumption DEF Places, Nothing
        <5>2. readback'[p] = Marker(p)
          BY <3>2, <3>3, <4>1, <5>1 DEF Copy, CopiesLand
        <5>3. QED
          BY <5>2 DEF OnItsWay, Marker
      <4>2. CASE recorded[submitted[k].of] # p
        <5>1. readback'[p] = readback[p]
          BY <3>2, <3>3, <4>2 DEF Copy
        <5>2. QED
          BY <1>2, <1>3, <3>1, <4>2, <5>1 DEF OnItsWay
      <4>3. QED
        BY <4>1, <4>2
    <3>4. CASE submitted[k].kind = "signal" /\ Complete(submitted[k].of)
      <4>1. UNCHANGED readback /\ ~PendingList(k)
        BY <3>4 DEF Complete, PendingList
      <4>2. QED
        BY <1>2, <1>3, <3>1, <4>1 DEF OnItsWay
    <3>5. QED
      BY <1>1, <3>3, <3>4 DEF Running
  <2>2. QED
    BY <1>2, <1>3, <2>1 DEF CopiesLand
<1>9. FailBlamesStack'
  BY <1>2, <1>1 DEF FailBlamesStack, Running, GpuRuns, RingGpu, RingTypeOK, DeviceTypeOK
<1>10. QED
  BY <1>4, <1>5, <1>6, <1>7, <1>8, <1>9

-----------------------------------------------------------------------------
(* The invariant. *)

LEMMA RingInvInit ==
  ASSUME RingInit
  PROVE  RingInv
<1> USE SubmissionsAssumption, SlotsAssumption
<1> USE DEF RingInit, DeviceInit, CpuInit
<1>1. submitted \in Seq(Operations) /\ DOMAIN submitted = {}
  BY EmptySeq DEF Operations
<1>2. RingTypeOK
  <2>1. \A p \in Places : Marker(p) \in Markers
    BY DEF Places, Markers, Marker
  <2>2. upload \in [Places -> Markers \cup {0}] /\ readback \in [Places -> Markers \cup {0}]
    BY <2>1
  <2>3. recorded \in [Lists -> Places \cup {Nothing}] /\ ring_values \in [0 .. Slots - 1 -> 0 .. value]
    BY DEF Nothing
  <2>4. DeviceTypeOK
    BY <1>1, <2>2, <2>3 DEF DeviceTypeOK, Operations
  <2>5. CpuTypeOK /\ gate_failures \in 0 .. Submissions
    BY DEF CpuTypeOK
  <2>6. QED
    BY <2>3, <2>4, <2>5 DEF RingTypeOK
<1>3. Progress /\ SignalsRise /\ EventOwned
  BY <1>1 DEF Progress, PCs, Preparing, Asking, Closing, SignalsRise, EventOwned
<1>4. Queue
  BY <1>1 DEF Queue, RanInOrder, ListsFollowed, PendingList, Pending, SlotIdle, QueueIdle, CopiesLand,
    Submitted, Preparing, Closing, Places
<1>5. FailBlamesStack
  BY DEF FailBlamesStack
<1>6. QED
  BY <1>2, <1>3, <1>4, <1>5 DEF RingInv, Thread

LEMMA RingInvStep ==
  ASSUME RingInv, [RingCpu \/ RingGpu]_RingVars
  PROVE  RingInv'
<1> USE DEF RingInv, Thread
<1>1. CASE RingCpu
  <2>1. Thread'
    BY <1>1, CpuKeepsTypes, CpuKeepsProgress, CpuKeepsSignals, CpuKeepsEvent
  <2>2. Queue'
    BY <1>1, CpuKeepsRanInOrder, CpuKeepsListsFollowed, CpuKeepsIdle, CpuKeepsCopies DEF Queue
  <2>3. QED
    BY <1>1, <2>1, <2>2, CpuKeepsBlame
<1>2. CASE RingGpu
  BY <1>2, GpuKeepsTypes, GpuKeepsProgress, GpuKeepsSignals, GpuKeepsEvent, GpuKeepsQueue
<1>3. CASE UNCHANGED RingVars
  <2>1. UNCHANGED <<deviceVars, cpuVars, ringVars>>
    BY <1>3 DEF RingVars, vars
  <2>2. RingTypeOK' /\ Progress' /\ SignalsRise' /\ EventOwned' /\ FailBlamesStack'
    BY <2>1 DEF deviceVars, cpuVars, ringVars, RingTypeOK, DeviceTypeOK, CpuTypeOK, Progress, Slot,
      SignalsRise, EventOwned, FailBlamesStack
  <2>3. Queue'
    BY <2>1 DEF deviceVars, cpuVars, ringVars, Queue, RanInOrder, ListsFollowed, Followed, PendingList,
      Pending, SlotIdle, QueueIdle, CopiesLand, Submitted, OnItsWay, Slot
  <2>4. QED
    BY <2>2, <2>3
<1>4. QED
  BY <1>1, <1>2, <1>3

(* What holds in every reachable state of the ring probe. *)
THEOREM RingInvariant == RingSpec => []RingInv
<1>1. RingInit => RingInv
  BY RingInvInit
<1>2. RingInv /\ [RingCpu \/ RingGpu]_RingVars => RingInv'
  BY RingInvStep
<1>3. QED
  BY <1>1, <1>2, PTL DEF RingSpec

(* The ring's state keeps its types for any number of slots and submissions:
   no slot outside the ring, no wait for a value that was never signalled. *)
THEOREM RingTypeCorrect == RingSpec => []RingTypeOK
<1>1. RingInv => RingTypeOK
  BY DEF RingInv, Thread
<1>2. QED
  BY <1>1, RingInvariant, PTL

(* For any number of slots and submissions, the probe reports no mismatch and
   no failure of the gate unless the queue broke its order. *)
THEOREM RingBlamesRightly == RingSpec => []FailBlamesStack
<1>1. RingInv => FailBlamesStack
  BY DEF RingInv
<1>2. QED
  BY <1>1, RingInvariant, PTL

(* When the ring probe releases its buffers, an orderly queue is empty. *)
THEOREM RingReleasesIdle == RingSpec => []IdleAtRelease
<1>1. RingInv => IdleAtRelease
  BY DEF RingInv, Queue, QueueIdle, Closing, IdleAtRelease
<1>2. QED
  BY <1>1, RingInvariant, PTL

(* What a step must leave alone: the lists the GPU has yet to run, and what they
   are to copy; and when a step may end a wait. *)
Untouched ==
  \A k \in DOMAIN submitted :
    PendingList(k) /\ ~overtaken' =>
      LET list == submitted[k].of IN
        /\ recorded'[list] = recorded[list]
        /\ recorded[list] # Nothing => upload'[recorded[list]] = upload[recorded[list]]

NotEarly == (pc \in {"ask", "wait"} /\ pc' = resume) => completed >= target

LEMMA RingStepLeavesInFlight ==
  ASSUME RingInv, [RingCpu \/ RingGpu]_RingVars
  PROVE  Untouched \/ UNCHANGED deviceVars
<1> USE DEF RingInv, Thread, Queue
<1>1. CASE RingCpu
  <2>1. UNCHANGED <<upload, overtaken>>
    BY <1>1, ExecuteAdds, SignalAdds, QuietStep, CpuAndQueue
  <2>2. CASE UNCHANGED recorded
    BY <2>1, <2>2 DEF Untouched
  <2>3. CASE ring_submit_reset \/ ring_submit_record
    <3>1. ASSUME NEW k \in DOMAIN submitted, PendingList(k), ~overtaken'
          PROVE  recorded'[submitted[k].of] = recorded[submitted[k].of]
      <4>1. submitted[k].of # Slot
        BY <2>1, <2>3, <3>1 DEF SlotIdle, Preparing, ring_submit_reset, ring_submit_record
      <4>2. submitted[k].of \in Lists /\ recorded \in [Lists -> Places \cup {Nothing}]
        BY <3>1, OperationKinds DEF PendingList, RingTypeOK, DeviceTypeOK
      <4>3. QED
        BY <2>3, <4>1, <4>2 DEF ring_submit_reset, ring_submit_record, Record
    <3>2. QED
      BY <2>1, <3>1 DEF Untouched
  <2>4. QED
    BY <1>1, <2>2, <2>3, ExecuteAdds, SignalAdds, QuietStep, CpuAndQueue
<1>2. CASE RingGpu
  BY <1>2 DEF RingGpu, GpuRuns, Untouched
<1>3. QED
  BY <1>1, <1>2 DEF RingVars, vars

LEMMA RingStepWaitsFully ==
  ASSUME RingInv, RingCpu \/ RingGpu
  PROVE  NotEarly
<1> SUFFICES ASSUME pc \in {"ask", "wait"}, pc' = resume
             PROVE  completed >= target
  BY DEF NotEarly
<1> USE DEF RingInv, Thread
<1>1. resume \in {"reset", "compare"}
  BY DEF Progress, Asking
<1>2. RingCpu
  BY <1>1 DEF RingGpu, cpuVars
<1>3. QED
  BY <1>1, <1>2, Arrivals DEF Preparing, Closing

(* Waiting for reused slots alone keeps the ring from ever resetting a list
   that an orderly queue has yet to run. *)
THEOREM RingLeavesInFlight == RingSpec => InFlightUntouched
<1>1. RingInv /\ [RingCpu \/ RingGpu]_RingVars => [Untouched]_deviceVars
  BY RingStepLeavesInFlight
<1>2. QED
  BY <1>1, RingInvariant, PTL DEF RingSpec, InFlightUntouched, Untouched

(* No wait of the ring returns before the fence has reached its value. *)
THEOREM RingWaitsFully == RingSpec => NoEarlyReturn
<1>1. RingInv /\ [RingCpu \/ RingGpu]_RingVars => [NotEarly]_vars
  BY RingStepWaitsFully DEF RingVars
<1>2. QED
  BY <1>1, RingInvariant, PTL DEF RingSpec, NoEarlyReturn, NotEarly

-----------------------------------------------------------------------------
(* snapshot_batch_match, for batches of any lists and any length, is what its
   header promises. *)
THEOREM GateMeetsHeader ==
  ASSUME NEW Any, NEW lists \in Seq(Any), NEW producer, NEW recorder, NEW checker
  PROVE  snapshot_batch_match(recorder, checker, producer, lists)
           <=> Trustworthy(recorder, checker, producer, lists)
<1>1. Len(lists) \in Nat /\ DOMAIN lists = 1 .. Len(lists)
  BY LenProperties
<1>2. QED
  BY <1>1, GateAssumption DEF snapshot_batch_match, Trustworthy

(* The gate is right about every part of the ring's submissions, for any number
   of slots and submissions and any longest batch. *)
THEOREM RingGateExact == RingSpec => []GateExact
<1>1. ASSUME NEW m \in Nat, NEW n \in Nat, NEW producer, NEW thread
      PROVE  snapshot_batch_match("main", thread, producer, Batch(m, n))
               <=> Trustworthy("main", thread, producer, Batch(m, n))
  <2> DEFINE Any == {submitted[2 * (m + k) - 1].of : k \in 1 .. n}
  <2>1. Batch(m, n) \in [1 .. n -> Any]
    BY DEF Batch
  <2>2. Batch(m, n) \in Seq(Any)
    BY <2>1, SeqDef
  <2>3. QED
    BY <2>2, GateMeetsHeader
<1>2. GateExact
  BY <1>1, SubmissionsAssumption DEF GateExact
<1>3. QED
  BY <1>2, PTL
=============================================================================
