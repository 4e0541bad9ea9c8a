-------------------------- MODULE SubmissionProofs --------------------------
(***************************************************************************)
(* The other two submission probes, and the three of them as one system,   *)
(* for any number of submissions.  The timing probe's flag: as long as the *)
(* queue keeps its order and no copy lands behind a scan, what has landed  *)
(* and what has been seen are both a first part of the places, so the next *)
(* one seen is never below the last.  The coherency probe: its queue is    *)
(* empty whenever it rewrites the place, the list or the allocator.        *)
(***************************************************************************)
EXTENDS MCSubmission, RingSubmissionProofs

-----------------------------------------------------------------------------
(* The timing probe. *)

Draining == Asking \cup {"done"}

(* How far the thread is; it asks for no fence value but the last. *)
TimingProgress ==
  /\ pc \in {"issue", "poll", "look", "drain"} \cup Draining
  /\ value = IF pc \in Draining THEN 1 ELSE 0
  /\ pc \in Asking => resume = "done" /\ target = 1
  /\ pc = "done" => completed = 1
  /\ mismatches = 0

(* The queue holds the lists in the order of their places, then the signal. *)
InPlaceOrder ==
  /\ recorded = [l \in Lists |-> l]
  /\ upload = [p \in Places |-> Marker(p)]
  /\ Len(submitted) = IF pc = "issue" THEN i ELSE Submissions + value
  /\ \A k \in DOMAIN submitted :
       submitted[k] = IF k <= Submissions THEN Execution(k - 1) ELSE Signalling(1)
  /\ completed = IF Submissions + 1 \in ran THEN 1 ELSE 0

LandedIsRan == \A p \in Places : Landed(p) <=> p + 1 \in ran

(* What has been seen did land, the last one seen among it. *)
SeenLanded ==
  /\ \A p \in Places : resolved[p] => Landed(p)
  /\ last_resolved_index # -1 => resolved[last_resolved_index]

(* A scan that nothing slipped behind has seen all that landed below it. *)
NoneMissed ==
  ~slipped /\ pc = "look" => \A q \in Places : q < i /\ Landed(q) => resolved[q]

(* Then, from an orderly queue, the places seen are a first part of them all. *)
SeenInOrder ==
  ~overtaken /\ ~slipped => \A p, q \in Places : p < q /\ resolved[q] => resolved[p]

TimingThread == TimingTypeOK /\ TimingProgress /\ InPlaceOrder /\ SignalsRise /\ EventOwned
TimingInv ==
  /\ TimingThread
  /\ RanInOrder /\ LandedIsRan
  /\ SeenLanded /\ NoneMissed /\ SeenInOrder /\ FlagMeansReorder

-----------------------------------------------------------------------------
(* The coherency probe. *)

Submitting == {"reset", "record", "execute", "signal"}
Looking == Asking \cup {"compare"}

(* The thread: how far it is, and what it waits for. *)
CoherencyProgress ==
  /\ pc \in {"write", "done", "fatal"} \cup Submitting \cup Looking
  /\ pc # "fatal" => value = IF pc \in Looking THEN i + 1 ELSE i
  /\ pc \in Submitting \cup Looking => i < Submissions
  /\ pc \in Asking => resume = "compare" /\ target = value
  /\ mismatches <= i

(* Every list in the queue is the one list, and the last operation before a
   wait is the signal it waits for. *)
OneList ==
  /\ \A k \in DOMAIN submitted : submitted[k].kind = "execute" => submitted[k].of = 0
  /\ pc \in Looking =>
       Len(submitted) \in DOMAIN submitted /\ submitted[Len(submitted)] = Signalling(value)

(* Outside the wait, an orderly queue is empty. *)
CoherencyIdle ==
  ~overtaken /\ pc \in {"write", "reset", "record", "execute", "compare", "done"} => Pending = {}

(* The place holds this round's marker, and the copy of it is on its way. *)
PlaceOnItsWay ==
  /\ pc \in Submitting \cup Looking => upload[0] = Marker(i)
  /\ pc \in {"execute", "signal"} \cup Looking => recorded[0] = 0
  /\ ~overtaken /\ pc \in {"signal"} \cup Looking =>
       readback[0] = Marker(i) \/ \E k \in DOMAIN submitted : PendingList(k)

CoherencyThread == DeviceTypeOK /\ CpuTypeOK /\ CoherencyProgress /\ SignalsRise /\ EventOwned
CoherencyInv ==
  /\ CoherencyThread
  /\ RanInOrder /\ OneList /\ CoherencyIdle /\ PlaceOnItsWay
  /\ mismatches > 0 => overtaken

-----------------------------------------------------------------------------
(* The GPU and the queue, whatever the probe. *)

LEMMA QueueKinds ==
  ASSUME DeviceTypeOK
  PROVE  /\ submitted \in Seq(Operations)
         /\ Len(submitted) \in Nat
         /\ DOMAIN submitted = 1 .. Len(submitted)
         /\ \A k \in DOMAIN submitted :
              \/ submitted[k].kind = "execute" /\ submitted[k].of \in Lists
              \/ submitted[k].kind = "signal" /\ submitted[k].of \in Nat
<1>1. submitted \in Seq(Operations)
  BY DEF DeviceTypeOK, Operations
<1>2. Len(submitted) \in Nat /\ DOMAIN submitted = 1 .. Len(submitted)
  BY <1>1, LenProperties
<1>3. \A k \in DOMAIN submitted : submitted[k] \in Operations
  BY <1>1, <1>2, ElementOfSeq
<1>4. QED
  BY <1>1, <1>2, <1>3 DEF Operations

(* What an operation added to the queue leaves of it. *)
LEMMA Enqueued ==
  ASSUME DeviceTypeOK, NEW operation \in Operations, Enqueue(operation)
  PROVE  /\ submitted' \in Seq(Operations)
         /\ Len(submitted) \in Nat /\ Len(submitted') = Len(submitted) + 1
         /\ DOMAIN submitted = 1 .. Len(submitted)
         /\ DOMAIN submitted' = 1 .. Len(submitted) + 1
         /\ \A k \in DOMAIN submitted : submitted'[k] = submitted[k]
         /\ submitted'[Len(submitted) + 1] = operation
         /\ Len(submitted) + 1 \notin ran
         /\ UNCHANGED <<upload, readback, recorded, ran, completed, armed, signalled, overtaken>>
         /\ DeviceTypeOK'
<1>1. submitted \in Seq(Operations) /\ submitted' = Append(submitted, operation)
  BY QueueKinds DEF Enqueue
<1>2. /\ submitted' \in Seq(Operations)
      /\ Len(submitted) \in Nat /\ Len(submitted') = Len(submitted) + 1
      /\ DOMAIN submitted = 1 .. Len(submitted)
      /\ DOMAIN submitted' = 1 .. Len(submitted) + 1
      /\ \A k \in DOMAIN submitted : submitted'[k] = submitted[k]
      /\ submitted'[Len(submitted) + 1] = operation
  BY <1>1, Appended
<1>3. UNCHANGED <<upload, readback, recorded, ran, completed, armed, signalled, overtaken>>
  BY DEF Enqueue
<1>4. DeviceTypeOK'
  BY <1>2, <1>3 DEF DeviceTypeOK, Operations
<1>5. Len(submitted) + 1 \notin ran
  BY <1>2 DEF DeviceTypeOK
<1>6. QED
  BY <1>2, <1>3, <1>4, <1>5

(* The GPU runs operation k. *)
Runs(k) ==
  /\ k \notin ran
  /\ \A j \in DOMAIN submitted : j < k /\ j \notin ran => submitted[j].kind = "execute"
  /\ ran' = ran \cup {k}
  /\ ~overtaken' => ~overtaken /\ \A j \in DOMAIN submitted : j < k => j \in ran
  /\ overtaken' \in BOOLEAN /\ (overtaken => overtaken')
  /\ \/ submitted[k].kind = "execute" /\ Copy(submitted[k].of)
     \/ submitted[k].kind = "signal" /\ Complete(submitted[k].of)
  /\ UNCHANGED <<upload, recorded, submitted>>

LEMMA GpuRunsOne ==
  ASSUME DeviceTypeOK, GpuRuns
  PROVE  \E k \in DOMAIN submitted : Runs(k)
<1>1. PICK k \in Pending : GpuRuns!(k)
  BY DEF GpuRuns
<1>2. k \in DOMAIN submitted /\ k \notin ran
  BY <1>1 DEF Pending
<1>3. \A j \in DOMAIN submitted : j < k /\ j \notin ran => j \in Earlier(k)
  BY DEF Earlier, Pending
<1>4. overtaken \in BOOLEAN
  BY DEF DeviceTypeOK
<1>5. QED
  BY <1>1, <1>2, <1>3, <1>4 DEF Runs

LEMMA RunKeepsTypes ==
  ASSUME DeviceTypeOK, NEW k \in DOMAIN submitted, Runs(k)
  PROVE  DeviceTypeOK'
<1> USE DEF Runs
<1>1. /\ upload' \in [Places -> Markers \cup {0}] /\ recorded' \in [Lists -> Places \cup {Nothing}]
      /\ submitted' \in Seq([kind : {"execute"}, of : Lists] \cup [kind : {"signal"}, of : Nat])
      /\ ran' \subseteq DOMAIN submitted' /\ overtaken' \in BOOLEAN
  <2>1. overtaken' \in BOOLEAN
    BY DEF DeviceTypeOK, Runs
  <2>2. QED
    BY <2>1 DEF DeviceTypeOK
<1>2. CASE submitted[k].kind = "execute" /\ Copy(submitted[k].of)
  <2>1. submitted[k].of \in Lists
    BY <1>2, QueueKinds
  <2>2. readback' \in [Places -> Markers \cup {0}] /\ UNCHANGED <<completed, armed, signalled>>
    BY <1>2, <2>1 DEF Copy, DeviceTypeOK, Nothing
  <2>3. QED
    BY <1>1, <2>2 DEF DeviceTypeOK
<1>3. CASE submitted[k].kind = "signal" /\ Complete(submitted[k].of)
  <2>1. submitted[k].of \in Nat
    BY <1>3, QueueKinds
  <2>2. completed' \in Nat /\ armed' \in Nat /\ signalled' \in BOOLEAN /\ readback' = readback
    <3>1. armed \in Nat /\ signalled \in BOOLEAN /\ 0 \in Nat
      BY DEF DeviceTypeOK
    <3>2. CASE armed \in 1 .. submitted[k].of
      BY <1>3, <2>1, <3>1, <3>2 DEF Complete
    <3>3. CASE armed \notin 1 .. submitted[k].of
      BY <1>3, <2>1, <3>1, <3>3 DEF Complete
    <3>4. QED
      BY <3>2, <3>3
  <2>3. QED
    BY <1>1, <2>2 DEF DeviceTypeOK
<1>4. QED
  BY <1>2, <1>3

LEMMA RunKeepsOrder ==
  ASSUME DeviceTypeOK, value \in Nat, target \in Nat, SignalsRise, EventOwned, RanInOrder,
         NEW k \in DOMAIN submitted, Runs(k), UNCHANGED cpuVars
  PROVE  SignalsRise' /\ EventOwned' /\ RanInOrder'
<1> USE DEF Runs, cpuVars
<1>0. completed \in Nat /\ armed \in Nat /\ DOMAIN submitted = 1 .. Len(submitted) /\ Len(submitted) \in Nat
  BY QueueKinds DEF DeviceTypeOK
<1>1. RanInOrder'
  BY <1>0 DEF RanInOrder
<1>2. CASE submitted[k].kind = "execute" /\ Copy(submitted[k].of)
  BY <1>1, <1>2 DEF SignalsRise, EventOwned, Copy
<1>3. CASE submitted[k].kind = "signal" /\ Complete(submitted[k].of)
  <2>1. completed' = submitted[k].of /\ submitted[k].of \in 1 .. value /\ submitted[k].of > completed
    BY <1>3 DEF Complete, SignalsRise
  <2>2. \A j \in DOMAIN submitted : submitted[j].kind = "signal" /\ j \notin ran' => k < j
    BY <1>0, <1>3
  <2>3. SignalsRise'
    BY <1>0, <1>3, <2>1, <2>2 DEF SignalsRise
  <2>4. EventOwned'
    BY <1>0, <1>3, <2>1 DEF EventOwned, Complete
  <2>5. QED
    BY <1>1, <2>3, <2>4
<1>4. QED
  BY <1>2, <1>3

(* The wait for a fence value, up to its return. *)
LEMMA Waits ==
  ASSUME DeviceTypeOK, target \in Nat, EventOwned, Waiting
  PROVE  /\ DeviceTypeOK' /\ EventOwned'
         /\ UNCHANGED <<upload, readback, recorded, submitted, ran, completed, overtaken>>
         /\ UNCHANGED <<i, value, target, resume, mismatches>>
         /\ pc \in Asking
         /\ \/ pc' = "arm"
            \/ pc' = "wait"
            \/ pc' = resume /\ completed >= target
<1>0. completed \in Nat /\ armed \in Nat /\ signalled \in BOOLEAN
  BY DEF DeviceTypeOK
<1>1. CASE AskCompleted
  BY <1>1 DEF AskCompleted, Goto, deviceVars, DeviceTypeOK, EventOwned, Asking
<1>2. CASE ArmEvent
  <2>1. /\ UNCHANGED <<upload, readback, recorded, submitted, ran, completed, overtaken>>
        /\ UNCHANGED <<i, value, target, resume, mismatches>>
        /\ pc = "arm" /\ pc' = "wait"
    BY <1>2 DEF ArmEvent, SetEventOnCompletion, Goto
  <2>2. ~signalled /\ armed = 0
    BY <2>1 DEF EventOwned
  <2>3. \/ completed >= target /\ signalled' = TRUE /\ armed' = armed
        \/ ~(completed >= target) /\ armed' = target /\ signalled' = signalled
    BY <1>2 DEF ArmEvent, SetEventOnCompletion
  <2>4. EventOwned'
    BY <1>0, <2>1, <2>2, <2>3 DEF EventOwned
  <2>5. DeviceTypeOK'
    BY <1>0, <2>1, <2>3 DEF DeviceTypeOK
  <2>6. QED
    BY <2>1, <2>4, <2>5 DEF Asking
<1>3. CASE Wake
  <2>1. /\ UNCHANGED <<upload, readback, recorded, submitted, ran, completed, overtaken, armed>>
        /\ UNCHANGED <<i, value, target, resume, mismatches>>
        /\ pc = "wait" /\ pc' = resume /\ signalled /\ ~signalled' /\ signalled' \in BOOLEAN
    BY <1>3 DEF Wake, ConsumeEvent, Goto
  <2>2. completed >= target /\ armed = 0
    BY <1>0, <2>1 DEF EventOwned
  <2>3. DeviceTypeOK'
    BY <2>1 DEF DeviceTypeOK
  <2>4. QED
    BY <2>1, <2>2, <2>3 DEF EventOwned, Asking
<1>4. QED
  BY <1>1, <1>2, <1>3 DEF Waiting

-----------------------------------------------------------------------------
(* The timing probe's thread. *)

LEMMA TimingCpuFrame ==
  ASSUME TimingThread, TimingCpu
  PROVE  /\ UNCHANGED <<upload, readback, recorded, ran, completed, overtaken, slipped>>
         /\ timing_look \/ UNCHANGED <<resolved, last_resolved_index, out_of_order>>
BY DEF TimingCpu, timing_issue, timing_issued, timing_scan, timing_look, timing_all_done,
  timing_budget_over, timing_drain, timing_wait, Waiting, AskCompleted, ArmEvent, Wake,
  SetEventOnCompletion, ConsumeEvent, Enqueue, deviceVars, timingVars

LEMMA LookKeepsTypes ==
  ASSUME TimingTypeOK, timing_look
  PROVE  TimingTypeOK'
<1> USE SubmissionsAssumption DEF TimingTypeOK, CpuTypeOK, Places
<1>1. i \in Places /\ i' = i + 1 /\ UNCHANGED <<deviceVars, slipped, value, target, mismatches>>
  BY DEF timing_look
<1>2. DeviceTypeOK' /\ CpuTypeOK' /\ slipped' \in BOOLEAN
  BY <1>1 DEF DeviceTypeOK, deviceVars
<1>3. CASE Fresh(i)
  BY <1>1, <1>2, <1>3 DEF timing_look
<1>4. CASE ~Fresh(i)
  BY <1>2, <1>4 DEF timing_look
<1>5. QED
  BY <1>3, <1>4

LEMMA TimingCpuKeepsThread ==
  ASSUME TimingThread, TimingCpu
  PROVE  TimingThread'
<1> USE SubmissionsAssumption DEF TimingThread
<1>0. /\ DeviceTypeOK /\ CpuTypeOK /\ Submissions \in Nat /\ completed \in Nat
      /\ i \in 0 .. Submissions /\ value \in Nat /\ target \in Nat
  BY DEF TimingTypeOK, DeviceTypeOK, CpuTypeOK
<1>1. CASE timing_issue
  <2>1. /\ pc = "issue" /\ i < Submissions /\ i \in Lists /\ i' = i + 1
        /\ UNCHANGED <<timingVars, pc, value, target, resume, mismatches>>
        /\ Enqueue(Execution(i)) /\ Execution(i) \in Operations
    BY <1>0, <1>1 DEF timing_issue, Lists, Places, Operations, Execution
  <2>2. /\ DeviceTypeOK' /\ UNCHANGED <<upload, recorded, ran, completed, armed, signalled>>
        /\ Len(submitted) \in Nat /\ Len(submitted') = Len(submitted) + 1
        /\ DOMAIN submitted = 1 .. Len(submitted)
        /\ DOMAIN submitted' = 1 .. Len(submitted) + 1
        /\ \A k \in DOMAIN submitted : submitted'[k] = submitted[k]
        /\ submitted'[Len(submitted) + 1] = Execution(i)
    BY <1>0, <2>1, Enqueued
  <2>3. TimingTypeOK'
    BY <1>0, <2>1, <2>2 DEF TimingTypeOK, CpuTypeOK, timingVars
  <2>4. InPlaceOrder'
    BY <1>0, <2>1, <2>2 DEF InPlaceOrder, TimingProgress, Draining, Asking
  <2>5. SignalsRise'
    <3>1. submitted'[Len(submitted) + 1].kind = "execute"
      BY <2>2 DEF Execution
    <3>2. \A k \in DOMAIN submitted' : submitted'[k].kind = "signal" =>
            k \in DOMAIN submitted /\ submitted'[k] = submitted[k]
      BY <2>2, <3>1
    <3>3. QED
      BY <2>1, <2>2, <3>2 DEF SignalsRise
  <2>6. TimingProgress' /\ EventOwned'
    BY <2>1, <2>2 DEF TimingProgress, EventOwned
  <2>7. QED
    BY <2>3, <2>4, <2>5, <2>6
<1>2. CASE timing_issued \/ timing_scan \/ timing_all_done \/ timing_budget_over
  <2>1. /\ UNCHANGED <<deviceVars, timingVars, value, target, resume, mismatches>>
        /\ pc \in {"issue", "poll", "look"} /\ pc' \in {"poll", "look", "drain"}
        /\ i' \in {0, i} /\ (pc = "issue" => i = Submissions)
    BY <1>2 DEF timing_issued, timing_scan, timing_all_done, timing_budget_over, Goto
  <2>2. TimingTypeOK'
    BY <1>0, <2>1 DEF TimingTypeOK, DeviceTypeOK, CpuTypeOK, timingVars, deviceVars
  <2>3. TimingProgress'
    BY <2>1 DEF TimingProgress, Draining, Asking, deviceVars
  <2>4. InPlaceOrder'
    BY <1>0, <2>1 DEF InPlaceOrder, TimingProgress, Draining, Asking, deviceVars
  <2>5. SignalsRise' /\ EventOwned'
    BY <2>1 DEF SignalsRise, EventOwned, deviceVars
  <2>6. QED
    BY <2>2, <2>3, <2>4, <2>5
<1>3. CASE timing_look
  <2>1. UNCHANGED <<deviceVars, pc, value, target, resume, mismatches>> /\ pc = "look"
    BY <1>3 DEF timing_look
  <2>2. TimingTypeOK'
    BY <1>3, LookKeepsTypes
  <2>3. TimingProgress' /\ InPlaceOrder'
    BY <2>1 DEF TimingProgress, InPlaceOrder, deviceVars
  <2>4. SignalsRise' /\ EventOwned'
    BY <2>1 DEF SignalsRise, EventOwned, deviceVars
  <2>5. QED
    BY <2>2, <2>3, <2>4
<1>4. CASE timing_drain
  <2>1. /\ pc = "drain" /\ pc' = "ask" /\ value = 0 /\ value' = 1 /\ target' = 1 /\ resume' = "done"
        /\ UNCHANGED <<timingVars, i, mismatches>>
        /\ Enqueue(Signalling(1)) /\ Signalling(1) \in Operations
    BY <1>4 DEF timing_drain, Drain, WaitValue, TimingProgress, Draining, Asking, Operations, Signalling
  <2>2. /\ DeviceTypeOK' /\ UNCHANGED <<upload, recorded, ran, completed, armed, signalled>>
        /\ Len(submitted) \in Nat /\ Len(submitted') = Len(submitted) + 1
        /\ DOMAIN submitted = 1 .. Len(submitted)
        /\ DOMAIN submitted' = 1 .. Len(submitted) + 1
        /\ \A k \in DOMAIN submitted : submitted'[k] = submitted[k]
        /\ submitted'[Len(submitted) + 1] = Signalling(1)
        /\ Len(submitted) + 1 \notin ran
    BY <1>0, <2>1, Enqueued
  <2>3. TimingTypeOK'
    BY <1>0, <2>1, <2>2 DEF TimingTypeOK, CpuTypeOK, timingVars
  <2>4. Len(submitted) = Submissions /\ completed = 0
    BY <1>0, <2>1, <2>2 DEF InPlaceOrder
  <2>5. InPlaceOrder'
    BY <1>0, <2>1, <2>2, <2>4 DEF InPlaceOrder
  <2>6. SignalsRise'
    <3>1. ASSUME NEW k \in DOMAIN submitted
          PROVE  submitted'[k].kind = "execute"
      <4>1. k <= Submissions /\ submitted'[k] = submitted[k]
        BY <1>0, <2>2, <2>4
      <4>2. submitted[k] = Execution(k - 1)
        BY <4>1 DEF InPlaceOrder
      <4>3. QED
        BY <4>1, <4>2 DEF Execution
    <3>2. \A k \in DOMAIN submitted' : submitted'[k].kind = "signal" => k = Len(submitted) + 1
      BY <2>2, <3>1
    <3>3. submitted'[Len(submitted) + 1].of = 1
      BY <2>2 DEF Signalling
    <3>4. QED
      BY <2>1, <2>2, <2>4, <3>2, <3>3 DEF SignalsRise
  <2>7. TimingProgress' /\ EventOwned'
    BY <2>1, <2>2 DEF TimingProgress, EventOwned, Draining, Asking
  <2>8. QED
    BY <2>3, <2>5, <2>6, <2>7
<1>5. CASE timing_wait
  <2>1. /\ DeviceTypeOK' /\ EventOwned'
        /\ UNCHANGED <<upload, readback, recorded, submitted, ran, completed, overtaken>>
        /\ UNCHANGED <<i, value, target, resume, mismatches, timingVars>>
        /\ pc \in Asking
        /\ \/ pc' = "arm"
           \/ pc' = "wait"
           \/ pc' = resume /\ completed >= target
    BY <1>0, <1>5, Waits DEF timing_wait
  <2>2. TimingTypeOK'
    BY <2>1 DEF TimingTypeOK, CpuTypeOK, timingVars
  <2>3. resume = "done" /\ target = 1 /\ value = 1 /\ completed \in {0, 1}
    BY <2>1 DEF TimingProgress, Draining, InPlaceOrder
  <2>4. TimingProgress'
    BY <2>1, <2>3 DEF TimingProgress, Draining, Asking
  <2>5. InPlaceOrder' /\ SignalsRise'
    BY <2>1, <2>3, <2>4 DEF InPlaceOrder, SignalsRise, Asking
  <2>6. QED
    BY <2>1, <2>2, <2>4, <2>5
<1>6. QED
  BY <1>1, <1>2, <1>3, <1>4, <1>5 DEF TimingCpu

(* The GPU's steps keep them. *)
LEMMA TimingGpuKeepsThread ==
  ASSUME TimingThread, RanInOrder, NEW k \in DOMAIN submitted, Runs(k), UNCHANGED cpuVars,
         UNCHANGED <<resolved, last_resolved_index, out_of_order>>, slipped' \in BOOLEAN
  PROVE  TimingThread' /\ RanInOrder'
<1> USE SubmissionsAssumption DEF TimingThread
<1>0. /\ DeviceTypeOK /\ value \in Nat /\ target \in Nat /\ Submissions \in Nat
      /\ DOMAIN submitted = 1 .. Len(submitted) /\ Len(submitted) \in Nat
  BY QueueKinds DEF TimingTypeOK, CpuTypeOK
<1>1. DeviceTypeOK' /\ SignalsRise' /\ EventOwned' /\ RanInOrder'
  BY <1>0, RunKeepsTypes, RunKeepsOrder
<1>2. TimingTypeOK'
  BY <1>1 DEF TimingTypeOK, CpuTypeOK, cpuVars
<1>3. /\ completed' = IF Submissions + 1 \in ran' THEN 1 ELSE 0
      /\ UNCHANGED <<upload, recorded, submitted>>
  <2>1. CASE k = Submissions + 1
    <3>1. submitted[k].kind = "signal" /\ submitted[k].of = 1
      BY <1>0, <2>1 DEF InPlaceOrder, Signalling
    <3>2. QED
      BY <2>1, <3>1 DEF Runs, Complete
  <2>2. CASE k # Submissions + 1
    <3>1. submitted[k].kind = "execute"
      <4>1. Len(submitted) <= Submissions + 1
        BY <1>0 DEF InPlaceOrder, TimingProgress, TimingTypeOK, CpuTypeOK
      <4>2. k <= Submissions
        BY <1>0, <2>2, <4>1
      <4>3. QED
        BY <4>2 DEF InPlaceOrder, Execution
    <3>2. QED
      BY <2>2, <3>1 DEF Runs, Copy, InPlaceOrder
  <2>3. QED
    BY <2>1, <2>2 DEF Runs
<1>4. InPlaceOrder'
  BY <1>3 DEF InPlaceOrder, cpuVars
<1>5. TimingProgress'
  <2>1. completed = 1 => completed' = 1
    BY <1>3 DEF InPlaceOrder, Runs
  <2>2. QED
    BY <2>1 DEF TimingProgress, cpuVars
<1>6. QED
  BY <1>1, <1>2, <1>4, <1>5

LEMMA TimingGpuStep ==
  ASSUME TimingThread, TimingGpu
  PROVE  \E k \in DOMAIN submitted :
           /\ Runs(k)
           /\ UNCHANGED cpuVars /\ UNCHANGED <<resolved, last_resolved_index, out_of_order>>
           /\ slipped' = (slipped \/ (pc = "look" /\ \E p \in 0 .. i - 1 : readback'[p] # readback[p]))
BY GpuRunsOne DEF TimingGpu, TimingThread, TimingTypeOK

(* What a list that runs makes of the readback buffer: its place has landed,
   which it had not, and no other place changes. *)
LEMMA OneLands ==
  ASSUME TimingThread, LandedIsRan, NEW k \in DOMAIN submitted, Runs(k)
  PROVE  /\ LandedIsRan'
         /\ k <= Submissions => k - 1 \in Places /\ readback'[k - 1] # readback[k - 1]
         /\ \A p \in Places : p # k - 1 => readback'[p] = readback[p]
<1> USE SubmissionsAssumption DEF TimingThread, Runs
<1>0. /\ DeviceTypeOK /\ Submissions \in Nat
      /\ DOMAIN submitted = 1 .. Len(submitted) /\ Len(submitted) \in Nat
  BY QueueKinds DEF TimingTypeOK, CpuTypeOK
<1>a. readback \in [Places -> Markers \cup {0}]
  BY <1>0 DEF DeviceTypeOK
<1>1. CASE k <= Submissions
  <2>1. submitted[k].kind = "execute" /\ submitted[k].of = k - 1 /\ k - 1 \in Lists /\ k - 1 \in Places
    <3>1. submitted[k] = Execution(k - 1)
      BY <1>1 DEF InPlaceOrder
    <3>2. k - 1 \in 0 .. Submissions - 1
      BY <1>0, <1>1
    <3>3. QED
      BY <3>1, <3>2 DEF Execution, Lists, Places
  <2>2. recorded[k - 1] = k - 1 /\ k - 1 # Nothing /\ upload[k - 1] = Marker(k - 1)
    BY <1>0, <1>1, <2>1 DEF InPlaceOrder, Nothing, Places
  <2>3. readback' = [readback EXCEPT ![k - 1] = Marker(k - 1)]
    BY <2>1, <2>2 DEF Copy
  <2>4. ~Landed(k - 1)
    <3>1. (k - 1) + 1 = k
      BY <1>0
    <3>2. QED
      BY <2>1, <3>1 DEF LandedIsRan
  <2>5. /\ readback'[k - 1] = Marker(k - 1) /\ readback'[k - 1] # readback[k - 1]
        /\ \A p \in Places : p # k - 1 => readback'[p] = readback[p]
    BY <1>a, <2>1, <2>3, <2>4 DEF Landed
  <2>6. \A p \in Places : p # k - 1 => (p + 1 \in ran' <=> p + 1 \in ran)
    BY <1>0 DEF Places
  <2>7. (k - 1) + 1 \in ran'
    BY <1>0
  <2>8. LandedIsRan'
    BY <2>5, <2>6, <2>7 DEF LandedIsRan, Landed, Marker
  <2>9. QED
    BY <2>1, <2>5, <2>8
<1>2. CASE ~(k <= Submissions)
  <2>1. submitted[k].kind = "signal"
    BY <1>2 DEF InPlaceOrder, Signalling
  <2>2. readback' = readback
    BY <2>1 DEF Complete
  <2>3. \A p \in Places : p + 1 \in ran' <=> p + 1 \in ran
    BY <1>0, <1>2 DEF Places
  <2>4. QED
    BY <1>2, <2>2, <2>3 DEF LandedIsRan, Landed
<1>3. QED
  BY <1>1, <1>2

(* An orderly queue lands a first part of the places. *)
LEMMA LandsInOrder ==
  ASSUME TimingThread, RanInOrder, LandedIsRan, ~overtaken,
         NEW p \in Places, NEW q \in Places, p < q, Landed(q)
  PROVE  Landed(p)
<1>0. /\ DeviceTypeOK /\ Submissions \in Nat /\ ran \subseteq DOMAIN submitted
      /\ DOMAIN submitted = 1 .. Len(submitted) /\ Len(submitted) \in Nat
  BY QueueKinds, SubmissionsAssumption DEF TimingThread, TimingTypeOK, DeviceTypeOK
<1>1. q + 1 \in ran /\ q + 1 \in DOMAIN submitted
  BY <1>0 DEF LandedIsRan
<1>2. p + 1 \in DOMAIN submitted /\ p + 1 < q + 1
  BY <1>0, <1>1 DEF Places
<1>3. p + 1 \in ran
  BY <1>1, <1>2 DEF RanInOrder
<1>4. QED
  BY <1>3 DEF LandedIsRan

-----------------------------------------------------------------------------
(* What the timing probe has seen. *)

Seen == SeenLanded /\ NoneMissed /\ SeenInOrder /\ FlagMeansReorder

LEMMA LookKeepsSeen ==
  ASSUME TimingThread, RanInOrder, LandedIsRan, Seen, timing_look
  PROVE  Seen'
<1> USE SubmissionsAssumption DEF Seen
<1>0. /\ i \in Places /\ i' = i + 1 /\ pc = "look" /\ pc' = "look"
      /\ UNCHANGED <<readback, overtaken, slipped>>
      /\ resolved \in [Places -> BOOLEAN] /\ last_resolved_index \in Places \cup {-1}
  BY DEF timing_look, TimingThread, TimingTypeOK, CpuTypeOK, Places, deviceVars
<1>1. \A p \in Places : Landed(p)' <=> Landed(p)
  BY <1>0 DEF Landed, Marker
<1>2. CASE Fresh(i)
  <2>1. /\ Landed(i) /\ ~resolved[i]
        /\ resolved' = [resolved EXCEPT ![i] = TRUE]
        /\ out_of_order' = (out_of_order \/ i < last_resolved_index)
        /\ last_resolved_index' = IF i > last_resolved_index THEN i ELSE last_resolved_index
    BY <1>2 DEF Fresh, timing_look
  <2>2. SeenLanded'
    BY <1>0, <1>1, <2>1 DEF SeenLanded
  <2>3. NoneMissed'
    BY <1>0, <1>1, <2>1 DEF NoneMissed, Places
  <2>4. ~overtaken /\ ~slipped => \A p \in Places : p < i => resolved[p]
    BY <1>0, <2>1, LandsInOrder DEF NoneMissed
  <2>5. SeenInOrder'
    <3>1. ASSUME ~overtaken, ~slipped, NEW p \in Places, NEW q \in Places, p < q, resolved'[q]
          PROVE  resolved'[p]
      <4>1. CASE q = i
        BY <1>0, <2>1, <2>4, <3>1, <4>1
      <4>2. CASE q # i
        BY <1>0, <2>1, <3>1, <4>2 DEF SeenInOrder
      <4>3. QED
        BY <4>1, <4>2
    <3>2. QED
      BY <1>0, <3>1 DEF SeenInOrder
  <2>6. FlagMeansReorder'
    <3>1. ASSUME ~overtaken, ~slipped PROVE ~(i < last_resolved_index)
      <4>1. ASSUME i < last_resolved_index PROVE FALSE
        <5>1. last_resolved_index # -1 /\ last_resolved_index \in Places
          BY <1>0, <4>1 DEF Places
        <5>2. resolved[last_resolved_index]
          BY <5>1 DEF SeenLanded
        <5>3. QED
          BY <1>0, <2>1, <3>1, <4>1, <5>1, <5>2 DEF SeenInOrder
      <4>2. QED
        BY <4>1
    <3>2. QED
      BY <1>0, <2>1, <3>1 DEF FlagMeansReorder
  <2>7. QED
    BY <2>2, <2>3, <2>5, <2>6
<1>3. CASE ~Fresh(i)
  <2>1. UNCHANGED <<resolved, out_of_order, last_resolved_index>>
    BY <1>3 DEF timing_look
  <2>2. NoneMissed'
    BY <1>0, <1>1, <1>3, <2>1 DEF NoneMissed, Fresh, Places
  <2>3. QED
    BY <1>0, <1>1, <2>1, <2>2 DEF SeenLanded, SeenInOrder, FlagMeansReorder
<1>4. QED
  BY <1>2, <1>3

LEMMA TimingCpuKeepsSeen ==
  ASSUME TimingThread, RanInOrder, LandedIsRan, Seen, TimingCpu
  PROVE  Seen'
<1>1. CASE timing_look
  BY <1>1, LookKeepsSeen
<1>2. CASE ~timing_look
  <2>1. /\ UNCHANGED <<readback, overtaken, slipped>>
        /\ UNCHANGED <<resolved, last_resolved_index, out_of_order>>
    BY <1>2, TimingCpuFrame
  <2>2. pc' = "look" => i' = 0
    BY <1>2 DEF TimingCpu, timing_issue, timing_issued, timing_scan, timing_all_done,
      timing_budget_over, timing_drain, Drain, timing_wait, Waiting, AskCompleted, ArmEvent, Wake,
      WaitValue, Goto, TimingThread, TimingProgress, Asking
  <2>3. NoneMissed'
    BY <2>2 DEF NoneMissed, Places
  <2>4. QED
    BY <2>1, <2>3 DEF Seen, SeenLanded, SeenInOrder, FlagMeansReorder, Landed, Marker
<1>3. QED
  BY <1>1, <1>2

LEMMA TimingGpuKeepsSeen ==
  ASSUME TimingThread, LandedIsRan, Seen, NEW k \in DOMAIN submitted, Runs(k), UNCHANGED cpuVars,
         UNCHANGED <<resolved, last_resolved_index, out_of_order>>,
         slipped' = (slipped \/ (pc = "look" /\ \E p \in 0 .. i - 1 : readback'[p] # readback[p]))
  PROVE  Seen'
<1> USE DEF Seen
<1>0. /\ DeviceTypeOK /\ i \in 0 .. Submissions /\ Submissions \in Nat /\ slipped \in BOOLEAN
      /\ k \in Nat /\ last_resolved_index \in Places \cup {-1}
      /\ UNCHANGED <<pc, i>>
  BY QueueKinds, SubmissionsAssumption DEF TimingThread, TimingTypeOK, CpuTypeOK, cpuVars
<1>1. \A p \in Places : Landed(p) => Landed(p)'
  BY OneLands DEF LandedIsRan, Runs
<1>2. SeenLanded'
  BY <1>1 DEF SeenLanded
<1>3. ASSUME ~slipped', pc = "look", NEW q \in Places, q < i, Landed(q)'
      PROVE  resolved[q]
  <2>1. ~slipped /\ q \in 0 .. i - 1
    BY <1>0, <1>3 DEF Places
  <2>2. readback'[q] = readback[q]
    BY <1>3, <2>1
  <2>3. Landed(q)
    BY <1>3, <2>2 DEF Landed, Marker
  <2>4. QED
    BY <1>3, <2>1, <2>3 DEF NoneMissed
<1>4. NoneMissed'
  BY <1>0, <1>3 DEF NoneMissed
<1>5. (overtaken => overtaken') /\ (slipped => slipped')
  BY <1>0 DEF Runs
<1>6. SeenInOrder' /\ FlagMeansReorder'
  BY <1>5 DEF SeenInOrder, FlagMeansReorder
<1>7. QED
  BY <1>2, <1>4, <1>6

-----------------------------------------------------------------------------
(* The timing probe's invariant. *)

LEMMA TimingInvInit ==
  ASSUME TimingInit
  PROVE  TimingInv
<1> USE SubmissionsAssumption DEF TimingInit, DeviceInit, CpuInit
<1>1. submitted \in Seq(Operations) /\ DOMAIN submitted = {} /\ Len(submitted) = 0
  BY EmptySeq DEF Operations
<1>2. \A p \in Places : Marker(p) \in Markers /\ Marker(p) # 0
  BY DEF Places, Markers, Marker
<1>3. TimingTypeOK
  <2>1. upload \in [Places -> Markers \cup {0}] /\ readback \in [Places -> Markers \cup {0}]
    BY <1>2
  <2>2. recorded \in [Lists -> Places \cup {Nothing}]
    BY DEF Lists
  <2>3. DeviceTypeOK
    BY <1>1, <2>1, <2>2 DEF DeviceTypeOK, Operations
  <2>4. CpuTypeOK
    BY DEF CpuTypeOK
  <2>5. resolved \in [Places -> BOOLEAN] /\ last_resolved_index \in Places \cup {-1}
    OBVIOUS
  <2>6. QED
    BY <2>3, <2>4, <2>5 DEF TimingTypeOK
<1>4. TimingProgress /\ InPlaceOrder /\ SignalsRise /\ EventOwned /\ RanInOrder
  BY <1>1 DEF TimingProgress, Draining, Asking, InPlaceOrder, SignalsRise, EventOwned, RanInOrder
<1>5. LandedIsRan /\ SeenLanded /\ NoneMissed /\ SeenInOrder /\ FlagMeansReorder
  BY <1>2 DEF LandedIsRan, Landed, SeenLanded, NoneMissed, SeenInOrder, FlagMeansReorder
<1>6. QED
  BY <1>3, <1>4, <1>5 DEF TimingInv, TimingThread

LEMMA TimingCpuKeepsInv ==
  ASSUME TimingInv, TimingCpu
  PROVE  TimingInv'
<1> USE DEF TimingInv, Seen
<1>1. TimingThread' /\ Seen'
  BY TimingCpuKeepsThread, TimingCpuKeepsSeen
<1>2. UNCHANGED <<readback, ran, overtaken>>
  BY TimingCpuFrame
<1>3. LandedIsRan'
  BY <1>2 DEF LandedIsRan, Landed, Marker
<1>4. RanInOrder'
  <2>1. submitted' \in Seq(Operations)
    BY <1>1 DEF TimingThread, TimingTypeOK, DeviceTypeOK, Operations
  <2>2. DOMAIN submitted' = 1 .. Len(submitted') /\ Len(submitted') \in Nat
    BY <2>1, LenProperties
  <2>3. /\ ran \subseteq DOMAIN submitted
        /\ DOMAIN submitted = 1 .. Len(submitted) /\ Len(submitted) \in Nat
    BY QueueKinds DEF TimingThread, TimingTypeOK, DeviceTypeOK
  <2>4. QED
    BY <1>2, <2>2, <2>3 DEF RanInOrder
<1>5. QED
  BY <1>1, <1>3, <1>4

LEMMA TimingGpuKeepsInv ==
  ASSUME TimingInv, TimingGpu
  PROVE  TimingInv'
<1> USE DEF TimingInv, Seen
<1>1. PICK k \in DOMAIN submitted :
           /\ Runs(k)
           /\ UNCHANGED cpuVars /\ UNCHANGED <<resolved, last_resolved_index, out_of_order>>
           /\ slipped' = (slipped \/ (pc = "look" /\ \E p \in 0 .. i - 1 : readback'[p] # readback[p]))
  BY TimingGpuStep
<1>2. slipped' \in BOOLEAN
  BY <1>1 DEF TimingThread, TimingTypeOK
<1>3. TimingThread' /\ RanInOrder'
  BY <1>1, <1>2, TimingGpuKeepsThread
<1>4. LandedIsRan'
  BY <1>1, OneLands
<1>5. Seen'
  BY <1>1, TimingGpuKeepsSeen
<1>6. QED
  BY <1>3, <1>4, <1>5

LEMMA TimingStutter ==
  ASSUME TimingInv, UNCHANGED TimingVars
  PROVE  TimingInv'
<1>1. UNCHANGED <<deviceVars, cpuVars, timingVars>>
  BY DEF TimingVars, vars
<1>2. TimingThread'
  BY <1>1 DEF TimingInv, TimingThread, TimingTypeOK, DeviceTypeOK, CpuTypeOK, TimingProgress,
    InPlaceOrder, SignalsRise, EventOwned, deviceVars, cpuVars, timingVars
<1>3. RanInOrder' /\ LandedIsRan' /\ SeenLanded' /\ NoneMissed' /\ SeenInOrder' /\ FlagMeansReorder'
  BY <1>1 DEF TimingInv, RanInOrder, LandedIsRan, SeenLanded, NoneMissed, SeenInOrder,
    FlagMeansReorder, Landed, Marker, deviceVars, cpuVars, timingVars
<1>4. QED
  BY <1>2, <1>3 DEF TimingInv

(* What holds in every reachable state of the timing probe. *)
THEOREM TimingInvariant == TimingSpec => []TimingInv
<1>1. TimingInit => TimingInv
  BY TimingInvInit
<1>2. TimingInv /\ [TimingCpu \/ TimingGpu]_TimingVars => TimingInv'
  BY TimingCpuKeepsInv, TimingGpuKeepsInv, TimingStutter
<1>3. QED
  BY <1>1, <1>2, PTL DEF TimingSpec

(* The flag of submission_timing_probe.c, for any number of submissions: a later
   copy seen before an earlier one means that the queue broke its order, or that
   a copy landed behind the scan that was going on. *)
THEOREM TimingFlagRight == TimingSpec => []FlagMeansReorder
<1>1. TimingInv => FlagMeansReorder
  BY DEF TimingInv
<1>2. QED
  BY <1>1, TimingInvariant, PTL

-----------------------------------------------------------------------------
(* The coherency probe's thread. *)

LEMMA CoherencyCpuKeepsThread ==
  ASSUME CoherencyThread, CoherencyCpu
  PROVE  CoherencyThread'
<1> USE SubmissionsAssumption DEF CoherencyThread
<1>0. /\ Submissions \in Nat /\ completed \in Nat /\ mismatches \in Nat
      /\ i \in 0 .. Submissions /\ value \in 0 .. Submissions /\ target \in Nat
  BY DEF DeviceTypeOK, CpuTypeOK
<1>1. CASE coherency_write \/ coherency_reset \/ coherency_record
  <2>1. /\ pc \in {"write", "reset", "record"} /\ pc' \in Submitting /\ pc' # "signal"
        /\ (pc = "write" => i < Submissions)
        /\ UNCHANGED <<i, value, target, resume, mismatches>>
        /\ UNCHANGED <<submitted, ran, completed, armed, signalled, overtaken, readback>>
    BY <1>1 DEF coherency_write, coherency_reset, coherency_record, Goto, WriteUpload, Record, Submitting
  <2>2. DeviceTypeOK'
    <3>1. 0 \in Places /\ 0 \in Places \cup {Nothing} /\ Nothing \in Places \cup {Nothing}
      BY DEF Places
    <3>2. pc = "write" => Marker(i) \in Markers
      BY <1>0, <2>1 DEF Marker, Markers
    <3>3. upload' \in [Places -> Markers \cup {0}]
      BY <1>1, <3>2 DEF coherency_write, coherency_reset, coherency_record, WriteUpload, Record, DeviceTypeOK
    <3>4. recorded' \in [Lists -> Places \cup {Nothing}]
      BY <1>1, <3>1 DEF coherency_write, coherency_reset, coherency_record, WriteUpload, Record, DeviceTypeOK
    <3>5. QED
      BY <2>1, <3>3, <3>4 DEF DeviceTypeOK
  <2>3. CpuTypeOK' /\ CoherencyProgress'
    BY <2>1 DEF CpuTypeOK, CoherencyProgress, Submitting, Looking, Asking
  <2>4. SignalsRise' /\ EventOwned'
    BY <2>1 DEF SignalsRise, EventOwned, Submitting
  <2>5. QED
    BY <2>2, <2>3, <2>4
<1>2. CASE coherency_execute
  <2>1. /\ pc = "execute" /\ pc' = "signal" /\ UNCHANGED <<i, value, target, resume, mismatches>>
        /\ Enqueue(Execution(0)) /\ Execution(0) \in Operations
    BY <1>2 DEF coherency_execute, Goto, Operations, Execution, Lists, Places
  <2>2. /\ DeviceTypeOK' /\ UNCHANGED <<ran, completed, armed, signalled>>
        /\ DOMAIN submitted = 1 .. Len(submitted) /\ Len(submitted) \in Nat
        /\ DOMAIN submitted' = 1 .. Len(submitted) + 1
        /\ \A k \in DOMAIN submitted : submitted'[k] = submitted[k]
        /\ submitted'[Len(submitted) + 1] = Execution(0)
    BY <2>1, Enqueued
  <2>3. SignalsRise'
    <3>1. submitted'[Len(submitted) + 1].kind = "execute"
      BY <2>2 DEF Execution
    <3>2. \A k \in DOMAIN submitted' : submitted'[k].kind = "signal" =>
            k \in DOMAIN submitted /\ submitted'[k] = submitted[k]
      BY <2>2, <3>1
    <3>3. QED
      BY <2>1, <2>2, <3>2 DEF SignalsRise
  <2>4. CpuTypeOK' /\ CoherencyProgress' /\ EventOwned'
    BY <2>1, <2>2 DEF CpuTypeOK, CoherencyProgress, EventOwned, Submitting, Looking, Asking
  <2>5. QED
    BY <2>2, <2>3, <2>4
<1>3. CASE wait_for_queue
  <2>1. /\ pc = "signal" /\ pc' = "ask" /\ value' = value + 1 /\ target' = value + 1
        /\ resume' = "compare" /\ UNCHANGED <<i, mismatches>> /\ value = i /\ i < Submissions
        /\ Enqueue(Signalling(value + 1)) /\ Signalling(value + 1) \in Operations
    BY <1>0, <1>3 DEF wait_for_queue, WaitValue, Operations, Signalling, CoherencyProgress, Submitting,
      Looking, Asking
  <2>2. /\ DeviceTypeOK' /\ UNCHANGED <<ran, completed, armed, signalled>>
        /\ DOMAIN submitted = 1 .. Len(submitted) /\ Len(submitted) \in Nat
        /\ DOMAIN submitted' = 1 .. Len(submitted) + 1
        /\ \A k \in DOMAIN submitted : submitted'[k] = submitted[k]
        /\ submitted'[Len(submitted) + 1] = Signalling(value + 1)
        /\ Len(submitted) + 1 \notin ran
    BY <2>1, Enqueued
  <2>3. SignalsRise'
    <3> DEFINE last == Len(submitted) + 1
    <3>1. submitted'[last].of = value + 1 /\ last \in Nat
      BY <2>2 DEF Signalling
    <3>2. \A k \in DOMAIN submitted' :
            k = last \/ (k \in DOMAIN submitted /\ submitted'[k] = submitted[k] /\ k < last)
      BY <2>2
    <3>3. \A k \in DOMAIN submitted : submitted[k].kind = "signal" => submitted[k].of \in 1 .. value
      BY DEF SignalsRise
    <3>4. ASSUME NEW k \in DOMAIN submitted', submitted'[k].kind = "signal"
          PROVE  submitted'[k].of \in 1 .. value' /\ (k \notin ran' => submitted'[k].of > completed')
      BY <1>0, <2>1, <2>2, <3>1, <3>2, <3>4 DEF SignalsRise
    <3>5. ASSUME NEW j \in DOMAIN submitted', NEW k \in DOMAIN submitted', j < k,
                 submitted'[j].kind = "signal", submitted'[k].kind = "signal"
          PROVE  submitted'[j].of < submitted'[k].of
      <4>1. j \in DOMAIN submitted /\ submitted'[j] = submitted[j]
        BY <2>2, <3>2, <3>5
      <4>2. CASE k = last
        BY <1>0, <3>1, <3>3, <3>5, <4>1, <4>2
      <4>3. CASE k \in DOMAIN submitted /\ submitted'[k] = submitted[k]
        BY <3>5, <4>1, <4>3 DEF SignalsRise
      <4>4. QED
        BY <3>2, <4>2, <4>3
    <3>6. completed' <= value'
      BY <1>0, <2>1, <2>2 DEF SignalsRise
    <3>7. QED
      BY <3>4, <3>5, <3>6 DEF SignalsRise
  <2>4. CpuTypeOK' /\ CoherencyProgress' /\ EventOwned'
    BY <1>0, <2>1, <2>2 DEF CpuTypeOK, CoherencyProgress, EventOwned, Submitting, Looking, Asking
  <2>5. QED
    BY <2>2, <2>3, <2>4
<1>4. CASE coherency_compare
  <2>1. /\ pc = "compare" /\ pc' = "write" /\ i' = i + 1 /\ i < Submissions /\ value = i + 1
        /\ mismatches' \in {mismatches, mismatches + 1} /\ mismatches <= i
        /\ UNCHANGED <<deviceVars, value, target, resume>>
    BY <1>4 DEF coherency_compare, CoherencyProgress, Submitting, Looking, Asking
  <2>2. DeviceTypeOK' /\ SignalsRise' /\ EventOwned'
    BY <2>1 DEF DeviceTypeOK, SignalsRise, EventOwned, deviceVars
  <2>3. CpuTypeOK' /\ CoherencyProgress'
    BY <1>0, <2>1 DEF CpuTypeOK, CoherencyProgress, Submitting, Looking, Asking
  <2>4. QED
    BY <2>2, <2>3
<1>5. CASE coherency_end
  BY <1>5 DEF coherency_end, Goto, deviceVars, DeviceTypeOK, CpuTypeOK, CoherencyProgress, Submitting,
    Looking, Asking, SignalsRise, EventOwned
<1>6. CASE Waiting
  <2>1. /\ DeviceTypeOK' /\ EventOwned'
        /\ UNCHANGED <<submitted, ran, completed, i, value, target, resume, mismatches>>
        /\ pc \in Asking /\ pc' \in {"arm", "wait", resume}
    BY <1>0, <1>6, Waits
  <2>2. CpuTypeOK' /\ CoherencyProgress' /\ SignalsRise'
    BY <2>1 DEF CpuTypeOK, CoherencyProgress, Submitting, Looking, Asking, SignalsRise
  <2>3. QED
    BY <2>1, <2>2
<1>7. CASE check_hr({"write", "reset", "record", "signal", "arm", "compare"})
  <2>1. /\ pc' = "fatal" /\ UNCHANGED <<deviceVars, i, value, target, resume, mismatches>>
        /\ pc \notin {"wait", "fatal"}
    BY <1>7 DEF check_hr, Goto
  <2>2. QED
    BY <2>1 DEF deviceVars, DeviceTypeOK, CpuTypeOK, CoherencyProgress, Submitting, Looking, Asking,
      SignalsRise, EventOwned
<1>8. QED
  BY <1>1, <1>2, <1>3, <1>4, <1>5, <1>6, <1>7 DEF CoherencyCpu

-----------------------------------------------------------------------------
(* The coherency probe's queue. *)

CoherencyQueue ==
  RanInOrder /\ OneList /\ CoherencyIdle /\ PlaceOnItsWay /\ (mismatches > 0 => overtaken)

(* Once the fence has reached the value of its last signal, an orderly queue is
   empty. *)
LEMMA SignalledIsIdle ==
  ASSUME CoherencyThread, OneList, RanInOrder, ~overtaken, pc \in Asking, completed >= target
  PROVE  Pending = {}
<1> DEFINE last == Len(submitted)
<1>0. DeviceTypeOK /\ last \in Nat /\ DOMAIN submitted = 1 .. last /\ completed \in Nat /\ value \in Nat
  BY QueueKinds DEF CoherencyThread, DeviceTypeOK, CpuTypeOK
<1>1. last \in DOMAIN submitted /\ submitted[last].kind = "signal" /\ submitted[last].of = target
  BY DEF OneList, Looking, Signalling, CoherencyThread, CoherencyProgress
<1>2. last \in ran
  <2>1. last \notin ran => submitted[last].of > completed
    BY <1>1 DEF CoherencyThread, SignalsRise
  <2>2. QED
    BY <1>0, <1>1, <2>1 DEF CoherencyThread, CoherencyProgress
<1>3. \A k \in DOMAIN submitted : k = last \/ k < last
  BY <1>0
<1>4. \A k \in DOMAIN submitted : k \in ran
  BY <1>1, <1>2, <1>3 DEF RanInOrder
<1>5. QED
  BY <1>4 DEF Pending

LEMMA CoherencyCpuKeepsQueue ==
  ASSUME CoherencyThread, CoherencyQueue, CoherencyCpu
  PROVE  CoherencyQueue'
<1> USE SubmissionsAssumption DEF CoherencyThread, CoherencyQueue
<1>0. /\ DeviceTypeOK /\ DOMAIN submitted = 1 .. Len(submitted) /\ Len(submitted) \in Nat
      /\ ran \subseteq DOMAIN submitted /\ 0 \in Places /\ 0 \in Lists
      /\ upload \in [Places -> Markers \cup {0}] /\ recorded \in [Lists -> Places \cup {Nothing}]
      /\ i \in Nat /\ value \in Nat /\ target \in Nat /\ mismatches \in Nat
  BY QueueKinds DEF DeviceTypeOK, CpuTypeOK, Places, Lists
<1>1. CASE coherency_write \/ coherency_reset \/ coherency_record
  <2>1. /\ pc \in {"write", "reset", "record"}
        /\ UNCHANGED <<i, mismatches, submitted, ran, overtaken, readback>>
        /\ (pc = "write" => pc' = "reset" /\ upload'[0] = Marker(i))
        /\ (pc = "reset" => pc' = "record" /\ upload' = upload)
        /\ (pc = "record" => pc' = "execute" /\ upload' = upload /\ recorded'[0] = 0)
    BY <1>0, <1>1 DEF coherency_write, coherency_reset, coherency_record, Goto, WriteUpload, Record
  <2>2. RanInOrder' /\ OneList' /\ CoherencyIdle'
    BY <2>1 DEF RanInOrder, OneList, CoherencyIdle, Pending, Looking, Asking
  <2>3. PlaceOnItsWay'
    BY <2>1 DEF PlaceOnItsWay, Marker, Submitting, Looking, Asking
  <2>4. QED
    BY <2>1, <2>2, <2>3
<1>2. CASE coherency_execute
  <2>1. /\ pc = "execute" /\ pc' = "signal" /\ UNCHANGED <<i, value, mismatches>>
        /\ Enqueue(Execution(0)) /\ Execution(0) \in Operations
    BY <1>0, <1>2 DEF coherency_execute, Goto, Operations, Execution
  <2>2. /\ UNCHANGED <<upload, readback, recorded, ran, overtaken>>
        /\ DOMAIN submitted' = 1 .. Len(submitted) + 1
        /\ \A k \in DOMAIN submitted : submitted'[k] = submitted[k]
        /\ submitted'[Len(submitted) + 1] = Execution(0)
        /\ Len(submitted) + 1 \notin ran
    BY <1>0, <2>1, Enqueued
  <2>3. submitted'[Len(submitted) + 1].kind = "execute" /\ submitted'[Len(submitted) + 1].of = 0
    BY <2>2 DEF Execution
  <2>4. OneList'
    BY <1>0, <2>1, <2>2, <2>3 DEF OneList, Looking, Asking
  <2>5. \E k \in DOMAIN submitted' : PendingList(k)'
    <3>1. PICK last \in Nat : last = Len(submitted) + 1
      BY <1>0
    <3>2. last \in DOMAIN submitted' /\ last \notin ran' /\ submitted'[last].kind = "execute"
      BY <1>0, <2>2, <2>3, <3>1
    <3>3. PendingList(last)'
      BY <3>2 DEF PendingList, Pending
    <3>4. QED
      BY <3>2, <3>3
  <2>6. PlaceOnItsWay'
    BY <2>1, <2>2, <2>5 DEF PlaceOnItsWay, Submitting, Looking, Asking, Marker
  <2>7. RanInOrder'
    BY <1>0, <2>2 DEF RanInOrder
  <2>8. QED
    BY <2>1, <2>2, <2>4, <2>6, <2>7 DEF CoherencyIdle
<1>3. CASE wait_for_queue
  <2>1. /\ pc = "signal" /\ pc' = "ask" /\ value' = value + 1 /\ UNCHANGED <<i, mismatches>>
        /\ Enqueue(Signalling(value + 1)) /\ Signalling(value + 1) \in Operations
    BY <1>0, <1>3 DEF wait_for_queue, WaitValue, Operations, Signalling
  <2>2. /\ UNCHANGED <<upload, readback, recorded, ran, overtaken>>
        /\ Len(submitted') = Len(submitted) + 1
        /\ DOMAIN submitted' = 1 .. Len(submitted) + 1
        /\ \A k \in DOMAIN submitted : submitted'[k] = submitted[k]
        /\ submitted'[Len(submitted) + 1] = Signalling(value + 1)
    BY <1>0, <2>1, Enqueued
  <2>3. submitted'[Len(submitted) + 1].kind = "signal"
    BY <2>2 DEF Signalling
  <2>4. OneList'
    BY <1>0, <2>1, <2>2, <2>3 DEF OneList
  <2>5. \A k \in DOMAIN submitted : PendingList(k) => PendingList(k)' /\ k \in DOMAIN submitted'
    BY <1>0, <2>2 DEF PendingList, Pending
  <2>6. PlaceOnItsWay'
    BY <2>1, <2>2, <2>5 DEF PlaceOnItsWay, Submitting, Looking, Asking, Marker
  <2>7. RanInOrder'
    BY <1>0, <2>2 DEF RanInOrder
  <2>8. QED
    BY <2>1, <2>2, <2>4, <2>6, <2>7 DEF CoherencyIdle
<1>4. CASE coherency_compare
  <2>1. /\ pc = "compare" /\ pc' = "write" /\ UNCHANGED deviceVars
        /\ mismatches' = IF readback[0] # Marker(i) THEN mismatches + 1 ELSE mismatches
    BY <1>4 DEF coherency_compare
  <2>2. ~overtaken => Pending = {}
    BY <2>1 DEF CoherencyIdle
  <2>3. ~overtaken => readback[0] = Marker(i)
    BY <2>1, <2>2 DEF PlaceOnItsWay, PendingList, Looking
  <2>4. mismatches' > 0 => overtaken
    BY <1>0, <2>1, <2>3
  <2>5. RanInOrder' /\ OneList' /\ CoherencyIdle' /\ PlaceOnItsWay'
    BY <2>1, <2>2 DEF RanInOrder, OneList, CoherencyIdle, PlaceOnItsWay, Pending, Submitting, Looking,
      Asking, deviceVars
  <2>6. QED
    BY <2>1, <2>4, <2>5 DEF deviceVars
<1>5. CASE coherency_end \/ check_hr({"write", "reset", "record", "signal", "arm", "compare"})
  <2>1. /\ UNCHANGED <<deviceVars, i, mismatches>>
        /\ (pc = "write" /\ pc' = "done") \/ pc' = "fatal"
    BY <1>5 DEF coherency_end, check_hr, Goto
  <2>2. QED
    BY <2>1 DEF RanInOrder, OneList, CoherencyIdle, PlaceOnItsWay, Pending, Submitting, Looking,
      Asking, deviceVars
<1>6. CASE Waiting
  <2>1. /\ UNCHANGED <<upload, readback, recorded, submitted, ran, overtaken>>
        /\ UNCHANGED <<i, value, target, mismatches>>
        /\ pc \in Asking
        /\ pc' = "arm" \/ pc' = "wait" \/ (pc' = resume /\ completed >= target)
    BY <1>0, <1>6, Waits
  <2>2. resume = "compare"
    BY <2>1 DEF CoherencyProgress
  <2>3. pc' \in Looking /\ (pc' = "compare" => completed >= target)
    BY <2>1, <2>2 DEF Looking, Asking
  <2>4. CoherencyIdle'
    BY <2>1, <2>3, SignalledIsIdle DEF CoherencyIdle, Pending, Looking, Asking
  <2>5. RanInOrder' /\ OneList' /\ PlaceOnItsWay'
    BY <2>1, <2>3 DEF RanInOrder, OneList, PlaceOnItsWay, PendingList, Pending, Submitting, Looking,
      Asking, Marker
  <2>6. QED
    BY <2>1, <2>4, <2>5
<1>7. QED
  BY <1>1, <1>2, <1>3, <1>4, <1>5, <1>6 DEF CoherencyCpu

LEMMA CoherencyGpuKeepsInv ==
  ASSUME CoherencyInv, CoherencyGpu
  PROVE  CoherencyInv'
<1> USE SubmissionsAssumption DEF CoherencyInv, CoherencyThread
<1>1. PICK k \in DOMAIN submitted : Runs(k)
  BY GpuRunsOne DEF CoherencyGpu
<1>2. UNCHANGED cpuVars /\ value \in Nat /\ target \in Nat
  BY DEF CoherencyGpu, CpuTypeOK
<1>3. DeviceTypeOK' /\ SignalsRise' /\ EventOwned' /\ RanInOrder'
  BY <1>1, <1>2, RunKeepsTypes, RunKeepsOrder
<1>4. CpuTypeOK' /\ CoherencyProgress' /\ OneList'
  BY <1>1, <1>2 DEF CpuTypeOK, CoherencyProgress, OneList, Runs, cpuVars
<1>5. CoherencyIdle'
  BY <1>1, <1>2 DEF CoherencyIdle, Runs, Pending, cpuVars
<1>6. PlaceOnItsWay'
  <2>1. /\ UNCHANGED <<pc, i, upload, recorded, submitted>> /\ (~overtaken' => ~overtaken)
        /\ \A j : PendingList(j)' <=> PendingList(j) /\ j # k
    BY <1>1, <1>2 DEF Runs, cpuVars, PendingList, Pending
  <2>2. ASSUME ~overtaken', pc \in {"signal"} \cup Looking
        PROVE  readback'[0] = Marker(i) \/ \E j \in DOMAIN submitted : PendingList(j)'
    <3>1. readback[0] = Marker(i) \/ \E j \in DOMAIN submitted : PendingList(j)
      BY <2>1, <2>2 DEF PlaceOnItsWay
    <3>2. CASE submitted[k].kind = "execute" /\ Copy(submitted[k].of)
      <4>1. submitted[k].of = 0 /\ recorded[0] = 0 /\ 0 # Nothing /\ upload[0] = Marker(i) /\ 0 \in Places
        BY <2>2, <3>2 DEF OneList, PlaceOnItsWay, Nothing, Places, Submitting, Looking, Asking
      <4>2. readback'[0] = Marker(i)
        BY <3>2, <4>1 DEF Copy, DeviceTypeOK
      <4>3. QED
        BY <4>2
    <3>3. CASE submitted[k].kind = "signal" /\ Complete(submitted[k].of)
      <4>1. readback' = readback /\ ~PendingList(k)
        BY <3>3 DEF Complete, PendingList
      <4>2. QED
        BY <2>1, <3>1, <4>1
    <3>4. QED
      BY <1>1, <3>2, <3>3 DEF Runs
  <2>3. QED
    BY <2>1, <2>2 DEF PlaceOnItsWay, Marker
<1>7. mismatches' > 0 => overtaken'
  BY <1>1, <1>2 DEF Runs, cpuVars
<1>8. QED
  BY <1>3, <1>4, <1>5, <1>6, <1>7

LEMMA CoherencyInvInit ==
  ASSUME CoherencyInit
  PROVE  CoherencyInv
<1> USE SubmissionsAssumption DEF CoherencyInit, DeviceInit, CpuInit
<1>1. submitted \in Seq(Operations) /\ DOMAIN submitted = {}
  BY EmptySeq DEF Operations
<1>2. DeviceTypeOK /\ CpuTypeOK
  <2>1. upload \in [Places -> Markers \cup {0}] /\ readback \in [Places -> Markers \cup {0}]
    OBVIOUS
  <2>2. recorded \in [Lists -> Places \cup {Nothing}]
    BY DEF Lists
  <2>3. DeviceTypeOK
    BY <1>1, <2>1, <2>2 DEF DeviceTypeOK, Operations
  <2>4. QED
    BY <2>3 DEF CpuTypeOK
<1>3. CoherencyProgress /\ SignalsRise /\ EventOwned
  BY <1>1 DEF CoherencyProgress, SignalsRise, EventOwned, Submitting, Looking, Asking
<1>4. RanInOrder /\ OneList /\ CoherencyIdle /\ PlaceOnItsWay /\ ~(mismatches > 0)
  BY <1>1 DEF RanInOrder, OneList, CoherencyIdle, Pending, PlaceOnItsWay, Submitting, Looking, Asking
<1>5. QED
  BY <1>2, <1>3, <1>4 DEF CoherencyInv, CoherencyThread

LEMMA CoherencyStutter ==
  ASSUME CoherencyInv, UNCHANGED vars
  PROVE  CoherencyInv'
<1>1. CoherencyThread'
  BY DEF CoherencyInv, CoherencyThread, DeviceTypeOK, CpuTypeOK, CoherencyProgress, SignalsRise,
    EventOwned, vars, deviceVars, cpuVars
<1>2. RanInOrder' /\ OneList' /\ CoherencyIdle' /\ PlaceOnItsWay' /\ (mismatches' > 0 => overtaken')
  BY DEF CoherencyInv, RanInOrder, OneList, CoherencyIdle, PlaceOnItsWay, PendingList, Pending, Marker,
    vars, deviceVars, cpuVars
<1>3. QED
  BY <1>1, <1>2 DEF CoherencyInv

(* What holds in every reachable state of the coherency probe. *)
THEOREM CoherencyInvariant == CoherencySpec => []CoherencyInv
<1>1. CoherencyInit => CoherencyInv
  BY CoherencyInvInit
<1>2. CoherencyInv /\ [CoherencyCpu \/ CoherencyGpu]_vars => CoherencyInv'
  <2>1. CoherencyInv /\ CoherencyCpu => CoherencyInv'
    BY CoherencyCpuKeepsThread, CoherencyCpuKeepsQueue DEF CoherencyInv, CoherencyQueue
  <2>2. QED
    BY <2>1, CoherencyGpuKeepsInv, CoherencyStutter
<1>3. QED
  BY <1>1, <1>2, PTL DEF CoherencySpec

-----------------------------------------------------------------------------
(* What the steps of the two probes leave alone, and when they end a wait. *)

LEMMA TimingStepLeavesInFlight ==
  ASSUME TimingInv, TimingCpu \/ TimingGpu
  PROVE  Untouched /\ NotEarly
<1>1. UNCHANGED <<upload, recorded>>
  BY TimingCpuFrame DEF TimingInv, TimingGpu, GpuRuns
<1>2. NotEarly
  <2> SUFFICES ASSUME pc \in {"ask", "wait"}, pc' = resume
               PROVE  completed >= target
    BY DEF NotEarly
  <2>1. resume = "done" /\ DeviceTypeOK /\ target \in Nat /\ EventOwned
    BY DEF TimingInv, TimingThread, TimingProgress, Asking, TimingTypeOK, CpuTypeOK
  <2>2. Waiting
    BY <2>1 DEF TimingCpu, TimingGpu, cpuVars, timing_issue, timing_issued, timing_scan, timing_look,
      timing_all_done, timing_budget_over, timing_drain, Drain, timing_wait
  <2>3. QED
    BY <2>1, <2>2, Waits
<1>3. QED
  BY <1>1, <1>2 DEF Untouched

LEMMA CoherencyStepLeavesInFlight ==
  ASSUME CoherencyInv, CoherencyCpu \/ CoherencyGpu
  PROVE  Untouched /\ NotEarly
<1> USE DEF CoherencyInv, CoherencyThread
<1>0. DeviceTypeOK /\ target \in Nat /\ EventOwned
  BY DEF CpuTypeOK
<1>1. Untouched
  <2>1. CASE coherency_write \/ coherency_reset \/ coherency_record
    <3>1. pc \in {"write", "reset", "record"} /\ UNCHANGED <<submitted, ran, overtaken>>
      BY <2>1 DEF coherency_write, coherency_reset, coherency_record, WriteUpload, Record, Goto
    <3>2. QED
      BY <3>1 DEF CoherencyIdle, Untouched, PendingList
  <2>2. CASE ~(coherency_write \/ coherency_reset \/ coherency_record)
    <3>1. UNCHANGED <<upload, recorded>>
      BY <1>0, <2>2, Waits DEF CoherencyCpu, CoherencyGpu, GpuRuns, coherency_execute, wait_for_queue,
        coherency_compare, coherency_end, check_hr, Enqueue, deviceVars
    <3>2. QED
      BY <3>1 DEF Untouched
  <2>3. QED
    BY <2>1, <2>2
<1>2. NotEarly
  <2> SUFFICES ASSUME pc \in {"ask", "wait"}, pc' = resume
               PROVE  completed >= target
    BY DEF NotEarly
  <2>1. resume = "compare"
    BY DEF CoherencyProgress, Asking
  <2>2. Waiting
    BY <2>1 DEF CoherencyCpu, CoherencyGpu, cpuVars, coherency_write, coherency_reset, coherency_record,
      coherency_execute, wait_for_queue, coherency_compare, coherency_end, check_hr, Goto
  <2>3. QED
    BY <1>0, <2>1, <2>2, Waits
<1>3. QED
  BY <1>1, <1>2

-----------------------------------------------------------------------------
(* The three probes as one system: the one that runs keeps its invariant, and
   the state of the others is as it began. *)

MCInv ==
  \/ probe = "ring" /\ RingInv /\ IdleTiming
  \/ probe = "timing" /\ TimingInv /\ IdleRing
  \/ probe = "coherency" /\ CoherencyInv /\ IdleRing /\ IdleTiming

LEMMA MCInvInit ==
  ASSUME MCInit
  PROVE  MCInv
BY RingInvInit, TimingInvInit, CoherencyInvInit DEF MCInit, MCInv

LEMMA MCInvStep ==
  ASSUME MCInv, [MCNext]_mcVars
  PROVE  MCInv' /\ (Untouched \/ UNCHANGED deviceVars) /\ (NotEarly \/ UNCHANGED vars)
<1>1. CASE UNCHANGED mcVars
  <2>1. UNCHANGED vars /\ UNCHANGED ringVars /\ UNCHANGED timingVars /\ UNCHANGED probe
    BY <1>1 DEF mcVars
  <2>2. UNCHANGED RingVars /\ UNCHANGED TimingVars /\ UNCHANGED deviceVars
    BY <2>1 DEF RingVars, TimingVars, vars
  <2>3. (IdleRing => IdleRing') /\ (IdleTiming => IdleTiming')
    BY <2>1 DEF IdleRing, IdleTiming, ringVars, timingVars
  <2>4. CASE probe = "ring"
    BY <2>1, <2>2, <2>3, <2>4, RingInvStep DEF MCInv
  <2>5. CASE probe = "timing"
    BY <2>1, <2>2, <2>3, <2>5, TimingStutter DEF MCInv
  <2>6. CASE probe = "coherency"
    BY <2>1, <2>2, <2>3, <2>6, CoherencyStutter DEF MCInv
  <2>7. QED
    BY <2>4, <2>5, <2>6 DEF MCInv
<1>2. CASE probe = "ring" /\ (RingCpu \/ RingGpu) /\ UNCHANGED timingVars /\ UNCHANGED probe
  <2>1. RingInv /\ IdleTiming
    BY <1>2 DEF MCInv
  <2>2. RingInv' /\ (Untouched \/ UNCHANGED deviceVars) /\ NotEarly
    BY <1>2, <2>1, RingInvStep, RingStepLeavesInFlight, RingStepWaitsFully
  <2>3. IdleTiming'
    BY <1>2, <2>1 DEF IdleTiming, timingVars
  <2>4. QED
    BY <1>2, <2>2, <2>3 DEF MCInv
<1>3. CASE probe = "timing" /\ (TimingCpu \/ TimingGpu) /\ UNCHANGED ringVars /\ UNCHANGED probe
  <2>1. TimingInv /\ IdleRing
    BY <1>3 DEF MCInv
  <2>2. TimingInv' /\ Untouched /\ NotEarly
    BY <1>3, <2>1, TimingCpuKeepsInv, TimingGpuKeepsInv, TimingStepLeavesInFlight
  <2>3. IdleRing'
    BY <1>3, <2>1 DEF IdleRing, ringVars
  <2>4. QED
    BY <1>3, <2>2, <2>3 DEF MCInv
<1>4. CASE /\ probe = "coherency" /\ (CoherencyCpu \/ CoherencyGpu)
           /\ UNCHANGED ringVars /\ UNCHANGED timingVars /\ UNCHANGED probe
  <2>1. CoherencyInv /\ IdleRing /\ IdleTiming
    BY <1>4 DEF MCInv
  <2>2. CoherencyInv'
    BY <1>4, <2>1, CoherencyCpuKeepsThread, CoherencyCpuKeepsQueue, CoherencyGpuKeepsInv
      DEF CoherencyInv, CoherencyQueue
  <2>3. Untouched /\ NotEarly
    BY <1>4, <2>1, CoherencyStepLeavesInFlight
  <2>4. IdleRing' /\ IdleTiming'
    BY <1>4, <2>1 DEF IdleRing, IdleTiming, ringVars, timingVars
  <2>5. QED
    BY <1>4, <2>2, <2>3, <2>4 DEF MCInv
<1>5. QED
  BY <1>1, <1>2, <1>3, <1>4 DEF MCNext, Ring, Timing, Coherency, Gpu, Finished

LEMMA MCInvHolds == MCFairSpec => []MCInv
<1>1. MCInit => MCInv
  BY MCInvInit
<1>2. MCInv /\ [MCNext]_mcVars => MCInv'
  BY MCInvStep
<1>3. QED
  BY <1>1, <1>2, PTL DEF MCFairSpec

(* Every variable of the probe that runs keeps its type, for any number of
   slots and submissions: its loop counter never leaves the arrays, and it waits
   for no fence value it has not given out. *)
THEOREM ProbesTypeCorrect == MCFairSpec => []TypeOK
<1>1. MCInv => TypeOK
  <2>1. IdleTiming => resolved \in [Places -> BOOLEAN] /\ last_resolved_index \in Places \cup {-1}
                      /\ out_of_order \in BOOLEAN /\ slipped \in BOOLEAN
    BY DEF IdleTiming
  <2>2. ASSUME IdleRing, CpuTypeOK
        PROVE  ring_values \in [0 .. Slots - 1 -> 0 .. value] /\ gate_failures \in 0 .. Submissions
    BY <2>2, SubmissionsAssumption DEF IdleRing, CpuTypeOK
  <2>3. QED
    BY <2>1, <2>2 DEF MCInv, TypeOK, RingInv, Thread, RingTypeOK, TimingInv, TimingThread, TimingTypeOK,
      CoherencyInv, CoherencyThread
<1>2. QED
  BY <1>1, MCInvHolds, PTL

(* No probe blames the stack for a queue that kept its order. *)
THEOREM ProbesBlameRightly == MCFairSpec => []FailBlamesStack
<1>1. MCInv => FailBlamesStack
  BY DEF MCInv, RingInv, TimingInv, TimingThread, TimingProgress, CoherencyInv, IdleRing, FailBlamesStack
<1>2. QED
  BY <1>1, MCInvHolds, PTL

(* The timing probe's flag never says more than it should, whatever runs. *)
THEOREM ProbesFlagRight == MCFairSpec => []FlagMeansReorder
<1>1. MCInv => FlagMeansReorder
  BY DEF MCInv, TimingInv, IdleTiming, FlagMeansReorder
<1>2. QED
  BY <1>1, MCInvHolds, PTL

(* Whatever a probe releases at its end, an orderly queue is done with. *)
THEOREM ProbesReleaseIdle == MCFairSpec => []IdleAtRelease
<1>1. RingInv => IdleAtRelease
  BY DEF RingInv, Queue, QueueIdle, Closing, IdleAtRelease
<1>2. TimingInv => IdleAtRelease
  <2> SUFFICES ASSUME TimingInv, pc = "done", ~overtaken, NEW k \in DOMAIN submitted
               PROVE  k \in ran
    BY DEF IdleAtRelease, Pending
  <2>1. /\ DOMAIN submitted = 1 .. Submissions + 1 /\ Submissions \in Nat
        /\ Submissions + 1 \in ran
    BY QueueKinds, SubmissionsAssumption
      DEF TimingInv, TimingThread, TimingTypeOK, TimingProgress, InPlaceOrder, Draining
  <2>2. k = Submissions + 1 \/ (k < Submissions + 1 /\ Submissions + 1 \in DOMAIN submitted)
    BY <2>1
  <2>3. QED
    BY <2>1, <2>2 DEF TimingInv, RanInOrder
<1>3. CoherencyInv => IdleAtRelease
  BY DEF CoherencyInv, CoherencyIdle, IdleAtRelease
<1>4. QED
  BY <1>1, <1>2, <1>3, MCInvHolds, PTL DEF MCInv

(* While the queue keeps its order, no probe resets a list, or rewrites what it
   copies, before the GPU has run it. *)
THEOREM ProbesLeaveInFlight == MCFairSpec => InFlightUntouched
<1>1. MCInv /\ [MCNext]_mcVars => [Untouched]_deviceVars
  BY MCInvStep
<1>2. QED
  BY <1>1, MCInvHolds, PTL DEF MCFairSpec, InFlightUntouched, Untouched

(* No probe's wait returns before the fence has reached the value waited for. *)
THEOREM ProbesWaitFully == MCFairSpec => NoEarlyReturn
<1>1. MCInv /\ [MCNext]_mcVars => [NotEarly]_vars
  BY MCInvStep
<1>2. QED
  BY <1>1, MCInvHolds, PTL DEF MCFairSpec, NoEarlyReturn, NotEarly
=============================================================================
