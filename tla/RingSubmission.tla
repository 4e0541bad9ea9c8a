--------------------------- MODULE RingSubmission ---------------------------
(***************************************************************************)
(* faithful_submission_probe.c: a ring of command lists and allocators     *)
(* reused in turn, where a submission waits only for the one that used its *)
(* slot before, and a flush at the end after which every copy is compared. *)
(***************************************************************************)
EXTENDS FenceWait, SnapshotGate, FiniteSets

CONSTANT Slots  \* RING_SLOTS

ASSUME SlotsAssumption == Slots \in 1 .. Submissions

VARIABLES
  ring_values,   \* per slot: the fence value of its last submission, or 0
  gate_failures

ringVars == <<ring_values, gate_failures>>

(* main has filled the upload buffer, and ring_create has closed the lists. *)
RingInit ==
  /\ DeviceInit
  /\ upload = [p \in Places |-> Marker(p)]
  /\ recorded = [l \in Lists |-> Nothing]
  /\ CpuInit("reserve")
  /\ ring_values = [s \in 0 .. Slots - 1 |-> 0]
  /\ gate_failures = 0

Slot == value % Slots

-----------------------------------------------------------------------------
(* Plausible wrong versions of the code, for the mutation runs. *)

NeverBusy(slot) == FALSE
NeverTimesOut == FALSE  \* INFINITE for 30 seconds
RememberValueBefore(slot) == ring_values' = [ring_values EXCEPT ![slot] = value]

-----------------------------------------------------------------------------
Busy(slot) == ring_values[slot] # 0

Remember(slot) == ring_values' = [ring_values EXCEPT ![slot] = value + 1]

(* ring_submit, from its first line to its return. *)
ring_submit_reserve ==
  /\ pc = "reserve"
  /\ i < Submissions
  /\ IF Busy(Slot)
       THEN WaitValue(ring_values[Slot], "reset") /\ UNCHANGED <<i, value, mismatches>>
       ELSE Goto("reset")
  /\ UNCHANGED <<deviceVars, ringVars>>

ring_submit_reset ==
  /\ pc = "reset"
  /\ Record(Slot, Nothing)
  /\ Goto("record")
  /\ UNCHANGED ringVars

ring_submit_record ==
  /\ pc = "record"
  /\ Record(Slot, i)
  /\ Goto("execute")
  /\ UNCHANGED ringVars

(* The program has one thread, which records and checks. *)
ring_submit_execute ==
  /\ pc = "execute"
  /\ Enqueue(Execution(Slot))
  /\ gate_failures' =
       IF snapshot_batch_match("main", "main", Slot, <<Slot>>) THEN gate_failures ELSE gate_failures + 1
  /\ Goto("signal")
  /\ UNCHANGED ring_values

ring_submit_signal ==
  /\ pc = "signal"
  /\ Enqueue(Signalling(value + 1))
  /\ value' = value + 1
  /\ Remember(Slot)
  /\ i' = i + 1
  /\ pc' = "reserve"
  /\ UNCHANGED <<target, resume, mismatches, gate_failures>>

ring_flush ==
  /\ pc = "reserve"
  /\ i = Submissions
  /\ IF value # 0
       THEN WaitValue(value, "compare") /\ UNCHANGED <<i, value, mismatches>>
       ELSE Goto("compare")
  /\ UNCHANGED <<deviceVars, ringVars>>

(* After the flush the loop's counter runs over the places read back. *)
ring_compare ==
  /\ pc = "compare"
  /\ mismatches' = Cardinality({p \in Places : readback[p] # Marker(p)})
  /\ pc' = "done"
  /\ UNCHANGED <<deviceVars, ringVars, i, value, target, resume>>

(* WaitForSingleObject gives up after 30 seconds. *)
ring_wait_timeout ==
  /\ pc = "wait"
  /\ Goto("fatal")
  /\ UNCHANGED <<deviceVars, ringVars>>

(* What is left of ring_wait_value, and the checked calls. *)
ring_wait_value == Waiting /\ UNCHANGED ringVars
ring_check_hr ==
  check_hr({"arm", "reset", "record", "signal", "compare"}) /\ UNCHANGED ringVars

RingCpu ==
  \/ ring_submit_reserve
  \/ ring_submit_reset
  \/ ring_submit_record
  \/ ring_submit_execute
  \/ ring_submit_signal
  \/ ring_flush
  \/ ring_compare
  \/ ring_wait_value
  \/ ring_wait_timeout
  \/ ring_check_hr

RingGpu == GpuRuns /\ UNCHANGED <<cpuVars, ringVars>>

RingVars == <<vars, ringVars>>

RingSpec == RingInit /\ [][RingCpu \/ RingGpu]_RingVars

-----------------------------------------------------------------------------
RingTypeOK ==
  /\ DeviceTypeOK
  /\ CpuTypeOK
  /\ ring_values \in [0 .. Slots - 1 -> 0 .. value]
  /\ gate_failures \in 0 .. Submissions

(* The probe blames the stack only when it is to blame: while the queue keeps
   its order, waiting for reused slots alone loses no copy. *)
FailBlamesStack ==
  /\ mismatches > 0 => overtaken
  /\ gate_failures = 0

(* Batch(m, n): n submissions of the ring in a row, after the first m; the ring
   submits a list and a signal in turn. *)
Batch(m, n) == [k \in 1 .. n |-> submitted[2 * (m + k) - 1].of]

(* The gate answers as its header says, whatever part of the submissions the
   batch is: after a wrap it holds a list twice. *)
GateExact ==
  \A m, n \in 0 .. Submissions, producer \in Lists \cup {NullList}, thread \in {"main", "other"} :
    2 * (m + n) - 1 <= Len(submitted) =>
      (snapshot_batch_match("main", thread, producer, Batch(m, n))
         <=> Trustworthy("main", thread, producer, Batch(m, n)))
=============================================================================
