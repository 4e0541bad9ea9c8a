------------------------- MODULE ReadbackCoherency --------------------------
(***************************************************************************)
(* readback_coherency_probe.c: one command list and one place, written,    *)
(* copied by the GPU, waited for and read back over and over.              *)
(***************************************************************************)
EXTENDS FenceWait

CoherencyInit ==
  /\ DeviceInit
  /\ upload = [p \in Places |-> 0]
  /\ recorded = [l \in Lists |-> Nothing]
  /\ CpuInit("write")

-----------------------------------------------------------------------------
coherency_write ==
  /\ pc = "write"
  /\ i < Submissions
  /\ WriteUpload(0, Marker(i))
  /\ Goto("reset")

coherency_reset ==
  /\ pc = "reset"
  /\ Record(0, Nothing)
  /\ Goto("record")

coherency_record ==
  /\ pc = "record"
  /\ Record(0, 0)
  /\ Goto("execute")

coherency_execute ==
  /\ pc = "execute"
  /\ Enqueue(Execution(0))
  /\ Goto("signal")

(* wait_for_queue: Signal, and the wait without a time limit. *)
wait_for_queue ==
  /\ pc = "signal"
  /\ Enqueue(Signalling(value + 1))
  /\ value' = value + 1
  /\ WaitValue(value + 1, "compare")
  /\ UNCHANGED <<i, mismatches>>

coherency_compare ==
  /\ pc = "compare"
  /\ mismatches' = IF readback[0] # Marker(i) THEN mismatches + 1 ELSE mismatches
  /\ i' = i + 1
  /\ pc' = "write"
  /\ UNCHANGED <<deviceVars, value, target, resume>>

coherency_end ==
  /\ pc = "write"
  /\ i = Submissions
  /\ Goto("done")
  /\ UNCHANGED deviceVars

CoherencyCpu ==
  \/ coherency_write
  \/ coherency_reset
  \/ coherency_record
  \/ coherency_execute
  \/ wait_for_queue
  \/ coherency_compare
  \/ coherency_end
  \/ Waiting
  \/ check_hr({"write", "reset", "record", "signal", "arm", "compare"})

CoherencyGpu == GpuRuns /\ UNCHANGED cpuVars

CoherencySpec == CoherencyInit /\ [][CoherencyCpu \/ CoherencyGpu]_vars
=============================================================================
