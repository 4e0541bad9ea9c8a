---------------------------- MODULE MCSubmission ----------------------------
(***************************************************************************)
(* The three submission probes on small instances: probe is the one that   *)
(* runs, and the variables of the others keep their initial values.        *)
(***************************************************************************)
EXTENDS RingSubmission, SubmissionTiming, ReadbackCoherency

VARIABLE probe

mcVars == <<vars, ringVars, timingVars, probe>>

IdleRing == ring_values = [s \in 0 .. Slots - 1 |-> 0] /\ gate_failures = 0
IdleTiming ==
  /\ resolved = [p \in Places |-> FALSE]
  /\ last_resolved_index = -1
  /\ out_of_order = FALSE
  /\ slipped = FALSE

MCInit ==
  \/ probe = "ring" /\ RingInit /\ IdleTiming
  \/ probe = "timing" /\ TimingInit /\ IdleRing
  \/ probe = "coherency" /\ CoherencyInit /\ IdleRing /\ IdleTiming

Ring == probe = "ring" /\ RingCpu /\ UNCHANGED <<timingVars, probe>>
Timing == probe = "timing" /\ TimingCpu /\ UNCHANGED <<ringVars, probe>>
Coherency == probe = "coherency" /\ CoherencyCpu /\ UNCHANGED <<ringVars, timingVars, probe>>

Gpu ==
  /\ \/ probe = "ring" /\ RingGpu /\ UNCHANGED timingVars
     \/ probe = "timing" /\ TimingGpu /\ UNCHANGED ringVars
     \/ probe = "coherency" /\ CoherencyGpu /\ UNCHANGED <<ringVars, timingVars>>
  /\ UNCHANGED probe

Finished == Ended /\ UNCHANGED mcVars

MCNext == Ring \/ Timing \/ Coherency \/ Gpu \/ Finished

(* The thread of a probe goes on, and the clock reaches the end of the budget
   of the timing probe.  The GPU gets through its queue where a probe waits
   without a limit; the ring's waits have one, and it needs no such promise. *)
MCFairSpec ==
  /\ MCInit /\ [][MCNext]_mcVars
  /\ WF_mcVars(Ring) /\ WF_mcVars(Timing) /\ WF_mcVars(Coherency)
  /\ SF_mcVars(Timing /\ timing_budget_over)
  /\ WF_mcVars(Gpu /\ probe # "ring")

TypeOK == RingTypeOK /\ TimingTypeOK

(* Every probe ends, the ring even if the GPU hangs. *)
ProbeEnds == <>Ended
=============================================================================
