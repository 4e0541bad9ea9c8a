-------------------------- MODULE SubmissionTiming --------------------------
(***************************************************************************)
(* submission_timing_probe.c: lists submitted back to back with no wait,   *)
(* while the CPU polls the readback buffer for each copy to land, within a *)
(* budget of time, and notes when a later one is seen before an earlier.   *)
(***************************************************************************)
EXTENDS FenceWait

VARIABLES
  resolved,             \* per place: seen to have landed
  last_resolved_index,
  out_of_order,
  slipped               \* history: a copy landed that the scan going on had passed

timingVars == <<resolved, last_resolved_index, out_of_order, slipped>>

(* main has filled the upload buffer and recorded a list for every place. *)
TimingInit ==
  /\ DeviceInit
  /\ upload = [p \in Places |-> Marker(p)]
  /\ recorded = [l \in Lists |-> l]
  /\ CpuInit("issue")
  /\ resolved = [p \in Places |-> FALSE]
  /\ last_resolved_index = -1
  /\ out_of_order = FALSE
  /\ slipped = FALSE

Landed(p) == readback[p] = Marker(p)

-----------------------------------------------------------------------------
(* Plausible wrong versions of the code, for the mutation runs. *)

LandedAgain(p) == Landed(p)
NoDrain == pc = "drain" /\ Goto("done")

-----------------------------------------------------------------------------
Fresh(p) == ~resolved[p] /\ Landed(p)

(* ExecuteCommandLists for all lists, with no wait. *)
timing_issue ==
  /\ pc = "issue"
  /\ i < Submissions
  /\ Enqueue(Execution(i))
  /\ i' = i + 1
  /\ UNCHANGED <<timingVars, pc, value, target, resume, mismatches>>

timing_issued ==
  /\ pc = "issue"
  /\ i = Submissions
  /\ Goto("poll")
  /\ UNCHANGED <<deviceVars, timingVars>>

(* The budget is not over: one more scan of all places. *)
timing_scan ==
  /\ pc = "poll"
  /\ i' = 0
  /\ pc' = "look"
  /\ UNCHANGED <<deviceVars, timingVars, value, target, resume, mismatches>>

timing_look ==
  /\ pc = "look"
  /\ i < Submissions
  /\ i' = i + 1
  /\ IF Fresh(i)
       THEN /\ resolved' = [resolved EXCEPT ![i] = TRUE]
            /\ out_of_order' = (out_of_order \/ i < last_resolved_index)
            /\ last_resolved_index' = IF i > last_resolved_index THEN i ELSE last_resolved_index
       ELSE UNCHANGED <<resolved, out_of_order, last_resolved_index>>
  /\ UNCHANGED <<deviceVars, slipped, pc, value, target, resume, mismatches>>

AllDone == \A p \in Places : resolved[p]

timing_all_done ==
  /\ pc = "look"
  /\ i = Submissions
  /\ Goto(IF AllDone THEN "drain" ELSE "poll")
  /\ UNCHANGED <<deviceVars, timingVars>>

timing_budget_over ==
  /\ pc = "poll"
  /\ Goto("drain")
  /\ UNCHANGED <<deviceVars, timingVars>>

Drain ==
  /\ pc = "drain"
  /\ value' = value + 1
  /\ WaitValue(value', "done")
  /\ UNCHANGED <<i, mismatches>>

(* The last Signal and the wait for it, without a time limit. *)
timing_drain ==
  /\ Drain
  /\ Enqueue(Signalling(value + 1))
  /\ UNCHANGED timingVars

timing_wait == Waiting /\ UNCHANGED timingVars

TimingCpu ==
  \/ timing_issue
  \/ timing_issued
  \/ timing_scan
  \/ timing_look
  \/ timing_all_done
  \/ timing_budget_over
  \/ timing_drain
  \/ timing_wait

TimingGpu ==
  /\ GpuRuns
  /\ slipped' = (slipped \/ (pc = "look" /\ \E p \in 0 .. i - 1 : readback'[p] # readback[p]))
  /\ UNCHANGED <<cpuVars, resolved, last_resolved_index, out_of_order>>

TimingVars == <<vars, timingVars>>

TimingSpec == TimingInit /\ [][TimingCpu \/ TimingGpu]_TimingVars

-----------------------------------------------------------------------------
TimingTypeOK ==
  /\ DeviceTypeOK
  /\ CpuTypeOK
  /\ resolved \in [Places -> BOOLEAN]
  /\ last_resolved_index \in Places \cup {-1}
  /\ out_of_order \in BOOLEAN
  /\ slipped \in BOOLEAN

(* "A later submission resolved before an earlier one - real reordering": true
   of the flag, as long as nothing lands behind a scan that goes on to look at
   a later place.  Otherwise the flag can be set by a queue in perfect order. *)
FlagMeansReorder == out_of_order => overtaken \/ slipped
=============================================================================
