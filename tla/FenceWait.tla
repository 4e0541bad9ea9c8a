----------------------------- MODULE FenceWait ------------------------------
(***************************************************************************)
(* What the three submission probes have in common: a single thread with   *)
(* its loop counter and fence value, the wait for a fence value through    *)
(* the one event (ring_wait_value, wait_for_queue), and check_hr, which    *)
(* ends the program when a call fails.                                     *)
(***************************************************************************)
EXTENDS D3D12Queue

VARIABLES
  pc,
  i,       \* the loop's counter
  value,   \* the last fence value given out
  target,  \* what a wait waits for
  resume,  \* where it returns to
  mismatches

cpuVars == <<pc, i, value, target, resume, mismatches>>
vars == <<deviceVars, cpuVars>>

CpuInit(start) ==
  /\ pc = start
  /\ i = 0
  /\ value = 0
  /\ target = 0
  /\ resume = start
  /\ mismatches = 0

Goto(next) == pc' = next /\ UNCHANGED <<i, value, target, resume, mismatches>>

-----------------------------------------------------------------------------
(* Plausible wrong versions of the code, for the mutation runs. *)

WaitForNextValue(v, next) ==
  /\ pc' = "ask"
  /\ target' = v + 1
  /\ resume' = next

-----------------------------------------------------------------------------
WaitValue(v, next) ==
  /\ pc' = "ask"
  /\ target' = v
  /\ resume' = next

AskCompleted ==
  /\ pc = "ask"
  /\ Goto(IF completed >= target THEN resume ELSE "arm")
  /\ UNCHANGED deviceVars

ArmEvent ==
  /\ pc = "arm"
  /\ SetEventOnCompletion(target)
  /\ Goto("wait")

Wake ==
  /\ pc = "wait"
  /\ ConsumeEvent
  /\ Goto(resume)

Waiting == AskCompleted \/ ArmEvent \/ Wake

(* check_hr, in a step whose call is checked. *)
check_hr(checked) ==
  /\ pc \in checked
  /\ Goto("fatal")
  /\ UNCHANGED deviceVars

Ended == pc \in {"done", "fatal"}

-----------------------------------------------------------------------------
CpuTypeOK ==
  /\ i \in 0 .. Submissions
  /\ value \in 0 .. Submissions
  /\ target \in 0 .. value
  /\ mismatches \in 0 .. Submissions

(* A wait returns only once the fence has reached the value waited for: the
   event, shared by all waits and set by any of them, is never found set by an
   earlier one. *)
NoEarlyReturn ==
  [][(pc \in {"ask", "wait"} /\ pc' = resume) => completed >= target]_vars

(* While the queue keeps its order, a probe that runs to its end has left
   nothing in the queue when it releases what the lists use. *)
IdleAtRelease == pc = "done" /\ ~overtaken => Pending = {}
=============================================================================
