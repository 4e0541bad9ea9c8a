---------------------------- MODULE RemoteCalls -----------------------------
(***************************************************************************)
(* What the bridge promises its callers, without connections, frames,      *)
(* handles or locks: every call runs at most once, whatever fails, and one *)
(* that returns success has run.  A call that failed may or may not have,  *)
(* and may even run later.                                                 *)
(***************************************************************************)
EXTENDS Naturals

CONSTANTS
  Callers,
  MaxCalls   \* bound: calls made in a run

VARIABLES
  made,      \* calls made so far
  current,   \* per caller: its call, or 0
  outcome,   \* per caller: what its last call returned
  runs       \* per call: how often it has run

vars == <<made, current, outcome, runs>>

Init ==
  /\ made = 0
  /\ current = [t \in Callers |-> 0]
  /\ outcome = [t \in Callers |-> "none"]
  /\ runs = [n \in 1 .. MaxCalls |-> 0]

Begin(t) ==
  /\ current[t] = 0
  /\ made < MaxCalls
  /\ made' = made + 1
  /\ current' = [current EXCEPT ![t] = made']
  /\ outcome' = [outcome EXCEPT ![t] = "none"]
  /\ UNCHANGED runs

Run(n) ==
  /\ n <= made
  /\ runs[n] = 0
  /\ runs' = [runs EXCEPT ![n] = 1]
  /\ UNCHANGED <<made, current, outcome>>

Succeed(t) ==
  /\ current[t] # 0
  /\ runs[current[t]] = 1
  /\ current' = [current EXCEPT ![t] = 0]
  /\ outcome' = [outcome EXCEPT ![t] = "ok"]
  /\ UNCHANGED <<made, runs>>

(* One caller fails, or all those of a process that ends. *)
Fail(ts) ==
  /\ current' = [t \in Callers |-> IF t \in ts THEN 0 ELSE current[t]]
  /\ outcome' = [t \in Callers |-> IF t \in ts THEN "failed" ELSE outcome[t]]
  /\ UNCHANGED <<made, runs>>

Next ==
  \/ \E t \in Callers : Begin(t) \/ Succeed(t)
  \/ \E n \in 1 .. MaxCalls : Run(n)
  \/ \E ts \in SUBSET Callers : Fail(ts)

Spec == Init /\ [][Next]_vars
=============================================================================
