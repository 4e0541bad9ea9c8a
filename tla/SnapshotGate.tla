---------------------------- MODULE SnapshotGate ----------------------------
(***************************************************************************)
(* snapshot_batch_match: whether the result of a producer's command list   *)
(* may be trusted, given the batch just passed to ExecuteCommandLists.     *)
(* faithful_submission_probe.c holds a second copy of the same function.   *)
(***************************************************************************)
EXTENDS Integers, Sequences

CONSTANTS
  NullList,  \* the null pointer, as a list
  MaxBatch   \* 64

ASSUME GateAssumption ==
  /\ MaxBatch \in Nat \ {0}
  /\ NullList \notin Nat

IgnoresEarlier(producer_thread, current_thread, producer_list, lists) ==
  /\ producer_list # NullList
  /\ Len(lists) \in 1 .. MaxBatch
  /\ producer_thread = current_thread
  /\ lists[Len(lists)] = producer_list

(* A null array of lists is an empty one here: both are refused. *)
snapshot_batch_match(producer_thread, current_thread, producer_list, lists) ==
  /\ producer_list # NullList
  /\ Len(lists) \in 1 .. MaxBatch
  /\ producer_thread = current_thread
  /\ lists[Len(lists)] = producer_list
  /\ \A i \in 1 .. Len(lists) - 1 : lists[i] # producer_list

(* What snapshot_gate.h promises of it: the producer occurs exactly once, as
   the last entry, and was recorded on the thread that checks it. *)
Trustworthy(producer_thread, current_thread, producer_list, lists) ==
  /\ producer_thread = current_thread
  /\ Len(lists) <= MaxBatch
  /\ producer_list # NullList
  /\ Len(lists) > 0
  /\ {i \in DOMAIN lists : lists[i] = producer_list} = {Len(lists)}
=============================================================================
