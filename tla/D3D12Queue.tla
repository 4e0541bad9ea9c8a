----------------------------- MODULE D3D12Queue -----------------------------
(***************************************************************************)
(* What the submission probes of investigations/ drive, which is external: *)
(* one command queue of D3D12 with its command lists, one fence with an    *)
(* auto-reset event, an upload and a readback buffer.  A list copies one   *)
(* place of the upload buffer to the same place of the readback buffer, as *)
(* the list is recorded, and the buffer filled, when the GPU gets to it.   *)
(*                                                                         *)
(* A queue runs its operations in order.  The probes ask whether the stack *)
(* below really does, so the GPU may also run an operation before earlier  *)
(* lists, which overtaken remembers; signals keep their order.             *)
(***************************************************************************)
EXTENDS Integers, Sequences

CONSTANT Submissions  \* TOTAL_SUBMISSIONS, N_SUBMISSIONS, ITERATIONS

ASSUME SubmissionsAssumption == Submissions \in Nat \ {0}

VARIABLES
  upload, readback,  \* the buffers
  recorded,          \* per list: the place it copies, or Nothing
  submitted,         \* the operations given to the queue, in order
  ran,               \* the places in submitted that have run
  completed,         \* the fence's completed value
  armed,             \* the value SetEventOnCompletion left the event waiting for, or 0
  signalled,         \* the event is set
  overtaken          \* history: an operation ran before an earlier list

deviceVars ==
  <<upload, readback, recorded, submitted, ran, completed, armed, signalled, overtaken>>

Places == 0 .. Submissions - 1
Lists == Places
Nothing == -1

(* Markers are distinct, and not what a new buffer holds. *)
Marker(i) == i + 1
Markers == 1 .. Submissions

Execution(list) == [kind |-> "execute", of |-> list]
Signalling(value) == [kind |-> "signal", of |-> value]

DeviceInit ==
  /\ readback = [p \in Places |-> 0]
  /\ submitted = <<>>
  /\ ran = {}
  /\ completed = 0
  /\ armed = 0
  /\ signalled = FALSE
  /\ overtaken = FALSE

Pending == DOMAIN submitted \ ran
PendingList(k) == k \in Pending /\ submitted[k].kind = "execute"

-----------------------------------------------------------------------------
(* A plausible wrong version of the probes, for the mutation runs: the event is
   created as a manual-reset one. *)

ManualEvent == signalled /\ UNCHANGED deviceVars

-----------------------------------------------------------------------------
(* Calls. *)

WriteUpload(p, v) ==
  /\ upload' = [upload EXCEPT ![p] = v]
  /\ UNCHANGED <<readback, recorded, submitted, ran, completed, armed, signalled, overtaken>>

(* Reset of a list and its allocator, and the recording of one copy. *)
Record(list, place) ==
  /\ recorded' = [recorded EXCEPT ![list] = place]
  /\ UNCHANGED <<upload, readback, submitted, ran, completed, armed, signalled, overtaken>>

Enqueue(operation) ==
  /\ submitted' = Append(submitted, operation)
  /\ UNCHANGED <<upload, readback, recorded, ran, completed, armed, signalled, overtaken>>

SetEventOnCompletion(value) ==
  /\ IF completed >= value
       THEN signalled' = TRUE /\ UNCHANGED armed
       ELSE armed' = value /\ UNCHANGED signalled
  /\ UNCHANGED <<upload, readback, recorded, submitted, ran, completed, overtaken>>

(* WaitForSingleObject returning: the event resets itself. *)
ConsumeEvent ==
  /\ signalled
  /\ signalled' = FALSE
  /\ UNCHANGED <<upload, readback, recorded, submitted, ran, completed, armed, overtaken>>

-----------------------------------------------------------------------------
(* The GPU. *)

Copy(list) ==
  /\ readback' = IF recorded[list] = Nothing
                   THEN readback
                   ELSE [readback EXCEPT ![recorded[list]] = upload[recorded[list]]]
  /\ UNCHANGED <<completed, armed, signalled>>

Complete(value) ==
  /\ completed' = value
  /\ IF armed \in 1 .. value
       THEN signalled' = TRUE /\ armed' = 0
       ELSE UNCHANGED <<signalled, armed>>
  /\ UNCHANGED readback

Earlier(k) == {j \in Pending : j < k}

GpuRuns ==
  \E k \in Pending :
    /\ \A j \in Earlier(k) : submitted[j].kind = "execute"
    /\ ran' = ran \cup {k}
    /\ overtaken' = (overtaken \/ Earlier(k) # {})
    /\ \/ submitted[k].kind = "execute" /\ Copy(submitted[k].of)
       \/ submitted[k].kind = "signal" /\ Complete(submitted[k].of)
    /\ UNCHANGED <<upload, recorded, submitted>>

-----------------------------------------------------------------------------
DeviceTypeOK ==
  /\ upload \in [Places -> Markers \cup {0}]
  /\ readback \in [Places -> Markers \cup {0}]
  /\ recorded \in [Lists -> Places \cup {Nothing}]
  /\ submitted \in Seq([kind : {"execute"}, of : Lists] \cup [kind : {"signal"}, of : Nat])
  /\ ran \subseteq DOMAIN submitted
  /\ completed \in Nat
  /\ armed \in Nat
  /\ signalled \in BOOLEAN
  /\ overtaken \in BOOLEAN

(* While the queue keeps its order, no list the GPU has yet to run is reset or
   recorded anew, and what it is to copy is not overwritten: a command
   allocator must not be reset before the GPU is done with it. *)
InFlightUntouched ==
  [][\A k \in DOMAIN submitted :
       PendingList(k) /\ ~overtaken' =>
         LET list == submitted[k].of IN
           /\ recorded'[list] = recorded[list]
           /\ recorded[list] # Nothing => upload'[recorded[list]] = upload[recorded[list]]]_deviceVars
=============================================================================
