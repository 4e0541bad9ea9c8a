----------------------------- MODULE HipRuntime -----------------------------
(***************************************************************************)
(* The real ROCm runtime behind native.c, which is external: streams,      *)
(* events, and the operations the GPU runs.  A stream runs its operations  *)
(* in order.  The null stream is the legacy default stream: it takes turns *)
(* with every stream that was not created with hipStreamNonBlocking.       *)
(***************************************************************************)
EXTENDS Integers, Sequences

CONSTANTS
  Streams,     \* what hipStreamCreateWithFlags may hand out
  Events,      \* what hipEventCreate may hand out
  NullStream,  \* the stream of a caller that passes no stream
  NoEvent,     \* the event of an operation that records none
  MaxWork      \* bound: operations in a run

AnyStream == Streams \cup {NullStream}
AnyEvent == Events \cup {NoEvent}

ASSUME RuntimeAssumption ==
  /\ NullStream \notin Streams
  /\ NoEvent \notin Events
  /\ MaxWork \in Nat

VARIABLES
  work,      \* the operations the library was given, in order
  finished,  \* the places in work that have finished
  streams,   \* per stream: "none" until it is created, then its kind
  events     \* the events created so far

runtimeVars == <<work, finished, streams, events>>

Operation == [stream : AnyStream, event : AnyEvent]
StreamKinds == {"none", "blocking", "nonblocking"}

RuntimeInit ==
  /\ work = <<>>
  /\ finished = {}
  /\ streams = [s \in Streams |-> "none"]
  /\ events = {}

(* The streams and events a caller can name. *)
UsableStreams == {s \in Streams : streams[s] # "none"} \cup {NullStream}

(* Two operations the hardware runs one after the other. *)
Serial(s, u) ==
  \/ s = u
  \/ s = NullStream /\ streams[u] = "blocking"
  \/ u = NullStream /\ streams[s] = "blocking"

GpuFinishes ==
  /\ \E i \in DOMAIN work \ finished :
       /\ \A j \in 1 .. i - 1 : Serial(work[j].stream, work[i].stream) => j \in finished
       /\ finished' = finished \cup {i}
  /\ UNCHANGED <<work, streams, events>>

Submit(s, e) ==
  /\ Len(work) < MaxWork
  /\ work' = Append(work, [stream |-> s, event |-> e])
  /\ UNCHANGED <<finished, streams, events>>

CreateStream ==
  /\ \E s \in Streams, k \in {"blocking", "nonblocking"} :
       /\ streams[s] = "none"
       /\ streams' = [streams EXCEPT ![s] = k]
  /\ UNCHANGED <<work, finished, events>>

CreateEvent ==
  /\ \E e \in Events \ events : events' = events \cup {e}
  /\ UNCHANGED <<work, finished, streams>>

(* The operations of a sequence that are on stream s. *)
OnStream(ops, s) == {i \in DOMAIN ops : ops[i].stream = s}

(* The last time an event was recorded in a sequence: a set of at most one. *)
LastRecord(ops, e) ==
  {i \in DOMAIN ops : ops[i].event = e /\ \A j \in DOMAIN ops : ops[j].event = e => j <= i}

(* What an operation cannot finish before, as far as its stream goes. *)
UpTo(ops, i) == {j \in OnStream(ops, ops[i].stream) : j <= i}
UpToRecord(ops, e) == UNION {UpTo(ops, i) : i \in LastRecord(ops, e)}
=============================================================================
