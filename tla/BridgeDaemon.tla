---------------------------- MODULE BridgeDaemon ----------------------------
(***************************************************************************)
(* hip-bridge-daemon: one native process that accepts one client at a time *)
(* and runs its requests one by one against the real HIP library, keeping  *)
(* what it creates in three handle tables that outlive the client.         *)
(*                                                                         *)
(* The HIP library is external: a call may fail.  The process may die at   *)
(* any time (the HIP runtime aborts it on a GPU fault) and be started      *)
(* again, with empty tables.                                               *)
(***************************************************************************)
EXTENDS BridgeLink

CONSTANT MaxCrashes   \* bound: times the daemon dies in a run

ASSUME DaemonAssumption == MaxCrashes \in Nat

VARIABLES
  daemon,    \* "up" or "down"
  tables,    \* per kind: the HandleTable, a set of handles and what they denote
  next_id,   \* per kind: HandleTable.next_id
  answer,    \* the response computed and not yet written
  runs,      \* history: how often each call has been executed
  crashes    \* history: times the daemon has died

daemonVars == <<daemon, tables, next_id, answer, runs, crashes>>

(* A HandleTable entry; obj is history: the call that created it. *)
Item == [handle : Handles, obj : Calls]
NoAnswer == [n |-> 0, ok |-> FALSE, handle |-> 0, len |-> 0]

DaemonInit ==
  /\ daemon = "up"
  /\ tables = [k \in Kinds |-> {}]
  /\ next_id = [k \in Kinds |-> 1]
  /\ answer = NoAnswer
  /\ runs = [n \in Calls |-> 0]
  /\ crashes = 0

-----------------------------------------------------------------------------
(* Plausible wrong versions of the code, for the mutation runs. *)

LowestFreeHandle(k) ==
  CHOOSE h \in 1 .. next_id[k] :
    /\ h \notin {i.handle : i \in tables[k]}
    /\ \A g \in 1 .. h - 1 : g \in {i.handle : i \in tables[k]}
HandlesFromZero(k) == next_id[k] - 1
SkipRefused(c) == UNCHANGED <<serving, backlog>>

-----------------------------------------------------------------------------
(* HandleTable::insert: ids count up and are never reused. *)
FreshHandle(k) == next_id[k]

Insert(k, obj) ==
  /\ tables' = [tables EXCEPT ![k] = @ \cup {[handle |-> FreshHandle(k), obj |-> obj]}]
  /\ next_id' = [next_id EXCEPT ![k] = @ + 1]

Remove(uses) ==
  tables' = [k \in Kinds |->
               {i \in tables[k] : \A u \in uses : ~(u.kind = k /\ u.handle = i.handle)}]

(* handles.get, modules.get, functions.get *)
Known(u) == \E i \in tables[u.kind] : i.handle = u.handle

(* The kind of handle a request creates. *)
Creates == [malloc |-> "memory", load |-> "module", getfn |-> "function"]

(***************************************************************************)
(* main and handle_client                                                  *)
(***************************************************************************)
Accept ==
  /\ daemon = "up"
  /\ serving = NoClient
  /\ backlog # <<>>
  /\ serving' = Head(backlog)
  /\ backlog' = Tail(backlog)
  /\ UNCHANGED <<client_end, requests, responses, stray, daemonVars>>

(* A request is being read from the client served. *)
Reading(c) ==
  /\ serving = c
  /\ answer = NoAnswer
  /\ requests[c] # <<>>

(* handle_client returns: the connection is closed and what is in it is lost. *)
CloseServed(c) ==
  /\ serving' = NoClient
  /\ UNCHANGED backlog

(* Request::read_from refuses a body longer than the cap.  A longer length that
   wraps below it is refused too: the copy inside declares its own length. *)
RefuseRequest(c) ==
  /\ Reading(c)
  /\ Head(requests[c]).len > MaxBody
  /\ Head(requests[c]).op # "d2h"
  /\ CloseServed(c)
  /\ requests' = [requests EXCEPT ![c] = <<>>]
  /\ UNCHANGED <<client_end, responses, stray, daemonVars>>

(* handle_request: r is run, and its answer is about to be written. *)
Run(c, r, ok, handle, len) ==
  /\ Reading(c)
  /\ r = Head(requests[c])
  /\ r.op = "d2h" \/ r.len <= MaxBody
  /\ requests' = [requests EXCEPT ![c] = Tail(@)]
  /\ answer' = [n |-> r.n, ok |-> ok, handle |-> handle, len |-> len]
  /\ runs' = [runs EXCEPT ![r.n] = @ + 1]
  /\ UNCHANGED <<client_end, serving, backlog, responses, stray, daemon, crashes>>

(* Malloc, LoadModule, GetFunction *)
RunCreate(c) ==
  \E r \in {requests[c][i] : i \in DOMAIN requests[c]} :
    /\ r.op \in DOMAIN Creates
    /\ \A u \in r.uses : Known(u)
    /\ Run(c, r, TRUE, FreshHandle(Creates[r.op]), 0)
    /\ Insert(Creates[r.op], r.n)

(* Free: the handle goes even when hipFree then fails. *)
RunFree(c) ==
  \E r \in {requests[c][i] : i \in DOMAIN requests[c]}, ok \in BOOLEAN :
    /\ r.op = "free"
    /\ \A u \in r.uses : Known(u)
    /\ Run(c, r, ok, 0, 0)
    /\ Remove(r.uses)
    /\ UNCHANGED next_id

(* MemcpyH2D, MemcpyD2H, LaunchKernel with its fixups, and the queries. *)
RunUse(c) ==
  \E r \in {requests[c][i] : i \in DOMAIN requests[c]} :
    /\ r.op \in {"query", "h2d", "d2h", "launch"}
    /\ \A u \in r.uses : Known(u)
    /\ Run(c, r, TRUE, 0, IF r.op = "d2h" THEN r.len ELSE 0)
    /\ UNCHANGED <<tables, next_id>>

(* An unknown handle, or an error of the HIP library. *)
RunFails(c) ==
  \E r \in {requests[c][i] : i \in DOMAIN requests[c]} :
    /\ r.op # "free" \/ \E u \in r.uses : ~Known(u)
    /\ Run(c, r, FALSE, 0, 0)
    /\ UNCHANGED <<tables, next_id>>

(* The response is lost when the client has gone, and the write may fail. *)
WriteResponse(c) ==
  /\ serving = c
  /\ answer # NoAnswer
  /\ responses' = IF client_end[c] = "open" THEN [responses EXCEPT ![c] = Append(@, answer)]
                                            ELSE responses
  /\ answer' = NoAnswer
  /\ UNCHANGED <<client_end, serving, backlog, requests, stray,
                 daemon, tables, next_id, runs, crashes>>

(* End of file, or a reset by a client that has gone. *)
EndOfStream(c) ==
  /\ serving = c
  /\ client_end[c] # "open"
  /\ CloseServed(c)
  /\ requests' = [requests EXCEPT ![c] = <<>>]
  /\ answer' = NoAnswer
  /\ UNCHANGED <<client_end, responses, stray, daemon, tables, next_id, runs, crashes>>

(***************************************************************************)
(* The process dies and is started again.                                  *)
(***************************************************************************)
Crash ==
  /\ daemon = "up"
  /\ crashes < MaxCrashes
  /\ crashes' = crashes + 1
  /\ daemon' = "down"
  /\ tables' = [k \in Kinds |-> {}]
  /\ next_id' = [k \in Kinds |-> 1]
  /\ answer' = NoAnswer
  /\ serving' = NoClient
  /\ backlog' = <<>>
  /\ requests' = [c \in Clients |-> <<>>]
  /\ UNCHANGED <<client_end, responses, stray, runs>>

Restart ==
  /\ daemon = "down"
  /\ daemon' = "up"
  /\ UNCHANGED <<link, tables, next_id, answer, runs, crashes>>

-----------------------------------------------------------------------------
Serve ==
  \/ Accept
  \/ \E c \in Clients :
       \/ RefuseRequest(c)
       \/ RunCreate(c)
       \/ RunFree(c)
       \/ RunUse(c)
       \/ RunFails(c)
       \/ WriteResponse(c)
       \/ EndOfStream(c)

DaemonTypeOK ==
  /\ daemon \in {"up", "down"}
  /\ tables \in [Kinds -> SUBSET Item]
  /\ next_id \in [Kinds -> Handles]
  /\ answer \in Response
  /\ runs \in [Calls -> Nat]
  /\ crashes \in 0 .. MaxCrashes
=============================================================================
