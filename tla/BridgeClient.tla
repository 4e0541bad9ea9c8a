---------------------------- MODULE BridgeClient ----------------------------
(***************************************************************************)
(* hip-stub: the Rust shim inside the game process, whose exports forward  *)
(* to the daemon through call_bridge.                                      *)
(*                                                                         *)
(* A pointer handed to the caller is an address of AddressSpace: it means  *)
(* one allocation for ever, so it is known by the malloc it came from. A   *)
(* fat binary's id is fresh too. A call that returns before it reaches     *)
(* call_bridge (an address that does not resolve, a kernel never           *)
(* registered) changes nothing but the last error, which is left out.      *)
(***************************************************************************)
EXTENDS BridgeLink

CONSTANTS
  Threads,
  NoThread,
  Home,      \* the client each thread belongs to
  Hosts      \* host addresses of kernels

ASSUME ClientAssumption ==
  /\ NoThread \notin Threads
  /\ Home \in [Threads -> Clients]
  /\ Hosts # {}

VARIABLES
  lock,       \* per client: who holds the connection's mutex
  ranges,     \* per client: AddressSpace.ranges
  fatbins,    \* per client: fatbin_registry
  functions,  \* per client: function_registry
  pc, call,   \* per thread: the step, and the request it makes
  host,       \* per thread: the host function it registers
  reply,      \* per thread: the response read
  result,     \* per thread: what its last call returned
  calls       \* history: calls made so far

clientVars == <<lock, ranges, fatbins, functions, pc, call, host, reply, result, calls>>
tablesOf == <<ranges, fatbins, functions>>

PCs == {"idle", "lock", "write", "read", "done", "exited"}

(* What a client remembers of a daemon's object; obj is history. *)
Entry == [handle : Handles \cup {0}, obj : Calls \cup {0}]
NoEntry == [handle |-> 0, obj |-> 0]
NoRequest == [n |-> 0, op |-> "query", uses |-> {}, len |-> 0]
NoReply == [n |-> 0, ok |-> FALSE, handle |-> 0, len |-> 0]

ClientInit ==
  /\ lock = [c \in Clients |-> NoThread]
  /\ ranges = [c \in Clients |-> {}]
  /\ fatbins = [c \in Clients |-> {}]
  /\ functions = [c \in Clients |-> [h \in Hosts |-> NoEntry]]
  /\ pc = [t \in Threads |-> "idle"]
  /\ call = [t \in Threads |-> NoRequest]
  /\ host = [t \in Threads |-> CHOOSE h \in Hosts : TRUE]
  /\ reply = [t \in Threads |-> NoReply]
  /\ result = [t \in Threads |-> "none"]
  /\ calls = 0

Goto(t, label) == pc' = [pc EXCEPT ![t] = label]

(* The call returns to its caller; its locals are dead. *)
Return(t, value) ==
  /\ Goto(t, "idle")
  /\ call' = [call EXCEPT ![t] = NoRequest]
  /\ host' = [host EXCEPT ![t] = CHOOSE h \in Hosts : TRUE]
  /\ reply' = [reply EXCEPT ![t] = NoReply]
  /\ result' = [result EXCEPT ![t] = value]

Unlock(c) == lock' = [lock EXCEPT ![c] = NoThread]

Use(kind, e) == [kind |-> kind, handle |-> e.handle, obj |-> e.obj]

-----------------------------------------------------------------------------
(* Plausible wrong versions of the code, for the mutation runs. *)

KeepConnection(c) == client_end' = client_end
StillMapped(c, e) == ranges[c]
IgnoreLock(t) == TRUE

-----------------------------------------------------------------------------
(***************************************************************************)
(* The exports, up to call_bridge.                                         *)
(***************************************************************************)
Begin(t, op, uses, len) ==
  /\ pc[t] = "idle"
  /\ calls < MaxCalls
  /\ calls' = calls + 1
  /\ call' = [call EXCEPT ![t] = [n |-> calls + 1, op |-> op, uses |-> uses, len |-> len]]
  /\ result' = [result EXCEPT ![t] = "none"]
  /\ Goto(t, "lock")
  /\ UNCHANGED <<link, lock, fatbins, functions, reply>>

(* hipGetDeviceCount, hipGetDevicePropertiesR0600, hipSetDevice, hipMalloc. *)
BeginPlain(t) ==
  /\ \E op \in {"query", "malloc"} : Begin(t, op, {}, 0)
  /\ UNCHANGED <<ranges, host>>

Unmapped(c, e) == ranges[c] \ {e}

(* hipFree forgets the range before it asks the daemon to free it. *)
BeginFree(t) ==
  /\ \E e \in ranges[Home[t]] :
       /\ Begin(t, "free", {Use("memory", e)}, 0)
       /\ ranges' = [ranges EXCEPT ![Home[t]] = Unmapped(Home[t], e)]
  /\ UNCHANGED host

(* hipMemcpy and hipMemcpyAsync: memcpy_forward, either way. *)
BeginCopy(t) ==
  /\ \E e \in ranges[Home[t]], len \in Lens, op \in {"h2d", "d2h"} :
       Begin(t, op, {Use("memory", e)}, len)
  /\ UNCHANGED <<ranges, host>>

(* __hipRegisterFatBinary, given a bundle it recognises. *)
BeginLoad(t) ==
  /\ \E len \in Lens : Begin(t, "load", {}, len)
  /\ UNCHANGED <<ranges, host>>

(* __hipRegisterFunction *)
BeginGetFunction(t) ==
  /\ \E e \in fatbins[Home[t]], h \in Hosts :
       /\ Begin(t, "getfn", {Use("module", e)}, 0)
       /\ host' = [host EXCEPT ![t] = h]
  /\ UNCHANGED ranges

(* hipLaunchKernel: the argument bytes may hold any pointers; those that
   resolve become fixups. *)
BeginLaunch(t) ==
  /\ \E h \in Hosts, args \in SUBSET ranges[Home[t]] :
       /\ functions[Home[t]][h] # NoEntry
       /\ Begin(t, "launch", {Use("function", functions[Home[t]][h])}
                               \cup {Use("memory", e) : e \in args}, 0)
  /\ UNCHANGED <<ranges, host>>

(***************************************************************************)
(* call_bridge                                                             *)
(***************************************************************************)
(* bridge(): the first caller connects, once; a connection succeeds as soon as
   the daemon listens, whether or not it accepts. *)
Connect(t, listening) ==
  LET c == Home[t] IN
  /\ pc[t] = "lock"
  /\ client_end[c] = "unset"
  /\ client_end' = [client_end EXCEPT ![c] = IF listening THEN "open" ELSE "closed"]
  /\ backlog' = IF listening THEN Append(backlog, c) ELSE backlog
  /\ UNCHANGED <<clientVars, serving, requests, responses, stray>>

MayLock(t) == lock[Home[t]] = NoThread

Acquire(t) ==
  /\ pc[t] = "lock"
  /\ client_end[Home[t]] = "open"
  /\ MayLock(t)
  /\ lock' = [lock EXCEPT ![Home[t]] = t]
  /\ Goto(t, "write")
  /\ UNCHANGED <<link, tablesOf, call, host, reply, result, calls>>

(* The mutex holds None: never reachable, or dropped after an error. *)
NotConnected(t) ==
  /\ pc[t] = "lock"
  /\ client_end[Home[t]] = "closed"
  /\ lock[Home[t]] = NoThread
  /\ Return(t, "failed")
  /\ UNCHANGED <<link, lock, tablesOf, calls>>

(* *guard = None closes the connection for good. *)
Drop(c) == client_end' = [client_end EXCEPT ![c] = "closed"]

(* The write may also succeed into a connection the daemon has closed. *)
WriteRequest(t) ==
  LET c == Home[t] IN
  /\ pc[t] = "write"
  /\ requests' = IF Connected(c) THEN [requests EXCEPT ![c] = Append(@, call[t])] ELSE requests
  /\ Goto(t, "read")
  /\ UNCHANGED <<client_end, serving, backlog, responses, stray,
                 lock, tablesOf, call, host, reply, result, calls>>

WriteFails(t) ==
  LET c == Home[t] IN
  /\ pc[t] = "write"
  /\ ~Connected(c)
  /\ Drop(c)
  /\ Unlock(c)
  /\ Return(t, "failed")
  /\ UNCHANGED <<serving, backlog, requests, responses, stray, tablesOf, calls>>

ReadResponse(t) ==
  LET c == Home[t] IN
  /\ pc[t] = "read"
  /\ ~stray[c]
  /\ responses[c] # <<>>
  /\ ~Refused(Head(responses[c]).len)
  /\ reply' = [reply EXCEPT ![t] = Head(responses[c])]
  /\ responses' = [responses EXCEPT ![c] = Tail(@)]
  /\ stray' = [stray EXCEPT ![c] = Declared(Head(responses[c]).len) # Head(responses[c]).len]
  /\ Unlock(c)
  /\ Goto(t, "done")
  /\ UNCHANGED <<client_end, serving, backlog, requests, tablesOf, call, host, result, calls>>

(* The body is longer than the sanity cap and stays unread, or what is read is
   no frame at all. *)
ReadBadFrame(t) ==
  LET c == Home[t] IN
  /\ pc[t] = "read"
  /\ \/ stray[c] /\ UNCHANGED <<responses, stray>>
     \/ /\ ~stray[c]
        /\ responses[c] # <<>>
        /\ Refused(Head(responses[c]).len)
        /\ responses' = [responses EXCEPT ![c] = Tail(@)]
        /\ stray' = [stray EXCEPT ![c] = TRUE]
  /\ Drop(c)
  /\ Unlock(c)
  /\ Return(t, "failed")
  /\ UNCHANGED <<serving, backlog, requests, tablesOf, calls>>

(* The bytes left over from an earlier body are taken for a response; of the
   handles they may spell, those that can exist. *)
ReadStray(t) ==
  LET c == Home[t] IN
  /\ pc[t] = "read"
  /\ stray[c]
  /\ \E h \in Calls, ok \in BOOLEAN :
       reply' = [reply EXCEPT ![t] = [n |-> 0, ok |-> ok, handle |-> h, len |-> call[t].len]]
  /\ Unlock(c)
  /\ Goto(t, "done")
  /\ UNCHANGED <<link, tablesOf, call, host, result, calls>>

(* The daemon closed the connection; an answer under way may be lost too. *)
ReadFails(t) ==
  LET c == Home[t] IN
  /\ pc[t] = "read"
  /\ ~Connected(c)
  /\ Drop(c)
  /\ Unlock(c)
  /\ Return(t, "failed")
  /\ UNCHANGED <<serving, backlog, requests, responses, stray, tablesOf, calls>>

(***************************************************************************)
(* What the exports do with the result, the mutex released.                *)
(***************************************************************************)
Got(t) == [handle |-> reply[t].handle, obj |-> reply[t].n]

(* An error, or a body of the wrong size. *)
Bad(t) == ~reply[t].ok \/ Declared(reply[t].len) # reply[t].len

CompleteFailed(t) ==
  /\ pc[t] = "done"
  /\ Bad(t)
  /\ Return(t, "failed")
  /\ UNCHANGED <<link, lock, tablesOf, calls>>

Complete(t) ==
  LET c == Home[t] IN
  /\ pc[t] = "done"
  /\ ~Bad(t)
  /\ ranges' = IF call[t].op = "malloc" THEN [ranges EXCEPT ![c] = @ \cup {Got(t)}] ELSE ranges
  /\ fatbins' = IF call[t].op = "load" THEN [fatbins EXCEPT ![c] = @ \cup {Got(t)}] ELSE fatbins
  /\ functions' = IF call[t].op = "getfn" THEN [functions EXCEPT ![c][host[t]] = Got(t)] ELSE functions
  /\ Return(t, "ok")
  /\ UNCHANGED <<link, lock, calls>>

(* The process ends, at any point of its calls; its sockets are closed. *)
Exit(c) ==
  /\ client_end[c] # "closed"
  /\ Drop(c)
  /\ Unlock(c)
  /\ pc' = [t \in Threads |-> IF Home[t] = c THEN "exited" ELSE pc[t]]
  /\ call' = [t \in Threads |-> IF Home[t] = c THEN NoRequest ELSE call[t]]
  /\ reply' = [t \in Threads |-> IF Home[t] = c THEN NoReply ELSE reply[t]]
  /\ result' = [t \in Threads |-> IF Home[t] = c THEN "failed" ELSE result[t]]
  /\ ranges' = [ranges EXCEPT ![c] = {}]
  /\ fatbins' = [fatbins EXCEPT ![c] = {}]
  /\ functions' = [functions EXCEPT ![c] = [h \in Hosts |-> NoEntry]]
  /\ UNCHANGED <<serving, backlog, requests, responses, stray, host, calls>>

-----------------------------------------------------------------------------
(* The steps of a call under way. *)
Continue(t, listening) ==
  \/ Connect(t, listening)
  \/ Acquire(t)
  \/ NotConnected(t)
  \/ WriteRequest(t)
  \/ WriteFails(t)
  \/ ReadResponse(t)
  \/ ReadBadFrame(t)
  \/ ReadStray(t)
  \/ ReadFails(t)
  \/ CompleteFailed(t)
  \/ Complete(t)

BeginCall(t) ==
  \/ BeginPlain(t)
  \/ BeginFree(t)
  \/ BeginCopy(t)
  \/ BeginLoad(t)
  \/ BeginGetFunction(t)
  \/ BeginLaunch(t)

ClientTypeOK ==
  /\ lock \in [Clients -> Threads \cup {NoThread}]
  /\ ranges \in [Clients -> SUBSET Entry]
  /\ fatbins \in [Clients -> SUBSET Entry]
  /\ functions \in [Clients -> [Hosts -> Entry]]
  /\ pc \in [Threads -> PCs]
  /\ call \in [Threads -> Request \cup {NoRequest}]
  /\ host \in [Threads -> Hosts]
  /\ reply \in [Threads -> Response]
  /\ result \in [Threads -> {"none", "ok", "failed"}]
  /\ calls \in 0 .. MaxCalls
=============================================================================
