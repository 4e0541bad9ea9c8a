---------------------------- MODULE BridgeProofs ----------------------------
(***************************************************************************)
(* For any number of games, threads, calls and crashes: the bridge keeps   *)
(* its types, and, when no body is too long for the 32-bit length of its   *)
(* frame,                                                                  *)
(*   - every call is handed the response to its own request,               *)
(*   - no call runs twice, and one that returns success has run: the       *)
(*     bridge implements RemoteCalls,                                      *)
(*   - a handle in a request denotes what its caller meant, and what a     *)
(*     game can still name exists in the daemon.                           *)
(*                                                                         *)
(* Each part has an inductive invariant that rests on those before it:     *)
(* TInv (types), MInv (one call in flight per connection), RInv (no call   *)
(* runs twice), NInv and HInv (what handles denote).                       *)
(***************************************************************************)
EXTENDS Bridge, SequenceTheorems, TLAPS

(* A thread past the start of an export has a request to make. *)
InCall == {"lock", "write", "read", "done"}
CallHasRequest == \A t \in Threads : pc[t] \in InCall => call[t] \in Request

TInv == TypeOK /\ CallHasRequest

-----------------------------------------------------------------------------
LEMMA InitTypes == Init => TInv
<1> SUFFICES ASSUME Init PROVE TInv
  OBVIOUS
<1> USE DEF Init
<1>1. LinkTypeOK
  BY LinkAssumption, EmptySeq DEF LinkInit, LinkTypeOK
<1>2. NoReply \in Response /\ NoAnswer \in Response /\ NoEntry \in Entry
  BY DEF NoReply, NoAnswer, NoEntry, Response, Entry
<1>3. ClientTypeOK
  BY <1>2, LinkAssumption, ClientAssumption DEF ClientInit, ClientTypeOK, PCs
<1>4. DaemonTypeOK
  BY <1>2, LinkAssumption, DaemonAssumption DEF DaemonInit, DaemonTypeOK, Handles, Calls, Kinds
<1>5. CallHasRequest
  BY DEF ClientInit, CallHasRequest, InCall
<1> QED
  BY <1>1, <1>3, <1>4, <1>5 DEF TInv, TypeOK

(* What a call leaves behind when it returns has its type. *)
LEMMA ReturnTypes ==
  ASSUME ClientTypeOK, CallHasRequest, NEW t \in Threads,
         NEW v \in {"none", "ok", "failed"}, Return(t, v)
  PROVE  /\ pc' \in [Threads -> PCs]
         /\ call' \in [Threads -> Request \cup {NoRequest}]
         /\ host' \in [Threads -> Hosts]
         /\ reply' \in [Threads -> Response]
         /\ result' \in [Threads -> {"none", "ok", "failed"}]
         /\ CallHasRequest'
<1>1. NoReply \in Response
  BY DEF NoReply, Response
<1>2. (CHOOSE h \in Hosts : TRUE) \in Hosts
  BY ClientAssumption
<1>3. "idle" \in PCs /\ "idle" \notin InCall
  BY DEF PCs, InCall
<1> QED
  BY <1>1, <1>2, <1>3 DEF ClientTypeOK, CallHasRequest, Return, Goto

(* A step of a call that changes pc only within the call. *)
LEMMA GotoTypes ==
  ASSUME ClientTypeOK, CallHasRequest, NEW t \in Threads, NEW label \in {"write", "read", "done"},
         pc[t] \in InCall, Goto(t, label), UNCHANGED call
  PROVE  pc' \in [Threads -> PCs] /\ CallHasRequest'
BY DEF ClientTypeOK, CallHasRequest, InCall, Goto, PCs

LEMMA BeginTypes ==
  ASSUME ClientTypeOK, CallHasRequest, NEW t \in Threads, NEW op \in Ops,
         NEW uses \in SUBSET Uses, NEW len \in Lens \cup {0}, Begin(t, op, uses, len)
  PROVE  /\ pc' \in [Threads -> PCs]
         /\ call' \in [Threads -> Request \cup {NoRequest}]
         /\ result' \in [Threads -> {"none", "ok", "failed"}]
         /\ calls' \in 0 .. MaxCalls
         /\ UNCHANGED <<link, lock, fatbins, functions, reply>>
         /\ CallHasRequest'
<1>1. calls + 1 \in Calls /\ calls' \in 0 .. MaxCalls
  BY LinkAssumption DEF Begin, ClientTypeOK, Calls
<1>2. [n |-> calls + 1, op |-> op, uses |-> uses, len |-> len] \in Request
  BY <1>1 DEF Request
<1>3. "lock" \in PCs
  BY DEF PCs
<1> QED
  BY <1>1, <1>2, <1>3 DEF Begin, Goto, ClientTypeOK, CallHasRequest

LEMMA UseType ==
  ASSUME NEW kind \in Kinds, NEW e \in Entry PROVE Use(kind, e) \in Uses
BY DEF Use, Uses, Entry

(* The steps of a thread keep the types of what they can change. *)
LEMMA BeginCallTypes ==
  ASSUME TInv, NEW t \in Threads, BeginCall(t), UNCHANGED daemonVars
  PROVE  TInv'
<1> USE DEF TInv, TypeOK
<1>1. Home[t] \in Clients
  BY ClientAssumption
<1>2. ASSUME UNCHANGED <<ranges, host>>, NEW op \in Ops, NEW uses \in SUBSET Uses,
             NEW len \in Lens \cup {0}, Begin(t, op, uses, len)
      PROVE  TInv'
  BY <1>2, BeginTypes DEF LinkTypeOK, ClientTypeOK, DaemonTypeOK, link, daemonVars, Connected
<1>3. CASE BeginPlain(t)
  <2>1. PICK op \in {"query", "malloc"} : Begin(t, op, {}, 0)
    BY <1>3 DEF BeginPlain
  <2> QED
    BY <1>2, <1>3, <2>1 DEF BeginPlain, Ops
<1>4. CASE BeginFree(t)
  <2>1. PICK e \in ranges[Home[t]] :
          /\ Begin(t, "free", {Use("memory", e)}, 0)
          /\ ranges' = [ranges EXCEPT ![Home[t]] = Unmapped(Home[t], e)]
    BY <1>4 DEF BeginFree
  <2>2. {Use("memory", e)} \in SUBSET Uses
    BY <1>1, <2>1, UseType DEF ClientTypeOK, Kinds
  <2>3. ranges' \in [Clients -> SUBSET Entry]
    BY <1>1, <2>1 DEF ClientTypeOK, Unmapped
  <2>4. UNCHANGED host
    BY <1>4 DEF BeginFree
  <2>5. "free" \in Ops /\ 0 \in Lens \cup {0}
    BY DEF Ops
  <2>6. /\ pc' \in [Threads -> PCs]
        /\ call' \in [Threads -> Request \cup {NoRequest}]
        /\ result' \in [Threads -> {"none", "ok", "failed"}]
        /\ calls' \in 0 .. MaxCalls
        /\ UNCHANGED <<link, lock, fatbins, functions, reply>>
        /\ CallHasRequest'
    BY <2>1, <2>2, <2>5, BeginTypes
  <2> QED
    BY <2>3, <2>4, <2>6 DEF LinkTypeOK, ClientTypeOK, DaemonTypeOK, link, daemonVars
<1>5. CASE BeginCopy(t)
  <2>1. PICK e \in ranges[Home[t]], len \in Lens, op \in {"h2d", "d2h"} :
          Begin(t, op, {Use("memory", e)}, len)
    BY <1>5 DEF BeginCopy
  <2>2. {Use("memory", e)} \in SUBSET Uses
    BY <1>1, <2>1, UseType DEF ClientTypeOK, Kinds
  <2> QED
    BY <1>2, <1>5, <2>1, <2>2 DEF BeginCopy, Ops
<1>6. CASE BeginLoad(t)
  <2>1. PICK len \in Lens : Begin(t, "load", {}, len)
    BY <1>6 DEF BeginLoad
  <2> QED
    BY <1>2, <1>6, <2>1 DEF BeginLoad, Ops
<1>7. CASE BeginGetFunction(t)
  <2>1. PICK e \in fatbins[Home[t]], h \in Hosts :
          /\ Begin(t, "getfn", {Use("module", e)}, 0)
          /\ host' = [host EXCEPT ![t] = h]
    BY <1>7 DEF BeginGetFunction
  <2>2. {Use("module", e)} \in SUBSET Uses
    BY <1>1, <2>1, UseType DEF ClientTypeOK, Kinds
  <2>3. host' \in [Threads -> Hosts]
    BY <2>1 DEF ClientTypeOK
  <2>4. UNCHANGED ranges
    BY <1>7 DEF BeginGetFunction
  <2>5. "getfn" \in Ops /\ 0 \in Lens \cup {0}
    BY DEF Ops
  <2>6. /\ pc' \in [Threads -> PCs]
        /\ call' \in [Threads -> Request \cup {NoRequest}]
        /\ result' \in [Threads -> {"none", "ok", "failed"}]
        /\ calls' \in 0 .. MaxCalls
        /\ UNCHANGED <<link, lock, fatbins, functions, reply>>
        /\ CallHasRequest'
    BY <2>1, <2>2, <2>5, BeginTypes
  <2> QED
    BY <2>3, <2>4, <2>6 DEF LinkTypeOK, ClientTypeOK, DaemonTypeOK, link, daemonVars
<1>8. CASE BeginLaunch(t)
  <2>1. PICK h \in Hosts, args \in SUBSET ranges[Home[t]] :
          Begin(t, "launch", {Use("function", functions[Home[t]][h])}
                                \cup {Use("memory", e) : e \in args}, 0)
    BY <1>8 DEF BeginLaunch
  <2>2. Use("function", functions[Home[t]][h]) \in Uses
    BY <1>1, <2>1, UseType DEF ClientTypeOK, Kinds
  <2>3. \A e \in args : Use("memory", e) \in Uses
    BY <1>1, <2>1, UseType DEF ClientTypeOK, Kinds
  <2>4. {Use("function", functions[Home[t]][h])} \cup {Use("memory", e) : e \in args} \in SUBSET Uses
    BY <2>2, <2>3
  <2> QED
    BY <1>2, <1>8, <2>1, <2>4 DEF BeginLaunch, Ops
<1> QED
  BY <1>3, <1>4, <1>5, <1>6, <1>7, <1>8 DEF BeginCall

LEMMA ContinueTypes ==
  ASSUME TInv, NEW t \in Threads, NEW listening \in BOOLEAN, Continue(t, listening),
         UNCHANGED daemonVars
  PROVE  TInv'
<1> DEFINE c == Home[t]
<1> USE DEF TInv, TypeOK
<1>1. c \in Clients /\ {"lock", "write", "read", "done"} \subseteq PCs
  BY ClientAssumption DEF PCs
<1>2. DaemonTypeOK'
  BY DEF DaemonTypeOK, daemonVars
<1>3. CASE Connect(t, listening)
  <2>1. client_end' \in [Clients -> {"unset", "open", "closed"}]
    BY <1>1, <1>3 DEF Connect, LinkTypeOK
  <2>2. backlog' \in Seq(Clients)
    BY <1>1, <1>3, AppendProperties DEF Connect, LinkTypeOK
  <2>3. LinkTypeOK'
    BY <1>3, <2>1, <2>2 DEF Connect, LinkTypeOK
  <2> QED
    BY <1>2, <1>3, <2>3 DEF Connect, ClientTypeOK, CallHasRequest, clientVars
<1>4. CASE Acquire(t)
  <2>1. lock' \in [Clients -> Threads \cup {NoThread}]
    BY <1>4 DEF Acquire, ClientTypeOK
  <2>2. pc' \in [Threads -> PCs] /\ CallHasRequest'
    BY <1>4, GotoTypes DEF Acquire, InCall
  <2> QED
    BY <1>2, <1>4, <2>1, <2>2 DEF Acquire, LinkTypeOK, ClientTypeOK, link, tablesOf
<1>5. CASE NotConnected(t)
  BY <1>2, <1>5, ReturnTypes DEF NotConnected, LinkTypeOK, ClientTypeOK, link, tablesOf
<1>6. CASE WriteRequest(t)
  <2>1. call[t] \in Request
    BY <1>6 DEF WriteRequest, CallHasRequest, InCall
  <2>2. requests' \in [Clients -> Seq(Request)]
    BY <1>1, <1>6, <2>1, AppendProperties DEF WriteRequest, LinkTypeOK
  <2>3. pc' \in [Threads -> PCs] /\ CallHasRequest'
    BY <1>6, GotoTypes DEF WriteRequest, InCall
  <2> QED
    BY <1>2, <1>6, <2>2, <2>3 DEF WriteRequest, LinkTypeOK, ClientTypeOK, tablesOf
<1>7. ASSUME Drop(c), Unlock(c), Return(t, "failed"),
             requests' = requests, serving' = serving, backlog' = backlog,
             responses' \in [Clients -> Seq(Response)], stray' \in [Clients -> BOOLEAN],
             UNCHANGED <<tablesOf, calls>>
      PROVE  TInv'
  <2>1. client_end' \in [Clients -> {"unset", "open", "closed"}]
    BY <1>1, <1>7 DEF Drop, LinkTypeOK
  <2>2. lock' \in [Clients -> Threads \cup {NoThread}]
    BY <1>1, <1>7 DEF Unlock, ClientTypeOK
  <2> QED
    BY <1>2, <1>7, <2>1, <2>2, ReturnTypes DEF LinkTypeOK, ClientTypeOK, tablesOf
<1>8. CASE WriteFails(t)
  BY <1>7, <1>8 DEF WriteFails, LinkTypeOK
<1>9. CASE ReadResponse(t)
  <2>1. Head(responses[c]) \in Response /\ Tail(responses[c]) \in Seq(Response)
    BY <1>1, <1>9, HeadTailProperties DEF ReadResponse, LinkTypeOK
  <2>2. /\ reply' \in [Threads -> Response]
        /\ responses' \in [Clients -> Seq(Response)]
        /\ stray' \in [Clients -> BOOLEAN]
    BY <1>1, <1>9, <2>1 DEF ReadResponse, LinkTypeOK, ClientTypeOK
  <2>3. lock' \in [Clients -> Threads \cup {NoThread}]
    BY <1>1, <1>9 DEF ReadResponse, Unlock, ClientTypeOK
  <2>4. pc' \in [Threads -> PCs] /\ CallHasRequest'
    BY <1>9, GotoTypes DEF ReadResponse, InCall
  <2> QED
    BY <1>2, <1>9, <2>2, <2>3, <2>4 DEF ReadResponse, LinkTypeOK, ClientTypeOK, tablesOf
<1>10. CASE ReadBadFrame(t)
  <2>1. responses' \in [Clients -> Seq(Response)] /\ stray' \in [Clients -> BOOLEAN]
    <3>1. CASE UNCHANGED <<responses, stray>>
      BY <3>1 DEF LinkTypeOK
    <3>2. CASE /\ responses[c] # <<>>
               /\ responses' = [responses EXCEPT ![c] = Tail(@)]
               /\ stray' = [stray EXCEPT ![c] = TRUE]
      <4>1. Tail(responses[c]) \in Seq(Response)
        BY <1>1, <3>2, HeadTailProperties DEF LinkTypeOK
      <4> QED
        BY <3>2, <4>1 DEF LinkTypeOK
    <3> QED
      BY <1>10, <3>1, <3>2 DEF ReadBadFrame
  <2> QED
    BY <1>7, <1>10, <2>1 DEF ReadBadFrame
<1>11. CASE ReadStray(t)
  <2>1. PICK h \in Calls, ok \in BOOLEAN :
          reply' = [reply EXCEPT ![t] = [n |-> 0, ok |-> ok, handle |-> h, len |-> call[t].len]]
    BY <1>11 DEF ReadStray
  <2>2. call[t] \in Request
    BY <1>11 DEF ReadStray, CallHasRequest, InCall
  <2>3. [n |-> 0, ok |-> ok, handle |-> h, len |-> call[t].len] \in Response
    BY <2>1, <2>2 DEF Request, Response, Handles, Calls
  <2>4. reply' \in [Threads -> Response]
    BY <2>1, <2>3 DEF ClientTypeOK
  <2>5. lock' \in [Clients -> Threads \cup {NoThread}]
    BY <1>1, <1>11 DEF ReadStray, Unlock, ClientTypeOK
  <2>6. pc' \in [Threads -> PCs] /\ CallHasRequest'
    BY <1>11, GotoTypes DEF ReadStray, InCall
  <2> QED
    BY <1>2, <1>11, <2>4, <2>5, <2>6 DEF ReadStray, LinkTypeOK, ClientTypeOK, link, tablesOf
<1>12. CASE ReadFails(t)
  BY <1>7, <1>12 DEF ReadFails, LinkTypeOK
<1>13. CASE CompleteFailed(t)
  BY <1>2, <1>13, ReturnTypes DEF CompleteFailed, LinkTypeOK, ClientTypeOK, link, tablesOf
<1>14. CASE Complete(t)
  <2>1. Got(t) \in Entry
    BY DEF Got, ClientTypeOK, Response, Entry
  <2>2. ranges' \in [Clients -> SUBSET Entry]
    BY <1>1, <1>14, <2>1 DEF Complete, ClientTypeOK
  <2>3. fatbins' \in [Clients -> SUBSET Entry]
    BY <1>1, <1>14, <2>1 DEF Complete, ClientTypeOK
  <2>4. functions' \in [Clients -> [Hosts -> Entry]]
    BY <1>1, <1>14, <2>1 DEF Complete, ClientTypeOK
  <2>5. UNCHANGED <<link, lock, calls>> /\ Return(t, "ok")
    BY <1>14 DEF Complete
  <2> QED
    BY <1>2, <2>2, <2>3, <2>4, <2>5, ReturnTypes DEF LinkTypeOK, ClientTypeOK, link
<1> QED
  BY <1>3, <1>4, <1>5, <1>6, <1>8, <1>9, <1>10, <1>11, <1>12, <1>13, <1>14 DEF Continue

LEMMA ExitTypes ==
  ASSUME TInv, NEW c \in Clients, Exit(c), UNCHANGED daemonVars
  PROVE  TInv'
<1> USE DEF TInv, TypeOK, Exit
<1>1. LinkTypeOK'
  BY DEF Drop, LinkTypeOK
<1>2. NoReply \in Response /\ NoEntry \in Entry
  BY DEF NoReply, NoEntry, Response, Entry
<1>3. /\ pc' \in [Threads -> PCs]
      /\ CallHasRequest'
  BY DEF ClientTypeOK, CallHasRequest, InCall, PCs
<1>4. /\ lock' \in [Clients -> Threads \cup {NoThread}]
      /\ functions' \in [Clients -> [Hosts -> Entry]]
      /\ call' \in [Threads -> Request \cup {NoRequest}]
      /\ reply' \in [Threads -> Response]
      /\ result' \in [Threads -> {"none", "ok", "failed"}]
  BY <1>2 DEF Unlock, ClientTypeOK
<1> QED
  BY <1>1, <1>3, <1>4 DEF ClientTypeOK, DaemonTypeOK, daemonVars

(* Running a request, whatever its outcome. *)
LEMMA RunTypes ==
  ASSUME TInv, NEW c \in Clients, NEW r, NEW ok \in BOOLEAN, NEW handle \in Handles \cup {0},
         NEW len, len \in {0, r.len}, Run(c, r, ok, handle, len)
  PROVE  /\ LinkTypeOK'
         /\ r \in Request
         /\ answer' \in Response
         /\ runs' \in [Calls -> Nat]
         /\ UNCHANGED <<daemon, crashes>>
<1> USE DEF TInv, TypeOK
<1>1. /\ r \in Request
      /\ Tail(requests[c]) \in Seq(Request)
  BY HeadTailProperties DEF Run, Reading, LinkTypeOK
<1>2. LinkTypeOK'
  BY <1>1 DEF Run, LinkTypeOK
<1>3. answer' \in Response
  BY <1>1 DEF Run, Request, Response
<1>4. runs' \in [Calls -> Nat]
  BY <1>1 DEF Run, Request, DaemonTypeOK
<1> QED
  BY <1>1, <1>2, <1>3, <1>4 DEF Run

LEMMA InsertTypes ==
  ASSUME TInv, NEW k \in Kinds, NEW obj \in Calls, Insert(k, obj)
  PROVE  tables' \in [Kinds -> SUBSET Item] /\ next_id' \in [Kinds -> Handles]
<1>1. next_id[k] \in Handles /\ next_id[k] + 1 \in Handles
  BY DEF TInv, TypeOK, DaemonTypeOK, Handles
<1>2. [handle |-> next_id[k], obj |-> obj] \in Item
  BY <1>1 DEF Item
<1> QED
  BY <1>1, <1>2 DEF Insert, FreshHandle, TInv, TypeOK, DaemonTypeOK

LEMMA ServeTypes ==
  ASSUME TInv, Serve, UNCHANGED clientVars
  PROVE  TInv'
<1> USE DEF TInv, TypeOK
<1>1. ClientTypeOK' /\ CallHasRequest'
  BY DEF ClientTypeOK, CallHasRequest, clientVars
<1>2. NoAnswer \in Response
  BY DEF NoAnswer, Response
<1>3. ASSUME NEW c \in Clients
      PROVE  [requests EXCEPT ![c] = <<>>] \in [Clients -> Seq(Request)]
  BY EmptySeq DEF LinkTypeOK
<1>4. CASE Accept
  <2>1. Head(backlog) \in Clients /\ Tail(backlog) \in Seq(Clients)
    BY <1>4, HeadTailProperties DEF Accept, LinkTypeOK
  <2> QED
    BY <1>1, <1>4, <2>1 DEF Accept, LinkTypeOK, DaemonTypeOK, daemonVars
<1>5. ASSUME NEW c \in Clients, RefuseRequest(c) PROVE TInv'
  BY <1>1, <1>3, <1>5 DEF RefuseRequest, CloseServed, LinkTypeOK, DaemonTypeOK, daemonVars
<1>6. ASSUME NEW c \in Clients, RunCreate(c) PROVE TInv'
  <2>1. PICK r : /\ r.op \in DOMAIN Creates
                 /\ Run(c, r, TRUE, FreshHandle(Creates[r.op]), 0)
                 /\ Insert(Creates[r.op], r.n)
    BY <1>6 DEF RunCreate
  <2>2. Creates[r.op] \in Kinds
    BY <2>1 DEF Creates, Kinds
  <2>3. FreshHandle(Creates[r.op]) \in Handles \cup {0}
    BY <2>2 DEF FreshHandle, DaemonTypeOK
  <2>4. /\ LinkTypeOK' /\ r \in Request /\ answer' \in Response
        /\ runs' \in [Calls -> Nat] /\ UNCHANGED <<daemon, crashes>>
    BY <2>1, <2>3, RunTypes
  <2>5. r.n \in Calls
    BY <2>4 DEF Request
  <2> QED
    BY <1>1, <2>1, <2>2, <2>4, <2>5, InsertTypes DEF DaemonTypeOK
<1>7. ASSUME NEW c \in Clients, RunFree(c) PROVE TInv'
  <2>1. PICK r \in {requests[c][i] : i \in DOMAIN requests[c]}, ok \in BOOLEAN :
          Run(c, r, ok, 0, 0) /\ Remove(r.uses) /\ UNCHANGED next_id
    BY <1>7 DEF RunFree
  <2>2. /\ LinkTypeOK' /\ r \in Request /\ answer' \in Response
        /\ runs' \in [Calls -> Nat] /\ UNCHANGED <<daemon, crashes>>
    BY <2>1, RunTypes
  <2>3. tables' \in [Kinds -> SUBSET Item]
    BY <2>1 DEF Remove, DaemonTypeOK
  <2> QED
    BY <1>1, <2>1, <2>2, <2>3 DEF DaemonTypeOK
<1>8. ASSUME NEW c \in Clients, RunUse(c) PROVE TInv'
  <2>1. PICK r : /\ Run(c, r, TRUE, 0, IF r.op = "d2h" THEN r.len ELSE 0)
                 /\ UNCHANGED <<tables, next_id>>
    BY <1>8 DEF RunUse
  <2>2. /\ LinkTypeOK' /\ r \in Request /\ answer' \in Response
        /\ runs' \in [Calls -> Nat] /\ UNCHANGED <<daemon, crashes>>
    BY <2>1, RunTypes
  <2> QED
    BY <1>1, <2>1, <2>2 DEF DaemonTypeOK
<1>9. ASSUME NEW c \in Clients, RunFails(c) PROVE TInv'
  <2>1. PICK r : /\ Run(c, r, FALSE, 0, 0)
                 /\ UNCHANGED <<tables, next_id>>
    BY <1>9 DEF RunFails
  <2>2. /\ LinkTypeOK' /\ r \in Request /\ answer' \in Response
        /\ runs' \in [Calls -> Nat] /\ UNCHANGED <<daemon, crashes>>
    BY <2>1, RunTypes
  <2> QED
    BY <1>1, <2>1, <2>2 DEF DaemonTypeOK
<1>10. ASSUME NEW c \in Clients, WriteResponse(c) PROVE TInv'
  <2>1. responses' \in [Clients -> Seq(Response)]
    BY <1>10, AppendProperties DEF WriteResponse, LinkTypeOK, DaemonTypeOK
  <2> QED
    BY <1>1, <1>2, <1>10, <2>1 DEF WriteResponse, LinkTypeOK, DaemonTypeOK
<1>11. ASSUME NEW c \in Clients, EndOfStream(c) PROVE TInv'
  BY <1>1, <1>2, <1>3, <1>11 DEF EndOfStream, CloseServed, LinkTypeOK, DaemonTypeOK
<1> QED
  BY <1>4, <1>5, <1>6, <1>7, <1>8, <1>9, <1>10, <1>11 DEF Serve

LEMMA CrashTypes ==
  ASSUME TInv, Crash \/ Restart, UNCHANGED clientVars
  PROVE  TInv'
<1> USE DEF TInv, TypeOK
<1>1. ClientTypeOK' /\ CallHasRequest'
  BY DEF ClientTypeOK, CallHasRequest, clientVars
<1>2. NoAnswer \in Response /\ 1 \in Handles
  BY DEF NoAnswer, Response, Handles
<1>3. CASE Crash
  <2>1. LinkTypeOK'
    BY <1>3, EmptySeq DEF Crash, LinkTypeOK
  <2>2. crashes' \in 0 .. MaxCrashes
    BY <1>3, DaemonAssumption DEF Crash, DaemonTypeOK
  <2> QED
    BY <1>1, <1>2, <1>3, <2>1, <2>2 DEF Crash, DaemonTypeOK
<1>4. CASE Restart
  BY <1>1, <1>4 DEF Restart, LinkTypeOK, DaemonTypeOK, link
<1> QED
  BY <1>3, <1>4

LEMMA StepTypes == TInv /\ [Next]_vars => TInv'
<1> SUFFICES ASSUME TInv, [Next]_vars PROVE TInv'
  OBVIOUS
<1>1. CASE UNCHANGED vars
  BY <1>1 DEF vars, link, clientVars, daemonVars, TInv, TypeOK, LinkTypeOK, ClientTypeOK,
              DaemonTypeOK, CallHasRequest
<1>2. ASSUME NEW t \in Threads, ClientStep(t) PROVE TInv'
  BY <1>2, BeginCallTypes, ContinueTypes DEF ClientStep
<1>3. ASSUME NEW c \in Clients, ClientExit(c) PROVE TInv'
  BY <1>3, ExitTypes DEF ClientExit
<1>4. CASE DaemonStep
  BY <1>4, ServeTypes, CrashTypes DEF DaemonStep
<1> QED
  BY <1>1, <1>2, <1>3, <1>4 DEF Next

(* Every state of the bridge is one its two programs and their connections can
   be in: frames that are frames, handles that are positive, requests only in
   calls. *)
THEOREM TypeCorrect == Spec => []TypeOK
<1>1. TInv => TypeOK
  BY DEF TInv
<1> QED
  BY <1>1, InitTypes, StepTypes, PTL DEF Spec

-----------------------------------------------------------------------------
(***************************************************************************)
(* One call in flight per connection                                       *)
(***************************************************************************)
(* No body is too long for its 32-bit length: see the finding. *)
BodiesFit == \A len \in Lens : len < FrameMod

Answering(c) == serving = c /\ answer # NoAnswer

Quiet(c) == requests[c] = <<>> /\ responses[c] = <<>> /\ ~Answering(c)

(* Call n is all there is on the connection: its request, the answer the daemon
   has not written yet, or its response. *)
OnlyRequest(c, n) ==
  /\ requests[c] # <<>>
  /\ Head(requests[c]).n = n
  /\ Tail(requests[c]) = <<>>
  /\ responses[c] = <<>>
  /\ ~Answering(c)

OnlyAnswer(c, n) ==
  /\ Answering(c)
  /\ answer.n = n
  /\ requests[c] = <<>>
  /\ responses[c] = <<>>

OnlyResponse(c, n) ==
  /\ responses[c] # <<>>
  /\ Head(responses[c]).n = n
  /\ Tail(responses[c]) = <<>>
  /\ requests[c] = <<>>
  /\ ~Answering(c)

InFlight(c, n) == OnlyRequest(c, n) \/ OnlyAnswer(c, n) \/ OnlyResponse(c, n)

Awaited(c) == \E t \in Threads : Home[t] = c /\ pc[t] = "read" /\ InFlight(c, call[t].n)

InStep(c) == client_end[c] = "open" => ~stray[c] /\ (Quiet(c) \/ Awaited(c))

OneInFlight == \A c \in Clients : InStep(c)

(* Who writes or reads holds the mutex, and the connection is there. *)
LockOwned ==
  \A t \in Threads : pc[t] \in {"write", "read"} =>
    lock[Home[t]] = t /\ client_end[Home[t]] = "open"

(* Before a client connects there is nothing of it anywhere. *)
UnsetIsQuiet == \A c \in Clients : client_end[c] = "unset" => Quiet(c) /\ ~stray[c] /\ ~Connected(c)

AnswerHasServer == answer # NoAnswer => serving # NoClient

MInv == LockOwned /\ UnsetIsQuiet /\ AnswerHasServer /\ OneInFlight /\ OwnResponse

LEMMA InitMatch == Init => MInv
<1> SUFFICES ASSUME Init PROVE MInv
  OBVIOUS
<1>1. \A c \in Clients : Quiet(c) /\ ~stray[c] /\ ~Connected(c)
  <2>1. backlog = <<>> /\ serving = NoClient
    BY DEF Init, LinkInit
  <2>2. DOMAIN backlog = {}
    BY <2>1
  <2>3. \A c \in Clients : ~Connected(c)
    BY <2>1, <2>2, LinkAssumption DEF Connected
  <2> QED
    BY <2>3, LinkAssumption DEF Init, LinkInit, Quiet, Answering
<1>2. \A t \in Threads : pc[t] = "idle"
  BY DEF Init, ClientInit
<1>3. answer = NoAnswer
  BY DEF Init, DaemonInit
<1> QED
  BY <1>1, <1>2, <1>3 DEF MInv, LockOwned, UnsetIsQuiet, AnswerHasServer, OneInFlight, InStep, OwnResponse

(* A connection stays in step when nothing on it changes and whoever reads from
   it goes on reading. *)
LEMMA StaysInStep ==
  ASSUME NEW c \in Clients, InStep(c),
         client_end'[c] = client_end[c], stray'[c] = stray[c],
         requests'[c] = requests[c], responses'[c] = responses[c],
         Answering(c)' <=> Answering(c), Answering(c) => answer' = answer,
         \A t \in Threads : Home[t] = c /\ pc[t] = "read" => pc'[t] = "read" /\ call'[t] = call[t]
  PROVE  InStep(c)'
<1> SUFFICES ASSUME client_end[c] = "open" PROVE (~stray[c] /\ (Quiet(c) \/ Awaited(c)))'
  BY DEF InStep
<1>1. ~stray[c]
  BY DEF InStep
<1>2. CASE Quiet(c)
  BY <1>1, <1>2 DEF Quiet
<1>3. CASE Awaited(c)
  <2>1. PICK t \in Threads : Home[t] = c /\ pc[t] = "read" /\ InFlight(c, call[t].n)
    BY <1>3 DEF Awaited
  <2>2. pc'[t] = "read" /\ call'[t] = call[t]
    BY <2>1
  <2>3. CASE OnlyRequest(c, call[t].n)
    BY <1>1, <2>1, <2>2, <2>3 DEF OnlyRequest, InFlight, Awaited
  <2>4. CASE OnlyAnswer(c, call[t].n)
    BY <1>1, <2>1, <2>2, <2>4 DEF OnlyAnswer, InFlight, Awaited
  <2>5. CASE OnlyResponse(c, call[t].n)
    BY <1>1, <2>1, <2>2, <2>5 DEF OnlyResponse, InFlight, Awaited
  <2> QED
    BY <2>1, <2>3, <2>4, <2>5 DEF InFlight
<1> QED
  BY <1>2, <1>3 DEF InStep

(* Steps of a thread that touch neither the connection nor its lock. *)
LEMMA LocalMatch ==
  ASSUME TInv, MInv, NEW t \in Threads, UNCHANGED <<link, lock>>, UNCHANGED daemonVars,
         pc[t] # "read", pc'[t] \notin {"write", "read", "done"},
         \A u \in Threads \ {t} : pc'[u] = pc[u] /\ call'[u] = call[u] /\ reply'[u] = reply[u]
  PROVE  MInv'
<1> USE DEF link, daemonVars
<1>1. OneInFlight'
  <2> SUFFICES ASSUME NEW c \in Clients PROVE InStep(c)'
    BY DEF OneInFlight
  <2>1. InStep(c)
    BY DEF MInv, OneInFlight
  <2>2. \A u \in Threads : Home[u] = c /\ pc[u] = "read" => pc'[u] = "read" /\ call'[u] = call[u]
    OBVIOUS
  <2> QED
    BY <2>1, <2>2, StaysInStep DEF Answering
<1>2. LockOwned'
  BY DEF MInv, LockOwned
<1>3. UnsetIsQuiet'
  BY DEF MInv, UnsetIsQuiet, Quiet, Answering, Connected
<1>4. AnswerHasServer'
  BY DEF MInv, AnswerHasServer
<1>5. OwnResponse'
  BY DEF MInv, OwnResponse
<1> QED
  BY <1>1, <1>2, <1>3, <1>4, <1>5 DEF MInv

LEMMA BeginCallMatch ==
  ASSUME TInv, MInv, NEW t \in Threads, BeginCall(t), UNCHANGED daemonVars
  PROVE  MInv'
<1>1. PICK op, uses, len : Begin(t, op, uses, len)
  BY DEF BeginCall, BeginPlain, BeginFree, BeginCopy, BeginLoad, BeginGetFunction, BeginLaunch
<1>2. /\ pc[t] = "idle" /\ pc' = [pc EXCEPT ![t] = "lock"]
      /\ UNCHANGED <<link, lock, reply>>
      /\ \A u \in Threads \ {t} : call'[u] = call[u]
  BY <1>1 DEF Begin, Goto, TInv, TypeOK, ClientTypeOK
<1>3. pc'[t] = "lock" /\ \A u \in Threads \ {t} : pc'[u] = pc[u] /\ reply'[u] = reply[u]
  BY <1>2 DEF TInv, TypeOK, ClientTypeOK
<1> QED
  BY <1>2, <1>3, LocalMatch

(* A thread closes the connection it holds, and its call fails. *)
LEMMA DropMatch ==
  ASSUME TInv, MInv, NEW t \in Threads, NEW c, c = Home[t], lock[c] = t,
         Drop(c), Unlock(c), Return(t, "failed"), UNCHANGED <<serving, backlog, requests>>,
         UNCHANGED daemonVars,
         \A d \in Clients \ {c} : responses'[d] = responses[d] /\ stray'[d] = stray[d]
  PROVE  MInv'
<1> USE DEF daemonVars
<1>1. /\ c \in Clients
      /\ client_end'[c] = "closed"
      /\ \A d \in Clients \ {c} : client_end'[d] = client_end[d] /\ lock'[d] = lock[d]
  BY ClientAssumption DEF Drop, Unlock, TInv, TypeOK, LinkTypeOK, ClientTypeOK
<1>2. /\ pc'[t] = "idle"
      /\ \A u \in Threads \ {t} : pc'[u] = pc[u] /\ call'[u] = call[u] /\ reply'[u] = reply[u]
  BY DEF Return, Goto, TInv, TypeOK, ClientTypeOK
<1>3. OneInFlight'
  <2> SUFFICES ASSUME NEW d \in Clients, d # c PROVE InStep(d)'
    BY <1>1 DEF OneInFlight, InStep
  <2>1. InStep(d)
    BY DEF MInv, OneInFlight
  <2>2. \A u \in Threads : Home[u] = d /\ pc[u] = "read" => pc'[u] = "read" /\ call'[u] = call[u]
    BY <1>2
  <2> QED
    BY <1>1, <2>1, <2>2, StaysInStep DEF Answering
<1>4. LockOwned'
  <2> SUFFICES ASSUME NEW u \in Threads, pc'[u] \in {"write", "read"}
               PROVE lock'[Home[u]] = u /\ client_end'[Home[u]] = "open"
    BY DEF LockOwned
  <2>1. u # t /\ pc[u] \in {"write", "read"}
    BY <1>2
  <2>2. lock[Home[u]] = u /\ client_end[Home[u]] = "open"
    BY <2>1 DEF MInv, LockOwned
  <2> QED
    BY <1>1, <2>1, <2>2, ClientAssumption
<1>5. UnsetIsQuiet'
  BY <1>1 DEF MInv, UnsetIsQuiet, Quiet, Answering, Connected
<1>6. AnswerHasServer'
  BY DEF MInv, AnswerHasServer
<1>7. OwnResponse'
  BY <1>2 DEF MInv, OwnResponse
<1> QED
  BY <1>3, <1>4, <1>5, <1>6, <1>7 DEF MInv

(* Whoever holds the mutex is the only one reading or writing. *)
LEMMA OneReader ==
  ASSUME MInv, NEW t \in Threads, NEW u \in Threads,
         pc[t] \in {"write", "read"}, pc[u] \in {"write", "read"}, Home[t] = Home[u]
  PROVE  t = u
BY DEF MInv, LockOwned

LEMMA ConnectMatch ==
  ASSUME TInv, MInv, NEW t \in Threads, NEW listening \in BOOLEAN, Connect(t, listening),
         UNCHANGED daemonVars
  PROVE  MInv'
<1> DEFINE c == Home[t]
<1> USE DEF Connect, clientVars, daemonVars
<1>1. /\ c \in Clients
      /\ client_end[c] = "unset" /\ client_end'[c] # "unset"
      /\ \A d \in Clients \ {c} : client_end'[d] = client_end[d]
  BY ClientAssumption DEF TInv, TypeOK, LinkTypeOK
<1>2. Quiet(c) /\ ~stray[c]
  BY <1>1 DEF MInv, UnsetIsQuiet
<1>3. OneInFlight'
  <2> SUFFICES ASSUME NEW d \in Clients PROVE InStep(d)'
    BY DEF OneInFlight
  <2>1. CASE d = c
    BY <1>2, <2>1 DEF InStep, Quiet, Answering
  <2>2. CASE d # c
    BY <1>1, <2>2, StaysInStep DEF MInv, OneInFlight, Answering
  <2> QED
    BY <2>1, <2>2
<1>4. LockOwned'
  BY <1>1, ClientAssumption DEF MInv, LockOwned
<1>5. UnsetIsQuiet'
  <2> SUFFICES ASSUME NEW d \in Clients, client_end'[d] = "unset"
               PROVE (Quiet(d) /\ ~stray[d] /\ ~Connected(d))'
    BY DEF UnsetIsQuiet
  <2>1. d # c /\ Quiet(d) /\ ~stray[d] /\ ~Connected(d)
    BY <1>1 DEF MInv, UnsetIsQuiet
  <2>2. Quiet(d)' /\ ~stray'[d]
    BY <2>1 DEF Quiet, Answering
  <2>3. CASE backlog' = backlog
    BY <2>1, <2>2, <2>3 DEF Connected
  <2>4. CASE backlog' = Append(backlog, c)
    <3>1. /\ backlog' \in Seq(Clients) /\ Len(backlog') = Len(backlog) + 1
          /\ \A i \in 1 .. Len(backlog) : backlog'[i] = backlog[i]
          /\ backlog'[Len(backlog) + 1] = c
          /\ Len(backlog) \in Nat
      BY <1>1, <2>4, AppendProperties, LenProperties DEF TInv, TypeOK, LinkTypeOK
    <3>2. \A i \in DOMAIN backlog' : backlog'[i] = c \/ (i \in DOMAIN backlog /\ backlog'[i] = backlog[i])
      BY <3>1, LenProperties DEF TInv, TypeOK, LinkTypeOK
    <3> QED
      BY <2>1, <2>2, <3>2 DEF Connected
  <2> QED
    BY <2>3, <2>4
<1>6. AnswerHasServer' /\ OwnResponse'
  BY DEF MInv, AnswerHasServer, OwnResponse
<1> QED
  BY <1>3, <1>4, <1>5, <1>6 DEF MInv

LEMMA AcquireMatch ==
  ASSUME TInv, MInv, NEW t \in Threads, Acquire(t), UNCHANGED daemonVars
  PROVE  MInv'
<1> DEFINE c == Home[t]
<1> USE DEF Acquire, link, daemonVars
<1>1. /\ c \in Clients /\ client_end[c] = "open" /\ lock[c] = NoThread
      /\ lock'[c] = t
      /\ \A d \in Clients \ {c} : lock'[d] = lock[d]
      /\ pc[t] = "lock" /\ pc'[t] = "write"
      /\ \A u \in Threads \ {t} : pc'[u] = pc[u]
  BY ClientAssumption DEF MayLock, Goto, TInv, TypeOK, ClientTypeOK
<1>2. OneInFlight'
  BY <1>1, StaysInStep DEF MInv, OneInFlight, Answering
<1>3. LockOwned'
  <2> SUFFICES ASSUME NEW u \in Threads, pc'[u] \in {"write", "read"}
               PROVE lock'[Home[u]] = u /\ client_end'[Home[u]] = "open"
    BY DEF LockOwned
  <2>1. CASE u = t
    BY <1>1, <2>1
  <2>2. CASE u # t
    <3>1. lock[Home[u]] = u /\ client_end[Home[u]] = "open"
      BY <1>1, <2>2 DEF MInv, LockOwned
    <3> QED
      BY <1>1, <3>1, ClientAssumption
  <2> QED
    BY <2>1, <2>2
<1>4. UnsetIsQuiet'
  BY DEF MInv, UnsetIsQuiet, Quiet, Answering, Connected
<1>5. AnswerHasServer' /\ OwnResponse'
  BY <1>1 DEF MInv, AnswerHasServer, OwnResponse
<1> QED
  BY <1>2, <1>3, <1>4, <1>5 DEF MInv

(* The holder finds the connection quiet, for nobody is reading from it. *)
LEMMA WriteMatch ==
  ASSUME TInv, MInv, NEW t \in Threads, WriteRequest(t), UNCHANGED daemonVars
  PROVE  MInv'
<1> DEFINE c == Home[t]
<1> USE DEF WriteRequest, tablesOf, daemonVars
<1>1. /\ c \in Clients /\ client_end[c] = "open"
      /\ pc[t] = "write" /\ pc'[t] = "read"
      /\ \A u \in Threads \ {t} : pc'[u] = pc[u]
  BY ClientAssumption DEF Goto, TInv, TypeOK, ClientTypeOK, MInv, LockOwned
<1>2. ~Awaited(c)
  BY <1>1, OneReader DEF Awaited
<1>3. Quiet(c) /\ ~stray[c]
  BY <1>1, <1>2 DEF MInv, OneInFlight, InStep
<1>4. /\ requests'[c] = requests[c] \/ requests'[c] = Append(requests[c], call[t])
      /\ \A d \in Clients \ {c} : requests'[d] = requests[d]
  BY <1>1 DEF TInv, TypeOK, LinkTypeOK
<1>5. OneInFlight'
  <2> SUFFICES ASSUME NEW d \in Clients PROVE InStep(d)'
    BY DEF OneInFlight
  <2>1. CASE d # c
    BY <1>1, <1>4, <2>1, StaysInStep DEF MInv, OneInFlight, Answering
  <2>2. CASE d = c /\ requests'[c] = requests[c]
    BY <1>3, <2>2 DEF InStep, Quiet, Answering
  <2>3. CASE d = c /\ requests'[c] = Append(requests[c], call[t])
    <3>1. requests[c] = <<>> /\ requests[c] \in Seq(Request) /\ call[t] \in Request
      BY <1>1, <1>3 DEF Quiet, TInv, TypeOK, LinkTypeOK, CallHasRequest, InCall
    <3>2. requests'[c] # <<>> /\ Head(requests'[c]) = call[t] /\ Tail(requests'[c]) = <<>>
      BY <2>3, <3>1, AppendProperties, HeadTailAppend
    <3>3. OnlyRequest(c, call[t].n)'
      BY <1>3, <3>2 DEF OnlyRequest, Quiet, Answering
    <3>4. Awaited(c)'
      BY <1>1, <3>3 DEF Awaited, InFlight
    <3> QED
      BY <1>3, <2>3, <3>4 DEF InStep
  <2> QED
    BY <1>4, <2>1, <2>2, <2>3
<1>6. LockOwned'
  BY <1>1 DEF MInv, LockOwned
<1>7. UnsetIsQuiet'
  BY <1>1, <1>4 DEF MInv, UnsetIsQuiet, Quiet, Answering, Connected
<1>8. AnswerHasServer' /\ OwnResponse'
  BY <1>1 DEF MInv, AnswerHasServer, OwnResponse
<1> QED
  BY <1>5, <1>6, <1>7, <1>8 DEF MInv

(* The response read is the only frame there is, so it is this call's, and the
   connection is quiet after it. *)
LEMMA ReadMatch ==
  ASSUME BodiesFit, TInv, MInv, NEW t \in Threads, ReadResponse(t), UNCHANGED daemonVars
  PROVE  MInv'
<1> DEFINE c == Home[t]
<1> USE DEF ReadResponse, tablesOf, daemonVars
<1>0. /\ DOMAIN pc = Threads /\ DOMAIN reply = Threads
      /\ DOMAIN lock = Clients /\ DOMAIN responses = Clients /\ DOMAIN stray = Clients
      /\ c \in Clients /\ pc[t] = "read"
  BY ClientAssumption DEF TInv, TypeOK, LinkTypeOK, ClientTypeOK
<1>a. client_end[c] = "open" /\ lock[c] = t
  BY <1>0 DEF MInv, LockOwned
<1>1. /\ c \in Clients /\ client_end[c] = "open" /\ lock[c] = t
      /\ lock'[c] = NoThread
      /\ \A d \in Clients \ {c} : /\ lock'[d] = lock[d]
                                  /\ responses'[d] = responses[d]
                                  /\ stray'[d] = stray[d]
      /\ pc[t] = "read" /\ pc'[t] = "done"
      /\ \A u \in Threads \ {t} : pc'[u] = pc[u] /\ reply'[u] = reply[u]
  BY <1>0, <1>a DEF Goto, Unlock
<1>2. OnlyResponse(c, call[t].n)
  <2>1. ~Quiet(c)
    BY DEF Quiet
  <2>2. PICK u \in Threads : Home[u] = c /\ pc[u] = "read" /\ InFlight(c, call[u].n)
    BY <1>1, <2>1 DEF MInv, OneInFlight, InStep, Awaited
  <2>3. u = t
    BY <1>1, <2>2, OneReader
  <2> QED
    BY <2>2, <2>3 DEF InFlight, OnlyRequest, OnlyAnswer
<1>3. Quiet(c)'
  BY <1>1, <1>2 DEF OnlyResponse, Quiet, Answering, TInv, TypeOK, LinkTypeOK
<1>4. ~stray'[c]
  <2>1. Head(responses[c]) \in Response
    BY <1>1, HeadTailProperties DEF TInv, TypeOK, LinkTypeOK
  <2>2. Head(responses[c]).len \in Lens \cup {0}
    BY <2>1 DEF Response
  <2>3. /\ FrameMod \in Nat \ {0}
        /\ \A l \in Lens \cup {0} : l \in 0 .. FrameMod - 1 /\ l % FrameMod = l
    BY LinkAssumption DEF BodiesFit
  <2>4. Declared(Head(responses[c]).len) = Head(responses[c]).len
    BY <2>2, <2>3 DEF Declared
  <2> QED
    BY <1>1, <2>4 DEF TInv, TypeOK, LinkTypeOK
<1>5. OneInFlight'
  <2> SUFFICES ASSUME NEW d \in Clients PROVE InStep(d)'
    BY DEF OneInFlight
  <2>1. CASE d # c
    BY <1>1, <2>1, StaysInStep DEF MInv, OneInFlight, Answering
  <2>2. CASE d = c
    BY <1>3, <1>4, <2>2 DEF InStep
  <2> QED
    BY <2>1, <2>2
<1>6. LockOwned'
  <2> SUFFICES ASSUME NEW u \in Threads, pc'[u] \in {"write", "read"}
               PROVE lock'[Home[u]] = u /\ client_end'[Home[u]] = "open"
    BY DEF LockOwned
  <2>1. u # t /\ pc[u] \in {"write", "read"}
    BY <1>1
  <2>2. Home[u] # c
    BY <1>1, <2>1, OneReader
  <2> QED
    BY <1>1, <2>1, <2>2, ClientAssumption DEF MInv, LockOwned
<1>7. UnsetIsQuiet'
  BY <1>1 DEF MInv, UnsetIsQuiet, Quiet, Answering, Connected
<1>8. OwnResponse'
  <2>1. reply'[t].n = call[t].n
    BY <1>2 DEF OnlyResponse, TInv, TypeOK, ClientTypeOK
  <2> QED
    BY <1>1, <2>1 DEF MInv, OwnResponse
<1>9. AnswerHasServer'
  BY DEF MInv, AnswerHasServer
<1> QED
  BY <1>5, <1>6, <1>7, <1>8, <1>9 DEF MInv

LEMMA ReturnLocal ==
  ASSUME TInv, NEW t \in Threads, NEW v, Return(t, v)
  PROVE  /\ pc'[t] = "idle"
         /\ \A u \in Threads \ {t} : pc'[u] = pc[u] /\ call'[u] = call[u] /\ reply'[u] = reply[u]
BY DEF Return, Goto, TInv, TypeOK, ClientTypeOK

LEMMA ContinueMatch ==
  ASSUME BodiesFit, TInv, MInv, NEW t \in Threads, NEW listening \in BOOLEAN,
         Continue(t, listening), UNCHANGED daemonVars
  PROVE  MInv'
<1>1. pc[t] = "read" => ~stray[Home[t]]
  BY ClientAssumption DEF MInv, LockOwned, OneInFlight, InStep
<1>2. pc[t] \in {"write", "read"} => lock[Home[t]] = t
  BY DEF MInv, LockOwned
<1>3. CASE Connect(t, listening)
  BY <1>3, ConnectMatch
<1>4. CASE Acquire(t)
  BY <1>4, AcquireMatch
<1>5. CASE NotConnected(t)
  BY <1>5, ReturnLocal, LocalMatch DEF NotConnected
<1>6. CASE WriteRequest(t)
  BY <1>6, WriteMatch
<1>7. CASE WriteFails(t)
  BY <1>2, <1>7, DropMatch DEF WriteFails
<1>8. CASE ReadResponse(t)
  BY <1>8, ReadMatch
<1>9. CASE ReadBadFrame(t)
  <2>1. \A d \in Clients \ {Home[t]} : responses'[d] = responses[d] /\ stray'[d] = stray[d]
    BY <1>9 DEF ReadBadFrame, TInv, TypeOK, LinkTypeOK
  <2> QED
    BY <1>2, <1>9, <2>1, DropMatch DEF ReadBadFrame
<1>10. CASE ReadStray(t)
  BY <1>1, <1>10 DEF ReadStray
<1>11. CASE ReadFails(t)
  BY <1>2, <1>11, DropMatch DEF ReadFails
<1>12. CASE CompleteFailed(t)
  BY <1>12, ReturnLocal, LocalMatch DEF CompleteFailed
<1>13. CASE Complete(t)
  <2>1. UNCHANGED <<link, lock>> /\ pc[t] = "done" /\ Return(t, "ok")
    BY <1>13 DEF Complete
  <2> QED
    BY <2>1, ReturnLocal, LocalMatch
<1> QED
  BY <1>3, <1>4, <1>5, <1>6, <1>7, <1>8, <1>9, <1>10, <1>11, <1>12, <1>13 DEF Continue

LEMMA ExitMatch ==
  ASSUME TInv, MInv, NEW c \in Clients, Exit(c), UNCHANGED daemonVars
  PROVE  MInv'
<1> USE DEF Exit, daemonVars
<1>1. /\ client_end'[c] = "closed"
      /\ \A d \in Clients \ {c} : client_end'[d] = client_end[d] /\ lock'[d] = lock[d]
  BY DEF Drop, Unlock, TInv, TypeOK, LinkTypeOK, ClientTypeOK
<1>2. /\ \A u \in Threads : Home[u] = c => pc'[u] = "exited"
      /\ \A u \in Threads : Home[u] # c => pc'[u] = pc[u] /\ call'[u] = call[u] /\ reply'[u] = reply[u]
  OBVIOUS
<1>3. OneInFlight'
  <2> SUFFICES ASSUME NEW d \in Clients, d # c PROVE InStep(d)'
    BY <1>1 DEF OneInFlight, InStep
  <2> QED
    BY <1>1, <1>2, StaysInStep DEF MInv, OneInFlight, Answering
<1>4. LockOwned'
  BY <1>1, <1>2, ClientAssumption DEF MInv, LockOwned
<1>5. UnsetIsQuiet'
  BY <1>1 DEF MInv, UnsetIsQuiet, Quiet, Answering, Connected
<1>6. AnswerHasServer' /\ OwnResponse'
  BY <1>2 DEF MInv, AnswerHasServer, OwnResponse
<1> QED
  BY <1>3, <1>4, <1>5, <1>6 DEF MInv

-----------------------------------------------------------------------------
(* The daemon leaves the threads and their locks alone: what is left to show of
   its steps is about the connections. *)
LEMMA DaemonMatch ==
  ASSUME TInv, MInv, UNCHANGED clientVars, UNCHANGED <<client_end, stray>>,
         AnswerHasServer', OneInFlight', \A c \in Clients : client_end[c] = "unset" => Quiet(c)' /\ ~Connected(c)'
  PROVE  MInv'
BY DEF MInv, clientVars, LockOwned, UnsetIsQuiet, OwnResponse

(* What happens on the connection of one client leaves the others in step. *)
LEMMA OthersInStep ==
  ASSUME MInv, NEW c \in Clients, UNCHANGED clientVars, UNCHANGED <<client_end, stray>>,
         serving = c, serving' \in {c, NoClient}, InStep(c)',
         \A d \in Clients \ {c} : requests'[d] = requests[d] /\ responses'[d] = responses[d]
  PROVE  OneInFlight'
<1> SUFFICES ASSUME NEW d \in Clients, d # c PROVE InStep(d)'
  BY DEF OneInFlight
<1>1. ~Answering(d) /\ ~Answering(d)'
  BY LinkAssumption DEF Answering
<1> QED
  BY <1>1, StaysInStep DEF MInv, OneInFlight, clientVars

LEMMA UnsetStaysQuiet ==
  ASSUME MInv, NEW c \in Clients, UNCHANGED <<client_end, backlog>>,
         serving = c, serving' \in {c, NoClient},
         \A d \in Clients \ {c} : requests'[d] = requests[d] /\ responses'[d] = responses[d]
  PROVE  \A d \in Clients : client_end[d] = "unset" => Quiet(d)' /\ ~Connected(d)'
<1> SUFFICES ASSUME NEW d \in Clients, client_end[d] = "unset" PROVE Quiet(d)' /\ ~Connected(d)'
  OBVIOUS
<1>1. Quiet(d) /\ ~Connected(d)
  BY DEF MInv, UnsetIsQuiet
<1>2. d # c
  BY <1>1 DEF Connected
<1> QED
  BY <1>1, <1>2, LinkAssumption DEF Quiet, Answering, Connected

LEMMA RunMatch ==
  ASSUME TInv, MInv, UNCHANGED clientVars, NEW c \in Clients, NEW r, NEW ok \in BOOLEAN,
         NEW handle \in Handles \cup {0}, NEW len, len \in {0, r.len}, Run(c, r, ok, handle, len)
  PROVE  MInv'
<1> USE DEF Run, Reading
<1>1. r \in Request
  BY RunTypes
<1>2. answer'.n = r.n /\ answer' # NoAnswer
  BY <1>1 DEF Request, NoAnswer, Calls
<1>3. /\ requests'[c] = Tail(requests[c])
      /\ \A d \in Clients \ {c} : requests'[d] = requests[d]
  BY DEF TInv, TypeOK, LinkTypeOK
<1>4. InStep(c)'
  <2> SUFFICES ASSUME client_end[c] = "open" PROVE ~stray[c] /\ Awaited(c)'
    BY DEF InStep
  <2>1. ~stray[c] /\ ~Quiet(c)
    BY DEF MInv, OneInFlight, InStep, Quiet
  <2>2. PICK t \in Threads : Home[t] = c /\ pc[t] = "read" /\ InFlight(c, call[t].n)
    BY <2>1 DEF MInv, OneInFlight, InStep, Awaited
  <2>3. OnlyRequest(c, call[t].n)
    BY <2>2 DEF InFlight, OnlyAnswer, OnlyResponse
  <2>4. OnlyAnswer(c, call[t].n)'
    BY <1>2, <1>3, <2>3 DEF OnlyRequest, OnlyAnswer, Answering, clientVars
  <2> QED
    BY <2>1, <2>2, <2>4 DEF Awaited, InFlight, clientVars
<1>5. AnswerHasServer'
  BY LinkAssumption DEF AnswerHasServer
<1> QED
  BY <1>3, <1>4, <1>5, DaemonMatch, OthersInStep, UnsetStaysQuiet

(* The daemon closes the connection it serves, and what is on it is lost. *)
LEMMA CloseMatch ==
  ASSUME TInv, MInv, UNCHANGED clientVars, NEW c \in Clients, serving = c, CloseServed(c),
         requests' = [requests EXCEPT ![c] = <<>>], answer' = NoAnswer,
         UNCHANGED <<client_end, responses, stray>>,
         client_end[c] = "open" => ~Answering(c) /\ requests[c] # <<>>
  PROVE  MInv'
<1> USE DEF CloseServed
<1>1. /\ requests'[c] = <<>>
      /\ \A d \in Clients \ {c} : requests'[d] = requests[d]
  BY DEF TInv, TypeOK, LinkTypeOK
<1>2. InStep(c)'
  <2> SUFFICES ASSUME client_end[c] = "open" PROVE ~stray[c] /\ Quiet(c)'
    BY DEF InStep
  <2>1. ~stray[c] /\ responses[c] = <<>>
    BY DEF MInv, OneInFlight, InStep, Quiet, Awaited, InFlight, OnlyRequest, OnlyAnswer, OnlyResponse
  <2> QED
    BY <1>1, <2>1 DEF Quiet, Answering
<1>3. AnswerHasServer'
  BY DEF AnswerHasServer
<1> QED
  BY <1>1, <1>2, <1>3, DaemonMatch, OthersInStep, UnsetStaysQuiet

LEMMA ServeMatch ==
  ASSUME TInv, MInv, Serve, UNCHANGED clientVars
  PROVE  MInv'
<1>1. CASE Accept
  <2> USE <1>1 DEF Accept, daemonVars
  <2>1. answer = NoAnswer
    BY DEF MInv, AnswerHasServer
  <2>2. OneInFlight' /\ AnswerHasServer'
    BY <2>1, StaysInStep DEF MInv, OneInFlight, AnswerHasServer, Answering, clientVars
  <2>3. /\ Len(backlog) \in Nat \ {0} /\ Head(backlog) = backlog[1]
        /\ 1 \in DOMAIN backlog
        /\ \A i \in DOMAIN Tail(backlog) : i + 1 \in DOMAIN backlog /\ Tail(backlog)[i] = backlog[i + 1]
    BY EmptySeq, LenProperties, HeadTailProperties DEF TInv, TypeOK, LinkTypeOK
  <2>4. ASSUME NEW c \in Clients, client_end[c] = "unset" PROVE Quiet(c)' /\ ~Connected(c)'
    <3>1. Quiet(c) /\ ~Connected(c)
      BY <2>4 DEF MInv, UnsetIsQuiet
    <3>2. ~Connected(c)'
      BY <2>3, <3>1 DEF Connected
    <3> QED
      BY <2>1, <3>1, <3>2 DEF Quiet, Answering
  <2> QED
    BY <2>2, <2>4, DaemonMatch
<1>2. ASSUME NEW c \in Clients, RefuseRequest(c) PROVE MInv'
  BY <1>2, CloseMatch DEF RefuseRequest, Reading, Answering, daemonVars
<1>3. ASSUME NEW c \in Clients, RunCreate(c) PROVE MInv'
  <2>1. PICK r : /\ r.op \in DOMAIN Creates
                 /\ Run(c, r, TRUE, FreshHandle(Creates[r.op]), 0)
    BY <1>3 DEF RunCreate
  <2>2. FreshHandle(Creates[r.op]) \in Handles \cup {0}
    BY <2>1 DEF FreshHandle, TInv, TypeOK, DaemonTypeOK, Creates, Kinds
  <2> QED
    BY <2>1, <2>2, RunMatch
<1>4. ASSUME NEW c \in Clients, RunFree(c) PROVE MInv'
  <2>1. PICK r \in {requests[c][i] : i \in DOMAIN requests[c]}, ok \in BOOLEAN : Run(c, r, ok, 0, 0)
    BY <1>4 DEF RunFree
  <2> QED
    BY <2>1, RunMatch
<1>5. ASSUME NEW c \in Clients, RunUse(c) PROVE MInv'
  <2>1. PICK r : Run(c, r, TRUE, 0, IF r.op = "d2h" THEN r.len ELSE 0)
    BY <1>5 DEF RunUse
  <2> QED
    BY <2>1, RunMatch
<1>6. ASSUME NEW c \in Clients, RunFails(c) PROVE MInv'
  <2>1. PICK r : Run(c, r, FALSE, 0, 0)
    BY <1>6 DEF RunFails
  <2> QED
    BY <2>1, RunMatch
<1>7. ASSUME NEW c \in Clients, WriteResponse(c) PROVE MInv'
  <2> USE <1>7 DEF WriteResponse
  <2>1. Answering(c)
    BY DEF Answering
  <2>2. \A d \in Clients \ {c} : responses'[d] = responses[d]
    BY DEF TInv, TypeOK, LinkTypeOK
  <2>3. InStep(c)'
    <3> SUFFICES ASSUME client_end[c] = "open" PROVE ~stray[c] /\ Awaited(c)'
      BY DEF InStep
    <3>1. ~stray[c] /\ ~Quiet(c)
      BY <2>1 DEF MInv, OneInFlight, InStep, Quiet
    <3>2. PICK t \in Threads : Home[t] = c /\ pc[t] = "read" /\ InFlight(c, call[t].n)
      BY <3>1 DEF MInv, OneInFlight, InStep, Awaited
    <3>3. OnlyAnswer(c, call[t].n)
      BY <2>1, <3>2 DEF InFlight, OnlyRequest, OnlyResponse
    <3>4. /\ responses[c] = <<>> /\ responses[c] \in Seq(Response) /\ answer \in Response
          /\ responses'[c] = Append(responses[c], answer)
      BY <3>3 DEF OnlyAnswer, TInv, TypeOK, LinkTypeOK, DaemonTypeOK
    <3>5. responses'[c] # <<>> /\ Head(responses'[c]) = answer /\ Tail(responses'[c]) = <<>>
      BY <3>4, AppendProperties, HeadTailAppend
    <3>6. OnlyResponse(c, call[t].n)'
      BY <3>3, <3>5 DEF OnlyAnswer, OnlyResponse, Answering, clientVars
    <3> QED
      BY <3>1, <3>2, <3>6 DEF Awaited, InFlight, clientVars
  <2>4. AnswerHasServer'
    BY DEF AnswerHasServer
  <2> QED
    BY <2>2, <2>3, <2>4, DaemonMatch, OthersInStep, UnsetStaysQuiet
<1>8. ASSUME NEW c \in Clients, EndOfStream(c) PROVE MInv'
  BY <1>8, CloseMatch DEF EndOfStream
<1> QED
  BY <1>1, <1>2, <1>3, <1>4, <1>5, <1>6, <1>7, <1>8 DEF Serve

LEMMA CrashMatch ==
  ASSUME TInv, MInv, Crash \/ Restart, UNCHANGED clientVars
  PROVE  MInv'
<1>1. CASE Crash
  <2> USE <1>1 DEF Crash
  <2>1. \A c \in Clients : requests'[c] = <<>> /\ ~Answering(c)' /\ ~Connected(c)'
    <3>1. DOMAIN backlog' = {}
      BY EmptySeq
    <3> QED
      BY <3>1, LinkAssumption DEF Answering, Connected
  <2>2. ASSUME NEW c \in Clients PROVE InStep(c)'
    <3>1. InStep(c)
      BY DEF MInv, OneInFlight
    <3>2. CASE responses[c] = <<>>
      BY <2>1, <3>1, <3>2 DEF InStep, Quiet
    <3>3. CASE responses[c] # <<>>
      <4> SUFFICES ASSUME client_end[c] = "open" PROVE ~stray[c] /\ Awaited(c)'
        BY DEF InStep
      <4>1. PICK t \in Threads : Home[t] = c /\ pc[t] = "read" /\ InFlight(c, call[t].n)
        BY <3>1, <3>3 DEF InStep, Quiet, Awaited
      <4>2. OnlyResponse(c, call[t].n)
        BY <3>3, <4>1 DEF InFlight, OnlyRequest, OnlyAnswer
      <4>3. OnlyResponse(c, call[t].n)'
        BY <2>1, <4>2 DEF OnlyResponse, clientVars
      <4> QED
        BY <3>1, <4>1, <4>3 DEF InStep, Awaited, InFlight, clientVars
    <3> QED
      BY <3>2, <3>3
  <2>3. ASSUME NEW c \in Clients, client_end[c] = "unset" PROVE Quiet(c)' /\ ~Connected(c)'
    BY <2>1, <2>3 DEF MInv, UnsetIsQuiet, Quiet
  <2> QED
    BY <2>2, <2>3, DaemonMatch DEF OneInFlight, AnswerHasServer
<1>2. CASE Restart
  <2> USE <1>2 DEF Restart, link
  <2>1. OneInFlight' /\ AnswerHasServer'
    BY StaysInStep DEF MInv, OneInFlight, AnswerHasServer, Answering, clientVars
  <2>2. ASSUME NEW c \in Clients, client_end[c] = "unset" PROVE Quiet(c)' /\ ~Connected(c)'
    BY <2>2 DEF MInv, UnsetIsQuiet, Quiet, Answering, Connected
  <2> QED
    BY <2>1, <2>2, DaemonMatch
<1> QED
  BY <1>1, <1>2

LEMMA StepMatch == BodiesFit /\ TInv /\ MInv /\ [Next]_vars => MInv'
<1> SUFFICES ASSUME BodiesFit, TInv, MInv, [Next]_vars PROVE MInv'
  OBVIOUS
<1>1. CASE UNCHANGED vars
  <2> USE <1>1 DEF vars, link, daemonVars
  <2>1. OneInFlight'
    BY StaysInStep DEF MInv, OneInFlight, Answering, clientVars
  <2>2. ASSUME NEW c \in Clients, client_end[c] = "unset" PROVE Quiet(c)' /\ ~Connected(c)'
    BY <2>2 DEF MInv, UnsetIsQuiet, Quiet, Answering, Connected
  <2> QED
    BY <2>1, <2>2, DaemonMatch DEF MInv, AnswerHasServer
<1>2. ASSUME NEW t \in Threads, ClientStep(t) PROVE MInv'
  BY <1>2, BeginCallMatch, ContinueMatch DEF ClientStep
<1>3. ASSUME NEW c \in Clients, ClientExit(c) PROVE MInv'
  BY <1>3, ExitMatch DEF ClientExit
<1>4. CASE DaemonStep
  BY <1>4, ServeMatch, CrashMatch DEF DaemonStep
<1> QED
  BY <1>1, <1>2, <1>3, <1>4 DEF Next

(* call_bridge hands every call the response to its own request, for any number
   of threads and games, and whatever dies, if no body is 4 GiB or longer. *)
THEOREM ResponsesMatch == BodiesFit /\ Spec => []OwnResponse
<1>1. BodiesFit /\ Init => TInv /\ MInv
  BY InitTypes, InitMatch
<1>2. BodiesFit /\ TInv /\ MInv /\ [Next]_vars => TInv' /\ MInv'
  BY StepTypes, StepMatch
<1>3. MInv => OwnResponse
  BY DEF MInv
<1>4. BodiesFit => []BodiesFit
  OBVIOUS
<1> QED
  BY <1>1, <1>2, <1>3, <1>4, PTL DEF Spec

-----------------------------------------------------------------------------
(***************************************************************************)
(* No call runs twice                                                      *)
(***************************************************************************)
(* A thread's request is the one of the call it is in. *)
CallsMade ==
  \A t \in Threads : IF pc[t] \in InCall THEN call[t].n <= calls ELSE call[t] = NoRequest

CallsDistinct ==
  \A t, u \in Threads : pc[t] \in InCall /\ pc[u] \in InCall /\ call[t].n = call[u].n => t = u

(* Nothing of call n is with the daemon yet. *)
Unsent(n) == runs[n] = 0 /\ \A c \in Clients : requests[c] # <<>> => Head(requests[c]).n # n

SendingIsUnsent == \A t \in Threads : pc[t] \in {"lock", "write"} => Unsent(call[t].n)

(* A connection holds one request, of a call made and not run, and no two
   connections hold the same. *)
QueuedOnce ==
  /\ \A c \in Clients : requests[c] # <<>> =>
       /\ Tail(requests[c]) = <<>>
       /\ Head(requests[c]).n <= calls
       /\ runs[Head(requests[c]).n] = 0
  /\ \A c, d \in Clients : requests[c] # <<>> /\ requests[d] # <<>> /\
                             Head(requests[c]).n = Head(requests[d]).n => c = d

Ran(n) == n \in Calls /\ runs[n] = 1

OnlyMadeRun == \A n \in Calls : n > calls => runs[n] = 0

(* What is answered has run. *)
AnsweredRan ==
  /\ answer # NoAnswer => Ran(answer.n)
  /\ \A c \in Clients : client_end[c] = "open" /\ responses[c] # <<>> => Ran(Head(responses[c]).n)
  /\ \A t \in Threads : pc[t] = "done" => Ran(call[t].n)

RInv == CallsMade /\ CallsDistinct /\ SendingIsUnsent /\ QueuedOnce /\ OnlyMadeRun /\ AnsweredRan

LEMMA InitOnce == Init => RInv
<1> SUFFICES ASSUME Init PROVE RInv
  OBVIOUS
<1> USE DEF Init, LinkInit, ClientInit, DaemonInit
<1>1. CallsMade /\ CallsDistinct /\ SendingIsUnsent
  BY DEF CallsMade, CallsDistinct, SendingIsUnsent, InCall
<1>2. QueuedOnce
  BY DEF QueuedOnce
<1>3. OnlyMadeRun /\ AnsweredRan
  BY DEF OnlyMadeRun, AnsweredRan
<1> QED
  BY <1>1, <1>2, <1>3 DEF RInv

(* Steps that run nothing and send nothing: what is on a connection stays or is
   lost, calls end or go on to the lock. *)
NothingSent ==
  /\ \A c \in Clients : requests'[c] = requests[c] \/ requests'[c] = <<>>
  /\ \A c \in Clients : client_end'[c] = "open" =>
       responses'[c] = <<>> \/ (client_end[c] = "open" /\ responses'[c] = responses[c])
  /\ answer' = answer \/ answer' = NoAnswer

EndsOrGoesOn(t) ==
  \/ pc'[t] \notin InCall /\ call'[t] = NoRequest
  \/ call'[t] = call[t] /\ (pc'[t] = pc[t] \/ (pc[t] = "lock" /\ pc'[t] = "write"))

LEMMA QuietOnce ==
  ASSUME TInv, RInv, UNCHANGED <<runs, calls>>, NothingSent, \A t \in Threads : EndsOrGoesOn(t)
  PROVE  RInv'
<1> USE DEF NothingSent
<1>1. \A t \in Threads : pc'[t] \in InCall =>
        /\ pc[t] \in InCall
        /\ call'[t] = call[t]
        /\ pc'[t] = pc[t] \/ (pc[t] = "lock" /\ pc'[t] = "write")
  BY DEF InCall, EndsOrGoesOn
<1>2. CallsMade'
  BY <1>1 DEF RInv, CallsMade, InCall, EndsOrGoesOn
<1>3. CallsDistinct'
  <2> SUFFICES ASSUME NEW t \in Threads, NEW u \in Threads, pc'[t] \in InCall, pc'[u] \in InCall,
                      call'[t].n = call'[u].n
               PROVE  t = u
    BY DEF CallsDistinct
  <2>1. pc[t] \in InCall /\ pc[u] \in InCall /\ call[t].n = call[u].n
    BY <1>1
  <2> QED
    BY <2>1 DEF RInv, CallsDistinct
<1>4. SendingIsUnsent'
  <2> SUFFICES ASSUME NEW t \in Threads, pc'[t] \in {"lock", "write"} PROVE Unsent(call[t].n)'
    BY <1>1 DEF SendingIsUnsent, InCall
  <2>1. pc[t] \in {"lock", "write"}
    BY <1>1 DEF InCall
  <2>2. Unsent(call[t].n) /\ call'[t] = call[t]
    BY <1>1, <2>1 DEF RInv, SendingIsUnsent, InCall
  <2> QED
    BY <2>2 DEF Unsent
<1>5. QueuedOnce'
  BY DEF RInv, QueuedOnce
<1>6. AnsweredRan'
  <2>1. ASSUME NEW t \in Threads, pc'[t] = "done" PROVE Ran(call[t].n)'
    BY <1>1, <2>1 DEF RInv, AnsweredRan, InCall, Ran
  <2> QED
    BY <1>1, <2>1 DEF RInv, AnsweredRan, InCall, Ran
<1>7. OnlyMadeRun'
  BY DEF RInv, OnlyMadeRun
<1> QED
  BY <1>2, <1>3, <1>4, <1>5, <1>6, <1>7 DEF RInv

LEMMA BeginOnce ==
  ASSUME TInv, RInv, NEW t \in Threads, BeginCall(t), UNCHANGED daemonVars
  PROVE  RInv'
<1> USE DEF link, daemonVars
<1>1. PICK op, uses, len : Begin(t, op, uses, len)
  BY DEF BeginCall, BeginPlain, BeginFree, BeginCopy, BeginLoad, BeginGetFunction, BeginLaunch
<1>2. /\ pc[t] = "idle" /\ pc'[t] = "lock"
      /\ calls' = calls + 1 /\ calls' \in Calls /\ calls \in Nat
      /\ call'[t].n = calls'
      /\ UNCHANGED link
      /\ \A u \in Threads \ {t} : pc'[u] = pc[u] /\ call'[u] = call[u]
  BY <1>1, LinkAssumption DEF Begin, Goto, TInv, TypeOK, ClientTypeOK, Calls
<1>3. \A u \in Threads : call[u].n \in Nat
  BY LinkAssumption DEF TInv, TypeOK, ClientTypeOK, Request, NoRequest, Calls
<1>4. CallsMade' /\ CallsDistinct'
  BY <1>2, <1>3 DEF RInv, CallsMade, CallsDistinct, InCall
<1>5. \A c \in Clients : requests[c] # <<>> => Head(requests[c]).n \in Nat
  <2> SUFFICES ASSUME NEW c \in Clients, requests[c] # <<>> PROVE Head(requests[c]).n \in Nat
    OBVIOUS
  <2>1. Head(requests[c]) \in Request
    BY HeadTailProperties DEF TInv, TypeOK, LinkTypeOK
  <2> QED
    BY <2>1, LinkAssumption DEF Request, Calls
<1>6. /\ runs[calls'] = 0
      /\ \A c \in Clients : requests[c] # <<>> => Head(requests[c]).n # calls'
  BY <1>2, <1>5 DEF RInv, OnlyMadeRun, QueuedOnce
<1>7. SendingIsUnsent'
  <2> SUFFICES ASSUME NEW u \in Threads, pc'[u] \in {"lock", "write"} PROVE Unsent(call[u].n)'
    BY DEF SendingIsUnsent
  <2>1. CASE u = t
    BY <1>2, <1>6, <2>1 DEF Unsent
  <2>2. CASE u # t
    BY <1>2, <2>2 DEF RInv, SendingIsUnsent, Unsent
  <2> QED
    BY <2>1, <2>2
<1>8. QueuedOnce'
  BY <1>2, <1>5 DEF RInv, QueuedOnce
<1>9. OnlyMadeRun' /\ AnsweredRan'
  BY <1>2 DEF RInv, OnlyMadeRun, AnsweredRan, Ran, Calls
<1> QED
  BY <1>4, <1>7, <1>8, <1>9 DEF RInv

(* Whoever is about to write finds the connection quiet, for nobody is reading
   from it. *)
LEMMA WriterFindsQuiet ==
  ASSUME MInv, NEW t \in Threads, pc[t] = "write"
  PROVE  Quiet(Home[t]) /\ ~stray[Home[t]] /\ client_end[Home[t]] = "open"
<1>1. ~Awaited(Home[t])
  BY OneReader DEF Awaited
<1> QED
  BY <1>1, ClientAssumption DEF MInv, LockOwned, OneInFlight, InStep

LEMMA WriteOnce ==
  ASSUME TInv, MInv, RInv, NEW t \in Threads, WriteRequest(t), UNCHANGED daemonVars
  PROVE  RInv'
<1> DEFINE c == Home[t]
<1> USE DEF WriteRequest, tablesOf, daemonVars
<1>1. /\ c \in Clients /\ requests[c] = <<>>
      /\ pc[t] = "write" /\ pc'[t] = "read"
      /\ \A u \in Threads \ {t} : pc'[u] = pc[u]
  BY WriterFindsQuiet, ClientAssumption DEF Goto, TInv, TypeOK, ClientTypeOK, Quiet
<1>2. /\ requests'[c] = <<>> \/ requests'[c] = Append(requests[c], call[t])
      /\ \A d \in Clients \ {c} : requests'[d] = requests[d]
  BY <1>1 DEF TInv, TypeOK, LinkTypeOK
<1>3. requests'[c] # <<>> => Head(requests'[c]) = call[t] /\ Tail(requests'[c]) = <<>>
  <2>1. requests[c] \in Seq(Request) /\ call[t] \in Request
    BY <1>1 DEF TInv, TypeOK, LinkTypeOK, CallHasRequest, InCall
  <2> QED
    BY <1>1, <1>2, <2>1, HeadTailAppend
<1>4. Unsent(call[t].n)
  BY <1>1 DEF RInv, SendingIsUnsent
<1>5. CallsMade' /\ CallsDistinct'
  BY <1>1 DEF RInv, CallsMade, CallsDistinct, InCall
<1>6. SendingIsUnsent'
  <2> SUFFICES ASSUME NEW u \in Threads, pc'[u] \in {"lock", "write"} PROVE Unsent(call[u].n)'
    BY DEF SendingIsUnsent
  <2>1. u # t /\ pc[u] \in {"lock", "write"}
    BY <1>1
  <2>2. call[u].n # call[t].n
    BY <1>1, <2>1 DEF RInv, CallsDistinct, InCall
  <2>3. Unsent(call[u].n)
    BY <2>1 DEF RInv, SendingIsUnsent
  <2> QED
    BY <1>2, <1>3, <2>2, <2>3 DEF Unsent
<1>7. QueuedOnce'
  <2>1. call[t].n <= calls
    BY <1>1 DEF RInv, CallsMade, InCall, EndsOrGoesOn
  <2> QED
    BY <1>1, <1>2, <1>3, <1>4, <2>1 DEF RInv, QueuedOnce, Unsent
<1>8. OnlyMadeRun' /\ AnsweredRan'
  BY <1>1 DEF RInv, OnlyMadeRun, AnsweredRan, Ran
<1> QED
  BY <1>5, <1>6, <1>7, <1>8 DEF RInv

LEMMA ReadOnce ==
  ASSUME BodiesFit, TInv, MInv, RInv, NEW t \in Threads, ReadResponse(t), UNCHANGED daemonVars
  PROVE  RInv'
<1> DEFINE c == Home[t]
<1> USE DEF ReadResponse, tablesOf, daemonVars
<1>1. /\ c \in Clients
      /\ pc[t] = "read" /\ pc'[t] = "done"
      /\ \A u \in Threads \ {t} : pc'[u] = pc[u]
      /\ reply'[t] = Head(responses[c])
      /\ \A d \in Clients \ {c} : responses'[d] = responses[d]
  BY ClientAssumption DEF Goto, TInv, TypeOK, LinkTypeOK, ClientTypeOK
<1>2. client_end[c] = "open"
  BY <1>1 DEF MInv, LockOwned
<1>3. Head(responses[c]).n = call[t].n
  BY <1>1, ReadMatch DEF MInv, OwnResponse
<1>4. responses'[c] = <<>>
  <2>1. Awaited(c) /\ ~Quiet(c)
    BY <1>1, <1>2 DEF MInv, OneInFlight, InStep, Quiet
  <2>2. Tail(responses[c]) = <<>>
    BY <2>1 DEF Awaited, InFlight, OnlyRequest, OnlyAnswer, OnlyResponse
  <2> QED
    BY <1>1, <2>2 DEF TInv, TypeOK, LinkTypeOK
<1>5. Ran(call[t].n)
  BY <1>1, <1>2, <1>3 DEF RInv, AnsweredRan
<1>6. CallsMade' /\ CallsDistinct' /\ OnlyMadeRun'
  BY <1>1 DEF RInv, CallsMade, CallsDistinct, OnlyMadeRun, InCall
<1>7. SendingIsUnsent'
  BY <1>1 DEF RInv, SendingIsUnsent, Unsent
<1>8. QueuedOnce'
  BY DEF RInv, QueuedOnce
<1>9. AnsweredRan'
  <2>1. ASSUME NEW d \in Clients, client_end'[d] = "open", responses'[d] # <<>>
        PROVE  Ran(Head(responses'[d]).n)
    <3>1. responses'[d] = responses[d] /\ client_end[d] = "open"
      BY <1>1, <1>4, <2>1
    <3> QED
      BY <2>1, <3>1 DEF RInv, AnsweredRan
  <2>2. ASSUME NEW u \in Threads, pc'[u] = "done" PROVE Ran(call[u].n)
    BY <1>1, <1>5, <2>2 DEF RInv, AnsweredRan
  <2> QED
    BY <2>1, <2>2 DEF RInv, AnsweredRan, Ran
<1> QED
  BY <1>6, <1>7, <1>8, <1>9 DEF RInv

(* The request run had not run, and is gone from its queue. *)
LEMMA RunOnce ==
  ASSUME TInv, MInv, RInv, UNCHANGED clientVars, NEW c \in Clients, NEW r, NEW ok \in BOOLEAN,
         NEW handle \in Handles \cup {0}, NEW len, len \in {0, r.len}, Run(c, r, ok, handle, len)
  PROVE  /\ RInv'
         /\ r.n \in Calls /\ r.n <= calls /\ runs[r.n] = 0
         /\ runs' = [runs EXCEPT ![r.n] = 1]
<1> USE DEF Run, Reading, clientVars
<1>0. r \in Request
  BY RunTypes
<1>1. r.n \in Calls /\ requests[c] # <<>> /\ r = Head(requests[c])
  BY <1>0 DEF Request
<1>2. r.n <= calls /\ runs[r.n] = 0 /\ Tail(requests[c]) = <<>>
  BY <1>1 DEF RInv, QueuedOnce
<1>3. runs' = [runs EXCEPT ![r.n] = 1]
  BY <1>2
<1>4. /\ runs'[r.n] = 1
      /\ \A n : n # r.n => runs'[n] = runs[n]
      /\ \A n : Ran(n) => Ran(n)'
  BY <1>1, <1>2, <1>3 DEF TInv, TypeOK, DaemonTypeOK, Ran
<1>5. /\ requests'[c] = <<>>
      /\ \A d \in Clients \ {c} : requests'[d] = requests[d]
  BY <1>2 DEF TInv, TypeOK, LinkTypeOK
<1>6. CallsMade' /\ CallsDistinct'
  BY DEF RInv, CallsMade, CallsDistinct
<1>7. SendingIsUnsent'
  <2> SUFFICES ASSUME NEW u \in Threads, pc[u] \in {"lock", "write"} PROVE Unsent(call[u].n)'
    BY DEF SendingIsUnsent
  <2>1. Unsent(call[u].n)
    BY DEF RInv, SendingIsUnsent
  <2>2. call[u].n # r.n
    BY <1>1, <2>1 DEF Unsent
  <2> QED
    BY <1>4, <1>5, <2>1, <2>2 DEF Unsent
<1>8. QueuedOnce'
  <2>1. \A d \in Clients : requests'[d] # <<>> => /\ d # c /\ requests'[d] = requests[d]
                                                 /\ Head(requests[d]).n # r.n
    BY <1>1, <1>5 DEF RInv, QueuedOnce
  <2> QED
    BY <1>4, <2>1 DEF RInv, QueuedOnce
<1>9. OnlyMadeRun'
  <2>1. \A n \in Calls : n > calls => n # r.n
    BY <1>1, <1>2, LinkAssumption DEF Calls, TInv, TypeOK, ClientTypeOK
  <2> QED
    BY <1>4, <2>1 DEF RInv, OnlyMadeRun
<1>10. AnsweredRan'
  <2>1. answer'.n = r.n
    OBVIOUS
  <2>2. answer'.n \in Calls /\ runs'[answer'.n] = 1
    BY <1>1, <1>4, <2>1
  <2> QED
    BY <1>4, <2>2 DEF RInv, AnsweredRan, Ran
<1> QED
  BY <1>1, <1>2, <1>3, <1>6, <1>7, <1>8, <1>9, <1>10 DEF RInv

LEMMA WriteResponseOnce ==
  ASSUME TInv, MInv, RInv, UNCHANGED clientVars, NEW c \in Clients, WriteResponse(c)
  PROVE  RInv'
<1> USE DEF WriteResponse, clientVars
<1>1. ASSUME NEW d \in Clients, client_end'[d] = "open", responses'[d] # <<>>
      PROVE  Ran(Head(responses'[d]).n)
  <2>1. CASE d # c
    BY <1>1, <2>1 DEF RInv, AnsweredRan, TInv, TypeOK, LinkTypeOK
  <2>2. CASE d = c
    <3>1. responses[c] = <<>>
      BY <1>1, <2>2 DEF MInv, OneInFlight, InStep, Quiet, Awaited, InFlight,
                        OnlyRequest, OnlyAnswer, OnlyResponse, Answering
    <3>2. responses'[c] = Append(responses[c], answer)
      BY <1>1, <2>2 DEF TInv, TypeOK, LinkTypeOK
    <3>3. Head(responses'[c]) = answer
      BY <3>1, <3>2, HeadTailAppend DEF TInv, TypeOK, LinkTypeOK, DaemonTypeOK
    <3> QED
      BY <2>2, <3>3 DEF RInv, AnsweredRan
  <2> QED
    BY <2>1, <2>2
<1>2. CallsMade' /\ CallsDistinct' /\ SendingIsUnsent' /\ QueuedOnce' /\ OnlyMadeRun'
  BY DEF RInv, CallsMade, CallsDistinct, SendingIsUnsent, Unsent, QueuedOnce, OnlyMadeRun
<1>3. AnsweredRan'
  BY <1>1 DEF RInv, AnsweredRan, Ran
<1> QED
  BY <1>2, <1>3 DEF RInv

(* The call of a thread that returns is over. *)
LEMMA ReturnOver ==
  ASSUME TInv, NEW t \in Threads, NEW v, Return(t, v)
  PROVE  \A u \in Threads : EndsOrGoesOn(u)
BY DEF Return, Goto, InCall, EndsOrGoesOn, TInv, TypeOK, ClientTypeOK

LEMMA ContinueOnce ==
  ASSUME BodiesFit, TInv, MInv, RInv, NEW t \in Threads, NEW listening \in BOOLEAN,
         Continue(t, listening), UNCHANGED daemonVars
  PROVE  RInv'
<1> DEFINE c == Home[t]
<1> USE DEF daemonVars
<1>1. c \in Clients /\ (pc[t] = "read" => ~stray[c])
  BY ClientAssumption DEF MInv, LockOwned, OneInFlight, InStep
<1>2. UNCHANGED link => NothingSent
  BY DEF link, NothingSent
<1>3. CASE Connect(t, listening)
  <2>1. responses[c] = <<>>
    BY <1>1, <1>3 DEF Connect, MInv, UnsetIsQuiet, Quiet
  <2>2. NothingSent
    BY <1>1, <1>3, <2>1 DEF Connect, NothingSent, TInv, TypeOK, LinkTypeOK
  <2>3. UNCHANGED <<pc, call, calls>>
    BY <1>3 DEF Connect, clientVars
  <2>4. \A u \in Threads : EndsOrGoesOn(u)
    BY <2>3 DEF EndsOrGoesOn
  <2> QED
    BY <2>2, <2>3, <2>4, QuietOnce
<1>4. CASE Acquire(t)
  <2>1. UNCHANGED <<link, call, calls>> /\ pc[t] = "lock" /\ Goto(t, "write")
    BY <1>4 DEF Acquire
  <2>2. \A u \in Threads : EndsOrGoesOn(u)
    BY <2>1 DEF EndsOrGoesOn, Goto, TInv, TypeOK, ClientTypeOK
  <2> QED
    BY <1>2, <2>1, <2>2, QuietOnce
<1>5. ASSUME NEW v, Return(t, v), UNCHANGED <<link, calls>> PROVE RInv'
  BY <1>2, <1>5, ReturnOver, QuietOnce
<1>6. CASE NotConnected(t)
  BY <1>5, <1>6 DEF NotConnected
<1>7. CASE WriteRequest(t)
  BY <1>7, WriteOnce
<1>8. ASSUME Drop(c), Return(t, "failed"), UNCHANGED <<requests, calls>>,
             \A d \in Clients \ {c} : responses'[d] = responses[d]
      PROVE  RInv'
  <2>1. NothingSent
    BY <1>8 DEF Drop, NothingSent, TInv, TypeOK, LinkTypeOK
  <2> QED
    BY <1>8, <2>1, ReturnOver, QuietOnce
<1>9. CASE WriteFails(t)
  BY <1>8, <1>9 DEF WriteFails
<1>10. CASE ReadResponse(t)
  BY <1>10, ReadOnce
<1>11. CASE ReadBadFrame(t)
  <2>1. \A d \in Clients \ {c} : responses'[d] = responses[d]
    BY <1>11 DEF ReadBadFrame, TInv, TypeOK, LinkTypeOK
  <2> QED
    BY <1>8, <1>11, <2>1 DEF ReadBadFrame
<1>12. CASE ReadStray(t)
  BY <1>1, <1>12 DEF ReadStray
<1>13. CASE ReadFails(t)
  BY <1>8, <1>13 DEF ReadFails
<1>14. CASE CompleteFailed(t)
  BY <1>5, <1>14 DEF CompleteFailed
<1>15. CASE Complete(t)
  <2>1. UNCHANGED <<link, calls>> /\ Return(t, "ok")
    BY <1>15 DEF Complete
  <2> QED
    BY <1>5, <2>1
<1> QED
  BY <1>3, <1>4, <1>6, <1>7, <1>9, <1>10, <1>11, <1>12, <1>13, <1>14, <1>15 DEF Continue

LEMMA ExitOnce ==
  ASSUME TInv, RInv, NEW c \in Clients, Exit(c), UNCHANGED daemonVars
  PROVE  RInv'
<1>1. NothingSent
  BY DEF Exit, Drop, NothingSent, daemonVars, TInv, TypeOK, LinkTypeOK
<1>2. \A t \in Threads : EndsOrGoesOn(t)
  BY DEF Exit, InCall, EndsOrGoesOn
<1>3. UNCHANGED <<runs, calls>>
  BY DEF Exit, daemonVars
<1> QED
  BY <1>1, <1>2, <1>3, QuietOnce

LEMMA DaemonOnce ==
  ASSUME TInv, MInv, RInv, DaemonStep
  PROVE  RInv'
<1>1. UNCHANGED clientVars
  BY DEF DaemonStep
<1>2. ASSUME UNCHANGED <<runs, client_end, responses>>, answer' = answer \/ answer' = NoAnswer,
             \A c \in Clients : requests'[c] = requests[c] \/ requests'[c] = <<>>
      PROVE  RInv'
  <2>1. NothingSent
    BY <1>2 DEF NothingSent
  <2>2. \A t \in Threads : EndsOrGoesOn(t)
    BY <1>1 DEF EndsOrGoesOn, clientVars
  <2>3. UNCHANGED calls
    BY <1>1 DEF clientVars
  <2> QED
    BY <1>2, <2>1, <2>2, <2>3, QuietOnce
<1>3. ASSUME NEW c \in Clients, requests' = [requests EXCEPT ![c] = <<>>]
      PROVE  \A d \in Clients : requests'[d] = requests[d] \/ requests'[d] = <<>>
  BY <1>3 DEF TInv, TypeOK, LinkTypeOK
<1>4. CASE Accept
  BY <1>2, <1>4 DEF Accept, daemonVars
<1>5. ASSUME NEW c \in Clients, RefuseRequest(c) PROVE RInv'
  BY <1>2, <1>3, <1>5 DEF RefuseRequest, daemonVars
<1>6. ASSUME NEW c \in Clients, RunCreate(c) PROVE RInv'
  <2>1. PICK r : /\ r.op \in DOMAIN Creates
                 /\ Run(c, r, TRUE, FreshHandle(Creates[r.op]), 0)
    BY <1>6 DEF RunCreate
  <2>2. FreshHandle(Creates[r.op]) \in Handles \cup {0}
    BY <2>1 DEF FreshHandle, TInv, TypeOK, DaemonTypeOK, Creates, Kinds
  <2> QED
    BY <1>1, <2>1, <2>2, RunOnce
<1>7. ASSUME NEW c \in Clients, RunFree(c) PROVE RInv'
  <2>1. PICK r \in {requests[c][i] : i \in DOMAIN requests[c]}, ok \in BOOLEAN : Run(c, r, ok, 0, 0)
    BY <1>7 DEF RunFree
  <2> QED
    BY <1>1, <2>1, RunOnce
<1>8. ASSUME NEW c \in Clients, RunUse(c) PROVE RInv'
  <2>1. PICK r : Run(c, r, TRUE, 0, IF r.op = "d2h" THEN r.len ELSE 0)
    BY <1>8 DEF RunUse
  <2> QED
    BY <1>1, <2>1, RunOnce
<1>9. ASSUME NEW c \in Clients, RunFails(c) PROVE RInv'
  <2>1. PICK r : Run(c, r, FALSE, 0, 0)
    BY <1>9 DEF RunFails
  <2> QED
    BY <1>1, <2>1, RunOnce
<1>10. ASSUME NEW c \in Clients, WriteResponse(c) PROVE RInv'
  BY <1>1, <1>10, WriteResponseOnce
<1>11. ASSUME NEW c \in Clients, EndOfStream(c) PROVE RInv'
  BY <1>2, <1>3, <1>11 DEF EndOfStream
<1>12. CASE Crash
  BY <1>2, <1>12 DEF Crash
<1>13. CASE Restart
  BY <1>2, <1>13 DEF Restart, link
<1> QED
  BY <1>4, <1>5, <1>6, <1>7, <1>8, <1>9, <1>10, <1>11, <1>12, <1>13 DEF DaemonStep, Serve

LEMMA StepOnce == BodiesFit /\ TInv /\ MInv /\ RInv /\ [Next]_vars => RInv'
<1> SUFFICES ASSUME BodiesFit, TInv, MInv, RInv, [Next]_vars PROVE RInv'
  OBVIOUS
<1>1. CASE UNCHANGED vars
  <2>1. NothingSent /\ (\A t \in Threads : EndsOrGoesOn(t)) /\ UNCHANGED <<runs, calls>>
    BY <1>1 DEF vars, link, clientVars, daemonVars, NothingSent, EndsOrGoesOn
  <2> QED
    BY <2>1, QuietOnce
<1>2. ASSUME NEW t \in Threads, ClientStep(t) PROVE RInv'
  BY <1>2, BeginOnce, ContinueOnce DEF ClientStep
<1>3. ASSUME NEW c \in Clients, ClientExit(c) PROVE RInv'
  BY <1>3, ExitOnce DEF ClientExit
<1>4. CASE DaemonStep
  BY <1>4, DaemonOnce
<1> QED
  BY <1>1, <1>2, <1>3, <1>4 DEF Next

-----------------------------------------------------------------------------
(* The steps of the bridge, as RemoteCalls sees them. *)
LEMMA BeginRemote ==
  ASSUME TInv, RInv, NEW t \in Threads, BeginCall(t), UNCHANGED daemonVars
  PROVE  Remote!Begin(t)
<1>1. PICK op, uses, len : Begin(t, op, uses, len)
  BY DEF BeginCall, BeginPlain, BeginFree, BeginCopy, BeginLoad, BeginGetFunction, BeginLaunch
<1>2. call[t].n = 0
  BY <1>1 DEF Begin, InCall, RInv, CallsMade, NoRequest
<1>3. [u \in Threads |-> call'[u].n] = [[u \in Threads |-> call[u].n] EXCEPT ![t] = calls']
  BY <1>1 DEF Begin, TInv, TypeOK, ClientTypeOK
<1> QED
  BY <1>1, <1>2, <1>3 DEF Begin, Remote!Begin, daemonVars

(* Calls that fail are all that changes. *)
LEMMA FailRemote ==
  ASSUME TInv, NEW ts \in SUBSET Threads, UNCHANGED <<calls, runs>>,
         call' = [t \in Threads |-> IF t \in ts THEN NoRequest ELSE call[t]],
         result' = [t \in Threads |-> IF t \in ts THEN "failed" ELSE result[t]]
  PROVE  Remote!Fail(ts)
<1>1. [t \in Threads |-> call'[t].n] =
        [t \in Threads |-> IF t \in ts THEN 0 ELSE [u \in Threads |-> call[u].n][t]]
  BY DEF NoRequest
<1> QED
  BY <1>1 DEF Remote!Fail

LEMMA ReturnFailedRemote ==
  ASSUME TInv, NEW t \in Threads, Return(t, "failed"), UNCHANGED calls, UNCHANGED daemonVars
  PROVE  Remote!Fail({t})
<1>1. /\ call' = [u \in Threads |-> IF u \in {t} THEN NoRequest ELSE call[u]]
      /\ result' = [u \in Threads |-> IF u \in {t} THEN "failed" ELSE result[u]]
  BY DEF Return, TInv, TypeOK, ClientTypeOK
<1> QED
  BY <1>1, FailRemote DEF daemonVars

(* A call completes with the answer to its own request, which has run. *)
LEMMA CompleteRemote ==
  ASSUME TInv, RInv, NEW t \in Threads, Complete(t), UNCHANGED daemonVars
  PROVE  Remote!Succeed(t)
<1>1. pc[t] = "done" /\ Return(t, "ok") /\ UNCHANGED calls
  BY DEF Complete
<1>2. call[t].n # 0 /\ runs[call[t].n] = 1
  BY <1>1 DEF RInv, AnsweredRan, Ran, Calls
<1>3. [u \in Threads |-> call'[u].n] = [[u \in Threads |-> call[u].n] EXCEPT ![t] = 0]
  BY <1>1 DEF Return, NoRequest, TInv, TypeOK, ClientTypeOK
<1> QED
  BY <1>1, <1>2, <1>3 DEF Return, Remote!Succeed, daemonVars

LEMMA ContinueRemote ==
  ASSUME TInv, MInv, RInv, NEW t \in Threads, NEW listening \in BOOLEAN,
         Continue(t, listening), UNCHANGED daemonVars
  PROVE  Remote!Fail({t}) \/ Remote!Succeed(t) \/ UNCHANGED Remote!vars
<1>1. ASSUME UNCHANGED <<call, result, calls>> PROVE UNCHANGED Remote!vars
  BY <1>1 DEF Remote!vars, daemonVars
<1>2. CASE Connect(t, listening)
  BY <1>1, <1>2 DEF Connect, clientVars
<1>3. CASE Acquire(t)
  BY <1>1, <1>3 DEF Acquire
<1>4. CASE NotConnected(t)
  BY <1>4, ReturnFailedRemote DEF NotConnected
<1>5. CASE WriteRequest(t)
  BY <1>1, <1>5 DEF WriteRequest
<1>6. CASE WriteFails(t)
  BY <1>6, ReturnFailedRemote DEF WriteFails
<1>7. CASE ReadResponse(t)
  BY <1>1, <1>7 DEF ReadResponse
<1>8. CASE ReadBadFrame(t)
  BY <1>8, ReturnFailedRemote DEF ReadBadFrame
<1>9. CASE ReadStray(t)
  BY <1>1, <1>9 DEF ReadStray
<1>10. CASE ReadFails(t)
  BY <1>10, ReturnFailedRemote DEF ReadFails
<1>11. CASE CompleteFailed(t)
  BY <1>11, ReturnFailedRemote DEF CompleteFailed
<1>12. CASE Complete(t)
  BY <1>12, CompleteRemote
<1> QED
  BY <1>2, <1>3, <1>4, <1>5, <1>6, <1>7, <1>8, <1>9, <1>10, <1>11, <1>12 DEF Continue

LEMMA RunRemote ==
  ASSUME TInv, MInv, RInv, UNCHANGED clientVars, NEW c \in Clients, NEW r, NEW ok \in BOOLEAN,
         NEW handle \in Handles \cup {0}, NEW len, len \in {0, r.len}, Run(c, r, ok, handle, len)
  PROVE  \E n \in 1 .. MaxCalls : Remote!Run(n)
<1>1. r.n \in Calls /\ r.n <= calls /\ runs[r.n] = 0
  BY RunOnce
<1>2. runs' = [runs EXCEPT ![r.n] = 1]
  BY RunOnce
<1>3. Remote!Run(r.n)
  BY <1>1, <1>2 DEF Remote!Run, clientVars
<1> QED
  BY <1>1, <1>3 DEF Calls

LEMMA DaemonRemote ==
  ASSUME TInv, MInv, RInv, DaemonStep
  PROVE  (\E n \in 1 .. MaxCalls : Remote!Run(n)) \/ UNCHANGED Remote!vars
<1>1. UNCHANGED clientVars
  BY DEF DaemonStep
<1>2. ASSUME UNCHANGED runs PROVE UNCHANGED Remote!vars
  BY <1>1, <1>2 DEF Remote!vars, clientVars
<1>3. CASE Accept
  BY <1>2, <1>3 DEF Accept, daemonVars
<1>4. ASSUME NEW c \in Clients, RefuseRequest(c) PROVE UNCHANGED Remote!vars
  BY <1>2, <1>4 DEF RefuseRequest, daemonVars
<1>5. ASSUME NEW c \in Clients, RunCreate(c) PROVE \E n \in 1 .. MaxCalls : Remote!Run(n)
  <2>1. PICK r : /\ r.op \in DOMAIN Creates
                 /\ Run(c, r, TRUE, FreshHandle(Creates[r.op]), 0)
    BY <1>5 DEF RunCreate
  <2>2. FreshHandle(Creates[r.op]) \in Handles \cup {0}
    BY <2>1 DEF FreshHandle, TInv, TypeOK, DaemonTypeOK, Creates, Kinds
  <2> QED
    BY <1>1, <2>1, <2>2, RunRemote
<1>6. ASSUME NEW c \in Clients, RunFree(c) PROVE \E n \in 1 .. MaxCalls : Remote!Run(n)
  <2>1. PICK r \in {requests[c][i] : i \in DOMAIN requests[c]}, ok \in BOOLEAN : Run(c, r, ok, 0, 0)
    BY <1>6 DEF RunFree
  <2> QED
    BY <1>1, <2>1, RunRemote
<1>7. ASSUME NEW c \in Clients, RunUse(c) PROVE \E n \in 1 .. MaxCalls : Remote!Run(n)
  <2>1. PICK r : Run(c, r, TRUE, 0, IF r.op = "d2h" THEN r.len ELSE 0)
    BY <1>7 DEF RunUse
  <2> QED
    BY <1>1, <2>1, RunRemote
<1>8. ASSUME NEW c \in Clients, RunFails(c) PROVE \E n \in 1 .. MaxCalls : Remote!Run(n)
  <2>1. PICK r : Run(c, r, FALSE, 0, 0)
    BY <1>8 DEF RunFails
  <2> QED
    BY <1>1, <2>1, RunRemote
<1>9. ASSUME NEW c \in Clients, WriteResponse(c) PROVE UNCHANGED Remote!vars
  BY <1>2, <1>9 DEF WriteResponse
<1>10. ASSUME NEW c \in Clients, EndOfStream(c) PROVE UNCHANGED Remote!vars
  BY <1>2, <1>10 DEF EndOfStream
<1>11. CASE Crash \/ Restart
  BY <1>2, <1>11 DEF Crash, Restart
<1> QED
  BY <1>3, <1>4, <1>5, <1>6, <1>7, <1>8, <1>9, <1>10, <1>11 DEF DaemonStep, Serve

LEMMA StepRemote ==
  TInv /\ MInv /\ RInv /\ [Next]_vars => [Remote!Next]_Remote!vars
<1> SUFFICES ASSUME TInv, MInv, RInv, [Next]_vars PROVE Remote!Next \/ UNCHANGED Remote!vars
  OBVIOUS
<1>1. CASE UNCHANGED vars
  BY <1>1 DEF vars, clientVars, daemonVars, Remote!vars
<1>2. ASSUME NEW t \in Threads, ClientStep(t) PROVE Remote!Next \/ UNCHANGED Remote!vars
  <2>1. UNCHANGED daemonVars /\ (BeginCall(t) \/ Continue(t, daemon = "up"))
    BY <1>2 DEF ClientStep
  <2>2. CASE BeginCall(t)
    BY <2>1, <2>2, BeginRemote DEF Remote!Next
  <2>3. CASE Continue(t, daemon = "up")
    BY <2>1, <2>3, ContinueRemote DEF Remote!Next
  <2> QED
    BY <2>1, <2>2, <2>3
<1>3. ASSUME NEW c \in Clients, ClientExit(c) PROVE Remote!Next
  <2> DEFINE ts == {t \in Threads : Home[t] = c}
  <2>1. /\ call' = [t \in Threads |-> IF t \in ts THEN NoRequest ELSE call[t]]
        /\ result' = [t \in Threads |-> IF t \in ts THEN "failed" ELSE result[t]]
        /\ UNCHANGED <<calls, runs>>
    BY <1>3 DEF ClientExit, Exit, daemonVars
  <2>2. Remote!Fail(ts)
    BY <2>1, FailRemote
  <2> QED
    BY <2>2 DEF Remote!Next
<1>4. CASE DaemonStep
  BY <1>4, DaemonRemote DEF Remote!Next
<1> QED
  BY <1>1, <1>2, <1>3, <1>4 DEF Next

(* Whatever fails, every call runs at most once, and one that returns success
   has run, if no body is 4 GiB or longer: the threads, connections, frames and
   tables of the bridge implement RemoteCalls. *)
THEOREM RunsAtMostOnce == BodiesFit /\ Spec => AtMostOnce
<1>1. BodiesFit /\ Init => TInv /\ MInv /\ RInv
  BY InitTypes, InitMatch, InitOnce
<1>2. BodiesFit /\ TInv /\ MInv /\ RInv /\ [Next]_vars => TInv' /\ MInv' /\ RInv'
  BY StepTypes, StepMatch, StepOnce
<1>3. BodiesFit => []BodiesFit
  OBVIOUS
<1>4. Init => Remote!Init
  BY DEF Init, ClientInit, DaemonInit, Remote!Init, NoRequest, Calls
<1>5. TInv /\ MInv /\ RInv /\ [Next]_vars => [Remote!Next]_Remote!vars
  BY StepRemote
<1> QED
  BY <1>1, <1>2, <1>3, <1>4, <1>5, PTL DEF Spec, AtMostOnce, Remote!Spec

-----------------------------------------------------------------------------
(***************************************************************************)
(* What handles denote                                                     *)
(***************************************************************************)
(* A handle given denotes one object for good: it is below the next one, and
   what has it now, if anything has, is that object. *)
Genuine(u) ==
  /\ u.handle < next_id[u.kind]
  /\ \A i \in tables[u.kind] : i.handle = u.handle => i.obj = u.obj

TablesKeyed ==
  \A k \in Kinds :
    /\ \A i \in tables[k] : i.handle < next_id[k]
    /\ \A i, j \in tables[k] : i.handle = j.handle => i = j

(* A client connects once: it waits in the backlog once, and not while it is
   being served. *)
BacklogOnce ==
  /\ \A i \in DOMAIN backlog : backlog[i] # serving
  /\ \A i, j \in DOMAIN backlog : backlog[i] = backlog[j] => i = j

Waiting(c) == \E i \in DOMAIN backlog : backlog[i] = c
Served(c) == serving = c /\ client_end[c] = "open"

(* A client knows of no object of the daemon, and awaits none. *)
Fresh(c) ==
  /\ ranges[c] = {}
  /\ fatbins[c] = {}
  /\ \A h \in Hosts : functions[c][h] = NoEntry
  /\ responses[c] = <<>>
  /\ \A t \in Threads : Home[t] = c => call[t].uses = {} /\ pc[t] # "done"

UnservedIsFresh == \A c \in Clients : client_end[c] = "unset" \/ Waiting(c) => Fresh(c)

RequestsGenuine ==
  \A c \in Clients : Connected(c) /\ requests[c] # <<>> =>
    \A u \in Head(requests[c]).uses : Genuine(u)

CallsGenuine ==
  \A t \in Threads : Connected(Home[t]) /\ client_end[Home[t]] = "open" =>
    \A u \in call[t].uses : Genuine(u)

KnownServed ==
  \A c \in Clients : Served(c) =>
    /\ ranges[c] \subseteq tables["memory"]
    /\ fatbins[c] \subseteq tables["module"]
    /\ \A h \in Hosts : functions[c][h] # NoEntry => functions[c][h] \in tables["function"]

(* Answer a tells of an object that exists, if it is to a request that creates. *)
Created(r, a) ==
  a.ok /\ r.op \in DOMAIN Creates => [handle |-> a.handle, obj |-> r.n] \in tables[Creates[r.op]]

AnswersCreated ==
  \A t \in Threads : Served(Home[t]) =>
    /\ pc[t] = "read" /\ answer # NoAnswer => Created(call[t], answer)
    /\ pc[t] = "read" /\ responses[Home[t]] # <<>> => Created(call[t], Head(responses[Home[t]]))
    /\ pc[t] = "done" => Created(call[t], reply[t])

(* The request on a connection is the one of the thread that reads there. *)
RequestOwned ==
  \A t \in Threads :
    client_end[Home[t]] = "open" /\ pc[t] = "read" /\ requests[Home[t]] # <<>> =>
      Head(requests[Home[t]]) = call[t]

(* What a call creates has no name in the client yet: nobody can free it. *)
NumbersFresh ==
  \A t \in Threads : pc[t] \in InCall =>
    /\ \A c \in Clients : \A e \in ranges[c] : e.obj # call[t].n
    /\ \A s \in Threads : \A u \in call[s].uses : u.kind = "memory" => u.obj # call[t].n

NumbersMade ==
  /\ \A c \in Clients : \A e \in ranges[c] : e.obj <= calls
  /\ \A t \in Threads : \A u \in call[t].uses : u.kind = "memory" => u.obj <= calls

RangesKeyed == \A c \in Clients : \A e, f \in ranges[c] : e.obj = f.obj => e = f

(* What a free names is mapped no more. *)
FreeForgets ==
  \A t \in Threads : call[t].op = "free" =>
    \A u \in call[t].uses : u.kind = "memory" /\ \A e \in ranges[Home[t]] : e.obj # u.obj

NInv == NumbersFresh /\ NumbersMade /\ RangesKeyed /\ FreeForgets

HInv ==
  /\ TablesKeyed /\ BacklogOnce /\ UnservedIsFresh
  /\ RequestsGenuine /\ CallsGenuine
  /\ KnownServed /\ AnswersCreated /\ RequestOwned

LEMMA InitNames == Init => NInv /\ HInv
<1> SUFFICES ASSUME Init PROVE NInv /\ HInv
  OBVIOUS
<1> USE DEF Init, LinkInit, ClientInit, DaemonInit
<1>1. NumbersFresh /\ NumbersMade /\ RangesKeyed /\ FreeForgets
  BY DEF NumbersFresh, NumbersMade, RangesKeyed, FreeForgets, InCall, NoRequest
<1>2. DOMAIN backlog = {} /\ \A c \in Clients : ~Connected(c) /\ ~Served(c)
  <2>1. DOMAIN backlog = {}
    OBVIOUS
  <2> QED
    BY <2>1, LinkAssumption DEF Connected, Served
<1>3. TablesKeyed /\ BacklogOnce
  BY <1>2 DEF TablesKeyed, BacklogOnce
<1>4. UnservedIsFresh
  BY DEF UnservedIsFresh, Fresh, NoRequest
<1>5. RequestsGenuine /\ CallsGenuine /\ KnownServed /\ AnswersCreated /\ RequestOwned
  BY <1>2, ClientAssumption DEF RequestsGenuine, CallsGenuine, KnownServed, AnswersCreated, RequestOwned
<1> QED
  BY <1>1, <1>3, <1>4, <1>5 DEF NInv, HInv

(* A use a client can name: of an address that is mapped, a fat binary or a
   registered kernel. *)
Held(c, u) ==
  \/ \E e \in ranges[c] : u = Use("memory", e)
  \/ \E e \in fatbins[c] : u = Use("module", e)
  \/ \E h \in Hosts : functions[c][h] # NoEntry /\ u = Use("function", functions[c][h])

(* A call begins: it uses what its client can name, and what it frees is
   forgotten first. *)
Begins(t, op, uses) ==
  /\ pc[t] = "idle" /\ pc'[t] = "lock"
  /\ calls' = calls + 1
  /\ call'[t].n = calls' /\ call'[t].op = op /\ call'[t].uses = uses
  /\ \A s \in Threads \ {t} : pc'[s] = pc[s] /\ call'[s] = call[s]
  /\ \A u \in uses : Held(Home[t], u)
  /\ \A c \in Clients : ranges'[c] \subseteq ranges[c]
  /\ op = "free" => \A u \in uses : u.kind = "memory" /\ \A e \in ranges'[Home[t]] : e.obj # u.obj
  /\ UNCHANGED <<link, lock, fatbins, functions, reply>>

LEMMA BeginBegins ==
  ASSUME TInv, NInv, NEW t \in Threads, BeginCall(t)
  PROVE  \E op, uses : Begins(t, op, uses)
<1> DEFINE c == Home[t]
<1>1. c \in Clients
  BY ClientAssumption
<1>2. ASSUME NEW op, NEW uses, NEW len, Begin(t, op, uses, len),
             \A u \in uses : Held(c, u),
             \A d \in Clients : ranges'[d] \subseteq ranges[d],
             op = "free" => \A u \in uses : u.kind = "memory" /\ \A e \in ranges'[c] : e.obj # u.obj
      PROVE  Begins(t, op, uses)
  <2>1. /\ pc[t] = "idle" /\ pc'[t] = "lock"
        /\ calls' = calls + 1
        /\ call'[t].n = calls' /\ call'[t].op = op /\ call'[t].uses = uses
        /\ \A s \in Threads \ {t} : pc'[s] = pc[s] /\ call'[s] = call[s]
        /\ UNCHANGED <<link, lock, fatbins, functions, reply>>
    BY <1>2 DEF Begin, Goto, TInv, TypeOK, ClientTypeOK
  <2> QED
    BY <1>2, <2>1 DEF Begins
<1>3. CASE BeginPlain(t)
  BY <1>2, <1>3 DEF BeginPlain
<1>4. CASE BeginFree(t)
  <2>1. PICK e \in ranges[c] :
          /\ Begin(t, "free", {Use("memory", e)}, 0)
          /\ ranges' = [ranges EXCEPT ![c] = Unmapped(c, e)]
    BY <1>4 DEF BeginFree
  <2>2. /\ ranges'[c] = ranges[c] \ {e}
        /\ \A d \in Clients : ranges'[d] \subseteq ranges[d]
    BY <1>1, <2>1 DEF Unmapped, TInv, TypeOK, ClientTypeOK
  <2>3. \A f \in ranges'[c] : f.obj # e.obj
    BY <1>1, <2>1, <2>2 DEF NInv, RangesKeyed
  <2>4. \A u \in {Use("memory", e)} : /\ Held(c, u)
                                      /\ u.kind = "memory"
                                      /\ \A f \in ranges'[c] : f.obj # u.obj
    BY <2>1, <2>3 DEF Held, Use
  <2> QED
    BY <1>2, <2>1, <2>2, <2>4
<1>5. CASE BeginCopy(t)
  <2>1. PICK e \in ranges[c], len \in Lens, op \in {"h2d", "d2h"} :
          Begin(t, op, {Use("memory", e)}, len)
    BY <1>5 DEF BeginCopy
  <2>2. UNCHANGED ranges /\ \A u \in {Use("memory", e)} : Held(c, u)
    BY <1>5, <2>1 DEF BeginCopy, Held
  <2> QED
    BY <1>2, <2>1, <2>2
<1>6. CASE BeginLoad(t)
  BY <1>2, <1>6 DEF BeginLoad
<1>7. CASE BeginGetFunction(t)
  <2>1. PICK e \in fatbins[c] : Begin(t, "getfn", {Use("module", e)}, 0)
    BY <1>7 DEF BeginGetFunction
  <2>2. UNCHANGED ranges /\ \A u \in {Use("module", e)} : Held(c, u)
    BY <1>7, <2>1 DEF BeginGetFunction, Held
  <2> QED
    BY <1>2, <2>1, <2>2
<1>8. CASE BeginLaunch(t)
  <2>1. PICK h \in Hosts, args \in SUBSET ranges[c] :
          /\ functions[c][h] # NoEntry
          /\ Begin(t, "launch", {Use("function", functions[c][h])}
                                   \cup {Use("memory", e) : e \in args}, 0)
    BY <1>8 DEF BeginLaunch
  <2>2. Held(c, Use("function", functions[c][h]))
    BY <2>1 DEF Held
  <2>3. \A e \in args : Held(c, Use("memory", e))
    BY <2>1 DEF Held
  <2>4. \A u \in {Use("function", functions[c][h])} \cup {Use("memory", e) : e \in args} : Held(c, u)
    BY <2>2, <2>3
  <2>5. UNCHANGED ranges
    BY <1>8 DEF BeginLaunch
  <2> QED
    BY <1>2, <2>1, <2>4, <2>5
<1> QED
  BY <1>3, <1>4, <1>5, <1>6, <1>7, <1>8 DEF BeginCall

-----------------------------------------------------------------------------
(* What the numbers of calls name: the client's part of the argument. *)
LEMMA BeginNumbers ==
  ASSUME TInv, RInv, NInv, NEW t \in Threads, BeginCall(t)
  PROVE  NInv'
<1> DEFINE c == Home[t]
<1>1. PICK op, uses : Begins(t, op, uses)
  BY BeginBegins
<1> USE <1>1 DEF Begins
<1>2. c \in Clients /\ calls \in Nat
  BY ClientAssumption DEF TInv, TypeOK, ClientTypeOK
<1>3. \A u \in uses : u.kind = "memory" => \E e \in ranges[c] : u.obj = e.obj
  BY DEF Held, Use
<1>4. \A d \in Clients : \A e \in ranges[d] : e.obj <= calls /\ e.obj \in Nat
  BY LinkAssumption DEF NInv, NumbersMade, TInv, TypeOK, ClientTypeOK, Entry, Calls
<1>5. \A s \in Threads : \A u \in call[s].uses : u.kind = "memory" => u.obj <= calls /\ u.obj \in Nat
  BY LinkAssumption DEF NInv, NumbersMade, TInv, TypeOK, ClientTypeOK, Request, NoRequest, Uses, Calls
<1>6. \A s \in Threads : \A u \in call'[s].uses : u.kind = "memory" => u.obj <= calls /\ u.obj \in Nat
  BY <1>2, <1>3, <1>4, <1>5
<1>7. NumbersMade'
  BY <1>2, <1>4, <1>6 DEF NumbersMade
<1>8. NumbersFresh'
  <2> SUFFICES ASSUME NEW s \in Threads, pc'[s] \in InCall
               PROVE  /\ \A d \in Clients : \A e \in ranges'[d] : e.obj # call'[s].n
                      /\ \A v \in Threads : \A u \in call'[v].uses : u.kind = "memory" => u.obj # call'[s].n
    BY DEF NumbersFresh
  <2>1. CASE s = t
    BY <1>2, <1>4, <1>6, <2>1
  <2>2. CASE s # t
    <3>1. pc[s] \in InCall /\ call'[s].n = call[s].n
      BY <2>2
    <3>2. \A d \in Clients : \A e \in ranges[d] : e.obj # call[s].n
      BY <3>1 DEF NInv, NumbersFresh
    <3>3. \A v \in Threads : \A u \in call[v].uses : u.kind = "memory" => u.obj # call[s].n
      BY <3>1 DEF NInv, NumbersFresh
    <3> QED
      BY <1>2, <1>3, <3>1, <3>2, <3>3
  <2> QED
    BY <2>1, <2>2
<1>9. RangesKeyed'
  BY DEF NInv, RangesKeyed
<1>10. FreeForgets'
  BY ClientAssumption DEF NInv, FreeForgets
<1> QED
  BY <1>7, <1>8, <1>9, <1>10 DEF NInv

(* Calls that go on or end, and addresses that are forgotten. *)
LEMMA LessNumbers ==
  ASSUME NInv, UNCHANGED calls,
         \A c \in Clients : ranges'[c] \subseteq ranges[c],
         \A t \in Threads : \/ pc'[t] \notin InCall /\ call'[t] = NoRequest
                            \/ call'[t] = call[t] /\ (pc'[t] \in InCall => pc[t] \in InCall)
  PROVE  NInv'
<1>1. \A t \in Threads : pc'[t] \in InCall => pc[t] \in InCall /\ call'[t] = call[t]
  OBVIOUS
<1>2. \A t \in Threads : call'[t].uses \subseteq call[t].uses
  BY DEF NoRequest
<1>3. NumbersFresh'
  <2> SUFFICES ASSUME NEW s \in Threads, pc'[s] \in InCall
               PROVE  /\ \A d \in Clients : \A e \in ranges'[d] : e.obj # call'[s].n
                      /\ \A v \in Threads : \A u \in call'[v].uses : u.kind = "memory" => u.obj # call'[s].n
    BY DEF NumbersFresh
  <2>1. pc[s] \in InCall /\ call'[s] = call[s]
    BY <1>1
  <2> QED
    BY <1>2, <2>1 DEF NInv, NumbersFresh
<1>4. NumbersMade'
  BY <1>2 DEF NInv, NumbersMade
<1>5. RangesKeyed'
  BY DEF NInv, RangesKeyed
<1>6. FreeForgets'
  BY ClientAssumption DEF NInv, FreeForgets, NoRequest
<1> QED
  BY <1>3, <1>4, <1>5, <1>6 DEF NInv

(* The answer to a malloc names an object nothing else names. *)
LEMMA CompleteNumbers ==
  ASSUME TInv, MInv, RInv, NInv, NEW t \in Threads, Complete(t)
  PROVE  NInv'
<1> DEFINE c == Home[t]
<1>1. c \in Clients /\ pc[t] = "done" /\ Return(t, "ok") /\ UNCHANGED calls
  BY ClientAssumption DEF Complete
<1>2. /\ pc'[t] = "idle" /\ call'[t] = NoRequest
      /\ \A s \in Threads \ {t} : pc'[s] = pc[s] /\ call'[s] = call[s]
  BY <1>1 DEF Return, Goto, TInv, TypeOK, ClientTypeOK
<1>3. Got(t).obj = call[t].n
  BY <1>1 DEF Got, MInv, OwnResponse
<1>4. /\ ranges'[c] \subseteq ranges[c] \cup {Got(t)}
      /\ \A d \in Clients \ {c} : ranges'[d] = ranges[d]
  BY <1>1 DEF Complete, TInv, TypeOK, ClientTypeOK
<1>5. \A s \in Threads : pc'[s] \in InCall => s # t /\ pc[s] \in InCall /\ call[s].n # call[t].n
  BY <1>1, <1>2 DEF RInv, CallsDistinct, InCall
<1>6. \A s \in Threads : call'[s].uses \subseteq call[s].uses
  BY <1>2 DEF NoRequest
<1>7. /\ \A d \in Clients : \A e \in ranges[d] : e.obj # call[t].n
      /\ \A s \in Threads : \A u \in call[s].uses : u.kind = "memory" => u.obj # call[t].n
  BY <1>1 DEF NInv, NumbersFresh, InCall
<1>8. call[t].n <= calls
  BY <1>1 DEF RInv, CallsMade, InCall
<1>9. \A d \in Clients : \A e \in ranges'[d] : e \in ranges[d] \/ (d = c /\ e = Got(t))
  BY <1>4
<1>10. NumbersFresh'
  <2> SUFFICES ASSUME NEW s \in Threads, pc'[s] \in InCall
               PROVE  /\ \A d \in Clients : \A e \in ranges'[d] : e.obj # call'[s].n
                      /\ \A v \in Threads : \A u \in call'[v].uses : u.kind = "memory" => u.obj # call'[s].n
    BY DEF NumbersFresh
  <2>1. pc[s] \in InCall /\ call'[s] = call[s] /\ call[s].n # call[t].n
    BY <1>2, <1>5
  <2> QED
    BY <1>3, <1>6, <1>9, <2>1 DEF NInv, NumbersFresh
<1>11. NumbersMade'
  BY <1>1, <1>3, <1>6, <1>8, <1>9 DEF NInv, NumbersMade
<1>12. RangesKeyed'
  BY <1>3, <1>7, <1>9 DEF NInv, RangesKeyed
<1>13. FreeForgets'
  <2> SUFFICES ASSUME NEW s \in Threads, call'[s].op = "free", NEW u \in call'[s].uses
               PROVE  u.kind = "memory" /\ \A e \in ranges'[Home[s]] : e.obj # u.obj
    BY DEF FreeForgets
  <2>1. call'[s] = call[s]
    BY <1>2 DEF NoRequest
  <2>2. u.kind = "memory" /\ \A e \in ranges[Home[s]] : e.obj # u.obj
    BY <2>1 DEF NInv, FreeForgets
  <2>3. u.obj # call[t].n
    BY <1>7, <2>1, <2>2
  <2> QED
    BY <1>3, <1>9, <2>2, <2>3, ClientAssumption
<1> QED
  BY <1>10, <1>11, <1>12, <1>13 DEF NInv

-----------------------------------------------------------------------------
(* Steps that tell nobody of an object: connections and calls stay or end, what
   is on a connection stays or is lost, clients forget. *)
Keeps(c) ==
  /\ client_end'[c] = client_end[c] \/ client_end'[c] = "closed"
  /\ requests'[c] = requests[c] \/ requests'[c] = <<>>
  /\ responses'[c] = responses[c] \/ (responses[c] # <<>> /\ client_end'[c] = "closed")
  /\ ranges'[c] \subseteq ranges[c]
  /\ fatbins'[c] \subseteq fatbins[c]
  /\ \A h \in Hosts : functions'[c][h] = functions[c][h] \/ functions'[c][h] = NoEntry

Ends(t) == pc'[t] \notin {"read", "done"} /\ call'[t] = NoRequest
GoesOn(t) == pc'[t] \in {pc[t], "write"} /\ call'[t] = call[t] /\ reply'[t] = reply[t]

TellsNothing ==
  /\ serving' = serving \/ serving' = NoClient
  /\ answer' = answer \/ answer' = NoAnswer
  /\ UNCHANGED <<backlog, tables, next_id>>
  /\ \A c \in Clients : Keeps(c)
  /\ \A t \in Threads : Ends(t) \/ GoesOn(t)

LEMMA TellsNothingNames ==
  ASSUME TInv, HInv, TellsNothing
  PROVE  HInv'
<1> USE DEF TellsNothing
<1>1. \A u : Genuine(u)' <=> Genuine(u)
  BY DEF Genuine
<1>2. \A c \in Clients : /\ Connected(c)' => Connected(c)
                         /\ Served(c)' => Served(c)
                         /\ Waiting(c)' <=> Waiting(c)
                         /\ client_end'[c] \in {"unset", "open"} => client_end'[c] = client_end[c]
  BY LinkAssumption DEF Connected, Served, Waiting, Keeps
<1>3. \A t \in Threads : /\ Home[t] \in Clients
                         /\ call'[t].uses \subseteq call[t].uses
                         /\ pc'[t] \in {"read", "done"} =>
                              pc'[t] = pc[t] /\ call'[t] = call[t] /\ reply'[t] = reply[t]
  BY ClientAssumption DEF Ends, GoesOn, NoRequest
<1>4. TablesKeyed'
  BY DEF HInv, TablesKeyed
<1>5. BacklogOnce'
  BY LinkAssumption DEF HInv, BacklogOnce, TInv, TypeOK, LinkTypeOK
<1>6. UnservedIsFresh'
  <2> SUFFICES ASSUME NEW c \in Clients, client_end'[c] = "unset" \/ Waiting(c)' PROVE Fresh(c)'
    BY DEF UnservedIsFresh
  <2>1. Fresh(c)
    BY <1>2 DEF HInv, UnservedIsFresh
  <2> QED
    BY <1>3, <2>1 DEF Fresh, Keeps
<1>7. RequestsGenuine'
  <2> SUFFICES ASSUME NEW c \in Clients, Connected(c)', requests'[c] # <<>>,
                      NEW u \in Head(requests'[c]).uses
               PROVE  Genuine(u)'
    BY DEF RequestsGenuine
  <2>1. Connected(c) /\ requests'[c] = requests[c]
    BY <1>2 DEF Keeps
  <2> QED
    BY <1>1, <2>1 DEF HInv, RequestsGenuine
<1>8. CallsGenuine'
  <2> SUFFICES ASSUME NEW t \in Threads, Connected(Home[t])', client_end'[Home[t]] = "open",
                      NEW u \in call'[t].uses
               PROVE  Genuine(u)'
    BY DEF CallsGenuine
  <2>1. Connected(Home[t]) /\ client_end[Home[t]] = "open" /\ u \in call[t].uses
    BY <1>2, <1>3
  <2> QED
    BY <1>1, <2>1 DEF HInv, CallsGenuine
<1>9. KnownServed'
  <2> SUFFICES ASSUME NEW c \in Clients, Served(c)'
               PROVE  /\ ranges'[c] \subseteq tables["memory"]
                      /\ fatbins'[c] \subseteq tables["module"]
                      /\ \A h \in Hosts : functions'[c][h] # NoEntry => functions'[c][h] \in tables["function"]
    BY DEF KnownServed
  <2>1. Served(c) /\ Keeps(c)
    BY <1>2
  <2> QED
    BY <2>1 DEF HInv, KnownServed, Keeps
<1>10. AnswersCreated'
  <2> SUFFICES ASSUME NEW t \in Threads, Served(Home[t])', pc'[t] \in {"read", "done"}
               PROVE  /\ pc'[t] = "read" /\ answer' # NoAnswer => Created(call[t], answer)'
                      /\ pc'[t] = "read" /\ responses'[Home[t]] # <<>> =>
                           Created(call[t], Head(responses[Home[t]]))'
                      /\ pc'[t] = "done" => Created(call[t], reply[t])'
    BY DEF AnswersCreated
  <2>1. /\ Served(Home[t]) /\ pc'[t] = pc[t] /\ call'[t] = call[t] /\ reply'[t] = reply[t]
        /\ client_end'[Home[t]] = "open"
    BY <1>2, <1>3 DEF Served
  <2>2. responses'[Home[t]] = responses[Home[t]]
    BY <1>3, <2>1 DEF Keeps
  <2> QED
    BY <2>1, <2>2 DEF HInv, AnswersCreated, Created
<1>11. RequestOwned'
  <2> SUFFICES ASSUME NEW t \in Threads, client_end'[Home[t]] = "open", pc'[t] = "read",
                      requests'[Home[t]] # <<>>
               PROVE  Head(requests'[Home[t]]) = call'[t]
    BY DEF RequestOwned
  <2>1. /\ client_end[Home[t]] = "open" /\ pc[t] = "read" /\ call'[t] = call[t]
        /\ requests'[Home[t]] = requests[Home[t]]
    BY <1>2, <1>3 DEF Keeps
  <2> QED
    BY <2>1 DEF HInv, RequestOwned
<1> QED
  BY <1>4, <1>5, <1>6, <1>7, <1>8, <1>9, <1>10, <1>11 DEF HInv

(* What a connected client can name is in the tables: a client that is not
   served yet can name nothing. *)
LEMMA HeldIsGenuine ==
  ASSUME TInv, HInv, NEW c \in Clients, Connected(c), client_end[c] = "open", NEW u, Held(c, u)
  PROVE  Genuine(u)
<1>1. serving = c
  <2>1. ~Fresh(c)
    BY DEF Fresh, Held
  <2> QED
    BY <2>1 DEF HInv, UnservedIsFresh, Connected, Waiting
<1>2. Served(c)
  BY <1>1 DEF Served
<1>3. PICK k \in Kinds : \E i \in tables[k] : u = Use(k, i)
  <2>1. /\ ranges[c] \subseteq tables["memory"]
        /\ fatbins[c] \subseteq tables["module"]
        /\ \A h \in Hosts : functions[c][h] # NoEntry => functions[c][h] \in tables["function"]
    BY <1>2 DEF HInv, KnownServed
  <2>2. "memory" \in Kinds /\ "module" \in Kinds /\ "function" \in Kinds
    BY DEF Kinds
  <2>3. CASE \E e \in ranges[c] : u = Use("memory", e)
    BY <2>1, <2>2, <2>3
  <2>4. CASE \E e \in fatbins[c] : u = Use("module", e)
    BY <2>1, <2>2, <2>4
  <2>5. CASE \E h \in Hosts : functions[c][h] # NoEntry /\ u = Use("function", functions[c][h])
    BY <2>1, <2>2, <2>5
  <2> QED
    BY <2>3, <2>4, <2>5 DEF Held
<1>4. PICK i \in tables[k] : u.kind = k /\ u.handle = i.handle /\ u.obj = i.obj
  BY <1>3 DEF Use
<1>5. i.handle < next_id[k] /\ \A j \in tables[k] : j.handle = i.handle => j = i
  BY <1>3 DEF HInv, TablesKeyed
<1> QED
  BY <1>4, <1>5 DEF Genuine

LEMMA BeginNames ==
  ASSUME TInv, NInv, HInv, NEW t \in Threads, BeginCall(t), UNCHANGED daemonVars
  PROVE  HInv'
<1> DEFINE c == Home[t]
<1>1. PICK op, uses : Begins(t, op, uses)
  BY BeginBegins
<1> USE <1>1 DEF Begins, link, daemonVars
<1>2. \A s \in Threads : Home[s] \in Clients
  BY ClientAssumption
<1>3. \A u : Genuine(u)' <=> Genuine(u)
  BY DEF Genuine
<1>4. \A d : /\ Connected(d)' <=> Connected(d)
             /\ Served(d)' <=> Served(d)
             /\ Waiting(d)' <=> Waiting(d)
  BY DEF Connected, Served, Waiting
<1>5. TablesKeyed' /\ BacklogOnce'
  BY DEF HInv, TablesKeyed, BacklogOnce
<1>6. UnservedIsFresh'
  <2> SUFFICES ASSUME NEW d \in Clients, client_end[d] = "unset" \/ Waiting(d) PROVE Fresh(d)'
    BY <1>4 DEF UnservedIsFresh
  <2>1. Fresh(d)
    BY DEF HInv, UnservedIsFresh
  <2>2. d = c => uses = {}
    BY <2>1 DEF Fresh, Held
  <2>3. \A s \in Threads : Home[s] = d => call'[s].uses = {} /\ pc'[s] # "done"
    BY <2>1, <2>2 DEF Fresh
  <2> QED
    BY <2>1, <2>3 DEF Fresh
<1>7. RequestsGenuine'
  BY <1>3, <1>4 DEF HInv, RequestsGenuine
<1>8. CallsGenuine'
  <2> SUFFICES ASSUME NEW s \in Threads, Connected(Home[s]), client_end[Home[s]] = "open",
                      NEW u \in call'[s].uses
               PROVE  Genuine(u)
    BY <1>3, <1>4 DEF CallsGenuine
  <2>1. CASE s = t
    BY <1>2, <2>1, HeldIsGenuine
  <2>2. CASE s # t
    BY <2>2 DEF HInv, CallsGenuine
  <2> QED
    BY <2>1, <2>2
<1>9. KnownServed'
  <2> SUFFICES ASSUME NEW d \in Clients, Served(d)
               PROVE  /\ ranges'[d] \subseteq tables["memory"]
                      /\ fatbins[d] \subseteq tables["module"]
                      /\ \A h \in Hosts : functions[d][h] # NoEntry => functions[d][h] \in tables["function"]
    BY <1>4 DEF KnownServed
  <2> QED
    BY DEF HInv, KnownServed
<1>10. AnswersCreated'
  <2> SUFFICES ASSUME NEW s \in Threads, Served(Home[s]), pc'[s] \in {"read", "done"}
               PROVE  /\ pc'[s] = "read" /\ answer # NoAnswer => Created(call[s], answer)'
                      /\ pc'[s] = "read" /\ responses[Home[s]] # <<>> =>
                           Created(call[s], Head(responses[Home[s]]))'
                      /\ pc'[s] = "done" => Created(call[s], reply[s])'
    BY <1>4 DEF AnswersCreated
  <2>1. s # t
    OBVIOUS
  <2> QED
    BY <2>1 DEF HInv, AnswersCreated, Created
<1>11. RequestOwned'
  BY DEF HInv, RequestOwned
<1> QED
  BY <1>5, <1>6, <1>7, <1>8, <1>9, <1>10, <1>11 DEF HInv

(* A client that connects can name nothing yet. *)
LEMMA ConnectNames ==
  ASSUME TInv, MInv, HInv, NEW t \in Threads, NEW listening \in BOOLEAN, Connect(t, listening),
         UNCHANGED daemonVars
  PROVE  HInv'
<1> DEFINE c == Home[t]
<1> USE DEF Connect, clientVars, daemonVars
<1>1. /\ c \in Clients
      /\ client_end[c] = "unset" /\ client_end'[c] # "unset"
      /\ \A d \in Clients \ {c} : client_end'[d] = client_end[d]
      /\ \A s \in Threads : Home[s] \in Clients
  BY ClientAssumption DEF TInv, TypeOK, LinkTypeOK
<1>2. Quiet(c) /\ ~Connected(c) /\ Fresh(c)
  BY <1>1 DEF MInv, UnsetIsQuiet, HInv, UnservedIsFresh
<1>3. \/ backlog' = backlog
      \/ /\ backlog' = Append(backlog, c)
         /\ \A i \in DOMAIN backlog' : (i \in DOMAIN backlog /\ backlog'[i] = backlog[i])
                                       \/ (i = Len(backlog) + 1 /\ backlog'[i] = c)
  BY <1>1, AppendProperties, LenProperties DEF TInv, TypeOK, LinkTypeOK
<1>4. ASSUME NEW d \in Clients, d # c
      PROVE  /\ Waiting(d)' => Waiting(d)
             /\ Connected(d)' => Connected(d)
             /\ Served(d)' => Served(d)
  BY <1>1, <1>3, <1>4 DEF Waiting, Connected, Served
<1>5. ~Served(c)'
  BY <1>2 DEF Served, Connected
<1>6. \A u : Genuine(u)' <=> Genuine(u)
  BY DEF Genuine
<1>7. \A d \in Clients : Fresh(d)' <=> Fresh(d)
  BY DEF Fresh
<1>8. TablesKeyed'
  BY DEF HInv, TablesKeyed
<1>9. BacklogOnce'
  BY <1>2, <1>3 DEF HInv, BacklogOnce, Connected
<1>10. UnservedIsFresh'
  BY <1>1, <1>2, <1>4, <1>7 DEF HInv, UnservedIsFresh
<1>11. RequestsGenuine'
  BY <1>2, <1>4, <1>6 DEF HInv, RequestsGenuine, Quiet
<1>12. CallsGenuine'
  <2> SUFFICES ASSUME NEW s \in Threads, Connected(Home[s])', client_end'[Home[s]] = "open",
                      NEW u \in call[s].uses
               PROVE  Genuine(u)
    BY <1>6 DEF CallsGenuine
  <2>1. Home[s] # c
    BY <1>2 DEF Fresh
  <2> QED
    BY <1>1, <1>4, <2>1 DEF HInv, CallsGenuine
<1>13. KnownServed'
  BY <1>4, <1>5 DEF HInv, KnownServed
<1>14. AnswersCreated'
  <2> SUFFICES ASSUME NEW s \in Threads, Served(Home[s])'
               PROVE  /\ pc[s] = "read" /\ answer # NoAnswer => Created(call[s], answer)
                      /\ pc[s] = "read" /\ responses[Home[s]] # <<>> =>
                           Created(call[s], Head(responses[Home[s]]))
                      /\ pc[s] = "done" => Created(call[s], reply[s])
    BY DEF AnswersCreated, Created
  <2>1. Served(Home[s])
    BY <1>1, <1>4, <1>5
  <2> QED
    BY <2>1 DEF HInv, AnswersCreated
<1>15. RequestOwned'
  BY <1>1, <1>2 DEF HInv, RequestOwned, Quiet
<1> QED
  BY <1>8, <1>9, <1>10, <1>11, <1>12, <1>13, <1>14, <1>15 DEF HInv

LEMMA WriteNames ==
  ASSUME TInv, MInv, HInv, NEW t \in Threads, WriteRequest(t), UNCHANGED daemonVars
  PROVE  HInv'
<1> DEFINE c == Home[t]
<1> USE DEF WriteRequest, tablesOf, daemonVars
<1>1. /\ c \in Clients /\ Quiet(c) /\ client_end[c] = "open"
      /\ pc[t] = "write" /\ pc'[t] = "read"
      /\ \A s \in Threads \ {t} : pc'[s] = pc[s]
      /\ \A s \in Threads : Home[s] \in Clients
  BY WriterFindsQuiet, ClientAssumption DEF Goto, TInv, TypeOK, ClientTypeOK
<1>2. /\ requests'[c] # <<>> => Connected(c) /\ Head(requests'[c]) = call[t]
      /\ \A d \in Clients \ {c} : requests'[d] = requests[d]
  <2>1. requests[c] = <<>> /\ requests[c] \in Seq(Request) /\ call[t] \in Request
    BY <1>1 DEF Quiet, TInv, TypeOK, LinkTypeOK, CallHasRequest, InCall
  <2> QED
    BY <1>1, <2>1, HeadTailAppend DEF TInv, TypeOK, LinkTypeOK
<1>3. \A d : /\ Connected(d)' <=> Connected(d)
             /\ Served(d)' <=> Served(d)
             /\ Waiting(d)' <=> Waiting(d)
  BY DEF Connected, Served, Waiting
<1>4. \A u : Genuine(u)' <=> Genuine(u)
  BY DEF Genuine
<1>5. TablesKeyed' /\ BacklogOnce'
  BY DEF HInv, TablesKeyed, BacklogOnce
<1>6. UnservedIsFresh'
  <2>1. \A d \in Clients : Fresh(d) => Fresh(d)'
    BY <1>1 DEF Fresh
  <2> QED
    BY <1>3, <2>1 DEF HInv, UnservedIsFresh
<1>7. RequestsGenuine'
  <2> SUFFICES ASSUME NEW d \in Clients, Connected(d), requests'[d] # <<>>,
                      NEW u \in Head(requests'[d]).uses
               PROVE  Genuine(u)
    BY <1>3, <1>4 DEF RequestsGenuine
  <2>1. CASE d = c
    BY <1>1, <1>2, <2>1 DEF HInv, CallsGenuine
  <2>2. CASE d # c
    BY <1>2, <2>2 DEF HInv, RequestsGenuine
  <2> QED
    BY <2>1, <2>2
<1>8. CallsGenuine'
  BY <1>3, <1>4 DEF HInv, CallsGenuine
<1>9. KnownServed'
  BY <1>3 DEF HInv, KnownServed
<1>10. AnswersCreated'
  <2> SUFFICES ASSUME NEW s \in Threads, Served(Home[s])
               PROVE  /\ pc'[s] = "read" /\ answer # NoAnswer => Created(call[s], answer)
                      /\ pc'[s] = "read" /\ responses[Home[s]] # <<>> =>
                           Created(call[s], Head(responses[Home[s]]))
                      /\ pc'[s] = "done" => Created(call[s], reply[s])
    BY <1>3 DEF AnswersCreated, Created
  <2>1. CASE s = t
    BY <1>1, <2>1 DEF Quiet, Answering, Served
  <2>2. CASE s # t
    BY <1>1, <2>2 DEF HInv, AnswersCreated
  <2> QED
    BY <2>1, <2>2
<1>11. RequestOwned'
  <2> SUFFICES ASSUME NEW s \in Threads, client_end[Home[s]] = "open", pc'[s] = "read",
                      requests'[Home[s]] # <<>>
               PROVE  Head(requests'[Home[s]]) = call[s]
    BY DEF RequestOwned
  <2>1. CASE s = t
    BY <1>2, <2>1
  <2>2. CASE s # t
    <3>1. pc[s] = "read" /\ Home[s] # c
      BY <1>1, <2>2, OneReader
    <3> QED
      BY <1>1, <1>2, <3>1 DEF HInv, RequestOwned
  <2> QED
    BY <2>1, <2>2
<1> QED
  BY <1>5, <1>6, <1>7, <1>8, <1>9, <1>10, <1>11 DEF HInv

LEMMA ReadNames ==
  ASSUME TInv, MInv, HInv, NEW t \in Threads, ReadResponse(t), UNCHANGED daemonVars
  PROVE  HInv'
<1> DEFINE c == Home[t]
<1> USE DEF ReadResponse, tablesOf, daemonVars
<1>0. client_end[c] = "open"
  BY DEF MInv, LockOwned
<1>1. /\ c \in Clients /\ client_end[c] = "open" /\ responses[c] # <<>>
      /\ pc[t] = "read" /\ pc'[t] = "done"
      /\ \A s \in Threads \ {t} : pc'[s] = pc[s] /\ reply'[s] = reply[s]
      /\ reply'[t] = Head(responses[c])
      /\ \A d \in Clients \ {c} : responses'[d] = responses[d]
      /\ \A s \in Threads : Home[s] \in Clients
  BY <1>0, ClientAssumption DEF Goto, TInv, TypeOK, LinkTypeOK, ClientTypeOK
<1>2. \A d : /\ Connected(d)' <=> Connected(d)
             /\ Served(d)' <=> Served(d)
             /\ Waiting(d)' <=> Waiting(d)
  BY DEF Connected, Served, Waiting
<1>3. \A u : Genuine(u)' <=> Genuine(u)
  BY DEF Genuine
<1>4. TablesKeyed' /\ BacklogOnce'
  BY DEF HInv, TablesKeyed, BacklogOnce
<1>5. UnservedIsFresh'
  <2>1. \A d \in Clients : Fresh(d) => Fresh(d)'
    BY <1>1 DEF Fresh
  <2> QED
    BY <1>2, <2>1 DEF HInv, UnservedIsFresh
<1>6. RequestsGenuine' /\ CallsGenuine'
  BY <1>2, <1>3 DEF HInv, RequestsGenuine, CallsGenuine
<1>7. KnownServed'
  BY <1>2 DEF HInv, KnownServed
<1>8. AnswersCreated'
  <2> SUFFICES ASSUME NEW s \in Threads, Served(Home[s])
               PROVE  /\ pc'[s] = "read" /\ answer # NoAnswer => Created(call[s], answer)
                      /\ pc'[s] = "read" /\ responses'[Home[s]] # <<>> =>
                           Created(call[s], Head(responses'[Home[s]]))
                      /\ pc'[s] = "done" => Created(call[s], reply'[s])
    BY <1>2 DEF AnswersCreated, Created
  <2>1. CASE s = t
    BY <1>1, <2>1 DEF HInv, AnswersCreated
  <2>2. CASE s # t
    <3>1. pc'[s] = pc[s] /\ reply'[s] = reply[s]
      BY <1>1, <2>2
    <3>2. pc[s] = "read" => responses'[Home[s]] = responses[Home[s]]
      BY <1>1, <2>2, OneReader
    <3> QED
      BY <3>1, <3>2 DEF HInv, AnswersCreated
  <2> QED
    BY <2>1, <2>2
<1>9. RequestOwned'
  BY <1>1 DEF HInv, RequestOwned
<1> QED
  BY <1>4, <1>5, <1>6, <1>7, <1>8, <1>9 DEF HInv

(* What a call adds to what its client can name was created for it, and is in
   the tables as long as the client is served. *)
LEMMA CompleteNames ==
  ASSUME TInv, MInv, HInv, NEW t \in Threads, Complete(t), UNCHANGED daemonVars
  PROVE  HInv'
<1> DEFINE c == Home[t]
<1> USE DEF daemonVars
<1>1. c \in Clients /\ pc[t] = "done" /\ ~Bad(t) /\ Return(t, "ok") /\ UNCHANGED link
  BY ClientAssumption DEF Complete
<1> USE <1>1 DEF link
<1>2. /\ pc'[t] = "idle" /\ call'[t] = NoRequest
      /\ \A s \in Threads \ {t} : pc'[s] = pc[s] /\ call'[s] = call[s] /\ reply'[s] = reply[s]
  BY DEF Return, Goto, TInv, TypeOK, ClientTypeOK
<1>3. /\ \A d \in Clients \ {c} : /\ ranges'[d] = ranges[d]
                                  /\ fatbins'[d] = fatbins[d]
                                  /\ functions'[d] = functions[d]
      /\ ranges'[c] = ranges[c] \/ (call[t].op = "malloc" /\ ranges'[c] = ranges[c] \cup {Got(t)})
      /\ fatbins'[c] = fatbins[c] \/ (call[t].op = "load" /\ fatbins'[c] = fatbins[c] \cup {Got(t)})
      /\ \A h \in Hosts : functions'[c][h] = functions[c][h]
                          \/ (call[t].op = "getfn" /\ functions'[c][h] = Got(t))
  BY DEF Complete, TInv, TypeOK, ClientTypeOK
<1>4. \A d : /\ Connected(d)' <=> Connected(d)
             /\ Served(d)' <=> Served(d)
             /\ Waiting(d)' <=> Waiting(d)
  BY DEF Connected, Served, Waiting
<1>5. \A u : Genuine(u)' <=> Genuine(u)
  BY DEF Genuine
<1>6. TablesKeyed' /\ BacklogOnce'
  BY DEF HInv, TablesKeyed, BacklogOnce
<1>7. UnservedIsFresh'
  <2>1. ASSUME NEW d \in Clients, Fresh(d) PROVE Fresh(d)'
    <3>1. d # c
      BY <2>1 DEF Fresh
    <3> QED
      BY <1>2, <1>3, <2>1, <3>1 DEF Fresh
  <2> QED
    BY <1>4, <2>1 DEF HInv, UnservedIsFresh
<1>8. RequestsGenuine'
  BY <1>4, <1>5 DEF HInv, RequestsGenuine
<1>9. CallsGenuine'
  BY <1>2, <1>4, <1>5 DEF HInv, CallsGenuine, NoRequest
<1>10. KnownServed'
  <2> SUFFICES ASSUME NEW d \in Clients, Served(d)
               PROVE  /\ ranges'[d] \subseteq tables["memory"]
                      /\ fatbins'[d] \subseteq tables["module"]
                      /\ \A h \in Hosts : functions'[d][h] # NoEntry => functions'[d][h] \in tables["function"]
    BY <1>4 DEF KnownServed
  <2>1. /\ ranges[d] \subseteq tables["memory"]
        /\ fatbins[d] \subseteq tables["module"]
        /\ \A h \in Hosts : functions[d][h] # NoEntry => functions[d][h] \in tables["function"]
    BY DEF HInv, KnownServed
  <2>2. CASE d # c
    BY <1>3, <2>1, <2>2
  <2>3. CASE d = c
    <3>1. call[t].op \in DOMAIN Creates => Got(t) \in tables[Creates[call[t].op]]
      BY <2>3 DEF HInv, AnswersCreated, Created, Bad, Got, MInv, OwnResponse
    <3>2. /\ call[t].op = "malloc" => Got(t) \in tables["memory"]
          /\ call[t].op = "load" => Got(t) \in tables["module"]
          /\ call[t].op = "getfn" => Got(t) \in tables["function"]
      BY <3>1 DEF Creates
    <3> QED
      BY <1>3, <2>1, <2>3, <3>2
  <2> QED
    BY <2>2, <2>3
<1>11. AnswersCreated'
  <2> SUFFICES ASSUME NEW s \in Threads, Served(Home[s]), pc'[s] \in {"read", "done"}
               PROVE  /\ pc'[s] = "read" /\ answer # NoAnswer => Created(call[s], answer)'
                      /\ pc'[s] = "read" /\ responses[Home[s]] # <<>> =>
                           Created(call[s], Head(responses[Home[s]]))'
                      /\ pc'[s] = "done" => Created(call[s], reply[s])'
    BY <1>4 DEF AnswersCreated
  <2>1. s # t
    BY <1>2
  <2> QED
    BY <1>2, <2>1 DEF HInv, AnswersCreated, Created
<1>12. RequestOwned'
  BY <1>2 DEF HInv, RequestOwned
<1> QED
  BY <1>6, <1>7, <1>8, <1>9, <1>10, <1>11, <1>12 DEF HInv

LEMMA ReturnEnds ==
  ASSUME TInv, NEW t \in Threads, NEW v, Return(t, v)
  PROVE  /\ \A s \in Threads : Ends(s) \/ GoesOn(s)
         /\ \A s \in Threads : \/ pc'[s] \notin InCall /\ call'[s] = NoRequest
                               \/ call'[s] = call[s] /\ (pc'[s] \in InCall => pc[s] \in InCall)
BY DEF Return, Goto, Ends, GoesOn, InCall, TInv, TypeOK, ClientTypeOK

LEMMA ContinueNames ==
  ASSUME BodiesFit, TInv, MInv, RInv, NInv, HInv, NEW t \in Threads, NEW listening \in BOOLEAN,
         Continue(t, listening), UNCHANGED daemonVars
  PROVE  NInv' /\ HInv'
<1> DEFINE c == Home[t]
<1>1. c \in Clients /\ (pc[t] = "read" => ~stray[c] /\ client_end[c] = "open")
  BY ClientAssumption DEF MInv, LockOwned, OneInFlight, InStep
<1>2. ASSUME NEW v, Return(t, v), UNCHANGED <<calls, tablesOf>>,
             UNCHANGED <<serving, backlog, requests>>,
             client_end' = client_end \/ Drop(c),
             responses' = responses \/ (Drop(c) /\ responses[c] # <<>> /\
                                        \A d \in Clients \ {c} : responses'[d] = responses[d])
      PROVE  NInv' /\ HInv'
  <2>1. \A d \in Clients : Keeps(d)
    BY <1>1, <1>2 DEF Keeps, Drop, tablesOf, TInv, TypeOK, LinkTypeOK
  <2>2. TellsNothing
    BY <1>2, <2>1, ReturnEnds DEF TellsNothing, daemonVars
  <2>3. \A d \in Clients : ranges'[d] \subseteq ranges[d]
    BY <1>2 DEF tablesOf
  <2> QED
    BY <1>2, <2>2, <2>3, ReturnEnds, LessNumbers, TellsNothingNames
<1>3. ASSUME pc[t] \in InCall, NEW label \in {"write", "read", "done"}, Goto(t, label),
             UNCHANGED <<calls, call, tablesOf>>
      PROVE  NInv'
  <2>1. \A s \in Threads : call'[s] = call[s] /\ (pc'[s] \in InCall => pc[s] \in InCall)
    BY <1>3 DEF Goto, TInv, TypeOK, ClientTypeOK
  <2>2. \A d \in Clients : ranges'[d] \subseteq ranges[d]
    BY <1>3 DEF tablesOf
  <2> QED
    BY <1>3, <2>1, <2>2, LessNumbers
<1>4. CASE Connect(t, listening)
  <2>1. NInv'
    BY <1>4, LessNumbers DEF Connect, clientVars
  <2> QED
    BY <1>4, <2>1, ConnectNames
<1>5. CASE Acquire(t)
  <2>1. NInv'
    BY <1>3, <1>5 DEF Acquire, InCall
  <2>2. \A d \in Clients : Keeps(d)
    BY <1>5 DEF Acquire, Keeps, link, tablesOf
  <2>3. \A s \in Threads : GoesOn(s)
    BY <1>5 DEF Acquire, GoesOn, Goto, TInv, TypeOK, ClientTypeOK
  <2>4. TellsNothing
    BY <1>5, <2>2, <2>3 DEF Acquire, TellsNothing, link, daemonVars
  <2> QED
    BY <2>1, <2>4, TellsNothingNames
<1>6. CASE NotConnected(t)
  BY <1>2, <1>6 DEF NotConnected, link
<1>7. CASE WriteRequest(t)
  BY <1>3, <1>7, WriteNames DEF WriteRequest, InCall
<1>8. CASE WriteFails(t)
  BY <1>2, <1>8 DEF WriteFails
<1>9. CASE ReadResponse(t)
  BY <1>3, <1>9, ReadNames DEF ReadResponse, InCall
<1>10. CASE ReadBadFrame(t)
  <2>1. /\ responses[c] # <<>>
        /\ \A d \in Clients \ {c} : responses'[d] = responses[d]
        /\ Drop(c) /\ Return(t, "failed")
        /\ UNCHANGED <<serving, backlog, requests, tablesOf, calls>>
    BY <1>1, <1>10 DEF ReadBadFrame, TInv, TypeOK, LinkTypeOK
  <2> QED
    BY <1>2, <2>1
<1>11. CASE ReadStray(t)
  BY <1>1, <1>11 DEF ReadStray
<1>12. CASE ReadFails(t)
  BY <1>2, <1>12 DEF ReadFails
<1>13. CASE CompleteFailed(t)
  BY <1>2, <1>13 DEF CompleteFailed, link
<1>14. CASE Complete(t)
  BY <1>14, CompleteNumbers, CompleteNames
<1> QED
  BY <1>4, <1>5, <1>6, <1>7, <1>8, <1>9, <1>10, <1>11, <1>12, <1>13, <1>14 DEF Continue

LEMMA ExitNames ==
  ASSUME TInv, NInv, HInv, NEW c \in Clients, Exit(c), UNCHANGED daemonVars
  PROVE  NInv' /\ HInv'
<1> USE DEF Exit
<1>1. \A d \in Clients : Keeps(d)
  BY DEF Keeps, Drop, TInv, TypeOK, LinkTypeOK, ClientTypeOK
<1>2. \A t \in Threads : Ends(t) \/ GoesOn(t)
  BY DEF Ends, GoesOn
<1>3. TellsNothing
  BY <1>1, <1>2 DEF TellsNothing, daemonVars
<1>4. NInv'
  <2>1. \A d \in Clients : ranges'[d] \subseteq ranges[d]
    BY <1>1 DEF Keeps
  <2>2. \A t \in Threads : \/ pc'[t] \notin InCall /\ call'[t] = NoRequest
                           \/ call'[t] = call[t] /\ (pc'[t] \in InCall => pc[t] \in InCall)
    BY DEF InCall
  <2> QED
    BY <2>1, <2>2, LessNumbers
<1> QED
  BY <1>3, <1>4, TellsNothingNames

-----------------------------------------------------------------------------
(* The daemon accepts the client that has waited longest, which can name
   nothing yet. *)
LEMMA AcceptNames ==
  ASSUME TInv, MInv, HInv, Accept, UNCHANGED clientVars
  PROVE  HInv'
<1> USE DEF Accept, clientVars, daemonVars
<1>1. /\ Len(backlog) \in Nat \ {0} /\ Head(backlog) = backlog[1]
      /\ 1 \in DOMAIN backlog
      /\ \A i \in DOMAIN Tail(backlog) : i + 1 \in DOMAIN backlog /\ Tail(backlog)[i] = backlog[i + 1]
                                         /\ i + 1 # 1 /\ i \in Nat
  BY EmptySeq, LenProperties, HeadTailProperties DEF TInv, TypeOK, LinkTypeOK
<1>2. \A d \in Clients : /\ Waiting(d)' => Waiting(d)
                         /\ Connected(d)' => Connected(d)
                         /\ Served(d)' => Waiting(d)
  BY <1>1 DEF Waiting, Connected, Served
<1>3. answer = NoAnswer
  BY DEF MInv, AnswerHasServer
<1>4. \A u : Genuine(u)' <=> Genuine(u)
  BY DEF Genuine
<1>5. \A d \in Clients : Fresh(d)' <=> Fresh(d)
  BY DEF Fresh
<1>6. TablesKeyed'
  BY DEF HInv, TablesKeyed
<1>7. BacklogOnce'
  BY <1>1 DEF HInv, BacklogOnce
<1>8. UnservedIsFresh'
  BY <1>2, <1>5 DEF HInv, UnservedIsFresh
<1>9. RequestsGenuine' /\ CallsGenuine'
  BY <1>2, <1>4, ClientAssumption DEF HInv, RequestsGenuine, CallsGenuine
<1>10. \A d \in Clients : Served(d)' => Fresh(d)
  BY <1>2 DEF HInv, UnservedIsFresh
<1>11. KnownServed'
  BY <1>10 DEF KnownServed, Fresh
<1>12. AnswersCreated'
  BY <1>3, <1>10, ClientAssumption DEF AnswersCreated, Fresh
<1>13. RequestOwned'
  BY DEF HInv, RequestOwned
<1> QED
  BY <1>6, <1>7, <1>8, <1>9, <1>11, <1>12, <1>13 DEF HInv

(* Handles given stay what they are when the next one is given out. *)
LEMMA InsertKeeps ==
  ASSUME TInv, HInv, NEW k \in Kinds, NEW obj, Insert(k, obj)
  PROVE  /\ TablesKeyed'
         /\ \A u \in Uses : Genuine(u) => Genuine(u)'
         /\ \A j \in Kinds : tables[j] \subseteq tables'[j]
         /\ [handle |-> FreshHandle(k), obj |-> obj] \in tables'[k]
<1> DEFINE new == [handle |-> FreshHandle(k), obj |-> obj]
<1>1. /\ tables'[k] = tables[k] \cup {new}
      /\ next_id'[k] = next_id[k] + 1
      /\ \A j \in Kinds \ {k} : tables'[j] = tables[j] /\ next_id'[j] = next_id[j]
      /\ new.handle = next_id[k]
  BY DEF Insert, FreshHandle, TInv, TypeOK, DaemonTypeOK
<1>2. /\ next_id[k] \in Nat
      /\ \A j \in Kinds : \A i \in tables[j] : i.handle \in Nat
      /\ \A u \in Uses : u.handle \in Nat /\ u.kind \in Kinds
  BY DEF TInv, TypeOK, DaemonTypeOK, Handles, Item, Uses
<1>3. TablesKeyed'
  <2>1. \A i \in tables[k] : i.handle < next_id[k]
    BY DEF HInv, TablesKeyed
  <2> QED
    BY <1>1, <1>2, <2>1 DEF HInv, TablesKeyed
<1>4. ASSUME NEW u \in Uses, Genuine(u) PROVE Genuine(u)'
  <2>1. u.handle \in Nat /\ u.kind \in Kinds /\ u.handle < next_id[u.kind]
    BY <1>2, <1>4 DEF Genuine
  <2> QED
    BY <1>1, <1>2, <1>4, <2>1 DEF Genuine
<1> QED
  BY <1>1, <1>3, <1>4

LEMMA RemoveKeeps ==
  ASSUME TInv, HInv, NEW uses, Remove(uses), UNCHANGED next_id
  PROVE  /\ TablesKeyed'
         /\ \A u \in Uses : Genuine(u) => Genuine(u)'
<1>1. \A j \in Kinds : tables'[j] \subseteq tables[j]
  BY DEF Remove
<1>2. \A u \in Uses : u.kind \in Kinds
  BY DEF Uses
<1> QED
  BY <1>1, <1>2 DEF HInv, TablesKeyed, Genuine

(* A request that is read from an open connection is the one of the thread that
   waits there. *)
LEMMA RequestHasReader ==
  ASSUME MInv, HInv, NEW c \in Clients, client_end[c] = "open", requests[c] # <<>>
  PROVE  /\ responses[c] = <<>>
         /\ \E t \in Threads : Home[t] = c /\ pc[t] = "read" /\ Head(requests[c]) = call[t]
<1>1. Awaited(c)
  BY DEF MInv, OneInFlight, InStep, Quiet
<1>2. PICK t \in Threads : Home[t] = c /\ pc[t] = "read" /\ InFlight(c, call[t].n)
  BY <1>1 DEF Awaited
<1>3. responses[c] = <<>>
  BY <1>2 DEF InFlight, OnlyRequest, OnlyAnswer, OnlyResponse
<1>4. Head(requests[c]) = call[t]
  BY <1>2 DEF HInv, RequestOwned
<1> QED
  BY <1>2, <1>3, <1>4

(* Running a request: what is left to show of each kind is what it does to the
   tables. *)
LEMMA RunNames ==
  ASSUME TInv, MInv, RInv, HInv, UNCHANGED clientVars,
         NEW c \in Clients, NEW r, NEW ok, NEW handle, NEW len, Run(c, r, ok, handle, len),
         TablesKeyed', \A u \in Uses : Genuine(u) => Genuine(u)',
         KnownServed',
         \A t \in Threads : Served(Home[t]) /\ pc[t] = "done" => Created(call[t], reply[t])',
         client_end[c] = "open" => Created(r, answer)'
  PROVE  HInv'
<1> USE DEF Run, Reading, clientVars
<1>1. /\ \A t \in Threads : Home[t] \in Clients /\ \A u \in call[t].uses : u \in Uses
      /\ \A d \in Clients : requests[d] # <<>> => \A u \in Head(requests[d]).uses : u \in Uses
  <2>1. ASSUME NEW d \in Clients, requests[d] # <<>> PROVE Head(requests[d]) \in Request
    BY <2>1, HeadTailProperties DEF TInv, TypeOK, LinkTypeOK
  <2> QED
    BY <2>1, ClientAssumption DEF TInv, TypeOK, ClientTypeOK, Request, NoRequest
<1>2. \A d : /\ Connected(d)' <=> Connected(d)
             /\ Served(d)' <=> Served(d)
             /\ Waiting(d)' <=> Waiting(d)
  BY DEF Connected, Served, Waiting
<1>3. \A d \in Clients : requests'[d] = requests[d] \/ requests'[d] = <<>>
  BY DEF RInv, QueuedOnce, TInv, TypeOK, LinkTypeOK
<1>4. BacklogOnce'
  BY DEF HInv, BacklogOnce
<1>5. UnservedIsFresh'
  BY <1>2 DEF HInv, UnservedIsFresh, Fresh
<1>6. RequestsGenuine'
  <2> SUFFICES ASSUME NEW d \in Clients, Connected(d), requests'[d] # <<>>,
                      NEW u \in Head(requests'[d]).uses
               PROVE  Genuine(u)'
    BY <1>2 DEF RequestsGenuine
  <2>1. requests'[d] = requests[d]
    BY <1>3
  <2>2. u \in Uses /\ Genuine(u)
    BY <1>1, <2>1 DEF HInv, RequestsGenuine
  <2> QED
    BY <2>2
<1>7. CallsGenuine'
  BY <1>1, <1>2 DEF HInv, CallsGenuine
<1>8. AnswersCreated'
  <2> SUFFICES ASSUME NEW t \in Threads, Served(Home[t])
               PROVE  /\ pc[t] = "read" => Created(call[t], answer)'
                      /\ pc[t] = "read" => responses[Home[t]] = <<>>
                      /\ pc[t] = "done" => Created(call[t], reply[t])'
    BY <1>2 DEF AnswersCreated, Created
  <2>1. Home[t] = c /\ client_end[c] = "open"
    BY DEF Served
  <2>2. responses[c] = <<>>
    BY <2>1, RequestHasReader
  <2>3. pc[t] = "read" => call[t] = r
    BY <2>1 DEF HInv, RequestOwned
  <2> QED
    BY <2>1, <2>2, <2>3
<1>9. RequestOwned'
  BY <1>1, <1>3 DEF HInv, RequestOwned
<1> QED
  BY <1>4, <1>5, <1>6, <1>7, <1>8, <1>9 DEF HInv

(* Tables that grow lose nothing a client knows or is told of. *)
LEMMA GrowKeeps ==
  ASSUME TInv, HInv, UNCHANGED clientVars, UNCHANGED <<client_end, serving>>,
         \A k \in Kinds : tables[k] \subseteq tables'[k]
  PROVE  /\ KnownServed'
         /\ \A t \in Threads : Served(Home[t]) /\ pc[t] = "done" => Created(call[t], reply[t])'
<1>1. "memory" \in Kinds /\ "module" \in Kinds /\ "function" \in Kinds
  BY DEF Kinds
<1>2. \A d : Served(d)' <=> Served(d)
  BY DEF Served
<1>3. KnownServed'
  BY <1>1, <1>2 DEF HInv, KnownServed, clientVars
<1>4. ASSUME NEW t \in Threads, Served(Home[t]), pc[t] = "done" PROVE Created(call[t], reply[t])'
  <2>1. Created(call[t], reply[t])
    BY <1>4 DEF HInv, AnswersCreated
  <2>2. \A op \in DOMAIN Creates : Creates[op] \in Kinds
    BY DEF Creates, Kinds
  <2> QED
    BY <2>1, <2>2 DEF Created, clientVars
<1> QED
  BY <1>3, <1>4

LEMMA RunCreateNames ==
  ASSUME TInv, MInv, RInv, HInv, UNCHANGED clientVars, NEW c \in Clients, RunCreate(c)
  PROVE  HInv'
<1>1. PICK r : /\ r.op \in DOMAIN Creates
               /\ Run(c, r, TRUE, FreshHandle(Creates[r.op]), 0)
               /\ Insert(Creates[r.op], r.n)
  BY DEF RunCreate
<1> DEFINE k == Creates[r.op]
<1>2. k \in Kinds
  BY <1>1 DEF Creates, Kinds
<1>3. /\ TablesKeyed'
      /\ \A u \in Uses : Genuine(u) => Genuine(u)'
      /\ \A j \in Kinds : tables[j] \subseteq tables'[j]
      /\ [handle |-> FreshHandle(k), obj |-> r.n] \in tables'[k]
  BY <1>1, <1>2, InsertKeeps
<1>4. answer'.handle = FreshHandle(k)
  BY <1>1 DEF Run
<1>5. Created(r, answer)'
  BY <1>3, <1>4 DEF Created
<1>6. UNCHANGED <<client_end, serving>>
  BY <1>1 DEF Run
<1>7. /\ KnownServed'
      /\ \A t \in Threads : Served(Home[t]) /\ pc[t] = "done" => Created(call[t], reply[t])'
  BY <1>3, <1>6, GrowKeeps
<1> QED
  BY <1>1, <1>3, <1>5, <1>7, RunNames

(* Requests that leave the tables alone, and tell of no new object. *)
LEMMA RunOtherNames ==
  ASSUME TInv, MInv, RInv, HInv, UNCHANGED clientVars, NEW c \in Clients,
         NEW r, NEW ok, NEW len, Run(c, r, ok, 0, len), UNCHANGED <<tables, next_id>>,
         ~ok \/ r.op \notin DOMAIN Creates
  PROVE  HInv'
<1>1. TablesKeyed' /\ \A u \in Uses : Genuine(u) => Genuine(u)'
  BY DEF HInv, TablesKeyed, Genuine
<1>2. answer'.ok = ok /\ UNCHANGED <<client_end, serving>>
  BY DEF Run
<1>3. Created(r, answer)'
  BY <1>2 DEF Created
<1>4. /\ KnownServed'
      /\ \A t \in Threads : Served(Home[t]) /\ pc[t] = "done" => Created(call[t], reply[t])'
  BY <1>2, GrowKeeps
<1> QED
  BY <1>1, <1>3, <1>4, RunNames

(* A free removes an allocation that no address of the client means, and none it
   is being told of. *)
LEMMA RunFreeNames ==
  ASSUME TInv, MInv, RInv, NInv, HInv, UNCHANGED clientVars, NEW c \in Clients, RunFree(c)
  PROVE  HInv'
<1>1. PICK r \in {requests[c][i] : i \in DOMAIN requests[c]}, ok \in BOOLEAN :
        /\ r.op = "free" /\ Run(c, r, ok, 0, 0) /\ Remove(r.uses) /\ UNCHANGED next_id
  BY DEF RunFree
<1>2. /\ requests[c] # <<>> /\ r = Head(requests[c]) /\ serving = c
      /\ UNCHANGED <<client_end, serving>>
  BY <1>1 DEF Run, Reading
<1>3. TablesKeyed' /\ \A u \in Uses : Genuine(u) => Genuine(u)'
  BY <1>1, RemoveKeeps
<1>4. Created(r, answer)'
  BY <1>1 DEF Created, Creates
<1>5. ASSUME NEW k \in Kinds, NEW i \in tables[k], client_end[c] = "open",
             k = "memory" => \A u \in r.uses : u.obj # i.obj
      PROVE  i \in tables'[k]
  <2>1. PICK t \in Threads : Home[t] = c /\ pc[t] = "read" /\ r = call[t]
    BY <1>2, <1>5, RequestHasReader
  <2>2. ASSUME NEW u \in r.uses, u.kind = k, u.handle = i.handle PROVE FALSE
    <3>1. u.kind = "memory"
      BY <1>1, <2>1 DEF NInv, FreeForgets
    <3>2. Genuine(u)
      BY <1>2, <1>5, <2>1 DEF HInv, CallsGenuine, Connected
    <3> QED
      BY <1>5, <2>2, <3>1, <3>2 DEF Genuine
  <2> QED
    BY <1>1, <2>2 DEF Remove
<1>6. KnownServed'
  <2> SUFFICES ASSUME NEW d \in Clients, Served(d)
               PROVE  /\ ranges[d] \subseteq tables'["memory"]
                      /\ fatbins[d] \subseteq tables'["module"]
                      /\ \A h \in Hosts : functions[d][h] # NoEntry => functions[d][h] \in tables'["function"]
    BY <1>2 DEF KnownServed, Served, clientVars
  <2>1. d = c /\ client_end[c] = "open"
    BY <1>2 DEF Served
  <2>2. /\ ranges[c] \subseteq tables["memory"]
        /\ fatbins[c] \subseteq tables["module"]
        /\ \A h \in Hosts : functions[c][h] # NoEntry => functions[c][h] \in tables["function"]
    BY <2>1 DEF HInv, KnownServed
  <2>3. "memory" \in Kinds /\ "module" \in Kinds /\ "function" \in Kinds
    BY DEF Kinds
  <2>4. PICK t \in Threads : Home[t] = c /\ pc[t] = "read" /\ r = call[t]
    BY <1>2, <2>1, RequestHasReader
  <2>5. \A e \in ranges[c] : \A u \in r.uses : u.obj # e.obj
    BY <1>1, <2>4 DEF NInv, FreeForgets
  <2> QED
    BY <1>5, <2>1, <2>2, <2>3, <2>5
<1>7. ASSUME NEW t \in Threads, Served(Home[t]), pc[t] = "done" PROVE Created(call[t], reply[t])'
  <2>1. Home[t] = c /\ client_end[c] = "open"
    BY <1>2, <1>7 DEF Served
  <2>2. Created(call[t], reply[t])
    BY <1>7 DEF HInv, AnswersCreated
  <2>3. PICK s \in Threads : Home[s] = c /\ pc[s] = "read" /\ r = call[s]
    BY <1>2, <2>1, RequestHasReader
  <2>4. \A u \in r.uses : u.kind = "memory" /\ u.obj # call[t].n
    BY <1>1, <1>7, <2>3 DEF NInv, NumbersFresh, FreeForgets, InCall
  <2>5. \A op \in DOMAIN Creates : Creates[op] \in Kinds
    BY DEF Creates, Kinds
  <2>6. \A k \in Kinds : [handle |-> reply[t].handle, obj |-> call[t].n] \in tables[k] =>
                           [handle |-> reply[t].handle, obj |-> call[t].n] \in tables'[k]
    BY <1>5, <2>1, <2>4
  <2> QED
    BY <2>2, <2>5, <2>6 DEF Created, clientVars
<1> QED
  BY <1>1, <1>3, <1>4, <1>6, <1>7, RunNames

LEMMA RespondNames ==
  ASSUME TInv, MInv, HInv, UNCHANGED clientVars, NEW c \in Clients, WriteResponse(c)
  PROVE  HInv'
<1> USE DEF WriteResponse, clientVars
<1>1. \A d \in Clients \ {c} : responses'[d] = responses[d]
  BY DEF TInv, TypeOK, LinkTypeOK
<1>2. client_end[c] = "open" => Head(responses'[c]) = answer
  <2> SUFFICES ASSUME client_end[c] = "open" PROVE Head(responses'[c]) = answer
    OBVIOUS
  <2>1. responses[c] = <<>>
    BY DEF MInv, OneInFlight, InStep, Quiet, Awaited, InFlight, OnlyRequest, OnlyAnswer,
           OnlyResponse, Answering
  <2>2. responses'[c] = Append(responses[c], answer)
    BY DEF TInv, TypeOK, LinkTypeOK
  <2> QED
    BY <2>1, <2>2, HeadTailAppend DEF TInv, TypeOK, LinkTypeOK, DaemonTypeOK
<1>3. \A d : /\ Connected(d)' <=> Connected(d)
             /\ Served(d)' <=> Served(d)
             /\ Waiting(d)' <=> Waiting(d)
  BY DEF Connected, Served, Waiting
<1>4. \A u : Genuine(u)' <=> Genuine(u)
  BY DEF Genuine
<1>5. TablesKeyed' /\ BacklogOnce'
  BY DEF HInv, TablesKeyed, BacklogOnce
<1>6. UnservedIsFresh'
  <2> SUFFICES ASSUME NEW d \in Clients, client_end[d] = "unset" \/ Waiting(d) PROVE Fresh(d)'
    BY <1>3 DEF UnservedIsFresh
  <2>1. Fresh(d)
    BY DEF HInv, UnservedIsFresh
  <2>2. d # c
    BY DEF MInv, UnsetIsQuiet, Connected, HInv, BacklogOnce, Waiting
  <2> QED
    BY <1>1, <2>1, <2>2 DEF Fresh
<1>7. RequestsGenuine' /\ CallsGenuine'
  BY <1>3, <1>4 DEF HInv, RequestsGenuine, CallsGenuine
<1>8. KnownServed'
  BY <1>3 DEF HInv, KnownServed
<1>9. AnswersCreated'
  BY <1>2, <1>3 DEF HInv, AnswersCreated, Created, Served
<1>10. RequestOwned'
  BY DEF HInv, RequestOwned
<1> QED
  BY <1>5, <1>6, <1>7, <1>8, <1>9, <1>10 DEF HInv

(* Nothing outlives the daemon that anyone could still use. *)
LEMMA CrashNames ==
  ASSUME HInv, Crash, UNCHANGED clientVars
  PROVE  HInv'
<1> USE DEF Crash, clientVars
<1>1. DOMAIN backlog' = {} /\ serving' = NoClient
  OBVIOUS
<1>2. \A d \in Clients : ~Connected(d)' /\ ~Served(d)' /\ ~Waiting(d)'
  BY <1>1, LinkAssumption DEF Connected, Served, Waiting
<1>3. TablesKeyed' /\ BacklogOnce'
  BY <1>1 DEF TablesKeyed, BacklogOnce
<1>4. UnservedIsFresh'
  BY <1>2 DEF HInv, UnservedIsFresh, Fresh
<1>5. RequestsGenuine' /\ CallsGenuine' /\ KnownServed' /\ AnswersCreated'
  BY <1>2, ClientAssumption DEF RequestsGenuine, CallsGenuine, KnownServed, AnswersCreated
<1>6. RequestOwned'
  BY ClientAssumption DEF RequestOwned
<1> QED
  BY <1>3, <1>4, <1>5, <1>6 DEF HInv

LEMMA DaemonNames ==
  ASSUME TInv, MInv, RInv, NInv, HInv, DaemonStep
  PROVE  NInv' /\ HInv'
<1>1. UNCHANGED clientVars
  BY DEF DaemonStep
<1>2. NInv'
  BY <1>1, LessNumbers DEF clientVars
<1>3. \A t \in Threads : GoesOn(t)
  BY <1>1 DEF clientVars, GoesOn
<1>4. ASSUME UNCHANGED <<client_end, backlog, responses, tables, next_id>>,
             serving' = serving \/ serving' = NoClient,
             answer' = answer \/ answer' = NoAnswer,
             requests' = requests \/ \E c \in Clients : requests' = [requests EXCEPT ![c] = <<>>]
      PROVE  HInv'
  <2>1. \A d \in Clients : requests'[d] = requests[d] \/ requests'[d] = <<>>
    BY <1>4 DEF TInv, TypeOK, LinkTypeOK
  <2>2. \A d \in Clients : Keeps(d)
    BY <1>1, <1>4, <2>1 DEF Keeps, clientVars
  <2>3. TellsNothing
    BY <1>3, <1>4, <2>2 DEF TellsNothing
  <2> QED
    BY <2>3, TellsNothingNames
<1>5. CASE Accept
  BY <1>1, <1>2, <1>5, AcceptNames
<1>6. ASSUME NEW c \in Clients, RefuseRequest(c) PROVE HInv'
  BY <1>4, <1>6 DEF RefuseRequest, CloseServed, daemonVars
<1>7. ASSUME NEW c \in Clients, RunCreate(c) PROVE HInv'
  BY <1>1, <1>7, RunCreateNames
<1>8. ASSUME NEW c \in Clients, RunFree(c) PROVE HInv'
  BY <1>1, <1>8, RunFreeNames
<1>9. ASSUME NEW c \in Clients, RunUse(c) PROVE HInv'
  <2>1. PICK r \in {requests[c][i] : i \in DOMAIN requests[c]} :
          /\ r.op \in {"query", "h2d", "d2h", "launch"}
          /\ Run(c, r, TRUE, 0, IF r.op = "d2h" THEN r.len ELSE 0)
          /\ UNCHANGED <<tables, next_id>>
    BY <1>9 DEF RunUse
  <2>2. r.op \notin DOMAIN Creates
    BY <2>1 DEF Creates
  <2> QED
    BY <1>1, <2>1, <2>2, RunOtherNames
<1>10. ASSUME NEW c \in Clients, RunFails(c) PROVE HInv'
  <2>1. PICK r : Run(c, r, FALSE, 0, 0) /\ UNCHANGED <<tables, next_id>>
    BY <1>10 DEF RunFails
  <2> QED
    BY <1>1, <2>1, RunOtherNames
<1>11. ASSUME NEW c \in Clients, WriteResponse(c) PROVE HInv'
  BY <1>1, <1>11, RespondNames
<1>12. ASSUME NEW c \in Clients, EndOfStream(c) PROVE HInv'
  BY <1>4, <1>12 DEF EndOfStream, CloseServed
<1>13. CASE Crash
  BY <1>1, <1>2, <1>13, CrashNames
<1>14. CASE Restart
  BY <1>2, <1>4, <1>14 DEF Restart, link
<1> QED
  BY <1>2, <1>5, <1>6, <1>7, <1>8, <1>9, <1>10, <1>11, <1>12, <1>13, <1>14 DEF DaemonStep, Serve

LEMMA StepNames ==
  BodiesFit /\ TInv /\ MInv /\ RInv /\ NInv /\ HInv /\ [Next]_vars => NInv' /\ HInv'
<1> SUFFICES ASSUME BodiesFit, TInv, MInv, RInv, NInv, HInv, [Next]_vars PROVE NInv' /\ HInv'
  OBVIOUS
<1>1. CASE UNCHANGED vars
  <2> USE <1>1 DEF vars, link, clientVars, daemonVars
  <2>1. NInv'
    BY LessNumbers
  <2>2. TellsNothing
    BY DEF TellsNothing, Keeps, GoesOn
  <2> QED
    BY <2>1, <2>2, TellsNothingNames
<1>2. ASSUME NEW t \in Threads, ClientStep(t) PROVE NInv' /\ HInv'
  BY <1>2, BeginNumbers, BeginNames, ContinueNames DEF ClientStep
<1>3. ASSUME NEW c \in Clients, ClientExit(c) PROVE NInv' /\ HInv'
  BY <1>3, ExitNames DEF ClientExit
<1>4. CASE DaemonStep
  BY <1>4, DaemonNames
<1> QED
  BY <1>1, <1>2, <1>3, <1>4 DEF Next

LEMMA NamesInvariant ==
  BodiesFit /\ Spec => [](TInv /\ MInv /\ RInv /\ NInv /\ HInv)
<1>1. BodiesFit /\ Init => TInv /\ MInv /\ RInv /\ NInv /\ HInv
  BY InitTypes, InitMatch, InitOnce, InitNames
<1>2. BodiesFit /\ TInv /\ MInv /\ RInv /\ NInv /\ HInv /\ [Next]_vars =>
        TInv' /\ MInv' /\ RInv' /\ NInv' /\ HInv'
  BY StepTypes, StepMatch, StepOnce, StepNames
<1>3. BodiesFit => []BodiesFit
  OBVIOUS
<1> QED
  BY <1>1, <1>2, <1>3, PTL DEF Spec

(* A request that can still run names what its caller meant or nothing any more,
   for any number of games, calls and crashes: no handle is used again within
   a daemon's life, and no request outlives the daemon its handles are of. *)
THEOREM HandlesDenote == BodiesFit /\ Spec => []HandleDenotes
<1>1. TInv /\ RInv /\ HInv => HandleDenotes
  <2> SUFFICES ASSUME TInv, RInv, HInv, NEW c \in Clients, Connected(c), NEW i \in DOMAIN requests[c],
                      NEW u \in requests[c][i].uses, NEW item \in tables[u.kind],
                      item.handle = u.handle
               PROVE  item.obj = u.obj
    BY DEF HandleDenotes
  <2>1. requests[c] \in Seq(Request) /\ i \in 1 .. Len(requests[c])
    BY LenProperties DEF TInv, TypeOK, LinkTypeOK
  <2>2. requests[c] # <<>>
    BY <2>1, EmptySeq
  <2>3. Tail(requests[c]) = <<>>
    BY <2>2 DEF RInv, QueuedOnce
  <2>4. requests[c][i] = Head(requests[c])
    <3>1. Len(Tail(requests[c])) = Len(requests[c]) - 1 /\ Len(requests[c]) \in Nat
      BY <2>1, <2>2, HeadTailProperties, LenProperties
    <3>2. Len(Tail(requests[c])) = 0
      BY <2>3, EmptySeq
    <3> QED
      BY <2>1, <3>1, <3>2
  <2>5. Genuine(u)
    BY <2>2, <2>4 DEF HInv, RequestsGenuine
  <2> QED
    BY <2>5 DEF Genuine
<1> QED
  BY <1>1, NamesInvariant, PTL

(* What the shim still resolves exists in the daemon while the connection lasts,
   however hipFree, hipMalloc and the other calls of a game's threads
   interleave. *)
THEOREM KnownLive == BodiesFit /\ Spec => []KnownIsLive
<1>1. HInv => KnownIsLive
  <2> SUFFICES ASSUME HInv, NEW c \in Clients, client_end[c] = "open", Connected(c)
               PROVE  /\ \A e \in ranges[c] : e \in tables["memory"]
                      /\ \A e \in fatbins[c] : e \in tables["module"]
                      /\ \A h \in Hosts : functions[c][h] # NoEntry => functions[c][h] \in tables["function"]
    BY DEF KnownIsLive
  <2>1. CASE serving = c
    BY <2>1 DEF HInv, KnownServed, Served
  <2>2. CASE serving # c
    BY <2>2 DEF HInv, UnservedIsFresh, Fresh, Connected, Waiting
  <2> QED
    BY <2>1, <2>2
<1> QED
  BY <1>1, NamesInvariant, PTL

=============================================================================
