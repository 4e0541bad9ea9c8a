------------------------------- MODULE Bridge -------------------------------
(***************************************************************************)
(* The bridge: game processes whose shim (BridgeClient) forwards HIP calls *)
(* over TCP (BridgeLink) to the native daemon (BridgeDaemon).              *)
(***************************************************************************)
EXTENDS BridgeClient, BridgeDaemon

vars == <<link, clientVars, daemonVars>>

Init == LinkInit /\ ClientInit /\ DaemonInit

ClientStep(t) == (BeginCall(t) \/ Continue(t, daemon = "up")) /\ UNCHANGED daemonVars
ClientExit(c) == Exit(c) /\ UNCHANGED daemonVars
DaemonStep == (Serve \/ Crash \/ Restart) /\ UNCHANGED clientVars

Next ==
  \/ \E t \in Threads : ClientStep(t)
  \/ \E c \in Clients : ClientExit(c)
  \/ DaemonStep

Spec == Init /\ [][Next]_vars

(* A thread inside a call keeps running and a daemon that is up keeps serving;
   nothing makes a caller start a call, or a daemon restart. *)
FairSpec ==
  /\ Spec
  /\ \A t \in Threads : WF_vars(Continue(t, daemon = "up") /\ UNCHANGED daemonVars)
  /\ WF_vars(Serve /\ UNCHANGED clientVars)

-----------------------------------------------------------------------------
TypeOK == LinkTypeOK /\ ClientTypeOK /\ DaemonTypeOK

(* What call_bridge hands back is the response to the request it sent, whatever
   other threads send, whatever the daemon refuses and whenever it dies. *)
OwnResponse == \A t \in Threads : pc[t] = "done" => reply[t].n = call[t].n

(* A handle in a request that can still run denotes what the caller meant by
   it, or nothing any more: never an allocation, module or kernel that took its
   number later, be it in this daemon or in one started since. *)
HandleDenotes ==
  \A c \in Clients : Connected(c) =>
    \A i \in DOMAIN requests[c] : \A u \in requests[c][i].uses :
      \A item \in tables[u.kind] : item.handle = u.handle => item.obj = u.obj

(* As long as its connection lasts, every address, fat binary and kernel the
   shim still resolves exists in the daemon: hipFree cannot leave an address
   that resolves to freed memory, however the calls interleave. *)
KnownIsLive ==
  \A c \in Clients : client_end[c] = "open" /\ Connected(c) =>
    /\ \A e \in ranges[c] : e \in tables["memory"]
    /\ \A e \in fatbins[c] : e \in tables["module"]
    /\ \A h \in Hosts : functions[c][h] # NoEntry => functions[c][h] \in tables["function"]

(* A call that has the connection gives it back, with an answer or an error,
   unless the daemon is busy with another client. *)
CallReturns ==
  \A c \in Clients : lock[c] # NoThread ~> lock[c] = NoThread \/ serving \notin {c, NoClient}

(* The bridge implements RemoteCalls. *)
Remote == INSTANCE RemoteCalls WITH
            Callers <- Threads, made <- calls,
            current <- [t \in Threads |-> call[t].n], outcome <- result

AtMostOnce == Remote!Spec
=============================================================================
