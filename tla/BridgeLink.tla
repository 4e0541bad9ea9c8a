----------------------------- MODULE BridgeLink -----------------------------
(***************************************************************************)
(* What the two ends of the bridge share: a TCP connection per client      *)
(* process, as the wire protocol of hip-bridge uses it.  A frame is known  *)
(* by the call it belongs to, what it asks for or answers, and the length  *)
(* of its body; the bytes of a body are left out, except that the length   *)
(* travels as a 32-bit number.                                             *)
(***************************************************************************)
EXTENDS Integers, Sequences

CONSTANTS
  Clients,   \* game processes, each with the shim loaded
  NoClient,
  Lens,      \* body lengths of copies and bundles
  MaxBody,   \* MAX_BODY_LEN
  FrameMod,  \* 2^32: body_len is written modulo this
  MaxCalls   \* bound: calls made in a run

ASSUME LinkAssumption ==
  /\ NoClient \notin Clients
  /\ MaxCalls \in Nat
  /\ MaxBody \in Nat
  /\ FrameMod \in Nat
  /\ MaxBody < FrameMod
  /\ Lens \subseteq Nat

VARIABLES
  client_end,  \* per client: the OnceLock<Mutex<Option<TcpStream>>> of bridge()
  serving,     \* the client whose connection the daemon reads
  backlog,     \* connections the listener has not accepted yet
  requests,    \* per client: frames sent and not read
  responses,   \* per client: frames answered and not read
  stray        \* per client: unread bytes of an earlier body precede the next response

link == <<client_end, serving, backlog, requests, responses, stray>>

Calls == 1 .. MaxCalls
Handles == Nat \ {0}
Kinds == {"memory", "module", "function"}

(* A handle as a request names it.  obj is history: the call that created what
   the caller means by it. *)
Uses == [kind : Kinds, handle : Handles \cup {0}, obj : Calls \cup {0}]

Ops == {"query", "malloc", "free", "h2d", "d2h", "load", "getfn", "launch"}
Request == [n : Calls, op : Ops, uses : SUBSET Uses, len : Lens \cup {0}]

(* n is history: the call answered.  len is the length of a copied body. *)
Response == [n : Calls \cup {0}, ok : BOOLEAN, handle : Handles \cup {0}, len : Lens \cup {0}]

LinkInit ==
  /\ client_end = [c \in Clients |-> "unset"]
  /\ serving = NoClient
  /\ backlog = <<>>
  /\ requests = [c \in Clients |-> <<>>]
  /\ responses = [c \in Clients |-> <<>>]
  /\ stray = [c \in Clients |-> FALSE]

(* The daemon's end of the connection is open. *)
Connected(c) == serving = c \/ \E i \in DOMAIN backlog : backlog[i] = c

(* read_framed_body: the length read, and whether it is refused. *)
Declared(len) == len % FrameMod
Refused(len) == Declared(len) > MaxBody

LinkTypeOK ==
  /\ client_end \in [Clients -> {"unset", "open", "closed"}]
  /\ serving \in Clients \cup {NoClient}
  /\ backlog \in Seq(Clients)
  /\ requests \in [Clients -> Seq(Request)]
  /\ responses \in [Clients -> Seq(Response)]
  /\ stray \in [Clients -> BOOLEAN]
=============================================================================
