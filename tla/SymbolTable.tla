---------------------------- MODULE SymbolTable -----------------------------
(***************************************************************************)
(* What the kernel registry promises the rest of the shim, without its     *)
(* tables, locks and loader: a key (a fat binary token, a host function or *)
(* a host variable) is bound at most once, a binding is never changed or   *)
(* withdrawn, and a call works with a binding that is in the table.        *)
(***************************************************************************)
CONSTANTS
  Users,     \* threads that resolve keys
  Kinds,     \* "fatbin", "function", "var"
  Keys,
  Values,
  NoBinding

VARIABLES
  bindings,  \* the set of bindings made so far
  inuse      \* per thread: the binding it resolved and works with

Binding == [kind : Kinds, key : Keys, value : Values]

Init ==
  /\ bindings = {}
  /\ inuse = [u \in Users |-> NoBinding]

(* The first registration of a key binds it for good. *)
BindNew ==
  \E b \in bindings' \ bindings :
    /\ b \in Binding
    /\ bindings' = bindings \cup {b}
    /\ \A c \in bindings : ~(c.kind = b.kind /\ c.key = b.key)

Bind == BindNew /\ UNCHANGED inuse

Resolve(u) ==
  /\ inuse[u] = NoBinding
  /\ \E b \in bindings : inuse' = [inuse EXCEPT ![u] = b]
  /\ UNCHANGED bindings

Release(u) ==
  /\ inuse[u] # NoBinding
  /\ inuse' = [inuse EXCEPT ![u] = NoBinding]
  /\ UNCHANGED bindings

(* A thread that resolved the token of a fat binary may bind what it found
   there, and is then done with the token. *)
BindAndRelease(u) ==
  /\ inuse[u] # NoBinding
  /\ BindNew
  /\ inuse' = [inuse EXCEPT ![u] = NoBinding]

Next == Bind \/ \E u \in Users : Resolve(u) \/ Release(u) \/ BindAndRelease(u)

Spec == Init /\ [][Next]_<<bindings, inuse>>
=============================================================================
