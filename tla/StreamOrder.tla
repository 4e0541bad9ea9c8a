---------------------------- MODULE StreamOrder ----------------------------
(***************************************************************************)
(* What a caller of HIP's stream functions may rely on, without shim,      *)
(* library or events: the operations it asked for on one stream finish in  *)
(* the order it asked for them, and an operation it is told about, by a    *)
(* wait, a query or a blocking copy, has finished.                         *)
(***************************************************************************)
EXTENDS Naturals, Sequences

CONSTANT Streams

VARIABLES
  asked,     \* the stream of every operation asked for, in order
  finished,  \* the operations that have finished, by their place in asked
  told       \* those the caller has been told have finished

Init ==
  /\ asked = <<>>
  /\ finished = {}
  /\ told = {}

Ask ==
  /\ \E s \in Streams : asked' = Append(asked, s)
  /\ UNCHANGED <<finished, told>>

Finish ==
  /\ \E i \in DOMAIN asked \ finished :
       /\ \A j \in 1 .. i - 1 : asked[j] = asked[i] => j \in finished
       /\ finished' = finished \cup {i}
  /\ UNCHANGED <<asked, told>>

Tell ==
  /\ told \subseteq told'
  /\ told' \subseteq finished
  /\ UNCHANGED <<asked, finished>>

Next == Ask \/ Finish \/ Tell

Spec == Init /\ [][Next]_<<asked, finished, told>>
=============================================================================
