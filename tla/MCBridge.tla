------------------------------ MODULE MCBridge ------------------------------
(* Small instances of Bridge. *)
EXTENDS Bridge, TLC

CONSTANTS t1, t2, c1, c2

(* Two threads of one game, or of a game each. *)
OneHome == t1 :> c1 @@ t2 :> c1
TwoHomes == t1 :> c1 @@ t2 :> c2
Symmetric == Permutations({t1, t2})
=============================================================================
