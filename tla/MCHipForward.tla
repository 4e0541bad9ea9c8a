---------------------------- MODULE MCHipForward ----------------------------
(***************************************************************************)
(* A small instance of HipForward.  The three groups of calls share        *)
(* nothing but last_error, which they all set in Return and Reject alone,  *)
(* so an execution makes calls of one group; hipGetLastError runs beside   *)
(* the two groups that leave the GPU alone.                                *)
(***************************************************************************)
EXTENDS HipForward

VARIABLE use

mcVars == <<vars, use>>

MCInit == Init /\ use \in {"streams", "devices", "interop"}

MCNext ==
  /\ \/ use = "streams" /\ (GpuStep \/ \E t \in Threads : StreamCall(t))
     \/ use = "devices" /\ \E t \in Threads : DeviceCall(t) \/ hipGetLastError(t)
     \/ use = "interop" /\ (ShareStep \/ \E t \in Threads : InteropCall(t) \/ hipGetLastError(t))
     \/ \E t \in Threads : Finishing(t)
  /\ UNCHANGED use

MCSpec == MCInit /\ [][MCNext]_mcVars
MCFairSpec == MCSpec /\ Fairness
=============================================================================
