-------------------------- MODULE MCEventDispatch --------------------------
(* Instance of EventDispatch for TLC: more events than the queue and the   *)
(* sink hold.                                                              *)
EXTENDS EventDispatch, TLC
=============================================================================
