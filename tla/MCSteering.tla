----------------------------- MODULE MCSteering -----------------------------
(***************************************************************************)
(* Instances of Steering for TLC: two keys, two connections, two threads.  *)
(***************************************************************************)
EXTENDS Steering

CONSTANTS c1, c2, main, jthread
=============================================================================
