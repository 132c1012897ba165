-------------------------- MODULE MCConnectionPool --------------------------
(***************************************************************************)
(* Instances of ConnectionPool for TLC: threads that are named, as the     *)
(* run checks liveness.                                                    *)
(***************************************************************************)
EXTENDS ConnectionPool

CONSTANTS t1, t2, t3, t4, t5
=============================================================================
