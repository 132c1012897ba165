------------------------------ MODULE MCClient ------------------------------
(***************************************************************************)
(* Instances of Client for TLC.  The player of the page has id 1; player 2 *)
(* is in its session or in another one, and after a retirement its id may  *)
(* come back in either; there is one item of loot.                         *)
(***************************************************************************)
EXTENDS Client
=============================================================================
