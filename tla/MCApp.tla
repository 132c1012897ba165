------------------------------- MODULE MCApp -------------------------------
(***************************************************************************)
(* Instances of App for TLC.  town and field have roads, moor has none.    *)
(***************************************************************************)
EXTENDS App

CONSTANTS town, field, moor
=============================================================================
