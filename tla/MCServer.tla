------------------------------ MODULE MCServer ------------------------------
(***************************************************************************)
(* Instances of Server for TLC: two maps with roads and one without.        *)
(***************************************************************************)
EXTENDS Server, TLC

CONSTANTS town, field, moor

\* The config may lose one of the maps with roads.
FieldMayGo == {{town, field, moor}, {town, moor}}

\* Nothing, or a session of each map with roads.
VisitedMaps == {<< >>, 0 :> town @@ 1 :> field}
TownOrBoth == {{town, field}, {town}}
=============================================================================
