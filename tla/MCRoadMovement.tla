--------------------------- MODULE MCRoadMovement ---------------------------
(***************************************************************************)
(* Instances of RoadMovement for TLC: ten grid steps are one unit of the   *)
(* map, so that a road reaches four steps beyond its ends and two parallel *)
(* or consecutive roads one unit apart leave a gap of two.                 *)
(***************************************************************************)
EXTENDS DogWalks

Orders == INSTANCE SequencesExt

At(px, py) == [x |-> 10 * px, y |-> 10 * py]
FromTo(a, b) == [start |-> a, end |-> b]

\* A street in three parts with a side street off the first joint.
Street ==
  {FromTo(At(0, 0), At(1, 0)), FromTo(At(2, 0), At(1, 0)),
   FromTo(At(2, 0), At(3, 0)), FromTo(At(1, 1), At(1, 0))}

\* Two roads with a gap between them.
Hamlet == {FromTo(At(0, 0), At(1, 0)), FromTo(At(2, 0), At(3, 0))}

AllOrders == UNION {Orders!SetToSeqs(rs) : rs \in {Street, Hamlet}}
AnyHeading == Headings
JustJoined == {Still}
Distances == {-3, 7, 16}
=============================================================================
