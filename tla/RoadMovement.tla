---------------------------- MODULE RoadMovement ----------------------------
(***************************************************************************)
(* One dog on the roads of its map: GameSession::SetDogDirection and       *)
(* GameSession::MoveDog (model.cpp) on the geometry of model_geometry.     *)
(* The search for a road to walk on to is a loop over the vector of roads; *)
(* each of its rounds is a step here, so that what the loop keeps true can *)
(* be stated and proved.                                                   *)
(*                                                                         *)
(* Coordinates are whole numbers of a fine grid on which every corner of a *)
(* road's rectangle lies; rounding of doubles is not modelled.  The length *)
(* of a heading is 1 or 0, and how far a dog gets in a tick is the length  *)
(* of the tick.  A tick may be negative: the API takes any timeDelta.      *)
(***************************************************************************)
EXTENDS Integers, Sequences

CONSTANTS
  RoadLists,       \* the vectors of roads a map may have, as sequences
  HalfWidth,       \* Road::HALF_WIDTH, on the grid
  Deltas,          \* the distances a tick may carry a dog
  RestoredSpeeds   \* the headings a dog may have at the start: none if it has
                   \* just joined, any if a state file says so

Point   == [x : Int, y : Int]
Road    == [start : Point, end : Point]
Still   == [x |-> 0, y |-> 0]
East    == [x |-> 1, y |-> 0]
Headings == {Still, East, [x |-> -1, y |-> 0], [x |-> 0, y |-> 1], [x |-> 0, y |-> -1]}
Directions == {"NORTH", "SOUTH", "WEST", "EAST", "NONE"}

ASSUME Assumptions ==
  /\ RoadLists \subseteq Seq(Road)
  /\ HalfWidth \in Nat
  /\ Deltas \subseteq Int
  /\ RestoredSpeeds \subseteq Headings

VARIABLES
  roads,     \* Map::GetRoads(), in the order of the config
  pos,       \* Dog::position_
  speed,     \* Dog::speed_
  refused,   \* what SetDogDirection did last: threw "Unknown direction" or not
  walk       \* the locals of a MoveDog that has left its first road, or Nowhere

vars == <<roads, pos, speed, refused, walk>>

Nowhere == [desired |-> Still, first |-> 0, border |-> Still, next |-> 0]

-----------------------------------------------------------------------------
(* Geometry.                                                               *)

Least(a, b) == IF a < b THEN a ELSE b
Most(a, b)  == IF a > b THEN a ELSE b

\* The points of the rectangle, here always a line, with the corners a and b.
Between(a, b) == [x : Least(a.x, b.x) .. Most(a.x, b.x),
                  y : Least(a.y, b.y) .. Most(a.y, b.y)]

\* Road::bounds_
Bounds(r) ==
  [min |-> [x |-> Least(r.start.x, r.end.x) - HalfWidth,
            y |-> Least(r.start.y, r.end.y) - HalfWidth],
   max |-> [x |-> Most(r.start.x, r.end.x) + HalfWidth,
            y |-> Most(r.start.y, r.end.y) + HalfWidth]]

\* GeoRectangle::Contains
Covers(box, p) ==
  /\ p.x >= box.min.x /\ p.x <= box.max.x
  /\ p.y >= box.min.y /\ p.y <= box.max.y

OnRoad(r, p) == Covers(Bounds(r), p)
OnSomeRoad(p) == \E i \in DOMAIN roads : OnRoad(roads[i], p)

\* GeoRectangle::LeavingPoint.  It is called with from # to only.
LeavingPoint(box, from, to) ==
  IF to.x > from.x THEN [x |-> box.max.x, y |-> from.y]
  ELSE IF to.y > from.y THEN [x |-> from.x, y |-> box.max.y]
  ELSE IF to.x < from.x THEN [x |-> box.min.x, y |-> from.y]
  ELSE [x |-> from.x, y |-> box.min.y]

\* GameSession::GeneratePosition: the start of the first road, or any point of
\* the axis of any road.
SpawnPoints(rs) ==
  UNION {Between(rs[i].start, rs[i].end) : i \in DOMAIN rs}

-----------------------------------------------------------------------------
(* SetDogDirection.  No case of the switch ends in a break: whatever the   *)
(* direction, the last speed assigned is (s, 0), and then it throws.       *)

SpeedAfterSwitch(d) == East
ThrowsAfterSwitch(d) == TRUE

SetDogDirection(d) ==
  /\ walk = Nowhere
  /\ IF d = "NONE" THEN /\ speed' = Still
                        /\ refused' = FALSE
                   ELSE /\ speed' = SpeedAfterSwitch(d)
                        /\ refused' = ThrowsAfterSwitch(d)
  /\ UNCHANGED <<roads, pos, walk>>

-----------------------------------------------------------------------------
(* MoveDog.                                                                *)

Desired(dist) == [x |-> pos.x + speed.x * dist, y |-> pos.y + speed.y * dist]

\* find_if over the vector: the first road that contains the dog.
StartRoads == {i \in DOMAIN roads : /\ OnRoad(roads[i], pos)
                                    /\ \A j \in 1..i-1 : ~OnRoad(roads[j], pos)}

Arrive(p) == pos' = p /\ walk' = Nowhere

\* Up to the check whether the dog is still on its first road.  Without such a
\* road MoveDog throws "No road found" and the dog stays.
MoveDog(dist) ==
  /\ walk = Nowhere
  /\ Desired(dist) # pos
  /\ \E i \in StartRoads :
       IF OnRoad(roads[i], Desired(dist))
       THEN Arrive(Desired(dist))
       ELSE /\ walk' = [desired |-> Desired(dist), first |-> i, next |-> 1,
                        border  |-> LeavingPoint(Bounds(roads[i]), pos, Desired(dist))]
            /\ UNCHANGED pos
  /\ UNCHANGED <<roads, speed, refused>>

\* Mutants of the condition of the search: without the border point; with the
\* desired point in its place.
GoesOnAnywhere(r)   == r # roads[walk.first]
GoesOnAtDesired(r)  == OnRoad(r, walk.desired) /\ r # roads[walk.first]

\* Does the road under the iterator take over from the border point?
GoesOn(r) == OnRoad(r, walk.border) /\ r # roads[walk.first]

\* Mutant: the iterator is not moved past a road that was taken.
SearchRoadAgain ==
  /\ walk # Nowhere
  /\ walk.next <= Len(roads)
  /\ LET r == roads[walk.next]
     IN  IF ~GoesOn(r)
         THEN walk' = [walk EXCEPT !.next = @ + 1] /\ UNCHANGED pos
         ELSE IF OnRoad(r, walk.desired)
         THEN Arrive(walk.desired)
         ELSE /\ walk' = [walk EXCEPT !.border =
                              LeavingPoint(Bounds(r), pos, walk.desired)]
              /\ UNCHANGED pos
  /\ UNCHANGED <<roads, speed, refused>>

\* One round of the search.  The iterator only moves forward.
SearchRoad ==
  /\ walk # Nowhere
  /\ walk.next <= Len(roads)
  /\ LET r == roads[walk.next]
     IN  IF ~GoesOn(r)
         THEN walk' = [walk EXCEPT !.next = @ + 1] /\ UNCHANGED pos
         ELSE IF OnRoad(r, walk.desired)
         THEN Arrive(walk.desired)
         ELSE /\ walk' = [walk EXCEPT !.next = @ + 1,
                            !.border = LeavingPoint(Bounds(r), pos, walk.desired)]
              /\ UNCHANGED pos
  /\ UNCHANGED <<roads, speed, refused>>

\* Mutant: the dog keeps its speed at the border.
DeadEndWithoutStop ==
  /\ walk # Nowhere
  /\ walk.next > Len(roads)
  /\ Arrive(walk.border)
  /\ UNCHANGED <<roads, speed, refused>>

\* No road is left: the dog stops at the border.
DeadEnd ==
  /\ walk # Nowhere
  /\ walk.next > Len(roads)
  /\ Arrive(walk.border)
  /\ speed' = Still
  /\ UNCHANGED <<roads, refused>>

-----------------------------------------------------------------------------
Init ==
  /\ roads \in RoadLists
  /\ pos \in SpawnPoints(roads)
  /\ speed \in RestoredSpeeds
  /\ refused = FALSE
  /\ walk = Nowhere

Next ==
  \/ \E d \in Directions : SetDogDirection(d)
  \/ \E dist \in Deltas : MoveDog(dist)
  \/ SearchRoad
  \/ DeadEnd

Spec == Init /\ [][Next]_vars
FairSpec == Spec /\ WF_vars(SearchRoad) /\ WF_vars(DeadEnd)

-----------------------------------------------------------------------------
(* Properties.                                                             *)

TypeOK ==
  /\ roads \in RoadLists
  /\ pos \in Point
  /\ speed \in Headings
  /\ refused \in BOOLEAN
  /\ \/ walk = Nowhere
     \/ walk \in [desired : Point, first : DOMAIN roads, border : Point,
                  next : 1 .. Len(roads) + 1]

\* The dog is on a road whenever MoveDog looks for the road it is on: the
\* exception "No road found" (model.cpp:216), which would abort the tick of the
\* whole session, is never thrown.
DogOnRoad == OnSomeRoad(pos)

\* A tick takes a dog along a line of which every point is on a road: it does
\* not cut corners or jump a gap, whatever the order of the roads.
StaysOnTheRoads == [][\A p \in Between(pos, pos') : OnSomeRoad(p)]_vars

\* Of a walk that leaves its first road, the end is never past the desired
\* point, and a walk that did not reach it leaves the dog standing.
NeverOvershoots ==
  [][walk # Nowhere /\ walk' = Nowhere =>
       /\ pos' \in Between(pos, walk.desired)
       /\ pos' = walk.desired \/ speed' = Still]_vars

\* The point one grid step from a on the way to b.
Toward(a, b) ==
  LET sign(n) == IF n > 0 THEN 1 ELSE IF n < 0 THEN -1 ELSE 0
  IN  [x |-> a.x + sign(b.x - a.x), y |-> a.y + sign(b.y - a.y)]

\* Some road has the point p and the next one on the way to to.
CanGoOn(p, to) ==
  \E i \in DOMAIN roads : OnRoad(roads[i], p) /\ OnRoad(roads[i], Toward(p, to))

\* What the comment at the end of the search says (model.cpp:237): when no road
\* is left in the vector there is nowhere left to go.
NowhereLeftToGo == [][DeadEnd => ~CanGoOn(walk.border, walk.desired)]_vars

\* What the message of the exception says (model.cpp:76) and dir_map of the
\* request handler takes for granted: only an unknown direction is refused.
KnownDirectionsAccepted == ~refused

\* MoveDog comes to an end: the walk never goes round between roads.
WalksEnd == walk # Nowhere ~> walk = Nowhere
=============================================================================
