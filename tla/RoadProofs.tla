----------------------------- MODULE RoadProofs -----------------------------
(***************************************************************************)
(* Proofs about RoadMovement, for every vector of roads, width and tick.   *)
(*                                                                         *)
(* That the dog stays on the roads rests on the border point: whatever     *)
(* roads the search has taken, the border lies on one of them and on the   *)
(* line the dog walks along (WalkSound).  The line matters: the next       *)
(* border keeps the coordinate across it from the dog's own position and   *)
(* takes only the other one from the road.                                 *)
(*                                                                         *)
(* For the way (WaySound) it is not enough that each of its points is on a *)
(* road: for the page a dog must go from point to point on one road.       *)
(***************************************************************************)
EXTENDS DogWalks, TLAPS

\* a, b and p lie on one line along an axis.
OnOneLine(a, b, p) ==
  \/ a.y = b.y /\ p.y = a.y
  \/ a.x = b.x /\ p.x = a.x

WalkSound ==
  walk # Nowhere =>
    /\ walk \in [desired : Point, first : DOMAIN roads, border : Point,
                 next : 1 .. Len(roads) + 1]
    /\ walk.desired # pos
    /\ OnOneLine(pos, walk.desired, walk.border)
    /\ OnSomeRoad(walk.border)

IInv == TypeOK /\ DogOnRoad /\ WalkSound

\* Up to the border point some road carries the dog from each point of the way to
\* the next, and it does not lead past the point the dog wants to reach.
WaySound ==
  walk # Nowhere =>
    /\ walk.border \in Between(pos, walk.desired)
    /\ \A p \in Between(pos, walk.border) : CanGoOn(p, walk.border)

-----------------------------------------------------------------------------
(* Geometry.                                                               *)

\* The corners of a road's rectangle are points.
LEMMA BoundsType ==
  ASSUME NEW r \in Road
  PROVE  Bounds(r).min \in Point /\ Bounds(r).max \in Point
<1>1. /\ r.start.x \in Int /\ r.start.y \in Int
      /\ r.end.x \in Int /\ r.end.y \in Int
  BY DEF Road, Point
<1>2. HalfWidth \in Int
  BY Assumptions
<1>3. /\ Least(r.start.x, r.end.x) \in Int /\ Least(r.start.y, r.end.y) \in Int
      /\ Most(r.start.x, r.end.x) \in Int /\ Most(r.start.y, r.end.y) \in Int
  BY <1>1 DEF Least, Most
<1>4. /\ Least(r.start.x, r.end.x) - HalfWidth \in Int
      /\ Least(r.start.y, r.end.y) - HalfWidth \in Int
      /\ Most(r.start.x, r.end.x) + HalfWidth \in Int
      /\ Most(r.start.y, r.end.y) + HalfWidth \in Int
  BY <1>2, <1>3
<1> QED
  BY <1>4 DEF Bounds, Point

\* If the line leaves a road, it leaves it at a point of the road.
LEMMA LeavingPointOnRoad ==
  ASSUME NEW r \in Road, NEW a \in Point, NEW b \in Point, a # b,
         NEW p \in Point, OnRoad(r, p), OnOneLine(a, b, p)
  PROVE  LET q == LeavingPoint(Bounds(r), a, b)
         IN  q \in Point /\ OnRoad(r, q) /\ OnOneLine(a, b, q)
<1> DEFINE box == Bounds(r)
           q == LeavingPoint(box, a, b)
<1>1. box.min \in Point /\ box.max \in Point
  BY BoundsType
<1>2. /\ p.x >= box.min.x /\ p.x <= box.max.x
      /\ p.y >= box.min.y /\ p.y <= box.max.y
  BY DEF OnRoad, Covers
<1>3. a.x # b.x \/ a.y # b.y
  BY DEF Point
<1> HIDE DEF box
<1>4. q \in Point
  BY <1>1 DEF LeavingPoint, Point
<1>5. Covers(box, q)
  BY <1>1, <1>2, <1>3 DEF LeavingPoint, Point, Covers, OnOneLine
<1>6. OnOneLine(a, b, q)
  BY <1>1, <1>3 DEF LeavingPoint, Point, OnOneLine
<1> QED BY <1>4, <1>5, <1>6 DEF box, OnRoad

\* The desired position is on the axis line through the dog.
LEMMA DesiredOnLine ==
  ASSUME TypeOK, NEW dist \in Deltas
  PROVE  Desired(dist) \in Point /\ OnOneLine(pos, Desired(dist), pos)
<1>1. dist \in Int
  BY Assumptions
<1>2. /\ speed.x \in Int /\ speed.y \in Int
      /\ speed.x = 0 \/ speed.y = 0
  BY DEF TypeOK, Headings, Still, East
<1>3. pos.x \in Int /\ pos.y \in Int
  BY DEF TypeOK, Point
<1>4. CASE speed.x = 0
  BY <1>1, <1>2, <1>3, <1>4 DEF Desired, Point, OnOneLine
<1>5. CASE speed.y = 0
  BY <1>1, <1>2, <1>3, <1>5 DEF Desired, Point, OnOneLine
<1> QED BY <1>2, <1>4, <1>5

\* Every point of a road's axis is on the road.
LEMMA AxisOnRoad ==
  ASSUME NEW r \in Road, NEW p \in Between(r.start, r.end)
  PROVE  p \in Point /\ OnRoad(r, p)
BY Assumptions DEF Between, Road, Point, OnRoad, Covers, Bounds, Least, Most

-----------------------------------------------------------------------------
(* The invariant.                                                          *)

\* The dog starts on the axis of a road, which is on the road.
LEMMA InitIInv ==
  ASSUME Init
  PROVE  IInv
<1>1. roads \in RoadLists /\ roads \in Seq(Road)
  BY Assumptions DEF Init
<1>2. PICK i \in DOMAIN roads : pos \in Between(roads[i].start, roads[i].end)
  BY DEF Init, SpawnPoints
<1>3. roads[i] \in Road
  BY <1>1, <1>2
<1>4. pos \in Point /\ OnRoad(roads[i], pos)
  BY <1>2, <1>3, AxisOnRoad
<1>5. speed \in Headings /\ refused \in BOOLEAN /\ walk = Nowhere
  BY Assumptions DEF Init
<1> QED
  BY <1>1, <1>2, <1>4, <1>5 DEF IInv, TypeOK, DogOnRoad, OnSomeRoad, WalkSound

\* Steering keeps the invariant; no walk is going on then.
LEMMA SteeringKeepsIInv ==
  ASSUME IInv, NEW d \in Directions, SetDogDirection(d)
  PROVE  IInv'
<1>1. speed' \in Headings /\ refused' \in BOOLEAN /\ UNCHANGED <<roads, pos, walk>>
  BY DEF SetDogDirection, SpeedAfterSwitch, ThrowsAfterSwitch, Headings
<1> QED
  BY <1>1 DEF IInv, TypeOK, DogOnRoad, OnSomeRoad, WalkSound

\* The first part of MoveDog keeps it.
LEMMA MoveDogKeepsIInv ==
  ASSUME IInv, NEW dist \in Deltas, MoveDog(dist)
  PROVE  IInv'
<1> DEFINE to == Desired(dist)
<1>1. to \in Point /\ OnOneLine(pos, to, pos) /\ to # pos
  BY DesiredOnLine DEF IInv, MoveDog
<1> HIDE DEF to
<1>2. UNCHANGED <<roads, speed, refused>>
  BY DEF MoveDog
<1>3. PICK i \in StartRoads :
        IF OnRoad(roads[i], to)
        THEN Arrive(to)
        ELSE /\ walk' = [desired |-> to, first |-> i, next |-> 1,
                         border  |-> LeavingPoint(Bounds(roads[i]), pos, to)]
             /\ UNCHANGED pos
  BY DEF MoveDog, to
<1>4. i \in DOMAIN roads /\ roads[i] \in Road /\ OnRoad(roads[i], pos) /\ pos \in Point
  BY <1>3, Assumptions DEF StartRoads, IInv, TypeOK
<1>5. CASE OnRoad(roads[i], to)
  <2>1. pos' = to /\ walk' = Nowhere
    BY <1>3, <1>5 DEF Arrive
  <2> QED
    BY <1>1, <1>2, <1>4, <1>5, <2>1 DEF IInv, TypeOK, DogOnRoad, OnSomeRoad, WalkSound
<1>6. CASE ~OnRoad(roads[i], to)
  <2> DEFINE q == LeavingPoint(Bounds(roads[i]), pos, to)
  <2>1. q \in Point /\ OnRoad(roads[i], q) /\ OnOneLine(pos, to, q)
    BY <1>1, <1>4, LeavingPointOnRoad
  <2> HIDE DEF q
  <2>2. walk' = [desired |-> to, first |-> i, next |-> 1, border |-> q] /\ pos' = pos
    BY <1>3, <1>6 DEF q
  <2>3. 1 \in 1 .. Len(roads) + 1
    BY Assumptions DEF IInv, TypeOK
  <2>4. walk' \in [desired : Point, first : DOMAIN roads, border : Point,
                   next : 1 .. Len(roads) + 1]
    BY <1>1, <1>4, <2>1, <2>2, <2>3
  <2>5. WalkSound'
    BY <1>1, <1>2, <1>4, <2>1, <2>2, <2>4 DEF WalkSound, OnSomeRoad
  <2>6. TypeOK'
    BY <1>2, <2>2, <2>4 DEF IInv, TypeOK
  <2> QED
    BY <1>2, <2>2, <2>5, <2>6 DEF IInv, DogOnRoad, OnSomeRoad
<1> QED BY <1>5, <1>6

\* So does every round of the search: the border point stays on a road.
LEMMA SearchRoadKeepsIInv ==
  ASSUME IInv, SearchRoad
  PROVE  IInv'
<1> DEFINE r == roads[walk.next]
           q == LeavingPoint(Bounds(r), pos, walk.desired)
<1>1. /\ walk \in [desired : Point, first : DOMAIN roads, border : Point,
                   next : 1 .. Len(roads) + 1]
      /\ walk.desired # pos
      /\ OnOneLine(pos, walk.desired, walk.border)
      /\ OnSomeRoad(walk.border)
  BY DEF SearchRoad, IInv, WalkSound
<1>2. roads \in Seq(Road) /\ pos \in Point
  BY Assumptions DEF IInv, TypeOK
<1>3. walk.next \in DOMAIN roads /\ walk.next + 1 \in 1 .. Len(roads) + 1 /\ r \in Road
  BY <1>1, <1>2 DEF SearchRoad
<1>4. UNCHANGED <<roads, speed, refused>>
  BY DEF SearchRoad
<1> HIDE DEF r
<1>5. CASE ~GoesOn(r)
  <2>1. walk' = [walk EXCEPT !.next = @ + 1] /\ pos' = pos
    BY <1>5 DEF SearchRoad, r
  <2>2. /\ walk' \in [desired : Point, first : DOMAIN roads, border : Point,
                      next : 1 .. Len(roads) + 1]
        /\ walk'.desired = walk.desired /\ walk'.border = walk.border
    BY <1>1, <1>3, <2>1
  <2> QED
    BY <1>1, <1>4, <2>1, <2>2 DEF IInv, TypeOK, DogOnRoad, OnSomeRoad, WalkSound
<1>6. CASE GoesOn(r) /\ OnRoad(r, walk.desired)
  <2>1. pos' = walk.desired /\ walk' = Nowhere
    BY <1>6 DEF SearchRoad, Arrive, r
  <2> QED
    BY <1>1, <1>3, <1>4, <1>6, <2>1
    DEF IInv, TypeOK, DogOnRoad, OnSomeRoad, WalkSound, r
<1>7. CASE GoesOn(r) /\ ~OnRoad(r, walk.desired)
  <2>1. q \in Point /\ OnRoad(r, q) /\ OnOneLine(pos, walk.desired, q)
    BY <1>1, <1>2, <1>3, <1>7, LeavingPointOnRoad DEF GoesOn
  <2> HIDE DEF q
  <2>2. walk' = [walk EXCEPT !.next = @ + 1, !.border = q] /\ pos' = pos
    BY <1>7 DEF SearchRoad, r, q
  <2>3. /\ walk' \in [desired : Point, first : DOMAIN roads, border : Point,
                      next : 1 .. Len(roads) + 1]
        /\ walk'.desired = walk.desired /\ walk'.border = q
    BY <1>1, <1>3, <2>1, <2>2
  <2> QED
    BY <1>1, <1>3, <1>4, <2>1, <2>2, <2>3
    DEF IInv, TypeOK, DogOnRoad, OnSomeRoad, WalkSound, r
<1> QED BY <1>5, <1>6, <1>7

\* So does the end of the search: the border point is on a road.
LEMMA DeadEndKeepsIInv ==
  ASSUME IInv, DeadEnd
  PROVE  IInv'
<1>1. /\ pos' = walk.border /\ walk' = Nowhere /\ speed' = Still
      /\ UNCHANGED <<roads, refused>>
  BY DEF DeadEnd, Arrive
<1>2. walk.border \in Point /\ OnSomeRoad(walk.border)
  BY DEF DeadEnd, IInv, WalkSound
<1> QED
  BY <1>1, <1>2 DEF IInv, TypeOK, DogOnRoad, OnSomeRoad, WalkSound, Headings

\* Every step keeps the inductive invariant.
LEMMA NextKeepsIInv ==
  ASSUME IInv, [Next]_vars
  PROVE  IInv'
<1>1. CASE UNCHANGED vars
  BY <1>1 DEF vars, IInv, TypeOK, DogOnRoad, OnSomeRoad, WalkSound
<1> QED
  BY <1>1, SteeringKeepsIInv, MoveDogKeepsIInv, SearchRoadKeepsIInv, DeadEndKeepsIInv
  DEF Next

-----------------------------------------------------------------------------
(* The theorems.                                                           *)

\* The inductive invariant holds throughout.
THEOREM Invariance == Spec => []IInv
<1>1. Init => IInv
  BY InitIInv
<1>2. IInv /\ [Next]_vars => IInv'
  BY NextKeepsIInv
<1> QED BY <1>1, <1>2, PTL DEF Spec

\* Positions, headings and the locals of a walk stay in their types.
THEOREM TypeCorrect == Spec => []TypeOK
<1>1. IInv => TypeOK
  BY DEF IInv
<1> QED BY <1>1, Invariance, PTL

\* Whatever the roads and their order, the dog is on a road: MoveDog never
\* throws "No road found".
THEOREM DogsStayOnRoads == Spec => []DogOnRoad
<1>1. IInv => DogOnRoad
  BY DEF IInv
<1> QED BY <1>1, Invariance, PTL

-----------------------------------------------------------------------------
(* The way of a walk.                                                      *)

\* A road has no holes.
LEMMA RoadIsConvex ==
  ASSUME NEW r \in Road, NEW a \in Point, NEW b \in Point,
         OnRoad(r, a), OnRoad(r, b), NEW p \in Between(a, b)
  PROVE  OnRoad(r, p)
<1> DEFINE box == Bounds(r)
<1>1. box.min \in Point /\ box.max \in Point
  BY BoundsType
<1>2. Covers(box, a) /\ Covers(box, b)
  BY DEF OnRoad
<1> HIDE DEF box
<1>3. Covers(box, p)
  BY <1>1, <1>2 DEF Covers, Between, Point, Least, Most
<1> QED
  BY <1>3 DEF OnRoad, box

\* On an axis line, a point splits the way into the ways to it and from it.
LEMMA WaySplits ==
  ASSUME NEW a \in Point, NEW b \in Point, OnOneLine(a, b, a), NEW q \in Between(a, b)
  PROVE  /\ q \in Point /\ OnOneLine(a, q, a) /\ OnOneLine(a, b, q)
         /\ a \in Between(a, b) /\ b \in Between(a, b)
         /\ \A p \in Between(a, b) : p \in Between(a, q) \/ p \in Between(q, b)
BY DEF Between, Point, Least, Most, OnOneLine

\* A road that has both ends of a way carries the dog from each of its points to
\* the next.
LEMMA RoadCarries ==
  ASSUME NEW r \in Road, NEW a \in Point, NEW b \in Point,
         OnRoad(r, a), OnRoad(r, b), NEW p \in Between(a, b)
  PROVE  OnRoad(r, p) /\ OnRoad(r, Toward(p, b))
<1>1. p \in Point /\ Toward(p, b) \in Between(a, b)
  BY DEF Between, Point, Least, Most, Toward
<1> QED
  BY <1>1, RoadIsConvex

\* If a road has a point p of the way and the end of it, it carries the dog from p
\* on; before p the dog goes as if p were the end.
LEMMA RoadTakesOver ==
  ASSUME NEW r \in Road, NEW a \in Point, NEW b \in Point, OnOneLine(a, b, a),
         NEW p \in Between(a, b), OnRoad(r, p), OnRoad(r, b), NEW z \in Between(a, b)
  PROVE  \/ z \in Between(a, p) /\ Toward(z, b) = Toward(z, p)
         \/ OnRoad(r, z) /\ OnRoad(r, Toward(z, b))
<1>1. p \in Point /\ z \in Point
  BY WaySplits DEF Between, Point, Least, Most
<1>2. CASE z \in Between(p, b)
  BY <1>1, <1>2, RoadCarries
<1>3. CASE z \notin Between(p, b)
  <2>1. z \in Between(a, p) /\ OnOneLine(a, b, p) /\ OnOneLine(a, b, z)
    BY <1>3, WaySplits DEF OnOneLine, Between, Point, Least, Most
  <2>2. CASE a.y = b.y
    BY <1>1, <1>3, <2>1, <2>2 DEF Toward, Between, Point, Least, Most, OnOneLine
  <2>3. CASE a.x = b.x
    BY <1>1, <1>3, <2>1, <2>3 DEF Toward, Between, Point, Least, Most, OnOneLine
  <2> QED
    BY <2>1, <2>2, <2>3 DEF OnOneLine
<1> QED
  BY <1>2, <1>3

\* From a point p of the road r the way to b leaves r between p and b, if it
\* leaves it at all.
LEMMA LeavingPointOnWay ==
  ASSUME NEW r \in Road, NEW a \in Point, NEW b \in Point, a # b, OnOneLine(a, b, a),
         NEW p \in Between(a, b), OnRoad(r, p), ~OnRoad(r, b)
  PROVE  LET q == LeavingPoint(Bounds(r), a, b)
         IN  /\ q \in Between(a, b)
             /\ \A z \in Between(a, q) :
                   \/ z \in Between(a, p) /\ Toward(z, q) = Toward(z, p)
                   \/ OnRoad(r, z) /\ OnRoad(r, Toward(z, q))
<1> DEFINE box == Bounds(r)
           q == LeavingPoint(box, a, b)
<1>1. p \in Point /\ OnOneLine(a, b, p)
  BY WaySplits
<1>2. q \in Point /\ OnRoad(r, q) /\ OnOneLine(a, b, q)
  BY <1>1, LeavingPointOnRoad
<1>3. box.min \in Point /\ box.max \in Point /\ Covers(box, p) /\ ~Covers(box, b)
  BY BoundsType DEF OnRoad
<1> HIDE DEF box
<1>4. q \in Between(p, b) /\ q \in Between(a, b) /\ p \in Between(a, q)
  <2>1. CASE a.y = b.y
    BY <1>1, <1>3, <2>1 DEF LeavingPoint, Covers, Between, Point, Least, Most, OnOneLine
  <2>2. CASE a.x = b.x
    BY <1>1, <1>3, <2>2 DEF LeavingPoint, Covers, Between, Point, Least, Most, OnOneLine
  <2> QED
    BY <2>1, <2>2 DEF OnOneLine
<1> HIDE DEF q
<1>5. \A z \in Between(a, q) :
        \/ z \in Between(a, p) /\ Toward(z, q) = Toward(z, p)
        \/ OnRoad(r, z) /\ OnRoad(r, Toward(z, q))
  BY <1>2, <1>4, RoadTakesOver DEF OnOneLine
<1> QED
  BY <1>4, <1>5 DEF q, box

-----------------------------------------------------------------------------
(* What a step does to the way.                                            *)

\* The way a step takes the dog, and the end of a walk.
GoodWay == \A p \in Between(pos, pos') : CanGoOn(p, pos')
GoodEnd ==
  walk # Nowhere /\ walk' = Nowhere =>
    /\ pos' \in Between(pos, walk.desired)
    /\ pos' = walk.desired \/ speed' = Still

\* A dog that does not move is on a road.
LEMMA StandingIsGood ==
  ASSUME IInv, pos' = pos
  PROVE  GoodWay
<1>1. pos \in Point
  BY DEF IInv, TypeOK
<1>2. \A p \in Between(pos, pos) : p = pos /\ Toward(p, pos) = pos
  BY <1>1 DEF Between, Point, Least, Most, Toward
<1> QED
  BY <1>2 DEF GoodWay, CanGoOn, IInv, DogOnRoad, OnSomeRoad

LEMMA MoveDogWay ==
  ASSUME IInv, NEW dist \in Deltas, MoveDog(dist)
  PROVE  WaySound' /\ GoodWay /\ GoodEnd
<1> DEFINE to == Desired(dist)
<1>1. to \in Point /\ OnOneLine(pos, to, pos) /\ to # pos
  BY DesiredOnLine DEF IInv, MoveDog
<1> HIDE DEF to
<1>2. PICK i \in StartRoads :
        IF OnRoad(roads[i], to)
        THEN Arrive(to)
        ELSE /\ walk' = [desired |-> to, first |-> i, next |-> 1,
                         border  |-> LeavingPoint(Bounds(roads[i]), pos, to)]
             /\ UNCHANGED pos
  BY DEF MoveDog, to
<1>3. /\ i \in DOMAIN roads /\ roads[i] \in Road /\ OnRoad(roads[i], pos) /\ pos \in Point
      /\ roads' = roads
  BY <1>2, Assumptions DEF StartRoads, IInv, TypeOK, MoveDog
<1>4. GoodEnd
  BY DEF GoodEnd, MoveDog
<1>5. CASE OnRoad(roads[i], to)
  <2>1. pos' = to /\ walk' = Nowhere
    BY <1>2, <1>5 DEF Arrive
  <2>2. \A p \in Between(pos, to) : CanGoOn(p, to)
    BY <1>1, <1>3, <1>5, RoadCarries DEF CanGoOn
  <2> QED
    BY <1>4, <2>1, <2>2 DEF WaySound, GoodWay
<1>6. CASE ~OnRoad(roads[i], to)
  <2> DEFINE q == LeavingPoint(Bounds(roads[i]), pos, to)
  <2>1. pos \in Between(pos, to)
    BY <1>1, <1>3 DEF Between, Point, Least, Most
  <2>2. q \in Between(pos, to) /\ q \in Point /\ OnRoad(roads[i], q)
    BY <1>1, <1>3, <1>6, <2>1, LeavingPointOnWay, LeavingPointOnRoad
  <2>3. walk' = [desired |-> to, first |-> i, next |-> 1, border |-> q] /\ pos' = pos
    BY <1>2, <1>6
  <2> HIDE DEF q
  <2>4. walk'.desired = to /\ walk'.border = q
    BY <2>3
  <2>5. \A z \in Between(pos, q) : CanGoOn(z, q)
    BY <1>3, <2>2, RoadCarries DEF CanGoOn
  <2>6. WaySound'
    BY <1>3, <2>2, <2>3, <2>4, <2>5 DEF WaySound, CanGoOn
  <2> QED
    BY <1>4, <2>3, <2>6, StandingIsGood
<1> QED
  BY <1>5, <1>6

LEMMA SearchRoadWay ==
  ASSUME IInv, WaySound, SearchRoad
  PROVE  WaySound' /\ GoodWay /\ GoodEnd
<1> DEFINE r == roads[walk.next]
           q == LeavingPoint(Bounds(r), pos, walk.desired)
<1>1. /\ walk \in [desired : Point, first : DOMAIN roads, border : Point,
                   next : 1 .. Len(roads) + 1]
      /\ walk.desired # pos
      /\ OnOneLine(pos, walk.desired, walk.border)
      /\ OnOneLine(pos, walk.desired, pos)
      /\ walk.border \in Between(pos, walk.desired)
      /\ \A p \in Between(pos, walk.border) : CanGoOn(p, walk.border)
  BY DEF SearchRoad, IInv, WalkSound, WaySound, OnOneLine
<1>2. roads \in Seq(Road) /\ pos \in Point /\ walk.desired \in Point /\ walk.border \in Point
      /\ roads' = roads
  BY <1>1, Assumptions DEF IInv, TypeOK, SearchRoad
<1>3. walk.next \in DOMAIN roads /\ r \in Road
  BY <1>1, <1>2 DEF SearchRoad
<1> HIDE DEF r
<1>4. \A z, to : OnRoad(r, z) /\ OnRoad(r, Toward(z, to)) => CanGoOn(z, to)
  BY <1>3 DEF CanGoOn, r
<1>5. CASE ~GoesOn(r)
  <2>1. walk' = [walk EXCEPT !.next = @ + 1] /\ pos' = pos
    BY <1>5 DEF SearchRoad, r
  <2>2. walk'.desired = walk.desired /\ walk'.border = walk.border /\ walk'.first = walk.first
    BY <1>1, <2>1
  <2>3. GoodEnd
    BY <1>1, <1>2, <2>2 DEF GoodEnd, Nowhere
  <2>4. WaySound'
    BY <1>1, <1>2, <2>1, <2>2 DEF WaySound, CanGoOn
  <2> QED
    BY <2>1, <2>3, <2>4, StandingIsGood
<1>6. CASE GoesOn(r) /\ OnRoad(r, walk.desired)
  <2>1. pos' = walk.desired /\ walk' = Nowhere
    BY <1>6 DEF SearchRoad, Arrive, r
  <2>2. ASSUME NEW p \in Between(pos, walk.desired)
        PROVE  CanGoOn(p, walk.desired)
    <3>1. \/ p \in Between(pos, walk.border) /\ Toward(p, walk.desired) = Toward(p, walk.border)
          \/ OnRoad(r, p) /\ OnRoad(r, Toward(p, walk.desired))
      BY <1>1, <1>2, <1>3, <1>6, RoadTakesOver DEF GoesOn
    <3> QED
      BY <1>1, <1>4, <3>1 DEF CanGoOn
  <2>3. walk.desired \in Between(pos, walk.desired)
    BY <1>1, <1>2, WaySplits
  <2> QED
    BY <2>1, <2>2, <2>3 DEF WaySound, GoodWay, GoodEnd
<1>7. CASE GoesOn(r) /\ ~OnRoad(r, walk.desired)
  <2>1. /\ q \in Between(pos, walk.desired)
        /\ \A z \in Between(pos, q) :
             \/ z \in Between(pos, walk.border) /\ Toward(z, q) = Toward(z, walk.border)
             \/ OnRoad(r, z) /\ OnRoad(r, Toward(z, q))
    BY <1>1, <1>2, <1>3, <1>7, LeavingPointOnWay DEF GoesOn
  <2> HIDE DEF q
  <2>2. walk' = [walk EXCEPT !.next = @ + 1, !.border = q] /\ pos' = pos
    BY <1>7 DEF SearchRoad, r, q
  <2>3. walk'.desired = walk.desired /\ walk'.border = q /\ walk'.first = walk.first
    BY <1>1, <2>2
  <2>4. GoodEnd
    BY <1>1, <1>2, <2>3 DEF GoodEnd, Nowhere
  <2>5. \A z \in Between(pos, q) : CanGoOn(z, q)
    BY <1>1, <1>4, <2>1 DEF CanGoOn
  <2>6. WaySound'
    BY <1>2, <2>1, <2>2, <2>3, <2>5 DEF WaySound, CanGoOn
  <2> QED
    BY <2>2, <2>4, <2>6, StandingIsGood
<1> QED
  BY <1>5, <1>6, <1>7

LEMMA NextWay ==
  ASSUME IInv, WaySound, [Next]_vars
  PROVE  WaySound' /\ GoodWay /\ GoodEnd
<1>1. CASE UNCHANGED vars
  <2>1. WaySound' /\ GoodEnd /\ pos' = pos
    BY <1>1 DEF vars, WaySound, GoodEnd, CanGoOn
  <2> QED
    BY <2>1, StandingIsGood
<1>2. ASSUME NEW d \in Directions, SetDogDirection(d)
      PROVE  WaySound' /\ GoodWay /\ GoodEnd
  <2>1. WaySound' /\ GoodEnd /\ pos' = pos
    BY <1>2 DEF SetDogDirection, WaySound, GoodEnd
  <2> QED
    BY <2>1, StandingIsGood
<1>3. CASE DeadEnd
  <2>1. pos' = walk.border /\ walk' = Nowhere /\ speed' = Still /\ walk # Nowhere
    BY <1>3 DEF DeadEnd, Arrive
  <2> QED
    BY <2>1 DEF WaySound, GoodWay, GoodEnd
<1> QED
  BY <1>1, <1>2, <1>3, MoveDogWay, SearchRoadWay DEF Next

\* The way to the border point is sound in every state.
THEOREM WayIsSound == Spec => []WaySound
<1>1. Init => WaySound
  BY DEF Init, WaySound
<1>2. IInv /\ WaySound /\ [Next]_vars => WaySound'
  BY NextWay
<1> QED
  BY <1>1, <1>2, Invariance, PTL DEF Spec

\* A tick takes a dog along a line of which every point is on a road.
THEOREM DogsStayOnTheirWay == Spec => StaysOnTheRoads
<1>1. IInv /\ WaySound /\ [Next]_vars => [\A p \in Between(pos, pos') : OnSomeRoad(p)]_vars
  BY NextWay DEF GoodWay, CanGoOn, OnSomeRoad
<1> QED
  BY <1>1, Invariance, WayIsSound, PTL DEF Spec, StaysOnTheRoads

\* A walk does not end past the point it was to reach, and when it ends before
\* it, the dog stands still.
THEOREM WalksDoNotOvershoot == Spec => NeverOvershoots
<1>1. IInv /\ WaySound /\ [Next]_vars =>
        [walk # Nowhere /\ walk' = Nowhere =>
           /\ pos' \in Between(pos, walk.desired)
           /\ pos' = walk.desired \/ speed' = Still]_vars
  BY NextWay DEF GoodEnd
<1> QED
  BY <1>1, Invariance, WayIsSound, PTL DEF Spec, NeverOvershoots

-----------------------------------------------------------------------------
(* What is gathered on the way (DogWalks, Collision).  The numerators of   *)
(* the code are products; three facts on integers take them apart.         *)

\* Products keep the order of the factors.
LEMMA ScaledOrder ==
  ASSUME NEW m \in Int, NEW n \in Int, NEW k \in Int, k > 0
  PROVE  m * k <= n * k <=> m <= n
<1>1. (n - m) * k = n * k - m * k
  OBVIOUS
<1> DEFINE j == n - m
<1>2. j \in Int /\ (m <= n <=> j >= 0)
  OBVIOUS
<1> HIDE DEF j
<1>3. j >= 0 => j * k >= 0
  BY <1>2
<1>4. j < 0 => j * k < 0
  BY <1>2
<1>5. m * k \in Int /\ n * k \in Int /\ j * k = n * k - m * k
  BY <1>1 DEF j
<1> DEFINE x == m * k
           y == n * k
           z == j * k
<1>6. x \in Int /\ y \in Int /\ z = y - x /\ (j >= 0 => z >= 0) /\ (j < 0 => z < 0)
  BY <1>3, <1>4, <1>5
<1> HIDE DEF x, y, z
<1>7. x <= y <=> m <= n
  BY <1>2, <1>6
<1> QED
  BY <1>7 DEF x, y

\* proj_ratio is in 0..1 exactly if the item is neither behind nor ahead.
LEMMA RatioInRange ==
  ASSUME NEW u \in Int, NEW d \in Int, d # 0
  PROVE  (u * d >= 0 /\ u * d <= d * d) <=> ((0 <= u /\ u <= d) \/ (d <= u /\ u <= 0))
<1>1. CASE d > 0
  <2>1. 0 * d <= u * d <=> 0 <= u
    BY <1>1, ScaledOrder
  <2>2. u * d <= d * d <=> u <= d
    BY <1>1, ScaledOrder
  <2> QED
    BY <1>1, <2>1, <2>2
<1>2. CASE d < 0
  <2> DEFINE e == -d
             v == -u
  <2>1. e \in Int /\ v \in Int /\ e > 0 /\ u * d = v * e /\ d * d = e * e
    BY <1>2
  <2> HIDE DEF e, v
  <2>2. 0 * e <= v * e <=> 0 <= v
    BY <2>1, ScaledOrder
  <2>3. v * e <= e * e <=> v <= e
    BY <2>1, ScaledOrder
  <2>4. (v * e >= 0 /\ v * e <= e * e) <=> (0 <= v /\ v <= e)
    BY <2>1, <2>2, <2>3
  <2>5. (0 <= v /\ v <= e) <=> (d <= u /\ u <= 0)
    BY DEF e, v
  <2>6. ~(0 <= u /\ u <= d)
    BY <1>2
  <2> QED
    BY <2>1, <2>4, <2>5, <2>6
<1> QED
  BY <1>1, <1>2

\* sq_distance is at most the square of the radius exactly if the distance is at
\* most the radius.
LEMMA SquareInRange ==
  ASSUME NEW w \in Int, NEW R \in Nat, NEW d \in Int, d # 0
  PROVE  (w * w) * (d * d) <= (R * R) * (d * d) <=> w \in -R..R
<1>1. d * d \in Int /\ d * d > 0
  OBVIOUS
<1>2. (w * w) * (d * d) <= (R * R) * (d * d) <=> w * w <= R * R
  <2> DEFINE k == d * d
             m == w * w
             n == R * R
  <2>1. k \in Int /\ k > 0 /\ m \in Int /\ n \in Int
    BY <1>1
  <2> HIDE DEF k, m, n
  <2>2. m * k <= n * k <=> m <= n
    BY <2>1, ScaledOrder
  <2> QED
    BY <2>2 DEF k, m, n
<1>3. w * w <= R * R <=> w \in -R..R
  <2>1. \A a, b \in Nat : a * a <= b * b <=> a <= b
    <3> SUFFICES ASSUME NEW a \in Nat, NEW b \in Nat PROVE a * a <= b * b <=> a <= b
      OBVIOUS
    <3>1. a <= b => a * a <= b * b
      OBVIOUS
    <3>2. b < a => b * b < a * a
      OBVIOUS
    <3>3. a * a \in Int /\ b * b \in Int
      OBVIOUS
    <3> QED
      BY <3>1, <3>2, <3>3
  <2>2. CASE w >= 0
    BY <2>1, <2>2
  <2>3. CASE w < 0
    <3>1. -w \in Nat /\ (-w) * (-w) = w * w
      BY <2>3
    <3>2. (-w) * (-w) <= R * R <=> -w <= R
      BY <2>1, <3>1
    <3> QED
      BY <2>3, <3>1, <3>2
  <2> QED
    BY <2>2, <2>3
<1> QED
  BY <1>2, <1>3

\* What TryCollectPoint computes for a way of length d along an axis, of an item
\* that is u further on and w to the side.
LEMMA AcrossTheWay ==
  ASSUME NEW u \in Int, NEW w \in Int, NEW d \in Int
  PROVE  /\ d * d + 0 * 0 = d * d /\ u * d + w * 0 = u * d
         /\ (u * u + w * w) * (d * d) - (u * d) * (u * d) = (w * w) * (d * d)
  OBVIOUS

\* On a way along an axis the detector collects what lies on either hand.
LEMMA CollectsAlongside ==
  ASSUME NEW a \in Point, NEW b \in Point, a # b, OnOneLine(a, b, a), NEW c \in Point
  PROVE  Detector!IsCollected(Detector!TryCollectPoint(a, b, c), LootRadius)
           <=> \E q \in Between(a, b) : PassesAt(q, c, a, b)
<1>1. /\ a.x \in Int /\ a.y \in Int /\ b.x \in Int /\ b.y \in Int
      /\ c.x \in Int /\ c.y \in Int /\ (a.x # b.x \/ a.y # b.y)
  BY DEF Point
<1>2. LootRadius \in Nat
  BY WalksAssumptions
<1> DEFINE ux == c.x - a.x
           uy == c.y - a.y
           vx == b.x - a.x
           vy == b.y - a.y
           result == Detector!TryCollectPoint(a, b, c)
<1>3. /\ result.len2 = vx * vx + vy * vy
      /\ result.ratio = ux * vx + uy * vy
      /\ result.distance = (ux * ux + uy * uy) * (vx * vx + vy * vy)
                             - (ux * vx + uy * vy) * (ux * vx + uy * vy)
  BY DEF Detector!TryCollectPoint, Detector!Dot, Detector!Minus, Detector!Square
<1>4. Detector!IsCollected(result, LootRadius) <=>
        /\ result.ratio >= 0 /\ result.ratio <= result.len2
        /\ result.distance <= (LootRadius * LootRadius) * result.len2
  BY DEF Detector!IsCollected, Detector!Square
<1> HIDE DEF result
<1>5. CASE a.y = b.y
  <2> DEFINE R == LootRadius
  <2>1. vx \in Int /\ vx # 0 /\ vy = 0 /\ ux \in Int /\ uy \in Int /\ R \in Nat
    BY <1>1, <1>2, <1>5
  <2> HIDE DEF ux, uy, vx, vy, R
  <2>2. /\ result.len2 = vx * vx /\ result.ratio = ux * vx
        /\ result.distance = (uy * uy) * (vx * vx)
    BY <1>3, <2>1, AcrossTheWay
  <2>3. Detector!IsCollected(result, R) <=>
          /\ (0 <= ux /\ ux <= vx) \/ (vx <= ux /\ ux <= 0)
          /\ uy \in -R..R
    BY <1>4, <2>1, <2>2, RatioInRange, SquareInRange DEF R
  <2>4. (\E q \in Between(a, b) : PassesAt(q, c, a, b)) <=>
          /\ c.x \in Least(a.x, b.x) .. Most(a.x, b.x)
          /\ uy \in -R..R
    <3>1. \A q \in Between(a, b) : q.y = a.y /\ q.x \in Least(a.x, b.x) .. Most(a.x, b.x)
      BY <1>1, <1>5 DEF Between, Least, Most
    <3>2. a.x # b.x
      BY <1>1, <1>5
    <3>3. \A q \in Between(a, b) : PassesAt(q, c, a, b) <=> q.x = c.x /\ uy \in -R..R
      BY <1>5, <3>1, <3>2 DEF PassesAt, uy, R
    <3>4. c.x \in Least(a.x, b.x) .. Most(a.x, b.x) => [x |-> c.x, y |-> a.y] \in Between(a, b)
      BY <1>1, <1>5 DEF Between, Least, Most
    <3>5. ASSUME c.x \in Least(a.x, b.x) .. Most(a.x, b.x), uy \in -R..R
          PROVE  \E q \in Between(a, b) : PassesAt(q, c, a, b)
      <4>1. [x |-> c.x, y |-> a.y] \in Between(a, b)
        BY <3>4, <3>5
      <4>2. [x |-> c.x, y |-> a.y].x = c.x
        OBVIOUS
      <4> QED
        BY <3>3, <3>5, <4>1, <4>2
    <3> QED
      BY <3>1, <3>3, <3>5
  <2>5. (0 <= ux /\ ux <= vx) \/ (vx <= ux /\ ux <= 0)
          <=> c.x \in Least(a.x, b.x) .. Most(a.x, b.x)
    BY <1>1 DEF Least, Most, ux, vx
  <2> QED
    BY <2>3, <2>4, <2>5 DEF R, result
<1>6. CASE a.x = b.x
  <2> DEFINE R == LootRadius
  <2>1. vy \in Int /\ vy # 0 /\ vx = 0 /\ ux \in Int /\ uy \in Int /\ R \in Nat
    BY <1>1, <1>2, <1>6
  <2> HIDE DEF ux, uy, vx, vy, R
  <2>2. /\ result.len2 = vy * vy /\ result.ratio = uy * vy
        /\ result.distance = (ux * ux) * (vy * vy)
    <3>1. /\ 0 * 0 + vy * vy = vy * vy /\ ux * 0 + uy * vy = uy * vy
          /\ (ux * ux + uy * uy) * (vy * vy) - (uy * vy) * (uy * vy) = (ux * ux) * (vy * vy)
      BY <2>1
    <3> QED
      BY <1>3, <2>1, <3>1
  <2>3. Detector!IsCollected(result, R) <=>
          /\ (0 <= uy /\ uy <= vy) \/ (vy <= uy /\ uy <= 0)
          /\ ux \in -R..R
    BY <1>4, <2>1, <2>2, RatioInRange, SquareInRange DEF R
  <2>4. (\E q \in Between(a, b) : PassesAt(q, c, a, b)) <=>
          /\ c.y \in Least(a.y, b.y) .. Most(a.y, b.y)
          /\ ux \in -R..R
    <3>1. \A q \in Between(a, b) : q.x = a.x /\ q.y \in Least(a.y, b.y) .. Most(a.y, b.y)
      BY <1>1, <1>6 DEF Between, Least, Most
    <3>2. a.y # b.y
      BY <1>1, <1>6
    <3>3. \A q \in Between(a, b) : PassesAt(q, c, a, b) <=> q.y = c.y /\ ux \in -R..R
      BY <1>6, <3>1, <3>2 DEF PassesAt, ux, R
    <3>4. ASSUME c.y \in Least(a.y, b.y) .. Most(a.y, b.y), ux \in -R..R
          PROVE  \E q \in Between(a, b) : PassesAt(q, c, a, b)
      <4>1. [x |-> a.x, y |-> c.y] \in Between(a, b)
        BY <1>1, <1>6, <3>4 DEF Between, Least, Most
      <4>2. [x |-> a.x, y |-> c.y].y = c.y
        OBVIOUS
      <4> QED
        BY <3>3, <3>4, <4>1, <4>2
    <3> QED
      BY <3>1, <3>3, <3>4
  <2>5. (0 <= uy /\ uy <= vy) \/ (vy <= uy /\ uy <= 0)
          <=> c.y \in Least(a.y, b.y) .. Most(a.y, b.y)
    BY <1>1 DEF Least, Most, uy, vy
  <2> QED
    BY <2>3, <2>4, <2>5 DEF R, result
<1> QED
  BY <1>5, <1>6 DEF OnOneLine

\* A step takes a dog along an axis.
LEMMA StepIsStraight ==
  ASSUME IInv, [Next]_vars, pos' # pos
  PROVE  OnOneLine(pos, pos', pos)
<1>1. ASSUME NEW dist \in Deltas, MoveDog(dist)
      PROVE  OnOneLine(pos, pos', pos)
  <2>1. pos' = Desired(dist)
    BY <1>1 DEF MoveDog, Arrive
  <2> QED
    BY <2>1, DesiredOnLine DEF IInv
<1>2. ASSUME SearchRoad \/ DeadEnd
      PROVE  OnOneLine(pos, pos', pos)
  <2>1. pos' = walk.desired \/ pos' = walk.border
    BY <1>2 DEF SearchRoad, DeadEnd, Arrive
  <2>2. OnOneLine(pos, walk.desired, walk.border)
    BY <1>2 DEF SearchRoad, DeadEnd, IInv, WalkSound
  <2> QED
    BY <2>1, <2>2 DEF OnOneLine
<1> QED
  BY <1>1, <1>2 DEF Next, vars, SetDogDirection

\* Whatever the roads, the widths and the ticks, a tick gathers exactly the loot
\* the dog has on either hand at some point of its way.
THEOREM DogsGatherWhatTheyPass == Spec => GathersWhatItPasses
<1> DEFINE Gathers ==
      pos' # pos =>
        Detector!GatherEvents(pos, pos', LootPoints[roads], LootRadius) =
          {l \in LootPoints[roads] : \E q \in Between(pos, pos') : PassesAt(q, l, pos, pos')}
<1>1. IInv /\ IInv' /\ [Next]_vars => Gathers
  <2> SUFFICES ASSUME IInv, IInv', [Next]_vars, pos' # pos PROVE Gathers
    OBVIOUS
  <2>1. pos \in Point /\ pos' \in Point /\ roads \in RoadLists
    BY DEF IInv, TypeOK
  <2>2. LootPoints[roads] \subseteq Point
    <3>1. LootPoints[roads] = SpawnPoints(roads) /\ roads \in Seq(Road)
      BY <2>1, Assumptions DEF LootPoints
    <3> QED
      BY <3>1, AxisOnRoad DEF SpawnPoints
  <2>3. \A l \in LootPoints[roads] :
          Detector!IsCollected(Detector!TryCollectPoint(pos, pos', l), LootRadius)
            <=> \E q \in Between(pos, pos') : PassesAt(q, l, pos, pos')
    BY <2>1, <2>2, StepIsStraight, CollectsAlongside
  <2> QED
    BY <2>3 DEF Detector!GatherEvents
<1>2. IInv /\ IInv' /\ [Next]_vars => [Gathers]_vars
  BY <1>1
<1> QED
  BY <1>2, Invariance, PTL DEF Spec, GathersWhatItPasses

-----------------------------------------------------------------------------
(* What the browser draws under the way (TileMap).                         *)

\* The tile of a coordinate.
Cell(n) == (2 * n + Unit) \div (2 * Unit)

LEMMA CellType ==
  ASSUME NEW n \in Int
  PROVE  /\ Cell(n) \in Int
         /\ Cell(n) * (2 * Unit) <= 2 * n + Unit
         /\ 2 * n + Unit < (Cell(n) + 1) * (2 * Unit)
<1> DEFINE k == 2 * Unit
           m == 2 * n + Unit
<1>1. k \in Nat \ {0} /\ m \in Int
  BY WalksAssumptions
<1> HIDE DEF k, m
<1>2. m \div k \in Int /\ (m \div k) * k <= m /\ m < (m \div k) * k + k
  BY <1>1
<1> DEFINE c == m \div k
<1>3. c \in Int /\ c * k <= m /\ m < c * k + k
  BY <1>2
<1> HIDE DEF c
<1>4. (c + 1) * k = c * k + k
  BY <1>1, <1>3
<1> QED
  BY <1>3, <1>4 DEF Cell, c, k, m

\* Within half a width of the axis of a road one is over its tiles.
LEMMA CellInSpan ==
  ASSUME NEW n \in Int, NEW lo \in Int, NEW hi \in Int,
         lo * Unit - HalfWidth <= n, n <= hi * Unit + HalfWidth
  PROVE  Cell(n) \in lo .. hi
<1> DEFINE c == Cell(n)
           k == 2 * Unit
<1>1. c \in Int /\ c * k <= 2 * n + Unit /\ 2 * n + Unit < (c + 1) * k
  BY CellType
<1>2. k \in Int /\ k > 0 /\ Unit \in Int /\ HalfWidth \in Int /\ 2 * HalfWidth < Unit
  BY WalksAssumptions, Assumptions
<1>3. lo * k = 2 * (lo * Unit) /\ hi * k = 2 * (hi * Unit) /\ (hi + 1) * k = 2 * (hi * Unit) + 2 * Unit
      /\ lo * Unit \in Int /\ hi * Unit \in Int
  BY <1>2
<1> HIDE DEF c
<1>4. lo * k < (c + 1) * k
  BY <1>1, <1>2, <1>3
<1>5. c * k < (hi + 1) * k
  BY <1>1, <1>2, <1>3
<1> HIDE DEF k
<1>6. ~(c + 1 <= lo)
  <2>1. (c + 1) * k <= lo * k <=> c + 1 <= lo
    BY <1>1, <1>2, ScaledOrder
  <2>2. (c + 1) * k \in Int /\ lo * k \in Int
    BY <1>1, <1>2
  <2> QED
    BY <1>4, <2>1, <2>2
<1>7. ~(hi + 1 <= c)
  <2>1. (hi + 1) * k <= c * k <=> hi + 1 <= c
    BY <1>1, <1>2, ScaledOrder
  <2>2. (hi + 1) * k \in Int /\ c * k \in Int
    BY <1>1, <1>2
  <2> QED
    BY <1>5, <2>1, <2>2
<1> QED
  BY <1>1, <1>6, <1>7 DEF c

\* A step of the grid leads to the same tile or the next.
LEMMA CellNext ==
  ASSUME NEW n \in Int
  PROVE  Cell(n + 1) = Cell(n) \/ Cell(n + 1) = Cell(n) + 1
<1> DEFINE c == Cell(n)
           d == Cell(n + 1)
           k == 2 * Unit
<1>1. c \in Int /\ c * k <= 2 * n + Unit /\ 2 * n + Unit < (c + 1) * k
  BY CellType
<1>2. d \in Int /\ d * k <= 2 * (n + 1) + Unit /\ 2 * (n + 1) + Unit < (d + 1) * k
  BY CellType
<1>3. k \in Int /\ k >= 2 /\ Unit \in Int
  BY WalksAssumptions
<1> HIDE DEF c, d
<1>4. (c + 2) * k = (c + 1) * k + k /\ (c + 1) * k \in Int /\ (d + 1) * k \in Int
      /\ c * k \in Int /\ d * k \in Int
  BY <1>1, <1>2, <1>3
<1>5. c * k < (d + 1) * k /\ d * k < (c + 2) * k
  BY <1>1, <1>2, <1>3, <1>4
<1> HIDE DEF k
<1>6. ~(d + 1 <= c)
  BY <1>1, <1>2, <1>3, <1>4, <1>5, ScaledOrder
<1>7. ~(c + 2 <= d)
  BY <1>1, <1>2, <1>3, <1>4, <1>5, ScaledOrder
<1> QED
  BY <1>1, <1>2, <1>6, <1>7 DEF c, d

\* A road as the config gives it.
Built(r) == r \in Road /\ AlongAnAxis(r) /\ InUnits(r.start) /\ InUnits(r.end)

\* The ends of the loop of gameLoadMap.
LEMMA EndsInOrder ==
  ASSUME NEW a \in Int, NEW b \in Int
  PROVE  /\ (CHOOSE s \in {a, b} : \A e \in {a, b} : s <= e) = Least(a, b)
         /\ (CHOOSE e \in {a, b} : \A s \in {a, b} : s <= e) = Most(a, b)
<1>1. /\ Least(a, b) \in {a, b} /\ \A e \in {a, b} : Least(a, b) <= e
      /\ Most(a, b) \in {a, b} /\ \A s \in {a, b} : s <= Most(a, b)
  BY DEF Least, Most
<1>2. ASSUME NEW s \in {a, b}, \A e \in {a, b} : s <= e
      PROVE  s = Least(a, b)
  BY <1>1, <1>2
<1>3. ASSUME NEW e \in {a, b}, \A s \in {a, b} : s <= e
      PROVE  e = Most(a, b)
  BY <1>1, <1>3
<1> QED
  BY <1>1, <1>2, <1>3

\* The tiles of a road are those from one end to the other.
LEMMA SpanOfRoad ==
  ASSUME NEW r, Built(r)
  PROVE  LET c == IF Page!IsHorizontal(r) THEN r.start.x ELSE r.start.y
             d == IF Page!IsHorizontal(r) THEN r.end.x ELSE r.end.y
         IN  Page!Span(r) = Least(c, d) \div Unit .. Most(c, d) \div Unit
<1> DEFINE c == IF Page!IsHorizontal(r) THEN r.start.x ELSE r.start.y
           d == IF Page!IsHorizontal(r) THEN r.end.x ELSE r.end.y
<1>1. c \in Int /\ d \in Int
  BY DEF Built, Road, Point
<1>2. Page!Ends(r) = {c, d}
  BY DEF Page!Ends
<1> HIDE DEF c, d
<1> QED
  BY <1>1, <1>2, EndsInOrder DEF Page!Span, c, d

\* A dog on a road is over one of its tiles.
LEMMA OverATile ==
  ASSUME NEW r, Built(r), NEW p \in Point, OnRoad(r, p)
  PROVE  LET z == IF Page!IsHorizontal(r) THEN Cell(p.x) ELSE Cell(p.y)
         IN  /\ z \in Page!Span(r)
             /\ Page!TileUnder(p) = Page!TileOn(r, z)
<1>1. /\ r.start.x \in Int /\ r.start.y \in Int
      /\ r.end.x \in Int /\ r.end.y \in Int
      /\ p.x \in Int /\ p.y \in Int /\ Unit \in Int /\ HalfWidth \in Int
  BY Assumptions, WalksAssumptions DEF Built, Road, Point
<1>2. ASSUME NEW a \in Int, a = (a \div Unit) * Unit, NEW b \in Int, b = (b \div Unit) * Unit,
             NEW n \in Int, Least(a, b) - HalfWidth <= n, n <= Most(a, b) + HalfWidth
      PROVE  Cell(n) \in Least(a, b) \div Unit .. Most(a, b) \div Unit
  <2> DEFINE lo == Least(a, b) \div Unit
             hi == Most(a, b) \div Unit
  <2>1. lo \in Int /\ hi \in Int /\ lo * Unit = Least(a, b) /\ hi * Unit = Most(a, b)
    BY <1>2, WalksAssumptions DEF Least, Most
  <2> HIDE DEF lo, hi
  <2>2. Cell(n) \in lo .. hi
    BY <1>2, <2>1, CellInSpan
  <2> QED
    BY <2>2 DEF lo, hi
<1>3. ASSUME NEW a \in Int, a = (a \div Unit) * Unit,
             NEW n \in Int, a - HalfWidth <= n, n <= a + HalfWidth
      PROVE  Cell(n) = a \div Unit
  <2>1. a \div Unit \in Int
    BY <1>3, WalksAssumptions
  <2>2. Cell(n) \in a \div Unit .. a \div Unit
    BY <1>3, <2>1, CellInSpan
  <2> QED
    BY <2>1, <2>2
<1>4. /\ Least(r.start.x, r.end.x) - HalfWidth <= p.x
      /\ p.x <= Most(r.start.x, r.end.x) + HalfWidth
      /\ Least(r.start.y, r.end.y) - HalfWidth <= p.y
      /\ p.y <= Most(r.start.y, r.end.y) + HalfWidth
  BY <1>1 DEF OnRoad, Covers, Bounds, Least, Most
<1>5. /\ r.start.x = (r.start.x \div Unit) * Unit /\ r.start.y = (r.start.y \div Unit) * Unit
      /\ r.end.x = (r.end.x \div Unit) * Unit /\ r.end.y = (r.end.y \div Unit) * Unit
  BY DEF Built, InUnits
<1>6. Page!TileUnder(p) = <<Cell(p.x), Cell(p.y)>>
  BY DEF Page!TileUnder, Cell
<1>7. CASE Page!IsHorizontal(r)
  <2>1. Cell(p.x) \in Least(r.start.x, r.end.x) \div Unit .. Most(r.start.x, r.end.x) \div Unit
    BY <1>1, <1>2, <1>4, <1>5
  <2>2. r.start.y = r.end.y
    BY <1>7 DEF Page!IsHorizontal
  <2>3. r.start.y - HalfWidth <= p.y /\ p.y <= r.start.y + HalfWidth
    BY <1>1, <1>4, <2>2 DEF Least, Most
  <2>4. Cell(p.y) = r.start.y \div Unit
    BY <1>1, <1>3, <1>5, <2>3
  <2> QED
    BY <1>6, <1>7, <2>1, <2>4, SpanOfRoad DEF Page!TileOn
<1>8. CASE ~Page!IsHorizontal(r)
  <2>1. Cell(p.y) \in Least(r.start.y, r.end.y) \div Unit .. Most(r.start.y, r.end.y) \div Unit
    BY <1>1, <1>2, <1>4, <1>5
  <2>2. r.start.x = r.end.x
    BY <1>8 DEF Page!IsHorizontal, Built, AlongAnAxis
  <2>3. r.start.x - HalfWidth <= p.x /\ p.x <= r.start.x + HalfWidth
    BY <1>1, <1>4, <2>2 DEF Least, Most
  <2>4. Cell(p.x) = r.start.x \div Unit
    BY <1>1, <1>3, <1>5, <2>3
  <2> QED
    BY <1>6, <1>8, <2>1, <2>4, SpanOfRoad DEF Page!TileOn
<1> QED
  BY <1>7, <1>8

\* The tile of a road is drawn with the sides the road marks.
LEMMA MarksAreDrawn ==
  ASSUME NEW rs, NEW i \in DOMAIN rs, NEW z \in Page!Span(rs[i])
  PROVE  /\ Page!TileOn(rs[i], z) \in DOMAIN Page!MapTiles(rs)
         /\ Page!Marks(rs[i], z) \subseteq Page!MapTiles(rs)[Page!TileOn(rs[i], z)]
<1> DEFINE t == Page!TileOn(rs[i], z)
<1>1. t \in DOMAIN Page!MapTiles(rs)
  BY DEF Page!MapTiles
<1>2. Page!MapTiles(rs)[t] =
        UNION {UNION {Page!Marks(rs[j], v) :
                        v \in {w \in Page!Span(rs[j]) : Page!TileOn(rs[j], w) = t}} :
                 j \in DOMAIN rs}
  BY <1>1 DEF Page!MapTiles
<1> QED
  BY <1>1, <1>2

\* Between two neighbouring tiles of a road there is no edge.
LEMMA OpenAlongTheRoad ==
  ASSUME NEW rs, NEW i \in DOMAIN rs, Built(rs[i]),
         NEW z \in Page!Span(rs[i]), NEW w \in Page!Span(rs[i]), w = z \/ w = z + 1 \/ z = w + 1
  PROVE  Page!Open(Page!MapTiles(rs), Page!TileOn(rs[i], z), Page!TileOn(rs[i], w))
<1> DEFINE r == rs[i]
           t == Page!TileOn(r, z)
           u == Page!TileOn(r, w)
           tiles == Page!MapTiles(rs)
<1> SUFFICES Page!Open(tiles, t, u)
  OBVIOUS
<1>1. z \in Int /\ w \in Int
  BY DEF Page!Span
<1>2. Page!Marks(r, z) \subseteq tiles[t] /\ Page!Marks(r, w) \subseteq tiles[u]
  BY MarksAreDrawn
<1> HIDE DEF tiles, r
<1>3. CASE w = z
  BY <1>3 DEF Page!Open
<1>4. CASE w = z + 1
  <2>1. z = w - 1 /\ z + 1 \in Page!Span(r) /\ w - 1 \in Page!Span(r)
    BY <1>1, <1>4 DEF r
  <2>2. CASE Page!IsHorizontal(r)
    <3>1. "r" \in Page!Marks(r, z) /\ "l" \in Page!Marks(r, w)
      BY <2>1, <2>2 DEF Page!Marks
    <3>2. t = <<z, r.start.y \div Unit>> /\ u = <<w, r.start.y \div Unit>>
      BY <2>2 DEF Page!TileOn
    <3>3. u = <<t[1] + 1, t[2]>>
      BY <1>1, <1>4, <2>1, <3>2
    <3>4. "r" \in tiles[t] /\ "l" \in tiles[u]
      BY <1>2, <3>1
    <3> HIDE DEF t, u
    <3> QED
      BY <3>3, <3>4 DEF Page!Open
  <2>3. CASE ~Page!IsHorizontal(r)
    <3>1. "d" \in Page!Marks(r, z) /\ "u" \in Page!Marks(r, w)
      BY <2>1, <2>3 DEF Page!Marks
    <3>2. t = <<r.start.x \div Unit, z>> /\ u = <<r.start.x \div Unit, w>>
      BY <2>3 DEF Page!TileOn
    <3>3. u = <<t[1], t[2] + 1>>
      BY <1>1, <1>4, <2>1, <3>2
    <3>4. "d" \in tiles[t] /\ "u" \in tiles[u]
      BY <1>2, <3>1
    <3> HIDE DEF t, u
    <3> QED
      BY <3>3, <3>4 DEF Page!Open
  <2> QED
    BY <2>2, <2>3
<1>5. CASE z = w + 1
  <2>1. w = z - 1 /\ z - 1 \in Page!Span(r) /\ w + 1 \in Page!Span(r)
    BY <1>1, <1>5 DEF r
  <2>2. CASE Page!IsHorizontal(r)
    <3>1. "l" \in Page!Marks(r, z) /\ "r" \in Page!Marks(r, w)
      BY <2>1, <2>2 DEF Page!Marks
    <3>2. t = <<z, r.start.y \div Unit>> /\ u = <<w, r.start.y \div Unit>>
      BY <2>2 DEF Page!TileOn
    <3>3. u = <<t[1] - 1, t[2]>>
      BY <1>1, <1>5, <2>1, <3>2
    <3>4. "l" \in tiles[t] /\ "r" \in tiles[u]
      BY <1>2, <3>1
    <3> HIDE DEF t, u
    <3> QED
      BY <3>3, <3>4 DEF Page!Open
  <2>3. CASE ~Page!IsHorizontal(r)
    <3>1. "u" \in Page!Marks(r, z) /\ "d" \in Page!Marks(r, w)
      BY <2>1, <2>3 DEF Page!Marks
    <3>2. t = <<r.start.x \div Unit, z>> /\ u = <<r.start.x \div Unit, w>>
      BY <2>3 DEF Page!TileOn
    <3>3. u = <<t[1], t[2] - 1>>
      BY <1>1, <1>5, <2>1, <3>2
    <3>4. "u" \in tiles[t] /\ "d" \in tiles[u]
      BY <1>2, <3>1
    <3> HIDE DEF t, u
    <3> QED
      BY <3>3, <3>4 DEF Page!Open
  <2> QED
    BY <2>2, <2>3
<1> QED
  BY <1>1, <1>3, <1>4, <1>5

\* From a point of a road to the next one on it the page draws no edge.
LEMMA NoEdgeInBetween ==
  ASSUME NEW rs, NEW i \in DOMAIN rs, Built(rs[i]),
         NEW p \in Point, NEW b \in Point, OnRoad(rs[i], p), OnRoad(rs[i], Toward(p, b))
  PROVE  LET t == Page!TileUnder(p)
             u == Page!TileUnder(Toward(p, b))
         IN  {t, u} \subseteq DOMAIN Page!MapTiles(rs) /\ Page!Open(Page!MapTiles(rs), t, u)
<1> DEFINE q == Toward(p, b)
           r == rs[i]
           z == IF Page!IsHorizontal(r) THEN Cell(p.x) ELSE Cell(p.y)
           w == IF Page!IsHorizontal(r) THEN Cell(q.x) ELSE Cell(q.y)
<1>1. /\ q \in Point
      /\ q.x = p.x \/ q.x = p.x + 1 \/ p.x = q.x + 1
      /\ q.y = p.y \/ q.y = p.y + 1 \/ p.y = q.y + 1
  BY DEF Toward, Point
<1> HIDE DEF q
<1>2. z \in Page!Span(r) /\ Page!TileUnder(p) = Page!TileOn(r, z)
  BY OverATile
<1>3. w \in Page!Span(r) /\ Page!TileUnder(q) = Page!TileOn(r, w)
  BY <1>1, OverATile DEF q
<1>4. w = z \/ w = z + 1 \/ z = w + 1
  <2>1. p.x \in Int /\ p.y \in Int /\ q.x \in Int /\ q.y \in Int
    BY <1>1 DEF Point
  <2> QED
    BY <1>1, <2>1, CellNext
<1> HIDE DEF z, w
<1>5. /\ Page!TileOn(r, z) \in DOMAIN Page!MapTiles(rs)
      /\ Page!TileOn(r, w) \in DOMAIN Page!MapTiles(rs)
  BY <1>2, <1>3, MarksAreDrawn
<1>6. Page!Open(Page!MapTiles(rs), Page!TileOn(r, z), Page!TileOn(r, w))
  BY <1>2, <1>3, <1>4, OpenAlongTheRoad
<1> QED
  BY <1>2, <1>3, <1>5, <1>6 DEF q

\* Whatever the roads of the config, the browser draws a tile under every point of
\* the way of a dog, and no edge across it.
THEOREM DogsWalkOnDrawnRoads == Spec => WalksOnDrawnRoads
<1> DEFINE StaysOnTiles ==
      pos' # pos =>
        \A p \in Between(pos, pos') :
          LET t == Page!TileUnder(p)
              u == Page!TileUnder(Toward(p, pos'))
          IN  /\ {t, u} \subseteq DOMAIN Drawn[roads]
              /\ Page!Open(Drawn[roads], t, u)
<1>1. IInv /\ IInv' /\ WaySound /\ [Next]_vars => StaysOnTiles
  <2> SUFFICES ASSUME IInv, IInv', WaySound, [Next]_vars, pos' # pos,
                      NEW p \in Between(pos, pos')
               PROVE  LET t == Page!TileUnder(p)
                          u == Page!TileUnder(Toward(p, pos'))
                      IN  /\ {t, u} \subseteq DOMAIN Drawn[roads]
                          /\ Page!Open(Drawn[roads], t, u)
    OBVIOUS
  <2>1. PICK b \in Point : b = pos'
    BY DEF IInv, TypeOK
  <2>2. PICK rs \in RoadLists : rs = roads
    BY DEF IInv, TypeOK
  <2>3. p \in Point
    BY <2>1 DEF IInv, TypeOK, Between, Point, Least, Most
  <2>4. PICK i \in DOMAIN rs : OnRoad(rs[i], p) /\ OnRoad(rs[i], Toward(p, b))
    BY <2>1, <2>2, NextWay DEF GoodWay, CanGoOn
  <2>5. Built(rs[i])
    <3>1. rs \in Seq(Road)
      BY Assumptions
    <3> QED
      BY <3>1, WalksAssumptions DEF Built
  <2>6. Drawn[rs] = Page!MapTiles(rs)
    BY DEF Drawn
  <2>7. LET t == Page!TileUnder(p)
            u == Page!TileUnder(Toward(p, b))
        IN  {t, u} \subseteq DOMAIN Page!MapTiles(rs) /\ Page!Open(Page!MapTiles(rs), t, u)
    BY <2>3, <2>4, <2>5, NoEdgeInBetween
  <2> QED
    BY <2>1, <2>2, <2>6, <2>7
<1>2. IInv /\ IInv' /\ WaySound /\ [Next]_vars => [StaysOnTiles]_vars
  BY <1>1
<1> QED
  BY <1>2, Invariance, WayIsSound, PTL DEF Spec, WalksOnDrawnRoads
=============================================================================
