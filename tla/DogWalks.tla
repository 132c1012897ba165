----------------------------- MODULE DogWalks ------------------------------
(***************************************************************************)
(* RoadMovement with what comes of a walk: the loot it passes              *)
(* (Collision, called by GameSession::Tick with the positions before and   *)
(* after MoveAllDogs) and what the browser draws under it (TileMap).       *)
(***************************************************************************)
EXTENDS RoadMovement

CONSTANTS
  Unit,        \* a unit of the map on the grid
  LootRadius   \* DOG_WIDTH + LOOT_WIDTH, on the grid

\* What the config makes of x0, y0 and x1 or y1 (model_json.cpp:11): a road lies
\* along an axis, and its coordinates are whole units.
AlongAnAxis(r) == r.start.x = r.end.x \/ r.start.y = r.end.y
InUnits(p) == p.x = (p.x \div Unit) * Unit /\ p.y = (p.y \div Unit) * Unit

\* Roads a unit apart leave a gap: HALF_WIDTH is 0.4.
ASSUME WalksAssumptions ==
  /\ Unit \in Nat \ {0}
  /\ LootRadius \in Nat
  /\ 2 * HalfWidth < Unit
  /\ \A rs \in RoadLists : \A i \in DOMAIN rs :
       AlongAnAxis(rs[i]) /\ InUnits(rs[i].start) /\ InUnits(rs[i].end)

Detector == INSTANCE Collision
Page     == INSTANCE TileMap

\* map_tiles of every map.
Drawn == [rs \in RoadLists |-> Page!MapTiles(rs)]

\* Loot lies where GeneratePosition puts it.
LootPoints == [rs \in RoadLists |-> SpawnPoints(rs)]

-----------------------------------------------------------------------------
(* Properties.                                                             *)

\* Does one stand within the radius of l, straight across the way, at q?
PassesAt(q, l, a, b) ==
  \/ a.y = b.y /\ q.x = l.x /\ (l.y - q.y) \in -LootRadius..LootRadius
  \/ a.x = b.x /\ q.y = l.y /\ (l.x - q.x) \in -LootRadius..LootRadius

\* A tick gathers exactly the loot the dog has on either hand at some point of
\* its way, both ends included: what lies where one tick ends and the next one
\* begins is not missed, and nothing ahead or behind is gathered.
GathersWhatItPasses ==
  [][pos' # pos =>
       Detector!GatherEvents(pos, pos', LootPoints[roads], LootRadius) =
         {l \in LootPoints[roads] : \E q \in Between(pos, pos') : PassesAt(q, l, pos, pos')}]_vars

\* The roads the browser draws are those the server lets dogs walk on: on its
\* way in a tick a dog is always over a road tile, and it goes from a tile to
\* the next one only where no edge is drawn between them.
WalksOnDrawnRoads ==
  [][pos' # pos =>
       \A p \in Between(pos, pos') :
         LET t == Page!TileUnder(p)
             u == Page!TileUnder(Toward(p, pos'))
         IN  /\ {t, u} \subseteq DOMAIN Drawn[roads]
             /\ Page!Open(Drawn[roads], t, u)]_vars
=============================================================================
