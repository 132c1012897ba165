------------------------------ MODULE TileMap ------------------------------
(***************************************************************************)
(* The tiles the browser draws for the roads of a map: gameLoadMap         *)
(* (static/js/game_map.js), makeRoadTile2 and makeRoads (game.js).  A tile *)
(* is a square of one unit; an object at (x, y) is drawn at (x, y) + 1/2,  *)
(* so that a whole point is the middle of its tile.  A side of a tile that *)
(* is not marked is drawn with an edge along it.                           *)
(***************************************************************************)
EXTENDS Integers, Sequences

CONSTANT Unit  \* a unit of the map on the grid, positive

\* Does the JSON of the road have x1?  (model_json.cpp:106)
IsHorizontal(r) == r.start.y = r.end.y

Ends(r) == IF IsHorizontal(r) THEN {r.start.x, r.end.x} ELSE {r.start.y, r.end.y}

\* The loop from s to e, in units.
Span(r) ==
  {z \in (CHOOSE s \in Ends(r) : \A e \in Ends(r) : s <= e) \div Unit ..
         (CHOOSE e \in Ends(r) : \A s \in Ends(r) : s <= e) \div Unit : TRUE}

TileOn(r, z) == IF IsHorizontal(r) THEN <<z, r.start.y \div Unit>>
                                   ELSE <<r.start.x \div Unit, z>>

\* Mutant: the first tile of a road is marked like the others, the last is not.
MarksOfNext(r, z) ==
  (IF z + 1 \in Span(r) THEN {IF IsHorizontal(r) THEN "l" ELSE "u"} ELSE {}) \cup
  (IF z + 1 \in Span(r) THEN {IF IsHorizontal(r) THEN "r" ELSE "d"} ELSE {})

\* The sides of tile z that r marks: those towards its other tiles.
Marks(r, z) ==
  (IF z - 1 \in Span(r) THEN {IF IsHorizontal(r) THEN "l" ELSE "u"} ELSE {}) \cup
  (IF z + 1 \in Span(r) THEN {IF IsHorizontal(r) THEN "r" ELSE "d"} ELSE {})

\* map_tiles, its tiles that are road: tile -> its marked sides.
MapTiles(rs) ==
  [t \in UNION {{TileOn(rs[i], z) : z \in Span(rs[i])} : i \in DOMAIN rs} |->
     UNION {UNION {Marks(rs[i], z) : z \in {w \in Span(rs[i]) : TileOn(rs[i], w) = t}} :
              i \in DOMAIN rs}]

\* Where moveActor draws a dog.
TileUnder(p) == <<(2 * p.x + Unit) \div (2 * Unit), (2 * p.y + Unit) \div (2 * Unit)>>

\* From tile t to its neighbour u without crossing an edge.
Open(tiles, t, u) ==
  \/ t = u
  \/ /\ u = <<t[1] + 1, t[2]>> /\ "r" \in tiles[t] /\ "l" \in tiles[u]
  \/ /\ u = <<t[1] - 1, t[2]>> /\ "l" \in tiles[t] /\ "r" \in tiles[u]
  \/ /\ u = <<t[1], t[2] + 1>> /\ "d" \in tiles[t] /\ "u" \in tiles[u]
  \/ /\ u = <<t[1], t[2] - 1>> /\ "u" \in tiles[t] /\ "d" \in tiles[u]
=============================================================================
