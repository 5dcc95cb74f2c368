------------------------------ MODULE TileMap ------------------------------
(***************************************************************************)
(* What the page draws of the map that RoadMap moves dogs on: gameLoadMap  *)
(* of src/static/js/game_map.js, and makeRoads and makeRoadEdge of         *)
(* src/static/js/game.js.                                                  *)
(*                                                                         *)
(* The page has tiles, one for each unit of the map file, where the server *)
(* has boxes around roads: both are computed from the same list of roads.  *)
(***************************************************************************)
EXTENDS RoadMap

CONSTANT Buildings      \* [x, y, w, h] in units of the map file

ASSUME BuildingsAssumption == /\ Buildings \subseteq [x : Int, y : Int, w : Nat, h : Nat]
                              /\ IsFiniteSet(Buildings)
ASSUME OnGrid == \A r \in Roads : /\ r.x0 % Unit = 0 /\ r.y0 % Unit = 0
                                  /\ r.x1 % Unit = 0 /\ r.y1 % Unit = 0
ASSUME NarrowRoads == 2 * HalfWidth < Unit

-----------------------------------------------------------------------------
(* gameLoadMap.                                                            *)

\* The roads as the map file gives them, in units.
InUnits(r) == [x0 |-> r.x0 \div Unit, y0 |-> r.y0 \div Unit,
               x1 |-> r.x1 \div Unit, y1 |-> r.y1 \div Unit]
MapRoads   == {InUnits(r) : r \in Roads}

Least(S)    == CHOOSE n \in S : \A m \in S : n <= m
Greatest(S) == CHOOSE n \in S : \A m \in S : n >= m

xs == (UNION {{r.x0, r.x1} : r \in MapRoads}) \cup (UNION {{b.x, b.x + b.w} : b \in Buildings})
ys == (UNION {{r.y0, r.y1} : r \in MapRoads}) \cup (UNION {{b.y, b.y + b.h} : b \in Buildings})

xmin == Least(xs)
xmax == Greatest(xs)
ymin == Least(ys)
ymax == Greatest(ys)

\* A cell of the road beyond which the road goes on to the given side: none for the
\* last cell there, whichever end the road is given from.
LeadsOn_FaultyEnds(r, c, side) ==
    CASE side = "l" -> IsHorizontal(r) /\ c.x # r.x0
      [] side = "r" -> IsHorizontal(r) /\ c.x # r.x1
      [] side = "u" -> ~IsHorizontal(r) /\ c.y # r.y0
      [] side = "d" -> ~IsHorizontal(r) /\ c.y # r.y1
LeadsOn(r, c, side) ==
    CASE side = "l" -> IsHorizontal(r) /\ c.x # Lo(r.x0, r.x1)
      [] side = "r" -> IsHorizontal(r) /\ c.x # Hi(r.x0, r.x1)
      [] side = "u" -> ~IsHorizontal(r) /\ c.y # Lo(r.y0, r.y1)
      [] side = "d" -> ~IsHorizontal(r) /\ c.y # Hi(r.y0, r.y1)

\* One tile of map_tiles: the loop over the roads sets flags and never clears one.
Tile(c) == LET through == {r \in MapRoads : OnAxis(r, c)}
           IN [road |-> through # {},
               open |-> {side \in {"l", "u", "r", "d"} : \E r \in through : LeadsOn(r, c, side)}]

\* Its rows and columns count from 0.
map_tiles == [row \in 0..(ymax - ymin) |-> [column \in 0..(xmax - xmin) |->
                 Tile([x |-> column + xmin, y |-> row + ymin])]]

-----------------------------------------------------------------------------
(* makeRoadEdge: the strip along a side of a tile, or only a corner of it   *)
(* where the side is open.  Lengths are in twentieths of a tile; a tile has *)
(* ten rows and columns of squares, two twentieths wide.                    *)

Twentieths(x, y) == [x |-> x, y |-> y]
short_pts == [l |-> Twentieths(1, 19),  u |-> Twentieths(1, 1),
              r |-> Twentieths(19, 1),  d |-> Twentieths(19, 19)]
long_pts  == [l |-> Twentieths(1, 11),  u |-> Twentieths(9, 1),
              r |-> Twentieths(19, 9),  d |-> Twentieths(11, 19)]

Length(open) == IF open THEN 2 ELSE 18

\* Whether a box of that width around the middle covers the square.
Spans(middle, width, square) ==
    2 * middle - width <= 4 * square /\ 4 * square + 4 <= 2 * middle + width

Edge(side, open) ==
    LET at == IF open THEN short_pts[side] ELSE long_pts[side]
        h  == IF side \in {"l", "r"} THEN 2 ELSE Length(open)
        w  == IF side \in {"l", "r"} THEN Length(open) ELSE 2
    IN {s \in [x : 0..9, y : 0..9] : Spans(at.x, h, s.x) /\ Spans(at.y, w, s.y)}

\* makeRoadTile2
makeRoadTile2(tile) == UNION {Edge(side, side \in tile.open) : side \in {"l", "u", "r", "d"}}

-----------------------------------------------------------------------------
(* The dog on the tiles: moveActor adds half a tile to its coordinates.    *)

ActorCell(p) == [x |-> (2 * p.x + Unit) \div (2 * Unit), y |-> (2 * p.y + Unit) \div (2 * Unit)]

TileAt(c) == map_tiles[c.y - ymin][c.x - xmin]

\* makeRoads draws the tiles with a road.
Drawn(c) == c.x \in xmin..xmax /\ c.y \in ymin..ymax /\ TileAt(c).road

-----------------------------------------------------------------------------
(* Properties.                                                             *)

\* The way of the page's sides in that of the server's directions.
Side == [L |-> "l", U |-> "u", R |-> "r", D |-> "d"]

\* The squares of a tile along a side, without its corners.
Along(side) == {s \in [x : 0..9, y : 0..9] :
    CASE side = "l" -> s.x = 0 /\ s.y \in 1..8
      [] side = "r" -> s.x = 9 /\ s.y \in 1..8
      [] side = "u" -> s.y = 0 /\ s.x \in 1..8
      [] side = "d" -> s.y = 9 /\ s.x \in 1..8}

Neighbour(c, dir) == MovePoint(c, dir, 1)

\* The middle of a tile, where its roads are; between the middles of two tiles there is
\* room for neither.
AtCentre(p) == LET c == ActorCell(p)
               IN {p.x - Unit * c.x, p.y - Unit * c.y} \subseteq -HalfWidth..HalfWidth

\* The page shows a player what the server lets the dog do: wherever the dog is there is
\* road under it; when a road takes it on (Map::GetSuccessRoadMoveSimple), no edge is
\* drawn along the side it faces, and road beyond; and when none does, an edge all along
\* that side.  The last is so in the middle of a tile only: past it a road that leads on
\* may end within the unit to come, or lie beside the dog, and the tile is open there.
DrawnAsWalked ==
    /\ Drawn(ActorCell(pos))
    /\ \A dir \in {"L", "U", "R", "D"} :
          LET edges == makeRoadTile2(TileAt(ActorCell(pos)))
          IN IF \E r \in Roads : PathInside(r, pos, MovePoint(pos, dir, Unit))
             THEN /\ edges \cap Along(Side[dir]) = {}
                  /\ Drawn(Neighbour(ActorCell(pos), dir))
             ELSE AtCentre(pos) => Along(Side[dir]) \subseteq edges

=============================================================================
