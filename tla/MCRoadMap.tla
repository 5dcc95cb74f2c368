----------------------------- MODULE MCRoadMap -----------------------------
(* A map with what the maps of data/config.json have: a crossing, corners,    *)
(* roads given from either end, and a gap narrower than a road between two    *)
(* roads of one line.  A unit of the map file is 10 here, half a road 4.      *)
EXTENDS TileMap, Gathering

FromTo(a, b, c, d) == [x0 |-> a, y0 |-> b, x1 |-> c, y1 |-> d]

SmallTown == {
    FromTo(0, 20, 40, 20),    \* across the middle, west to east
    FromTo(20, 0, 20, 40),    \* crosses it, north to south
    FromTo(40, 40, 40, 20),   \* up to the eastern end, given from the south
    FromTo(70, 20, 50, 20),   \* beyond a gap, given from the east
    FromTo(0, 40, 20, 40) }   \* joins the southern end

TwoHouses == {[x |-> 5, y |-> 0, w |-> 4, h |-> 1], [x |-> -2, y |-> 6, w |-> 1, h |-> 1]}

\* Two pieces in one place, one beside a crossing, one off the roads, an office at a corner.
SomeItems == {
    [position |-> [x |-> 10, y |-> 20], width |-> 0, item_id |-> 0],
    [position |-> [x |-> 10, y |-> 20], width |-> 0, item_id |-> 1],
    [position |-> [x |-> 20, y |-> 18], width |-> 0, item_id |-> 2],
    [position |-> [x |-> 30, y |-> 28], width |-> 0, item_id |-> 3],
    [position |-> [x |-> 42, y |-> 38], width |-> 1, item_id |-> 9999] }

=============================================================================
