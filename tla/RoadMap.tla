------------------------------ MODULE RoadMap ------------------------------
(***************************************************************************)
(* One dog on the roads of one map: Map::CreateRoadRTree,                  *)
(* Map::GetRandomCoordOnRoads and Map::GetSuccessRoadMoveSimple of         *)
(* src/src/model.cpp, and the part of Application::Tick that moves a dog.  *)
(*                                                                         *)
(* Coordinates are integers, in a unit of which HalfWidth make half the    *)
(* width of a road (0.4 in the code, where a unit of the map file is 1.0). *)
(* The order in which the R-tree yields the roads around a point is that   *)
(* of its inner structure: every order is allowed.                         *)
(***************************************************************************)
EXTENDS Integers, Sequences, FiniteSets

CONSTANTS
    Roads,       \* the roads of the map
    Unit,        \* 1.0 of the map file
    HalfWidth,   \* half_road_width
    Steps        \* what a dog may cover in a tick: speed times length of the tick

Point == [x : Int, y : Int]
Road  == [x0 : Int, y0 : Int, x1 : Int, y1 : Int]

IsHorizontal(r) == r.y0 = r.y1
IsVertical(r)   == r.x0 = r.x1

ASSUME RoadsAssumption == /\ Roads \subseteq Road /\ Roads # {} /\ IsFiniteSet(Roads)
                          /\ \A r \in Roads : IsHorizontal(r) \/ IsVertical(r)
ASSUME SizesAssumption == /\ HalfWidth \in Nat /\ Unit \in Nat \ {0}
                          /\ Steps \subseteq Nat

VARIABLES
    pos,         \* Dog::coord_
    speed        \* Dog::speed_, by its direction; "" is {0, 0}

vars == <<pos, speed>>

Directions == {"U", "D", "L", "R", ""}

-----------------------------------------------------------------------------
(* The geometry of roads.                                                  *)

Lo(a, b) == IF a <= b THEN a ELSE b
Hi(a, b) == IF a <= b THEN b ELSE a

\* CreateRoadRTree: the box around a road, whichever end it starts from.
Box(r) == [left  |-> Lo(r.x0, r.x1) - HalfWidth, right  |-> Hi(r.x0, r.x1) + HalfWidth,
           upper |-> Lo(r.y0, r.y1) - HalfWidth, lower  |-> Hi(r.y0, r.y1) + HalfWidth]

Inside(r, p) == /\ Box(r).left  <= p.x /\ p.x <= Box(r).right
                /\ Box(r).upper <= p.y /\ p.y <= Box(r).lower

\* rtree_box_.query(intersects(q))
RoadsAt(q) == {r \in Roads : Inside(r, q)}

\* The whole of a dog's way lies on the road: a box is convex.
PathInside(r, p, q) == Inside(r, p) /\ Inside(r, q)

-----------------------------------------------------------------------------
(* Map::GetSuccessRoadMoveSimple.                                          *)

PastEnds(r, mv) == IF IsHorizontal(r) THEN mv.x < Box(r).left \/ mv.x > Box(r).right
                                      ELSE mv.y < Box(r).upper \/ mv.y > Box(r).lower

ClipX(r, mv) == [mv EXCEPT !.x = IF mv.x < Box(r).left THEN Box(r).left ELSE Box(r).right]
ClipY(r, mv) == [mv EXCEPT !.y = IF mv.y < Box(r).upper THEN Box(r).upper ELSE Box(r).lower]

\* Where road r stops a dog that does not end up on it: first by its ends, then
\* by its sides.
Clip_FaultySides(r, mv) == IF IsHorizontal(r) THEN ClipX(r, mv) ELSE ClipY(r, mv)
Clip_FaultyAxis(r, mv) ==
    IF IsHorizontal(r) THEN [mv EXCEPT !.x = IF mv.x < Box(r).left THEN Lo(r.x0, r.x1) ELSE Hi(r.x0, r.x1)]
                       ELSE ClipY(r, mv)
Clip(r, mv) ==
    IF PastEnds(r, mv) THEN IF IsHorizontal(r) THEN ClipX(r, mv) ELSE ClipY(r, mv)
                       ELSE IF IsHorizontal(r) THEN ClipY(r, mv) ELSE ClipX(r, mv)

\* A vertical road left by its side does not overwrite the result of another.
Overwrites(r, mv) == IsHorizontal(r) \/ PastEnds(r, mv)

NoResult == <<>>
Success(p) == <<TRUE, p>>
Failure(p) == <<FALSE, p>>

\* One turn of the loop: the result so far and the next road.  A success is
\* returned at once, so no later road changes it.
Turn(result, r, mv) ==
    IF result # NoResult /\ result[1] THEN result
    ELSE IF Inside(r, mv) THEN Success(mv)
    ELSE IF result = NoResult \/ Overwrites(r, mv) THEN Failure(Clip(r, mv))
    ELSE result

\* The loop over the roads that contain q, in the order s.
Loop(s, mv) ==
    LET turn[i \in 0..Len(s)] == IF i = 0 THEN NoResult ELSE Turn(turn[i-1], s[i], mv)
    IN turn[Len(s)]

\* What the loop may return, over all orders: a success wherever a road holds
\* both points, else the last road that overwrites, else the first road.
GetSuccessRoadMoveSimple_FaultyAnyRoad(q, mv) ==
    IF \E r \in Roads : Inside(r, mv) THEN {Success(mv)}
    ELSE {Failure(Clip(r, mv)) : r \in RoadsAt(q)}
GetSuccessRoadMoveSimple_FaultyUnclipped(q, mv) ==
    IF \E r \in RoadsAt(q) : Inside(r, mv) THEN {Success(mv)} ELSE {Failure(mv)}
GetSuccessRoadMoveSimple(q, mv) ==
    IF \E r \in RoadsAt(q) : Inside(r, mv) THEN {Success(mv)}
    ELSE LET last == {r \in RoadsAt(q) : Overwrites(r, mv)}
         IN {Failure(Clip(r, mv)) : r \in IF last = {} THEN RoadsAt(q) ELSE last}

-----------------------------------------------------------------------------
(* The dog.                                                                *)

\* Where speed_ would take the dog from p.
MovePoint(p, dir, n) ==
    CASE dir = "U" -> [p EXCEPT !.y = p.y - n]
      [] dir = "D" -> [p EXCEPT !.y = p.y + n]
      [] dir = "L" -> [p EXCEPT !.x = p.x - n]
      [] dir = "R" -> [p EXCEPT !.x = p.x + n]
      [] OTHER     -> p

\* Map::GetRandomCoordOnRoads: a point of the axis of a road, with the integer
\* coordinates of the map file.  Without randomize_spawn_points it is the start of
\* the first road.
OnAxis(r, p) == /\ Lo(r.x0, r.x1) <= p.x /\ p.x <= Hi(r.x0, r.x1)
                /\ Lo(r.y0, r.y1) <= p.y /\ p.y <= Hi(r.y0, r.y1)

SpawnPoints == {p \in [x : UNION {Lo(r.x0, r.x1)..Hi(r.x0, r.x1) : r \in Roads},
                       y : UNION {Lo(r.y0, r.y1)..Hi(r.y0, r.y1) : r \in Roads}] :
                  p.x % Unit = 0 /\ p.y % Unit = 0 /\ \E r \in Roads : OnAxis(r, p)}

\* Dog::SetDirection, by ProcessPlayerAction.
SetDirection(dir) == speed' = dir /\ pos' = pos

\* A tick in which the dog covers n, if the roads let it; it loses its speed where
\* they stop it.  With no road under the dog nothing happens to it.
Tick(n) ==
    LET mv == MovePoint(pos, speed, n)
    IN /\ mv # pos
       /\ IF RoadsAt(pos) = {} THEN UNCHANGED vars
          ELSE \E result \in GetSuccessRoadMoveSimple(pos, mv) :
                  /\ pos' = result[2]
                  /\ speed' = IF result[1] THEN speed ELSE ""

Init == pos \in SpawnPoints /\ speed = ""

Next == \/ \E n \in Steps : Tick(n)
        \/ \E dir \in Directions : SetDirection(dir)

Spec == Init /\ [][Next]_vars

-----------------------------------------------------------------------------
(* Properties.                                                             *)

TypeOK == pos.x \in Int /\ pos.y \in Int /\ speed \in Directions

\* No tick takes a dog off the roads, at ends, corners and crossings included.
OnRoad == RoadsAt(pos) # {}

\* A dog goes along one road in a tick: it never jumps a gap between two roads,
\* however long the tick is.
NoJump == [][\E r \in Roads : PathInside(r, pos, pos')]_pos

\* A tick moves the dog the way it heads, at most as far as its speed goes: being
\* stopped by a crossing road never throws it back or sideways.
AlongDirection ==
    [][pos' # pos => \E n \in Steps : \E k \in 0..n : pos' = MovePoint(pos, speed, k)]_pos

\* Away from the crossings, where one road holds the dog, a dog that is stopped is
\* at the edge of that road: another step the same way would leave it.
StopsAtItsEdge ==
    [][(speed # "" /\ speed' = "" /\ pos' # pos) =>
          \A r \in RoadsAt(pos) : RoadsAt(pos) = {r} =>
              ~Inside(r, MovePoint(pos', speed, 1))]_vars

\* "Returns the result of the move of the dog over the map of roads; if it fails,
\* the coordinate of the collision with the edge of the road" (model.h:230): a
\* dog that the roads stop cannot go on the same way on a road it was on.
StopsAtRoadEdge ==
    [][(speed # "" /\ speed' = "" /\ pos' # pos) =>
          \A r \in RoadsAt(pos) : ~Inside(r, MovePoint(pos', speed, 1))]_vars

\* The set of results above is what the loop of the code computes, over the orders
\* in which the R-tree may yield the roads around the dog.
Orders(S) == {s \in [1..Cardinality(S) -> S] : \A i, j \in DOMAIN s : s[i] = s[j] => i = j}

ResultsOfLoop ==
    \A n \in Steps, dir \in Directions :
        LET mv == MovePoint(pos, dir, n)
        IN GetSuccessRoadMoveSimple(pos, mv) = {Loop(s, mv) : s \in Orders(RoadsAt(pos))}

=============================================================================
