------------------------- MODULE CollisionDetector -------------------------
(***************************************************************************)
(* Which items a gatherer passes: src/src/collision_detector.cpp and       *)
(* geom::IsEqual.                                                          *)
(*                                                                         *)
(* Coordinates are integers.  A ratio of the code is kept as a numerator   *)
(* over the square of the length of the way, and comparisons are           *)
(* multiplied out: rounding is left out.                                   *)
(***************************************************************************)
EXTENDS Integers

Vector(a, b) == [x |-> b.x - a.x, y |-> b.y - a.y]
Dot(u, v)    == u.x * v.x + u.y * v.y

\* proj_ratio is dot / len2, sq_distance is sq_distance / len2.
TryCollectPoint(a, b, c) ==
    LET u == Vector(a, c)
        v == Vector(a, b)
    IN [dot |-> Dot(u, v), len2 |-> Dot(v, v),
        sq_distance |-> Dot(u, u) * Dot(v, v) - Dot(u, v) * Dot(u, v)]

\* CollectionResult::IsCollected
IsCollected_FaultyRay(result, radius) ==
    /\ result.dot >= 0
    /\ result.sq_distance <= radius * radius * result.len2
IsCollected(result, radius) ==
    /\ result.dot >= 0 /\ result.dot <= result.len2
    /\ result.sq_distance <= radius * radius * result.len2

\* FindGatherEvents for one gatherer: the ids of items, and the time of each as a
\* ratio.  A gatherer that stays where it is is skipped.
GatherEvents(gatherer, items) ==
    IF gatherer.start_pos = gatherer.end_pos THEN {}
    ELSE LET result(i) == TryCollectPoint(gatherer.start_pos, gatherer.end_pos, i.position)
         IN {[item_id |-> i.item_id, time |-> result(i).dot, of |-> result(i).len2] :
                i \in {j \in items : IsCollected(result(j), gatherer.width + j.width)}}

=============================================================================
