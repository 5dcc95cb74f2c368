----------------------------- MODULE Gathering -----------------------------
(***************************************************************************)
(* What a dog of RoadMap gathers in a tick: the gatherers that             *)
(* Application::Tick hands to the CollisionDetector, and the items of      *)
(* GameSession::GetLootToItems.  What becomes of the events is in          *)
(* GameSession.                                                            *)
(***************************************************************************)
EXTENDS RoadMap, CollisionDetector

CONSTANTS
    Items,          \* [position, width, item_id]: width is half of the code's
    PlayerWidth     \* half of PLAYER_WIDTH

ASSUME ItemsAssumption == Items \subseteq [position : Point, width : Nat, item_id : Nat]
ASSUME WidthAssumption == PlayerWidth \in Nat

\* The dog of one tick: from where it was to where the roads let it go.
Gatherer == [start_pos |-> pos, end_pos |-> pos', width |-> PlayerWidth]

\* The items the dog comes across between two points of a straight way: it passes them
\* on its left or right, within the sum of the widths.
Between(a, n, b) == (a <= n /\ n <= b) \/ (b <= n /\ n <= a)

PassedBy(p, q) ==
    {i \in Items : \/ /\ p.y = q.y /\ Between(p.x, i.position.x, q.x)
                      /\ i.position.y - p.y \in -(PlayerWidth + i.width)..(PlayerWidth + i.width)
                   \/ /\ p.x = q.x /\ Between(p.y, i.position.y, q.y)
                      /\ i.position.x - p.x \in -(PlayerWidth + i.width)..(PlayerWidth + i.width)}

-----------------------------------------------------------------------------
\* A dog gathers what it passes, as it passes it: stop the tick after k of the n it covers,
\* and the events up to then are those of the items beside the way so far.  So the length
\* of ticks makes no difference to what is gathered, and events are handled in the order
\* of the way (TryCollectPoint, FindGatherEvents, gatherers in Application::Tick).
Covered == IF speed \in {"L", "R"} THEN (pos'.x - pos.x) * (IF speed = "R" THEN 1 ELSE -1)
                                   ELSE (pos'.y - pos.y) * (IF speed = "D" THEN 1 ELSE -1)

ItemIds(S) == {e.item_id : e \in S}

GathersOnItsWay ==
    [][pos' # pos =>
          LET events == GatherEvents(Gatherer, Items)
          IN /\ ItemIds(events) = ItemIds(PassedBy(pos, pos'))
             /\ \A k \in 1..Covered :
                   ItemIds({e \in events : e.time * Covered <= k * e.of})
                       = ItemIds(PassedBy(pos, MovePoint(pos, speed, k)))]_vars

=============================================================================
