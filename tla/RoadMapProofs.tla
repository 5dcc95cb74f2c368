--------------------------- MODULE RoadMapProofs ---------------------------
(***************************************************************************)
(* Proofs about the moves of a dog, for every map whose roads are          *)
(* horizontal or vertical, every width of the roads, every set of steps    *)
(* and every order of the R-tree.                                          *)
(***************************************************************************)
EXTENDS TileMap, Gathering, FiniteSetTheorems, TLAPS

RoadInv == pos \in Point /\ speed \in Directions /\ OnRoad

\* The sides of the box of a road are integers, in order.
LEMMA BoxType ==
    ASSUME NEW r \in Roads
    PROVE  /\ Box(r).left \in Int /\ Box(r).right \in Int
           /\ Box(r).upper \in Int /\ Box(r).lower \in Int
           /\ Box(r).left <= Box(r).right /\ Box(r).upper <= Box(r).lower
  BY RoadsAssumption, SizesAssumption DEF Road, Box, Lo, Hi

\* A step leads to a point.
LEMMA MoveType ==
    ASSUME NEW p \in Point, NEW dir \in Directions, NEW n \in Nat
    PROVE  MovePoint(p, dir, n) \in Point
  <1>1. p.x - n \in Int /\ p.x + n \in Int /\ p.y - n \in Int /\ p.y + n \in Int
    BY DEF Point
  <1> QED
    BY <1>1 DEF MovePoint, Point, Directions

\* A road that holds the start stops the dog on itself, on the way, and where another
\* step would leave it.
LEMMA ClipInside ==
    ASSUME NEW r \in Roads, NEW p \in Point, NEW dir \in Directions, NEW n \in Nat,
           Inside(r, p), ~Inside(r, MovePoint(p, dir, n))
    PROVE  LET c == Clip(r, MovePoint(p, dir, n))
           IN /\ c \in Point
              /\ Inside(r, c)
              /\ \E k \in 0..n : c = MovePoint(p, dir, k)
              /\ ~Inside(r, MovePoint(c, dir, 1))
  <1> DEFINE mv == MovePoint(p, dir, n)
             c == Clip(r, mv)
  <1>1. mv \in Point
    BY MoveType
  <1>2. p.x \in Int /\ p.y \in Int
    BY DEF Point
  <1>3. CASE dir = "U"
    <2> DEFINE k == p.y - Box(r).upper
    <2>1. mv = [p EXCEPT !.y = p.y - n] /\ mv.x = p.x /\ mv.y = p.y - n
      BY <1>3 DEF MovePoint, Point
    <2>2. mv.y < Box(r).upper
      BY <1>2, <2>1, BoxType DEF Inside
    <2>3. c = ClipY(r, mv)
      BY <1>2, <2>1, <2>2, BoxType DEF Clip, PastEnds, Inside
    <2>4. c = [x |-> p.x, y |-> Box(r).upper]
      BY <1>1, <2>1, <2>2, <2>3 DEF ClipY, Point
    <2>5. k \in 0..n /\ MovePoint(p, dir, k) = [x |-> p.x, y |-> Box(r).upper]
      BY <1>2, <1>3, <2>1, <2>2, BoxType DEF Inside, MovePoint, Point
    <2>6. MovePoint(c, dir, 1) = [x |-> p.x, y |-> Box(r).upper - 1]
      BY <1>3, <2>4, BoxType DEF MovePoint
    <2> QED
      BY <1>2, <2>4, <2>5, <2>6, BoxType DEF Inside, Point
  <1>4. CASE dir = "D"
    <2> DEFINE k == Box(r).lower - p.y
    <2>1. mv = [p EXCEPT !.y = p.y + n] /\ mv.x = p.x /\ mv.y = p.y + n
      BY <1>4 DEF MovePoint, Point
    <2>2. mv.y > Box(r).lower /\ ~(mv.y < Box(r).upper)
      BY <1>2, <2>1, BoxType DEF Inside
    <2>3. c = ClipY(r, mv)
      BY <1>2, <2>1, <2>2, BoxType DEF Clip, PastEnds, Inside
    <2>4. c = [x |-> p.x, y |-> Box(r).lower]
      BY <1>1, <2>1, <2>2, <2>3 DEF ClipY, Point
    <2>5. k \in 0..n /\ MovePoint(p, dir, k) = [x |-> p.x, y |-> Box(r).lower]
      BY <1>2, <1>4, <2>1, <2>2, BoxType DEF Inside, MovePoint, Point
    <2>6. MovePoint(c, dir, 1) = [x |-> p.x, y |-> Box(r).lower + 1]
      BY <1>4, <2>4, BoxType DEF MovePoint
    <2> QED
      BY <1>2, <2>4, <2>5, <2>6, BoxType DEF Inside, Point
  <1>5. CASE dir = "L"
    <2> DEFINE k == p.x - Box(r).left
    <2>1. mv = [p EXCEPT !.x = p.x - n] /\ mv.y = p.y /\ mv.x = p.x - n
      BY <1>5 DEF MovePoint, Point
    <2>2. mv.x < Box(r).left
      BY <1>2, <2>1, BoxType DEF Inside
    <2>3. c = ClipX(r, mv)
      BY <1>2, <2>1, <2>2, BoxType DEF Clip, PastEnds, Inside
    <2>4. c = [x |-> Box(r).left, y |-> p.y]
      BY <1>1, <2>1, <2>2, <2>3 DEF ClipX, Point
    <2>5. k \in 0..n /\ MovePoint(p, dir, k) = [x |-> Box(r).left, y |-> p.y]
      BY <1>2, <1>5, <2>1, <2>2, BoxType DEF Inside, MovePoint, Point
    <2>6. MovePoint(c, dir, 1) = [x |-> Box(r).left - 1, y |-> p.y]
      BY <1>5, <2>4, BoxType DEF MovePoint
    <2> QED
      BY <1>2, <2>4, <2>5, <2>6, BoxType DEF Inside, Point
  <1>6. CASE dir = "R"
    <2> DEFINE k == Box(r).right - p.x
    <2>1. mv = [p EXCEPT !.x = p.x + n] /\ mv.y = p.y /\ mv.x = p.x + n
      BY <1>6 DEF MovePoint, Point
    <2>2. mv.x > Box(r).right /\ ~(mv.x < Box(r).left)
      BY <1>2, <2>1, BoxType DEF Inside
    <2>3. c = ClipX(r, mv)
      BY <1>2, <2>1, <2>2, BoxType DEF Clip, PastEnds, Inside
    <2>4. c = [x |-> Box(r).right, y |-> p.y]
      BY <1>1, <2>1, <2>2, <2>3 DEF ClipX, Point
    <2>5. k \in 0..n /\ MovePoint(p, dir, k) = [x |-> Box(r).right, y |-> p.y]
      BY <1>2, <1>6, <2>1, <2>2, BoxType DEF Inside, MovePoint, Point
    <2>6. MovePoint(c, dir, 1) = [x |-> Box(r).right + 1, y |-> p.y]
      BY <1>6, <2>4, BoxType DEF MovePoint
    <2> QED
      BY <1>2, <2>4, <2>5, <2>6, BoxType DEF Inside, Point
  <1>7. CASE dir = ""
    BY <1>7 DEF MovePoint
  <1> QED
    BY <1>3, <1>4, <1>5, <1>6, <1>7 DEF Directions

\* Whatever the order of the roads, the dog arrives on a road it came from, on the
\* way it took.
LEMMA MoveLands ==
    ASSUME NEW p \in Point, NEW dir \in Directions, NEW n \in Nat,
           NEW result \in GetSuccessRoadMoveSimple(p, MovePoint(p, dir, n))
    PROVE  /\ result[1] \in BOOLEAN
           /\ result[2] \in Point
           /\ \E r \in Roads : PathInside(r, p, result[2])
           /\ \E k \in 0..n : result[2] = MovePoint(p, dir, k)
  <1> DEFINE mv == MovePoint(p, dir, n)
  <1>1. CASE \E r \in RoadsAt(p) : Inside(r, mv)
    <2>1. result = Success(mv)
      BY <1>1 DEF GetSuccessRoadMoveSimple
    <2>2. n \in 0..n
      OBVIOUS
    <2> QED
      BY <1>1, <2>1, <2>2, MoveType DEF Success, PathInside, RoadsAt
  <1>2. CASE ~\E r \in RoadsAt(p) : Inside(r, mv)
    <2>1. PICK r \in RoadsAt(p) : result = Failure(Clip(r, mv))
      BY <1>2 DEF GetSuccessRoadMoveSimple
    <2>2. r \in Roads /\ Inside(r, p) /\ ~Inside(r, mv)
      BY <1>2 DEF RoadsAt
    <2> QED
      BY <2>1, <2>2, ClipInside DEF Failure, PathInside
  <1> QED
    BY <1>1, <1>2

LEMMA RoadInit == Init => RoadInv
  <1> SUFFICES ASSUME Init PROVE RoadInv
    OBVIOUS
  <1>1. PICK r \in Roads : OnAxis(r, pos)
    BY DEF Init, SpawnPoints
  <1>2. \A q \in Roads : Lo(q.x0, q.x1)..Hi(q.x0, q.x1) \subseteq Int
                         /\ Lo(q.y0, q.y1)..Hi(q.y0, q.y1) \subseteq Int
    BY RoadsAssumption DEF Road, Lo, Hi
  <1>3. pos \in Point
    <2>1. pos \in [x : UNION {Lo(q.x0, q.x1)..Hi(q.x0, q.x1) : q \in Roads},
                   y : UNION {Lo(q.y0, q.y1)..Hi(q.y0, q.y1) : q \in Roads}]
      BY DEF Init, SpawnPoints
    <2>2. /\ UNION {Lo(q.x0, q.x1)..Hi(q.x0, q.x1) : q \in Roads} \subseteq Int
          /\ UNION {Lo(q.y0, q.y1)..Hi(q.y0, q.y1) : q \in Roads} \subseteq Int
      BY <1>2
    <2> QED
      BY <2>1, <2>2 DEF Point
  <1>4. Inside(r, pos)
    BY <1>1, <1>3, RoadsAssumption, SizesAssumption
    DEF OnAxis, Inside, Box, Lo, Hi, Point, Road
  <1> QED
    BY <1>3, <1>4 DEF RoadInv, OnRoad, RoadsAt, Init, Directions

\* What a step of a dog does to its place.
LEMMA RoadStep ==
    ASSUME RoadInv, [Next]_vars
    PROVE  /\ RoadInv'
           /\ pos' # pos => \E r \in Roads : PathInside(r, pos, pos')
           /\ pos' # pos => \E n \in Steps : \E k \in 0..n : pos' = MovePoint(pos, speed, k)
  <1>1. ASSUME NEW n \in Steps, Tick(n)
        PROVE  /\ RoadInv'
               /\ \E r \in Roads : PathInside(r, pos, pos')
               /\ \E k \in 0..n : pos' = MovePoint(pos, speed, k)
    <2>1. n \in Nat /\ RoadsAt(pos) # {}
      BY SizesAssumption DEF RoadInv, OnRoad
    <2>2. PICK result \in GetSuccessRoadMoveSimple(pos, MovePoint(pos, speed, n)) :
             /\ pos' = result[2]
             /\ speed' = IF result[1] THEN speed ELSE ""
      BY <1>1, <2>1 DEF Tick
    <2>3. /\ pos' \in Point
          /\ \E r \in Roads : PathInside(r, pos, pos')
          /\ \E k \in 0..n : pos' = MovePoint(pos, speed, k)
      BY <2>1, <2>2, MoveLands DEF RoadInv
    <2>4. speed' \in Directions
      BY <2>2 DEF RoadInv, Directions
    <2> QED
      BY <2>3, <2>4 DEF RoadInv, OnRoad, RoadsAt, PathInside
  <1>2. ASSUME NEW dir \in Directions, SetDirection(dir)
        PROVE  RoadInv' /\ pos' = pos
    BY <1>2 DEF SetDirection, RoadInv, OnRoad, RoadsAt
  <1>3. CASE UNCHANGED vars
    BY <1>3 DEF vars, RoadInv, OnRoad, RoadsAt
  <1> QED
    BY <1>1, <1>2, <1>3 DEF Next

LEMMA RoadAlways == Spec => []RoadInv
  BY RoadInit, RoadStep, PTL DEF Spec

\* No tick takes a dog off the roads.
THEOREM StaysOnRoad == Spec => []OnRoad
  BY RoadAlways, PTL DEF RoadInv

\* No tick takes a dog across a gap between two roads.
THEOREM NeverJumps == Spec => NoJump
  <1>1. RoadInv /\ [Next]_vars => [\E r \in Roads : PathInside(r, pos, pos')]_pos
    BY RoadStep
  <1> QED
    BY <1>1, RoadAlways, PTL DEF Spec, NoJump

\* No tick throws a dog back, sideways or further than its speed allows.
THEOREM GoesAhead == Spec => AlongDirection
  <1>1. RoadInv /\ [Next]_vars =>
           [pos' # pos => \E n \in Steps : \E k \in 0..n : pos' = MovePoint(pos, speed, k)]_pos
    BY RoadStep
  <1> QED
    BY <1>1, RoadAlways, PTL DEF Spec, AlongDirection

\* Where one road holds the dog, what stops it is the edge of that road.
THEOREM StopsAtEdge == Spec => StopsAtItsEdge
  <1> DEFINE A == (speed # "" /\ speed' = "" /\ pos' # pos) =>
                     \A r \in RoadsAt(pos) : RoadsAt(pos) = {r} =>
                        ~Inside(r, MovePoint(pos', speed, 1))
  <1>1. RoadInv /\ [Next]_vars => [A]_vars
    <2> SUFFICES ASSUME RoadInv, Next, speed # "", speed' = "", pos' # pos,
                        NEW r \in RoadsAt(pos), RoadsAt(pos) = {r}
                 PROVE  ~Inside(r, MovePoint(pos', speed, 1))
      OBVIOUS
    <2>1. PICK n \in Steps : Tick(n)
      BY DEF Next, SetDirection
    <2> DEFINE mv == MovePoint(pos, speed, n)
    <2>2. PICK result \in GetSuccessRoadMoveSimple(pos, mv) :
             pos' = result[2] /\ speed' = IF result[1] THEN speed ELSE ""
      BY <2>1 DEF Tick
    <2>3. result # Success(mv)
      <3>1. ASSUME result = Success(mv) PROVE result[1]
        BY <3>1 DEF Success
      <3> QED
        BY <2>2, <3>1
    <2>4. ~Inside(r, mv) /\ result = Failure(Clip(r, mv))
      BY <2>3 DEF GetSuccessRoadMoveSimple
    <2>5. pos' = Clip(r, mv)
      BY <2>2, <2>4 DEF Failure
    <2> QED
      BY <2>4, <2>5, ClipInside, SizesAssumption DEF RoadInv, RoadsAt
  <1> QED
    BY <1>1, RoadAlways, PTL DEF Spec, StopsAtItsEdge

-----------------------------------------------------------------------------
(* The loop of the code, for every order in which the R-tree may yield the *)
(* roads around a dog.  What holds for every number of turns is proved by  *)
(* the least number for which it would not.                                *)

\* Finite sets of numbers are well-founded, so a set of numbers has a least one.
LEMMA LeastElement ==
    ASSUME NEW S \in SUBSET Nat, S # {}
    PROVE  \E m \in S : \A k \in S : m <= k
  <1> DEFINE T == {0..k : k \in S}
  <1>1. T \subseteq FiniteSubsetsOf(Nat) /\ T # {}
    <2>1. ASSUME NEW k \in S PROVE 0..k \in SUBSET Nat /\ IsFiniteSet(0..k)
      BY <2>1, FS_Interval
    <2> QED
      BY <2>1 DEF FiniteSubsetsOf
  <1>2. PICK x \in T : \A y \in T : ~ (<<y, x>> \in StrictSubsetOrdering(Nat))
    <2> HIDE DEF T
    <2> QED
      BY <1>1, FS_StrictSubsetOrderingWellFounded, WFMin
  <1>3. PICK m \in S : x = 0..m
    OBVIOUS
  <1>4. ASSUME NEW k \in S, k < m PROVE FALSE
    <2>1. 0..k \subseteq 0..m /\ 0..k \in SUBSET Nat /\ 0..m \in SUBSET Nat
      BY <1>4
    <2>2. m \in 0..m /\ m \notin 0..k
      BY <1>4
    <2>3. <<0..k, 0..m>> \in StrictSubsetOrdering(Nat)
      BY <2>1, <2>2 DEF StrictSubsetOrdering
    <2> QED
      BY <1>2, <1>3, <2>3
  <1> QED
    BY <1>4

\* The result so far is defined before the first road and after every road.
LEMMA LoopUnfolds ==
    ASSUME NEW n \in Nat, NEW s \in [1..n -> Roads], NEW mv
    PROVE  \E turn : /\ Loop(s, mv) = turn[n] /\ turn[0] = NoResult
                     /\ \A i \in 1..n : turn[i] = Turn(turn[i-1], s[i], mv)
  <1> DEFINE IsTurn(f, m) ==
               f = [i \in 0..m |-> IF i = 0 THEN NoResult ELSE Turn(f[i-1], s[i], mv)]
             Bad == {m \in 0..n : ~\E f : IsTurn(f, m)}
  <1>1. Len(s) = n
    OBVIOUS
  <1>2. Bad = {}
    <2> SUFFICES ASSUME Bad # {} PROVE FALSE
      OBVIOUS
    <2>1. PICK m \in Bad : \A k \in Bad : m <= k
      <3> HIDE DEF Bad
      <3>1. Bad \in SUBSET Nat
        BY DEF Bad
      <3> QED
        BY <3>1, LeastElement
    <2>2. CASE m = 0
      <3>1. IsTurn([i \in 0..0 |-> NoResult], 0)
        OBVIOUS
      <3> QED
        BY <2>2, <3>1
    <2>3. CASE m > 0
      <3>1. m - 1 \in 0..n /\ m - 1 \notin Bad
        <4>1. m \in 0..n
          OBVIOUS
        <4> HIDE DEF Bad
        <4> QED
          BY <2>1, <2>3, <4>1
      <3>2. PICK f : IsTurn(f, m - 1)
        BY <3>1
      <3> DEFINE g == [i \in 0..m |-> IF i = m THEN Turn(f[m-1], s[m], mv) ELSE f[i]]
      <3>3. ASSUME NEW i \in 0..m
            PROVE  g[i] = IF i = 0 THEN NoResult ELSE Turn(g[i-1], s[i], mv)
        <4>1. CASE i = m
          <5>1. m - 1 \in 0..m /\ m - 1 # m
            BY <2>3
          <5>2. g[m-1] = f[m-1]
            BY <5>1
          <5> QED
            BY <2>3, <4>1, <5>2
        <4>2. CASE i \in 1..m-1
          <5>1. g[i] = f[i] /\ g[i-1] = f[i-1]
            BY <4>2
          <5> QED
            BY <3>2, <4>2, <5>1
        <4>3. CASE i = 0
          <5>1. f[0] = NoResult
            BY <2>3, <3>2
          <5> QED
            BY <2>3, <4>3, <5>1
        <4> QED
          BY <4>1, <4>2, <4>3
      <3>4. IsTurn(g, m)
        <4> HIDE DEF g
        <4>1. g = [i \in 0..m |-> g[i]]
          BY DEF g
        <4> QED
          BY <3>3, <4>1
      <3> QED
        BY <3>4
    <2> QED
      BY <2>1, <2>2, <2>3
  <1>3. PICK f : IsTurn(f, n)
    BY <1>2
  <1>4. PICK turn : /\ turn = [i \in 0..Len(s) |-> IF i = 0 THEN NoResult
                                                   ELSE Turn(turn[i-1], s[i], mv)]
                    /\ Loop(s, mv) = turn[Len(s)]
    BY <1>1, <1>3 DEF Loop
  <1>5. turn[0] = NoResult /\ \A i \in 1..n : turn[i] = Turn(turn[i-1], s[i], mv)
    BY <1>1, <1>4
  <1> QED
    BY <1>1, <1>4, <1>5

\* The first road that holds the end of the way decides; without one the last road that
\* overwrites does, or the first road when none after it does.
LEMMA LoopResult ==
    ASSUME NEW n \in Nat \ {0}, NEW s \in [1..n -> Roads], NEW mv
    PROVE  \/ /\ \E i \in 1..n : Inside(s[i], mv)
              /\ Loop(s, mv) = Success(mv)
           \/ /\ \A i \in 1..n : ~Inside(s[i], mv)
              /\ \E k \in 1..n : /\ Loop(s, mv) = Failure(Clip(s[k], mv))
                                 /\ k = 1 \/ Overwrites(s[k], mv)
                                 /\ \A j \in k+1..n : ~Overwrites(s[j], mv)
  <1>1. PICK turn : /\ Loop(s, mv) = turn[n] /\ turn[0] = NoResult
                    /\ \A i \in 1..n : turn[i] = Turn(turn[i-1], s[i], mv)
    BY LoopUnfolds
  <1> DEFINE Won(i) == (\E j \in 1..i : Inside(s[j], mv)) /\ turn[i] = Success(mv)
             Stopped(i) ==
               /\ \A j \in 1..i : ~Inside(s[j], mv)
               /\ \E k \in 1..i : /\ turn[i] = Failure(Clip(s[k], mv))
                                  /\ k = 1 \/ Overwrites(s[k], mv)
                                  /\ \A j \in k+1..i : ~Overwrites(s[j], mv)
             Bad == {i \in 1..n : ~Won(i) /\ ~Stopped(i)}
  <1>2. \A p : /\ Success(p) # NoResult /\ Success(p)[1] = TRUE
               /\ Failure(p) # NoResult /\ Failure(p)[1] = FALSE
    BY DEF Success, Failure, NoResult
  <1>3. Won(1) \/ Stopped(1)
    <2>1. turn[1] = Turn(NoResult, s[1], mv)
      BY <1>1
    <2>2. CASE Inside(s[1], mv)
      <3>1. turn[1] = Success(mv)
        BY <2>1, <2>2 DEF Turn
      <3> QED
        BY <2>2, <3>1
    <2>3. CASE ~Inside(s[1], mv)
      <3>1. turn[1] = Failure(Clip(s[1], mv))
        BY <2>1, <2>3 DEF Turn
      <3>2. Stopped(1)
        BY <2>3, <3>1
      <3> QED
        BY <3>2
    <2> QED
      BY <2>2, <2>3
  <1>4. ASSUME NEW i \in 2..n, Won(i-1) PROVE Won(i)
    <2>1. turn[i] = Turn(Success(mv), s[i], mv)
      BY <1>1, <1>4
    <2>2. turn[i] = Success(mv)
      BY <1>2, <2>1 DEF Turn
    <2>3. PICK j \in 1..i-1 : Inside(s[j], mv)
      BY <1>4
    <2>4. j \in 1..i
      OBVIOUS
    <2> QED
      BY <2>2, <2>3, <2>4
  <1>5. ASSUME NEW i \in 2..n, Stopped(i-1) PROVE Won(i) \/ Stopped(i)
    <2>1. PICK k \in 1..i-1 : /\ turn[i-1] = Failure(Clip(s[k], mv))
                              /\ k = 1 \/ Overwrites(s[k], mv)
                              /\ \A j \in k+1..i-1 : ~Overwrites(s[j], mv)
      BY <1>5
    <2>2. turn[i] = Turn(Failure(Clip(s[k], mv)), s[i], mv)
      BY <1>1, <2>1
    <2>3. CASE Inside(s[i], mv)
      <3>1. turn[i] = Success(mv)
        BY <1>2, <2>2, <2>3 DEF Turn
      <3>2. i \in 1..i
        OBVIOUS
      <3> QED
        BY <2>3, <3>1, <3>2
    <2>4. CASE ~Inside(s[i], mv) /\ Overwrites(s[i], mv)
      <3>1. turn[i] = Failure(Clip(s[i], mv))
        BY <1>2, <2>2, <2>4 DEF Turn
      <3>2. \A j \in 1..i : ~Inside(s[j], mv)
        BY <1>5, <2>4
      <3>3. i \in 1..i /\ i+1..i = {}
        OBVIOUS
      <3> QED
        BY <2>4, <3>1, <3>2, <3>3
    <2>5. CASE ~Inside(s[i], mv) /\ ~Overwrites(s[i], mv)
      <3>1. turn[i] = Failure(Clip(s[k], mv))
        BY <1>2, <2>2, <2>5 DEF Turn
      <3>2. \A j \in 1..i : ~Inside(s[j], mv)
        BY <1>5, <2>5
      <3>3. k \in 1..i /\ \A j \in k+1..i : ~Overwrites(s[j], mv)
        BY <2>1, <2>5
      <3> QED
        BY <2>1, <3>1, <3>2, <3>3
    <2> QED
      BY <2>3, <2>4, <2>5
  <1>6. Bad = {}
    <2> HIDE DEF Won, Stopped
    <2> SUFFICES ASSUME Bad # {} PROVE FALSE
      OBVIOUS
    <2>1. PICK m \in Bad : \A k \in Bad : m <= k
      <3> HIDE DEF Bad
      <3>1. Bad \in SUBSET Nat
        BY DEF Bad
      <3> QED
        BY <3>1, LeastElement
    <2>2. m \in 2..n
      BY <1>3
    <2>3. m - 1 \in 1..n /\ m - 1 \notin Bad
      <3> HIDE DEF Bad
      <3> QED
        BY <2>1, <2>2
    <2>4. Won(m-1) \/ Stopped(m-1)
      BY <2>3
    <2>5. Won(m) \/ Stopped(m)
      BY <1>4, <1>5, <2>2, <2>4
    <2> QED
      BY <2>5
  <1>7. Won(n) \/ Stopped(n)
    <2> HIDE DEF Won, Stopped
    <2>1. n \in 1..n
      OBVIOUS
    <2> QED
      BY <1>6, <2>1
  <1>8. CASE Won(n)
    BY <1>1, <1>8
  <1>9. CASE Stopped(n)
    BY <1>1, <1>9
  <1> QED
    BY <1>7, <1>8, <1>9

\* An order names every road, and some order has a given road at a given place.
LEMMA OrdersOnto ==
    ASSUME NEW S, IsFiniteSet(S), NEW s \in Orders(S), NEW r \in S
    PROVE  \E i \in 1..Cardinality(S) : s[i] = r
  <1> DEFINE n == Cardinality(S)
  <1>1. n \in Nat
    BY FS_CardinalityType
  <1>2. Cardinality(1..n) = n
    BY <1>1, FS_Interval
  <1>3. s \in Injection(1..n, S)
    BY DEF Orders, Injection, IsInjective
  <1>4. s \in Surjection(1..n, S)
    BY <1>2, <1>3, FS_Injection
  <1> QED
    BY <1>4 DEF Surjection

LEMMA OrdersExist ==
    ASSUME NEW S, IsFiniteSet(S), NEW r \in S, NEW i \in 1..Cardinality(S)
    PROVE  \E s \in Orders(S) : s[i] = r
  <1> DEFINE n == Cardinality(S)
  <1>1. PICK f \in Bijection(1..n, S) : TRUE
    BY FS_CardinalityType DEF ExistsBijection
  <1>2. /\ f \in [1..n -> S] /\ \A j, k \in 1..n : f[j] = f[k] => j = k
        /\ \E j \in 1..n : f[j] = r
    BY <1>1 DEF Bijection, Injection, Surjection, IsInjective
  <1>3. PICK j \in 1..n : f[j] = r
    BY <1>2
  <1> DEFINE s == [k \in 1..n |-> IF k = i THEN r ELSE IF k = j THEN f[i] ELSE f[k]]
  <1>4. s \in [1..n -> S] /\ \A k, l \in 1..n : s[k] = s[l] => k = l
    BY <1>2, <1>3
  <1>5. s \in Orders(S)
    BY <1>4 DEF Orders
  <1> QED
    BY <1>5

\* GetSuccessRoadMoveSimple is what the loop returns, each result for some order.
LEMMA LoopResults ==
    ASSUME NEW q, NEW mv, RoadsAt(q) # {}
    PROVE  GetSuccessRoadMoveSimple(q, mv) = {Loop(s, mv) : s \in Orders(RoadsAt(q))}
  <1> DEFINE S == RoadsAt(q)
             n == Cardinality(S)
             Last == {r \in S : Overwrites(r, mv)}
  <1>1. S \subseteq Roads /\ IsFiniteSet(S)
    BY FS_Subset, RoadsAssumption DEF RoadsAt
  <1>2. n \in Nat \ {0}
    BY <1>1, FS_CardinalityType, FS_EmptySet
  <1>3. ASSUME NEW s \in Orders(S)
        PROVE  s \in [1..n -> Roads] /\ \A r \in S : \E i \in 1..n : s[i] = r
    BY <1>1, <1>3, OrdersOnto DEF Orders
  <1>4. ASSUME NEW s \in Orders(S) PROVE \A i \in 1..n : s[i] \in S
    BY <1>4 DEF Orders
  <1>5. ASSUME NEW r \in S, NEW i \in 1..n PROVE \E s \in Orders(S) : s[i] = r
    BY <1>1, OrdersExist
  <1> HIDE DEF S, n
  <1>6. CASE \E r \in S : Inside(r, mv)
    <2>1. \A s \in Orders(S) : Loop(s, mv) = Success(mv)
      BY <1>2, <1>3, <1>6, LoopResult
    <2>2. Orders(S) # {}
      <3>1. 1 \in 1..n
        BY <1>2
      <3> QED
        BY <1>5, <1>6, <3>1
    <2>3. GetSuccessRoadMoveSimple(q, mv) = {Success(mv)}
      BY <1>6 DEF GetSuccessRoadMoveSimple, S
    <2>4. {Loop(s, mv) : s \in Orders(S)} = {Success(mv)}
      BY <2>1, <2>2
    <2> QED
      BY <2>3, <2>4 DEF S
  <1>7. CASE ~\E r \in S : Inside(r, mv)
    <2>1. GetSuccessRoadMoveSimple(q, mv) =
             {Failure(Clip(r, mv)) : r \in IF Last = {} THEN S ELSE Last}
      BY <1>7 DEF GetSuccessRoadMoveSimple, S
    <2>2. ASSUME NEW s \in Orders(S)
          PROVE  \E k \in 1..n : /\ Loop(s, mv) = Failure(Clip(s[k], mv))
                                 /\ k = 1 \/ Overwrites(s[k], mv)
                                 /\ \A j \in k+1..n : ~Overwrites(s[j], mv)
      <3>1. \A i \in 1..n : ~Inside(s[i], mv)
        BY <1>4, <1>7
      <3> QED
        BY <1>2, <1>3, <3>1, LoopResult
    <2>3. ASSUME NEW s \in Orders(S)
          PROVE  Loop(s, mv) \in {Failure(Clip(r, mv)) : r \in IF Last = {} THEN S ELSE Last}
      <3>1. PICK k \in 1..n : /\ Loop(s, mv) = Failure(Clip(s[k], mv))
                              /\ k = 1 \/ Overwrites(s[k], mv)
                              /\ \A j \in k+1..n : ~Overwrites(s[j], mv)
        BY <2>2
      <3>2. s[k] \in S
        BY <1>4
      <3>3. CASE Overwrites(s[k], mv)
        BY <3>1, <3>2, <3>3
      <3>4. CASE ~Overwrites(s[k], mv)
        <4>1. ASSUME NEW r \in S PROVE ~Overwrites(r, mv)
          <5>1. PICK i \in 1..n : s[i] = r
            BY <1>3
          <5>2. i = 1 \/ i \in 2..n
            BY <1>2
          <5> QED
            BY <3>1, <3>4, <5>1, <5>2
        <4> QED
          BY <3>1, <3>2, <4>1
      <3> QED
        BY <3>3, <3>4
    <2>4. ASSUME NEW r \in IF Last = {} THEN S ELSE Last
          PROVE  \E s \in Orders(S) : Loop(s, mv) = Failure(Clip(r, mv))
      <3>1. CASE Last = {}
        <4>1. 1 \in 1..n /\ r \in S
          BY <1>2, <3>1
        <4>2. PICK s \in Orders(S) : s[1] = r
          BY <1>5, <4>1
        <4>3. PICK k \in 1..n : /\ Loop(s, mv) = Failure(Clip(s[k], mv))
                                /\ k = 1 \/ Overwrites(s[k], mv)
          BY <2>2
        <4>4. k = 1
          BY <1>4, <3>1, <4>3
        <4> QED
          BY <4>2, <4>3, <4>4
      <3>2. CASE Last # {}
        <4>1. n \in 1..n /\ r \in S /\ Overwrites(r, mv)
          BY <1>2, <3>2
        <4>2. PICK s \in Orders(S) : s[n] = r
          BY <1>5, <4>1
        <4>3. PICK k \in 1..n : /\ Loop(s, mv) = Failure(Clip(s[k], mv))
                                /\ \A j \in k+1..n : ~Overwrites(s[j], mv)
          BY <2>2
        <4>4. k = n
          BY <1>2, <4>1, <4>2, <4>3
        <4> QED
          BY <4>2, <4>3, <4>4
      <3> QED
        BY <3>1, <3>2
    <2>5. {Loop(s, mv) : s \in Orders(S)} =
             {Failure(Clip(r, mv)) : r \in IF Last = {} THEN S ELSE Last}
      <3> HIDE DEF Last
      <3> QED
        BY <2>3, <2>4
    <2> QED
      BY <2>1, <2>5 DEF S
  <1> QED
    BY <1>6, <1>7

\* Whatever roads there are and however many hold the dog, the results of a move are
\* those of the loop.
THEOREM LoopAlways == Spec => []ResultsOfLoop
  <1>1. RoadInv => ResultsOfLoop
    <2> SUFFICES ASSUME RoadInv, NEW n \in Steps, NEW dir \in Directions
                 PROVE  GetSuccessRoadMoveSimple(pos, MovePoint(pos, dir, n))
                          = {Loop(s, MovePoint(pos, dir, n)) : s \in Orders(RoadsAt(pos))}
      BY DEF ResultsOfLoop
    <2> QED
      BY LoopResults DEF RoadInv, OnRoad
  <1> QED
    BY <1>1, RoadAlways, PTL

-----------------------------------------------------------------------------
(* The tiles that the page draws.                                          *)

\* A finite set of integers has a least and a greatest element.
LEMMA Bounds ==
    ASSUME NEW S \in SUBSET Int, S # {}, IsFiniteSet(S)
    PROVE  /\ Least(S) \in S /\ \A m \in S : Least(S) <= m
           /\ Greatest(S) \in S /\ \A m \in S : m <= Greatest(S)
  <1>1. \E n \in S : \A m \in S : n <= m
    <2> DEFINE T == {{m \in S : m <= n} : n \in S}
    <2>1. T \subseteq FiniteSubsetsOf(S) /\ T # {}
      <3>1. ASSUME NEW n \in S PROVE {m \in S : m <= n} \in SUBSET S /\ IsFiniteSet({m \in S : m <= n})
        BY FS_Subset
      <3> QED
        BY <3>1 DEF FiniteSubsetsOf
    <2>2. PICK x \in T : \A y \in T : ~ (<<y, x>> \in StrictSubsetOrdering(S))
      <3> HIDE DEF T
      <3> QED
        BY <2>1, FS_StrictSubsetOrderingWellFounded, WFMin
    <2>3. PICK n \in S : x = {m \in S : m <= n}
      OBVIOUS
    <2>4. ASSUME NEW k \in S, k < n PROVE FALSE
      <3>1. /\ {m \in S : m <= k} \subseteq x /\ {m \in S : m <= k} # x
            /\ x \in SUBSET S /\ {m \in S : m <= k} \in SUBSET S
        <4>1. k \in Int /\ n \in Int /\ \A m \in S : m \in Int
          OBVIOUS
        <4>2. \A m \in S : m <= k => m <= n
          BY <2>4, <4>1
        <4>3. n \in x /\ n \notin {m \in S : m <= k}
          BY <2>3, <2>4, <4>1
        <4> QED
          BY <2>3, <4>2, <4>3
      <3>2. <<{m \in S : m <= k}, x>> \in StrictSubsetOrdering(S)
        BY <3>1 DEF StrictSubsetOrdering
      <3> QED
        BY <2>2, <3>2
    <2> QED
      BY <2>4
  <1>2. \E n \in S : \A m \in S : n >= m
    <2> DEFINE T == {{m \in S : m >= n} : n \in S}
    <2>1. T \subseteq FiniteSubsetsOf(S) /\ T # {}
      <3>1. ASSUME NEW n \in S PROVE {m \in S : m >= n} \in SUBSET S /\ IsFiniteSet({m \in S : m >= n})
        BY FS_Subset
      <3> QED
        BY <3>1 DEF FiniteSubsetsOf
    <2>2. PICK x \in T : \A y \in T : ~ (<<y, x>> \in StrictSubsetOrdering(S))
      <3> HIDE DEF T
      <3> QED
        BY <2>1, FS_StrictSubsetOrderingWellFounded, WFMin
    <2>3. PICK n \in S : x = {m \in S : m >= n}
      OBVIOUS
    <2>4. ASSUME NEW k \in S, k > n PROVE FALSE
      <3>1. /\ {m \in S : m >= k} \subseteq x /\ {m \in S : m >= k} # x
            /\ x \in SUBSET S /\ {m \in S : m >= k} \in SUBSET S
        <4>1. k \in Int /\ n \in Int /\ \A m \in S : m \in Int
          OBVIOUS
        <4>2. \A m \in S : m >= k => m >= n
          BY <2>4, <4>1
        <4>3. n \in x /\ n \notin {m \in S : m >= k}
          BY <2>3, <2>4, <4>1
        <4> QED
          BY <2>3, <4>2, <4>3
      <3>2. <<{m \in S : m >= k}, x>> \in StrictSubsetOrdering(S)
        BY <3>1 DEF StrictSubsetOrdering
      <3> QED
        BY <2>2, <3>2
    <2> QED
      BY <2>4
  <1>3. Least(S) \in S /\ \A m \in S : Least(S) <= m
    BY <1>1 DEF Least
  <1>4. Greatest(S) \in S /\ \A m \in S : Greatest(S) >= m
    BY <1>2 DEF Greatest
  <1> QED
    BY <1>3, <1>4

\* What two numbers of each element make up, is finite if the elements are.
LEMMA PairsFinite ==
    ASSUME NEW S, IsFiniteSet(S), NEW a \in [S -> Int], NEW b \in [S -> Int]
    PROVE  LET pairs == UNION {{a[s], b[s]} : s \in S}
           IN pairs \in SUBSET Int /\ IsFiniteSet(pairs)
  <1> DEFINE P == {{a[s], b[s]} : s \in S}
             f == [s \in S |-> {a[s], b[s]}]
  <1>1. f \in Surjection(S, P)
    BY DEF Surjection
  <1>2. IsFiniteSet(P)
    BY <1>1, FS_Surjection
  <1>3. ASSUME NEW T \in P PROVE IsFiniteSet(T) /\ T \subseteq Int
    <2>1. PICK s \in S : T = {a[s]} \cup {b[s]}
      OBVIOUS
    <2>2. T \subseteq Int
      BY <2>1
    <2>3. IsFiniteSet({a[s]}) /\ IsFiniteSet({b[s]})
      BY FS_Singleton
    <2>4. IsFiniteSet({a[s]} \cup {b[s]})
      BY <2>3, FS_Union
    <2> QED
      BY <2>1, <2>2, <2>4
  <1> HIDE DEF P
  <1>4. IsFiniteSet(UNION P)
    BY <1>2, <1>3, FS_UNION
  <1>5. UNION P \in SUBSET Int
    BY <1>3
  <1> QED
    BY <1>4, <1>5 DEF P

LEMMA Quotient ==
    ASSUME NEW n \in Int, NEW d \in Nat \ {0}
    PROVE  /\ n \div d \in Int /\ d * (n \div d) <= n /\ n < d * (n \div d) + d
           /\ n % d = 0 => n = d * (n \div d)
  BY SMT

\* Multiples keep the order.
LEMMA Multiples ==
    ASSUME NEW a \in Int, NEW b \in Int, Unit * a < Unit * b + Unit
    PROVE  a <= b
  BY SizesAssumption, SMT

LEMMA MultiplesOrdered ==
    ASSUME NEW a \in Int, NEW b \in Int
    PROVE  /\ Unit * a \in Int
           /\ a <= b => Unit * a <= Unit * b
           /\ Unit * (a + 1) = Unit * a + Unit
           /\ Unit * (a - 1) = Unit * a - Unit
  BY SizesAssumption, SMT

\* The road in units of the map file.
LEMMA UnitsOfRoad ==
    ASSUME NEW r \in Roads
    PROVE  LET q == InUnits(r)
           IN /\ q \in Road /\ q \in MapRoads
              /\ r.x0 = Unit * q.x0 /\ r.x1 = Unit * q.x1
              /\ r.y0 = Unit * q.y0 /\ r.y1 = Unit * q.y1
              /\ IsHorizontal(q) <=> IsHorizontal(r)
              /\ IsVertical(q) <=> IsVertical(r)
              /\ Lo(r.x0, r.x1) = Unit * Lo(q.x0, q.x1) /\ Hi(r.x0, r.x1) = Unit * Hi(q.x0, q.x1)
              /\ Lo(r.y0, r.y1) = Unit * Lo(q.y0, q.y1) /\ Hi(r.y0, r.y1) = Unit * Hi(q.y0, q.y1)
  <1> DEFINE q == InUnits(r)
  <1>1. r.x0 \in Int /\ r.y0 \in Int /\ r.x1 \in Int /\ r.y1 \in Int
    BY RoadsAssumption DEF Road
  <1>2. /\ q.x0 = r.x0 \div Unit /\ q.x1 = r.x1 \div Unit
        /\ q.y0 = r.y0 \div Unit /\ q.y1 = r.y1 \div Unit
    BY DEF InUnits
  <1>3. /\ q.x0 \in Int /\ q.x1 \in Int /\ q.y0 \in Int /\ q.y1 \in Int
        /\ r.x0 = Unit * q.x0 /\ r.x1 = Unit * q.x1
        /\ r.y0 = Unit * q.y0 /\ r.y1 = Unit * q.y1
    BY <1>1, <1>2, Quotient, OnGrid, SizesAssumption
  <1>4. q \in Road /\ q \in MapRoads
    BY <1>1, <1>2, <1>3 DEF InUnits, Road, MapRoads
  <1>5. IsHorizontal(q) <=> IsHorizontal(r)
    BY <1>1, <1>2, <1>3 DEF IsHorizontal
  <1>6. IsVertical(q) <=> IsVertical(r)
    BY <1>1, <1>2, <1>3 DEF IsVertical
  <1> HIDE DEF q
  <1>7. ASSUME NEW a \in Int, NEW b \in Int
        PROVE  /\ Lo(Unit * a, Unit * b) = Unit * Lo(a, b)
               /\ Hi(Unit * a, Unit * b) = Unit * Hi(a, b)
    <2>1. CASE a <= b
      BY <2>1, MultiplesOrdered DEF Lo, Hi
    <2>2. CASE ~(a <= b)
      <3>1. b <= a /\ ~(Unit * a <= Unit * b)
        BY <2>2, SizesAssumption, SMT
      <3> QED
        BY <2>2, <3>1 DEF Lo, Hi
    <2> QED
      BY <2>1, <2>2
  <1> QED
    BY <1>3, <1>4, <1>5, <1>6, <1>7 DEF q

\* The tile a dog is on.
LEMMA CellOf ==
    ASSUME NEW p \in Point
    PROVE  LET c == ActorCell(p)
           IN /\ c \in Point
              /\ 2 * (Unit * c.x) <= 2 * p.x + Unit /\ 2 * p.x + Unit < 2 * (Unit * c.x) + 2 * Unit
              /\ 2 * (Unit * c.y) <= 2 * p.y + Unit /\ 2 * p.y + Unit < 2 * (Unit * c.y) + 2 * Unit
  <1>1. p.x \in Int /\ p.y \in Int
    BY DEF Point
  <1>2. ASSUME NEW a \in Int
        PROVE  LET c == (2 * a + Unit) \div (2 * Unit)
               IN /\ c \in Int
                  /\ 2 * (Unit * c) <= 2 * a + Unit /\ 2 * a + Unit < 2 * (Unit * c) + 2 * Unit
    BY SizesAssumption, SMT
  <1> QED
    BY <1>1, <1>2 DEF ActorCell, Point

\* Only one tile is that near.
LEMMA CellIs ==
    ASSUME NEW p \in Point, NEW c \in Point,
           2 * (Unit * c.x) <= 2 * p.x + Unit, 2 * p.x + Unit < 2 * (Unit * c.x) + 2 * Unit,
           2 * (Unit * c.y) <= 2 * p.y + Unit, 2 * p.y + Unit < 2 * (Unit * c.y) + 2 * Unit
    PROVE  ActorCell(p) = c
  <1> DEFINE d == ActorCell(p)
  <1>1. /\ d \in Point
        /\ 2 * (Unit * d.x) <= 2 * p.x + Unit /\ 2 * p.x + Unit < 2 * (Unit * d.x) + 2 * Unit
        /\ 2 * (Unit * d.y) <= 2 * p.y + Unit /\ 2 * p.y + Unit < 2 * (Unit * d.y) + 2 * Unit
    BY CellOf
  <1> HIDE DEF d
  <1>2. /\ c.x \in Int /\ c.y \in Int /\ d.x \in Int /\ d.y \in Int /\ p.x \in Int /\ p.y \in Int
        /\ Unit * c.x \in Int /\ Unit * c.y \in Int /\ Unit * d.x \in Int /\ Unit * d.y \in Int
        /\ Unit \in Int
    BY <1>1, SizesAssumption, MultiplesOrdered DEF Point
  <1>3. /\ Unit * c.x < Unit * d.x + Unit /\ Unit * d.x < Unit * c.x + Unit
        /\ Unit * c.y < Unit * d.y + Unit /\ Unit * d.y < Unit * c.y + Unit
    BY <1>1, <1>2
  <1>4. c.x <= d.x /\ d.x <= c.x /\ c.y <= d.y /\ d.y <= c.y
    BY <1>2, <1>3, Multiples
  <1>5. \A a, b \in Int : a <= b /\ b <= a => a = b
    OBVIOUS
  <1>6. c.x = d.x /\ c.y = d.y
    BY <1>2, <1>4, <1>5
  <1> QED
    BY <1>1, <1>6 DEF Point, d

\* A dog on a road is on a tile of its axis.
LEMMA OnTheAxis ==
    ASSUME NEW r \in Roads, NEW p \in Point, Inside(r, p)
    PROVE  OnAxis(InUnits(r), ActorCell(p))
  <1> DEFINE q == InUnits(r)
             c == ActorCell(p)
             x0 == Lo(q.x0, q.x1)
             x1 == Hi(q.x0, q.x1)
             y0 == Lo(q.y0, q.y1)
             y1 == Hi(q.y0, q.y1)
  <1>1. /\ c \in Point
        /\ 2 * (Unit * c.x) <= 2 * p.x + Unit /\ 2 * p.x + Unit < 2 * (Unit * c.x) + 2 * Unit
        /\ 2 * (Unit * c.y) <= 2 * p.y + Unit /\ 2 * p.y + Unit < 2 * (Unit * c.y) + 2 * Unit
    BY CellOf
  <1>2. /\ q \in Road
        /\ Lo(r.x0, r.x1) = Unit * x0 /\ Hi(r.x0, r.x1) = Unit * x1
        /\ Lo(r.y0, r.y1) = Unit * y0 /\ Hi(r.y0, r.y1) = Unit * y1
    BY UnitsOfRoad
  <1>3. x0 \in Int /\ x1 \in Int /\ y0 \in Int /\ y1 \in Int
    BY <1>2 DEF Road, Lo, Hi
  <1>4. /\ Unit * x0 - HalfWidth <= p.x /\ p.x <= Unit * x1 + HalfWidth
        /\ Unit * y0 - HalfWidth <= p.y /\ p.y <= Unit * y1 + HalfWidth
    BY <1>2 DEF Inside, Box
  <1>5. c.x \in Int /\ c.y \in Int /\ p.x \in Int /\ p.y \in Int
    BY <1>1 DEF Point
  <1> HIDE DEF q, c, x0, x1, y0, y1
  <1>6. /\ Unit * c.x \in Int /\ Unit * c.y \in Int /\ Unit * x0 \in Int /\ Unit * x1 \in Int
        /\ Unit * y0 \in Int /\ Unit * y1 \in Int /\ Unit \in Int /\ HalfWidth \in Int
    BY <1>3, <1>5, SizesAssumption, MultiplesOrdered
  <1>7. /\ Unit * x0 < Unit * c.x + Unit /\ Unit * c.x < Unit * x1 + Unit
        /\ Unit * y0 < Unit * c.y + Unit /\ Unit * c.y < Unit * y1 + Unit
    BY <1>1, <1>4, <1>5, <1>6, NarrowRoads
  <1>8. x0 <= c.x /\ c.x <= x1 /\ y0 <= c.y /\ c.y <= y1
    BY <1>3, <1>5, <1>7, Multiples
  <1> QED
    BY <1>8 DEF OnAxis, q, c, x0, x1, y0, y1

\* The tiles are those of all roads.
LEMMA Extent ==
    /\ xmin \in Int /\ xmax \in Int /\ ymin \in Int /\ ymax \in Int
    /\ \A q \in MapRoads : /\ q \in Road
                           /\ xmin <= Lo(q.x0, q.x1) /\ Hi(q.x0, q.x1) <= xmax
                           /\ ymin <= Lo(q.y0, q.y1) /\ Hi(q.y0, q.y1) <= ymax
  <1>1. /\ IsFiniteSet(MapRoads) /\ MapRoads # {}
        /\ \A q \in MapRoads : q \in Road
    <2>1. [r \in Roads |-> InUnits(r)] \in Surjection(Roads, MapRoads)
      BY DEF Surjection, MapRoads
    <2>2. IsFiniteSet(MapRoads)
      BY <2>1, RoadsAssumption, FS_Surjection
    <2> QED
      BY <2>2, UnitsOfRoad, RoadsAssumption DEF MapRoads
  <1>2. \A q \in MapRoads : q.x0 \in Int /\ q.x1 \in Int /\ q.y0 \in Int /\ q.y1 \in Int
    BY <1>1 DEF Road
  <1>3. ASSUME NEW b \in Buildings
        PROVE  b.x \in Int /\ b.x + b.w \in Int /\ b.y \in Int /\ b.y + b.h \in Int
    BY BuildingsAssumption
  <1>4. xs \in SUBSET Int /\ IsFiniteSet(xs)
    <2> DEFINE R == UNION {{q.x0, q.x1} : q \in MapRoads}
               B == UNION {{b.x, b.x + b.w} : b \in Buildings}
    <2>1. R \in SUBSET Int /\ IsFiniteSet(R)
      <3> DEFINE f == [q \in MapRoads |-> q.x0]
                 g == [q \in MapRoads |-> q.x1]
      <3>1. f \in [MapRoads -> Int] /\ g \in [MapRoads -> Int]
        BY <1>2
      <3>2. R = UNION {{f[q], g[q]} : q \in MapRoads}
        OBVIOUS
      <3> HIDE DEF f, g, R, B
      <3> QED
        BY <1>1, <3>1, <3>2, PairsFinite
    <2>2. B \in SUBSET Int /\ IsFiniteSet(B)
      <3> DEFINE f == [b \in Buildings |-> b.x]
                 g == [b \in Buildings |-> b.x + b.w]
      <3>1. f \in [Buildings -> Int] /\ g \in [Buildings -> Int]
        BY <1>3
      <3>2. B = UNION {{f[b], g[b]} : b \in Buildings}
        OBVIOUS
      <3> HIDE DEF f, g, R, B
      <3> QED
        BY BuildingsAssumption, <3>1, <3>2, PairsFinite
    <2>3. xs = R \cup B
      BY DEF xs
    <2> HIDE DEF R, B
    <2> QED
      BY <2>1, <2>2, <2>3, FS_Union
  <1>5. ys \in SUBSET Int /\ IsFiniteSet(ys)
    <2> DEFINE R == UNION {{q.y0, q.y1} : q \in MapRoads}
               B == UNION {{b.y, b.y + b.h} : b \in Buildings}
    <2>1. R \in SUBSET Int /\ IsFiniteSet(R)
      <3> DEFINE f == [q \in MapRoads |-> q.y0]
                 g == [q \in MapRoads |-> q.y1]
      <3>1. f \in [MapRoads -> Int] /\ g \in [MapRoads -> Int]
        BY <1>2
      <3>2. R = UNION {{f[q], g[q]} : q \in MapRoads}
        OBVIOUS
      <3> HIDE DEF f, g, R, B
      <3> QED
        BY <1>1, <3>1, <3>2, PairsFinite
    <2>2. B \in SUBSET Int /\ IsFiniteSet(B)
      <3> DEFINE f == [b \in Buildings |-> b.y]
                 g == [b \in Buildings |-> b.y + b.h]
      <3>1. f \in [Buildings -> Int] /\ g \in [Buildings -> Int]
        BY <1>3
      <3>2. B = UNION {{f[b], g[b]} : b \in Buildings}
        OBVIOUS
      <3> HIDE DEF f, g, R, B
      <3> QED
        BY BuildingsAssumption, <3>1, <3>2, PairsFinite
    <2>3. ys = R \cup B
      BY DEF ys
    <2> HIDE DEF R, B
    <2> QED
      BY <2>1, <2>2, <2>3, FS_Union
  <1>6. \A q \in MapRoads : {q.x0, q.x1} \subseteq xs /\ {q.y0, q.y1} \subseteq ys
    BY DEF xs, ys
  <1>7. xs # {} /\ ys # {}
    BY <1>1, <1>6
  <1>8. /\ xmin \in xs /\ xmax \in xs /\ \A m \in xs : xmin <= m /\ m <= xmax
        /\ ymin \in ys /\ ymax \in ys /\ \A m \in ys : ymin <= m /\ m <= ymax
    BY <1>4, <1>5, <1>7, Bounds DEF xmin, xmax, ymin, ymax
  <1> QED
    BY <1>1, <1>4, <1>5, <1>6, <1>8 DEF Lo, Hi

\* A tile of the axis of a road is drawn.
LEMMA TileThere ==
    ASSUME NEW c \in Point, NEW q \in MapRoads, OnAxis(q, c)
    PROVE  TileAt(c) = Tile(c) /\ Drawn(c)
  <1>1. c.x \in Int /\ c.y \in Int /\ c = [x |-> c.x, y |-> c.y]
    BY DEF Point
  <1>2. /\ xmin \in Int /\ xmax \in Int /\ ymin \in Int /\ ymax \in Int
        /\ q \in Road
        /\ xmin <= Lo(q.x0, q.x1) /\ Hi(q.x0, q.x1) <= xmax
        /\ ymin <= Lo(q.y0, q.y1) /\ Hi(q.y0, q.y1) <= ymax
    BY Extent
  <1>3. /\ Lo(q.x0, q.x1) \in Int /\ Hi(q.x0, q.x1) \in Int
        /\ Lo(q.y0, q.y1) \in Int /\ Hi(q.y0, q.y1) \in Int
    BY <1>2 DEF Road, Lo, Hi
  <1>4. c.x \in xmin..xmax /\ c.y \in ymin..ymax
    BY <1>1, <1>2, <1>3 DEF OnAxis
  <1>5. c.x - xmin \in 0..(xmax - xmin) /\ c.y - ymin \in 0..(ymax - ymin)
    BY <1>1, <1>2, <1>4
  <1>6. (c.x - xmin) + xmin = c.x /\ (c.y - ymin) + ymin = c.y
    BY <1>1, <1>2
  <1>7. TileAt(c) = Tile([x |-> (c.x - xmin) + xmin, y |-> (c.y - ymin) + ymin])
    BY <1>5 DEF TileAt, map_tiles
  <1>8. TileAt(c) = Tile(c)
    BY <1>1, <1>6, <1>7
  <1>9. Tile(c).road
    BY DEF Tile
  <1> QED
    BY <1>4, <1>8, <1>9 DEF Drawn

\* Where a unit's way leads in the four directions.
LEMMA OneUnit ==
    ASSUME NEW p \in Point, NEW n \in Nat
    PROVE  /\ MovePoint(p, "L", n) = [x |-> p.x - n, y |-> p.y]
           /\ MovePoint(p, "R", n) = [x |-> p.x + n, y |-> p.y]
           /\ MovePoint(p, "U", n) = [x |-> p.x, y |-> p.y - n]
           /\ MovePoint(p, "D", n) = [x |-> p.x, y |-> p.y + n]
           /\ \A dir \in {"L", "R", "U", "D"} : MovePoint(p, dir, n) \in Point
  BY DEF MovePoint, Point

\* A way of one unit leads to the next tile.
LEMMA NextTile ==
    ASSUME NEW p \in Point, NEW dir \in {"L", "R", "U", "D"}
    PROVE  /\ MovePoint(p, dir, Unit) \in Point
           /\ ActorCell(MovePoint(p, dir, Unit)) = Neighbour(ActorCell(p), dir)
           /\ Neighbour(ActorCell(p), dir) \in Point
  <1> DEFINE c == ActorCell(p)
             d == Neighbour(c, dir)
             q == MovePoint(p, dir, Unit)
  <1>1. /\ c \in Point
        /\ 2 * (Unit * c.x) <= 2 * p.x + Unit /\ 2 * p.x + Unit < 2 * (Unit * c.x) + 2 * Unit
        /\ 2 * (Unit * c.y) <= 2 * p.y + Unit /\ 2 * p.y + Unit < 2 * (Unit * c.y) + 2 * Unit
    BY CellOf
  <1>2. Unit \in Nat /\ 1 \in Nat
    BY SizesAssumption
  <1>3. /\ p.x \in Int /\ p.y \in Int /\ c.x \in Int /\ c.y \in Int
    BY <1>1 DEF Point
  <1> HIDE DEF c
  <1>4. q \in Point /\ d \in Point
    BY <1>1, <1>2, OneUnit DEF Neighbour
  <1>5. /\ 2 * (Unit * d.x) <= 2 * q.x + Unit /\ 2 * q.x + Unit < 2 * (Unit * d.x) + 2 * Unit
        /\ 2 * (Unit * d.y) <= 2 * q.y + Unit /\ 2 * q.y + Unit < 2 * (Unit * d.y) + 2 * Unit
    <2>1. /\ Unit * (c.x + 1) = Unit * c.x + Unit /\ Unit * (c.x - 1) = Unit * c.x - Unit
          /\ Unit * (c.y + 1) = Unit * c.y + Unit /\ Unit * (c.y - 1) = Unit * c.y - Unit
          /\ Unit * c.x \in Int /\ Unit * c.y \in Int
      BY <1>3, MultiplesOrdered
    <2>2. CASE dir = "L"
      <3>0. q = [x |-> p.x - Unit, y |-> p.y] /\ d = [x |-> c.x - 1, y |-> c.y]
        BY <1>1, <1>2, <2>2, OneUnit DEF Neighbour
      <3>1. q.x = p.x - Unit /\ q.y = p.y /\ d.x = c.x - 1 /\ d.y = c.y
        BY <3>0
      <3> HIDE DEF q, d
      <3> QED
        BY <1>1, <1>2, <1>3, <2>1, <3>1
    <2>3. CASE dir = "R"
      <3>0. q = [x |-> p.x + Unit, y |-> p.y] /\ d = [x |-> c.x + 1, y |-> c.y]
        BY <1>1, <1>2, <2>3, OneUnit DEF Neighbour
      <3>1. q.x = p.x + Unit /\ q.y = p.y /\ d.x = c.x + 1 /\ d.y = c.y
        BY <3>0
      <3> HIDE DEF q, d
      <3> QED
        BY <1>1, <1>2, <1>3, <2>1, <3>1
    <2>4. CASE dir = "U"
      <3>0. q = [x |-> p.x, y |-> p.y - Unit] /\ d = [x |-> c.x, y |-> c.y - 1]
        BY <1>1, <1>2, <2>4, OneUnit DEF Neighbour
      <3>1. q.x = p.x /\ q.y = p.y - Unit /\ d.x = c.x /\ d.y = c.y - 1
        BY <3>0
      <3> HIDE DEF q, d
      <3> QED
        BY <1>1, <1>2, <1>3, <2>1, <3>1
    <2>5. CASE dir = "D"
      <3>0. q = [x |-> p.x, y |-> p.y + Unit] /\ d = [x |-> c.x, y |-> c.y + 1]
        BY <1>1, <1>2, <2>5, OneUnit DEF Neighbour
      <3>1. q.x = p.x /\ q.y = p.y + Unit /\ d.x = c.x /\ d.y = c.y + 1
        BY <3>0
      <3> HIDE DEF q, d
      <3> QED
        BY <1>1, <1>2, <1>3, <2>1, <3>1
    <2> QED
      BY <2>2, <2>3, <2>4, <2>5
  <1> HIDE DEF q, d
  <1>6. ActorCell(q) = d
    BY <1>4, <1>5, CellIs
  <1> QED
    BY <1>4, <1>6 DEF q, d, c

\* A road that takes a dog a unit further, leads on from the dog's tile.
LEMMA TakesOn ==
    ASSUME NEW r \in Roads, NEW p \in Point, NEW dir \in {"L", "R", "U", "D"},
           PathInside(r, p, MovePoint(p, dir, Unit))
    PROVE  /\ OnAxis(InUnits(r), ActorCell(p))
           /\ OnAxis(InUnits(r), Neighbour(ActorCell(p), dir))
           /\ LeadsOn(InUnits(r), ActorCell(p), Side[dir])
  <1> DEFINE q == InUnits(r)
             c == ActorCell(p)
             m == MovePoint(p, dir, Unit)
  <1>1. Inside(r, p) /\ Inside(r, m) /\ m \in Point /\ ActorCell(m) = Neighbour(c, dir) /\ c \in Point
    BY NextTile, CellOf DEF PathInside
  <1>2. OnAxis(q, c) /\ OnAxis(q, Neighbour(c, dir))
    BY <1>1, OnTheAxis
  <1>3. /\ q \in Road /\ r \in Road /\ Unit \in Nat \ {0} /\ HalfWidth \in Nat
        /\ IsHorizontal(q) <=> IsHorizontal(r)
        /\ IsVertical(q) <=> IsVertical(r)
        /\ IsHorizontal(r) \/ IsVertical(r)
    BY UnitsOfRoad, RoadsAssumption, SizesAssumption
  <1>4. p.x \in Int /\ p.y \in Int /\ c.x \in Int /\ c.y \in Int
    BY <1>1 DEF Point
  <1> HIDE DEF q, c
  <1>5. /\ Lo(q.x0, q.x1) \in Int /\ Hi(q.x0, q.x1) \in Int
        /\ Lo(q.y0, q.y1) \in Int /\ Hi(q.y0, q.y1) \in Int
    BY <1>3 DEF Road, Lo, Hi
  <1>6. r.x0 \in Int /\ r.y0 \in Int /\ r.x1 \in Int /\ r.y1 \in Int
    BY <1>3 DEF Road
  <1>7. CASE dir = "L"
    <2>1. m = [x |-> p.x - Unit, y |-> p.y] /\ Neighbour(c, dir) = [x |-> c.x - 1, y |-> c.y]
      BY <1>1, <1>3, <1>7, OneUnit DEF Neighbour
    <2>2. ~IsVertical(r)
      BY <1>1, <1>3, <1>4, <1>6, <2>1, NarrowRoads DEF IsVertical, Inside, Box, Lo, Hi
    <2>3. c.x # Lo(q.x0, q.x1)
      BY <1>2, <1>4, <1>5, <2>1 DEF OnAxis
    <2> QED
      BY <1>2, <1>3, <1>7, <2>2, <2>3 DEF LeadsOn, Side, q, c
  <1>8. CASE dir = "R"
    <2>1. m = [x |-> p.x + Unit, y |-> p.y] /\ Neighbour(c, dir) = [x |-> c.x + 1, y |-> c.y]
      BY <1>1, <1>3, <1>8, OneUnit DEF Neighbour
    <2>2. ~IsVertical(r)
      BY <1>1, <1>3, <1>4, <1>6, <2>1, NarrowRoads DEF IsVertical, Inside, Box, Lo, Hi
    <2>3. c.x # Hi(q.x0, q.x1)
      BY <1>2, <1>4, <1>5, <2>1 DEF OnAxis
    <2> QED
      BY <1>2, <1>3, <1>8, <2>2, <2>3 DEF LeadsOn, Side, q, c
  <1>9. CASE dir = "U"
    <2>1. m = [x |-> p.x, y |-> p.y - Unit] /\ Neighbour(c, dir) = [x |-> c.x, y |-> c.y - 1]
      BY <1>1, <1>3, <1>9, OneUnit DEF Neighbour
    <2>2. ~IsHorizontal(r)
      BY <1>1, <1>3, <1>4, <1>6, <2>1, NarrowRoads DEF IsHorizontal, Inside, Box, Lo, Hi
    <2>3. c.y # Lo(q.y0, q.y1)
      BY <1>2, <1>4, <1>5, <2>1 DEF OnAxis
    <2> QED
      BY <1>2, <1>3, <1>9, <2>2, <2>3 DEF LeadsOn, Side, q, c
  <1>10. CASE dir = "D"
    <2>1. m = [x |-> p.x, y |-> p.y + Unit] /\ Neighbour(c, dir) = [x |-> c.x, y |-> c.y + 1]
      BY <1>1, <1>3, <1>10, OneUnit DEF Neighbour
    <2>2. ~IsHorizontal(r)
      BY <1>1, <1>3, <1>4, <1>6, <2>1, NarrowRoads DEF IsHorizontal, Inside, Box, Lo, Hi
    <2>3. c.y # Hi(q.y0, q.y1)
      BY <1>2, <1>4, <1>5, <2>1 DEF OnAxis
    <2> QED
      BY <1>2, <1>3, <1>10, <2>2, <2>3 DEF LeadsOn, Side, q, c
  <1> QED
    BY <1>7, <1>8, <1>9, <1>10

\* From the middle of a tile the roads that lead on take a dog a unit further.
LEMMA LeadsFurther ==
    ASSUME NEW r \in Roads, NEW p \in Point, NEW dir \in {"L", "R", "U", "D"}, AtCentre(p),
           OnAxis(InUnits(r), ActorCell(p)), LeadsOn(InUnits(r), ActorCell(p), Side[dir])
    PROVE  PathInside(r, p, MovePoint(p, dir, Unit))
  <1> DEFINE q == InUnits(r)
             c == ActorCell(p)
             m == MovePoint(p, dir, Unit)
             x0 == Lo(q.x0, q.x1)
             x1 == Hi(q.x0, q.x1)
             y0 == Lo(q.y0, q.y1)
             y1 == Hi(q.y0, q.y1)
  <1>1. c \in Point /\ q \in Road /\ Unit \in Nat \ {0} /\ HalfWidth \in Nat
    BY CellOf, UnitsOfRoad, SizesAssumption
  <1>2. /\ x0 \in Int /\ x1 \in Int /\ y0 \in Int /\ y1 \in Int
        /\ p.x \in Int /\ p.y \in Int /\ c.x \in Int /\ c.y \in Int
    BY <1>1 DEF Road, Point, Lo, Hi
  <1>3. /\ Box(r).left = Unit * x0 - HalfWidth /\ Box(r).right = Unit * x1 + HalfWidth
        /\ Box(r).upper = Unit * y0 - HalfWidth /\ Box(r).lower = Unit * y1 + HalfWidth
    BY UnitsOfRoad DEF Box
  <1>4. x0 <= c.x /\ c.x <= x1 /\ y0 <= c.y /\ c.y <= y1
    BY DEF OnAxis
  <1>5. /\ Unit * c.x - HalfWidth <= p.x /\ p.x <= Unit * c.x + HalfWidth
        /\ Unit * c.y - HalfWidth <= p.y /\ p.y <= Unit * c.y + HalfWidth
    <2>1. Unit * c.x \in Int /\ Unit * c.y \in Int
      BY <1>2, MultiplesOrdered
    <2>2. /\ p.x - Unit * c.x \in -HalfWidth..HalfWidth
          /\ p.y - Unit * c.y \in -HalfWidth..HalfWidth
      BY DEF AtCentre
    <2> QED
      BY <1>1, <1>2, <2>1, <2>2
  <1>6. /\ dir = "L" => c.x # x0
        /\ dir = "R" => c.x # x1
        /\ dir = "U" => c.y # y0
        /\ dir = "D" => c.y # y1
    <2>1. CASE dir = "L"
      BY <2>1 DEF LeadsOn, Side
    <2>2. CASE dir = "R"
      BY <2>2 DEF LeadsOn, Side
    <2>3. CASE dir = "U"
      BY <2>3 DEF LeadsOn, Side
    <2>4. CASE dir = "D"
      BY <2>4 DEF LeadsOn, Side
    <2> QED
      BY <2>1, <2>2, <2>3, <2>4
  <1>7. /\ dir = "L" => m = [x |-> p.x - Unit, y |-> p.y]
        /\ dir = "R" => m = [x |-> p.x + Unit, y |-> p.y]
        /\ dir = "U" => m = [x |-> p.x, y |-> p.y - Unit]
        /\ dir = "D" => m = [x |-> p.x, y |-> p.y + Unit]
    <2>0. Unit \in Nat
      BY <1>1
    <2>1. ASSUME dir = "L" PROVE m = [x |-> p.x - Unit, y |-> p.y]
      BY <2>0, <2>1, OneUnit
    <2>2. ASSUME dir = "R" PROVE m = [x |-> p.x + Unit, y |-> p.y]
      BY <2>0, <2>2, OneUnit
    <2>3. ASSUME dir = "U" PROVE m = [x |-> p.x, y |-> p.y - Unit]
      BY <2>0, <2>3, OneUnit
    <2>4. ASSUME dir = "D" PROVE m = [x |-> p.x, y |-> p.y + Unit]
      BY <2>0, <2>4, OneUnit
    <2> QED
      BY <2>1, <2>2, <2>3, <2>4
  <1> HIDE DEF q, c, m, x0, x1, y0, y1
  <1>8. /\ Unit * x0 <= Unit * c.x /\ Unit * c.x <= Unit * x1
        /\ Unit * y0 <= Unit * c.y /\ Unit * c.y <= Unit * y1
        /\ Unit * x0 \in Int /\ Unit * x1 \in Int /\ Unit * y0 \in Int /\ Unit * y1 \in Int
        /\ Unit * c.x \in Int /\ Unit * c.y \in Int
    BY <1>2, <1>4, MultiplesOrdered
  <1>9. ASSUME NEW a \in Int, NEW b \in Int, a <= b, a # b
        PROVE  Unit * a + Unit <= Unit * b
    <2>1. a + 1 \in Int /\ a + 1 <= b
      BY <1>9
    <2> QED
      BY <1>9, <2>1, MultiplesOrdered
  <1>10. /\ dir = "L" => Unit * x0 + Unit <= Unit * c.x
         /\ dir = "R" => Unit * c.x + Unit <= Unit * x1
         /\ dir = "U" => Unit * y0 + Unit <= Unit * c.y
         /\ dir = "D" => Unit * c.y + Unit <= Unit * y1
    BY <1>2, <1>4, <1>6, <1>9
  <1>11. Inside(r, p)
    BY <1>1, <1>2, <1>3, <1>5, <1>8 DEF Inside
  <1>12. Inside(r, m)
    <2>1. CASE dir = "L"
      BY <1>1, <1>2, <1>3, <1>5, <1>7, <1>8, <1>10, <2>1 DEF Inside
    <2>2. CASE dir = "R"
      BY <1>1, <1>2, <1>3, <1>5, <1>7, <1>8, <1>10, <2>2 DEF Inside
    <2>3. CASE dir = "U"
      BY <1>1, <1>2, <1>3, <1>5, <1>7, <1>8, <1>10, <2>3 DEF Inside
    <2>4. CASE dir = "D"
      BY <1>1, <1>2, <1>3, <1>5, <1>7, <1>8, <1>10, <2>4 DEF Inside
    <2> QED
      BY <2>1, <2>2, <2>3, <2>4
  <1> QED
    BY <1>11, <1>12 DEF PathInside, m

\* The squares of an edge: all along its side, or its last corner where the side is open.
LEMMA EdgeIs ==
    ASSUME NEW open \in BOOLEAN, NEW s \in [x : 0..9, y : 0..9]
    PROVE  /\ s \in Edge("l", open) <=> s.x = 0 /\ (IF open THEN s.y = 9 ELSE s.y \in 1..9)
           /\ s \in Edge("u", open) <=> s.y = 0 /\ (IF open THEN s.x = 0 ELSE s.x \in 0..8)
           /\ s \in Edge("r", open) <=> s.x = 9 /\ (IF open THEN s.y = 0 ELSE s.y \in 0..8)
           /\ s \in Edge("d", open) <=> s.y = 9 /\ (IF open THEN s.x = 9 ELSE s.x \in 1..9)
  <1>1. s.x \in 0..9 /\ s.y \in 0..9
    OBVIOUS
  <1>2. /\ short_pts["l"].x = 1 /\ short_pts["l"].y = 19 /\ long_pts["l"].x = 1 /\ long_pts["l"].y = 11
        /\ short_pts["u"].x = 1 /\ short_pts["u"].y = 1 /\ long_pts["u"].x = 9 /\ long_pts["u"].y = 1
        /\ short_pts["r"].x = 19 /\ short_pts["r"].y = 1 /\ long_pts["r"].x = 19 /\ long_pts["r"].y = 9
        /\ short_pts["d"].x = 19 /\ short_pts["d"].y = 19 /\ long_pts["d"].x = 11 /\ long_pts["d"].y = 19
    BY DEF short_pts, long_pts, Twentieths
  <1>3. s \in Edge("l", open) <=>
            LET at == IF open THEN short_pts["l"] ELSE long_pts["l"]
            IN Spans(at.x, 2, s.x) /\ Spans(at.y, Length(open), s.y)
    BY DEF Edge
  <1>4. s \in Edge("u", open) <=>
            LET at == IF open THEN short_pts["u"] ELSE long_pts["u"]
            IN Spans(at.x, Length(open), s.x) /\ Spans(at.y, 2, s.y)
    BY DEF Edge
  <1>5. s \in Edge("r", open) <=>
            LET at == IF open THEN short_pts["r"] ELSE long_pts["r"]
            IN Spans(at.x, 2, s.x) /\ Spans(at.y, Length(open), s.y)
    BY DEF Edge
  <1>6. s \in Edge("d", open) <=>
            LET at == IF open THEN short_pts["d"] ELSE long_pts["d"]
            IN Spans(at.x, Length(open), s.x) /\ Spans(at.y, 2, s.y)
    BY DEF Edge
  <1>7. \A k \in 0..9 : /\ Spans(1, 2, k) <=> k = 0
                        /\ Spans(19, 2, k) <=> k = 9
                        /\ Spans(11, 18, k) <=> k \in 1..9
                        /\ Spans(9, 18, k) <=> k \in 0..8
    BY DEF Spans
  <1>8. CASE open
    BY <1>1, <1>2, <1>3, <1>4, <1>5, <1>6, <1>7, <1>8 DEF Length
  <1>9. CASE ~open
    BY <1>1, <1>2, <1>3, <1>4, <1>5, <1>6, <1>7, <1>9 DEF Length
  <1> QED
    BY <1>8, <1>9

\* A side of a tile has an edge all along it or none.
LEMMA EdgesOfTile ==
    ASSUME NEW tile, NEW side \in {"l", "u", "r", "d"}
    PROVE  /\ side \in tile.open => makeRoadTile2(tile) \cap Along(side) = {}
           /\ side \notin tile.open => Along(side) \subseteq makeRoadTile2(tile)
  <1>1. ASSUME NEW s \in makeRoadTile2(tile), s \in Along(side)
        PROVE  side \notin tile.open
    <2>1. PICK edge \in {"l", "u", "r", "d"} : s \in Edge(edge, edge \in tile.open)
      BY DEF makeRoadTile2
    <2>2. s \in [x : 0..9, y : 0..9] /\ (edge \in tile.open) \in BOOLEAN /\ s.x \in 0..9 /\ s.y \in 0..9
      BY <1>1 DEF Along
    <2>3. /\ edge = "l" => s.x = 0 /\ (IF edge \in tile.open THEN s.y = 9 ELSE s.y \in 1..9)
          /\ edge = "u" => s.y = 0 /\ (IF edge \in tile.open THEN s.x = 0 ELSE s.x \in 0..8)
          /\ edge = "r" => s.x = 9 /\ (IF edge \in tile.open THEN s.y = 0 ELSE s.y \in 0..8)
          /\ edge = "d" => s.y = 9 /\ (IF edge \in tile.open THEN s.x = 9 ELSE s.x \in 1..9)
      BY <2>1, <2>2, EdgeIs
    <2>4. /\ side = "l" => s.x = 0 /\ s.y \in 1..8
          /\ side = "r" => s.x = 9 /\ s.y \in 1..8
          /\ side = "u" => s.y = 0 /\ s.x \in 1..8
          /\ side = "d" => s.y = 9 /\ s.x \in 1..8
      BY <1>1 DEF Along
    <2> QED
      BY <2>2, <2>3, <2>4
  <1>2. ASSUME side \notin tile.open, NEW s \in Along(side)
        PROVE  s \in makeRoadTile2(tile)
    <2>1. /\ s \in [x : 0..9, y : 0..9]
          /\ side = "l" => s.x = 0 /\ s.y \in 1..8
          /\ side = "r" => s.x = 9 /\ s.y \in 1..8
          /\ side = "u" => s.y = 0 /\ s.x \in 1..8
          /\ side = "d" => s.y = 9 /\ s.x \in 1..8
      BY DEF Along
    <2>2. \A open \in BOOLEAN : ~open => s \in Edge(side, open)
      <3> SUFFICES ASSUME NEW open \in BOOLEAN, ~open PROVE s \in Edge(side, open)
        OBVIOUS
      <3>1. /\ s \in Edge("l", open) <=> s.x = 0 /\ s.y \in 1..9
            /\ s \in Edge("u", open) <=> s.y = 0 /\ s.x \in 0..8
            /\ s \in Edge("r", open) <=> s.x = 9 /\ s.y \in 0..8
            /\ s \in Edge("d", open) <=> s.y = 9 /\ s.x \in 1..9
        BY <2>1, EdgeIs
      <3> QED
        BY <2>1, <3>1
    <2>3. s \in Edge(side, side \in tile.open)
      <3> DEFINE open == side \in tile.open
      <3>1. open \in BOOLEAN /\ ~open
        BY <1>2
      <3> HIDE DEF open
      <3>2. s \in Edge(side, open)
        BY <2>2, <3>1
      <3> QED
        BY <3>2 DEF open
    <2> QED
      BY <2>3 DEF makeRoadTile2
  <1> QED
    BY <1>1, <1>2

\* The sides of a tile that roads lead over.
LEMMA OpenSides ==
    ASSUME NEW c, NEW side \in {"l", "u", "r", "d"}
    PROVE  side \in Tile(c).open <=> \E r \in Roads : OnAxis(InUnits(r), c) /\ LeadsOn(InUnits(r), c, side)
  BY DEF Tile, MapRoads

\* What the page draws of the roads around a dog is what the server lets the dog do, for
\* every map whose roads lie on the grid of the map file and are narrower than its unit
\* (gameLoadMap, makeRoadEdge and Map::GetSuccessRoadMoveSimple).
THEOREM DrawnRight == Spec => []DrawnAsWalked
  <1>1. RoadInv => DrawnAsWalked
    <2> SUFFICES ASSUME RoadInv PROVE DrawnAsWalked
      OBVIOUS
    <2> DEFINE c == ActorCell(pos)
    <2>1. pos \in Point /\ c \in Point
      BY CellOf DEF RoadInv
    <2>2. PICK under \in Roads : Inside(under, pos)
      BY DEF RoadInv, OnRoad, RoadsAt
    <2>3. OnAxis(InUnits(under), c) /\ InUnits(under) \in MapRoads
      BY <2>1, <2>2, OnTheAxis, UnitsOfRoad
    <2>4. TileAt(c) = Tile(c) /\ Drawn(c)
      BY <2>1, <2>3, TileThere
    <2>5. ASSUME NEW dir \in {"L", "U", "R", "D"}
          PROVE  IF \E r \in Roads : PathInside(r, pos, MovePoint(pos, dir, Unit))
                 THEN /\ makeRoadTile2(Tile(c)) \cap Along(Side[dir]) = {}
                      /\ Drawn(Neighbour(c, dir))
                 ELSE AtCentre(pos) => Along(Side[dir]) \subseteq makeRoadTile2(Tile(c))
      <3>1. Side[dir] \in {"l", "u", "r", "d"}
        BY DEF Side
      <3>2. ASSUME NEW r \in Roads, PathInside(r, pos, MovePoint(pos, dir, Unit))
            PROVE  /\ makeRoadTile2(Tile(c)) \cap Along(Side[dir]) = {}
                   /\ Drawn(Neighbour(c, dir))
        <4>1. /\ OnAxis(InUnits(r), c) /\ OnAxis(InUnits(r), Neighbour(c, dir))
              /\ LeadsOn(InUnits(r), c, Side[dir])
          BY <2>1, <3>2, TakesOn
        <4>2. Side[dir] \in Tile(c).open
          BY <3>1, <4>1, OpenSides
        <4>3. makeRoadTile2(Tile(c)) \cap Along(Side[dir]) = {}
          BY <3>1, <4>2, EdgesOfTile
        <4>4. Neighbour(c, dir) \in Point /\ InUnits(r) \in MapRoads
          BY <2>1, NextTile, UnitsOfRoad
        <4> QED
          BY <4>1, <4>3, <4>4, TileThere
      <3>3. ASSUME AtCentre(pos), ~\E r \in Roads : PathInside(r, pos, MovePoint(pos, dir, Unit))
            PROVE  Along(Side[dir]) \subseteq makeRoadTile2(Tile(c))
        <4>1. Side[dir] \notin Tile(c).open
          BY <2>1, <3>1, <3>3, OpenSides, LeadsFurther
        <4> QED
          BY <3>1, <4>1, EdgesOfTile
      <3> QED
        BY <3>2, <3>3
    <2> QED
      BY <2>4, <2>5 DEF DrawnAsWalked
  <1> QED
    BY <1>1, RoadAlways, PTL

-----------------------------------------------------------------------------
(* What a dog gathers.                                                     *)

\* Products keep the order.
LEMMA Products ==
    ASSUME NEW a \in Int, NEW b \in Int, NEW d \in Nat \ {0}
    PROVE  a * d \in Int /\ (a <= b <=> a * d <= b * d)
  <1>1. a * d \in Int /\ b * d \in Int
    OBVIOUS
  <1>2. a <= b => a * d <= b * d
    BY SMT
  <1>3. b < a => b * d < a * d
    BY SMT
  <1> QED
    BY <1>1, <1>2, <1>3

LEMMA Squares ==
    ASSUME NEW b \in Int, NEW w \in Nat
    PROVE  b * b \in Int /\ w * w \in Int /\ (b * b <= w * w <=> -w <= b /\ b <= w)
  <1>1. CASE b >= 0
    <2>1. b <= w => b * b <= w * w
      BY <1>1, SMT
    <2>2. w < b => w * w < b * b
      BY <1>1, SMT
    <2> QED
      BY <1>1, <2>1, <2>2
  <1>2. CASE b < 0
    <2>1. -b <= w => b * b <= w * w
      BY <1>2, SMT
    <2>2. w < -b => w * w < b * b
      BY <1>2, SMT
    <2> QED
      BY <1>2, <2>1, <2>2
  <1> QED
    BY <1>1, <1>2

\* A point a along a way of d and b beside it: where its projection falls, and its distance.
LEMMA AlongTheWay ==
    ASSUME NEW a \in Int, NEW b \in Int, NEW d \in Nat \ {0}, NEW k \in 1..d, NEW w \in Nat
    PROVE  LET result == [dot |-> a * d, len2 |-> d * d,
                          sq_distance |-> (a * a + b * b) * (d * d) - (a * d) * (a * d)]
           IN (IsCollected(result, w) /\ result.dot * d <= k * result.len2)
                 <=> (0 <= a /\ a <= k /\ -w <= b /\ b <= w)
  <1>1. d * d \in Nat \ {0} /\ d \in Int /\ 0 * d = 0
    BY SMT
  <1>2. (a * a + b * b) * (d * d) - (a * d) * (a * d) = (b * b) * (d * d)
    BY SMT
  <1>3. 0 <= a * d <=> 0 <= a
    BY <1>1, Products
  <1>4. a * d <= d * d <=> a <= d
    BY <1>1, Products
  <1>5. (a * d) * d <= k * (d * d) <=> a <= k
    <2>1. (a * d) * d = a * (d * d)
      BY SMT
    <2> QED
      BY <1>1, <2>1, Products
  <1>6. (b * b) * (d * d) <= (w * w) * (d * d) <=> -w <= b /\ b <= w
    BY <1>1, Products, Squares
  <1>7. a * d \in Int /\ 0 \in Int
    OBVIOUS
  <1> QED
    BY <1>2, <1>3, <1>4, <1>5, <1>6, <1>7 DEF IsCollected

\* The item as seen from a dog that heads a way: how far ahead, and how far beside it.
Ahead(p, dir, c) == CASE dir = "L" -> p.x - c.x
                      [] dir = "R" -> c.x - p.x
                      [] dir = "U" -> p.y - c.y
                      [] dir = "D" -> c.y - p.y
Beside(p, dir, c) == IF dir \in {"L", "R"} THEN c.y - p.y ELSE c.x - p.x

LEMMA Projected ==
    ASSUME NEW p \in Point, NEW c \in Point, NEW dir \in {"L", "R", "U", "D"}, NEW d \in Nat
    PROVE  LET a == Ahead(p, dir, c)
               b == Beside(p, dir, c)
           IN /\ a \in Int /\ b \in Int
              /\ TryCollectPoint(p, MovePoint(p, dir, d), c) =
                    [dot |-> a * d, len2 |-> d * d,
                     sq_distance |-> (a * a + b * b) * (d * d) - (a * d) * (a * d)]
  <1> DEFINE m == MovePoint(p, dir, d)
             a == Ahead(p, dir, c)
             b == Beside(p, dir, c)
             u == Vector(p, c)
             v == Vector(p, m)
  <1>1. p.x \in Int /\ p.y \in Int /\ c.x \in Int /\ c.y \in Int
    BY DEF Point
  <1>2. u.x = c.x - p.x /\ u.y = c.y - p.y
    BY DEF Vector
  <1>3. /\ dir = "L" => v.x = -d /\ v.y = 0
        /\ dir = "R" => v.x = d /\ v.y = 0
        /\ dir = "U" => v.x = 0 /\ v.y = -d
        /\ dir = "D" => v.x = 0 /\ v.y = d
    <2>1. ASSUME dir = "L" PROVE v.x = -d /\ v.y = 0
      <3>1. m = [x |-> p.x - d, y |-> p.y]
        BY <2>1, OneUnit
      <3> HIDE DEF m
      <3> QED
        BY <1>1, <3>1 DEF Vector
    <2>2. ASSUME dir = "R" PROVE v.x = d /\ v.y = 0
      <3>1. m = [x |-> p.x + d, y |-> p.y]
        BY <2>2, OneUnit
      <3> HIDE DEF m
      <3> QED
        BY <1>1, <3>1 DEF Vector
    <2>3. ASSUME dir = "U" PROVE v.x = 0 /\ v.y = -d
      <3>1. m = [x |-> p.x, y |-> p.y - d]
        BY <2>3, OneUnit
      <3> HIDE DEF m
      <3> QED
        BY <1>1, <3>1 DEF Vector
    <2>4. ASSUME dir = "D" PROVE v.x = 0 /\ v.y = d
      <3>1. m = [x |-> p.x, y |-> p.y + d]
        BY <2>4, OneUnit
      <3> HIDE DEF m
      <3> QED
        BY <1>1, <3>1 DEF Vector
    <2> QED
      BY <2>1, <2>2, <2>3, <2>4
  <1>4. TryCollectPoint(p, m, c) =
           [dot |-> Dot(u, v), len2 |-> Dot(v, v),
            sq_distance |-> Dot(u, u) * Dot(v, v) - Dot(u, v) * Dot(u, v)]
    BY DEF TryCollectPoint
  <1>5. /\ dir = "L" => a = p.x - c.x /\ b = c.y - p.y
        /\ dir = "R" => a = c.x - p.x /\ b = c.y - p.y
        /\ dir = "U" => a = p.y - c.y /\ b = c.x - p.x
        /\ dir = "D" => a = c.y - p.y /\ b = c.x - p.x
    BY DEF Ahead, Beside
  <1> HIDE DEF u, v, a, b, m
  <1>6. /\ a \in Int /\ b \in Int
        /\ Dot(u, v) = a * d /\ Dot(v, v) = d * d /\ Dot(u, u) = a * a + b * b
    <2>1. CASE dir = "L"
      <3>1. a \in Int /\ b \in Int /\ u.x = -a /\ u.y = b /\ v.x = -d /\ v.y = 0
        BY <1>1, <1>2, <1>3, <1>5, <2>1
      <3>2. /\ (-a) * (-d) = a * d /\ (-d) * (-d) = d * d /\ (-a) * (-a) = a * a
            /\ b * 0 = 0 /\ 0 * 0 = 0
        BY <3>1, SMT
      <3>3. a * d \in Int /\ d * d \in Int /\ a * a \in Int /\ b * b \in Int
        BY <3>1, SMT
      <3> QED
        BY <3>1, <3>2, <3>3 DEF Dot
    <2>2. CASE dir = "R"
      BY <1>1, <1>2, <1>3, <1>5, <2>2 DEF Dot
    <2>3. CASE dir = "U"
      <3>1. a \in Int /\ b \in Int /\ u.y = -a /\ u.x = b /\ v.y = -d /\ v.x = 0
        BY <1>1, <1>2, <1>3, <1>5, <2>3
      <3>2. /\ (-a) * (-d) = a * d /\ (-d) * (-d) = d * d /\ (-a) * (-a) = a * a
            /\ b * 0 = 0 /\ 0 * 0 = 0
        BY <3>1, SMT
      <3>3. a * d \in Int /\ d * d \in Int /\ a * a \in Int /\ b * b \in Int
        BY <3>1, SMT
      <3> QED
        BY <3>1, <3>2, <3>3 DEF Dot
    <2>4. CASE dir = "D"
      BY <1>1, <1>2, <1>3, <1>5, <2>4 DEF Dot
    <2> QED
      BY <2>1, <2>2, <2>3, <2>4
  <1> QED
    BY <1>4, <1>6 DEF a, b, m

\* The items of the first k of the way.
LEMMA Passed ==
    ASSUME NEW p \in Point, NEW dir \in {"L", "R", "U", "D"}, NEW d \in Nat \ {0},
           NEW k \in 1..d, NEW i \in Items
    PROVE  LET result == TryCollectPoint(p, MovePoint(p, dir, d), i.position)
           IN (IsCollected(result, PlayerWidth + i.width) /\ result.dot * d <= k * result.len2)
                 <=> i \in PassedBy(p, MovePoint(p, dir, k))
  <1> DEFINE c == i.position
             w == PlayerWidth + i.width
             a == Ahead(p, dir, c)
             b == Beside(p, dir, c)
             q == MovePoint(p, dir, k)
  <1>1. /\ c \in Point /\ w \in Nat /\ p.x \in Int /\ p.y \in Int /\ c.x \in Int /\ c.y \in Int
        /\ k \in Nat /\ k >= 1
    BY ItemsAssumption, WidthAssumption DEF Point
  <1>2. /\ a \in Int /\ b \in Int
        /\ TryCollectPoint(p, MovePoint(p, dir, d), c) =
              [dot |-> a * d, len2 |-> d * d,
               sq_distance |-> (a * a + b * b) * (d * d) - (a * d) * (a * d)]
    BY <1>1, Projected
  <1>3. i \in PassedBy(p, q) <=> 0 <= a /\ a <= k /\ -w <= b /\ b <= w
    <2>1. i \in PassedBy(p, q) <=>
             \/ p.y = q.y /\ Between(p.x, c.x, q.x) /\ c.y - p.y \in -w..w
             \/ p.x = q.x /\ Between(p.y, c.y, q.y) /\ c.x - p.x \in -w..w
      BY DEF PassedBy
    <2>2. /\ dir = "L" => a = p.x - c.x /\ b = c.y - p.y
          /\ dir = "R" => a = c.x - p.x /\ b = c.y - p.y
          /\ dir = "U" => a = p.y - c.y /\ b = c.x - p.x
          /\ dir = "D" => a = c.y - p.y /\ b = c.x - p.x
      BY DEF Ahead, Beside
    <2>3. /\ dir = "L" => q = [x |-> p.x - k, y |-> p.y]
          /\ dir = "R" => q = [x |-> p.x + k, y |-> p.y]
          /\ dir = "U" => q = [x |-> p.x, y |-> p.y - k]
          /\ dir = "D" => q = [x |-> p.x, y |-> p.y + k]
      <3>1. ASSUME dir = "L" PROVE q = [x |-> p.x - k, y |-> p.y]
        BY <1>1, <3>1, OneUnit
      <3>2. ASSUME dir = "R" PROVE q = [x |-> p.x + k, y |-> p.y]
        BY <1>1, <3>2, OneUnit
      <3>3. ASSUME dir = "U" PROVE q = [x |-> p.x, y |-> p.y - k]
        BY <1>1, <3>3, OneUnit
      <3>4. ASSUME dir = "D" PROVE q = [x |-> p.x, y |-> p.y + k]
        BY <1>1, <3>4, OneUnit
      <3> QED
        BY <3>1, <3>2, <3>3, <3>4
    <2> HIDE DEF a, b, c, w, q
    <2>4. CASE dir = "L"
      BY <1>1, <1>2, <2>1, <2>2, <2>3, <2>4 DEF Between
    <2>5. CASE dir = "R"
      BY <1>1, <1>2, <2>1, <2>2, <2>3, <2>5 DEF Between
    <2>6. CASE dir = "U"
      BY <1>1, <1>2, <2>1, <2>2, <2>3, <2>6 DEF Between
    <2>7. CASE dir = "D"
      BY <1>1, <1>2, <2>1, <2>2, <2>3, <2>7 DEF Between
    <2> QED
      BY <2>4, <2>5, <2>6, <2>7
  <1> DEFINE result == [dot |-> a * d, len2 |-> d * d,
                        sq_distance |-> (a * a + b * b) * (d * d) - (a * d) * (a * d)]
  <1> HIDE DEF a, b, c, w, q
  <1>4. (IsCollected(result, w) /\ result.dot * d <= k * result.len2)
           <=> (0 <= a /\ a <= k /\ -w <= b /\ b <= w)
    BY <1>1, <1>2, AlongTheWay
  <1>5. TryCollectPoint(p, MovePoint(p, dir, d), c) = result
    BY <1>2
  <1> HIDE DEF result
  <1> QED
    BY <1>3, <1>4, <1>5 DEF c, w, q

\* Two sets of records that name the same items.
LEMMA SameIds ==
    ASSUME NEW E, NEW S, \A e \in E : \E i \in S : e.item_id = i.item_id,
           \A i \in S : \E e \in E : e.item_id = i.item_id
    PROVE  ItemIds(E) = ItemIds(S)
  <1>1. ItemIds(E) \subseteq ItemIds(S)
    BY DEF ItemIds
  <1>2. ItemIds(S) \subseteq ItemIds(E)
    BY DEF ItemIds
  <1> QED
    BY <1>1, <1>2

\* A dog gathers the items beside its way, when it passes them, for every map, every set
\* of items and every length of ticks (Application::Tick, FindGatherEvents): in a longer
\* tick it gathers no more, no less and in no other order than in many short ones.
THEOREM GathersAlways == Spec => GathersOnItsWay
  <1> DEFINE events == GatherEvents(Gatherer, Items)
             A == pos' # pos =>
                    /\ ItemIds(events) = ItemIds(PassedBy(pos, pos'))
                    /\ \A k \in 1..Covered :
                          ItemIds({e \in events : e.time * Covered <= k * e.of})
                              = ItemIds(PassedBy(pos, MovePoint(pos, speed, k)))
  <1>1. RoadInv /\ [Next]_vars => [A]_vars
    <2> SUFFICES ASSUME RoadInv, [Next]_vars, pos' # pos PROVE A
      OBVIOUS
    <2>1. PICK n \in Steps : \E k \in 0..n : pos' = MovePoint(pos, speed, k)
      BY RoadStep
    <2>2. PICK d \in 0..n : pos' = MovePoint(pos, speed, d)
      BY <2>1
    <2>3. pos \in Point /\ d \in Nat /\ pos.x \in Int /\ pos.y \in Int
      BY SizesAssumption DEF RoadInv, Point
    <2>4. speed \in {"L", "R", "U", "D"}
      BY <2>2 DEF RoadInv, Directions, MovePoint
    <2>5. /\ speed = "L" => pos' = [x |-> pos.x - d, y |-> pos.y]
          /\ speed = "R" => pos' = [x |-> pos.x + d, y |-> pos.y]
          /\ speed = "U" => pos' = [x |-> pos.x, y |-> pos.y - d]
          /\ speed = "D" => pos' = [x |-> pos.x, y |-> pos.y + d]
      BY <2>2, <2>3, OneUnit
    <2>6. d # 0
      <3> SUFFICES ASSUME d = 0 PROVE pos' = pos
        OBVIOUS
      <3>1. pos = [x |-> pos.x, y |-> pos.y]
        BY <2>3 DEF Point
      <3> QED
        BY <2>3, <2>4, <2>5, <3>1
    <2>7. Covered = d
      BY <2>3, <2>4, <2>5 DEF Covered
    <2> DEFINE result(i) == TryCollectPoint(pos, pos', i.position)
               hit == {j \in Items : IsCollected(result(j), PlayerWidth + j.width)}
    <2>8. events = {[item_id |-> i.item_id, time |-> result(i).dot, of |-> result(i).len2] :
                       i \in hit}
      BY DEF GatherEvents, Gatherer
    <2>9. ASSUME NEW k \in 1..d
          PROVE  ItemIds({e \in events : e.time * d <= k * e.of})
                    = ItemIds(PassedBy(pos, MovePoint(pos, speed, k)))
      <3>1. \A i \in Items :
               (i \in hit /\ result(i).dot * d <= k * result(i).len2)
                  <=> i \in PassedBy(pos, MovePoint(pos, speed, k))
        BY <2>2, <2>3, <2>4, <2>6, <2>9, Passed
      <3>2. PassedBy(pos, MovePoint(pos, speed, k)) \subseteq Items
        BY DEF PassedBy
      <3> HIDE DEF result
      <3>3. {e \in events : e.time * d <= k * e.of}
              = {[item_id |-> i.item_id, time |-> result(i).dot, of |-> result(i).len2] :
                    i \in PassedBy(pos, MovePoint(pos, speed, k))}
        BY <2>8, <3>1, <3>2
      <3>4. \A i \in Items :
               [item_id |-> i.item_id, time |-> result(i).dot, of |-> result(i).len2].item_id
                  = i.item_id
        OBVIOUS
      <3> DEFINE E == {e \in events : e.time * d <= k * e.of}
                 S == PassedBy(pos, MovePoint(pos, speed, k))
      <3> HIDE DEF events
      <3>5. \A e \in E : \E i \in S : e.item_id = i.item_id
        BY <3>2, <3>3, <3>4
      <3>6. \A i \in S : \E e \in E : e.item_id = i.item_id
        BY <3>2, <3>3, <3>4
      <3> HIDE DEF E, S
      <3>7. ItemIds(E) = ItemIds(S)
        BY <3>5, <3>6, SameIds
      <3> QED
        BY <3>7 DEF E, S
    <2>10. ItemIds(events) = ItemIds(PassedBy(pos, pos'))
      <3>1. d \in 1..d /\ d \in Nat \ {0}
        BY <2>3, <2>6
      <3>2. \A i \in Items :
               (i \in hit /\ result(i).dot * d <= d * result(i).len2)
                  <=> i \in PassedBy(pos, pos')
        BY <2>2, <2>3, <2>4, <3>1, Passed
      <3>3. ASSUME NEW i \in hit PROVE result(i).dot * d <= d * result(i).len2
        <4>1. /\ i.position \in Point
              /\ result(i).dot <= result(i).len2
          BY ItemsAssumption DEF IsCollected
        <4> DEFINE a == Ahead(pos, speed, i.position)
                   b == Beside(pos, speed, i.position)
        <4>2. a \in Int /\ result(i).dot = a * d /\ result(i).len2 = d * d
          <5>1. /\ a \in Int
                /\ result(i) = [dot |-> a * d, len2 |-> d * d,
                       sq_distance |-> (a * a + b * b) * (d * d) - (a * d) * (a * d)]
            BY <2>2, <2>3, <2>4, <4>1, Projected
          <5> HIDE DEF a, b, result
          <5> QED
            BY <5>1
        <4> HIDE DEF a, b, result
        <4>3. a * d \in Int /\ d * d \in Int
          BY <2>3, <4>2, SMT
        <4>4. (a * d) * d <= (d * d) * d
          BY <3>1, <4>1, <4>2, <4>3, Products
        <4>5. (d * d) * d = d * (d * d)
          BY <2>3, SMT
        <4> QED
          BY <4>2, <4>4, <4>5
      <3>4. PassedBy(pos, pos') \subseteq Items
        BY DEF PassedBy
      <3>5. hit = PassedBy(pos, pos')
        BY <3>2, <3>3, <3>4
      <3> HIDE DEF result, hit
      <3>6. \A i \in Items :
               [item_id |-> i.item_id, time |-> result(i).dot, of |-> result(i).len2].item_id
                  = i.item_id
        OBVIOUS
      <3> DEFINE S == PassedBy(pos, pos')
      <3> HIDE DEF events, S
      <3>7. \A e \in events : \E i \in S : e.item_id = i.item_id
        BY <2>8, <3>4, <3>5, <3>6 DEF S
      <3>8. \A i \in S : \E e \in events : e.item_id = i.item_id
        BY <2>8, <3>4, <3>5, <3>6 DEF S
      <3> QED
        BY <3>7, <3>8, SameIds DEF S
    <2> HIDE DEF events
    <2> QED
      BY <2>7, <2>9, <2>10
  <1> QED
    BY <1>1, RoadAlways, PTL DEF Spec, GathersOnItsWay

=============================================================================
