------------------------- MODULE GameSessionProofs -------------------------
(***************************************************************************)
(* Proofs about loot: for every number of dogs, of ids and kinds of loot,  *)
(* every size of bag, any number of restarts and any order of the events   *)
(* of a tick.                                                              *)
(***************************************************************************)
EXTENDS LootGenerator, FiniteSetTheorems, TLAPS

-----------------------------------------------------------------------------
(* The inductive invariant, of the session and of the one in the state file. *)

Piece == [id : LootIds, item : Item]

Typed(ds, ls, n, gone) ==
    /\ Live(ds) \subseteq DogIds /\ ds = [id \in Live(ds) |-> ds[id]]
    /\ \A id \in Live(ds) : ds[id].bag \in Seq(Piece) /\ ds[id].delivered \subseteq Item
    /\ ls \in [LootIds -> Item \cup {None}]
    /\ n \in Nat /\ gone \subseteq Item

Everything(ds, ls, gone) == Lying(ls) \cup Carried(ds) \cup Delivered(ds) \cup gone

\* The serial numbers ahead are unused.
Numbered(ds, ls, n, gone) == \A item \in Everything(ds, ls, gone) : item.serial < n

\* No bag holds a piece twice.
Packed(ds) == \A id \in Live(ds) : /\ IsFiniteSet(BagOf(ds[id]))
                                   /\ Cardinality(BagOf(ds[id])) = Len(ds[id].bag)

\* Dogs and map share no piece.
Apart(ds, ls, gone) ==
    /\ \A i, j \in OnMap(ls) : ls[i] = ls[j] => i = j
    /\ \A a, b \in Live(ds) :
          /\ a # b => /\ BagOf(ds[a]) \cap BagOf(ds[b]) = {}
                      /\ ds[a].delivered \cap ds[b].delivered = {}
          /\ BagOf(ds[a]) \cap ds[b].delivered = {}
    /\ Lying(ls) \cap (Carried(ds) \cup Delivered(ds) \cup gone) = {}

InOrder(ds, ls, n, gone) == /\ Typed(ds, ls, n, gone) /\ Numbered(ds, ls, n, gone)
                            /\ Packed(ds) /\ Apart(ds, ls, gone)

Complete(ds, ls, n, gone) == Serials(Everything(ds, ls, gone)) = 0..(n - 1)

TickInv == /\ loot_id_incr \in Nat
           /\ pc = "events" => /\ movers \subseteq Live(dogs)
                               /\ events \subseteq movers \X (LootIds \cup OfficeIds)

\* The counter is ahead of the ids on the map.
FreshInv == fresh => \A id \in OnMap(loots) : id < loot_id_incr

SessionInv == InOrder(dogs, loots, made, left)
SavedInv   == saved # None => InOrder(saved.dogs, saved.loots, saved.made, saved.left)

CompleteInv == fresh => /\ Complete(dogs, loots, made, left)
                        /\ saved # None => Complete(saved.dogs, saved.loots, saved.made, saved.left)

IInv == TickInv /\ FreshInv /\ SessionInv /\ SavedInv /\ CompleteInv

-----------------------------------------------------------------------------
(* Facts about the parts.                                                  *)

LEMMA EmptyOrder == InOrder(NoDogs, NoLoot, 0, {}) /\ Complete(NoDogs, NoLoot, 0, {})
  <1>1. Live(NoDogs) = {} /\ OnMap(NoLoot) = {}
    BY DEF Live, OnMap, NoDogs, NoLoot
  <1>2. Everything(NoDogs, NoLoot, {}) = {}
    BY <1>1 DEF Everything, Lying, Carried, Delivered
  <1> QED
    BY <1>1, <1>2 DEF InOrder, Complete, Typed, Numbered, Packed, Apart, NoDogs, NoLoot,
                      Serials, Lying

LEMMA BagTyped ==
    ASSUME NEW d, d.bag \in Seq(Piece)
    PROVE  BagOf(d) \subseteq Item
  <1>1. \A k \in DOMAIN d.bag : d.bag[k] \in Piece
    OBVIOUS
  <1>2. \A piece \in Piece : piece.item \in Item
    BY DEF Piece
  <1> QED
    BY <1>1, <1>2 DEF BagOf

\* A dog that comes in holds nothing.
LEMMA NewDogEmpty == BagOf(NewDog) = {} /\ NewDog.delivered = {} /\ NewDog.bag = <<>>
  <1>1. NewDog.bag = <<>> /\ NewDog.delivered = {}
    BY DEF NewDog
  <1>2. DOMAIN NewDog.bag = {}
    BY <1>1
  <1> QED
    BY <1>1, <1>2 DEF BagOf

LEMMA ShortageTyped == SessionInv => Shortage \in Nat
  <1> HAVE SessionInv
  <1>1. OnMap(loots) \subseteq LootIds /\ Live(dogs) \subseteq DogIds
    BY DEF OnMap, SessionInv, InOrder, Typed
  <1>2. IsFiniteSet(OnMap(loots)) /\ IsFiniteSet(Live(dogs))
    BY <1>1, IdsAssumption, FS_Subset
  <1> QED
    BY <1>2, FS_CardinalityType DEF Shortage

\* Two tables of dogs that hold the same things are equally in order.
SameBags(ds, es) == /\ Live(es) = Live(ds)
                    /\ \A id \in Live(ds) : /\ es[id].bag = ds[id].bag
                                            /\ es[id].delivered = ds[id].delivered

LEMMA SameBagsOrder ==
    ASSUME NEW ds, NEW es, NEW ls, NEW n, NEW gone, SameBags(ds, es),
           es = [id \in Live(es) |-> es[id]]
    PROVE  /\ Everything(es, ls, gone) = Everything(ds, ls, gone)
           /\ InOrder(ds, ls, n, gone) => InOrder(es, ls, n, gone)
  <1>1. \A id \in Live(ds) : BagOf(es[id]) = BagOf(ds[id])
    BY DEF SameBags, BagOf
  <1>2. Carried(es) = Carried(ds) /\ Delivered(es) = Delivered(ds)
    BY <1>1 DEF SameBags, Carried, Delivered
  <1>3. Everything(es, ls, gone) = Everything(ds, ls, gone)
    BY <1>2 DEF Everything
  <1>4. ASSUME InOrder(ds, ls, n, gone) PROVE InOrder(es, ls, n, gone)
    <2>1. Typed(es, ls, n, gone)
      BY <1>4 DEF InOrder, Typed, SameBags
    <2>2. Numbered(es, ls, n, gone)
      BY <1>3, <1>4 DEF InOrder, Numbered
    <2>3. Packed(es)
      BY <1>1, <1>4 DEF InOrder, Packed, SameBags
    <2>4. Apart(es, ls, gone)
      BY <1>1, <1>2, <1>4 DEF InOrder, Apart, SameBags
    <2> QED
      BY <2>1, <2>2, <2>3, <2>4 DEF InOrder
  <1> QED
    BY <1>3, <1>4

-----------------------------------------------------------------------------
(* The steps.                                                              *)

LEMMA AddDogStep ==
    ASSUME IInv, NEW id \in DogIds, AddDog(id)
    PROVE  IInv'
  <1> USE DEF session, loop, ghosts
  <1>1. /\ UNCHANGED <<loots, made, left, saved, fresh, loot_id_incr, pc>> /\ pc = "idle"
        /\ Live(dogs) \subseteq DogIds /\ id \notin Live(dogs)
        /\ dogs' = [i \in Live(dogs) \cup {id} |-> IF i = id THEN NewDog ELSE dogs[i]]
    BY DEF AddDog, IInv, SessionInv, InOrder, Typed
  <1>2. /\ dogs'[id] = NewDog /\ \A b \in Live(dogs) : dogs'[b] = dogs[b]
        /\ Live(dogs') = Live(dogs) \cup {id} /\ id \notin Live(dogs)
        /\ dogs' = [i \in Live(dogs') |-> dogs'[i]]
    BY <1>1 DEF Live
  <1>3. Carried(dogs') = Carried(dogs) /\ Delivered(dogs') = Delivered(dogs)
    BY <1>2, NewDogEmpty DEF Carried, Delivered
  <1>4. Packed(dogs')
    <2>1. IsFiniteSet({}) /\ Cardinality({}) = 0 /\ Len(NewDog.bag) = 0
      BY FS_EmptySet, NewDogEmpty
    <2> QED
      BY <1>2, <2>1, NewDogEmpty DEF Packed, IInv, SessionInv, InOrder
  <1>5. Apart(dogs', loots, left)
    <2> USE DEF Apart
    <2>1. Apart(dogs, loots, left)
      BY DEF IInv, SessionInv, InOrder
    <2>2. ASSUME NEW a \in Live(dogs'), NEW b \in Live(dogs')
          PROVE  /\ a # b => /\ BagOf(dogs'[a]) \cap BagOf(dogs'[b]) = {}
                             /\ dogs'[a].delivered \cap dogs'[b].delivered = {}
                 /\ BagOf(dogs'[a]) \cap dogs'[b].delivered = {}
      <3>1. CASE a = id \/ b = id
        BY <1>2, <3>1, NewDogEmpty
      <3>2. CASE a # id /\ b # id
        <4>1. a \in Live(dogs) /\ b \in Live(dogs) /\ dogs'[a] = dogs[a] /\ dogs'[b] = dogs[b]
          BY <1>2, <3>2
        <4> QED
          BY <2>1, <4>1
      <3> QED
        BY <3>1, <3>2
    <2> QED
      BY <1>3, <2>1, <2>2
  <1>6. Everything(dogs', loots, left) = Everything(dogs, loots, left)
    BY <1>3 DEF Everything
  <1>7. Typed(dogs', loots, made, left)
    <2>1. Typed(dogs, loots, made, left)
      BY DEF IInv, SessionInv, InOrder
    <2>2. <<>> \in Seq(Piece)
      OBVIOUS
    <2>3. \A i \in Live(dogs') : dogs'[i].bag \in Seq(Piece) /\ dogs'[i].delivered \subseteq Item
      BY <1>2, <2>1, <2>2, NewDogEmpty DEF Typed
    <2> QED
      BY <1>2, <2>1, <2>3 DEF Typed
  <1>8. SessionInv'
    BY <1>1, <1>4, <1>5, <1>6, <1>7 DEF SessionInv, InOrder, Numbered, IInv
  <1> QED
    BY <1>1, <1>6, <1>8 DEF IInv, TickInv, FreshInv, SavedInv, CompleteInv, Complete

LEMMA BackUpStep ==
    ASSUME IInv, BackUp
    PROVE  IInv'
  <1> USE DEF session, loop, ghosts
  <1>1. UNCHANGED <<dogs, loots, loot_id_incr, movers, events, pc, made, left, fresh>>
    BY DEF BackUp
  <1>2. CASE saved' = None
    BY <1>1, <1>2 DEF IInv, TickInv, FreshInv, SessionInv, SavedInv, CompleteInv
  <1>3. CASE saved' = [dogs |-> ReprOfAll(dogs), loots |-> loots, made |-> made, left |-> left]
    <2>1. /\ saved'.dogs = ReprOfAll(dogs) /\ saved'.loots = loots
          /\ saved'.made = made /\ saved'.left = left
      BY <1>3
    <2>2. SameBags(dogs, saved'.dogs) /\ saved'.dogs = [id \in Live(saved'.dogs) |-> saved'.dogs[id]]
      BY <2>1 DEF ReprOfAll, Repr, SameBags, Live
    <2>3. SavedInv' /\ SessionInv'
      BY <1>1, <2>1, <2>2, SameBagsOrder DEF SavedInv, SessionInv, IInv
    <2>4. Everything(saved'.dogs, loots, left) = Everything(dogs, loots, left)
      BY <2>2, SameBagsOrder
    <2>5. CompleteInv'
      BY <1>1, <2>1, <2>4 DEF IInv, CompleteInv, Complete
    <2> QED
      BY <1>1, <2>3, <2>5 DEF IInv, TickInv, FreshInv
  <1> QED
    BY <1>2, <1>3 DEF BackUp

LEMMA RestartStep ==
    ASSUME IInv, Restart
    PROVE  IInv'
  <1> USE DEF session, loop, ghosts
  <1>1. /\ pc' = "idle" /\ saved' = saved
        /\ fresh' => fresh /\ \A id \in OnMap(loots') : id < loot_id_incr'
    BY DEF Restart
  <1>2. CASE saved = None
    <2>1. dogs' = NoDogs /\ loots' = NoLoot /\ loot_id_incr' = 0 /\ made' = 0 /\ left' = {}
      BY <1>2 DEF Restart
    <2>2. InOrder(NoDogs, NoLoot, 0, {}) /\ Complete(NoDogs, NoLoot, 0, {})
      BY EmptyOrder
    <2> QED
      BY <1>1, <1>2, <2>1, <2>2 DEF IInv, TickInv, FreshInv, SessionInv, SavedInv, CompleteInv
  <1>3. CASE saved # None
    <2>1. /\ dogs' = saved.dogs /\ loots' = saved.loots /\ made' = saved.made
          /\ left' = saved.left /\ loot_id_incr' = Cardinality(OnMap(saved.loots))
      BY <1>3 DEF Restart, RestoredIncr
    <2>2. loot_id_incr' \in Nat
      <3>1. IsFiniteSet(OnMap(saved.loots))
        BY IdsAssumption, FS_Subset DEF OnMap
      <3> QED
        BY <2>1, <3>1, FS_CardinalityType
    <2>3. SessionInv' /\ SavedInv'
      BY <1>1, <1>3, <2>1 DEF SessionInv, SavedInv, IInv
    <2> QED
      BY <1>1, <1>3, <2>1, <2>2, <2>3 DEF IInv, TickInv, FreshInv, CompleteInv
  <1> QED
    BY <1>2, <1>3

-----------------------------------------------------------------------------
(* Generation.                                                             *)

LEMMA KindsLength ==
    ASSUME NEW n \in Nat, NEW kinds \in [1..n -> Types]
    PROVE  Len(kinds) = n
  OBVIOUS

\* Where GenerateLoot puts its pieces, and what they are.
LEMMA PlacedPieces ==
    ASSUME IInv, NEW n \in Nat, NEW kinds \in [1..n -> Types],
           NEW id \in LootIds, loots' = Placed(loots, loot_id_incr, kinds)
    PROVE  \/ /\ loots'[id] = loots[id]
              /\ loots[id] # None \/ id \notin loot_id_incr..(loot_id_incr + n - 1)
           \/ /\ loots[id] = None /\ id \in loot_id_incr..(loot_id_incr + n - 1)
              /\ loots'[id] \in Item /\ loots'[id] # None
              /\ loots'[id].serial = made + (id - loot_id_incr)
  <1>1. Len(kinds) = n
    BY KindsLength
  <1>2. loot_id_incr \in Nat /\ made \in Nat /\ id \in Nat
    BY IdsAssumption DEF IInv, TickInv, SessionInv, InOrder, Typed
  <1>3. loots'[id] = IF id \in loot_id_incr..(loot_id_incr + n - 1) /\ loots[id] = None
                     THEN [serial |-> made + (id - loot_id_incr),
                           type |-> kinds[id - loot_id_incr + 1]]
                     ELSE loots[id]
    BY <1>1 DEF Placed
  <1>4. CASE id \in loot_id_incr..(loot_id_incr + n - 1) /\ loots[id] = None
    <2>1. id - loot_id_incr + 1 \in 1..n /\ made + (id - loot_id_incr) \in Nat
      BY <1>2, <1>4
    <2>2. loots'[id] \in Item
      BY <1>3, <1>4, <2>1 DEF Item
    <2> QED
      BY <1>3, <1>4, <2>2, NoneAssumption
  <1> QED
    BY <1>3, <1>4

LEMMA GenerateStep ==
    ASSUME IInv, NEW n \in 0..Shortage, NEW kinds \in [1..n -> Types], GenerateLoot(kinds)
    PROVE  IInv'
  <1> USE DEF session, loop, ghosts
  <1> DEFINE first == loot_id_incr
             ahead == first..(first + n - 1)
  <1>1. /\ UNCHANGED <<dogs, saved, left, fresh>> /\ pc' = "events"
        /\ loots' = Placed(loots, first, kinds) /\ ahead \subseteq LootIds
        /\ first' = first + n /\ made' = made + n
        /\ n \in Nat /\ first \in Nat /\ made \in Nat
    <2>1. Shortage \in Nat
      BY ShortageTyped DEF IInv
    <2>2. n \in Nat
      BY <2>1
    <2>3. Len(kinds) = n
      BY <2>2, KindsLength
    <2> QED
      BY <2>2, <2>3 DEF GenerateLoot, IInv, TickInv, SessionInv, InOrder, Typed
  <1>2. /\ Typed(dogs, loots, made, left) /\ Numbered(dogs, loots, made, left)
        /\ Packed(dogs) /\ Apart(dogs, loots, left)
    BY DEF IInv, SessionInv, InOrder
  <1>3. loots' \in [LootIds -> Item \cup {None}]
    <2>1. DOMAIN loots' = LootIds /\ loots' = [id \in LootIds |-> loots'[id]]
      BY <1>1 DEF Placed
    <2>2. \A id \in LootIds : loots'[id] \in Item \cup {None}
      BY <1>1, <1>2, PlacedPieces DEF Typed
    <2> QED
      BY <2>1, <2>2
  <1>4. ASSUME NEW id \in OnMap(loots')
        PROVE  \/ id \in OnMap(loots) /\ loots'[id] = loots[id] /\ loots[id] \in Item
                  /\ loots[id].serial < made
               \/ /\ id \in ahead /\ loots'[id] \in Item
                  /\ loots'[id].serial = made + (id - first)
                  /\ loots'[id].serial \in made..(made + n - 1)
    <2>1. id \in LootIds /\ id \in Nat /\ loots'[id] # None
      BY <1>4, IdsAssumption DEF OnMap
    <2>2. CASE loots'[id] = loots[id]
      <3>1. id \in OnMap(loots) /\ loots[id] \in Item
        BY <1>2, <2>1, <2>2 DEF OnMap, Typed
      <3>2. loots[id] \in Everything(dogs, loots, left)
        BY <3>1 DEF Everything, Lying
      <3> QED
        BY <1>2, <2>2, <3>1, <3>2 DEF Numbered
    <2>3. CASE loots'[id] # loots[id]
      <3>1. id \in ahead /\ loots'[id] \in Item /\ loots'[id].serial = made + (id - first)
        BY <1>1, <2>1, <2>3, PlacedPieces
      <3> QED
        BY <1>1, <2>1, <3>1
    <2> QED
      BY <2>2, <2>3
  <1>5. OnMap(loots) \subseteq OnMap(loots') /\ \A id \in OnMap(loots) : loots'[id] = loots[id]
    BY <1>1, PlacedPieces DEF OnMap
  <1> HIDE DEF ahead
  <1>6. Apart(dogs, loots', left)
    <2>1. ASSUME NEW i \in OnMap(loots'), NEW j \in OnMap(loots'), loots'[i] = loots'[j]
          PROVE  i = j
      <3>1. CASE loots'[i].serial < made
        <4>1. i \in OnMap(loots) /\ loots'[i] = loots[i]
          BY <1>1, <1>4, <3>1
        <4>2. j \in OnMap(loots) /\ loots'[j] = loots[j]
          BY <1>1, <1>4, <2>1, <3>1
        <4> QED
          BY <1>2, <2>1, <4>1, <4>2 DEF Apart
      <3>2. CASE ~(loots'[i].serial < made)
        <4>1. i \in ahead /\ loots'[i].serial = made + (i - first)
          BY <1>4, <3>2
        <4>2. j \in ahead /\ loots'[j].serial = made + (j - first)
          BY <1>4, <2>1, <3>2
        <4> QED
          BY <1>1, <2>1, <4>1, <4>2 DEF ahead
      <3> QED
        BY <3>1, <3>2
    <2>2. ASSUME NEW item \in Lying(loots'),
                 item \in Carried(dogs) \cup Delivered(dogs) \cup left
          PROVE  FALSE
      <3>1. PICK id \in OnMap(loots') : item = loots'[id]
        BY DEF Lying
      <3>2. item.serial < made
        BY <1>2, <2>2 DEF Numbered, Everything
      <3>3. id \in OnMap(loots) /\ item = loots[id]
        BY <1>1, <1>4, <3>1, <3>2
      <3> QED
        BY <1>2, <2>2, <3>3 DEF Apart, Lying
    <2> QED
      BY <1>2, <2>1, <2>2 DEF Apart
  <1>7. \A item \in Everything(dogs, loots', left) :
           \/ item \in Everything(dogs, loots, left) /\ item.serial < made
           \/ item.serial \in made..(made + n - 1)
    BY <1>2, <1>4 DEF Everything, Lying, Numbered
  <1>8. SessionInv'
    <2>1. Typed(dogs, loots', made + n, left)
      BY <1>1, <1>2, <1>3 DEF Typed
    <2>2. \A item \in Everything(dogs, loots, left) : item \in Item
      <3>1. Lying(loots) \subseteq Item
        BY <1>2 DEF Typed, Lying, OnMap
      <3>2. Carried(dogs) \subseteq Item
        BY <1>2, BagTyped DEF Typed, Carried
      <3>3. Delivered(dogs) \subseteq Item
        BY <1>2 DEF Typed, Delivered
      <3> QED
        BY <1>2, <3>1, <3>2, <3>3 DEF Everything, Typed
    <2>3. Numbered(dogs, loots', made + n, left)
      <3>1. ASSUME NEW item \in Everything(dogs, loots', left) PROVE item.serial < made + n
        <4>1. CASE item \in Everything(dogs, loots, left) /\ item.serial < made
          <5>1. item.serial \in Nat
            BY <2>2, <4>1 DEF Item
          <5> QED
            BY <1>1, <4>1, <5>1
        <4>2. CASE item.serial \in made..(made + n - 1)
          BY <1>1, <4>2
        <4> QED
          BY <1>7, <4>1, <4>2
      <3> QED
        BY <3>1 DEF Numbered
    <2> QED
      BY <1>1, <1>2, <1>6, <2>1, <2>3 DEF SessionInv, InOrder
  <1>9. FreshInv'
    <2> SUFFICES ASSUME fresh, NEW id \in OnMap(loots') PROVE id < first + n
      BY <1>1 DEF FreshInv
    <2>1. id \in Nat
      BY IdsAssumption DEF OnMap
    <2>2. id \in OnMap(loots) => id < first
      BY DEF IInv, FreshInv
    <2> QED
      BY <1>1, <1>4, <2>1, <2>2 DEF ahead
  <1>10. TickInv'
    <2>1. \E m \in SUBSET Live(dogs) :
             movers' = m /\ events' = m \X (OnMap(loots') \cup OfficeIds)
      BY DEF GenerateLoot
    <2>2. OnMap(loots') \subseteq LootIds
      BY DEF OnMap
    <2> QED
      BY <1>1, <2>1, <2>2 DEF TickInv
  <1>11. ASSUME fresh PROVE Complete(dogs, loots', made + n, left)
    <2>1. Serials(Everything(dogs, loots, left)) = 0..(made - 1)
      BY <1>11 DEF IInv, CompleteInv, Complete
    <2>2. \A id \in ahead : id \in OnMap(loots') /\ loots'[id].serial = made + (id - first)
      <3>1. ASSUME NEW id \in ahead
            PROVE  id \in OnMap(loots') /\ loots'[id].serial = made + (id - first)
        <4>1. id \in LootIds /\ id \in Nat /\ ~(id < first)
          BY <1>1, IdsAssumption DEF ahead
        <4>2. loots[id] = None
          BY <1>11, <4>1 DEF IInv, FreshInv, OnMap
        <4> QED
          BY <1>1, <4>1, <4>2, PlacedPieces DEF OnMap, ahead
      <3> QED
        BY <3>1
    <2>3. ASSUME NEW k \in made..(made + n - 1)
          PROVE  k \in Serials(Everything(dogs, loots', left))
      <3>1. first + (k - made) \in ahead /\ made + ((first + (k - made)) - first) = k
        BY <1>1 DEF ahead
      <3>2. PICK id \in ahead : loots'[id].serial = k /\ id \in OnMap(loots')
        BY <2>2, <3>1
      <3> QED
        BY <3>2 DEF Serials, Everything, Lying
    <2>4. Everything(dogs, loots, left) \subseteq Everything(dogs, loots', left)
      BY <1>5 DEF Everything, Lying
    <2>5. Serials(Everything(dogs, loots', left))
             = (0..(made - 1)) \cup (made..(made + n - 1))
      <3>1. Serials(Everything(dogs, loots', left))
               = Serials(Everything(dogs, loots, left)) \cup (made..(made + n - 1))
        BY <1>7, <2>3, <2>4 DEF Serials
      <3> QED
        BY <2>1, <3>1
    <2>6. (0..(made - 1)) \cup (made..(made + n - 1)) = 0..(made + n - 1)
      BY <1>1
    <2>7. Serials(Everything(dogs, loots', left)) = 0..((made + n) - 1)
      BY <1>1, <2>5, <2>6
    <2> QED
      BY <2>7 DEF Complete
  <1>12. CompleteInv' /\ SavedInv'
    BY <1>1, <1>11 DEF CompleteInv, SavedInv, IInv
  <1> QED
    BY <1>8, <1>9, <1>10, <1>12 DEF IInv

-----------------------------------------------------------------------------
(* Gathering and the end of a tick.                                        *)

\* An event concerns a dog of the session.
LEMMA GathererLives ==
    ASSUME IInv, NEW e \in events, Gather(e)
    PROVE  e[1] \in Live(dogs)
  BY DEF IInv, TickInv, Gather

\* What a dog holds after it has emptied its bag at an office.
LEMMA OfficeStep ==
    ASSUME InOrder(dogs, loots, made, left), NEW id \in Live(dogs),
           dogs' = [dogs EXCEPT ![id] = AtOffice(dogs[id])]
    PROVE  /\ InOrder(dogs', loots, made, left) /\ Live(dogs') = Live(dogs)
           /\ Everything(dogs', loots, left) = Everything(dogs, loots, left)
  <1> DEFINE d == dogs[id]
             new == AtOffice(d)
  <1>1. /\ new.bag = <<>> /\ new.delivered = d.delivered \cup BagOf(d)
        /\ BagOf(new) = {}
    <2>1. new.bag = <<>> /\ new.delivered = d.delivered \cup BagOf(d)
      BY DEF AtOffice
    <2>2. DOMAIN new.bag = {}
      BY <2>1
    <2> QED
      BY <2>1, <2>2 DEF BagOf
  <1>2. /\ Live(dogs') = Live(dogs) /\ dogs'[id] = new
        /\ \A b \in Live(dogs) \ {id} : dogs'[b] = dogs[b]
        /\ dogs' = [i \in Live(dogs') |-> dogs'[i]]
    BY DEF InOrder, Typed, Live
  <1>3. /\ Typed(dogs, loots, made, left) /\ Numbered(dogs, loots, made, left)
        /\ Packed(dogs) /\ Apart(dogs, loots, left)
    BY DEF InOrder
  <1> HIDE DEF new
  <1>4. Typed(dogs', loots, made, left)
    <2>1. <<>> \in Seq(Piece) /\ BagOf(d) \subseteq Item
      BY <1>3, BagTyped DEF Typed
    <2>2. \A i \in Live(dogs') : dogs'[i].bag \in Seq(Piece) /\ dogs'[i].delivered \subseteq Item
      BY <1>1, <1>2, <1>3, <2>1 DEF Typed
    <2> QED
      BY <1>2, <1>3, <2>2 DEF Typed
  <1>5. Carried(dogs') \cup Delivered(dogs') = Carried(dogs) \cup Delivered(dogs)
    <2>1. ASSUME NEW item PROVE item \in Carried(dogs') \cup Delivered(dogs') <=>
                                \E b \in Live(dogs) : item \in BagOf(dogs[b]) \cup dogs[b].delivered
      <3>1. item \in BagOf(new) \cup new.delivered <=> item \in BagOf(d) \cup d.delivered
        BY <1>1
      <3>2. item \in Carried(dogs') \cup Delivered(dogs') <=>
               \E b \in Live(dogs') : item \in BagOf(dogs'[b]) \cup dogs'[b].delivered
        BY DEF Carried, Delivered
      <3> QED
        BY <1>2, <3>1, <3>2
    <2>2. ASSUME NEW item PROVE item \in Carried(dogs) \cup Delivered(dogs) <=>
                                \E b \in Live(dogs) : item \in BagOf(dogs[b]) \cup dogs[b].delivered
      BY DEF Carried, Delivered
    <2> QED
      BY <2>1, <2>2
  <1>6. Everything(dogs', loots, left) = Everything(dogs, loots, left)
    BY <1>5 DEF Everything
  <1>7. Packed(dogs')
    <2>1. IsFiniteSet({}) /\ Cardinality({}) = 0 /\ Len(<<>>) = 0
      BY FS_EmptySet
    <2> QED
      BY <1>1, <1>2, <1>3, <2>1 DEF Packed
  <1>8. Apart(dogs', loots, left)
    <2>1. ASSUME NEW a \in Live(dogs'), NEW b \in Live(dogs')
          PROVE  /\ a # b => /\ BagOf(dogs'[a]) \cap BagOf(dogs'[b]) = {}
                             /\ dogs'[a].delivered \cap dogs'[b].delivered = {}
                 /\ BagOf(dogs'[a]) \cap dogs'[b].delivered = {}
      <3>1. /\ a # b => /\ BagOf(dogs[a]) \cap BagOf(dogs[b]) = {}
                        /\ dogs[a].delivered \cap dogs[b].delivered = {}
            /\ BagOf(dogs[a]) \cap dogs[b].delivered = {}
            /\ BagOf(dogs[b]) \cap dogs[a].delivered = {}
        BY <1>2, <1>3 DEF Apart
      <3> QED
        BY <1>1, <1>2, <3>1
    <2> QED
      BY <1>3, <1>5, <2>1 DEF Apart
  <1> QED
    BY <1>2, <1>3, <1>4, <1>6, <1>7, <1>8 DEF InOrder, Numbered

\* A dog that picks a piece up takes it off the map.
LEMMA PickUpStep ==
    ASSUME InOrder(dogs, loots, made, left), NEW id \in Live(dogs), NEW k, StillThere(k),
           dogs' = [dogs EXCEPT ![id] = AtLoot(dogs[id], k)], loots' = WithoutLoot(k)
    PROVE  /\ InOrder(dogs', loots', made, left) /\ Live(dogs') = Live(dogs)
           /\ OnMap(loots') \subseteq OnMap(loots)
           /\ Everything(dogs', loots', left) = Everything(dogs, loots, left)
  <1> DEFINE d == dogs[id]
             x == loots[k]
             new == AtLoot(d, k)
  <1>0. /\ Typed(dogs, loots, made, left) /\ Numbered(dogs, loots, made, left)
        /\ Packed(dogs) /\ Apart(dogs, loots, left)
    BY DEF InOrder
  <1>1. k \in OnMap(loots) /\ x \in Item /\ x \in Lying(loots)
    BY <1>0 DEF StillThere, OnMap, Typed, Lying
  <1>2. /\ new.bag = Append(d.bag, [id |-> k, item |-> x]) /\ new.delivered = d.delivered
        /\ new.bag \in Seq(Piece) /\ Len(new.bag) = Len(d.bag) + 1
        /\ BagOf(new) = BagOf(d) \cup {x}
    <2>1. new.bag = Append(d.bag, [id |-> k, item |-> x]) /\ new.delivered = d.delivered
      BY DEF AtLoot
    <2>2. d.bag \in Seq(Piece) /\ [id |-> k, item |-> x] \in Piece
      BY <1>0, <1>1 DEF Typed, Piece, OnMap
    <2>3. new.bag \in Seq(Piece) /\ Len(new.bag) = Len(d.bag) + 1
      BY <2>1, <2>2
    <2>4. /\ DOMAIN new.bag = (DOMAIN d.bag) \cup {Len(d.bag) + 1}
          /\ \A i \in DOMAIN d.bag : new.bag[i] = d.bag[i]
          /\ new.bag[Len(d.bag) + 1] = [id |-> k, item |-> x]
      BY <2>1, <2>2
    <2>5. BagOf(new) = BagOf(d) \cup {x}
      BY <2>4 DEF BagOf
    <2> QED
      BY <2>1, <2>3, <2>5
  <1>3. /\ Live(dogs') = Live(dogs) /\ dogs'[id] = new
        /\ \A b \in Live(dogs) \ {id} : dogs'[b] = dogs[b]
        /\ dogs' = [i \in Live(dogs') |-> dogs'[i]]
    BY <1>0 DEF Typed, Live
  <1> HIDE DEF new
  <1>4. /\ loots' \in [LootIds -> Item \cup {None}]
        /\ OnMap(loots') = OnMap(loots) \ {k}
        /\ \A i \in OnMap(loots') : loots'[i] = loots[i]
    BY <1>0 DEF WithoutLoot, Typed, OnMap
  <1>5. Lying(loots') = Lying(loots) \ {x}
    <2>1. \A i \in OnMap(loots) : loots[i] = x => i = k
      BY <1>0, <1>1 DEF Apart
    <2> QED
      BY <1>4, <2>1 DEF Lying
  <1>6. x \notin Carried(dogs) \cup Delivered(dogs) \cup left
    BY <1>0, <1>1 DEF Apart
  <1>7. Carried(dogs') = Carried(dogs) \cup {x} /\ Delivered(dogs') = Delivered(dogs)
    <2>1. ASSUME NEW item PROVE item \in Carried(dogs') <=> item \in Carried(dogs) \/ item = x
      <3>1. item \in Carried(dogs') <=> \E b \in Live(dogs') : item \in BagOf(dogs'[b])
        BY DEF Carried
      <3>2. item \in Carried(dogs) <=> \E b \in Live(dogs) : item \in BagOf(dogs[b])
        BY DEF Carried
      <3> QED
        BY <1>2, <1>3, <3>1, <3>2
    <2>2. \A b \in Live(dogs) : dogs'[b].delivered = dogs[b].delivered
      BY <1>2, <1>3
    <2>3. Delivered(dogs') = Delivered(dogs)
      BY <1>3, <2>2 DEF Delivered
    <2> QED
      BY <2>1, <2>3
  <1>8. Everything(dogs', loots', left) = Everything(dogs, loots, left)
    BY <1>1, <1>5, <1>7 DEF Everything
  <1>9. Typed(dogs', loots', made, left)
    <2>1. \A i \in Live(dogs') : dogs'[i].bag \in Seq(Piece) /\ dogs'[i].delivered \subseteq Item
      BY <1>0, <1>2, <1>3 DEF Typed
    <2> QED
      BY <1>0, <1>3, <1>4, <2>1 DEF Typed
  <1>10. Packed(dogs')
    <2>1. x \notin BagOf(d)
      BY <1>6 DEF Carried
    <2>2. IsFiniteSet(BagOf(d)) /\ Cardinality(BagOf(d)) = Len(d.bag)
      BY <1>0 DEF Packed
    <2>3. IsFiniteSet(BagOf(new)) /\ Cardinality(BagOf(new)) = Len(new.bag)
      BY <1>2, <2>1, <2>2, FS_AddElement
    <2> QED
      BY <1>0, <1>3, <2>3 DEF Packed
  <1>11. Apart(dogs', loots', left)
    <2>1. \A b \in Live(dogs) : x \notin BagOf(dogs[b]) /\ x \notin dogs[b].delivered
      BY <1>6 DEF Carried, Delivered
    <2>2. ASSUME NEW a \in Live(dogs'), NEW b \in Live(dogs')
          PROVE  /\ a # b => /\ BagOf(dogs'[a]) \cap BagOf(dogs'[b]) = {}
                             /\ dogs'[a].delivered \cap dogs'[b].delivered = {}
                 /\ BagOf(dogs'[a]) \cap dogs'[b].delivered = {}
      <3>1. /\ a # b => /\ BagOf(dogs[a]) \cap BagOf(dogs[b]) = {}
                        /\ dogs[a].delivered \cap dogs[b].delivered = {}
            /\ BagOf(dogs[a]) \cap dogs[b].delivered = {}
        BY <1>0, <1>3 DEF Apart
      <3> QED
        BY <1>2, <1>3, <2>1, <3>1
    <2>3. \A i, j \in OnMap(loots') : loots'[i] = loots'[j] => i = j
      BY <1>0, <1>4 DEF Apart
    <2>4. Lying(loots') \cap (Carried(dogs') \cup Delivered(dogs') \cup left) = {}
      BY <1>0, <1>5, <1>7 DEF Apart
    <2> QED
      BY <2>2, <2>3, <2>4 DEF Apart
  <1> QED
    BY <1>0, <1>3, <1>4, <1>8, <1>9, <1>10, <1>11 DEF InOrder, Numbered

LEMMA GatherStep ==
    ASSUME IInv, NEW e \in events, Gather(e)
    PROVE  IInv'
  <1> USE DEF session, loop, ghosts
  <1>1. /\ UNCHANGED <<loot_id_incr, movers, pc, saved, made, left, fresh>>
        /\ events' \subseteq events /\ pc = "events" /\ e[1] \in Live(dogs)
    BY GathererLives DEF Gather
  <1>2. /\ SessionInv' /\ Live(dogs') = Live(dogs) /\ OnMap(loots') \subseteq OnMap(loots)
        /\ Everything(dogs', loots', left) = Everything(dogs, loots, left)
    <2>1. CASE /\ dogs' = [dogs EXCEPT ![e[1]] = AtOffice(dogs[e[1]])]
               /\ UNCHANGED loots
      BY <1>1, <2>1, OfficeStep DEF IInv, SessionInv
    <2>2. CASE /\ StillThere(e[2]) /\ loots' = WithoutLoot(e[2])
               /\ dogs' = [dogs EXCEPT ![e[1]] = AtLoot(dogs[e[1]], e[2])]
      BY <1>1, <2>2, PickUpStep DEF IInv, SessionInv
    <2>3. CASE UNCHANGED <<dogs, loots>>
      BY <1>1, <2>3 DEF IInv, SessionInv
    <2> QED
      BY <2>1, <2>2, <2>3 DEF Gather
  <1> QED
    BY <1>1, <1>2 DEF IInv, TickInv, FreshInv, SavedInv, CompleteInv, Complete

\* Dogs that leave take their things out of the game.
LEMMA EndTickStep ==
    ASSUME IInv, NEW retired \in SUBSET Live(dogs), EndTick(retired)
    PROVE  IInv'
  <1> USE DEF session, loop, ghosts
  <1>1. /\ UNCHANGED <<loots, loot_id_incr, saved, made, fresh>> /\ pc' = "idle"
        /\ Live(dogs') = Live(dogs) \ retired
        /\ \A b \in Live(dogs') : dogs'[b] = dogs[b]
        /\ dogs' = [i \in Live(dogs') |-> dogs'[i]]
        /\ left' = left \cup UNION {BagOf(dogs[id]) \cup dogs[id].delivered : id \in retired}
    BY DEF EndTick, Live
  <1>2. /\ Typed(dogs, loots, made, left) /\ Numbered(dogs, loots, made, left)
        /\ Packed(dogs) /\ Apart(dogs, loots, left)
    BY DEF IInv, SessionInv, InOrder
  <1>3. ASSUME NEW item
        PROVE  item \in Carried(dogs') \cup Delivered(dogs') \cup left'
                  <=> item \in Carried(dogs) \cup Delivered(dogs) \cup left
    <2>1. item \in Carried(dogs') \cup Delivered(dogs') <=>
             \E b \in Live(dogs) \ retired : item \in BagOf(dogs[b]) \cup dogs[b].delivered
      BY <1>1 DEF Carried, Delivered
    <2>2. item \in Carried(dogs) \cup Delivered(dogs) <=>
             \E b \in Live(dogs) : item \in BagOf(dogs[b]) \cup dogs[b].delivered
      BY DEF Carried, Delivered
    <2>3. item \in left' <=> item \in left \/
             \E b \in retired : item \in BagOf(dogs[b]) \cup dogs[b].delivered
      BY <1>1
    <2> QED
      BY <2>1, <2>2, <2>3
  <1>4. Everything(dogs', loots, left') = Everything(dogs, loots, left)
    BY <1>3 DEF Everything
  <1>5. Typed(dogs', loots, made, left')
    <2>1. \A b \in Live(dogs) : BagOf(dogs[b]) \subseteq Item
      BY <1>2, BagTyped DEF Typed
    <2>2. left' \subseteq Item
      BY <1>1, <1>2, <2>1 DEF Typed
    <2> QED
      BY <1>1, <1>2, <2>2 DEF Typed
  <1>6. Packed(dogs')
    BY <1>1, <1>2 DEF Packed
  <1>7. Apart(dogs', loots, left')
    BY <1>1, <1>2, <1>3 DEF Apart
  <1>8. SessionInv'
    BY <1>1, <1>2, <1>4, <1>5, <1>6, <1>7 DEF SessionInv, InOrder, Numbered
  <1> QED
    BY <1>1, <1>4, <1>8 DEF IInv, TickInv, FreshInv, SavedInv, CompleteInv, Complete

-----------------------------------------------------------------------------
LEMMA InitInv == Init => IInv
  <1> SUFFICES ASSUME Init PROVE IInv
    OBVIOUS
  <1>1. InOrder(dogs, loots, made, left) /\ Complete(dogs, loots, made, left)
    BY EmptyOrder DEF Init
  <1>2. OnMap(loots) = {}
    BY DEF Init, OnMap, NoLoot
  <1> QED
    BY <1>1, <1>2 DEF Init, IInv, TickInv, FreshInv, SessionInv, SavedInv, CompleteInv

LEMMA StepInv == IInv /\ [Next]_vars => IInv'
  <1> SUFFICES ASSUME IInv, [Next]_vars PROVE IInv'
    OBVIOUS
  <1>1. CASE UNCHANGED vars
    BY <1>1 DEF vars, session, loop, ghosts, IInv, TickInv, FreshInv, SessionInv, SavedInv,
                CompleteInv
  <1> QED
    BY <1>1, AddDogStep, BackUpStep, RestartStep, GenerateStep, GatherStep, EndTickStep DEF Next

LEMMA Invariant == Spec => []IInv
  BY InitInv, StepInv, PTL DEF Spec

\* A piece of loot is in one place, whatever the order of the events in a tick, and
\* whenever the process ends and starts again.
THEOREM EachInOnePlace == Spec => []OnePlace
  <1>1. IInv => OnePlace
    BY DEF IInv, SessionInv, InOrder, Packed, Apart, OnePlace
  <1> QED
    BY <1>1, Invariant, PTL

\* No piece disappears, as long as no restore has set the counter of ids to one in use.
THEOREM NoneIsLost == Spec => []NothingLost
  <1>1. IInv => NothingLost
    BY DEF IInv, CompleteInv, Complete, Everything, NothingLost
  <1> QED
    BY <1>1, Invariant, PTL

-----------------------------------------------------------------------------
(* The value of a set of pieces.  ScoreOf adds them up in the order of       *)
(* CHOOSE; that the order does not matter is proved by a smallest set for    *)
(* which it would.                                                           *)

LEMMA SmallestSet ==
    ASSUME NEW S, IsFiniteSet(S), NEW B \in SUBSET SUBSET S, B # {}
    PROVE  \E T \in B : \A U \in B : U \subseteq T => U = T
  <1>1. B \subseteq FiniteSubsetsOf(S)
    BY FS_Subset DEF FiniteSubsetsOf
  <1>2. PICK T \in B : \A U \in B : ~ (<<U, T>> \in StrictSubsetOrdering(S))
    BY <1>1, FS_StrictSubsetOrderingWellFounded, WFMin
  <1> QED
    BY <1>2 DEF StrictSubsetOrdering

Worth(item) == Value[item.type]
First(S) == CHOOSE item \in S : TRUE

\* What the fold computes, for every subset of S.
IsSum(sum, S) ==
    sum = [T \in SUBSET S |-> IF T = {} THEN 0 ELSE Worth(First(T)) + sum[T \ {First(T)}]]

LEMMA FirstOf == ASSUME NEW S, S # {} PROVE First(S) \in S
  BY DEF First

\* Two such sums agree where both are defined.
LEMMA SumsAgree ==
    ASSUME NEW S, IsFiniteSet(S), NEW f, NEW g, NEW R, S \subseteq R,
           IsSum(f, S), IsSum(g, R)
    PROVE  \A T \in SUBSET S : f[T] = g[T]
  <1> DEFINE B == {T \in SUBSET S : f[T] # g[T]}
  <1> SUFFICES ASSUME B # {} PROVE FALSE
    OBVIOUS
  <1>1. PICK T \in B : \A U \in B : U \subseteq T => U = T
    <2>1. B \in SUBSET SUBSET S
      OBVIOUS
    <2> HIDE DEF B
    <2> QED
      BY <2>1, SmallestSet
  <1>2. T \in SUBSET S /\ f[T] # g[T]
    OBVIOUS
  <1>3. T # {}
    BY <1>2 DEF IsSum
  <1> DEFINE U == T \ {First(T)}
  <1>4. U \in SUBSET S /\ U # T
    BY <1>2, <1>3, FirstOf
  <1>5. f[U] = g[U]
    BY <1>1, <1>4
  <1>6. f[T] = Worth(First(T)) + f[U] /\ g[T] = Worth(First(T)) + g[U]
    BY <1>2, <1>3 DEF IsSum
  <1> QED
    BY <1>2, <1>5, <1>6

LEMMA SumExists ==
    ASSUME NEW S, IsFiniteSet(S)
    PROVE  \E f : IsSum(f, S)
  <1> DEFINE B == {T \in SUBSET S : ~\E f : IsSum(f, T)}
  <1>1. B = {}
    <2> SUFFICES ASSUME B # {} PROVE FALSE
      OBVIOUS
    <2>1. PICK T \in B : \A U \in B : U \subseteq T => U = T
      <3>1. B \in SUBSET SUBSET S
        OBVIOUS
      <3> HIDE DEF B
      <3> QED
        BY <3>1, SmallestSet
    <2>2. T \in SUBSET S /\ ~\E f : IsSum(f, T)
      OBVIOUS
    <2> DEFINE F(U) == CHOOSE f : IsSum(f, U)
               Rest(U) == U \ {First(U)}
               g == [U \in SUBSET T |-> IF U = {} THEN 0
                                        ELSE Worth(First(U)) + F(Rest(U))[Rest(U)]]
    <2>3. ASSUME NEW U \in SUBSET T, U # T PROVE IsSum(F(U), U) /\ IsFiniteSet(U)
      <3>1. U \notin B
        BY <2>1, <2>3
      <3>2. \E f : IsSum(f, U)
        BY <2>2, <3>1
      <3> QED
        BY <2>2, <3>2, FS_Subset
    <2>4. ASSUME NEW U \in SUBSET T, U # {} PROVE Rest(U) \in SUBSET T /\ Rest(U) # T
      BY <2>4, FirstOf
    <2>5. ASSUME NEW U \in SUBSET T, U # T PROVE g[U] = F(U)[U]
      <3>1. CASE U = {}
        <4> HIDE DEF F
        <4>1. IsSum(F(U), U) /\ U \in SUBSET U
          BY <2>3, <2>5
        <4>2. F(U)[U] = 0
          BY <3>1, <4>1 DEF IsSum
        <4> QED
          BY <3>1, <4>2
      <3>2. CASE U # {}
        <4> HIDE DEF F
        <4>1. g[U] = Worth(First(U)) + F(Rest(U))[Rest(U)]
          BY <3>2
        <4>2. F(U)[U] = Worth(First(U)) + F(U)[Rest(U)]
          BY <2>3, <2>5, <3>2 DEF IsSum
        <4>3. IsSum(F(U), U) /\ IsSum(F(Rest(U)), Rest(U)) /\ IsFiniteSet(Rest(U))
          BY <2>3, <2>4, <2>5, <3>2
        <4>4. F(Rest(U))[Rest(U)] = F(U)[Rest(U)]
          BY <4>3, SumsAgree
        <4> QED
          BY <4>1, <4>2, <4>4
      <3> QED
        BY <3>1, <3>2
    <2>6. ASSUME NEW U \in SUBSET T
          PROVE  g[U] = IF U = {} THEN 0 ELSE Worth(First(U)) + g[Rest(U)]
      <3> HIDE DEF F
      <3>1. CASE U = {}
        BY <3>1
      <3>2. CASE U # {}
        <4>1. g[Rest(U)] = F(Rest(U))[Rest(U)]
          BY <2>4, <2>5, <3>2
        <4> QED
          BY <3>2, <4>1
      <3> QED
        BY <3>1, <3>2
    <2>7. IsSum(g, T)
      <3>1. g = [U \in SUBSET T |-> g[U]]
        OBVIOUS
      <3> HIDE DEF g
      <3> QED
        BY <2>6, <3>1 DEF IsSum
    <2> QED
      BY <2>2, <2>7
  <1>2. S \notin B
    BY <1>1
  <1> QED
    BY <1>2

LEMMA ScoreIsSum ==
    ASSUME NEW S, IsFiniteSet(S)
    PROVE  \E f : IsSum(f, S) /\ ScoreOf(S) = f[S]
  BY SumExists DEF IsSum, Worth, First, ScoreOf, MapThenSumSet, MapThenFoldSet

LEMMA ScoreEmpty == ScoreOf({}) = 0
  BY ScoreIsSum, FS_EmptySet DEF IsSum

LEMMA ScoreFirst ==
    ASSUME NEW S, IsFiniteSet(S), S # {}
    PROVE  ScoreOf(S) = Worth(First(S)) + ScoreOf(S \ {First(S)})
  <1> DEFINE R == S \ {First(S)}
  <1>1. PICK f : IsSum(f, S) /\ ScoreOf(S) = f[S]
    BY ScoreIsSum
  <1>2. IsFiniteSet(R) /\ R \subseteq S
    BY FS_Subset
  <1>3. PICK g : IsSum(g, R) /\ ScoreOf(R) = g[R]
    BY <1>2, ScoreIsSum
  <1>4. f[S] = Worth(First(S)) + f[R]
    BY <1>1 DEF IsSum
  <1>5. g[R] = f[R]
    BY <1>1, <1>2, <1>3, SumsAgree
  <1> QED
    BY <1>1, <1>3, <1>4, <1>5

LEMMA ScoreTyped ==
    ASSUME NEW S \in SUBSET Item, IsFiniteSet(S)
    PROVE  ScoreOf(S) \in Nat
  <1> DEFINE B == {T \in SUBSET S : ScoreOf(T) \notin Nat}
  <1> SUFFICES ASSUME B # {} PROVE FALSE
    OBVIOUS
  <1>1. PICK T \in B : \A U \in B : U \subseteq T => U = T
    <2>1. B \in SUBSET SUBSET S
      OBVIOUS
    <2> HIDE DEF B
    <2> QED
      BY <2>1, SmallestSet
  <1>2. T \in SUBSET S /\ ScoreOf(T) \notin Nat
    OBVIOUS
  <1>3. T # {}
    BY <1>2, ScoreEmpty
  <1> DEFINE U == T \ {First(T)}
  <1>4. U \in SUBSET S /\ U # T /\ First(T) \in Item
    BY <1>2, <1>3, FirstOf
  <1>5. ScoreOf(U) \in Nat
    BY <1>1, <1>4
  <1>6. Worth(First(T)) \in Nat
    BY <1>4, ValueAssumption DEF Worth, Item
  <1>7. ScoreOf(T) = Worth(First(T)) + ScoreOf(U)
    BY <1>2, <1>3, FS_Subset, ScoreFirst
  <1> QED
    BY <1>2, <1>5, <1>6, <1>7

\* Any piece may be added last.
LEMMA ScoreAny ==
    ASSUME NEW S \in SUBSET Item, IsFiniteSet(S), NEW y \in S
    PROVE  ScoreOf(S) = Worth(y) + ScoreOf(S \ {y})
  <1> DEFINE Good(T) == \A z \in T : ScoreOf(T) = Worth(z) + ScoreOf(T \ {z})
             B == {T \in SUBSET S : ~Good(T)}
  <1>1. B = {}
    <2> SUFFICES ASSUME B # {} PROVE FALSE
      OBVIOUS
    <2>1. PICK T \in B : \A U \in B : U \subseteq T => U = T
      <3>1. B \in SUBSET SUBSET S
        OBVIOUS
      <3> HIDE DEF B
      <3> QED
        BY <3>1, SmallestSet
    <2>2. T \in SUBSET S /\ ~Good(T)
      OBVIOUS
    <2>3. PICK z \in T : ScoreOf(T) # Worth(z) + ScoreOf(T \ {z})
      BY <2>2
    <2> DEFINE x == First(T)
    <2>4. x \in T /\ IsFiniteSet(T) /\ ScoreOf(T) = Worth(x) + ScoreOf(T \ {x})
      BY <2>2, FS_Subset, FirstOf, ScoreFirst
    <2> HIDE DEF x
    <2>5. x # z
      BY <2>3, <2>4
    <2>6. ASSUME NEW w \in T PROVE Good(T \ {w})
      <3>1. T \ {w} \in SUBSET S /\ T \ {w} # T
        BY <2>2
      <3>2. T \ {w} \notin B
        <4> HIDE DEF B
        <4> QED
          BY <2>1, <3>1
      <3> HIDE DEF Good
      <3> QED
        BY <3>1, <3>2
    <2>7. ScoreOf(T \ {x}) = Worth(z) + ScoreOf((T \ {x}) \ {z})
      BY <2>4, <2>5, <2>6
    <2>8. ScoreOf(T \ {z}) = Worth(x) + ScoreOf((T \ {z}) \ {x})
      BY <2>4, <2>5, <2>6
    <2>9. (T \ {x}) \ {z} = (T \ {z}) \ {x}
      OBVIOUS
    <2>10. ScoreOf((T \ {x}) \ {z}) \in Nat /\ Worth(x) \in Nat /\ Worth(z) \in Nat
      <3>1. (T \ {x}) \ {z} \in SUBSET Item /\ x \in Item /\ z \in Item
        BY <2>2, <2>4
      <3>2. IsFiniteSet((T \ {x}) \ {z})
        BY <2>4, FS_Subset
      <3>3. Worth(x) \in Nat /\ Worth(z) \in Nat
        BY <3>1, ValueAssumption DEF Worth, Item
      <3> QED
        BY <3>1, <3>2, <3>3, ScoreTyped
    <2> QED
      BY <2>3, <2>4, <2>7, <2>8, <2>9, <2>10
  <1>2. S \notin B
    BY <1>1
  <1> QED
    BY <1>2

\* What two sets that share nothing are worth together.
LEMMA ScoreUnion ==
    ASSUME NEW A \in SUBSET Item, NEW C \in SUBSET Item, IsFiniteSet(A), IsFiniteSet(C),
           A \cap C = {}
    PROVE  ScoreOf(A \cup C) = ScoreOf(A) + ScoreOf(C)
  <1> DEFINE Good(T) == ScoreOf(A \cup T) = ScoreOf(A) + ScoreOf(T)
             B == {T \in SUBSET C : ~Good(T)}
  <1>1. B = {}
    <2> SUFFICES ASSUME B # {} PROVE FALSE
      OBVIOUS
    <2>1. PICK T \in B : \A U \in B : U \subseteq T => U = T
      <3>1. B \in SUBSET SUBSET C
        OBVIOUS
      <3> HIDE DEF B
      <3> QED
        BY <3>1, SmallestSet
    <2>2. T \in SUBSET C /\ ~Good(T)
      OBVIOUS
    <2>3. ScoreOf(A) \in Nat
      BY ScoreTyped
    <2>4. T # {}
      <3>1. A \cup {} = A
        OBVIOUS
      <3> QED
        BY <2>2, <2>3, <3>1, ScoreEmpty
    <2>5. PICK z \in T : TRUE
      BY <2>4
    <2>6. ScoreOf(A \cup (T \ {z})) = ScoreOf(A) + ScoreOf(T \ {z})
      <3>1. T \ {z} \in SUBSET C /\ T \ {z} # T
        BY <2>2
      <3>2. T \ {z} \notin B
        <4> HIDE DEF B
        <4> QED
          BY <2>1, <3>1
      <3> QED
        BY <3>1, <3>2
    <2>7. IsFiniteSet(T) /\ IsFiniteSet(A \cup T) /\ IsFiniteSet(T \ {z})
      BY <2>2, FS_Subset, FS_Union
    <2>8. ScoreOf(T) = Worth(z) + ScoreOf(T \ {z})
      BY <2>2, <2>7, ScoreAny
    <2>9. ScoreOf(A \cup T) = Worth(z) + ScoreOf(A \cup (T \ {z}))
      <3>1. (A \cup T) \ {z} = A \cup (T \ {z})
        BY <2>2
      <3> QED
        BY <2>2, <2>7, <3>1, ScoreAny
    <2>10. ScoreOf(T \ {z}) \in Nat /\ Worth(z) \in Nat
      BY <2>2, <2>7, ScoreTyped, ValueAssumption DEF Worth, Item
    <2> QED
      BY <2>2, <2>3, <2>6, <2>8, <2>9, <2>10
  <1>2. C \notin B
    BY <1>1
  <1> QED
    BY <1>2

-----------------------------------------------------------------------------
(* Scores.  Beside the invariant above, which keeps bag and deliveries of a  *)
(* dog apart, a dog has the value of what it has delivered, in the game and  *)
(* in the state file.                                                        *)

Earned(ds) == \A id \in Live(ds) : /\ IsFiniteSet(ds[id].delivered)
                                   /\ ds[id].score = ScoreOf(ds[id].delivered)

ScoreInv == Earned(dogs) /\ (saved # None => Earned(saved.dogs))

LEMMA OfficeEarns ==
    ASSUME InOrder(dogs, loots, made, left), NEW id \in Live(dogs),
           IsFiniteSet(dogs[id].delivered), dogs[id].score = ScoreOf(dogs[id].delivered)
    PROVE  LET new == AtOffice(dogs[id])
           IN IsFiniteSet(new.delivered) /\ new.score = ScoreOf(new.delivered)
  <1> DEFINE d == dogs[id]
             new == AtOffice(d)
  <1>1. /\ new.delivered = d.delivered \cup BagOf(d)
        /\ new.score = d.score + ScoreOf(BagOf(d))
    BY DEF AtOffice
  <1>2. /\ d.delivered \in SUBSET Item /\ BagOf(d) \in SUBSET Item
        /\ IsFiniteSet(BagOf(d)) /\ d.delivered \cap BagOf(d) = {}
    BY BagTyped DEF InOrder, Typed, Packed, Apart
  <1> HIDE DEF new
  <1>3. IsFiniteSet(d.delivered \cup BagOf(d))
    BY <1>2, FS_Union
  <1>4. ScoreOf(d.delivered \cup BagOf(d)) = d.score + ScoreOf(BagOf(d))
    BY <1>2, ScoreUnion
  <1> QED
    BY <1>1, <1>3, <1>4 DEF new

LEMMA ScoreStep ==
    ASSUME IInv, ScoreInv, [Next]_vars
    PROVE  ScoreInv'
  <1> USE DEF session, loop, ghosts
  <1>1. ASSUME NEW id \in DogIds, AddDog(id) PROVE ScoreInv'
    <2>1. /\ saved' = saved /\ Live(dogs') = Live(dogs) \cup {id}
          /\ dogs'[id] = NewDog /\ \A b \in Live(dogs) : dogs'[b] = dogs[b]
      BY <1>1 DEF AddDog, Live
    <2>2. NewDog.delivered = {} /\ NewDog.score = 0
      BY DEF NewDog
    <2> QED
      BY <2>1, <2>2, ScoreEmpty, FS_EmptySet DEF ScoreInv, Earned
  <1>2. CASE BackUp
    <2>1. dogs' = dogs /\ (saved' # None => saved'.dogs = ReprOfAll(dogs))
      BY <1>2 DEF BackUp
    <2>2. /\ Live(ReprOfAll(dogs)) = Live(dogs)
          /\ \A id \in Live(dogs) : /\ ReprOfAll(dogs)[id].delivered = dogs[id].delivered
                                    /\ ReprOfAll(dogs)[id].score = dogs[id].score
      BY DEF ReprOfAll, Repr, Live
    <2> QED
      BY <2>1, <2>2 DEF ScoreInv, Earned
  <1>3. CASE Restart
    <2>1. Live(NoDogs) = {}
      BY DEF NoDogs, Live
    <2>2. saved' = saved /\ dogs' = IF saved = None THEN NoDogs ELSE saved.dogs
      BY <1>3 DEF Restart
    <2> QED
      BY <2>1, <2>2 DEF ScoreInv, Earned
  <1>4. ASSUME NEW n \in 0..Shortage, NEW kinds \in [1..n -> Types], GenerateLoot(kinds)
        PROVE  ScoreInv'
    BY <1>4 DEF GenerateLoot, ScoreInv, Earned, Live
  <1>5. ASSUME NEW e \in events, Gather(e) PROVE ScoreInv'
    <2> DEFINE id == e[1]
    <2>1. id \in Live(dogs) /\ saved' = saved
      BY <1>5, GathererLives DEF Gather
    <2>2. InOrder(dogs, loots, made, left)
      BY DEF IInv, SessionInv
    <2>3. ASSUME NEW new, dogs' = [dogs EXCEPT ![id] = new],
                 IsFiniteSet(new.delivered), new.score = ScoreOf(new.delivered)
          PROVE  ScoreInv'
      <3>1. Live(dogs') = Live(dogs) /\ dogs'[id] = new
            /\ \A b \in Live(dogs) \ {id} : dogs'[b] = dogs[b]
        BY <2>1, <2>2, <2>3 DEF InOrder, Typed, Live
      <3> QED
        BY <2>1, <2>3, <3>1 DEF ScoreInv, Earned
    <2>4. CASE dogs' = [dogs EXCEPT ![id] = AtOffice(dogs[id])]
      BY <2>1, <2>2, <2>3, <2>4, OfficeEarns DEF ScoreInv, Earned
    <2>5. CASE dogs' = [dogs EXCEPT ![id] = AtLoot(dogs[id], e[2])]
      <3>1. /\ AtLoot(dogs[id], e[2]).delivered = dogs[id].delivered
            /\ AtLoot(dogs[id], e[2]).score = dogs[id].score
        BY DEF AtLoot
      <3>2. /\ IsFiniteSet(dogs[id].delivered)
            /\ dogs[id].score = ScoreOf(dogs[id].delivered)
        BY <2>1 DEF ScoreInv, Earned
      <3> HIDE DEF id
      <3> QED
        BY <2>3, <2>5, <3>1, <3>2
    <2>6. CASE dogs' = dogs
      BY <2>1, <2>6 DEF ScoreInv
    <2> QED
      BY <1>5, <2>4, <2>5, <2>6 DEF Gather
  <1>6. ASSUME NEW retired \in SUBSET Live(dogs), EndTick(retired) PROVE ScoreInv'
    <2>1. /\ saved' = saved /\ Live(dogs') = Live(dogs) \ retired
          /\ \A b \in Live(dogs') : dogs'[b] = dogs[b]
      BY <1>6 DEF EndTick, Live
    <2> QED
      BY <2>1 DEF ScoreInv, Earned
  <1>7. CASE UNCHANGED vars
    BY <1>7 DEF vars, ScoreInv
  <1> QED
    BY <1>1, <1>2, <1>3, <1>4, <1>5, <1>6, <1>7 DEF Next

\* A dog's score is the value of what it has delivered, whatever the order of the events,
\* whatever the kinds of loot are worth and however often the game is restored.
THEOREM ScoresEarned == Spec => []ScoreIsEarned
  <1>1. Init => ScoreInv
    <2>1. Live(NoDogs) = {}
      BY DEF NoDogs, Live
    <2> QED
      BY <2>1 DEF Init, ScoreInv, Earned
  <1>2. IInv /\ ScoreInv /\ [Next]_vars => ScoreInv'
    BY ScoreStep
  <1>3. ScoreInv => ScoreIsEarned
    BY DEF ScoreInv, Earned, ScoreIsEarned
  <1> QED
    BY <1>1, <1>2, <1>3, Invariant, PTL DEF Spec

-----------------------------------------------------------------------------
(* The generator of loot.  Powers are defined for every exponent, and what *)
(* holds of all of them is proved by the least one for which it would not. *)

\* A set of numbers has a least one.
LEMMA LeastNumber ==
    ASSUME NEW S \in SUBSET Nat, S # {}
    PROVE  \E m \in S : \A k \in S : m <= k
  <1>1. PICK n \in S : TRUE
    OBVIOUS
  <1>2. CASE \A k \in S : n <= k
    BY <1>2
  <1>3. CASE \E k \in S : k < n
    <2> DEFINE R == 0..n
               B == {0..k : k \in S \cap R}
    <2>1. IsFiniteSet(R) /\ B \in SUBSET SUBSET R /\ B # {}
      <3>1. \A k \in R : 0..k \subseteq R
        BY <1>1
      <3>2. \E k \in S : k \in R
        BY <1>1, <1>3
      <3>3. IsFiniteSet(R)
        BY <1>1, FS_Interval
      <3> HIDE DEF R
      <3> QED
        BY <3>1, <3>2, <3>3
    <2>2. PICK T \in B : \A U \in B : U \subseteq T => U = T
      <3> HIDE DEF B, R
      <3> QED
        BY <2>1, SmallestSet
    <2>3. PICK m \in S \cap 0..n : T = 0..m
      OBVIOUS
    <2>4. ASSUME NEW k \in S, k < m PROVE FALSE
      <3>1. k \in 0..n /\ 0..k \subseteq 0..m /\ m \in 0..m /\ m \notin 0..k
        BY <2>3, <2>4
      <3>2. 0..k \in B
        BY <3>1
      <3> HIDE DEF B
      <3> QED
        BY <2>2, <2>3, <3>1, <3>2
    <2> QED
      BY <2>3, <2>4
  <1> QED
    BY <1>2, <1>3

\* The powers of a base up to an exponent.
IsPower(f, b, m) == f = [n \in 0..m |-> IF n = 0 THEN 1 ELSE b * f[n-1]]

LEMMA PowersAgree ==
    ASSUME NEW b \in Nat, NEW m \in Nat, NEW k \in 0..m, NEW f, NEW g,
           IsPower(f, b, k), IsPower(g, b, m)
    PROVE  \A i \in 0..k : f[i] = g[i]
  <1> DEFINE B == {i \in 0..k : f[i] # g[i]}
  <1> SUFFICES ASSUME B # {} PROVE FALSE
    OBVIOUS
  <1>1. PICK i \in B : \A j \in B : i <= j
    <2>1. B \in SUBSET Nat
      OBVIOUS
    <2> HIDE DEF B
    <2> QED
      BY <2>1, LeastNumber
  <1>2. i \in 0..k /\ i \in 0..m /\ f[i] # g[i]
    OBVIOUS
  <1>3. i # 0
    BY <1>2 DEF IsPower
  <1>4. i - 1 \in 0..k /\ i - 1 < i
    BY <1>2, <1>3
  <1>5. f[i-1] = g[i-1]
    BY <1>1, <1>4
  <1>6. f[i] = b * f[i-1] /\ g[i] = b * g[i-1]
    BY <1>2, <1>3 DEF IsPower
  <1> QED
    BY <1>2, <1>5, <1>6

LEMMA PowersTo ==
    ASSUME NEW b \in Nat, NEW n \in Nat
    PROVE  \E f : IsPower(f, b, n)
  <1> DEFINE B == {m \in Nat : ~\E f : IsPower(f, b, m)}
  <1> SUFFICES ASSUME B # {} PROVE FALSE
    OBVIOUS
  <1>1. PICK m \in B : \A k \in B : m <= k
    <2>1. B \in SUBSET Nat
      OBVIOUS
    <2> HIDE DEF B
    <2> QED
      BY <2>1, LeastNumber
  <1>2. m \in Nat /\ ~\E f : IsPower(f, b, m)
    OBVIOUS
  <1>3. CASE m = 0
    <2>1. IsPower([i \in 0..0 |-> 1], b, 0)
      BY DEF IsPower
    <2> QED
      BY <1>2, <1>3, <2>1
  <1>4. CASE m > 0
    <2>1. m - 1 \in Nat /\ m - 1 < m
      BY <1>2, <1>4
    <2>2. PICK f : IsPower(f, b, m - 1)
      BY <1>1, <2>1
    <2> DEFINE g == [i \in 0..m |-> IF i = m THEN b * f[m-1] ELSE f[i]]
    <2>3. ASSUME NEW i \in 0..m PROVE g[i] = IF i = 0 THEN 1 ELSE b * g[i-1]
      <3>1. CASE i = m
        <4>1. m - 1 \in 0..m /\ m - 1 # m
          BY <1>2, <1>4
        <4>2. g[m-1] = f[m-1]
          BY <4>1
        <4> QED
          BY <1>4, <3>1, <4>2
      <3>2. CASE i \in 1..m-1
        <4>1. g[i] = f[i] /\ g[i-1] = f[i-1]
          BY <3>2
        <4> QED
          BY <1>2, <2>2, <3>2, <4>1 DEF IsPower
      <3>3. CASE i = 0
        <4>1. f[0] = 1
          BY <2>1, <2>2 DEF IsPower
        <4> QED
          BY <1>4, <3>3, <4>1
      <3> QED
        BY <1>2, <3>1, <3>2, <3>3
    <2>4. IsPower(g, b, m)
      <3>1. g = [i \in 0..m |-> g[i]]
        OBVIOUS
      <3> HIDE DEF g
      <3> QED
        BY <2>3, <3>1 DEF IsPower
    <2> QED
      BY <1>2, <2>4
  <1> QED
    BY <1>2, <1>3, <1>4

\* The powers of a base.
LEMMA PowersUnfold ==
    ASSUME NEW b \in Nat
    PROVE  Powers(b) = [n \in Nat |-> IF n = 0 THEN 1 ELSE b * Powers(b)[n-1]]
  <1> DEFINE F(m) == CHOOSE f : IsPower(f, b, m)
             power == [n \in Nat |-> F(n)[n]]
  <1>1. \A m \in Nat : IsPower(F(m), b, m)
    BY PowersTo
  <1>2. ASSUME NEW n \in Nat PROVE power[n] = IF n = 0 THEN 1 ELSE b * power[n-1]
    <2> HIDE DEF F
    <2>1. CASE n = 0
      <3>1. IsPower(F(0), b, 0)
        BY <1>1
      <3>2. F(0)[0] = 1
        BY <3>1 DEF IsPower
      <3> QED
        BY <2>1, <3>2
    <2>2. CASE n # 0
      <3>1. n - 1 \in Nat /\ n - 1 \in 0..n /\ n - 1 \in 0..(n-1) /\ n \in 0..n
        BY <2>2
      <3>2. IsPower(F(n), b, n) /\ IsPower(F(n-1), b, n-1)
        BY <1>1, <3>1
      <3>3. F(n-1)[n-1] = F(n)[n-1]
        BY <3>1, <3>2, PowersAgree
      <3>4. F(n)[n] = b * F(n)[n-1]
        BY <2>2, <3>1, <3>2 DEF IsPower
      <3> QED
        BY <2>2, <3>1, <3>3, <3>4
    <2> QED
      BY <2>1, <2>2
  <1>3. power = [n \in Nat |-> IF n = 0 THEN 1 ELSE b * power[n-1]]
    <2>1. power = [n \in Nat |-> power[n]]
      OBVIOUS
    <2> HIDE DEF power
    <2> QED
      BY <1>2, <2>1
  <1> HIDE DEF power
  <1> QED
    BY <1>3 DEF Powers

\* The chance of a time without loot is that of a shorter time and then some more.
LEMMA PowersGrow ==
    ASSUME NEW b \in Nat, NEW n \in Nat
    PROVE  Powers(b)[0] = 1 /\ Powers(b)[n+1] = b * Powers(b)[n]
  <1>1. n + 1 \in Nat /\ n + 1 # 0 /\ n + 1 - 1 = n
    OBVIOUS
  <1> DEFINE p == Powers(b)
  <1>2. p = [i \in Nat |-> IF i = 0 THEN 1 ELSE b * p[i-1]]
    BY PowersUnfold
  <1> HIDE DEF p
  <1>3. p[0] = 1 /\ p[n+1] = b * p[n]
    BY <1>1, <1>2
  <1> QED
    BY <1>3 DEF p

\* A time without loot is no less likely than none at all, and not impossible to miss.
LEMMA Chances ==
    ASSUME NEW n \in Nat
    PROVE  NoneIn(n) \in Nat /\ AllIn(n) \in Nat \ {0} /\ NoneIn(n) <= AllIn(n)
  <1> DEFINE a == Kept[1]
             b == Kept[2]
             p == Powers(a)
             q == Powers(b)
             Good(i) == p[i] \in Nat /\ q[i] \in Nat \ {0} /\ p[i] <= q[i]
             B == {i \in Nat : ~Good(i)}
  <1>1. a \in Nat /\ b \in Nat \ {0} /\ a < b
    BY KeptAssumption
  <1>2. B = {}
    <2> SUFFICES ASSUME B # {} PROVE FALSE
      OBVIOUS
    <2>1. PICK i \in B : \A j \in B : i <= j
      <3>1. B \in SUBSET Nat
        OBVIOUS
      <3> HIDE DEF B
      <3> QED
        BY <3>1, LeastNumber
    <2>2. i \in Nat /\ ~Good(i)
      OBVIOUS
    <2> HIDE DEF a, b, p, q
    <2>3. i # 0
      <3>1. p[0] = 1 /\ q[0] = 1
        BY <1>1, PowersGrow DEF p, q
      <3> QED
        BY <2>2, <3>1
    <2> DEFINE j == i - 1
    <2>4. j \in Nat /\ Good(j) /\ i = j + 1
      BY <2>1, <2>2, <2>3
    <2> HIDE DEF j
    <2>5. p[i] = a * p[j] /\ q[i] = b * q[j]
      BY <1>1, <2>4, PowersGrow DEF p, q
    <2> DEFINE x == p[j]
               y == q[j]
    <2>6. x \in Nat /\ y \in Nat /\ y # 0 /\ x <= y
      BY <2>4
    <2> HIDE DEF x, y
    <2>7. a * x \in Nat /\ b * y \in Nat /\ b * y # 0 /\ a * x <= b * y
      <3>1. a * x <= a * y
        BY <1>1, <2>6, SMT
      <3>2. a * y <= b * y
        BY <1>1, <2>6, SMT
      <3>3. a * x \in Nat /\ b * y \in Nat /\ a * y \in Nat /\ b * y # 0
        BY <1>1, <2>6, SMT
      <3> QED
        BY <3>1, <3>2, <3>3
    <2> QED
      BY <2>2, <2>5, <2>7 DEF x, y
  <1>3. Good(n)
    BY <1>2
  <1> QED
    BY <1>3 DEF NoneIn, AllIn

\* A chance of less than one half stays so in a longer time.
LEMMA ChancesShrink ==
    ASSUME NEW n \in Nat, NEW m \in 0..n, 2 * NoneIn(n) > AllIn(n)
    PROVE  2 * NoneIn(m) > AllIn(m)
  <1> DEFINE Half(i) == 2 * NoneIn(i) > AllIn(i)
             B == {k \in 0..n : ~Half(n - k)}
  <1>1. B = {}
    <2> SUFFICES ASSUME B # {} PROVE FALSE
      OBVIOUS
    <2>1. PICK k \in B : \A j \in B : k <= j
      <3>1. B \in SUBSET Nat
        OBVIOUS
      <3> HIDE DEF B
      <3> QED
        BY <3>1, LeastNumber
    <2>2. k \in 0..n /\ ~Half(n - k)
      OBVIOUS
    <2>3. k # 0
      <3>1. n - 0 = n
        OBVIOUS
      <3> QED
        BY <2>2, <3>1
    <2> DEFINE i == n - k
    <2>4. i \in Nat /\ Half(i + 1) /\ ~Half(i)
      <3>1. k - 1 \in 0..n /\ k - 1 < k /\ n - (k - 1) = n - k + 1
        BY <2>2, <2>3
      <3>2. k - 1 \notin B
        BY <2>1, <3>1
      <3> QED
        BY <2>2, <3>1, <3>2
    <2> HIDE DEF i
    <2> DEFINE x == NoneIn(i)
               y == AllIn(i)
               a == Kept[1]
               b == Kept[2]
    <2>5. a \in Nat /\ b \in Nat /\ a < b /\ x \in Nat /\ y \in Nat
      BY <2>4, KeptAssumption, Chances
    <2>6. NoneIn(i + 1) = a * x /\ AllIn(i + 1) = b * y
      BY <2>4, <2>5, PowersGrow DEF NoneIn, AllIn
    <2>7. 2 * x <= y /\ 2 * (a * x) > b * y
      BY <2>4, <2>5, <2>6
    <2> HIDE DEF x, y, a, b
    <2>8. a * (2 * x) <= a * y
      BY <2>5, <2>7, SMT
    <2>9. a * y <= b * y
      BY <2>5, SMT
    <2>10. a * (2 * x) = 2 * (a * x) /\ a * x \in Nat /\ a * y \in Nat /\ b * y \in Nat
      BY <2>5, SMT
    <2> QED
      BY <2>7, <2>8, <2>9, <2>10
  <1>2. n - m \in 0..n /\ n - (n - m) = m
    OBVIOUS
  <1> QED
    BY <1>1, <1>2

\* The generator brings no more than is asked for, and nothing only while less than half
\* of a piece is due.
LEMMA AtMostShortage ==
    ASSUME NEW s \in Nat, NEW n \in Nat
    PROVE  /\ Generated(s, n) \in 0..s
           /\ s > 0 /\ Generated(s, n) = 0 => 2 * NoneIn(n) > AllIn(n)
  <1> DEFINE x == NoneIn(n)
             y == AllIn(n)
             g == Generated(s, n)
  <1>1. x \in Nat /\ y \in Nat /\ y > 0 /\ x <= y
    BY Chances
  <1>2. g = (2 * s * (y - x) + y) \div (2 * y)
    BY DEF Generated
  <1> HIDE DEF x, y, g
  <1> DEFINE num == 2 * s * (y - x) + y
             den == 2 * y
  <1>3. num \in Nat /\ den \in Nat /\ den > 0
    BY <1>1, SMT
  <1>4. num < (s + 1) * den
    <2>1. s * (y - x) <= s * y
      BY <1>1, SMT
    <2>2. /\ 2 * s * (y - x) = 2 * (s * (y - x)) /\ (s + 1) * den = 2 * (s * y) + 2 * y
          /\ s * y \in Nat /\ s * (y - x) \in Nat
      BY <1>1, SMT
    <2> QED
      BY <1>1, <2>1, <2>2
  <1>5. ASSUME s > 0, 2 * x <= y PROVE num >= den
    <2>1. y - x \in Nat /\ y - x <= s * (y - x)
      BY <1>1, <1>5, SMT
    <2>2. 2 * s * (y - x) = 2 * (s * (y - x)) /\ s * (y - x) \in Nat
      BY <1>1, SMT
    <2> QED
      BY <1>1, <1>5, <2>1, <2>2
  <1> HIDE DEF num, den
  <1>6. g = num \div den
    BY <1>2 DEF num, den
  <1>7. g \in Nat /\ g * den <= num /\ num < (g + 1) * den
    BY <1>3, <1>6, SMT
  <1>8. g <= s
    <2> SUFFICES ASSUME g >= s + 1 PROVE FALSE
      BY <1>7
    <2>1. (s + 1) * den <= g * den
      BY <1>3, <1>7, SMT
    <2>2. (s + 1) * den \in Nat /\ g * den \in Nat
      BY <1>3, <1>7, SMT
    <2> QED
      BY <1>3, <1>4, <1>7, <2>1, <2>2
  <1>9. s > 0 /\ g = 0 => 2 * x > y
    <2> SUFFICES ASSUME s > 0, g = 0, 2 * x <= y PROVE FALSE
      BY <1>1
    <2>1. num < den
      BY <1>3, <1>7
    <2> QED
      BY <1>3, <1>5, <2>1
  <1> QED
    BY <1>7, <1>8, <1>9 DEF g, x, y

\* A lack has lasted no longer than the generator has counted since it last made loot.
GeneratorInv == /\ time_without_loot \in Nat /\ short \in Nat
                /\ short <= time_without_loot
                /\ LackIsMet

LEMMA GeneratorStart == GeneratorInit => GeneratorInv
  <1>1. NoneIn(0) = 1 /\ AllIn(0) = 1
    <2>1. Kept[1] \in Nat /\ Kept[2] \in Nat /\ 0 \in Nat
      BY KeptAssumption
    <2> QED
      BY <2>1, PowersGrow DEF NoneIn, AllIn
  <1> QED
    BY <1>1 DEF GeneratorInit, GeneratorInv, LackIsMet

LEMMA CappedTyped ==
    ASSUME NEW n \in Nat
    PROVE  Capped(n) \in Nat /\ (Capped(n) = n \/ Capped(n) = LongEnough)
  BY KeptAssumption DEF Capped

\* Dogs are no more than ids of dogs.
LEMMA ShortageBound == SessionInv => Shortage \in 0..Cardinality(DogIds)
  <1> SUFFICES ASSUME SessionInv PROVE Shortage \in 0..Cardinality(DogIds)
    OBVIOUS
  <1>1. OnMap(loots) \subseteq LootIds /\ Live(dogs) \subseteq DogIds
    BY DEF OnMap, SessionInv, InOrder, Typed
  <1>2. /\ IsFiniteSet(OnMap(loots)) /\ Cardinality(Live(dogs)) <= Cardinality(DogIds)
        /\ IsFiniteSet(Live(dogs)) /\ IsFiniteSet(DogIds)
    BY <1>1, IdsAssumption, FS_Subset
  <1>3. /\ Cardinality(OnMap(loots)) \in Nat /\ Cardinality(Live(dogs)) \in Nat
        /\ Cardinality(DogIds) \in Nat
    BY <1>2, FS_CardinalityType
  <1> QED
    BY <1>2, <1>3 DEF Shortage

\* What one call of the generator does.
LEMMA GeneratedStep ==
    ASSUME IInv, GeneratorInv, NEW delta \in TickLengths, Generate(delta)
    PROVE  /\ \E n \in 0..Shortage : \E kinds \in [1..n -> Types] : GenerateLoot(kinds)
           /\ GeneratorInv'
  <1> DEFINE time == TimeAfter(delta)
             n == Generated(Shortage, time)
  <1>1. delta \in Nat /\ Shortage \in 0..Cardinality(DogIds) /\ Shortage \in Nat
    BY KeptAssumption, ShortageBound, ShortageTyped DEF IInv
  <1>2. time \in Nat /\ (time = time_without_loot + delta \/ time = LongEnough)
    <2>1. time_without_loot + delta \in Nat
      BY <1>1 DEF GeneratorInv
    <2> QED
      BY <2>1, CappedTyped DEF TimeAfter
  <1> HIDE DEF time
  <1>3. /\ n \in 0..Shortage
        /\ Shortage > 0 /\ n = 0 => 2 * NoneIn(time) > AllIn(time)
    BY <1>1, <1>2, AtMostShortage
  <1>4. \E kinds \in [1..n -> Types] : GenerateLoot(kinds)
    BY DEF Generate, time
  <1>5. /\ time_without_loot' = IF n > 0 THEN 0 ELSE time
        /\ short' = IF Shortage > 0 /\ n = 0 THEN short + delta ELSE 0
    BY DEF Generate, time
  <1>6. time = LongEnough => n = Shortage
    BY <1>1, LongEnoughAssumption
  <1> HIDE DEF n
  <1>7. GeneratorInv'
    <2>1. CASE Shortage > 0 /\ n = 0
      <3>1. time = time_without_loot + delta
        BY <1>1, <1>2, <1>6, <2>1
      <3>2. /\ time_without_loot' = time /\ short' = short + delta
            /\ short' \in 0..time
        BY <1>1, <1>2, <1>5, <2>1, <3>1 DEF GeneratorInv
      <3>3. 2 * NoneIn(short') > AllIn(short')
        BY <1>2, <1>3, <2>1, <3>2, ChancesShrink
      <3> QED
        BY <1>2, <3>2, <3>3 DEF GeneratorInv, LackIsMet
    <2>2. CASE ~(Shortage > 0 /\ n = 0)
      <3>1. short' = 0 /\ time_without_loot' \in Nat
        BY <1>2, <1>5, <2>2
      <3>2. NoneIn(0) = 1 /\ AllIn(0) = 1
        <4>1. Kept[1] \in Nat /\ Kept[2] \in Nat /\ 0 \in Nat
          BY KeptAssumption
        <4> QED
          BY <4>1, PowersGrow DEF NoneIn, AllIn
      <3> QED
        BY <3>1, <3>2 DEF GeneratorInv, LackIsMet
    <2> QED
      BY <2>1, <2>2
  <1> QED
    BY <1>3, <1>4, <1>7

\* A step with the generator is a step of GameSession, or changes nothing of it.
LEMMA GeneratorStep ==
    ASSUME IInv, GeneratorInv, [GeneratorNext]_<<vars, generator>>
    PROVE  [Next]_vars /\ GeneratorInv'
  <1>1. ASSUME NEW delta \in TickLengths, Generate(delta) PROVE [Next]_vars /\ GeneratorInv'
    BY <1>1, GeneratedStep DEF Next
  <1>2. ASSUME \/ \E id \in DogIds : AddDog(id)
               \/ \E e \in events : Gather(e)
               \/ \E retired \in SUBSET Live(dogs) : EndTick(retired),
               UNCHANGED generator
        PROVE  [Next]_vars /\ GeneratorInv'
    BY <1>2 DEF Next, generator, GeneratorInv, LackIsMet
  <1>3. CASE UNCHANGED <<vars, generator>>
    BY <1>3 DEF generator, GeneratorInv, LackIsMet
  <1> QED
    BY <1>1, <1>2, <1>3 DEF GeneratorNext

LEMMA GeneratorAlways == GeneratorSpec => [](IInv /\ GeneratorInv) /\ Spec
  <1>1. GeneratorInit => Init /\ IInv /\ GeneratorInv
    BY GeneratorStart, InitInv DEF GeneratorInit
  <1>2. IInv /\ GeneratorInv /\ [GeneratorNext]_<<vars, generator>>
           => [Next]_vars /\ IInv' /\ GeneratorInv'
    BY GeneratorStep, StepInv
  <1> QED
    BY <1>1, <1>2, PTL DEF GeneratorSpec, Spec

\* The session with the generator of the code implements the one in which a tick brings any
\* number of pieces up to the shortage: LootGenerator::Generate never asks for more,
\* whatever its probability, its interval and the lengths of ticks are.
THEOREM GeneratorImplements == GeneratorSpec => Spec
  BY GeneratorAlways, PTL

\* Dogs that lack loot are never kept waiting past the time in which the half of a piece
\* is due, however short the ticks are (time_without_loot_ of LootGenerator::Generate).
THEOREM LackAlwaysMet == GeneratorSpec => []LackIsMet
  BY GeneratorAlways, PTL DEF GeneratorInv

\* A tick leaves no more loot on the map than there are dogs, or than there was
\* (GameSession::GenerateLoot).
THEOREM LootersLimit == GeneratorSpec => NoMoreThanLooters
  <1> DEFINE A == pc = "idle" /\ pc' = "events" =>
                     \/ Cardinality(OnMap(loots')) <= Cardinality(Live(dogs))
                     \/ loots' = loots
  <1>1. IInv /\ [Next]_vars => [A]_vars
    <2> SUFFICES ASSUME IInv, Next, pc = "idle", pc' = "events" PROVE A
      OBVIOUS
    <2>1. PICK n \in 0..Shortage : \E kinds \in [1..n -> Types] : GenerateLoot(kinds)
      BY DEF Next, AddDog, BackUp, Restart, Gather, EndTick, loop
    <2>2. PICK kinds \in [1..n -> Types] : GenerateLoot(kinds)
      BY <2>1
    <2>3. /\ OnMap(loots) \subseteq LootIds /\ Live(dogs) \subseteq DogIds
          /\ loots \in [LootIds -> Item \cup {None}] /\ loot_id_incr \in Nat
      BY DEF OnMap, IInv, TickInv, SessionInv, InOrder, Typed
    <2>4. IsFiniteSet(OnMap(loots)) /\ IsFiniteSet(Live(dogs)) /\ IsFiniteSet(LootIds)
      BY <2>3, IdsAssumption, FS_Subset
    <2>5. Cardinality(OnMap(loots)) \in Nat /\ Cardinality(Live(dogs)) \in Nat
      BY <2>4, FS_CardinalityType
    <2>6. n \in Nat /\ n <= Shortage /\ loots' = Placed(loots, loot_id_incr, kinds)
      BY <2>2, ShortageTyped DEF IInv, GenerateLoot
    <2> DEFINE ahead == loot_id_incr..(loot_id_incr + n - 1)
    <2>7. \A id \in LootIds : loots'[id] = loots[id] \/ id \in ahead
      BY <2>6, PlacedPieces
    <2>8. CASE n = 0
      <3>1. ahead = {}
        BY <2>3, <2>8
      <3>2. loots' = [id \in LootIds |-> loots'[id]]
        BY <2>6 DEF Placed
      <3>3. loots = [id \in LootIds |-> loots[id]]
        BY <2>3
      <3>4. \A id \in LootIds : loots'[id] = loots[id]
        BY <2>7, <3>1
      <3>5. loots' = loots
        BY <3>2, <3>3, <3>4
      <3> QED
        BY <3>5
    <2>9. CASE n > 0
      <3>1. n <= Cardinality(Live(dogs)) - Cardinality(OnMap(loots))
        BY <2>5, <2>6, <2>9 DEF Shortage
      <3>2. IsFiniteSet(ahead) /\ Cardinality(ahead) = n
        BY <2>3, <2>6, <2>9, FS_Interval
      <3>3. OnMap(loots') \subseteq OnMap(loots) \cup ahead
        BY <2>7 DEF OnMap
      <3> HIDE DEF ahead
      <3>4. /\ IsFiniteSet(OnMap(loots) \cup ahead)
            /\ Cardinality(OnMap(loots) \cup ahead) <= Cardinality(OnMap(loots)) + n
        <4>1. /\ IsFiniteSet(OnMap(loots) \cap ahead)
              /\ Cardinality(OnMap(loots) \cup ahead)
                    = Cardinality(OnMap(loots)) + n - Cardinality(OnMap(loots) \cap ahead)
          BY <2>4, <3>2, FS_Union, FS_Intersection
        <4>2. Cardinality(OnMap(loots) \cap ahead) \in Nat
          BY <4>1, FS_CardinalityType
        <4> QED
          BY <2>4, <2>5, <2>6, <3>2, <4>1, <4>2, FS_Union
      <3>5. /\ Cardinality(OnMap(loots')) <= Cardinality(OnMap(loots) \cup ahead)
            /\ IsFiniteSet(OnMap(loots'))
        BY <3>3, <3>4, FS_Subset
      <3>6. Cardinality(OnMap(loots')) \in Nat /\ Cardinality(OnMap(loots) \cup ahead) \in Nat
        BY <3>4, <3>5, FS_CardinalityType
      <3>7. Cardinality(OnMap(loots')) <= Cardinality(Live(dogs))
        BY <2>5, <2>6, <3>1, <3>4, <3>5, <3>6
      <3> QED
        BY <3>7
    <2> QED
      BY <2>6, <2>8, <2>9
  <1> QED
    BY <1>1, GeneratorAlways, PTL DEF Spec, NoMoreThanLooters

=============================================================================
