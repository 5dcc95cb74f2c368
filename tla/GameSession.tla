---------------------------- MODULE GameSession ----------------------------
(***************************************************************************)
(* The things of one game session: loot on the map, loot in the bags of    *)
(* the dogs, and the scores.  GameSession and Dog of src/src/model.cpp,    *)
(* the loot part of Application::Tick, and what a backup and a restart do  *)
(* to it (SaveSessionData, DogRepr, RestoreLoot).                          *)
(*                                                                         *)
(* Every piece of loot gets a serial number that the code does not have:   *)
(* it tells pieces apart where the code only knows ids.  Which dogs pass   *)
(* which items, and in which order, is geometry (CollisionDetector): here  *)
(* any of them may, in any order.                                          *)
(***************************************************************************)
EXTENDS Naturals, Sequences, FiniteSets, FiniteSetsExt

CONSTANTS
    DogIds,        \* ids of dogs
    LootIds,       \* ids of loot that are explored, 0..n
    Types,         \* loot types of the map
    Value,         \* GetScoreByIdx: type -> score
    BagCapacity,   \* max_bag_size_
    OfficeBase,    \* the id of the first office, 9999 in the code
    Offices,       \* number of offices of the map
    None,          \* no loot, no state file
    MaxRestarts    \* bound on restarts, and no backups once it is reached

Item == [serial : Nat, type : Types]

ASSUME IdsAssumption   == LootIds \subseteq Nat /\ IsFiniteSet(LootIds) /\ IsFiniteSet(DogIds)
ASSUME ValueAssumption == Value \in [Types -> Nat]
ASSUME SizeAssumption  == /\ BagCapacity \in Nat /\ OfficeBase \in Nat /\ Offices \in Nat
                          /\ MaxRestarts \in Nat
ASSUME NoneAssumption  == None \notin Item

VARIABLES
    dogs,          \* GameSession::dogs_: id -> [bag, score, delivered]
    loots,         \* GameSession::loots_
    loot_id_incr,  \* GameSession::loot_id_incr_
    movers,        \* dogs that move in the tick under way: the gatherers
    events,        \* gathering events the tick may still handle
    pc,            \* "idle", or "events" inside Tick
    saved,         \* the session in the state file
    made,          \* ghost: pieces generated in this line of history
    left,          \* ghost: pieces that retired dogs took out of the game
    fresh,         \* ghost: no restore set the counter to an id in use
    restarts       \* ghost: restarts so far

session == <<dogs, loots, loot_id_incr>>
loop    == <<movers, events, pc>>
ghosts  == <<made, left>>
vars    == <<session, loop, saved, ghosts, fresh, restarts>>

-----------------------------------------------------------------------------
(* Helpers.                                                                *)

Live(ds)   == DOMAIN ds
OnMap(ls)  == {id \in LootIds : ls[id] # None}
OfficeIds  == {OfficeBase + k : k \in 0..(Offices - 1)}
BagOf(d)   == {d.bag[k].item : k \in DOMAIN d.bag}
NoDogs     == <<>>
NoLoot     == [id \in LootIds |-> None]
NewDog     == [bag |-> <<>>, score |-> 0, delivered |-> {}]

ScoreOf(items) == MapThenSumSet(LAMBDA i : Value[i.type], items)

\* LootGenerator::Generate returns at most what the dogs are short of.
Shortage_FaultyAll == Cardinality(Live(dogs))
Shortage == IF Cardinality(OnMap(loots)) > Cardinality(Live(dogs)) THEN 0
            ELSE Cardinality(Live(dogs)) - Cardinality(OnMap(loots))

-----------------------------------------------------------------------------
(* Players come in and the state is saved, between ticks.                  *)

\* GameSession::AddDog
AddDog(id) ==
    /\ pc = "idle" /\ id \notin Live(dogs)
    /\ dogs' = [i \in Live(dogs) \cup {id} |-> IF i = id THEN NewDog ELSE dogs[i]]
    /\ UNCHANGED <<loots, loot_id_incr, loop, saved, ghosts, fresh, restarts>>

\* DogRepr: what a backup keeps of a dog.
Repr_FaultyNoBag(d) == [d EXCEPT !.bag = <<>>]
Repr(d) == [bag |-> d.bag, score |-> d.score, delivered |-> d.delivered]

ReprOfAll(ds) == [id \in Live(ds) |-> Repr(ds[id])]

\* Application::BackUpData.  The loot is copied inside the loop over the dogs, so
\* a session without dogs leaves no loot behind, and does not come back.
BackUp ==
    /\ pc = "idle" /\ restarts < MaxRestarts
    /\ saved' = IF Live(dogs) = {} THEN None
                ELSE [dogs |-> ReprOfAll(dogs), loots |-> loots, made |-> made, left |-> left]
    /\ UNCHANGED <<session, loop, ghosts, fresh, restarts>>

\* GameSession::RestoreLoot: the counter of ids is set to the number of pieces.
RestoredIncr(ls) == Cardinality(OnMap(ls))

\* The process ends at any moment and the next one restores the state file.
Restart ==
    /\ restarts < MaxRestarts
    /\ restarts' = restarts + 1
    /\ movers' = {} /\ events' = {} /\ pc' = "idle"
    /\ IF saved = None
       THEN /\ dogs' = NoDogs /\ loots' = NoLoot /\ loot_id_incr' = 0
            /\ made' = 0 /\ left' = {}
       ELSE /\ dogs' = saved.dogs /\ loots' = saved.loots
            /\ loot_id_incr' = RestoredIncr(saved.loots)
            /\ made' = saved.made /\ left' = saved.left
    /\ fresh' = (fresh /\ \A id \in OnMap(loots') : id < loot_id_incr')
    /\ saved' = saved

-----------------------------------------------------------------------------
(* A tick: generate, gather, retire.  A tick that Save cuts short ends with  *)
(* events left and nobody removed.                                         *)

\* GameSession::GenerateLoot: n pieces of random types, emplaced under the next
\* ids; a piece whose id is taken is lost.  GetLootToItems and FindGatherEvents
\* follow on the state so reached.
Placed_FaultySameId(ls, first, kinds) ==
    [id \in LootIds |-> IF id = first /\ ls[id] = None /\ kinds # <<>>
                        THEN [serial |-> made, type |-> kinds[1]] ELSE ls[id]]
Placed(ls, first, kinds) ==
    [id \in LootIds |->
        IF id \in first..(first + Len(kinds) - 1) /\ ls[id] = None
        THEN [serial |-> made + (id - first), type |-> kinds[id - first + 1]]
        ELSE ls[id]]

GenerateLoot(kinds) ==
    /\ pc = "idle"
    /\ loot_id_incr..(loot_id_incr + Len(kinds) - 1) \subseteq LootIds
    /\ loots' = Placed(loots, loot_id_incr, kinds)
    /\ loot_id_incr' = loot_id_incr + Len(kinds)
    /\ made' = made + Len(kinds)
    /\ \E m \in SUBSET Live(dogs) :
          /\ movers' = m
          /\ events' = m \X (OnMap(loots') \cup OfficeIds)
    /\ pc' = "events"
    /\ UNCHANGED <<dogs, saved, left, fresh, restarts>>

\* An event at an office: ClearBag, then AddScore for every type.
AtOffice_FaultyKeepsBag(d) ==
    [d EXCEPT !.score = d.score + ScoreOf(BagOf(d)), !.delivered = @ \cup BagOf(d)]
AtOffice(d) ==
    [bag |-> <<>>, score |-> d.score + ScoreOf(BagOf(d)), delivered |-> d.delivered \cup BagOf(d)]

\* An event at a piece of loot: SetBagItem, if it is still there.
HasRoom(d) == Len(d.bag) < BagCapacity
AtLoot(d, id) == [bag |-> Append(d.bag, [id |-> id, item |-> loots[id]]),
                  score |-> d.score, delivered |-> d.delivered]

\* ContainLootById
StillThere(id) == id \in LootIds /\ loots[id] # None

\* RemoveLootById
WithoutLoot_FaultyKeeps(id) == loots
WithoutLoot(id) == [loots EXCEPT ![id] = None]

\* The events come in the order of their times, each at most once.
Gather(e) ==
    /\ pc = "events" /\ e \in events
    /\ events' = events \ {e}
    /\ LET id == e[1]  item == e[2]
       IN \/ /\ item >= OfficeBase
             /\ dogs' = [dogs EXCEPT ![id] = AtOffice(dogs[id])]
             /\ UNCHANGED loots
          \/ /\ item < OfficeBase /\ StillThere(item) /\ HasRoom(dogs[id])
             /\ dogs' = [dogs EXCEPT ![id] = AtLoot(dogs[id], item)]
             /\ loots' = WithoutLoot(item)
          \/ /\ item < OfficeBase /\ ~(StillThere(item) /\ HasRoom(dogs[id]))
             /\ UNCHANGED <<dogs, loots>>
    /\ UNCHANGED <<loot_id_incr, movers, pc, saved, ghosts, fresh, restarts>>

\* The events are over; dogs that stood for too long leave with their bags
\* (RemoveDogById).
EndTick(retired) ==
    /\ pc = "events" /\ retired \subseteq Live(dogs) \ movers
    /\ dogs' = [id \in Live(dogs) \ retired |-> dogs[id]]
    /\ left' = left \cup UNION {BagOf(dogs[id]) \cup dogs[id].delivered : id \in retired}
    /\ pc' = "idle" /\ movers' = {} /\ events' = {}
    /\ UNCHANGED <<loots, loot_id_incr, saved, made, fresh, restarts>>

-----------------------------------------------------------------------------
Init ==
    /\ dogs = NoDogs /\ loots = NoLoot /\ loot_id_incr = 0
    /\ movers = {} /\ events = {} /\ pc = "idle"
    /\ saved = None
    /\ made = 0 /\ left = {} /\ fresh = TRUE /\ restarts = 0

Next ==
    \/ \E id \in DogIds : AddDog(id)
    \/ BackUp
    \/ Restart
    \/ \E n \in 0..Shortage : \E kinds \in [1..n -> Types] : GenerateLoot(kinds)
    \/ \E e \in events : Gather(e)
    \/ \E retired \in SUBSET Live(dogs) : EndTick(retired)

Spec == Init /\ [][Next]_vars

-----------------------------------------------------------------------------
(* Properties.                                                             *)

\* Where the pieces of this line of history are.
Carried(ds)   == UNION {BagOf(ds[id]) : id \in Live(ds)}
Delivered(ds) == UNION {ds[id].delivered : id \in Live(ds)}
Lying(ls)     == {ls[id] : id \in OnMap(ls)}
Serials(items) == {i.serial : i \in items}

\* A piece of loot is in one place: on the map under one id, in one place of one
\* bag, or delivered by one dog, also when two dogs pass it in the same tick.
OnePlace ==
    /\ \A i, j \in OnMap(loots) : loots[i] = loots[j] => i = j
    /\ \A a, b \in Live(dogs) :
          /\ a # b => /\ BagOf(dogs[a]) \cap BagOf(dogs[b]) = {}
                      /\ dogs[a].delivered \cap dogs[b].delivered = {}
          /\ BagOf(dogs[a]) \cap dogs[b].delivered = {}
    /\ \A a \in Live(dogs) : Cardinality(BagOf(dogs[a])) = Len(dogs[a].bag)
    /\ Lying(loots) \cap (Carried(dogs) \cup Delivered(dogs) \cup left) = {}

\* No piece disappears: what was generated lies on the map, is carried, was
\* delivered, or left the game with a dog; across restarts too, as long as no
\* restore has set the counter of ids to an id in use.
NothingLost ==
    fresh => Serials(Lying(loots) \cup Carried(dogs) \cup Delivered(dogs) \cup left)
                = 0..(made - 1)

\* A dog's score is the value of what it delivered, no matter how many events at
\* offices, how full the bag and how often the game was restored.
ScoreIsEarned ==
    \A id \in Live(dogs) : dogs[id].score = ScoreOf(dogs[id].delivered)

\* "Returns the number of trophies that should appear on the map"
\* (loot_generator.h:28): as many appear as were generated.
GeneratedAppear ==
    [][pc = "idle" /\ pc' = "events" =>
          Cardinality(OnMap(loots')) - Cardinality(OnMap(loots)) = made' - made]_vars

\* "Loot id: 9999 belongs Office building" (model.cpp:348): no piece of loot has
\* an id that stands for an office.
OfficeIdsAreOffices == \A id \in OnMap(loots) : id < OfficeBase

=============================================================================
