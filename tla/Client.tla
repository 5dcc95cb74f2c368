------------------------------- MODULE Client -------------------------------
(***************************************************************************)
(* The page a player plays in: class GameState of src/static/js/game.js.   *)
(* It asks the server for the state of the game and for the list of the    *)
(* players, over and over, and draws what it was told.                     *)
(*                                                                         *)
(* Requests are asynchronous: the server answers them in any order, the    *)
(* answers arrive in any order or not at all, and callbacks run one at a   *)
(* time between two frames.  Positions, colours and animations are left    *)
(* out: drawn are actors of players and pieces of loot.  The server is the *)
(* one of the other modules, seen by a player of one session.              *)
(***************************************************************************)
EXTENDS Naturals, FiniteSets

CONSTANTS
    Ids,            \* ids of players
    Me,             \* playerId: the one whose token the page holds
    LootIds,        \* ids of loot
    Updates,        \* bound on requests for the state that are under way
    Syncs,          \* bound on requests for the list of players under way
    UpdateEvery,    \* posUpdateInterval
    SyncEvery,      \* playersUpdateInterval
    MaxChanges,     \* bound on what happens in the session
    None

ASSUME MeAssumption     == Me \in Ids
ASSUME EveryAssumption  == /\ UpdateEvery \in Nat \ {0} /\ SyncEvery \in Nat \ {0}
                           /\ SyncEvery % UpdateEvery = 0
ASSUME BoundsAssumption == MaxChanges \in Nat /\ Updates \subseteq Nat /\ Syncs \subseteq Nat

World == [version : Nat, players : SUBSET Ids, loot : SUBSET LootIds,
          bag : [Ids -> SUBSET LootIds]]

ASSUME NoneAssumption == None \notin World \cup Ids \cup {"map"}
ASSUME MapAssumption  == "map" \notin Ids

VARIABLES
    world,          \* the session on the server; version counts its changes
    met,            \* ids of players and loot it has had: none is given out twice
    updates,        \* requests for the state, and the answers on their way
    syncs,          \* requests for the list, likewise
    page,           \* "game", or "records" after goToRecords
    ticks,          \* GameState::ticks, modulo SyncEvery
    started, playersLoaded,
    desiredState,   \* None until the first state has come: then stateLoaded holds
    currentState,   \* ids in currentState.players
    players,        \* ids in this.players: each has an actor and a line in the table
    carried,        \* the loot in data.bag of a player
    unseen,         \* the part of it that was taken out of the scene
    lostObjects,    \* loot on the map
    disappearing,   \* loot that is falling through the map
    listed,         \* ghost: version of the list of players shown last
    overtaken,      \* ghost: an answer was shown after one that is younger
    surprised,      \* ghost: a player retired whom the page did not show as it stood
    stray           \* ghost: a piece is in the scene that nothing refers to any more

server == <<world, met>>
wire   == <<updates, syncs>>
loaded == <<started, playersLoaded>>
drawn  == <<currentState, players, carried, unseen, lostObjects, disappearing>>
ghosts == <<listed, overtaken, surprised, stray>>
vars   == <<server, wire, page, ticks, loaded, desiredState, drawn, ghosts>>

-----------------------------------------------------------------------------
(* The session.                                                            *)

Change(w) == /\ page = "game" /\ world.version < MaxChanges
             /\ world' = [w EXCEPT !.version = world.version + 1]
             /\ UNCHANGED <<wire, page, ticks, loaded, desiredState, drawn, listed, overtaken, stray>>

Join(i) ==
    /\ i \notin met
    /\ met' = met \cup {i}
    /\ Change([world EXCEPT !.players = @ \cup {i}])
    /\ UNCHANGED surprised

Appear(l) ==
    /\ l \notin met
    /\ met' = met \cup {l}
    /\ Change([world EXCEPT !.loot = @ \cup {l}])
    /\ UNCHANGED surprised

Gather(i, l) ==
    /\ i \in world.players /\ l \in world.loot
    /\ Change([world EXCEPT !.loot = @ \ {l}, !.bag[i] = @ \cup {l}])
    /\ UNCHANGED <<met, surprised>>

Deliver(i) ==
    /\ world.bag[i] # {}
    /\ Change([world EXCEPT !.bag[i] = {}])
    /\ UNCHANGED <<met, surprised>>

\* A dog stands before it retires: for longer, mostly, than a page needs to learn of
\* what it did before.
ShownAsItStands(i) ==
    /\ started /\ i \in players /\ i \in currentState /\ carried[i] = world.bag[i]
    /\ \A s \in Updates : updates[s].stage = "answered" =>
          i \in updates[s].shows.players /\ updates[s].shows.bag[i] = world.bag[i]

Retire(i) ==
    /\ i \in world.players
    /\ Change([world EXCEPT !.players = @ \ {i}, !.bag[i] = {}])
    /\ surprised' = (surprised \/ ~ShownAsItStands(i))
    /\ UNCHANGED met

-----------------------------------------------------------------------------
(* Requests.                                                               *)

Open   == page = "game"
Request(stage, shows) == [stage |-> stage, shows |-> shows]
Free    == Request("free", None)
Sent    == Request("sent", None)
Refused == Request("unauthorized", None)

\* The session that the token leads to (ShowsOwnSession of module Api).
Reply == IF Me \in world.players THEN Request("answered", world) ELSE Refused

AnswerState(s) ==
    /\ updates[s] = Sent
    /\ updates' = [updates EXCEPT ![s] = Reply]
    /\ UNCHANGED <<server, syncs, page, ticks, loaded, desiredState, drawn, ghosts>>

AnswerList(s) ==
    /\ syncs[s] = Sent
    /\ syncs' = [syncs EXCEPT ![s] = Reply]
    /\ UNCHANGED <<server, updates, page, ticks, loaded, desiredState, drawn, ghosts>>

\* A request is refused, or it or its answer is lost: _updateState has no handler for
\* that, _syncPlayers one for the first case only.
Fail ==
    /\ \/ \E s \in Updates : /\ updates[s] # Free
                             /\ updates' = [updates EXCEPT ![s] = Free] /\ UNCHANGED syncs
       \/ \E s \in Syncs :   /\ syncs[s] # Free
                             /\ syncs' = [syncs EXCEPT ![s] = Free] /\ UNCHANGED updates
    /\ Open
    /\ UNCHANGED <<server, page, ticks, loaded, desiredState, drawn, ghosts>>

\* _updateState and _syncPlayers.  The flags that tick looks at are FALSE whenever a
\* frame begins: updateInProgress is only set inside _updatePlayersList, and
\* playersSuncInProgress is cleared before _syncPlayers returns.
Ask(requests, slots) ==
    LET free == {s \in slots : requests[s] = Free}
    IN IF free = {} THEN requests
       ELSE [requests EXCEPT ![CHOOSE s \in free : \A t \in free : s <= t] = Sent]

-----------------------------------------------------------------------------
(* What the page makes of a state.                                         *)

\* _processLostObjects: what lies on the map no longer.
Abandoned(x) == lostObjects \ x.loot

\* The bag of a player that currentState does not know begins empty.
Bag(i) == IF i \in currentState THEN carried[i] ELSE {}

\* _attachLootToPlayers: pieces new to a bag are taken from the abandoned ones or made.
Attached(x) == UNION {x.bag[i] \ Bag(i) : i \in x.players}
Removed(x, i) == Bag(i) \ x.bag[i]

\* _dropLoot for the pieces that left a bag and the abandoned ones that nobody took.
Dropped(x) == (UNION {Removed(x, i) : i \in x.players}) \cup (Abandoned(x) \ Attached(x))

\* Of the bag that a player leaves behind, or gets a new one for, only
\* this.players keeps hold; and one piece falling displaces another of its id.
Forgotten(x) ==
    \/ \E i \in currentState \ (x.players \cup players) : carried[i] \ unseen[i] # {}
    \/ \E i \in x.players \ currentState : carried[i] \ unseen[i] # {}
    \/ disappearing \cap Dropped(x) # {}
    \/ \E i \in x.players : Removed(x, i) \cap (Abandoned(x) \ Attached(x)) # {}
    \/ \E i, j \in x.players : i # j /\ Removed(x, i) \cap Removed(x, j) # {}

\* Pieces that fell unseen are not shown again.
DroppedUnseen(x) ==
    (UNION {Removed(x, i) \cap unseen[i] : i \in x.players}) \ (Abandoned(x) \ Attached(x))

BagAfter_FaultyKeeps(x, i) == Bag(i) \cup x.bag[i]
BagAfter(x, i) == x.bag[i]

\* _applyDesiredState
Apply(x) ==
    /\ currentState' = x.players
    /\ lostObjects' = x.loot
    /\ carried' = [i \in Ids |-> IF i \in x.players THEN BagAfter(x, i)
                                 ELSE IF i \in players THEN carried[i] ELSE {}]
    /\ unseen' = [i \in Ids |-> IF i \in x.players THEN Bag(i) \cap unseen[i] \cap x.bag[i]
                                ELSE IF i \in players THEN unseen[i] ELSE {}]
    /\ disappearing' = (disappearing \cup Dropped(x)) \ DroppedUnseen(x)
    /\ stray' = (stray \/ Forgotten(x))

\* _startGame, when the second of the first two answers has come.
Start(x) == started' = TRUE /\ Apply(x)

\* The callbacks of _updateState: the first one starts the game, the others apply.
UpdateDone(s) ==
    /\ Open /\ updates[s].stage = "answered"
    /\ updates' = [updates EXCEPT ![s] = Free]
    /\ desiredState' = updates[s].shows
    /\ IF playersLoaded THEN Start(updates[s].shows)
       ELSE UNCHANGED <<started, currentState, carried, unseen, lostObjects, disappearing, stray>>
    /\ overtaken' = (overtaken \/ (desiredState # None /\ desiredState.version > updates[s].shows.version))
    /\ UNCHANGED <<server, syncs, page, ticks, playersLoaded, players, listed, surprised>>

\* A refusal has no handler here.
UpdateRefused(s) ==
    /\ Open /\ updates[s] = Refused
    /\ updates' = [updates EXCEPT ![s] = Free]
    /\ UNCHANGED <<server, syncs, page, ticks, loaded, desiredState, drawn, ghosts>>

-----------------------------------------------------------------------------
(* What the page makes of a list of players.                               *)

\* _deletePlayer takes the loot of the player out of the scene.
Hidden_FaultyForgets(gone) == unseen
Hidden(gone) == [i \in Ids |-> IF i \in gone THEN carried[i] ELSE unseen[i]]

\* _updatePlayersList; a player that currentState does not know either is forgotten.
UpdatePlayersList(x) ==
    LET gone == players \ x.players
        kept == [i \in Ids |-> i \in x.players \cup currentState]
    IN /\ players' = x.players
       /\ carried' = [i \in Ids |-> IF kept[i] THEN carried[i] ELSE {}]
       /\ unseen'  = [i \in Ids |-> IF kept[i] THEN Hidden(gone)[i] ELSE {}]
       /\ stray' = (stray \/ \E i \in gone \ currentState : carried[i] \ Hidden(gone)[i] # {})

SyncDone(s) ==
    /\ Open /\ syncs[s].stage = "answered"
    /\ syncs' = [syncs EXCEPT ![s] = Free]
    /\ playersLoaded' = TRUE
    /\ listed' = syncs[s].shows.version
    /\ overtaken' = (overtaken \/ listed > syncs[s].shows.version)
    /\ IF desiredState # None /\ ~started
       THEN players' = syncs[s].shows.players /\ Start(desiredState)
       ELSE /\ UpdatePlayersList(syncs[s].shows)
            /\ UNCHANGED <<started, currentState, lostObjects, disappearing>>
    /\ UNCHANGED <<server, updates, page, ticks, desiredState, surprised>>

\* goToRecords, unless the failure has another reason.
PageAfter_FaultyStays(request) == page
PageAfter(request) == IF request = Refused THEN "records" ELSE page

SyncRefused(s) ==
    /\ Open /\ syncs[s] = Refused
    /\ syncs' = [syncs EXCEPT ![s] = Free]
    /\ page' = PageAfter(syncs[s])
    /\ UNCHANGED <<server, updates, ticks, loaded, desiredState, drawn, ghosts>>

-----------------------------------------------------------------------------
(* A frame: GameState::tick.                                               *)

\* _processDisappearingLoot: what has fallen for long enough is taken out of the scene.
ProcessDisappearingLoot == disappearing' \in SUBSET disappearing

\* A key that was pressed asks for a state at once (requestInstantUpdate).
Frame(instant) ==
    /\ Open
    /\ ticks' = (ticks + 1) % SyncEvery
    /\ IF started
       THEN /\ IF instant \/ ticks' % UpdateEvery = 0
               THEN updates' = Ask(updates, Updates) ELSE updates' = updates
            /\ IF ticks' = 0 THEN syncs' = Ask(syncs, Syncs) ELSE syncs' = syncs
            /\ ProcessDisappearingLoot
       ELSE UNCHANGED <<wire, disappearing>>
    /\ UNCHANGED <<server, page, loaded, desiredState, currentState, players, carried,
                   unseen, lostObjects, ghosts>>

-----------------------------------------------------------------------------
\* The page has just been loaded: the constructor asked for both.  The session may be in
\* any state then.
Init ==
    /\ \E others \in SUBSET (Ids \ {Me}) : \E at \in [LootIds -> {None, "map", Me} \cup others] :
          /\ world = [version |-> 0, players |-> {Me} \cup others,
                      loot |-> {l \in LootIds : at[l] = "map"},
                      bag |-> [i \in Ids |-> {l \in LootIds : at[l] = i}]]
          /\ met = {Me} \cup others \cup {l \in LootIds : at[l] # None}
    /\ updates = Ask([s \in Updates |-> Free], Updates)
    /\ syncs = Ask([s \in Syncs |-> Free], Syncs)
    /\ page = "game" /\ ticks = 0
    /\ started = FALSE /\ playersLoaded = FALSE /\ desiredState = None
    /\ currentState = {} /\ players = {} /\ lostObjects = {} /\ disappearing = {}
    /\ carried = [i \in Ids |-> {}] /\ unseen = [i \in Ids |-> {}]
    /\ listed = 0 /\ overtaken = FALSE /\ surprised = FALSE /\ stray = FALSE

Session ==
    \/ \E i \in Ids : Join(i) \/ Deliver(i) \/ Retire(i)
    \/ \E l \in LootIds : Appear(l)
    \/ \E i \in Ids, l \in LootIds : Gather(i, l)

Next ==
    \/ Session
    \/ Fail
    \/ \E s \in Updates : AnswerState(s) \/ UpdateDone(s) \/ UpdateRefused(s)
    \/ \E s \in Syncs : AnswerList(s) \/ SyncDone(s) \/ SyncRefused(s)
    \/ \E instant \in BOOLEAN : Frame(instant)

\* Frames follow one another, and the network does not lose every request, nor every
\* answer, of one end point for ever.
Fairness ==
    /\ WF_vars(Frame(FALSE))
    /\ \A s \in Updates : SF_vars(AnswerState(s)) /\ SF_vars(UpdateDone(s)) /\ WF_vars(UpdateRefused(s))
    /\ \A s \in Syncs : SF_vars(AnswerList(s)) /\ SF_vars(SyncDone(s)) /\ SF_vars(SyncRefused(s))

Spec == Init /\ [][Next]_vars /\ Fairness

-----------------------------------------------------------------------------
(* Properties.                                                             *)

InOrder == ~overtaken /\ ~surprised

\* Nothing stays in the scene that no later state can move or remove, and the loot of
\* every listed player is in it: the two requests race, but as long as answers to the
\* same one arrive in order and dogs stand before they retire, the tables of
\* _updatePlayersList and _applyDesiredState do not lose hold of an object.
SceneIsKept == InOrder => /\ ~stray
                          /\ \A i \in players : unseen[i] = {}

\* A piece is drawn in one place: on the map, in one bag, or falling.
Bags(i)  == IF i \in currentState \cup players THEN carried[i] \ unseen[i] ELSE {}
DrawnOnce ==
    InOrder => \A l \in LootIds :
        /\ l \in lostObjects => l \notin disappearing
        /\ \A i \in Ids : l \in Bags(i) =>
              /\ l \notin lostObjects \cup disappearing
              /\ \A j \in Ids \ {i} : l \notin Bags(j)

\* In the end the page shows the session as it is, or the records to whoever has retired:
\* no answer out of order leaves a trace in the tables for good, and a refused list is
\* asked for again (tick, _updatePlayersList, _applyDesiredState, goToRecords).
Shows == /\ currentState = world.players /\ players = world.players
         /\ lostObjects = world.loot
         /\ \A i \in world.players : carried[i] = world.bag[i]

EventuallyShows ==
    <>[](started => IF Me \in world.players THEN Shows ELSE page = "records")

=============================================================================
