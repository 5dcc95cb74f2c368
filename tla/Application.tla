---------------------------- MODULE Application ----------------------------
(***************************************************************************)
(* The registry of the game server (src/src/application.cpp): who is in    *)
(* the game, under which token and player id, on which map; what a tick    *)
(* does to that registry; and how it outlives the process through the      *)
(* state file and the table of records.                                    *)
(*                                                                         *)
(* All handlers run on one strand, so between two handlers the state is    *)
(* that of an idle server.  A tick is nevertheless split into its steps,   *)
(* because the process may be killed, or the database may fail, between    *)
(* any two of them.  Loot, bags and scores are the business of module      *)
(* GameSession, coordinates that of module RoadMap: here a dog either      *)
(* stands or moves.  The two hash maps that a tick walks have no order of  *)
(* their own, and the order of the vector of sessions is abstracted too.   *)
(***************************************************************************)
EXTENDS Naturals, Sequences, FiniteSets

CONSTANTS
    Users,          \* join requests; each has a user name and the token it got
    Maps,           \* ids of the maps of the configuration file
    PlayerIds,      \* the values of player_incr_id_ that are explored
    EmptyToken,     \* the token "" that a restore invents for an unknown id
    None,           \* no dog, no player, no file
    AutoTick,       \* TRUE: Ticker drives Tick; FALSE: POST /game/tick does
    HasStateFile,   \* --state-file was given
    Retirement,     \* dogRetirementTime
    SavePeriod,     \* --save-state-period, 0 when it was not given
    Deltas,         \* lengths of a tick
    MaxServerTime,  \* bound on server_time
    MaxAborts,      \* bound on the ticks the database cuts short
    MaxRestarts     \* bound on the starts after the first

Tokens == Users \cup {EmptyToken}
Player == [id : PlayerIds, map : Maps]
Dog    == [name : Users, moving : BOOLEAN, life : Nat, stop : Nat]
Saved  == [name : Users, moving : BOOLEAN]
File   == [dogs  : [Maps -> [PlayerIds -> Saved \cup {None}]],
           token : [PlayerIds -> Tokens \cup {None}]]

ASSUME IdsAssumption   == PlayerIds \subseteq Nat /\ IsFiniteSet(PlayerIds)
ASSUME NamesAssumption == EmptyToken \notin Users
ASSUME NoneAssumption  == /\ None \notin Maps \cup PlayerIds
                          /\ None \notin Tokens
                          /\ None \notin Player
                          /\ None \notin Dog
                          /\ None \notin Saved
                          /\ None \notin File
ASSUME TimeAssumption  == /\ Retirement \in Nat /\ SavePeriod \in Nat
                          /\ Deltas \subseteq Nat /\ MaxServerTime \in Nat
                          /\ MaxAborts \in Nat /\ MaxRestarts \in Nat
ASSUME FlagsAssumption == AutoTick \in BOOLEAN /\ HasStateFile \in BOOLEAN

VARIABLES
    records,        \* durable: user -> the play times stored in the database
    stateFile,      \* durable: the last state written and renamed, or None
    up,             \* the process runs
    sessions,       \* Game::sessions_, by map
    dogs,           \* GameSession::dogs_ of each map
    players,        \* Players::players_: player id -> the map of its session
    tokens,         \* PlayerTokens::token_to_player_
    player_incr_id, \* Players::player_incr_id_
    server_time,    \* Application::server_time_ms_
    backup_time,    \* Application::backup_time_ms_
    pc,             \* where the strand is: "idle" or inside Tick
    dt,             \* time_ms of the tick under way
    pending,        \* sessions the tick has still to visit
    cur,            \* the session it is visiting
    todo,           \* dogs of cur it has still to advance
    remove,         \* remove_dog_by_id
    joined,         \* ghost: users whose join was answered
    counterOK,      \* ghost: every restore left the counter above all live ids
    aborts,         \* ghost: ticks that the database cut short
    restarts,       \* ghost: starts after the first
    cutShort,       \* ghost: a tick of this start was cut short
    crashed         \* ghost: a process once ended without saving the state

durable  == <<records, stateFile>>
registry == <<dogs, players, tokens>>
world    == <<sessions, registry, player_incr_id>>
clock    == <<server_time, backup_time>>
loop     == <<pc, dt, pending, cur, todo, remove>>
ghosts   == <<joined, counterOK, aborts, restarts, cutShort, crashed>>
vars     == <<durable, up, world, clock, loop, ghosts>>

TypeOK ==
    /\ records \in [Users -> Seq(Nat)]
    /\ stateFile \in File \cup {None}
    /\ up \in BOOLEAN
    /\ sessions \subseteq Maps
    /\ dogs \in [Maps -> [PlayerIds -> Dog \cup {None}]]
    /\ players \in [PlayerIds -> Maps \cup {None}]
    /\ tokens \in [Tokens -> Player \cup {None}]
    /\ player_incr_id \in Nat
    /\ server_time \in Nat /\ backup_time \in Nat
    /\ pc \in {"idle", "sessions", "dogs", "removing"}
    /\ dt \in Nat
    /\ pending \subseteq Maps /\ cur \in Maps \cup {None}
    /\ todo \subseteq PlayerIds /\ remove \subseteq PlayerIds
    /\ joined \subseteq Users /\ counterOK \in BOOLEAN
    /\ aborts \in Nat /\ restarts \in Nat
    /\ cutShort \in BOOLEAN /\ crashed \in BOOLEAN

-----------------------------------------------------------------------------
(* Helpers.  A definition whose name ends in _Faulty... is the same piece of *)
(* code with a plausible mistake in it: no behaviour uses it, it serves to    *)
(* show that a property would notice.                                         *)

NoDogs == [m \in Maps |-> [id \in PlayerIds |-> None]]
IdsIn(ds, m) == {id \in PlayerIds : ds[m][id] # None}
LiveIds(ds)  == {id \in PlayerIds : \E m \in Maps : ds[m][id] # None}
InGame(u)    == \E m \in Maps, id \in PlayerIds :
                    dogs[m][id] # None /\ dogs[m][id].name = u

\* The tokens whose player has this id.
TokensOf(id) == {t \in Tokens : tokens[t] # None /\ tokens[t].id = id}

\* emplace keeps what the key already holds.
Emplace(old, new) == IF old = None THEN new ELSE old

\* DogRepr: the life and stop times of a dog are not part of it.
Save(d)    == IF d = None THEN None ELSE [name |-> d.name, moving |-> d.moving]
Restore_FaultyTimes(s) == s
Restore(s) == IF s = None THEN None
              ELSE [name |-> s.name, moving |-> s.moving, life |-> 0, stop |-> 0]

\* The program that has not started, or starts without a state file.
Blank ==
    /\ sessions' = {} /\ dogs' = NoDogs
    /\ players' = [id \in PlayerIds |-> None]
    /\ tokens' = [t \in Tokens |-> None]
    /\ player_incr_id' = 0

StartClock == server_time' = 0 /\ backup_time' = SavePeriod

\* Between two handlers of the strand.
Rest ==
    /\ pc' = "idle" /\ dt' = 0 /\ pending' = {} /\ cur' = None
    /\ todo' = {} /\ remove' = {}

\* The process is gone, and what it held in memory with it.
Die == /\ up' = FALSE /\ Blank /\ StartClock /\ Rest
       /\ UNCHANGED <<joined, counterOK, restarts, cutShort>>

\* Application::BackUpData: a temporary file renamed over the state file.  The
\* tokens are collected by player id: where two share an id, either stays.
BackUpData ==
    IF HasStateFile
    THEN \E tok \in [PlayerIds -> Tokens \cup {None}] :
            /\ \A id \in PlayerIds : IF TokensOf(id) = {} THEN tok[id] = None
                                     ELSE tok[id] \in TokensOf(id)
            /\ stateFile' =
                 [dogs  |-> [m \in Maps |-> [id \in PlayerIds |-> Save(dogs[m][id])]],
                  token |-> tok]
    ELSE stateFile' = stateFile

-----------------------------------------------------------------------------
(* Requests.                                                               *)

\* Players::GetNextPlayerId leaves the counter one higher.
NextIncr_FaultyStays(id) == id
NextIncr(id) == id + 1

\* Application::JoinGame for user u on map m.  The dog is emplaced in the
\* session, the player in the table of players, and the new token leads to the
\* player that the table then holds under the id.
JoinGame(u, m) ==
    /\ up /\ pc = "idle" /\ u \notin joined
    /\ player_incr_id \in PlayerIds
    /\ LET id  == player_incr_id
           new == [name |-> u, moving |-> FALSE, life |-> 0, stop |-> 0]
       IN /\ sessions' = sessions \cup {m}
          /\ dogs' = [dogs EXCEPT ![m][id] = Emplace(dogs[m][id], new)]
          /\ players' = [players EXCEPT ![id] = Emplace(players[id], m)]
          /\ tokens' = [tokens EXCEPT ![u] = [id |-> id, map |-> players'[id]]]
          /\ player_incr_id' = NextIncr(id)
    /\ joined' = joined \cup {u}
    /\ UNCHANGED <<durable, up, clock, loop, counterOK, aborts, restarts,
                   cutShort, crashed>>

\* The dog behind a token, as FindPlayerByToken and GetDogById reach it.
DogOf(t) == dogs[tokens[t].map][tokens[t].id]

\* ApiRequestHandler::ProcessPlayerAction: the dog is told to move or to stop.
PlayerAction(t, move) ==
    /\ up /\ pc = "idle" /\ tokens[t] # None /\ DogOf(t) # None
    /\ dogs' = [dogs EXCEPT ![tokens[t].map][tokens[t].id].moving = move]
    /\ UNCHANGED <<durable, up, sessions, players, tokens, player_incr_id,
                   clock, loop, ghosts>>

\* The same when the dog is gone: at() throws out of the handler and of main.
PlayerActionThrows(t) ==
    /\ up /\ pc = "idle" /\ tokens[t] # None /\ DogOf(t) = None
    /\ Die /\ crashed' = TRUE
    /\ UNCHANGED <<durable, aborts>>

-----------------------------------------------------------------------------
(* Application::Tick.                                                      *)

TickBegin(delta) ==
    /\ up /\ pc = "idle"
    /\ server_time + delta <= MaxServerTime
    /\ pc' = "sessions" /\ dt' = delta /\ pending' = sessions
    /\ UNCHANGED <<durable, up, world, clock, cur, todo, remove, ghosts>>

SessionBegin(m) ==
    /\ up /\ pc = "sessions" /\ m \in pending
    /\ pc' = "dogs" /\ cur' = m /\ pending' = pending \ {m}
    /\ todo' = IdsIn(dogs, m) /\ remove' = {}
    /\ UNCHANGED <<durable, up, world, clock, dt, ghosts>>

\* A dog whose position a tick of this length leaves where it is.
Stands(d) == ~d.moving \/ dt = 0

\* The dog after the tick.  Only a standing dog collects stop time; a moving
\* one may run into the edge of the road, which takes its speed away.
Advanced(d, moving) ==
    [d EXCEPT !.life   = d.life + dt,
              !.stop   = IF Stands(d) THEN d.stop + dt ELSE 0,
              !.moving = moving]

\* The local stop_time_ms of the loop, which stays 0 for a moving dog.
StopTime(d) == IF Stands(d) THEN d.stop + dt ELSE 0

\* What the loop over the dogs does with one of them before it is recorded.
Visit(id, moving) ==
    /\ up /\ pc = "dogs" /\ id \in todo
    /\ dogs[cur][id] # None
    /\ moving \in (IF Stands(dogs[cur][id]) THEN {dogs[cur][id].moving}
                   ELSE BOOLEAN)
    /\ dogs' = [dogs EXCEPT ![cur][id] = Advanced(dogs[cur][id], moving)]

Retires(id) == StopTime(dogs[cur][id]) >= Retirement

\* UseCase Save: one row with the name and the play time.
StoreRecord_FaultySkips(d) == UNCHANGED records
StoreRecord(d) ==
    records' = [records EXCEPT ![d.name] = Append(records[d.name], d.life + dt)]

TickDog(id, moving) ==
    /\ Visit(id, moving)
    /\ todo' = todo \ {id}
    /\ IF Retires(id)
       THEN /\ StoreRecord(dogs[cur][id])
            /\ remove' = remove \cup {id}
       ELSE UNCHANGED <<records, remove>>
    /\ UNCHANGED <<stateFile, up, sessions, players, tokens, player_incr_id,
                   clock, pc, dt, pending, cur, ghosts>>

\* Save throws, and the row may have been committed all the same.  The Ticker
\* swallows the exception and the rest of the tick with it; in a handler of
\* POST /game/tick it ends the process, and the state is not saved.
SaveThrows(id, moving, committed) ==
    /\ Visit(id, moving) /\ AutoTick
    /\ Retires(id) /\ aborts < MaxAborts
    /\ IF committed THEN StoreRecord(dogs[cur][id]) ELSE UNCHANGED records
    /\ Rest
    /\ aborts' = aborts + 1 /\ cutShort' = TRUE
    /\ UNCHANGED <<stateFile, up, sessions, players, tokens, player_incr_id,
                   clock, joined, counterOK, restarts, crashed>>

SaveKills(id, committed) ==
    /\ up /\ pc = "dogs" /\ id \in todo /\ ~AutoTick
    /\ dogs[cur][id] # None /\ Retires(id) /\ aborts < MaxAborts
    /\ IF committed THEN StoreRecord(dogs[cur][id]) ELSE UNCHANGED records
    /\ Die /\ crashed' = TRUE
    /\ aborts' = aborts + 1
    /\ UNCHANGED stateFile

DogsDone ==
    /\ up /\ pc = "dogs" /\ todo = {}
    /\ pc' = "removing"
    /\ UNCHANGED <<durable, up, world, clock, dt, pending, cur, todo, remove, ghosts>>

\* PlayerTokens::RemovePlayer(dog_id): the first token found with this id, and
\* none when that is the empty one.
RemoveToken_FaultyKeeps(id) == UNCHANGED tokens
RemoveToken(id) ==
    IF TokensOf(id) = {} THEN tokens' = tokens
    ELSE \E t \in TokensOf(id) :
            tokens' = IF t = EmptyToken THEN tokens ELSE [tokens EXCEPT ![t] = None]

\* GameSession::RemoveDogById
WithoutDog_FaultyKeeps(m, id) == dogs
WithoutDog(m, id) == [dogs EXCEPT ![m][id] = None]

\* The dog, then its token, then its player.
RemoveDog(id) ==
    /\ up /\ pc = "removing" /\ id \in remove
    /\ remove' = remove \ {id}
    /\ dogs' = WithoutDog(cur, id)
    /\ RemoveToken(id)
    /\ players' = [players EXCEPT ![id] = None]
    /\ UNCHANGED <<durable, up, sessions, player_incr_id, clock,
                   pc, dt, pending, cur, todo, ghosts>>

SessionEnd ==
    /\ up /\ pc = "removing" /\ remove = {}
    /\ pc' = "sessions" /\ cur' = None
    /\ UNCHANGED <<durable, up, world, clock, dt, pending, todo, remove, ghosts>>

\* The condition of the periodic backup.
BackupDue_FaultyStrict(now) == backup_time > 0 /\ now > backup_time
BackupDue(now) == backup_time > 0 /\ now >= backup_time

\* The end of Tick: the clock, and the periodic backup when it is due.
TickEnd ==
    /\ up /\ pc = "sessions" /\ pending = {}
    /\ server_time' = server_time + dt
    /\ IF BackupDue(server_time + dt)
       THEN backup_time' = server_time + dt + SavePeriod /\ BackUpData
       ELSE UNCHANGED <<backup_time, stateFile>>
    /\ Rest
    /\ UNCHANGED <<records, up, world, ghosts>>

\* The backup throws, after backup_time was moved on.
BackupThrows ==
    /\ up /\ pc = "sessions" /\ pending = {} /\ AutoTick /\ HasStateFile
    /\ BackupDue(server_time + dt) /\ aborts < MaxAborts
    /\ server_time' = server_time + dt
    /\ backup_time' = server_time + dt + SavePeriod
    /\ Rest
    /\ aborts' = aborts + 1 /\ cutShort' = TRUE
    /\ UNCHANGED <<durable, up, world, joined, counterOK, restarts, crashed>>

-----------------------------------------------------------------------------
(* The life of the process.                                                *)

Stop_FaultyUnsaved ==
    /\ up /\ pc = "idle"
    /\ Die
    /\ UNCHANGED <<durable, aborts, crashed>>

\* SIGINT or SIGTERM between two handlers: main saves the state and returns.
Stop ==
    /\ up /\ pc = "idle"
    /\ BackUpData /\ Die
    /\ UNCHANGED <<records, aborts, crashed>>

\* The process is killed, whatever it was doing; or a backup throws where nothing
\* catches it, in main or in a handler of POST /game/tick.
Crash ==
    /\ up
    /\ Die /\ crashed' = TRUE
    /\ UNCHANGED <<durable, aborts>>

\* Players::Add as RestoreBackUpData uses it: the first session that holds a
\* dog with this id gives the player its map.
RestoredPlayers(ds, p) ==
    \A id \in PlayerIds :
        IF id \in LiveIds(ds) THEN p[id] \in Maps /\ ds[p[id]][id] # None
        ELSE p[id] = None

\* RestorePlayerWithToken for every dog of the file: the ids that ask for token t.
\* An id that the file gives no token asks for the empty one (operator[]).
Claims(f, t) == {id \in LiveIds(f.dogs) :
                    f.token[id] = t \/ (t = EmptyToken /\ f.token[id] = None)}

\* Of several claims the last one, in an order that is nobody's choice, wins.
RestoredTokens(f, owner) ==
    \A t \in Tokens : IF Claims(f, t) = {} THEN owner[t] = None
                      ELSE owner[t] \in Claims(f, t)

\* Application::RestoreBackUpData.  Only sessions with a dog come back, and the
\* counter of ids is set to the number of players (RestorePlayerIdIncr).
RestoreIncr(ds) == Cardinality(LiveIds(ds))

RestoreBackUpData(f) ==
    /\ dogs' = [m \in Maps |-> [id \in PlayerIds |-> Restore(f.dogs[m][id])]]
    /\ sessions' = {m \in Maps : IdsIn(f.dogs, m) # {}}
    /\ \E p \in [PlayerIds -> Maps \cup {None}] :
          RestoredPlayers(f.dogs, p) /\ players' = p
    /\ \E owner \in [Tokens -> PlayerIds \cup {None}] :
          /\ RestoredTokens(f, owner)
          /\ tokens' = [t \in Tokens |->
                          IF owner[t] = None THEN None
                          ELSE [id |-> owner[t], map |-> players'[owner[t]]]]
    /\ player_incr_id' = RestoreIncr(f.dogs)

Start ==
    /\ ~up /\ restarts < MaxRestarts
    /\ up' = TRUE
    /\ IF HasStateFile /\ stateFile # None THEN RestoreBackUpData(stateFile) ELSE Blank
    /\ StartClock /\ Rest
    /\ restarts' = restarts + 1 /\ cutShort' = FALSE
    /\ counterOK' = (counterOK /\ \A id \in LiveIds(dogs') : id < player_incr_id')
    /\ UNCHANGED <<durable, joined, aborts, crashed>>

-----------------------------------------------------------------------------
Init ==
    /\ records = [u \in Users |-> <<>>] /\ stateFile = None
    /\ up = TRUE
    /\ sessions = {} /\ dogs = NoDogs
    /\ players = [id \in PlayerIds |-> None]
    /\ tokens = [t \in Tokens |-> None]
    /\ player_incr_id = 0
    /\ server_time = 0 /\ backup_time = SavePeriod
    /\ pc = "idle" /\ dt = 0 /\ pending = {} /\ cur = None
    /\ todo = {} /\ remove = {}
    /\ joined = {} /\ counterOK = TRUE
    /\ aborts = 0 /\ restarts = 0 /\ cutShort = FALSE /\ crashed = FALSE

Requests ==
    \/ \E u \in Users, m \in Maps : JoinGame(u, m)
    \/ \E t \in Users, move \in BOOLEAN : PlayerAction(t, move)
    \/ \E t \in Users : PlayerActionThrows(t)

Tick ==
    \/ \E delta \in Deltas : TickBegin(delta)
    \/ \E m \in Maps : SessionBegin(m)
    \/ \E id \in PlayerIds, moving \in BOOLEAN : TickDog(id, moving)
    \/ \E id \in PlayerIds, moving, committed \in BOOLEAN :
          SaveThrows(id, moving, committed)
    \/ \E id \in PlayerIds, committed \in BOOLEAN : SaveKills(id, committed)
    \/ DogsDone
    \/ \E id \in PlayerIds : RemoveDog(id)
    \/ SessionEnd
    \/ TickEnd
    \/ BackupThrows

Process == Stop \/ Crash \/ Start

Next == Requests \/ Tick \/ Process

Spec == Init /\ [][Next]_vars

-----------------------------------------------------------------------------
(* Properties.                                                             *)

\* A token leads to the dog of the user it was given to (JoinGame,
\* RestoreBackUpData), and is forgotten with that dog (the removal in Tick).
TokenControlsOwnDog ==
    counterOK => \A t \in Tokens : tokens[t] # None =>
                    DogOf(t) # None /\ DogOf(t).name = t

\* A dog in the game can be reached: its user's token leads to it and to nothing
\* else, and the table of players knows it on that map.
DogIsControlled ==
    counterOK => \A m \in Maps, id \in PlayerIds : dogs[m][id] # None =>
                    /\ players[id] = m
                    /\ tokens[dogs[m][id].name] = [id |-> id, map |-> m]

\* A player whose join was answered is in the game, in the state file or in the
\* records, as long as processes only end by a signal, which saves the state.
InFile(u) == stateFile # None /\ \E m \in Maps, id \in PlayerIds :
                stateFile.dogs[m][id] # None /\ stateFile.dogs[m][id].name = u

NobodyVanishes ==
    (counterOK /\ HasStateFile /\ ~crashed) =>
        \A u \in joined : \/ records[u] # <<>>
                          \/ IF up THEN InGame(u) ELSE InFile(u)

\* Tick takes nobody out of a running game before the record is stored.
RetiredIsRecorded ==
    [][\A u \in Users : (InGame(u) /\ up' /\ ~InGame(u)') => records'[u] # <<>>]_vars

\* A player is recorded once, and once more at most for every tick that the
\* database cut short and every start from an old state file.
RecordedAtMost == \A u \in Users : Len(records[u]) <= 1 + aborts + restarts

\* The play time of a record covers the time the dog stood before it retired.
PlayTimeCoversStanding ==
    \A u \in Users : \A i \in DOMAIN records[u] : records[u][i] >= Retirement

\* A player who has been in the game for a save period is in the state file, at
\* every moment between two handlers, unless a tick was cut short: a crash costs
\* a save period of play at most.
BackupCovers ==
    (up /\ pc = "idle" /\ HasStateFile /\ SavePeriod > 0 /\ ~cutShort) =>
        \A m \in Maps, id \in PlayerIds :
            (dogs[m][id] # None /\ dogs[m][id].life >= SavePeriod) =>
                /\ stateFile # None
                /\ stateFile.dogs[m][id] # None
                /\ stateFile.dogs[m][id].name = dogs[m][id].name

\* "Global numbering of the players" (application.cpp:373): an id is given to
\* one player only, so the dog behind a token is the dog of that user.
GlobalNumbering ==
    \A t, u \in Users : (tokens[t] # None /\ tokens[u] # None /\ t # u) =>
                            tokens[t].id # tokens[u].id

\* To its users the registry is that of Membership: nobody leaves a running game without a
\* record, and a start brings back those of the last backup, and nobody else, as long as
\* ids are not given out twice (JoinGame, Tick, BackUpData, RestoreBackUpData).
Members == INSTANCE Membership WITH
    playing  <- {u \in Users : InGame(u)},
    recorded <- {u \in Users : records[u] # <<>>},
    saved    <- {u \in Users : InFile(u)},
    honest   <- counterOK

KeepsMembership == Members!Spec

=============================================================================
