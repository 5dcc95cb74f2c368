-------------------------------- MODULE Api --------------------------------
(***************************************************************************)
(* What a request does: RequestHandler (request_handler.h) sends it to the *)
(* API or to the files, UriData and UriElement (uri_api.h, token.h) check  *)
(* it against the table of end points, and a handler of ApiRequestHandler  *)
(* (api_request.cpp) reads its body and acts on the game.                  *)
(*                                                                         *)
(* The registry behind it is that of module Application for one life of    *)
(* the process: a token leads to a player, the player to its session and   *)
(* its id, and these two to the dog.  Of a dog only its user and whether   *)
(* it moves are kept; a tick retires any that stand.  A user is named by   *)
(* the token it gets, a session by its map.  A body is its shape as a JSON *)
(* text and the one argument that matters.                                 *)
(***************************************************************************)
EXTENDS Integers

CONSTANTS
    Tokens,         \* the tokens that joins give out, in no order
    Foreign,        \* a token of the right length that was never given out
    Maps,           \* ids of the maps of the configuration file
    NoSuchMap,      \* any other id
    PlayerIds,      \* the values of player_incr_id_ that are explored
    Deltas,         \* values of timeDelta
    Word,           \* 2^64, the modulus of size_t
    None

ASSUME TokensAssumption == /\ Foreign \notin Tokens
                           /\ "missing" \notin Tokens \cup {Foreign}
ASSUME MapsAssumption   == NoSuchMap \notin Maps /\ "" \notin Maps
ASSUME IdsAssumption    == PlayerIds \subseteq Nat
ASSUME TimeAssumption   == Word \in Nat \ {0} /\ Deltas \subseteq Int

Player == [id : PlayerIds, map : Maps]
Dog    == [name : Tokens, moving : BOOLEAN]

ASSUME NoneAssumption   == None \notin Player \cup Dog \cup Maps \cup Tokens

VARIABLES
    auto_tick,      \* --tick-period was given: chosen once, at the start
    up,             \* the process runs
    dogs,           \* GameSession::dogs_ of each session
    players,        \* Players::players_: player id -> the map of its session
    tokens,         \* PlayerTokens::token_to_player_
    player_incr_id, \* Players::player_incr_id_
    server_time,
    answer,         \* the last answer, None before and after a tick of the Ticker
    joined,         \* ghost: what the user was told at the join: its id, on the map asked for
    recorded,       \* ghost: users with a record in the database
    retired,        \* ghost: users whose dog a tick has removed
    cause           \* ghost: what ended the process, "none" while it runs

registry == <<dogs, players, tokens, player_incr_id>>
game     == <<registry, server_time>>
ghosts   == <<joined, recorded, retired>>
vars     == <<auto_tick, up, game, answer, ghosts, cause>>

-----------------------------------------------------------------------------
(* Requests and the table of end points.                                   *)

\* HEAD is allowed wherever GET is, and neither acts: GET stands for both.  A token is
\* missing without the header, and with one that has not the length of a token.
Methods == {"GET", "POST"}
Shapes  == {"broken", "scalar", "partial", "mistyped", "whole"}
Auths   == Tokens \cup {Foreign, "missing"}

EndPoint(methods, json, token) == [methods |-> methods, json |-> json, token |-> token]
Reading == {"GET"}

\* The Link... functions: allowed methods, content type, authorization.
EndPoints_FaultyAnyMethod ==
    [maps |-> EndPoint(Reading, FALSE, FALSE), map |-> EndPoint(Reading, FALSE, FALSE),
     join |-> EndPoint({"POST"}, TRUE, FALSE), players |-> EndPoint(Reading, FALSE, TRUE),
     state |-> EndPoint(Reading, FALSE, TRUE), action |-> EndPoint(Methods, TRUE, TRUE),
     tick |-> EndPoint({"POST"}, TRUE, FALSE), records |-> EndPoint(Reading, TRUE, FALSE)]
EndPoints ==
    [maps |-> EndPoint(Reading, FALSE, FALSE), map |-> EndPoint(Reading, FALSE, FALSE),
     join |-> EndPoint({"POST"}, TRUE, FALSE), players |-> EndPoint(Reading, FALSE, TRUE),
     state |-> EndPoint(Reading, FALSE, TRUE), action |-> EndPoint({"POST"}, TRUE, TRUE),
     tick |-> EndPoint({"POST"}, TRUE, FALSE), records |-> EndPoint(Reading, TRUE, FALSE)]

\* The one argument of a request, by path: a map id, a join with an empty name, a
\* direction ("U" for all that move, "" to stop, "?" for what is none), a time, a
\* page of records, what a file path leads to.
Arguments ==
    [maps |-> {None}, map |-> {""} \cup Maps \cup {NoSuchMap},
     join |-> {""} \cup Maps \cup {NoSuchMap}, players |-> {None}, state |-> {None},
     action |-> {"U", "", "?"}, tick |-> Deltas,
     records |-> {"all", "page", "over 100", "garbled"},
     unknown |-> {None}, static |-> {"unresolvable", "outside", "absent",
                                        "unreadable", "file"}]

\* Headers and bodies that nothing reads do not vary: those of a request whose method is
\* refused, and what would be read of a body that does not parse.
RequestsBy(method, path) ==
    LET e == IF path \in DOMAIN EndPoints /\ method \in EndPoints[path].methods
             THEN EndPoints[path] ELSE EndPoint({}, FALSE, FALSE)
    IN {r \in [path : {path}, method : {method}, arg : Arguments[path],
               json  : IF e.json THEN BOOLEAN ELSE {FALSE},
               auth  : IF e.token THEN Auths ELSE {"missing"},
               shape : IF method = "POST" /\ e.json THEN Shapes ELSE {"whole"}] :
           r.shape # "whole" => r.arg = CHOOSE a \in Arguments[path] : TRUE}

Requests(path) == UNION {RequestsBy(method, path) : method \in Methods}

Statuses == {"ok", "bad_request", "unauthorized", "not_found", "method_not_allowed",
             "server_error"}
\* What an answer tells of a player: its id, and the name if that is told.
Shown    == [id : PlayerIds, name : Tokens \cup {None}]
Answers  == [path : DOMAIN Arguments, method : Methods, auth : Auths,
             status : Statuses, shown : SUBSET Shown]

ASSUME AnswerAssumption == None \notin Answers

\* The answer to r; shown are the players it tells of.
Answer(r, status, shown) ==
    answer' = [path |-> r.path, method |-> r.method, auth |-> r.auth,
               status |-> status, shown |-> shown]

\* An answer that leaves the game alone, as every refusal does.
Reply(r, status, shown) ==
    Answer(r, status, shown) /\ UNCHANGED <<auto_tick, up, game, ghosts, cause>>

\* The tables of a process that has just started.
Blank ==
    /\ dogs' = [m \in Maps |-> [id \in PlayerIds |-> None]]
    /\ players' = [id \in PlayerIds |-> None]
    /\ tokens' = [t \in Tokens |-> None]
    /\ player_incr_id' = 0 /\ server_time' = 0

\* An exception leaves the handler, io_context::run and main: the process is gone, and
\* what it held in memory with it.
Die(why) ==
    /\ up' = FALSE /\ answer' = None /\ cause' = why /\ Blank
    /\ UNCHANGED <<auto_tick, joined, retired>>

\* The handler threw before it did anything that lasts.
Throw(why) == Die(why) /\ UNCHANGED recorded

\* UriElement::ProcessRequest and ExecuteAuthorized, in the order of the checks.
Refused(r) ==
    LET e == EndPoints[r.path]
    IN \/ r.method \notin e.methods /\ Reply(r, "method_not_allowed", {})
       \/ r.method \in e.methods /\ e.json /\ ~r.json /\ Reply(r, "bad_request", {})
       \/ /\ r.method \in e.methods /\ (e.json => r.json)
          /\ e.token /\ r.auth = "missing"
          /\ Reply(r, "unauthorized", {})

Admitted(r) ==
    LET e == EndPoints[r.path]
    IN /\ r.method \in e.methods /\ (e.json => r.json)
       /\ e.token => r.auth \in Tokens \cup {Foreign}

-----------------------------------------------------------------------------
(* The registry.                                                           *)

Joined == {t \in Tokens : joined[t] # None}

\* FindPlayerByToken finds a player.
Known(t) == t \in Tokens /\ tokens[t] # None

\* GameSession::GetIdAndNames and GetIdAndDogDatas.
IdsIn(m)     == {id \in PlayerIds : dogs[m][id] # None}
IdsAndNames(m) == {[id |-> id, name |-> dogs[m][id].name] : id \in IdsIn(m)}
IdsAndData(m)  == {[id |-> id, name |-> None] : id \in IdsIn(m)}

\* emplace keeps what the key already holds.
Emplace(old, new) == IF old = None THEN new ELSE old

\* Players::GetNextPlayerId leaves the counter one higher.
NextIncr_FaultyStays(id) == id
NextIncr(id) == id + 1

\* Application::JoinGame: the dog, then its player, then a token that leads to the player
\* which the table then holds under the id.
JoinGame(t, m) ==
    /\ player_incr_id \in PlayerIds
    /\ LET id == player_incr_id
       IN /\ dogs' = [dogs EXCEPT ![m][id] = Emplace(dogs[m][id], [name |-> t, moving |-> FALSE])]
          /\ players' = [players EXCEPT ![id] = Emplace(players[id], m)]
          /\ tokens' = [tokens EXCEPT ![t] = [id |-> id, map |-> players'[id]]]
          /\ player_incr_id' = NextIncr(id)
          /\ joined' = [joined EXCEPT ![t] = [id |-> id, map |-> m]]

-----------------------------------------------------------------------------
(* Application::Tick.                                                      *)

\* The dogs of some sessions, as pairs of map and id.
DogsOn(maps) == {p \in maps \X PlayerIds : dogs[p[1]][p[2]] # None}
NameAt(p)    == dogs[p[1]][p[2]].name
Names(ps)    == {NameAt(p) : p \in ps}

\* A tick adds to the stop time of these, and of no others.
Standing(maps, delta) ==
    {p \in DogsOn(maps) : ~dogs[p[1]][p[2]].moving \/ delta = 0}

\* PlayerTokens::RemovePlayer for each of some ids: a token found with the id is erased.
TokensOf(id) == {t \in Tokens : tokens[t] # None /\ tokens[t].id = id}
RemoveTokens_FaultyKeeps(ids) == UNCHANGED tokens
RemoveTokens(ids) ==
    \E first \in [ids -> Tokens \cup {None}] :
        /\ \A id \in ids : IF TokensOf(id) = {} THEN first[id] = None ELSE first[id] \in TokensOf(id)
        /\ tokens' = [t \in Tokens |-> IF \E id \in ids : first[id] = t THEN None ELSE tokens[t]]

\* Some dogs are removed, some run into an edge and stop.
Remaining_FaultyForgets(gone, stopped) ==
    [m \in Maps |-> [id \in PlayerIds |-> IF <<m, id>> \in gone \cup stopped THEN None ELSE dogs[m][id]]]
Remaining_FaultyKeeps(gone, stopped) ==
    [m \in Maps |-> [id \in PlayerIds |->
        IF <<m, id>> \in stopped THEN [dogs[m][id] EXCEPT !.moving = FALSE] ELSE dogs[m][id]]]
Remaining(gone, stopped) ==
    [m \in Maps |-> [id \in PlayerIds |->
        IF <<m, id>> \in gone THEN None
        ELSE IF <<m, id>> \in stopped THEN [dogs[m][id] EXCEPT !.moving = FALSE]
        ELSE dogs[m][id]]]

\* What is left of the registry: dog, token and player of those who retire are removed.
Retire(gone, stopped) ==
    LET ids == {p[2] : p \in gone}
    IN /\ dogs' = Remaining(gone, stopped)
       /\ RemoveTokens(ids)
       /\ players' = [id \in PlayerIds |-> IF id \in ids THEN None ELSE players[id]]
       /\ retired' = retired \cup Names(gone)
       /\ UNCHANGED <<auto_tick, up, player_incr_id, joined, cause>>

\* The sum of two size_t.
Plus(a, b) == (a + b) % Word

\* Any dog that stands may have stood for long enough.  The periodic backup at the end may
\* throw, when all of this is done.
Tick(delta) ==
    \E gone \in SUBSET Standing(Maps, delta) :
        /\ \E stopped \in SUBSET (DogsOn(Maps) \ Standing(Maps, delta)) : Retire(gone, stopped)
        /\ recorded' = recorded \cup Names(gone)
        /\ server_time' = Plus(server_time, delta)

\* Save throws for a dog of session m.  The tick is over for the sessions it has visited, has
\* not come to the others, and dogs of m have moved and are recorded but not removed, the
\* one for which Save threw perhaps among them; the clock stands still.
CutTick(delta) ==
    \E m \in Maps : \E done \in SUBSET (Maps \ {m}) :
        /\ Standing({m}, delta) # {}
        /\ \E gone \in SUBSET Standing(done, delta), noted \in SUBSET Standing({m}, delta) :
              /\ \E stopped \in SUBSET (DogsOn(done \cup {m}) \ Standing(Maps, delta)) :
                    Retire(gone, stopped)
              /\ recorded' = recorded \cup Names(gone \cup noted)
        /\ UNCHANGED server_time

\* Save or the backup throws out of a handler: of all the tick did, the records last.
FatalTick(delta) ==
    /\ \E noted \in SUBSET Standing(Maps, delta) : recorded' = recorded \cup Names(noted)
    /\ Die("database or backup")

\* static_cast<size_t> of an int64.
AsSize(delta) == delta % Word

-----------------------------------------------------------------------------
(* The handlers, each from its first check to its answer.                   *)

ProcessGetMaps(r) == Reply(r, "ok", {})

ProcessGetMapId(r) ==
    IF r.arg = NoSuchMap THEN Reply(r, "not_found", {}) ELSE Reply(r, "ok", {})

\* A body that is no object, or whose fields are no strings, throws.
ProcessJoinGame(r) ==
    \/ r.shape \in {"broken", "partial"} /\ Reply(r, "bad_request", {})
    \/ r.shape \in {"scalar", "mistyped"} /\ Throw("body")
    \/ r.shape = "whole" /\ r.arg = "" /\ Reply(r, "bad_request", {})
    \/ r.shape = "whole" /\ r.arg = NoSuchMap /\ Reply(r, "not_found", {})
    \/ /\ r.shape = "whole" /\ r.arg \in Maps
       /\ \E t \in Tokens \ Joined :
             JoinGame(t, r.arg) /\ Answer(r, "ok", {[id |-> player_incr_id, name |-> t]})
       /\ UNCHANGED <<auto_tick, up, server_time, recorded, retired, cause>>

\* Application::GetPlayersList looks the token up again and shows the session of its player.
ProcessGetPlayersList(r) ==
    \/ ~Known(r.auth) /\ Reply(r, "unauthorized", {})
    \/ Known(r.auth) /\ Reply(r, "ok", IdsAndNames(tokens[r.auth].map))

\* The state of the session that the player points to.
ProcessGetGameState(r) ==
    \/ ~Known(r.auth) /\ Reply(r, "unauthorized", {})
    \/ Known(r.auth) /\ Reply(r, "ok", IdsAndData(tokens[r.auth].map))

\* Dog::SetDirection keeps the direction when it is given none.
Turned(dog, move) == IF move = "?" THEN dog ELSE [dog EXCEPT !.moving = (move # "")]

\* GetDogById in the session of the player, by the id that the player remembers: at()
\* throws when the dog is gone.
TurnDog(player, move) ==
    /\ dogs[player.map][player.id] # None
    /\ dogs' = [dogs EXCEPT ![player.map][player.id] = Turned(dogs[player.map][player.id], move)]

ProcessPlayerAction(r) ==
    \/ ~Known(r.auth) /\ Reply(r, "unauthorized", {})
    \/ Known(r.auth) /\ r.shape \in {"broken", "partial"} /\ Reply(r, "bad_request", {})
    \/ Known(r.auth) /\ r.shape \in {"scalar", "mistyped"} /\ Throw("body")
    \/ /\ Known(r.auth) /\ r.shape = "whole"
       /\ TurnDog(tokens[r.auth], r.arg)
       /\ Answer(r, "ok", {})
       /\ UNCHANGED <<auto_tick, up, players, tokens, player_incr_id, server_time, ghosts, cause>>
    \/ /\ Known(r.auth) /\ r.shape = "whole"
       /\ dogs[tokens[r.auth].map][tokens[r.auth].id] = None
       /\ Throw("no dog")

\* The end point is refused when the Ticker drives the game.
ProcessTimeTick(r) ==
    \/ auto_tick /\ Reply(r, "bad_request", {})
    \/ ~auto_tick /\ r.shape \in {"broken", "partial", "mistyped"} /\ Reply(r, "bad_request", {})
    \/ ~auto_tick /\ r.shape = "scalar" /\ Throw("body")
    \/ ~auto_tick /\ r.shape = "whole" /\ Tick(AsSize(r.arg)) /\ Answer(r, "ok", {})
    \/ ~auto_tick /\ r.shape = "whole" /\ FatalTick(AsSize(r.arg))

\* A query that is not ?start=...&maxItems=... with two numbers throws in stoi or
\* substr, one that the database refuses or cannot answer throws there.
ProcessRecords(r) ==
    \/ r.arg \in {"all", "page"} /\ Reply(r, "ok", {})
    \/ r.arg \in {"all", "page"} /\ Throw("database or backup")
    \/ r.arg = "over 100" /\ Reply(r, "bad_request", {})
    \/ r.arg = "garbled" /\ Throw("query")

\* StaticRequestHandler::Handle.  A path that the file system refuses to resolve, such as
\* one with a component that is too long, throws out of weakly_canonical.
ServeFile(r) ==
    \/ r.method \notin Reading /\ Reply(r, "method_not_allowed", {})
    \/ r.method \in Reading /\ r.arg = "unresolvable" /\ Throw("path")
    \/ r.method \in Reading /\ r.arg = "outside" /\ Reply(r, "bad_request", {})
    \/ r.method \in Reading /\ r.arg = "absent" /\ Reply(r, "not_found", {})
    \/ r.method \in Reading /\ r.arg = "unreadable" /\ Reply(r, "server_error", {})
    \/ r.method \in Reading /\ r.arg = "file" /\ Reply(r, "ok", {})

-----------------------------------------------------------------------------
Process(r) ==
    \/ r.path = "maps" /\ ProcessGetMaps(r)
    \/ r.path = "map" /\ ProcessGetMapId(r)
    \/ r.path = "join" /\ ProcessJoinGame(r)
    \/ r.path = "players" /\ ProcessGetPlayersList(r)
    \/ r.path = "state" /\ ProcessGetGameState(r)
    \/ r.path = "action" /\ ProcessPlayerAction(r)
    \/ r.path = "tick" /\ ProcessTimeTick(r)
    \/ r.path = "records" /\ ProcessRecords(r)

\* UriData::Process finds the end point; RequestHandler tells API from files.
Handle(r) ==
    \/ r.path = "static" /\ ServeFile(r)
    \/ r.path = "unknown" /\ Reply(r, "bad_request", {})
    \/ r.path \in DOMAIN EndPoints /\ Refused(r)
    \/ r.path \in DOMAIN EndPoints /\ Admitted(r) /\ Process(r)

\* Ticker::OnTick.  It swallows an exception of the database or of the backup.
TickerTick ==
    /\ up /\ auto_tick /\ answer' = None
    /\ \E delta \in Deltas \cap Nat : Tick(delta) \/ CutTick(delta)

Init ==
    /\ auto_tick \in BOOLEAN
    /\ up = TRUE
    /\ dogs = [m \in Maps |-> [id \in PlayerIds |-> None]]
    /\ players = [id \in PlayerIds |-> None]
    /\ tokens = [t \in Tokens |-> None]
    /\ player_incr_id = 0 /\ server_time = 0
    /\ answer = None /\ cause = "none"
    /\ joined = [t \in Tokens |-> None] /\ recorded = {} /\ retired = {}

Next ==
    \/ \E path \in DOMAIN Arguments : \E r \in Requests(path) : up /\ Handle(r)
    \/ TickerTick

Spec == Init /\ [][Next]_vars

-----------------------------------------------------------------------------
(* Properties.                                                             *)

TypeOK ==
    /\ auto_tick \in BOOLEAN /\ up \in BOOLEAN
    /\ dogs \in [Maps -> [PlayerIds -> Dog \cup {None}]]
    /\ players \in [PlayerIds -> Maps \cup {None}]
    /\ tokens \in [Tokens -> Player \cup {None}]
    /\ player_incr_id \in Nat /\ server_time \in 0 .. Word - 1
    /\ answer \in Answers \cup {None}
    /\ joined \in [Tokens -> Player \cup {None}]
    /\ recorded \subseteq Tokens /\ retired \subseteq Tokens

\* A player can be asked about with its token from the answer to the join until its
\* dog is removed, and not before or after: unknownToken means exactly that, though
\* RemovePlayer finds the token of a dog by a search for its id.
KnownUntilRetired ==
    (answer # None /\ answer.path \in {"players", "state"} /\ answer.method \in Reading) =>
        ((answer.status = "ok") <=> (answer.auth \in Joined \ retired))

\* The list and the state show a player those, and only those, who joined the same map
\* and have not retired, under the ids that their joins were answered with, and the
\* list gives each id the name of its user (JoinGame, GetIdAndNames, GetIdAndDogDatas).
Mates(t) == {u \in Joined \ retired : joined[u].map = joined[t].map}

ShowsOwnSession ==
    (answer # None /\ answer.path \in {"players", "state"} /\ answer.status = "ok") =>
        answer.shown = {[id |-> joined[u].id, name |-> IF answer.path = "players" THEN u ELSE None] :
                           u \in Mates(answer.auth)}

\* A token that is known leads to a dog: no order of joins, retirements and requests makes
\* GetDogById throw out of a handler, which would end the game for all players.
DogIsFound == cause # "no dog"

\* What is answered, but not with 200 to a POST, has left the game and the records
\* alone (the Link... tables against the handlers).
OnlyAcceptedPostsAct ==
    [][(answer' # None /\ ~(answer'.method = "POST" /\ answer'.status = "ok"))
          => UNCHANGED <<game, recorded>>]_vars

\* Time has one driver: under a Ticker no request moves the clock, removes or records a
\* player, not even one that ends the process.
OneDriver ==
    [][(auto_tick /\ (answer' # None \/ ~up')) =>
          /\ UNCHANGED <<retired, recorded>>
          /\ up' => UNCHANGED server_time]_vars

\* Other than by a tick, an answered request adds the dog whose id it tells to the session
\* asked for, or turns the dog whose id the join told the user of its token, in the session
\* that user joined, and touches no other dog.
TouchesOnlyItsPlayer ==
    [][(answer' # None /\ answer'.path # "tick") =>
          \A m \in Maps, id \in PlayerIds : dogs'[m][id] # dogs[m][id] =>
              \/ /\ answer'.path = "join" /\ dogs[m][id] = None
                 /\ answer'.shown = {[id |-> id, name |-> dogs'[m][id].name]}
                 /\ joined'[dogs'[m][id].name].map = m
              \/ /\ answer'.path = "action" /\ joined[answer'.auth] = [id |-> id, map |-> m]
                 /\ dogs'[m][id] # None]_vars

\* What one request after another makes of the players is what Membership allows: no
\* answer takes anybody out of the game other than by a tick that records them.
Members == INSTANCE Membership WITH
    Users <- Tokens, playing <- Names(DogsOn(Maps)), recorded <- recorded,
    saved <- {}, honest <- TRUE

KeepsMembership == Members!Spec

=============================================================================
