# A TLA+ model of the game server

The repository is a multiplayer game server in C++20 (Boost.Asio, Boost.Beast, Boost.JSON,
libpqxx) with a browser client. Players join a map over HTTP, run a dog along its roads, gather
loot, bring it to an office for points, and are retired into a PostgreSQL table of records when
their dog has stood still for too long. The server saves its state to a file and restores it at
the next start. This directory models that server and the page players see it in, checks the
model with TLC on small instances, and proves with TLAPS what matters most for all of them.

## 1. Inventory

| Part | Source | State | Operations |
|---|---|---|---|
| Player registry, ticks, backup | `application.*`, `token.h` | `players_`, `token_to_player_`, `player_incr_id_`, server and backup clocks | `JoinGame`, `FindPlayerByToken`, `GetPlayersList`, `Tick`, `BackUpData`, `RestoreBackUpData` |
| Game sessions and dogs | `model.*` | `sessions_`; per session `dogs_`, `loots_`, `loot_id_incr_`, loot generator; per dog position, speed, bag, score, life and stop time | `AddDog`, `GenerateLoot`, `GetLootToItems`, `RemoveLootById`, `RestoreLoot`, `RemoveDogById`, `SetDirection`, `SetBagItem`, `ClearBag` |
| Map | `model.*` | roads, their boxes in an R-tree, offices | `CreateRoadRTree`, `GetSuccessRoadMoveSimple`, `GetRandomCoordOnRoads` |
| Loot generator | `loot_generator.*` | time without loot | `Generate` |
| Collision detector | `collision_detector.*` | none | `TryCollectPoint`, `FindGatherEvents` |
| State file | `model_serialization.h`, `application.cpp:288-375` | the file, the temporary file | save through a temporary file and a rename; load |
| Records | `postgres.*`, `records_player.*` | table `retired_players` | `Save`, `Read` |
| Ticker | `main.cpp:39-90` | timer, time of the last tick | `Start`, `ScheduleTick`, `OnTick` |
| HTTP listener and sessions | `http_server.*` | acceptor; per connection stream, buffer, request | `DoAccept`, `OnAccept`, `Read`, `OnRead`, `Write`, `OnWrite`, `Close` |
| Requests | `request_handler.h`, `uri_api.h`, `api_request.*`, `response.*` | table of end points | dispatch, checks, eight handlers |
| Static files | `static_request.h`, `tools.*` | none | `Handle` |
| Process | `main.cpp:141-223` | io_context, signals | start, stop, end by an exception |
| Configuration | `json_loader.*`, `program_options.*` | none after the start | load |
| Page of the game | `static/js/game.js` | tables of players, loot, falling loot; the state shown and the one wanted; pressed keys; rotation of each dog | `tick`, `_updateState`, `_syncPlayers`, `_applyDesiredState`, `_pressKey`, `_interpolateRotation`, ... |
| Map on the page | `static/js/game_map.js`, `game.js:640-684` | `map_tiles` | `gameLoadMap`, `makeRoads` |

(`application.*` and the like are in `src/src/`, `static/` is `src/static/`.)

How they interact. One thread runs one `io_context`. The listener makes a session per
connection; a session reads a request, calls `RequestHandler` and reads again when the answer
is written. Requests to `/api/` run on a strand, on which the Ticker runs too, so requests and
ticks never overlap. The handlers call `Application` directly. `Application::Tick` walks the
sessions; in each it generates loot, moves the dogs along the roads, writes a record for every
dog that stood too long, applies the gathering events of the collision detector, and removes
the retired dogs, their tokens and their players. At its end it writes the state file if that
is due. `main` writes it once more when a signal stops the `io_context`. An exception that
leaves a handler leaves `io_context::run` and `main`, without that backup; one that leaves
the handler of the Ticker is swallowed there and cuts the tick short. The page asks for the
state of its session every few frames and for the list of players less often, posts the key
to follow whenever one goes down or up, and leaves for the records when the list is refused.

What is hard about it, and to test:

- a tick is long and has many effects, some durable, and the database may fail in the middle
  of it; what happens then depends on who drives the tick;
- restarts: the counters are restored by counting, the file leaves a part of the state out,
  and it may be older than the records; the file itself is written in steps;
- the order of hash maps, of the R-tree and of equal events is nobody's choice;
- roads cross, touch and overlap, and ticks may be long;
- clients send ahead, fall silent, do not read, or vanish;
- exceptions end the process for everybody;
- the page has two requests that race, and posts that nothing orders.

`PROJECT.json` lists these as hazards, line by line, with the properties that watch them. Beyond
that list: records with equal score, time and name have no order (`postgres.cpp:35`) and may show
up on two pages or on none; a play time beyond 24.8 days overflows its `int`
(`application.cpp:232`); a state file may name a map the configuration no longer has
(`application.cpp:363`). The first is a matter of SQL, and the other two of widths and
configurations that the modules do not have.

What makes each part correct: a token leads to the dog of its user and to nothing else;
nobody leaves the game without a record, and is recorded once; a backup keeps everybody, and is
on disk as a whole; a dog stays on the roads and goes where it heads; loot comes when it is
due, is never doubled or lost, and a score is what was delivered; the game's time is the time
that passed, and ticks go on; answers come in the order of the requests and sessions end; only
accepted requests change the game, and only for their own player; the page shows each thing
once and ends up showing what the server has.

## 2. Modules

Each component has a module; `MC...` modules give it small constants and symmetry, `...Proofs`
modules its theorems, those about `Steering` in `ClientProofs`, about `LootGenerator` in `GameSessionProofs`,
about `TileMap` and `Gathering` in `RoadMapProofs`. A definition whose name ends in `_Faulty...` is a
piece of the code with a plausible mistake. No behaviour uses it; it serves to show that a property would notice.

- **Application** - the registry. State: the tables of `Players` and `PlayerTokens`, the dogs of
  each session (name, moving or not, life and stop time), both clocks, the position inside a
  tick, and the durable records and state file. Actions: `JoinGame`, `PlayerAction`, and its
  exception; the steps of a tick from `TickBegin` through `SessionBegin`, `TickDog`,
  `DogsDone`, `RemoveDog` and `SessionEnd` to `TickEnd` with the backup; the failures
  `SaveThrows` (under the Ticker), `SaveKills` (in a request) and `BackupThrows`; `Stop`,
  `Crash`, and `Start` with `RestoreBackUpData`. The tick is split because a crash or the
  database may come between any two of its steps; requests are only handled between ticks,
  as the strand has it. The choices of `SaveThrows` include a row that was committed although
  the call failed.
- **Membership** - the abstract game: who plays, who is recorded, who is in the state file. A tick
  records some and lets some of the recorded leave; a start brings back who was saved. `Application`
  implements it in full, `Api` for one life of the process (`KeepsMembership` in each).
- **GameSession** - loot, bags and scores of one session. A piece of loot carries a serial
  number which the code does not have, so that pieces can be followed where the code
  only knows ids. `GenerateLoot` begins a tick, `Gather` handles one event (any order, each at
  most once), `EndTick` retires standing dogs. `BackUp` and `Restart` go back to an older state.
  A tick that an exception cuts short is one whose remaining events never come.
- **LootGenerator** - GameSession with the generator: the number of pieces follows from the time
  without loot, as a fraction with integers (the server leaves the random generator at its default,
  which returns 1), instead of being any number up to the shortage.
- **RoadMap** - one dog on one map. `GetSuccessRoadMoveSimple` is the set of results over all
  orders of the R-tree; `Loop` is the loop of the code, and a checked invariant says they agree.
  Coordinates are integers in a unit in which half a road is a whole number. The comparisons
  and subtractions of the code are exact in it; the rounding of doubles is left out.
- **CollisionDetector**, **Gathering** - the geometry, with ratios kept as fractions, and its
  composition with RoadMap: the gatherer is the dog of the tick, the items are those of the session.
- **TileMap** - what the page draws of the roads that RoadMap moves dogs on: tiles, and the
  strips along their sides as sets of squares.
- **StateFile** - one backup step by step: opening the temporary file, its buffers, the last
  flush in `close`, the rename; each may fail, and the process may die in between. **Snapshot** is
  what that is for: one copy, replaced at once (`ReplacedAtOnce`).
- **Ticker** - the timer and the clock, on a clock finer than a millisecond. Only differences
  of readings are state; sums are ghosts that count the first `MaxTicks` ticks.
- **HttpServer** - connections, the listener, and the sessions. The client's side (connecting,
  sending ahead, shutting down) is external and free.
- **Api** - requests: what the file or API side refuses, in which order, what the handlers throw,
  change and show. The game behind it is the registry as the handlers see it: tokens that lead to a
  player, its session and its id, and dogs found by these two; a tick removes any dogs that stand, with
  tokens found by a search for the id. The ticks of `Application` step by step are three actions here:
  `Tick`, `CutTick` (`Save` throws under the Ticker, which swallows it: some sessions are done, others not
  begun, and of one the dogs have moved and are recorded, not removed) and `FatalTick` (it throws out
  of a handler: the process is gone, the records of the tick stay). The ghost `joined` is what the answer to
  each join told the user, `cause` what ended the process.
- **Client** - the page against a session that changes. Requests have stages: sent, answered (with
  the state at that moment) and handled, in any order; either may get lost. The tables of the
  page are sets of ids; `unseen` are pieces that were taken out of the scene while a table still
  has them, `stray` says that something stays in the scene that no table has.
- **Steering** - keys, posts and `Dog::SetDirection`; and the rotation a dog is drawn with, in
  eighths of a turn.

How they fit together. `Api` and `Application` share the registry: `Api` has every request and the
least of the game, `Application` has the tick, durability and the life of the process; both
implement `Membership`. `GameSession` and `RoadMap` are the two parts of a tick that `Application`
leaves out; `Gathering` ties the events of the first to the moves of the second. `Ticker` produces the
length of ticks, `StateFile` the one step that `Application` takes for a backup. `HttpServer` is what
stands before `Api`, and `Client` and `Steering` are what stands before that.

## 3. Runs

| Run | Question | Instance |
|---|---|---|
| `app_ticker` | do tokens, dogs, records and the state file agree, with a database that fails under the Ticker, a crash and a restart? | 2 users, 2 maps, ticks of 1 and 2, retirement and save period 2, 3 units of time, 1 tick cut short, 1 restart |
| `app_http` | is the registry a `Membership` to its users, with ticks by `POST /game/tick`, where the exception ends the process? | 3 users, 2 maps, ticks of 1, 2 units of time, 1 failure, 1 restart |
| `app_numbering` | are player ids unique? **No** | as `app_http` |
| `roadmap` | does a dog stay on the roads, not jump, stop where it must, gather what it passes, and walk where the page draws road? | 5 roads: crossing, corner, shared ends, either direction, gap; a unit of 10, roads 8 wide; steps of 1, 6, 15 and 60; 5 items; 2 buildings |
| `session` | does loot come when it is due, is it conserved and the score earned, in any order of events? | 2 dogs, bags of 2, 4 pieces of 2 types, ticks of 1 and 2, one unit in four brings a piece |
| `session_restart` | is loot conserved across a restart from a backup of any age? | 2 dogs, bags of 1, 3 pieces, 1 restart |
| `ticker` | does game time follow the clock, and do the ticks go on? | period 2 ms, thirds of a ms, lateness up to 4 and handlers up to 8 steps |
| `http_server` | do answers come in order, are all requests answered, do sessions begin and end? | 2 connections, 2 requests each, accept may fail |
| `api` | does every request, in every shape, do and show only what it should? | 3 tokens, 2 maps, ids 0 to 2, times -1 and 1, clock modulo 2 |
| `client` | does the page show each thing once, and in the end what the server has? | 2 players, 1 piece, 2 requests for the state and 1 for the list at a time, 2 changes after any beginning |
| `state_file` | is the file whole, and replaced at once? | 3 buffers, 5 changes of the game, any number of lives |
| `steering` | does the dog go where it is steered, and turn the short way? | 3 keys, 3 presses, 2 posts under way, states every 1 or 3 eighths |

What the properties of the passing runs say, in short:

- `TokenControlsOwnDog`, `DogIsControlled` - token to dog and dog to token, as long as no restore has
  put the counter of ids below an id in use (`counterOK`; when it does is `GlobalNumbering`'s finding).
- `NobodyVanishes` - who has joined is in the game, in the file or in the records, as long as
  processes end by a signal. `RetiredIsRecorded` - nobody leaves before the record is stored.
  `RecordedAtMost` - one record, plus one per tick cut short and per restart; the code does store
  such doubles, and the property bounds them. `BackupCovers` - who has played for a save period is in the file,
  so that a crash costs no more than that. `KeepsMembership` - all of it together, as a refinement.
- `OnRoad`, `NoJump`, `StopsAtItsEdge` - movement; `ResultsOfLoop` - the set of results is
  what the loop computes. `GathersOnItsWay` - what is gathered is what lies beside the way, up to
  every point of it, so that the length of ticks makes no difference. `DrawnAsWalked` - tiles and edges
  on the page agree with where the server lets the dog go, an edge all along a side in the middle of a
  tile only (`AtCentre`).
- `OnePlace`, `NothingLost`, `ScoreIsEarned` - loot and scores. `LackIsMet` - a lack of loot lasts no
  longer than the time after which half a piece is due, however short the ticks are;
  `NoMoreThanLooters` - what the comment at `loot_generator.h:30` promises.
- `GameTimeFollowsClock`, `NoShortTick`, `KeepsTicking` - the Ticker.
- `OneAtATime`, `AllAnswered`, `GetsSession`, `SessionsEnd` - connections.
- `KnownUntilRetired` - a token is known from the join to the retirement. `ShowsOwnSession` - the list and
  the state show those, and only those, who joined the same map and have not retired, under the ids their joins
  were answered with. `DogIsFound` - the dog behind a known token is there, so that `GetDogById` does not
  throw. `TouchesOnlyItsPlayer` - an action turns the dog its user was told of, a join adds its own. All four
  relate the tables (token to player, session and id to dog) to what users were told. `OnlyAcceptedPostsAct` -
  what is answered with anything but 200 to a POST has changed nothing; of requests that throw it says
  nothing, since a tick that throws has acted.
- `FileIsWhole`, `ReplacedAtOnce` - the state file, as long as no fault went unnoticed (`sound`).
- `SceneIsKept`, `DrawnOnce` - the scene, as long as answers to the same request arrive in order and
  dogs were shown standing before they retired (`InOrder`); `EventuallyShows` - the tables, in any case.
- `GoesWhereSteered`, `TurnsTheShortWay` - steering and turning.

Every property of a passing run has a mutant in `PROJECT.json`: a mistake in one definition with
which TLC finds the property violated.

### Disagreements with what the repository says

One is a run (`app_numbering`, see `findings`): `RestorePlayerIdIncr` numbers players anew by counting.
Three more can be seen with a configuration of their own; TLC reports a violation in each:

- `MCRoadMap_edge.cfg`, `StopsAtRoadEdge`: `model.h:230-231` says that a move that fails returns the
  collision with the edge of the road; where roads cross, the last road of the R-tree overwrites the
  result (`model.cpp:147`), and a dog may be stopped by the side of the road it crosses.
- `MCGameSession_appear.cfg`, `GeneratedAppear`: `loot_generator.h:28` speaks of the number of pieces
  that appear; after `RestoreLoot` (`model.cpp:395`) new loot may fall on an id in use and not appear.
- `MCGameSession_offices.cfg`, `OfficeIdsAreOffices`: `model.cpp:348` doubts it already. The piece with
  id 9999 is an office to every dog that passes it.

Further observations, without a line of the repository that says otherwise: a dog that was told
to stop has direction `""`, for which `convDirection` returns `undefined`, so that its rotation
on the page goes on from the old one without end, and a dog that was standing when first seen never gets a
rotation that is a number; turns broken off in the middle can add up to more than a
full turn and then jump (`wound`). `TurnsTheShortWay` excepts these. The first request of
the page is not repeated when it fails, and the flags `updateInProgress` and `playersSuncInProgress` are
never set while an answer is awaited, so that requests overlap.

### Bounds, and why they are enough

- *Users, maps, ids.* Mistakes of the registry need two players who share something (a map, an id,
  a token); the third user of `app_http` is one who joins after the restart. Two maps let
  two sessions hold players, and let ids be used on either.
- *Time.* `MaxServerTime` lets a dog join, stand for the retirement time and be removed before or
  after a backup, and the ticks of 1 and 2 fall short of the periods, meet them and overshoot them.
- *Failures.* One cut tick and one restart in each run; they occur at every step, together and in
  both orders. The proofs cover any number.
- *Loot.* Four pieces fill one bag of two and leave two for the other dog; two types of
  different value tell scores apart. `LongEnough` is a time after which the whole shortage is generated
  (an assumption TLC checks), so that counting further changes nothing.
- *Roads.* The map has every constellation that the loop treats differently; 60 is further than any
  road is long. A unit of 10 and roads of 8 leave places between the middles of two tiles. The items
  lie on the way, beside it within reach, at a corner and out of reach.
- *Ticker.* Lateness and handlers beyond a period, three sub-steps so that truncation shows.
- *Connections.* Two requests show sending ahead; sessions share nothing but the listener, so two
  connections show one being kept waiting by the other.
- *Api.* Requests are taken from every shape of body and header that a handler tells apart; GET stands for
  HEAD, which is allowed wherever it is and does not act either, and a missing token for a malformed one. Three
  joins on two maps give a session of two, one of one, and removals of one of several ids. The
  clock wraps at 2 instead of 2^64, so that a negative time wraps it.
- *State file.* The first, a middle and the last buffer; five changes are two backups that are kept
  apart, in any lives.
- *Client.* Two requests for the state can overtake each other; the list with them makes the race. A
  page is loaded into any session, so that two more changes are enough to gather and deliver,
  join and retire, or appear and be gathered. Intervals are 1: a frame asks for both.
- *Steering.* Two posts overtake each other; three presses overlap and come back to a key; three keys
  have the half, quarter and three-quarter turns between them.

The runs of `Application`, `GameSession`, `Api`, `Client` and `Steering` allow deadlock: a process
may end for good, and bounded time, loot, changes and keys run out. A server that has stopped, or a
client that sends no more, is the reason in `Ticker` and `HttpServer`. A state file is always configured
in the runs; without one (`HasStateFile = FALSE`) the proofs apply.

### Fairness

Only `Ticker`, `HttpServer` and `Client` state liveness.

- *Ticker*: weak fairness of `Start`, of the passage of time, of `OnTick`, and of the end of the
  handler. The `io_context` runs what is ready, its timers expire, and `Application::Tick` has
  no loop that does not end. Whether the handler returns or throws is not fair: it may always throw.
- *HttpServer*: weak fairness of `OnAccept`, `Run` and `TimeOut` of each connection. The first two are
  completion handlers that are ready; the acceptor hands over waiting connections in their
  order, so that each has its turn. The third is the timer of `expires_after`. Nothing is assumed
  of clients: neither that a request arrives nor that an answer is taken.
- *Client*: weak fairness of `Frame` (the browser calls `requestAnimationFrame` again and again) and of
  `UpdateRefused`, a callback nothing depends on but the slot it frees; strong fairness of the
  answers and of their callbacks, because the network may lose a request or an answer at any time,
  but not all of one end point for ever. Keys are not fair.

## 4. Proofs

All theorems hold for every value of the constants that satisfies the `ASSUME`s of the module:
any sets of users, maps and tokens, finite sets of ids, any finite set of roads that are horizontal
or vertical, any period, clock resolution and bounds. `DrawnRight` asks in addition for what the
page takes for granted: a finite set of buildings, roads on the grid of the map file (`OnGrid`) and
narrower than its unit (`NarrowRoads`; 0.8 and 1.0 in the code). `Client` asks that `None` and the map
are no players (`NoneAssumption`, `MapAssumption`).

What holds for every number of turns of a loop, every exponent or every finite set is proved by a least
counterexample: the library's theorems say that finite sets are well-founded by inclusion (`WFMin`,
`FS_StrictSubsetOrderingWellFounded`), hence that a set of numbers has a least one (`LeastElement`,
`LeastNumber`) and a set of subsets a smallest (`SmallestSet`). The rules of induction
themselves take a predicate as a parameter, which the provers cannot fill in.

- **ApplicationProofs.** `TypeCorrect`; `TokensSafe`; `DogsSafe`; `RetirementRecorded`; `RecordedSeldom`.
  `TokenControlsOwnDog` is not inductive: a join could put a dog under an id in use, a
  removal could hit the wrong token, and a restore brings back whatever was saved. The invariant adds
  that live ids are below the counter, that the table of players and the dogs know each
  other (`RegistryInv`), that a name is on one dog only (`NamesInv`), that the same holds of the
  state file (`FileInv`, `FileNamesInv`), and that the ids a tick works on are those of
  dogs of the session it is in (`LoopInv`). For the records, a dog on the list for removal has
  its record (`RemoveInv`), and `CountInv` bounds the records by one less while the user has a dog
  in the game that is not on that list: the one record that may still come. A cut tick or a restart
  takes dogs off the list or brings them back, and raises the bound by one.
  `RegistryKeepsMembership`: every step of the registry maps to a step of `Membership` or to a stutter.
  `TickDog` and `RemoveDog` are ticks that only record and only let leave; that those who leave are
  recorded is `RemoveInv`, and that names in the game are those of the file after a start needs the
  agreement of dogs and players (`Agreed`).
  `NobodyIsLost`: who has joined is in the records or, while the process is up, in the game, and
  otherwise in the file (`KeptInv`); a process that ends without a crash ends by `Stop` (`EndsByStop`), which
  saves. `RecordsCoverStanding`: no dog has stood for longer than it has lived (`LivesInv`).
  `CrashCostsOnePeriod`: between two backups the clock stays below the next one, and a dog that is not in the
  file has lived no longer than the time since the last (`ClockInv`). Inside a tick that is true of the
  dogs already visited with the tick and of the others without it, and `PassInv` says that no session is
  visited twice.
- **GameSessionProofs.** `EachInOnePlace`, `NoneIsLost`, for any number of dogs, pieces, offices and
  restarts. `OnePlace` alone is not inductive: new pieces must have serial numbers that none
  has, and a restart brings back what was saved. The invariant `IInv` adds that every serial is below
  `made` (`Numbered`), that the saved session is in the same order (`SavedInv`), that a tick's events are about
  dogs of the session (`TickInv`), and that the counter is ahead of the ids on the map until a restore sets it
  back (`FreshInv`), so that no new piece is lost.
  `ScoresEarned`: the score of a dog, in the game and in the file, is the value of what it delivered. `ScoreOf`
  is a fold that takes the pieces in the order of `CHOOSE`; `ScoreAny` and `ScoreUnion` say that the order
  does not matter, and the bag is apart from what was delivered before (`OnePlace`), so that values add up.
  `GeneratorImplements`: the session with the generator implements the one in which a tick brings any number of
  pieces up to the shortage. `AtMostShortage` has the arithmetic: the fraction of powers is between none and
  one, and rounds to no more than the shortage. `LackAlwaysMet`: while nothing comes, less than one half
  is due (`AtMostShortage`), the chance of nothing only shrinks with time (`ChancesShrink`), and a lack has lasted
  no longer than the generator has counted (`GeneratorInv`). `LootersLimit`.
- **StateFileProofs.** `NeverCutShort`, `Implements`. The invariant says that the temporary file is whole
  when the rename comes, and that it holds the state the game has now. `Rename` is the save of `Snapshot`;
  all that came before it stutters.
- **RoadMapProofs.** `StaysOnRoad`, `NeverJumps`, `GoesAhead`, `StopsAtEdge`. The key is `ClipInside`: a road that
  holds the dog and does not hold its aim stops it inside its own box, between the dog and the aim, and at
  the edge. The properties follow for every order of the R-tree.
  `LoopAlways`: the set of results is what the loop computes. `LoopResult` says what a run of the loop over
  any sequence of roads returns, and `OrdersExist` that some order of the R-tree ends with the road one wants.
  `DrawnRight`: the tile under a dog has the roads that hold the dog (`TileThere`, `OnTheAxis`). A road that
  takes a dog on by a unit goes on to the next tile (`TakesOn`), and in the middle of a tile a road that
  goes on to the next tile takes the dog on (`LeadsFurther`); `EdgesOfTile` computes the strips.
  The attempt to prove it without "in the middle" failed for a good reason: where a dog is stopped in between
  the middles of two tiles by the side of a road it crosses, the tile may be open towards a road that ends
  within the unit to come, or that lies beside the dog. The instance checked until then, with a unit
  of 5, had no such place; the one with a unit of 10 has, and `AtCentre` says where the page promises an edge.
  `GathersAlways`: seen from the dog an item is some way ahead and some way beside (`Ahead`, `Beside`, `Projected`), and the
  comparisons of `TryCollectPoint` come down to comparisons of these two (`AlongTheWay`).
- **TickerProofs.** `ClockFollowed`, `TicksAreLongEnough`. The invariant ties `since`, `armed` and the
  ghosts: the timer is never armed before the last tick began, and what is not handed out yet is
  `since`; truncation loses less than one millisecond at a time (`Truncation`).
- **HttpServerProofs.** `AnswersInOrder`, `NothingUnanswered`. The invariant adds what a session that is over
  has answered, and that a connection in the backlog has no session yet.
- **ApiProofs.** `TokensKnown`, `OwnSessionShown`, `DogsFound`, `ActsWhenAccepted`, `TimeHasOneDriver`,
  `TouchesOne`, `ApiKeepsMembership`. `RequestSteps` reduces every request to one of five kinds of step (quiet, death,
  join, turn, tick), from the table of end points and the handlers. `ShowsOwnSession` is not inductive: the
  handlers read tables, and it speaks of what users were told. The invariant `RegistryInv` says that the
  ids told at the joins are distinct and below the counter, that the table of tokens holds what was told to
  those who have not retired, that a dog stands under the map and the id that the user on it was told, and that each
  of these users has one. `JoinKeeps` needs the counter (`emplace` would keep an old dog or player under an
  id in use); `RetireKeeps` needs the distinct ids, so that the search for an id finds the token of the dog that
  is removed (`TokenFound`), for whole ticks and for those cut short (`TickKeeps`). `SessionShown` then equates the
  tables with what was told. The refinement maps the five kinds to the actions of `Membership`.
- **ClientProofs.** `SceneKept` and `OnceDrawn`. The invariant speaks of every state the page has applied, has been
  answered, or could be answered now (`Seen`): each is well formed, a piece in a bag stays there or leaves
  (`Kept`), and who or what has left does not come back (`ForGood`). The tables are those of the state applied
  last (`AppliedInv`), and the list is not younger than the session. As long as answers come in order, whoever has
  retired is shown as it stood, or its loot is out of the scene (`RetiredInv`); a bag of which no state
  tells belongs to a listed player and is not told of again (`StaleInv`); loot that falls is in no later
  state (`FallingInv`). Before the first state nobody has retired unseen (`UnstartedInv`).
  `SteersAlways`: the page has each key once, at least those that are down, and as long as it has missed no key
  going up, exactly those in the order in which they went down (`KeysInv`; `Spliced` says what `splice` leaves);
  the newest post has the last of them (`PostsInv`). `TurnsAlways`: a dog is drawn where its turn has got to,
  and no turn starts more than a full turn away unless wound up (`TurnInv`); `ShortWay` and `TurnedOn` are the
  arithmetic of angles up to full turns.

Three theorems are proved and not run: `GoesAhead` (a tick moves a dog the way it heads, `AlongDirection`),
`TimeHasOneDriver` (under a Ticker no request moves the clock, retires or records anybody, not even one that ends the
process, `OneDriver`), and `RecordsCoverStanding` (a record's play time covers the standing, `PlayTimeCoversStanding`).

Only model-checked: the liveness properties (`KeepsTicking`, `GetsSession`, `SessionsEnd`,
`EventuallyShows`), because liveness under fairness is beyond the prover; and the violations, of which TLC
shows the steps. Every invariant and every action property of a passing run is proved. The runs stay, with
the mutants: they show that the bounds reach the cases the proofs are about.

## 5. What is not modelled, and why

- Third-party JavaScript (`three.js`, its loaders, controls and utilities): a rendering library, copied
  in. It is more than 46,000 of the 47,000 lines of JavaScript. Measured against all
  of it, the share of lines these modules stand for stays at about one in a hundred, and modelling
  the library would say nothing about this program. Of `game_map.js` the model has everything, of
  `game.js` what is state, requests and rotation; the C++ sources of the server are
  modelled as the inventory says.
- The rest of `game.js`: loading of models, meshes, materials, lights, camera, animation, the score
  table, the interpolation of positions and the wobble of loot. All of it is drawing, without
  effect on the tables. The pages `index.html` and `hall_of_fame.html` ask once and show the answer.
- The order and pages of the records: one statement of SQL (`postgres.cpp:35`). The decoding of file
  paths (`DecodeUrl`, `IsSubPath`): strings, without state.
- More than one thread: `main` sets one. `Api` and `HttpServer` rely on that.
- Rounding of doubles: positions are compared with borders computed from integers and 0.4. A dog that
  is stopped gets exactly the border, so that the next comparison is an equality.
- A random generator of loot other than the default; the server never sets one.
- What a machine that loses power does to files that were not synced: the process dies, the
  machine does not.
- A configuration that changes between two lives of the process.
- Requests that end the process - a body of the wrong kind, a query cut at the wrong places, a path that does not
  resolve - are in `Api` as the code has them. Nothing in the repository says that they should not, so no
  property says so; `DogIsFound` is about the one exception that the code relies on never to happen.
- Backups that throw are not tried again before the next period, and an error of accept ends the listener: the
  models do both, `BackupCovers` and `GetsSession` except them.
- A page that stays open over a restart of the server: `Client` takes the ids of players and loot as given
  once, which the restored counters break (`application.cpp:30`, `model.cpp:395`). A post overtaken by an older
  one: `GoesWhereSteered` is about histories in which the newest post was the last to be handled.
- Widths: the clock wraps in `Api`; ids, scores and play times are unbounded elsewhere.
- Start-up files and options, logging, formatting of answers.

## 6. Plan

Done: the modules and proofs above. What is left, in order:

1. `Records`: the order, ties and pages of `Read` against a table that grows between two pages.
2. `RequestDispatch`: the strand and the closure with a pool of threads, to say what holds should
   `num_threads` be raised.
3. `StaticFiles`: `DecodeUrl` and `IsSubPath` over paths as sequences.

## 7. Running

In this directory, with TLC and TLAPS on the path:

    tlc -config MCApplication_ticker.cfg MCApplication
    tlapm ApplicationProofs.tla

`MCTicker.cfg`, `MCHttpServer.cfg`, `MCStateFile.cfg` and `MCSteering.cfg` are for the modules `Ticker`,
`HttpServer`, `StateFile` and `Steering` themselves. The longest runs are `api`, about three minutes, `app_http`
and `client`, between one and two and a half.
