----------------------------- MODULE ApiProofs -----------------------------
(***************************************************************************)
(* Proofs about the requests, for every set of tokens, of maps and of ids  *)
(* and every modulus.                                                      *)
(***************************************************************************)
EXTENDS Api, TLAPS

LEMMA RequestTyped ==
    ASSUME NEW path \in DOMAIN Arguments, NEW r \in Requests(path)
    PROVE  /\ r.path = path /\ r.method \in Methods /\ r.auth \in Auths
           /\ r.arg \in Arguments[path]
  <1>1. PICK method \in Methods : r \in RequestsBy(method, path)
    BY DEF Requests
  <1> DEFINE e == IF path \in DOMAIN EndPoints /\ method \in EndPoints[path].methods
                  THEN EndPoints[path] ELSE EndPoint({}, FALSE, FALSE)
  <1>2. r \in [path : {path}, method : {method}, arg : Arguments[path],
               json  : IF e.json THEN BOOLEAN ELSE {FALSE},
               auth  : IF e.token THEN Auths ELSE {"missing"},
               shape : IF method = "POST" /\ e.json THEN Shapes ELSE {"whole"}]
    BY <1>1 DEF RequestsBy
  <1> HIDE DEF e
  <1>3. r.path = path /\ r.method = method /\ r.arg \in Arguments[path]
        /\ r.auth \in (IF e.token THEN Auths ELSE {"missing"})
    BY <1>2
  <1> QED
    BY <1>3 DEF Auths

LEMMA AnswerTyped ==
    ASSUME NEW path \in DOMAIN Arguments, NEW r \in Requests(path),
           NEW status \in Statuses, NEW shown \in SUBSET Shown, Answer(r, status, shown)
    PROVE  /\ answer' \in Answers /\ answer' # None
           /\ answer'.path = path /\ answer'.method = r.method /\ answer'.auth = r.auth
           /\ answer'.status = status /\ answer'.shown = shown
  BY RequestTyped, AnswerAssumption DEF Answer, Answers

\* What Reply does, for the many places that use it.
LEMMA Replied ==
    ASSUME NEW path \in DOMAIN Arguments, NEW r \in Requests(path),
           NEW status \in Statuses, NEW shown \in SUBSET Shown, Reply(r, status, shown)
    PROVE  /\ UNCHANGED <<auto_tick, up, dogs, players, tokens, player_incr_id, server_time,
                          joined, recorded, retired, cause>>
           /\ answer' \in Answers /\ answer' # None
           /\ answer'.path = path /\ answer'.method = r.method /\ answer'.auth = r.auth
           /\ answer'.status = status /\ answer'.shown = shown
  BY AnswerTyped DEF Reply, game, registry, ghosts

-----------------------------------------------------------------------------
(* The step of a request is of one of five kinds.                          *)

\* A question about a session is answered by the tables of tokens and of dogs.
Truthful == answer'.path \in {"players", "state"} =>
    \/ ~Known(answer'.auth) /\ answer'.status # "ok"
    \/ /\ Known(answer'.auth) /\ answer'.status = "ok"
       /\ answer'.shown = IF answer'.path = "players" THEN IdsAndNames(tokens[answer'.auth].map)
                          ELSE IdsAndData(tokens[answer'.auth].map)
    \/ answer'.method \notin Reading /\ answer'.status # "ok"

Accepted(path) == /\ answer' \in Answers /\ answer' # None /\ answer'.path = path
                  /\ answer'.method = "POST" /\ answer'.status = "ok"

QuietStep ==
    /\ UNCHANGED <<up, dogs, players, tokens, player_incr_id, server_time,
                   joined, recorded, retired, cause>>
    /\ answer' \in Answers /\ answer' # None /\ Truthful
DeathStep(why) ==
    /\ Die(why)
    /\ recorded \subseteq recorded' /\ recorded' \subseteq recorded \cup Names(DogsOn(Maps))
    /\ auto_tick => recorded' = recorded
    /\ why = "no dog" => \E t \in Tokens : Known(t) /\ dogs[tokens[t].map][tokens[t].id] = None
JoinStep(t, m) ==
    /\ t \in Tokens \ Joined /\ m \in Maps /\ JoinGame(t, m)
    /\ UNCHANGED <<up, server_time, recorded, retired, cause>>
    /\ Accepted("join") /\ answer'.shown = {[id |-> player_incr_id, name |-> t]}
TurnStep(t, move) ==
    /\ Known(t) /\ TurnDog(tokens[t], move)
    /\ UNCHANGED <<up, players, tokens, player_incr_id, server_time,
                   joined, recorded, retired, cause>>
    /\ Accepted("action") /\ answer'.auth = t
TickStep(delta) == delta \in Nat /\ ~auto_tick /\ Tick(delta) /\ Accepted("tick")

LEMMA NamesShown ==
    ASSUME TypeOK, NEW m \in Maps
    PROVE  IdsAndNames(m) \in SUBSET Shown /\ IdsAndData(m) \in SUBSET Shown
  <1>1. ASSUME NEW id \in IdsIn(m) PROVE id \in PlayerIds /\ dogs[m][id].name \in Tokens
    <2>1. dogs[m][id] \in Dog
      BY <1>1 DEF TypeOK, IdsIn
    <2> QED
      BY <1>1, <2>1 DEF Dog, IdsIn
  <1> QED
    BY <1>1 DEF IdsAndNames, IdsAndData, Shown

\* UriElement and the handlers do nothing else.
LEMMA RequestSteps ==
    ASSUME TypeOK, NEW path \in DOMAIN Arguments, NEW r \in Requests(path), Handle(r)
    PROVE  /\ auto_tick' = auto_tick
           /\ \/ QuietStep
              \/ \E why : DeathStep(why)
              \/ \E t \in Tokens, m \in Maps : JoinStep(t, m)
              \/ \E t \in Tokens, move \in {"U", "", "?"} : TurnStep(t, move)
              \/ \E delta \in Nat : TickStep(delta)
  <1> DEFINE Goal == /\ auto_tick' = auto_tick
                     /\ \/ QuietStep
                        \/ \E why : DeathStep(why)
                        \/ \E t \in Tokens, m \in Maps : JoinStep(t, m)
                        \/ \E t \in Tokens, move \in {"U", "", "?"} : TurnStep(t, move)
                        \/ \E delta \in Nat : TickStep(delta)
  <1>1. r.path = path /\ r.method \in Methods /\ r.auth \in Auths /\ r.arg \in Arguments[path]
    BY RequestTyped
  <1>2. ASSUME NEW status \in Statuses, NEW shown \in SUBSET Shown, Reply(r, status, shown),
               \/ path \notin {"players", "state"}
               \/ r.method \notin Reading /\ status # "ok"
               \/ ~Known(r.auth) /\ status # "ok"
               \/ /\ Known(r.auth) /\ status = "ok"
                  /\ shown = IF path = "players" THEN IdsAndNames(tokens[r.auth].map)
                             ELSE IdsAndData(tokens[r.auth].map)
        PROVE  Goal
    BY <1>1, <1>2, Replied DEF QuietStep, Truthful
  <1>3. ASSUME NEW why, Throw(why), why # "no dog" PROVE Goal
    <2>1. DeathStep(why)
      BY <1>3 DEF Throw, DeathStep
    <2> QED
      BY <2>1 DEF DeathStep, Die
  <1> SUFFICES Goal
    OBVIOUS
  <1> HIDE DEF Goal
  <1>4. CASE r.path = "static" /\ ServeFile(r)
    <2>1. CASE Throw("path")
      BY <1>3, <2>1
    <2> QED
      BY <1>1, <1>2, <1>4, <2>1 DEF ServeFile, Statuses
  <1>5. CASE r.path = "unknown" /\ Reply(r, "bad_request", {})
    BY <1>1, <1>2, <1>5 DEF Statuses
  <1>6. CASE r.path \in DOMAIN EndPoints /\ Refused(r)
    <2>1. CASE r.method \notin EndPoints[r.path].methods /\ Reply(r, "method_not_allowed", {})
      <3>1. path \in {"players", "state"} => EndPoints[path].methods = Reading
        BY DEF EndPoints, EndPoint
      <3> QED
        BY <1>1, <1>2, <2>1, <3>1 DEF Statuses
    <2>2. CASE r.method \in EndPoints[r.path].methods /\ EndPoints[r.path].json
               /\ Reply(r, "bad_request", {})
      <3>1. path \in {"players", "state"} => ~EndPoints[path].json
        BY DEF EndPoints, EndPoint
      <3> QED
        BY <1>1, <1>2, <2>2, <3>1 DEF Statuses
    <2>3. CASE r.auth = "missing" /\ Reply(r, "unauthorized", {})
      <3>1. ~Known(r.auth)
        BY <2>3, TokensAssumption DEF Known
      <3> QED
        BY <1>1, <1>2, <2>3, <3>1 DEF Statuses
    <2> QED
      BY <1>6, <2>1, <2>2, <2>3 DEF Refused
  <1>7. CASE r.path \in DOMAIN EndPoints /\ Admitted(r) /\ Process(r)
    <2>1. CASE r.path = "maps" /\ ProcessGetMaps(r)
      BY <1>1, <1>2, <2>1 DEF ProcessGetMaps, Statuses
    <2>2. CASE r.path = "map" /\ ProcessGetMapId(r)
      BY <1>1, <1>2, <2>2 DEF ProcessGetMapId, Statuses
    <2>3. CASE r.path = "join" /\ ProcessJoinGame(r)
      <3>1. CASE Reply(r, "bad_request", {}) \/ Reply(r, "not_found", {})
        BY <1>1, <1>2, <2>3, <3>1 DEF Statuses
      <3>2. ASSUME r.arg \in Maps, NEW t \in Tokens \ Joined, JoinGame(t, r.arg),
                   Answer(r, "ok", {[id |-> player_incr_id, name |-> t]}),
                   UNCHANGED <<auto_tick, up, server_time, recorded, retired, cause>>
            PROVE  Goal
        <4>1. r.method = "POST"
          BY <1>1, <1>7, <2>3 DEF Admitted, EndPoints, EndPoint
        <4>2. {[id |-> player_incr_id, name |-> t]} \in SUBSET Shown
          BY <3>2 DEF JoinGame, Shown
        <4>3. JoinStep(t, r.arg)
          BY <1>1, <2>3, <3>2, <4>1, <4>2, AnswerTyped DEF JoinStep, Accepted, Statuses
        <4> QED
          BY <3>2, <4>3 DEF Goal
      <3>3. CASE Throw("body")
        BY <1>3, <3>3
      <3> QED
        BY <2>3, <3>1, <3>2, <3>3 DEF ProcessJoinGame
    <2>4. CASE r.path = "players" /\ ProcessGetPlayersList(r)
      <3>1. CASE Reply(r, "unauthorized", {}) /\ ~Known(r.auth)
        BY <1>1, <1>2, <2>4, <3>1 DEF Statuses
      <3>2. CASE Known(r.auth) /\ Reply(r, "ok", IdsAndNames(tokens[r.auth].map))
        <4>1. tokens[r.auth].map \in Maps
          BY <3>2 DEF TypeOK, Known, Player
        <4> QED
          BY <1>1, <1>2, <2>4, <3>2, <4>1, NamesShown DEF Statuses
      <3> QED
        BY <2>4, <3>1, <3>2 DEF ProcessGetPlayersList
    <2>5. CASE r.path = "state" /\ ProcessGetGameState(r)
      <3>1. CASE Reply(r, "unauthorized", {}) /\ ~Known(r.auth)
        BY <1>1, <1>2, <2>5, <3>1 DEF Statuses
      <3>2. CASE Known(r.auth) /\ Reply(r, "ok", IdsAndData(tokens[r.auth].map))
        <4>1. tokens[r.auth].map \in Maps
          BY <3>2 DEF TypeOK, Known, Player
        <4> QED
          BY <1>1, <1>2, <2>5, <3>2, <4>1, NamesShown DEF Statuses
      <3> QED
        BY <2>5, <3>1, <3>2 DEF ProcessGetGameState
    <2>6. CASE r.path = "action" /\ ProcessPlayerAction(r)
      <3>1. CASE Reply(r, "unauthorized", {}) \/ Reply(r, "bad_request", {})
        BY <1>1, <1>2, <2>6, <3>1 DEF Statuses
      <3>2. CASE Throw("body")
        BY <1>3, <3>2
      <3>3. ASSUME Known(r.auth), Throw("no dog"),
                   dogs[tokens[r.auth].map][tokens[r.auth].id] = None
            PROVE  Goal
        <4>1. DeathStep("no dog")
          BY <3>3 DEF DeathStep, Throw, Known
        <4> QED
          BY <4>1 DEF Goal, DeathStep, Die
      <3>4. ASSUME Known(r.auth), TurnDog(tokens[r.auth], r.arg), Answer(r, "ok", {}),
                   UNCHANGED <<auto_tick, up, players, tokens, player_incr_id, server_time,
                               ghosts, cause>>
            PROVE  Goal
        <4>1. r.method = "POST"
          BY <1>1, <1>7, <2>6 DEF Admitted, EndPoints, EndPoint
        <4>2. r.arg \in {"U", "", "?"} /\ r.auth \in Tokens
          <5>1. Arguments["action"] = {"U", "", "?"}
            BY DEF Arguments
          <5> QED
            BY <1>1, <2>6, <3>4, <5>1 DEF Known
        <4>3. TurnStep(r.auth, r.arg)
          BY <1>1, <2>6, <3>4, <4>1, AnswerTyped DEF TurnStep, Accepted, Statuses, ghosts
        <4> QED
          BY <3>4, <4>2, <4>3 DEF Goal
      <3> QED
        BY <2>6, <3>1, <3>2, <3>3, <3>4 DEF ProcessPlayerAction
    <2>7. CASE r.path = "tick" /\ ProcessTimeTick(r)
      <3>1. CASE Reply(r, "bad_request", {})
        BY <1>1, <1>2, <2>7, <3>1 DEF Statuses
      <3>2. CASE Throw("body")
        BY <1>3, <3>2
      <3>3. ASSUME ~auto_tick, FatalTick(AsSize(r.arg)) PROVE Goal
        <4>1. PICK noted \in SUBSET Standing(Maps, AsSize(r.arg)) :
                 recorded' = recorded \cup Names(noted)
          BY <3>3 DEF FatalTick
        <4>2. noted \subseteq DogsOn(Maps)
          BY <4>1 DEF Standing
        <4>3. Names(noted) \subseteq Names(DogsOn(Maps))
          BY <4>2 DEF Names
        <4>4. DeathStep("database or backup")
          BY <3>3, <4>1, <4>3 DEF FatalTick, DeathStep
        <4> QED
          BY <4>4 DEF Goal, DeathStep, Die
      <3>4. ASSUME ~auto_tick, Tick(AsSize(r.arg)), Answer(r, "ok", {}) PROVE Goal
        <4>1. r.method = "POST"
          BY <1>1, <1>7, <2>7 DEF Admitted, EndPoints, EndPoint
        <4>2. AsSize(r.arg) \in Nat
          <5>1. r.arg \in Int
            <6>1. Arguments["tick"] = Deltas
              BY DEF Arguments
            <6> QED
              BY <1>1, <2>7, <6>1, TimeAssumption
          <5> QED
            BY <5>1, TimeAssumption DEF AsSize
        <4>3. TickStep(AsSize(r.arg))
          BY <1>1, <2>7, <3>4, <4>1, <4>2, AnswerTyped DEF TickStep, Accepted, Statuses
        <4>4. auto_tick' = auto_tick
          BY <3>4 DEF Tick, Retire
        <4> QED
          BY <4>2, <4>3, <4>4 DEF Goal
      <3> QED
        BY <2>7, <3>1, <3>2, <3>3, <3>4 DEF ProcessTimeTick
    <2>8. CASE r.path = "records" /\ ProcessRecords(r)
      <3>1. CASE Reply(r, "ok", {}) \/ Reply(r, "bad_request", {})
        BY <1>1, <1>2, <2>8, <3>1 DEF Statuses
      <3>2. CASE Throw("database or backup") \/ Throw("query")
        BY <1>3, <3>2
      <3> QED
        BY <2>8, <3>1, <3>2 DEF ProcessRecords
    <2> QED
      BY <1>7, <2>1, <2>2, <2>3, <2>4, <2>5, <2>6, <2>7, <2>8 DEF Process
  <1> QED
    BY <1>4, <1>5, <1>6, <1>7 DEF Handle

-----------------------------------------------------------------------------
(* The invariant: an id below the counter belongs to one user, the tables of *)
(* tokens and of dogs hold what the joins of those still in the game told    *)
(* their users, and no id at the counter or above is in use.                 *)

InGame == Joined \ retired

RegistryInv ==
    /\ \A t \in Joined : joined[t].id < player_incr_id
    /\ \A t, u \in Joined : joined[t].id = joined[u].id => t = u
    /\ retired \subseteq Joined
    /\ \A id \in PlayerIds : players[id] # None => id < player_incr_id
    /\ \A t \in Tokens : tokens[t] = IF t \in InGame THEN joined[t] ELSE None
    /\ \A m \in Maps, id \in PlayerIds : dogs[m][id] # None =>
          dogs[m][id].name \in InGame /\ joined[dogs[m][id].name] = [id |-> id, map |-> m]
    /\ \A t \in InGame : dogs[joined[t].map][joined[t].id] # None

Inv == TypeOK /\ (up => RegistryInv)

LEMMA JoinedTyped ==
    ASSUME TypeOK, NEW t \in Joined
    PROVE  /\ t \in Tokens /\ joined[t] \in Player
           /\ joined[t].id \in PlayerIds /\ joined[t].map \in Maps
           /\ joined[t] = [id |-> joined[t].id, map |-> joined[t].map]
           /\ joined[t] # None /\ joined[t].id \in Nat
  BY NoneAssumption, IdsAssumption DEF TypeOK, Joined, Player

LEMMA DogTyped ==
    ASSUME TypeOK, NEW m \in Maps, NEW id \in PlayerIds, dogs[m][id] # None
    PROVE  dogs[m][id] \in Dog /\ dogs[m][id].name \in Tokens
  <1>1. dogs[m][id] \in Dog
    BY DEF TypeOK
  <1> QED
    BY <1>1 DEF Dog

\* The names on the dogs are those of the users in the game.
LEMMA NameFound ==
    ASSUME TypeOK, RegistryInv, NEW p \in DogsOn(Maps)
    PROVE  /\ p[1] \in Maps /\ p[2] \in PlayerIds /\ p = <<p[1], p[2]>>
           /\ dogs[p[1]][p[2]] # None
           /\ NameAt(p) \in InGame /\ joined[NameAt(p)] = [id |-> p[2], map |-> p[1]]
  <1>1. p[1] \in Maps /\ p[2] \in PlayerIds /\ p = <<p[1], p[2]>> /\ dogs[p[1]][p[2]] # None
    BY DEF DogsOn
  <1> QED
    BY <1>1 DEF RegistryInv, NameAt

LEMMA DogFound ==
    ASSUME TypeOK, RegistryInv, NEW t \in InGame
    PROVE  <<joined[t].map, joined[t].id>> \in DogsOn(Maps)
           /\ NameAt(<<joined[t].map, joined[t].id>>) = t
  <1> DEFINE p == <<joined[t].map, joined[t].id>>
  <1>1. t \in Joined
    BY DEF InGame
  <1>2. joined[t].id \in PlayerIds /\ joined[t].map \in Maps
    BY <1>1, JoinedTyped
  <1>3. dogs[joined[t].map][joined[t].id] # None
    BY DEF RegistryInv
  <1>4. p \in DogsOn(Maps)
    BY <1>2, <1>3 DEF DogsOn
  <1>5. NameAt(p) \in Joined /\ joined[NameAt(p)] = [id |-> joined[t].id, map |-> joined[t].map]
    BY <1>4, NameFound DEF InGame
  <1>6. joined[NameAt(p)].id = joined[t].id
    BY <1>5
  <1>7. NameAt(p) = t
    BY <1>1, <1>5, <1>6 DEF RegistryInv
  <1> QED
    BY <1>4, <1>7

LEMMA PlayingNames ==
    ASSUME TypeOK, RegistryInv
    PROVE  Names(DogsOn(Maps)) = InGame
  <1>1. \A p \in DogsOn(Maps) : NameAt(p) \in InGame
    BY NameFound
  <1>2. \A t \in InGame : \E p \in DogsOn(Maps) : NameAt(p) = t
    BY DogFound
  <1> QED
    BY <1>1, <1>2 DEF Names

\* The id of a dog in the game is that of its token and of no other.
LEMMA TokenFound ==
    ASSUME TypeOK, RegistryInv, NEW p \in DogsOn(Maps)
    PROVE  TokensOf(p[2]) = {NameAt(p)}
  <1>1. NameAt(p) \in InGame /\ joined[NameAt(p)] = [id |-> p[2], map |-> p[1]]
    BY NameFound
  <1>2. NameAt(p) \in Joined /\ NameAt(p) \in Tokens /\ joined[NameAt(p)] # None
    BY <1>1, JoinedTyped DEF InGame
  <1>3. tokens[NameAt(p)] = joined[NameAt(p)]
    BY <1>1, <1>2 DEF RegistryInv
  <1>4. joined[NameAt(p)].id = p[2]
    BY <1>1
  <1>5. ASSUME NEW t \in TokensOf(p[2]) PROVE t = NameAt(p)
    <2>1. t \in Tokens /\ tokens[t] # None /\ tokens[t].id = p[2]
      BY <1>5 DEF TokensOf
    <2>2. t \in InGame /\ tokens[t] = joined[t]
      BY <2>1 DEF RegistryInv
    <2> QED
      BY <1>2, <1>4, <2>1, <2>2 DEF RegistryInv, InGame
  <1>6. NameAt(p) \in TokensOf(p[2])
    BY <1>2, <1>3, <1>4 DEF TokensOf
  <1> QED
    BY <1>5, <1>6

\* Dog, token and player leave together: the tokens erased are those of the users whose
\* dogs are removed.
LEMMA RetireKeeps ==
    ASSUME TypeOK, RegistryInv, NEW gone \in SUBSET DogsOn(Maps),
           NEW stopped \in SUBSET DogsOn(Maps), Retire(gone, stopped)
    PROVE  /\ dogs' \in [Maps -> [PlayerIds -> Dog \cup {None}]]
           /\ players' \in [PlayerIds -> Maps \cup {None}]
           /\ tokens' \in [Tokens -> Player \cup {None}]
           /\ Names(gone) \subseteq InGame /\ retired' \subseteq Tokens
           /\ InGame' = InGame \ Names(gone)
           /\ RegistryInv'
  <1> DEFINE ids == {p[2] : p \in gone}
             out == Names(gone)
  <1>1. /\ dogs' = Remaining(gone, stopped) /\ RemoveTokens(ids)
        /\ players' = [id \in PlayerIds |-> IF id \in ids THEN None ELSE players[id]]
        /\ retired' = retired \cup out
        /\ player_incr_id' = player_incr_id /\ joined' = joined
    BY DEF Retire
  <1>2. Joined' = Joined
    BY <1>1 DEF Joined
  <1>3. \A p \in gone : /\ p[1] \in Maps /\ p[2] \in PlayerIds /\ p = <<p[1], p[2]>>
                       /\ NameAt(p) \in InGame
                       /\ joined[NameAt(p)] = [id |-> p[2], map |-> p[1]]
    BY NameFound
  <1>4. out \subseteq InGame
    BY <1>3 DEF Names
  <1>5. out \subseteq Joined /\ out \subseteq Tokens
    BY <1>4 DEF InGame, Joined
  <1>6. retired' \subseteq Joined /\ retired' \subseteq Tokens
    BY <1>1, <1>5 DEF RegistryInv, TypeOK
  <1>7. InGame' = InGame \ out
    BY <1>1, <1>2 DEF InGame
  <1>8. \A t \in Tokens : tokens'[t] = IF t \in out THEN None ELSE tokens[t]
    <2>1. PICK first \in [ids -> Tokens \cup {None}] :
             /\ \A id \in ids : IF TokensOf(id) = {} THEN first[id] = None
                               ELSE first[id] \in TokensOf(id)
             /\ tokens' = [t \in Tokens |-> IF \E id \in ids : first[id] = t THEN None ELSE tokens[t]]
      BY <1>1 DEF RemoveTokens
    <2>2. \A p \in gone : first[p[2]] = NameAt(p)
      <3>1. ASSUME NEW p \in gone PROVE first[p[2]] = NameAt(p)
        <4>1. TokensOf(p[2]) = {NameAt(p)}
          BY TokenFound
        <4> QED
          BY <2>1, <4>1
      <3> QED
        BY <3>1
    <2>3. \A t : (\E id \in ids : first[id] = t) <=> t \in out
      BY <2>2 DEF Names
    <2> QED
      BY <2>1, <2>3
  <1>9. tokens' \in [Tokens -> Player \cup {None}]
    <2>1. DOMAIN tokens' = Tokens /\ tokens' = [t \in Tokens |-> tokens'[t]]
      BY <1>1 DEF RemoveTokens
    <2>2. \A t \in Tokens : tokens'[t] \in Player \cup {None}
      BY <1>8 DEF TypeOK
    <2> QED
      BY <2>1, <2>2
  <1>10. players' \in [PlayerIds -> Maps \cup {None}]
    BY <1>1 DEF TypeOK
  <1>11. ASSUME NEW m \in Maps, NEW id \in PlayerIds
         PROVE  /\ dogs'[m][id] \in Dog \cup {None}
                /\ (dogs'[m][id] # None) <=> (dogs[m][id] # None /\ <<m, id>> \notin gone)
                /\ dogs'[m][id] # None => dogs'[m][id].name = dogs[m][id].name
    <2>1. dogs'[m][id] = IF <<m, id>> \in gone THEN None
                         ELSE IF <<m, id>> \in stopped THEN [dogs[m][id] EXCEPT !.moving = FALSE]
                         ELSE dogs[m][id]
      BY <1>1 DEF Remaining
    <2>2. <<m, id>> \in stopped => dogs[m][id] # None
      BY NameFound
    <2>3. dogs[m][id] \in Dog \cup {None}
      BY DEF TypeOK
    <2>4. ASSUME NEW d \in Dog
          PROVE  /\ [d EXCEPT !.moving = FALSE] \in Dog /\ [d EXCEPT !.moving = FALSE] # None
                 /\ [d EXCEPT !.moving = FALSE].name = d.name
      <3>1. [d EXCEPT !.moving = FALSE] \in Dog /\ [d EXCEPT !.moving = FALSE].name = d.name
        BY DEF Dog
      <3> QED
        BY <3>1, NoneAssumption
    <2> QED
      BY <2>1, <2>2, <2>3, <2>4
  <1>12. dogs' \in [Maps -> [PlayerIds -> Dog \cup {None}]]
    BY <1>1, <1>11 DEF Remaining
  <1>13. \A m \in Maps, id \in PlayerIds : dogs'[m][id] # None =>
            dogs'[m][id].name \in InGame' /\ joined[dogs'[m][id].name] = [id |-> id, map |-> m]
    <2> SUFFICES ASSUME NEW m \in Maps, NEW id \in PlayerIds, dogs'[m][id] # None
                 PROVE  /\ dogs'[m][id].name \in InGame'
                        /\ joined[dogs'[m][id].name] = [id |-> id, map |-> m]
      OBVIOUS
    <2>1. /\ dogs[m][id] # None /\ <<m, id>> \notin gone
          /\ dogs'[m][id].name = dogs[m][id].name
      BY <1>11
    <2>2. /\ dogs[m][id].name \in InGame
          /\ joined[dogs[m][id].name] = [id |-> id, map |-> m]
      BY <2>1 DEF RegistryInv
    <2>3. dogs[m][id].name \notin out
      <3>1. SUFFICES ASSUME NEW p \in gone, NameAt(p) = dogs[m][id].name PROVE FALSE
        BY DEF Names
      <3>2. [id |-> p[2], map |-> p[1]] = [id |-> id, map |-> m]
        BY <1>3, <2>2, <3>1
      <3>3. p[1] = m /\ p[2] = id
        BY <3>2
      <3> QED
        BY <1>3, <2>1, <3>3
    <2> QED
      BY <1>7, <2>1, <2>2, <2>3
  <1>14. \A t \in InGame' : dogs'[joined[t].map][joined[t].id] # None
    <2> SUFFICES ASSUME NEW t \in InGame' PROVE dogs'[joined[t].map][joined[t].id] # None
      OBVIOUS
    <2>1. t \in InGame /\ t \notin out
      BY <1>7
    <2>2. /\ <<joined[t].map, joined[t].id>> \in DogsOn(Maps)
          /\ NameAt(<<joined[t].map, joined[t].id>>) = t
      BY <2>1, DogFound
    <2>3. <<joined[t].map, joined[t].id>> \notin gone
      BY <2>1, <2>2 DEF Names
    <2>4. joined[t].map \in Maps /\ joined[t].id \in PlayerIds
      BY <2>1, JoinedTyped DEF InGame
    <2>5. dogs[joined[t].map][joined[t].id] # None
      BY <2>1 DEF RegistryInv
    <2> QED
      BY <1>11, <2>3, <2>4, <2>5
  <1>15. \A t \in Tokens : tokens'[t] = IF t \in InGame' THEN joined[t] ELSE None
    BY <1>7, <1>8 DEF RegistryInv
  <1>16. \A id \in PlayerIds : players'[id] # None => id < player_incr_id
    BY <1>1 DEF RegistryInv
  <1>17. /\ \A t \in Joined' : joined'[t].id < player_incr_id'
         /\ \A t, u \in Joined' : joined'[t].id = joined'[u].id => t = u
    BY <1>1, <1>2 DEF RegistryInv
  <1>18. RegistryInv'
    BY <1>1, <1>2, <1>6, <1>13, <1>14, <1>15, <1>16, <1>17 DEF RegistryInv
  <1> QED
    BY <1>4, <1>6, <1>7, <1>9, <1>10, <1>12, <1>18

\* A whole tick and one that Save cuts short: who leaves is recorded, and perhaps others.
LEMMA TickKeeps ==
    ASSUME TypeOK, RegistryInv, NEW delta \in Nat, Tick(delta) \/ CutTick(delta)
    PROVE  /\ UNCHANGED <<auto_tick, up, player_incr_id, joined, cause>>
           /\ dogs' \in [Maps -> [PlayerIds -> Dog \cup {None}]]
           /\ players' \in [PlayerIds -> Maps \cup {None}]
           /\ tokens' \in [Tokens -> Player \cup {None}]
           /\ server_time' \in 0 .. Word - 1
           /\ retired' \subseteq Tokens /\ RegistryInv'
           /\ \E leaving, noted \in SUBSET InGame :
                 /\ InGame' = InGame \ leaving /\ leaving \subseteq noted
                 /\ recorded' = recorded \cup noted
  <1>1. \A p, q \in SUBSET DogsOn(Maps) : Names(p) \subseteq InGame /\ Names(p) \subseteq Names(p \cup q)
    BY PlayingNames DEF Names
  <1>2. ASSUME NEW gone \in SUBSET DogsOn(Maps), NEW stopped \in SUBSET DogsOn(Maps),
               NEW also \in SUBSET DogsOn(Maps), Retire(gone, stopped),
               recorded' = recorded \cup Names(gone \cup also)
        PROVE  /\ UNCHANGED <<auto_tick, up, player_incr_id, joined, cause>>
               /\ dogs' \in [Maps -> [PlayerIds -> Dog \cup {None}]]
               /\ players' \in [PlayerIds -> Maps \cup {None}]
               /\ tokens' \in [Tokens -> Player \cup {None}]
               /\ retired' \subseteq Tokens /\ RegistryInv'
               /\ \E leaving, noted \in SUBSET InGame :
                     /\ InGame' = InGame \ leaving /\ leaving \subseteq noted
                     /\ recorded' = recorded \cup noted
    <2>1. Names(gone) \in SUBSET InGame /\ Names(gone \cup also) \in SUBSET InGame
          /\ Names(gone) \subseteq Names(gone \cup also)
      <3>1. gone \cup also \in SUBSET DogsOn(Maps)
        OBVIOUS
      <3> QED
        BY <1>1, <3>1
    <2>2. UNCHANGED <<auto_tick, up, player_incr_id, joined, cause>>
      BY <1>2 DEF Retire
    <2>3. InGame' = InGame \ Names(gone)
      BY <1>2, RetireKeeps
    <2> QED
      BY <1>2, <2>1, <2>2, <2>3, RetireKeeps
  <1>3. \A maps \in SUBSET Maps : DogsOn(maps) \subseteq DogsOn(Maps)
    BY DEF DogsOn
  <1>4. \A maps \in SUBSET Maps : Standing(maps, delta) \subseteq DogsOn(Maps)
    BY <1>3 DEF Standing
  <1>5. CASE Tick(delta)
    <2>1. PICK gone \in SUBSET Standing(Maps, delta) :
             /\ \E stopped \in SUBSET (DogsOn(Maps) \ Standing(Maps, delta)) : Retire(gone, stopped)
             /\ recorded' = recorded \cup Names(gone)
             /\ server_time' = Plus(server_time, delta)
      BY <1>5 DEF Tick
    <2>2. PICK stopped \in SUBSET DogsOn(Maps) : Retire(gone, stopped)
      BY <2>1
    <2>3. gone \in SUBSET DogsOn(Maps) /\ {} \in SUBSET DogsOn(Maps)
      BY <1>4, <2>1
    <2>4. recorded' = recorded \cup Names(gone \cup {})
      BY <2>1
    <2>5. server_time' \in 0 .. Word - 1
      <3>1. server_time + delta \in Int
        BY TimeAssumption DEF TypeOK
      <3> QED
        BY <2>1, <3>1, TimeAssumption DEF Plus
    <2> QED
      BY <1>2, <2>2, <2>3, <2>4, <2>5
  <1>6. CASE CutTick(delta)
    <2>1. PICK m \in Maps : \E done \in SUBSET (Maps \ {m}) :
             /\ \E gone \in SUBSET Standing(done, delta), noted \in SUBSET Standing({m}, delta) :
                   /\ \E stopped \in SUBSET (DogsOn(done \cup {m}) \ Standing(Maps, delta)) :
                         Retire(gone, stopped)
                   /\ recorded' = recorded \cup Names(gone \cup noted)
             /\ UNCHANGED server_time
      BY <1>6 DEF CutTick
    <2>2. PICK done \in SUBSET (Maps \ {m}) :
             /\ \E gone \in SUBSET Standing(done, delta), noted \in SUBSET Standing({m}, delta) :
                   /\ \E stopped \in SUBSET (DogsOn(done \cup {m}) \ Standing(Maps, delta)) :
                         Retire(gone, stopped)
                   /\ recorded' = recorded \cup Names(gone \cup noted)
             /\ UNCHANGED server_time
      BY <2>1
    <2>3. PICK gone \in SUBSET Standing(done, delta), noted \in SUBSET Standing({m}, delta) :
             /\ \E stopped \in SUBSET (DogsOn(done \cup {m}) \ Standing(Maps, delta)) :
                   Retire(gone, stopped)
             /\ recorded' = recorded \cup Names(gone \cup noted)
      BY <2>2
    <2>4. done \in SUBSET Maps /\ {m} \in SUBSET Maps /\ done \cup {m} \in SUBSET Maps
      OBVIOUS
    <2>5. gone \in SUBSET DogsOn(Maps) /\ noted \in SUBSET DogsOn(Maps)
      BY <1>4, <2>3, <2>4
    <2>6. PICK stopped \in SUBSET DogsOn(Maps) : Retire(gone, stopped)
      BY <1>3, <2>3, <2>4
    <2>7. server_time' \in 0 .. Word - 1
      BY <2>2 DEF TypeOK
    <2> QED
      BY <1>2, <2>3, <2>5, <2>6, <2>7
  <1> QED
    BY <1>5, <1>6

LEMMA JoinKeeps ==
    ASSUME TypeOK, RegistryInv, NEW t \in Tokens \ Joined, NEW m \in Maps, JoinGame(t, m),
           UNCHANGED retired
    PROVE  /\ dogs' \in [Maps -> [PlayerIds -> Dog \cup {None}]]
           /\ players' \in [PlayerIds -> Maps \cup {None}]
           /\ tokens' \in [Tokens -> Player \cup {None}]
           /\ joined' \in [Tokens -> Player \cup {None}]
           /\ player_incr_id' \in Nat
           /\ \A n \in Maps, i \in PlayerIds : dogs'[n][i] =
                  IF n = m /\ i = player_incr_id THEN [name |-> t, moving |-> FALSE] ELSE dogs[n][i]
           /\ dogs[m][player_incr_id] = None /\ joined'[t].map = m
           /\ InGame' = InGame \cup {t} /\ t \notin InGame
           /\ RegistryInv'
  <1> DEFINE id  == player_incr_id
             new == [name |-> t, moving |-> FALSE]
             own == [id |-> id, map |-> m]
  <1>1. /\ id \in PlayerIds /\ id \in Nat
        /\ dogs' = [dogs EXCEPT ![m][id] = Emplace(dogs[m][id], new)]
        /\ players' = [players EXCEPT ![id] = Emplace(players[id], m)]
        /\ tokens' = [tokens EXCEPT ![t] = [id |-> id, map |-> players'[id]]]
        /\ player_incr_id' = id + 1
        /\ joined' = [joined EXCEPT ![t] = own]
    BY DEF JoinGame, NextIncr, TypeOK
  <1>2. new \in Dog /\ own \in Player /\ new # None /\ own # None /\ m # None
        /\ new.name = t /\ own.id = id /\ own.map = m
    <2>1. new \in Dog /\ own \in Player
      BY <1>1 DEF Dog, Player
    <2> QED
      BY <2>1, NoneAssumption
  <1>3. \A u \in Joined : joined[u].id \in Nat /\ joined[u].id < id
    BY JoinedTyped DEF RegistryInv
  <1>4. \A n \in Maps, i \in PlayerIds : dogs[n][i] # None => i \in Nat /\ i < id
    <2> SUFFICES ASSUME NEW n \in Maps, NEW i \in PlayerIds, dogs[n][i] # None
                 PROVE  i \in Nat /\ i < id
      OBVIOUS
    <2>1. dogs[n][i].name \in Joined /\ joined[dogs[n][i].name] = [id |-> i, map |-> n]
      BY DEF RegistryInv, InGame
    <2>2. joined[dogs[n][i].name].id = i
      BY <2>1
    <2> QED
      BY <1>3, <2>1, <2>2
  <1>5. dogs[m][id] = None
    BY <1>1, <1>4
  <1>6. players[id] = None
    BY <1>1 DEF RegistryInv
  <1>7. players'[id] = m /\ \A i \in PlayerIds \ {id} : players'[i] = players[i]
    BY <1>1, <1>6 DEF Emplace, TypeOK
  <1>8. tokens' = [tokens EXCEPT ![t] = own]
    BY <1>1, <1>7
  <1>9. \A n \in Maps, i \in PlayerIds :
           dogs'[n][i] = IF n = m /\ i = id THEN new ELSE dogs[n][i]
    BY <1>1, <1>5 DEF Emplace, TypeOK
  <1>10. Joined' = Joined \cup {t} /\ joined'[t] = own /\ \A u \in Joined : joined'[u] = joined[u]
    BY <1>1, <1>2 DEF Joined, TypeOK
  <1>11. t \notin retired
    BY DEF RegistryInv
  <1>12. InGame' = InGame \cup {t} /\ t \notin InGame
    BY <1>10, <1>11 DEF InGame
  <1>13. dogs' \in [Maps -> [PlayerIds -> Dog \cup {None}]]
    BY <1>1, <1>2, <1>5 DEF Emplace, TypeOK
  <1>14. players' \in [PlayerIds -> Maps \cup {None}]
    BY <1>1, <1>6 DEF Emplace, TypeOK
  <1>15. tokens' \in [Tokens -> Player \cup {None}] /\ joined' \in [Tokens -> Player \cup {None}]
    BY <1>1, <1>2, <1>8 DEF TypeOK
  <1>16. \A u \in Joined' : joined'[u].id < player_incr_id'
    BY <1>1, <1>2, <1>3, <1>10
  <1>17. \A u, v \in Joined' : joined'[u].id = joined'[v].id => u = v
    <2>1. \A u, v \in Joined : joined[u].id = joined[v].id => u = v
      BY DEF RegistryInv
    <2>2. \A u \in Joined : joined'[u].id # id
      BY <1>1, <1>3, <1>10
    <2> QED
      BY <1>2, <1>10, <2>1, <2>2
  <1>18. \A i \in PlayerIds : players'[i] # None => i < player_incr_id'
    <2>1. \A i \in PlayerIds : i \in Nat /\ (players[i] # None => i < id)
      BY IdsAssumption DEF RegistryInv
    <2> QED
      BY <1>1, <1>7, <2>1
  <1>19. \A u \in Tokens : tokens'[u] = IF u \in InGame' THEN joined'[u] ELSE None
    <2>1. \A u \in Tokens : tokens[u] = IF u \in InGame THEN joined[u] ELSE None
      BY DEF RegistryInv
    <2>2. tokens'[t] = joined'[t]
      BY <1>8, <1>10 DEF TypeOK
    <2>3. \A u \in Tokens \ {t} : tokens'[u] = tokens[u] /\ joined'[u] = joined[u]
      BY <1>1, <1>8 DEF TypeOK
    <2> QED
      BY <1>12, <2>1, <2>2, <2>3
  <1>20. \A n \in Maps, i \in PlayerIds : dogs'[n][i] # None =>
            dogs'[n][i].name \in InGame' /\ joined'[dogs'[n][i].name] = [id |-> i, map |-> n]
    <2> SUFFICES ASSUME NEW n \in Maps, NEW i \in PlayerIds, dogs'[n][i] # None
                 PROVE  dogs'[n][i].name \in InGame' /\ joined'[dogs'[n][i].name] = [id |-> i, map |-> n]
      OBVIOUS
    <2>1. CASE n = m /\ i = id
      BY <1>2, <1>9, <1>10, <1>12, <2>1
    <2>2. CASE ~(n = m /\ i = id)
      <3>1. dogs'[n][i] = dogs[n][i] /\ dogs[n][i] # None
        BY <1>9, <2>2
      <3>2. dogs[n][i].name \in InGame /\ joined[dogs[n][i].name] = [id |-> i, map |-> n]
        BY <3>1 DEF RegistryInv
      <3> QED
        BY <1>10, <1>12, <3>1, <3>2 DEF InGame
    <2> QED
      BY <2>1, <2>2
  <1>21. \A u \in InGame' : dogs'[joined'[u].map][joined'[u].id] # None
    <2> SUFFICES ASSUME NEW u \in InGame' PROVE dogs'[joined'[u].map][joined'[u].id] # None
      OBVIOUS
    <2>1. CASE u = t
      <3>1. joined'[u].map = m /\ joined'[u].id = id
        BY <1>10, <2>1
      <3>2. dogs'[m][id] = new
        BY <1>1, <1>9
      <3> HIDE DEF new
      <3> QED
        BY <1>2, <3>1, <3>2
    <2>2. CASE u # t
      <3>1. u \in InGame /\ u \in Joined /\ joined'[u] = joined[u]
        BY <1>10, <1>12, <2>2 DEF InGame
      <3>2. dogs[joined[u].map][joined[u].id] # None
        BY <3>1 DEF RegistryInv
      <3>3. joined[u].map \in Maps /\ joined[u].id \in PlayerIds
        BY <3>1, JoinedTyped
      <3> QED
        BY <1>2, <1>9, <3>1, <3>2, <3>3
    <2> QED
      BY <2>1, <2>2
  <1>22. RegistryInv'
    <2>1. retired' \subseteq Joined'
      BY <1>10 DEF RegistryInv
    <2> QED
      BY <1>16, <1>17, <1>18, <1>19, <1>20, <1>21, <2>1 DEF RegistryInv
  <1>23. joined'[t].map = m /\ player_incr_id' \in Nat
    BY <1>1, <1>10
  <1> QED
    BY <1>5, <1>9, <1>12, <1>13, <1>14, <1>15, <1>22, <1>23

LEMMA TurnKeeps ==
    ASSUME TypeOK, RegistryInv, NEW t \in Tokens, NEW move \in {"U", "", "?"}, TurnStep(t, move)
    PROVE  /\ dogs' \in [Maps -> [PlayerIds -> Dog \cup {None}]]
           /\ \A m \in Maps, id \in PlayerIds : dogs'[m][id] # dogs[m][id] =>
                 joined[t] = [id |-> id, map |-> m] /\ dogs'[m][id] # None
           /\ InGame' = InGame /\ RegistryInv'
  <1>1. /\ tokens[t] # None /\ dogs[tokens[t].map][tokens[t].id] # None
        /\ dogs' = [dogs EXCEPT ![tokens[t].map][tokens[t].id] =
                       Turned(dogs[tokens[t].map][tokens[t].id], move)]
        /\ UNCHANGED <<players, tokens, player_incr_id, joined, retired>>
    BY DEF TurnStep, TurnDog, Known
  <1>2. t \in InGame /\ tokens[t] = joined[t]
    BY <1>1 DEF RegistryInv
  <1> DEFINE n == joined[t].map
             i == joined[t].id
  <1>3. n \in Maps /\ i \in PlayerIds /\ joined[t] = [id |-> i, map |-> n]
    BY <1>2, JoinedTyped DEF InGame
  <1>4. dogs[n][i] # None /\ dogs' = [dogs EXCEPT ![n][i] = Turned(dogs[n][i], move)]
    BY <1>1, <1>2
  <1> HIDE DEF n, i
  <1>5. dogs[n][i] \in Dog
    BY <1>3, <1>4, DogTyped
  <1>6. /\ Turned(dogs[n][i], move) \in Dog /\ Turned(dogs[n][i], move) # None
        /\ Turned(dogs[n][i], move).name = dogs[n][i].name
    <2>1. /\ Turned(dogs[n][i], move) \in Dog
          /\ Turned(dogs[n][i], move).name = dogs[n][i].name
      BY <1>5 DEF Turned, Dog
    <2> QED
      BY <2>1, NoneAssumption
  <1>7. dogs' \in [Maps -> [PlayerIds -> Dog \cup {None}]]
    BY <1>3, <1>4, <1>6 DEF TypeOK
  <1>8. \A m \in Maps, id \in PlayerIds :
           dogs'[m][id] = IF m = n /\ id = i THEN Turned(dogs[n][i], move) ELSE dogs[m][id]
    BY <1>3, <1>4 DEF TypeOK
  <1>9. Joined' = Joined /\ InGame' = InGame
    BY <1>1 DEF Joined, InGame
  <1>10. \A m \in Maps, id \in PlayerIds : /\ (dogs'[m][id] # None) <=> (dogs[m][id] # None)
                                          /\ dogs'[m][id].name = dogs[m][id].name
    <2> SUFFICES ASSUME NEW m \in Maps, NEW id \in PlayerIds
                 PROVE  /\ (dogs'[m][id] # None) <=> (dogs[m][id] # None)
                        /\ dogs'[m][id].name = dogs[m][id].name
      OBVIOUS
    <2>1. CASE m = n /\ id = i
      BY <1>4, <1>6, <1>8, <2>1
    <2>2. CASE ~(m = n /\ id = i)
      <3>1. dogs'[m][id] = dogs[m][id]
        BY <1>8, <2>2
      <3> QED
        BY <3>1
    <2> QED
      BY <2>1, <2>2
  <1>11. \A u \in InGame : joined[u].map \in Maps /\ joined[u].id \in PlayerIds
    BY JoinedTyped DEF InGame
  <1>12. RegistryInv'
    <2>1. ASSUME NEW m \in Maps, NEW id \in PlayerIds, dogs'[m][id] # None
          PROVE  dogs'[m][id].name \in InGame' /\ joined'[dogs'[m][id].name] = [id |-> id, map |-> m]
      <3>1. dogs[m][id] # None /\ dogs'[m][id].name = dogs[m][id].name
        BY <1>10, <2>1
      <3>2. dogs[m][id].name \in InGame /\ joined[dogs[m][id].name] = [id |-> id, map |-> m]
        BY <3>1 DEF RegistryInv
      <3>3. joined' = joined /\ InGame' = InGame
        BY <1>1, <1>9
      <3> QED
        BY <3>1, <3>2, <3>3
    <2>2. ASSUME NEW u \in InGame' PROVE dogs'[joined'[u].map][joined'[u].id] # None
      <3>1. u \in InGame /\ joined'[u] = joined[u]
        BY <1>1, <1>9
      <3>2. dogs[joined[u].map][joined[u].id] # None
        BY <3>1 DEF RegistryInv
      <3> QED
        BY <1>10, <1>11, <3>1, <3>2
    <2> QED
      BY <1>1, <1>9, <2>1, <2>2 DEF RegistryInv
  <1> QED
    BY <1>3, <1>6, <1>7, <1>8, <1>9, <1>12

LEMMA SessionShown ==
    ASSUME TypeOK, RegistryInv, NEW t \in InGame
    PROVE  /\ IdsAndNames(joined[t].map) = {[id |-> joined[u].id, name |-> u] : u \in Mates(t)}
           /\ IdsAndData(joined[t].map) = {[id |-> joined[u].id, name |-> None] : u \in Mates(t)}
  <1> DEFINE m == joined[t].map
  <1>1. m \in Maps
    BY JoinedTyped DEF InGame
  <1>2. ASSUME NEW id \in IdsIn(m)
        PROVE  \E u \in Mates(t) : joined[u].id = id /\ dogs[m][id].name = u
    <2>1. id \in PlayerIds /\ dogs[m][id] # None
      BY <1>2 DEF IdsIn
    <2>2. dogs[m][id].name \in InGame /\ joined[dogs[m][id].name] = [id |-> id, map |-> m]
      BY <1>1, <2>1 DEF RegistryInv
    <2>3. joined[dogs[m][id].name].map = m /\ joined[dogs[m][id].name].id = id
      BY <2>2
    <2> QED
      BY <2>2, <2>3 DEF Mates, InGame
  <1>3. ASSUME NEW u \in Mates(t)
        PROVE  joined[u].id \in IdsIn(m) /\ dogs[m][joined[u].id].name = u
    <2>1. u \in InGame /\ joined[u].map = m
      BY <1>3 DEF Mates, InGame
    <2>2. /\ <<m, joined[u].id>> \in DogsOn(Maps)
          /\ NameAt(<<m, joined[u].id>>) = u
      BY <2>1, DogFound
    <2> QED
      BY <2>2 DEF DogsOn, NameAt, IdsIn
  <1> HIDE DEF m
  <1>4. IdsAndNames(m) = {[id |-> joined[u].id, name |-> u] : u \in Mates(t)}
    BY <1>2, <1>3 DEF IdsAndNames
  <1>5. IdsAndData(m) = {[id |-> joined[u].id, name |-> None] : u \in Mates(t)}
    BY <1>2, <1>3 DEF IdsAndData
  <1> QED
    BY <1>4, <1>5 DEF m

-----------------------------------------------------------------------------
(* The invariants.                                                         *)

AnswerInv == KnownUntilRetired /\ ShowsOwnSession /\ DogIsFound

LEMMA ApiInit == Init => Inv /\ AnswerInv
  <1> SUFFICES ASSUME Init PROVE Inv /\ AnswerInv
    OBVIOUS
  <1>1. TypeOK
    <2>1. server_time \in 0 .. Word - 1 /\ player_incr_id \in Nat
      BY TimeAssumption DEF Init
    <2> QED
      BY <2>1 DEF Init, TypeOK
  <1>2. Joined = {} /\ InGame = {}
    BY DEF Init, Joined, InGame
  <1>3. RegistryInv
    BY <1>2 DEF Init, RegistryInv
  <1>4. AnswerInv
    BY DEF Init, AnswerInv, KnownUntilRetired, ShowsOwnSession, DogIsFound
  <1> QED
    BY <1>1, <1>3, <1>4 DEF Inv

LEMMA QuietKeeps ==
    ASSUME TypeOK, RegistryInv, AnswerInv, auto_tick' = auto_tick, QuietStep
    PROVE  Inv' /\ AnswerInv' /\ InGame' = InGame
  <1>1. /\ UNCHANGED <<up, dogs, players, tokens, player_incr_id, server_time,
                       joined, recorded, retired, cause>>
        /\ answer' \in Answers /\ Truthful
    BY DEF QuietStep
  <1>2. TypeOK'
    BY <1>1 DEF TypeOK
  <1>3. Joined' = Joined /\ InGame' = InGame
    BY <1>1 DEF Joined, InGame
  <1>4. RegistryInv'
    BY <1>1, <1>3 DEF RegistryInv
  <1>5. DogIsFound'
    BY <1>1 DEF AnswerInv, DogIsFound
  <1>6. \A t : Known(t) <=> t \in InGame
    <2>1. \A t \in InGame : t \in Tokens /\ joined[t] # None
      BY DEF InGame, Joined
    <2> QED
      BY <2>1 DEF Known, RegistryInv
  <1>7. KnownUntilRetired'
    BY <1>1, <1>3, <1>6 DEF Truthful, KnownUntilRetired, InGame
  <1>8. ShowsOwnSession'
    <2> SUFFICES ASSUME answer'.path \in {"players", "state"}, answer'.status = "ok"
                 PROVE  answer'.shown = {[id |-> joined[u].id,
                           name |-> IF answer'.path = "players" THEN u ELSE None] :
                              u \in Mates(answer'.auth)}
      BY <1>1, <1>3 DEF ShowsOwnSession, Mates
    <2>1. /\ answer'.auth \in InGame
          /\ answer'.shown = IF answer'.path = "players" THEN IdsAndNames(tokens[answer'.auth].map)
                             ELSE IdsAndData(tokens[answer'.auth].map)
      BY <1>1, <1>6 DEF Truthful
    <2>2. tokens[answer'.auth] = joined[answer'.auth]
      BY <2>1 DEF RegistryInv, InGame, Joined
    <2> QED
      BY <2>1, <2>2, SessionShown
  <1> QED
    BY <1>2, <1>3, <1>4, <1>5, <1>7, <1>8 DEF Inv, AnswerInv

LEMMA DeathKeeps ==
    ASSUME TypeOK, RegistryInv, AnswerInv, NEW why, DeathStep(why)
    PROVE  Inv' /\ AnswerInv'
  <1>1. /\ up' = FALSE /\ answer' = None /\ cause' = why /\ Blank
        /\ UNCHANGED <<auto_tick, joined, retired>>
    BY DEF DeathStep, Die
  <1>2. recorded' \subseteq Tokens
    <2>1. recorded' \subseteq recorded \cup InGame
      BY PlayingNames DEF DeathStep
    <2> QED
      BY <2>1 DEF TypeOK, InGame, Joined
  <1>3. TypeOK'
    <2>1. server_time' \in 0 .. Word - 1 /\ player_incr_id' \in Nat
      BY <1>1, TimeAssumption DEF Blank
    <2>2. /\ dogs' \in [Maps -> [PlayerIds -> Dog \cup {None}]]
          /\ players' \in [PlayerIds -> Maps \cup {None}]
          /\ tokens' \in [Tokens -> Player \cup {None}]
      BY <1>1 DEF Blank
    <2>3. auto_tick' = auto_tick /\ joined' = joined /\ retired' = retired
          /\ up' = FALSE /\ answer' = None
      BY <1>1
    <2> QED
      BY <1>2, <2>1, <2>2, <2>3 DEF TypeOK
  <1>4. why # "no dog"
    <2>1. SUFFICES ASSUME NEW t \in Tokens, Known(t), dogs[tokens[t].map][tokens[t].id] = None
                   PROVE  FALSE
      BY DEF DeathStep
    <2> QED
      BY <2>1 DEF Known, RegistryInv
  <1> QED
    BY <1>1, <1>3, <1>4 DEF Inv, AnswerInv, KnownUntilRetired, ShowsOwnSession, DogIsFound

LEMMA InvStep == Inv /\ AnswerInv /\ [Next]_vars => Inv' /\ AnswerInv'
  <1> SUFFICES ASSUME Inv, AnswerInv, [Next]_vars PROVE Inv' /\ AnswerInv'
    OBVIOUS
  <1>1. TypeOK
    BY DEF Inv
  <1>2. ASSUME NEW path \in DOMAIN Arguments, NEW r \in Requests(path), up, Handle(r)
        PROVE  Inv' /\ AnswerInv'
    <2>1. RegistryInv
      BY <1>2 DEF Inv
    <2>2. auto_tick' = auto_tick
      BY <1>1, <1>2, RequestSteps
    <2>3. CASE QuietStep
      BY <1>1, <2>1, <2>2, <2>3, QuietKeeps
    <2>4. ASSUME NEW why, DeathStep(why) PROVE Inv' /\ AnswerInv'
      BY <1>1, <2>1, <2>4, DeathKeeps
    <2>5. ASSUME NEW t \in Tokens, NEW m \in Maps, JoinStep(t, m) PROVE Inv' /\ AnswerInv'
      <3>1. /\ t \in Tokens \ Joined /\ JoinGame(t, m) /\ UNCHANGED retired
            /\ UNCHANGED <<up, server_time, recorded, cause>> /\ Accepted("join")
        BY <2>5 DEF JoinStep
      <3>2. TypeOK'
        BY <1>1, <2>1, <2>2, <3>1, JoinKeeps DEF TypeOK, Accepted
      <3>3. RegistryInv'
        BY <1>1, <2>1, <3>1, JoinKeeps
      <3>4. AnswerInv'
        BY <3>1 DEF Accepted, AnswerInv, KnownUntilRetired, ShowsOwnSession, DogIsFound
      <3> QED
        BY <3>2, <3>3, <3>4 DEF Inv
    <2>6. ASSUME NEW t \in Tokens, NEW move \in {"U", "", "?"}, TurnStep(t, move)
          PROVE  Inv' /\ AnswerInv'
      <3>1. /\ UNCHANGED <<up, players, tokens, player_incr_id, server_time,
                           joined, recorded, retired, cause>>
            /\ Accepted("action")
        BY <2>6 DEF TurnStep
      <3>2. TypeOK'
        BY <1>1, <2>1, <2>2, <2>6, <3>1, TurnKeeps DEF TypeOK, Accepted
      <3>3. RegistryInv'
        BY <1>1, <2>1, <2>6, TurnKeeps
      <3>4. AnswerInv'
        BY <3>1 DEF Accepted, AnswerInv, KnownUntilRetired, ShowsOwnSession, DogIsFound
      <3> QED
        BY <3>2, <3>3, <3>4 DEF Inv
    <2>7. ASSUME NEW delta \in Nat, TickStep(delta) PROVE Inv' /\ AnswerInv'
      <3>1. Tick(delta) /\ Accepted("tick")
        BY <2>7 DEF TickStep
      <3>2. recorded' \subseteq Tokens
        BY <1>1, <2>1, <3>1, TickKeeps DEF InGame, Joined, TypeOK
      <3>3. TypeOK'
        BY <1>1, <2>1, <3>1, <3>2, TickKeeps DEF TypeOK, Accepted
      <3>4. RegistryInv'
        BY <1>1, <2>1, <3>1, TickKeeps
      <3>5. cause' = cause
        BY <1>1, <2>1, <3>1, TickKeeps
      <3>6. AnswerInv'
        BY <3>1, <3>5 DEF Accepted, AnswerInv, KnownUntilRetired, ShowsOwnSession, DogIsFound
      <3> QED
        BY <3>3, <3>4, <3>6 DEF Inv
    <2> QED
      BY <1>1, <1>2, <2>3, <2>4, <2>5, <2>6, <2>7, RequestSteps
  <1>3. CASE TickerTick
    <2>1. PICK delta \in Deltas \cap Nat : Tick(delta) \/ CutTick(delta)
      BY <1>3 DEF TickerTick
    <2>2. RegistryInv /\ answer' = None
      BY <1>3 DEF TickerTick, Inv
    <2>3. recorded' \subseteq Tokens
      BY <1>1, <2>1, <2>2, TickKeeps DEF InGame, Joined, TypeOK
    <2>4. TypeOK'
      BY <1>1, <2>1, <2>2, <2>3, TickKeeps DEF TypeOK
    <2>5. RegistryInv' /\ cause' = cause
      BY <1>1, <2>1, <2>2, TickKeeps
    <2> QED
      BY <2>2, <2>4, <2>5 DEF Inv, AnswerInv, KnownUntilRetired, ShowsOwnSession, DogIsFound
  <1>4. CASE UNCHANGED vars
    <2>1. UNCHANGED <<auto_tick, up, dogs, players, tokens, player_incr_id, server_time, answer,
                      joined, recorded, retired, cause>>
      BY <1>4 DEF vars, game, registry, ghosts
    <2>2. TypeOK'
      BY <1>1, <2>1 DEF TypeOK
    <2>3. Joined' = Joined /\ InGame' = InGame
      BY <2>1 DEF Joined, InGame
    <2>4. up' => RegistryInv'
      BY <2>1, <2>3 DEF Inv, RegistryInv
    <2>5. AnswerInv'
      <3>1. \A t : Mates(t)' = Mates(t)
        BY <2>1, <2>3 DEF Mates
      <3> QED
        BY <2>1, <2>3, <3>1 DEF AnswerInv, KnownUntilRetired, ShowsOwnSession, DogIsFound
    <2> QED
      BY <2>2, <2>4, <2>5 DEF Inv
  <1> QED
    BY <1>2, <1>3, <1>4 DEF Next

LEMMA ApiAlways == Spec => [](Inv /\ AnswerInv)
  BY ApiInit, InvStep, PTL DEF Spec

\* A player's token is known from the answer to the join until the player retires,
\* and at no other time.
THEOREM TokensKnown == Spec => []KnownUntilRetired
  BY ApiAlways, PTL DEF AnswerInv

\* The list and the state show a player all those, and only those, who joined its map
\* and are still in the game, under the ids their joins were answered with: over every
\* order of joins, retirements, turns and ticks that break off half-way.
THEOREM OwnSessionShown == Spec => []ShowsOwnSession
  BY ApiAlways, PTL DEF AnswerInv

\* No request ends the process because the dog behind a known token is gone.
THEOREM DogsFound == Spec => []DogIsFound
  BY ApiAlways, PTL DEF AnswerInv

-----------------------------------------------------------------------------
(* The steps.                                                              *)

\* What is answered and is not an accepted POST has neither changed a table or the clock
\* nor stored a record.
THEOREM ActsWhenAccepted == Spec => OnlyAcceptedPostsAct
  <1> DEFINE A == (answer' # None /\ ~(answer'.method = "POST" /\ answer'.status = "ok"))
                    => UNCHANGED <<game, recorded>>
  <1>1. (Inv /\ AnswerInv) /\ [Next]_vars => [A]_vars
    <2> SUFFICES ASSUME TypeOK, Next, answer' # None,
                        ~(answer'.method = "POST" /\ answer'.status = "ok")
                 PROVE  UNCHANGED <<game, recorded>>
      BY DEF Inv
    <2>1. ASSUME NEW path \in DOMAIN Arguments, NEW r \in Requests(path), Handle(r)
          PROVE  QuietStep
      BY <2>1, RequestSteps DEF DeathStep, Die, JoinStep, TurnStep, TickStep, Accepted
    <2>2. ~TickerTick
      BY DEF TickerTick
    <2>3. QuietStep
      BY <2>1, <2>2 DEF Next
    <2> QED
      BY <2>3 DEF QuietStep, game, registry
  <1>2. Spec => [][A]_vars
    BY <1>1, ApiAlways, PTL DEF Spec
  <1> QED
    BY <1>2 DEF OnlyAcceptedPostsAct

\* Under a Ticker no request moves the clock, retires a player or stores a record, those
\* that end the process among them.
THEOREM TimeHasOneDriver == Spec => OneDriver
  <1> DEFINE A == (auto_tick /\ (answer' # None \/ ~up')) =>
                    /\ UNCHANGED <<retired, recorded>>
                    /\ up' => UNCHANGED server_time
  <1>1. (Inv /\ AnswerInv) /\ [Next]_vars => [A]_vars
    <2> SUFFICES ASSUME Inv, Next, auto_tick, answer' # None \/ ~up'
                 PROVE  UNCHANGED <<retired, recorded>> /\ (up' => UNCHANGED server_time)
      OBVIOUS
    <2>1. ASSUME NEW path \in DOMAIN Arguments, NEW r \in Requests(path), Handle(r)
          PROVE  UNCHANGED <<retired, recorded>> /\ (up' => UNCHANGED server_time)
      BY <2>1, RequestSteps DEF Inv, QuietStep, DeathStep, Die, JoinStep, TurnStep, TickStep
    <2>2. ~TickerTick
      <3>1. SUFFICES ASSUME TickerTick PROVE FALSE
        OBVIOUS
      <3>2. PICK delta \in Deltas \cap Nat : Tick(delta) \/ CutTick(delta)
        BY <3>1 DEF TickerTick
      <3> QED
        BY <3>1, <3>2, TickKeeps DEF TickerTick, Inv
    <2> QED
      BY <2>1, <2>2 DEF Next
  <1>2. Spec => [][A]_vars
    BY <1>1, ApiAlways, PTL DEF Spec
  <1> QED
    BY <1>2 DEF OneDriver

\* A request that is no tick touches the dog of its own user and no other, in the session
\* that this user joined and under the id its join was answered with.
THEOREM TouchesOne == Spec => TouchesOnlyItsPlayer
  <1> DEFINE Own(m, id) ==
                \/ /\ answer'.path = "join" /\ dogs[m][id] = None
                   /\ answer'.shown = {[id |-> id, name |-> dogs'[m][id].name]}
                   /\ joined'[dogs'[m][id].name].map = m
                \/ /\ answer'.path = "action" /\ joined[answer'.auth] = [id |-> id, map |-> m]
                   /\ dogs'[m][id] # None
             A == (answer' # None /\ answer'.path # "tick") =>
                    \A m \in Maps, id \in PlayerIds : dogs'[m][id] # dogs[m][id] => Own(m, id)
  <1>1. (Inv /\ AnswerInv) /\ [Next]_vars => [A]_vars
    <2> SUFFICES ASSUME Inv, Next, answer' # None, answer'.path # "tick",
                        NEW m \in Maps, NEW id \in PlayerIds, dogs'[m][id] # dogs[m][id]
                 PROVE  Own(m, id)
      OBVIOUS
    <2>1. ASSUME NEW path \in DOMAIN Arguments, NEW r \in Requests(path), up, Handle(r)
          PROVE  Own(m, id)
      <3>1. TypeOK /\ RegistryInv
        BY <2>1 DEF Inv
      <3>2. ASSUME NEW t \in Tokens, NEW n \in Maps, JoinStep(t, n) PROVE Own(m, id)
        <4>1. /\ t \in Tokens \ Joined /\ JoinGame(t, n) /\ UNCHANGED retired
              /\ answer'.path = "join" /\ answer'.shown = {[id |-> player_incr_id, name |-> t]}
          BY <3>2 DEF JoinStep, Accepted
        <4>2. dogs'[m][id] = IF m = n /\ id = player_incr_id THEN [name |-> t, moving |-> FALSE]
                             ELSE dogs[m][id]
          BY <3>1, <3>2, <4>1, JoinKeeps
        <4>3. m = n /\ id = player_incr_id
          BY <4>2
        <4>4. /\ dogs'[m][id] = [name |-> t, moving |-> FALSE] /\ dogs[m][id] = None
              /\ joined'[t].map = m
          BY <3>1, <3>2, <4>1, <4>2, <4>3, JoinKeeps
        <4>5. dogs'[m][id].name = t
          BY <4>4
        <4> QED
          BY <4>1, <4>3, <4>4, <4>5
      <3>3. ASSUME NEW t \in Tokens, NEW move \in {"U", "", "?"}, TurnStep(t, move)
            PROVE  Own(m, id)
        <4>1. answer'.path = "action" /\ answer'.auth = t
          BY <3>3 DEF TurnStep, Accepted
        <4> QED
          BY <3>1, <3>3, <4>1, TurnKeeps
      <3> QED
        BY <2>1, <3>1, <3>2, <3>3, RequestSteps DEF QuietStep, DeathStep, Die, TickStep, Accepted
    <2>2. ~TickerTick
      BY DEF TickerTick
    <2> QED
      BY <2>1, <2>2 DEF Next
  <1>2. Spec => [][A]_vars
    BY <1>1, ApiAlways, PTL DEF Spec
  <1> QED
    BY <1>2 DEF TouchesOnlyItsPlayer

-----------------------------------------------------------------------------
(* The refinement.                                                         *)

Playing == Names(DogsOn(Maps))

LEMMA PlayingIs == TypeOK /\ RegistryInv => Playing = InGame
  BY PlayingNames DEF Playing

LEMMA PlayingNext == (TypeOK /\ RegistryInv => Playing = InGame)'
  BY PlayingIs, PTL

LEMMA MembershipInit == Init => Members!Init
  BY DEF Init, Members!Init, Names, DogsOn

LEMMA MembershipStep ==
    ASSUME Inv, Inv', [Next]_vars
    PROVE  [Members!Next]_(Members!vars)
  <1>1. up => Playing = InGame
    BY PlayingIs DEF Inv
  <1>2. up' => Playing' = InGame'
    BY PlayingNext DEF Inv
  <1>3. SUFFICES \/ Members!Next
                 \/ UNCHANGED <<Playing, recorded, up>>
    BY DEF Members!vars, Playing
  <1>4. ASSUME up, NEW delta \in Nat, Tick(delta) \/ CutTick(delta) PROVE Members!Next
    <2>1. PICK leaving, noted \in SUBSET InGame :
             /\ InGame' = InGame \ leaving /\ leaving \subseteq noted
             /\ recorded' = recorded \cup noted
      BY <1>4, TickKeeps DEF Inv
    <2>2. up' = up
      BY <1>4, TickKeeps DEF Inv
    <2>3. Playing = InGame /\ Playing' = Playing \ leaving
      BY <1>1, <1>2, <1>4, <2>1, <2>2
    <2>4. Members!Tick(noted, leaving)
      BY <1>4, <2>1, <2>2, <2>3 DEF Members!Tick, Playing
    <2>5. leaving \in SUBSET Playing /\ noted \in SUBSET Playing
      BY <2>1, <2>3
    <2> QED
      BY <2>4, <2>5 DEF Members!Next, Playing
  <1>5. ASSUME NEW path \in DOMAIN Arguments, NEW r \in Requests(path), up, Handle(r)
        PROVE  Members!Next \/ UNCHANGED <<Playing, recorded, up>>
    <2>1. TypeOK /\ RegistryInv
      BY <1>5 DEF Inv
    <2>2. CASE QuietStep
      BY <2>2 DEF QuietStep, Playing, Names, DogsOn, NameAt
    <2>3. ASSUME NEW why, DeathStep(why) PROVE Members!Next
      <3>1. /\ up' = FALSE /\ dogs' = [m \in Maps |-> [id \in PlayerIds |-> None]]
            /\ recorded \subseteq recorded' /\ recorded' \subseteq recorded \cup Playing
        BY <2>3 DEF DeathStep, Die, Blank, Playing
      <3>2. Playing' = {}
        BY <3>1 DEF Playing, Names, DogsOn
      <3> DEFINE noted == recorded' \cap Playing
      <3>3. recorded' = recorded \cup noted /\ noted \in SUBSET Playing
        BY <3>1
      <3> HIDE DEF noted
      <3>4. Members!Down(noted)
        BY <1>5, <3>1, <3>2, <3>3 DEF Members!Down, Playing
      <3> QED
        BY <3>3, <3>4 DEF Members!Next, Playing
    <2>4. ASSUME NEW t \in Tokens, NEW m \in Maps, JoinStep(t, m) PROVE Members!Next
      <3>1. /\ t \in Tokens \ Joined /\ JoinGame(t, m) /\ UNCHANGED <<up, recorded, retired>>
        BY <2>4 DEF JoinStep
      <3>2. InGame' = InGame \cup {t} /\ t \notin InGame
        BY <2>1, <3>1, JoinKeeps
      <3>3. Playing' = Playing \cup {t} /\ t \notin Playing
        BY <1>1, <1>2, <1>5, <3>1, <3>2
      <3>4. Members!Join(t)
        BY <1>5, <3>1, <3>3 DEF Members!Join, Playing
      <3> QED
        BY <3>4 DEF Members!Next
    <2>5. ASSUME NEW t \in Tokens, NEW move \in {"U", "", "?"}, TurnStep(t, move)
          PROVE  UNCHANGED <<Playing, recorded, up>>
      <3>1. InGame' = InGame /\ UNCHANGED <<recorded, up>>
        BY <2>1, <2>5, TurnKeeps DEF TurnStep
      <3> QED
        BY <1>1, <1>2, <1>5, <3>1
    <2>6. ASSUME NEW delta \in Nat, TickStep(delta) PROVE Members!Next
      BY <1>4, <1>5, <2>6 DEF TickStep
    <2> QED
      BY <1>5, <2>1, <2>2, <2>3, <2>4, <2>5, <2>6, RequestSteps
  <1>6. CASE TickerTick
    BY <1>4, <1>6 DEF TickerTick
  <1>7. CASE UNCHANGED vars
    BY <1>7 DEF vars, game, registry, ghosts, Playing, Names, DogsOn, NameAt
  <1> QED
    BY <1>5, <1>6, <1>7 DEF Next

\* The requests and the ticks of one life of the process make of the players what
\* Membership allows: nobody leaves a running game without a record, nobody else's join
\* brings one in, and what a tick that ends the process has recorded is somebody who played.
THEOREM ApiKeepsMembership == Spec => KeepsMembership
  <1>1. Inv /\ Inv' /\ [Next]_vars => [Members!Next]_(Members!vars)
    BY MembershipStep
  <1>2. Spec => []Inv
    BY ApiAlways, PTL
  <1> QED
    BY <1>1, <1>2, MembershipInit, PTL DEF Spec, KeepsMembership, Members!Spec

=============================================================================
