---------------------------- MODULE ClientProofs ----------------------------
(***************************************************************************)
(* Proofs about the page of a player: for every number of players, pieces  *)
(* of loot and requests under way, whatever is answered late or lost; and  *)
(* for every number of keys and of posts under way.                        *)
(***************************************************************************)
EXTENDS Client, Steering, SequenceTheorems, TLAPS

-----------------------------------------------------------------------------
(* The session, and what was answered about it.                            *)

Things(w) == w.loot \cup UNION {w.bag[i] : i \in Ids}

\* A session holds a piece in one place, and a bag belongs to a player.
WellFormed(w) ==
    /\ w \in World
    /\ \A i \in Ids : /\ i \notin w.players => w.bag[i] = {}
                      /\ w.bag[i] \cap w.loot = {}
                      /\ \A j \in Ids \ {i} : w.bag[i] \cap w.bag[j] = {}

ShownBy(requests, slots) == {requests[s].shows : s \in {t \in slots : requests[t].stage = "answered"}}
States == ShownBy(updates, Updates)
Lists  == ShownBy(syncs, Syncs)
Seen   == States \cup Lists \cup {world} \cup (IF desiredState = None THEN {} ELSE {desiredState})

\* A piece in a bag stays in it or leaves the game.
Kept(a, b) == a.version <= b.version =>
    \A i \in Ids : \A l \in a.bag[i] : l \in b.bag[i] \/ l \notin Things(b)

\* Who has left does not come back, and no piece does.
ForGood(a, b, c) == (a.version <= b.version /\ b.version <= c.version) =>
    /\ (a.players \ b.players) \cap c.players = {}
    /\ (Things(a) \ Things(b)) \cap Things(c) = {}

RequestSet == {Free, Sent, Refused} \cup {Request("answered", w) : w \in World}

WireInv == /\ updates \in [Updates -> RequestSet] /\ syncs \in [Syncs -> RequestSet]
           /\ world \in World /\ desiredState \in World \cup {None}

HistoryInv ==
    /\ \A w \in Seen : /\ WellFormed(w) /\ w.version <= world.version
                       /\ w.players \subseteq met /\ Things(w) \subseteq met
    /\ \A a, b \in Seen : Kept(a, b)
    /\ \A a, b, c \in Seen : ForGood(a, b, c)

-----------------------------------------------------------------------------
(* The page.                                                               *)

LoadingInv ==
    /\ started \in BOOLEAN /\ playersLoaded \in BOOLEAN
    /\ started <=> playersLoaded /\ desiredState # None
    /\ ~playersLoaded => players = {}
    /\ ~started => /\ currentState = {} /\ lostObjects = {} /\ disappearing = {}
                   /\ \A i \in Ids : carried[i] = {} /\ unseen[i] = {}

\* The tables hold the state that was applied last.
AppliedInv ==
    /\ carried \in [Ids -> SUBSET LootIds] /\ unseen \in [Ids -> SUBSET LootIds]
    /\ players \in SUBSET Ids /\ disappearing \in SUBSET LootIds
    /\ listed \in Nat /\ listed <= world.version
    /\ started => /\ currentState = desiredState.players
                  /\ lostObjects = desiredState.loot
                  /\ \A i \in currentState : carried[i] = desiredState.bag[i]
    /\ players \subseteq met /\ disappearing \subseteq met
    /\ \A i \in Ids : carried[i] \subseteq met

\* Who is listed and not in a later list is in none after that.
ListedInv ==
    \A b, c \in Lists \cup {world} :
        (listed <= b.version /\ b.version <= c.version) => (players \ b.players) \cap c.players = {}

\* Before the game has started nobody has retired.
UnstartedInv == ~started =>
    \A c \in States \cup (IF desiredState = None THEN {} ELSE {desiredState}) :
        c.players \subseteq world.players

\* Whose loot was taken out of the scene is in no later list.
UnseenInv == \A i \in Ids : unseen[i] # {} =>
    /\ i \in met /\ i \notin players
    /\ \A c \in Lists \cup {world} : listed <= c.version => i \notin c.players

\* Whoever has retired is shown as it stood, or its loot is out of the scene.
RetiredInv == started => \A i \in Ids \ world.players :
    /\ i \in currentState => i \in players \/ unseen[i] = carried[i]
    /\ \A c \in States : (desiredState.version <= c.version /\ i \in c.players) =>
          i \in currentState /\ c.bag[i] = carried[i]

\* A bag that no state tells of belongs to a player that is still listed and will not be
\* told of again, nor what it holds.
StaleInv == started => \A i \in Ids \ currentState : carried[i] # {} =>
    /\ i \in players
    /\ \A c \in States \cup {world, desiredState} : desiredState.version <= c.version =>
          i \notin c.players /\ carried[i] \cap Things(c) = {}

FallingInv == started =>
    \A c \in States \cup {world, desiredState} : desiredState.version <= c.version =>
        disappearing \cap Things(c) = {}

ApartInv == \A i \in Ids \ currentState :
    /\ carried[i] \cap disappearing = {}
    /\ \A j \in Ids \ currentState : i # j => carried[i] \cap carried[j] = {}

SceneInv == InOrder => /\ UnstartedInv /\ UnseenInv /\ RetiredInv /\ StaleInv /\ FallingInv
                       /\ ApartInv /\ ~stray

IInv == WireInv /\ HistoryInv /\ LoadingInv /\ AppliedInv /\ ListedInv /\ SceneInv

-----------------------------------------------------------------------------
(* Facts about the parts.                                                  *)

LEMMA ThingsOf ==
    ASSUME NEW w, NEW l
    PROVE  l \in Things(w) <=> l \in w.loot \/ \E i \in Ids : l \in w.bag[i]
  BY DEF Things

\* What is answered is a session.
LEMMA AnsweredIsWorld ==
    ASSUME NEW request \in RequestSet
    PROVE  /\ request.stage \in {"free", "sent", "unauthorized", "answered"}
           /\ request.stage = "answered" => request.shows \in World
  BY DEF RequestSet, Free, Sent, Refused, Request

LEMMA SeenIsWorld == WireInv => Seen \subseteq World
  BY AnsweredIsWorld DEF WireInv, Seen, States, Lists, ShownBy

\* Answers come from the requests that were there.
LEMMA ShownLess ==
    ASSUME NEW slots, NEW s \in slots, NEW requests \in [slots -> RequestSet],
           NEW request \in RequestSet
    PROVE  /\ [requests EXCEPT ![s] = request] \in [slots -> RequestSet]
           /\ ShownBy([requests EXCEPT ![s] = request], slots) \subseteq
                 ShownBy(requests, slots)
                    \cup (IF request.stage = "answered" THEN {request.shows} ELSE {})
  BY DEF ShownBy

LEMMA RequestsTyped ==
    /\ Free \in RequestSet /\ Sent \in RequestSet /\ Refused \in RequestSet
    /\ Free.stage = "free" /\ Sent.stage = "sent" /\ Refused.stage = "unauthorized"
  BY DEF RequestSet, Free, Sent, Refused, Request

LEMMA AskTyped ==
    ASSUME NEW slots, NEW requests \in [slots -> RequestSet]
    PROVE  /\ Ask(requests, slots) \in [slots -> RequestSet]
           /\ ShownBy(Ask(requests, slots), slots) \subseteq ShownBy(requests, slots)
  <1>1. CASE Ask(requests, slots) = requests
    BY <1>1
  <1>2. CASE Ask(requests, slots) # requests
    <2>1. PICK s : Ask(requests, slots) = [requests EXCEPT ![s] = Sent]
      BY <1>2 DEF Ask
    <2>2. s \in slots
      BY <1>2, <2>1
    <2>3. /\ [requests EXCEPT ![s] = Sent] \in [slots -> RequestSet]
          /\ ShownBy([requests EXCEPT ![s] = Sent], slots) \subseteq
                ShownBy(requests, slots) \cup (IF Sent.stage = "answered" THEN {Sent.shows} ELSE {})
      BY <2>2, ShownLess, RequestsTyped
    <2>4. Sent.stage # "answered"
      BY RequestsTyped
    <2> QED
      BY <2>1, <2>3, <2>4
  <1> QED
    BY <1>1, <1>2

-----------------------------------------------------------------------------
(* The history.                                                            *)

LEMMA HistoryKept ==
    ASSUME HistoryInv, Seen' \subseteq Seen, world' = world, met' = met
    PROVE  HistoryInv'
  BY DEF HistoryInv, WellFormed, Kept, ForGood, Things

\* What happens in the session, for those who see it later.
Succeeds(w, v) ==
    /\ WellFormed(v) /\ v.version = w.version + 1
    /\ v.players \subseteq w.players \cup (Ids \ met)
    /\ Things(v) \subseteq Things(w) \cup (LootIds \ met)
    /\ \A i \in Ids : \A l \in w.bag[i] : l \in v.bag[i] \/ l \notin Things(v)

SessionStep ==
    /\ Succeeds(world, world') /\ met \subseteq met'
    /\ world'.players \subseteq met' /\ Things(world') \subseteq met'
    /\ UNCHANGED <<wire, loaded, desiredState, drawn, listed, overtaken, stray>>
    /\ surprised => surprised'
    /\ \A i \in world.players \ world'.players : surprised' \/ ShownAsItStands(i)

LEMMA HistoryGrows ==
    ASSUME WireInv, HistoryInv, SessionStep
    PROVE  HistoryInv'
  <1>1. Seen' \subseteq Seen \cup {world'}
    BY DEF SessionStep, Seen, States, Lists, wire
  <1>2. world \in Seen
    BY DEF Seen
  <1>3. \A w \in Seen : w.version <= world.version /\ w.version \in Nat
    BY SeenIsWorld DEF HistoryInv, World
  <1>4. world'.version = world.version + 1
    BY DEF SessionStep, Succeeds
  <1>5. ASSUME NEW w \in Seen'
        PROVE  /\ WellFormed(w) /\ w.version <= world'.version
               /\ w.players \subseteq met' /\ Things(w) \subseteq met'
    BY <1>1, <1>2, <1>3, <1>4 DEF HistoryInv, SessionStep, Succeeds
  <1>6. ASSUME NEW w \in Seen' PROVE w \in Seen \/ w = world'
    BY <1>1
  <1>7. \A w \in Seen : ~(world'.version <= w.version)
    BY <1>2, <1>3, <1>4
  <1>8. ASSUME NEW a \in Seen', NEW b \in Seen' PROVE Kept(a, b)
    <2>1. CASE a \in Seen /\ b \in Seen
      BY <2>1 DEF HistoryInv
    <2>2. CASE a = world' /\ b \in Seen
      BY <1>7, <2>2 DEF Kept
    <2>3. CASE a = world' /\ b = world'
      BY <2>3 DEF Kept
    <2>4. CASE a \in Seen /\ b = world'
      <3> SUFFICES ASSUME NEW i \in Ids, NEW l \in a.bag[i]
                   PROVE  l \in world'.bag[i] \/ l \notin Things(world')
        BY <2>4 DEF Kept
      <3>1. l \in world.bag[i] \/ l \notin Things(world)
        BY <1>2, <1>3, <2>4 DEF HistoryInv, Kept
      <3>2. l \in met
        BY <2>4, ThingsOf DEF HistoryInv
      <3> QED
        BY <3>1, <3>2 DEF SessionStep, Succeeds
    <2> QED
      BY <1>6, <2>1, <2>2, <2>3, <2>4
  <1>9. ASSUME NEW a \in Seen', NEW b \in Seen', NEW c \in Seen' PROVE ForGood(a, b, c)
    <2>1. CASE c \in Seen
      BY <1>6, <1>7, <2>1 DEF HistoryInv, ForGood
    <2>2. CASE c = world' /\ b = world'
      BY <2>2 DEF ForGood
    <2>3. CASE c = world' /\ b \in Seen /\ a = world'
      BY <1>7, <2>3 DEF ForGood
    <2>4. CASE c = world' /\ b \in Seen /\ a \in Seen
      <3>1. SUFFICES ASSUME a.version <= b.version
                     PROVE  /\ (a.players \ b.players) \cap world'.players = {}
                            /\ (Things(a) \ Things(b)) \cap Things(world') = {}
        BY <2>4 DEF ForGood
      <3>2. /\ (a.players \ b.players) \cap world.players = {}
            /\ (Things(a) \ Things(b)) \cap Things(world) = {}
        BY <1>2, <1>3, <2>4, <3>1 DEF HistoryInv, ForGood
      <3>3. a.players \subseteq met /\ Things(a) \subseteq met
        BY <2>4 DEF HistoryInv
      <3> QED
        BY <3>2, <3>3 DEF SessionStep, Succeeds
    <2> QED
      BY <1>6, <2>1, <2>2, <2>3, <2>4
  <1> QED
    BY <1>5, <1>8, <1>9 DEF HistoryInv

-----------------------------------------------------------------------------
(* What happens in the session.                                            *)

LEMMA Changed ==
    ASSUME WireInv, NEW w \in World, Change(w)
    PROVE  /\ world' \in World /\ world'.version = world.version + 1
           /\ world'.players = w.players /\ world'.loot = w.loot /\ world'.bag = w.bag
           /\ UNCHANGED <<wire, loaded, desiredState, drawn, listed, overtaken, stray>>
  <1>1. world.version \in Nat
    BY DEF WireInv, World
  <1> QED
    BY <1>1 DEF Change, World

\* Nothing is new but what was never met.
LEMMA SessionHappens ==
    ASSUME WireInv, HistoryInv, Session
    PROVE  SessionStep
  <1>1. /\ WellFormed(world) /\ world.players \subseteq met /\ Things(world) \subseteq met
        /\ world \in World /\ world.players \in SUBSET Ids /\ world.loot \in SUBSET LootIds
        /\ world.bag \in [Ids -> SUBSET LootIds]
    BY DEF HistoryInv, Seen, WireInv, World
  <1>2. ASSUME NEW i \in Ids, Join(i) PROVE SessionStep
    <2> DEFINE w == [world EXCEPT !.players = @ \cup {i}]
    <2>1. /\ w \in World /\ w.players = world.players \cup {i}
          /\ w.loot = world.loot /\ w.bag = world.bag
      BY <1>1 DEF World
    <2>2. /\ world' \in World /\ world'.version = world.version + 1
          /\ world'.players = world.players \cup {i} /\ world'.loot = world.loot
          /\ world'.bag = world.bag
          /\ UNCHANGED <<wire, loaded, desiredState, drawn, listed, overtaken, stray>>
      BY <1>2, <2>1, Changed DEF Join
    <2>3. Things(world') = Things(world)
      BY <2>2 DEF Things
    <2>4. i \notin met /\ met' = met \cup {i} /\ surprised' = surprised
      BY <1>2 DEF Join
    <2>5. WellFormed(world')
      BY <1>1, <2>2 DEF WellFormed
    <2> QED
      BY <1>1, <2>2, <2>3, <2>4, <2>5 DEF SessionStep, Succeeds
  <1>3. ASSUME NEW k \in LootIds, Appear(k) PROVE SessionStep
    <2> DEFINE w == [world EXCEPT !.loot = @ \cup {k}]
    <2>1. /\ w \in World /\ w.players = world.players
          /\ w.loot = world.loot \cup {k} /\ w.bag = world.bag
      BY <1>1 DEF World
    <2>2. /\ world' \in World /\ world'.version = world.version + 1
          /\ world'.players = world.players /\ world'.loot = world.loot \cup {k}
          /\ world'.bag = world.bag
          /\ UNCHANGED <<wire, loaded, desiredState, drawn, listed, overtaken, stray>>
      BY <1>3, <2>1, Changed DEF Appear
    <2>3. Things(world') = Things(world) \cup {k}
      BY <2>2 DEF Things
    <2>4. k \notin met /\ met' = met \cup {k} /\ surprised' = surprised
      BY <1>3 DEF Appear
    <2>5. \A i \in Ids : k \notin world.bag[i]
      BY <1>1, <2>4, ThingsOf
    <2>6. WellFormed(world')
      BY <1>1, <2>2, <2>5 DEF WellFormed
    <2> QED
      BY <1>1, <2>2, <2>3, <2>4, <2>6 DEF SessionStep, Succeeds
  <1>4. ASSUME NEW j \in Ids, NEW k \in LootIds, Gather(j, k) PROVE SessionStep
    <2> DEFINE w == [world EXCEPT !.loot = @ \ {k}, !.bag[j] = @ \cup {k}]
    <2>1. /\ w \in World /\ w.players = world.players
          /\ w.loot = world.loot \ {k} /\ w.bag = [world.bag EXCEPT ![j] = @ \cup {k}]
      BY <1>1 DEF World
    <2>2. /\ world' \in World /\ world'.version = world.version + 1
          /\ world'.players = world.players /\ world'.loot = world.loot \ {k}
          /\ world'.bag = [world.bag EXCEPT ![j] = @ \cup {k}]
          /\ UNCHANGED <<wire, loaded, desiredState, drawn, listed, overtaken, stray>>
      BY <1>4, <2>1, Changed DEF Gather
    <2>3. \A i \in Ids : world'.bag[i] = IF i = j THEN world.bag[i] \cup {k} ELSE world.bag[i]
      BY <1>1, <2>2
    <2>4. k \in world.loot /\ j \in world.players /\ met' = met /\ surprised' = surprised
      BY <1>4 DEF Gather
    <2>5. Things(world') = Things(world)
      <3>1. /\ \A i \in Ids : world'.bag[i] \subseteq world.bag[i] \cup {k}
            /\ \A i \in Ids : world.bag[i] \subseteq world'.bag[i]
            /\ k \in world'.bag[j]
        BY <2>3
      <3>2. ASSUME NEW l \in Things(world') PROVE l \in Things(world)
        <4>1. k \in Things(world)
          BY <2>4, ThingsOf
        <4>2. CASE \E i \in Ids : l \in world'.bag[i]
          BY <3>1, <4>1, <4>2, ThingsOf
        <4>3. CASE l \in world'.loot
          BY <2>2, <4>3, ThingsOf
        <4> QED
          BY <3>2, <4>2, <4>3, ThingsOf
      <3>3. ASSUME NEW l \in Things(world) PROVE l \in Things(world')
        <4>1. CASE l = k
          BY <3>1, <4>1, ThingsOf
        <4>2. CASE l # k
          BY <2>2, <3>1, <3>3, <4>2, ThingsOf
        <4> QED
          BY <4>1, <4>2
      <3> QED
        BY <3>2, <3>3
    <2>6. WellFormed(world')
      BY <1>1, <2>2, <2>3, <2>4 DEF WellFormed
    <2> QED
      BY <1>1, <2>2, <2>3, <2>4, <2>5, <2>6 DEF SessionStep, Succeeds
  <1>5. ASSUME NEW j \in Ids, NEW w \in World, Change(w), met' = met,
               w.players \subseteq world.players, w.loot = world.loot,
               w.bag = [world.bag EXCEPT ![j] = {}],
               world.players \ {j} \subseteq w.players,
               surprised => surprised',
               j \in world.players \ w.players => surprised' \/ ShownAsItStands(j)
        PROVE  SessionStep
    <2>1. /\ world' \in World /\ world'.version = world.version + 1
          /\ world'.players = w.players /\ world'.loot = world.loot
          /\ world'.bag = [world.bag EXCEPT ![j] = {}]
          /\ UNCHANGED <<wire, loaded, desiredState, drawn, listed, overtaken, stray>>
      BY <1>5, Changed
    <2>2. \A i \in Ids : world'.bag[i] = IF i = j THEN {} ELSE world.bag[i]
      BY <1>1, <2>1
    <2>3. Things(world') \subseteq Things(world)
      BY <2>1, <2>2, ThingsOf
    <2>4. \A i \in Ids : \A l \in world.bag[i] : l \in world'.bag[i] \/ l \notin Things(world')
      <3> SUFFICES ASSUME NEW i \in Ids, NEW l \in world.bag[i], i = j
                   PROVE  l \notin Things(world')
        BY <2>2
      <3>1. l \notin world.loot /\ \A m \in Ids \ {j} : l \notin world.bag[m]
        BY <1>1 DEF WellFormed
      <3>2. l \notin world'.loot /\ \A m \in Ids : l \notin world'.bag[m]
        BY <1>5, <2>1, <2>2, <3>1
      <3> QED
        BY <3>2, ThingsOf
    <2>5. WellFormed(world')
      BY <1>1, <1>5, <2>1, <2>2 DEF WellFormed
    <2>6. \A i \in world.players \ world'.players : i = j
      BY <1>5, <2>1
    <2> QED
      BY <1>1, <1>5, <2>1, <2>3, <2>4, <2>5, <2>6 DEF SessionStep, Succeeds
  <1>6. ASSUME NEW j \in Ids, Deliver(j) PROVE SessionStep
    <2> DEFINE w == [world EXCEPT !.bag[j] = {}]
    <2>1. /\ w \in World /\ w.players = world.players /\ w.loot = world.loot
          /\ w.bag = [world.bag EXCEPT ![j] = {}]
      BY <1>1 DEF World
    <2> QED
      BY <1>5, <1>6, <2>1 DEF Deliver
  <1>7. ASSUME NEW j \in Ids, Retire(j) PROVE SessionStep
    <2> DEFINE w == [world EXCEPT !.players = @ \ {j}, !.bag[j] = {}]
    <2>1. /\ w \in World /\ w.players = world.players \ {j} /\ w.loot = world.loot
          /\ w.bag = [world.bag EXCEPT ![j] = {}]
      BY <1>1 DEF World
    <2>2. Change(w) /\ met' = met /\ surprised' = (surprised \/ ~ShownAsItStands(j))
      BY <1>7 DEF Retire
    <2> HIDE DEF w
    <2> QED
      BY <1>5, <2>1, <2>2
  <1> QED
    BY <1>2, <1>3, <1>4, <1>6, <1>7 DEF Session

-----------------------------------------------------------------------------
(* A step of the session keeps the invariant.                              *)

\* What the page shows was there.
LEMMA DesiredSeen ==
    ASSUME WireInv, HistoryInv, LoadingInv
    PROVE  /\ started => desiredState # None
           /\ desiredState # None =>
                 /\ desiredState \in Seen /\ desiredState \in World
                 /\ WellFormed(desiredState) /\ desiredState.version <= world.version
           /\ world \in Seen /\ WellFormed(world)
           /\ \A w \in Seen : /\ w \in World /\ w.version \in Nat /\ w.version <= world.version
                              /\ w.players \in SUBSET Ids /\ w.loot \in SUBSET LootIds
                              /\ w.bag \in [Ids -> SUBSET LootIds]
           /\ States \subseteq Seen /\ Lists \subseteq Seen
  <1>1. States \subseteq Seen /\ Lists \subseteq Seen /\ world \in Seen
        /\ (desiredState # None => desiredState \in Seen)
    BY DEF Seen
  <1>2. started => desiredState # None
    BY DEF LoadingInv
  <1>3. \A w \in Seen : /\ w \in World /\ w.version \in Nat /\ w.version <= world.version
                        /\ w.players \in SUBSET Ids /\ w.loot \in SUBSET LootIds
                        /\ w.bag \in [Ids -> SUBSET LootIds]
    BY SeenIsWorld DEF HistoryInv, World
  <1> QED
    BY <1>1, <1>2, <1>3 DEF HistoryInv

LEMMA SessionKeeps ==
    ASSUME IInv, Session
    PROVE  IInv'
  <1>1. WireInv /\ HistoryInv /\ LoadingInv /\ AppliedInv /\ ListedInv /\ SceneInv
    BY DEF IInv
  <1>2. SessionStep
    BY <1>1, SessionHappens
  <1>3. HistoryInv'
    BY <1>1, <1>2, HistoryGrows
  <1>4. /\ updates' = updates /\ syncs' = syncs /\ started' = started
        /\ playersLoaded' = playersLoaded /\ desiredState' = desiredState
        /\ currentState' = currentState /\ players' = players /\ carried' = carried
        /\ unseen' = unseen /\ lostObjects' = lostObjects /\ disappearing' = disappearing
        /\ listed' = listed /\ overtaken' = overtaken /\ stray' = stray
        /\ met \subseteq met' /\ world' \in World
    BY <1>2 DEF SessionStep, Succeeds, WellFormed, wire, loaded, drawn
  <1>5. States' = States /\ Lists' = Lists
    BY <1>4 DEF States, Lists
  <1>6. WireInv'
    BY <1>1, <1>4 DEF WireInv
  <1>7. LoadingInv'
    BY <1>1, <1>4 DEF LoadingInv
  <1>8. /\ world'.version = world.version + 1
        /\ \A i \in met : i \in world'.players => i \in world.players
        /\ \A l \in met : l \in Things(world') => l \in Things(world)
    BY <1>2 DEF SessionStep, Succeeds
  <1>9. /\ \A w \in Seen : w.version \in Nat /\ w.version <= world.version
        /\ world \in Seen /\ States \subseteq Seen /\ Lists \subseteq Seen
        /\ started => desiredState \in Seen
    BY <1>1, DesiredSeen
  <1>10. AppliedInv'
    <2>1. listed <= world'.version
      BY <1>1, <1>8, <1>9 DEF AppliedInv
    <2> QED
      BY <1>1, <1>4, <2>1 DEF AppliedInv
  <1>11. ListedInv'
    <2> SUFFICES ASSUME NEW b \in Lists \cup {world'}, NEW c \in Lists \cup {world'},
                        listed <= b.version, b.version <= c.version,
                        NEW i \in players \ b.players, i \in c.players
                 PROVE  FALSE
      BY <1>4, <1>5 DEF ListedInv
    <2>1. i \in met
      BY <1>1 DEF AppliedInv
    <2>2. b # world'
      BY <1>8, <1>9
    <2>3. CASE c = world'
      <3>1. i \in world.players
        BY <1>8, <2>1, <2>3
      <3> QED
        BY <1>1, <1>9, <2>2, <3>1 DEF ListedInv
    <2>4. CASE c # world'
      BY <1>1, <2>2, <2>4 DEF ListedInv
    <2> QED
      BY <2>3, <2>4
  <1>12. SceneInv'
    <2> SUFFICES ASSUME InOrder'
                 PROVE  (/\ UnstartedInv /\ UnseenInv /\ RetiredInv /\ StaleInv /\ FallingInv
                         /\ ApartInv /\ ~stray)'
      BY DEF SceneInv
    <2>1. InOrder /\ ~surprised'
      BY <1>2, <1>4 DEF InOrder, SessionStep
    <2>2. UnstartedInv /\ UnseenInv /\ RetiredInv /\ StaleInv /\ FallingInv /\ ApartInv /\ ~stray
      BY <1>1, <2>1 DEF SceneInv
    <2>3. \A i \in world.players \ world'.players : ShownAsItStands(i)
      BY <1>2, <2>1 DEF SessionStep
    <2>4. UnstartedInv'
      BY <1>4, <1>5, <2>2, <2>3 DEF UnstartedInv, ShownAsItStands
    <2>5. UnseenInv'
      BY <1>1, <1>4, <1>5, <1>8, <2>2 DEF UnseenInv, AppliedInv
    <2>6. RetiredInv'
      <3> SUFFICES ASSUME started, NEW i \in Ids \ world'.players
                   PROVE  /\ i \in currentState => i \in players \/ unseen[i] = carried[i]
                          /\ \A c \in States : (desiredState.version <= c.version /\ i \in c.players) =>
                                i \in currentState /\ c.bag[i] = carried[i]
        BY <1>4, <1>5 DEF RetiredInv
      <3>1. CASE i \notin world.players
        BY <2>2, <3>1 DEF RetiredInv
      <3>2. CASE i \in world.players
        BY <2>3, <3>2 DEF ShownAsItStands, States, ShownBy
      <3> QED
        BY <3>1, <3>2
    <2>7. StaleInv'
      <3> SUFFICES ASSUME started, NEW i \in Ids \ currentState, carried[i] # {}
                   PROVE  /\ i \in players
                          /\ \A c \in States \cup {world', desiredState} :
                                desiredState.version <= c.version =>
                                   i \notin c.players /\ carried[i] \cap Things(c) = {}
        BY <1>4, <1>5 DEF StaleInv
      <3>1. /\ i \in players
            /\ \A c \in States \cup {world, desiredState} : desiredState.version <= c.version =>
                  i \notin c.players /\ carried[i] \cap Things(c) = {}
        BY <2>2 DEF StaleInv
      <3>2. desiredState.version <= world.version
        BY <1>9
      <3>3. i \in met /\ carried[i] \subseteq met
        BY <1>1, <3>1 DEF AppliedInv
      <3>4. i \notin world'.players /\ carried[i] \cap Things(world') = {}
        BY <1>8, <3>1, <3>2, <3>3
      <3> QED
        BY <3>1, <3>4
    <2>8. FallingInv'
      <3> SUFFICES ASSUME started, NEW c \in States \cup {world', desiredState},
                          desiredState.version <= c.version
                   PROVE  disappearing \cap Things(c) = {}
        BY <1>4, <1>5 DEF FallingInv
      <3>1. disappearing \cap Things(world) = {}
        BY <1>9, <2>2 DEF FallingInv
      <3>2. disappearing \subseteq met
        BY <1>1 DEF AppliedInv
      <3> QED
        BY <1>8, <2>2, <3>1, <3>2 DEF FallingInv
    <2>9. ApartInv'
      BY <1>4, <2>2 DEF ApartInv
    <2> QED
      BY <1>4, <2>2, <2>4, <2>5, <2>6, <2>7, <2>8, <2>9
  <1> QED
    BY <1>3, <1>6, <1>7, <1>10, <1>11, <1>12 DEF IInv

-----------------------------------------------------------------------------
(* Requests that are sent, answered, lost or refused, and frames.          *)

\* The page stays as it is; answers get lost or tell of the session as it is.
Quiet ==
    /\ UNCHANGED <<server, loaded, desiredState, ghosts>>
    /\ UNCHANGED <<currentState, players, carried, unseen, lostObjects>>
    /\ disappearing' \subseteq disappearing
    /\ updates' \in [Updates -> RequestSet] /\ syncs' \in [Syncs -> RequestSet]
    /\ States' \subseteq States \cup {world} /\ Lists' \subseteq Lists \cup {world}

LEMMA QuietKeeps ==
    ASSUME IInv, Quiet
    PROVE  IInv'
  <1>1. WireInv /\ HistoryInv /\ LoadingInv /\ AppliedInv /\ ListedInv /\ SceneInv
    BY DEF IInv
  <1>2. /\ world' = world /\ met' = met /\ started' = started
        /\ playersLoaded' = playersLoaded /\ desiredState' = desiredState
        /\ currentState' = currentState /\ players' = players /\ carried' = carried
        /\ unseen' = unseen /\ lostObjects' = lostObjects /\ listed' = listed
        /\ overtaken' = overtaken /\ surprised' = surprised /\ stray' = stray
        /\ disappearing' \subseteq disappearing
        /\ updates' \in [Updates -> RequestSet] /\ syncs' \in [Syncs -> RequestSet]
        /\ States' \subseteq States \cup {world} /\ Lists' \subseteq Lists \cup {world}
    BY DEF Quiet, server, loaded, ghosts
  <1>3. WireInv'
    BY <1>1, <1>2 DEF WireInv
  <1>4. HistoryInv'
    <2>1. Seen' \subseteq Seen
      BY <1>2 DEF Seen
    <2> QED
      BY <1>1, <1>2, <2>1, HistoryKept
  <1>5. LoadingInv'
    BY <1>1, <1>2 DEF LoadingInv
  <1>6. AppliedInv'
    BY <1>1, <1>2 DEF AppliedInv
  <1>7. ListedInv'
    BY <1>1, <1>2 DEF ListedInv
  <1>8. SceneInv'
    <2>1. SUFFICES ASSUME InOrder'
                   PROVE  (/\ UnstartedInv /\ UnseenInv /\ RetiredInv /\ StaleInv /\ FallingInv
                           /\ ApartInv /\ ~stray)'
      BY DEF SceneInv
    <2>2. UnstartedInv /\ UnseenInv /\ RetiredInv /\ StaleInv /\ FallingInv /\ ApartInv /\ ~stray
      BY <1>1, <1>2, <2>1 DEF SceneInv, InOrder
    <2>3. UnstartedInv'
      BY <1>2, <2>2 DEF UnstartedInv
    <2>4. UnseenInv'
      BY <1>2, <2>2 DEF UnseenInv
    <2>5. RetiredInv'
      BY <1>2, <2>2 DEF RetiredInv
    <2>6. StaleInv'
      BY <1>2, <2>2 DEF StaleInv
    <2>7. FallingInv'
      <3> SUFFICES ASSUME started, NEW c \in States \cup {world, desiredState},
                          desiredState.version <= c.version
                   PROVE  disappearing' \cap Things(c) = {}
        BY <1>2 DEF FallingInv
      <3>1. disappearing \cap Things(c) = {}
        BY <2>2 DEF FallingInv
      <3> QED
        BY <1>2, <3>1
    <2>8. ApartInv'
      <3>1. ASSUME NEW i \in Ids \ currentState PROVE carried[i] \cap disappearing' = {}
        BY <1>2, <2>2 DEF ApartInv
      <3> QED
        BY <1>2, <2>2, <3>1 DEF ApartInv
    <2> QED
      BY <1>2, <2>2, <2>3, <2>4, <2>5, <2>6, <2>7, <2>8
  <1> QED
    BY <1>3, <1>4, <1>5, <1>6, <1>7, <1>8 DEF IInv

\* What an answer can be.
LEMMA ReplyTyped ==
    ASSUME WireInv
    PROVE  Reply \in RequestSet /\ (Reply.stage = "answered" => Reply.shows = world)
  BY RequestsTyped DEF WireInv, Reply, RequestSet, Request, Refused

LEMMA AnswerStateQuiet ==
    ASSUME IInv, NEW s \in Updates, AnswerState(s)
    PROVE  Quiet
  <1>1. WireInv
    BY DEF IInv
  <1>2. /\ [updates EXCEPT ![s] = Reply] \in [Updates -> RequestSet]
        /\ ShownBy([updates EXCEPT ![s] = Reply], Updates) \subseteq States \cup {world}
    BY <1>1, ReplyTyped, ShownLess DEF WireInv, States
  <1>3. updates' = [updates EXCEPT ![s] = Reply] /\ syncs' = syncs
    BY DEF AnswerState
  <1>4. syncs' \in [Syncs -> RequestSet] /\ Lists' = Lists
    BY <1>1, <1>3 DEF WireInv, Lists
  <1>5. States' \subseteq States \cup {world}
    BY <1>2, <1>3 DEF States
  <1> QED
    BY <1>2, <1>3, <1>4, <1>5 DEF Quiet, AnswerState, drawn

LEMMA AnswerListQuiet ==
    ASSUME IInv, NEW s \in Syncs, AnswerList(s)
    PROVE  Quiet
  <1>1. WireInv
    BY DEF IInv
  <1>2. /\ [syncs EXCEPT ![s] = Reply] \in [Syncs -> RequestSet]
        /\ ShownBy([syncs EXCEPT ![s] = Reply], Syncs) \subseteq Lists \cup {world}
    BY <1>1, ReplyTyped, ShownLess DEF WireInv, Lists
  <1>3. syncs' = [syncs EXCEPT ![s] = Reply] /\ updates' = updates
    BY DEF AnswerList
  <1>4. updates' \in [Updates -> RequestSet] /\ States' = States
    BY <1>1, <1>3 DEF WireInv, States
  <1>5. Lists' \subseteq Lists \cup {world}
    BY <1>2, <1>3 DEF Lists
  <1> QED
    BY <1>2, <1>3, <1>4, <1>5 DEF Quiet, AnswerList, drawn

\* A request that is over is no answer.
LEMMA FreedUpdate ==
    ASSUME WireInv, NEW s \in Updates, updates' = [updates EXCEPT ![s] = Free]
    PROVE  updates' \in [Updates -> RequestSet] /\ States' \subseteq States
  <1>1. /\ [updates EXCEPT ![s] = Free] \in [Updates -> RequestSet]
        /\ ShownBy([updates EXCEPT ![s] = Free], Updates) \subseteq States
    BY RequestsTyped, ShownLess DEF WireInv, States
  <1> QED
    BY <1>1 DEF States

LEMMA FreedSync ==
    ASSUME WireInv, NEW s \in Syncs, syncs' = [syncs EXCEPT ![s] = Free]
    PROVE  syncs' \in [Syncs -> RequestSet] /\ Lists' \subseteq Lists
  <1>1. /\ [syncs EXCEPT ![s] = Free] \in [Syncs -> RequestSet]
        /\ ShownBy([syncs EXCEPT ![s] = Free], Syncs) \subseteq Lists
    BY RequestsTyped, ShownLess DEF WireInv, Lists
  <1> QED
    BY <1>1 DEF Lists

LEMMA SameWire ==
    ASSUME WireInv
    PROVE  /\ updates' = updates => updates' \in [Updates -> RequestSet] /\ States' = States
           /\ syncs' = syncs => syncs' \in [Syncs -> RequestSet] /\ Lists' = Lists
  BY DEF WireInv, States, Lists

LEMMA FailQuiet ==
    ASSUME IInv, Fail
    PROVE  Quiet
  <1>1. WireInv
    BY DEF IInv
  <1>2. /\ updates' \in [Updates -> RequestSet] /\ States' \subseteq States
        /\ syncs' \in [Syncs -> RequestSet] /\ Lists' \subseteq Lists
    <2>1. CASE \E s \in Updates : updates' = [updates EXCEPT ![s] = Free] /\ syncs' = syncs
      BY <1>1, <2>1, FreedUpdate, SameWire
    <2>2. CASE \E s \in Syncs : syncs' = [syncs EXCEPT ![s] = Free] /\ updates' = updates
      BY <1>1, <2>2, FreedSync, SameWire
    <2> QED
      BY <2>1, <2>2 DEF Fail
  <1> QED
    BY <1>2 DEF Fail, Quiet, drawn

LEMMA RefusedQuiet ==
    ASSUME IInv, (\E s \in Updates : UpdateRefused(s)) \/ (\E s \in Syncs : SyncRefused(s))
    PROVE  Quiet
  <1>1. WireInv
    BY DEF IInv
  <1>2. CASE \E s \in Updates : UpdateRefused(s)
    <2>1. PICK s \in Updates : UpdateRefused(s)
      BY <1>2
    <2>2. updates' = [updates EXCEPT ![s] = Free] /\ syncs' = syncs
      BY <2>1 DEF UpdateRefused
    <2>3. /\ updates' \in [Updates -> RequestSet] /\ States' \subseteq States
          /\ syncs' \in [Syncs -> RequestSet] /\ Lists' = Lists
      BY <1>1, <2>2, FreedUpdate, SameWire
    <2> QED
      BY <2>1, <2>3 DEF UpdateRefused, Quiet, drawn
  <1>3. CASE \E s \in Syncs : SyncRefused(s)
    <2>1. PICK s \in Syncs : SyncRefused(s)
      BY <1>3
    <2>2. syncs' = [syncs EXCEPT ![s] = Free] /\ updates' = updates
      BY <2>1 DEF SyncRefused
    <2>3. /\ updates' \in [Updates -> RequestSet] /\ States' = States
          /\ syncs' \in [Syncs -> RequestSet] /\ Lists' \subseteq Lists
      BY <1>1, <2>2, FreedSync, SameWire
    <2> QED
      BY <2>1, <2>3 DEF SyncRefused, Quiet, drawn
  <1> QED
    BY <1>2, <1>3

LEMMA FrameQuiet ==
    ASSUME IInv, NEW instant \in BOOLEAN, Frame(instant)
    PROVE  Quiet
  <1>1. WireInv
    BY DEF IInv
  <1>2. /\ updates' = updates \/ updates' = Ask(updates, Updates)
        /\ syncs' = syncs \/ syncs' = Ask(syncs, Syncs)
        /\ disappearing' \subseteq disappearing
    BY DEF Frame, ProcessDisappearingLoot, wire
  <1>3. updates' \in [Updates -> RequestSet] /\ States' \subseteq States
    <2>1. CASE updates' = updates
      BY <1>1, <2>1, SameWire
    <2>2. CASE updates' = Ask(updates, Updates)
      <3>1. /\ Ask(updates, Updates) \in [Updates -> RequestSet]
            /\ ShownBy(Ask(updates, Updates), Updates) \subseteq States
        BY <1>1, AskTyped DEF WireInv, States
      <3> QED
        BY <2>2, <3>1 DEF States
    <2> QED
      BY <1>2, <2>1, <2>2
  <1>4. syncs' \in [Syncs -> RequestSet] /\ Lists' \subseteq Lists
    <2>1. CASE syncs' = syncs
      BY <1>1, <2>1, SameWire
    <2>2. CASE syncs' = Ask(syncs, Syncs)
      <3>1. /\ Ask(syncs, Syncs) \in [Syncs -> RequestSet]
            /\ ShownBy(Ask(syncs, Syncs), Syncs) \subseteq Lists
        BY <1>1, AskTyped DEF WireInv, Lists
      <3> QED
        BY <2>2, <3>1 DEF Lists
    <2> QED
      BY <1>2, <2>1, <2>2
  <1> QED
    BY <1>2, <1>3, <1>4 DEF Frame, Quiet

-----------------------------------------------------------------------------
(* One place for a piece.                                                  *)

\* Between two steps a piece is on the map, in one bag or falling: bags that a state told
\* of are apart as the session is, the others are told of no more.
LEMMA Once ==
    ASSUME IInv, InOrder
    PROVE  /\ lostObjects \cap disappearing = {}
           /\ \A i \in Ids : /\ carried[i] \cap lostObjects = {}
                             /\ carried[i] \cap disappearing = {}
                             /\ \A j \in Ids \ {i} : carried[i] \cap carried[j] = {}
  <1>1. /\ WireInv /\ HistoryInv /\ LoadingInv /\ AppliedInv
        /\ RetiredInv /\ StaleInv /\ FallingInv /\ ApartInv
    BY DEF IInv, SceneInv
  <1>2. CASE ~started
    BY <1>1, <1>2 DEF LoadingInv
  <1>3. CASE started
    <2> DEFINE D == desiredState
    <2>1. /\ WellFormed(D) /\ D.version \in Nat
          /\ currentState = D.players /\ lostObjects = D.loot
          /\ \A i \in currentState : carried[i] = D.bag[i]
      BY <1>1, <1>3, DesiredSeen DEF AppliedInv
    <2>2. disappearing \cap Things(D) = {}
      BY <1>1, <1>3, <2>1 DEF FallingInv
    <2>3. \A i \in Ids \ currentState : carried[i] \cap Things(D) = {}
      BY <1>1, <1>3, <2>1 DEF StaleInv
    <2>4. lostObjects \subseteq Things(D)
      BY <2>1, ThingsOf
    <2>5. \A i \in Ids : i \in currentState => carried[i] \subseteq Things(D)
      BY <2>1, ThingsOf
    <2>6. ASSUME NEW i \in Ids
          PROVE  /\ carried[i] \cap lostObjects = {}
                 /\ carried[i] \cap disappearing = {}
                 /\ \A j \in Ids \ {i} : carried[i] \cap carried[j] = {}
      <3>1. CASE i \in currentState
        <4>1. /\ D.bag[i] \cap D.loot = {}
              /\ \A j \in Ids \ {i} : D.bag[i] \cap D.bag[j] = {}
          BY <2>1 DEF WellFormed
        <4>2. \A j \in Ids \ {i} : carried[i] \cap carried[j] = {}
          BY <2>1, <2>3, <2>5, <3>1, <4>1
        <4> QED
          BY <2>1, <2>2, <2>5, <3>1, <4>1, <4>2
      <3>2. CASE i \notin currentState
        <4>1. \A j \in Ids \ {i} : carried[i] \cap carried[j] = {}
          <5> TAKE j \in Ids \ {i}
          <5>1. CASE j \in currentState
            BY <2>3, <2>5, <3>2, <5>1
          <5>2. CASE j \notin currentState
            BY <1>1, <3>2, <5>2 DEF ApartInv
          <5> QED
            BY <5>1, <5>2
        <4> QED
          BY <1>1, <2>3, <2>4, <3>2, <4>1 DEF ApartInv
      <3> QED
        BY <3>1, <3>2
    <2> QED
      BY <2>2, <2>4, <2>6
  <1> QED
    BY <1>2, <1>3

-----------------------------------------------------------------------------
(* The first state is drawn: _startGame.                                   *)

LEMMA DrawnFirst ==
    ASSUME WireInv, HistoryInv, LoadingInv, ~started, NEW x \in Seen, Apply(x)
    PROVE  /\ currentState' = x.players /\ lostObjects' = x.loot /\ carried' = x.bag
           /\ unseen' = [i \in Ids |-> {}] /\ disappearing' = {} /\ (~stray => ~stray')
  <1>1. /\ currentState = {} /\ lostObjects = {} /\ disappearing = {}
        /\ \A i \in Ids : carried[i] = {} /\ unseen[i] = {}
    BY DEF LoadingInv
  <1>2. WellFormed(x) /\ x.players \in SUBSET Ids /\ x.bag \in [Ids -> SUBSET LootIds]
    BY DesiredSeen DEF HistoryInv
  <1>3. \A i : Bag(i) = {}
    BY <1>1 DEF Bag
  <1>4. Dropped(x) = {}
    BY <1>1, <1>3 DEF Dropped, Removed, Abandoned
  <1>5. ~Forgotten(x)
    BY <1>1, <1>2, <1>3 DEF Forgotten, Removed
  <1>6. \A i \in Ids : i \notin x.players => x.bag[i] = {}
    BY <1>2 DEF WellFormed
  <1>7. carried' = [i \in Ids |-> x.bag[i]]
    BY <1>1, <1>6 DEF Apply, BagAfter
  <1>8. unseen' = [i \in Ids |-> {}]
    BY <1>1, <1>3 DEF Apply
  <1>9. disappearing' = {}
    BY <1>1, <1>4 DEF Apply
  <1>10. carried' = x.bag
    BY <1>2, <1>7
  <1>11. currentState' = x.players /\ lostObjects' = x.loot /\ stray' = (stray \/ Forgotten(x))
    BY DEF Apply
  <1>12. ~stray => ~stray'
    BY <1>5, <1>11
  <1> QED
    BY <1>8, <1>9, <1>10, <1>11, <1>12

\* The second of the first two answers starts the game with the state that came last.
GameStarts(x) ==
    /\ ~started /\ started' = TRUE /\ playersLoaded' = TRUE
    /\ x \in States \cup (IF desiredState = None THEN {} ELSE {desiredState})
    /\ desiredState' = x /\ Apply(x)
    /\ UNCHANGED <<server, surprised>> /\ (overtaken => overtaken')
    /\ updates' \in [Updates -> RequestSet] /\ syncs' \in [Syncs -> RequestSet]
    /\ States' \subseteq States /\ Lists' \subseteq Lists
    /\ \/ players' = players /\ listed' = listed
       \/ \E y \in Lists : players' = y.players /\ listed' = y.version

LEMMA StartKeeps ==
    ASSUME IInv, NEW x, GameStarts(x)
    PROVE  IInv'
  <1>1. WireInv /\ HistoryInv /\ LoadingInv /\ AppliedInv /\ ListedInv /\ SceneInv
    BY DEF IInv
  <1>2. /\ ~started /\ started' = TRUE /\ playersLoaded' = TRUE /\ desiredState' = x
        /\ world' = world /\ met' = met /\ surprised' = surprised /\ (overtaken => overtaken')
        /\ updates' \in [Updates -> RequestSet] /\ syncs' \in [Syncs -> RequestSet]
        /\ States' \subseteq States /\ Lists' \subseteq Lists
        /\ x \in States \cup (IF desiredState = None THEN {} ELSE {desiredState})
    BY DEF GameStarts, server
  <1>3. /\ x \in Seen /\ x \in World /\ x # None /\ WellFormed(x)
        /\ x.players \in SUBSET Ids /\ x.loot \in SUBSET LootIds
        /\ x.bag \in [Ids -> SUBSET LootIds]
        /\ x.players \subseteq met /\ Things(x) \subseteq met
        /\ \A w \in Seen : w.version \in Nat /\ w.version <= world.version
        /\ Lists \subseteq Seen /\ States \subseteq Seen /\ world \in Seen
    BY <1>1, <1>2, DesiredSeen, NoneAssumption DEF HistoryInv
  <1>4. /\ currentState' = x.players /\ lostObjects' = x.loot /\ carried' = x.bag
        /\ unseen' = [i \in Ids |-> {}] /\ disappearing' = {} /\ (~stray => ~stray')
    BY <1>1, <1>2, <1>3, DrawnFirst DEF GameStarts
  <1>5. \/ players' = players /\ listed' = listed
        \/ \E y \in Lists : players' = y.players /\ listed' = y.version
    BY DEF GameStarts
  <1>6. WireInv'
    BY <1>1, <1>2, <1>3 DEF WireInv
  <1>7. HistoryInv'
    <2>1. Seen' \subseteq Seen
      BY <1>2, <1>3 DEF Seen
    <2> QED
      BY <1>1, <1>2, <2>1, HistoryKept
  <1>8. LoadingInv'
    BY <1>2, <1>3 DEF LoadingInv
  <1>9. AppliedInv'
    <2>1. /\ players' \in SUBSET Ids /\ players' \subseteq met
          /\ listed' \in Nat /\ listed' <= world.version
      <3>1. CASE players' = players /\ listed' = listed
        BY <1>1, <3>1 DEF AppliedInv
      <3>2. ASSUME NEW y \in Lists, players' = y.players, listed' = y.version
            PROVE  /\ players' \in SUBSET Ids /\ players' \subseteq met
                   /\ listed' \in Nat /\ listed' <= world.version
        BY <1>1, <1>3, <3>2, DesiredSeen DEF HistoryInv
      <3> QED
        BY <1>5, <3>1, <3>2
    <2>2. \A i \in Ids : x.bag[i] \subseteq met
      BY <1>3, ThingsOf
    <2> QED
      BY <1>2, <1>3, <1>4, <2>1, <2>2 DEF AppliedInv
  <1>10. ListedInv'
    <2>1. CASE players' = players /\ listed' = listed
      BY <1>1, <1>2, <2>1 DEF ListedInv
    <2>2. ASSUME NEW y \in Lists, players' = y.players, listed' = y.version
          PROVE  ListedInv'
      BY <1>1, <1>2, <1>3, <2>2 DEF ListedInv, HistoryInv, ForGood
    <2> QED
      BY <1>5, <2>1, <2>2
  <1>11. SceneInv'
    <2>1. SUFFICES ASSUME InOrder'
                   PROVE  (/\ UnstartedInv /\ UnseenInv /\ RetiredInv /\ StaleInv /\ FallingInv
                           /\ ApartInv /\ ~stray)'
      BY DEF SceneInv
    <2>2. UnstartedInv /\ ~stray
      BY <1>1, <1>2, <2>1 DEF SceneInv, InOrder
    <2>3. \A c \in States \cup {x} : c.players \subseteq world.players
      BY <1>2, <2>2 DEF UnstartedInv
    <2>4. UnstartedInv' /\ UnseenInv'
      BY <1>2, <1>4 DEF UnstartedInv, UnseenInv
    <2>5. RetiredInv'
      BY <1>2, <1>4, <2>3 DEF RetiredInv
    <2>6. \A i \in Ids \ currentState' : carried'[i] = {}
      BY <1>3, <1>4 DEF WellFormed
    <2>7. StaleInv' /\ ApartInv'
      BY <2>6 DEF StaleInv, ApartInv
    <2>8. FallingInv'
      BY <1>4 DEF FallingInv
    <2> QED
      BY <1>4, <2>2, <2>4, <2>5, <2>7, <2>8
  <1> QED
    BY <1>6, <1>7, <1>8, <1>9, <1>10, <1>11 DEF IInv

-----------------------------------------------------------------------------
(* A later state is drawn: _applyDesiredState.                             *)

LEMMA DroppedFrom ==
    ASSUME NEW x, NEW l \in Dropped(x)
    PROVE  (\E i \in x.players : l \in Removed(x, i)) \/ l \in Abandoned(x) \ Attached(x)
  <1>1. CASE l \in UNION {Removed(x, i) : i \in x.players}
    BY <1>1
  <1>2. CASE l \in Abandoned(x) \ Attached(x)
    BY <1>2
  <1> QED
    BY <1>1, <1>2 DEF Dropped

\* What falls when x is drawn after D was in the scene and is not in the session x tells of.
LEMMA DroppedIsGone ==
    ASSUME WireInv, HistoryInv, LoadingInv, AppliedInv, started,
           NEW x \in Seen, desiredState.version <= x.version
    PROVE  Dropped(x) \subseteq Things(desiredState) \ Things(x)
  <1> DEFINE D == desiredState
  <1>1. /\ D \in Seen /\ WellFormed(D) /\ WellFormed(x) /\ Kept(D, x)
        /\ currentState = D.players /\ lostObjects = D.loot
        /\ \A i \in currentState : carried[i] = D.bag[i]
        /\ x.players \in SUBSET Ids /\ D.players \in SUBSET Ids
    BY DesiredSeen DEF HistoryInv, AppliedInv
  <1> HIDE DEF D
  <1>2. ASSUME NEW i \in Ids, NEW l, l \in Bag(i)
        PROVE  l \in D.bag[i] /\ l \in Things(D)
    BY <1>1, <1>2, ThingsOf DEF Bag
  <1>3. ASSUME NEW i \in x.players, NEW l \in Removed(x, i)
        PROVE  l \in Things(D) /\ l \notin Things(x)
    <2>1. i \in Ids /\ l \in Bag(i) /\ l \notin x.bag[i]
      BY <1>1, <1>3 DEF Removed
    <2>2. l \in D.bag[i] /\ l \in Things(D)
      BY <1>2, <2>1
    <2> QED
      BY <1>1, <2>1, <2>2 DEF Kept, D
  <1>4. ASSUME NEW l \in Abandoned(x) \ Attached(x)
        PROVE  l \in Things(D) /\ l \notin Things(x)
    <2>1. l \in D.loot /\ l \notin x.loot
      BY <1>1 DEF Abandoned
    <2>2. ASSUME NEW i \in Ids, l \in x.bag[i] PROVE FALSE
      <3>1. i \in x.players
        BY <1>1, <2>2 DEF WellFormed
      <3>2. l \in Bag(i)
        BY <1>4, <2>2, <3>1 DEF Attached
      <3> QED
        BY <1>1, <1>2, <2>1, <3>2 DEF WellFormed
    <2> QED
      BY <2>1, <2>2, ThingsOf
  <1>5. ASSUME NEW l \in Dropped(x) PROVE l \in Things(D) /\ l \notin Things(x)
    BY <1>3, <1>4, <1>5, DroppedFrom
  <1> QED
    BY <1>5 DEF D

\* Nothing is left behind when states are drawn in order.
LEMMA NothingForgotten ==
    ASSUME IInv, InOrder, started, NEW x \in States, desiredState.version <= x.version
    PROVE  ~Forgotten(x)
  <1> DEFINE D == desiredState
  <1>1. /\ WireInv /\ HistoryInv /\ LoadingInv /\ AppliedInv
        /\ RetiredInv /\ StaleInv /\ FallingInv
    BY DEF IInv, SceneInv
  <1>2. /\ D \in Seen /\ x \in Seen /\ world \in Seen /\ WellFormed(D)
        /\ D.version \in Nat /\ x.version \in Nat /\ x.version <= world.version
        /\ ForGood(D, x, world)
        /\ currentState = D.players /\ lostObjects = D.loot
        /\ \A i \in currentState : carried[i] = D.bag[i]
        /\ x.players \in SUBSET Ids /\ D.players \in SUBSET Ids
    BY <1>1, DesiredSeen DEF HistoryInv, AppliedInv
  <1>3. ASSUME NEW i \in currentState \ (x.players \cup players) PROVE carried[i] \ unseen[i] = {}
    <2>1. i \in Ids \ world.players
      BY <1>2 DEF ForGood
    <2> QED
      BY <1>1, <2>1 DEF RetiredInv
  <1>4. ASSUME NEW i \in x.players \ currentState PROVE carried[i] = {}
    BY <1>1, <1>2 DEF StaleInv
  <1>5. disappearing \cap Dropped(x) = {}
    <2>1. disappearing \cap Things(D) = {}
      BY <1>1, <1>2 DEF FallingInv
    <2> QED
      BY <1>1, <1>2, <2>1, DroppedIsGone
  <1>6. \A i \in x.players : Bag(i) \cap lostObjects = {}
    BY <1>2 DEF Bag, WellFormed
  <1>7. \A i, j \in x.players : i # j => Bag(i) \cap Bag(j) = {}
    BY <1>2 DEF Bag, WellFormed
  <1> QED
    BY <1>3, <1>4, <1>5, <1>6, <1>7 DEF Forgotten, Removed, Abandoned

\* A later state is drawn over the one before.
Redrawn(x) ==
    /\ started /\ started' = started /\ playersLoaded' = playersLoaded
    /\ x \in States /\ desiredState' = x /\ Apply(x)
    /\ UNCHANGED <<server, surprised, players, listed, syncs>>
    /\ (overtaken => overtaken') /\ (overtaken' \/ desiredState.version <= x.version)
    /\ updates' \in [Updates -> RequestSet] /\ States' \subseteq States

LEMMA RedrawnKeepsScene ==
    ASSUME IInv, NEW x, Redrawn(x), InOrder'
    PROVE  (/\ UnstartedInv /\ UnseenInv /\ RetiredInv /\ StaleInv /\ FallingInv
            /\ ApartInv /\ ~stray)'
  <1> DEFINE D == desiredState
  <1>1. /\ WireInv /\ HistoryInv /\ LoadingInv /\ AppliedInv /\ ListedInv /\ SceneInv
    BY DEF IInv
  <1>2. /\ started /\ started' = started /\ desiredState' = x /\ x \in States
        /\ world' = world /\ met' = met /\ surprised' = surprised
        /\ players' = players /\ listed' = listed /\ Lists' = Lists
        /\ States' \subseteq States
    BY DEF Redrawn, server, Lists
  <1>3. InOrder /\ D.version <= x.version
    BY DEF InOrder, Redrawn
  <1>4. UnseenInv /\ RetiredInv /\ StaleInv /\ FallingInv /\ ApartInv /\ ~stray
    BY <1>1, <1>3 DEF SceneInv
  <1>5. /\ D \in Seen /\ x \in Seen /\ world \in Seen /\ States \subseteq Seen
        /\ WellFormed(D) /\ WellFormed(x)
        /\ \A w \in Seen : w.version \in Nat /\ w.version <= world.version
        /\ currentState = D.players /\ lostObjects = D.loot
        /\ \A i \in currentState : carried[i] = D.bag[i]
        /\ x.players \in SUBSET Ids /\ D.players \in SUBSET Ids
        /\ Kept(D, x) /\ \A c \in Seen : ForGood(D, x, c)
    BY <1>1, <1>2, DesiredSeen DEF HistoryInv, AppliedInv
  <1> HIDE DEF D
  <1>6. /\ currentState' = x.players /\ lostObjects' = x.loot
        /\ \A i \in Ids : i \in x.players => carried'[i] = x.bag[i]
        /\ \A i \in Ids : i \notin x.players =>
              /\ carried'[i] = IF i \in players THEN carried[i] ELSE {}
              /\ unseen'[i] = IF i \in players THEN unseen[i] ELSE {}
        /\ \A i \in Ids : i \in x.players => unseen'[i] = Bag(i) \cap unseen[i] \cap x.bag[i]
        /\ disappearing' \subseteq disappearing \cup Dropped(x)
        /\ stray' = (stray \/ Forgotten(x))
    BY DEF Redrawn, Apply, BagAfter
  <1>7. Dropped(x) \subseteq Things(D) \ Things(x)
    BY <1>1, <1>2, <1>3, <1>5, DroppedIsGone DEF D
  <1>8. \A c \in States' \cup {world', desiredState'} : x.version <= c.version =>
           c \in States \cup {world} /\ c \in Seen /\ D.version <= c.version
    BY <1>2, <1>3, <1>5
  <1>9. UnseenInv'
    BY <1>2, <1>4, <1>6 DEF UnseenInv
  <1>10. RetiredInv'
    <2> SUFFICES ASSUME NEW i \in Ids \ world.players
                 PROVE  /\ i \in x.players => i \in players \/ unseen'[i] = carried'[i]
                        /\ \A c \in States' : (x.version <= c.version /\ i \in c.players) =>
                              i \in x.players /\ c.bag[i] = carried'[i]
      BY <1>2, <1>6 DEF RetiredInv
    <2>1. /\ i \in currentState => i \in players \/ unseen[i] = carried[i]
          /\ \A c \in States : (D.version <= c.version /\ i \in c.players) =>
                i \in currentState /\ c.bag[i] = carried[i]
      BY <1>2, <1>4 DEF RetiredInv, D
    <2>2. i \in x.players => i \in currentState /\ carried'[i] = carried[i] /\ x.bag[i] = carried[i]
      BY <1>2, <1>3, <1>6, <2>1
    <2>3. ASSUME i \in x.players, i \notin players PROVE unseen'[i] = carried'[i]
      BY <1>6, <2>1, <2>2, <2>3 DEF Bag
    <2>4. ASSUME NEW c \in States', x.version <= c.version, i \in c.players
          PROVE  i \in x.players /\ c.bag[i] = carried'[i]
      <3>1. c \in States /\ c \in Seen /\ D.version <= c.version
        BY <1>2, <1>5, <1>8, <2>4
      <3>2. i \in currentState /\ c.bag[i] = carried[i]
        BY <2>1, <2>4, <3>1
      <3>3. i \in x.players
        BY <1>3, <1>5, <2>4, <3>1, <3>2 DEF ForGood
      <3> QED
        BY <2>2, <3>2, <3>3
    <2> QED
      BY <2>3, <2>4
  <1>11. StaleInv'
    <2> SUFFICES ASSUME NEW i \in Ids \ x.players, carried'[i] # {}
                 PROVE  /\ i \in players
                        /\ \A c \in States' \cup {world', desiredState'} : x.version <= c.version =>
                              i \notin c.players /\ carried'[i] \cap Things(c) = {}
      BY <1>2, <1>6 DEF StaleInv
    <2>1. i \in players /\ carried'[i] = carried[i]
      BY <1>6
    <2>2. ASSUME NEW c \in States' \cup {world', desiredState'}, x.version <= c.version
          PROVE  i \notin c.players /\ carried[i] \cap Things(c) = {}
      <3>1. c \in States \cup {world} /\ c \in Seen /\ D.version <= c.version
        BY <1>8, <2>2
      <3>2. CASE i \notin currentState
        BY <1>2, <1>4, <2>1, <3>1, <3>2 DEF StaleInv, D
      <3>3. CASE i \in currentState
        <4>1. i \notin c.players
          BY <1>3, <1>5, <2>2, <3>1, <3>3 DEF ForGood
        <4>2. ASSUME NEW l \in carried[i] PROVE l \notin Things(c)
          <5>1. l \in D.bag[i] /\ x.bag[i] = {}
            BY <1>5, <3>3 DEF WellFormed
          <5>2. l \in Things(D) /\ l \notin Things(x)
            BY <1>3, <1>5, <5>1, ThingsOf DEF Kept
          <5> QED
            BY <1>3, <1>5, <2>2, <3>1, <5>2 DEF ForGood
        <4> QED
          BY <4>1, <4>2
      <3> QED
        BY <3>2, <3>3
    <2> QED
      BY <2>1, <2>2
  <1>12. FallingInv'
    <2> SUFFICES ASSUME NEW c \in States' \cup {world', desiredState'}, x.version <= c.version
                 PROVE  disappearing' \cap Things(c) = {}
      BY <1>2 DEF FallingInv
    <2>1. c \in States \cup {world} /\ c \in Seen /\ D.version <= c.version
      BY <1>8
    <2>2. disappearing \cap Things(c) = {}
      BY <1>2, <1>4, <2>1 DEF FallingInv, D
    <2>3. Dropped(x) \cap Things(c) = {}
      BY <1>3, <1>5, <1>7, <2>1 DEF ForGood
    <2> QED
      BY <1>6, <2>2, <2>3
  <1>13. ApartInv'
    <2>1. /\ \A i \in Ids : /\ carried[i] \cap disappearing = {}
                            /\ carried[i] \cap lostObjects = {}
                            /\ \A j \in Ids \ {i} : carried[i] \cap carried[j] = {}
      BY <1>3, Once
    <2>2. \A i \in Ids \ x.players : carried'[i] \subseteq carried[i]
      BY <1>6
    <2>3. ASSUME NEW i \in Ids \ x.players PROVE carried[i] \cap Dropped(x) = {}
      <3>1. \A j \in x.players : carried[i] \cap Removed(x, j) = {}
        BY <1>5, <2>1 DEF Removed, Bag
      <3>2. carried[i] \cap Abandoned(x) = {}
        BY <2>1 DEF Abandoned
      <3> QED
        BY <3>1, <3>2, DroppedFrom
    <2>4. \A i \in Ids \ x.players : carried'[i] \cap disappearing' = {}
      BY <1>6, <2>1, <2>2, <2>3
    <2>5. \A i, j \in Ids \ x.players : i # j => carried'[i] \cap carried'[j] = {}
      BY <2>1, <2>2
    <2> QED
      BY <1>6, <2>4, <2>5 DEF ApartInv
  <1>14. ~stray'
    BY <1>2, <1>3, <1>4, <1>6, NothingForgotten DEF D
  <1>15. UnstartedInv'
    BY <1>2 DEF UnstartedInv
  <1> QED
    BY <1>9, <1>10, <1>11, <1>12, <1>13, <1>14, <1>15

LEMMA RedrawnKeeps ==
    ASSUME IInv, NEW x, Redrawn(x)
    PROVE  IInv'
  <1>1. /\ WireInv /\ HistoryInv /\ LoadingInv /\ AppliedInv /\ ListedInv
    BY DEF IInv
  <1>2. /\ started /\ started' = started /\ playersLoaded' = playersLoaded
        /\ desiredState' = x /\ x \in States /\ world' = world /\ met' = met
        /\ players' = players /\ listed' = listed /\ syncs' = syncs /\ Lists' = Lists
        /\ updates' \in [Updates -> RequestSet] /\ States' \subseteq States
    BY DEF Redrawn, server, Lists
  <1>3. /\ x \in Seen /\ x \in World /\ x # None
        /\ x.players \in SUBSET Ids /\ x.loot \in SUBSET LootIds
        /\ x.bag \in [Ids -> SUBSET LootIds] /\ Things(x) \subseteq met
        /\ States \subseteq Seen
    BY <1>1, <1>2, DesiredSeen, NoneAssumption DEF HistoryInv
  <1>4. WireInv'
    BY <1>1, <1>2, <1>3 DEF WireInv
  <1>5. HistoryInv'
    <2>1. Seen' \subseteq Seen
      BY <1>2, <1>3 DEF Seen
    <2> QED
      BY <1>1, <1>2, <2>1, HistoryKept
  <1>6. LoadingInv'
    BY <1>1, <1>2, <1>3 DEF LoadingInv
  <1>7. ListedInv'
    BY <1>1, <1>2 DEF ListedInv
  <1>8. AppliedInv'
    <2>1. /\ carried \in [Ids -> SUBSET LootIds] /\ unseen \in [Ids -> SUBSET LootIds]
          /\ lostObjects \in SUBSET LootIds /\ lostObjects \subseteq met
          /\ \A i \in Ids : carried[i] \subseteq met
          /\ disappearing \in SUBSET LootIds /\ disappearing \subseteq met
      BY <1>1, <1>2, DesiredSeen, ThingsOf DEF AppliedInv, HistoryInv
    <2>2. \A i \in Ids : Bag(i) \in SUBSET LootIds /\ Bag(i) \subseteq met
      BY <2>1 DEF Bag
    <2>3. Dropped(x) \in SUBSET LootIds /\ Dropped(x) \subseteq met
      <3>1. \A i \in x.players : Removed(x, i) \subseteq Bag(i)
        BY DEF Removed
      <3>2. Abandoned(x) \subseteq lostObjects
        BY DEF Abandoned
      <3>3. ASSUME NEW l \in Dropped(x) PROVE l \in LootIds /\ l \in met
        BY <1>3, <2>1, <2>2, <3>1, <3>2, DroppedFrom
      <3> QED
        BY <3>3
    <2>4. disappearing' \in SUBSET LootIds /\ disappearing' \subseteq met
      BY <2>1, <2>3 DEF Redrawn, Apply
    <2>5. /\ carried' = [i \in Ids |-> IF i \in x.players THEN x.bag[i]
                                       ELSE IF i \in players THEN carried[i] ELSE {}]
          /\ currentState' = x.players /\ lostObjects' = x.loot
      BY DEF Redrawn, Apply, BagAfter
    <2>6. unseen' \in [Ids -> SUBSET LootIds]
      BY <1>3, <2>1, <2>2 DEF Redrawn, Apply
    <2>7. \A i \in Ids : x.bag[i] \subseteq met
      BY <1>3, ThingsOf
    <2>8. \A i \in Ids : carried'[i] \subseteq met
      BY <2>1, <2>5, <2>7
    <2>9. carried' \in [Ids -> SUBSET LootIds]
      BY <1>3, <2>1, <2>5
    <2> QED
      BY <1>1, <1>2, <1>3, <2>4, <2>5, <2>6, <2>8, <2>9 DEF AppliedInv
  <1>9. SceneInv'
    BY RedrawnKeepsScene DEF SceneInv
  <1> QED
    BY <1>4, <1>5, <1>6, <1>7, <1>8, <1>9 DEF IInv

-----------------------------------------------------------------------------
(* The answers to the two requests.                                        *)

LEMMA UpdateKeeps ==
    ASSUME IInv, NEW s \in Updates, UpdateDone(s)
    PROVE  IInv'
  <1> DEFINE x == updates[s].shows
  <1>1. /\ WireInv /\ HistoryInv /\ LoadingInv /\ AppliedInv /\ ListedInv /\ SceneInv
    BY DEF IInv
  <1>2. x \in States /\ x \in Seen /\ x \in World /\ x.version \in Nat /\ x # None
    BY <1>1, DesiredSeen, NoneAssumption DEF UpdateDone, States, ShownBy
  <1>3. updates' \in [Updates -> RequestSet] /\ States' \subseteq States
    BY <1>1, FreedUpdate DEF UpdateDone
  <1>4. syncs' = syncs /\ Lists' = Lists
    BY DEF UpdateDone, Lists
  <1>5. /\ desiredState' = x /\ UNCHANGED <<server, syncs, playersLoaded, players, listed, surprised>>
        /\ playersLoaded => Start(x)
        /\ ~playersLoaded => UNCHANGED <<started, currentState, carried, unseen, lostObjects,
                                         disappearing, stray>>
        /\ overtaken' = (overtaken \/ (desiredState # None /\ desiredState.version > x.version))
    BY DEF UpdateDone
  <1> HIDE DEF x
  <1>6. CASE started
    <2>1. playersLoaded /\ desiredState # None /\ desiredState.version \in Nat
      BY <1>1, <1>6, DesiredSeen DEF LoadingInv
    <2>2. started' = TRUE /\ Apply(x)
      BY <1>5, <2>1 DEF Start
    <2>3. overtaken => overtaken'
      BY <1>5
    <2>4. overtaken' \/ desiredState.version <= x.version
      <3>1. (desiredState # None /\ desiredState.version > x.version)
            \/ desiredState.version <= x.version
        BY <1>2, <2>1
      <3> QED
        BY <1>5, <3>1
    <2>5. started' = started
      BY <1>1, <1>6, <2>2 DEF LoadingInv
    <2> QED
      BY <1>2, <1>3, <1>5, <1>6, <2>2, <2>3, <2>4, <2>5, RedrawnKeeps DEF Redrawn
  <1>7. CASE ~started /\ playersLoaded
    <2>1. started' = TRUE /\ Apply(x)
      BY <1>5, <1>7 DEF Start
    <2>2. playersLoaded' = TRUE
      BY <1>1, <1>5, <1>7 DEF LoadingInv
    <2>3. overtaken => overtaken'
      BY <1>5
    <2>4. syncs' \in [Syncs -> RequestSet]
      BY <1>1, <1>4 DEF WireInv
    <2> QED
      BY <1>2, <1>3, <1>4, <1>5, <1>7, <2>1, <2>2, <2>3, <2>4, StartKeeps DEF GameStarts
  <1>8. CASE ~playersLoaded
    <2>1. /\ ~started /\ started' = started /\ playersLoaded' = playersLoaded
          /\ world' = world /\ met' = met /\ players' = players /\ listed' = listed
          /\ surprised' = surprised /\ currentState' = currentState /\ carried' = carried
          /\ unseen' = unseen /\ lostObjects' = lostObjects /\ disappearing' = disappearing
          /\ stray' = stray /\ (overtaken => overtaken')
      BY <1>1, <1>5, <1>8 DEF LoadingInv, server
    <2>2. WireInv'
      BY <1>1, <1>2, <1>3, <1>4, <1>5, <2>1 DEF WireInv
    <2>3. HistoryInv'
      <3>1. Seen' \subseteq Seen
        BY <1>2, <1>3, <1>4, <1>5, <2>1 DEF Seen
      <3> QED
        BY <1>1, <2>1, <3>1, HistoryKept
    <2>4. LoadingInv'
      BY <1>1, <1>8, <2>1 DEF LoadingInv
    <2>5. AppliedInv'
      BY <1>1, <2>1 DEF AppliedInv
    <2>6. ListedInv'
      BY <1>1, <1>4, <2>1 DEF ListedInv
    <2>7. SceneInv'
      <3>1. SUFFICES ASSUME InOrder'
                     PROVE  (/\ UnstartedInv /\ UnseenInv /\ RetiredInv /\ StaleInv /\ FallingInv
                             /\ ApartInv /\ ~stray)'
        BY DEF SceneInv
      <3>2. UnstartedInv /\ UnseenInv /\ ApartInv /\ ~stray
        BY <1>1, <2>1, <3>1 DEF SceneInv, InOrder
      <3>3. UnstartedInv'
        BY <1>2, <1>3, <1>5, <2>1, <3>2 DEF UnstartedInv
      <3>4. UnseenInv'
        BY <1>4, <2>1, <3>2 DEF UnseenInv
      <3>5. RetiredInv' /\ StaleInv' /\ FallingInv'
        BY <2>1 DEF RetiredInv, StaleInv, FallingInv
      <3>6. ApartInv'
        BY <2>1, <3>2 DEF ApartInv
      <3> QED
        BY <2>1, <3>2, <3>3, <3>4, <3>5, <3>6
    <2> QED
      BY <2>2, <2>3, <2>4, <2>5, <2>6, <2>7 DEF IInv
  <1> QED
    BY <1>6, <1>7, <1>8

\* A list of players takes the place of the one shown.
Relisted(x) ==
    /\ started' = started /\ playersLoaded' = TRUE /\ (desiredState # None => started)
    /\ x \in Lists /\ listed' = x.version /\ UpdatePlayersList(x)
    /\ UNCHANGED <<server, updates, desiredState, currentState, lostObjects, disappearing, surprised>>
    /\ (overtaken => overtaken') /\ (overtaken' \/ listed <= x.version)
    /\ syncs' \in [Syncs -> RequestSet] /\ Lists' \subseteq Lists

LEMMA RelistedKeepsScene ==
    ASSUME IInv, NEW x, Relisted(x), InOrder'
    PROVE  (/\ UnstartedInv /\ UnseenInv /\ RetiredInv /\ StaleInv /\ FallingInv
            /\ ApartInv /\ ~stray)'
  <1>1. /\ WireInv /\ HistoryInv /\ LoadingInv /\ AppliedInv /\ ListedInv /\ SceneInv
    BY DEF IInv
  <1>2. /\ started' = started /\ desiredState' = desiredState /\ world' = world /\ met' = met
        /\ currentState' = currentState /\ lostObjects' = lostObjects
        /\ disappearing' = disappearing /\ States' = States
        /\ x \in Lists /\ Lists' \subseteq Lists /\ listed' = x.version
    BY DEF Relisted, server, States
  <1>3. InOrder /\ listed <= x.version
    BY DEF InOrder, Relisted
  <1>4. /\ UnstartedInv /\ UnseenInv /\ RetiredInv /\ StaleInv /\ FallingInv /\ ApartInv /\ ~stray
    BY <1>1, <1>3 DEF SceneInv
  <1>5. /\ \A w \in Lists \cup {world} : w.version \in Nat
        /\ players \subseteq met /\ listed \in Nat /\ x.players \in SUBSET Ids
        /\ players \in SUBSET Ids
    BY <1>1, <1>2, DesiredSeen DEF AppliedInv
  <1>6. /\ players' = x.players
        /\ \A i \in Ids :
              /\ carried'[i] = IF i \in x.players \cup currentState THEN carried[i] ELSE {}
              /\ unseen'[i] = IF i \in x.players \cup currentState
                              THEN (IF i \in players \ x.players THEN carried[i] ELSE unseen[i])
                              ELSE {}
        /\ stray' = (stray \/ \E i \in (players \ x.players) \ currentState :
                                 carried[i] \ Hidden(players \ x.players)[i] # {})
    BY DEF Relisted, UpdatePlayersList, Hidden
  <1>7. UnstartedInv'
    BY <1>2, <1>4 DEF UnstartedInv
  <1>8. UnseenInv'
    <2> SUFFICES ASSUME NEW i \in Ids, unseen'[i] # {}
                 PROVE  /\ i \in met /\ i \notin x.players
                        /\ \A c \in Lists \cup {world} : x.version <= c.version => i \notin c.players
      BY <1>2, <1>6 DEF UnseenInv
    <2>1. CASE i \in players \ x.players
      BY <1>1, <1>2, <1>3, <1>5, <2>1 DEF ListedInv
    <2>2. CASE i \notin players \ x.players
      BY <1>2, <1>3, <1>4, <1>5, <1>6, <2>2 DEF UnseenInv
    <2> QED
      BY <2>1, <2>2
  <1>9. RetiredInv'
    <2> SUFFICES ASSUME started, NEW i \in Ids \ world.players
                 PROVE  /\ i \in currentState => i \in x.players \/ unseen'[i] = carried'[i]
                        /\ \A c \in States : (desiredState.version <= c.version /\ i \in c.players) =>
                              i \in currentState /\ c.bag[i] = carried'[i]
      BY <1>2, <1>6 DEF RetiredInv
    <2> QED
      BY <1>4, <1>6 DEF RetiredInv
  <1>10. StaleInv'
    <2> SUFFICES ASSUME started, NEW i \in Ids \ currentState, carried'[i] # {}
                 PROVE  /\ i \in x.players
                        /\ \A c \in States \cup {world, desiredState} :
                              desiredState.version <= c.version =>
                                 i \notin c.players /\ carried'[i] \cap Things(c) = {}
      BY <1>2, <1>6 DEF StaleInv
    <2>1. i \in x.players /\ carried'[i] = carried[i]
      BY <1>6
    <2> QED
      BY <1>4, <2>1 DEF StaleInv
  <1>11. FallingInv'
    BY <1>2, <1>4 DEF FallingInv, Things
  <1>12. ApartInv'
    <2>1. \A i \in Ids : carried'[i] \subseteq carried[i]
      BY <1>6
    <2> QED
      BY <1>2, <1>4, <2>1 DEF ApartInv
  <1>13. ~stray'
    <2>1. \A i \in players \ x.players : Hidden(players \ x.players)[i] = carried[i]
      BY <1>5 DEF Hidden
    <2> QED
      BY <1>4, <1>6, <2>1
  <1> QED
    BY <1>7, <1>8, <1>9, <1>10, <1>11, <1>12, <1>13

LEMMA RelistedKeeps ==
    ASSUME IInv, NEW x, Relisted(x)
    PROVE  IInv'
  <1>1. /\ WireInv /\ HistoryInv /\ LoadingInv /\ AppliedInv /\ ListedInv
    BY DEF IInv
  <1>2. /\ started' = started /\ desiredState' = desiredState /\ world' = world /\ met' = met
        /\ currentState' = currentState /\ lostObjects' = lostObjects /\ updates' = updates
        /\ disappearing' = disappearing /\ States' = States /\ playersLoaded' = TRUE
        /\ x \in Lists /\ Lists' \subseteq Lists /\ listed' = x.version
        /\ syncs' \in [Syncs -> RequestSet] /\ (desiredState # None => started)
    BY DEF Relisted, server, States
  <1>3. /\ x \in Seen /\ x.version \in Nat /\ x.version <= world.version
        /\ x.players \in SUBSET Ids /\ x.players \subseteq met
        /\ Lists \subseteq Seen /\ world \in Seen
    BY <1>1, <1>2, DesiredSeen DEF HistoryInv
  <1>4. /\ players' = x.players
        /\ carried' = [i \in Ids |-> IF i \in x.players \cup currentState THEN carried[i] ELSE {}]
        /\ unseen' = [i \in Ids |-> IF i \in x.players \cup currentState
                                    THEN (IF i \in players \ x.players THEN carried[i] ELSE unseen[i])
                                    ELSE {}]
    BY DEF Relisted, UpdatePlayersList, Hidden
  <1>5. WireInv'
    BY <1>1, <1>2 DEF WireInv
  <1>6. HistoryInv'
    <2>1. Seen' \subseteq Seen
      BY <1>2, <1>3 DEF Seen
    <2> QED
      BY <1>1, <1>2, <2>1, HistoryKept
  <1>7. LoadingInv'
    BY <1>1, <1>2, <1>4 DEF LoadingInv
  <1>8. AppliedInv'
    <2>1. /\ carried \in [Ids -> SUBSET LootIds] /\ unseen \in [Ids -> SUBSET LootIds]
          /\ \A i \in Ids : carried[i] \subseteq met
      BY <1>1 DEF AppliedInv
    <2>2. carried' \in [Ids -> SUBSET LootIds] /\ unseen' \in [Ids -> SUBSET LootIds]
      BY <1>4, <2>1
    <2>3. /\ \A i \in Ids : carried'[i] \subseteq met
          /\ \A i \in Ids : i \in currentState => carried'[i] = carried[i]
      BY <1>4, <2>1
    <2> HIDE DEF IInv
    <2>4. started => /\ currentState = desiredState.players /\ lostObjects = desiredState.loot
                     /\ \A i \in currentState : i \in Ids /\ carried[i] = desiredState.bag[i]
      BY <1>1, DesiredSeen DEF AppliedInv
    <2> QED
      BY <1>1, <1>2, <1>3, <1>4, <2>2, <2>3, <2>4 DEF AppliedInv
  <1>9. ListedInv'
    BY <1>1, <1>2, <1>3, <1>4 DEF ListedInv, HistoryInv, ForGood
  <1>10. SceneInv'
    BY RelistedKeepsScene DEF SceneInv
  <1> QED
    BY <1>5, <1>6, <1>7, <1>8, <1>9, <1>10 DEF IInv

LEMMA SyncKeeps ==
    ASSUME IInv, NEW s \in Syncs, SyncDone(s)
    PROVE  IInv'
  <1> DEFINE x == syncs[s].shows
  <1>1. /\ WireInv /\ HistoryInv /\ LoadingInv /\ AppliedInv
    BY DEF IInv
  <1>2. x \in Lists /\ x \in Seen /\ x.version \in Nat
    BY <1>1, DesiredSeen DEF SyncDone, Lists, ShownBy
  <1>3. syncs' \in [Syncs -> RequestSet] /\ Lists' \subseteq Lists
    BY <1>1, FreedSync DEF SyncDone
  <1>4. updates' \in [Updates -> RequestSet] /\ States' = States
    BY <1>1 DEF SyncDone, WireInv, States
  <1>5. /\ playersLoaded' = TRUE /\ listed' = x.version
        /\ overtaken' = (overtaken \/ listed > x.version)
        /\ UNCHANGED <<server, updates, desiredState, surprised>>
        /\ (desiredState # None /\ ~started) => players' = x.players /\ Start(desiredState)
        /\ ~(desiredState # None /\ ~started) =>
              UpdatePlayersList(x) /\ UNCHANGED <<started, currentState, lostObjects, disappearing>>
    BY DEF SyncDone
  <1> HIDE DEF x
  <1>6. overtaken => overtaken'
    BY <1>5
  <1>7. CASE desiredState # None /\ ~started
    BY <1>2, <1>3, <1>4, <1>5, <1>6, <1>7, StartKeeps DEF GameStarts, Start
  <1>8. CASE ~(desiredState # None /\ ~started)
    <2>1. overtaken' \/ listed <= x.version
      <3>1. listed > x.version \/ listed <= x.version
        BY <1>1, <1>2 DEF AppliedInv
      <3> QED
        BY <1>5, <3>1
    <2> QED
      BY <1>2, <1>3, <1>5, <1>6, <1>8, <2>1, RelistedKeeps DEF Relisted
  <1> QED
    BY <1>7, <1>8

-----------------------------------------------------------------------------
(* The invariant.                                                          *)

LEMMA InitInv == Init => IInv
  <1> SUFFICES ASSUME Init PROVE IInv
    OBVIOUS
  <1> PICK others \in SUBSET (Ids \ {Me}) :
        \E at \in [LootIds -> {None, "map", Me} \cup others] :
          /\ world = [version |-> 0, players |-> {Me} \cup others,
                      loot |-> {l \in LootIds : at[l] = "map"},
                      bag |-> [i \in Ids |-> {l \in LootIds : at[l] = i}]]
          /\ met = {Me} \cup others \cup {l \in LootIds : at[l] # None}
    BY DEF Init
  <1>1. PICK at \in [LootIds -> {None, "map", Me} \cup others] :
          /\ world = [version |-> 0, players |-> {Me} \cup others,
                      loot |-> {l \in LootIds : at[l] = "map"},
                      bag |-> [i \in Ids |-> {l \in LootIds : at[l] = i}]]
          /\ met = {Me} \cup others \cup {l \in LootIds : at[l] # None}
    OBVIOUS
  <1>2. /\ world.version = 0 /\ world.players = {Me} \cup others
        /\ world.loot = {l \in LootIds : at[l] = "map"}
        /\ world.bag = [i \in Ids |-> {l \in LootIds : at[l] = i}]
        /\ world.players \in SUBSET Ids
    BY <1>1, MeAssumption
  <1>3. \A i \in Ids : i # "map" /\ i # None
    BY MapAssumption, NoneAssumption
  <1>4. world \in World
    BY <1>1, MeAssumption DEF World
  <1>5. WellFormed(world)
    <2>1. ASSUME NEW i \in Ids
          PROVE  /\ i \notin world.players => world.bag[i] = {}
                 /\ world.bag[i] \cap world.loot = {}
                 /\ \A j \in Ids \ {i} : world.bag[i] \cap world.bag[j] = {}
      BY <1>2, <1>3
    <2> QED
      BY <1>4, <2>1 DEF WellFormed
  <1>6. world.players \subseteq met /\ Things(world) \subseteq met
    <2>1. None # "map"
      BY NoneAssumption
    <2>2. ASSUME NEW l \in Things(world) PROVE l \in met
      <3>1. CASE l \in world.loot
        BY <1>1, <1>2, <2>1, <3>1
      <3>2. CASE \E i \in Ids : l \in world.bag[i]
        BY <1>1, <1>2, <1>3, <3>2
      <3> QED
        BY <2>2, <3>1, <3>2, ThingsOf
    <2> QED
      BY <1>1, <1>2, <2>2
  <1>7. WireInv /\ States = {} /\ Lists = {}
    <2>1. /\ [s \in Updates |-> Free] \in [Updates -> RequestSet]
          /\ [s \in Syncs |-> Free] \in [Syncs -> RequestSet]
          /\ ShownBy([s \in Updates |-> Free], Updates) = {}
          /\ ShownBy([s \in Syncs |-> Free], Syncs) = {}
      BY RequestsTyped DEF ShownBy
    <2>2. /\ Ask([s \in Updates |-> Free], Updates) \in [Updates -> RequestSet]
          /\ ShownBy(Ask([s \in Updates |-> Free], Updates), Updates) = {}
      BY <2>1, AskTyped
    <2>3. /\ Ask([s \in Syncs |-> Free], Syncs) \in [Syncs -> RequestSet]
          /\ ShownBy(Ask([s \in Syncs |-> Free], Syncs), Syncs) = {}
      BY <2>1, AskTyped
    <2> QED
      BY <1>4, <2>2, <2>3 DEF Init, WireInv, States, Lists
  <1>8. Seen = {world}
    BY <1>7 DEF Seen, Init
  <1>9. HistoryInv
    BY <1>2, <1>5, <1>6, <1>8 DEF HistoryInv, Kept, ForGood
  <1>10. LoadingInv
    BY DEF LoadingInv, Init
  <1>11. AppliedInv
    BY <1>2 DEF AppliedInv, Init
  <1>12. ListedInv
    BY DEF ListedInv, Init
  <1>13. SceneInv
    BY <1>7 DEF SceneInv, UnstartedInv, UnseenInv, RetiredInv, StaleInv, FallingInv, ApartInv, Init
  <1> QED
    BY <1>7, <1>9, <1>10, <1>11, <1>12, <1>13 DEF IInv

LEMMA StepInv == IInv /\ [Next]_vars => IInv'
  <1> SUFFICES ASSUME IInv, [Next]_vars PROVE IInv'
    OBVIOUS
  <1>1. CASE Session
    BY <1>1, SessionKeeps
  <1>2. CASE Fail
    BY <1>2, FailQuiet, QuietKeeps
  <1>3. ASSUME NEW s \in Updates, AnswerState(s) \/ UpdateDone(s) \/ UpdateRefused(s) PROVE IInv'
    BY <1>3, AnswerStateQuiet, UpdateKeeps, RefusedQuiet, QuietKeeps
  <1>4. ASSUME NEW s \in Syncs, AnswerList(s) \/ SyncDone(s) \/ SyncRefused(s) PROVE IInv'
    BY <1>4, AnswerListQuiet, SyncKeeps, RefusedQuiet, QuietKeeps
  <1>5. ASSUME NEW instant \in BOOLEAN, Frame(instant) PROVE IInv'
    BY <1>5, FrameQuiet, QuietKeeps
  <1>6. CASE UNCHANGED vars
    <2>1. Quiet
      <3>1. WireInv
        BY DEF IInv
      <3>2. updates' = updates /\ syncs' = syncs
        BY <1>6 DEF vars, wire
      <3> QED
        BY <1>6, <3>1, <3>2, SameWire DEF Quiet, vars, drawn
    <2> QED
      BY <2>1, QuietKeeps
  <1> QED
    BY <1>1, <1>2, <1>3, <1>4, <1>5, <1>6 DEF Next

LEMMA Invariant == Spec => []IInv
  BY InitInv, StepInv, PTL DEF Spec

-----------------------------------------------------------------------------
(* What the player sees.                                                   *)

\* As long as the answers to one request arrive in order and dogs stand before they
\* retire, no object is left in the scene that the tables of the page do not know, and
\* nobody in the list of players is without its loot, in whatever order lists and states
\* arrive between each other (_updatePlayersList, _applyDesiredState).
THEOREM SceneKept == Spec => []SceneIsKept
  <1>1. IInv => SceneIsKept
    <2> SUFFICES ASSUME IInv, InOrder PROVE ~stray /\ \A i \in players : unseen[i] = {}
      BY DEF SceneIsKept
    <2>1. UnseenInv /\ ~stray /\ players \in SUBSET Ids
      BY DEF IInv, SceneInv, AppliedInv
    <2> QED
      BY <2>1 DEF UnseenInv
  <1> QED
    BY <1>1, Invariant, PTL

\* Under the same condition a piece of loot is drawn in one place: on the map, with one
\* player or falling (_processLostObjects, _attachLootToPlayers, _dropLoot).
THEOREM OnceDrawn == Spec => []DrawnOnce
  <1>1. IInv => DrawnOnce
    <2> SUFFICES ASSUME IInv, InOrder, NEW l \in LootIds
                 PROVE  /\ l \in lostObjects => l \notin disappearing
                        /\ \A i \in Ids : l \in Bags(i) =>
                              /\ l \notin lostObjects \cup disappearing
                              /\ \A j \in Ids \ {i} : l \notin Bags(j)
      BY DEF DrawnOnce
    <2>1. \A i : l \in Bags(i) => l \in carried[i]
      BY DEF Bags
    <2> QED
      BY <2>1, Once
  <1> QED
    BY <1>1, Invariant, PTL

-----------------------------------------------------------------------------
(* Steering.  Keys, and the posts about them.                              *)

Pressed == {pressedKeys[i] : i \in 1..Len(pressedKeys)}

\* The page has a key once, and at least those that are down; when it has not missed that a
\* key went up, those, in the order in which they went down.
KeysInv ==
    /\ held \subseteq Keys /\ presses \in Nat /\ pressed_at \in [Keys -> Nat]
    /\ \A k \in Keys : pressed_at[k] <= presses
    /\ pressedKeys \in Seq(Keys)
    /\ \A i, j \in 1..Len(pressedKeys) : pressedKeys[i] = pressedKeys[j] => i = j
    /\ held \subseteq Pressed
    /\ ~away => /\ held = Pressed
                /\ \A i, j \in 1..Len(pressedKeys) :
                      i < j => pressed_at[pressedKeys[i]] < pressed_at[pressedKeys[j]]

\* The newest post has the last key, and so does the dog once it was handled.
PostsInv ==
    /\ sent \in Nat /\ handled \in 0..sent
    /\ \A p \in posts : p.n \in 1..sent /\ (p.n = sent => p.move = LastKey(pressedKeys))
    /\ sent > 0 /\ handled = sent => dir = LastKey(pressedKeys)

\* splice(index, 1)
LEMMA Spliced ==
    ASSUME NEW S, NEW s \in Seq(S), NEW i \in 1..Len(s)
    PROVE  /\ RemoveAt(s, i) \in Seq(S) /\ Len(RemoveAt(s, i)) = Len(s) - 1
           /\ \A j \in 1..(Len(s) - 1) : RemoveAt(s, i)[j] = IF j < i THEN s[j] ELSE s[j+1]
  <1> DEFINE n == Len(s)
             a == SubSeq(s, 1, i - 1)
             b == SubSeq(s, i + 1, n)
  <1>1. n \in Nat /\ i \in Int /\ 1 <= i /\ i <= n /\ \A j \in 1..n : s[j] \in S
    BY LenProperties, ElementOfSeq
  <1>2. /\ a \in Seq(S) /\ Len(a) = i - 1
        /\ \A j \in 1..(i - 1) : a[j] = s[j]
    <2>1. 1 \in Int /\ i - 1 \in Int /\ \A j \in 1..(i - 1) : s[j] \in S
      BY <1>1
    <2>2. /\ a \in Seq(S) /\ Len(a) = IF 1 <= i - 1 THEN i - 1 - 1 + 1 ELSE 0
          /\ \A j \in 1..(i - 1 - 1 + 1) : a[j] = s[1 + j - 1]
      BY <2>1, SubSeqProperties
    <2> HIDE DEF a
    <2>3. \A j \in 1..(i - 1) : j \in 1..(i - 1 - 1 + 1) /\ 1 + j - 1 = j
      BY <1>1
    <2> QED
      BY <1>1, <2>2, <2>3
  <1>3. /\ b \in Seq(S) /\ Len(b) = n - i
        /\ \A j \in 1..(n - i) : b[j] = s[i + j]
    <2>1. i + 1 \in Int /\ n \in Int /\ \A j \in (i + 1)..n : s[j] \in S
      BY <1>1
    <2>2. /\ b \in Seq(S) /\ Len(b) = IF i + 1 <= n THEN n - (i + 1) + 1 ELSE 0
          /\ \A j \in 1..(n - (i + 1) + 1) : b[j] = s[i + 1 + j - 1]
      <3> HIDE DEF n
      <3> QED
        BY <2>1, SubSeqProperties
    <2> HIDE DEF b, n
    <2>3. \A j \in 1..(n - i) : j \in 1..(n - (i + 1) + 1) /\ i + 1 + j - 1 = i + j
      BY <1>1
    <2> QED
      BY <1>1, <2>2, <2>3
  <1>4. RemoveAt(s, i) = a \o b
    BY DEF RemoveAt
  <1> HIDE DEF a, b, n
  <1>5. /\ a \o b \in Seq(S) /\ Len(a \o b) = n - 1
        /\ \A j \in 1..(n - 1) : (a \o b)[j] = IF j <= i - 1 THEN a[j] ELSE b[j - (i - 1)]
    <2>1. /\ a \o b \in Seq(S) /\ Len(a \o b) = Len(a) + Len(b)
          /\ \A j \in 1..(Len(a) + Len(b)) :
                (a \o b)[j] = IF j <= Len(a) THEN a[j] ELSE b[j - Len(a)]
      BY <1>2, <1>3, ConcatProperties
    <2>2. Len(a) + Len(b) = n - 1
      BY <1>1, <1>2, <1>3
    <2> QED
      BY <1>2, <2>1, <2>2
  <1>6. ASSUME NEW j \in 1..(n - 1)
        PROVE  (a \o b)[j] = IF j < i THEN s[j] ELSE s[j+1]
    <2>1. CASE j < i
      BY <1>1, <1>2, <1>5, <2>1
    <2>2. CASE ~(j < i)
      <3>1. ~(j <= i - 1) /\ j - (i - 1) \in 1..(n - i) /\ i + (j - (i - 1)) = j + 1
        BY <1>1, <2>2
      <3> QED
        BY <1>3, <1>5, <2>2, <3>1
    <2> QED
      BY <2>1, <2>2
  <1> QED
    BY <1>4, <1>5, <1>6 DEF n

LEMMA SteeringStart == SteeringInit => KeysInv /\ PostsInv
  <1> SUFFICES ASSUME SteeringInit PROVE KeysInv /\ PostsInv
    OBVIOUS
  <1>1. pressedKeys = <<>> /\ Len(pressedKeys) = 0 /\ pressedKeys \in Seq(Keys)
    BY EmptySeq DEF SteeringInit
  <1>2. Pressed = {}
    BY <1>1 DEF Pressed
  <1> QED
    BY <1>1, <1>2 DEF SteeringInit, KeysInv, PostsInv

\* A post goes out with the last key.
LEMMA PostStep ==
    ASSUME PostsInv, Post(LastKey(pressedKeys')), dir' = dir
    PROVE  PostsInv'
  <1>1. /\ posts' = posts \cup {[n |-> sent + 1, move |-> LastKey(pressedKeys')]}
        /\ sent' = sent + 1 /\ handled' = handled /\ sent \in Nat /\ handled \in 0..sent
    BY DEF Post, PostsInv
  <1>2. ASSUME NEW p \in posts'
        PROVE  p.n \in 1..sent' /\ (p.n = sent' => p.move = LastKey(pressedKeys'))
    <2>1. CASE p \in posts
      <3>1. p.n \in 1..sent
        BY <2>1 DEF PostsInv
      <3> QED
        BY <1>1, <3>1
    <2>2. CASE p = [n |-> sent + 1, move |-> LastKey(pressedKeys')]
      <3>1. p.n = sent + 1 /\ p.move = LastKey(pressedKeys')
        BY <2>2
      <3> QED
        BY <1>1, <3>1
    <2> QED
      BY <1>1, <2>1, <2>2
  <1>3. sent' \in Nat /\ handled' \in 0..sent' /\ handled' # sent'
    BY <1>1
  <1> QED
    BY <1>2, <1>3 DEF PostsInv

LEMMA KeyDownStep ==
    ASSUME KeysInv, PostsInv, NEW k \in Keys, KeyDown(k)
    PROVE  KeysInv' /\ PostsInv'
  <1> DEFINE s == pressedKeys
             n == Len(s)
  <1>1. /\ k \notin held /\ held' = held \cup {k} /\ presses' = presses + 1
        /\ pressed_at' = [pressed_at EXCEPT ![k] = presses + 1] /\ dir' = dir /\ (away' <=> away)
        /\ s \in Seq(Keys) /\ n \in Nat /\ presses \in Nat /\ pressed_at \in [Keys -> Nat]
    BY LenProperties DEF KeyDown, KeysInv
  <1>2. /\ presses' \in Nat /\ pressed_at' \in [Keys -> Nat] /\ held' \subseteq Keys
        /\ \A j \in Keys : pressed_at'[j] <= presses'
    <2>1. \A j \in Keys : pressed_at'[j] = IF j = k THEN presses + 1 ELSE pressed_at[j]
      BY <1>1
    <2>2. \A j \in Keys : pressed_at[j] \in Nat /\ pressed_at[j] <= presses
      BY DEF KeysInv
    <2> QED
      BY <1>1, <2>1, <2>2 DEF KeysInv
  <1>3. CASE Contains(s, k)
    <2>1. UNCHANGED <<pressedKeys, posting>>
      BY <1>3 DEF KeyDown
    <2>2. k \in Pressed /\ Pressed' = Pressed
      BY <1>3, <2>1 DEF Contains, Pressed
    <2>3. away'
      BY <1>1, <2>2 DEF KeysInv
    <2> QED
      BY <1>1, <1>2, <2>1, <2>2, <2>3 DEF KeysInv, PostsInv, posting
  <1>4. CASE ~Contains(s, k)
    <2>1. pressedKeys' = Append(s, k) /\ Post(LastKey(pressedKeys'))
      BY <1>4 DEF KeyDown
    <2>2. PostsInv'
      BY <1>1, <2>1, PostStep
    <2>3. k \notin Pressed /\ \A i \in 1..n : s[i] # k /\ s[i] \in Keys
      BY <1>1, <1>4, ElementOfSeq DEF Contains, Pressed
    <2>4. /\ pressedKeys' \in Seq(Keys) /\ Len(pressedKeys') = n + 1
          /\ pressedKeys'[n+1] = k /\ \A i \in 1..n : pressedKeys'[i] = s[i]
      BY <1>1, <2>1, AppendProperties
    <2>5. Pressed' = Pressed \cup {k}
      <3>1. \A i \in 1..(n+1) : i \in 1..n \/ i = n + 1
        BY <1>1
      <3>2. 1..n \subseteq 1..(n+1) /\ n + 1 \in 1..(n+1)
        BY <1>1
      <3> QED
        BY <2>4, <3>1, <3>2 DEF Pressed
    <2>6. \A i, j \in 1..(n+1) : pressedKeys'[i] = pressedKeys'[j] => i = j
      <3>1. \A i \in 1..(n+1) : i \in 1..n \/ i = n + 1
        BY <1>1
      <3> QED
        BY <2>3, <2>4, <3>1 DEF KeysInv
    <2>7. ASSUME ~away',  NEW i \in 1..(n+1), NEW j \in 1..(n+1), i < j
          PROVE  pressed_at'[pressedKeys'[i]] < pressed_at'[pressedKeys'[j]]
      <3>1. i \in 1..n /\ pressedKeys'[i] = s[i] /\ s[i] # k /\ s[i] \in Keys
            /\ pressed_at'[s[i]] = pressed_at[s[i]]
        BY <1>1, <2>3, <2>4, <2>7
      <3>2. CASE j = n + 1
        <4>1. pressedKeys'[j] = k /\ pressed_at'[k] = presses + 1
          BY <1>1, <2>4, <3>2
        <4>2. pressed_at[s[i]] \in Nat /\ pressed_at[s[i]] <= presses
          BY <3>1 DEF KeysInv
        <4> QED
          BY <1>1, <3>1, <4>1, <4>2
      <3>3. CASE j \in 1..n
        <4>1. pressedKeys'[j] = s[j] /\ pressed_at'[s[j]] = pressed_at[s[j]]
          BY <1>1, <2>3, <2>4, <3>3
        <4> QED
          BY <1>1, <2>7, <3>1, <3>3, <4>1 DEF KeysInv
      <3> QED
        BY <1>1, <3>2, <3>3
    <2>8. KeysInv'
      <3>1. held' \subseteq Pressed' /\ (~away' => held' = Pressed')
        BY <1>1, <2>5 DEF KeysInv
      <3> QED
        BY <1>2, <2>4, <2>6, <2>7, <3>1 DEF KeysInv
    <2> QED
      BY <2>2, <2>8
  <1> QED
    BY <1>3, <1>4

LEMMA KeyUpStep ==
    ASSUME KeysInv, PostsInv, NEW k \in Keys, KeyUp(k)
    PROVE  KeysInv' /\ PostsInv'
  <1> DEFINE s == pressedKeys
             n == Len(s)
  <1>1. PICK index \in 1..n : s[index] = k /\ pressedKeys' = RemoveAt(s, index)
    BY DEF KeyUp
  <1>2. /\ k \in held /\ held' = held \ {k} /\ presses' = presses /\ pressed_at' = pressed_at
        /\ dir' = dir /\ Post(LastKey(pressedKeys')) /\ s \in Seq(Keys) /\ n \in Nat
    BY LenProperties DEF KeyUp, KeysInv
  <1>3. away' => away
    BY DEF KeyUp
  <1>4. away /\ ~away' => pressedKeys' = <<>>
    BY DEF KeyUp
  <1>5. PostsInv'
    BY <1>2, PostStep
  <1> DEFINE t == pressedKeys'
             Old(j) == IF j < index THEN j ELSE j + 1
  <1>6. t \in Seq(Keys) /\ Len(t) = n - 1 /\ \A j \in 1..(n - 1) : t[j] = s[Old(j)]
    <2>1. /\ RemoveAt(s, index) \in Seq(Keys) /\ Len(RemoveAt(s, index)) = n - 1
          /\ \A j \in 1..(n - 1) : RemoveAt(s, index)[j] = IF j < index THEN s[j] ELSE s[j+1]
      BY <1>1, <1>2, Spliced
    <2> QED
      BY <1>1, <2>1
  <1>7. \A j \in 1..(n - 1) : Old(j) \in 1..n /\ Old(j) # index
    BY <1>1, <1>2
  <1>8. \A i, j \in 1..(n - 1) : (Old(i) = Old(j) => i = j) /\ (i < j => Old(i) < Old(j))
    BY <1>1, <1>2
  <1>9. \A i \in 1..n : i # index => \E j \in 1..(n - 1) : Old(j) = i
    <2> SUFFICES ASSUME NEW i \in 1..n, i # index PROVE \E j \in 1..(n - 1) : Old(j) = i
      OBVIOUS
    <2>1. CASE i < index
      <3>1. i \in 1..(n - 1) /\ Old(i) = i
        BY <1>1, <1>2, <2>1
      <3> QED
        BY <3>1
    <2>2. CASE i > index
      <3>1. i - 1 \in 1..(n - 1) /\ Old(i - 1) = i
        BY <1>1, <1>2, <2>2
      <3> QED
        BY <3>1
    <2> QED
      BY <1>2, <2>1, <2>2
  <1> HIDE DEF Old
  <1>10. Pressed' = Pressed \ {k}
    <2>1. Pressed' = {s[Old(j)] : j \in 1..(n - 1)}
      BY <1>6 DEF Pressed
    <2>2. \A i \in 1..n : s[i] = k => i = index
      BY <1>1 DEF KeysInv
    <2> QED
      BY <1>1, <1>7, <1>9, <2>1, <2>2 DEF Pressed
  <1>11. \A i, j \in 1..Len(t) : t[i] = t[j] => i = j
    BY <1>6, <1>7, <1>8 DEF KeysInv
  <1>12. ~away' => /\ held' = Pressed'
                   /\ \A i, j \in 1..Len(t) : i < j => pressed_at[t[i]] < pressed_at[t[j]]
    <2> SUFFICES ASSUME ~away' PROVE /\ held' = Pressed'
                                     /\ \A i, j \in 1..Len(t) :
                                           i < j => pressed_at[t[i]] < pressed_at[t[j]]
      OBVIOUS
    <2>1. CASE ~away
      <3>1. held' = Pressed'
        BY <1>2, <1>10, <2>1 DEF KeysInv
      <3>2. \A i, j \in 1..n : i < j => pressed_at[s[i]] < pressed_at[s[j]]
        BY <2>1 DEF KeysInv
      <3>3. ASSUME NEW i \in 1..(n - 1), NEW j \in 1..(n - 1), i < j
            PROVE  pressed_at[t[i]] < pressed_at[t[j]]
        <4>1. Old(i) < Old(j)
          BY <1>8, <3>3
        <4>2. t[i] = s[Old(i)] /\ t[j] = s[Old(j)] /\ Old(i) \in 1..n /\ Old(j) \in 1..n
          BY <1>6, <1>7
        <4> QED
          BY <3>2, <4>1, <4>2
      <3> QED
        BY <1>6, <3>1, <3>3
    <2>2. CASE away
      <3>1. t = <<>> /\ Len(t) = 0
        BY <1>4, <2>2
      <3>2. Pressed' = {}
        BY <3>1 DEF Pressed
      <3> QED
        BY <1>2, <1>10, <3>1, <3>2 DEF KeysInv
    <2> QED
      BY <2>1, <2>2
  <1>13. held' \subseteq Pressed' /\ held' \subseteq Keys
    BY <1>2, <1>10 DEF KeysInv
  <1>14. KeysInv'
    BY <1>2, <1>6, <1>11, <1>12, <1>13 DEF KeysInv
  <1> QED
    BY <1>5, <1>14

LEMMA SteeringStep ==
    ASSUME KeysInv, PostsInv, [SteeringNext]_steering
    PROVE  KeysInv' /\ PostsInv'
  <1>1. CASE LeaveWindow
    <2>1. /\ away' /\ held' = {} /\ Pressed' = Pressed
          /\ UNCHANGED <<pressed_at, presses, pressedKeys, posts, sent, handled, dir>>
      BY <1>1 DEF LeaveWindow, posting, Pressed
    <2> QED
      BY <2>1 DEF KeysInv, PostsInv
  <1>2. ASSUME NEW p \in posts, Handle(p) PROVE KeysInv' /\ PostsInv'
    <2>1. /\ posts' \subseteq posts /\ dir' = p.move /\ handled' = p.n /\ sent' = sent
          /\ UNCHANGED <<held, pressed_at, presses, pressedKeys, away>>
      BY <1>2 DEF Handle, keyboard
    <2> QED
      BY <1>2, <2>1 DEF KeysInv, PostsInv, Pressed
  <1>3. ASSUME NEW p \in posts, Lose(p) PROVE KeysInv' /\ PostsInv'
    <2>1. /\ posts' \subseteq posts
          /\ UNCHANGED <<held, pressed_at, presses, pressedKeys, away, sent, handled, dir>>
      BY <1>3 DEF Lose, keyboard
    <2> QED
      BY <2>1 DEF KeysInv, PostsInv, Pressed
  <1>4. ASSUME NEW step \in Steps, ShowState(step) PROVE KeysInv' /\ PostsInv'
    BY <1>4 DEF ShowState, keyboard, posting, KeysInv, PostsInv, Pressed
  <1>5. CASE UNCHANGED steering
    BY <1>5 DEF steering, keyboard, posting, KeysInv, PostsInv, Pressed
  <1> QED
    BY <1>1, <1>2, <1>3, <1>4, <1>5, KeyDownStep, KeyUpStep DEF SteeringNext

\* The dog goes where the player steers it once the newest post was handled, for any number
\* of keys and posts that overtake each other or are lost (KeyState, _pressKey).
THEOREM SteersAlways == SteeringSpec => []GoesWhereSteered
  <1>1. KeysInv /\ PostsInv => GoesWhereSteered
    <2> SUFFICES ASSUME KeysInv, PostsInv, sent > 0, handled = sent, ~away
                 PROVE  dir = Wanted
      BY DEF GoesWhereSteered
    <2> DEFINE s == pressedKeys
               n == Len(s)
    <2>1. dir = LastKey(s) /\ held = Pressed /\ s \in Seq(Keys) /\ n \in Nat
      BY LenProperties DEF KeysInv, PostsInv
    <2>2. CASE s = <<>>
      <3>1. held = {}
        BY <2>1, <2>2 DEF Pressed
      <3> QED
        BY <2>1, <2>2, <3>1 DEF LastKey, Wanted
    <2>3. CASE s # <<>>
      <3>1. n \in 1..n /\ LastKey(s) = s[n]
        BY <2>1, <2>3, EmptySeq DEF LastKey
      <3>2. s[n] \in held /\ \A i \in 1..n : s[i] \in Keys
        BY <2>1, <3>1, ElementOfSeq DEF Pressed
      <3>3. \A i \in 1..n : i # n => pressed_at[s[i]] < pressed_at[s[n]]
        BY <2>1, <3>1 DEF KeysInv
      <3>4. \A i \in 1..n : pressed_at[s[i]] \in Nat
        BY <3>2 DEF KeysInv
      <3>5. \A j \in held : pressed_at[j] <= pressed_at[s[n]]
        <4> SUFFICES ASSUME NEW i \in 1..n PROVE pressed_at[s[i]] <= pressed_at[s[n]]
          BY <2>1 DEF Pressed
        <4> QED
          BY <3>1, <3>3, <3>4
      <3>6. \A j \in held : pressed_at[s[n]] <= pressed_at[j] => j = s[n]
        <4> SUFFICES ASSUME NEW i \in 1..n, pressed_at[s[n]] <= pressed_at[s[i]]
                     PROVE  s[i] = s[n]
          BY <2>1 DEF Pressed
        <4> QED
          BY <3>1, <3>3, <3>4
      <3>7. Wanted = s[n]
        <4> HIDE DEF s, n
        <4>1. Wanted = CHOOSE k \in held : \A j \in held : pressed_at[j] <= pressed_at[k]
          BY <3>2 DEF Wanted
        <4>2. Wanted \in held /\ \A j \in held : pressed_at[j] <= pressed_at[Wanted]
          BY <3>2, <3>5, <4>1
        <4> QED
          BY <3>2, <3>6, <4>2
      <3> QED
        BY <2>1, <3>1, <3>7
    <2> QED
      BY <2>2, <2>3
  <1> QED
    BY <1>1, SteeringStart, SteeringStep, PTL DEF SteeringSpec

-----------------------------------------------------------------------------
(* Turning.                                                                *)

\* While it turns, a dog is drawn where the turn has got to; no turn that is not wound up
\* begins more than a full turn away.
TurnInv ==
    /\ base_dir \in Int \cup {NaN} /\ desired_dir \in Int \cup {NaN}
    /\ converted_dir \in Int \cup {NaN}
    /\ since \in 0..(2 * Full)
    /\ (~wound /\ base_dir # NaN /\ desired_dir # NaN) =>
          /\ desired_dir - base_dir \in -Full..Full
          /\ converted_dir = Turned(since)

\* Angles that differ by r and full turns.
LEMMA ApartIs ==
    ASSUME NEW a \in Int, NEW b \in Int, NEW q \in {-1, 0, 1}, NEW r \in -Half..Half,
           a - b = Full * q + r
    PROVE  Apart(a, b) = Abs(r)
  <1>1. CASE r >= 0
    <2>1. (a - b) % Full = r
      BY <1>1 DEF Full, Half
    <2> QED
      BY <1>1, <2>1 DEF Apart, Abs, Full, Half
  <1>2. CASE r < 0
    <2>1. (a - b) % Full = Full + r
      BY <1>2 DEF Full, Half
    <2> QED
      BY <1>2, <2>1 DEF Apart, Abs, Full, Half
  <1> QED
    BY <1>1, <1>2

\* The way round is at most half a turn, and leads to the direction desired.
LEMMA ShortWay ==
    ASSUME NEW base \in Int, NEW desired \in Int, desired - base \in -Full..Full
    PROVE  LET delta == desired - base
           IN /\ RealDelta(delta) \in 0..Half /\ RotDir(delta) \in {-1, 1}
              /\ \E q \in {-1, 0, 1} : base + RotDir(delta) * RealDelta(delta) = desired + Full * q
  <1> DEFINE delta == desired - base
  <1>1. CASE delta <= -Half
    <2>1. RotDir(delta) = 1 /\ RealDelta(delta) = Full + delta
      BY <1>1 DEF RotDir, RealDelta, Abs, Full, Half
    <2> QED
      BY <1>1, <2>1 DEF Full, Half
  <1>2. CASE -Half < delta /\ delta < 0
    <2>1. RotDir(delta) = -1 /\ RealDelta(delta) = -delta
      BY <1>2 DEF RotDir, RealDelta, Abs, Full, Half
    <2> QED
      BY <1>2, <2>1 DEF Full, Half
  <1>3. CASE 0 <= delta /\ delta < Half
    <2>1. RotDir(delta) = 1 /\ RealDelta(delta) = delta
      BY <1>3 DEF RotDir, RealDelta, Abs, Full, Half
    <2> QED
      BY <1>3, <2>1 DEF Full, Half
  <1>4. CASE delta >= Half
    <2>1. RotDir(delta) = -1 /\ RealDelta(delta) = Full - delta
      BY <1>4 DEF RotDir, RealDelta, Abs, Full, Half
    <2> QED
      BY <1>4, <2>1 DEF Full, Half
  <1> QED
    BY <1>1, <1>2, <1>3, <1>4 DEF Half

\* What a dog is drawn like some time into its turn, and some time later.
LEMMA TurnedOn ==
    ASSUME NaNAssumption, base_dir \in Int, desired_dir \in Int,
           desired_dir - base_dir \in -Full..Full, NEW t \in Nat, NEW u \in Nat, t <= u
    PROVE  LET left == Apart(Turned(t), desired_dir)
           IN /\ Turned(t) \in Int /\ Turned(u) \in Int
              /\ Apart(Turned(u), Turned(t)) <= u - t
              /\ Apart(Turned(u), desired_dir) = IF left > u - t THEN left - (u - t) ELSE 0
  <1> DEFINE way == RealDelta(desired_dir - base_dir)
             rot == RotDir(desired_dir - base_dir)
  <1>1. way \in 0..Half /\ rot \in {-1, 1}
    BY ShortWay
  <1>2. PICK q \in {-1, 0, 1} : base_dir + rot * way = desired_dir + Full * q
    BY ShortWay
  <1>3. \A n \in Nat : Turned(n) = IF n > way THEN desired_dir ELSE base_dir + rot * n
    BY NaNAssumption DEF Turned
  <1> HIDE DEF way, rot
  <1>4. ASSUME NEW n \in Nat
        PROVE  Turned(n) \in Int /\ Apart(Turned(n), desired_dir) = IF n > way THEN 0 ELSE way - n
    <2>1. CASE n > way
      <3>1. Turned(n) = desired_dir /\ desired_dir - desired_dir = Full * 0 + 0
        BY <1>3, <2>1 DEF Full
      <3>2. Apart(desired_dir, desired_dir) = Abs(0)
        BY <3>1, ApartIs DEF Half
      <3> QED
        BY <2>1, <3>1, <3>2 DEF Abs
    <2>2. CASE n <= way
      <3> DEFINE r == -(rot * (way - n))
      <3>1. /\ Turned(n) = base_dir + rot * n /\ Turned(n) \in Int
            /\ r \in -Half..Half /\ Abs(r) = way - n /\ Turned(n) - desired_dir = Full * q + r
        <4>1. CASE rot = 1
          <5>1. r = n - way /\ Turned(n) = base_dir + n /\ base_dir + way = desired_dir + Full * q
            BY <1>1, <1>2, <1>3, <2>2, <4>1
          <5> QED
            BY <1>1, <2>2, <4>1, <5>1 DEF Abs, Full, Half
        <4>2. CASE rot = -1
          <5>1. r = way - n /\ Turned(n) = base_dir - n /\ base_dir - way = desired_dir + Full * q
            BY <1>1, <1>2, <1>3, <2>2, <4>2
          <5> QED
            BY <1>1, <2>2, <4>2, <5>1 DEF Abs, Full, Half
        <4> QED
          BY <1>1, <4>1, <4>2
      <3> HIDE DEF r
      <3>2. Apart(Turned(n), desired_dir) = Abs(r)
        BY <3>1, ApartIs
      <3> QED
        BY <1>1, <2>2, <3>1, <3>2
    <2> QED
      BY <1>1, <2>1, <2>2
  <1>5. Apart(Turned(u), Turned(t)) <= u - t
    <2>1. CASE u <= way
      <3> DEFINE r == rot * (u - t)
      <3>1. /\ Turned(t) = base_dir + rot * t /\ Turned(u) = base_dir + rot * u
        BY <1>1, <1>3, <2>1
      <3>2. r \in -Half..Half /\ Abs(r) = u - t /\ Turned(u) - Turned(t) = Full * 0 + r
        <4>1. CASE rot = 1
          BY <1>1, <2>1, <3>1, <4>1 DEF Abs, Full, Half
        <4>2. CASE rot = -1
          BY <1>1, <2>1, <3>1, <4>2 DEF Abs, Full, Half
        <4> QED
          BY <1>1, <4>1, <4>2
      <3> HIDE DEF r
      <3> QED
        BY <1>4, <3>2, ApartIs
    <2>2. CASE t <= way /\ way < u
      <3> DEFINE r == rot * (way - t)
      <3>1. Turned(t) = base_dir + rot * t /\ Turned(u) = desired_dir
        BY <1>1, <1>3, <2>2
      <3>2. /\ r \in -Half..Half /\ Abs(r) = way - t /\ -q \in {-1, 0, 1}
            /\ Turned(u) - Turned(t) = Full * (-q) + r
        <4>1. CASE rot = 1
          <5>1. base_dir + way = desired_dir + Full * q /\ Turned(t) = base_dir + t /\ r = way - t
            BY <1>1, <1>2, <3>1, <4>1
          <5> QED
            BY <1>1, <2>2, <3>1, <5>1 DEF Abs, Full, Half
        <4>2. CASE rot = -1
          <5>1. base_dir - way = desired_dir + Full * q /\ Turned(t) = base_dir - t /\ r = t - way
            BY <1>1, <1>2, <3>1, <4>2
          <5> QED
            BY <1>1, <2>2, <3>1, <5>1 DEF Abs, Full, Half
        <4> QED
          BY <1>1, <4>1, <4>2
      <3> HIDE DEF r
      <3>3. Apart(Turned(u), Turned(t)) = way - t
        BY <1>4, <3>2, ApartIs
      <3> QED
        BY <1>1, <2>2, <3>3
    <2>3. CASE way < t
      <3>1. Turned(t) = desired_dir /\ Turned(u) = desired_dir
        BY <1>1, <1>3, <2>3
      <3>2. Apart(desired_dir, desired_dir) = 0
        <4>1. desired_dir - desired_dir = Full * 0 + 0
          BY DEF Full
        <4> QED
          BY <4>1, ApartIs DEF Half, Abs
      <3> QED
        BY <3>1, <3>2
    <2> QED
      BY <1>1, <2>1, <2>2, <2>3
  <1>6. /\ Apart(Turned(t), desired_dir) = IF t > way THEN 0 ELSE way - t
        /\ Apart(Turned(u), desired_dir) = IF u > way THEN 0 ELSE way - u
        /\ Turned(t) \in Int /\ Turned(u) \in Int
    BY <1>4
  <1> QED
    BY <1>1, <1>5, <1>6

\* What a state that is shown does to the turn.
TurnsOn == (desired_dir # NaN /\ base_dir # NaN /\ ~wound /\ since' # since) =>
              LET left == Apart(converted_dir, desired_dir)
                  time == since' - since
              IN \/ since' = 0
                 \/ /\ Apart(converted_dir', converted_dir) <= time
                    /\ Apart(converted_dir', desired_dir) = IF left > time THEN left - time ELSE 0

LEMMA TurnStep ==
    ASSUME TurnInv, [SteeringNext]_steering
    PROVE  TurnInv' /\ TurnsOn
  <1>1. ASSUME NEW step \in Steps, ShowState(step) PROVE TurnInv' /\ TurnsOn
    <2> DEFINE newDir == convDirection(dir)
    <2>1. newDir \in Int \cup {NaN}
      BY DEF convDirection
    <2> HIDE DEF newDir
    <2>2. CASE desired_dir # newDir
      <3>1. /\ base_dir' = converted_dir /\ desired_dir' = newDir /\ since' = 0
            /\ converted_dir' = converted_dir
        BY <1>1, <2>2 DEF ShowState, newDir
      <3>2. wound' <=> (converted_dir # NaN /\ newDir # NaN /\ Abs(newDir - converted_dir) > Full)
        BY <1>1, <2>2 DEF ShowState, newDir
      <3>3. ASSUME ~wound', base_dir' # NaN, desired_dir' # NaN
            PROVE  /\ desired_dir' - base_dir' \in -Full..Full
                   /\ converted_dir' = Turned(since)'
        <4>1. converted_dir \in Int /\ newDir \in Int /\ ~(Abs(newDir - converted_dir) > Full)
          BY <2>1, <3>1, <3>2, <3>3 DEF TurnInv
        <4>2. newDir - converted_dir \in -Full..Full
          BY <4>1 DEF Abs, Full
        <4>3. /\ RealDelta(newDir - converted_dir) \in 0..Half
              /\ RotDir(newDir - converted_dir) \in {-1, 1}
          BY <4>1, <4>2, ShortWay
        <4>4. RotDir(newDir - converted_dir) * 0 = 0
          BY <4>3
        <4>5. ~(0 > RealDelta(newDir - converted_dir))
          BY <4>3 DEF Half
        <4>6. Turned(since)' = converted_dir
          BY <3>1, <4>1, <4>4, <4>5, NaNAssumption DEF Turned
        <4> QED
          BY <3>1, <4>2, <4>6
      <3>4. since' \in 0..(2 * Full)
        BY <3>1 DEF Full
      <3> QED
        BY <2>1, <3>1, <3>3, <3>4 DEF TurnInv, TurnsOn
    <2>3. CASE desired_dir = newDir
      <3>1. /\ since' = Capped(since + step) /\ converted_dir' = Turned(since')
            /\ base_dir' = base_dir /\ desired_dir' = desired_dir
        BY <1>1, <2>3 DEF ShowState, newDir
      <3>2. wound' <=> wound
        BY <1>1, <2>3 DEF ShowState, newDir
      <3>3. since' \in 0..(2 * Full) /\ since <= since' /\ since \in Nat /\ since' \in Nat
        BY <3>1, BoundAssumption DEF TurnInv, Capped, Full
      <3>4. Turned(since') = Turned(since)'
        BY <3>1 DEF Turned
      <3>5. Turned(since') \in Int \cup {NaN}
        <4>1. CASE base_dir = NaN
          BY <4>1 DEF Turned
        <4>2. CASE base_dir # NaN /\ desired_dir = NaN
          <5>1. base_dir \in Int /\ Turned(since') = base_dir - since'
            BY <4>2 DEF Turned, TurnInv
          <5> QED
            BY <3>3, <5>1
        <4>3. CASE base_dir \in Int /\ desired_dir \in Int
          <5>1. RotDir(desired_dir - base_dir) \in Int
            BY DEF RotDir
          <5> QED
            BY <3>3, <4>3, <5>1, NaNAssumption DEF Turned
        <4> QED
          BY <4>1, <4>2, <4>3 DEF TurnInv
      <3>6. TurnInv'
        BY <3>1, <3>2, <3>3, <3>4, <3>5 DEF TurnInv
      <3>7. TurnsOn
        <4> SUFFICES ASSUME desired_dir # NaN, base_dir # NaN, ~wound
                     PROVE  LET left == Apart(converted_dir, desired_dir)
                                time == since' - since
                            IN /\ Apart(converted_dir', converted_dir) <= time
                               /\ Apart(converted_dir', desired_dir)
                                     = IF left > time THEN left - time ELSE 0
          BY DEF TurnsOn
        <4>1. /\ base_dir \in Int /\ desired_dir \in Int /\ converted_dir = Turned(since)
              /\ desired_dir - base_dir \in -Full..Full
          BY DEF TurnInv
        <4> QED
          BY <3>1, <3>3, <4>1, TurnedOn, NaNAssumption
      <3> QED
        BY <3>6, <3>7
    <2> QED
      BY <2>2, <2>3
  <1>2. CASE UNCHANGED rotation
    BY <1>2 DEF rotation, TurnInv, TurnsOn, Turned
  <1>3. CASE UNCHANGED steering
    BY <1>2, <1>3 DEF steering
  <1> QED
    BY <1>1, <1>2, <1>3 DEF SteeringNext, KeyDown, KeyUp, LeaveWindow, Handle, Lose

LEMMA TurnStart == SteeringInit => TurnInv
  <1> SUFFICES ASSUME SteeringInit PROVE TurnInv
    OBVIOUS
  <1>1. convDirection(dir) \in Int \cup {NaN}
    BY DEF convDirection
  <1>2. /\ base_dir = convDirection(dir) /\ desired_dir = base_dir /\ converted_dir = base_dir
        /\ since = 0
    BY DEF SteeringInit
  <1>3. ASSUME base_dir # NaN PROVE base_dir - base_dir \in -Full..Full /\ base_dir = Turned(0)
    <2>1. base_dir \in Int /\ base_dir - base_dir = 0
      BY <1>1, <1>2, <1>3
    <2>2. RotDir(0) = 1 /\ RealDelta(0) = 0
      BY DEF RotDir, RealDelta, Abs, Half
    <2> QED
      BY <1>2, <1>3, <2>1, <2>2 DEF Turned, Full
  <1>4. since \in 0..(2 * Full)
    BY <1>2 DEF Full
  <1> QED
    BY <1>1, <1>2, <1>3, <1>4 DEF TurnInv

\* A dog is shown turning the short way and at its own speed, whatever the times between
\* two states are, as long as broken-off turns do not wind it up (_interpolateRotation).
THEOREM TurnsAlways == SteeringSpec => TurnsTheShortWay
  <1>1. TurnInv /\ [SteeringNext]_steering => [TurnsOn]_rotation
    BY TurnStep
  <1>2. TurnInv /\ [SteeringNext]_steering => TurnInv'
    BY TurnStep
  <1> QED
    BY <1>1, <1>2, TurnStart, PTL DEF SteeringSpec, TurnsTheShortWay, TurnsOn

=============================================================================
