------------------------- MODULE ApplicationProofs -------------------------
(***************************************************************************)
(* Proofs about the registry, for every set of users and maps, every       *)
(* finite set of player ids, all times and all bounds.                     *)
(***************************************************************************)
EXTENDS Application, FiniteSetTheorems, TLAPS

-----------------------------------------------------------------------------
(* The inductive invariant, by parts.                                      *)

\* A process that is down holds nothing, and is not in a tick.
DownInv == ~up => /\ pc = "idle" /\ remove = {}
                  /\ \A m \in Maps, id \in PlayerIds : dogs[m][id] = None

\* Inside the loops of Tick: the ids to be handled are those of dogs of cur.
LoopInv ==
    /\ pc \in {"dogs", "removing"} =>
          /\ cur \in Maps
          /\ \A id \in todo \cup remove : dogs[cur][id] # None
    /\ pc = "dogs" => todo \cap remove = {}
    /\ pc = "removing" => todo = {}
    /\ pc \in {"idle", "sessions"} => remove = {}

\* Every dog has the name of its user: two dogs, two users.
NamesInv ==
    /\ \A m, n \in Maps, i, j \in PlayerIds :
          (dogs[m][i] # None /\ dogs[n][j] # None /\ dogs[m][i].name = dogs[n][j].name)
              => m = n /\ i = j
    /\ \A m \in Maps, id \in PlayerIds :
          dogs[m][id] # None => dogs[m][id].name \in joined

\* The same of the state file.
FileNamesInv == stateFile # None =>
    /\ \A m, n \in Maps, i, j \in PlayerIds :
          (/\ stateFile.dogs[m][i] # None /\ stateFile.dogs[n][j] # None
           /\ stateFile.dogs[m][i].name = stateFile.dogs[n][j].name)
              => m = n /\ i = j
    /\ \A m \in Maps, id \in PlayerIds :
          stateFile.dogs[m][id] # None => stateFile.dogs[m][id].name \in joined

\* While the counter is above all live ids, dogs, players and tokens agree.
RegistryInv == counterOK =>
    /\ \A m \in Maps, id \in PlayerIds : dogs[m][id] # None =>
          /\ id < player_incr_id
          /\ players[id] = m
          /\ tokens[dogs[m][id].name] = [id |-> id, map |-> m]
    /\ \A id \in PlayerIds : players[id] # None => dogs[players[id]][id] # None
    /\ \A t \in Tokens : tokens[t] # None => DogOf(t) # None /\ DogOf(t).name = t

\* The state file agrees with itself: an id is on one map, its token is that of
\* the dog, and no two dogs have the same token.
FileInv == (counterOK /\ stateFile # None) =>
    /\ \A m \in Maps, id \in PlayerIds : stateFile.dogs[m][id] # None =>
          stateFile.token[id] = stateFile.dogs[m][id].name
    /\ \A m, n \in Maps, id \in PlayerIds :
          (stateFile.dogs[m][id] # None /\ stateFile.dogs[n][id] # None) => m = n

\* A dog on the list of those to remove has its record.
RemoveInv ==
    \A id \in remove : records[dogs[cur][id].name] # <<>>

\* A user can be recorded once more only while the dog is in the game and not
\* yet on the list, or after a cut tick, or after another start.
Spent(u) == ~\E m \in Maps, id \in PlayerIds :
                dogs[m][id] # None /\ dogs[m][id].name = u /\ ~(m = cur /\ id \in remove)

CountInv ==
    \A u \in Users : Len(records[u]) <= aborts + restarts + (IF up /\ ~Spent(u) THEN 0 ELSE 1)

\* Who has not joined has no record.
NewUserInv == \A u \in Users \ joined : records[u] = <<>>

-----------------------------------------------------------------------------
(* Type correctness.                                                       *)

TypeInv == TypeOK /\ DownInv /\ LoopInv

\* What a process holds when it starts without a state file is well typed.
LEMMA BlankTyped ==
    ASSUME Blank
    PROVE  /\ sessions' \subseteq Maps
           /\ dogs' \in [Maps -> [PlayerIds -> Dog \cup {None}]]
           /\ players' \in [PlayerIds -> Maps \cup {None}]
           /\ tokens' \in [Tokens -> Player \cup {None}]
           /\ player_incr_id' \in Nat
           /\ \A m \in Maps, id \in PlayerIds : dogs'[m][id] = None
  BY DEF Blank, NoDogs

\* BackUpData leaves a state file of the right form.
LEMMA BackUpTyped ==
    ASSUME TypeOK, BackUpData
    PROVE  stateFile' \in File \cup {None}
  <1>1. CASE ~HasStateFile
    BY <1>1 DEF TypeOK, BackUpData
  <1>2. CASE HasStateFile
    <2>1. \A m \in Maps, id \in PlayerIds : Save(dogs[m][id]) \in Saved \cup {None}
      BY DEF TypeOK, Save, Dog, Saved
    <2>2. [m \in Maps |-> [id \in PlayerIds |-> Save(dogs[m][id])]]
             \in [Maps -> [PlayerIds -> Saved \cup {None}]]
      BY <2>1
    <2> QED
      BY <1>2, <2>2 DEF BackUpData, File
  <1> QED
    BY <1>1, <1>2

\* The process dies: nothing is left of its memory.
LEMMA DieTyped ==
    ASSUME TypeInv, Die, records' \in [Users -> Seq(Nat)],
           stateFile' \in File \cup {None}, aborts' \in Nat, crashed' \in BOOLEAN
    PROVE  TypeInv'
  BY BlankTyped, TimeAssumption
  DEF TypeInv, TypeOK, DownInv, LoopInv, Die, StartClock, Rest

\* Restoring a state file gives a well typed registry.
LEMMA RestoreTyped ==
    ASSUME NEW f \in File, RestoreBackUpData(f)
    PROVE  /\ sessions' \subseteq Maps
           /\ dogs' \in [Maps -> [PlayerIds -> Dog \cup {None}]]
           /\ players' \in [PlayerIds -> Maps \cup {None}]
           /\ tokens' \in [Tokens -> Player \cup {None}]
           /\ player_incr_id' \in Nat
  <1>1. f.dogs \in [Maps -> [PlayerIds -> Saved \cup {None}]]
    BY DEF File
  <1>2. \A m \in Maps, id \in PlayerIds : Restore(f.dogs[m][id]) \in Dog \cup {None}
    BY <1>1 DEF Restore, Saved, Dog
  <1>3. dogs' \in [Maps -> [PlayerIds -> Dog \cup {None}]]
    BY <1>2 DEF RestoreBackUpData
  <1>4. players' \in [PlayerIds -> Maps \cup {None}] /\ RestoredPlayers(f.dogs, players')
    BY DEF RestoreBackUpData
  <1>5. tokens' \in [Tokens -> Player \cup {None}]
    <2>1. PICK owner \in [Tokens -> PlayerIds \cup {None}] :
             /\ RestoredTokens(f, owner)
             /\ tokens' = [t \in Tokens |->
                             IF owner[t] = None THEN None
                             ELSE [id |-> owner[t], map |-> players'[owner[t]]]]
      BY DEF RestoreBackUpData
    <2>2. \A t \in Tokens : owner[t] # None =>
             owner[t] \in PlayerIds /\ owner[t] \in LiveIds(f.dogs)
      BY <2>1 DEF RestoredTokens, Claims
    <2>3. \A id \in LiveIds(f.dogs) : players'[id] \in Maps
      BY <1>4 DEF RestoredPlayers, LiveIds
    <2> QED
      BY <2>1, <2>2, <2>3 DEF Player
  <1>6. LiveIds(f.dogs) \subseteq PlayerIds
    BY DEF LiveIds
  <1>7. player_incr_id' \in Nat
    BY <1>6, IdsAssumption, FS_Subset, FS_CardinalityType DEF RestoreBackUpData, RestoreIncr
  <1> QED
    BY <1>3, <1>4, <1>5, <1>7 DEF RestoreBackUpData

\* Advancing a dog gives a dog of the same name.
LEMMA AdvancedTyped ==
    ASSUME NEW d \in Dog, NEW moving \in BOOLEAN, dt \in Nat
    PROVE  /\ Advanced(d, moving) \in Dog
           /\ Advanced(d, moving).name = d.name
  <1> DEFINE stop == IF Stands(d) THEN d.stop + dt ELSE 0
  <1>1. d.life + dt \in Nat /\ stop \in Nat
    BY DEF Dog
  <1>2. Advanced(d, moving) = [d EXCEPT !.life = d.life + dt, !.stop = stop,
                                        !.moving = moving]
    BY DEF Advanced
  <1> HIDE DEF stop
  <1> QED
    BY <1>1, <1>2 DEF Dog

LEMMA TypeStep == TypeInv /\ [Next]_vars => TypeInv'
  <1> SUFFICES ASSUME TypeInv, [Next]_vars PROVE TypeInv'
    OBVIOUS
  <1> USE DEF TypeInv, TypeOK, DownInv, LoopInv, durable, world, registry, clock,
              loop, ghosts
  <1>1. ASSUME NEW u \in Users, NEW m \in Maps, JoinGame(u, m) PROVE TypeInv'
    <2> DEFINE id == player_incr_id
               new == [name |-> u, moving |-> FALSE, life |-> 0, stop |-> 0]
    <2>1. new \in Dog /\ id \in PlayerIds
      BY <1>1 DEF JoinGame, Dog
    <2>2. dogs' = [dogs EXCEPT ![m][id] = Emplace(dogs[m][id], new)]
      BY <1>1 DEF JoinGame
    <2>3. dogs' \in [Maps -> [PlayerIds -> Dog \cup {None}]]
      BY <2>1, <2>2 DEF Emplace
    <2>4. /\ players' = [players EXCEPT ![id] = Emplace(players[id], m)]
          /\ tokens' = [tokens EXCEPT ![u] = [id |-> id, map |-> players'[id]]]
      BY <1>1 DEF JoinGame
    <2>5. players' \in [PlayerIds -> Maps \cup {None}] /\ players'[id] \in Maps
      BY <2>1, <2>4, NoneAssumption DEF Emplace
    <2>6. tokens' \in [Tokens -> Player \cup {None}]
      BY <2>1, <2>4, <2>5 DEF Player, Tokens
    <2> QED
      BY <1>1, <2>3, <2>5, <2>6 DEF JoinGame, NextIncr
  <1>2. ASSUME NEW t \in Users, NEW move \in BOOLEAN, PlayerAction(t, move)
        PROVE TypeInv'
    <2>1. tokens[t].map \in Maps /\ tokens[t].id \in PlayerIds
      BY <1>2 DEF PlayerAction, Player, Tokens
    <2>2. DogOf(t) \in Dog
      BY <1>2, <2>1 DEF PlayerAction, DogOf
    <2>3. [DogOf(t) EXCEPT !.moving = move] \in Dog
      BY <2>2 DEF Dog
    <2>4. dogs' = [dogs EXCEPT ![tokens[t].map] =
                     [dogs[tokens[t].map] EXCEPT ![tokens[t].id] =
                        [DogOf(t) EXCEPT !.moving = move]]]
      BY <1>2, <2>1 DEF PlayerAction, DogOf
    <2>5. dogs' \in [Maps -> [PlayerIds -> Dog \cup {None}]]
      BY <2>1, <2>3, <2>4
    <2> QED
      BY <1>2, <2>5 DEF PlayerAction
  <1>3. ASSUME NEW t \in Users, PlayerActionThrows(t) PROVE TypeInv'
    BY <1>3, DieTyped DEF PlayerActionThrows
  <1>4. ASSUME NEW delta \in Deltas, TickBegin(delta) PROVE TypeInv'
    BY <1>4, TimeAssumption DEF TickBegin
  <1>5. ASSUME NEW m \in Maps, SessionBegin(m) PROVE TypeInv'
    BY <1>5 DEF SessionBegin, IdsIn
  <1>6. ASSUME NEW id \in PlayerIds, NEW moving \in BOOLEAN, Visit(id, moving)
        PROVE /\ dogs' \in [Maps -> [PlayerIds -> Dog \cup {None}]]
              /\ \A i \in PlayerIds : dogs[cur][i] # None => dogs'[cur][i] # None
              /\ dogs[cur][id] \in Dog
    <2>1. cur \in Maps /\ dogs[cur][id] \in Dog
      BY <1>6 DEF Visit
    <2>2. Advanced(dogs[cur][id], moving) \in Dog
      BY <2>1, AdvancedTyped
    <2> QED
      BY <1>6, <2>1, <2>2, NoneAssumption DEF Visit
  <1>7. ASSUME NEW d \in Dog, StoreRecord(d) PROVE records' \in [Users -> Seq(Nat)]
    <2>1. d.name \in Users /\ d.life + dt \in Nat
      BY DEF Dog
    <2>2. Append(records[d.name], d.life + dt) \in Seq(Nat)
      BY <2>1
    <2> QED
      BY <1>7, <2>1, <2>2 DEF StoreRecord
  <1>8. ASSUME NEW id \in PlayerIds, NEW moving \in BOOLEAN, TickDog(id, moving)
        PROVE TypeInv'
    <2>1. Visit(id, moving)
      BY <1>8 DEF TickDog
    <2>2. records' \in [Users -> Seq(Nat)]
      BY <1>6, <1>7, <1>8, <2>1 DEF TickDog
    <2>3. pc = "dogs" /\ up
      BY <2>1 DEF Visit
    <2>4. TypeOK'
      BY <1>6, <1>8, <2>1, <2>2 DEF TickDog
    <2>5. \A i \in PlayerIds : dogs[cur][i] # None => dogs'[cur][i] # None
      BY <1>6, <2>1
    <2>6. /\ todo' = todo \ {id} /\ remove' \in {remove, remove \cup {id}}
          /\ pc' = pc /\ cur' = cur /\ up' = up /\ id \in todo
      BY <1>8, <2>1 DEF TickDog, Visit
    <2>7. DownInv' /\ LoopInv'
      BY <2>3, <2>5, <2>6
    <2> QED
      BY <2>4, <2>7
  <1>9. ASSUME NEW id \in PlayerIds, NEW moving \in BOOLEAN, NEW committed \in BOOLEAN,
               SaveThrows(id, moving, committed)
        PROVE TypeInv'
    <2>1. Visit(id, moving)
      BY <1>9 DEF SaveThrows
    <2>2. records' \in [Users -> Seq(Nat)]
      BY <1>6, <1>7, <1>9, <2>1 DEF SaveThrows
    <2>3. TypeOK'
      BY <1>6, <1>9, <2>1, <2>2 DEF SaveThrows, Rest
    <2>4. DownInv' /\ LoopInv'
      BY <1>9 DEF SaveThrows, Rest, Visit
    <2> QED
      BY <2>3, <2>4
  <1>10. ASSUME NEW id \in PlayerIds, NEW committed \in BOOLEAN, SaveKills(id, committed)
         PROVE TypeInv'
    <2>1. dogs[cur][id] \in Dog
      BY <1>10 DEF SaveKills
    <2>2. records' \in [Users -> Seq(Nat)]
      BY <1>7, <1>10, <2>1 DEF SaveKills
    <2> QED
      BY <1>10, <2>2, DieTyped DEF SaveKills
  <1>11. CASE DogsDone
    BY <1>11 DEF DogsDone
  <1>12. ASSUME NEW id \in PlayerIds, RemoveDog(id) PROVE TypeInv'
    <2>1. dogs' \in [Maps -> [PlayerIds -> Dog \cup {None}]]
      BY <1>12 DEF RemoveDog, WithoutDog
    <2>2. players' \in [PlayerIds -> Maps \cup {None}]
      BY <1>12 DEF RemoveDog
    <2>3. tokens' \in [Tokens -> Player \cup {None}]
      BY <1>12 DEF RemoveDog, RemoveToken
    <2>4. \A i \in PlayerIds \ {id} : dogs'[cur][i] = dogs[cur][i]
      BY <1>12 DEF RemoveDog, WithoutDog
    <2> QED
      BY <1>12, <2>1, <2>2, <2>3, <2>4 DEF RemoveDog
  <1>13. CASE SessionEnd
    BY <1>13 DEF SessionEnd
  <1>14. CASE TickEnd
    <2>1. stateFile' \in File \cup {None}
      BY <1>14, BackUpTyped DEF TickEnd
    <2> QED
      BY <1>14, <2>1, TimeAssumption DEF TickEnd, Rest
  <1>15. CASE BackupThrows
    BY <1>15, TimeAssumption DEF BackupThrows, Rest
  <1>16. CASE Stop
    BY <1>16, BackUpTyped, DieTyped DEF Stop
  <1>17. CASE Crash
    BY <1>17, DieTyped DEF Crash
  <1>18. CASE Start
    <2>1. /\ sessions' \subseteq Maps
          /\ dogs' \in [Maps -> [PlayerIds -> Dog \cup {None}]]
          /\ players' \in [PlayerIds -> Maps \cup {None}]
          /\ tokens' \in [Tokens -> Player \cup {None}]
          /\ player_incr_id' \in Nat
      BY <1>18, BlankTyped, RestoreTyped DEF Start
    <2>2. counterOK' \in BOOLEAN
      BY <1>18, Zenon DEF Start
    <2>3. TypeOK'
      <3>1. restarts' \in Nat /\ aborts' = aborts /\ joined' = joined /\ crashed' = crashed
        BY <1>18 DEF Start
      <3>2. up' = TRUE /\ cutShort' = FALSE /\ records' = records /\ stateFile' = stateFile
        BY <1>18 DEF Start
      <3>3. server_time' = 0 /\ backup_time' = SavePeriod /\ Rest
        BY <1>18 DEF Start, StartClock
      <3> QED
        BY <2>1, <2>2, <3>1, <3>2, <3>3, TimeAssumption DEF Rest
    <2>4. DownInv' /\ LoopInv'
      BY <1>18 DEF Start, Rest
    <2> QED
      BY <2>3, <2>4
  <1>19. CASE UNCHANGED vars
    BY <1>19 DEF vars, DogOf
  <1> QED
    BY <1>1, <1>2, <1>3, <1>4, <1>5, <1>8, <1>9, <1>10, <1>11, <1>12, <1>13,
       <1>14, <1>15, <1>16, <1>17, <1>18, <1>19
    DEF Next, Requests, Tick, Process

LEMMA TypeInit == Init => TypeInv
  <1> SUFFICES ASSUME Init PROVE TypeInv
    OBVIOUS
  <1>1. records \in [Users -> Seq(Nat)]
    BY DEF Init
  <1>2. dogs \in [Maps -> [PlayerIds -> Dog \cup {None}]]
    BY DEF Init, NoDogs
  <1>3. TypeOK
    BY <1>1, <1>2, TimeAssumption DEF Init, TypeOK
  <1> QED
    BY <1>3 DEF Init, TypeInv, DownInv, LoopInv

\* The registry, the clocks, the records and the state file keep their types,
\* whatever the maps, the users and the bounds.
THEOREM TypeCorrect == Spec => []TypeOK
  <1>1. Spec => []TypeInv
    BY TypeInit, TypeStep, PTL DEF Spec
  <1>2. TypeInv => TypeOK
    BY DEF TypeInv
  <1> QED
    BY <1>1, <1>2, PTL

-----------------------------------------------------------------------------
(* Dogs, players, tokens and the state file agree.                         *)

AgreeInv == NamesInv /\ FileNamesInv /\ RegistryInv /\ FileInv

\* The same dogs, under the same names, before and after a step.
SameDogs == \A m \in Maps, id \in PlayerIds :
                /\ (dogs'[m][id] = None) <=> (dogs[m][id] = None)
                /\ dogs[m][id] # None => dogs'[m][id].name = dogs[m][id].name

\* A step that takes no dog in or out, and leaves the tables alone, is harmless.
LEMMA AgreeSame ==
    ASSUME TypeInv, TypeInv', NamesInv, RegistryInv, SameDogs,
           UNCHANGED <<players, tokens, player_incr_id, joined, counterOK>>
    PROVE  NamesInv' /\ RegistryInv'
  <1>1. NamesInv'
    BY DEF NamesInv, SameDogs
  <1>2. ASSUME counterOK
        PROVE  RegistryInv'
    <2>1. ASSUME NEW m \in Maps, NEW id \in PlayerIds, dogs'[m][id] # None
          PROVE  /\ id < player_incr_id'
                 /\ players'[id] = m
                 /\ tokens'[dogs'[m][id].name] = [id |-> id, map |-> m]
      BY <1>2, <2>1 DEF RegistryInv, SameDogs
    <2>2. ASSUME NEW id \in PlayerIds, players'[id] # None
          PROVE  dogs'[players'[id]][id] # None
      BY <1>2, <2>2 DEF RegistryInv, SameDogs, TypeInv, TypeOK
    <2>3. ASSUME NEW t \in Tokens, tokens'[t] # None
          PROVE  DogOf(t)' # None /\ DogOf(t)'.name = t
      <3>1. tokens[t] = tokens'[t] /\ tokens[t].map \in Maps /\ tokens[t].id \in PlayerIds
        BY <2>3 DEF TypeInv, TypeOK, Player
      <3>2. dogs[tokens[t].map][tokens[t].id] # None
            /\ dogs[tokens[t].map][tokens[t].id].name = t
        BY <1>2, <2>3, <3>1 DEF RegistryInv, DogOf
      <3> QED
        BY <3>1, <3>2 DEF SameDogs, DogOf
    <2> QED
      BY <2>1, <2>2, <2>3 DEF RegistryInv
  <1> QED
    BY <1>1, <1>2 DEF RegistryInv

\* Neither does a state file change that is not written.
LEMMA FileSame ==
    ASSUME FileNamesInv, FileInv, UNCHANGED <<stateFile, joined, counterOK>>
    PROVE  FileNamesInv' /\ FileInv'
  BY DEF FileNamesInv, FileInv

\* The loop over the dogs keeps every dog.
LEMMA VisitSame ==
    ASSUME TypeInv, NEW id \in PlayerIds, NEW moving \in BOOLEAN, Visit(id, moving)
    PROVE  SameDogs
  <1>1. cur \in Maps /\ dogs[cur][id] \in Dog
    BY DEF TypeInv, TypeOK, LoopInv, Visit
  <1>2. /\ Advanced(dogs[cur][id], moving).name = dogs[cur][id].name
        /\ Advanced(dogs[cur][id], moving) # None
    <2>1. dt \in Nat
      BY DEF TypeInv, TypeOK
    <2>2. /\ Advanced(dogs[cur][id], moving) \in Dog
          /\ Advanced(dogs[cur][id], moving).name = dogs[cur][id].name
      BY <1>1, <2>1, AdvancedTyped
    <2> QED
      BY <2>2, NoneAssumption
  <1> QED
    BY <1>1, <1>2 DEF Visit, SameDogs, TypeInv, TypeOK

\* A request to move or to stop keeps every dog too.
LEMMA ActionSame ==
    ASSUME TypeInv, NEW t \in Users, NEW move \in BOOLEAN, PlayerAction(t, move)
    PROVE  SameDogs
  <1>1. tokens[t].map \in Maps /\ tokens[t].id \in PlayerIds /\ DogOf(t) \in Dog
    BY DEF PlayerAction, Player, Tokens, DogOf, TypeInv, TypeOK
  <1> DEFINE d == [DogOf(t) EXCEPT !.moving = move]
  <1>2. d \in Dog /\ d.name = DogOf(t).name
    BY <1>1 DEF Dog
  <1>3. dogs' = [dogs EXCEPT ![tokens[t].map] =
                   [dogs[tokens[t].map] EXCEPT ![tokens[t].id] = d]]
    BY <1>1 DEF PlayerAction, DogOf, TypeInv, TypeOK
  <1> HIDE DEF d
  <1> QED
    <2>1. dogs'[tokens[t].map][tokens[t].id] = d
      BY <1>1, <1>3 DEF TypeInv, TypeOK
    <2>2. \A m \in Maps, id \in PlayerIds :
             ~(m = tokens[t].map /\ id = tokens[t].id) => dogs'[m][id] = dogs[m][id]
      BY <1>1, <1>3 DEF TypeInv, TypeOK
    <2>3. d # None /\ dogs[tokens[t].map][tokens[t].id] # None
          /\ d.name = dogs[tokens[t].map][tokens[t].id].name
      BY <1>1, <1>2, NoneAssumption DEF DogOf
    <2> QED
      BY <2>1, <2>2, <2>3 DEF SameDogs

\* An emptied registry agrees with itself.
LEMMA AgreeBlank ==
    ASSUME Blank PROVE NamesInv' /\ RegistryInv'
  BY DEF Blank, NoDogs, NamesInv, RegistryInv

\* What BackUpData writes agrees with itself.
LEMMA BackUpAgrees ==
    ASSUME TypeInv, AgreeInv, BackUpData, UNCHANGED <<joined, counterOK>>
    PROVE  FileNamesInv' /\ FileInv'
  <1>1. CASE ~HasStateFile
    BY <1>1, FileSame DEF BackUpData, AgreeInv
  <1>2. CASE HasStateFile
    <2>1. PICK tok \in [PlayerIds -> Tokens \cup {None}] :
            /\ \A id \in PlayerIds : IF TokensOf(id) = {} THEN tok[id] = None
                                     ELSE tok[id] \in TokensOf(id)
            /\ stateFile' =
                 [dogs  |-> [m \in Maps |-> [id \in PlayerIds |-> Save(dogs[m][id])]],
                  token |-> tok]
      BY <1>2 DEF BackUpData
    <2>2. \A m \in Maps, id \in PlayerIds :
            /\ stateFile'.dogs[m][id] = Save(dogs[m][id])
            /\ stateFile'.token[id] = tok[id]
      BY <2>1
    <2>3. \A m \in Maps, id \in PlayerIds :
            stateFile'.dogs[m][id] # None =>
               dogs[m][id] # None /\ stateFile'.dogs[m][id].name = dogs[m][id].name
      <3>1. \A m \in Maps, id \in PlayerIds : Save(dogs[m][id]) # None =>
               dogs[m][id] # None /\ Save(dogs[m][id]).name = dogs[m][id].name
        BY DEF Save
      <3> QED
        BY <2>2, <3>1
    <2>4. FileNamesInv'
      BY <2>3 DEF FileNamesInv, AgreeInv, NamesInv
    <2>5. ASSUME counterOK, NEW m \in Maps, NEW id \in PlayerIds, dogs[m][id] # None
          PROVE  TokensOf(id) = {dogs[m][id].name}
      <3>1. dogs[m][id].name \in Tokens
        BY <2>5 DEF TypeInv, TypeOK, Dog, Tokens
      <3>2. dogs[m][id].name \in TokensOf(id)
        <4>1. tokens[dogs[m][id].name] = [id |-> id, map |-> m]
          BY <2>5 DEF AgreeInv, RegistryInv
        <4>2. [id |-> id, map |-> m] \in Player
          BY DEF Player
        <4> QED
          BY <3>1, <4>1, <4>2, NoneAssumption DEF TokensOf
      <3>3. ASSUME NEW t \in TokensOf(id) PROVE t = dogs[m][id].name
        <4>1. tokens[t] # None /\ tokens[t].id = id /\ tokens[t].map \in Maps
          BY <3>3 DEF TokensOf, TypeInv, TypeOK, Player
        <4>2. dogs[tokens[t].map][id] # None /\ dogs[tokens[t].map][id].name = t
          BY <2>5, <4>1, <3>3 DEF AgreeInv, RegistryInv, DogOf, TokensOf
        <4>3. players[id] = m /\ players[id] = tokens[t].map
          BY <2>5, <4>1, <4>2 DEF AgreeInv, RegistryInv
        <4> QED
          BY <4>2, <4>3
      <3> QED
        BY <3>2, <3>3
    <2>6. ASSUME counterOK, NEW m \in Maps, NEW id \in PlayerIds, dogs[m][id] # None
          PROVE  tok[id] = dogs[m][id].name /\ players[id] = m
      <3>1. tok[id] \in TokensOf(id) /\ TokensOf(id) = {dogs[m][id].name}
        BY <2>1, <2>5, <2>6
      <3> QED
        BY <2>6, <3>1 DEF AgreeInv, RegistryInv
    <2>7. FileInv'
      BY <2>2, <2>3, <2>6 DEF FileInv
    <2> QED
      BY <2>4, <2>7
  <1> QED
    BY <1>1, <1>2

\* Restoring a state file that agrees with itself, with a counter above its ids,
\* gives a registry that agrees with itself.
LEMMA RestoreAgrees ==
    ASSUME NEW f \in File, stateFile = f, FileNamesInv, FileInv, joined' = joined,
           RestoreBackUpData(f),
           counterOK' => counterOK /\ \A id \in LiveIds(dogs') : id < player_incr_id'
    PROVE  NamesInv' /\ RegistryInv'
  <1>1. \A m \in Maps, id \in PlayerIds :
           /\ f.dogs[m][id] \in Saved \cup {None}
           /\ dogs'[m][id] = Restore(f.dogs[m][id])
    BY DEF File, RestoreBackUpData
  <1>2. \A m \in Maps, id \in PlayerIds :
           /\ dogs'[m][id] # None <=> f.dogs[m][id] # None
           /\ dogs'[m][id] # None => dogs'[m][id].name = f.dogs[m][id].name
    <2>1. \A s \in Saved \cup {None} :
             /\ Restore(s) # None <=> s # None
             /\ s # None => Restore(s).name = s.name
      <3>1. \A s \in Saved : [name |-> s.name, moving |-> s.moving, life |-> 0, stop |-> 0]
                               \in Dog
        BY DEF Saved, Dog
      <3> QED
        BY <3>1, NoneAssumption DEF Restore
    <2> QED
      BY <1>1, <2>1
  <1>3. f # None
    BY NoneAssumption
  <1>4. NamesInv'
    BY <1>2, <1>3 DEF NamesInv, FileNamesInv
  <1>5. ASSUME counterOK' PROVE RegistryInv'
    <2>1. counterOK
      BY <1>5
    <2>2. \A m \in Maps, id \in PlayerIds :
             f.dogs[m][id] # None => f.token[id] = f.dogs[m][id].name
      BY <1>3, <2>1 DEF FileInv
    <2>3. \A m, n \in Maps, id \in PlayerIds :
             (f.dogs[m][id] # None /\ f.dogs[n][id] # None) => m = n
      BY <1>3, <2>1 DEF FileInv
    <2>4. \A id \in PlayerIds :
             /\ id \in LiveIds(f.dogs) =>
                   players'[id] \in Maps /\ f.dogs[players'[id]][id] # None
             /\ id \notin LiveIds(f.dogs) => players'[id] = None
      BY DEF RestoreBackUpData, RestoredPlayers
    <2>5. PICK owner \in [Tokens -> PlayerIds \cup {None}] :
             /\ RestoredTokens(f, owner)
             /\ tokens' = [t \in Tokens |->
                             IF owner[t] = None THEN None
                             ELSE [id |-> owner[t], map |-> players'[owner[t]]]]
      BY DEF RestoreBackUpData
    <2>6. \A id \in LiveIds(f.dogs) : \E m \in Maps :
             /\ f.dogs[m][id] # None /\ f.dogs[m][id].name \in Users
             /\ f.token[id] = f.dogs[m][id].name
      BY <1>1, <2>2 DEF LiveIds, Saved
    <2>7. \A t \in Tokens : Claims(f, t) = {id \in LiveIds(f.dogs) : f.token[id] = t}
      BY <2>6, NoneAssumption, NamesAssumption DEF Claims, Tokens
    <2>8. ASSUME NEW i \in LiveIds(f.dogs), NEW j \in LiveIds(f.dogs), f.token[i] = f.token[j]
          PROVE  i = j
      BY <1>3, <2>6, <2>8 DEF FileNamesInv, LiveIds
    <2>9. ASSUME NEW m \in Maps, NEW id \in PlayerIds, dogs'[m][id] # None
          PROVE  /\ id < player_incr_id'
                 /\ players'[id] = m
                 /\ tokens'[dogs'[m][id].name] = [id |-> id, map |-> m]
      <3>1. f.dogs[m][id] # None /\ id \in LiveIds(f.dogs) /\ id \in LiveIds(dogs')
        BY <1>2, <2>9 DEF LiveIds
      <3>2. players'[id] = m
        BY <2>3, <2>4, <3>1
      <3> DEFINE t == dogs'[m][id].name
      <3>3. t \in Tokens /\ t = f.token[id]
        BY <1>1, <1>2, <2>2, <2>9, <3>1 DEF Saved, Tokens
      <3>4. id \in Claims(f, t)
        BY <2>7, <3>1, <3>3
      <3>5. owner[t] \in Claims(f, t)
        BY <2>5, <3>3, <3>4 DEF RestoredTokens
      <3>6. owner[t] = id
        BY <2>7, <2>8, <3>1, <3>3, <3>5
      <3>7. tokens'[t] = [id |-> id, map |-> m]
        BY <2>5, <3>2, <3>3, <3>6, NoneAssumption
      <3> QED
        BY <1>5, <3>1, <3>2, <3>7
    <2>10. ASSUME NEW id \in PlayerIds, players'[id] # None
           PROVE  dogs'[players'[id]][id] # None
      BY <1>2, <2>4, <2>10
    <2>11. ASSUME NEW t \in Tokens, tokens'[t] # None
           PROVE  DogOf(t)' # None /\ DogOf(t)'.name = t
      <3>1. owner[t] # None /\ tokens'[t] = [id |-> owner[t], map |-> players'[owner[t]]]
        BY <2>5, <2>11
      <3> DEFINE id == owner[t]
      <3>2. id \in LiveIds(f.dogs) /\ f.token[id] = t
        BY <2>5, <2>7, <3>1 DEF RestoredTokens
      <3>3. id \in PlayerIds /\ players'[id] \in Maps /\ f.dogs[players'[id]][id] # None
        BY <2>4, <3>2 DEF LiveIds
      <3>4. dogs'[players'[id]][id] # None /\ dogs'[players'[id]][id].name = t
        BY <1>2, <2>2, <3>2, <3>3
      <3> QED
        BY <3>1, <3>4 DEF DogOf
    <2> QED
      BY <2>9, <2>10, <2>11 DEF RegistryInv
  <1> QED
    BY <1>4, <1>5 DEF RegistryInv

\* A join gives a new id, a new token and a new dog, or meets a dog only where the
\* counter was already wrong.
LEMMA JoinAgrees ==
    ASSUME TypeInv, TypeInv', AgreeInv, NEW u \in Users, NEW mu \in Maps, JoinGame(u, mu)
    PROVE  NamesInv' /\ RegistryInv'
  <1> DEFINE k == player_incr_id
             new == [name |-> u, moving |-> FALSE, life |-> 0, stop |-> 0]
  <1>1. /\ k \in PlayerIds /\ u \notin joined /\ u \in Tokens
        /\ joined' = joined \cup {u} /\ counterOK' = counterOK
        /\ player_incr_id' = k + 1
        /\ new # None /\ new.name = u
    <2>1. new \in Dog
      BY DEF Dog
    <2>2. new # None /\ new.name = u
      BY <2>1, NoneAssumption
    <2> HIDE DEF new
    <2> QED
      BY <2>2 DEF JoinGame, NextIncr, Tokens
  <1>2. /\ dogs' = [dogs EXCEPT ![mu][k] = Emplace(dogs[mu][k], new)]
        /\ players' = [players EXCEPT ![k] = Emplace(players[k], mu)]
        /\ tokens' = [tokens EXCEPT ![u] = [id |-> k, map |-> players'[k]]]
    BY DEF JoinGame
  <1> HIDE DEF new
  <1>3. \A m \in Maps, id \in PlayerIds : ~(m = mu /\ id = k) => dogs'[m][id] = dogs[m][id]
    BY <1>1, <1>2 DEF TypeInv, TypeOK
  <1>4. dogs'[mu][k] = Emplace(dogs[mu][k], new)
    BY <1>1, <1>2 DEF TypeInv, TypeOK
  <1>5. NamesInv'
    <2>1. \A m \in Maps, id \in PlayerIds : dogs'[m][id] # None =>
             \/ dogs[m][id] # None /\ dogs'[m][id] = dogs[m][id]
             \/ m = mu /\ id = k /\ dogs'[m][id].name = u
      BY <1>1, <1>3, <1>4 DEF Emplace
    <2>2. \A m \in Maps, id \in PlayerIds : dogs[m][id] # None =>
             dogs[m][id].name \in joined
      BY DEF AgreeInv, NamesInv
    <2>3. \A m, n \in Maps, i, j \in PlayerIds :
             (dogs[m][i] # None /\ dogs[n][j] # None /\ dogs[m][i].name = dogs[n][j].name)
                 => m = n /\ i = j
      BY DEF AgreeInv, NamesInv
    <2> QED
      BY <1>1, <2>1, <2>2, <2>3 DEF NamesInv
  <1>6. ASSUME counterOK PROVE RegistryInv'
    <2>1. \A m \in Maps, id \in PlayerIds : dogs[m][id] # None =>
             /\ id < k /\ players[id] = m
             /\ tokens[dogs[m][id].name] = [id |-> id, map |-> m]
             /\ dogs[m][id].name \in joined
      BY <1>6 DEF AgreeInv, RegistryInv, NamesInv
    <2>2. k \in Nat
      BY <1>1, IdsAssumption
    <2>3. \A m \in Maps : dogs[m][k] = None
      <3>1. ASSUME NEW m \in Maps, dogs[m][k] # None PROVE FALSE
        <4>1. k < k
          BY <1>1, <1>6, <3>1 DEF AgreeInv, RegistryInv
        <4> QED
          BY <2>2, <4>1
      <3> QED
        BY <3>1
    <2>4. players[k] = None
      BY <1>1, <1>6, <2>3 DEF AgreeInv, RegistryInv, TypeInv, TypeOK
    <2>5. /\ players'[k] = mu /\ dogs'[mu][k] = new
          /\ tokens'[u] = [id |-> k, map |-> mu]
          /\ \A id \in PlayerIds \ {k} : players'[id] = players[id]
          /\ \A t \in Tokens \ {u} : tokens'[t] = tokens[t]
      BY <1>1, <1>2, <1>4, <2>3, <2>4 DEF Emplace, TypeInv, TypeOK
    <2>6. ASSUME NEW m \in Maps, NEW id \in PlayerIds, dogs'[m][id] # None
          PROVE  /\ id < player_incr_id'
                 /\ players'[id] = m
                 /\ tokens'[dogs'[m][id].name] = [id |-> id, map |-> m]
      <3>1. CASE m = mu /\ id = k
        BY <1>1, <2>2, <2>5, <3>1
      <3>2. CASE ~(m = mu /\ id = k)
        <4>1. dogs'[m][id] = dogs[m][id] /\ dogs[m][id] # None /\ dogs[m][id].name \in Users
          BY <1>3, <2>6, <3>2 DEF TypeInv, TypeOK, Dog
        <4>2. id # k /\ id \in Nat /\ id < k /\ players[id] = m /\ dogs[m][id].name # u
          BY <1>1, <2>1, <2>2, <2>3, <4>1, IdsAssumption
        <4> QED
          BY <1>1, <2>1, <2>2, <2>5, <4>1, <4>2 DEF Tokens
      <3> QED
        BY <3>1, <3>2
    <2>7. ASSUME NEW id \in PlayerIds, players'[id] # None
          PROVE  dogs'[players'[id]][id] # None
      <3>1. CASE id = k
        BY <1>1, <2>5, <3>1
      <3>2. CASE id # k
        BY <1>3, <1>6, <2>5, <2>7, <3>2 DEF AgreeInv, RegistryInv, TypeInv, TypeOK
      <3> QED
        BY <3>1, <3>2
    <2>8. ASSUME NEW t \in Tokens, tokens'[t] # None
          PROVE  DogOf(t)' # None /\ DogOf(t)'.name = t
      <3>1. CASE t = u
        BY <1>1, <2>5, <3>1 DEF DogOf
      <3>2. CASE t # u
        <4>1. tokens'[t] = tokens[t] /\ tokens[t] # None
              /\ tokens[t].map \in Maps /\ tokens[t].id \in PlayerIds
          BY <2>5, <2>8, <3>2 DEF TypeInv, TypeOK, Player
        <4>2. DogOf(t) # None /\ DogOf(t).name = t
          BY <1>6, <4>1 DEF AgreeInv, RegistryInv
        <4>3. tokens[t].id # k
          BY <2>3, <4>1, <4>2 DEF DogOf
        <4> QED
          BY <1>3, <4>1, <4>2, <4>3 DEF DogOf
      <3> QED
        BY <3>1, <3>2
    <2> QED
      BY <2>6, <2>7, <2>8 DEF RegistryInv
  <1> QED
    BY <1>1, <1>5, <1>6 DEF RegistryInv

\* A removal takes out the dog, its player and its token, and nothing else.
LEMMA RemoveAgrees ==
    ASSUME TypeInv, TypeInv', AgreeInv, NEW k \in PlayerIds, RemoveDog(k)
    PROVE  NamesInv' /\ RegistryInv'
  <1>1. cur \in Maps /\ dogs[cur][k] # None /\ dogs[cur][k].name \in Users
    BY DEF RemoveDog, TypeInv, TypeOK, LoopInv, Dog
  <1>2. /\ dogs' = [dogs EXCEPT ![cur][k] = None]
        /\ players' = [players EXCEPT ![k] = None]
        /\ joined' = joined /\ counterOK' = counterOK /\ player_incr_id' = player_incr_id
    BY DEF RemoveDog, WithoutDog, ghosts
  <1>3. /\ dogs'[cur][k] = None
        /\ \A m \in Maps, id \in PlayerIds :
              ~(m = cur /\ id = k) => dogs'[m][id] = dogs[m][id]
    BY <1>1, <1>2 DEF TypeInv, TypeOK
  <1>4. NamesInv'
    <2>1. \A m \in Maps, id \in PlayerIds : dogs'[m][id] # None =>
             dogs[m][id] # None /\ dogs'[m][id] = dogs[m][id]
      BY <1>3
    <2> QED
      BY <1>2, <2>1 DEF AgreeInv, NamesInv
  <1>5. ASSUME counterOK PROVE RegistryInv'
    <2> DEFINE gone == dogs[cur][k].name
    <2>1. \A m \in Maps, id \in PlayerIds : dogs[m][id] # None =>
             /\ id < player_incr_id /\ players[id] = m
             /\ tokens[dogs[m][id].name] = [id |-> id, map |-> m]
      BY <1>5 DEF AgreeInv, RegistryInv
    <2>2. \A t \in Tokens : tokens[t] # None =>
             /\ tokens[t].map \in Maps /\ tokens[t].id \in PlayerIds
             /\ DogOf(t) # None /\ DogOf(t).name = t
      BY <1>5 DEF AgreeInv, RegistryInv, TypeInv, TypeOK, Player
    <2>3. TokensOf(k) = {gone}
      <3>1. gone \in TokensOf(k)
        <4>1. tokens[gone] = [id |-> k, map |-> cur] /\ [id |-> k, map |-> cur] \in Player
          BY <1>1, <2>1 DEF Player
        <4> QED
          BY <1>1, <4>1, NoneAssumption DEF TokensOf, Tokens
      <3>2. ASSUME NEW t \in TokensOf(k) PROVE t = gone
        <4>1. tokens[t] # None /\ tokens[t].id = k /\ t \in Tokens
          BY <3>2 DEF TokensOf
        <4>2. dogs[tokens[t].map][k] # None /\ dogs[tokens[t].map][k].name = t
          BY <2>2, <4>1 DEF DogOf
        <4>3. players[k] = cur /\ players[k] = tokens[t].map
          BY <1>1, <1>5, <2>2, <4>1, <4>2 DEF AgreeInv, RegistryInv
        <4> QED
          BY <4>2, <4>3
      <3> QED
        BY <3>1, <3>2
    <2>4. tokens' = [tokens EXCEPT ![gone] = None]
      <3>1. gone # EmptyToken
        BY <1>1, NamesAssumption
      <3> QED
        BY <2>3, <3>1 DEF RemoveDog, RemoveToken
    <2>5. /\ tokens'[gone] = None
          /\ \A t \in Tokens \ {gone} : tokens'[t] = tokens[t]
          /\ players'[k] = None
          /\ \A id \in PlayerIds \ {k} : players'[id] = players[id]
      BY <1>1, <1>2, <2>4 DEF Tokens, TypeInv, TypeOK
    <2>6. ASSUME NEW m \in Maps, NEW id \in PlayerIds, dogs'[m][id] # None
          PROVE  /\ id < player_incr_id'
                 /\ players'[id] = m
                 /\ tokens'[dogs'[m][id].name] = [id |-> id, map |-> m]
      <3>1. /\ dogs'[m][id] = dogs[m][id] /\ dogs[m][id] # None
            /\ dogs[m][id].name \in Tokens /\ ~(m = cur /\ id = k)
        BY <1>3, <2>6 DEF TypeInv, TypeOK, Dog, Tokens
      <3>2. id # k
        <4>1. players[id] = m
          BY <1>5, <3>1 DEF AgreeInv, RegistryInv
        <4>2. players[k] = cur
          BY <1>1, <1>5 DEF AgreeInv, RegistryInv
        <4> QED
          BY <3>1, <4>1, <4>2
      <3>3. dogs[m][id].name # gone
        BY <1>1, <3>1, <3>2 DEF AgreeInv, NamesInv
      <3> QED
        BY <1>2, <2>1, <2>5, <3>1, <3>2, <3>3
    <2>7. ASSUME NEW id \in PlayerIds, players'[id] # None
          PROVE  dogs'[players'[id]][id] # None
      <3>1. id # k /\ players'[id] = players[id] /\ players[id] \in Maps
        BY <2>5, <2>7 DEF TypeInv, TypeOK
      <3> QED
        BY <1>3, <1>5, <2>7, <3>1 DEF AgreeInv, RegistryInv
    <2>8. ASSUME NEW t \in Tokens, tokens'[t] # None
          PROVE  DogOf(t)' # None /\ DogOf(t)'.name = t
      <3>1. t # gone /\ tokens'[t] = tokens[t] /\ tokens[t] # None
        BY <2>5, <2>8
      <3>2. DogOf(t) # None /\ DogOf(t).name = t
        BY <2>2, <3>1
      <3>3. tokens[t].map \in Maps /\ tokens[t].id \in PlayerIds
        BY <2>2, <3>1
      <3>4. ~(tokens[t].map = cur /\ tokens[t].id = k)
        BY <3>1, <3>2 DEF DogOf
      <3> QED
        BY <1>3, <3>1, <3>2, <3>3, <3>4 DEF DogOf
    <2> QED
      BY <2>6, <2>7, <2>8 DEF RegistryInv
  <1> QED
    BY <1>2, <1>4, <1>5 DEF RegistryInv

LEMMA AgreeStep == TypeInv /\ TypeInv' /\ AgreeInv /\ [Next]_vars => AgreeInv'
  <1> SUFFICES ASSUME TypeInv, TypeInv', AgreeInv, [Next]_vars PROVE AgreeInv'
    OBVIOUS
  <1>0. NamesInv /\ FileNamesInv /\ RegistryInv /\ FileInv
    BY DEF AgreeInv
  <1> USE DEF durable, world, registry, clock, loop, ghosts
  <1>1. ASSUME UNCHANGED <<dogs, players, tokens, player_incr_id, joined, counterOK>>
        PROVE  NamesInv' /\ RegistryInv'
    <2>1. SameDogs
      BY <1>1 DEF SameDogs
    <2> QED
      BY <1>0, <1>1, <2>1, AgreeSame
  <1>2. ASSUME Die, stateFile' = stateFile PROVE AgreeInv'
    BY <1>0, <1>2, AgreeBlank, FileSame DEF Die, AgreeInv
  <1>3. ASSUME NEW u \in Users, NEW m \in Maps, JoinGame(u, m) PROVE AgreeInv'
    <2>1. stateFile' = stateFile /\ joined \subseteq joined' /\ counterOK' = counterOK
      BY <1>3 DEF JoinGame
    <2>2. FileNamesInv' /\ FileInv'
      BY <1>0, <2>1 DEF FileNamesInv, FileInv
    <2> QED
      BY <1>3, <2>2, JoinAgrees DEF AgreeInv
  <1>4. ASSUME NEW t \in Users, NEW move \in BOOLEAN, PlayerAction(t, move)
        PROVE  AgreeInv'
    <2>1. SameDogs
      BY <1>4, ActionSame
    <2> QED
      BY <1>0, <1>4, <2>1, AgreeSame, FileSame DEF PlayerAction, AgreeInv
  <1>5. ASSUME NEW t \in Users, PlayerActionThrows(t) PROVE AgreeInv'
    BY <1>2, <1>5 DEF PlayerActionThrows
  <1>6. ASSUME NEW delta \in Deltas, TickBegin(delta) PROVE AgreeInv'
    BY <1>0, <1>1, <1>6, FileSame DEF TickBegin, AgreeInv
  <1>7. ASSUME NEW m \in Maps, SessionBegin(m) PROVE AgreeInv'
    BY <1>0, <1>1, <1>7, FileSame DEF SessionBegin, AgreeInv
  <1>8. ASSUME NEW id \in PlayerIds, NEW moving \in BOOLEAN, TickDog(id, moving)
        PROVE  AgreeInv'
    <2>1. SameDogs
      BY <1>8, VisitSame DEF TickDog
    <2> QED
      BY <1>0, <1>8, <2>1, AgreeSame, FileSame DEF TickDog, AgreeInv
  <1>9. ASSUME NEW id \in PlayerIds, NEW moving \in BOOLEAN, NEW committed \in BOOLEAN,
               SaveThrows(id, moving, committed)
        PROVE  AgreeInv'
    <2>1. SameDogs
      BY <1>9, VisitSame DEF SaveThrows
    <2> QED
      BY <1>0, <1>9, <2>1, AgreeSame, FileSame DEF SaveThrows, AgreeInv
  <1>10. ASSUME NEW id \in PlayerIds, NEW committed \in BOOLEAN, SaveKills(id, committed)
         PROVE  AgreeInv'
    BY <1>2, <1>10 DEF SaveKills
  <1>11. CASE DogsDone
    BY <1>0, <1>1, <1>11, FileSame DEF DogsDone, AgreeInv
  <1>12. ASSUME NEW id \in PlayerIds, RemoveDog(id) PROVE AgreeInv'
    <2>1. UNCHANGED <<stateFile, joined, counterOK>>
      BY <1>12 DEF RemoveDog
    <2> QED
      BY <1>0, <1>12, <2>1, RemoveAgrees, FileSame DEF AgreeInv
  <1>13. CASE SessionEnd
    BY <1>0, <1>1, <1>13, FileSame DEF SessionEnd, AgreeInv
  <1>14. CASE TickEnd
    <2>1. UNCHANGED <<dogs, players, tokens, player_incr_id, joined, counterOK>>
      BY <1>14 DEF TickEnd
    <2>2. BackUpData \/ stateFile' = stateFile
      BY <1>14 DEF TickEnd
    <2>3. FileNamesInv' /\ FileInv'
      BY <1>0, <2>1, <2>2, BackUpAgrees, FileSame
    <2> QED
      BY <1>1, <2>1, <2>3 DEF AgreeInv
  <1>15. CASE BackupThrows
    BY <1>0, <1>1, <1>15, FileSame DEF BackupThrows, AgreeInv
  <1>16. CASE Stop
    <2>1. BackUpData /\ Blank /\ UNCHANGED <<joined, counterOK>>
      BY <1>16 DEF Stop, Die
    <2> QED
      BY <2>1, BackUpAgrees, AgreeBlank DEF AgreeInv
  <1>17. CASE Crash
    BY <1>2, <1>17 DEF Crash
  <1>18. CASE Start
    <2>1. /\ stateFile' = stateFile /\ joined' = joined
          /\ counterOK' => counterOK /\ \A id \in LiveIds(dogs') : id < player_incr_id'
      BY <1>18 DEF Start
    <2>2. FileNamesInv' /\ FileInv'
      BY <1>0, <2>1 DEF FileNamesInv, FileInv
    <2>3. CASE HasStateFile /\ stateFile # None
      <3>1. stateFile \in File /\ RestoreBackUpData(stateFile)
        BY <1>18, <2>3 DEF Start, TypeInv, TypeOK
      <3> QED
        BY <1>0, <2>1, <2>2, <3>1, RestoreAgrees DEF AgreeInv
    <2>4. CASE ~(HasStateFile /\ stateFile # None)
      BY <1>18, <2>2, <2>4, AgreeBlank DEF Start, AgreeInv
    <2> QED
      BY <2>3, <2>4
  <1>19. CASE UNCHANGED vars
    BY <1>0, <1>1, <1>19, FileSame DEF vars, AgreeInv
  <1> QED
    BY <1>3, <1>4, <1>5, <1>6, <1>7, <1>8, <1>9, <1>10, <1>11, <1>12, <1>13,
       <1>14, <1>15, <1>16, <1>17, <1>18, <1>19
    DEF Next, Requests, Tick, Process

LEMMA AgreeInit == Init => AgreeInv
  BY DEF Init, NoDogs, AgreeInv, NamesInv, FileNamesInv, RegistryInv, FileInv

LEMMA AgreeAlways == Spec => [](TypeInv /\ AgreeInv)
  <1>1. TypeInv /\ AgreeInv /\ [Next]_vars => (TypeInv /\ AgreeInv)'
    BY TypeStep, AgreeStep
  <1> QED
    BY <1>1, TypeInit, AgreeInit, PTL DEF Spec

\* A token leads to its user's dog and is forgotten with it, for as long as no
\* restore has set the counter of ids to an id in use.
THEOREM TokensSafe == Spec => []TokenControlsOwnDog
  <1>1. AgreeInv => TokenControlsOwnDog
    BY DEF AgreeInv, RegistryInv, TokenControlsOwnDog
  <1> QED
    BY <1>1, AgreeAlways, PTL

\* Under the same condition every dog in the game is known to the table of players
\* and can be reached by its user's token.
THEOREM DogsSafe == Spec => []DogIsControlled
  <1>1. AgreeInv => DogIsControlled
    BY DEF AgreeInv, RegistryInv, DogIsControlled
  <1> QED
    BY <1>1, AgreeAlways, PTL

-----------------------------------------------------------------------------
(* Records.                                                                *)

LEMMA StoreOne ==
    ASSUME TypeOK, NEW d \in Dog, StoreRecord(d)
    PROVE  /\ d.name \in Users
           /\ records'[d.name] # <<>>
           /\ Len(records'[d.name]) = Len(records[d.name]) + 1
           /\ \A u \in Users \ {d.name} : records'[u] = records[u]
  <1>1. d.name \in Users /\ d.life + dt \in Nat /\ records[d.name] \in Seq(Nat)
    BY DEF TypeOK, Dog
  <1>2. records'[d.name] = Append(records[d.name], d.life + dt)
    BY <1>1 DEF StoreRecord, TypeOK
  <1>3. \A u \in Users \ {d.name} : records'[u] = records[u]
    BY <1>1 DEF StoreRecord, TypeOK
  <1> QED
    BY <1>1, <1>2, <1>3

LEMMA RemoveStep == TypeInv /\ TypeInv' /\ RemoveInv /\ [Next]_vars => RemoveInv'
  <1> SUFFICES ASSUME TypeInv, TypeInv', RemoveInv, [Next]_vars PROVE RemoveInv'
    OBVIOUS
  <1> USE DEF RemoveInv, durable, world, registry, clock, loop, ghosts
  <1>1. ASSUME remove' = {} PROVE RemoveInv'
    BY <1>1
  <1>2. ASSUME UNCHANGED <<records, dogs, cur, remove>> PROVE RemoveInv'
    BY <1>2
  <1>3. ASSUME NEW t \in Users, NEW move \in BOOLEAN, PlayerAction(t, move)
        PROVE  RemoveInv'
    BY <1>1, <1>3 DEF PlayerAction, TypeInv, LoopInv
  <1>4. ASSUME NEW id \in PlayerIds, NEW moving \in BOOLEAN, TickDog(id, moving)
        PROVE  RemoveInv'
    <2>1. Visit(id, moving) /\ SameDogs /\ cur' = cur
      BY <1>4, VisitSame DEF TickDog
    <2>2. cur \in Maps /\ dogs[cur][id] \in Dog
      BY <2>1 DEF Visit, TypeInv, TypeOK, LoopInv
    <2>3. ASSUME NEW i \in remove'
          PROVE  records'[dogs'[cur][i].name] # <<>>
      <3>1. i \in PlayerIds
        BY DEF TypeInv, TypeOK
      <3>2. CASE ~Retires(id)
        <4>1. i \in remove /\ records' = records
          BY <1>4, <2>3, <3>2 DEF TickDog
        <4>2. dogs[cur][i] # None
          BY <2>1, <4>1 DEF Visit, TypeInv, LoopInv
        <4> QED
          BY <2>1, <2>2, <3>1, <4>1, <4>2 DEF SameDogs
      <3>3. CASE Retires(id)
        <4>1. StoreRecord(dogs[cur][id]) /\ i \in remove \cup {id}
          BY <1>4, <2>3, <3>3 DEF TickDog
        <4>2. dogs[cur][i] # None
          BY <2>1, <4>1 DEF Visit, TypeInv, LoopInv
        <4>3. dogs[cur][i].name \in Users
          BY <2>2, <3>1, <4>2 DEF TypeInv, TypeOK, Dog
        <4>4. records'[dogs[cur][i].name] # <<>>
          BY <2>2, <4>1, <4>3, StoreOne DEF TypeInv
        <4> QED
          BY <2>1, <2>2, <3>1, <4>2, <4>4 DEF SameDogs
      <3> QED
        BY <3>2, <3>3
    <2> QED
      BY <2>1, <2>3
  <1>5. ASSUME NEW id \in PlayerIds, RemoveDog(id) PROVE RemoveInv'
    <2>1. cur \in Maps /\ remove' = remove \ {id} /\ records' = records /\ cur' = cur
      BY <1>5 DEF RemoveDog, TypeInv, LoopInv
    <2>2. \A i \in PlayerIds \ {id} : dogs'[cur][i] = dogs[cur][i]
      BY <1>5, <2>1 DEF RemoveDog, WithoutDog, TypeInv, TypeOK
    <2> QED
      BY <2>1, <2>2 DEF TypeInv, TypeOK
  <1>6. ASSUME NEW u \in Users, NEW m \in Maps, JoinGame(u, m) PROVE RemoveInv'
    BY <1>1, <1>6 DEF JoinGame, TypeInv, LoopInv
  <1>7. ASSUME Rest PROVE RemoveInv'
    BY <1>1, <1>7 DEF Rest
  <1>8. ASSUME NEW t \in Users, PlayerActionThrows(t) PROVE RemoveInv'
    BY <1>7, <1>8 DEF PlayerActionThrows, Die
  <1>9. ASSUME NEW delta \in Deltas, TickBegin(delta) PROVE RemoveInv'
    BY <1>1, <1>9 DEF TickBegin, TypeInv, LoopInv
  <1>10. ASSUME NEW m \in Maps, SessionBegin(m) PROVE RemoveInv'
    BY <1>1, <1>10 DEF SessionBegin
  <1>11. ASSUME NEW id \in PlayerIds, NEW moving \in BOOLEAN, NEW committed \in BOOLEAN,
                SaveThrows(id, moving, committed)
         PROVE  RemoveInv'
    BY <1>7, <1>11 DEF SaveThrows
  <1>12. ASSUME NEW id \in PlayerIds, NEW committed \in BOOLEAN, SaveKills(id, committed)
         PROVE  RemoveInv'
    BY <1>7, <1>12 DEF SaveKills, Die
  <1>13. CASE DogsDone
    BY <1>2, <1>13 DEF DogsDone
  <1>14. CASE SessionEnd
    BY <1>1, <1>14 DEF SessionEnd
  <1>15. CASE TickEnd \/ BackupThrows
    BY <1>7, <1>15 DEF TickEnd, BackupThrows
  <1>16. CASE Stop \/ Crash \/ Start
    BY <1>7, <1>16 DEF Stop, Crash, Start, Die
  <1>17. CASE UNCHANGED vars
    BY <1>2, <1>17 DEF vars
  <1> QED
    BY <1>3, <1>4, <1>5, <1>6, <1>8, <1>9, <1>10, <1>11, <1>12, <1>13, <1>14,
       <1>15, <1>16, <1>17
    DEF Next, Requests, Tick, Process

\* A step after which a user's dog is gone, while the process runs on, is the
\* removal at the end of a session's part of Tick.
LEMMA GoneIsRecorded ==
    ASSUME TypeInv, TypeInv', RemoveInv, [Next]_vars,
           NEW u \in Users, InGame(u), up', ~InGame(u)'
    PROVE  records'[u] # <<>>
  <1> USE DEF durable, world, registry, clock, loop, ghosts
  <1>1. PICK m \in Maps, id \in PlayerIds : dogs[m][id] # None /\ dogs[m][id].name = u
    BY DEF InGame
  <1>2. up
    BY <1>1 DEF TypeInv, DownInv
  <1>3. ~(dogs'[m][id] # None /\ dogs'[m][id].name = u)
    BY DEF InGame
  <1>4. ~SameDogs
    BY <1>1, <1>3 DEF SameDogs
  <1>5. dogs' # dogs
    BY <1>1, <1>3
  <1>6. ASSUME NEW k \in PlayerIds, RemoveDog(k) PROVE records'[u] # <<>>
    <2>1. cur \in Maps /\ k \in remove /\ records' = records
      BY <1>6 DEF RemoveDog, TypeInv, LoopInv
    <2>2. \A n \in Maps, i \in PlayerIds : ~(n = cur /\ i = k) => dogs'[n][i] = dogs[n][i]
      BY <1>6, <2>1 DEF RemoveDog, WithoutDog, TypeInv, TypeOK
    <2>3. m = cur /\ id = k
      BY <1>1, <1>3, <2>2
    <2> QED
      BY <1>1, <2>1, <2>3 DEF RemoveInv
  <1>7. ASSUME NEW v \in Users, NEW n \in Maps, JoinGame(v, n) PROVE FALSE
    <2>1. dogs'[m][id] = dogs[m][id]
      BY <1>1, <1>7 DEF JoinGame, Emplace, TypeInv, TypeOK
    <2> QED
      BY <1>1, <1>3, <2>1
  <1>8. ASSUME NEW t \in Users, NEW move \in BOOLEAN, PlayerAction(t, move) PROVE FALSE
    BY <1>4, <1>8, ActionSame
  <1>9. ASSUME NEW k \in PlayerIds, NEW moving \in BOOLEAN, Visit(k, moving) PROVE FALSE
    BY <1>4, <1>9, VisitSame
  <1>10. ASSUME Requests PROVE FALSE
    <2>1. ASSUME NEW t \in Users, PlayerActionThrows(t) PROVE FALSE
      BY <2>1 DEF PlayerActionThrows, Die
    <2> QED
      BY <1>7, <1>8, <1>10, <2>1 DEF Requests
  <1>11. ASSUME Tick PROVE records'[u] # <<>>
    <2>1. ASSUME NEW k \in PlayerIds, NEW moving \in BOOLEAN, NEW committed \in BOOLEAN,
                 TickDog(k, moving) \/ SaveThrows(k, moving, committed)
          PROVE  FALSE
      BY <1>9, <2>1 DEF TickDog, SaveThrows
    <2>2. ASSUME NEW k \in PlayerIds, NEW committed \in BOOLEAN, SaveKills(k, committed)
          PROVE  FALSE
      BY <2>2 DEF SaveKills, Die
    <2>3. ASSUME \/ \E delta \in Deltas : TickBegin(delta)
                 \/ \E n \in Maps : SessionBegin(n)
                 \/ DogsDone \/ SessionEnd \/ TickEnd \/ BackupThrows
          PROVE  FALSE
      BY <1>5, <2>3 DEF TickBegin, SessionBegin, DogsDone, SessionEnd, TickEnd, BackupThrows
    <2> QED
      BY <1>6, <1>11, <2>1, <2>2, <2>3 DEF Tick
  <1>12. ASSUME Process \/ UNCHANGED vars PROVE FALSE
    BY <1>2, <1>5, <1>12 DEF Process, Stop, Crash, Start, Die, vars
  <1> QED
    BY <1>10, <1>11, <1>12 DEF Next

\* Tick takes nobody out of a running game before the record is in the database.
THEOREM RetirementRecorded == Spec => RetiredIsRecorded
  <1>1. Init => RemoveInv
    BY DEF Init, RemoveInv
  <1>2. TypeInv /\ RemoveInv /\ [Next]_vars => (TypeInv /\ RemoveInv)'
    BY TypeStep, RemoveStep
  <1>3. TypeInv /\ TypeInv' /\ RemoveInv /\ [Next]_vars =>
           [\A u \in Users : (InGame(u) /\ up' /\ ~InGame(u)') => records'[u] # <<>>]_vars
    BY GoneIsRecorded
  <1> QED
    BY <1>1, <1>2, <1>3, TypeInit, PTL DEF Spec, RetiredIsRecorded

-----------------------------------------------------------------------------
(* How often a player is recorded.                                         *)

\* Nobody's dog is gone from the list of those that may still be recorded, nor
\* new on it, and nothing is recorded: the count stands.
LEMMA CountSame ==
    ASSUME TypeInv, CountInv, NewUserInv, SameDogs, dogs' \in [Maps -> [PlayerIds -> Dog \cup {None}]],
           records' = records, joined' = joined, up' = up, restarts' = restarts,
           aborts' \in Nat, aborts <= aborts',
           UNCHANGED <<cur, remove>> \/ (remove = {} /\ remove' = {})
    PROVE  CountInv' /\ NewUserInv'
  <1>1. NewUserInv'
    BY DEF NewUserInv
  <1>2. ASSUME NEW u \in Users
        PROVE  Len(records'[u]) <= aborts' + restarts' + (IF up' /\ ~Spent(u)' THEN 0 ELSE 1)
    <2>1. Spent(u)' <=> Spent(u)
      BY DEF Spent, SameDogs
    <2>2. /\ Len(records[u]) \in Nat /\ aborts \in Nat /\ restarts \in Nat
          /\ Len(records[u]) <= aborts + restarts + (IF up /\ ~Spent(u) THEN 0 ELSE 1)
      BY DEF TypeInv, TypeOK, CountInv
    <2> QED
      BY <2>1, <2>2
  <1> QED
    BY <1>1, <1>2 DEF CountInv

\* The process is gone, and one tick may have been cut short by it.
LEMMA CountDie ==
    ASSUME TypeInv, CountInv, NewUserInv, Die, records' = records,
           aborts' = aborts
    PROVE  CountInv' /\ NewUserInv'
  <1>1. NewUserInv'
    BY DEF NewUserInv, Die
  <1>2. ASSUME NEW u \in Users
        PROVE  Len(records'[u]) <= aborts' + restarts' + (IF up' /\ ~Spent(u)' THEN 0 ELSE 1)
    <2>1. /\ Len(records[u]) \in Nat /\ aborts \in Nat /\ restarts \in Nat
          /\ Len(records[u]) <= aborts + restarts + (IF up /\ ~Spent(u) THEN 0 ELSE 1)
      BY DEF TypeInv, TypeOK, CountInv
    <2>2. up' = FALSE /\ restarts' = restarts
      BY DEF Die
    <2> QED
      BY <2>1, <2>2
  <1> QED
    BY <1>1, <1>2 DEF CountInv

\* A dog the loop over cur has not come to is not on the list: its user can be
\* recorded within the bound that holds for users who are not spent.
LEMMA CountStore ==
    ASSUME TypeInv, CountInv, NewUserInv, NamesInv, NEW id \in PlayerIds,
           up, pc = "dogs", id \in todo, dogs[cur][id] # None, StoreRecord(dogs[cur][id])
    PROVE  /\ dogs[cur][id].name \in Users
           /\ \A u \in Users : Len(records'[u]) \in Nat
           /\ Len(records'[dogs[cur][id].name]) <= aborts + restarts + 1
           /\ \A u \in Users \ {dogs[cur][id].name} : records'[u] = records[u]
           /\ \A u \in Users \ joined : records'[u] = <<>>
  <1> DEFINE d == dogs[cur][id]
  <1>1. cur \in Maps /\ d \in Dog /\ id \notin remove
    BY DEF TypeInv, TypeOK, LoopInv
  <1>2. /\ d.name \in Users /\ d.name \in joined
        /\ Len(records'[d.name]) = Len(records[d.name]) + 1
        /\ \A u \in Users \ {d.name} : records'[u] = records[u]
    BY <1>1, StoreOne DEF TypeInv, NamesInv
  <1>3. ~Spent(d.name)
    BY <1>1 DEF Spent
  <1>4. \A u \in Users : Len(records[u]) \in Nat
    BY DEF TypeInv, TypeOK
  <1>5. Len(records[d.name]) <= aborts + restarts
    <2>1. Len(records[d.name]) <= aborts + restarts + 0
      BY <1>2, <1>3 DEF CountInv
    <2> QED
      BY <1>2, <1>4, <2>1 DEF TypeInv, TypeOK
  <1>6. Len(records'[d.name]) <= aborts + restarts + 1
    BY <1>2, <1>4, <1>5 DEF TypeInv, TypeOK
  <1>7. \A u \in Users : Len(records'[u]) \in Nat
    BY <1>2, <1>4
  <1>8. \A u \in Users \ joined : records'[u] = <<>>
    BY <1>2 DEF NewUserInv
  <1> QED
    BY <1>2, <1>6, <1>7, <1>8

LEMMA CountStep ==
    TypeInv /\ TypeInv' /\ NamesInv /\ CountInv /\ NewUserInv /\ [Next]_vars
        => CountInv' /\ NewUserInv'
  <1> SUFFICES ASSUME TypeInv, TypeInv', NamesInv, CountInv, NewUserInv, [Next]_vars
               PROVE  CountInv' /\ NewUserInv'
    OBVIOUS
  <1> USE DEF durable, world, registry, clock, loop, ghosts
  <1>1. /\ \A u \in Users : Len(records[u]) \in Nat
        /\ aborts \in Nat /\ restarts \in Nat /\ aborts' \in Nat
        /\ dogs' \in [Maps -> [PlayerIds -> Dog \cup {None}]]
    BY DEF TypeInv, TypeOK
  <1>2. ASSUME UNCHANGED <<records, dogs, joined, up, aborts, restarts>>,
               UNCHANGED <<cur, remove>> \/ (remove = {} /\ remove' = {})
        PROVE  CountInv' /\ NewUserInv'
    BY <1>1, <1>2, CountSame DEF SameDogs
  <1>3. ASSUME NEW u \in Users, NEW m \in Maps, JoinGame(u, m)
        PROVE  CountInv' /\ NewUserInv'
    <2>1. /\ records' = records /\ aborts' = aborts /\ restarts' = restarts /\ up
          /\ up' /\ cur' = cur /\ remove' = remove /\ remove = {}
          /\ joined' = joined \cup {u} /\ u \notin joined
      BY <1>3 DEF JoinGame, TypeInv, LoopInv
    <2>2. NewUserInv'
      BY <2>1 DEF NewUserInv
    <2>3. \A n \in Maps, i \in PlayerIds : dogs[n][i] # None => dogs'[n][i] = dogs[n][i]
      BY <1>3 DEF JoinGame, Emplace, TypeInv, TypeOK
    <2>4. \A v \in Users : ~Spent(v) => ~Spent(v)'
      BY <2>1, <2>3 DEF Spent
    <2>5. ASSUME NEW v \in Users
          PROVE  Len(records'[v]) <= aborts' + restarts' + (IF up' /\ ~Spent(v)' THEN 0 ELSE 1)
      <3>1. Len(records[v]) <= aborts + restarts + (IF up /\ ~Spent(v) THEN 0 ELSE 1)
        BY DEF CountInv
      <3>2. CASE Spent(v) /\ ~Spent(v)'
        <4>1. v = u
          <5>1. \A n \in Maps, i \in PlayerIds :
                   (dogs[n][i] = None /\ dogs'[n][i] # None) => dogs'[n][i].name = u
            BY <1>3 DEF JoinGame, Emplace, TypeInv, TypeOK
          <5> QED
            BY <2>1, <2>3, <3>2, <5>1 DEF Spent
        <4>2. records[v] = <<>>
          BY <2>1, <4>1 DEF NewUserInv
        <4> QED
          BY <1>1, <2>1, <4>2
      <3>3. CASE Spent(v)' <=> Spent(v)
        BY <1>1, <2>1, <3>1, <3>3
      <3> QED
        BY <2>4, <3>2, <3>3
    <2> QED
      BY <2>2, <2>5 DEF CountInv
  <1>4. ASSUME NEW t \in Users, NEW move \in BOOLEAN, PlayerAction(t, move)
        PROVE  CountInv' /\ NewUserInv'
    <2>1. SameDogs
      BY <1>4, ActionSame
    <2> QED
      BY <1>1, <1>4, <2>1, CountSame DEF PlayerAction
  <1>5. ASSUME NEW t \in Users, PlayerActionThrows(t) PROVE CountInv' /\ NewUserInv'
    BY <1>5, CountDie DEF PlayerActionThrows
  <1>6. ASSUME NEW delta \in Deltas, TickBegin(delta) PROVE CountInv' /\ NewUserInv'
    BY <1>2, <1>6 DEF TickBegin
  <1>7. ASSUME NEW m \in Maps, SessionBegin(m) PROVE CountInv' /\ NewUserInv'
    BY <1>2, <1>7 DEF SessionBegin, TypeInv, LoopInv
  <1>8. ASSUME NEW id \in PlayerIds, NEW moving \in BOOLEAN, TickDog(id, moving)
        PROVE  CountInv' /\ NewUserInv'
    <2>1. /\ Visit(id, moving) /\ SameDogs /\ cur' = cur /\ up /\ up' /\ pc = "dogs"
          /\ id \in todo /\ dogs[cur][id] # None
          /\ joined' = joined /\ aborts' = aborts /\ restarts' = restarts
      BY <1>8, VisitSame DEF TickDog, Visit
    <2>2. CASE ~Retires(id)
      BY <1>1, <1>8, <2>1, <2>2, CountSame DEF TickDog
    <2>3. CASE Retires(id)
      <3> DEFINE d == dogs[cur][id]
      <3>1. StoreRecord(d) /\ remove' = remove \cup {id}
        BY <1>8, <2>3 DEF TickDog
      <3>2. /\ d.name \in Users
            /\ \A u \in Users : Len(records'[u]) \in Nat
            /\ Len(records'[d.name]) <= aborts + restarts + 1
            /\ \A u \in Users \ {d.name} : records'[u] = records[u]
            /\ \A u \in Users \ joined : records'[u] = <<>>
        BY <2>1, <3>1, CountStore
      <3>0. PICK w \in Users : w = d.name
        BY <3>2
      <3>3. Spent(w)'
        <4>1. cur \in Maps
          BY <2>1 DEF TypeInv, LoopInv
        <4>2. ASSUME NEW n \in Maps, NEW i \in PlayerIds,
                     dogs'[n][i] # None, dogs'[n][i].name = w
              PROVE  n = cur' /\ i \in remove'
          <5>1. dogs[n][i] # None /\ dogs[n][i].name = w
            BY <2>1, <3>0, <4>2 DEF SameDogs
          <5> QED
            BY <2>1, <3>1, <3>0, <4>1, <5>1 DEF NamesInv
        <4> QED
          BY <4>2 DEF Spent
      <3>4. ASSUME NEW u \in Users \ {w} PROVE Spent(u)' <=> Spent(u)
        <4>1. \A n \in Maps, i \in PlayerIds :
                 (dogs[n][i] # None /\ dogs[n][i].name = u) => ~(n = cur /\ i = id)
          BY <3>0
        <4>2. \A n \in Maps, i \in PlayerIds :
                 (dogs[n][i] # None /\ dogs[n][i].name = u)
                    <=> (dogs'[n][i] # None /\ dogs'[n][i].name = u)
          BY <2>1 DEF SameDogs
        <4> QED
          BY <2>1, <3>1, <4>1, <4>2 DEF Spent
      <3>5. ASSUME NEW u \in Users
            PROVE  Len(records'[u]) <= aborts' + restarts' + (IF up' /\ ~Spent(u)' THEN 0 ELSE 1)
        <4>1. CASE u = w
          BY <2>1, <3>2, <3>3, <3>0, <4>1
        <4>2. CASE u # w
          <5>1. Len(records[u]) <= aborts + restarts + (IF up /\ ~Spent(u) THEN 0 ELSE 1)
            BY DEF CountInv
          <5> QED
            BY <2>1, <3>2, <3>4, <3>0, <4>2, <5>1
        <4> QED
          BY <4>1, <4>2
      <3> QED
        BY <2>1, <3>2, <3>5 DEF CountInv, NewUserInv
    <2> QED
      BY <2>2, <2>3
  <1>9. ASSUME NEW id \in PlayerIds, up, pc = "dogs", id \in todo, dogs[cur][id] # None,
               StoreRecord(dogs[cur][id]) \/ records' = records
        PROVE  /\ \A u \in Users : Len(records'[u]) \in Nat
               /\ \A u \in Users : Len(records'[u]) <= aborts + restarts + 1
               /\ \A u \in Users \ joined : records'[u] = <<>>
    <2>1. \A u \in Users : Len(records[u]) <= aborts + restarts + 1
      BY <1>1 DEF CountInv
    <2>2. CASE records' = records
      BY <1>1, <2>1, <2>2 DEF NewUserInv
    <2>3. CASE StoreRecord(dogs[cur][id])
      BY <1>9, <2>1, <2>3, CountStore
    <2> QED
      BY <1>9, <2>2, <2>3
  <1>10. ASSUME joined' = joined, aborts' = aborts + 1, restarts' = restarts,
                \A u \in Users : Len(records'[u]) \in Nat,
                \A u \in Users : Len(records'[u]) <= aborts + restarts + 1,
                \A u \in Users \ joined : records'[u] = <<>>
         PROVE  CountInv' /\ NewUserInv'
    BY <1>1, <1>10 DEF CountInv, NewUserInv
  <1>11. ASSUME NEW id \in PlayerIds, NEW moving \in BOOLEAN, NEW committed \in BOOLEAN,
                SaveThrows(id, moving, committed)
         PROVE  CountInv' /\ NewUserInv'
    <2>1. /\ up /\ pc = "dogs" /\ id \in todo /\ dogs[cur][id] # None
          /\ StoreRecord(dogs[cur][id]) \/ records' = records
          /\ joined' = joined /\ aborts' = aborts + 1 /\ restarts' = restarts
      BY <1>11 DEF SaveThrows, Visit
    <2> QED
      BY <1>9, <1>10, <2>1
  <1>12. ASSUME NEW id \in PlayerIds, NEW committed \in BOOLEAN, SaveKills(id, committed)
         PROVE  CountInv' /\ NewUserInv'
    <2>1. /\ up /\ pc = "dogs" /\ id \in todo /\ dogs[cur][id] # None
          /\ StoreRecord(dogs[cur][id]) \/ records' = records
          /\ joined' = joined /\ aborts' = aborts + 1 /\ restarts' = restarts
      BY <1>12 DEF SaveKills, Die
    <2> QED
      BY <1>9, <1>10, <2>1
  <1>13. CASE DogsDone
    BY <1>2, <1>13 DEF DogsDone
  <1>14. ASSUME NEW k \in PlayerIds, RemoveDog(k) PROVE CountInv' /\ NewUserInv'
    <2>1. /\ cur \in Maps /\ remove' = remove \ {k} /\ k \in remove /\ cur' = cur
          /\ records' = records /\ joined' = joined /\ aborts' = aborts
          /\ restarts' = restarts /\ up' = up
      BY <1>14 DEF RemoveDog, TypeInv, LoopInv
    <2>2. /\ \A n \in Maps, i \in PlayerIds : ~(n = cur /\ i = k) => dogs'[n][i] = dogs[n][i]
          /\ dogs'[cur][k] = None
      BY <1>14, <2>1 DEF RemoveDog, WithoutDog, TypeInv, TypeOK
    <2>3. \A u \in Users : Spent(u)' <=> Spent(u)
      BY <2>1, <2>2 DEF Spent
    <2> QED
      BY <2>1, <2>3 DEF CountInv, NewUserInv
  <1>15. CASE SessionEnd
    BY <1>2, <1>15 DEF SessionEnd
  <1>16. CASE TickEnd
    BY <1>2, <1>16 DEF TickEnd, Rest, TypeInv, LoopInv
  <1>17. CASE BackupThrows
    <2>1. /\ SameDogs /\ records' = records /\ joined' = joined /\ up' = up
          /\ restarts' = restarts /\ aborts' = aborts + 1 /\ remove = {} /\ remove' = {}
      BY <1>17 DEF BackupThrows, Rest, TypeInv, LoopInv, SameDogs
    <2> QED
      BY <1>1, <2>1, CountSame
  <1>18. CASE Stop \/ Crash
    BY <1>18, CountDie DEF Stop, Crash
  <1>19. CASE Start
    <2>1. /\ ~up /\ restarts' = restarts + 1 /\ records' = records /\ joined' = joined
          /\ aborts' = aborts
      BY <1>19 DEF Start
    <2>2. \A u \in Users : Len(records[u]) <= aborts + restarts + 1
      BY <1>1, <2>1 DEF CountInv
    <2> QED
      BY <1>1, <2>1, <2>2 DEF CountInv, NewUserInv
  <1>20. CASE UNCHANGED vars
    BY <1>2, <1>20 DEF vars
  <1> QED
    BY <1>3, <1>4, <1>5, <1>6, <1>7, <1>8, <1>11, <1>12, <1>13, <1>14, <1>15,
       <1>16, <1>17, <1>18, <1>19, <1>20
    DEF Next, Requests, Tick, Process

\* Nobody is recorded more often than once, once more for every tick that the
\* database cut short, and once more for every start of the process.
THEOREM RecordedSeldom == Spec => []RecordedAtMost
  <1>1. Init => CountInv /\ NewUserInv
    <2> SUFFICES ASSUME Init PROVE CountInv /\ NewUserInv
      OBVIOUS
    <2>1. \A u \in Users : records[u] = <<>> /\ Len(records[u]) = 0
      BY DEF Init
    <2>2. aborts = 0 /\ restarts = 0
      BY DEF Init
    <2> QED
      BY <2>1, <2>2 DEF CountInv, NewUserInv
  <1>2. /\ TypeInv /\ AgreeInv /\ (TypeInv /\ AgreeInv)' /\ CountInv /\ NewUserInv
        /\ [Next]_vars
        => CountInv' /\ NewUserInv'
    BY CountStep DEF AgreeInv
  <1>3. TypeInv /\ CountInv => RecordedAtMost
    BY DEF CountInv, RecordedAtMost, TypeInv, TypeOK
  <1> QED
    BY <1>1, <1>2, <1>3, AgreeAlways, PTL DEF Spec

-----------------------------------------------------------------------------
(* What a record says.                                                     *)

\* A dog has not stood for longer than it has lived.
LivesInv == \A m \in Maps, id \in PlayerIds :
                dogs[m][id] # None => dogs[m][id].stop <= dogs[m][id].life

\* A dog that is told to move or to stop keeps its times.
LEMMA ActionTimes ==
    ASSUME TypeInv, NEW t \in Users, NEW move \in BOOLEAN, PlayerAction(t, move)
    PROVE  \A m \in Maps, id \in PlayerIds : dogs[m][id] # None =>
              /\ dogs'[m][id].life = dogs[m][id].life
              /\ dogs'[m][id].stop = dogs[m][id].stop
  <1>1. tokens[t].map \in Maps /\ tokens[t].id \in PlayerIds /\ DogOf(t) \in Dog
    BY DEF PlayerAction, Player, Tokens, DogOf, TypeInv, TypeOK
  <1> DEFINE d == [DogOf(t) EXCEPT !.moving = move]
  <1>2. d.life = DogOf(t).life /\ d.stop = DogOf(t).stop
    BY <1>1 DEF Dog
  <1>3. dogs' = [dogs EXCEPT ![tokens[t].map] =
                   [dogs[tokens[t].map] EXCEPT ![tokens[t].id] = d]]
    BY <1>1 DEF PlayerAction, DogOf, TypeInv, TypeOK
  <1> HIDE DEF d
  <1>4. dogs'[tokens[t].map][tokens[t].id] = d
    BY <1>1, <1>3 DEF TypeInv, TypeOK
  <1>5. \A m \in Maps, id \in PlayerIds :
           ~(m = tokens[t].map /\ id = tokens[t].id) => dogs'[m][id] = dogs[m][id]
    BY <1>1, <1>3 DEF TypeInv, TypeOK
  <1> QED
    BY <1>2, <1>4, <1>5 DEF DogOf

\* What the loop of Tick makes of the times of the dog it visits.
LEMMA VisitTimes ==
    ASSUME TypeInv, NEW id \in PlayerIds, NEW moving \in BOOLEAN, Visit(id, moving)
    PROVE  /\ cur \in Maps /\ dogs[cur][id] \in Dog
           /\ dogs'[cur][id].life = dogs[cur][id].life + dt
           /\ dogs'[cur][id].stop = StopTime(dogs[cur][id])
           /\ StopTime(dogs[cur][id]) \in {0, dogs[cur][id].stop + dt}
           /\ \A m \in Maps, i \in PlayerIds :
                 ~(m = cur /\ i = id) => dogs'[m][i] = dogs[m][i]
  <1>1. cur \in Maps /\ dogs[cur][id] \in Dog
    BY DEF TypeInv, TypeOK, LoopInv, Visit
  <1> DEFINE d == dogs[cur][id]
             s == StopTime(d)
  <1>2. Advanced(d, moving) = [d EXCEPT !.life = d.life + dt, !.stop = s, !.moving = moving]
    BY DEF Advanced, StopTime
  <1>3. s \in {0, d.stop + dt}
    BY DEF StopTime
  <1> HIDE DEF s
  <1>4. Advanced(d, moving).life = d.life + dt /\ Advanced(d, moving).stop = s
    BY <1>1, <1>2 DEF Dog
  <1>5. /\ dogs'[cur][id] = Advanced(d, moving)
        /\ \A m \in Maps, i \in PlayerIds :
              ~(m = cur /\ i = id) => dogs'[m][i] = dogs[m][i]
    BY <1>1 DEF Visit, TypeInv, TypeOK
  <1> QED
    BY <1>1, <1>3, <1>4, <1>5 DEF s

\* A record that is stored is that of the time the dog will have lived after the tick.
LEMMA StoreTime ==
    ASSUME TypeOK, LivesInv, PlayTimeCoversStanding, NEW id \in PlayerIds, cur \in Maps,
           dogs[cur][id] # None, Retires(id), StoreRecord(dogs[cur][id])
    PROVE  PlayTimeCoversStanding'
  <1> DEFINE d == dogs[cur][id]
  <1>1. d \in Dog /\ d.name \in Users /\ d.life \in Nat /\ d.stop \in Nat /\ dt \in Nat
    BY DEF TypeOK, Dog
  <1>2. d.life + dt >= Retirement
    <2>1. d.stop <= d.life
      BY DEF LivesInv
    <2>2. StopTime(d) <= d.life + dt
      BY <1>1, <2>1 DEF StopTime
    <2>3. StopTime(d) >= Retirement /\ StopTime(d) \in Nat
      BY <1>1 DEF Retires, StopTime
    <2> QED
      BY <1>1, <2>2, <2>3, TimeAssumption
  <1>3. /\ records'[d.name] = Append(records[d.name], d.life + dt)
        /\ \A u \in Users \ {d.name} : records'[u] = records[u]
    BY <1>1 DEF StoreRecord, TypeOK
  <1>4. records[d.name] \in Seq(Nat)
    BY <1>1 DEF TypeOK
  <1>5. \A i \in DOMAIN records'[d.name] : records'[d.name][i] >= Retirement
    <2>1. \A i \in DOMAIN records[d.name] : records[d.name][i] >= Retirement
      BY <1>1 DEF PlayTimeCoversStanding
    <2> HIDE DEF d
    <2> QED
      BY <1>1, <1>2, <1>3, <1>4, <2>1
  <1> HIDE DEF d
  <1> QED
    BY <1>3, <1>5 DEF PlayTimeCoversStanding

\* A dog that a restore brings back begins its times anew.
LEMMA RestoreTimes ==
    ASSUME NEW f \in File, RestoreBackUpData(f)
    PROVE  \A m \in Maps, id \in PlayerIds : dogs'[m][id] # None =>
              dogs'[m][id].life = 0 /\ dogs'[m][id].stop = 0
  <1>1. ASSUME NEW m \in Maps, NEW id \in PlayerIds PROVE dogs'[m][id] = Restore(f.dogs[m][id])
    BY DEF RestoreBackUpData
  <1>2. \A s : Restore(s) # None => Restore(s).life = 0 /\ Restore(s).stop = 0
    BY DEF Restore
  <1> QED
    BY <1>1, <1>2

LEMMA LivesStep ==
    TypeInv /\ TypeInv' /\ LivesInv /\ PlayTimeCoversStanding /\ [Next]_vars
        => (LivesInv /\ PlayTimeCoversStanding)'
  <1> SUFFICES ASSUME TypeInv, TypeInv', LivesInv, PlayTimeCoversStanding, [Next]_vars
               PROVE  (LivesInv /\ PlayTimeCoversStanding)'
    OBVIOUS
  <1> USE DEF durable, world, registry, clock, loop, ghosts
  <1>1. ASSUME records' = records PROVE PlayTimeCoversStanding'
    BY <1>1 DEF PlayTimeCoversStanding
  <1>2. ASSUME dogs' = dogs PROVE LivesInv'
    BY <1>2 DEF LivesInv
  <1>3. ASSUME Blank PROVE LivesInv'
    BY <1>3 DEF Blank, NoDogs, LivesInv
  <1>4. ASSUME NEW u \in Users, NEW mu \in Maps, JoinGame(u, mu)
        PROVE  (LivesInv /\ PlayTimeCoversStanding)'
    <2> DEFINE k == player_incr_id
               new == [name |-> u, moving |-> FALSE, life |-> 0, stop |-> 0]
    <2>1. /\ k \in PlayerIds /\ records' = records /\ new.life = 0 /\ new.stop = 0
          /\ dogs' = [dogs EXCEPT ![mu][k] = Emplace(dogs[mu][k], new)]
      BY <1>4 DEF JoinGame
    <2> HIDE DEF new, k
    <2>2. /\ \A m \in Maps, id \in PlayerIds :
                ~(m = mu /\ id = k) => dogs'[m][id] = dogs[m][id]
          /\ dogs'[mu][k] \in {dogs[mu][k], new}
      BY <2>1 DEF Emplace, TypeInv, TypeOK
    <2> QED
      BY <1>1, <2>1, <2>2 DEF LivesInv
  <1>5. ASSUME NEW t \in Users, NEW move \in BOOLEAN, PlayerAction(t, move)
        PROVE  (LivesInv /\ PlayTimeCoversStanding)'
    <2>1. LivesInv'
      BY <1>5, ActionSame, ActionTimes DEF LivesInv, SameDogs
    <2> QED
      BY <1>1, <1>5, <2>1 DEF PlayerAction
  <1>6. ASSUME NEW id \in PlayerIds, NEW moving \in BOOLEAN, Visit(id, moving)
        PROVE  LivesInv' /\ cur \in Maps /\ dogs[cur][id] # None
    <2>1. /\ dogs[cur][id].life \in Nat /\ dogs[cur][id].stop \in Nat /\ dt \in Nat
          /\ dogs[cur][id].stop <= dogs[cur][id].life /\ dogs[cur][id] # None
      BY <1>6, VisitTimes DEF Dog, TypeInv, TypeOK, LivesInv, Visit
    <2>2. dogs'[cur][id].stop <= dogs'[cur][id].life
      BY <1>6, <2>1, VisitTimes
    <2> QED
      BY <1>6, <2>1, <2>2, VisitTimes DEF LivesInv
  <1>7. ASSUME NEW id \in PlayerIds, cur \in Maps, dogs[cur][id] # None,
               \/ records' = records
               \/ Retires(id) /\ StoreRecord(dogs[cur][id])
        PROVE  PlayTimeCoversStanding'
    BY <1>1, <1>7, StoreTime DEF TypeInv
  <1>8. ASSUME Requests PROVE (LivesInv /\ PlayTimeCoversStanding)'
    <2>1. ASSUME NEW t \in Users, PlayerActionThrows(t)
          PROVE  (LivesInv /\ PlayTimeCoversStanding)'
      BY <1>1, <1>3, <2>1 DEF PlayerActionThrows, Die
    <2> QED
      BY <1>4, <1>5, <1>8, <2>1 DEF Requests
  <1>9. ASSUME Tick PROVE (LivesInv /\ PlayTimeCoversStanding)'
    <2>1. ASSUME NEW id \in PlayerIds, NEW moving \in BOOLEAN, TickDog(id, moving)
          PROVE  (LivesInv /\ PlayTimeCoversStanding)'
      BY <1>6, <1>7, <2>1 DEF TickDog
    <2>2. ASSUME NEW id \in PlayerIds, NEW moving \in BOOLEAN, NEW committed \in BOOLEAN,
                 SaveThrows(id, moving, committed)
          PROVE  (LivesInv /\ PlayTimeCoversStanding)'
      BY <1>6, <1>7, <2>2 DEF SaveThrows
    <2>3. ASSUME NEW id \in PlayerIds, NEW committed \in BOOLEAN, SaveKills(id, committed)
          PROVE  (LivesInv /\ PlayTimeCoversStanding)'
      <3>1. cur \in Maps
        BY <2>3 DEF SaveKills, TypeInv, LoopInv
      <3> QED
        BY <1>3, <1>7, <2>3, <3>1 DEF SaveKills, Die
    <2>4. ASSUME NEW k \in PlayerIds, RemoveDog(k)
          PROVE  (LivesInv /\ PlayTimeCoversStanding)'
      <3>1. \A m \in Maps, id \in PlayerIds : dogs'[m][id] \in {dogs[m][id], None}
        BY <2>4 DEF RemoveDog, WithoutDog, TypeInv, TypeOK
      <3> QED
        BY <1>1, <2>4, <3>1 DEF LivesInv, RemoveDog
    <2>5. ASSUME \/ \E delta \in Deltas : TickBegin(delta)
                 \/ \E m \in Maps : SessionBegin(m)
                 \/ DogsDone \/ SessionEnd \/ TickEnd \/ BackupThrows
          PROVE  (LivesInv /\ PlayTimeCoversStanding)'
      BY <1>1, <1>2, <2>5
      DEF TickBegin, SessionBegin, DogsDone, SessionEnd, TickEnd, BackupThrows
    <2> QED
      BY <1>9, <2>1, <2>2, <2>3, <2>4, <2>5 DEF Tick
  <1>10. ASSUME Process PROVE (LivesInv /\ PlayTimeCoversStanding)'
    <2>1. CASE Stop \/ Crash
      BY <1>1, <1>3, <2>1 DEF Stop, Crash, Die
    <2>2. CASE Start
      <3>1. LivesInv'
        BY <1>3, <2>2, RestoreTimes DEF Start, TypeInv, TypeOK, LivesInv
      <3> QED
        BY <1>1, <2>2, <3>1 DEF Start
    <2> QED
      BY <1>10, <2>1, <2>2 DEF Process
  <1> QED
    BY <1>1, <1>2, <1>8, <1>9, <1>10 DEF Next, vars

\* A record never tells of less play than the dog stood for before it retired.
THEOREM RecordsCoverStanding == Spec => []PlayTimeCoversStanding
  <1>1. Init => LivesInv /\ PlayTimeCoversStanding
    BY DEF Init, NoDogs, LivesInv, PlayTimeCoversStanding
  <1>2. TypeInv /\ TypeInv' /\ LivesInv /\ PlayTimeCoversStanding /\ [Next]_vars
           => (LivesInv /\ PlayTimeCoversStanding)'
    BY LivesStep
  <1> QED
    BY <1>1, <1>2, AgreeAlways, PTL DEF Spec

-----------------------------------------------------------------------------
(* What a crash costs: the clock of backups.                               *)

\* The dog is in the state file, under its id and name.
Covered(m, id) == /\ stateFile # None /\ stateFile.dogs[m][id] # None
                  /\ stateFile.dogs[m][id].name = dogs[m][id].name

\* The tick under way has still to visit the dog.
ToCome(m, id) == m \in pending \/ (m = cur /\ id \in todo)

\* The position inside a tick: a session that is being visited is not visited again.
PassInv == /\ pc = "idle" => dt = 0
           /\ pc \in {"dogs", "removing"} => cur \notin pending

\* Between two backups the clock stays below the next one, and whoever is not in the file
\* has come since the last one: has lived no longer than the time that passed, with the
\* tick under way for those it has visited.
ClockInv ==
    (up /\ HasStateFile /\ SavePeriod > 0 /\ ~cutShort) =>
        /\ server_time < backup_time /\ backup_time <= server_time + SavePeriod
        /\ \A m \in Maps, id \in PlayerIds : dogs[m][id] # None =>
              \/ Covered(m, id)
              \/ dogs[m][id].life + backup_time
                    <= server_time + SavePeriod + (IF ToCome(m, id) THEN 0 ELSE dt)

LEMMA PassStep == TypeInv /\ PassInv /\ [Next]_vars => PassInv'
  <1> SUFFICES ASSUME TypeInv, PassInv, [Next]_vars PROVE PassInv'
    OBVIOUS
  <1> USE DEF PassInv, loop
  <1>1. ASSUME Rest PROVE PassInv'
    BY <1>1 DEF Rest
  <1>2. ASSUME UNCHANGED <<pc, dt, cur, pending>> PROVE PassInv'
    BY <1>2
  <1>3. CASE Requests
    BY <1>1, <1>2, <1>3 DEF Requests, JoinGame, PlayerAction, PlayerActionThrows, Die
  <1>4. CASE Tick
    <2>1. ASSUME NEW delta \in Deltas, TickBegin(delta) PROVE PassInv'
      BY <2>1 DEF TickBegin
    <2>2. ASSUME NEW m \in Maps, SessionBegin(m) PROVE PassInv'
      BY <2>2 DEF SessionBegin
    <2>3. ASSUME DogsDone \/ SessionEnd PROVE PassInv'
      BY <2>3 DEF DogsDone, SessionEnd
    <2>4. ASSUME NEW id \in PlayerIds, RemoveDog(id) PROVE PassInv'
      BY <1>2, <2>4 DEF RemoveDog
    <2>5. ASSUME NEW id \in PlayerIds, NEW moving \in BOOLEAN, TickDog(id, moving) PROVE PassInv'
      BY <1>2, <2>5 DEF TickDog
    <2>6. ASSUME NEW id \in PlayerIds, NEW moving \in BOOLEAN, NEW committed \in BOOLEAN,
                 SaveThrows(id, moving, committed) \/ SaveKills(id, committed)
          PROVE  PassInv'
      BY <1>1, <2>6 DEF SaveThrows, SaveKills, Die
    <2>7. ASSUME TickEnd \/ BackupThrows PROVE PassInv'
      BY <1>1, <2>7 DEF TickEnd, BackupThrows
    <2> QED
      BY <1>4, <2>1, <2>2, <2>3, <2>4, <2>5, <2>6, <2>7 DEF Tick
  <1>5. CASE Process
    BY <1>1, <1>5 DEF Process, Stop, Crash, Start, Die
  <1> QED
    BY <1>2, <1>3, <1>4, <1>5 DEF Next, vars

\* A backup covers every dog in the game.
LEMMA BackUpCoversAll ==
    ASSUME TypeOK, HasStateFile, BackUpData, dogs' = dogs,
           NEW m \in Maps, NEW id \in PlayerIds, dogs[m][id] # None
    PROVE  Covered(m, id)'
  <1>1. /\ stateFile'.dogs[m][id] = Save(dogs[m][id])
        /\ stateFile' \in File
    <2>1. PICK tok \in [PlayerIds -> Tokens \cup {None}] :
             stateFile' = [dogs  |-> [n \in Maps |-> [i \in PlayerIds |-> Save(dogs[n][i])]],
                           token |-> tok]
      BY DEF BackUpData
    <2>2. \A n \in Maps, i \in PlayerIds : Save(dogs[n][i]) \in Saved \cup {None}
      BY DEF TypeOK, Save, Dog, Saved
    <2> QED
      BY <2>1, <2>2 DEF File
  <1>2. Save(dogs[m][id]) # None /\ Save(dogs[m][id]).name = dogs[m][id].name
    <2>1. dogs[m][id] \in Dog
      BY DEF TypeOK
    <2>2. Save(dogs[m][id]) \in Saved /\ Save(dogs[m][id]).name = dogs[m][id].name
      BY <2>1 DEF Save, Dog, Saved
    <2> QED
      BY <2>2, NoneAssumption
  <1> QED
    BY <1>1, <1>2, NoneAssumption DEF Covered

\* A step that leaves file and clock alone, lets no dog live longer and brings none in keeps
\* the clock of backups, if the tick does not come back to a dog it has visited.
LEMMA ClockSame ==
    ASSUME TypeInv, TypeInv', ClockInv,
           UNCHANGED <<stateFile, server_time, backup_time>>,
           up' => up, ~cutShort' => ~cutShort,
           \A m \in Maps, id \in PlayerIds : dogs'[m][id] # None =>
              /\ dogs[m][id] # None /\ dogs'[m][id].name = dogs[m][id].name
              /\ dogs'[m][id].life <= dogs[m][id].life
              /\ (IF ToCome(m, id) THEN 0 ELSE dt) <= (IF ToCome(m, id)' THEN 0 ELSE dt')
    PROVE  ClockInv'
  <1> SUFFICES ASSUME up', HasStateFile, SavePeriod > 0, ~cutShort',
                      NEW m \in Maps, NEW id \in PlayerIds, dogs'[m][id] # None
               PROVE  \/ Covered(m, id)'
                      \/ dogs'[m][id].life + backup_time'
                            <= server_time' + SavePeriod + (IF ToCome(m, id)' THEN 0 ELSE dt')
    BY DEF ClockInv
  <1> DEFINE extra == IF ToCome(m, id) THEN 0 ELSE dt
             extra1 == IF ToCome(m, id)' THEN 0 ELSE dt'
  <1>1. dogs[m][id] \in Dog /\ dogs'[m][id] \in Dog /\ dt \in Nat /\ dt' \in Nat
    BY DEF TypeInv, TypeOK
  <1>2. /\ dogs[m][id].life \in Nat /\ dogs'[m][id].life \in Nat
        /\ extra \in Nat /\ extra1 \in Nat /\ extra <= extra1
    BY <1>1 DEF Dog
  <1>3. Covered(m, id) \/ dogs[m][id].life + backup_time <= server_time + SavePeriod + extra
    BY DEF ClockInv
  <1>4. Covered(m, id) => Covered(m, id)'
    BY DEF Covered
  <1> HIDE DEF extra, extra1
  <1>5. dogs[m][id].life + backup_time <= server_time + SavePeriod + extra =>
           dogs'[m][id].life + backup_time' <= server_time' + SavePeriod + extra1
    BY <1>2, TimeAssumption DEF TypeInv, TypeOK
  <1> QED
    BY <1>3, <1>4, <1>5 DEF extra1

LEMMA ClockStep == TypeInv /\ TypeInv' /\ PassInv /\ ClockInv /\ [Next]_vars => ClockInv'
  <1> SUFFICES ASSUME TypeInv, TypeInv', PassInv, ClockInv, [Next]_vars PROVE ClockInv'
    OBVIOUS
  <1> USE DEF durable, world, registry, clock, loop, ghosts
  <1>0. /\ server_time \in Nat /\ backup_time \in Nat /\ dt \in Nat /\ dt' \in Nat
        /\ \A m \in Maps, id \in PlayerIds :
              /\ dogs[m][id] # None => dogs[m][id] \in Dog /\ dogs[m][id].life \in Nat
              /\ dogs'[m][id] # None => dogs'[m][id] \in Dog /\ dogs'[m][id].life \in Nat
    BY DEF TypeInv, TypeOK, Dog
  <1>1. ASSUME ~up' \/ cutShort' PROVE ClockInv'
    BY <1>1 DEF ClockInv
  <1>2. ASSUME UNCHANGED <<stateFile, clock, up, cutShort, dogs>>,
               \A m \in Maps, id \in PlayerIds :
                  (IF ToCome(m, id) THEN 0 ELSE dt) <= (IF ToCome(m, id)' THEN 0 ELSE dt')
        PROVE  ClockInv'
    BY <1>0, <1>2, ClockSame
  <1>3. ASSUME NEW u \in Users, NEW mu \in Maps, JoinGame(u, mu) PROVE ClockInv'
    <2> DEFINE k == player_incr_id
               new == [name |-> u, moving |-> FALSE, life |-> 0, stop |-> 0]
    <2>1. /\ k \in PlayerIds /\ new.life = 0 /\ dt = 0 /\ up
          /\ dogs' = [dogs EXCEPT ![mu][k] = Emplace(dogs[mu][k], new)]
          /\ UNCHANGED <<stateFile, server_time, backup_time, up, cutShort, dt, pending, cur, todo>>
      BY <1>3 DEF JoinGame, PassInv
    <2> HIDE DEF new, k
    <2>2. /\ \A m \in Maps, id \in PlayerIds :
                ~(m = mu /\ id = k) => dogs'[m][id] = dogs[m][id]
          /\ dogs'[mu][k] = dogs[mu][k] \/ dogs'[mu][k] = new
      BY <2>1 DEF Emplace, TypeInv, TypeOK
    <2>3. SUFFICES ASSUME HasStateFile, SavePeriod > 0, ~cutShort,
                          NEW m \in Maps, NEW id \in PlayerIds, dogs'[m][id] # None
                   PROVE  \/ Covered(m, id)'
                          \/ dogs'[m][id].life + backup_time' <= server_time' + SavePeriod + 0
      BY <1>0, <2>1, TimeAssumption DEF ClockInv
    <2>4. CASE dogs'[m][id] = dogs[m][id]
      <3>1. Covered(m, id) \/ dogs[m][id].life + backup_time <= server_time + SavePeriod + 0
        BY <2>1, <2>3, <2>4 DEF ClockInv
      <3> QED
        BY <2>1, <2>4, <3>1 DEF Covered
    <2>5. CASE dogs'[m][id] = new
      <3>1. backup_time <= server_time + SavePeriod
        BY <2>1, <2>3 DEF ClockInv
      <3> QED
        BY <1>0, <2>1, <2>5, <3>1, TimeAssumption
    <2> QED
      BY <2>2, <2>4, <2>5
  <1>4. ASSUME NEW t \in Users, NEW move \in BOOLEAN, PlayerAction(t, move) PROVE ClockInv'
    <2>1. SameDogs /\ UNCHANGED <<stateFile, clock, up, cutShort, dt, pending, cur, todo>>
      BY <1>4, ActionSame DEF PlayerAction
    <2>2. ASSUME NEW m \in Maps, NEW id \in PlayerIds, dogs'[m][id] # None
          PROVE  /\ dogs[m][id] # None /\ dogs'[m][id].name = dogs[m][id].name
                 /\ dogs'[m][id].life <= dogs[m][id].life
                 /\ (IF ToCome(m, id) THEN 0 ELSE dt) <= (IF ToCome(m, id)' THEN 0 ELSE dt')
      <3>1. dogs[m][id] # None /\ dogs'[m][id].name = dogs[m][id].name
        BY <2>1, <2>2 DEF SameDogs
      <3>2. dogs'[m][id].life = dogs[m][id].life
        BY <1>4, <3>1, ActionTimes
      <3> QED
        BY <1>0, <2>1, <2>2, <3>1, <3>2 DEF ToCome
    <2> QED
      BY <2>1, <2>2, ClockSame
  <1>5. ASSUME NEW delta \in Deltas, TickBegin(delta) PROVE ClockInv'
    <2>1. dt = 0 /\ dt' \in Nat
      BY <1>0, <1>5 DEF TickBegin, PassInv
    <2> QED
      BY <1>2, <1>5, <2>1 DEF TickBegin
  <1>6. ASSUME NEW m \in Maps, SessionBegin(m) PROVE ClockInv'
    <2>1. ASSUME NEW n \in Maps, NEW id \in PlayerIds, dogs'[n][id] # None
          PROVE  /\ dogs[n][id] # None /\ dogs'[n][id].name = dogs[n][id].name
                 /\ dogs'[n][id].life <= dogs[n][id].life
                 /\ (IF ToCome(n, id) THEN 0 ELSE dt) <= (IF ToCome(n, id)' THEN 0 ELSE dt')
      <3>1. dogs' = dogs /\ dt' = dt /\ cur' = m /\ pending' = pending \ {m}
            /\ todo' = IdsIn(dogs, m) /\ m \in pending
        BY <1>6 DEF SessionBegin
      <3>2. ToCome(n, id)' => ToCome(n, id)
        BY <3>1 DEF ToCome
      <3> QED
        BY <1>0, <2>1, <3>1, <3>2
    <2> QED
      BY <1>6, <2>1, ClockSame DEF SessionBegin
  <1>7. ASSUME NEW id \in PlayerIds, NEW moving \in BOOLEAN, TickDog(id, moving)
        PROVE  ClockInv'
    <2>1. /\ Visit(id, moving) /\ SameDogs /\ id \in todo /\ cur \in Maps /\ cur \notin pending
          /\ todo' = todo \ {id} /\ dogs[cur][id] # None /\ up
          /\ UNCHANGED <<stateFile, server_time, backup_time, up, cutShort, dt, pending, cur>>
      BY <1>7, VisitSame, VisitTimes DEF TickDog, Visit, PassInv
    <2>2. SUFFICES ASSUME HasStateFile, SavePeriod > 0, ~cutShort,
                          NEW m \in Maps, NEW i \in PlayerIds, dogs'[m][i] # None
                   PROVE  \/ Covered(m, i)'
                          \/ dogs'[m][i].life + backup_time'
                                <= server_time' + SavePeriod + (IF ToCome(m, i)' THEN 0 ELSE dt')
      BY <2>1 DEF ClockInv
    <2>3. dogs[m][i] # None /\ dogs'[m][i].name = dogs[m][i].name
      BY <2>1, <2>2 DEF SameDogs
    <2>4. \/ Covered(m, i)
          \/ dogs[m][i].life + backup_time
                <= server_time + SavePeriod + (IF ToCome(m, i) THEN 0 ELSE dt)
      BY <2>1, <2>2, <2>3 DEF ClockInv
    <2>5. CASE Covered(m, i)
      BY <2>1, <2>3, <2>5 DEF Covered
    <2>6. CASE m = cur /\ i = id
      <3>1. ToCome(m, i) /\ ~ToCome(m, i)'
        BY <2>1, <2>6 DEF ToCome
      <3>2. dogs'[m][i].life = dogs[m][i].life + dt
        BY <2>1, <2>6, VisitTimes
      <3> QED
        BY <1>0, <2>1, <2>3, <2>4, <2>5, <3>1, <3>2, TimeAssumption
    <2>7. CASE ~(m = cur /\ i = id)
      <3>1. ToCome(m, i)' <=> ToCome(m, i)
        BY <2>1, <2>7 DEF ToCome
      <3>2. dogs'[m][i] = dogs[m][i]
        BY <2>1, <2>7, VisitTimes
      <3> QED
        BY <2>1, <2>4, <2>5, <3>1, <3>2
    <2> QED
      BY <2>6, <2>7
  <1>8. ASSUME NEW id \in PlayerIds, RemoveDog(id) PROVE ClockInv'
    <2>1. /\ \A m \in Maps, i \in PlayerIds : dogs'[m][i] \in {dogs[m][i], None}
          /\ UNCHANGED <<stateFile, server_time, backup_time, up, cutShort, dt, pending, cur, todo>>
      BY <1>8 DEF RemoveDog, WithoutDog, TypeInv, TypeOK
    <2>2. ASSUME NEW m \in Maps, NEW i \in PlayerIds, dogs'[m][i] # None
          PROVE  /\ dogs[m][i] # None /\ dogs'[m][i].name = dogs[m][i].name
                 /\ dogs'[m][i].life <= dogs[m][i].life
                 /\ (IF ToCome(m, i) THEN 0 ELSE dt) <= (IF ToCome(m, i)' THEN 0 ELSE dt')
      BY <1>0, <2>1, <2>2 DEF ToCome
    <2> QED
      BY <2>1, <2>2, ClockSame
  <1>9. CASE DogsDone
    BY <1>0, <1>2, <1>9 DEF DogsDone, ToCome
  <1>10. CASE SessionEnd
    <2>1. \A m \in Maps, id \in PlayerIds : ToCome(m, id)' => ToCome(m, id)
      BY <1>10, NoneAssumption DEF SessionEnd, ToCome
    <2> QED
      BY <1>0, <1>2, <1>10, <2>1 DEF SessionEnd
  <1>11. CASE TickEnd
    <2>1. /\ dogs' = dogs /\ server_time' = server_time + dt /\ dt' = 0 /\ pending = {}
          /\ up' = up /\ cutShort' = cutShort /\ up
      BY <1>11 DEF TickEnd, Rest
    <2>2. SUFFICES ASSUME HasStateFile, SavePeriod > 0, ~cutShort
                   PROVE  ClockInv'
      BY <2>1 DEF ClockInv
    <2>3. backup_time > 0 /\ server_time < backup_time /\ backup_time <= server_time + SavePeriod
      BY <1>0, <2>1, <2>2 DEF ClockInv
    <2>4. CASE BackupDue(server_time + dt)
      <3>1. backup_time' = server_time + dt + SavePeriod /\ BackUpData
        BY <1>11, <2>4 DEF TickEnd
      <3>2. \A m \in Maps, id \in PlayerIds : dogs'[m][id] # None => Covered(m, id)'
        BY <2>1, <2>2, <3>1, BackUpCoversAll DEF TypeInv
      <3> QED
        BY <1>0, <2>1, <2>2, <3>1, <3>2, TimeAssumption DEF ClockInv
    <2>5. CASE ~BackupDue(server_time + dt)
      <3>1. backup_time' = backup_time /\ stateFile' = stateFile
        BY <1>11, <2>5 DEF TickEnd
      <3>2. server_time' < backup_time' /\ backup_time' <= server_time' + SavePeriod
        BY <1>0, <2>1, <2>3, <2>5, <3>1, TimeAssumption DEF BackupDue
      <3>3. ASSUME NEW m \in Maps, NEW id \in PlayerIds, dogs'[m][id] # None
            PROVE  \/ Covered(m, id)'
                   \/ dogs'[m][id].life + backup_time' <= server_time' + SavePeriod + 0
        <4>1. Covered(m, id) => Covered(m, id)'
          BY <2>1, <3>1 DEF Covered
        <4>2. \/ Covered(m, id)
              \/ dogs[m][id].life + backup_time
                    <= server_time + SavePeriod + (IF ToCome(m, id) THEN 0 ELSE dt)
          BY <2>1, <2>2, <3>3 DEF ClockInv
        <4> QED
          BY <1>0, <2>1, <3>1, <3>3, <4>1, <4>2, TimeAssumption
      <3> QED
        BY <2>1, <3>2, <3>3 DEF ClockInv
    <2> QED
      BY <2>4, <2>5
  <1>12. CASE Start
    <2>1. server_time' = 0 /\ backup_time' = SavePeriod /\ dt' = 0
      BY <1>12 DEF Start, StartClock, Rest
    <2>2. \A m \in Maps, id \in PlayerIds : dogs'[m][id] # None => dogs'[m][id].life = 0
      BY <1>12, RestoreTimes DEF Start, Blank, NoDogs, TypeInv, TypeOK
    <2> QED
      BY <2>1, <2>2, TimeAssumption DEF ClockInv
  <1>13. CASE UNCHANGED vars
    BY <1>0, <1>2, <1>13 DEF vars, ToCome
  <1>14. ASSUME NEW t \in Users, PlayerActionThrows(t) PROVE ClockInv'
    BY <1>1, <1>14 DEF PlayerActionThrows, Die
  <1>15. ASSUME NEW id \in PlayerIds, NEW moving \in BOOLEAN, NEW committed \in BOOLEAN,
                SaveThrows(id, moving, committed) \/ SaveKills(id, committed)
         PROVE  ClockInv'
    BY <1>1, <1>15 DEF SaveThrows, SaveKills, Die
  <1>16. CASE BackupThrows \/ Stop \/ Crash
    BY <1>1, <1>16 DEF BackupThrows, Stop, Crash, Die
  <1> QED
    BY <1>3, <1>4, <1>5, <1>6, <1>7, <1>8, <1>9, <1>10, <1>11, <1>12, <1>13, <1>14,
       <1>15, <1>16
    DEF Next, Requests, Tick, Process

\* A crash costs a save period of play at most: who has played for longer is in the state
\* file at every moment between two handlers, unless a tick was cut short.
THEOREM CrashCostsOnePeriod == Spec => []BackupCovers
  <1>1. Init => PassInv /\ ClockInv
    BY TimeAssumption DEF Init, NoDogs, PassInv, ClockInv
  <1>2. TypeInv /\ TypeInv' /\ PassInv /\ ClockInv /\ [Next]_vars => (PassInv /\ ClockInv)'
    BY PassStep, ClockStep
  <1>3. TypeInv /\ PassInv /\ ClockInv => BackupCovers
    <2> SUFFICES ASSUME TypeInv, PassInv, ClockInv, up, pc = "idle", HasStateFile,
                        SavePeriod > 0, ~cutShort, NEW m \in Maps, NEW id \in PlayerIds,
                        dogs[m][id] # None, dogs[m][id].life >= SavePeriod
                 PROVE  Covered(m, id)
      BY DEF BackupCovers, Covered
    <2>1. dt = 0 /\ dogs[m][id].life \in Nat /\ server_time \in Nat /\ backup_time \in Nat
      BY DEF PassInv, TypeInv, TypeOK, Dog
    <2>2. /\ server_time < backup_time
          /\ Covered(m, id) \/ dogs[m][id].life + backup_time <= server_time + SavePeriod + 0
      BY <2>1 DEF ClockInv
    <2> QED
      BY <2>1, <2>2, TimeAssumption
  <1> QED
    BY <1>1, <1>2, <1>3, AgreeAlways, PTL DEF Spec

-----------------------------------------------------------------------------
(* The registry implements Membership: for every set of users and maps, all *)
(* times, bounds, faults and restarts.                                      *)

\* The users of module Membership, as sets of this module.
Playing  == {u \in Users : InGame(u)}
Recorded == {u \in Users : records[u] # <<>>}
InFiles  == {u \in Users : InFile(u)}

\* Without --state-file nothing is ever saved.
NoFileInv == ~HasStateFile => stateFile = None

LEMMA NoFileStep == NoFileInv /\ [Next]_vars => NoFileInv'
  BY DEF NoFileInv, Next, Requests, Tick, Process, JoinGame, PlayerAction, PlayerActionThrows,
         TickBegin, SessionBegin, TickDog, SaveThrows, SaveKills, DogsDone, RemoveDog,
         SessionEnd, TickEnd, BackupThrows, Stop, Crash, Start, BackUpData, vars, durable

-----------------------------------------------------------------------------
(* What a step does to the three sets.                                     *)

\* A step that takes no dog in or out leaves the players as they are.
LEMMA SamePlaying ==
    ASSUME SameDogs
    PROVE  Playing' = Playing
  BY DEF SameDogs, Playing, InGame

LEMMA SameFile ==
    ASSUME stateFile' = stateFile
    PROVE  InFiles' = InFiles
  BY DEF InFiles, InFile

LEMMA SameRecords ==
    ASSUME records' = records
    PROVE  Recorded' = Recorded
  BY DEF Recorded

\* The process that dies has nobody in the game.
LEMMA DieEmpties ==
    ASSUME Die
    PROVE  Playing' = {} /\ up' = FALSE /\ counterOK' = counterOK
  BY DEF Die, Blank, NoDogs, Playing, InGame

\* A dog that retires adds its user to the records.
LEMMA StoreRecords ==
    ASSUME TypeOK, NEW m \in Maps, NEW id \in PlayerIds, dogs[m][id] # None,
           StoreRecord(dogs[m][id])
    PROVE  /\ dogs[m][id].name \in Playing
           /\ Recorded' = Recorded \cup {dogs[m][id].name}
  <1> DEFINE d == dogs[m][id]
  <1>1. d \in Dog
    BY DEF TypeOK
  <1>2. d.name \in Users
    BY <1>1 DEF Dog
  <1>3. records'[d.name] # <<>> /\ \A u \in Users \ {d.name} : records'[u] = records[u]
    BY <1>1, StoreOne
  <1>4. d.name \in Playing
    BY <1>2 DEF Playing, InGame
  <1>5. Recorded' = Recorded \cup {d.name}
    BY <1>2, <1>3 DEF Recorded
  <1> QED
    BY <1>4, <1>5

\* A backup puts those in the file who are in the game.
LEMMA BackUpSaves ==
    ASSUME TypeOK, HasStateFile, BackUpData
    PROVE  InFiles' = Playing
  <1>1. /\ stateFile'.dogs = [m \in Maps |-> [id \in PlayerIds |-> Save(dogs[m][id])]]
        /\ stateFile' \in File
    <2>1. PICK tok \in [PlayerIds -> Tokens \cup {None}] :
             stateFile' = [dogs  |-> [m \in Maps |-> [id \in PlayerIds |-> Save(dogs[m][id])]],
                           token |-> tok]
      BY DEF BackUpData
    <2>2. \A m \in Maps, id \in PlayerIds : Save(dogs[m][id]) \in Saved \cup {None}
      BY DEF TypeOK, Save, Dog, Saved
    <2> QED
      BY <2>1, <2>2 DEF File
  <1>2. stateFile' # None
    BY <1>1, NoneAssumption
  <1>3. ASSUME NEW m \in Maps, NEW id \in PlayerIds
        PROVE  /\ (stateFile'.dogs[m][id] = None) <=> (dogs[m][id] = None)
               /\ dogs[m][id] # None => stateFile'.dogs[m][id].name = dogs[m][id].name
    <2>1. stateFile'.dogs[m][id] = Save(dogs[m][id])
      BY <1>1
    <2>2. dogs[m][id] # None => /\ Save(dogs[m][id]) \in Saved
                                /\ Save(dogs[m][id]).name = dogs[m][id].name
      BY DEF TypeOK, Save, Dog, Saved
    <2> QED
      BY <2>1, <2>2, NoneAssumption DEF Save
  <1>4. ASSUME NEW u \in Users PROVE InFile(u)' <=> InGame(u)
    BY <1>2, <1>3 DEF InFile, InGame
  <1> QED
    BY <1>4 DEF InFiles, Playing

\* A restore brings those back who are in the file.
LEMMA RestoreBrings ==
    ASSUME TypeOK, stateFile # None, RestoreBackUpData(stateFile)
    PROVE  Playing' = InFiles
  <1>1. stateFile \in File
    BY DEF TypeOK
  <1>2. ASSUME NEW m \in Maps, NEW id \in PlayerIds
        PROVE  /\ (dogs'[m][id] = None) <=> (stateFile.dogs[m][id] = None)
               /\ stateFile.dogs[m][id] # None =>
                     dogs'[m][id].name = stateFile.dogs[m][id].name
    <2>1. dogs'[m][id] = Restore(stateFile.dogs[m][id])
      BY DEF RestoreBackUpData
    <2>2. stateFile.dogs[m][id] \in Saved \cup {None}
      BY <1>1 DEF File
    <2>3. stateFile.dogs[m][id] # None =>
             /\ Restore(stateFile.dogs[m][id]) \in Dog
             /\ Restore(stateFile.dogs[m][id]).name = stateFile.dogs[m][id].name
      BY <2>2 DEF Restore, Saved, Dog
    <2> QED
      BY <2>1, <2>3, NoneAssumption DEF Restore
  <1>3. ASSUME NEW u \in Users PROVE InGame(u)' <=> InFile(u)
    BY <1>2 DEF InFile, InGame
  <1> QED
    BY <1>3 DEF InFiles, Playing

-----------------------------------------------------------------------------
(* The refinement.                                                         *)

Agreed == TypeInv /\ AgreeInv /\ RemoveInv /\ NoFileInv

LEMMA AgreedAlways == Spec => []Agreed
  <1>1. Init => RemoveInv /\ NoFileInv
    BY DEF Init, RemoveInv, NoFileInv
  <1>2. TypeInv /\ TypeInv' /\ RemoveInv /\ NoFileInv /\ [Next]_vars => (RemoveInv /\ NoFileInv)'
    BY RemoveStep, NoFileStep
  <1> QED
    BY <1>1, <1>2, AgreeAlways, PTL DEF Spec, Agreed

\* The abstract steps, on the three sets.
MemberJoin(u) ==
    /\ up /\ u \notin Playing /\ Playing' = Playing \cup {u}
    /\ UNCHANGED <<Recorded, InFiles, up>>
MemberTick(retiring, leaving) ==
    /\ up /\ Recorded' = Recorded \cup retiring /\ leaving \subseteq Recorded'
    /\ Playing' = Playing \ leaving /\ UNCHANGED <<InFiles, up>>
MemberSave == up /\ InFiles' = Playing /\ UNCHANGED <<Playing, Recorded, up>>
MemberDown(retiring) ==
    /\ up /\ up' = FALSE /\ Playing' = {} /\ Recorded' = Recorded \cup retiring
    /\ InFiles' \in {InFiles, Playing}
MemberUp == ~up /\ up' = TRUE /\ Playing' = InFiles /\ UNCHANGED <<Recorded, InFiles>>
MemberStutter == UNCHANGED <<Playing, Recorded, InFiles, up>>

MemberStep ==
    \/ \E u \in Users : MemberJoin(u)
    \/ \E retiring, leaving \in SUBSET Playing : MemberTick(retiring, leaving)
    \/ MemberSave
    \/ \E retiring \in SUBSET Playing : MemberDown(retiring)
    \/ MemberUp
    \/ MemberStutter

\* The player of a join is new to the game, as is the id that it gets.
LEMMA JoinStep ==
    ASSUME Agreed, counterOK, NEW u \in Users, NEW m \in Maps, JoinGame(u, m)
    PROVE  MemberJoin(u)
  <1> DEFINE id == player_incr_id
             new == [name |-> u, moving |-> FALSE, life |-> 0, stop |-> 0]
  <1>1. id \in PlayerIds /\ up /\ up' = up /\ u \notin joined
        /\ records' = records /\ stateFile' = stateFile
    BY DEF JoinGame, durable
  <1>2. dogs[m][id] = None
    <2>1. dogs[m][id] # None => id < player_incr_id
      BY <1>1 DEF Agreed, AgreeInv, RegistryInv
    <2>2. player_incr_id \in Nat
      BY DEF Agreed, TypeInv, TypeOK
    <2> QED
      BY <2>1, <2>2
  <1>3. /\ dogs'[m][id] = new
        /\ \A n \in Maps, i \in PlayerIds : ~(n = m /\ i = id) => dogs'[n][i] = dogs[n][i]
    BY <1>1, <1>2 DEF JoinGame, Emplace, Agreed, TypeInv, TypeOK
  <1>4. new # None /\ new.name = u
    <2>1. new \in Dog
      BY DEF Dog
    <2> QED
      BY <2>1, NoneAssumption
  <1> HIDE DEF new, id
  <1>5. u \notin Playing
    BY <1>1 DEF Agreed, AgreeInv, NamesInv, Playing, InGame
  <1>6. ASSUME NEW v \in Users PROVE InGame(v)' <=> InGame(v) \/ v = u
    <2>1. CASE v = u
      BY <1>1, <1>3, <1>4, <2>1 DEF InGame
    <2>2. CASE v # u
      BY <1>1, <1>2, <1>3, <1>4, <2>2 DEF InGame
    <2> QED
      BY <2>1, <2>2
  <1>7. Playing' = Playing \cup {u}
    BY <1>6 DEF Playing
  <1> QED
    BY <1>1, <1>5, <1>7, SameFile, SameRecords DEF MemberJoin

\* The dog that is removed has its record, and is the only one of its user.
LEMMA RemovalStep ==
    ASSUME Agreed, NEW k \in PlayerIds, RemoveDog(k)
    PROVE  \E u \in Playing : MemberTick({}, {u})
  <1>1. /\ cur \in Maps /\ k \in remove /\ dogs[cur][k] # None /\ up /\ up' = up
        /\ records' = records /\ stateFile' = stateFile
    BY DEF RemoveDog, Agreed, TypeInv, LoopInv, durable
  <1>2. /\ dogs'[cur][k] = None
        /\ \A n \in Maps, i \in PlayerIds : ~(n = cur /\ i = k) => dogs'[n][i] = dogs[n][i]
    BY <1>1 DEF RemoveDog, WithoutDog, Agreed, TypeInv, TypeOK
  <1>3. PICK u \in Users : u = dogs[cur][k].name
    BY <1>1 DEF Agreed, TypeInv, TypeOK, Dog
  <1>4. u \in Playing
    BY <1>1, <1>3 DEF Playing, InGame
  <1>5. records[u] # <<>>
    BY <1>1, <1>3 DEF Agreed, RemoveInv
  <1>6. ASSUME NEW v \in Users PROVE InGame(v)' <=> InGame(v) /\ v # u
    <2>1. CASE v = u
      <3>1. \A n \in Maps, i \in PlayerIds :
               (dogs[n][i] # None /\ dogs[n][i].name = u) => n = cur /\ i = k
        BY <1>1, <1>3 DEF Agreed, AgreeInv, NamesInv
      <3> QED
        BY <1>2, <2>1, <3>1 DEF InGame
    <2>2. CASE v # u
      BY <1>1, <1>2, <1>3, <2>2 DEF InGame
    <2> QED
      BY <2>1, <2>2
  <1>7. Playing' = Playing \ {u}
    BY <1>6 DEF Playing
  <1>8. Recorded' = Recorded \cup {} /\ {u} \subseteq Recorded'
    BY <1>1, <1>5, SameRecords DEF Recorded
  <1>9. MemberTick({}, {u})
    BY <1>1, <1>7, <1>8, SameFile DEF MemberTick
  <1> QED
    BY <1>4, <1>9

\* A dog that retires is recorded, whether the tick goes on or is cut short.
LEMMA RetirementStep ==
    ASSUME Agreed, NEW id \in PlayerIds, up, pc = "dogs", dogs[cur][id] # None,
           StoreRecord(dogs[cur][id]) \/ UNCHANGED records
    PROVE  \E retiring \in SUBSET Playing : Recorded' = Recorded \cup retiring
  <1>1. cur \in Maps
    BY DEF Agreed, TypeInv, LoopInv
  <1>2. CASE StoreRecord(dogs[cur][id])
    <2>1. /\ dogs[cur][id].name \in Playing
          /\ Recorded' = Recorded \cup {dogs[cur][id].name}
      BY <1>1, <1>2, StoreRecords DEF Agreed, TypeInv
    <2> QED
      BY <2>1
  <1>3. CASE UNCHANGED records
    <2>1. Recorded' = Recorded \cup {}
      BY <1>3, SameRecords
    <2> QED
      BY <2>1
  <1> QED
    BY <1>2, <1>3

LEMMA StartStep ==
    ASSUME Agreed, Start
    PROVE  MemberUp
  <1>1. ~up /\ up' = TRUE /\ records' = records /\ stateFile' = stateFile
    BY DEF Start, durable
  <1>2. CASE HasStateFile /\ stateFile # None
    <2>1. RestoreBackUpData(stateFile)
      BY <1>2 DEF Start
    <2> QED
      BY <1>1, <1>2, <2>1, RestoreBrings, SameFile, SameRecords DEF MemberUp, Agreed, TypeInv
  <1>3. CASE ~(HasStateFile /\ stateFile # None)
    <2>1. stateFile = None
      BY <1>3 DEF Agreed, NoFileInv
    <2>2. Blank
      BY <1>3 DEF Start
    <2>3. Playing' = {} /\ InFiles = {}
      BY <2>1, <2>2 DEF Blank, NoDogs, Playing, InGame, InFiles, InFile
    <2> QED
      BY <1>1, <2>3, SameFile, SameRecords DEF MemberUp
  <1> QED
    BY <1>2, <1>3

\* Every step of the registry is one of Membership, while ids are not given out twice.
LEMMA EveryStep ==
    ASSUME Agreed, [Next]_vars, counterOK
    PROVE  MemberStep
  <1> USE DEF durable, world, registry, clock, loop, ghosts
  <1>1. ASSUME SameDogs, UNCHANGED <<records, stateFile, up>> PROVE MemberStutter
    BY <1>1, SamePlaying, SameFile, SameRecords DEF MemberStutter
  <1>2. ASSUME dogs' = dogs PROVE SameDogs
    BY <1>2 DEF SameDogs
  <1>3. ASSUME up, Die, UNCHANGED <<records, stateFile>> PROVE MemberDown({})
    BY <1>3, DieEmpties, SameFile, SameRecords DEF MemberDown
  <1>4. ASSUME Requests PROVE MemberStep
    <2>1. ASSUME NEW u \in Users, NEW m \in Maps, JoinGame(u, m) PROVE MemberStep
      BY <2>1, JoinStep DEF MemberStep
    <2>2. ASSUME NEW t \in Users, NEW move \in BOOLEAN, PlayerAction(t, move) PROVE MemberStep
      <3>1. SameDogs
        BY <2>2, ActionSame DEF Agreed
      <3> QED
        BY <1>1, <2>2, <3>1 DEF PlayerAction, MemberStep
    <2>3. ASSUME NEW t \in Users, PlayerActionThrows(t) PROVE MemberStep
      BY <1>3, <2>3 DEF PlayerActionThrows, MemberStep
    <2> QED
      BY <1>4, <2>1, <2>2, <2>3 DEF Requests
  <1>5. ASSUME NEW id \in PlayerIds, NEW moving \in BOOLEAN, Visit(id, moving),
               StoreRecord(dogs[cur][id]) \/ UNCHANGED records, UNCHANGED <<stateFile, up>>
        PROVE  MemberStep
    <2>1. PICK retiring \in SUBSET Playing : Recorded' = Recorded \cup retiring
      BY <1>5, RetirementStep DEF Visit
    <2>2. Playing' = Playing \ {}
      BY <1>5, VisitSame, SamePlaying DEF Agreed
    <2>3. MemberTick(retiring, {})
      BY <1>5, <2>1, <2>2, SameFile DEF MemberTick, Visit
    <2> QED
      BY <2>3 DEF MemberStep
  <1>6. ASSUME Tick PROVE MemberStep
    <2>1. ASSUME NEW id \in PlayerIds, NEW moving \in BOOLEAN, TickDog(id, moving)
          PROVE  MemberStep
      BY <1>5, <2>1 DEF TickDog
    <2>2. ASSUME NEW id \in PlayerIds, NEW moving \in BOOLEAN, NEW committed \in BOOLEAN,
                 SaveThrows(id, moving, committed)
          PROVE  MemberStep
      BY <1>5, <2>2 DEF SaveThrows
    <2>3. ASSUME NEW id \in PlayerIds, NEW committed \in BOOLEAN, SaveKills(id, committed)
          PROVE  MemberStep
      <3>1. PICK retiring \in SUBSET Playing : Recorded' = Recorded \cup retiring
        BY <2>3, RetirementStep DEF SaveKills
      <3>2. MemberDown(retiring)
        BY <2>3, <3>1, DieEmpties, SameFile DEF SaveKills, MemberDown
      <3> QED
        BY <3>2 DEF MemberStep
    <2>4. ASSUME NEW k \in PlayerIds, RemoveDog(k) PROVE MemberStep
      <3>1. PICK u \in Playing : MemberTick({}, {u})
        BY <2>4, RemovalStep
      <3> QED
        BY <3>1 DEF MemberStep
    <2>5. ASSUME \/ \E delta \in Deltas : TickBegin(delta)
                 \/ \E m \in Maps : SessionBegin(m)
                 \/ DogsDone \/ SessionEnd \/ BackupThrows
          PROVE  MemberStep
      BY <1>1, <1>2, <2>5
      DEF TickBegin, SessionBegin, DogsDone, SessionEnd, BackupThrows, MemberStep
    <2>6. ASSUME TickEnd PROVE MemberStep
      <3>1. SameDogs /\ UNCHANGED <<records, up>> /\ up
        BY <1>2, <2>6 DEF TickEnd
      <3>2. CASE stateFile' = stateFile
        BY <1>1, <3>1, <3>2 DEF MemberStep
      <3>3. CASE stateFile' # stateFile
        <4>1. BackUpData /\ HasStateFile
          BY <2>6, <3>3 DEF TickEnd, BackUpData
        <4>2. MemberSave
          BY <3>1, <4>1, BackUpSaves, SamePlaying, SameRecords DEF MemberSave, Agreed, TypeInv
        <4> QED
          BY <4>2 DEF MemberStep
      <3> QED
        BY <3>2, <3>3
    <2> QED
      BY <1>6, <2>1, <2>2, <2>3, <2>4, <2>5, <2>6 DEF Tick
  <1>7. ASSUME Stop PROVE MemberStep
    <2>1. up /\ Die /\ UNCHANGED records /\ BackUpData
      BY <1>7 DEF Stop
    <2>2. InFiles' \in {InFiles, Playing}
      <3>1. CASE HasStateFile
        BY <2>1, <3>1, BackUpSaves DEF Agreed, TypeInv
      <3>2. CASE ~HasStateFile
        BY <2>1, <3>2, SameFile DEF BackUpData
      <3> QED
        BY <3>1, <3>2
    <2>3. MemberDown({})
      BY <2>1, <2>2, DieEmpties, SameRecords DEF MemberDown
    <2> QED
      BY <2>3 DEF MemberStep
  <1>8. ASSUME Crash PROVE MemberStep
    BY <1>3, <1>8 DEF Crash, MemberStep
  <1>9. ASSUME Start PROVE MemberStep
    BY <1>9, StartStep DEF MemberStep
  <1>10. CASE UNCHANGED vars
    BY <1>1, <1>2, <1>10 DEF vars, MemberStep
  <1> QED
    BY <1>4, <1>6, <1>7, <1>8, <1>9, <1>10 DEF Next, Process

LEMMA HonestBefore == [Next]_vars /\ counterOK' => counterOK
  BY DEF Next, Requests, Tick, Process, JoinGame, PlayerAction, PlayerActionThrows, Die,
         TickBegin, SessionBegin, TickDog, SaveThrows, SaveKills, DogsDone, RemoveDog,
         SessionEnd, TickEnd, BackupThrows, Stop, Crash, Start, vars, ghosts

\* With the sets put in, the steps above are those of Membership.
LEMMA Mapped ==
    ASSUME Agreed, [Next]_vars
    PROVE  [Members!Next]_(Members!vars)
  <1> USE DEF Members!Next, Members!vars
  <1>1. CASE ~counterOK'
    BY <1>1
  <1>2. CASE counterOK'
    <2>1. counterOK /\ MemberStep
      BY <1>2, EveryStep, HonestBefore DEF Agreed, TypeInv, TypeOK
    <2>2. ASSUME NEW u \in Users, MemberJoin(u) PROVE Members!Join(u)
      BY <2>2 DEF MemberJoin, Members!Join, Playing, Recorded, InFiles
    <2>3. ASSUME NEW retiring, NEW leaving, MemberTick(retiring, leaving)
          PROVE  Members!Tick(retiring, leaving)
      BY <2>3 DEF MemberTick, Members!Tick, Playing, Recorded, InFiles
    <2>4. ASSUME MemberSave PROVE Members!Save
      BY <2>4 DEF MemberSave, Members!Save, Playing, Recorded, InFiles
    <2>5. ASSUME NEW retiring, MemberDown(retiring) PROVE Members!Down(retiring)
      BY <2>5 DEF MemberDown, Members!Down, Playing, Recorded, InFiles
    <2>6. ASSUME MemberUp PROVE Members!Up
      BY <2>6 DEF MemberUp, Members!Up, Playing, Recorded, InFiles
    <2>7. ASSUME MemberStutter PROVE UNCHANGED Members!vars
      BY <1>2, <2>1, <2>7 DEF MemberStutter, Playing, Recorded, InFiles, Agreed, TypeInv, TypeOK
    <2>8. counterOK /\ counterOK'
      BY <1>2, <2>1
    <2> QED
      BY <2>1, <2>2, <2>3, <2>4, <2>5, <2>6, <2>7, <2>8 DEF MemberStep, Playing
  <1> QED
    BY <1>1, <1>2

\* What joins, ticks, backups, faults and restarts make of the players is what Membership
\* promises them, as long as no restart gives an id out twice.
THEOREM RegistryKeepsMembership == Spec => KeepsMembership
  <1>1. Init => Members!Init
    BY DEF Init, NoDogs, InGame, InFile, Members!Init
  <1>2. Agreed /\ [Next]_vars => [Members!Next]_(Members!vars)
    BY Mapped
  <1> QED
    BY <1>1, <1>2, AgreedAlways, PTL DEF Spec, KeepsMembership, Members!Spec

-----------------------------------------------------------------------------
(* Nobody is lost between the game, the file and the records.              *)

\* Where a player whose join was answered can be found, as sets.
KeptInv ==
    (counterOK /\ HasStateFile /\ ~crashed) =>
        joined \subseteq Recorded \cup (IF up THEN Playing ELSE InFiles)

\* A process that ends without a crash ends by a signal.
LEMMA EndsByStop ==
    ASSUME [Next]_vars, up, ~up', ~crashed'
    PROVE  Stop
  BY DEF Next, Requests, Tick, Process, JoinGame, PlayerAction, PlayerActionThrows,
         TickBegin, SessionBegin, TickDog, SaveThrows, SaveKills, DogsDone, RemoveDog,
         SessionEnd, TickEnd, BackupThrows, Crash, Start, vars

\* Only a join adds to the players that were answered, and no crash is forgotten.
LEMMA JoinedBefore ==
    ASSUME [Next]_vars
    PROVE  /\ joined' = joined \/ \E u \in Users, m \in Maps : JoinGame(u, m)
           /\ crashed' = crashed \/ crashed' = TRUE
  <1>1. joined' = joined \/ \E u \in Users, m \in Maps : JoinGame(u, m)
    BY DEF Next, Requests, Tick, Process, PlayerAction, PlayerActionThrows, Die, TickBegin,
           SessionBegin, TickDog, SaveThrows, SaveKills, DogsDone, RemoveDog, SessionEnd,
           TickEnd, BackupThrows, Stop, Crash, Start, vars, ghosts
  <1>2. crashed' = crashed \/ crashed' = TRUE
    BY DEF Next, Requests, Tick, Process, PlayerAction, PlayerActionThrows, JoinGame,
           TickBegin, SessionBegin, TickDog, SaveThrows, SaveKills, DogsDone, RemoveDog,
           SessionEnd, TickEnd, BackupThrows, Stop, Crash, Start, vars, ghosts
  <1> QED
    BY <1>1, <1>2

LEMMA KeptStep ==
    ASSUME Agreed, Agreed', KeptInv, [Next]_vars
    PROVE  KeptInv'
  <1> SUFFICES ASSUME counterOK', HasStateFile, ~crashed'
               PROVE  joined' \subseteq Recorded' \cup (IF up' THEN Playing' ELSE InFiles')
    BY DEF KeptInv
  <1>1. counterOK /\ ~crashed
    BY HonestBefore, JoinedBefore DEF Agreed, TypeInv, TypeOK
  <1>2. joined \subseteq Recorded \cup (IF up THEN Playing ELSE InFiles)
    BY <1>1 DEF KeptInv
  <1>3. ASSUME NEW u \in Users, NEW m \in Maps, JoinGame(u, m)
        PROVE  joined' \subseteq Recorded' \cup (IF up' THEN Playing' ELSE InFiles')
    <2>1. MemberJoin(u) /\ joined' = joined \cup {u}
      BY <1>1, <1>3, JoinStep DEF JoinGame
    <2> QED
      BY <1>2, <2>1 DEF MemberJoin
  <1>4. ASSUME joined' = joined
        PROVE  joined' \subseteq Recorded' \cup (IF up' THEN Playing' ELSE InFiles')
    <2>1. MemberStep
      BY <1>1, EveryStep
    <2>2. CASE \E u \in Users : MemberJoin(u)
      BY <1>2, <1>4, <2>2 DEF MemberJoin
    <2>3. CASE \E retiring, leaving \in SUBSET Playing : MemberTick(retiring, leaving)
      BY <1>2, <1>4, <2>3 DEF MemberTick
    <2>4. CASE MemberSave
      BY <1>2, <1>4, <2>4 DEF MemberSave
    <2>5. CASE \E retiring \in SUBSET Playing : MemberDown(retiring)
      <3>1. up /\ ~up' /\ Recorded \subseteq Recorded'
        BY <2>5 DEF MemberDown
      <3>2. BackUpData
        BY <3>1, EndsByStop DEF Stop
      <3>3. InFiles' = Playing
        BY <3>2, BackUpSaves DEF Agreed, TypeInv
      <3> QED
        BY <1>2, <1>4, <3>1, <3>3
    <2>6. CASE MemberUp
      BY <1>2, <1>4, <2>6 DEF MemberUp
    <2>7. CASE MemberStutter
      BY <1>2, <1>4, <2>7 DEF MemberStutter
    <2> QED
      BY <2>1, <2>2, <2>3, <2>4, <2>5, <2>6, <2>7 DEF MemberStep
  <1> QED
    BY <1>3, <1>4, JoinedBefore

\* As long as processes end by a signal and no restart gives an id out twice, a player
\* whose join was answered is in the game, in the state file or in the records.
THEOREM NobodyIsLost == Spec => []NobodyVanishes
  <1>1. Init => KeptInv
    BY DEF Init, KeptInv
  <1>2. Agreed /\ Agreed' /\ KeptInv /\ [Next]_vars => KeptInv'
    BY KeptStep
  <1>3. Agreed /\ KeptInv => NobodyVanishes
    BY DEF KeptInv, NobodyVanishes, Playing, Recorded, InFiles, Agreed, TypeInv, TypeOK
  <1> QED
    BY <1>1, <1>2, <1>3, AgreedAlways, PTL DEF Spec

=============================================================================
