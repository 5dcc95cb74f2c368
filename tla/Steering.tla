------------------------------ MODULE Steering ------------------------------
(***************************************************************************)
(* A player steers its dog and sees it turn: class KeyState, _pressKey,    *)
(* convDirection and _interpolateRotation of src/static/js/game.js, and    *)
(* Dog::SetDirection behind POST /game/player/action.                      *)
(*                                                                         *)
(* Every key that goes down or up posts the key to follow now; nothing     *)
(* orders the posts, which may overtake each other or be lost.  Angles are *)
(* in eighths of a turn, and time in what a dog takes to turn by one.      *)
(* Answers that come late are in module Client: here a state is shown the  *)
(* moment it is asked for.                                                 *)
(***************************************************************************)
EXTENDS Integers, Sequences, SequencesExt, FiniteSets

CONSTANTS
    Keys,           \* arrow keys in use, by the direction they stand for
    FirstDirs,      \* directions the dog may have when the page is loaded
    Steps,          \* times between two states
    MaxPresses,     \* bound on the keys that go down
    MaxPosts,       \* bound on the posts under way
    NaN

ASSUME KeysAssumption  == Keys \subseteq {"L", "R", "U", "D"} /\ FirstDirs \subseteq {"L", "R", "U", "D", ""}
ASSUME BoundAssumption == Steps \subseteq Nat \ {0} /\ MaxPresses \in Nat /\ MaxPosts \in Nat
ASSUME NaNAssumption   == NaN \notin Int

VARIABLES
    held,           \* the keys that are down
    pressed_at,     \* ghost: how many keys had gone down when this one last did
    presses,        \* keys that have gone down
    pressedKeys,    \* KeyState::pressedKeys
    posts,          \* the posts under way: [n, move], numbered in the order of posting
    sent,           \* posts so far
    handled,        \* the number of the post that the server has handled last
    away,           \* ghost: keys went up unseen, and the page still has some of them
    dir,            \* the direction of the dog on the server, "" when it was told to stop
    base_dir, desired_dir, converted_dir, \* what the page keeps of the last state shown
    since,          \* time since dir_time
    wound           \* ghost: a turn began more than a full turn away

keyboard == <<held, pressed_at, presses, pressedKeys, away>>
posting  == <<posts, sent, handled>>
rotation == <<base_dir, desired_dir, converted_dir, since, wound>>
steering == <<keyboard, posting, dir, rotation>>

-----------------------------------------------------------------------------
(* Keys and posts.                                                         *)

\* KeyState::getLastKey
LastKey_FaultyFirst(keys) == IF keys = <<>> THEN "" ELSE keys[1]
LastKey(keys) == IF keys = <<>> THEN "" ELSE keys[Len(keys)]

Post(move) == /\ Cardinality(posts) < MaxPosts
              /\ posts' = posts \cup {[n |-> sent + 1, move |-> move]}
              /\ sent' = sent + 1
              /\ UNCHANGED handled

\* A key the page still takes for pressed is ignored.
KeyDown(k) ==
    /\ k \notin held /\ presses < MaxPresses
    /\ held' = held \cup {k}
    /\ presses' = presses + 1 /\ pressed_at' = [pressed_at EXCEPT ![k] = presses + 1]
    /\ IF Contains(pressedKeys, k) THEN UNCHANGED <<pressedKeys, posting>>
       ELSE pressedKeys' = Append(pressedKeys, k) /\ Post(LastKey(pressedKeys'))
    /\ UNCHANGED <<away, dir, rotation>>

\* A key that is down is in pressedKeys, once.
KeyUp(k) ==
    /\ k \in held
    /\ held' = held \ {k}
    /\ \E index \in 1..Len(pressedKeys) :
          pressedKeys[index] = k /\ pressedKeys' = RemoveAt(pressedKeys, index)
    /\ Post(LastKey(pressedKeys'))
    /\ away' = (away /\ pressedKeys' # <<>>)
    /\ UNCHANGED <<pressed_at, presses, dir, rotation>>

\* The window is left with keys down: their keyup events go elsewhere.
LeaveWindow ==
    /\ held # {}
    /\ held' = {} /\ away' = TRUE
    /\ UNCHANGED <<pressed_at, presses, pressedKeys, posting, dir, rotation>>

\* ProcessPlayerAction and Dog::SetDirection.
Handle(p) ==
    /\ p \in posts
    /\ posts' = posts \ {p}
    /\ dir' = p.move
    /\ handled' = p.n
    /\ UNCHANGED <<keyboard, sent, rotation>>

Lose(p) ==
    /\ p \in posts
    /\ posts' = posts \ {p}
    /\ UNCHANGED <<keyboard, sent, handled, dir, rotation>>

-----------------------------------------------------------------------------
(* Turning.                                                                *)

Half == 4
Full == 8

\* convDirection: a dog that was told to stop has no direction in the dictionary.
convDirection(d) == CASE d = "D" -> 0 [] d = "R" -> 2 [] d = "U" -> 4 [] d = "L" -> 6 [] OTHER -> NaN

Abs(n) == IF n < 0 THEN -n ELSE n

\* The time of a turn is told apart up to two turns.
Capped(t) == IF t > 2 * Full THEN 2 * Full ELSE t

\* The way round and how far; every comparison with NaN is false.
RotDir_FaultyAhead(delta) == IF delta >= 0 THEN 1 ELSE -1
RotDir(delta) == IF delta <= -Half \/ (0 <= delta /\ delta < Half) THEN 1 ELSE -1
RealDelta(delta) == IF Abs(delta) >= Half THEN Full - Abs(delta) ELSE Abs(delta)

\* The else branch, time after the turn began: base_dir may be no number, when the dog
\* was first seen standing; desired_dir is none while it stands, and the dog spins.
Turned(time) ==
    IF base_dir = NaN THEN NaN
    ELSE IF desired_dir = NaN THEN base_dir - time
    ELSE IF time > RealDelta(desired_dir - base_dir) THEN desired_dir
    ELSE base_dir + RotDir(desired_dir - base_dir) * time

\* _interpolateRotation
ShowState(step) ==
    /\ LET newDir == convDirection(dir)
       IN IF desired_dir # newDir
          THEN /\ base_dir' = converted_dir /\ desired_dir' = newDir /\ since' = 0
               /\ wound' = (converted_dir # NaN /\ newDir # NaN /\ Abs(newDir - converted_dir) > Full)
               /\ UNCHANGED converted_dir
          ELSE /\ since' = Capped(since + step)
               /\ converted_dir' = Turned(since')
               /\ UNCHANGED <<base_dir, desired_dir, wound>>
    /\ UNCHANGED <<keyboard, posting, dir>>

SteeringInit ==
    /\ held = {} /\ pressed_at = [k \in Keys |-> 0] /\ presses = 0 /\ pressedKeys = <<>>
    /\ posts = {} /\ sent = 0 /\ handled = 0 /\ away = FALSE
    /\ dir \in FirstDirs
    /\ converted_dir = convDirection(dir) /\ desired_dir = convDirection(dir)
    /\ base_dir = convDirection(dir) /\ since = 0 /\ wound = FALSE

SteeringNext ==
    \/ \E k \in Keys : KeyDown(k) \/ KeyUp(k)
    \/ LeaveWindow
    \/ \E p \in posts : Handle(p) \/ Lose(p)
    \/ \E step \in Steps : ShowState(step)

SteeringSpec == SteeringInit /\ [][SteeringNext]_steering

-----------------------------------------------------------------------------
(* Properties.                                                             *)

\* The key to follow: of those that are down, the one that went down last.
Wanted == IF held = {} THEN ""
          ELSE CHOOSE k \in held : \A j \in held : pressed_at[j] <= pressed_at[k]

\* When the newest post was handled last the dog goes where the player steers it, however
\* keys overlap and posts overtake each other before: an answer that is lost, or a post
\* that is overtaken, is made up for by the next one (KeyState, _pressKey).
GoesWhereSteered == (sent > 0 /\ handled = sent /\ ~away) => dir = Wanted

\* Angles are equal up to full turns.
Apart(a, b) == LET d == (a - b) % Full IN IF d <= Half THEN d ELSE Full - d

\* A dog that is shown turning to a new direction goes the short way and at its own speed:
\* what is left of the turn shrinks by the time between two states, and no jump shows, as
\* long as turns broken off in the middle do not wind it up (_interpolateRotation).
TurnsTheShortWay ==
    [][(desired_dir # NaN /\ base_dir # NaN /\ ~wound /\ since' # since) =>
          LET left == Apart(converted_dir, desired_dir)
              time == since' - since
          IN \/ since' = 0
             \/ /\ Apart(converted_dir', converted_dir) <= time
                /\ Apart(converted_dir', desired_dir) = IF left > time THEN left - time ELSE 0]_rotation

=============================================================================
