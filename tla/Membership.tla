----------------------------- MODULE Membership -----------------------------
(***************************************************************************)
(* Who is in the game, seen from outside: what the joins, the retirements, *)
(* the records and the state file promise the users together.  Application *)
(* implements it in full, Api for one life of the process.                 *)
(***************************************************************************)

CONSTANT Users      \* one for every join

VARIABLES
    playing,    \* users with a dog in the running game
    recorded,   \* users with a record
    saved,      \* users in the state file
    up,         \* the process runs
    honest      \* no restart numbered the players anew (RestorePlayerIdIncr)

vars == <<playing, recorded, saved, up, honest>>

Join(u) ==
    /\ up /\ u \notin playing
    /\ playing' = playing \cup {u}
    /\ UNCHANGED <<recorded, saved, up>>

\* Nobody leaves a running game without a record, nor is recorded out of it.
Tick(retiring, leaving) ==
    /\ up
    /\ recorded' = recorded \cup retiring
    /\ leaving \subseteq recorded'
    /\ playing' = playing \ leaving
    /\ UNCHANGED <<saved, up>>

Save ==
    /\ up
    /\ saved' = playing
    /\ UNCHANGED <<playing, recorded, up>>

\* The state is saved, or not; a record may be stored by the call that fails.
Down(retiring) ==
    /\ up /\ up' = FALSE /\ playing' = {}
    /\ recorded' = recorded \cup retiring
    /\ saved' \in {saved, playing}

\* Those come back who were saved, and nobody else.
Up ==
    /\ ~up /\ up' = TRUE
    /\ playing' = saved
    /\ UNCHANGED <<recorded, saved>>

Init == playing = {} /\ recorded = {} /\ saved = {} /\ up = TRUE /\ honest = TRUE

\* Nothing is promised once an id has been given to two players.
Next ==
    \/ /\ honest /\ honest'
       /\ \/ \E u \in Users : Join(u)
          \/ \E retiring, leaving \in SUBSET playing : Tick(retiring, leaving)
          \/ Save
          \/ \E retiring \in SUBSET playing : Down(retiring)
          \/ Up
    \/ ~honest'

Spec == Init /\ [][Next]_vars

=============================================================================
