------------------------------ MODULE Snapshot ------------------------------
(***************************************************************************)
(* What the state file is for (main, Application::BackUpData and           *)
(* RestoreBackUpData): one copy of the game, replaced as a whole, from     *)
(* which the next process starts.  Module StateFile implements it.         *)
(*                                                                         *)
(* The state of the game is a number, another one after every change.      *)
(***************************************************************************)
EXTENDS Naturals

CONSTANTS None,     \* there is no copy
          New       \* the state of a game that has just begun

VARIABLES
    game,       \* the state of the running game, or the last one it had
    saved,      \* the copy
    status,     \* "up", "stopped" (main has returned 0) or "failed"
    sound       \* no fault has happened that the program does not notice

vars == <<game, saved, status, sound>>

Play == /\ status = "up"
        /\ game' \in Nat
        /\ UNCHANGED <<saved, status>>

Save == /\ status = "up"
        /\ saved' = game
        /\ UNCHANGED <<game, status>>

\* main returns 0 when the copy is that of the last state.
Stop == /\ status = "up"
        /\ saved' = game
        /\ status' = "stopped"
        /\ UNCHANGED game

Fail == /\ status = "up"
        /\ status' = "failed"
        /\ UNCHANGED <<game, saved>>

Start == /\ status # "up"
         /\ status' = "up"
         /\ game' = IF saved = None THEN New ELSE saved
         /\ UNCHANGED saved

Init == game = New /\ saved = None /\ status = "stopped" /\ sound = TRUE

\* Nothing is promised after an unnoticed fault.
Next == \/ sound' /\ sound /\ (Play \/ Save \/ Stop \/ Fail \/ Start)
        \/ ~sound'

Spec == Init /\ [][Next]_vars

=============================================================================
