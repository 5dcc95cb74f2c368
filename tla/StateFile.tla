----------------------------- MODULE StateFile -----------------------------
(***************************************************************************)
(* The state file, step by step: Application::BackUpData and               *)
(* RestoreBackUpData of src/src/application.cpp, and main around them.     *)
(*                                                                         *)
(* A backup is written to a temporary file, through a stream with a        *)
(* buffer, and renamed.  Any step may fail, and the process may die        *)
(* between any two (what it has flushed stays: the machine does not die).  *)
(* A file is cut into parts; what it holds of the game is in Application   *)
(* and GameSession.                                                        *)
(***************************************************************************)
EXTENDS Naturals

CONSTANTS
    None,           \* no such file
    New,            \* the state of a game that has just begun
    Parts,          \* the buffers a backup takes
    TickerRuns,     \* ticks come from the Ticker, which catches what they throw
    MaxChanges      \* bound on the changes of the game

ASSUME NewAssumption    == New \in Nat
ASSUME NoneAssumption   == None \notin Nat /\ None \notin [of : Nat, parts : Nat]
ASSUME PartsAssumption  == Parts \in Nat \ {0}
ASSUME TickerAssumption == TickerRuns \in BOOLEAN
ASSUME BoundAssumption  == MaxChanges \in Nat

VARIABLES
    game,           \* the state of the game
    made,           \* states it has had: none comes back by play
    status,         \* "up", "stopped" or "failed", as main returns
    stage,          \* of BackUpData: "write", "rename", or "none" outside
    stopping,       \* the io_context was stopped by a signal
    temp, file,     \* the temporary file and the state file
    sound           \* ghost: no fault has gone unnoticed

running == <<game, made>>
files   == <<temp, file>>
vars    == <<running, status, stage, stopping, files, sound>>

Content  == [of : Nat, parts : 0..Parts]
Whole(f) == f.parts = Parts

-----------------------------------------------------------------------------
(* The process.                                                            *)

\* RestoreBackUpData: the archive of a file cut short throws, and main returns.
Start ==
    /\ status # "up"
    /\ IF file = None THEN game' = New /\ status' = "up"
       ELSE IF Whole(file) THEN game' = file.of /\ status' = "up"
       ELSE status' = "failed" /\ UNCHANGED game
    /\ stage' = "none" /\ stopping' = FALSE
    /\ UNCHANGED <<made, files, sound>>

Play ==
    /\ status = "up" /\ stage = "none" /\ ~stopping
    /\ made < MaxChanges
    /\ made' = made + 1 /\ game' = New + made'
    /\ UNCHANGED <<status, stage, stopping, files, sound>>

Signal ==
    /\ status = "up" /\ stage = "none" /\ ~stopping
    /\ stopping' = TRUE
    /\ UNCHANGED <<running, status, stage, files, sound>>

Crash ==
    /\ status = "up"
    /\ status' = "failed"
    /\ UNCHANGED <<running, stage, stopping, files, sound>>

\* An exception of BackUpData: the Ticker catches it, anything else ends main.
Throw_FaultySuccess ==
    /\ status' = IF ~stopping THEN "up" ELSE "stopped"
    /\ stage' = "none"
    /\ UNCHANGED <<running, stopping>>
Throw ==
    /\ status' = IF TickerRuns /\ ~stopping THEN "up" ELSE "failed"
    /\ stage' = "none"
    /\ UNCHANGED <<running, stopping>>

-----------------------------------------------------------------------------
(* BackUpData, in a tick or when main ends.                                *)

\* Opening the temporary file empties it.
Open ==
    /\ status = "up" /\ stage = "none"
    /\ stage' = "write" /\ temp' = [of |-> game, parts |-> 0]
    /\ UNCHANGED <<running, status, stopping, file, sound>>

\* The branch without else: what is renamed then is what an earlier backup left.
OpenFails ==
    /\ status = "up" /\ stage = "none"
    /\ stage' = "rename" /\ sound' = (sound /\ temp = None)
    /\ UNCHANGED <<running, status, stopping, files>>

\* After the last part comes the rename.
StageAfter_FaultyEarly(parts) == IF parts + 1 >= Parts THEN "rename" ELSE "write"
StageAfter(parts) == IF parts = Parts THEN "rename" ELSE "write"

Flush ==
    /\ status = "up" /\ stage = "write"
    /\ temp' = [temp EXCEPT !.parts = @ + 1]
    /\ stage' = StageAfter(temp.parts + 1)
    /\ UNCHANGED <<running, status, stopping, file, sound>>

\* The archive throws at its next number when the stream has failed; the last buffer is
\* flushed by close, where nobody looks.
FlushFails ==
    /\ status = "up" /\ stage = "write"
    /\ IF temp.parts + 1 < Parts THEN Throw /\ sound' = sound
       ELSE /\ stage' = "rename" /\ sound' = FALSE
            /\ UNCHANGED <<running, status, stopping>>
    /\ UNCHANGED files

\* The last thing main does, or a tick.
Rename ==
    /\ status = "up" /\ stage = "rename" /\ temp # None
    /\ file' = temp /\ temp' = None
    /\ stage' = "none"
    /\ status' = IF stopping THEN "stopped" ELSE "up"
    /\ UNCHANGED <<running, stopping, sound>>

RenameFails ==
    /\ status = "up" /\ stage = "rename"
    /\ Throw
    /\ UNCHANGED <<files, sound>>

Init ==
    /\ game = New /\ made = 0 /\ status = "stopped" /\ stage = "none"
    /\ stopping = FALSE /\ temp = None /\ file = None /\ sound = TRUE

Next == \/ Start \/ Play \/ Signal \/ Crash
        \/ Open \/ OpenFails \/ Flush \/ FlushFails \/ Rename \/ RenameFails

Spec == Init /\ [][Next]_vars

-----------------------------------------------------------------------------
(* Properties.                                                             *)

TypeOK ==
    /\ game \in Nat /\ made \in Nat
    /\ status \in {"up", "stopped", "failed"}
    /\ stage \in {"none", "write", "rename"}
    /\ stopping \in BOOLEAN /\ sound \in BOOLEAN
    /\ temp \in Content \cup {None} /\ file \in Content \cup {None}

\* Whatever dies or throws, at any step of any backup, the state file is whole, so that the
\* next process starts (BackUpData).  Faults nobody notices are left out.
FileIsWhole == sound /\ file # None => Whole(file)

\* The steps above amount to one copy replaced at once: a restart begins with the state of
\* the last backup that came to its end, and main returns 0 only with the last state saved.
Copy == INSTANCE Snapshot WITH saved <- IF file = None THEN None ELSE file.of

ReplacedAtOnce == Copy!Spec

=============================================================================
