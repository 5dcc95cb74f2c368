-------------------------- MODULE StateFileProofs --------------------------
(***************************************************************************)
(* Proofs about StateFile, for any number of parts and of changes, with    *)
(* the Ticker or without.  The inductive invariant says what the temporary *)
(* file holds at each stage of a backup.                                   *)
(***************************************************************************)
EXTENDS StateFile, TLAPS

-----------------------------------------------------------------------------
(* The inductive invariant.                                                *)

\* While the temporary file is written it is a part of the game as it is.
HalfWritten == stage = "write" =>
    /\ temp # None /\ temp.parts < Parts
    /\ status = "up" => temp.of = game

\* Before the rename it is the whole of it, unless a fault went unnoticed; without a
\* temporary file there is nothing to rename.
Written == stage = "rename" /\ sound /\ temp # None =>
    /\ Whole(temp)
    /\ status = "up" => temp.of = game

IInv == TypeOK /\ HalfWritten /\ Written /\ FileIsWhole

LEMMA InitInv == Init => IInv
<1> SUFFICES ASSUME Init PROVE IInv
  OBVIOUS
<1>1. TypeOK
  <2>1. stopping \in BOOLEAN /\ sound \in BOOLEAN
    BY Zenon DEF Init
  <2>2. game \in Nat /\ made \in Nat
    BY NewAssumption DEF Init
  <2>3. QED
    BY <2>1, <2>2, Zenon DEF Init, TypeOK
<1>2. HalfWritten /\ Written /\ FileIsWhole
  BY DEF Init, HalfWritten, Written, FileIsWhole
<1>3. QED
  BY <1>1, <1>2 DEF IInv

LEMMA StepInv == IInv /\ [Next]_vars => IInv'
<1> SUFFICES ASSUME IInv, [Next]_vars PROVE IInv'
  OBVIOUS
<1> USE NewAssumption, PartsAssumption, NoneAssumption
    DEF IInv, TypeOK, HalfWritten, Written, FileIsWhole, Content, Whole, running, files
<1>1. CASE Start
  BY <1>1 DEF Start
<1>2. CASE Play
  BY <1>2 DEF Play
<1>3. CASE Signal
  BY <1>3 DEF Signal
<1>4. CASE Crash
  BY <1>4 DEF Crash
<1>5. CASE Open
  BY <1>5 DEF Open
<1>6. CASE OpenFails
  BY <1>6 DEF OpenFails
<1>7. CASE Flush
  <2>1. /\ stage = "write" /\ temp \in Content /\ temp.parts < Parts
        /\ temp' = [temp EXCEPT !.parts = @ + 1]
    BY <1>7 DEF Flush
  <2>2. /\ temp' \in Content /\ temp' # None
        /\ temp'.parts = temp.parts + 1 /\ temp'.of = temp.of
    BY <2>1
  <2>3. QED
    BY <1>7, <2>1, <2>2 DEF Flush, StageAfter
<1>8. CASE FlushFails
  BY <1>8 DEF FlushFails, Throw
<1>9. CASE Rename
  BY <1>9 DEF Rename
<1>10. CASE RenameFails
  BY <1>10 DEF RenameFails, Throw
<1>11. CASE UNCHANGED vars
  BY <1>11 DEF vars
<1>12. QED
  BY <1>1, <1>2, <1>3, <1>4, <1>5, <1>6, <1>7, <1>8, <1>9, <1>10, <1>11 DEF Next

LEMMA Invariant == Spec => []IInv
  BY InitInv, StepInv, PTL DEF Spec

\* Every variable keeps its type through backups, faults and restarts.
THEOREM TypeCorrect == Spec => []TypeOK
  BY Invariant, PTL DEF IInv

\* A backup that dies or throws, at any of its steps, leaves a whole state file
\* (BackUpData), unless a fault went unnoticed.
THEOREM NeverCutShort == Spec => []FileIsWhole
  BY Invariant, PTL DEF IInv

-----------------------------------------------------------------------------
(* The refinement.                                                         *)

LEMMA InitCopy == Init => Copy!Init
  BY DEF Init, Copy!Init

LEMMA StepCopy == IInv /\ IInv' /\ [Next]_vars => [Copy!Next]_(Copy!vars)
<1> SUFFICES ASSUME IInv, IInv', [Next]_vars PROVE [Copy!Next]_(Copy!vars)
  OBVIOUS
<1> USE NewAssumption, PartsAssumption, NoneAssumption
    DEF IInv, TypeOK, HalfWritten, Written, FileIsWhole, Content, Whole, running, files,
        Copy!vars, Copy!Next
<1>1. CASE Start
  BY <1>1 DEF Start, Copy!Start
<1>2. CASE Play
  BY <1>2 DEF Play, Copy!Play
<1>3. CASE Signal
  BY <1>3 DEF Signal
<1>4. CASE Crash
  BY <1>4 DEF Crash, Copy!Fail
<1>5. CASE Open
  BY <1>5 DEF Open
<1>6. CASE OpenFails
  BY <1>6 DEF OpenFails
<1>7. CASE Flush
  BY <1>7 DEF Flush
<1>8. CASE FlushFails
  BY <1>8 DEF FlushFails, Throw, Copy!Fail
<1>9. CASE Rename
  BY <1>9 DEF Rename, Copy!Save, Copy!Stop
<1>10. CASE RenameFails
  BY <1>10 DEF RenameFails, Throw, Copy!Fail
<1>11. CASE UNCHANGED vars
  BY <1>11 DEF vars
<1>12. QED
  BY <1>1, <1>2, <1>3, <1>4, <1>5, <1>6, <1>7, <1>8, <1>9, <1>10, <1>11 DEF Next

\* Open, write, close and rename amount to one copy that is replaced at once, whatever
\* dies or throws in between and is noticed.
THEOREM Implements == Spec => ReplacedAtOnce
<1>1. Init => Copy!Init
  BY InitCopy
<1>2. IInv /\ IInv' /\ [Next]_vars => [Copy!Next]_(Copy!vars)
  BY StepCopy
<1>3. Spec => []IInv
  BY Invariant
<1>4. QED
  BY <1>1, <1>2, <1>3, PTL DEF Spec, ReplacedAtOnce, Copy!Spec

=============================================================================
