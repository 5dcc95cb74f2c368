--------------------------- MODULE LootGenerator ---------------------------
(***************************************************************************)
(* GameSession with the generator that decides how much loot a tick brings *)
(* (src/src/loot_generator.cpp), in place of any number up to the shortage.*)
(*                                                                         *)
(* The server leaves random_generator at its default, which returns 1: the *)
(* number follows from the time without loot alone.  The chance that a     *)
(* unit of time brings no loot is the fraction Kept; base_interval and     *)
(* probability of the code stand for (1 - probability) ^ (1 / base_interval). *)
(***************************************************************************)
EXTENDS GameSession

CONSTANTS
    Kept,           \* a fraction: <<numerator, denominator>>
    TickLengths,
    LongEnough      \* a time that brings the whole shortage, however large

ASSUME KeptAssumption == /\ Kept \in Nat \X (Nat \ {0}) /\ Kept[1] < Kept[2]
                         /\ TickLengths \subseteq Nat /\ LongEnough \in Nat

VARIABLES
    time_without_loot,  \* LootGenerator::time_without_loot_, up to LongEnough
    short               \* ghost: for how long every tick has found too little and made none

generator == <<time_without_loot, short>>

\* std::pow
Powers(base) == LET power[n \in Nat] == IF n = 0 THEN 1 ELSE base * power[n-1] IN power

\* The chance that a time brings no loot is the fraction of these.
NoneIn(time) == Powers(Kept[1])[time]
AllIn(time)  == Powers(Kept[2])[time]

\* round(shortage * (1 - Kept ^ time)), halves up.
Generated(shortage, time) ==
    (2 * shortage * (AllIn(time) - NoneIn(time)) + AllIn(time)) \div (2 * AllIn(time))

ASSUME LongEnoughAssumption ==
    \A n \in 0..Cardinality(DogIds) : Generated(n, LongEnough) = n

Capped(time) == IF time > LongEnough THEN LongEnough ELSE time

\* LootGenerator::Generate moves the time on, and starts it again with the first piece.
TimeAfter_FaultyLastTick(delta) == delta
TimeAfter(delta) == Capped(time_without_loot + delta)

Generate(delta) ==
    LET time == TimeAfter(delta)
        n    == Generated(Shortage, time)
    IN /\ \E kinds \in [1..n -> Types] : GenerateLoot(kinds)
       /\ time_without_loot' = IF n > 0 THEN 0 ELSE time
       /\ short' = IF Shortage > 0 /\ n = 0 THEN short + delta ELSE 0

GeneratorInit == Init /\ time_without_loot = 0 /\ short = 0

\* One life of the process: a start makes new generators.
GeneratorNext ==
    \/ \E delta \in TickLengths : Generate(delta)
    \/ /\ \/ \E id \in DogIds : AddDog(id)
          \/ \E e \in events : Gather(e)
          \/ \E retired \in SUBSET Live(dogs) : EndTick(retired)
       /\ UNCHANGED generator

GeneratorSpec == GeneratorInit /\ [][GeneratorNext]_<<vars, generator>>

-----------------------------------------------------------------------------
(* Properties.                                                             *)

\* "The number of trophies that appear on the map does not exceed the number of looters"
\* (loot_generator.h:30): a tick leaves no more loot on the map than there are dogs, or
\* than there was.
NoMoreThanLooters ==
    [][pc = "idle" /\ pc' = "events" =>
          \/ Cardinality(OnMap(loots')) <= Cardinality(Live(dogs))
          \/ loots' = loots]_vars

\* Dogs that lack loot get some before long, however short the ticks are: a lack never
\* outlasts the time after which the half of a piece is due (time_without_loot_).
LackIsMet == 2 * NoneIn(short) > AllIn(short)

=============================================================================
