---------------------------- MODULE TickerProofs ----------------------------
(***************************************************************************)
(* The clock of the game and the clock of the machine, for every period,   *)
(* resolution and bound.  The two invariants need what the ghosts and the  *)
(* two differences have to do with each other: Clocks.                     *)
(***************************************************************************)
EXTENDS Ticker, TLAPS

\* Truncation loses less than the divisor.
LEMMA Truncation ==
    ASSUME NEW n \in Nat
    PROVE  /\ InMs(n) \in Nat
           /\ InMs(n) * Ms <= n
           /\ n <= InMs(n) * Ms + (Ms - 1)
BY MsAssumption, SMTT(30) DEF InMs

\* A span of at least a period gives at least Period milliseconds.
LEMMA AtLeastPeriod ==
    ASSUME NEW n \in Nat, Period * Ms <= n
    PROVE  Period <= InMs(n)
<1>1. /\ InMs(n) \in Nat
      /\ n <= InMs(n) * Ms + (Ms - 1)
    BY Truncation
<1>2. SUFFICES ASSUME InMs(n) + 1 <= Period
               PROVE  FALSE
    BY <1>1, PeriodAssumption
<1> DEFINE q == InMs(n)
<1>3. (q + 1) * Ms <= Period * Ms
  <2> HIDE DEF q
  <2>1. \A a, b, c \in Nat : a <= b => a * c <= b * c
    BY SMTT(30)
  <2>2. q + 1 \in Nat /\ q + 1 <= Period
    BY <1>1, <1>2 DEF q
  <2> QED
    BY <2>1, <2>2, PeriodAssumption, MsAssumption
<1>4. (q + 1) * Ms = q * Ms + Ms
    BY <1>1, MsAssumption DEF q
<1> QED
    BY <1>1, <1>3, <1>4, MsAssumption, PeriodAssumption

-----------------------------------------------------------------------------
\* The timer is armed after last_tick_ was read, and while ticks are counted the
\* clock is where the last tick and the time since it say.
Clocks ==
    /\ pc = "new" => since = 0
    /\ pc = "waiting" => armed <= since
    /\ ticks < MaxTicks => now = ticked + since

Inv == TypeOK /\ Clocks /\ GameTimeFollowsClock /\ NoShortTick

LEMMA InitInv == Init => Inv
BY MsAssumption, BoundsAssumption DEF Init, Inv, TypeOK, Clocks, GameTimeFollowsClock, NoShortTick

\* The one step that counts: a millisecond at most is dropped.
LEMMA OnTickInv ==
    ASSUME Inv, OnTick
    PROVE  Inv'
<1> USE DEF Inv, TypeOK, Clocks
<1>1. /\ since \in Nat /\ armed \in Nat /\ delta' = InMs(since) /\ since' = 0
      /\ armed' = armed /\ pc' = "handling" /\ now' = now
    BY DEF OnTick, Restarted
<1>2. delta' \in Nat /\ delta' * Ms <= since /\ since <= delta' * Ms + (Ms - 1)
    BY <1>1, Truncation
<1>3. Period * Ms <= since
    BY PeriodAssumption, MsAssumption DEF OnTick, Due
<1>4. NoShortTick'
    BY <1>1, <1>3, AtLeastPeriod DEF NoShortTick
<1>5. CASE ticks < MaxTicks
  <2>1. /\ ticks' = ticks + 1 /\ ticked' = ticked + since /\ handed' = handed + delta'
    BY <1>5 DEF OnTick
  <2>2. /\ handed' * Ms = handed * Ms + delta' * Ms
        /\ ticks' * (Ms - 1) = ticks * (Ms - 1) + (Ms - 1)
    BY <1>2, <2>1, MsAssumption
  <2>3. /\ handed * Ms \in Nat /\ delta' * Ms \in Nat /\ ticks * (Ms - 1) \in Nat
    <3>1. \A a, b \in Nat : a * b \in Nat
        OBVIOUS
    <3>2. handed \in Nat /\ ticks \in Nat /\ Ms \in Nat /\ Ms - 1 \in Nat
        BY MsAssumption
    <3> QED
        BY <1>2, <3>1, <3>2
  <2>4. GameTimeFollowsClock'
    BY <1>1, <1>2, <2>1, <2>2, <2>3, MsAssumption DEF GameTimeFollowsClock
  <2>5. TypeOK' /\ Clocks'
    BY <1>1, <1>2, <2>1, BoundsAssumption
  <2> QED
    BY <1>4, <2>4, <2>5
<1>6. CASE ~(ticks < MaxTicks)
  <2>1. UNCHANGED <<ticks, ticked, handed>>
    BY <1>6 DEF OnTick
  <2>2. GameTimeFollowsClock'
    BY <2>1 DEF GameTimeFollowsClock
  <2>3. TypeOK' /\ Clocks'
    BY <1>1, <1>2, <1>6, <2>1, BoundsAssumption
  <2> QED
    BY <1>4, <2>2, <2>3
<1> QED
    BY <1>5, <1>6

LEMMA NextInv == Inv /\ [Next]_vars => Inv'
<1> SUFFICES ASSUME Inv, [Next]_vars
             PROVE  Inv'
    OBVIOUS
<1> USE DEF Inv, TypeOK, Clocks, GameTimeFollowsClock, NoShortTick, ghosts
<1>1. CASE Start
    BY <1>1 DEF Start
<1>2. CASE Pass
    BY <1>2, BoundsAssumption DEF Pass
<1>3. CASE OnTick
    BY <1>3, OnTickInv
<1>4. CASE HandlerReturns
    BY <1>4 DEF HandlerReturns, ScheduleTick
<1>5. CASE HandlerThrows
    BY <1>5 DEF HandlerThrows, Caught, ScheduleTick
<1>6. CASE Stop
    BY <1>6 DEF Stop
<1>7. CASE UNCHANGED vars
    BY <1>7 DEF vars
<1> QED
    BY <1>1, <1>2, <1>3, <1>4, <1>5, <1>6, <1>7 DEF Next

LEMMA Invariance == Spec => []Inv
<1> QED
    BY InitInv, NextInv, PTL DEF Spec

\* The game clock follows the machine's, tick by tick, for every period and every
\* resolution of steady_clock; the bound on counted ticks is arbitrary.
THEOREM ClockFollowed == Spec => []GameTimeFollowsClock
<1>1. Inv => GameTimeFollowsClock
    BY DEF Inv
<1> QED
    BY <1>1, Invariance, PTL

\* No tick is shorter than the period that was asked for.
THEOREM TicksAreLongEnough == Spec => []NoShortTick
<1>1. Inv => NoShortTick
    BY DEF Inv
<1> QED
    BY <1>1, Invariance, PTL

=============================================================================
