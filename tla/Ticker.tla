------------------------------- MODULE Ticker -------------------------------
(***************************************************************************)
(* The class Ticker of src/src/main.cpp, which drives the game when        *)
(* --tick-period is given: how the time that passes becomes the            *)
(* milliseconds that Application::Tick gets.                               *)
(*                                                                         *)
(* steady_clock is finer than a millisecond: Ms of its steps make one.     *)
(* Only differences of clock readings matter, so the model keeps those.    *)
(***************************************************************************)
EXTENDS Integers

CONSTANTS
    Period,    \* period_, in milliseconds
    Ms,        \* steps of the clock in a millisecond
    MaxDelay,  \* how long an expired timer may wait for the thread, in steps
    MaxCost,   \* how long a handler may run, in steps
    MaxTicks   \* the ticks that the ghosts count

ASSUME PeriodAssumption == Period \in Nat \ {0}
ASSUME MsAssumption     == Ms \in Nat \ {0}
ASSUME BoundsAssumption == MaxDelay \in Nat /\ MaxCost \in Nat /\ MaxTicks \in Nat

VARIABLES
    pc,        \* "new", "waiting" for the timer, "handling", "stopped"
    since,     \* now - last_tick_
    armed,     \* now - the moment of the last expires_after
    delta,     \* the argument of the handler that runs, or ran last
    ticks,     \* ghost: ticks so far, up to MaxTicks
    now,       \* ghost: the clock since Start, up to the last of these ticks
    ticked,    \* ghost: now at the last of these ticks
    handed     \* ghost: milliseconds handed to these ticks

ghosts == <<ticks, now, ticked, handed>>
vars   == <<pc, since, armed, delta, ghosts>>

-----------------------------------------------------------------------------
\* duration_cast<milliseconds> truncates.
InMs(steps) == steps \div Ms

Start ==
    /\ pc = "new"
    /\ pc' = "waiting" /\ since' = 0 /\ armed' = 0
    /\ UNCHANGED <<delta, ghosts>>

Due == armed >= Period * Ms

\* Time passes: the timer is awaited, or due and waiting for the thread, or the
\* handler is at work.
Pass ==
    /\ \/ pc = "waiting" /\ armed < Period * Ms + MaxDelay
       \/ pc = "handling" /\ since < MaxCost
    /\ since' = since + 1 /\ armed' = armed + 1
    /\ now' = IF ticks < MaxTicks THEN now + 1 ELSE now
    /\ UNCHANGED <<pc, delta, ticks, ticked, handed>>

\* last_tick_ = this_tick
Restarted_FaultyKept == since
Restarted == 0

\* OnTick up to the call of the handler.
OnTick ==
    /\ pc = "waiting" /\ Due
    /\ pc' = "handling"
    /\ delta' = InMs(since) /\ since' = Restarted /\ armed' = armed
    /\ IF ticks < MaxTicks
       THEN ticks' = ticks + 1 /\ ticked' = now /\ handed' = handed + delta'
       ELSE UNCHANGED <<ticks, ticked, handed>>
    /\ now' = now

\* ScheduleTick, after the handler: the period counts from here, not from the
\* expiry before.
ScheduleTick_FaultyFixedRate == pc' = "waiting" /\ armed' = armed - Period * Ms
ScheduleTick == pc' = "waiting" /\ armed' = 0

HandlerReturns ==
    /\ pc = "handling"
    /\ ScheduleTick
    /\ UNCHANGED <<since, delta, ghosts>>

\* Tick throws, out of the database or the backup: OnTick goes on all the same.
Caught_FaultyGivesUp == pc' = "unarmed" /\ armed' = armed
Caught == ScheduleTick

HandlerThrows ==
    /\ pc = "handling"
    /\ Caught
    /\ UNCHANGED <<since, delta, ghosts>>

\* A signal stops the io_context between two handlers.
Stop ==
    /\ pc \in {"new", "waiting"}
    /\ pc' = "stopped"
    /\ UNCHANGED <<since, armed, delta, ghosts>>

Init ==
    /\ pc = "new" /\ since = 0 /\ armed = 0 /\ delta = 0
    /\ ticks = 0 /\ now = 0 /\ ticked = 0 /\ handed = 0

Next == Start \/ Pass \/ OnTick \/ HandlerReturns \/ HandlerThrows \/ Stop

\* The clock does not stand still, the io_context runs what is ready, and a
\* handler comes to an end.
Fairness ==
    /\ WF_vars(Start) /\ WF_vars(Pass) /\ WF_vars(OnTick)
    /\ WF_vars(HandlerReturns \/ HandlerThrows)

Spec == Init /\ [][Next]_vars /\ Fairness

-----------------------------------------------------------------------------
(* Properties.                                                             *)

TypeOK ==
    /\ pc \in {"new", "waiting", "handling", "stopped"}
    /\ since \in Nat /\ armed \in Nat /\ delta \in Nat
    /\ ticks \in Nat /\ now \in Nat /\ ticked \in Nat /\ handed \in Nat

\* The ticks hand on the time that passed: never more than it, and less by under
\* a millisecond for every tick, which truncation drops for good.  The time that
\* handlers took and timers were late is in it.
GameTimeFollowsClock ==
    /\ handed * Ms <= ticked
    /\ ticked <= handed * Ms + ticks * (Ms - 1)

\* A tick never gets less than a period, however long the handler before it ran
\* and however late its timer fired: the game does not stumble, and no tick is
\* one of zero milliseconds.
NoShortTick == pc = "handling" => delta >= Period

\* The game goes on ticking until the server is stopped, whatever the handler throws.
KeepsTicking == []<>(pc = "handling") \/ <>(pc = "stopped")

=============================================================================
