---------------------------- MODULE DigitalCounter ----------------------------
(***************************************************************************)
(* threads/digital-counter.cpp: a thread that brings a mechanical counter  *)
(* from what it believes it shows (actual) to the target, by pulses in     *)
(* batches, or by a reset when that is faster.                             *)
(*                                                                         *)
(* Times are in pulses.  The thread starts with actual = 0xffff, which is  *)
(* to say unknown: the first target makes it reset, unless the target is   *)
(* so large that counting seems faster (Unknown is small in the run, for   *)
(* that to happen).  The destructor is left out.                           *)
(***************************************************************************)
EXTENDS Integers

CONSTANTS CounterCaller,
          has_dec,      \* there is an output that counts down
          MaxTarget,    \* bound: targets
          Unknown,      \* 0xffff
          ResetCosts,   \* what set_pause() makes of a reset's cost
          MaxPulses     \* 5: pulses between two looks at the target

VARIABLES
  target, actual, reset_cost,
  counter_main,  \* where main() is; "decide", "reset": with the lock
  up, i, goal,   \* its locals: the direction, pulses given and to give
  signalling,    \* the callers between the unlock and the signal
  shown,         \* external: what the counter shows
  was_reset      \* history: the counter has been reset

vars == <<target, actual, reset_cost, counter_main, up, i, goal, signalling, shown, was_reset>>

Target == 0..MaxTarget

TypeOK ==
  /\ target \in Target
  /\ actual \in 0..Unknown
  /\ reset_cost \in ResetCosts
  /\ counter_main \in {"start", "decide", "reset", "pulse", "asleep", "woken"}
  /\ up \in BOOLEAN
  /\ goal \in 0..MaxPulses /\ i \in 0..goal
  /\ signalling \subseteq CounterCaller
  /\ was_reset => shown \in Target
  /\ was_reset \in BOOLEAN

Init ==
  /\ target = 0 /\ actual = Unknown
  /\ reset_cost \in ResetCosts
  /\ counter_main = "start"
  /\ up = FALSE /\ i = 0 /\ goal = 0
  /\ signalling = {}
  /\ shown = 0 /\ was_reset = FALSE

LockHeld == counter_main \in {"decide", "reset"}

-----------------------------------------------------------------------------
(* main()                                                                   *)

delta == target - actual
abs_delta == IF delta < 0 THEN -delta ELSE delta

\* Faster to just reset and go, or else impossible.
ResetIsBetter == target + reset_cost < abs_delta \/ (delta < 0 /\ ~has_dec)

\* The first lock(): a target may have been set before.
Start ==
  /\ counter_main = "start"
  /\ counter_main' = "decide"
  /\ UNCHANGED <<target, actual, reset_cost, up, i, goal, signalling, shown, was_reset>>

DecideReset ==
  /\ counter_main = "decide" /\ ResetIsBetter
  /\ actual' = 0
  /\ counter_main' = "reset"
  /\ UNCHANGED <<target, reset_cost, up, i, goal, signalling, shown, was_reset>>

Reset ==
  /\ counter_main = "reset"
  /\ shown' = 0 /\ was_reset' = TRUE
  /\ counter_main' = "decide"
  /\ UNCHANGED <<target, actual, reset_cost, up, i, goal, signalling>>

DecidePulses ==
  /\ counter_main = "decide" /\ ~ResetIsBetter
  /\ up' = (delta > 0)
  /\ i' = 0
  /\ goal' = IF abs_delta > MaxPulses THEN MaxPulses ELSE abs_delta
  /\ counter_main' = "pulse"
  /\ UNCHANGED <<target, actual, reset_cost, signalling, shown, was_reset>>

\* Without the lock.
Pulse ==
  /\ counter_main = "pulse" /\ i < goal
  /\ shown' = IF up THEN shown + 1 ELSE shown - 1
  /\ i' = i + 1
  /\ UNCHANGED <<target, actual, reset_cost, counter_main, up, goal, signalling, was_reset>>

WaitOrDecide(now) == IF target = now THEN "asleep" ELSE "decide"

\* Mutant: the target is believed to be reached when less pulses were due.
PulsesDone_jumps ==
  /\ counter_main = "pulse" /\ i = goal
  /\ actual' = target
  /\ counter_main' = WaitOrDecide(actual')
  /\ UNCHANGED <<target, reset_cost, up, i, goal, signalling, shown, was_reset>>

PulsesDone ==
  /\ counter_main = "pulse" /\ i = goal
  /\ actual' = IF up THEN actual + i ELSE actual - i
  /\ counter_main' = WaitOrDecide(actual')
  /\ UNCHANGED <<target, reset_cost, up, i, goal, signalling, shown, was_reset>>

\* cond->wait() returns.
Woken ==
  /\ counter_main = "woken"
  /\ counter_main' = WaitOrDecide(actual)
  /\ UNCHANGED <<target, actual, reset_cost, up, i, goal, signalling, shown, was_reset>>

-----------------------------------------------------------------------------
(* The callers.                                                             *)

NewTarget(c, t) ==
  /\ c \notin signalling /\ ~LockHeld
  /\ target' = t
  /\ signalling' = signalling \cup {c}
  /\ UNCHANGED <<actual, reset_cost, counter_main, up, i, goal, shown, was_reset>>

set(c, value) == NewTarget(c, value)

\* add() never goes below zero.
add(c, d) ==
  /\ target + d <= MaxTarget
  /\ NewTarget(c, IF d < 0 /\ target < -d THEN 0 ELSE target + d)

\* cond->signal(), after the unlock.
Signal(c) ==
  /\ c \in signalling
  /\ signalling' = signalling \ {c}
  /\ counter_main' = IF counter_main = "asleep" THEN "woken" ELSE counter_main
  /\ UNCHANGED <<target, actual, reset_cost, up, i, goal, shown, was_reset>>

\* No lock is taken.
set_pause(cost) ==
  /\ reset_cost' = cost
  /\ UNCHANGED <<target, actual, counter_main, up, i, goal, signalling, shown, was_reset>>

Next ==
  \/ Start \/ DecideReset \/ Reset \/ DecidePulses \/ Pulse \/ PulsesDone \/ Woken
  \/ \E c \in CounterCaller :
       \/ \E t \in Target : set(c, t)
       \/ \E d \in -MaxTarget..MaxTarget : add(c, d)
       \/ Signal(c)
  \/ \E cost \in ResetCosts : set_pause(cost)

Spec == Init /\ [][Next]_vars

-----------------------------------------------------------------------------
(* Properties.                                                              *)

\* Once reset, the thread sleeps only when the counter shows the target, the
\* target having changed while pulses were given included; or a caller is
\* about to wake it.
ShowsTarget ==
  was_reset /\ counter_main = "asleep" =>
    shown = actual /\ (shown = target \/ signalling # {})

=============================================================================
