------------------------------ MODULE DeepSleeper ------------------------------
(***************************************************************************)
(* threads/pico/deep-sleep.cpp: a thread that puts the Pico into deep      *)
(* sleep when prod() has not been called for sleep_after_ms.  It looks     *)
(* every check_ms, a tenth of that rounded up, and after waking up it      *)
(* looks again without having been stale.                                  *)
(***************************************************************************)
EXTENDS Naturals

CONSTANT sleep_after_ms

VARIABLES
  age,        \* milliseconds since last_press, up to sleep_after_ms
  to_check,   \* milliseconds until the thread looks
  sleeper,    \* "sleep": in ms_sleep(), "going": decided, "dormant"
  idle,       \* history: milliseconds since the last prod() or wake-up
  stale       \* history: woken up with a last_press from before the sleep

vars == <<age, to_check, sleeper, idle, stale>>

check_ms == (sleep_after_ms + 9) \div 10

TypeOK ==
  /\ age \in 0..sleep_after_ms
  /\ to_check \in 0..check_ms
  /\ sleeper \in {"sleep", "going", "dormant"}
  /\ idle \in 0..(sleep_after_ms + check_ms)
  /\ stale \in BOOLEAN

Init ==
  /\ age = 0 /\ to_check = check_ms
  /\ sleeper = "sleep" /\ idle = 0 /\ stale = FALSE   \* the constructor calls prod()

\* Time passes while the Pico is awake; ms_sleep() ends on time.
Tick ==
  /\ sleeper = "sleep" /\ to_check > 0
  /\ age' = IF age < sleep_after_ms THEN age + 1 ELSE age
  /\ to_check' = to_check - 1
  /\ idle' = idle + 1
  /\ UNCHANGED <<sleeper, stale>>

Check ==
  /\ sleeper = "sleep" /\ to_check = 0
  /\ to_check' = check_ms
  /\ sleeper' = IF age >= sleep_after_ms THEN "going" ELSE "sleep"
  /\ UNCHANGED <<age, idle, stale>>

\* prod(), of any thread, until the processor stops.
prod ==
  /\ sleeper # "dormant"
  /\ age' = 0 /\ idle' = 0 /\ stale' = FALSE
  /\ UNCHANGED <<to_check, sleeper>>

pico_enter_deep_sleep_until ==
  /\ sleeper = "going"
  /\ sleeper' = "dormant"
  /\ UNCHANGED <<age, to_check, idle, stale>>

\* The pin wakes the Pico, whose clock has stood still.
Wake ==
  /\ sleeper = "dormant"
  /\ sleeper' = "sleep"
  /\ idle' = 0
  /\ stale' = (age >= sleep_after_ms)
  /\ UNCHANGED <<age, to_check>>

Next == Tick \/ Check \/ prod \/ pico_enter_deep_sleep_until \/ Wake

Spec == Init /\ [][Next]_vars

-----------------------------------------------------------------------------
(* Properties.                                                              *)

\* The Pico is awake for at most a tenth longer than it should ("10% possible
\* over wake time", deep-sleep.cpp:6); and after a wake-up that nobody follows
\* with prod() it sleeps again at the next look, unless a prod() came between
\* the decision to sleep and the sleep.
GoesBackToSleep ==
  sleeper = "sleep" =>
    /\ idle <= sleep_after_ms + check_ms
    /\ stale => idle <= check_ms

=============================================================================
