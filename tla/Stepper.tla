------------------------------- MODULE Stepper -------------------------------
(***************************************************************************)
(* threads/stepper.cpp: a thread that steps a motor at a velocity v that   *)
(* follows target_v within an acceleration; jerk is the speed at and below *)
(* which it changes at once.  Velocities are integers, and what the        *)
(* acceleration adds in one step is any of Accelerations.                  *)
(*                                                                         *)
(* set_speed() writes the double target_v under a lock that the loop takes *)
(* only to sleep: the loop may read it half written, as any velocity.      *)
(***************************************************************************)
EXTENDS Integers

CONSTANTS MaxSpeed,       \* bound: velocities are -MaxSpeed..MaxSpeed
          jerk,
          Accelerations   \* subset of Nat: acceleration * the time of one step

VARIABLES
  v, target_v,
  halfway,       \* set_speed() is writing target_v, with the lock
  stepper_main,  \* where main() is
  cur_target_v,
  dir, enable    \* external: the outputs; enable is active low, -1: not yet set

vars == <<v, target_v, halfway, stepper_main, cur_target_v, dir, enable>>

Velocity == -MaxSpeed..MaxSpeed

TypeOK ==
  /\ v \in Velocity /\ target_v \in Velocity /\ cur_target_v \in Velocity
  /\ halfway \in BOOLEAN
  /\ stepper_main \in {"top", "stopped", "lock", "asleep", "grab", "step", "accelerate"}
  /\ dir \in {-1, 1} /\ enable \in {-1, 0, 1}

Init ==
  /\ v = 0 /\ target_v = 0 /\ cur_target_v = 0 /\ halfway = FALSE
  /\ stepper_main = "top"
  /\ dir = 1 /\ enable = -1

Sign(x) == IF x > 0 THEN 1 ELSE -1
Abs(x) == IF x < 0 THEN -x ELSE x

\* What a read of target_v without the lock may give.
TargetRead == IF halfway THEN Velocity ELSE {target_v}

-----------------------------------------------------------------------------
(* main()                                                                   *)

\* Slowing down to a stop within the jerk range: stop.
Top ==
  /\ stepper_main = "top"
  /\ \E t \in TargetRead : v' = IF t = 0 /\ Abs(v) <= jerk THEN 0 ELSE v
  /\ stepper_main' = "stopped"
  /\ UNCHANGED <<target_v, halfway, cur_target_v, dir, enable>>

\* Not moving and not asked to: sleep.
Stopped ==
  /\ stepper_main = "stopped"
  /\ \E t \in TargetRead : stepper_main' = IF v = 0 /\ t = 0 THEN "lock" ELSE "grab"
  /\ UNCHANGED <<v, target_v, halfway, cur_target_v, dir, enable>>

\* Under the lock, from the first time and after each wait.
SleepOrEnable ==
  /\ stepper_main = "lock" /\ ~halfway
  /\ IF target_v = 0
     THEN stepper_main' = "asleep" /\ enable' = 1
     ELSE stepper_main' = "grab" /\ enable' = 0
  /\ UNCHANGED <<v, target_v, halfway, cur_target_v, dir>>

\* One target velocity for the turn; from within the jerk range v jumps to
\* the jerk speed.
Grab ==
  /\ stepper_main = "grab"
  /\ cur_target_v' \in TargetRead
  /\ v' = IF cur_target_v' # 0 /\ Abs(v) <= jerk THEN Sign(cur_target_v') * jerk ELSE v
  /\ stepper_main' = "step"
  /\ UNCHANGED <<target_v, halfway, dir, enable>>

\* one_step(): a pulse unless v is 0, counted in n_steps by the sign of v.
OneStep ==
  /\ stepper_main = "step"
  /\ stepper_main' = "accelerate"
  /\ UNCHANGED <<v, target_v, halfway, cur_target_v, dir, enable>>

\* The new velocity after delta_v, lines 47 to 55.
Clamped(new_v) ==
  IF cur_target_v >= 0 /\ new_v > cur_target_v THEN cur_target_v
  ELSE IF cur_target_v <= 0 /\ new_v < cur_target_v THEN cur_target_v
  ELSE IF Abs(new_v) < jerk THEN Sign(cur_target_v) * jerk
  ELSE new_v

OffTarget ==
  \/ cur_target_v >= 0 /\ v < cur_target_v
  \/ cur_target_v <= 0 /\ v > cur_target_v

Accelerate ==
  /\ stepper_main = "accelerate"
  /\ IF OffTarget
     THEN \E delta_v \in Accelerations :
            /\ v' = Clamped(v + Sign(cur_target_v) * delta_v)
            /\ dir' = IF v' >= 0 THEN 1 ELSE -1
     ELSE UNCHANGED <<v, dir>>
  /\ stepper_main' = "top"
  /\ UNCHANGED <<target_v, halfway, cur_target_v, enable>>

-----------------------------------------------------------------------------
(* The callers.                                                             *)

SetSpeedBegin ==
  /\ ~halfway
  /\ halfway' = TRUE
  /\ UNCHANGED <<v, target_v, stepper_main, cur_target_v, dir, enable>>

SetSpeedEnd(mm_per_sec) ==
  /\ halfway
  /\ target_v' = mm_per_sec
  /\ halfway' = FALSE
  /\ stepper_main' = IF stepper_main = "asleep" THEN "lock" ELSE stepper_main
  /\ UNCHANGED <<v, cur_target_v, dir, enable>>

Next ==
  \/ Top \/ Stopped \/ SleepOrEnable \/ Grab \/ OneStep \/ Accelerate
  \/ SetSpeedBegin
  \/ \E s \in Velocity : SetSpeedEnd(s)

Spec == Init /\ [][Next]_vars

-----------------------------------------------------------------------------
(* Properties.                                                              *)

\* A step goes the way it is counted, except at the jerk speed: the jump to it
\* does not set dir, so after a stop or a reversal the first step, and all of
\* them if the target is the jerk speed, may go the other way.
WrongWayOnlyAtJerk ==
  stepper_main = "step" /\ v # 0 /\ dir # Sign(v) => Abs(v) = jerk

\* Having been disabled, the motor is enabled before it is stepped again.  (If
\* set_speed() comes before the thread's first look, enable is never set.)
EnabledWhenStepped ==
  stepper_main = "step" /\ v # 0 => enable # 1

=============================================================================
