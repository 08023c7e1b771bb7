----------------------------- MODULE AxisStepper -----------------------------
(***************************************************************************)
(* core/axis-stepper.cpp: an axis that moves by steps, to a position that  *)
(* it reckons from the steps it has made since it was homed.               *)
(*                                                                         *)
(* Positions are numbers of 1/Sub of a step.  The physics is left to       *)
(* chance: the steps of a move that speed up or slow down are any number,  *)
(* and a distance of whole steps may be rounded to one less.  The end stop *)
(* is at 0 of the carriage, and it is homed there, as 0.                   *)
(***************************************************************************)
EXTENDS Integers

CONSTANTS Sub,      \* 1 / mm_per_step: what a target may leave between two steps
          MaxPos,   \* bound: targets
          MaxRamp,  \* bound: the steps in which home() reaches its speed
          Slack     \* how far the carriage can go beyond either end

VARIABLES
  pos,
  wanted,    \* history: the target of the last call if it was go(), or -1
  homed,     \* history: what home() has found: "no", "edge", "overrun"
  carriage   \* external: where the carriage is

vars == <<pos, wanted, homed, carriage>>

TypeOK ==
  /\ pos \in 0..MaxPos
  /\ wanted \in -1..MaxPos
  /\ homed \in {"no", "edge", "overrun"}
  /\ carriage \in -Slack..MaxPos + Slack

Init ==
  /\ pos = 0 /\ wanted = -1 /\ homed = "no"
  /\ carriage \in 0..MaxPos

\* External: where n steps in a direction leave the carriage, which its frame
\* stops.
Moved(n, direction) ==
  LET to == carriage + direction * n * Sub
  IN  IF to < -Slack THEN -Slack ELSE IF to > MaxPos + Slack THEN MaxPos + Slack ELSE to

\* (int) (fabs(target - pos) * steps_per_mm); nothing moves for less than a step.
NSteps(distance) ==
  {distance \div Sub} \cup
  {n \in {distance \div Sub - 1} : n >= 0 /\ distance % Sub = 0}

\* go(): speed up for as many steps as it takes, go on for all but as many, and
\* slow down until the end or until the speed is that of the jerk.
go(target) ==
  LET direction == IF target > pos THEN 1 ELSE -1
      distance == (target - pos) * direction
  IN  \E starting_n_steps \in NSteps(distance) :
      \E accel_steps \in 0..starting_n_steps :
        LET n_full_speed_steps ==
              IF starting_n_steps > 2 * accel_steps
              THEN starting_n_steps - 2 * accel_steps ELSE 0
            n_left == starting_n_steps - accel_steps - n_full_speed_steps
        IN  \E n_steps \in 0..n_left :
              LET made == starting_n_steps - n_steps
              IN  /\ pos' = pos + direction * made * Sub
                  /\ carriage' = Moved(made, direction)
                  /\ wanted' = target
                  /\ UNCHANGED homed

\* Mutant: the position is the target, however far the steps went.
go_target(target) ==
  LET direction == IF target > pos THEN 1 ELSE -1
      n == ((target - pos) * direction) \div Sub
  IN  /\ n > 0
      /\ pos' = target /\ wanted' = target
      /\ carriage' = Moved(n, direction)
      /\ UNCHANGED homed

\* home(): the steps that speed up do not look at the end stop; those that
\* follow stop at it.
home ==
  \E n \in 0..MaxRamp :
    LET fast == Moved(n, -1)
    IN  /\ carriage' = IF fast > 0 THEN -((-fast) % Sub) ELSE fast
        /\ homed' = IF fast > -Sub THEN "edge" ELSE "overrun"
        /\ pos' = 0 /\ wanted' = -1

Next == home \/ \E target \in 0..MaxPos : go(target)

Spec == Init /\ [][Next]_vars

-----------------------------------------------------------------------------
(* Properties.                                                              *)

\* Once homed, and after any moves, the carriage is less than a step from where
\* the axis says it is, unless home() had passed the end stop before it began
\* to look at it: then all that follows is as far off.
PosIsTheCarriage ==
  homed = "edge" => carriage - pos \in 1 - Sub..0

\* A move comes nearer to its target and never passes it, whatever it leaves
\* to the rounding and to the slowing down.
NeverPastTheTarget ==
  [][wanted' >= 0 =>
       (wanted' - pos') * (wanted' - pos) >= 0 /\
       (wanted' - pos') * (wanted' - pos') <= (wanted' - pos) * (wanted' - pos)]_vars

=============================================================================
