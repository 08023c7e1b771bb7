-------------------------------- MODULE Maestro --------------------------------
(***************************************************************************)
(* core/pi/maestro.c: one servo of a Maestro controller.  The controller   *)
(* (external) keeps the range of the servo in two parameters and the       *)
(* target it was given last; the object keeps a copy of the range, which   *)
(* maestro_set_servo_range_pct() narrows, and of the target, so that it    *)
(* need not be sent twice.  Any transfer may fail: parameters go through   *)
(* usb_control_msg(), targets through the serial device, which is then     *)
(* opened again without sending the command anew.                          *)
(*                                                                         *)
(* Positions are in units in which each parameter is a whole number.  A    *)
(* range that was read in part may be upside down: it is not used here     *)
(* until it has been set again.                                            *)
(***************************************************************************)
EXTENDS Integers

CONSTANTS MaxPos,    \* of a parameter
          Percent,   \* the percentages that callers use, with their 100
          MaxWidened \* bounds the calls with 100 percent that widen a range

VARIABLES
  lo, hi,               \* c->min_pos_us, max_pos_us
  dev_lo, dev_hi,       \* the controller's parameters
  is_inverted,
  current_real_pos,     \* 0: none yet
  dev_target,           \* the target that the controller was given; 0: none yet
  lost,                 \* history: the last command for a target has failed
  torn,                 \* history: a range was set, or read back, only in part
  widened               \* history: calls with 100 percent since it was read back

vars == <<lo, hi, dev_lo, dev_hi, is_inverted, current_real_pos, dev_target, lost, torn, widened>>

Pos == 1..MaxPos

TypeOK ==
  /\ lo \in 1..(MaxPos + MaxWidened) /\ hi \in 1..(MaxPos + MaxWidened)
  /\ dev_lo \in Pos /\ dev_hi \in Pos
  /\ is_inverted \in BOOLEAN /\ lost \in BOOLEAN /\ torn \in BOOLEAN
  /\ widened \in 0..MaxWidened
  /\ {current_real_pos, dev_target} \subseteq 0..(MaxPos + MaxWidened)

\* maestro_new() has set the standard range, and read it back.
Init ==
  /\ lo = 1 /\ hi = MaxPos
  /\ dev_lo = 1 /\ dev_hi = MaxPos
  /\ is_inverted = FALSE
  /\ current_real_pos = 0 /\ dev_target = 0
  /\ lost = FALSE /\ torn = FALSE /\ widened = 0

-----------------------------------------------------------------------------
(* The range                                                                *)

\* get_servo_config(): the two parameters, one after the other; its result is
\* ignored.
get_servo_config(l, h) ==
  \/ lo' = l /\ hi' = h /\ torn' = FALSE /\ widened' = 0
  \/ lo' = l /\ hi' = hi /\ torn' = TRUE /\ widened' = widened
  \/ lo' = lo /\ hi' = hi /\ torn' = TRUE /\ widened' = widened

\* When the second parameter fails the first has been changed, and the copy is
\* not read again.
maestro_set_servo_physical_range(l, h) ==
  /\ \/ dev_lo' = l /\ dev_hi' = h /\ get_servo_config(l, h)
     \/ dev_lo' = l /\ UNCHANGED <<dev_hi, lo, hi, widened>> /\ torn' = TRUE
     \/ UNCHANGED <<dev_lo, dev_hi, lo, hi, torn, widened>>
  /\ UNCHANGED <<is_inverted, current_real_pos, dev_target, lost>>

\* The percentages are those of the present range, itself of an earlier one; of
\* a range of n + 1 positions 100 percent are n + 1.
maestro_set_servo_range_pct(low, high) ==
  LET n == hi - lo + 1
      l == IF is_inverted THEN 100 - high ELSE low
      h == IF is_inverted THEN 100 - low ELSE high
  IN  /\ n > 0
      /\ widened' = IF h = 100 THEN widened + 1 ELSE widened
      /\ widened' <= MaxWidened
      /\ hi' = lo + (n * h) \div 100
      /\ lo' = lo + (n * l) \div 100
      /\ UNCHANGED <<dev_lo, dev_hi, is_inverted, current_real_pos, dev_target, lost, torn>>

maestro_set_servo_is_inverted(inverted) ==
  /\ is_inverted' = inverted
  /\ UNCHANGED <<lo, hi, dev_lo, dev_hi, current_real_pos, dev_target, lost, torn, widened>>

\* maestro_factory_reset(): the controller starts again with a range of its own
\* and no target.
maestro_factory_reset ==
  /\ dev_lo' = 1 /\ dev_hi' = MaxPos /\ dev_target' = 0
  /\ get_servo_config(1, MaxPos)
  /\ current_real_pos' = 0
  /\ lost' = FALSE
  /\ UNCHANGED is_inverted

-----------------------------------------------------------------------------
(* The position                                                             *)

RealPos(pct) ==
  LET p == IF is_inverted THEN 100 - pct ELSE pct
  IN  ((hi - lo) * p + 50) \div 100 + lo

\* Mutant: the copy is of what was asked for, before it is inverted.
SendTarget_raw(pct) ==
  /\ lo <= hi /\ RealPos(pct) # current_real_pos
  /\ current_real_pos' = ((hi - lo) * pct + 50) \div 100 + lo
  /\ \/ dev_target' = RealPos(pct) /\ lost' = FALSE
     \/ dev_target' = dev_target /\ lost' = TRUE

\* The copy changes before the command is sent.
SendTarget(pct) ==
  /\ lo <= hi /\ RealPos(pct) # current_real_pos
  /\ current_real_pos' = RealPos(pct)
  /\ \/ dev_target' = RealPos(pct) /\ lost' = FALSE
     \/ dev_target' = dev_target /\ lost' = TRUE

\* A position that is the current one is not sent, also when its sending failed.
maestro_set_servo_pos(pct) ==
  /\ SendTarget(pct)
  /\ UNCHANGED <<lo, hi, dev_lo, dev_hi, is_inverted, torn, widened>>

Next ==
  \/ \E l, h \in Pos : l < h /\ maestro_set_servo_physical_range(l, h)
  \/ \E low, high \in Percent : low < high /\ maestro_set_servo_range_pct(low, high)
  \/ \E inverted \in BOOLEAN : maestro_set_servo_is_inverted(inverted)
  \/ maestro_factory_reset
  \/ \E pct \in Percent : maestro_set_servo_pos(pct)

Spec == Init /\ [][Next]_vars

-----------------------------------------------------------------------------
(* Properties.                                                              *)

\* The controller has the target that the object remembers, unless the last
\* command was lost: then the object would not send that position again, and
\* only another one, or the controller's restart, puts them together.
TargetIsRemembered == current_real_pos = dev_target \/ lost

\* The object's range stays within the controller's however ranges are set,
\* narrowed and turned round, but for a range that was set or read in part and
\* for the one position by which each narrowing to 100 percent widens it.
RangeIsTheControllers ==
  torn \/ (lo >= dev_lo /\ hi <= dev_hi + widened /\ lo <= hi)

=============================================================================
