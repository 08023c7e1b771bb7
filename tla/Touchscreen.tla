----------------------------- MODULE Touchscreen -----------------------------
(***************************************************************************)
(* threads/touchscreen-ft6336.cpp with the notifier of                     *)
(* threads/include/thread-interrupt-notifier.h: an edge of the interrupt   *)
(* pin resumes a thread that copies the pin to is_touched; while that is   *)
(* set another thread reads the controller over and over and turns what it *)
(* reads into on_touch() and on_released() calls.                          *)
(*                                                                         *)
(* A place on the screen is one number; the two coordinates are compared   *)
(* in the same way.                                                        *)
(***************************************************************************)
EXTENDS Integers, Sequences, SequencesExt

CONSTANTS Place,        \* subset of Nat
          touch_delta,  \* how far a touch may move between two reads
          Id            \* subset of Nat: touch_id, an int that is counted up, gives
                        \* each touch an id that no live touch has

VARIABLES
  pin, notified,   \* external: the pin; the notifier's resume is pending
  notifier, level, \* where the notifier is, the pin as it has read it
  is_touched,
  handler,         \* where the handler thread is
  touches,         \* the n_touches touches of the last report
  announced,       \* history: the ids of on_touch() without an on_released(), until
                   \* a report fails
  failed           \* history: a report has been cut short by a failed read

vars == <<pin, notified, notifier, level, is_touched, handler, touches, announced, failed>>

MAX_TOUCHES == 2
Touch == [id : Id, at : Place]

TypeOK ==
  /\ pin \in BOOLEAN /\ notified \in BOOLEAN /\ level \in BOOLEAN
  /\ notifier \in {"paused", "read", "set"}
  /\ is_touched \in BOOLEAN
  /\ handler \in {"check", "asleep", "report"}
  /\ touches \in Seq(Touch) /\ Len(touches) <= MAX_TOUCHES
  /\ announced \subseteq Id /\ failed \in BOOLEAN

Init ==
  /\ pin = FALSE /\ notified = FALSE /\ notifier = "paused" /\ level = FALSE
  /\ is_touched = FALSE /\ handler = "check"
  /\ touches = <<>>
  /\ announced = {} /\ failed = FALSE

report == <<touches, announced, failed>>

-----------------------------------------------------------------------------
(* The pin, ThreadInterruptNotifier::main() and on_change_safe().           *)

Edge ==
  /\ pin' = ~pin
  /\ notified' = TRUE
  /\ UNCHANGED <<notifier, level, is_touched, handler, report>>

PauseReturns ==
  /\ notifier = "paused" /\ notified
  /\ notified' = FALSE
  /\ notifier' = "read"
  /\ UNCHANGED <<pin, level, is_touched, handler, report>>

\* interrupt->get()
ReadPin ==
  /\ notifier = "read"
  /\ level' = pin
  /\ notifier' = "set"
  /\ UNCHANGED <<pin, notified, is_touched, handler, report>>

set_touch_state ==
  /\ notifier = "set"
  /\ is_touched' = level
  /\ handler' = IF handler = "asleep" THEN "check" ELSE handler
  /\ notifier' = "paused"
  /\ UNCHANGED <<pin, notified, level, report>>

-----------------------------------------------------------------------------
(* TouchscreenEventHandler::main() and report_touches().                    *)

Check ==
  /\ handler = "check"
  /\ handler' = IF is_touched THEN "report" ELSE "asleep"
  /\ UNCHANGED <<pin, notified, notifier, level, is_touched, report>>

is_same_point(a, b) == a - b <= touch_delta /\ b - a <= touch_delta

\* The first old touch that the touch at place p continues; 0 if none does.
Continued(old, p) ==
  LET same == {j \in DOMAIN old : is_same_point(p, old[j].at)}
  IN  IF same = {} THEN 0 ELSE CHOOSE j \in same : \A k \in same : j <= k

FreshId(seq) == CHOOSE id \in Id : \A k \in DOMAIN seq : seq[k].id # id

\* One turn of the loop over the current touches; seq holds the n_touches old
\* touches and, behind them, the new ones.
See(s, p) ==
  LET j == Continued(SubSeq(s.seq, 1, Len(touches)), p)
      id == FreshId(s.seq)
  IN  IF j # 0
      THEN [s EXCEPT !.seq[j].at = p, !.seen = @ \cup {j}]
      ELSE [s EXCEPT !.seq = Append(@, [id |-> id, at |-> p]), !.announced = @ \cup {id}]

\* A fold over the current touches, as a function that a proof can expand.
Seen(current) ==
  LET turn[i \in 0..Len(current)] ==
        IF i = 0 THEN [seq |-> touches, seen |-> {}, announced |-> announced]
        ELSE See(turn[i - 1], current[i])
  IN  turn[Len(current)]

\* Mutant: all of the touches are kept.
Kept_unseen(s) == DOMAIN s.seq

\* The old touches that were not seen again are released, the others and the
\* new ones are kept...
Kept(s) == s.seen \cup (Len(touches) + 1)..Len(s.seq)
Released(s) == {s.seq[i].id : i \in 1..Len(touches) \ s.seen}

\* ...and moved up.
MovedUp(s) ==
  LET up[i \in 0..Len(s.seq)] ==
        IF i = 0 THEN <<>>
        ELSE IF i \in Kept(s) THEN Append(up[i - 1], s.seq[i]) ELSE up[i - 1]
  IN  up[Len(s.seq)]

ReportTouches(current) ==
  /\ handler = "report"
  /\ LET s == Seen(current)
     IN  /\ touches' = MovedUp(s)
         /\ announced' = IF failed THEN {} ELSE s.announced \ Released(s)
  /\ handler' = "check"
  /\ UNCHANGED <<pin, notified, notifier, level, is_touched, failed>>

\* A read fails after some of the touches: the old ones may have moved, the
\* new ones are announced and then forgotten.
ReportFails(current) ==
  /\ handler = "report"
  /\ touches' = SubSeq(Seen(current).seq, 1, Len(touches))
  /\ announced' = {} /\ failed' = TRUE
  /\ handler' = "check"
  /\ UNCHANGED <<pin, notified, notifier, level, is_touched>>

Next ==
  \/ Edge \/ PauseReturns \/ ReadPin \/ set_touch_state \/ Check
  \/ \E current \in BoundedSeq(Place, MAX_TOUCHES) : ReportTouches(current)
  \/ \E current \in BoundedSeq(Place, MAX_TOUCHES - 1) : ReportFails(current)

Spec == Init /\ [][Next]_vars

-----------------------------------------------------------------------------
(* Properties.                                                              *)

\* Unless a report failed half way, the touches kept are those that on_touch()
\* has told of and on_released() has not yet taken back.
AnnouncedIsTouched ==
  ~failed => announced = {touches[i].id : i \in DOMAIN touches}

\* However fast the edges come, when the notifier has come to rest is_touched
\* is the pin, and the handler is not asleep while the screen is touched.
StateFollowsPin ==
  notifier = "paused" /\ ~notified =>
    is_touched = pin /\ (handler = "asleep" => ~pin)

=============================================================================
