------------------------------ MODULE CallEvery ------------------------------
(***************************************************************************)
(* Calls of a function every so many milliseconds, on the Pi and on the    *)
(* Pico.                                                                   *)
(*                                                                         *)
(* core/pi/call-every.c: a thread calls while the state is RUN.  The       *)
(* function is called without the lock; the state is not initialised by    *)
(* call_every_new(); and the thread that sees STOP returns with the lock   *)
(* held.  One thread uses the timer (destroy frees it), and the called     *)
(* function does not.                                                      *)
(*                                                                         *)
(* core/pico/call-every.c: a repeating timer of the Pico's alarm pool      *)
(* calls.  The timer structure is part of the object and remembers the     *)
(* last alarm only; call_every_new() does not initialise it.  The alarm    *)
(* pool is external: an alarm fires in an interrupt, on the core of the    *)
(* user or the other, and cancelling does not wait for it.                 *)
(***************************************************************************)
EXTENDS Integers, FiniteSets

-----------------------------------------------------------------------------
(* The Pi.                                                                  *)

VARIABLES
  state,        \* "other": a value that is none of the three
  ce_thread,    \* where thread_main() is; "check": with the lock
  ce_user,      \* where the user is
  ce_wants,     \* the state set_state() is going to set
  ce_late       \* history: the calls begun since the state was set to PAUSE (2: or more)

pi_vars == <<state, ce_thread, ce_user, ce_wants, ce_late>>

PiTypeOK ==
  /\ state \in {"RUN", "PAUSE", "STOP", "other"}
  /\ ce_thread \in {"lock", "check", "waiting", "due", "func", "returned"}
  /\ ce_user \in {"out", "lock", "join", "gone"}
  /\ ce_wants \in {"RUN", "PAUSE", "STOP"}
  /\ ce_late \in 0..2

\* call_every_new(): fatal_malloc() leaves any state.
PiInit ==
  /\ state \in {"RUN", "PAUSE", "STOP", "other"}
  /\ ce_thread = "lock"
  /\ ce_user = "out" /\ ce_wants = "RUN"
  /\ ce_late = 0

LockHeld == ce_thread \in {"check", "returned"}

-----------------------------------------------------------------------------
(* thread_main()                                                            *)

Lock ==
  /\ ce_thread = "lock"
  /\ ce_thread' = "check"
  /\ UNCHANGED <<state, ce_user, ce_wants, ce_late>>

\* Mutant: a pause is looked at only after the next call.
Check_runs_on ==
  /\ ce_thread = "check"
  /\ ce_thread' = IF state = "STOP" THEN "returned" ELSE "due"
  /\ UNCHANGED <<state, ce_user, ce_wants, ce_late>>

Check ==
  /\ ce_thread = "check"
  /\ ce_thread' = CASE state = "STOP"  -> "returned"
                    [] state = "PAUSE" -> "waiting"
                    [] OTHER           -> "due"
  /\ UNCHANGED <<state, ce_user, ce_wants, ce_late>>

\* us_sleep_until() has returned: e->func(e->data) begins, whatever the state.
CallFunc ==
  /\ ce_thread = "due"
  /\ ce_thread' = "func"
  /\ ce_late' = IF state = "PAUSE" /\ ce_late < 2 THEN ce_late + 1 ELSE ce_late
  /\ UNCHANGED <<state, ce_user, ce_wants>>

FuncReturns ==
  /\ ce_thread = "func"
  /\ ce_thread' = "lock"
  /\ UNCHANGED <<state, ce_user, ce_wants, ce_late>>

-----------------------------------------------------------------------------
(* The user.                                                                *)

set_state(new) ==
  /\ ce_user = "out"
  /\ ce_wants' = new
  /\ ce_user' = "lock"
  /\ UNCHANGED <<state, ce_thread, ce_late>>

call_every_start == set_state("RUN")
call_every_stop == set_state("PAUSE")
call_every_destroy == set_state("STOP")

\* Under the lock; the waiting thread is signalled.
SetState ==
  /\ ce_user = "lock" /\ ~LockHeld
  /\ state' = ce_wants
  /\ ce_thread' = IF ce_thread = "waiting" THEN "lock" ELSE ce_thread
  /\ ce_late' = 0
  /\ ce_user' = IF ce_wants = "STOP" THEN "join" ELSE "out"
  /\ UNCHANGED ce_wants

\* pthread_join(), and then everything is destroyed and freed.
Join ==
  /\ ce_user = "join" /\ ce_thread = "returned"
  /\ ce_user' = "gone"
  /\ UNCHANGED <<state, ce_thread, ce_wants, ce_late>>

PiNext ==
  \/ Lock \/ Check \/ CallFunc \/ FuncReturns
  \/ call_every_start \/ call_every_stop \/ call_every_destroy
  \/ SetState \/ Join

PiSpec == PiInit /\ [][PiNext]_pi_vars

\* call_every_stop() does not wait for the function, and a call that is due is
\* still made after it has returned: one, and no more until the next start.
AtMostOneLateCall == ce_late <= 1

\* When destroy has freed the timer nobody uses it any more.
FreedWhenUnused == ce_user = "gone" => ce_thread = "returned"

-----------------------------------------------------------------------------
(* The Pico.                                                                *)

CONSTANT Alarm

VARIABLES
  alarms,      \* the alarms of the pool that call this object
  alarm_id,    \* e->timer.alarm_id; 0: none, -1: not initialised, or a failed start
  in_callback, \* the alarms whose callback is running
  freed,       \* call_every_destroy() has freed the object
  doubled      \* history: the alarms live when another start replaced their number

pico_vars == <<alarms, alarm_id, in_callback, freed, doubled>>

PicoTypeOK ==
  /\ alarms \subseteq Alarm /\ in_callback \subseteq Alarm /\ doubled \subseteq Alarm
  /\ alarm_id \in Alarm \cup {0, -1}
  /\ freed \in BOOLEAN

PicoInit ==
  /\ alarms = {} /\ in_callback = {} /\ doubled = {}
  /\ alarm_id \in {0, -1}
  /\ freed = FALSE

Fresh == Alarm \ (alarms \cup in_callback \cup doubled)

\* alarm_pool_add_repeating_timer_ms(), or no free slot: the result is ignored.
pico_call_every_start ==
  /\ ~freed
  /\ \/ \E a \in Fresh :
          /\ alarms' = alarms \cup {a}
          /\ alarm_id' = a
     \/ alarm_id' = -1 /\ UNCHANGED alarms
  /\ doubled' = doubled \cup ({alarm_id} \cap alarms)
  /\ UNCHANGED <<in_callback, freed>>

\* Mutant: only the number is forgotten.
PicoCancel_forgets ==
  /\ alarm_id' = 0
  /\ UNCHANGED alarms

\* cancel_repeating_timer(): the alarm of that number, if there is one.
PicoCancel ==
  /\ alarms' = alarms \ {alarm_id}
  /\ alarm_id' = 0

pico_call_every_stop ==
  /\ ~freed
  /\ PicoCancel
  /\ UNCHANGED <<in_callback, freed, doubled>>

pico_call_every_destroy ==
  /\ ~freed
  /\ PicoCancel
  /\ freed' = TRUE
  /\ UNCHANGED <<in_callback, doubled>>

\* callback() of an alarm, and its return: it goes on repeating.
PicoFire(a) ==
  /\ a \in alarms \ in_callback
  /\ in_callback' = in_callback \cup {a}
  /\ UNCHANGED <<alarms, alarm_id, freed, doubled>>

PicoFuncReturns(a) ==
  /\ a \in in_callback
  /\ in_callback' = in_callback \ {a}
  /\ UNCHANGED <<alarms, alarm_id, freed, doubled>>

PicoNext ==
  \/ pico_call_every_start \/ pico_call_every_stop \/ pico_call_every_destroy
  \/ \E a \in Alarm : PicoFire(a) \/ PicoFuncReturns(a)

PicoSpec == PicoInit /\ [][PicoNext]_pico_vars

\* Of all starts, exactly those that found the timer running leave an alarm
\* that stop and destroy miss: every other alarm is the one of e->timer, so
\* that after stop or destroy no other calls the function again.
OnlyDoubleStartsLeak == alarms \ doubled \subseteq {alarm_id}

=============================================================================
