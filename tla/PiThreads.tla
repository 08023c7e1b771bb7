------------------------------- MODULE PiThreads -------------------------------
(***************************************************************************)
(* threads/pi/platform-threads.cpp: PiThread on the Pi.  A thread that     *)
(* pauses and runs, like a ThreadInterruptNotifier, and those that resume  *)
(* it; and the list of PiThread objects, whose last destructor ends the    *)
(* program.                                                                *)
(*                                                                         *)
(* pause() tests and waits under m_paused; resume() sets the flag and      *)
(* signals without it, so m_paused is only ever taken by the pauser.       *)
(***************************************************************************)
EXTENDS Naturals, FiniteSets

CONSTANTS Resumer,
          Wrapper    \* the PiThreadWrapper objects of pi_thread_create()

VARIABLES
  resumed,         \* PiThread::resumed
  pauser,          \* where the pausing thread is; "out": in on_change_safe()
  resumer,         \* where each caller of resume() is
  missed,          \* history: a signal was given between the test and the wait
  active_threads,  \* the objects constructed and not yet removed
  wrapper,         \* where each PiThreadWrapper is
  main_thread,     \* "running", "returned", and "exited" with the whole program
  at_lock          \* the wrapper whose destructor holds at_lock, or "free"

pausing == <<resumed, pauser, resumer, missed>>
listing == <<active_threads, wrapper, main_thread, at_lock>>
vars == <<pausing, listing>>

TypeOK ==
  /\ resumed \in BOOLEAN /\ missed \in BOOLEAN
  /\ pauser \in {"out", "test", "to_wait", "waiting", "clear"}
  /\ resumer \in [Resumer -> {"out", "signal"}]
  /\ active_threads \subseteq Wrapper
  /\ wrapper \in [Wrapper -> {"new", "created", "main_fn", "deleting", "removing", "gone"}]
  /\ main_thread \in {"running", "returned", "exited"}
  /\ at_lock \in Wrapper \cup {"free"}

Init ==
  /\ resumed = FALSE /\ missed = FALSE
  /\ pauser = "out"
  /\ resumer = [r \in Resumer |-> "out"]
  /\ active_threads = {}
  /\ wrapper = [w \in Wrapper |-> "new"]
  /\ main_thread = "running" /\ at_lock = "free"

-----------------------------------------------------------------------------
(* pause() and resume()                                                     *)

PauseBegin ==
  /\ pauser = "out"
  /\ pauser' = "test"
  /\ UNCHANGED <<resumed, resumer, missed, listing>>

PauseTest ==
  /\ pauser = "test"
  /\ pauser' = IF resumed THEN "clear" ELSE "to_wait"
  /\ UNCHANGED <<resumed, resumer, missed, listing>>

PauseWait ==
  /\ pauser = "to_wait"
  /\ pauser' = "waiting"
  /\ UNCHANGED <<resumed, resumer, missed, listing>>

PauseReturns ==
  /\ pauser = "clear"
  /\ resumed' = FALSE
  /\ pauser' = "out"
  /\ UNCHANGED <<resumer, missed, listing>>

ResumeSets(r) ==
  /\ resumer[r] = "out"
  /\ resumed' = TRUE
  /\ resumer' = [resumer EXCEPT ![r] = "signal"]
  /\ UNCHANGED <<pauser, missed, listing>>

\* Mutant: only a thread that finds the flag unset signals.
ResumeSignals_once(r) ==
  /\ resumer[r] = "signal"
  /\ pauser' = IF pauser = "waiting" /\ ~missed THEN "test" ELSE pauser
  /\ missed' = FALSE
  /\ resumer' = [resumer EXCEPT ![r] = "out"]
  /\ UNCHANGED <<resumed, listing>>

\* A signal wakes the thread if it waits, and is lost on it otherwise.
ResumeSignals(r) ==
  /\ resumer[r] = "signal"
  /\ pauser' = IF pauser = "waiting" THEN "test" ELSE pauser
  /\ missed' = (pauser = "to_wait")
  /\ resumer' = [resumer EXCEPT ![r] = "out"]
  /\ UNCHANGED <<resumed, listing>>

-----------------------------------------------------------------------------
(* The list of threads                                                      *)

\* pi_thread_create(), from main or from a thread: the constructor adds the
\* object, start() makes the thread.
ThreadCreate(w) ==
  /\ main_thread # "exited" /\ at_lock = "free"
  /\ main_thread = "running" \/ \E u \in Wrapper : wrapper[u] = "main_fn"
  /\ wrapper[w] = "new"
  /\ active_threads' = active_threads \cup {w}
  /\ \/ wrapper' = [wrapper EXCEPT ![w] = "main_fn"]
     \/ wrapper' = [wrapper EXCEPT ![w] = "created"]  \* pthread_create() has failed
  /\ UNCHANGED <<pausing, main_thread, at_lock>>

\* Mutant: the object leaves the list when its thread begins.
MainFnReturns_late(w) ==
  /\ main_thread # "exited"
  /\ wrapper[w] = "main_fn" /\ w \in active_threads /\ at_lock = "free"
  /\ active_threads' = active_threads \ {w}
  /\ main_thread' = IF active_threads' = {} THEN "exited" ELSE main_thread
  /\ UNCHANGED <<pausing, wrapper, at_lock>>

\* main_fn(arg) has returned: delete this.
MainFnReturns(w) ==
  /\ main_thread # "exited"
  /\ wrapper[w] = "main_fn"
  /\ wrapper' = [wrapper EXCEPT ![w] = "deleting"]
  /\ UNCHANGED <<pausing, active_threads, main_thread, at_lock>>

\* ~PiThread(): the last one takes the program with it, at_lock held.
Remove(w) ==
  /\ main_thread # "exited"
  /\ wrapper[w] = "deleting" /\ at_lock = "free"
  /\ active_threads' = active_threads \ {w}
  /\ at_lock' = w
  /\ wrapper' = [wrapper EXCEPT ![w] = "removing"]
  /\ UNCHANGED <<pausing, main_thread>>

Removed(w) ==
  /\ main_thread # "exited"
  /\ wrapper[w] = "removing"
  /\ IF active_threads = {}
       THEN main_thread' = "exited" /\ UNCHANGED <<wrapper, at_lock>>
       ELSE /\ at_lock' = "free"
            /\ wrapper' = [wrapper EXCEPT ![w] = "gone"]
            /\ UNCHANGED main_thread
  /\ UNCHANGED <<pausing, active_threads>>

\* platform_init_with_threads(), after main().
MainReturns ==
  /\ main_thread = "running" /\ at_lock = "free"
  /\ main_thread' = IF active_threads = {} THEN "exited" ELSE "returned"
  /\ UNCHANGED <<pausing, active_threads, wrapper, at_lock>>

Next ==
  \/ PauseBegin \/ PauseTest \/ PauseWait \/ PauseReturns
  \/ \E r \in Resumer : ResumeSets(r) \/ ResumeSignals(r)
  \/ \E w \in Wrapper : ThreadCreate(w) \/ MainFnReturns(w) \/ Remove(w) \/ Removed(w)
  \/ MainReturns

Spec == Init /\ [][Next]_vars

-----------------------------------------------------------------------------
(* Properties.                                                              *)

\* A thread sleeps beside a resume() that nobody will signal again only when
\* that signal came between pause()'s test and its wait: no other order loses
\* one.
SleepsOnlyIfMissed ==
  pauser = "waiting" /\ resumed /\ (\A r \in Resumer : resumer[r] = "out") => missed

\* The program ends only when every thread that was created has done its work,
\* whatever the order in which threads create threads and end.  (main() itself
\* may still be running then, and is cut off.)
NoWorkIsCutOff ==
  main_thread = "exited" => \A w \in Wrapper : wrapper[w] \notin {"created", "main_fn", "deleting"}

=============================================================================
