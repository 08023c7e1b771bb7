----------------------------- MODULE PicoThreads -----------------------------
(***************************************************************************)
(* threads/pico/platform-threads.cpp: PiThread::pause/resume, PiMutex and  *)
(* PiCond as they are built on FreeRTOS task notifications.                *)
(*                                                                         *)
(* One PiCond and the mutex m its users hold around it.  A wait puts the   *)
(* task on wait_list, gives m up and takes notification 3; a signal pops   *)
(* the first task of wait_list and gives it notification 3.  The same      *)
(* notification serves pause() and resume().                               *)
(***************************************************************************)
EXTENDS Naturals, Sequences, StdList

CONSTANTS Thread,    \* the tasks
          NoThread,  \* no task
          Timed,     \* tasks that wait with a timeout
          Resumed,   \* tasks that another task or an interrupt resume()s
          MaxList    \* bound: the length of wait_list

ASSUME NoThreadAssumption == NoThread \notin Thread
ASSUME SubsetAssumption == Timed \subseteq Thread /\ Resumed \subseteq Thread
ASSUME MaxListAssumption == MaxList \in Nat

VARIABLES
  m,          \* the owner of the users' mutex
  lock,       \* the owner of PiCond::lock
  wait_list,  \* PiCond::wait_list
  notified,   \* notification 3 of a task is pending (its count is > 0)
  pc,         \* where a task is
  ret,        \* what its last wait returned
  seen        \* history: whether a "timeout", a "resume" have happened

vars == <<m, lock, wait_list, notified, pc, ret, seen>>

Places == {"out", "in",                                   \* in: it holds m
           "queued", "taking", "relock", "unlist",        \* in wait_until
           "broadcast", "paused"}

TypeOK ==
  /\ m \in Thread \cup {NoThread}
  /\ lock \in Thread \cup {NoThread}
  /\ wait_list \in Seq(Thread)
  /\ notified \in [Thread -> BOOLEAN]
  /\ pc \in [Thread -> Places]
  /\ ret \in [Thread -> BOOLEAN]
  /\ seen \subseteq {"timeout", "resume"}

Init ==
  /\ m = NoThread
  /\ lock = NoThread
  /\ wait_list = <<>>
  /\ notified = [t \in Thread |-> FALSE]
  /\ pc = [t \in Thread |-> "out"]
  /\ ret = [t \in Thread |-> FALSE]
  /\ seen = {}

Go(t, place) == pc' = [pc EXCEPT ![t] = place]
Running(t) == pc[t] \in {"in", "out"}

-----------------------------------------------------------------------------
(* PiMutex.                                                                 *)

Lock(t) ==
  /\ pc[t] = "out" /\ m = NoThread
  /\ m' = t
  /\ Go(t, "in")
  /\ UNCHANGED <<lock, wait_list, notified, ret, seen>>

Unlock(t) ==
  /\ pc[t] = "in"
  /\ m' = NoThread
  /\ Go(t, "out")
  /\ UNCHANGED <<lock, wait_list, notified, ret, seen>>

-----------------------------------------------------------------------------
(* PiCond::wait_until.                                                      *)

\* Mutant: PiThread::self() is queued, which is null in a task that is no
\* PiThread.
WaitPush_self(t) ==
  /\ pc[t] = "in" /\ lock = NoThread
  /\ Len(wait_list) < MaxList
  /\ \E self \in {t, NoThread} : wait_list' = Append(wait_list, self)
  /\ Go(t, "queued")
  /\ UNCHANGED <<m, lock, notified, ret, seen>>

\* wait_list.push_back(), under the condition's own lock.
WaitPush(t) ==
  /\ pc[t] = "in" /\ lock = NoThread
  /\ Len(wait_list) < MaxList
  /\ wait_list' = Append(wait_list, t)
  /\ Go(t, "queued")
  /\ UNCHANGED <<m, lock, notified, ret, seen>>

WaitRelease(t) ==
  /\ pc[t] = "queued"
  /\ m' = NoThread
  /\ Go(t, "taking")
  /\ UNCHANGED <<lock, wait_list, notified, ret, seen>>

\* ulTaskNotifyTakeIndexed() returns a pending notification and clears it.
Take(t) ==
  /\ pc[t] = "taking" /\ notified[t]
  /\ notified' = [notified EXCEPT ![t] = FALSE]
  /\ ret' = [ret EXCEPT ![t] = TRUE]
  /\ Go(t, "relock")
  /\ UNCHANGED <<m, lock, wait_list, seen>>

Timeout(t) ==
  /\ t \in Timed
  /\ pc[t] = "taking" /\ ~notified[t]
  /\ ret' = [ret EXCEPT ![t] = FALSE]
  /\ Go(t, "relock")
  /\ seen' = seen \cup {"timeout"}
  /\ UNCHANGED <<m, lock, wait_list, notified>>

Relock(t) ==
  /\ pc[t] = "relock" /\ m = NoThread
  /\ m' = t
  /\ Go(t, IF ret[t] THEN "in" ELSE "unlist")
  /\ UNCHANGED <<lock, wait_list, notified, ret, seen>>

\* Mutant: the whole list is cleared.
Unlist_clears(t) ==
  /\ pc[t] = "unlist" /\ lock = NoThread
  /\ wait_list' = <<>>
  /\ Go(t, "in")
  /\ UNCHANGED <<m, lock, notified, ret, seen>>

\* wait_list.remove(): every entry of the task goes.
Unlist(t) ==
  /\ pc[t] = "unlist" /\ lock = NoThread
  /\ wait_list' = Without(wait_list, t)
  /\ Go(t, "in")
  /\ UNCHANGED <<m, lock, notified, ret, seen>>

-----------------------------------------------------------------------------
(* PiCond::signal and broadcast, with m held or not.                        *)

\* Mutants: the last task is woken instead of the first; the first is popped
\* and not woken.
wake_one_locked_last ==
  /\ wait_list # <<>>
  /\ wait_list' = SubSeq(wait_list, 1, Len(wait_list) - 1)
  /\ notified' = [notified EXCEPT ![wait_list[Len(wait_list)]] = TRUE]

wake_one_locked_no_give ==
  /\ wait_list # <<>>
  /\ wait_list' = Tail(wait_list)
  /\ UNCHANGED notified

wake_one_locked ==
  /\ wait_list # <<>>
  /\ wait_list' = Tail(wait_list)
  /\ notified' = [notified EXCEPT ![Head(wait_list)] = TRUE]

signal(t) ==
  /\ Running(t) /\ lock = NoThread
  /\ \/ wake_one_locked
     \/ wait_list = <<>> /\ UNCHANGED <<wait_list, notified>>
  /\ UNCHANGED <<m, lock, pc, ret, seen>>

BroadcastLock(t) ==
  /\ Running(t) /\ lock = NoThread
  /\ lock' = t
  /\ Go(t, "broadcast")
  /\ UNCHANGED <<m, wait_list, notified, ret, seen>>

BroadcastOne(t) ==
  /\ lock = t
  /\ wake_one_locked
  /\ UNCHANGED <<m, lock, pc, ret, seen>>

\* Mutant: the broadcast stops after one task.
BroadcastUnlock_early(t) ==
  /\ lock = t
  /\ lock' = NoThread
  /\ Go(t, IF m = t THEN "in" ELSE "out")
  /\ UNCHANGED <<m, wait_list, notified, ret, seen>>

BroadcastUnlock(t) ==
  /\ lock = t /\ wait_list = <<>>
  /\ lock' = NoThread
  /\ Go(t, IF m = t THEN "in" ELSE "out")
  /\ UNCHANGED <<m, wait_list, notified, ret, seen>>

-----------------------------------------------------------------------------
(* PiThread::pause and resume.                                              *)

Pause(t) ==
  /\ t \in Resumed
  /\ pc[t] = "out"
  /\ Go(t, "paused")
  /\ UNCHANGED <<m, lock, wait_list, notified, ret, seen>>

PauseReturns(t) ==
  /\ pc[t] = "paused" /\ notified[t]
  /\ notified' = [notified EXCEPT ![t] = FALSE]
  /\ Go(t, "out")
  /\ UNCHANGED <<m, lock, wait_list, ret, seen>>

\* resume() and resume_from_isr(), whatever the task is doing.
Resume(t) ==
  /\ t \in Resumed
  /\ notified' = [notified EXCEPT ![t] = TRUE]
  /\ seen' = seen \cup {"resume"}
  /\ UNCHANGED <<m, lock, wait_list, pc, ret>>

-----------------------------------------------------------------------------
WaitStep(t) ==
  \/ WaitRelease(t) \/ Take(t) \/ Timeout(t) \/ Relock(t) \/ Unlist(t)
BroadcastStep(t) == BroadcastOne(t) \/ BroadcastUnlock(t)

Next ==
  \E t \in Thread :
    \/ Lock(t) \/ Unlock(t)
    \/ WaitPush(t) \/ WaitStep(t)
    \/ signal(t) \/ BroadcastLock(t) \/ BroadcastStep(t)
    \/ Pause(t) \/ PauseReturns(t) \/ Resume(t)

Spec == Init /\ [][Next]_vars

\* Fairness: every task is scheduled; a mutex queues its takers by priority,
\* so a task that keeps asking for one gets it, and an owner lets it go.
FairSpec ==
  /\ Spec
  /\ \A t \in Thread :
       /\ SF_vars(Unlock(t)) /\ WF_vars(BroadcastStep(t))
       /\ WF_vars(WaitRelease(t)) /\ WF_vars(Take(t) \/ Timeout(t))
       /\ SF_vars(Relock(t)) /\ SF_vars(Unlist(t))

-----------------------------------------------------------------------------
(* Properties.                                                              *)

Waiting(t) == pc[t] \in {"queued", "taking"}
Listed(t) == \E i \in 1..Len(wait_list) : wait_list[i] = t

\* The tasks that only a signal or a broadcast (or a timeout) can wake.
Asleep == {t \in Thread : Waiting(t) /\ ~notified[t]}

\* No waiter is forgotten, however timeouts, leftover notifications and
\* resume() mix: a task asleep in wait_until is on the list a signal pops.
SleepersAreListed == \A t \in Asleep : Listed(t)

\* Action property: when a broadcast lets go of its lock nobody is asleep,
\* though tasks keep entering and leaving wait_until while it runs.
BroadcastWakesAll ==
  [][\A t \in Thread : lock = t /\ lock' = NoThread => Asleep = {}]_vars

\* Action property, as long as no wait has timed out and nobody was resume()d:
\* a signal that finds a task asleep wakes one (it is not spent on anybody else).
SignalNotLost ==
  [][\A t \in Thread :
       seen = {} /\ signal(t) /\ Asleep # {}
         => \E u \in Asleep : Asleep' = Asleep \ {u}]_vars

\* Until then the list holds exactly the sleepers, each once.
ListIsExact ==
  /\ \A t \in Thread : Listed(t) => t \in Asleep
  /\ \A i, j \in 1..Len(wait_list) : wait_list[i] = wait_list[j] => i = j

\* Liveness, under the same conditions: whoever waits is woken if signals keep
\* coming, whatever the others do (the list is first in, first out).
SignalsReachEveryone ==
  [](seen = {}) /\ []<><<\E u \in Thread : signal(u)>>_vars
    => \A t \in Thread : (t \in Asleep) ~> (t \notin Asleep)

=============================================================================
