-------------------------- MODULE PicoThreadsProofs --------------------------
(***************************************************************************)
(* Proofs about PicoThreads, for any number of tasks: no waiter is         *)
(* forgotten, and no signal is spent on nobody until a wait times out or   *)
(* somebody is resume()d.                                                  *)
(*                                                                         *)
(* The condition variable works because wait_list and the notifications    *)
(* divide the waiting tasks between them: a waiting task is on the list    *)
(* until a signal pops it, and notified from then on.  Once resume() has   *)
(* been used, or an entry is left over from a timeout, a task may be both  *)
(* (Sleepers); until then it is exactly one of the two (Exact).            *)
(***************************************************************************)
EXTENDS PicoThreads, SequenceLemmas, FiniteSetTheorems, TLAPS

-----------------------------------------------------------------------------
(* The types, and who is on the list.                                       *)

Sleepers == TypeOK /\ SleepersAreListed

\* Every step of the code keeps the types.
LEMMA Typing ==
  ASSUME TypeOK, [Next]_vars
  PROVE  TypeOK'
<1> USE DEF TypeOK, Places, Go
<1>1. CASE UNCHANGED vars
  BY <1>1 DEF vars
<1>2. ASSUME NEW t \in Thread,
             \/ Lock(t) \/ Unlock(t) \/ WaitRelease(t) \/ Take(t)
             \/ Timeout(t) \/ Relock(t) \/ Pause(t) \/ PauseReturns(t) \/ Resume(t)
      PROVE  TypeOK'
  BY <1>2 DEF Lock, Unlock, WaitRelease, Take, Timeout, Relock, Pause, PauseReturns,
              Resume
<1>3. ASSUME NEW t \in Thread, WaitPush(t)
      PROVE  TypeOK'
  BY <1>3 DEF WaitPush
<1>4. ASSUME NEW t \in Thread, signal(t) \/ BroadcastOne(t)
      PROVE  TypeOK'
  <2>1. UNCHANGED <<m, lock, pc, ret, seen>>
    BY <1>4 DEF signal, BroadcastOne
  <2>2. wait_list' \in Seq(Thread) /\ notified' \in [Thread -> BOOLEAN]
    <3>1. CASE wake_one_locked
      <4>1. wait_list # <<>> /\ wait_list \in Seq(Thread)
        BY <3>1 DEF wake_one_locked
      <4>2. Tail(wait_list) \in Seq(Thread)
        BY <4>1
      <4>3. QED
        BY <3>1, <4>2 DEF wake_one_locked
    <3>2. CASE UNCHANGED <<wait_list, notified>>
      BY <3>2
    <3>3. QED
      BY <1>4, <3>1, <3>2 DEF signal, BroadcastOne
  <2>3. QED
    BY <2>1, <2>2
<1>5. ASSUME NEW t \in Thread, BroadcastLock(t) \/ BroadcastUnlock(t)
      PROVE  TypeOK'
  BY <1>5, NoThreadAssumption DEF BroadcastLock, BroadcastUnlock
<1>6. ASSUME NEW t \in Thread, Unlist(t)
      PROVE  TypeOK'
  <2>1. Without(wait_list, t) \in Seq(Thread)
    BY WithoutKeeps
  <2>2. QED
    BY <1>6, <2>1 DEF Unlist
<1>7. QED
  BY <1>1, <1>2, <1>3, <1>4, <1>5, <1>6 DEF Next, WaitStep, BroadcastStep

\* Popping the front of wait_list and notifying it keeps every sleeper listed.
LEMMA WakeKeepsSleepers ==
  ASSUME TypeOK, SleepersAreListed, wake_one_locked, UNCHANGED pc
  PROVE  SleepersAreListed'
<1> USE DEF TypeOK, wake_one_locked
<1>1. SUFFICES ASSUME NEW t \in Thread, Waiting(t), ~notified'[t]
               PROVE  \E i \in 1..Len(wait_list') : wait_list'[i] = t
  BY DEF SleepersAreListed, Asleep, Listed, Waiting
<1>2. ~notified[t] /\ t # Head(wait_list)
  BY <1>1
<1>3. PICK i \in 1..Len(wait_list) : wait_list[i] = t
  BY <1>1, <1>2 DEF SleepersAreListed, Asleep, Listed
<1>4. i # 1
  BY <1>2, <1>3
<1>5. i - 1 \in 1..Len(Tail(wait_list)) /\ Tail(wait_list)[i - 1] = t
  BY <1>3, <1>4
<1>6. QED
  BY <1>5

\* One step of the code keeps every sleeper listed.
LEMMA SleepersStep ==
  ASSUME Sleepers, [Next]_vars
  PROVE  Sleepers'
<1> USE DEF Sleepers
<1>1. TypeOK'
  BY Typing
<1>2. CASE UNCHANGED vars
  BY <1>1, <1>2 DEF vars, SleepersAreListed, Asleep, Listed, Waiting
<1>3. ASSUME NEW t \in Thread, WaitPush(t)
      PROVE  SleepersAreListed'
  <2>1. wait_list' = Append(wait_list, t) /\ wait_list \in Seq(Thread)
    BY <1>3 DEF WaitPush, TypeOK
  <2>2. Len(wait_list') = Len(wait_list) + 1 /\ wait_list'[Len(wait_list) + 1] = t
        /\ \A i \in 1..Len(wait_list) : wait_list'[i] = wait_list[i]
    BY <2>1
  <2>3. SUFFICES ASSUME NEW u \in Thread, Waiting(u)', ~notified'[u]
                 PROVE  \E i \in 1..Len(wait_list') : wait_list'[i] = u
    BY DEF SleepersAreListed, Asleep, Listed
  <2>4. CASE u = t
    BY <2>1, <2>2, <2>4
  <2>5. CASE u # t
    <3>1. u \in Asleep
      BY <1>3, <2>3, <2>5 DEF WaitPush, Go, Asleep, Waiting, TypeOK
    <3>2. PICK i \in 1..Len(wait_list) : wait_list[i] = u
      BY <3>1 DEF SleepersAreListed, Listed
    <3>3. QED
      BY <2>1, <2>2, <3>2
  <2>6. QED
    BY <2>4, <2>5
<1>4. ASSUME NEW t \in Thread, signal(t) \/ BroadcastOne(t)
      PROVE  SleepersAreListed'
  <2>1. CASE wake_one_locked
    BY <1>4, <2>1, WakeKeepsSleepers DEF signal, BroadcastOne
  <2>2. CASE UNCHANGED <<wait_list, notified, pc>>
    BY <2>2 DEF SleepersAreListed, Asleep, Listed, Waiting
  <2>3. QED
    BY <1>4, <2>1, <2>2 DEF signal, BroadcastOne
<1>5. ASSUME NEW t \in Thread,
             \/ Lock(t) \/ Unlock(t) \/ WaitRelease(t) \/ Take(t) \/ Timeout(t) \/ Relock(t)
             \/ BroadcastLock(t) \/ BroadcastUnlock(t)
             \/ Pause(t) \/ PauseReturns(t) \/ Resume(t)
      PROVE  SleepersAreListed'
  <2>1. Asleep' \subseteq Asleep
    BY <1>5 DEF TypeOK, Places, Go, Asleep, Waiting, Lock, Unlock, WaitRelease, Take, Timeout,
                Relock, BroadcastLock, BroadcastUnlock, Running, Pause, PauseReturns, Resume
  <2>2. UNCHANGED wait_list
    BY <1>5 DEF Lock, Unlock, WaitRelease, Take, Timeout, Relock, BroadcastLock, BroadcastUnlock,
                Pause, PauseReturns, Resume
  <2>3. QED
    BY <2>1, <2>2 DEF SleepersAreListed, Listed
<1>6. ASSUME NEW t \in Thread, Unlist(t)
      PROVE  SleepersAreListed'
  <2>1. SUFFICES ASSUME NEW u \in Thread, Waiting(u)', ~notified'[u]
                 PROVE  \E j \in 1..Len(wait_list') : wait_list'[j] = u
    BY DEF SleepersAreListed, Asleep, Listed
  <2>2. u \in Asleep /\ u # t
    BY <1>6, <2>1 DEF Unlist, Go, Asleep, Waiting, TypeOK
  <2>3. PICK i \in 1..Len(wait_list) : wait_list[i] = u
    BY <2>2 DEF SleepersAreListed, Listed
  <2>4. wait_list' = Without(wait_list, t) /\ wait_list \in Seq(Thread)
    BY <1>6 DEF Unlist, TypeOK
  <2>5. QED
    BY <2>2, <2>3, <2>4, WithoutKeeps
<1>7. QED
  BY <1>1, <1>2, <1>3, <1>4, <1>5, <1>6 DEF Next, WaitStep, BroadcastStep

\* Nobody is asleep at first.
LEMMA SleepersInit == Init => Sleepers
BY NoThreadAssumption DEF Init, Sleepers, TypeOK, Places, SleepersAreListed, Asleep, Waiting

\* Every variable keeps its type, whatever times out and whoever is resume()d.
THEOREM TypeOKThm == Spec => []TypeOK
<1>1. Sleepers => TypeOK
  BY DEF Sleepers
<1>2. Sleepers /\ [Next]_vars => Sleepers'
  BY SleepersStep
<1>3. QED
  BY <1>1, <1>2, SleepersInit, PTL DEF Spec

\* No task asleep in wait_until is missing from the list that signal() and
\* broadcast() pop, whatever times out and whoever is resume()d meanwhile.
THEOREM SleepersAreListedThm == Spec => []SleepersAreListed
<1>1. Sleepers => SleepersAreListed
  BY DEF Sleepers
<1>2. Sleepers /\ [Next]_vars => Sleepers'
  BY SleepersStep
<1>3. QED
  BY <1>1, <1>2, SleepersInit, PTL DEF Spec

\* A broadcast that lets go of its lock leaves nobody asleep, although tasks keep
\* coming and timing out while it runs.
THEOREM BroadcastWakesAllThm == Spec => BroadcastWakesAll
<1> DEFINE Woken == \A t \in Thread : lock = t /\ lock' = NoThread => Asleep = {}
<1>1. Sleepers /\ [Next]_vars => Sleepers'
  BY SleepersStep
<1>2. Sleepers /\ [Next]_vars => [Woken]_vars
  <2>1. SUFFICES ASSUME Sleepers, Next, NEW t \in Thread, lock = t, lock' = NoThread
                 PROVE  Asleep = {}
    BY DEF vars
  <2>2. PICK u \in Thread : BroadcastUnlock(u)
    BY <2>1, NoThreadAssumption
       DEF Next, WaitStep, BroadcastStep, Lock, Unlock, WaitPush, WaitRelease, Take, Timeout,
           Relock, Unlist, signal, BroadcastLock, BroadcastOne, Pause, PauseReturns, Resume
  <2>3. wait_list = <<>>
    BY <2>2 DEF BroadcastUnlock
  <2>4. QED
    BY <2>1, <2>3 DEF Sleepers, SleepersAreListed, Listed, Asleep
<1>3. QED
  BY <1>1, <1>2, SleepersInit, PTL DEF Spec, BroadcastWakesAll

-----------------------------------------------------------------------------
(* Until a timeout and a resume() the list is exactly the sleepers.         *)

\* Without timeouts nobody takes the path that removes itself from the list;
\* only a broadcast keeps the condition's own lock.
NoTimeout ==
  \A t \in Thread :
    /\ pc[t] # "unlist"
    /\ pc[t] = "relock" => ret[t]
    /\ lock = t => pc[t] = "broadcast"

NotifiedWait == \A t \in Thread : notified[t] => Waiting(t)

Exact == Sleepers /\ NoTimeout /\ ListIsExact /\ NotifiedWait

\* What has been seen stays seen.
LEMMA SeenGrows ==
  ASSUME [Next]_vars
  PROVE  seen \subseteq seen'
BY DEF Next, WaitStep, BroadcastStep, vars, Lock, Unlock, WaitPush, WaitRelease, Take, Timeout,
       Relock, Unlist, signal, BroadcastLock, BroadcastOne, BroadcastUnlock, Pause,
       PauseReturns, Resume

\* Popping the front of an exact list wakes exactly the first sleeper.
LEMMA WakeOne ==
  ASSUME Exact, wake_one_locked, UNCHANGED pc
  PROVE  /\ ListIsExact' /\ NotifiedWait'
         /\ \E u \in Asleep : Asleep' = Asleep \ {u}
<1> USE DEF Exact, Sleepers, TypeOK
<1> DEFINE u == Head(wait_list)
<1>1. wait_list # <<>> /\ wait_list \in Seq(Thread) /\ wait_list' = Tail(wait_list)
  BY DEF wake_one_locked
<1>2. u = wait_list[1] /\ u \in Thread /\ Len(wait_list) \in Nat /\ Len(wait_list) > 0
      /\ Len(wait_list') = Len(wait_list) - 1
      /\ \A i \in 1..Len(wait_list') : wait_list'[i] = wait_list[i + 1]
  BY <1>1
<1>3. u \in Asleep
  BY <1>2 DEF ListIsExact, Listed
<1>4. notified' = [notified EXCEPT ![u] = TRUE]
  BY DEF wake_one_locked
<1>5. Asleep' = Asleep \ {u}
  BY <1>2, <1>4 DEF Asleep, Waiting
<1>6. NotifiedWait'
  BY <1>2, <1>3, <1>4 DEF NotifiedWait, Asleep, Waiting
<1>7. ASSUME NEW i \in 1..Len(wait_list'), NEW j \in 1..Len(wait_list'),
             wait_list'[i] = wait_list'[j]
      PROVE  i = j
  BY <1>2, <1>7 DEF ListIsExact
<1>8. ASSUME NEW t \in Thread, NEW i \in 1..Len(wait_list'), wait_list'[i] = t
      PROVE  t \in Asleep'
  <2>1. i + 1 \in 1..Len(wait_list) /\ wait_list[i + 1] = t
    BY <1>2, <1>8
  <2>2. t \in Asleep /\ t # u
    BY <1>2, <2>1 DEF ListIsExact, Listed
  <2>3. QED
    BY <1>5, <2>2
<1>9. ListIsExact'
  BY <1>7, <1>8 DEF ListIsExact, Listed
<1>10. QED
  BY <1>3, <1>5, <1>6, <1>9

\* Until a timeout nobody goes to the removal of its entry.
LEMMA NoTimeoutStep ==
  ASSUME TypeOK, NoTimeout, [Next]_vars, "timeout" \notin seen'
  PROVE  NoTimeout'
<1> USE DEF TypeOK, NoTimeout, Places, Go
<1>1. CASE UNCHANGED vars
  BY <1>1 DEF vars
<1>2. ASSUME NEW t \in Thread,
             \/ Lock(t) \/ Unlock(t) \/ WaitPush(t) \/ WaitRelease(t) \/ Take(t)
             \/ Relock(t) \/ Pause(t) \/ PauseReturns(t) \/ Resume(t)
      PROVE  NoTimeout'
  BY <1>2 DEF Lock, Unlock, WaitPush, WaitRelease, Take, Relock, Pause, PauseReturns, Resume
<1>3. ASSUME NEW t \in Thread, signal(t) \/ BroadcastOne(t)
      PROVE  NoTimeout'
  BY <1>3 DEF signal, BroadcastOne
<1>4. ASSUME NEW t \in Thread, BroadcastLock(t) \/ BroadcastUnlock(t)
      PROVE  NoTimeout'
  BY <1>4, NoThreadAssumption DEF BroadcastLock, BroadcastUnlock
<1>5. ASSUME NEW t \in Thread, Timeout(t) \/ Unlist(t)
      PROVE  FALSE
  BY <1>5 DEF Timeout, Unlist
<1>6. QED
  BY <1>1, <1>2, <1>3, <1>4, <1>5 DEF Next, WaitStep, BroadcastStep

\* One step of the code keeps the list exact.
LEMMA ExactStep ==
  ASSUME Exact, [Next]_vars, seen' = {}
  PROVE  Exact'
<1> USE DEF Exact, Sleepers
<1>1. Sleepers' /\ NoTimeout'
  BY SleepersStep, NoTimeoutStep
<1>2. CASE UNCHANGED vars
  BY <1>1, <1>2 DEF vars, ListIsExact, NotifiedWait, Asleep, Listed, Waiting
<1>3. ASSUME NEW t \in Thread, WaitPush(t)
      PROVE  ListIsExact' /\ NotifiedWait'
  <2>1. wait_list' = Append(wait_list, t) /\ wait_list \in Seq(Thread)
        /\ Len(wait_list') = Len(wait_list) + 1 /\ Len(wait_list) \in Nat
        /\ wait_list'[Len(wait_list) + 1] = t
        /\ \A i \in 1..Len(wait_list) : wait_list'[i] = wait_list[i]
    BY <1>3 DEF WaitPush, TypeOK
  <2>2. ~Listed(t) /\ ~notified[t]
    BY <1>3 DEF WaitPush, ListIsExact, Asleep, Waiting, NotifiedWait
  <2>3. Asleep' = Asleep \cup {t} /\ NotifiedWait'
    BY <1>3, <2>2 DEF WaitPush, Go, Asleep, Waiting, NotifiedWait, TypeOK
  <2>4. ASSUME NEW u \in Thread, NEW i \in 1..Len(wait_list'), wait_list'[i] = u
        PROVE  u \in Asleep'
    <3>1. CASE i = Len(wait_list) + 1
      BY <2>1, <2>3, <2>4, <3>1
    <3>2. CASE i \in 1..Len(wait_list)
      BY <2>1, <2>3, <2>4, <3>2 DEF ListIsExact, Listed
    <3>3. QED
      BY <2>1, <3>1, <3>2
  <2>5. ASSUME NEW i \in 1..Len(wait_list'), NEW j \in 1..Len(wait_list'),
               wait_list'[i] = wait_list'[j]
        PROVE  i = j
    BY <2>1, <2>2, <2>5 DEF ListIsExact, Listed
  <2>6. QED
    BY <2>3, <2>4, <2>5 DEF ListIsExact, Listed
<1>4. ASSUME NEW t \in Thread, signal(t) \/ BroadcastOne(t)
      PROVE  ListIsExact' /\ NotifiedWait'
  <2>1. CASE wake_one_locked
    BY <1>4, <2>1, WakeOne DEF signal, BroadcastOne
  <2>2. CASE UNCHANGED <<wait_list, notified, pc>>
    BY <2>2 DEF ListIsExact, NotifiedWait, Asleep, Listed, Waiting
  <2>3. QED
    BY <1>4, <2>1, <2>2 DEF signal, BroadcastOne
<1>5. ASSUME NEW t \in Thread, Take(t)
      PROVE  ListIsExact' /\ NotifiedWait'
  <2>1. Asleep' = Asleep /\ NotifiedWait'
    BY <1>5 DEF Take, Go, Asleep, Waiting, NotifiedWait, TypeOK, Places
  <2>2. QED
    BY <1>5, <2>1 DEF Take, ListIsExact, Listed
<1>6. ASSUME NEW t \in Thread,
             \/ Lock(t) \/ Unlock(t) \/ WaitRelease(t) \/ Relock(t)
             \/ BroadcastLock(t) \/ BroadcastUnlock(t) \/ Pause(t)
      PROVE  ListIsExact' /\ NotifiedWait'
  <2>1. UNCHANGED <<wait_list, notified>>
    BY <1>6 DEF Lock, Unlock, WaitRelease, Relock, BroadcastLock, BroadcastUnlock, Pause
  <2>2. \A u \in Thread : Waiting(u)' <=> Waiting(u)
    BY <1>1, <1>6 DEF Lock, Unlock, WaitRelease, Relock, BroadcastLock, BroadcastUnlock,
                      Pause, Running, Go, Waiting, TypeOK, Places, NoTimeout
  <2>3. Asleep' = Asleep
    BY <2>1, <2>2 DEF Asleep
  <2>4. QED
    BY <2>1, <2>2, <2>3 DEF ListIsExact, NotifiedWait, Listed
<1>7. ASSUME NEW t \in Thread,
             Timeout(t) \/ Unlist(t) \/ PauseReturns(t) \/ Resume(t)
      PROVE  FALSE
  BY <1>7 DEF Timeout, Unlist, PauseReturns, Resume, NoTimeout, NotifiedWait, Waiting
<1>8. QED
  BY <1>1, <1>2, <1>3, <1>4, <1>5, <1>6, <1>7 DEF Next, WaitStep, BroadcastStep

\* As long as wait() and signal() are all that happened, wait_list is exactly
\* the tasks asleep, each once.
THEOREM ListIsExactThm == Spec => [](seen = {} => ListIsExact)
<1> DEFINE Inv == seen = {} => Exact
<1>1. Init => Inv
  BY NoThreadAssumption DEF Init, Exact, Sleepers, TypeOK, Places, NoTimeout, SleepersAreListed,
                            ListIsExact, NotifiedWait, Asleep, Listed, Waiting
<1>2. Inv /\ [Next]_vars => Inv'
  BY ExactStep, SeenGrows
<1>3. Inv => (seen = {} => ListIsExact)
  BY DEF Exact
<1>4. QED
  BY <1>1, <1>2, <1>3, PTL DEF Spec

\* Until then no signal is lost: while a task sleeps, a signal wakes exactly
\* one sleeper.
THEOREM SignalNotLostThm == Spec => SignalNotLost
<1> DEFINE Inv == seen = {} => Exact
           Wakes == \A t \in Thread :
                      seen = {} /\ signal(t) /\ Asleep # {}
                        => \E u \in Asleep : Asleep' = Asleep \ {u}
<1>1. Init => Inv
  BY NoThreadAssumption DEF Init, Exact, Sleepers, TypeOK, Places, NoTimeout, SleepersAreListed,
                            ListIsExact, NotifiedWait, Asleep, Listed, Waiting
<1>2. Inv /\ [Next]_vars => Inv'
  BY ExactStep, SeenGrows
<1>3. Inv => [Wakes]_vars
  <2>1. SUFFICES ASSUME Exact, NEW t \in Thread, signal(t), Asleep # {}
                 PROVE  \E u \in Asleep : Asleep' = Asleep \ {u}
    OBVIOUS
  <2>2. wait_list # <<>>
    BY <2>1 DEF Exact, Sleepers, SleepersAreListed, Listed
  <2>3. wake_one_locked /\ UNCHANGED pc
    BY <2>1, <2>2 DEF signal
  <2>4. QED
    BY <2>1, <2>3, WakeOne
<1>4. QED
  BY <1>1, <1>2, <1>3, PTL DEF Spec, SignalNotLost

=============================================================================
