---------------------------- MODULE WorkersProofs ----------------------------
(***************************************************************************)
(* Proofs about the objects with a thread, a timer or a lock of their own: *)
(* the five invariants of the run `workers', for any constants that meet   *)
(* NumbersAssumption, NamesAssumption and IdsAssumption of MCWorkers.      *)
(*                                                                         *)
(* The parts share nothing, so each has an inductive invariant of its own: *)
(* XInv, with XInit (it holds at first), XStep (every step of the part     *)
(* keeps it) and XHolds (what it gives of the properties).  IInv, at the   *)
(* end, is their conjunction; a step of MCWorkers is a step of one part    *)
(* and a stutter of the others (OneStepAtATime).                           *)
(***************************************************************************)
EXTENDS MCWorkers, SequenceLemmas, FiniteSetTheorems, TLAPS

-----------------------------------------------------------------------------
(* DeepSleeper                                                              *)

\* idle is no more than age, until age is at its bound; from there it can grow
\* until the next look at most, and so it can from 0 after a stale wake-up.
DormantInv ==
  /\ Z!TypeOK
  /\ idle <= age \/ age = sleep_after_ms
  /\ sleeper = "sleep" => idle + to_check <= sleep_after_ms + Z!check_ms
  /\ stale =>
       /\ age = sleep_after_ms
       /\ sleeper = "sleep" => idle + to_check <= Z!check_ms

\* Times are natural numbers.
LEMMA CheckMs == sleep_after_ms \in Nat /\ Z!check_ms \in Nat
<1>1. sleep_after_ms \in Nat
  BY NumbersAssumption
<1> QED
  BY <1>1 DEF Z!check_ms

\* Nothing has been waited for yet.
LEMMA DormantInit == Z!Init => DormantInv
<1> SUFFICES ASSUME Z!Init
             PROVE DormantInv
  OBVIOUS
<1>1. stale \in BOOLEAN /\ ~stale
  BY DEF Z!Init
<1> QED
  BY <1>1, CheckMs DEF Z!Init, DormantInv, Z!TypeOK

\* Every step of DeepSleeper keeps its invariant.
LEMMA DormantStep == DormantInv /\ [Z!Next]_dormant => DormantInv'
<1> SUFFICES ASSUME DormantInv, [Z!Next]_dormant
             PROVE DormantInv'
  OBVIOUS
<1> USE CheckMs DEF DormantInv, Z!TypeOK
<1>1. CASE Z!Tick
  BY <1>1 DEF Z!Tick
<1>2. CASE Z!Check
  <2>1. stale' \in BOOLEAN /\ (stale' <=> stale)
    BY <1>2 DEF Z!Check
  <2> QED
    BY <1>2, <2>1 DEF Z!Check
<1>3. CASE Z!prod
  <2>1. stale' \in BOOLEAN /\ ~stale'
    BY <1>3 DEF Z!prod
  <2> QED
    BY <1>3, <2>1 DEF Z!prod
<1>4. CASE Z!pico_enter_deep_sleep_until
  BY <1>4 DEF Z!pico_enter_deep_sleep_until
<1>5. CASE Z!Wake
  <2>1. stale' \in BOOLEAN /\ (stale' <=> age >= sleep_after_ms)
    <3>1. stale' = (age >= sleep_after_ms)
      BY <1>5 DEF Z!Wake
    <3>2. CASE age >= sleep_after_ms
      BY <3>1, <3>2, Zenon
    <3>3. CASE ~(age >= sleep_after_ms)
      <4>1. (age >= sleep_after_ms) = FALSE
        BY <3>3, SMT
      <4> QED
        BY <3>1, <3>3, <4>1, Zenon
    <3> QED
      BY <3>2, <3>3, Zenon
  <2> QED
    BY <1>5, <2>1 DEF Z!Wake
<1>6. CASE UNCHANGED dormant
  BY <1>6 DEF dormant
<1> QED
  BY <1>1, <1>2, <1>3, <1>4, <1>5, <1>6 DEF Z!Next

\* So the Pico goes back to sleep in time.
LEMMA DormantHolds == DormantInv => Z!GoesBackToSleep
BY CheckMs DEF DormantInv, Z!TypeOK, Z!GoesBackToSleep

-----------------------------------------------------------------------------
(* CallEvery                                                                *)

\* A call is late only when the thread was already in it: once, in a timer that
\* is paused, and not while the next is due.
TimerInv ==
  /\ C!PiTypeOK
  /\ ce_late = 0 \/ (ce_late = 1 /\ state = "PAUSE" /\ ce_thread # "due")
  /\ C!FreedWhenUnused

\* A new timer calls nothing.
LEMMA TimerInit == C!PiInit => TimerInv
BY DEF C!PiInit, TimerInv, C!PiTypeOK, C!FreedWhenUnused

\* Every step of the Pi's timer keeps its invariant.
LEMMA TimerStep == TimerInv /\ [C!PiNext]_timer => TimerInv'
<1> SUFFICES ASSUME TimerInv, [C!PiNext]_timer
             PROVE TimerInv'
  OBVIOUS
<1> USE DEF TimerInv, C!PiTypeOK, C!FreedWhenUnused
<1>1. CASE C!Lock
  BY <1>1 DEF C!Lock
<1>2. CASE C!Check
  BY <1>2 DEF C!Check
<1>3. CASE C!CallFunc
  BY <1>3 DEF C!CallFunc
<1>4. CASE C!FuncReturns
  BY <1>4 DEF C!FuncReturns
<1>5. ASSUME NEW new \in {"RUN", "PAUSE", "STOP"}, C!set_state(new)
      PROVE TimerInv'
  BY <1>5 DEF C!set_state
<1>6. CASE C!SetState
  BY <1>6 DEF C!SetState, C!LockHeld
<1>7. CASE C!Join
  BY <1>7 DEF C!Join
<1>8. CASE UNCHANGED timer
  BY <1>8 DEF timer
<1> QED
  BY <1>1, <1>2, <1>3, <1>4, <1>5, <1>6, <1>7, <1>8
  DEF C!PiNext, C!call_every_start, C!call_every_stop, C!call_every_destroy

\* The invariant of the alarms is what they promise, with their types.
AlarmInv == C!PicoTypeOK /\ C!OnlyDoubleStartsLeak

\* No alarm is set at first.
LEMMA AlarmInit == C!PicoInit => AlarmInv
BY DEF C!PicoInit, AlarmInv, C!PicoTypeOK, C!OnlyDoubleStartsLeak

\* Every step of the Pico's alarms keeps their invariant.
LEMMA AlarmStep == AlarmInv /\ [C!PicoNext]_alarm => AlarmInv'
<1> SUFFICES ASSUME AlarmInv, [C!PicoNext]_alarm
             PROVE AlarmInv'
  OBVIOUS
<1> USE DEF AlarmInv, C!PicoTypeOK, C!OnlyDoubleStartsLeak
<1>1. CASE C!pico_call_every_start
  BY <1>1 DEF C!pico_call_every_start, C!Fresh
<1>2. CASE C!pico_call_every_stop
  BY <1>2 DEF C!pico_call_every_stop, C!PicoCancel
<1>3. CASE C!pico_call_every_destroy
  BY <1>3 DEF C!pico_call_every_destroy, C!PicoCancel
<1>4. ASSUME NEW a \in Alarm, C!PicoFire(a) \/ C!PicoFuncReturns(a)
      PROVE AlarmInv'
  BY <1>4 DEF C!PicoFire, C!PicoFuncReturns
<1>5. CASE UNCHANGED alarm
  BY <1>5 DEF alarm
<1> QED
  BY <1>1, <1>2, <1>3, <1>4, <1>5 DEF C!PicoNext

-----------------------------------------------------------------------------
(* PiThreads                                                                *)

\* Where a thread counts as active.
Unfinished == {"created", "main_fn", "deleting"}

\* The list holds the threads that have not ended, and is empty when main() exits.
ThreadsInv ==
  /\ P!TypeOK
  /\ \A w \in Wrapper : wrapper[w] \in Unfinished <=> w \in active_threads
  /\ main_thread = "exited" => active_threads = {}

\* No thread has been created.
LEMMA ThreadsInit == P!Init => ThreadsInv
BY DEF P!Init, ThreadsInv, P!TypeOK, Unfinished

\* Every step of pause, resume and the list of threads keeps the list exact.
LEMMA ThreadsStep == ThreadsInv /\ [P!Next]_threads => ThreadsInv'
<1> SUFFICES ASSUME ThreadsInv, [P!Next]_threads
             PROVE ThreadsInv'
  OBVIOUS
<1> USE DEF ThreadsInv, P!TypeOK, Unfinished
<1>1. CASE \/ P!PauseBegin \/ P!PauseTest \/ P!PauseWait \/ P!PauseReturns
           \/ \E r \in Resumer : P!ResumeSets(r) \/ P!ResumeSignals(r)
  <2>1. UNCHANGED <<active_threads, wrapper, main_thread, at_lock>>
    BY <1>1 DEF P!PauseBegin, P!PauseTest, P!PauseWait, P!PauseReturns, P!ResumeSets,
                P!ResumeSignals, P!listing
  <2>2. /\ resumed' \in BOOLEAN /\ missed' \in BOOLEAN
        /\ pauser' \in {"out", "test", "to_wait", "waiting", "clear"}
        /\ resumer' \in [Resumer -> {"out", "signal"}]
    BY <1>1 DEF P!PauseBegin, P!PauseTest, P!PauseWait, P!PauseReturns, P!ResumeSets,
                P!ResumeSignals
  <2> QED
    BY <2>1, <2>2
<1>2. ASSUME NEW w \in Wrapper, P!ThreadCreate(w)
      PROVE ThreadsInv'
  BY <1>2 DEF P!ThreadCreate, P!pausing
<1>3. ASSUME NEW w \in Wrapper, P!MainFnReturns(w)
      PROVE ThreadsInv'
  BY <1>3 DEF P!MainFnReturns, P!pausing
<1>4. ASSUME NEW w \in Wrapper, P!Remove(w)
      PROVE ThreadsInv'
  BY <1>4 DEF P!Remove, P!pausing
<1>5. ASSUME NEW w \in Wrapper, P!Removed(w)
      PROVE ThreadsInv'
  BY <1>5 DEF P!Removed, P!pausing
<1>6. CASE P!MainReturns
  BY <1>6 DEF P!MainReturns, P!pausing
<1>7. CASE UNCHANGED threads
  BY <1>7 DEF threads
<1> QED
  BY <1>1, <1>2, <1>3, <1>4, <1>5, <1>6, <1>7 DEF P!Next

\* Once past its test, the thread misses a signal or has one still to come.
PauseInv ==
  /\ P!TypeOK
  /\ (/\ pauser \in {"to_wait", "waiting"} /\ resumed
      /\ \A r \in Resumer : resumer[r] = "out") => missed

\* Nobody has been resumed.
LEMMA PauseInit == P!Init => PauseInv
BY DEF P!Init, PauseInv, P!TypeOK

\* Every step of pause and resume keeps it.
LEMMA PauseStep == PauseInv /\ ThreadsInv' /\ [P!Next]_threads => PauseInv'
<1> SUFFICES ASSUME PauseInv, ThreadsInv', [P!Next]_threads
             PROVE PauseInv'
  OBVIOUS
<1>t. P!TypeOK'
  BY DEF ThreadsInv
<1> USE <1>t DEF PauseInv
<1>1. CASE P!PauseBegin
  BY <1>1 DEF P!PauseBegin
<1>2. CASE P!PauseTest
  BY <1>2 DEF P!PauseTest, P!TypeOK
<1>3. CASE P!PauseWait
  BY <1>3 DEF P!PauseWait
<1>4. CASE P!PauseReturns
  BY <1>4 DEF P!PauseReturns
<1>5. ASSUME NEW r \in Resumer, P!ResumeSets(r)
      PROVE PauseInv'
  <2>1. resumer'[r] = "signal"
    BY <1>5 DEF P!ResumeSets, P!TypeOK
  <2> QED
    BY <2>1
<1>6. ASSUME NEW r \in Resumer, P!ResumeSignals(r)
      PROVE PauseInv'
  <2>1. CASE pauser = "to_wait"
    <3>1. missed' = (pauser = "to_wait")
      BY <1>6 DEF P!ResumeSignals
    <3>2. missed'
      BY <2>1, <3>1, Zenon
    <3> QED
      BY <3>2
  <2>2. CASE pauser # "to_wait"
    <3>1. pauser' \notin {"to_wait", "waiting"}
      BY <1>6, <2>2 DEF P!ResumeSignals
    <3> QED
      BY <3>1
  <2> QED
    BY <2>1, <2>2
<1>7. CASE UNCHANGED P!pausing
  BY <1>7 DEF P!pausing
<1>8. CASE \/ \E w \in Wrapper : P!ThreadCreate(w) \/ P!MainFnReturns(w) \/ P!Remove(w) \/ P!Removed(w)
           \/ P!MainReturns
  BY <1>7, <1>8 DEF P!ThreadCreate, P!MainFnReturns, P!Remove, P!Removed, P!MainReturns
<1>9. CASE UNCHANGED threads
  BY <1>7, <1>9 DEF threads, P!pausing
<1> QED
  BY <1>1, <1>2, <1>3, <1>4, <1>5, <1>6, <1>8, <1>9 DEF P!Next

\* So a thread sleeps through a resume() only if it missed its signal.
LEMMA PauseHolds == PauseInv => P!SleepsOnlyIfMissed
BY DEF PauseInv, P!SleepsOnlyIfMissed

-----------------------------------------------------------------------------
(* Stop                                                                     *)

\* Who looks at the flags has the lock, so that nobody is let go before the end.
StopInv ==
  /\ O!TypeOK
  /\ stopped => stop_worker # "working"
  /\ O!BackOnlyWhenStopped
  /\ \A u \in StopUser : stop_user[u] = "check" => stop_lock = u

\* Nobody has asked for a stop.
LEMMA StopInit == O!Init => StopInv
BY DEF O!Init, StopInv, O!TypeOK, O!BackOnlyWhenStopped

\* Every step of the handshake keeps it.
LEMMA StopStep == StopInv /\ [O!Next]_stop => StopInv'
<1> SUFFICES ASSUME StopInv, [O!Next]_stop
             PROVE StopInv'
  OBVIOUS
<1>a. "free" \notin StopUser
  BY NamesAssumption
<1> USE DEF StopInv, O!TypeOK, O!BackOnlyWhenStopped, O!Goto
<1>1. ASSUME NEW u \in StopUser, O!StopBegin(u)
      PROVE StopInv'
  BY <1>1 DEF O!StopBegin
<1>2. ASSUME NEW u \in StopUser, O!stop_request_stop(u)
      PROVE StopInv'
  BY <1>2 DEF O!stop_request_stop
<1>3. ASSUME NEW u \in StopUser, O!AwaitLock(u)
      PROVE StopInv'
  BY <1>a, <1>3 DEF O!AwaitLock
<1>4. ASSUME NEW u \in StopUser, O!AwaitCheck(u)
      PROVE StopInv'
  <2>1. CASE stopped
    <3>1. \A d \in StopUser : d # u => stop_user[d] \notin {"check", "stuck"}
      BY <1>4 DEF O!AwaitCheck
    <3> QED
      BY <1>4, <2>1, <3>1 DEF O!AwaitCheck
  <2>2. CASE ~stopped
    BY <1>4, <2>2 DEF O!AwaitCheck
  <2> QED
    BY <2>1, <2>2
<1>5. CASE O!stop_reset
  BY <1>5 DEF O!stop_reset
<1>6. CASE O!stop_stopped
  BY <1>6 DEF O!stop_stopped
<1>7. CASE O!StoppedSignals
  BY <1>7 DEF O!StoppedSignals
<1>8. CASE UNCHANGED stop
  BY <1>8 DEF stop
<1> QED
  BY <1>1, <1>2, <1>3, <1>4, <1>5, <1>6, <1>7, <1>8 DEF O!Next

-----------------------------------------------------------------------------
(* TalkingSkull                                                             *)

\* A caller that is inside a call has the lock, and one list is played at a time.
SkullInv ==
  /\ ops \in K!Version \cup {0} /\ op_i \in Nat
  /\ skull_main \in {"start", "waiting", "woken", "playing"}
  /\ wait_lock \in SkullCaller \cup {"main", "free"} /\ playing \in K!Version \cup {0}
  /\ skull_caller \in [SkullCaller -> {"out", "play", "set_ops", "wait_done"}]
  /\ \A c \in SkullCaller : skull_caller[c] # "out" => wait_lock = c
  /\ K!PlayedUnderOneList

\* Nothing is played at first.
LEMMA SkullInit == K!Init => SkullInv
BY DEF K!Init, SkullInv, K!PlayedUnderOneList

\* A list has a length.
LEMMA SkullLength == ops \in K!Version \cup {0} => K!Length \in Nat
<1>1. n_ops \in Seq(Nat)
  BY NumbersAssumption
<1>2. \A x \in K!Version : n_ops[x] \in Nat
  BY <1>1 DEF K!Version
<1> QED
  BY <1>2 DEF K!Length

\* Every step of the skull and its callers keeps it.
LEMMA SkullStep == SkullInv /\ [K!Next]_skull => SkullInv'
<1> SUFFICES ASSUME SkullInv, [K!Next]_skull
             PROVE SkullInv'
  OBVIOUS
<1>a. "main" \notin SkullCaller /\ "free" \notin SkullCaller
  BY NamesAssumption
<1> USE DEF SkullInv, K!PlayedUnderOneList
<1>1. CASE K!MainStarts
  BY <1>1 DEF K!MainStarts
<1>2. CASE K!MainAwake
  <2>1. K!Length' \in Nat
    BY <1>2, SkullLength DEF K!MainAwake, K!Length
  <2> QED
    BY <1>a, <1>2, <2>1 DEF K!MainAwake
<1>3. CASE K!MainStep
  <2>1. K!Length \in Nat /\ K!Length' = K!Length
    BY <1>3, SkullLength DEF K!MainStep, K!Length
  <2> QED
    BY <1>3, <2>1 DEF K!MainStep
<1>4. CASE K!MainWaits
  BY <1>a, <1>4 DEF K!MainWaits
<1>5. ASSUME NEW c \in SkullCaller, NEW what \in {"play", "set_ops", "wait_done"}, K!Call(c, what)
      PROVE SkullInv'
  BY <1>a, <1>5 DEF K!Call
<1>6. ASSUME NEW c \in SkullCaller, K!play(c)
      PROVE SkullInv'
  BY <1>a, <1>6 DEF K!play, K!Return
<1>7. ASSUME NEW c \in SkullCaller, K!set_ops(c)
      PROVE SkullInv'
  BY <1>a, <1>7 DEF K!set_ops, K!Return
<1>8. ASSUME NEW c \in SkullCaller, K!wait_done(c)
      PROVE SkullInv'
  BY <1>a, <1>8 DEF K!wait_done, K!Return
<1>9. CASE UNCHANGED skull
  BY <1>9 DEF skull, K!Length
<1> QED
  BY <1>1, <1>2, <1>3, <1>4, <1>5, <1>6, <1>7, <1>8, <1>9 DEF K!Next

\* A play() that is owed is never back in a wait.
OwedInv == owed \in BOOLEAN /\ K!PlayIsFollowed

\* Nothing is owed at first.
LEMMA OwedInit == K!Init => OwedInv
BY DEF K!Init, OwedInv, K!PlayIsFollowed

\* Every step of the skull and its callers follows what is owed.
LEMMA OwedStep == OwedInv /\ [K!Next]_skull => OwedInv'
<1> SUFFICES ASSUME OwedInv, [K!Next]_skull
             PROVE OwedInv'
  OBVIOUS
<1> USE DEF OwedInv, K!PlayIsFollowed
<1>1. CASE K!MainStarts \/ K!MainAwake \/ K!MainStep
  BY <1>1 DEF K!MainStarts, K!MainAwake, K!MainStep
<1>2. CASE K!MainWaits
  BY <1>2 DEF K!MainWaits
<1>3. ASSUME NEW c \in SkullCaller, K!play(c)
      PROVE OwedInv'
  <2>1. /\ owed' = (owed \/ skull_main = "waiting")
        /\ skull_main' = IF skull_main = "waiting" THEN "woken" ELSE skull_main
    BY <1>3 DEF K!play
  <2>2. owed' \in BOOLEAN
    BY <2>1, Zenon
  <2>3. owed' => owed \/ skull_main = "waiting"
    BY <2>1, Zenon
  <2> QED
    BY <2>1, <2>2, <2>3
<1>4. CASE \E c \in SkullCaller :
             \/ \E what \in {"play", "set_ops", "wait_done"} : K!Call(c, what)
             \/ K!set_ops(c) \/ K!wait_done(c)
  BY <1>4 DEF K!Call, K!set_ops, K!wait_done
<1>5. CASE UNCHANGED skull
  BY <1>5 DEF skull
<1> QED
  BY <1>1, <1>2, <1>3, <1>4, <1>5 DEF K!Next

-----------------------------------------------------------------------------
(* Consoles                                                                 *)

\* Once the lock exists, who holds it is who writes, and the list and the rest of it
\* that a writer has still to visit are of consoles that are alive.
ConsoleInv ==
  /\ lock_made \in {"unborn", "null", "lock"}
  /\ active \in Seq(ConsoleThread) /\ alive \subseteq ConsoleThread
  /\ con \in [ConsoleThread -> {"out", "add", "remove", "write", "writing"}]
  /\ con_next \in [ConsoleThread -> Seq(ConsoleThread)]
  /\ lock_made = "unborn" => \A t \in ConsoleThread : con[t] = "out"
  /\ lock_made # "lock" => con_lock = "free"
  /\ lock_made = "unborn" => active = <<>>
  /\ \A t \in ConsoleThread :
       /\ con[t] \in {"add", "remove"} => t \in alive
       /\ lock_made = "lock" => (con[t] = "writing" <=> con_lock = t)
  /\ lock_made = "lock" =>
       /\ \A q \in 1..Len(active) : active[q] \in alive
       /\ \A t \in ConsoleThread : con[t] = "writing" =>
            \A q \in 1..Len(con_next[t]) : con_next[t][q] \in alive

\* There is no list and nobody uses it.
LEMMA ConsoleInit == N!Init => ConsoleInv
BY DEF N!Init, ConsoleInv

\* Every step of the consoles keeps it.
LEMMA ConsoleStep == ConsoleInv /\ [N!Next]_console => ConsoleInv'
<1> SUFFICES ASSUME ConsoleInv, [N!Next]_console
             PROVE ConsoleInv'
  OBVIOUS
<1>a. "free" \notin ConsoleThread
  BY NamesAssumption
<1> USE DEF ConsoleInv, N!Goto
<1>1. CASE N!core_lock_init
  BY <1>1 DEF N!core_lock_init
<1>2. ASSUME NEW t \in ConsoleThread, NEW what \in {"add", "remove", "write"}, N!Enter(t, what)
      PROVE ConsoleInv'
  BY <1>a, <1>2 DEF N!Enter
<1>3. ASSUME NEW t \in ConsoleThread, N!add(t)
      PROVE ConsoleInv'
  <2>1. /\ active' \in Seq(ConsoleThread) /\ Len(active') = Len(active) + 1
        /\ \A q \in 1..Len(active) : active'[q] = active[q]
        /\ active'[Len(active) + 1] = t
    BY <1>3, AppendProperties DEF N!add
  <2>2. lock_made = "lock" => \A q \in 1..Len(active') : active'[q] \in alive'
    BY <1>3, <2>1 DEF N!add
  <2> HIDE DEF ConsoleInv
  <2>3. UNCHANGED <<lock_made, con_lock, con_next, alive>> /\ con' = [con EXCEPT ![t] = "out"]
        /\ con[t] = "add"
    BY <1>3 DEF N!add
  <2> QED
    BY <1>a, <2>1, <2>2, <2>3 DEF ConsoleInv
<1>4. ASSUME NEW t \in ConsoleThread, N!remove(t)
      PROVE ConsoleInv'
  <2>1. /\ active' \in Seq(ConsoleThread)
        /\ \A j \in 1..Len(active') : active'[j] # t /\ \E q \in 1..Len(active) : active[q] = active'[j]
    <3>1. active' = Without(active, t)
      BY <1>4 DEF N!remove, N!Without, Without
    <3> QED
      BY <3>1, WithoutKeeps
  <2>2. lock_made = "lock" => \A q \in 1..Len(active') : active'[q] \in alive'
    BY <1>4, <2>1 DEF N!remove
  <2>3. /\ UNCHANGED <<lock_made, con_lock, con_next>>
        /\ con[t] = "remove" /\ con' = [con EXCEPT ![t] = "out"]
        /\ alive' = alive \ {t}
        /\ lock_made = "lock" => con_lock = "free"
    BY <1>4 DEF N!remove, N!CanTake
  <2>4. lock_made = "lock" => \A u \in ConsoleThread : con'[u] # "writing"
    <3>1. ASSUME NEW u \in ConsoleThread, lock_made = "lock" PROVE con[u] # "writing"
      BY <1>a, <2>3, <3>1
    <3>2. \A u \in ConsoleThread : con'[u] = IF u = t THEN "out" ELSE con[u]
      BY <2>3
    <3> QED
      BY <2>3, <3>1, <3>2
  <2>5. /\ con' \in [ConsoleThread -> {"out", "add", "remove", "write", "writing"}]
        /\ \A u \in ConsoleThread : con'[u] = IF u = t THEN "out" ELSE con[u]
    BY <2>3
  <2> QED
    BY <1>a, <2>1, <2>2, <2>3, <2>4, <2>5
<1>5. ASSUME NEW t \in ConsoleThread, N!WriteBegins(t)
      PROVE ConsoleInv'
  BY <1>a, <1>5 DEF N!WriteBegins, N!CanTake, N!Take
<1>6. ASSUME NEW t \in ConsoleThread, N!WriteOne(t)
      PROVE ConsoleInv'
  <2>1. con_next' = [con_next EXCEPT ![t] = Tail(con_next[t])] /\ con_next[t] # <<>>
        /\ UNCHANGED <<lock_made, con_lock, active, con, alive>>
    BY <1>6 DEF N!WriteOne
  <2>2. /\ Tail(con_next[t]) \in Seq(ConsoleThread)
        /\ \A q \in 1..Len(Tail(con_next[t])) :
             q + 1 \in 1..Len(con_next[t]) /\ Tail(con_next[t])[q] = con_next[t][q + 1]
    BY <2>1, HeadTailProperties
  <2> QED
    BY <2>1, <2>2
<1>7. ASSUME NEW t \in ConsoleThread, N!WriteReturns(t)
      PROVE ConsoleInv'
  BY <1>a, <1>7 DEF N!WriteReturns
<1>8. CASE UNCHANGED console
  BY <1>8 DEF console
<1> QED
  BY <1>1, <1>2, <1>3, <1>4, <1>5, <1>6, <1>7, <1>8 DEF N!Next

\* So a writer visits only consoles that are alive.
LEMMA ConsoleHolds == ConsoleInv => N!WritesToTheLiving
BY DEF ConsoleInv, N!WritesToTheLiving, N!ToSet

\* The list holds consoles that are alive, each once.
ListInv ==
  /\ has_fns \in BOOLEAN /\ con_lock \in ConsoleThread \cup {"free"}
  /\ Apart(active)
  /\ \A k \in 1..Len(active) : active[k] \in alive /\ con[active[k]] # "add"

\* The list is empty at first.
LEMMA ListInit == N!Init => ListInv
<1> SUFFICES ASSUME N!Init
             PROVE ListInv
  OBVIOUS
<1>1. has_fns \in BOOLEAN
  BY DEF N!Init
<1>2. active = <<>> /\ Len(active) = 0 /\ 1..0 = {} /\ con_lock = "free"
  BY DEF N!Init
<1> QED
  BY <1>1, <1>2 DEF ListInv, Apart

\* Every step of the consoles keeps the list without repetition.
LEMMA ListStep == ConsoleInv /\ ListInv /\ [N!Next]_console => ListInv'
<1> SUFFICES ASSUME ConsoleInv, ListInv, [N!Next]_console
             PROVE ListInv'
  OBVIOUS
<1>t. /\ active \in Seq(ConsoleThread) /\ Len(active) \in Nat
      /\ con \in [ConsoleThread -> {"out", "add", "remove", "write", "writing"}]
      /\ \A k \in 1..Len(active) : active[k] \in ConsoleThread
  BY DEF ConsoleInv
\* A step that leaves the list alone, and neither destroys a console nor begins to add one.
<1>k. ASSUME UNCHANGED active, has_fns' \in BOOLEAN, con_lock' \in ConsoleThread \cup {"free"},
             alive \subseteq alive',
             \A t \in alive \cap ConsoleThread : con'[t] = "add" => con[t] = "add"
      PROVE  ListInv'
  BY <1>t, <1>k DEF ListInv, Apart
<1> USE DEF N!Goto
<1>1. CASE N!core_lock_init
  <2>1. has_fns' \in BOOLEAN
    BY <1>1 DEF N!core_lock_init
  <2> QED
    BY <1>k, <1>1, <2>1 DEF N!core_lock_init, ListInv
<1>2. ASSUME NEW t \in ConsoleThread, NEW what \in {"add", "remove", "write"}, N!Enter(t, what)
      PROVE ListInv'
  <2>1. \A u \in alive \cap ConsoleThread : con'[u] = "add" => con[u] = "add"
    BY <1>t, <1>2 DEF N!Enter
  <2>2. UNCHANGED <<active, has_fns, con_lock>> /\ alive \subseteq alive'
    BY <1>2 DEF N!Enter
  <2> QED
    BY <1>k, <2>1, <2>2 DEF ListInv
<1>3. ASSUME NEW t \in ConsoleThread, N!add(t)
      PROVE ListInv'
  <2>1. /\ con[t] = "add" /\ con' = [con EXCEPT ![t] = "out"]
        /\ UNCHANGED <<has_fns, con_lock, alive>> /\ active' = Append(active, t)
    BY <1>3 DEF N!add
  <2>2. t \in alive
    BY <2>1 DEF ConsoleInv
  <2>3. /\ Len(active') = Len(active) + 1
        /\ \A k \in 1..Len(active) : active'[k] = active[k] /\ active[k] # t
        /\ active'[Len(active) + 1] = t
    BY <1>t, <2>1, AppendProperties DEF ListInv
  <2>4. \A k \in 1..Len(active') : k = Len(active) + 1 \/ k \in 1..Len(active)
    BY <1>t, <2>3
  <2>5. Apart(active')
    BY <1>t, <2>3, <2>4 DEF ListInv, Apart
  <2>6. \A k \in 1..Len(active') : active'[k] \in alive' /\ con'[active'[k]] # "add"
    BY <1>t, <2>1, <2>2, <2>3, <2>4 DEF ListInv
  <2> QED
    BY <2>1, <2>5, <2>6 DEF ListInv
<1>4. ASSUME NEW t \in ConsoleThread, N!remove(t)
      PROVE ListInv'
  <2>1. /\ con' = [con EXCEPT ![t] = "out"] /\ alive' = alive \ {t}
        /\ UNCHANGED <<has_fns, con_lock>> /\ active' = Without(active, t)
    BY <1>4 DEF N!remove, N!Without, Without
  <2>2. Apart(active')
    BY <1>t, <2>1, WithoutApart DEF ListInv
  <2>3. \A k \in 1..Len(active') : active'[k] # t /\ \E j \in 1..Len(active) : active[j] = active'[k]
    BY <1>t, <2>1, WithoutKeeps
  <2>4. ASSUME NEW k \in 1..Len(active')
        PROVE  active'[k] \in alive' /\ con'[active'[k]] # "add"
    <3>1. PICK j \in 1..Len(active) : active[j] = active'[k]
      BY <2>3
    <3>2. active[j] \in alive /\ con[active[j]] # "add" /\ active[j] # t /\ active[j] \in ConsoleThread
      BY <1>t, <2>3, <3>1 DEF ListInv
    <3> QED
      BY <1>t, <2>1, <3>1, <3>2
  <2> QED
    BY <2>1, <2>2, <2>4 DEF ListInv
<1>5. ASSUME NEW t \in ConsoleThread,
             N!WriteBegins(t) \/ N!WriteOne(t) \/ N!WriteReturns(t)
      PROVE ListInv'
  <2>1. UNCHANGED <<active, has_fns, alive>> /\ con_lock' \in ConsoleThread \cup {"free"}
    BY <1>5 DEF N!WriteBegins, N!WriteOne, N!WriteReturns, N!Take, ListInv
  <2>2. \A u \in alive \cap ConsoleThread : con'[u] = "add" => con[u] = "add"
    BY <1>t, <1>5 DEF N!WriteBegins, N!WriteOne, N!WriteReturns
  <2> QED
    BY <1>k, <2>1, <2>2 DEF ListInv
<1>6. CASE UNCHANGED console
  BY <1>k, <1>6 DEF console, ListInv
<1> QED
  BY <1>1, <1>2, <1>3, <1>4, <1>5, <1>6 DEF N!Next

\* Both together are what the types say.
LEMMA ConsoleTypes == ConsoleInv /\ ListInv => N!TypeOK
<1> SUFFICES ASSUME ConsoleInv, ListInv
             PROVE  N!TypeOK
  OBVIOUS
<1>1. active \in Seq(ConsoleThread) /\ DOMAIN active = 1..Len(active)
  BY DEF ConsoleInv
<1>2. N!IsInjective(active)
  BY <1>1 DEF ListInv, Apart, N!IsInjective
<1> QED
  BY <1>1, <1>2 DEF ConsoleInv, ListInv, N!TypeOK

-----------------------------------------------------------------------------
(* FilePico                                                                 *)

\* The tasks on their way to create a lock.
BeforeFirst == {t \in FileTask : ff_task[t] \in {"init_lock", "new_lock"}}

\* Who is inside holds the lock it took, and with one lock nobody else is inside.
FileLocksAreHeld ==
  /\ \A t \in FileTask : ff_task[t] \in {"taking", "inside"} => uses[t] \in 1..ff_lock
  /\ \A t \in FileTask : ff_task[t] = "inside" => ff_holder[uses[t]] = t
  /\ \A l \in I!Lock : ff_holder[l] # "free" => l <= ff_lock
  /\ ff_lock <= 1 =>
       /\ \A t \in FileTask : ff_task[t] # "died"
       /\ \A l \in I!Lock : ff_holder[l] # "free" => ff_task[ff_holder[l]] = "inside"

\* Each lock was created by a task that raced for the first operation; there is none
\* before the first.
FileInv ==
  /\ ff_lock \in Nat /\ is_init \in BOOLEAN
  /\ ff_holder \in [I!Lock -> FileTask \cup {"free"}]
  /\ ff_task \in [FileTask -> I!Places]
  /\ uses \in [FileTask -> Nat]
  /\ ff_lock + Cardinality(BeforeFirst) <= Cardinality(FileTask)
  /\ is_init => ff_lock > 0
  /\ ~is_init =>
       ff_lock = 0 /\ \A t \in FileTask : ff_task[t] \in {"out", "init_lock", "new_lock"}
  /\ FileLocksAreHeld

\* Tasks are finite in number.
LEMMA FileTasks ==
  /\ IsFiniteSet(FileTask) /\ Cardinality(FileTask) \in Nat
  /\ "free" \notin FileTask
<1>1. IsFiniteSet(FileTask) /\ "free" \notin FileTask
  BY NamesAssumption
<1> QED
  BY <1>1, FS_CardinalityType

\* FilePico counts with the same operator.
LEMMA SameCardinality == ASSUME NEW some PROVE I!Cardinality(some) = Cardinality(some)
BY DEF I!Cardinality, Cardinality

\* A set of tasks has a cardinality, which is no larger than that of all.
LEMMA SomeTasks ==
  ASSUME NEW some \in SUBSET FileTask
  PROVE  IsFiniteSet(some) /\ Cardinality(some) \in Nat /\ Cardinality(some) <= Cardinality(FileTask)
<1>1. IsFiniteSet(some) /\ Cardinality(some) <= Cardinality(FileTask)
  BY FileTasks, FS_Subset
<1> QED
  BY <1>1, FS_CardinalityType

\* No lock exists at first.
LEMMA FileInit == I!Init => FileInv
<1> SUFFICES ASSUME I!Init
             PROVE FileInv
  OBVIOUS
<1>1. is_init \in BOOLEAN /\ ~is_init
  BY DEF I!Init
<1>2. BeforeFirst \in SUBSET FileTask
  BY DEF BeforeFirst
<1>3. 0 + Cardinality(BeforeFirst) <= Cardinality(FileTask)
  BY <1>2, SomeTasks, FileTasks
<1>4. FileLocksAreHeld
  BY DEF I!Init, FileLocksAreHeld
<1> QED
  BY <1>1, <1>3, <1>4 DEF I!Init, I!Places, FileInv

\* Every step of the files keeps it.
LEMMA FileStep == FileInv /\ [I!Next]_file => FileInv'
<1> SUFFICES ASSUME FileInv, [I!Next]_file
             PROVE FileInv'
  OBVIOUS
<1>a. /\ ff_lock \in Nat /\ is_init \in BOOLEAN
      /\ ff_holder \in [I!Lock -> FileTask \cup {"free"}]
      /\ ff_task \in [FileTask -> I!Places]
      /\ uses \in [FileTask -> Nat]
  BY DEF FileInv
<1>b. BeforeFirst \in SUBSET FileTask /\ Cardinality(BeforeFirst) \in Nat
  BY SomeTasks DEF BeforeFirst
<1>c. \A l \in 1..ff_lock : l \in I!Lock
  <2>1. ff_lock + Cardinality(BeforeFirst) <= Cardinality(FileTask)
    BY DEF FileInv
  <2>2. ff_lock <= Cardinality(FileTask)
    BY <1>a, <1>b, <2>1, FileTasks
  <2> QED
    BY <1>a, <2>2, FileTasks, SameCardinality DEF I!Lock
\* A step that makes no lock and sends nobody to wait for init_lock.
<1>d. ASSUME NEW t \in FileTask, NEW place \in I!Places \ {"init_lock", "new_lock"},
             ff_task' = [ff_task EXCEPT ![t] = place], UNCHANGED ff_lock
      PROVE  ff_lock' + Cardinality(BeforeFirst') <= Cardinality(FileTask)
  <2>1. BeforeFirst' = BeforeFirst \ {t}
    BY <1>a, <1>d DEF BeforeFirst
  <2>2. Cardinality(BeforeFirst') <= Cardinality(BeforeFirst) /\ Cardinality(BeforeFirst') \in Nat
    <3>1. IsFiniteSet(BeforeFirst)
      BY <1>b, SomeTasks
    <3>2. BeforeFirst' \in SUBSET BeforeFirst
      BY <2>1
    <3> QED
      BY <1>b, <3>1, <3>2, FS_Subset, SomeTasks
  <2> QED
    BY <1>a, <1>b, <1>d, <2>2, FileTasks DEF FileInv
<1> USE DEF I!Goto
<1>1. ASSUME NEW t \in FileTask, I!Begin(t)
      PROVE  FileInv'
  <2>1. CASE is_init
    <3>1. PICK place \in {"lock", "foreach"} : ff_task' = [ff_task EXCEPT ![t] = place]
      BY <1>1, <2>1 DEF I!Begin
    <3>2. UNCHANGED <<is_init, ff_lock, ff_holder, uses>> /\ ff_task[t] = "out"
      BY <1>1 DEF I!Begin
    <3>3. place \in I!Places \ {"init_lock", "new_lock"}
      BY DEF I!Places
    <3>4. FileLocksAreHeld'
      BY <1>a, <1>c, <3>1, <3>2, FileTasks DEF FileInv, FileLocksAreHeld
    <3> QED
      BY <1>a, <1>d, <2>1, <3>1, <3>2, <3>3, <3>4 DEF FileInv
  <2>2. CASE ~is_init
    <3>1. ff_task' = [ff_task EXCEPT ![t] = "init_lock"] /\ ff_task[t] = "out"
      BY <1>1, <2>2 DEF I!Begin
    <3>2. UNCHANGED <<is_init, ff_lock, ff_holder, uses>>
      BY <1>1 DEF I!Begin
    <3>3. FileLocksAreHeld'
      BY <1>a, <1>c, <3>1, <3>2, FileTasks DEF FileInv, FileLocksAreHeld
    <3>4. ff_lock' = 0
      BY <2>2, <3>2 DEF FileInv
    <3>5. ff_lock' + Cardinality(BeforeFirst') <= Cardinality(FileTask)
      <4>1. BeforeFirst' \in SUBSET FileTask
        BY DEF BeforeFirst
      <4> QED
        BY <3>4, <4>1, SomeTasks, FileTasks
    <3>6. \A u \in FileTask : ff_task'[u] \in {"out", "init_lock", "new_lock"}
      BY <1>a, <2>2, <3>1 DEF FileInv
    <3>7. ff_task' \in [FileTask -> I!Places]
      BY <1>a, <3>1 DEF I!Places
    <3> QED
      BY <1>a, <2>2, <3>2, <3>3, <3>4, <3>5, <3>6, <3>7 DEF FileInv
  <2> QED
    BY <1>a, <2>1, <2>2
<1>2. ASSUME NEW t \in FileTask, I!InitLock(t)
      PROVE  FileInv'
  <2>1. /\ UNCHANGED <<is_init, ff_lock, ff_holder, uses>> /\ ff_task[t] = "init_lock"
        /\ ff_task' = [ff_task EXCEPT ![t] = "new_lock"]
    BY <1>2 DEF I!InitLock
  <2>2. BeforeFirst' = BeforeFirst
    BY <1>a, <2>1 DEF BeforeFirst
  <2>3. FileLocksAreHeld'
    BY <1>a, <1>c, <2>1, FileTasks DEF FileInv, FileLocksAreHeld
  <2>4. ff_task' \in [FileTask -> I!Places]
    BY <1>a, <2>1 DEF I!Places
  <2> QED
    BY <1>a, <2>1, <2>2, <2>3, <2>4 DEF FileInv
<1>3. ASSUME NEW t \in FileTask, I!NewLock(t)
      PROVE  FileInv'
  <2>1. PICK place \in {"mounting", "mounted"} : ff_task' = [ff_task EXCEPT ![t] = place]
    BY <1>3 DEF I!NewLock
  <2>2. /\ UNCHANGED <<ff_holder, uses>> /\ ff_task[t] = "new_lock"
        /\ ff_lock' = ff_lock + 1
    BY <1>3 DEF I!NewLock
  <2>3. is_init' \in BOOLEAN /\ is_init'
    BY <1>3 DEF I!NewLock
  <2>4. BeforeFirst' = BeforeFirst \ {t} /\ t \in BeforeFirst
    BY <1>a, <2>1, <2>2 DEF BeforeFirst
  <2>5. Cardinality(BeforeFirst') = Cardinality(BeforeFirst) - 1
    <3>1. IsFiniteSet(BeforeFirst)
      BY <1>b, SomeTasks
    <3> QED
      BY <2>4, <3>1, FS_RemoveElement
  <2>6. FileLocksAreHeld'
    <3>1. \A u \in FileTask : ff_task'[u] \in {"taking", "inside"} => uses'[u] \in 1..ff_lock'
      BY <1>a, <2>1, <2>2 DEF FileInv, FileLocksAreHeld
    <3>2. \A u \in FileTask : ff_task'[u] = "inside" => ff_holder'[uses'[u]] = u
      BY <1>a, <2>1, <2>2 DEF FileInv, FileLocksAreHeld
    <3>3. \A l \in I!Lock : ff_holder'[l] # "free" => l <= ff_lock'
      BY <1>a, <2>2, FileTasks DEF FileInv, FileLocksAreHeld, I!Lock
    <3>4. ASSUME ff_lock' <= 1
          PROVE  /\ \A u \in FileTask : ff_task'[u] # "died"
                 /\ \A l \in I!Lock : ff_holder'[l] # "free" => ff_task'[ff_holder'[l]] = "inside"
      <4>1. ff_lock = 0
        BY <1>a, <2>2, <3>4
      <4>2. \A l \in I!Lock : ff_holder[l] = "free"
        BY <4>1, FileTasks DEF FileInv, FileLocksAreHeld, I!Lock
      <4> QED
        BY <1>a, <2>1, <2>2, <4>1, <4>2 DEF FileInv, FileLocksAreHeld
    <3> QED
      BY <3>1, <3>2, <3>3, <3>4 DEF FileLocksAreHeld
  <2>7. ff_task' \in [FileTask -> I!Places]
    BY <1>a, <2>1 DEF I!Places
  <2>8. ff_lock' + Cardinality(BeforeFirst') <= Cardinality(FileTask)
    BY <1>a, <1>b, <2>2, <2>5, FileTasks DEF FileInv
  <2>9. ff_lock' \in Nat /\ ff_lock' > 0
    BY <1>a, <2>2
  <2> QED
    BY <1>a, <2>2, <2>3, <2>6, <2>7, <2>8, <2>9 DEF FileInv
\* The steps of a task that moves on and leaves the locks as they are.
<1>m. ASSUME NEW t \in FileTask, NEW place \in {"mounted", "lock", "foreach", "out"},
             ff_task[t] \in {"mounting", "mounted", "foreach"},
             ff_task' = [ff_task EXCEPT ![t] = place],
             UNCHANGED <<is_init, ff_lock, ff_holder, uses>>
      PROVE  FileInv'
  <2>1. place \in I!Places \ {"init_lock", "new_lock"}
    BY DEF I!Places
  <2>2. FileLocksAreHeld'
    BY <1>a, <1>c, <1>m, FileTasks DEF FileInv, FileLocksAreHeld
  <2>3. is_init
    BY <1>a, <1>m DEF FileInv
  <2> QED
    BY <1>a, <1>d, <1>m, <2>1, <2>2, <2>3 DEF FileInv
<1>4. ASSUME NEW t \in FileTask, I!Mount(t)
      PROVE  FileInv'
  BY <1>m, <1>4 DEF I!Mount
<1>5. ASSUME NEW t \in FileTask, I!InitUnlock(t)
      PROVE  FileInv'
  BY <1>m, <1>5 DEF I!InitUnlock
<1>6. ASSUME NEW t \in FileTask, I!ForeachReturns(t)
      PROVE  FileInv'
  BY <1>m, <1>6 DEF I!ForeachReturns
<1>7. ASSUME NEW t \in FileTask, I!PickLock(t)
      PROVE  FileInv'
  <2>1. /\ UNCHANGED <<is_init, ff_lock, ff_holder>> /\ ff_task[t] = "lock"
        /\ uses' = [uses EXCEPT ![t] = ff_lock]
        /\ ff_task' = [ff_task EXCEPT ![t] = "taking"]
    BY <1>7 DEF I!PickLock
  <2>2. is_init
    BY <1>a, <2>1 DEF FileInv
  <2>3. ff_lock > 0
    BY <2>2 DEF FileInv
  <2>4. FileLocksAreHeld'
    BY <1>a, <1>c, <2>1, <2>3, FileTasks DEF FileInv, FileLocksAreHeld
  <2>5. "taking" \in I!Places \ {"init_lock", "new_lock"}
    BY DEF I!Places
  <2>6. uses' \in [FileTask -> Nat]
    BY <1>a, <2>1
  <2> QED
    BY <1>a, <1>d, <2>1, <2>2, <2>4, <2>5, <2>6 DEF FileInv
<1>8. ASSUME NEW t \in FileTask, I!TakeLock(t)
      PROVE  FileInv'
  <2>1. /\ UNCHANGED <<is_init, ff_lock, uses>> /\ ff_task[t] = "taking"
        /\ uses[t] # 0 => ff_holder[uses[t]] = "free"
        /\ ff_holder' = [l \in I!Lock |-> IF l = uses[t] THEN t ELSE ff_holder[l]]
        /\ ff_task' = [ff_task EXCEPT ![t] = "inside"]
    BY <1>8 DEF I!TakeLock
  <2>2. is_init
    BY <1>a, <2>1 DEF FileInv
  <2>3. uses[t] \in 1..ff_lock /\ uses[t] \in I!Lock /\ ff_holder[uses[t]] = "free"
    BY <1>a, <1>c, <2>1 DEF FileInv, FileLocksAreHeld
  <2>4. FileLocksAreHeld'
    <3>1. \A u \in FileTask : ff_task'[u] \in {"taking", "inside"} => uses'[u] \in 1..ff_lock'
      BY <1>a, <2>1, <2>3 DEF FileInv, FileLocksAreHeld
    <3>2. ASSUME NEW u \in FileTask, ff_task'[u] = "inside"
          PROVE  ff_holder'[uses'[u]] = u
      <4>1. CASE u = t
        BY <2>1, <2>3, <4>1
      <4>2. CASE u # t
        <5>1. ff_task[u] = "inside"
          BY <1>a, <2>1, <3>2, <4>2
        <5>2. uses[u] \in I!Lock /\ ff_holder[uses[u]] = u
          BY <1>c, <5>1 DEF FileInv, FileLocksAreHeld
        <5> QED
          BY <2>1, <2>3, <5>2, FileTasks
      <4> QED
        BY <4>1, <4>2
    <3>3. \A l \in I!Lock : ff_holder'[l] # "free" => l <= ff_lock'
      BY <1>a, <2>1, <2>3 DEF FileInv, FileLocksAreHeld
    <3>4. ASSUME ff_lock' <= 1
          PROVE  /\ \A u \in FileTask : ff_task'[u] # "died"
                 /\ \A l \in I!Lock : ff_holder'[l] # "free" => ff_task'[ff_holder'[l]] = "inside"
      BY <1>a, <2>1, <2>3, <3>4, FileTasks DEF FileInv, FileLocksAreHeld
    <3> QED
      BY <3>1, <3>2, <3>3, <3>4 DEF FileLocksAreHeld
  <2>5. "inside" \in I!Places \ {"init_lock", "new_lock"}
    BY DEF I!Places
  <2>6. ff_holder' \in [I!Lock -> FileTask \cup {"free"}]
    BY <1>a, <2>1
  <2> QED
    BY <1>a, <1>d, <2>1, <2>2, <2>4, <2>5, <2>6 DEF FileInv
<1>9. ASSUME NEW t \in FileTask, I!Unlock(t)
      PROVE  FileInv'
  <2>1. /\ UNCHANGED <<is_init, ff_lock>> /\ ff_task[t] = "inside"
        /\ uses' = [uses EXCEPT ![t] = 0]
    BY <1>9 DEF I!Unlock
  <2>2. is_init
    BY <1>a, <2>1 DEF FileInv
  <2>3. uses' \in [FileTask -> Nat] /\ \A u \in FileTask \ {t} : uses'[u] = uses[u]
    BY <1>a, <2>1
  <2>4. uses[t] \in 1..ff_lock /\ uses[t] \in I!Lock /\ ff_holder[uses[t]] = t
        /\ ff_lock \in I!Lock /\ ff_lock # 0
    BY <1>a, <1>c, <2>1 DEF FileInv, FileLocksAreHeld
  <2>5. CASE ff_holder[ff_lock] \notin {t, "free"}
    <3>1. UNCHANGED ff_holder /\ ff_task' = [ff_task EXCEPT ![t] = "died"]
      BY <1>9, <2>4, <2>5 DEF I!Unlock
    <3>2. ff_lock > 1
      BY <1>a, <2>4, <2>5
    <3>3. FileLocksAreHeld'
      BY <1>a, <1>c, <2>1, <2>3, <3>1, <3>2 DEF FileInv, FileLocksAreHeld
    <3>4. "died" \in I!Places \ {"init_lock", "new_lock"}
      BY DEF I!Places
    <3> QED
      BY <1>a, <1>d, <2>1, <2>2, <2>3, <3>1, <3>3, <3>4 DEF FileInv
  <2>6. CASE ff_holder[ff_lock] \in {t, "free"}
    <3>1. /\ ff_task' = [ff_task EXCEPT ![t] = "out"]
          /\ ff_holder' = [l \in I!Lock |-> IF l = ff_lock THEN "free" ELSE ff_holder[l]]
      BY <1>9, <2>4, <2>6 DEF I!Unlock
    <3>2. ASSUME NEW u \in FileTask, ff_task'[u] = "inside"
          PROVE  ff_holder'[uses'[u]] = u
      <4>1. u # t /\ ff_task[u] = "inside" /\ uses'[u] = uses[u]
        BY <1>a, <2>3, <3>1, <3>2
      <4>2. uses[u] \in I!Lock /\ ff_holder[uses[u]] = u
        BY <1>c, <4>1 DEF FileInv, FileLocksAreHeld
      <4> QED
        BY <2>6, <3>1, <4>1, <4>2, FileTasks
    <3>3. \A u \in FileTask : ff_task'[u] \in {"taking", "inside"} => uses'[u] \in 1..ff_lock'
      BY <1>a, <2>1, <2>3, <3>1 DEF FileInv, FileLocksAreHeld
    <3>4. \A l \in I!Lock : ff_holder'[l] # "free" => l <= ff_lock'
      BY <1>a, <2>1, <3>1 DEF FileInv, FileLocksAreHeld
    <3>5. ASSUME ff_lock' <= 1
          PROVE  /\ \A u \in FileTask : ff_task'[u] # "died"
                 /\ \A l \in I!Lock : ff_holder'[l] # "free" => ff_task'[ff_holder'[l]] = "inside"
      <4>1. ff_lock = 1
        BY <1>a, <2>1, <2>4, <3>5
      <4>2. \A l \in I!Lock : ff_holder'[l] = "free"
        BY <1>a, <3>1, <4>1 DEF FileInv, FileLocksAreHeld, I!Lock
      <4> QED
        BY <1>a, <2>1, <3>1, <4>1, <4>2 DEF FileInv, FileLocksAreHeld
    <3>6. FileLocksAreHeld'
      BY <3>2, <3>3, <3>4, <3>5 DEF FileLocksAreHeld
    <3>7. "out" \in I!Places \ {"init_lock", "new_lock"}
      BY DEF I!Places
    <3>8. ff_holder' \in [I!Lock -> FileTask \cup {"free"}]
      BY <1>a, <3>1
    <3> QED
      BY <1>a, <1>d, <2>1, <2>2, <2>3, <3>1, <3>6, <3>7, <3>8 DEF FileInv
  <2> QED
    BY <2>5, <2>6
<1>u. CASE UNCHANGED file
  <2>1. UNCHANGED <<is_init, ff_lock, ff_holder, ff_task, uses>>
    BY <1>u DEF file
  <2> QED
    BY <2>1 DEF FileInv, FileLocksAreHeld, BeforeFirst
<1> QED
  BY <1>1, <1>2, <1>3, <1>4, <1>5, <1>6, <1>7, <1>8, <1>9, <1>u DEF I!Next

\* So as many tasks are inside as there are locks, and one lock is given back.
LEMMA FileHolds == FileInv => I!FilesAreExclusive /\ I!LockIsGivenBack
<1> SUFFICES ASSUME FileInv
             PROVE  I!FilesAreExclusive /\ I!LockIsGivenBack
  OBVIOUS
<1>1. /\ ff_lock \in Nat /\ uses \in [FileTask -> Nat] /\ FileLocksAreHeld
      /\ ff_holder \in [I!Lock -> FileTask \cup {"free"}]
  BY DEF FileInv
<1>2. I!FilesAreExclusive
  <2> DEFINE f == [t \in I!Inside |-> uses[t]]
  <2>1. \A t \in I!Inside : t \in FileTask /\ uses[t] \in 1..ff_lock /\ ff_holder[uses[t]] = t
    BY <1>1 DEF I!Inside, FileLocksAreHeld
  <2>2. f \in Injection(I!Inside, 1..ff_lock)
    BY <2>1 DEF Injection, IsInjective
  <2>3. IsFiniteSet(1..ff_lock) /\ Cardinality(1..ff_lock) = ff_lock
    <3>1. 1 \in Int /\ ff_lock \in Int
      BY <1>1
    <3> QED
      BY <1>1, <3>1, FS_Interval
  <2>4. Cardinality(I!Inside) <= Cardinality(1..ff_lock)
    BY <2>2, <2>3, FS_Injection
  <2> QED
    BY <2>3, <2>4, SameCardinality DEF I!FilesAreExclusive
<1>3. I!LockIsGivenBack
  <2> SUFFICES ASSUME ff_lock = 1
               PROVE  /\ \A t \in FileTask : ff_task[t] # "died"
                      /\ ff_holder[1] = "free" \/ ff_holder[1] \in I!Inside
    BY DEF I!LockIsGivenBack
  <2>1. 1 \in I!Lock
    <3>1. Cardinality(BeforeFirst) \in Nat
      BY SomeTasks DEF BeforeFirst
    <3>2. 1 + Cardinality(BeforeFirst) <= Cardinality(FileTask)
      BY DEF FileInv
    <3>3. 1 <= Cardinality(FileTask)
      BY <3>1, <3>2, FileTasks
    <3> QED
      BY <3>3, FileTasks, SameCardinality DEF I!Lock
  <2> QED
    BY <1>1, <2>1 DEF FileLocksAreHeld, I!Inside
<1> QED
  BY <1>2, <1>3

\* The rest of its types.
FileRest ==
  /\ mounted \in BOOLEAN /\ init_lock \in FileTask \cup {"free"}
  /\ uses \in [FileTask -> I!Lock \cup {0}]

\* They have them at first.
LEMMA FileRestInit == I!Init => FileRest
<1> SUFFICES ASSUME I!Init
             PROVE  FileRest
  OBVIOUS
<1>1. mounted \in BOOLEAN
  BY DEF I!Init
<1> QED
  BY <1>1 DEF I!Init, FileRest

\* A lock is one of those that tasks can have created.
LEMMA FileLockTypes == FileInv => ff_lock \in I!Lock \cup {0}
<1> SUFFICES ASSUME FileInv
             PROVE  ff_lock \in I!Lock \cup {0}
  OBVIOUS
<1>1. Cardinality(BeforeFirst) \in Nat
  BY SomeTasks DEF BeforeFirst
<1>2. ff_lock \in Nat /\ ff_lock + Cardinality(BeforeFirst) <= Cardinality(FileTask)
  BY DEF FileInv
<1>3. ff_lock <= Cardinality(FileTask)
  BY <1>1, <1>2, FileTasks
<1>4. I!Lock = 1..Cardinality(FileTask)
  BY SameCardinality DEF I!Lock
<1> QED
  BY <1>2, <1>3, <1>4, FileTasks

\* Every step of the files keeps the rest of the types.
LEMMA FileRestStep == FileInv /\ FileRest /\ [I!Next]_file => FileRest'
<1> SUFFICES ASSUME FileInv, FileRest, [I!Next]_file
             PROVE  FileRest'
  OBVIOUS
<1>a. ff_lock \in I!Lock \cup {0}
  BY FileLockTypes
<1> USE DEF FileRest
<1>1. ASSUME NEW t \in FileTask, I!Mount(t)
      PROVE  FileRest'
  <2>1. mounted' \in BOOLEAN
    BY <1>1 DEF I!Mount
  <2> QED
    BY <1>1, <2>1 DEF I!Mount
<1>2. ASSUME NEW t \in FileTask, I!Begin(t) \/ I!NewLock(t) \/ I!TakeLock(t) \/ I!ForeachReturns(t)
      PROVE  FileRest'
  BY <1>2 DEF I!Begin, I!NewLock, I!TakeLock, I!ForeachReturns
<1>3. ASSUME NEW t \in FileTask, I!InitLock(t) \/ I!InitUnlock(t)
      PROVE  FileRest'
  BY <1>3 DEF I!InitLock, I!InitUnlock
<1>4. ASSUME NEW t \in FileTask, I!PickLock(t) \/ I!Unlock(t)
      PROVE  FileRest'
  <2>1. UNCHANGED <<mounted, init_lock>>
    BY <1>4 DEF I!PickLock, I!Unlock
  <2>2. uses' \in [FileTask -> I!Lock \cup {0}]
    BY <1>a, <1>4 DEF I!PickLock, I!Unlock
  <2> QED
    BY <2>1, <2>2
<1>5. CASE UNCHANGED file
  BY <1>5 DEF file
<1> QED
  BY <1>1, <1>2, <1>3, <1>4, <1>5 DEF I!Next

\* Both together are what the types say.
LEMMA FileTypes == FileInv /\ FileRest => I!TypeOK
BY FileLockTypes DEF FileInv, FileRest, I!TypeOK

-----------------------------------------------------------------------------
(* FillableBuffer                                                           *)

\* The bytes that a reader expects next.
Following(count) == [q \in 1..count |-> (expected + q - 1) % ByteMod]

\* Unless the end of the stream was undone: what the buffer has taken follows what the
\* reader expects, and a reader that has not left has its memory filled from the start.
FillableOrder ==
  /\ fb_reader \in {"out", "asleep", "woken"}
  /\ next_byte = (expected + n_filled) % ByteMod
  /\ fb_reader \in {"asleep", "woken"} => memory = Following(n_filled)
  /\ fb_reader = "out" /\ fb_lock = "free" => to_fill_n = 0 /\ n_filled = 0
  /\ fb_reader = "woken" /\ ~is_eof_forced => to_fill_n = 0

\* A reader has lent room for what it asked for, and gets what follows.
FillableInv ==
  /\ F!TypeOK
  /\ n_filled + to_fill_n <= MaxBytes
  /\ ~eof_undone => FillableOrder

\* Bytes are numbered modulo ByteMod.
LEMMA ByteNumbers ==
  /\ ByteMod \in Nat \ {0} /\ MaxBytes \in Nat
  /\ F!Byte \subseteq Nat
  /\ \A x \in Int : x % ByteMod \in F!Byte
  /\ \A b \in F!Byte : b % ByteMod = b
<1>1. ByteMod \in Nat \ {0} /\ MaxBytes \in Nat
  BY NumbersAssumption
<1>2. \A x \in Int : x % ByteMod \in 0..(ByteMod - 1)
  BY <1>1, ModRange
<1>3. \A b \in 0..(ByteMod - 1) : b % ByteMod = b
  BY <1>1
<1> QED
  BY <1>1, <1>2, <1>3 DEF F!Byte

\* The bytes that are there and those that follow are the bytes that follow.
LEMMA CopyFollows ==
  ASSUME NEW count \in Nat, NEW n \in Nat, expected \in F!Byte,
         next_byte = (expected + count) % ByteMod
  PROVE  /\ Following(count) \o F!NextBytes(n) = Following(count + n)
         /\ (next_byte + n) % ByteMod = (expected + (count + n)) % ByteMod
<1> DEFINE s == Following(count)
           t == F!NextBytes(n)
           u == Following(count + n)
<1>1. expected \in Nat /\ expected + count \in Nat
  BY ByteNumbers
<1>2. \A j \in Int : (next_byte + j) % ByteMod = ((expected + count) + j) % ByteMod
  BY <1>1, ByteNumbers, ModAdd
<1>3. next_byte \in Nat
  BY <1>1, ByteNumbers
<1>4. s \in Seq(F!Byte) /\ Len(s) = count /\ \A q \in 1..count : s[q] = (expected + q - 1) % ByteMod
  <2>1. \A q \in 1..count : (expected + q - 1) % ByteMod \in F!Byte
    BY <1>1, ByteNumbers
  <2>2. s \in [1..count -> F!Byte]
    BY <2>1 DEF Following
  <2> QED
    BY <2>2 DEF Following
<1>5. u \in Seq(F!Byte) /\ Len(u) = count + n
      /\ \A q \in 1..(count + n) : u[q] = (expected + q - 1) % ByteMod
  <2>1. \A q \in 1..(count + n) : (expected + q - 1) % ByteMod \in F!Byte
    BY <1>1, ByteNumbers
  <2>2. u \in [1..(count + n) -> F!Byte]
    BY <2>1 DEF Following
  <2> QED
    BY <2>2 DEF Following
<1>6. t \in Seq(F!Byte) /\ Len(t) = n /\ \A q \in 1..n : t[q] = (next_byte + q - 1) % ByteMod
  <2>1. \A q \in 1..n : (next_byte + q - 1) % ByteMod \in F!Byte
    BY <1>3, ByteNumbers
  <2>2. t \in [1..n -> F!Byte]
    BY <2>1 DEF F!NextBytes
  <2> QED
    BY <2>2 DEF F!NextBytes
<1> HIDE DEF s, t, u
<1>7. s \o t \in Seq(F!Byte) /\ Len(s \o t) = count + n
  BY <1>4, <1>6, ConcatProperties
<1>8. ASSUME NEW q \in 1..(count + n) PROVE (s \o t)[q] = u[q]
  <2>1. (s \o t)[q] = IF q <= count THEN s[q] ELSE t[q - count]
    BY <1>4, <1>6, ConcatProperties
  <2>n. q \in Nat /\ q \in 1..(count + n)
    OBVIOUS
  <2>2. CASE q <= count
    <3>1. q \in 1..count
      BY <2>2, <2>n
    <3> QED
      BY <1>4, <1>5, <2>1, <2>2, <3>1
  <2>3. CASE ~(q <= count)
    <3>1. q - count \in 1..n /\ (q - count) - 1 \in Int
      BY <2>3
    <3>2. t[q - count] = (next_byte + (q - count) - 1) % ByteMod
      BY <1>6, <3>1
    <3>3. next_byte + (q - count) - 1 = next_byte + ((q - count) - 1)
      BY <1>3, <3>1
    <3>4. (expected + count) + ((q - count) - 1) = expected + q - 1
      BY <1>1
    <3> QED
      BY <1>2, <1>5, <2>1, <2>3, <3>1, <3>2, <3>3, <3>4
  <2> QED
    BY <2>2, <2>3
<1>9. s \o t = u
  BY <1>5, <1>7, <1>8, SeqEqual
<1>10. (next_byte + n) % ByteMod = (expected + (count + n)) % ByteMod
  <2>1. (expected + count) + n = expected + (count + n)
    BY <1>1
  <2> QED
    BY <1>2, <2>1
<1> QED
  BY <1>9, <1>10 DEF s, t, u

\* Nothing has been read or filled.
LEMMA FillableInit == F!Init => FillableInv
<1> SUFFICES ASSUME F!Init
             PROVE FillableInv
  OBVIOUS
<1>1. is_eof_forced \in BOOLEAN /\ eof_undone \in BOOLEAN
  BY DEF F!Init
<1>2. 0 \in F!Byte /\ 0 % ByteMod = 0 /\ <<>> \in Seq(F!Byte)
  BY ByteNumbers
<1>3. F!TypeOK
  BY <1>1, <1>2, ByteNumbers DEF F!Init, F!TypeOK
<1>4. FillableOrder
  BY <1>2 DEF F!Init, FillableOrder
<1> QED
  BY <1>3, <1>4, ByteNumbers DEF F!Init, FillableInv

\* What fill() copies.
LEMMA FillableCopies ==
  ASSUME FillableInv, F!Fill
  PROVE  FillableInv'
<1> DEFINE n == F!Least(fill_n, to_fill_n)
<1>1. /\ fill_n \in 0..MaxBytes /\ to_fill_n \in 0..MaxBytes /\ n_filled \in 0..MaxBytes
      /\ next_byte \in F!Byte /\ expected \in F!Byte /\ memory \in Seq(F!Byte)
      /\ n_filled + to_fill_n <= MaxBytes
  BY DEF FillableInv, F!TypeOK
<1>2. n \in Nat /\ n > 0 /\ n <= fill_n /\ n <= to_fill_n
  BY <1>1 DEF F!Fill, F!Copy, F!Least
<1>3. /\ memory' = memory \o F!NextBytes(n)
      /\ next_byte' = (next_byte + n) % ByteMod
      /\ n_filled' = n_filled + n
      /\ fill_n' = fill_n - n /\ to_fill_n' = to_fill_n - n
      /\ fb_reader' = IF to_fill_n' = 0 THEN F!ReaderSignalled ELSE fb_reader
      /\ fb_filler' \in {"out", "asleep"}
      /\ fb_lock = "free"
      /\ UNCHANGED <<is_eof_forced, fb_lock, expected, eof_undone>>
  BY DEF F!Fill, F!Copy
<1> HIDE DEF n
<1>n. n \in Nat /\ n_filled \in Nat /\ next_byte \in Nat /\ expected \in Nat /\ MaxBytes \in Nat
  <2>1. F!Byte \subseteq Nat /\ MaxBytes \in Nat
    BY ByteNumbers
  <2> QED
    BY <1>1, <1>2, <2>1
<1>4. F!NextBytes(n) \in Seq(F!Byte)
  <2>1. \A q \in 1..n : (next_byte + q - 1) % ByteMod \in F!Byte
    <3> TAKE q \in 1..n
    <3>1. next_byte + q - 1 \in Int
      BY <1>n
    <3> QED
      BY <3>1, ByteNumbers
  <2>2. F!NextBytes(n) \in [1..n -> F!Byte]
    BY <2>1 DEF F!NextBytes
  <2> QED
    BY <1>2, <2>2
<1>5. memory' \in Seq(F!Byte)
  BY <1>1, <1>3, <1>4, ConcatProperties
<1>6. next_byte' \in F!Byte
  <2>1. next_byte + n \in Int
    BY <1>n
  <2> QED
    BY <1>3, <2>1, ByteNumbers
<1>7. /\ n_filled' \in 0..MaxBytes /\ to_fill_n' \in 0..MaxBytes /\ fill_n' \in 0..MaxBytes
      /\ n_filled' + to_fill_n' <= MaxBytes
  BY <1>1, <1>2, <1>3, <1>n
<1>8. /\ is_eof_forced' \in BOOLEAN /\ eof_undone' \in BOOLEAN
      /\ fb_lock' \in {"free", "lost"}
      /\ fb_reader' \in {"out", "lent", "relook", "asleep", "woken"}
      /\ fb_filler' \in {"out", "filling", "asleep"}
      /\ expected' \in F!Byte
  BY <1>3 DEF FillableInv, F!TypeOK, F!ReaderSignalled
<1>9. ASSUME ~eof_undone
      PROVE  FillableOrder'
  <2>1. FillableOrder
    BY <1>9 DEF FillableInv
  <2>2. fb_reader \in {"asleep", "woken"}
    BY <1>1, <1>2, <1>3, <2>1 DEF FillableOrder
  <2>3. next_byte = (expected + n_filled) % ByteMod /\ memory = Following(n_filled)
    BY <2>1, <2>2 DEF FillableOrder
  <2>4. /\ Following(n_filled) \o F!NextBytes(n) = Following(n_filled + n)
        /\ (next_byte + n) % ByteMod = (expected + (n_filled + n)) % ByteMod
    BY <1>1, <1>n, <2>3, CopyFollows
  <2>5. next_byte' = (expected' + n_filled') % ByteMod
    BY <1>3, <2>4
  <2>6. memory' = Following(n_filled)'
    BY <1>3, <2>3, <2>4 DEF Following
  <2>7. /\ fb_reader' \in {"asleep", "woken"}
        /\ fb_reader' = "woken" /\ ~is_eof_forced' => to_fill_n' = 0
    <3>1. fb_reader = "asleep" \/ is_eof_forced
      BY <1>1, <1>2, <2>1, <2>2 DEF FillableOrder
    <3>2. to_fill_n' # 0 => fb_reader' = fb_reader
      BY <1>3
    <3> QED
      BY <1>3, <2>2, <3>1, <3>2 DEF F!ReaderSignalled
  <2> QED
    BY <2>5, <2>6, <2>7 DEF FillableOrder, Following
<1>10. F!TypeOK'
  BY <1>5, <1>6, <1>7, <1>8 DEF F!TypeOK
<1> QED
  BY <1>3, <1>7, <1>9, <1>10 DEF FillableInv

\* Every step of read, fill and set_is_eof keeps it.
LEMMA FillableStep == FillableInv /\ [F!Next]_fillable => FillableInv'
<1> SUFFICES ASSUME FillableInv, [F!Next]_fillable
             PROVE FillableInv'
  OBVIOUS
<1>a. /\ fill_n \in 0..MaxBytes /\ to_fill_n \in 0..MaxBytes /\ n_filled \in 0..MaxBytes
      /\ next_byte \in F!Byte /\ expected \in F!Byte /\ memory \in Seq(F!Byte)
      /\ n_filled + to_fill_n <= MaxBytes
      /\ is_eof_forced \in BOOLEAN /\ eof_undone \in BOOLEAN
      /\ fb_lock \in {"free", "lost"}
      /\ fb_reader \in {"out", "lent", "relook", "asleep", "woken"}
      /\ fb_filler \in {"out", "filling", "asleep"}
  BY DEF FillableInv, F!TypeOK
<1>1. ASSUME NEW n \in F!Size, F!ReadLend(n)
      PROVE  FillableInv'
  <2>1. /\ n \in 1..MaxBytes /\ to_fill_n' = n /\ n_filled' = 0 /\ memory' = <<>>
        /\ fb_reader' = "asleep" /\ fb_filler' \in {"filling", fb_filler}
        /\ fb_reader \in {"out", "relook"} /\ fb_lock = "free"
        /\ UNCHANGED <<is_eof_forced, fb_lock, fill_n, next_byte, expected, eof_undone>>
    BY <1>1 DEF F!ReadLend, F!SignalFiller, F!Size
  <2>2. F!TypeOK' /\ n_filled' + to_fill_n' <= MaxBytes
    <3>1. fb_filler' \in {"out", "filling", "asleep"} /\ memory' \in Seq(F!Byte)
      BY <1>a, <2>1
    <3>2. n_filled' \in 0..MaxBytes /\ to_fill_n' \in 0..MaxBytes /\ n_filled' + to_fill_n' <= MaxBytes
      BY <2>1, ByteNumbers
    <3> QED
      BY <1>a, <2>1, <3>1, <3>2 DEF F!TypeOK
  <2>3. ASSUME ~eof_undone PROVE FillableOrder'
    <3>1. fb_reader = "out" /\ n_filled = 0 /\ next_byte = (expected + n_filled) % ByteMod
      BY <2>1, <2>3 DEF FillableInv, FillableOrder
    <3>2. next_byte' = (expected' + n_filled') % ByteMod
      BY <2>1, <3>1
    <3>3. Following(n_filled)' = <<>>
      BY <2>1 DEF Following
    <3> QED
      BY <2>1, <3>2, <3>3 DEF FillableOrder, Following
  <2> QED
    BY <2>1, <2>2, <2>3 DEF FillableInv
<1>2. ASSUME NEW n \in F!Size, F!FillCall(n)
      PROVE  FillableInv'
  <2>1. /\ fill_n' \in 0..MaxBytes /\ fb_filler' = "filling"
        /\ UNCHANGED <<is_eof_forced, to_fill_n, n_filled, fb_lock, fb_reader, next_byte, memory,
                       expected, eof_undone>>
    BY <1>2 DEF F!FillCall, F!Size
  <2> QED
    BY <1>a, <2>1 DEF FillableInv, FillableOrder, Following, F!TypeOK
<1>3. CASE F!ReadLent
  <2>1. /\ fb_reader \in {"out", "relook"} /\ fb_reader' = "lent" /\ to_fill_n > 0 /\ fb_lock = "free"
        /\ UNCHANGED <<is_eof_forced, to_fill_n, n_filled, fb_lock, fb_filler, fill_n, next_byte,
                       memory, expected, eof_undone>>
    BY <1>3 DEF F!ReadLent
  <2>2. eof_undone
    BY <1>a, <2>1 DEF FillableInv, FillableOrder
  <2> QED
    BY <1>a, <2>1, <2>2 DEF FillableInv, F!TypeOK
<1>4. CASE F!ReadEof
  <2>1. /\ fb_lock' = "lost" /\ fb_reader' = "out"
        /\ UNCHANGED <<is_eof_forced, to_fill_n, n_filled, fb_filler, fill_n, next_byte, memory,
                       expected, eof_undone>>
    BY <1>4 DEF F!ReadEof
  <2> QED
    BY <1>a, <2>1 DEF FillableInv, FillableOrder, F!TypeOK
<1>5. CASE F!ReadAgain
  <2>1. /\ fb_reader = "woken" /\ fb_reader' = "asleep" /\ fb_filler' \in {"filling", fb_filler}
        /\ UNCHANGED <<is_eof_forced, to_fill_n, n_filled, fb_lock, fill_n, next_byte, memory,
                       expected, eof_undone>>
    BY <1>5 DEF F!ReadAgain, F!SignalFiller
  <2> QED
    BY <1>a, <2>1 DEF FillableInv, FillableOrder, Following, F!TypeOK
<1>6. CASE F!ReadReturns
  <2>1. /\ fb_reader = "woken" /\ fb_reader' = "out" /\ n_filled' = 0 /\ ~is_eof_forced
        /\ expected' = (expected + n_filled) % ByteMod
        /\ UNCHANGED <<is_eof_forced, to_fill_n, fb_lock, fb_filler, fill_n, next_byte, memory,
                       eof_undone>>
    BY <1>6 DEF F!ReadReturns
  <2>2. expected' \in F!Byte
    <3>1. expected + n_filled \in Int
      BY <1>a, ByteNumbers
    <3> QED
      BY <2>1, <3>1, ByteNumbers
  <2>3. n_filled' \in 0..MaxBytes /\ n_filled' + to_fill_n' <= MaxBytes
    BY <1>a, <2>1, ByteNumbers
  <2>4. F!TypeOK'
    BY <1>a, <2>1, <2>2, <2>3 DEF F!TypeOK
  <2>5. ASSUME ~eof_undone PROVE FillableOrder'
    <3>1. next_byte = (expected + n_filled) % ByteMod /\ to_fill_n = 0
      BY <2>1, <2>5 DEF FillableInv, FillableOrder
    <3>2. next_byte' = (expected' + n_filled') % ByteMod
      BY <2>1, <2>2, <3>1, ByteNumbers
    <3> QED
      BY <2>1, <3>1, <3>2 DEF FillableOrder
  <2> QED
    BY <2>1, <2>3, <2>4, <2>5 DEF FillableInv
<1>7. CASE F!FillWait
  <2>1. /\ fb_filler' = "asleep"
        /\ UNCHANGED <<is_eof_forced, to_fill_n, n_filled, fb_lock, fb_reader, fill_n, next_byte,
                       memory, expected, eof_undone>>
    BY <1>7 DEF F!FillWait
  <2> QED
    BY <1>a, <2>1 DEF FillableInv, FillableOrder, Following, F!TypeOK
<1>8. ASSUME NEW is_eof \in BOOLEAN, F!set_is_eof(is_eof)
      PROVE  FillableInv'
  <2>1. /\ is_eof_forced' \in BOOLEAN /\ eof_undone' \in BOOLEAN
        /\ ~eof_undone' => ~eof_undone /\ is_eof_forced'
    BY <1>8 DEF F!set_is_eof
  <2>2. /\ fb_reader' = F!ReaderSignalled
        /\ UNCHANGED <<to_fill_n, n_filled, fb_lock, fb_filler, fill_n, next_byte, memory, expected>>
    BY <1>8 DEF F!set_is_eof
  <2>3. F!TypeOK'
    BY <1>a, <2>1, <2>2 DEF F!TypeOK, F!ReaderSignalled
  <2>4. ASSUME ~eof_undone' PROVE FillableOrder'
    <3>1. FillableOrder
      BY <2>1, <2>4 DEF FillableInv
    <3>2. fb_reader' = IF fb_reader = "asleep" THEN "woken" ELSE fb_reader
      BY <2>2, <3>1 DEF FillableOrder, F!ReaderSignalled
    <3> QED
      BY <2>1, <2>2, <2>4, <3>1, <3>2 DEF FillableOrder, Following
  <2> QED
    BY <1>a, <2>2, <2>3, <2>4 DEF FillableInv
<1>9. CASE UNCHANGED fillable
  BY <1>9 DEF fillable, FillableInv, FillableOrder, Following, F!TypeOK
<1> QED
  BY <1>1, <1>2, <1>3, <1>4, <1>5, <1>6, <1>7, <1>8, <1>9, FillableCopies DEF F!Next

\* So bytes come in order and go only to memory that is lent.
LEMMA FillableHolds == FillableInv => F!BytesInOrder /\ F!MemoryIsLent
BY DEF FillableInv, FillableOrder, Following, F!BytesInOrder, F!MemoryIsLent

-----------------------------------------------------------------------------
(* DigitalCounter                                                           *)

\* What the counter shows when it has been reset.
Believed ==
  /\ actual <= MaxTarget /\ shown \in 0..MaxTarget
  /\ counter_main \in {"decide", "asleep", "woken"} => shown = actual
  /\ counter_main = "pulse" => shown = IF up THEN actual + i ELSE actual - i
  /\ counter_main # "start"

\* Targets and counts are in range, a thread sleeps only at its target or with a signal
\* to come, and what is shown is what is believed, once the counter has been reset.
CounterInv ==
  /\ target \in 0..MaxTarget /\ actual \in 0..Unknown /\ reset_cost \in ResetCosts
  /\ counter_main \in {"start", "decide", "reset", "pulse", "asleep", "woken"}
  /\ up \in BOOLEAN /\ was_reset \in BOOLEAN
  /\ goal \in 0..MaxPulses /\ i \in 0..goal /\ shown \in Int
  /\ signalling \subseteq CounterCaller
  /\ counter_main = "pulse" => IF up THEN actual + goal <= MaxTarget ELSE goal <= actual
  /\ counter_main = "reset" => actual = 0
  /\ counter_main = "asleep" => target = actual \/ signalling # {}
  /\ was_reset => Believed

\* The constants of the counter are numbers.
LEMMA CounterNumbers ==
  /\ MaxTarget \in Nat /\ Unknown \in Nat /\ MaxPulses \in Nat /\ MaxTarget <= Unknown
  /\ ResetCosts \subseteq Nat
<1>1. /\ MaxTarget \in Nat /\ Unknown \in Nat /\ MaxPulses \in Nat \ {0} /\ MaxTarget <= Unknown
      /\ ResetCosts \subseteq Nat
  BY NumbersAssumption
<1> QED
  BY <1>1

\* The counter starts without having been reset.
LEMMA CounterInit == D!Init => CounterInv
<1> SUFFICES ASSUME D!Init
             PROVE CounterInv
  OBVIOUS
<1>1. up \in BOOLEAN /\ was_reset \in BOOLEAN /\ ~was_reset
  BY DEF D!Init
<1> QED
  BY <1>1, CounterNumbers DEF D!Init, CounterInv

\* Every step of the counter and its callers keeps it.
LEMMA CounterStep == CounterInv /\ [D!Next]_counter => CounterInv'
<1> SUFFICES ASSUME CounterInv, [D!Next]_counter
             PROVE CounterInv'
  OBVIOUS
<1> USE CounterNumbers DEF CounterInv, Believed
<1>1. CASE D!Start
  BY <1>1 DEF D!Start
<1>2. CASE D!DecideReset
  BY <1>2 DEF D!DecideReset
<1>3. CASE D!Reset
  <2>1. was_reset' \in BOOLEAN /\ was_reset'
    BY <1>3 DEF D!Reset
  <2> QED
    BY <1>3, <2>1 DEF D!Reset
<1>4. CASE D!DecidePulses
  <2>1. up' \in BOOLEAN /\ (up' <=> target - actual > 0)
    <3>1. up' = (target - actual > 0)
      BY <1>4 DEF D!DecidePulses, D!delta
    <3>2. CASE target - actual > 0
      BY <3>1, <3>2
    <3>3. CASE ~(target - actual > 0)
      <4>1. (target - actual > 0) = FALSE
        BY <3>3, SMT
      <4> QED
        BY <3>1, <3>3, <4>1, Zenon
    <3> QED
      BY <3>2, <3>3, Zenon
  <2>2. goal' = LET d == IF target - actual < 0 THEN -(target - actual) ELSE target - actual
                IN  IF d > MaxPulses THEN MaxPulses ELSE d
    BY <1>4 DEF D!DecidePulses, D!delta, D!abs_delta
  <2>3. /\ goal' \in 0..MaxPulses
        /\ IF up' THEN actual + goal' <= MaxTarget ELSE goal' <= actual
    BY <2>1, <2>2
  <2>4. /\ i' = 0 /\ counter_main = "decide" /\ counter_main' = "pulse"
        /\ UNCHANGED <<target, actual, reset_cost, signalling, shown, was_reset>>
    BY <1>4 DEF D!DecidePulses
  <2>5. was_reset' => Believed'
    <3>1. actual \in Int /\ shown \in Int /\ actual + 0 = actual /\ actual - 0 = actual
      OBVIOUS
    <3>2. was_reset => shown = actual
      BY <2>4
    <3> QED
      BY <2>1, <2>4, <3>1, <3>2
  <2>6. CASE up'
    <3>1. actual + goal' <= MaxTarget
      BY <2>3, <2>6
    <3>2. was_reset' \in BOOLEAN /\ up' \in BOOLEAN
      BY <2>1, <2>4
    <3>3. goal' \in 0..MaxPulses /\ i' \in 0..goal'
      BY <2>3, <2>4
    <3> QED
      BY <2>4, <2>5, <2>6, <3>1, <3>2, <3>3
  <2>7. CASE ~up'
    BY <2>1, <2>3, <2>4, <2>5, <2>7
  <2> QED
    BY <2>1, <2>6, <2>7
<1>5. CASE D!Pulse
  BY <1>5 DEF D!Pulse
<1>6. CASE D!PulsesDone
  BY <1>6 DEF D!PulsesDone, D!WaitOrDecide
<1>7. CASE D!Woken
  BY <1>7 DEF D!Woken, D!WaitOrDecide
<1>8. ASSUME NEW c \in CounterCaller, NEW t \in D!Target, D!NewTarget(c, t)
      PROVE  CounterInv'
  BY <1>8 DEF D!NewTarget, D!Target, D!LockHeld
<1>9. ASSUME NEW c \in CounterCaller, NEW d \in -MaxTarget..MaxTarget, D!add(c, d)
      PROVE  CounterInv'
  <2>1. (IF d < 0 /\ target < -d THEN 0 ELSE target + d) \in D!Target
    BY <1>9 DEF D!add, D!Target
  <2> QED
    BY <1>8, <1>9, <2>1 DEF D!add
<1>10. ASSUME NEW c \in CounterCaller, D!Signal(c)
       PROVE  CounterInv'
  BY <1>10 DEF D!Signal
<1>11. ASSUME NEW cost \in ResetCosts, D!set_pause(cost)
       PROVE  CounterInv'
  BY <1>11 DEF D!set_pause
<1>12. CASE UNCHANGED counter
  BY <1>12 DEF counter
<1> QED
  BY <1>1, <1>2, <1>3, <1>4, <1>5, <1>6, <1>7, <1>8, <1>9, <1>10, <1>11, <1>12 DEF D!Next, D!set

\* So the counter shows its target when its thread sleeps.
LEMMA CounterHolds == CounterInv => D!ShowsTarget
BY DEF CounterInv, Believed, D!ShowsTarget

-----------------------------------------------------------------------------
(* Stepper                                                                  *)

\* The motor runs against its direction only at the jerk speed, and is disabled only
\* while its thread sleeps or is about to decide.
StepperInv ==
  /\ S!TypeOK
  /\ v # 0 /\ dir # S!Sign(v) => S!Abs(v) = jerk
  /\ enable = 1 => stepper_main \in {"asleep", "lock"}

\* Speeds are whole numbers up to the largest.
LEMMA StepperNumbers ==
  /\ MaxSpeed \in Nat /\ jerk \in 0..MaxSpeed /\ Accelerations \subseteq Nat
  /\ S!Velocity = -MaxSpeed..MaxSpeed
  /\ \A t \in S!TargetRead : target_v \in S!Velocity => t \in S!Velocity
BY NumbersAssumption DEF S!Velocity, S!TargetRead

\* The motor stands still at first.
LEMMA StepperInit == S!Init => StepperInv
<1> SUFFICES ASSUME S!Init
             PROVE StepperInv
  OBVIOUS
<1>1. halfway \in BOOLEAN
  BY DEF S!Init
<1> QED
  BY <1>1, StepperNumbers DEF S!Init, StepperInv, S!TypeOK

\* Every step of the motor's thread and of its callers keeps it.
LEMMA StepperStep == StepperInv /\ [S!Next]_stepper => StepperInv'
<1> SUFFICES ASSUME StepperInv, [S!Next]_stepper
             PROVE StepperInv'
  OBVIOUS
<1> USE StepperNumbers DEF StepperInv, S!TypeOK, S!Sign, S!Abs
<1>1. CASE S!Top
  BY <1>1 DEF S!Top
<1>2. CASE S!Stopped
  BY <1>2 DEF S!Stopped
<1>3. CASE S!SleepOrEnable
  BY <1>3 DEF S!SleepOrEnable
<1>4. CASE S!Grab
  <2>1. cur_target_v' \in S!Velocity
    BY <1>4 DEF S!Grab
  <2> QED
    BY <1>4, <2>1 DEF S!Grab
<1>5. CASE S!OneStep
  BY <1>5 DEF S!OneStep
<1>6. CASE S!Accelerate
  <2>1. CASE ~S!OffTarget
    BY <1>6, <2>1 DEF S!Accelerate
  <2>2. CASE S!OffTarget
    <3>1. PICK delta_v \in Accelerations :
            /\ v' = S!Clamped(v + S!Sign(cur_target_v) * delta_v)
            /\ dir' = IF v' >= 0 THEN 1 ELSE -1
      BY <1>6, <2>2 DEF S!Accelerate
    <3>2. v + S!Sign(cur_target_v) * delta_v = IF cur_target_v > 0 THEN v + delta_v ELSE v - delta_v
      BY DEF S!Sign
    <3>3. v' \in S!Velocity
      BY <2>2, <3>1, <3>2 DEF S!Clamped, S!OffTarget
    <3>4. dir' \in {-1, 1} /\ (v' # 0 => dir' = S!Sign(v'))
      BY <3>1, <3>3
    <3> QED
      BY <1>6, <3>3, <3>4 DEF S!Accelerate
  <2> QED
    BY <2>1, <2>2
<1>7. CASE S!SetSpeedBegin
  BY <1>7 DEF S!SetSpeedBegin
<1>8. ASSUME NEW s \in S!Velocity, S!SetSpeedEnd(s)
      PROVE  StepperInv'
  BY <1>8 DEF S!SetSpeedEnd
<1>9. CASE UNCHANGED stepper
  BY <1>9 DEF stepper
<1> QED
  BY <1>1, <1>2, <1>3, <1>4, <1>5, <1>6, <1>7, <1>8, <1>9 DEF S!Next

\* Both promises of the motor are part of it.
LEMMA StepperHolds == StepperInv => S!WrongWayOnlyAtJerk /\ S!EnabledWhenStepped
BY DEF StepperInv, S!WrongWayOnlyAtJerk, S!EnabledWhenStepped

-----------------------------------------------------------------------------
(* Lights                                                                   *)

\* What c, in set_all(wanted[c].on), has still to write are the last lights.
WritesLast(c, todo) ==
  /\ todo \in Seq(L!Write) /\ Len(todo) \in 1..n_lights
  /\ \A k \in 1..Len(todo) : todo[k] = <<(n_lights - Len(todo)) + k, wanted[c].on>>

\* The lights that c has written, if nobody disturbed it.
WrittenAs(c, n) == \A l \in L!Light : l <= n => lit[l] = wanted[c].on

\* What a caller has in hand: the writes that are left, and, unless it was disturbed,
\* the lights it has written as it wants them.
CallerInv(c) ==
  /\ caller[c] = "set_all" => wanted[c].kind = "none" /\ WritesLast(c, caller_todo[c])
  /\ c \notin disturbed =>
       /\ caller[c] = "set_all" => WrittenAs(c, n_lights - Len(caller_todo[c]))
       /\ caller[c] = "set_action" /\ wanted[c].kind = "none" => WrittenAs(c, n_lights)

\* After on() or off() the worker has no step in hand and every light is as told.
AsTold ==
  told # "any" =>
    /\ action.kind = "none" /\ worker # "step"
    /\ \A l \in L!Light : lit[l] = (told = "all_on")

\* An action on one light names a light.
OneHasALight(a) == a.kind = "one" => a.light \in L!Light

\* The four together.
LightsInv ==
  /\ L!TypeOK
  /\ OneHasALight(action) /\ \A c \in LightsCaller : OneHasALight(wanted[c])
  /\ \A c \in LightsCaller : CallerInv(c)
  /\ AsTold

\* There is a light, and lights are numbered.
LEMMA NLights == n_lights \in Nat /\ n_lights > 0 /\ L!Light = 1..n_lights
<1>1. n_lights \in Nat \ {0}
  BY NumbersAssumption
<1> QED
  BY <1>1 DEF L!Light

\* No action is an action of its own kind.
LEMMA NullIsAnAction == L!NULL \in L!Action /\ L!NULL.kind = "none"
BY DEF L!NULL, L!Action

\* Nothing is lit and nobody calls.
LEMMA LightsInit == L!Init => LightsInv
<1> SUFFICES ASSUME L!Init
             PROVE LightsInv
  OBVIOUS
<1>1. lit \in [L!Light -> BOOLEAN]
  BY DEF L!Init
<1>2. L!TypeOK
  BY <1>1, NullIsAnAction DEF L!Init, L!TypeOK
<1>3. \A c \in LightsCaller : CallerInv(c)
  BY DEF L!Init, CallerInv
<1>4. OneHasALight(action) /\ \A c \in LightsCaller : OneHasALight(wanted[c])
  BY NullIsAnAction DEF L!Init, OneHasALight
<1> QED
  BY <1>2, <1>3, <1>4 DEF L!Init, LightsInv, AsTold

\* The sequences of writes.
LEMMA SetAllWrites ==
  ASSUME NEW on \in BOOLEAN
  PROVE  /\ L!set_all(on) \in Seq(L!Write) /\ Len(L!set_all(on)) = n_lights
         /\ L!set_all(on) # <<>>
         /\ \A k \in 1..n_lights : L!set_all(on)[k] = <<k, on>>
<1>1. L!set_all(on) \in [1..n_lights -> L!Write]
  BY NLights DEF L!set_all, L!Write
<1>2. L!set_all(on) \in Seq(L!Write) /\ Len(L!set_all(on)) = n_lights
  BY <1>1, NLights
<1>3. L!set_all(on) # <<>>
  BY <1>2, NLights
<1> QED
  BY <1>2, <1>3, NLights DEF L!set_all

\* A step of an action computes its writes without touching what callers have.
LEMMA StepWrites ==
  ASSUME L!TypeOK, OneHasALight(action), L!WorkStep
  PROVE  /\ worker_todo' \in Seq(L!Write) /\ action' \in L!Action /\ OneHasALight(action')
         /\ worker = "ready" /\ worker' = "step" /\ action.kind # "none"
         /\ UNCHANGED <<lit, caller, caller_todo, wanted, told, disturbed>>
<1>a. action \in L!Action
  BY DEF L!TypeOK
<1>b. action.on \in BOOLEAN
  BY <1>a DEF L!Action
<1>c. action.light \in L!Light \cup {0}
  BY <1>a DEF L!Action
<1>d. action.light \in Nat
  BY <1>c, NLights
<1>1. action \in L!Action /\ action.on \in BOOLEAN /\ action.light \in L!Light \cup {0}
  BY <1>a, <1>b, <1>c
<1>2. /\ [action EXCEPT !.on = ~action.on] \in L!Action
      /\ [action EXCEPT !.on = ~action.on].kind = action.kind
      /\ [action EXCEPT !.on = ~action.on].light = action.light
  BY <1>1 DEF L!Action
<1>3. \A l \in L!Light : /\ [action EXCEPT !.light = l] \in L!Action
                         /\ [action EXCEPT !.light = l].light = l
  BY <1>1 DEF L!Action
<1>4. \A l \in L!Light, on \in BOOLEAN : <<l, on>> \in L!Write
  BY DEF L!Write
<1>5. ASSUME NEW l \in L!Light
      PROVE  Append(L!PickedOff, <<l, TRUE>>) \in Seq(L!Write)
  <2>1. CASE action.light = 0
    <3>1. L!PickedOff = <<>>
      BY <2>1 DEF L!PickedOff
    <3>2. <<l, TRUE>> \in L!Write
      BY <1>4
    <3> QED
      BY <3>1, <3>2, AppendProperties, EmptySeq
  <2>2. CASE action.light # 0
    <3>1. L!PickedOff = << <<action.light, FALSE>> >>
      BY <2>2 DEF L!PickedOff
    <3>2. <<action.light, FALSE>> \in L!Write /\ <<l, TRUE>> \in L!Write
      BY <1>1, <1>4, <2>2
    <3>3. << <<action.light, FALSE>> >> \in Seq(L!Write)
      BY <3>2
    <3> QED
      BY <3>1, <3>2, <3>3, AppendProperties
  <2> QED
    BY <2>1, <2>2
<1>6. CASE action.kind = "one" /\ L!step_BlinkOne
  <2>1. <<<<action.light, action.on>>>> \in Seq(L!Write)
    BY <1>1, <1>4, <1>6 DEF OneHasALight
  <2> QED
    BY <1>2, <1>6, <2>1 DEF L!step_BlinkOne, L!BeginStep, L!WorkStep, OneHasALight
<1>7. CASE action.kind = "all" /\ L!step_BlinkAll
  BY <1>1, <1>2, <1>7, SetAllWrites DEF L!step_BlinkAll, L!BeginStep, L!WorkStep, OneHasALight
<1>8. CASE action.kind = "random" /\ L!step_BlinkRandom
  BY <1>3, <1>5, <1>8 DEF L!step_BlinkRandom, L!BeginStep, L!WorkStep, OneHasALight
<1>9. CASE action.kind = "chase" /\ L!step_Chase
  <2>1. (action.light % n_lights) + 1 \in L!Light
    BY <1>d, NLights
  <2> QED
    BY <1>3, <1>5, <1>9, <2>1 DEF L!step_Chase, L!BeginStep, L!WorkStep, OneHasALight
<1> QED
  BY <1>6, <1>7, <1>8, <1>9 DEF L!WorkStep

\* A call of one of the public functions: it disturbs nobody and is not disturbed.
LEMMA CallKeeps ==
  ASSUME LightsInv, NEW c \in LightsCaller, NEW todo \in Seq(L!Write), NEW new \in L!Action,
         OneHasALight(new), L!Call(c, todo, new),
         \/ todo = <<>> /\ new.kind # "none"
         \/ todo = L!set_all(new.on) /\ new.kind = "none"
  PROVE  LightsInv'
<1>1. /\ caller \in [LightsCaller -> {"out", "set_all", "set_action"}]
      /\ caller_todo \in [LightsCaller -> Seq(L!Write)] /\ wanted \in [LightsCaller -> L!Action]
  BY DEF LightsInv, L!TypeOK
<1>2. /\ UNCHANGED <<lit, action, worker, worker_todo, told>>
      /\ caller' = [caller EXCEPT ![c] = IF todo = <<>> THEN "set_action" ELSE "set_all"]
      /\ caller_todo' = [caller_todo EXCEPT ![c] = todo]
      /\ wanted' = [wanted EXCEPT ![c] = new]
      /\ disturbed' = disturbed \ {c}
  BY DEF L!Call
<1>3. L!TypeOK'
  BY <1>1, <1>2 DEF LightsInv, L!TypeOK
<1>4. AsTold'
  BY <1>2 DEF LightsInv, AsTold
<1>5. (OneHasALight(action) /\ \A d \in LightsCaller : OneHasALight(wanted[d]))'
  BY <1>1, <1>2 DEF LightsInv, OneHasALight
<1>6. ASSUME NEW d \in LightsCaller
      PROVE  CallerInv(d)'
  <2>1. CASE d # c
    <3>1. /\ caller'[d] = caller[d] /\ caller_todo'[d] = caller_todo[d] /\ wanted'[d] = wanted[d]
          /\ d \in disturbed' <=> d \in disturbed
      BY <1>1, <1>2, <2>1
    <3> QED
      BY <1>2, <3>1 DEF LightsInv, CallerInv, WritesLast, WrittenAs
  <2>2. CASE d = c /\ todo = <<>> /\ new.kind # "none"
    <3>1. caller'[c] = "set_action" /\ wanted'[c] = new
      BY <1>1, <1>2, <2>2
    <3> QED
      BY <2>2, <3>1 DEF CallerInv
  <2>3. CASE d = c /\ todo = L!set_all(new.on) /\ new.kind = "none"
    <3>1. new.on \in BOOLEAN
      BY DEF L!Action
    <3>2. /\ Len(todo) = n_lights /\ todo # <<>>
          /\ \A k \in 1..n_lights : todo[k] = <<k, new.on>>
      BY <2>3, <3>1, SetAllWrites
    <3>3. caller'[c] = "set_all" /\ wanted'[c] = new /\ caller_todo'[c] = todo
      BY <1>1, <1>2, <3>2
    <3>4. WritesLast(c, caller_todo[c])'
      BY <3>2, <3>3, NLights DEF WritesLast
    <3>5. WrittenAs(c, n_lights - Len(caller_todo[c]))'
      BY <3>2, <3>3, NLights DEF WrittenAs
    <3> QED
      BY <2>3, <3>3, <3>4, <3>5 DEF CallerInv
  <2> QED
    BY <2>1, <2>2, <2>3
<1> QED
  BY <1>3, <1>4, <1>5, <1>6 DEF LightsInv

\* A caller in set_all() writes the next light.
LEMMA CallerWriteKeeps ==
  ASSUME LightsInv, NEW c \in LightsCaller, L!CallerWrite(c)
  PROVE  LightsInv'
<1> DEFINE todo == caller_todo[c]
<1>1. /\ caller \in [LightsCaller -> {"out", "set_all", "set_action"}]
      /\ caller_todo \in [LightsCaller -> Seq(L!Write)] /\ wanted \in [LightsCaller -> L!Action]
      /\ lit \in [L!Light -> BOOLEAN] /\ disturbed \subseteq LightsCaller
  BY DEF LightsInv, L!TypeOK
<1>2. wanted[c].kind = "none" /\ WritesLast(c, todo)
  BY DEF LightsInv, CallerInv, L!CallerWrite
<1>3. todo \in Seq(L!Write) /\ Len(todo) \in 1..n_lights
  BY <1>2 DEF WritesLast
<1>l. PICK l \in L!Light : l = (n_lights - Len(todo)) + 1
  <2>1. (n_lights - Len(todo)) + 1 \in L!Light
    BY <1>3, NLights
  <2> QED
    BY <2>1
<1>4. Head(todo) = <<l, wanted[c].on>>
  <2>1. Len(todo) >= 1 /\ todo # << >>
    BY <1>3
  <2>2. Head(todo) = todo[1]
    BY <1>3, <2>1, HeadTailProperties
  <2>3. todo[1] = <<(n_lights - Len(todo)) + 1, wanted[c].on>>
    BY <1>2, <1>3 DEF WritesLast
  <2> QED
    BY <1>l, <2>2, <2>3
<1>5. /\ Tail(todo) \in Seq(L!Write) /\ Len(Tail(todo)) = Len(todo) - 1
      /\ \A k \in 1..Len(todo) - 1 : Tail(todo)[k] = todo[k + 1]
  BY <1>3, HeadTailProperties
<1>6. wanted[c].on \in BOOLEAN
  <2>1. wanted[c] \in L!Action
    BY <1>1
  <2> QED
    BY <2>1 DEF L!Action
<1>h. Head(todo)[1] = l /\ Head(todo)[2] = wanted[c].on
  BY <1>4
<1>7. /\ lit' = [lit EXCEPT ![l] = wanted[c].on]
      /\ caller_todo' = [caller_todo EXCEPT ![c] = Tail(todo)]
      /\ caller' = [caller EXCEPT ![c] = IF Len(todo) = 1 THEN "set_action" ELSE caller[c]]
      /\ disturbed' = disturbed \cup {d \in LightsCaller \ {c} : caller[d] # "out"}
      /\ told' = "any" /\ caller[c] = "set_all"
      /\ UNCHANGED <<action, worker, worker_todo, wanted>>
  BY <1>h DEF L!CallerWrite
<1> HIDE DEF todo
<1>8. L!TypeOK'
  <2>1. lit' \in [L!Light -> BOOLEAN]
    BY <1>1, <1>6, <1>7
  <2>2. /\ caller' \in [LightsCaller -> {"out", "set_all", "set_action"}]
        /\ caller_todo' \in [LightsCaller -> Seq(L!Write)] /\ disturbed' \subseteq LightsCaller
    BY <1>1, <1>5, <1>7
  <2> QED
    BY <1>7, <2>1, <2>2 DEF LightsInv, L!TypeOK
<1>9. AsTold'
  BY <1>7 DEF AsTold
<1>10. (OneHasALight(action) /\ \A d \in LightsCaller : OneHasALight(wanted[d]))'
  BY <1>7 DEF LightsInv, OneHasALight
<1>11. ASSUME NEW d \in LightsCaller, d # c
       PROVE  CallerInv(d)'
  <2>1. /\ caller'[d] = caller[d] /\ caller_todo'[d] = caller_todo[d] /\ wanted'[d] = wanted[d]
        /\ caller[d] # "out" => d \in disturbed'
    BY <1>1, <1>7, <1>11
  <2> QED
    BY <2>1 DEF LightsInv, CallerInv, WritesLast
<1>12. CallerInv(c)'
  <2>1. wanted'[c] = wanted[c] /\ (c \in disturbed' <=> c \in disturbed)
    BY <1>1, <1>7
  <2>2. caller_todo'[c] = Tail(todo)
    BY <1>1, <1>7
  <2>3. ASSUME c \notin disturbed
        PROVE  WrittenAs(c, l)'
    <3>1. WrittenAs(c, n_lights - Len(todo))
      BY <1>7, <2>3 DEF LightsInv, CallerInv, todo
    <3>2. ASSUME NEW m \in L!Light, m <= l
          PROVE  lit'[m] = wanted[c].on
      <4>1. CASE m = l
        BY <1>1, <1>4, <1>7, <4>1
      <4>2. CASE m # l
        <5>1. m <= n_lights - Len(todo)
          BY <1>3, <1>l, <3>2, <4>2, NLights
        <5>2. lit[m] = wanted[c].on
          BY <3>1, <3>2, <5>1 DEF WrittenAs
        <5> QED
          BY <1>1, <1>7, <4>2, <5>2
      <4> QED
        BY <4>1, <4>2
    <3> QED
      BY <2>1, <3>2 DEF WrittenAs
  <2>4. CASE Len(todo) = 1
    <3>1. caller'[c] = "set_action"
      BY <1>1, <1>7, <2>4
    <3>2. l = n_lights
      BY <1>l, <2>4, NLights
    <3> QED
      BY <2>1, <2>3, <3>1, <3>2 DEF CallerInv
  <2>5. CASE Len(todo) # 1
    <3>1. caller'[c] = "set_all"
      BY <1>1, <1>7, <2>5
    <3>2. WritesLast(c, caller_todo[c])'
      <4>1. Len(Tail(todo)) \in 1..n_lights
        BY <1>3, <1>5, <2>5, NLights
      <4>2. ASSUME NEW k \in 1..Len(Tail(todo))
            PROVE  Tail(todo)[k] = <<(n_lights - Len(Tail(todo))) + k, wanted[c].on>>
        <5>1. k + 1 \in 1..Len(todo) /\ Tail(todo)[k] = todo[k + 1]
          BY <1>3, <1>5
        <5>2. todo[k + 1] = <<(n_lights - Len(todo)) + (k + 1), wanted[c].on>>
          BY <1>2, <5>1 DEF WritesLast
        <5>3. (n_lights - Len(todo)) + (k + 1) = (n_lights - Len(Tail(todo))) + k
          BY <1>3, <1>5, NLights
        <5> QED
          BY <5>1, <5>2, <5>3
      <4> QED
        BY <1>5, <2>1, <2>2, <4>1, <4>2 DEF WritesLast
    <3>3. n_lights - Len(Tail(todo)) = l
      BY <1>3, <1>5, <1>l, NLights
    <3>4. c \notin disturbed => WrittenAs(c, n_lights - Len(caller_todo[c]))'
      BY <2>2, <2>3, <3>3
    <3> QED
      BY <1>2, <2>1, <3>1, <3>2, <3>4 DEF CallerInv
  <2> QED
    BY <2>4, <2>5
<1> QED
  BY <1>8, <1>9, <1>10, <1>11, <1>12 DEF LightsInv

\* A caller sets the action, with the lock.
LEMMA SetActionKeeps ==
  ASSUME LightsInv, NEW c \in LightsCaller, L!set_action(c)
  PROVE  LightsInv'
<1>1. /\ caller \in [LightsCaller -> {"out", "set_all", "set_action"}]
      /\ wanted \in [LightsCaller -> L!Action]
      /\ worker \in {"ready", "waiting", "step", "sleep"}
  BY DEF LightsInv, L!TypeOK
<1>2. /\ caller[c] = "set_action" /\ worker # "step"
      /\ action' = IF wanted[c].kind = "none" THEN L!NULL ELSE wanted[c]
      /\ worker' = IF worker = "waiting" THEN "ready" ELSE worker
      /\ caller' = [caller EXCEPT ![c] = "out"]
      /\ told' = L!Said(c)
      /\ UNCHANGED <<lit, worker_todo, caller_todo, wanted, disturbed>>
  BY DEF L!set_action, L!LockHeld
<1>3. /\ action' \in L!Action /\ OneHasALight(action)'
      /\ wanted[c].kind = "none" => action'.kind = "none"
  BY <1>1, <1>2, NullIsAnAction DEF LightsInv, OneHasALight
<1>4. worker' \in {"ready", "waiting", "step", "sleep"} /\ worker' # "step"
  BY <1>1, <1>2
<1>5. L!TypeOK'
  <2>1. caller' \in [LightsCaller -> {"out", "set_all", "set_action"}]
    BY <1>1, <1>2
  <2>2. told' \in {"all_on", "all_off", "any"}
    BY <1>2 DEF L!Said
  <2> QED
    BY <1>2, <1>3, <1>4, <2>1, <2>2 DEF LightsInv, L!TypeOK
<1>6. (OneHasALight(action) /\ \A d \in LightsCaller : OneHasALight(wanted[d]))'
  BY <1>2, <1>3 DEF LightsInv, OneHasALight
<1>7. ASSUME NEW d \in LightsCaller
      PROVE  CallerInv(d)'
  <2>1. CASE d = c
    <3>1. caller'[c] = "out"
      BY <1>1, <1>2
    <3> QED
      BY <2>1, <3>1 DEF CallerInv
  <2>2. CASE d # c
    <3>1. caller'[d] = caller[d]
      BY <1>1, <1>2, <2>2
    <3> QED
      BY <1>2, <3>1 DEF LightsInv, CallerInv, WritesLast, WrittenAs
  <2> QED
    BY <2>1, <2>2
<1>8. AsTold'
  <2> SUFFICES ASSUME told' # "any"
               PROVE  /\ action'.kind = "none" /\ worker' # "step"
                      /\ \A l \in L!Light : lit'[l] = (told' = "all_on")
    BY DEF AsTold
  <2>1. wanted[c].kind = "none" /\ c \notin disturbed
    BY <1>2 DEF L!Said
  <2>2. wanted[c].on \in BOOLEAN
    <3>1. wanted[c] \in L!Action
      BY <1>1
    <3> QED
      BY <3>1 DEF L!Action
  <2>3. wanted[c].on = (told' = "all_on")
    <3>1. told' = IF wanted[c].on THEN "all_on" ELSE "all_off"
      BY <1>2, <2>1 DEF L!Said
    <3>2. "all_on" # "all_off"
      OBVIOUS
    <3> QED
      BY <2>2, <3>1, <3>2, Zenon
  <2>4. WrittenAs(c, n_lights)
    BY <1>2, <2>1 DEF LightsInv, CallerInv
  <2>5. \A l \in L!Light : lit'[l] = wanted[c].on
    BY <1>2, <2>4, NLights DEF WrittenAs
  <2> QED
    BY <1>3, <1>4, <2>1, <2>3, <2>5
<1> QED
  BY <1>5, <1>6, <1>7, <1>8 DEF LightsInv

\* The worker writes one of the lights of the step it is in.
LEMMA WorkWriteKeeps ==
  ASSUME LightsInv, L!WorkWrite
  PROVE  LightsInv'
<1>1. /\ worker = "step" /\ worker_todo # <<>>
      /\ lit' = [lit EXCEPT ![Head(worker_todo)[1]] = Head(worker_todo)[2]]
      /\ worker_todo' = Tail(worker_todo)
      /\ disturbed' = {c \in LightsCaller : caller[c] # "out"}
      /\ UNCHANGED <<action, worker, caller, caller_todo, wanted, told>>
  BY DEF L!WorkWrite
<1>2. told = "any"
  BY <1>1 DEF LightsInv, AsTold
<1>3. lit \in [L!Light -> BOOLEAN] /\ worker_todo \in Seq(L!Write)
  BY DEF LightsInv, L!TypeOK
<1>4. Head(worker_todo) \in L!Write /\ Tail(worker_todo) \in Seq(L!Write)
  BY <1>1, <1>3, HeadTailProperties
<1>5. Head(worker_todo)[1] \in L!Light /\ Head(worker_todo)[2] \in BOOLEAN
  BY <1>4 DEF L!Write
<1>6. lit' \in [L!Light -> BOOLEAN]
  BY <1>1, <1>3, <1>5
<1>7. disturbed' \subseteq LightsCaller
  BY <1>1
<1>8. L!TypeOK'
  BY <1>1, <1>4, <1>6, <1>7 DEF LightsInv, L!TypeOK
<1>9. AsTold'
  BY <1>1, <1>2 DEF AsTold
<1>10. (OneHasALight(action) /\ \A d \in LightsCaller : OneHasALight(wanted[d]))'
  BY <1>1 DEF LightsInv, OneHasALight
<1>11. ASSUME NEW d \in LightsCaller
       PROVE  CallerInv(d)'
  <2>1. caller[d] # "out" => d \in disturbed'
    BY <1>1
  <2> QED
    BY <1>1, <2>1 DEF LightsInv, CallerInv, WritesLast
<1> QED
  BY <1>8, <1>9, <1>10, <1>11 DEF LightsInv

\* Every step of the worker and of its callers keeps it.
LEMMA LightsStep == LightsInv /\ [L!Next]_lights => LightsInv'
<1> SUFFICES ASSUME LightsInv, [L!Next]_lights
             PROVE LightsInv'
  OBVIOUS
<1>1. ASSUME UNCHANGED <<lit, caller, caller_todo, wanted, told, disturbed>>,
             action' \in L!Action, OneHasALight(action)', worker_todo' \in Seq(L!Write),
             worker' \in {"ready", "waiting", "step", "sleep"},
             told # "any" => action'.kind = "none" /\ worker' # "step"
      PROVE  LightsInv'
  <2>1. L!TypeOK'
    BY <1>1 DEF LightsInv, L!TypeOK
  <2>2. \A c \in LightsCaller : CallerInv(c)'
    BY <1>1 DEF LightsInv, CallerInv, WritesLast, WrittenAs
  <2>3. AsTold'
    BY <1>1 DEF LightsInv, AsTold
  <2>4. (\A c \in LightsCaller : OneHasALight(wanted[c]))'
    BY <1>1 DEF LightsInv, OneHasALight
  <2> QED
    BY <1>1, <2>1, <2>2, <2>3, <2>4 DEF LightsInv
<1>2. CASE L!WorkStep
  <2>1. L!TypeOK /\ OneHasALight(action)
    BY DEF LightsInv
  <2>2. /\ worker_todo' \in Seq(L!Write) /\ action' \in L!Action /\ OneHasALight(action')
        /\ worker' = "step" /\ action.kind # "none"
        /\ UNCHANGED <<lit, caller, caller_todo, wanted, told, disturbed>>
    BY <1>2, <2>1, StepWrites
  <2>3. told = "any"
    BY <2>2 DEF LightsInv, AsTold
  <2> QED
    BY <1>1, <2>2, <2>3 DEF OneHasALight
<1>3. CASE L!WorkWait
  BY <1>1, <1>3 DEF LightsInv, L!TypeOK, AsTold, L!WorkWait, OneHasALight
<1>4. CASE L!WorkWrite
  BY <1>4, WorkWriteKeeps
<1>5. CASE L!WorkUnlock
  BY <1>1, <1>5 DEF LightsInv, L!TypeOK, AsTold, L!WorkUnlock, OneHasALight
<1>6. CASE L!WorkAwake
  BY <1>1, <1>6 DEF LightsInv, L!TypeOK, AsTold, L!WorkAwake, OneHasALight
<1>7. ASSUME NEW c \in LightsCaller, L!off(c) \/ L!on(c)
      PROVE  LightsInv'
  <2>1. CASE L!off(c)
    <3>1. L!Call(c, L!set_all(FALSE), L!NULL)
      BY <2>1 DEF L!off
    <3>2. L!NULL \in L!Action /\ L!NULL.on = FALSE /\ L!NULL.kind = "none"
      BY DEF L!NULL, L!Action
    <3>3. L!set_all(FALSE) \in Seq(L!Write)
      BY SetAllWrites
    <3> QED
      BY <3>1, <3>2, <3>3, CallKeeps DEF OneHasALight
  <2>2. CASE L!on(c)
    <3> DEFINE new == [L!NULL EXCEPT !.on = TRUE]
    <3>1. L!Call(c, L!set_all(TRUE), new)
      BY <2>2 DEF L!on
    <3>2. new \in L!Action /\ new.on = TRUE /\ new.kind = "none"
      BY DEF L!NULL, L!Action
    <3>3. L!set_all(TRUE) \in Seq(L!Write)
      BY SetAllWrites
    <3> HIDE DEF new
    <3> QED
      BY <3>1, <3>2, <3>3, CallKeeps DEF OneHasALight
  <2> QED
    BY <1>7, <2>1, <2>2
<1>8. ASSUME NEW c \in LightsCaller, NEW new \in L!Action, OneHasALight(new),
             new.kind # "none", L!Call(c, <<>>, new)
      PROVE  LightsInv'
  <2>1. << >> \in Seq(L!Write)
    OBVIOUS
  <2> QED
    BY <1>8, <2>1, CallKeeps
<1>9. ASSUME NEW c \in LightsCaller, L!blink_all(c) \/ L!blink_random(c) \/ L!chase(c)
      PROVE  LightsInv'
  <2>1. PICK kind \in {"all", "random", "chase"} :
          L!Call(c, <<>>, [kind |-> kind, on |-> TRUE, light |-> 0])
    BY <1>9 DEF L!blink_all, L!blink_random, L!chase
  <2>2. [kind |-> kind, on |-> TRUE, light |-> 0] \in L!Action
    BY DEF L!Action
  <2> QED
    BY <1>8, <2>1, <2>2 DEF OneHasALight
<1>10. ASSUME NEW c \in LightsCaller, NEW l \in L!Light, L!blink_one(c, l)
       PROVE  LightsInv'
  <2>1. [kind |-> "one", on |-> TRUE, light |-> l] \in L!Action
    BY DEF L!Action
  <2> QED
    BY <1>8, <1>10, <2>1 DEF OneHasALight, L!blink_one
<1>11. ASSUME NEW c \in LightsCaller, L!CallerWrite(c)
       PROVE  LightsInv'
  BY <1>11, CallerWriteKeeps
<1>12. ASSUME NEW c \in LightsCaller, L!set_action(c)
       PROVE  LightsInv'
  BY <1>12, SetActionKeeps
<1>13. CASE UNCHANGED lights
  BY <1>1, <1>13 DEF LightsInv, L!TypeOK, AsTold, lights, OneHasALight
<1> QED
  BY <1>2, <1>3, <1>4, <1>5, <1>6, <1>7, <1>9, <1>10, <1>11, <1>12, <1>13 DEF L!Next

\* So lights stay as they were told.
LEMMA LightsHolds == LightsInv => L!AllAsTold
BY DEF LightsInv, AsTold, L!AllAsTold

-----------------------------------------------------------------------------
(* Touchscreen                                                              *)

\* No two touches have one id.
DistinctIds(seq) == \A q, j \in 1..Len(seq) : seq[q].id = seq[j].id => q = j

\* The handler sleeps only untouched, the level that is read is that of the pin unless
\* an edge is pending, no two touches have one id, and those announced are those kept.
ScreenInv ==
  /\ T!TypeOK
  /\ ~notified => /\ notifier = "paused" => is_touched = pin
                  /\ notifier = "set" => level = pin
  /\ handler = "asleep" => ~is_touched
  /\ DistinctIds(touches)
  /\ T!AnnouncedIsTouched

\* Two touches, and ids enough for those of two reports.
LEMMA ScreenNumbers ==
  /\ Place \subseteq Nat /\ T!MAX_TOUCHES = 2
  /\ IsFiniteSet(Id) /\ Cardinality(Id) \in Nat /\ Cardinality(Id) >= 4
<1>1. T!MAX_TOUCHES = 2
  BY DEF T!MAX_TOUCHES
<1>2. Place \subseteq Nat
  BY NumbersAssumption
<1>3. IsFiniteSet(Id) /\ Cardinality(Id) >= 2 * T!MAX_TOUCHES
  BY IdsAssumption
<1>4. Cardinality(Id) \in Nat
  BY <1>3, FS_CardinalityType
<1> QED
  BY <1>1, <1>2, <1>3, <1>4

\* Nobody touches the screen at first.
LEMMA ScreenInit == T!Init => ScreenInv
<1> SUFFICES ASSUME T!Init
             PROVE ScreenInv
  OBVIOUS
<1>1. touches = <<>> /\ Len(touches) = 0 /\ touches \in Seq(T!Touch) /\ 1..0 = {} /\ DOMAIN touches = {}
  BY DEF T!Init
<1>2. T!TypeOK
  <2>1. pin \in BOOLEAN /\ notified \in BOOLEAN /\ level \in BOOLEAN /\ is_touched \in BOOLEAN
        /\ failed \in BOOLEAN
    BY DEF T!Init
  <2>2. Len(touches) <= T!MAX_TOUCHES
    BY <1>1, ScreenNumbers
  <2> QED
    BY <1>1, <2>1, <2>2 DEF T!Init, T!TypeOK
<1>3. DistinctIds(touches)
  BY <1>1 DEF DistinctIds
<1>4. T!AnnouncedIsTouched
  BY <1>1 DEF T!Init, T!AnnouncedIsTouched
<1> QED
  BY <1>2, <1>3, <1>4 DEF T!Init, ScreenInv

\* What the loop over the current touches has made of the old ones after k turns.
SeenSoFar(s, k) ==
  /\ s \in [seq : Seq(T!Touch), seen : SUBSET (1..Len(touches)), announced : SUBSET Id]
  /\ Len(s.seq) \in Len(touches)..(Len(touches) + k)
  /\ IsFiniteSet(T!Kept(s)) /\ Cardinality(T!Kept(s)) <= k
  /\ \A q \in 1..Len(touches) : s.seq[q].id = touches[q].id
  /\ DistinctIds(s.seq)
  /\ s.announced = announced \cup {s.seq[q].id : q \in (Len(touches) + 1)..Len(s.seq)}

\* An id is left for a new touch.
LEMMA FreshIdIsFresh ==
  ASSUME NEW seq \in Seq(T!Touch), Len(seq) <= 3
  PROVE  T!FreshId(seq) \in Id /\ \A q \in 1..Len(seq) : seq[q].id # T!FreshId(seq)
<1>1. Len(seq) \in Nat /\ DOMAIN seq = 1..Len(seq)
  OBVIOUS
<1> DEFINE used == {seq[q].id : q \in 1..Len(seq)}
<1>2. IsFiniteSet(1..Len(seq)) /\ Cardinality(1..Len(seq)) = Len(seq)
  <2> DEFINE m == Len(seq)
  <2>1. 1 \in Int /\ m \in Int /\ m \in Nat
    BY <1>1
  <2> HIDE DEF m
  <2>2. IsFiniteSet(1..m) /\ Cardinality(1..m) = IF 1 > m THEN 0 ELSE m - 1 + 1
    BY <2>1, FS_Interval
  <2>3. Cardinality(1..m) = m
    BY <2>1, <2>2
  <2> QED
    BY <2>2, <2>3 DEF m
<1>3. IsFiniteSet(used) /\ Cardinality(used) <= Len(seq)
  <2> DEFINE f == [q \in 1..Len(seq) |-> seq[q].id]
  <2>1. f \in Surjection(1..Len(seq), used)
    BY DEF Surjection
  <2> HIDE DEF f, used
  <2> QED
    BY <1>2, <2>1, FS_Surjection
<1>4. ~(Id \subseteq used)
  <2> SUFFICES ASSUME Id \subseteq used PROVE FALSE
    OBVIOUS
  <2>1. Cardinality(Id) <= Cardinality(used)
    BY <1>3, FS_Subset
  <2>2. Cardinality(used) \in Nat
    BY <1>3, FS_CardinalityType
  <2> QED
    BY <1>1, <1>3, <2>1, <2>2, ScreenNumbers
<1>5. \E id \in Id : \A k \in DOMAIN seq : seq[k].id # id
  BY <1>1, <1>4
<1> QED
  BY <1>1, <1>5 DEF T!FreshId

\* A place continues an old touch or none.
LEMMA ContinuedIsOld ==
  ASSUME NEW old \in Seq(T!Touch), NEW p \in Place
  PROVE  T!Continued(old, p) \in 0..Len(old)
<1> DEFINE same == {j \in DOMAIN old : T!is_same_point(p, old[j].at)}
<1>1. same \subseteq 1..Len(old) /\ Len(old) \in Nat
  OBVIOUS
<1>2. CASE same = {}
  <2>1. T!Continued(old, p) = 0
    BY <1>2 DEF T!Continued
  <2> QED
    BY <1>1, <2>1
<1>3. CASE same # {}
  <2>1. T!Continued(old, p) = CHOOSE j \in same : \A k \in same : j <= k
    BY <1>3 DEF T!Continued
  <2> HIDE DEF same
  <2>2. same \subseteq Nat
    BY <1>1
  <2>3. \E j \in same : \A k \in same : j <= k
    BY <1>3, <2>2, LeastNatural
  <2>4. T!Continued(old, p) \in same
    BY <2>1, <2>3
  <2>5. T!Continued(old, p) \in 1..Len(old)
    BY <1>1, <2>4
  <2>6. 1..Len(old) \subseteq 0..Len(old)
    OBVIOUS
  <2> QED
    BY <2>5, <2>6
<1> QED
  BY <1>2, <1>3

\* One more turn of the loop over the current touches.
LEMMA SeeKeeps ==
  ASSUME T!TypeOK, NEW k \in 0..1, NEW s, SeenSoFar(s, k), NEW p \in Place
  PROVE  SeenSoFar(T!See(s, p), k + 1)
<1> DEFINE n == Len(touches)
           j == T!Continued(SubSeq(s.seq, 1, n), p)
           id == T!FreshId(s.seq)
           t == T!See(s, p)
<1>1. n \in Nat /\ n <= 2
  BY ScreenNumbers DEF T!TypeOK
<1>2. /\ s.seq \in Seq(T!Touch) /\ s.seen \subseteq 1..n /\ s.announced \subseteq Id
      /\ Len(s.seq) \in n..(n + k)
  BY DEF SeenSoFar
<1>3. SubSeq(s.seq, 1, n) \in Seq(T!Touch) /\ Len(SubSeq(s.seq, 1, n)) = n
  <2>1. n <= Len(s.seq) /\ Len(s.seq) \in Nat
    BY <1>1, <1>2
  <2>2. \A q \in 1..n : s.seq[q] \in T!Touch
    BY <1>1, <1>2, <2>1
  <2> HIDE DEF n
  <2> QED
    BY <1>1, <1>2, <2>1, <2>2, SubSeqProperties
<1>4. j \in 0..n
  BY <1>3, ContinuedIsOld
<1> HIDE DEF n, j, id
<1>5. CASE j # 0
  <2>0. t = [s EXCEPT !.seq[j].at = p, !.seen = s.seen \cup {j}]
    BY <1>5 DEF T!See, j, n
  <2>1. /\ t \in [seq : {[s.seq EXCEPT ![j].at = p]}, seen : {s.seen \cup {j}}, announced : {s.announced}]
    BY <2>0 DEF SeenSoFar
  <2> HIDE DEF t
  <2>2. t.seq = [s.seq EXCEPT ![j].at = p] /\ t.seen = s.seen \cup {j} /\ t.announced = s.announced
    BY <2>1
  <2>3. j \in 1..n /\ j \in 1..Len(s.seq) /\ s.seq[j] \in T!Touch
    BY <1>1, <1>2, <1>4, <1>5
  <2>4. [s.seq[j] EXCEPT !.at = p] \in T!Touch /\ [s.seq[j] EXCEPT !.at = p].id = s.seq[j].id
    BY <2>3 DEF T!Touch
  <2>5. /\ t.seq \in Seq(T!Touch) /\ Len(t.seq) = Len(s.seq)
        /\ \A q \in 1..Len(s.seq) : t.seq[q].id = s.seq[q].id
    <3>1. t.seq = [s.seq EXCEPT ![j] = [s.seq[j] EXCEPT !.at = p]]
      BY <2>2
    <3>2. t.seq \in Seq(T!Touch) /\ Len(t.seq) = Len(s.seq)
      BY <1>2, <2>3, <2>4, <3>1, ExceptSeq
    <3> QED
      BY <1>2, <2>3, <2>4, <3>1, <3>2, ExceptSeq
  <2>6. T!Kept(t) = T!Kept(s) \cup {j}
    BY <2>2, <2>5 DEF T!Kept
  <2>7. IsFiniteSet(T!Kept(t)) /\ Cardinality(T!Kept(t)) <= k + 1
    <3>1. IsFiniteSet(T!Kept(s)) /\ Cardinality(T!Kept(s)) <= k /\ Cardinality(T!Kept(s)) \in Nat
      BY FS_CardinalityType DEF SeenSoFar
    <3>2. /\ IsFiniteSet(T!Kept(s) \cup {j})
          /\ \/ Cardinality(T!Kept(s) \cup {j}) = Cardinality(T!Kept(s))
             \/ Cardinality(T!Kept(s) \cup {j}) = Cardinality(T!Kept(s)) + 1
      BY <3>1, FS_AddElement
    <3> QED
      BY <2>6, <3>1, <3>2
  <2>8. t \in [seq : Seq(T!Touch), seen : SUBSET (1..n), announced : SUBSET Id]
    BY <1>2, <2>1, <2>2, <2>3, <2>5
  <2>9. DistinctIds(t.seq)
    BY <2>5 DEF SeenSoFar, DistinctIds
  <2>10. t.announced = announced \cup {t.seq[q].id : q \in (n + 1)..Len(t.seq)}
    <3>1. \A q \in (n + 1)..Len(t.seq) : t.seq[q].id = s.seq[q].id
      BY <1>1, <1>2, <2>5
    <3>2. {t.seq[q].id : q \in (n + 1)..Len(t.seq)} = {s.seq[q].id : q \in (n + 1)..Len(s.seq)}
      BY <2>5, <3>1
    <3> QED
      BY <2>2, <3>2 DEF SeenSoFar, n
  <2>11. Len(t.seq) \in n..(n + (k + 1))
    BY <1>1, <1>2, <2>5
  <2>12. \A q \in 1..n : t.seq[q].id = touches[q].id
    BY <1>1, <1>2, <2>5 DEF SeenSoFar, n
  <2> QED
    BY <2>7, <2>8, <2>9, <2>10, <2>11, <2>12 DEF SeenSoFar, n, t
<1>6. CASE j = 0
  <2> DEFINE new == [id |-> id, at |-> p]
  <2>0. t = [s EXCEPT !.seq = Append(s.seq, new), !.announced = s.announced \cup {id}]
    <3>1. T!See(s, p) =
            IF j # 0 THEN [s EXCEPT !.seq[j].at = p, !.seen = s.seen \cup {j}]
            ELSE [s EXCEPT !.seq = Append(s.seq, new), !.announced = s.announced \cup {id}]
      BY Zenon DEF T!See, j, n, id
    <3> HIDE DEF new
    <3> QED
      BY <1>6, <3>1, Zenon
  <2> HIDE DEF t, new
  <2>r. s \in [seq : Seq(T!Touch), seen : SUBSET (1..n), announced : SUBSET Id]
    BY DEF SeenSoFar, n
  <2>2. t.seq = Append(s.seq, new) /\ t.seen = s.seen /\ t.announced = s.announced \cup {id}
    BY <2>0, <2>r
  <2>1. DOMAIN t = {"seq", "seen", "announced"} /\ t = [x \in DOMAIN t |-> t[x]]
    BY <2>0, <2>r
  <2>3. id \in Id /\ \A q \in 1..Len(s.seq) : s.seq[q].id # id
    <3>1. Len(s.seq) <= 3
      BY <1>1, <1>2
    <3> QED
      BY <1>2, <3>1, FreshIdIsFresh DEF id
  <2>4. new \in T!Touch /\ new.id = id
    BY <2>3 DEF T!Touch, new
  <2>5. /\ t.seq \in Seq(T!Touch) /\ Len(t.seq) = Len(s.seq) + 1
        /\ \A q \in 1..Len(s.seq) : t.seq[q] = s.seq[q]
        /\ t.seq[Len(s.seq) + 1] = new
    BY <1>2, <2>2, <2>4, AppendProperties
  <2>6. T!Kept(t) = T!Kept(s) \cup {Len(s.seq) + 1}
    <3>1. (n + 1)..(Len(s.seq) + 1) = ((n + 1)..Len(s.seq)) \cup {Len(s.seq) + 1}
      BY <1>1, <1>2
    <3> QED
      BY <2>2, <2>5, <3>1 DEF T!Kept, n
  <2>7. IsFiniteSet(T!Kept(t)) /\ Cardinality(T!Kept(t)) <= k + 1
    <3>1. IsFiniteSet(T!Kept(s)) /\ Cardinality(T!Kept(s)) <= k /\ Cardinality(T!Kept(s)) \in Nat
      BY FS_CardinalityType DEF SeenSoFar
    <3> DEFINE last == Len(s.seq) + 1
    <3> HIDE DEF last
    <3>2. /\ IsFiniteSet(T!Kept(s) \cup {last})
          /\ \/ Cardinality(T!Kept(s) \cup {last}) = Cardinality(T!Kept(s))
             \/ Cardinality(T!Kept(s) \cup {last}) = Cardinality(T!Kept(s)) + 1
      BY <3>1, FS_AddElement
    <3> QED
      BY <2>6, <3>1, <3>2 DEF last
  <2>8. t \in [seq : Seq(T!Touch), seen : SUBSET (1..n), announced : SUBSET Id]
    BY <1>2, <2>1, <2>2, <2>3, <2>5
  <2>9. DistinctIds(t.seq)
    <3> SUFFICES ASSUME NEW a \in 1..Len(t.seq), NEW b \in 1..Len(t.seq), t.seq[a].id = t.seq[b].id
                 PROVE a = b
      BY DEF DistinctIds
    <3>1. CASE a \in 1..Len(s.seq) /\ b \in 1..Len(s.seq)
      BY <2>5, <3>1 DEF SeenSoFar, DistinctIds
    <3>2. a = Len(s.seq) + 1 \/ a \in 1..Len(s.seq)
      BY <1>1, <1>2, <2>5
    <3>3. b = Len(s.seq) + 1 \/ b \in 1..Len(s.seq)
      BY <1>1, <1>2, <2>5
    <3> QED
      BY <2>3, <2>4, <2>5, <3>1, <3>2, <3>3
  <2>10. t.announced = announced \cup {t.seq[q].id : q \in (n + 1)..Len(t.seq)}
    <3>0. (n + 1)..(Len(s.seq) + 1) = ((n + 1)..Len(s.seq)) \cup {Len(s.seq) + 1}
      BY <1>1, <1>2
    <3>1. (n + 1)..Len(t.seq) = ((n + 1)..Len(s.seq)) \cup {Len(s.seq) + 1}
      BY <2>5, <3>0
    <3>2. \A q \in (n + 1)..Len(s.seq) : t.seq[q].id = s.seq[q].id
      BY <1>1, <1>2, <2>5
    <3>3. {t.seq[q].id : q \in (n + 1)..Len(t.seq)} =
            {s.seq[q].id : q \in (n + 1)..Len(s.seq)} \cup {id}
      <4>1. t.seq[Len(s.seq) + 1].id = id
        BY <2>4, <2>5
      <4> DEFINE old == (n + 1)..Len(s.seq)
                 all == (n + 1)..Len(t.seq)
                 last == Len(s.seq) + 1
      <4>2. all = old \cup {last} /\ t.seq[last].id = id
            /\ \A q \in old : t.seq[q].id = s.seq[q].id
        BY <3>1, <3>2, <4>1
      <4> HIDE DEF old, all, last, t, id
      <4>3. {t.seq[q].id : q \in all} = {s.seq[q].id : q \in old} \cup {id}
        BY <4>2
      <4> QED
        BY <4>3 DEF old, all
    <3> QED
      BY <2>2, <3>3 DEF SeenSoFar, n
  <2>11. Len(t.seq) \in n..(n + (k + 1))
    <3>1. Len(s.seq) + 1 \in n..(n + (k + 1))
      BY <1>1, <1>2
    <3> QED
      BY <2>5, <3>1
  <2>12. \A q \in 1..n : t.seq[q].id = touches[q].id
    BY <1>1, <1>2, <2>5 DEF SeenSoFar, n
  <2> QED
    BY <2>7, <2>8, <2>9, <2>10, <2>11, <2>12 DEF SeenSoFar, n, t
<1> QED
  BY <1>5, <1>6

\* The first n turns of the loop over the current touches.
TurnsUpTo(f, current, n) ==
  f = [q \in 0..n |-> IF q = 0 THEN [seq |-> touches, seen |-> {}, announced |-> announced]
                      ELSE T!See(f[q - 1], current[q])]

\* The recursion of Seen defines a function.
LEMMA TurnsExist ==
  ASSUME NEW current, NEW n \in Nat
  PROVE  \E f : TurnsUpTo(f, current, n)
<1> DEFINE None == {k \in Nat : ~ \E f : TurnsUpTo(f, current, k)}
           first == [seq |-> touches, seen |-> {}, announced |-> announced]
<1>1. SUFFICES None = {}
  OBVIOUS
<1>2. SUFFICES ASSUME NEW k \in None, \A j \in None : k <= j PROVE FALSE
  BY LeastNatural
<1>3. k # 0
  <2>1. TurnsUpTo([q \in 0..0 |-> first], current, 0)
    BY DEF TurnsUpTo
  <2> QED
    BY <2>1
<1>4. k - 1 \in Nat /\ k - 1 \notin None
  BY <1>2, <1>3
<1>5. PICK g : TurnsUpTo(g, current, k - 1)
  BY <1>4
<1> DEFINE last == T!See(g[k - 1], current[k])
           f == [q \in 0..k |-> IF q = k THEN last ELSE g[q]]
<1>6. TurnsUpTo(f, current, k)
  <2> HIDE DEF first, last
  <2>1. ASSUME NEW q \in 0..k
        PROVE  f[q] = IF q = 0 THEN first ELSE T!See(f[q - 1], current[q])
    <3>1. CASE q = k
      <4>1. f[q] = last /\ f[q - 1] = g[k - 1]
        BY <1>3, <1>4, <3>1
      <4> QED
        BY <1>3, <3>1, <4>1 DEF last
    <3>2. CASE q # k
      <4>1. q \in 0..(k - 1) /\ f[q] = g[q]
        BY <1>4, <3>2
      <4>2. q # 0 => f[q - 1] = g[q - 1]
        BY <1>4, <3>2
      <4>3. g[q] = IF q = 0 THEN first ELSE T!See(g[q - 1], current[q])
        BY <1>5, <4>1 DEF TurnsUpTo, first
      <4> QED
        BY <4>1, <4>2, <4>3
    <3> QED
      BY <3>1, <3>2
  <2> QED
    BY <2>1 DEF TurnsUpTo, first
<1> QED
  BY <1>2, <1>6

\* What one report has made of the touches.
LEMMA SeenIsSeen ==
  ASSUME T!TypeOK, DistinctIds(touches), NEW current \in Seq(Place), Len(current) <= 2
  PROVE  SeenSoFar(T!Seen(current), Len(current))
<1> DEFINE first == [seq |-> touches, seen |-> {}, announced |-> announced]
           turn == CHOOSE f : TurnsUpTo(f, current, Len(current))
<1>1. Len(current) \in 0..2 /\ TurnsUpTo(turn, current, Len(current))
  <2>1. Len(current) \in Nat
    OBVIOUS
  <2>2. \E f : TurnsUpTo(f, current, Len(current))
    BY <2>1, TurnsExist
  <2>3. TurnsUpTo(turn, current, Len(current))
    BY <2>2
  <2> DEFINE many == Len(current)
  <2>4. many \in Nat /\ many <= 2
    BY <2>1
  <2> HIDE DEF many
  <2>5. many \in 0..2
    BY <2>4
  <2> QED
    BY <2>3, <2>5, Zenon DEF many
<1>2. T!Seen(current) = turn[Len(current)]
  BY DEF T!Seen, TurnsUpTo
<1> HIDE DEF turn
<1>3. ASSUME NEW q \in 0..Len(current)
      PROVE  turn[q] = IF q = 0 THEN first ELSE T!See(turn[q - 1], current[q])
  BY <1>1, <1>3 DEF TurnsUpTo
<1>4. SeenSoFar(first, 0)
  <2>1. Len(touches) \in Nat /\ touches \in Seq(T!Touch) /\ announced \in SUBSET Id
    BY DEF T!TypeOK
  <2>2. T!Kept(first) = {}
    BY <2>1 DEF T!Kept
  <2>3. IsFiniteSet({}) /\ Cardinality({}) = 0
    BY FS_EmptySet
  <2>4. {touches[q].id : q \in (Len(touches) + 1)..Len(touches)} = {}
    BY <2>1
  <2>5. /\ first \in [seq : Seq(T!Touch), seen : SUBSET (1..Len(touches)), announced : SUBSET Id]
        /\ first.seq = touches /\ first.announced = announced
    BY <2>1
  <2> HIDE DEF first
  <2> QED
    BY <2>1, <2>2, <2>3, <2>4, <2>5 DEF SeenSoFar
<1> HIDE DEF first
<1>5. SeenSoFar(turn[0], 0)
  BY <1>1, <1>3, <1>4
<1>6. ASSUME NEW q \in 0..1, q + 1 <= Len(current), SeenSoFar(turn[q], q)
      PROVE  SeenSoFar(turn[q + 1], q + 1)
  <2>1. q + 1 \in 0..Len(current) /\ q + 1 # 0 /\ (q + 1) - 1 = q
    BY <1>1, <1>6
  <2>2. turn[q + 1] = T!See(turn[q], current[q + 1])
    <3>1. turn[q + 1] = IF q + 1 = 0 THEN first ELSE T!See(turn[(q + 1) - 1], current[q + 1])
      BY <1>3, <2>1
    <3> QED
      BY <2>1, <3>1, Zenon
  <2>3. current[q + 1] \in Place
    BY <1>1, <1>6, <2>1
  <2>4. SeenSoFar(T!See(turn[q], current[q + 1]), q + 1)
    BY <1>6, <2>3, SeeKeeps
  <2> QED
    BY <2>2, <2>4
<1>7. CASE Len(current) = 0
  BY <1>2, <1>5, <1>7
<1>8. Len(current) >= 1 => SeenSoFar(turn[1], 1)
  <2>1. 0 \in 0..1 /\ 0 + 1 = 1
    OBVIOUS
  <2> QED
    BY <1>5, <1>6, <2>1
<1>9. CASE Len(current) = 1
  BY <1>2, <1>8, <1>9
<1>10. CASE Len(current) = 2
  <2>1. 1 \in 0..1 /\ 1 + 1 = 2
    OBVIOUS
  <2>2. SeenSoFar(turn[2], 2)
    BY <1>6, <1>8, <1>10, <2>1
  <2> QED
    BY <1>2, <1>10, <2>2
<1> QED
  BY <1>1, <1>7, <1>9, <1>10

\* The first n turns of the loop that moves the kept touches up.
MovedUpTo(f, s, n) ==
  f = [q \in 0..n |-> IF q = 0 THEN <<>>
                      ELSE IF q \in T!Kept(s) THEN Append(f[q - 1], s.seq[q]) ELSE f[q - 1]]

\* The recursion of MovedUp defines a function.
LEMMA MovedUpExists ==
  ASSUME NEW s, NEW n \in Nat
  PROVE  \E f : MovedUpTo(f, s, n)
<1> DEFINE None == {k \in Nat : ~ \E f : MovedUpTo(f, s, k)}
<1>1. SUFFICES None = {}
  OBVIOUS
<1>2. SUFFICES ASSUME NEW k \in None, \A j \in None : k <= j PROVE FALSE
  BY LeastNatural
<1>3. k # 0
  <2>1. MovedUpTo([q \in 0..0 |-> <<>>], s, 0)
    BY DEF MovedUpTo
  <2> QED
    BY <2>1
<1>4. k - 1 \in Nat /\ k - 1 \notin None
  BY <1>2, <1>3
<1>5. PICK g : MovedUpTo(g, s, k - 1)
  BY <1>4
<1> DEFINE last == IF k \in T!Kept(s) THEN Append(g[k - 1], s.seq[k]) ELSE g[k - 1]
           f == [q \in 0..k |-> IF q = k THEN last ELSE g[q]]
<1>6. MovedUpTo(f, s, k)
  <2>1. ASSUME NEW q \in 0..k
        PROVE  f[q] = IF q = 0 THEN <<>>
                      ELSE IF q \in T!Kept(s) THEN Append(f[q - 1], s.seq[q]) ELSE f[q - 1]
    <3>1. CASE q = k
      <4>1. f[q] = last /\ f[q - 1] = g[k - 1]
        BY <1>3, <1>4, <3>1
      <4> QED
        BY <1>3, <3>1, <4>1
    <3>2. CASE q # k
      <4>1. q \in 0..(k - 1) /\ f[q] = g[q]
        BY <1>4, <3>2
      <4>2. q # 0 => f[q - 1] = g[q - 1]
        BY <1>4, <3>2
      <4>3. g[q] = IF q = 0 THEN <<>>
                   ELSE IF q \in T!Kept(s) THEN Append(g[q - 1], s.seq[q]) ELSE g[q - 1]
        BY <1>5, <4>1 DEF MovedUpTo
      <4> QED
        BY <4>1, <4>2, <4>3
    <3> QED
      BY <3>1, <3>2
  <2> QED
    BY <2>1 DEF MovedUpTo
<1> QED
  BY <1>2, <1>6

\* The touches kept, and no others, in at most as many places as were touched.
KeptIn(moved, s, k) ==
  /\ moved \in Seq(T!Touch) /\ Len(moved) <= k /\ DistinctIds(moved)
  /\ {moved[q].id : q \in 1..Len(moved)} = {s.seq[q].id : q \in T!Kept(s)}

\* Moving up the kept touches loses none and repeats none.
LEMMA MovedUpKeeps ==
  ASSUME NEW k \in Nat, NEW s, SeenSoFar(s, k), T!TypeOK
  PROVE  KeptIn(T!MovedUp(s), s, k)
<1> DEFINE kept == T!Kept(s)
           m == Len(s.seq)
           sofar == CHOOSE f : MovedUpTo(f, s, m)
<1>1. s.seq \in Seq(T!Touch) /\ m \in Nat /\ s.seen \subseteq 1..Len(touches) /\ Len(touches) \in Nat
      /\ Len(touches) <= m
  BY DEF SeenSoFar, T!TypeOK
<1>2. MovedUpTo(sofar, s, m)
  BY <1>1, MovedUpExists
<1>3. T!MovedUp(s) = sofar[m]
  BY DEF T!MovedUp, MovedUpTo
<1>4. kept \subseteq 1..m /\ IsFiniteSet(kept) /\ Cardinality(kept) <= k
  BY <1>1 DEF SeenSoFar, T!Kept
<1> HIDE DEF kept, m, sofar
<1>5. /\ sofar[0] = <<>>
      /\ \A q \in 1..m : sofar[q] = IF q \in kept THEN Append(sofar[q - 1], s.seq[q]) ELSE sofar[q - 1]
  <2>1. ASSUME NEW q \in 0..m
        PROVE  sofar[q] = IF q = 0 THEN <<>>
                       ELSE IF q \in kept THEN Append(sofar[q - 1], s.seq[q]) ELSE sofar[q - 1]
    BY <1>2, <2>1 DEF MovedUpTo, kept
  <2> QED
    BY <1>1, <2>1
<1> DEFINE Good(n) == /\ sofar[n] \in Seq(T!Touch)
                      /\ Len(sofar[n]) = Cardinality(kept \cap (1..n))
                      /\ \A a \in 1..Len(sofar[n]) : \E q \in kept \cap (1..n) : sofar[n][a] = s.seq[q]
                      /\ \A q \in kept \cap (1..n) : \E a \in 1..Len(sofar[n]) : sofar[n][a] = s.seq[q]
                      /\ DistinctIds(sofar[n])
           Bad == {n \in 0..m : ~Good(n)}
<1>6. Good(0)
  <2>1. sofar[0] = <<>> /\ 1..0 = {} /\ Len(sofar[0]) = 0 /\ kept \cap (1..0) = {}
    BY <1>5
  <2>2. Cardinality({}) = 0
    BY FS_EmptySet
  <2> QED
    BY <2>1, <2>2 DEF DistinctIds
<1> HIDE DEF Good
<1>7. Bad = {}
  <2>1. SUFFICES ASSUME Bad # {} PROVE FALSE
    OBVIOUS
  <2>2. Bad \subseteq Nat
    BY <1>1
  <2>3. PICK n \in Bad : \A j \in Bad : n <= j
    BY <2>1, <2>2, LeastNatural
  <2>4. n # 0
    BY <1>6, <2>3
  <2>5. n - 1 \in 0..m /\ Good(n - 1)
    BY <1>1, <2>3, <2>4
  <2>6. n \in 1..m /\ n \in Nat /\ s.seq[n] \in T!Touch
    BY <1>1, <2>3, <2>4 DEF m
  <2> DEFINE old == kept \cap (1..(n - 1))
  <2>7. 1..n = (1..(n - 1)) \cup {n} /\ n \notin 1..(n - 1)
    BY <2>6
  <2>8. IsFiniteSet(old) /\ n \notin old
    <3>1. old \in SUBSET kept
      OBVIOUS
    <3> QED
      BY <1>4, <2>7, <3>1, FS_Subset
  <2>9. /\ sofar[n - 1] \in Seq(T!Touch) /\ Len(sofar[n - 1]) = Cardinality(old)
        /\ \A a \in 1..Len(sofar[n - 1]) : \E q \in old : sofar[n - 1][a] = s.seq[q]
        /\ \A q \in old : \E a \in 1..Len(sofar[n - 1]) : sofar[n - 1][a] = s.seq[q]
        /\ DistinctIds(sofar[n - 1])
    BY <2>5 DEF Good
  <2>10. CASE n \notin kept
    <3>1. sofar[n] = sofar[n - 1]
      BY <1>5, <2>6, <2>10
    <3>2. kept \cap (1..n) = old
      BY <2>7, <2>10
    <3> HIDE DEF old
    <3>3. /\ sofar[n] \in Seq(T!Touch) /\ DistinctIds(sofar[n])
          /\ Len(sofar[n]) = Cardinality(kept \cap (1..n))
      BY <2>9, <3>1, <3>2
    <3>4. \A a \in 1..Len(sofar[n]) : \E q \in kept \cap (1..n) : sofar[n][a] = s.seq[q]
      BY <2>9, <3>1, <3>2
    <3>5. \A q \in kept \cap (1..n) : \E a \in 1..Len(sofar[n]) : sofar[n][a] = s.seq[q]
      <4>1. \A q \in old : \E a \in 1..Len(sofar[n - 1]) : sofar[n - 1][a] = s.seq[q]
        BY <2>9
      <4> QED
        BY <3>1, <3>2, <4>1, Zenon
    <3>6. Good(n)
      BY <3>3, <3>4, <3>5, Zenon DEF Good
    <3> QED
      BY <2>3, <3>6
  <2>11. CASE n \in kept
    <3>1. sofar[n] = Append(sofar[n - 1], s.seq[n])
      BY <1>5, <2>6, <2>11
    <3>2. kept \cap (1..n) = old \cup {n}
      BY <2>7, <2>11
    <3> HIDE DEF old
    <3>3. Cardinality(old \cup {n}) = Cardinality(old) + 1
      BY <2>8, FS_AddElement
    <3>4. /\ sofar[n] \in Seq(T!Touch) /\ Len(sofar[n]) = Len(sofar[n - 1]) + 1
          /\ \A a \in 1..Len(sofar[n - 1]) : sofar[n][a] = sofar[n - 1][a]
          /\ sofar[n][Len(sofar[n - 1]) + 1] = s.seq[n]
      BY <2>6, <2>9, <3>1, AppendProperties
    <3>5. Len(sofar[n - 1]) \in Nat
      BY <2>9
    <3>6. ASSUME NEW a \in 1..Len(sofar[n])
          PROVE  \E q \in old \cup {n} : sofar[n][a] = s.seq[q]
      <4>1. CASE a = Len(sofar[n - 1]) + 1
        BY <3>4, <4>1
      <4>2. CASE a \in 1..Len(sofar[n - 1])
        BY <2>9, <3>4, <4>2
      <4> QED
        BY <3>4, <3>5, <4>1, <4>2
    <3>7. ASSUME NEW q \in old \cup {n}
          PROVE  \E a \in 1..Len(sofar[n]) : sofar[n][a] = s.seq[q]
      <4>1. CASE q = n
        <5>1. Len(sofar[n - 1]) + 1 \in 1..Len(sofar[n])
          BY <3>4, <3>5
        <5> QED
          BY <3>4, <4>1, <5>1
      <4>2. CASE q \in old
        <5>1. PICK a \in 1..Len(sofar[n - 1]) : sofar[n - 1][a] = s.seq[q]
          BY <2>9, <4>2
        <5>2. a \in 1..Len(sofar[n])
          BY <3>4, <3>5
        <5> QED
          BY <3>4, <5>1, <5>2
      <4> QED
        BY <4>1, <4>2
    <3>8. \A a \in 1..Len(sofar[n - 1]) : sofar[n - 1][a].id # s.seq[n].id
      <4> SUFFICES ASSUME NEW a \in 1..Len(sofar[n - 1]), sofar[n - 1][a].id = s.seq[n].id
                   PROVE FALSE
        OBVIOUS
      <4>1. PICK q \in old : sofar[n - 1][a] = s.seq[q]
        BY <2>9
      <4>2. q \in 1..Len(s.seq) /\ n \in 1..Len(s.seq)
        BY <1>4, <2>6 DEF old, m
      <4>3. q = n
        BY <4>1, <4>2 DEF SeenSoFar, DistinctIds
      <4> QED
        BY <2>8, <4>3
    <3>9. DistinctIds(sofar[n])
      <4> SUFFICES ASSUME NEW a \in 1..Len(sofar[n]), NEW b \in 1..Len(sofar[n]), sofar[n][a].id = sofar[n][b].id
                   PROVE a = b
        BY DEF DistinctIds
      <4>1. CASE a \in 1..Len(sofar[n - 1]) /\ b \in 1..Len(sofar[n - 1])
        BY <2>9, <3>4, <4>1 DEF DistinctIds
      <4>2. a = Len(sofar[n - 1]) + 1 \/ a \in 1..Len(sofar[n - 1])
        BY <3>4, <3>5
      <4>3. b = Len(sofar[n - 1]) + 1 \/ b \in 1..Len(sofar[n - 1])
        BY <3>4, <3>5
      <4> QED
        BY <3>4, <3>8, <4>1, <4>2, <4>3
    <3>10. Good(n)
      BY <2>9, <3>2, <3>3, <3>4, <3>6, <3>7, <3>9 DEF Good
    <3> QED
      BY <2>3, <3>10
  <2> QED
    BY <2>10, <2>11
<1>8. Good(m)
  BY <1>1, <1>7
<1>9. kept \cap (1..m) = kept
  BY <1>4
<1>10. /\ sofar[m] \in Seq(T!Touch) /\ Len(sofar[m]) = Cardinality(kept) /\ DistinctIds(sofar[m])
       /\ \A a \in 1..Len(sofar[m]) : \E q \in kept : sofar[m][a] = s.seq[q]
       /\ \A q \in kept : \E a \in 1..Len(sofar[m]) : sofar[m][a] = s.seq[q]
  BY <1>8, <1>9 DEF Good
<1>11. {sofar[m][a].id : a \in 1..Len(sofar[m])} = {s.seq[q].id : q \in kept}
  <2> DEFINE moved == sofar[m]
  <2> HIDE DEF moved
  <2>1. ASSUME NEW a \in 1..Len(moved)
        PROVE  moved[a].id \in {s.seq[q].id : q \in kept}
    <3>1. PICK q \in kept : moved[a] = s.seq[q]
      BY <1>10 DEF moved
    <3> QED
      BY <3>1
  <2>2. ASSUME NEW q \in kept
        PROVE  s.seq[q].id \in {moved[a].id : a \in 1..Len(moved)}
    <3>1. PICK a \in 1..Len(moved) : moved[a] = s.seq[q]
      BY <1>10 DEF moved
    <3> QED
      BY <3>1
  <2> QED
    BY <2>1, <2>2 DEF moved
<1>12. Len(sofar[m]) <= k
  BY <1>4, <1>10
<1> DEFINE moved == sofar[m]
<1>13. T!MovedUp(s) = moved
  BY <1>3
<1>14. KeptIn(moved, s, k)
  BY <1>10, <1>11, <1>12 DEF KeptIn, kept
<1> HIDE DEF moved
<1> QED
  BY <1>13, <1>14

\* A report that is not cut short: what it has told of is what it keeps.
LEMMA ReportKeeps ==
  ASSUME ScreenInv, NEW current \in Seq(Place), Len(current) <= 2, T!ReportTouches(current)
  PROVE  ScreenInv'
<1> DEFINE s == T!Seen(current)
           n == Len(touches)
<1>1. T!TypeOK /\ DistinctIds(touches) /\ Len(current) \in Nat
  BY DEF ScreenInv
<1>2. SeenSoFar(s, Len(current))
  BY <1>1, SeenIsSeen
<1>3. /\ touches' = T!MovedUp(s)
      /\ announced' = IF failed THEN {} ELSE s.announced \ T!Released(s)
      /\ handler' = "check"
      /\ UNCHANGED <<pin, notified, notifier, level, is_touched, failed>>
  BY DEF T!ReportTouches
<1> HIDE DEF s
<1>4. KeptIn(touches', s, Len(current))
  <2>1. KeptIn(T!MovedUp(s), s, Len(current))
    BY <1>1, <1>2, MovedUpKeeps
  <2> QED
    BY <1>3, <2>1
<1>5. /\ touches' \in Seq(T!Touch) /\ Len(touches') <= 2 /\ DistinctIds(touches')
      /\ {touches'[q].id : q \in 1..Len(touches')} = {s.seq[q].id : q \in T!Kept(s)}
  <2>1. touches' \in Seq(T!Touch) /\ Len(touches') <= Len(current) /\ DistinctIds(touches')
    BY <1>4 DEF KeptIn
  <2>2. Len(touches') \in Nat
    BY <2>1
  <2>3. Len(touches') <= 2
    BY <1>1, <2>1, <2>2
  <2> QED
    BY <1>4, <2>1, <2>3 DEF KeptIn
<1>6. s.announced \subseteq Id
  BY <1>2 DEF SeenSoFar
<1>7. T!TypeOK'
  <2>1. announced' \subseteq Id
    BY <1>3, <1>6
  <2>2. Len(touches') <= T!MAX_TOUCHES
    BY <1>5, ScreenNumbers
  <2> QED
    BY <1>1, <1>3, <1>5, <2>1, <2>2 DEF T!TypeOK
<1>8. ASSUME ~failed
      PROVE  s.announced \ T!Released(s) = {s.seq[q].id : q \in T!Kept(s)}
  <2>1. /\ n \in Nat /\ Len(s.seq) \in Nat /\ n <= Len(s.seq) /\ s.seen \subseteq 1..n
        /\ DOMAIN touches = 1..n
        /\ \A q \in 1..n : s.seq[q].id = touches[q].id
    BY <1>1, <1>2 DEF SeenSoFar, T!TypeOK
  <2>2. announced = {touches[q].id : q \in 1..n}
    BY <1>8, <2>1 DEF ScreenInv, T!AnnouncedIsTouched
  <2>3. s.announced = {touches[q].id : q \in 1..n} \cup {s.seq[q].id : q \in (n + 1)..Len(s.seq)}
    BY <1>2, <2>2 DEF SeenSoFar
  <2> HIDE DEF n
  <2>4. 1..Len(s.seq) = (1..n) \cup ((n + 1)..Len(s.seq)) /\ (1..n) \cap ((n + 1)..Len(s.seq)) = {}
    BY <2>1
  <2>5. s.announced = {s.seq[q].id : q \in 1..Len(s.seq)}
    <3>1. {touches[q].id : q \in 1..n} = {s.seq[q].id : q \in 1..n}
      BY <2>1
    <3> QED
      BY <2>3, <2>4, <3>1
  <2>6. /\ T!Kept(s) = s.seen \cup ((n + 1)..Len(s.seq))
        /\ T!Released(s) = {s.seq[q].id : q \in (1..n) \ s.seen}
    BY DEF T!Kept, T!Released, n
  <2>7. /\ T!Kept(s) \subseteq 1..Len(s.seq)
        /\ (1..n) \ s.seen = (1..Len(s.seq)) \ T!Kept(s)
    BY <2>1, <2>4, <2>6
  <2>8. \A q, j \in 1..Len(s.seq) : s.seq[q].id = s.seq[j].id => q = j
    BY <1>2 DEF SeenSoFar, DistinctIds
  <2> QED
    BY <2>5, <2>6, <2>7, <2>8
<1>9. T!AnnouncedIsTouched'
  <2> SUFFICES ASSUME ~failed
               PROVE  announced' = {touches'[q].id : q \in DOMAIN touches'}
    BY <1>3 DEF T!AnnouncedIsTouched
  <2>1. announced' = s.announced \ T!Released(s)
    BY <1>3
  <2>2. DOMAIN touches' = 1..Len(touches')
    BY <1>5
  <2> QED
    BY <1>5, <1>8, <2>1, <2>2
<1> QED
  BY <1>3, <1>5, <1>7, <1>9 DEF ScreenInv

\* A report that is cut short: the old touches stay, with their ids.
LEMMA FailureKeeps ==
  ASSUME ScreenInv, NEW current \in Seq(Place), Len(current) <= 2, T!ReportFails(current)
  PROVE  ScreenInv'
<1> DEFINE s == T!Seen(current)
           n == Len(touches)
<1>1. T!TypeOK /\ DistinctIds(touches)
  BY DEF ScreenInv
<1>2. SeenSoFar(s, Len(current))
  BY <1>1, SeenIsSeen
<1>3. /\ touches' = SubSeq(s.seq, 1, n)
      /\ announced' = {} /\ failed' = TRUE /\ handler' = "check"
      /\ UNCHANGED <<pin, notified, notifier, level, is_touched>>
  BY DEF T!ReportFails
<1> HIDE DEF s
<1>4. /\ n \in Nat /\ n <= 2 /\ s.seq \in Seq(T!Touch) /\ Len(s.seq) \in Nat /\ n <= Len(s.seq)
      /\ \A q \in 1..n : s.seq[q].id = touches[q].id
  BY <1>1, <1>2, ScreenNumbers DEF SeenSoFar, T!TypeOK
<1>5. DistinctIds(touches) <=> \A q, j \in 1..n : touches[q].id = touches[j].id => q = j
  BY DEF DistinctIds
<1> HIDE DEF n
<1>6. \A q \in 1..n : s.seq[q] \in T!Touch
  BY <1>4
<1>7. /\ touches' \in Seq(T!Touch) /\ Len(touches') = n
      /\ \A q \in 1..n : touches'[q] = s.seq[q]
  BY <1>3, <1>4, <1>6, SubSeqProperties
<1>8. DistinctIds(touches')
  BY <1>1, <1>4, <1>5, <1>7 DEF DistinctIds
<1>9. T!TypeOK'
  <2>1. Len(touches') <= T!MAX_TOUCHES
    BY <1>4, <1>7, ScreenNumbers
  <2> QED
    BY <1>1, <1>3, <1>7, <2>1 DEF T!TypeOK
<1>10. T!AnnouncedIsTouched'
  BY <1>3 DEF T!AnnouncedIsTouched
<1> QED
  BY <1>3, <1>8, <1>9, <1>10 DEF ScreenInv

\* Every step of the interrupt, the notifier and the handler keeps it.
LEMMA ScreenStep == ScreenInv /\ [T!Next]_screen => ScreenInv'
<1> SUFFICES ASSUME ScreenInv, [T!Next]_screen
             PROVE ScreenInv'
  OBVIOUS
<1>1. ASSUME UNCHANGED T!report, T!TypeOK',
             ~notified' => /\ notifier' = "paused" => is_touched' = pin'
                           /\ notifier' = "set" => level' = pin',
             handler' = "asleep" => ~is_touched'
      PROVE  ScreenInv'
  BY <1>1 DEF ScreenInv, T!report, DistinctIds, T!AnnouncedIsTouched
<1> USE DEF T!report, T!TypeOK
<1>2. CASE T!Edge
  <2>1. pin' \in BOOLEAN /\ notified' \in BOOLEAN /\ notified'
    BY <1>2 DEF T!Edge
  <2> QED
    BY <1>1, <1>2, <2>1 DEF T!Edge, ScreenInv
<1>3. CASE T!PauseReturns
  <2>1. notified' \in BOOLEAN /\ notifier' = "read"
    BY <1>3 DEF T!PauseReturns
  <2> QED
    BY <1>1, <1>3, <2>1 DEF T!PauseReturns, ScreenInv
<1>4. CASE T!ReadPin
  <2>1. level' \in BOOLEAN /\ notifier' = "set" /\ level' = pin'
    BY <1>4 DEF T!ReadPin, ScreenInv
  <2> QED
    BY <1>1, <1>4, <2>1 DEF T!ReadPin, ScreenInv
<1>5. CASE T!set_touch_state
  <2>1. is_touched' \in BOOLEAN /\ notifier' = "paused" /\ is_touched' = level
        /\ handler' \in {"check", "report"}
    BY <1>5 DEF T!set_touch_state, ScreenInv
  <2> QED
    BY <1>1, <1>5, <2>1 DEF T!set_touch_state, ScreenInv
<1>6. CASE T!Check
  <2>1. handler' \in {"report", "asleep"} /\ (handler' = "asleep" => ~is_touched)
    BY <1>6 DEF T!Check
  <2> QED
    BY <1>1, <1>6, <2>1 DEF T!Check, ScreenInv
<1>7. \A current \in T!BoundedSeq(Place, 2) \cup T!BoundedSeq(Place, 1) :
        current \in Seq(Place) /\ Len(current) <= 2
  <2> SUFFICES ASSUME NEW m \in 0..2, NEW current \in [1..m -> Place]
               PROVE  current \in Seq(Place) /\ Len(current) <= 2
    BY DEF T!BoundedSeq, T!SeqOf
  <2> QED
    OBVIOUS
<1>8. T!MAX_TOUCHES = 2 /\ T!MAX_TOUCHES - 1 = 1
  BY DEF T!MAX_TOUCHES
<1>9. ASSUME NEW current \in T!BoundedSeq(Place, T!MAX_TOUCHES), T!ReportTouches(current)
      PROVE  ScreenInv'
  BY <1>7, <1>8, <1>9, ReportKeeps
<1>10. ASSUME NEW current \in T!BoundedSeq(Place, T!MAX_TOUCHES - 1), T!ReportFails(current)
       PROVE  ScreenInv'
  BY <1>7, <1>8, <1>10, FailureKeeps
<1>11. CASE UNCHANGED screen
  BY <1>1, <1>11 DEF screen, ScreenInv
<1> QED
  BY <1>2, <1>3, <1>4, <1>5, <1>6, <1>9, <1>10, <1>11 DEF T!Next

\* So what is announced is touched, and the state follows the pin.
LEMMA ScreenHolds == ScreenInv => T!AnnouncedIsTouched /\ T!StateFollowsPin
BY DEF ScreenInv, T!StateFollowsPin, T!TypeOK

-----------------------------------------------------------------------------
(* All parts                                                                *)

\* The invariant of the counter has its types.
LEMMA CounterTypes == CounterInv => D!TypeOK
BY DEF CounterInv, Believed, D!TypeOK, D!Target

\* Both invariants of the skull have its types.
LEMMA SkullTypes == SkullInv /\ OwedInv => K!TypeOK
BY DEF SkullInv, OwedInv, K!TypeOK

\* The inductive invariant: those of the parts.
IInv ==
  /\ part \in Parts
  /\ LightsInv /\ CounterInv /\ StepperInv /\ ScreenInv /\ TimerInv /\ FillableInv
  /\ ThreadsInv /\ PauseInv /\ StopInv /\ SkullInv /\ OwedInv /\ AlarmInv
  /\ FileInv /\ FileRest /\ ConsoleInv /\ ListInv /\ DormantInv

\* Every part starts in its invariant.
LEMMA InitIInv == Init => IInv
<1> SUFFICES ASSUME Init
             PROVE  IInv
  OBVIOUS
<1> USE DEF Init
<1>1. part \in Parts
  OBVIOUS
<1>2. LightsInv /\ CounterInv /\ StepperInv /\ ScreenInv
  BY LightsInit, CounterInit, StepperInit, ScreenInit
<1>3. TimerInv /\ FillableInv /\ ThreadsInv /\ PauseInv /\ StopInv
  BY TimerInit, FillableInit, ThreadsInit, PauseInit, StopInit
<1>4. SkullInv /\ OwedInv /\ AlarmInv /\ FileInv /\ FileRest
  BY SkullInit, OwedInit, AlarmInit, FileInit, FileRestInit
<1>5. ConsoleInv /\ ListInv /\ DormantInv
  BY ConsoleInit, ListInit, DormantInit
<1> QED
  BY <1>1, <1>2, <1>3, <1>4, <1>5 DEF IInv

\* A step of one part is one of its own, and a stutter of every other.
LEMMA OneStepAtATime ==
  ASSUME [Next]_vars
  PROVE  /\ UNCHANGED part
         /\ [L!Next]_lights /\ [D!Next]_counter /\ [S!Next]_stepper /\ [T!Next]_screen
         /\ [C!PiNext]_timer /\ [F!Next]_fillable /\ [P!Next]_threads /\ [O!Next]_stop
         /\ [K!Next]_skull /\ [C!PicoNext]_alarm /\ [I!Next]_file /\ [N!Next]_console
         /\ [Z!Next]_dormant
<1>1. CASE Lights
  BY <1>1, Zenon DEF Lights
<1>2. CASE Counter
  BY <1>2, Zenon DEF Counter
<1>3. CASE Stepper
  BY <1>3, Zenon DEF Stepper
<1>4. CASE Touchscreen
  BY <1>4, Zenon DEF Touchscreen
<1>5. CASE CallEvery
  BY <1>5, Zenon DEF CallEvery
<1>6. CASE Fillable
  BY <1>6, Zenon DEF Fillable
<1>7. CASE ThreadsOnThePi
  BY <1>7, Zenon DEF ThreadsOnThePi
<1>8. CASE StopHandshake
  BY <1>8, Zenon DEF StopHandshake
<1>9. CASE Skull
  BY <1>9, Zenon DEF Skull
<1>10. CASE Alarms
  BY <1>10, Zenon DEF Alarms
<1>11. CASE Files
  BY <1>11, Zenon DEF Files
<1>12. CASE ConsoleList
  BY <1>12, Zenon DEF ConsoleList
<1>13. CASE Sleeper
  BY <1>13, Zenon DEF Sleeper
<1>14. CASE UNCHANGED vars
  BY <1>14, Zenon DEF vars
<1> QED
  BY <1>1, <1>2, <1>3, <1>4, <1>5, <1>6, <1>7, <1>8, <1>9, <1>10, <1>11, <1>12, <1>13, <1>14 DEF Next

\* Every step keeps the invariant of every part.
LEMMA NextIInv == IInv /\ [Next]_vars => IInv'
<1> SUFFICES ASSUME IInv, [Next]_vars
             PROVE  IInv'
  OBVIOUS
<1>0. part' \in Parts
  BY OneStepAtATime DEF IInv
<1>1. LightsInv' /\ CounterInv' /\ StepperInv' /\ ScreenInv'
  BY OneStepAtATime, LightsStep, CounterStep, StepperStep, ScreenStep DEF IInv
<1>2. TimerInv' /\ FillableInv' /\ ThreadsInv' /\ StopInv'
  BY OneStepAtATime, TimerStep, FillableStep, ThreadsStep, StopStep DEF IInv
<1>3. PauseInv'
  BY <1>2, OneStepAtATime, PauseStep DEF IInv
<1>4. SkullInv' /\ OwedInv' /\ AlarmInv' /\ FileInv' /\ FileRest'
  BY OneStepAtATime, SkullStep, OwedStep, AlarmStep, FileStep, FileRestStep DEF IInv
<1>5. ConsoleInv' /\ ListInv' /\ DormantInv'
  BY OneStepAtATime, ConsoleStep, ListStep, DormantStep DEF IInv
<1> QED
  BY <1>0, <1>1, <1>2, <1>3, <1>4, <1>5 DEF IInv

\* Every part keeps its inductive invariant, for any threads, lights, lists,
\* numbers and alarms.
THEOREM IInvThm == Spec => []IInv
<1> QED
  BY InitIInv, NextIInv, PTL DEF Spec

\* Every variable of every part keeps its type.
THEOREM TypeOKThm == Spec => []TypeOK
<1>1. IInv => TypeOK
  <2> SUFFICES ASSUME IInv
               PROVE  TypeOK
    OBVIOUS
  <2>1. L!TypeOK /\ S!TypeOK /\ T!TypeOK /\ C!PiTypeOK /\ F!TypeOK /\ P!TypeOK
    BY DEF IInv, LightsInv, StepperInv, ScreenInv, TimerInv, FillableInv, ThreadsInv
  <2>2. O!TypeOK /\ C!PicoTypeOK /\ Z!TypeOK
    BY DEF IInv, StopInv, AlarmInv, DormantInv
  <2>3. D!TypeOK /\ K!TypeOK /\ I!TypeOK /\ N!TypeOK
    BY CounterTypes, SkullTypes, FileTypes, ConsoleTypes DEF IInv
  <2> QED
    BY <2>1, <2>2, <2>3 DEF IInv, TypeOK
<1> QED
  BY <1>1, IInvThm, PTL

\* What the device does is what the object believes of it: lights stay as off()
\* or on() left them, a counter shows its target when its thread sleeps, a motor
\* is stepped as its steps are counted and never while disabled.
THEOREM DeviceIsAsBelievedThm == Spec => []DeviceIsAsBelieved
<1>1. IInv => DeviceIsAsBelieved
  BY LightsHolds, CounterHolds, StepperHolds DEF IInv, DeviceIsAsBelieved
<1> QED
  BY <1>1, IInvThm, PTL

\* No edge of the touchscreen's interrupt, resume(), play() or stop request is
\* forgotten: each has been followed when things have come to rest.
THEOREM RequestsAreFollowedThm == Spec => []RequestsAreFollowed
<1>1. IInv => RequestsAreFollowed
  BY ScreenHolds, PauseHolds DEF IInv, RequestsAreFollowed, OwedInv, StopInv
<1> QED
  BY <1>1, IInvThm, PTL

\* What has been stopped stays stopped, and what has not been is not: timers,
\* alarms, threads and the sleep of the Pico.
THEOREM CallsStopThm == Spec => []CallsStop
<1>1. IInv => CallsStop
  <2> SUFFICES ASSUME IInv
               PROVE  CallsStop
    OBVIOUS
  <2>1. C!AtMostOneLateCall /\ C!FreedWhenUnused
    BY DEF IInv, TimerInv, C!AtMostOneLateCall
  <2>2. C!OnlyDoubleStartsLeak
    BY DEF IInv, AlarmInv
  <2>3. P!NoWorkIsCutOff
    BY DEF IInv, ThreadsInv, Unfinished, P!NoWorkIsCutOff
  <2>4. Z!GoesBackToSleep
    BY DormantHolds DEF IInv
  <2> QED
    BY <2>1, <2>2, <2>3, <2>4 DEF CallsStop
<1> QED
  BY <1>1, IInvThm, PTL

\* What threads share is whole: what fill() is given reaches read() once and in
\* order and never into memory that has been given back, a skull plays one list
\* at a time, FreeRTOS-FAT is entered by one task, and nobody writes to a console
\* that is gone.
THEOREM SharedDataIsWholeThm == Spec => []SharedDataIsWhole
<1>1. IInv => SharedDataIsWhole
  BY FillableHolds, FileHolds, ConsoleHolds DEF IInv, SharedDataIsWhole, SkullInv
<1> QED
  BY <1>1, IInvThm, PTL

=============================================================================
