------------------------------ MODULE MCWorkers ------------------------------
(***************************************************************************)
(* The objects that have a worker thread or a timer of their own, threads, *)
(* and what is shared under a lock of its own: they do not interact, so    *)
(* one run checks them side by side, each behaviour being one of one part. *)
(* The state space is the sum of theirs.                                   *)
(***************************************************************************)
EXTENDS Integers, Sequences, FiniteSets

CONSTANTS
  LightsCaller, n_lights,                                        \* Lights
  CounterCaller, has_dec, MaxTarget, Unknown, ResetCosts, MaxPulses, \* DigitalCounter
  MaxSpeed, jerk, Accelerations,                                 \* Stepper
  Place, touch_delta, Id,                                        \* Touchscreen
  MaxBytes, ByteMod,                                             \* FillableBuffer
  Resumer, Wrapper,                                              \* PiThreads
  StopUser,                                                      \* Stop
  SkullCaller, n_ops,                                            \* TalkingSkull
  Alarm,                                                         \* CallEvery
  FileTask,                                                      \* FilePico
  ConsoleThread,                                                 \* Consoles
  sleep_after_ms                                                 \* DeepSleeper

ASSUME NumbersAssumption ==
  /\ n_lights \in Nat \ {0}
  /\ MaxTarget \in Nat /\ Unknown \in Nat /\ MaxPulses \in Nat \ {0}
  /\ MaxTarget <= Unknown
  /\ has_dec \in BOOLEAN /\ ResetCosts \subseteq Nat
  /\ MaxSpeed \in Nat /\ jerk \in 0..MaxSpeed /\ Accelerations \subseteq Nat
  /\ MaxBytes \in Nat /\ ByteMod \in Nat \ {0}
  /\ n_ops \in Seq(Nat)
  /\ sleep_after_ms \in Nat
  /\ Place \subseteq Nat /\ touch_delta \in Nat

\* The names of threads and of alarms are none of the values that stand for nobody.
ASSUME NamesAssumption ==
  /\ "free" \notin Wrapper \cup StopUser \cup SkullCaller \cup FileTask \cup ConsoleThread
  /\ "main" \notin SkullCaller
  /\ Alarm \subseteq Nat \ {0}
  /\ IsFiniteSet(FileTask)

VARIABLES
  part,  \* the part that runs
  lit, action, worker, worker_todo, caller, caller_todo, wanted, told,
  disturbed,
  target, actual, reset_cost, counter_main, up, i, goal, signalling, shown,
  was_reset,
  v, target_v, halfway, stepper_main, cur_target_v, dir, enable,
  pin, notified, notifier, level, is_touched, handler, touches, announced,
  failed,
  state, ce_thread, ce_user, ce_wants, ce_late,
  is_eof_forced, to_fill_n, n_filled, fb_lock, fb_reader, fb_filler, fill_n,
  next_byte, memory, expected, eof_undone,
  resumed, pauser, resumer, missed, active_threads, wrapper, main_thread,
  at_lock,
  requested, stopped, stop_lock, stop_user, stop_worker,
  ops, wait_lock, skull_main, op_i, playing, skull_caller, owed,
  alarms, alarm_id, in_callback, freed, doubled,
  is_init, mounted, init_lock, ff_lock, ff_holder, ff_task, uses,
  has_fns, lock_made, con_lock, active, con, con_next, alive,
  age, to_check, sleeper, idle, stale

L == INSTANCE Lights
D == INSTANCE DigitalCounter
S == INSTANCE Stepper
T == INSTANCE Touchscreen
C == INSTANCE CallEvery
F == INSTANCE FillableBuffer
P == INSTANCE PiThreads
O == INSTANCE Stop
K == INSTANCE TalkingSkull
I == INSTANCE FilePico
N == INSTANCE Consoles
Z == INSTANCE DeepSleeper

\* An id is left for the last of two new touches beside two old ones.
ASSUME IdsAssumption == IsFiniteSet(Id) /\ Cardinality(Id) >= 2 * T!MAX_TOUCHES

\* What two callers may have the skull play.
TwoLists == <<1, 2>>

Parts == {"lights", "counter", "stepper", "screen", "timer", "fillable",
          "threads", "stop", "skull", "alarm", "file", "console", "dormant"}
lights == <<lit, action, worker, worker_todo, caller, caller_todo, wanted,
            told, disturbed>>
counter == <<target, actual, reset_cost, counter_main, up, i, goal,
             signalling, shown, was_reset>>
stepper == <<v, target_v, halfway, stepper_main, cur_target_v, dir, enable>>
screen == <<pin, notified, notifier, level, is_touched, handler, touches,
            announced, failed>>
timer == <<state, ce_thread, ce_user, ce_wants, ce_late>>
fillable == <<is_eof_forced, to_fill_n, n_filled, fb_lock, fb_reader,
              fb_filler, fill_n, next_byte, memory, expected, eof_undone>>
threads == <<resumed, pauser, resumer, missed, active_threads, wrapper,
             main_thread, at_lock>>
stop == <<requested, stopped, stop_lock, stop_user, stop_worker>>
skull == <<ops, wait_lock, skull_main, op_i, playing, skull_caller, owed>>
alarm == <<alarms, alarm_id, in_callback, freed, doubled>>
file == <<is_init, mounted, init_lock, ff_lock, ff_holder, ff_task, uses>>
console == <<has_fns, lock_made, con_lock, active, con, con_next, alive>>
dormant == <<age, to_check, sleeper, idle, stale>>
vars == <<part, lights, counter, stepper, screen, timer, fillable, threads, stop,
          skull, alarm, file, console, dormant>>

\* The choices of the parts that do not run are fixed.
Init ==
  /\ part \in Parts
  /\ L!Init /\ D!Init /\ S!Init /\ T!Init /\ C!PiInit /\ F!Init /\ P!Init /\
     O!Init /\ K!Init /\ C!PicoInit /\ I!Init /\ N!Init /\ Z!Init
  /\ part = "lights" \/ ~lit[1]
  /\ part = "counter" \/ reset_cost = CHOOSE ms \in ResetCosts : TRUE
  /\ part = "timer" \/ state = "RUN"
  /\ part = "alarm" \/ alarm_id = 0

Lights ==
  /\ part = "lights" /\ L!Next
  /\ UNCHANGED <<part, counter, stepper, screen, timer, fillable, threads,
                 stop, skull, alarm, file, console, dormant>>
Counter ==
  /\ part = "counter" /\ D!Next
  /\ UNCHANGED <<part, lights, stepper, screen, timer, fillable, threads,
                 stop, skull, alarm, file, console, dormant>>
Stepper ==
  /\ part = "stepper" /\ S!Next
  /\ UNCHANGED <<part, lights, counter, screen, timer, fillable, threads,
                 stop, skull, alarm, file, console, dormant>>
Touchscreen ==
  /\ part = "screen" /\ T!Next
  /\ UNCHANGED <<part, lights, counter, stepper, timer, fillable, threads,
                 stop, skull, alarm, file, console, dormant>>
CallEvery ==
  /\ part = "timer" /\ C!PiNext
  /\ UNCHANGED <<part, lights, counter, stepper, screen, fillable, threads,
                 stop, skull, alarm, file, console, dormant>>
Fillable ==
  /\ part = "fillable" /\ F!Next
  /\ UNCHANGED <<part, lights, counter, stepper, screen, timer, threads, stop,
                 skull, alarm, file, console, dormant>>
ThreadsOnThePi ==
  /\ part = "threads" /\ P!Next
  /\ UNCHANGED <<part, lights, counter, stepper, screen, timer, fillable,
                 stop, skull, alarm, file, console, dormant>>
StopHandshake ==
  /\ part = "stop" /\ O!Next
  /\ UNCHANGED <<part, lights, counter, stepper, screen, timer, fillable,
                 threads, skull, alarm, file, console, dormant>>
Skull ==
  /\ part = "skull" /\ K!Next
  /\ UNCHANGED <<part, lights, counter, stepper, screen, timer, fillable,
                 threads, stop, alarm, file, console, dormant>>
Alarms ==
  /\ part = "alarm" /\ C!PicoNext
  /\ UNCHANGED <<part, lights, counter, stepper, screen, timer, fillable,
                 threads, stop, skull, file, console, dormant>>
Files ==
  /\ part = "file" /\ I!Next
  /\ UNCHANGED <<part, lights, counter, stepper, screen, timer, fillable,
                 threads, stop, skull, alarm, console, dormant>>
ConsoleList ==
  /\ part = "console" /\ N!Next
  /\ UNCHANGED <<part, lights, counter, stepper, screen, timer, fillable,
                 threads, stop, skull, alarm, file, dormant>>
Sleeper ==
  /\ part = "dormant" /\ Z!Next
  /\ UNCHANGED <<part, lights, counter, stepper, screen, timer, fillable,
                 threads, stop, skull, alarm, file, console>>

Next ==
  \/ Lights \/ Counter \/ Stepper \/ Touchscreen \/ CallEvery \/ Fillable \/
     ThreadsOnThePi \/ StopHandshake \/ Skull \/ Alarms \/ Files \/
     ConsoleList \/ Sleeper

Spec == Init /\ [][Next]_vars

-----------------------------------------------------------------------------
(* The properties of the parts, by what they are about.                     *)

\* The type invariant of every part.
TypeOK ==
  /\ part \in Parts
  /\ L!TypeOK /\ D!TypeOK /\ S!TypeOK /\ T!TypeOK /\ C!PiTypeOK /\ F!TypeOK /\
     P!TypeOK /\ O!TypeOK /\ K!TypeOK /\ C!PicoTypeOK /\ I!TypeOK /\ N!TypeOK /\
     Z!TypeOK

\* What the device does is what the object believes of it: lights stay as
\* off() or on() left them, a counter shows its target when its thread sleeps,
\* a motor is stepped the way its steps are counted and never while disabled,
\* each with the exceptions that its module names.
DeviceIsAsBelieved ==
  L!AllAsTold /\ D!ShowsTarget /\ S!WrongWayOnlyAtJerk /\ S!EnabledWhenStepped

\* No interrupt, touch, resume(), play() or stop request is forgotten: it has
\* been followed when things have come to rest, except in the windows that the
\* modules name.
RequestsAreFollowed ==
  /\ T!AnnouncedIsTouched /\ T!StateFollowsPin
  /\ P!SleepsOnlyIfMissed
  /\ K!PlayIsFollowed
  /\ O!BackOnlyWhenStopped

\* What has been stopped stays stopped, and what has not been is not: a timer of
\* the Pi calls at most once more and never after destroy, the Pico's leaves no
\* alarm but those of a double start, the program ends only after its threads'
\* work, and the Pico sleeps when it has been idle.
CallsStop ==
  /\ C!AtMostOneLateCall /\ C!FreedWhenUnused
  /\ C!OnlyDoubleStartsLeak
  /\ P!NoWorkIsCutOff
  /\ Z!GoesBackToSleep

\* What threads share is whole: what fill() is given reaches read() once and in
\* order, and never into memory that a read() has given back; a skull plays one
\* list at a time; FreeRTOS-FAT is entered by one task; and nobody writes to a
\* console that is gone.  Each module names the exceptions.
SharedDataIsWhole ==
  /\ F!BytesInOrder /\ F!MemoryIsLent
  /\ K!PlayedUnderOneList
  /\ I!FilesAreExclusive /\ I!LockIsGivenBack
  /\ N!WritesToTheLiving

=============================================================================
