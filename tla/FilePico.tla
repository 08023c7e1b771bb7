------------------------------- MODULE FilePico -------------------------------
(***************************************************************************)
(* threads/pico/file.cpp: the first file operation of any task mounts the  *)
(* cards, under init_lock, and every operation enters FreeRTOS-FAT under   *)
(* ff_lock.  is_init is set before anything is mounted, and everybody who  *)
(* has waited for init_lock makes a new ff_lock (line 57) before it looks  *)
(* at is_init again.  unlock() gives back the ff_lock of the moment: when  *)
(* it is not the one that was taken, FreeRTOS ignores it if that lock is   *)
(* free and fails an assertion if another task holds it.  foreach() takes  *)
(* no ff_lock.                                                             *)
(***************************************************************************)
EXTENDS Naturals, FiniteSets

CONSTANT FileTask

VARIABLES
  is_init, mounted,
  init_lock,     \* the task that holds it, or "free"
  ff_lock,       \* the number of the current ff_lock; 0: NULL
  ff_holder,     \* for each ff_lock made, the task that holds it, or "free"
  ff_task,       \* where each task is
  uses           \* the ff_lock that each task waits for or has taken (0: none)

vars == <<is_init, mounted, init_lock, ff_lock, ff_holder, ff_task, uses>>

Lock == 1..Cardinality(FileTask)
Places == {"out", "init_lock", "new_lock", "mounting", "mounted", "lock", "taking",
           "inside", "foreach", "died"}

TypeOK ==
  /\ is_init \in BOOLEAN /\ mounted \in BOOLEAN
  /\ init_lock \in FileTask \cup {"free"}
  /\ ff_lock \in Lock \cup {0}
  /\ ff_holder \in [Lock -> FileTask \cup {"free"}]
  /\ ff_task \in [FileTask -> Places]
  /\ uses \in [FileTask -> Lock \cup {0}]

\* file_init() has made init_lock, before any task runs.
Init ==
  /\ is_init = FALSE /\ mounted = FALSE
  /\ init_lock = "free"
  /\ ff_lock = 0
  /\ ff_holder = [l \in Lock |-> "free"]
  /\ ff_task = [t \in FileTask |-> "out"]
  /\ uses = [t \in FileTask |-> 0]

Goto(t, place) == ff_task' = [ff_task EXCEPT ![t] = place]

-----------------------------------------------------------------------------
(* init_once(), as the first thing of an operation                          *)

\* A task that sees is_init goes on, whether the cards are mounted or not.
Begin(t) ==
  /\ ff_task[t] = "out"
  /\ IF is_init THEN \E place \in {"lock", "foreach"} : Goto(t, place)
                ELSE Goto(t, "init_lock")
  /\ UNCHANGED <<is_init, mounted, init_lock, ff_lock, ff_holder, uses>>

InitLock(t) ==
  /\ ff_task[t] = "init_lock" /\ init_lock = "free"
  /\ init_lock' = t
  /\ Goto(t, "new_lock")
  /\ UNCHANGED <<is_init, mounted, ff_lock, ff_holder, uses>>

\* Lines 57-59: the new lock, and is_init.
NewLock(t) ==
  /\ ff_task[t] = "new_lock"
  /\ ff_lock' = ff_lock + 1
  /\ is_init' = TRUE
  /\ Goto(t, IF is_init THEN "mounted" ELSE "mounting")
  /\ UNCHANGED <<mounted, init_lock, ff_holder, uses>>

\* A card that fails is left out; the operations then fail one by one.
Mount(t) ==
  /\ ff_task[t] = "mounting"
  /\ mounted' = TRUE
  /\ Goto(t, "mounted")
  /\ UNCHANGED <<is_init, init_lock, ff_lock, ff_holder, uses>>

InitUnlock(t) ==
  /\ ff_task[t] = "mounted"
  /\ init_lock' = "free"
  /\ \E place \in {"lock", "foreach"} : Goto(t, place)
  /\ UNCHANGED <<is_init, mounted, ff_lock, ff_holder, uses>>

-----------------------------------------------------------------------------
(* The operation itself                                                     *)

\* lock(): the ff_lock of the moment, and then its mutex.
PickLock(t) ==
  /\ ff_task[t] = "lock"
  /\ uses' = [uses EXCEPT ![t] = ff_lock]
  /\ Goto(t, "taking")
  /\ UNCHANGED <<is_init, mounted, init_lock, ff_lock, ff_holder>>

\* Mutant: the lock is given back before FreeRTOS-FAT returns.
TakeLock_briefly(t) ==
  /\ ff_task[t] = "taking"
  /\ uses[t] # 0 => ff_holder[uses[t]] = "free"
  /\ Goto(t, "inside")
  /\ UNCHANGED <<is_init, mounted, init_lock, ff_lock, ff_holder, uses>>

TakeLock(t) ==
  /\ ff_task[t] = "taking"
  /\ uses[t] # 0 => ff_holder[uses[t]] = "free"
  /\ ff_holder' = [l \in Lock |-> IF l = uses[t] THEN t ELSE ff_holder[l]]
  /\ Goto(t, "inside")
  /\ UNCHANGED <<is_init, mounted, init_lock, ff_lock, uses>>

\* FreeRTOS-FAT has returned: unlock().
Unlock(t) ==
  /\ ff_task[t] = "inside"
  /\ uses' = [uses EXCEPT ![t] = 0]
  /\ IF ff_lock # 0 /\ ff_holder[ff_lock] \notin {t, "free"}
       THEN Goto(t, "died") /\ UNCHANGED ff_holder
       ELSE /\ Goto(t, "out")
            /\ ff_holder' = [l \in Lock |-> IF l = ff_lock THEN "free" ELSE ff_holder[l]]
  /\ UNCHANGED <<is_init, mounted, init_lock, ff_lock>>

ForeachReturns(t) ==
  /\ ff_task[t] = "foreach"
  /\ Goto(t, "out")
  /\ UNCHANGED <<is_init, mounted, init_lock, ff_lock, ff_holder, uses>>

Next ==
  \E t \in FileTask :
    \/ Begin(t) \/ InitLock(t) \/ NewLock(t) \/ Mount(t) \/ InitUnlock(t)
    \/ PickLock(t) \/ TakeLock(t) \/ Unlock(t) \/ ForeachReturns(t)

Spec == Init /\ [][Next]_vars

-----------------------------------------------------------------------------
(* Properties.                                                              *)

Inside == {t \in FileTask : ff_task[t] = "inside"}

\* FreeRTOS-FAT is never entered before there is a lock, nor by more tasks at a
\* time than have raced for the first operation: one, when nobody has.
FilesAreExclusive == Cardinality(Inside) <= ff_lock

\* When nobody has raced, no unlock() fails and whoever waits for the lock waits
\* for a task that is inside.  (With a race, line 57 may leave the old lock
\* taken for ever, and a task waiting for it.)
LockIsGivenBack ==
  ff_lock = 1 =>
    /\ \A t \in FileTask : ff_task[t] # "died"
    /\ ff_holder[1] = "free" \/ ff_holder[1] \in Inside

=============================================================================
