------------------------------- MODULE Consoles -------------------------------
(***************************************************************************)
(* core/consoles.cpp and core/core-lock.cpp: the list of consoles that all *)
(* output goes to, under a core lock.  A core lock exists only if          *)
(* core_lock_init() came before its creation, which here is the first use  *)
(* of the list; without it locking does nothing.                           *)
(*                                                                         *)
(* A thread owns a console from its constructor to its destructor (as the  *)
(* listener of a network console does); every thread writes.  A console    *)
(* that writes to the consoles from its own write_str() is not modelled.   *)
(***************************************************************************)
EXTENDS Naturals, Sequences, SequencesExt, StdList

CONSTANT ConsoleThread   \* each owns one console, called like itself

VARIABLES
  has_fns,       \* core_lock_init() has been called
  lock_made,     \* Consoles::lock: "unborn", "null" or "lock"
  con_lock,      \* the holder, or "free"
  active,        \* the list
  con,           \* where each thread is
  con_next,      \* write_str(): the consoles that it has still to go to
  alive          \* the consoles that are not destroyed

vars == <<has_fns, lock_made, con_lock, active, con, con_next, alive>>

TypeOK ==
  /\ has_fns \in BOOLEAN
  /\ lock_made \in {"unborn", "null", "lock"}
  /\ con_lock \in ConsoleThread \cup {"free"}
  /\ active \in Seq(ConsoleThread) /\ IsInjective(active)
  /\ con \in [ConsoleThread -> {"out", "add", "remove", "write", "writing"}]
  /\ con_next \in [ConsoleThread -> Seq(ConsoleThread)]
  /\ alive \subseteq ConsoleThread

Init ==
  /\ has_fns = FALSE /\ lock_made = "unborn" /\ con_lock = "free"
  /\ active = <<>> /\ alive = {}
  /\ con = [t \in ConsoleThread |-> "out"]
  /\ con_next = [t \in ConsoleThread |-> <<>>]

Goto(t, place) == con' = [con EXCEPT ![t] = place]

\* pi_init_with_threads(), before there is a second thread.
core_lock_init ==
  /\ ~has_fns
  /\ \A t \in ConsoleThread : con[t] = "out"
  /\ has_fns' = TRUE
  /\ UNCHANGED <<lock_made, con_lock, active, con, con_next, alive>>

\* Consoles::get(), and core_lock_lock() in the operation that follows.  Before
\* core_lock_init() there is one thread only.
Enter(t, what) ==
  /\ con[t] = "out"
  /\ has_fns \/ \A u \in ConsoleThread : con[u] = "out"
  /\ what = "add" => t \notin alive
  /\ what = "remove" => t \in alive
  /\ lock_made' = IF lock_made # "unborn" THEN lock_made ELSE IF has_fns THEN "lock" ELSE "null"
  /\ alive' = IF what = "add" THEN alive \cup {t} ELSE alive
  /\ Goto(t, what)
  /\ UNCHANGED <<has_fns, con_lock, active, con_next>>

CanTake(t) == lock_made = "lock" => con_lock = "free"
Take(t) == IF lock_made = "lock" THEN t ELSE con_lock

add(t) ==
  /\ con[t] = "add" /\ CanTake(t)
  /\ active' = Append(active, t)
  /\ Goto(t, "out")
  /\ UNCHANGED <<has_fns, lock_made, con_lock, con_next, alive>>

\* Mutant: the destructor does not wait for who is writing.
remove_unlocked(t) ==
  /\ con[t] = "remove"
  /\ active' = Without(active, t)
  /\ alive' = alive \ {t}
  /\ Goto(t, "out")
  /\ UNCHANGED <<has_fns, lock_made, con_lock, con_next>>

\* The memory is gone when the destructor has returned.
remove(t) ==
  /\ con[t] = "remove" /\ CanTake(t)
  /\ active' = Without(active, t)
  /\ alive' = alive \ {t}
  /\ Goto(t, "out")
  /\ UNCHANGED <<has_fns, lock_made, con_lock, con_next>>

WriteBegins(t) ==
  /\ con[t] = "write" /\ CanTake(t)
  /\ con_lock' = Take(t)
  /\ con_next' = [con_next EXCEPT ![t] = active]
  /\ Goto(t, "writing")
  /\ UNCHANGED <<has_fns, lock_made, active, alive>>

WriteOne(t) ==
  /\ con[t] = "writing" /\ con_next[t] # <<>>
  /\ con_next' = [con_next EXCEPT ![t] = Tail(@)]
  /\ UNCHANGED <<has_fns, lock_made, con_lock, active, con, alive>>

WriteReturns(t) ==
  /\ con[t] = "writing" /\ con_next[t] = <<>>
  /\ con_lock' = IF con_lock = t THEN "free" ELSE con_lock
  /\ Goto(t, "out")
  /\ UNCHANGED <<has_fns, lock_made, active, con_next, alive>>

Next ==
  \/ core_lock_init
  \/ \E t \in ConsoleThread :
       \/ \E what \in {"add", "remove", "write"} : Enter(t, what)
       \/ add(t) \/ remove(t) \/ WriteBegins(t) \/ WriteOne(t) \/ WriteReturns(t)

Spec == Init /\ [][Next]_vars

-----------------------------------------------------------------------------
(* Properties.                                                              *)

\* When the list was first used after core_lock_init(), a console is never
\* written to once it is destroyed, and what is in the list is alive.  (A
\* program that prints before gets a list that is never locked.)
WritesToTheLiving ==
  lock_made = "lock" =>
    /\ ToSet(active) \subseteq alive
    /\ \A t \in ConsoleThread : con[t] = "writing" => ToSet(con_next[t]) \subseteq alive

=============================================================================
