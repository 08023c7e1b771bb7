------------------------------- MODULE Lights -------------------------------
(***************************************************************************)
(* threads/lights.cpp, core/include/lights.h: a worker thread steps the    *)
(* current action (blink, chase, ...) under the lock; callers replace the  *)
(* action under the lock, and off() and on() set the lights first, without *)
(* it.                                                                     *)
(***************************************************************************)
EXTENDS Naturals, Sequences

CONSTANTS LightsCaller, n_lights

VARIABLES
  lit,           \* external: the outputs
  action,        \* what the worker steps; kind "none": NULL
  worker,        \* where work() is; "step": inside step(), with the lock
  worker_todo,   \* the lights the step has still to set
  caller,        \* where each caller is
  caller_todo,   \* what its set_all() has still to set
  wanted,        \* the action it is going to set
  told,          \* history: what the last off() or on() that was not disturbed said
  disturbed      \* history: the callers whose set_all() another write fell into

vars == <<lit, action, worker, worker_todo, caller, caller_todo, wanted, told, disturbed>>

Light == 1..n_lights
Write == Light \X BOOLEAN
NULL == [kind |-> "none", on |-> FALSE, light |-> 0]
Action == [kind : {"none", "one", "all", "random", "chase"}, on : BOOLEAN,
           light : Light \cup {0}]

TypeOK ==
  /\ lit \in [Light -> BOOLEAN]
  /\ action \in Action
  /\ worker \in {"ready", "waiting", "step", "sleep"}
  /\ worker_todo \in Seq(Write)
  /\ caller \in [LightsCaller -> {"out", "set_all", "set_action"}]
  /\ caller_todo \in [LightsCaller -> Seq(Write)]
  /\ wanted \in [LightsCaller -> Action]
  /\ told \in {"all_on", "all_off", "any"}
  /\ disturbed \subseteq LightsCaller

Init ==
  /\ lit \in {[l \in Light |-> FALSE], [l \in Light |-> TRUE]}
  /\ action = NULL
  /\ worker = "ready" /\ worker_todo = <<>>
  /\ caller = [c \in LightsCaller |-> "out"]
  /\ caller_todo = [c \in LightsCaller |-> <<>>]
  /\ wanted = [c \in LightsCaller |-> NULL]
  /\ told = "any" /\ disturbed = {}

set_all(on) == [l \in Light |-> <<l, on>>]

\* The mutex is held over each step() and released between two of them.
LockHeld == worker = "step"

-----------------------------------------------------------------------------
(* work(); the action's step() is a sequence of writes.                     *)

BeginStep(writes, next) ==
  /\ worker_todo' = writes
  /\ action' = next
  /\ worker' = "step"

step_BlinkOne == BeginStep(<<<<action.light, action.on>>>>, [action EXCEPT !.on = ~@])
step_BlinkAll == BeginStep(set_all(action.on), [action EXCEPT !.on = ~@])

PickedOff == IF action.light = 0 THEN <<>> ELSE <<<<action.light, FALSE>>>>
step_BlinkRandom ==
  \E l \in Light : BeginStep(Append(PickedOff, <<l, TRUE>>), [action EXCEPT !.light = l])
step_Chase ==
  LET l == (action.light % n_lights) + 1
  IN  BeginStep(Append(PickedOff, <<l, TRUE>>), [action EXCEPT !.light = l])

WorkStep ==
  /\ worker = "ready"
  /\ \/ action.kind = "one" /\ step_BlinkOne
     \/ action.kind = "all" /\ step_BlinkAll
     \/ action.kind = "random" /\ step_BlinkRandom
     \/ action.kind = "chase" /\ step_Chase
  /\ UNCHANGED <<lit, caller, caller_todo, wanted, told, disturbed>>

WorkWait ==
  /\ worker = "ready" /\ action.kind = "none"
  /\ worker' = "waiting"
  /\ UNCHANGED <<lit, action, worker_todo, caller, caller_todo, wanted, told, disturbed>>

WorkWrite ==
  /\ worker = "step" /\ worker_todo # <<>>
  /\ LET w == Head(worker_todo) IN lit' = [lit EXCEPT ![w[1]] = w[2]]
  /\ worker_todo' = Tail(worker_todo)
  /\ disturbed' = {c \in LightsCaller : caller[c] # "out"}
  /\ UNCHANGED <<action, worker, caller, caller_todo, wanted, told>>

\* The step is done: unlock and sleep for blink_ms.
WorkUnlock ==
  /\ worker = "step" /\ worker_todo = <<>>
  /\ worker' = "sleep"
  /\ UNCHANGED <<lit, action, worker_todo, caller, caller_todo, wanted, told, disturbed>>

WorkAwake ==
  /\ worker = "sleep"
  /\ worker' = "ready"
  /\ UNCHANGED <<lit, action, worker_todo, caller, caller_todo, wanted, told, disturbed>>

-----------------------------------------------------------------------------
(* The callers.                                                             *)

Call(c, todo, new) ==
  /\ caller[c] = "out"
  /\ caller' = [caller EXCEPT ![c] = IF todo = <<>> THEN "set_action" ELSE "set_all"]
  /\ caller_todo' = [caller_todo EXCEPT ![c] = todo]
  /\ wanted' = [wanted EXCEPT ![c] = new]
  /\ disturbed' = disturbed \ {c}
  /\ UNCHANGED <<lit, action, worker, worker_todo, told>>

off(c) == Call(c, set_all(FALSE), NULL)
on(c) == Call(c, set_all(TRUE), [NULL EXCEPT !.on = TRUE])
blink_one(c, l) == Call(c, <<>>, [kind |-> "one", on |-> TRUE, light |-> l])
blink_all(c) == Call(c, <<>>, [kind |-> "all", on |-> TRUE, light |-> 0])
blink_random(c) == Call(c, <<>>, [kind |-> "random", on |-> TRUE, light |-> 0])
chase(c) ==
  Call(c, <<>>, [kind |-> IF n_lights > 1 THEN "chase" ELSE "all", on |-> TRUE, light |-> 0])

CallerWrite(c) ==
  /\ caller[c] = "set_all"
  /\ LET w == Head(caller_todo[c]) IN lit' = [lit EXCEPT ![w[1]] = w[2]]
  /\ caller_todo' = [caller_todo EXCEPT ![c] = Tail(@)]
  /\ caller' = [caller EXCEPT ![c] = IF Len(caller_todo[c]) = 1 THEN "set_action" ELSE @]
  /\ disturbed' = disturbed \cup {d \in LightsCaller \ {c} : caller[d] # "out"}
  /\ told' = "any"
  /\ UNCHANGED <<action, worker, worker_todo, wanted>>

\* What c has made of every light, if it was off() or on() and nobody else wrote.
Said(c) ==
  IF wanted[c].kind # "none" \/ c \in disturbed THEN "any"
  ELSE IF wanted[c].on THEN "all_on" ELSE "all_off"

\* set_action(): the old action is deleted and the worker, should it wait, is
\* signalled, all under the lock.
set_action(c) ==
  /\ caller[c] = "set_action" /\ ~LockHeld
  /\ action' = IF wanted[c].kind = "none" THEN NULL ELSE wanted[c]
  /\ worker' = IF worker = "waiting" THEN "ready" ELSE worker
  /\ caller' = [caller EXCEPT ![c] = "out"]
  /\ told' = Said(c)
  /\ UNCHANGED <<lit, worker_todo, caller_todo, wanted, disturbed>>

Next ==
  \/ WorkStep \/ WorkWait \/ WorkWrite \/ WorkUnlock \/ WorkAwake
  \/ \E c \in LightsCaller :
       \/ off(c) \/ on(c) \/ blink_all(c) \/ blink_random(c) \/ chase(c)
       \/ \E l \in Light : blink_one(c, l)
       \/ CallerWrite(c) \/ set_action(c)

Spec == Init /\ [][Next]_vars

-----------------------------------------------------------------------------
(* Properties.                                                              *)

\* Lights that off() or on() left all off or all on stay so until the next
\* call: the worker writes nothing any more.  It takes that no step of the old
\* action fell between set_all(), which has no lock, and set_action().
AllAsTold ==
  told # "any" => \A l \in Light : lit[l] = (told = "all_on")

=============================================================================
