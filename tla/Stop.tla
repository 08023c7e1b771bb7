--------------------------------- MODULE Stop ---------------------------------
(***************************************************************************)
(* threads/stop.c: one thread asks another to stop and waits until it has. *)
(* stop_await_stop() waits with the address of the field that holds the    *)
(* mutex (&stop->lock, line 41): what that does to the memory is           *)
(* undefined, but the mutex itself stays locked, so that who has to wait   *)
(* never comes back.                                                       *)
(***************************************************************************)
EXTENDS FiniteSets

CONSTANT StopUser

VARIABLES
  requested, stopped,
  stop_lock,     \* the user that holds stop->lock, or "free"
  stop_user,     \* where each user is
  stop_worker    \* "working", "stopping": between the flag and the signal, "done"

vars == <<requested, stopped, stop_lock, stop_user, stop_worker>>

TypeOK ==
  /\ requested \in BOOLEAN /\ stopped \in BOOLEAN
  /\ stop_lock \in StopUser \cup {"free"}
  /\ stop_user \in [StopUser -> {"out", "request", "await", "check", "stuck", "back"}]
  /\ stop_worker \in {"working", "stopping", "done"}

Init ==
  /\ requested = FALSE /\ stopped = FALSE   \* stop_reset()
  /\ stop_lock = "free"
  /\ stop_user = [u \in StopUser |-> "out"]
  /\ stop_worker = "working"

Goto(u, place) == stop_user' = [stop_user EXCEPT ![u] = place]

-----------------------------------------------------------------------------
(* stop_stop(): stop_request_stop() and stop_await_stop().                  *)

StopBegin(u) ==
  /\ stop_user[u] = "out"
  /\ Goto(u, "request")
  /\ UNCHANGED <<requested, stopped, stop_lock, stop_worker>>

stop_request_stop(u) ==
  /\ stop_user[u] = "request" /\ stop_lock = "free"
  /\ requested' = TRUE
  /\ Goto(u, "await")
  /\ UNCHANGED <<stopped, stop_lock, stop_worker>>

AwaitLock(u) ==
  /\ stop_user[u] = "await" /\ stop_lock = "free"
  /\ stop_lock' = u
  /\ Goto(u, "check")
  /\ UNCHANGED <<requested, stopped, stop_worker>>

AwaitCheck(u) ==
  /\ stop_user[u] = "check"
  /\ IF stopped THEN Goto(u, "back") /\ stop_lock' = "free"
                ELSE Goto(u, "stuck") /\ UNCHANGED stop_lock
  /\ UNCHANGED <<requested, stopped, stop_worker>>

\* The object is used again, when everybody has come back from the last stop.
stop_reset ==
  /\ stop_worker = "done"
  /\ \A u \in StopUser : stop_user[u] \in {"out", "back"}
  /\ requested' = FALSE /\ stopped' = FALSE
  /\ stop_user' = [u \in StopUser |-> "out"]
  /\ stop_worker' = "working"
  /\ UNCHANGED stop_lock

-----------------------------------------------------------------------------
(* The worker polls stop_requested(), and may also end by itself.           *)

stop_stopped ==
  /\ stop_worker = "working"
  /\ stopped' = TRUE
  /\ stop_worker' = "stopping"
  /\ UNCHANGED <<requested, stop_lock, stop_user>>

\* pi_cond_signal(): who is stuck waits for something else.
StoppedSignals ==
  /\ stop_worker = "stopping"
  /\ stop_worker' = "done"
  /\ UNCHANGED <<requested, stopped, stop_lock, stop_user>>

Next ==
  \/ \E u \in StopUser : StopBegin(u) \/ stop_request_stop(u) \/ AwaitLock(u) \/ AwaitCheck(u)
  \/ stop_reset \/ stop_stopped \/ StoppedSignals

Spec == Init /\ [][Next]_vars

-----------------------------------------------------------------------------
(* Properties.                                                              *)

\* Whoever comes back from stop_stop() finds the worker past its last work,
\* and nobody but one awaiter is ever stuck: it holds the lock, and those who
\* come later wait for it in stop_request_stop() or stop_await_stop().
BackOnlyWhenStopped ==
  /\ (\E u \in StopUser : stop_user[u] = "back") => stop_worker # "working"
  /\ \A u \in StopUser : stop_user[u] = "stuck" => stop_lock = u

=============================================================================
