----------------------------------- MODULE Hid -----------------------------------
(***************************************************************************)
(* net/bluetooth/hid.cpp: a HID device.  Its user asks for permission to   *)
(* send; CanSendNowThread hands the request on to the Bluetooth stack,     *)
(* which answers with CAN_SEND_NOW.  The thread begins without the mutex   *)
(* that its loop assumes: its first unlock() is of a mutex that is free,   *)
(* or that a user of request_can_send_now() holds.                         *)
(***************************************************************************)
EXTENDS Naturals, FiniteSets

CONSTANT HidUser   \* threads that call request_can_send_now()

VARIABLES
  can_send_now,   \* CanSendNowThread::can_send_now
  csn_lock,       \* who holds CanSendNowThread::lock: a user, "csn" or "free"
  csn_thread,     \* where CanSendNowThread::main() is
  csn_user,       \* where each user is
  hid_cid,        \* HID::cid, 0 or 1
  requested,      \* btstack: a CAN_SEND_NOW event is due
  wanted,         \* history: users whose request no event has been asked for since
  gave_away       \* history: the first unlock() hit a user's lock

hidVars == <<can_send_now, csn_lock, csn_thread, csn_user, hid_cid, requested, wanted, gave_away>>

TypeOK ==
  /\ can_send_now \in BOOLEAN
  /\ csn_lock \in HidUser \cup {"csn", "free"}
  /\ csn_thread \in {"first", "test", "unlock", "ask", "lock", "waiting", "asserts"}
  /\ csn_user \in [HidUser -> {"out", "set", "signal"}]
  /\ hid_cid \in 0..1 /\ requested \in BOOLEAN
  /\ wanted \subseteq HidUser /\ gave_away \in BOOLEAN

\* HID::initialize(): the thread starts with one request of its own.
Init ==
  /\ can_send_now = TRUE
  /\ csn_lock = "free"
  /\ csn_thread = "first"
  /\ csn_user = [u \in HidUser |-> "out"]
  /\ hid_cid = 0
  /\ requested = FALSE
  /\ wanted = {} /\ gave_away = FALSE

-----------------------------------------------------------------------------
(* CanSendNowThread::main()                                                 *)

\* Without the lock, the first time only.
TakeFirst ==
  /\ csn_thread = "first"
  /\ can_send_now' = FALSE
  /\ csn_thread' = "unlock"
  /\ UNCHANGED <<csn_lock, csn_user, hid_cid, requested, wanted, gave_away>>

Take ==
  /\ csn_thread = "test" /\ csn_lock = "csn" /\ can_send_now
  /\ can_send_now' = FALSE
  /\ csn_thread' = "unlock"
  /\ UNCHANGED <<csn_lock, csn_user, hid_cid, requested, wanted, gave_away>>

\* Giving a free mutex does nothing; giving one that another task holds fails
\* an assertion of FreeRTOS, or, without assertions, takes it from its holder.
Unlock ==
  /\ csn_thread = "unlock"
  /\ csn_lock' = "free"
  /\ gave_away' = (gave_away \/ csn_lock \in HidUser)
  /\ csn_thread' \in IF csn_lock \in HidUser THEN {"ask", "asserts"} ELSE {"ask"}
  /\ UNCHANGED <<can_send_now, csn_user, hid_cid, requested, wanted>>

\* hid_device_request_can_send_now_event(); the stack drops one for no device.
Ask ==
  /\ csn_thread = "ask"
  /\ requested' = (requested \/ hid_cid # 0)
  /\ wanted' = {}
  /\ csn_thread' = "lock"
  /\ UNCHANGED <<can_send_now, csn_lock, csn_user, hid_cid, gave_away>>

CsnLocks ==
  /\ csn_thread = "lock" /\ csn_lock = "free"
  /\ csn_lock' = "csn"
  /\ csn_thread' = "test"
  /\ UNCHANGED <<can_send_now, csn_user, hid_cid, requested, wanted, gave_away>>

\* Mutant: the loop waits without a second look at the flag.
Wait_blindly ==
  /\ csn_thread = "test" /\ csn_lock = "csn"
  /\ csn_lock' = "free"
  /\ csn_thread' = "waiting"
  /\ UNCHANGED <<can_send_now, csn_user, hid_cid, requested, wanted, gave_away>>

Wait ==
  /\ csn_thread = "test" /\ csn_lock = "csn" /\ ~can_send_now
  /\ csn_lock' = "free"
  /\ csn_thread' = "waiting"
  /\ UNCHANGED <<can_send_now, csn_user, hid_cid, requested, wanted, gave_away>>

Csn == TakeFirst \/ Take \/ Unlock \/ Ask \/ CsnLocks \/ Wait

-----------------------------------------------------------------------------
(* CanSendNowThread::request_can_send_now()                                 *)

UserLocks(u) ==
  /\ csn_user[u] = "out" /\ csn_lock = "free"
  /\ csn_lock' = u
  /\ csn_user' = [csn_user EXCEPT ![u] = "set"]
  /\ UNCHANGED <<can_send_now, csn_thread, hid_cid, requested, wanted, gave_away>>

UserSets(u) ==
  /\ csn_user[u] = "set"
  /\ can_send_now' = TRUE
  /\ wanted' = wanted \cup {u}
  /\ csn_user' = [csn_user EXCEPT ![u] = "signal"]
  /\ UNCHANGED <<csn_lock, csn_thread, hid_cid, requested, gave_away>>

\* The signal, and the unlock, which does nothing to a lock that was given away.
UserSignals(u) ==
  /\ csn_user[u] = "signal"
  /\ csn_thread' = IF csn_thread = "waiting" THEN "lock" ELSE csn_thread
  /\ csn_lock' = IF csn_lock = u THEN "free" ELSE csn_lock
  /\ csn_user' = [csn_user EXCEPT ![u] = "out"]
  /\ UNCHANGED <<can_send_now, hid_cid, requested, wanted, gave_away>>

-----------------------------------------------------------------------------
(* hid_packet_handler()                                                     *)

connected ==
  /\ hid_cid = 0 /\ hid_cid' = 1
  /\ UNCHANGED <<can_send_now, csn_lock, csn_thread, csn_user, requested, wanted, gave_away>>

\* The stack's pending event goes with the connection.
disconnected ==
  /\ hid_cid # 0 /\ hid_cid' = 0
  /\ requested' = FALSE
  /\ UNCHANGED <<can_send_now, csn_lock, csn_thread, csn_user, wanted, gave_away>>

\* The user sends its report from HID::can_send_now().
CanSendNow ==
  /\ requested
  /\ requested' = FALSE
  /\ UNCHANGED <<can_send_now, csn_lock, csn_thread, csn_user, hid_cid, wanted, gave_away>>

\* FreeRTOS stops the program at a failed assertion.
Next ==
  /\ csn_thread # "asserts"
  /\ \/ Csn
     \/ \E u \in HidUser : UserLocks(u) \/ UserSets(u) \/ UserSignals(u)
     \/ connected \/ disconnected \/ CanSendNow

\* The thread runs at a higher priority than its users: it gets the lock.  A user
\* that holds the lock gives it back.
Fairness ==
  /\ SF_hidVars(csn_thread # "asserts" /\ Csn)
  /\ \A u \in HidUser : WF_hidVars(csn_thread # "asserts" /\ (UserSets(u) \/ UserSignals(u)))

Spec == Init /\ [][Next]_hidVars /\ Fairness

-----------------------------------------------------------------------------
(* Properties.                                                              *)

\* Every request is followed by a request to the stack, made after it, unless
\* the unlock of a mutex that it does not hold has stopped the program.
RequestsReachTheStack ==
  \A u \in HidUser : (u \in wanted) ~> (u \notin wanted \/ csn_thread = "asserts")

\* The thread sleeps beside a request only until its signal.
NoRequestIsForgotten ==
  csn_thread = "waiting" /\ can_send_now => \E u \in HidUser : csn_user[u] = "signal"

\* The lock is the thread's, or a user's that is inside, except after the first
\* unlock has taken it from one.
LockIsHeldByWhoUsesIt ==
  /\ csn_thread = "test" => csn_lock = "csn"
  /\ ~gave_away => \A u \in HidUser : csn_user[u] # "out" => csn_lock = u

=============================================================================
