------------------------------ MODULE TalkingSkull ------------------------------
(***************************************************************************)
(* audio/talking-skull.cpp: a thread that, when play() signals it, moves   *)
(* the jaw through a list of positions.  The thread holds wait_lock all    *)
(* the time but while it waits, so that set_ops(), play() and wait_done()  *)
(* run only then; it waits without a predicate.                            *)
(***************************************************************************)
EXTENDS Naturals

CONSTANTS SkullCaller,
          n_ops       \* the length of each list of positions

Version == DOMAIN n_ops

VARIABLES
  ops,            \* the list that set_ops() stored last; 0: none, n_ops is 0
  wait_lock,      \* "main", a caller, or "free"
  skull_main,     \* where main() is; "woken": signalled, without the lock yet
  op_i, playing,  \* the next position, and the list whose first one was used
  skull_caller,   \* what each caller does
  owed            \* history: a play() that signalled main() has not been followed

vars == <<ops, wait_lock, skull_main, op_i, playing, skull_caller, owed>>

TypeOK ==
  /\ ops \in Version \cup {0}
  /\ wait_lock \in SkullCaller \cup {"main", "free"}
  /\ skull_main \in {"start", "waiting", "woken", "playing"}
  /\ op_i \in Nat
  /\ playing \in Version \cup {0}
  /\ skull_caller \in [SkullCaller -> {"out", "play", "set_ops", "wait_done"}]
  /\ owed \in BOOLEAN

Init ==
  /\ ops = 0 /\ wait_lock = "free"
  /\ skull_main = "start"
  /\ op_i = 0 /\ playing = 0
  /\ skull_caller = [c \in SkullCaller |-> "out"]
  /\ owed = FALSE

Length == IF ops = 0 THEN 0 ELSE n_ops[ops]

-----------------------------------------------------------------------------
(* main()                                                                   *)

\* The first lock(), and the wait that follows it at once.
MainStarts ==
  /\ skull_main = "start" /\ wait_lock = "free"
  /\ skull_main' = "waiting"
  /\ UNCHANGED <<ops, wait_lock, op_i, playing, skull_caller, owed>>

MainAwake ==
  /\ skull_main = "woken" /\ wait_lock = "free"
  /\ wait_lock' = "main"
  /\ skull_main' = "playing"
  /\ op_i' = 0 /\ playing' = ops
  /\ UNCHANGED <<ops, skull_caller, owed>>

\* update_pos(), or nothing when the time of the position has passed.
MainStep ==
  /\ skull_main = "playing" /\ op_i < Length
  /\ op_i' = op_i + 1
  /\ UNCHANGED <<ops, wait_lock, skull_main, playing, skull_caller, owed>>

\* The loop has ended: back in the wait, without the lock.
MainWaits ==
  /\ skull_main = "playing" /\ op_i >= Length
  /\ skull_main' = "waiting"
  /\ wait_lock' = "free"
  /\ owed' = FALSE
  /\ UNCHANGED <<ops, op_i, playing, skull_caller>>

-----------------------------------------------------------------------------
(* play(), set_ops() and wait_done(): each takes the lock once.             *)

\* Mutant: the list is replaced without the lock.
Call_unlocked(c, what) ==
  /\ skull_caller[c] = "out"
  /\ what = "set_ops" \/ wait_lock = "free"
  /\ wait_lock' = c
  /\ skull_caller' = [skull_caller EXCEPT ![c] = what]
  /\ UNCHANGED <<ops, skull_main, op_i, playing, owed>>

Call(c, what) ==
  /\ skull_caller[c] = "out" /\ wait_lock = "free"
  /\ wait_lock' = c
  /\ skull_caller' = [skull_caller EXCEPT ![c] = what]
  /\ UNCHANGED <<ops, skull_main, op_i, playing, owed>>

Return(c) ==
  /\ wait_lock' = "free"
  /\ skull_caller' = [skull_caller EXCEPT ![c] = "out"]

play(c) ==
  /\ skull_caller[c] = "play"
  /\ skull_main' = IF skull_main = "waiting" THEN "woken" ELSE skull_main
  /\ owed' = (owed \/ skull_main = "waiting")
  /\ Return(c)
  /\ UNCHANGED <<ops, op_i, playing>>

set_ops(c) ==
  /\ skull_caller[c] = "set_ops"
  /\ ops' \in Version
  /\ Return(c)
  /\ UNCHANGED <<skull_main, op_i, playing, owed>>

wait_done(c) ==
  /\ skull_caller[c] = "wait_done"
  /\ Return(c)
  /\ UNCHANGED <<ops, skull_main, op_i, playing, owed>>

Next ==
  \/ MainStarts \/ MainAwake \/ MainStep \/ MainWaits
  \/ \E c \in SkullCaller :
       \/ \E what \in {"play", "set_ops", "wait_done"} : Call(c, what)
       \/ play(c) \/ set_ops(c) \/ wait_done(c)

Spec == Init /\ [][Next]_vars

-----------------------------------------------------------------------------
(* Properties.                                                              *)

\* The list is never replaced, and no caller comes back from wait_done(),
\* between the first position of a sequence and its last.
PlayedUnderOneList ==
  skull_main = "playing" => ops = playing /\ wait_lock = "main" /\ op_i <= Length

\* A play() that found the thread waiting is still to be followed by the whole
\* sequence: the thread is not back in its wait before that.  (A play() before
\* the first wait is lost, and those before the thread is awake count as one.)
PlayIsFollowed == owed => skull_main \in {"woken", "playing"}

=============================================================================
