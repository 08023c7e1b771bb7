----------------------------- MODULE AudioPlayer -----------------------------
(***************************************************************************)
(* audio/audio-player.cpp: client threads start, stop and wait for sounds  *)
(* that one player thread plays.  The state is a monitor: one mutex, a     *)
(* condition the player waits on and a condition its clients wait on.      *)
(*                                                                         *)
(* Everything between taking the mutex and giving it up (or waiting) is    *)
(* one step; the player plays without it.  Each condition is the set of    *)
(* its sleepers.                                                           *)
(***************************************************************************)

CONSTANTS Client,
          Sound,    \* AudioBuffers
          NoSound   \* NULL

ASSUME NoSoundAssumption == NoSound \notin Sound

VARIABLES
  player_is_active, stop_requested, buffer,
  mutex_lost,     \* play() has returned with the mutex locked
  stop_sleeping,  \* the clients asleep on stop_cond
  player,         \* where the player thread is; "asleep": on start_cond
  client,         \* what each client is in
  sound,          \* the sound of a client in play()
  lapses          \* history: a signal came before the player waited ("early");
                  \* two clients slept on stop_cond ("crowd")

state == <<player_is_active, stop_requested, buffer>>
playerVars == <<state, mutex_lost, stop_sleeping, player, client, sound, lapses>>

PlayerTypeOK ==
  /\ player_is_active \in BOOLEAN /\ stop_requested \in BOOLEAN
  /\ buffer \in Sound \cup {NoSound}
  /\ mutex_lost \in BOOLEAN
  /\ stop_sleeping \subseteq {c \in Client : client[c] # "out"}
  /\ player \in {"begin", "asleep", "woken", "playing", "done"}
  /\ client \in [Client -> {"out", "play", "wait_all", "wait_current"}]
  /\ sound \in [Client -> Sound \cup {NoSound}]
  /\ \A c \in Client : client[c] = "play" <=> sound[c] # NoSound
  /\ lapses \subseteq {"early", "crowd"}

PlayerInit ==
  /\ player_is_active = FALSE /\ stop_requested = FALSE /\ buffer = NoSound
  /\ mutex_lost = FALSE
  /\ stop_sleeping = {}
  /\ player = "begin"
  /\ client = [c \in Client |-> "out"]
  /\ sound = [c \in Client |-> NoSound]
  /\ lapses = {}

\* Signals wake one sleeper; a signal with nobody asleep is not kept.
SignalStart ==
  /\ player' = IF player = "asleep" THEN "woken" ELSE player
  /\ lapses' = IF player = "begin" THEN lapses \cup {"early"} ELSE lapses
SignalStop ==
  \/ stop_sleeping = {} /\ UNCHANGED stop_sleeping
  \/ \E c \in stop_sleeping : stop_sleeping' = stop_sleeping \ {c}

-----------------------------------------------------------------------------
(* AudioPlayer::main                                                        *)

Begin ==
  /\ player = "begin" /\ ~mutex_lost
  /\ player' = "asleep"
  /\ UNCHANGED <<state, mutex_lost, stop_sleeping, client, sound, lapses>>

\* start_cond->wait() returns: play the buffer, or forget a stop and wait.
Woken ==
  /\ player = "woken" /\ ~mutex_lost
  /\ IF buffer # NoSound
     THEN player' = "playing" /\ UNCHANGED stop_requested
     ELSE player' = "asleep" /\ stop_requested' = FALSE
  /\ UNCHANGED <<player_is_active, buffer, mutex_lost, stop_sleeping, client, sound, lapses>>

\* Without the mutex: the buffer is at its end, or a stop is requested.
PlayToTheEnd ==
  /\ player = "playing"
  /\ player' = "done"
  /\ UNCHANGED <<state, mutex_lost, stop_sleeping, client, sound, lapses>>

\* Mutant: nobody is told.
Done_no_signal ==
  /\ player = "done" /\ ~mutex_lost
  /\ player_is_active' = FALSE /\ stop_requested' = FALSE /\ buffer' = NoSound
  /\ player' = "asleep"
  /\ UNCHANGED <<mutex_lost, stop_sleeping, client, sound, lapses>>

Done ==
  /\ player = "done" /\ ~mutex_lost
  /\ player_is_active' = FALSE /\ stop_requested' = FALSE /\ buffer' = NoSound
  /\ SignalStop
  /\ player' = "asleep"
  /\ UNCHANGED <<mutex_lost, client, sound, lapses>>

-----------------------------------------------------------------------------
(* The clients.                                                             *)

MayCall(c) == client[c] = "out" /\ ~mutex_lost

\* An awake client inside an operation that has the mutex to itself.
Awake(c, op) == client[c] = op /\ c \notin stop_sleeping /\ ~mutex_lost

SleepOnStop(c, op) ==
  /\ stop_sleeping' = stop_sleeping \cup {c}
  /\ lapses' = IF stop_sleeping \ {c} # {} THEN lapses \cup {"crowd"} ELSE lapses
  /\ client' = [client EXCEPT ![c] = op]

Return(c) == client' = [client EXCEPT ![c] = "out"]

\* Mutants: the player is not told; the caller does not wait for the player;
\* the device is not marked as taken.
PlayStart_no_signal(c, s) ==
  /\ ~player_is_active
  /\ player_is_active' = TRUE /\ buffer' = s
  /\ Return(c)
  /\ sound' = [sound EXCEPT ![c] = NoSound]
  /\ UNCHANGED <<stop_requested, mutex_lost, player, lapses>>

PlayStart_when_active(c, s) ==
  /\ player_is_active' = TRUE /\ buffer' = s
  /\ SignalStart
  /\ Return(c)
  /\ sound' = [sound EXCEPT ![c] = NoSound]
  /\ UNCHANGED <<stop_requested, mutex_lost>>

PlayStart_configures_later(c, s) ==
  /\ ~player_is_active
  /\ Return(c)
  /\ sound' = [sound EXCEPT ![c] = NoSound]
  /\ buffer' = s
  /\ SignalStart
  /\ UNCHANGED <<player_is_active, stop_requested, mutex_lost>>

\* The end of play(), lines 29 to 36: when configure() fails the mutex stays
\* locked.
PlayStart(c, s) ==
  /\ ~player_is_active
  /\ Return(c)
  /\ sound' = [sound EXCEPT ![c] = NoSound]
  /\ \/ /\ player_is_active' = TRUE /\ buffer' = s
        /\ SignalStart
        /\ UNCHANGED <<stop_requested, mutex_lost>>
     \/ /\ mutex_lost' = TRUE
        /\ UNCHANGED <<state, player, lapses>>

\* play() of an idle player.
Play(c, s) ==
  /\ MayCall(c)
  /\ PlayStart(c, s)
  /\ UNCHANGED stop_sleeping

\* play() of an active player stops it and waits.
PlayInstead(c, s) ==
  /\ MayCall(c) /\ player_is_active
  /\ stop_requested' = TRUE
  /\ player' = IF player = "asleep" THEN "woken" ELSE player
  /\ sound' = [sound EXCEPT ![c] = s]
  /\ SleepOnStop(c, "play")
  /\ UNCHANGED <<player_is_active, buffer, mutex_lost>>

PlayWoken(c) ==
  /\ Awake(c, "play")
  /\ \/ PlayStart(c, sound[c]) /\ UNCHANGED stop_sleeping
     \/ /\ player_is_active
        /\ SleepOnStop(c, "play")
        /\ UNCHANGED <<state, mutex_lost, player, sound>>

stop(c) ==
  /\ MayCall(c)
  /\ stop_requested' = TRUE
  /\ SignalStart
  /\ UNCHANGED <<player_is_active, buffer, mutex_lost, stop_sleeping, client, sound>>

\* wait_all_done() and wait_current_done() of an active player; of an idle one
\* they return at once.
Wait(c, op) ==
  /\ MayCall(c) /\ player_is_active
  /\ SleepOnStop(c, op)
  /\ UNCHANGED <<state, mutex_lost, player, sound>>

WaitAllWoken(c) ==
  /\ Awake(c, "wait_all")
  /\ \/ ~player_is_active /\ Return(c) /\ UNCHANGED <<stop_sleeping, lapses>>
     \/ player_is_active /\ SleepOnStop(c, "wait_all")
  /\ UNCHANGED <<state, mutex_lost, player, sound>>

WaitCurrentWoken(c) ==
  /\ Awake(c, "wait_current")
  /\ Return(c)
  /\ UNCHANGED <<state, mutex_lost, stop_sleeping, player, sound, lapses>>

\* Mutant: who gives up stays on the list.
WaitCurrentTimeout_stays_listed(c) ==
  /\ client[c] = "wait_current" /\ c \in stop_sleeping
  /\ Return(c)
  /\ UNCHANGED <<state, mutex_lost, stop_sleeping, player, sound, lapses>>

WaitCurrentTimeout(c) ==
  /\ client[c] = "wait_current" /\ c \in stop_sleeping
  /\ stop_sleeping' = stop_sleeping \ {c}
  /\ UNCHANGED <<state, mutex_lost, player, client, sound, lapses>>

-----------------------------------------------------------------------------
Player == Begin \/ Woken \/ PlayToTheEnd \/ Done
Woke(c) == PlayWoken(c) \/ WaitAllWoken(c) \/ WaitCurrentWoken(c)

PlayerNext ==
  \/ Player
  \/ \E c \in Client :
       \/ \E s \in Sound : Play(c, s) \/ PlayInstead(c, s)
       \/ stop(c)
       \/ Wait(c, "wait_all") \/ Wait(c, "wait_current")
       \/ Woke(c) \/ WaitCurrentTimeout(c)

PlayerSpec == PlayerInit /\ [][PlayerNext]_playerVars

\* Fairness: the threads run and every sound comes to its end.
PlayerFairSpec ==
  /\ PlayerSpec
  /\ WF_playerVars(Begin) /\ SF_playerVars(Woken)
  /\ WF_playerVars(PlayToTheEnd) /\ SF_playerVars(Done)
  /\ \A c \in Client : WF_playerVars(Woke(c))

-----------------------------------------------------------------------------
(* Properties.                                                              *)

\* The Audio device is used by one thread at a time: the player uses it
\* without the mutex only while player_is_active, and play() configures it
\* only while that is clear.  The player has a buffer exactly then.
DeviceHasOneUser ==
  /\ player \in {"playing", "done"} => player_is_active
  /\ player_is_active <=> buffer # NoSound

\* Action property: the buffer being played is not exchanged under the player,
\* and it is given up only by the player; until then a client that waits for
\* it must not delete it.
BufferIsStable ==
  [][player = "playing" => buffer' = buffer]_playerVars

\* Unless a call was made before the player first waits: a sound accepted by
\* play() has the player awake, and a stop() of an idle player is not left over
\* for the next sound once the player sleeps again.
AcceptedSoundIsSeen ==
  player = "asleep" /\ "early" \notin lapses => ~player_is_active /\ ~stop_requested

\* Liveness: who waits for a sound's end is woken.  It takes calls that begin
\* after the player waits (the sound of an earlier one is never played), one
\* waiter at a time (of two, the one signal may wake the one that has timed
\* out or starts the next sound) and a device that configures.
SleepersWake ==
  [](lapses = {} /\ ~mutex_lost) =>
    \A c \in Client : (c \in stop_sleeping) ~> (c \notin stop_sleeping)

=============================================================================
