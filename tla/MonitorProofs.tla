----------------------------- MODULE MonitorProofs -----------------------------
(***************************************************************************)
(* Proofs about the two components that are a mutex and conditions around  *)
(* their state.                                                            *)
(*                                                                         *)
(* AudioPlayer, for any number of clients and sounds.                      *)
(*                                                                         *)
(* ProducerConsumer, for any number of threads, buffers and slots, and any *)
(* modulus of the sequence numbers.                                        *)
(***************************************************************************)
EXTENDS AudioPlayer, ProducerConsumer, SequenceLemmas, TLAPS

-----------------------------------------------------------------------------
(* AudioPlayer                                                              *)

\* Before the player first waits, and whenever it does, there is nothing to do
\* (but for a call that came too early).
NothingIsMissed ==
  player \in {"begin", "asleep"} /\ "early" \notin lapses
    => ~player_is_active /\ ~stop_requested

PlayerInv == PlayerTypeOK /\ DeviceHasOneUser /\ NothingIsMissed

\* AudioPlayer's constructor leaves an idle player.
LEMMA PlayerInitInv == PlayerInit => PlayerInv
BY NoSoundAssumption DEF PlayerInit, PlayerInv, PlayerTypeOK, DeviceHasOneUser, NothingIsMissed

\* The player thread: it takes a sound with the mutex and returns the device
\* and the sound together.
LEMMA PlayerStepInv == ASSUME PlayerInv, Player PROVE PlayerInv'
<1> USE DEF PlayerInv, PlayerTypeOK, DeviceHasOneUser, NothingIsMissed, state
<1>1. CASE Begin
  BY <1>1 DEF Begin
<1>2. CASE Woken
  BY <1>2 DEF Woken
<1>3. CASE PlayToTheEnd
  BY <1>3 DEF PlayToTheEnd
<1>4. CASE Done
  BY <1>4 DEF Done, SignalStop
<1> QED
  BY <1>1, <1>2, <1>3, <1>4 DEF Player

\* The end of play(): an idle player gets a sound, or the mutex is lost.
LEMMA PlayStartInv ==
  ASSUME PlayerInv, NEW c \in Client, NEW s \in Sound, PlayStart(c, s),
         c \notin stop_sleeping, UNCHANGED stop_sleeping
  PROVE PlayerInv'
<1> USE NoSoundAssumption
        DEF PlayStart, Return, PlayerInv, PlayerTypeOK, DeviceHasOneUser, NothingIsMissed, state
<1>1. CASE player_is_active' = TRUE /\ buffer' = s /\ SignalStart /\ UNCHANGED <<stop_requested, mutex_lost>>
  BY <1>1 DEF SignalStart
<1>2. CASE mutex_lost' = TRUE /\ UNCHANGED <<state, player, lapses>>
  BY <1>2
<1> QED
  BY <1>1, <1>2

\* A client that goes to sleep on stop_cond, for its own sake.
LEMMA SleepOnStopKeepsTypes ==
  ASSUME PlayerInv, NEW c \in Client, NEW op \in {"play", "wait_all", "wait_current"}, SleepOnStop(c, op)
  PROVE /\ client' = [client EXCEPT ![c] = op] /\ client' \in [Client -> {"out", "play", "wait_all", "wait_current"}]
        /\ stop_sleeping' \subseteq {d \in Client : client'[d] # "out"}
        /\ lapses' \subseteq {"early", "crowd"} /\ ("early" \in lapses' <=> "early" \in lapses)
BY DEF SleepOnStop, PlayerInv, PlayerTypeOK

\* What each client does leaves the sound being played to the player.
LEMMA ClientInv ==
  ASSUME PlayerInv, NEW c \in Client,
         \/ \E s \in Sound : Play(c, s) \/ PlayInstead(c, s)
         \/ stop(c)
         \/ Wait(c, "wait_all") \/ Wait(c, "wait_current")
         \/ Woke(c) \/ WaitCurrentTimeout(c)
  PROVE PlayerInv'
<1> USE DEF PlayerInv, PlayerTypeOK, DeviceHasOneUser, NothingIsMissed, state, MayCall, Awake
<1>1. ASSUME NEW s \in Sound, Play(c, s) PROVE PlayerInv'
  <2>1. c \notin stop_sleeping
    BY <1>1 DEF Play
  <2> QED
    BY <1>1, <2>1, PlayStartInv DEF Play
<1>2. ASSUME NEW s \in Sound, PlayInstead(c, s) PROVE PlayerInv'
  BY <1>2, NoSoundAssumption, SleepOnStopKeepsTypes DEF PlayInstead
<1>3. CASE PlayWoken(c)
  <2>1. sound[c] \in Sound /\ c \notin stop_sleeping
    BY <1>3 DEF PlayWoken
  <2>2. CASE PlayStart(c, sound[c]) /\ UNCHANGED stop_sleeping
    BY <2>1, <2>2, PlayStartInv
  <2>3. CASE SleepOnStop(c, "play") /\ UNCHANGED <<state, mutex_lost, player, sound>>
    BY <1>3, <2>3, SleepOnStopKeepsTypes DEF PlayWoken
  <2> QED
    BY <1>3, <2>2, <2>3 DEF PlayWoken
<1>4. CASE stop(c)
  BY <1>4 DEF stop, SignalStart
<1>5. CASE Wait(c, "wait_all") \/ Wait(c, "wait_current")
  BY <1>5, SleepOnStopKeepsTypes DEF Wait
<1>6. CASE WaitAllWoken(c)
  <2>1. CASE Return(c) /\ UNCHANGED <<stop_sleeping, lapses>>
    BY <1>6, <2>1 DEF WaitAllWoken, Return
  <2>2. CASE SleepOnStop(c, "wait_all")
    BY <1>6, <2>2, SleepOnStopKeepsTypes DEF WaitAllWoken
  <2> QED
    BY <1>6, <2>1, <2>2 DEF WaitAllWoken
<1>7. CASE WaitCurrentWoken(c)
  BY <1>7 DEF WaitCurrentWoken, Return
<1>8. CASE WaitCurrentTimeout(c)
  BY <1>8 DEF WaitCurrentTimeout
<1> QED
  BY <1>1, <1>2, <1>3, <1>4, <1>5, <1>6, <1>7, <1>8 DEF Woke

\* The inductive invariant of the monitor.
THEOREM PlayerInvariance == PlayerSpec => []PlayerInv
<1>1. PlayerInv /\ [PlayerNext]_playerVars => PlayerInv'
  <2> SUFFICES ASSUME PlayerInv, [PlayerNext]_playerVars PROVE PlayerInv'
    OBVIOUS
  <2>1. CASE Player
    BY <2>1, PlayerStepInv
  <2>2. CASE \E c \in Client : \/ \E s \in Sound : Play(c, s) \/ PlayInstead(c, s)
                               \/ stop(c)
                               \/ Wait(c, "wait_all") \/ Wait(c, "wait_current")
                               \/ Woke(c) \/ WaitCurrentTimeout(c)
    BY <2>2, ClientInv
  <2>3. CASE UNCHANGED playerVars
    BY <2>3 DEF playerVars, state, PlayerInv, PlayerTypeOK, DeviceHasOneUser, NothingIsMissed
  <2> QED
    BY <2>1, <2>2, <2>3 DEF PlayerNext
<1> QED
  BY <1>1, PlayerInitInv, PTL DEF PlayerSpec

\* Who sleeps on stop_cond is in a call, and a sound is kept for exactly the
\* clients inside play().
THEOREM PlayerTypeCorrect == PlayerSpec => []PlayerTypeOK
BY PlayerInvariance, PTL DEF PlayerInv

\* The player thread uses the Audio device only while player_is_active, and
\* play() configures it only while that is clear: never both.
THEOREM DeviceIsExclusive == PlayerSpec => []DeviceHasOneUser
BY PlayerInvariance, PTL DEF PlayerInv

\* A sound or a stop that came once the player waits is never slept through.
THEOREM NoSoundIsMissed == PlayerSpec => []AcceptedSoundIsSeen
<1>1. PlayerInv => AcceptedSoundIsSeen
  BY DEF PlayerInv, NothingIsMissed, AcceptedSoundIsSeen
<1> QED
  BY <1>1, PlayerInvariance, PTL

\* No step exchanges the buffer that the player plays without the mutex.
THEOREM PlayedBufferStays == PlayerSpec => BufferIsStable
<1>1. PlayerInv /\ [PlayerNext]_playerVars => [player = "playing" => buffer' = buffer]_playerVars
  <2> SUFFICES ASSUME PlayerInv, PlayerNext, player = "playing" PROVE buffer' = buffer
    OBVIOUS
  <2>1. player_is_active
    BY DEF PlayerInv, DeviceHasOneUser
  <2>2. ASSUME NEW c \in Client, NEW s, PlayStart(c, s) PROVE FALSE
    BY <2>1, <2>2 DEF PlayStart
  <2> QED
    BY <2>1, <2>2 DEF PlayerNext, Player, Begin, Woken, PlayToTheEnd, Done, Play, PlayInstead, PlayWoken,
       stop, Wait, WaitAllWoken, WaitCurrentWoken, WaitCurrentTimeout, Woke, state
<1> QED
  BY <1>1, PlayerInvariance, PTL DEF PlayerSpec, BufferIsStable

-----------------------------------------------------------------------------
(* ProducerConsumer                                                         *)

\* The mutex is held by the one thread that is past it.
MutexIsOwned == \A t \in Thread : pc[t] \in {"check", "stuck"} <=> mutex = t

\* Only consumers sleep on the condition, only producers are stuck.
SleepersAreAsleep ==
  /\ \A c \in Consumer : pc[c] = "asleep" <=> c \in sleeping
  /\ \A p \in Producer : pc[p] # "asleep"

\* A producer inside produce() has a buffer in its hands.
ProducersHoldBuffers == \A p \in Producer : pc[p] # "out" => item[p] \in Buffer

\* Both ends of the ring, and both counters, are n_full apart; the slots between
\* the ends hold buffers, and the numbers that produce() returned for them go
\* on from the number that consume() reports next.
RingIsConsistent ==
  /\ next_out = (next_in + n_full) % n_buffers
  /\ seq_in = (seq_out + n_full) % SeqMod
  /\ \A i \in 1..n_full :
       /\ buffers[(next_in + i - 1) % n_buffers] \in Buffer
       /\ returned[(next_in + i - 1) % n_buffers] = (seq_out + i - 1) % SeqMod

IInv ==
  /\ TypeOK
  /\ MutexIsOwned
  /\ SleepersAreAsleep
  /\ ProducersHoldBuffers
  /\ RingIsConsistent
  /\ NoSleeperBesideItem

-----------------------------------------------------------------------------
\* signal(): who is woken was asleep, so the places of all others stay.
LEMMA SignalKeepsOrder ==
  ASSUME IInv, NEW t \in Thread, pc[t] = "check", SignalAndReturn(t)
  PROVE /\ sleeping' \subseteq sleeping /\ pc' \in [Thread -> Places]
        /\ pc'[t] = "out"
        /\ \A u \in Thread : pc'[u] \in {"check", "stuck"} <=> (u # t /\ pc[u] \in {"check", "stuck"})
        /\ SleepersAreAsleep'
        /\ \A p \in Producer : pc'[p] # "out" => pc[p] # "out"
        /\ sleeping' # {} => \E c \in Consumer : pc'[c] = "lock"
<1> USE DEF IInv, TypeOK, SleepersAreAsleep, Places, Thread
<1>1. CASE sleeping = {} /\ UNCHANGED sleeping /\ pc' = [pc EXCEPT ![t] = "out"]
  BY <1>1
<1>2. CASE \E s \in sleeping : /\ sleeping' = sleeping \ {s}
                               /\ pc' = [pc EXCEPT ![t] = "out", ![s] = "lock"]
  <2>1. PICK s \in sleeping : /\ sleeping' = sleeping \ {s}
                              /\ pc' = [pc EXCEPT ![t] = "out", ![s] = "lock"]
    BY <1>2
  <2>2. s \in Consumer /\ s \notin Producer /\ pc[s] = "asleep" /\ s # t
    BY ThreadAssumption
  <2> QED
    BY <2>1, <2>2
<1> QED
  BY <1>1, <1>2 DEF SignalAndReturn

\* producer_consumer_new_seed() starts from an empty, consistent ring.
LEMMA InitInv == Init => IInv
<1> SUFFICES ASSUME Init PROVE IInv
  OBVIOUS
<1> USE DEF Init
<1>1. 1 % SeqMod \in SeqNo /\ 0 \in SeqNo
  BY SizeAssumption DEF SeqNo
<1>2. TypeOK
  BY <1>1, SizeAssumption DEF TypeOK, Slot, Places, Thread
<1>3. RingIsConsistent
  <2>1. (0 + 0) % n_buffers = 0
    BY SizeAssumption
  <2>2. (seq_out + 0) % SeqMod = seq_out
    BY <1>1, SizeAssumption DEF SeqNo
  <2> QED
    BY <2>1, <2>2 DEF RingIsConsistent
<1> QED
  BY <1>2, <1>3, ThreadAssumption
     DEF IInv, MutexIsOwned, SleepersAreAsleep, ProducersHoldBuffers, NoSleeperBesideItem, Thread

\* The steps that leave the ring alone.
LEMMA RingUnchangedInv ==
  ASSUME IInv, UNCHANGED <<ring, returned, consumed>>,
         NEW t \in Thread,
         \/ LockMutex(t)
         \/ t \in Consumer /\ (ConsumeCall(t) \/ ConsumeWait(t))
         \/ t \in Producer /\ \/ \E b \in Buffer : ProduceCall(t, b)
                              \/ ProduceWait(t) \/ ProduceWaitReturns(t)
  PROVE IInv'
<1> USE DEF IInv, TypeOK, Places, Thread, ring
<1>1. RingIsConsistent'
  BY DEF RingIsConsistent
<1>2. CASE LockMutex(t)
  BY <1>1, <1>2, ThreadAssumption
     DEF LockMutex, MutexIsOwned, SleepersAreAsleep, ProducersHoldBuffers, NoSleeperBesideItem
<1>3. CASE t \in Consumer /\ ConsumeCall(t)
  BY <1>1, <1>3, ThreadAssumption
     DEF ConsumeCall, MutexIsOwned, SleepersAreAsleep, ProducersHoldBuffers, NoSleeperBesideItem
<1>4. CASE t \in Consumer /\ ConsumeWait(t)
  BY <1>1, <1>4, ThreadAssumption
     DEF ConsumeWait, MutexIsOwned, SleepersAreAsleep, ProducersHoldBuffers, NoSleeperBesideItem
<1>5. CASE t \in Producer /\ \E b \in Buffer : ProduceCall(t, b)
  BY <1>1, <1>5, ThreadAssumption
     DEF ProduceCall, MutexIsOwned, SleepersAreAsleep, ProducersHoldBuffers, NoSleeperBesideItem
<1>6. CASE t \in Producer /\ (ProduceWait(t) \/ ProduceWaitReturns(t))
  BY <1>1, <1>6, ThreadAssumption
     DEF ProduceWait, ProduceWaitReturns, MutexIsOwned, SleepersAreAsleep,
         ProducersHoldBuffers, NoSleeperBesideItem
<1> QED
  BY <1>2, <1>3, <1>4, <1>5, <1>6

\* Consuming moves the ring's inner end by one slot: what was waiting is what
\* came out, followed by what is waiting still.
LEMMA ConsumeMovesRing ==
  ASSUME IInv, NEW c \in Consumer, Consume(c)
  PROVE /\ n_full' \in 0..n_buffers /\ next_in' \in Slot /\ seq_out' \in SeqNo
        /\ buffers[next_in] \in Buffer
        /\ RingIsConsistent'
        /\ Waiting[1] = <<buffers[next_in], seq_out>>
        /\ \A i \in 1..n_full' : i + 1 \in 1..n_full /\ Waiting'[i] = Waiting[i + 1]
<1>1. /\ n_full \in 1..n_buffers /\ n_full' = n_full - 1 /\ n_full' \in 0..n_buffers
      /\ next_in' = (next_in + 1) % n_buffers /\ seq_out' = (seq_out + 1) % SeqMod
      /\ UNCHANGED <<buffers, next_out, seq_in, returned>>
  BY SizeAssumption DEF Consume, IInv, TypeOK
<1>2. n_buffers \in Nat \ {0} /\ SeqMod \in Nat \ {0} /\ n_full \in Nat \ {0}
  BY <1>1, SizeAssumption
<1>3. /\ InnerEndMoves(n_buffers, next_in, n_full, next_in', n_full')
      /\ InnerEndMoves(SeqMod, seq_out, n_full, seq_out', n_full')
  BY <1>1 DEF InnerEndMoves
<1>4. next_in \in 0..(n_buffers - 1) /\ seq_out \in 0..(SeqMod - 1)
  BY DEF IInv, TypeOK, Slot, SeqNo
<1>5. /\ next_in' \in 0..(n_buffers - 1) /\ (next_in + 1 - 1) % n_buffers = next_in
      /\ (next_in' + n_full') % n_buffers = (next_in + n_full) % n_buffers
      /\ \A i \in 1..n_full' :
           i + 1 \in 1..n_full /\ (next_in' + i - 1) % n_buffers = (next_in + (i + 1) - 1) % n_buffers
  BY <1>2, <1>3, <1>4, InnerEnd
<1>6. /\ seq_out' \in 0..(SeqMod - 1) /\ (seq_out + 1 - 1) % SeqMod = seq_out
      /\ (seq_out' + n_full') % SeqMod = (seq_out + n_full) % SeqMod
      /\ \A i \in 1..n_full' :
           i + 1 \in 1..n_full /\ (seq_out' + i - 1) % SeqMod = (seq_out + (i + 1) - 1) % SeqMod
  BY <1>2, <1>3, <1>4, InnerEnd
<1>7. 1 \in 1..n_full
  BY <1>1
<1>8. buffers[next_in] \in Buffer /\ returned[next_in] = seq_out
  BY <1>5, <1>6, <1>7 DEF IInv, RingIsConsistent
<1>9. RingIsConsistent'
  BY <1>1, <1>5, <1>6 DEF IInv, RingIsConsistent
<1>10. Waiting[1] = <<buffers[next_in], seq_out>>
  BY <1>5, <1>7, <1>8 DEF Waiting
<1>11. \A i \in 1..n_full' : i + 1 \in 1..n_full /\ Waiting'[i] = Waiting[i + 1]
  BY <1>1, <1>5 DEF Waiting
<1> QED
  BY <1>1, <1>5, <1>6, <1>8, <1>9, <1>10, <1>11 DEF Slot, SeqNo

\* consume() past its wait keeps the invariant: the signal it gives wakes a
\* sleeper, if buffers and sleepers are left.
LEMMA ConsumeInv == ASSUME IInv, NEW c \in Consumer, Consume(c) PROVE IInv'
<1>1. /\ pc[c] = "check" /\ n_full > 0 /\ SignalAndReturn(c) /\ mutex' = Nobody
      /\ consumed' = <<buffers[next_in], seq_out>>
      /\ UNCHANGED <<buffers, next_out, seq_in, item, returned>>
  BY DEF Consume
<1>2. mutex = c /\ c \in Thread
  BY <1>1 DEF IInv, MutexIsOwned, Thread
<1>3. TypeOK'
  BY <1>1, <1>2, ConsumeMovesRing, SignalKeepsOrder DEF IInv, TypeOK, Item
<1>4. MutexIsOwned'
  BY <1>1, <1>2, SignalKeepsOrder, ThreadAssumption DEF IInv, MutexIsOwned, Thread
<1>5. ProducersHoldBuffers'
  BY <1>1, <1>2, SignalKeepsOrder DEF IInv, ProducersHoldBuffers
<1>6. NoSleeperBesideItem'
  BY <1>1, <1>2, SignalKeepsOrder DEF NoSleeperBesideItem
<1> QED
  BY <1>1, <1>2, <1>3, <1>4, <1>5, <1>6, ConsumeMovesRing, SignalKeepsOrder DEF IInv

\* Producing moves its outer end, into a slot that was free: what is waiting
\* stays, and the new buffer with the number returned for it follows.
LEMMA ProduceMovesRing ==
  ASSUME IInv, NEW p \in Producer, Produce(p)
  PROVE /\ n_full \in Nat /\ n_full' = n_full + 1 /\ n_full' \in 0..n_buffers
        /\ next_out' \in Slot /\ seq_in' \in SeqNo
        /\ buffers' \in [Slot -> Buffer \cup {NoBuffer}]
        /\ returned' \in [Slot -> SeqNo]
        /\ RingIsConsistent'
        /\ \A i \in 1..n_full : Waiting'[i] = Waiting[i]
        /\ Waiting'[n_full'] = <<item[p], seq_in>>
<1>1. /\ n_full \in 0..(n_buffers - 1) /\ n_full' = n_full + 1 /\ n_full' \in 0..n_buffers
      /\ next_out' = (next_out + 1) % n_buffers /\ seq_in' = (seq_in + 1) % SeqMod
      /\ buffers' = [buffers EXCEPT ![next_out] = item[p]]
      /\ returned' = [returned EXCEPT ![next_out] = seq_in]
      /\ item[p] \in Buffer
      /\ UNCHANGED <<next_in, seq_out>>
  BY SizeAssumption DEF Produce, ProducersHoldBuffers, IInv, TypeOK, Thread
<1>2. n_buffers \in Nat \ {0} /\ SeqMod \in Nat \ {0} /\ n_full \in Nat /\ n_full < n_buffers
  BY <1>1, SizeAssumption
<1>3. /\ OuterEndMoves(n_buffers, next_in, n_full, next_out, next_out', n_full')
      /\ OuterEndMoves(SeqMod, seq_out, n_full, seq_in, seq_in', n_full')
  BY <1>1 DEF OuterEndMoves, IInv, RingIsConsistent
<1>4. next_in \in 0..(n_buffers - 1) /\ seq_out \in 0..(SeqMod - 1)
  BY DEF IInv, TypeOK, Slot, SeqNo
<1>5. /\ next_out \in 0..(n_buffers - 1) /\ next_out' \in 0..(n_buffers - 1)
      /\ next_out' = (next_in + n_full') % n_buffers
      /\ (next_in + n_full' - 1) % n_buffers = next_out
      /\ \A i \in 1..n_full : (next_in + i - 1) % n_buffers \in (0..(n_buffers - 1)) \ {next_out}
  <2>1. /\ next_out \in 0..(n_buffers - 1) /\ next_out' \in 0..(n_buffers - 1)
        /\ next_out' = (next_in + n_full') % n_buffers
        /\ (next_in + n_full' - 1) % n_buffers = next_out
    BY <1>2, <1>3, <1>4, OuterEnd
  <2>2. n_full \in 0..(n_buffers - 1) /\ next_out = (next_in + n_full) % n_buffers
    BY <1>1, <1>3 DEF OuterEndMoves
  <2>3. \A i \in 1..n_full : (next_in + i - 1) % n_buffers \in (0..(n_buffers - 1)) \ {next_out}
    BY <1>2, <1>4, <2>2, OuterEndIsFree
  <2> QED
    BY <2>1, <2>3
<1>6. /\ seq_in' \in 0..(SeqMod - 1)
      /\ seq_in' = (seq_out + n_full') % SeqMod
      /\ (seq_out + n_full' - 1) % SeqMod = seq_in
  BY <1>2, <1>3, <1>4, OuterEnd
<1>7. /\ buffers \in [0..(n_buffers - 1) -> Buffer \cup {NoBuffer}]
      /\ returned \in [0..(n_buffers - 1) -> SeqNo] /\ seq_in \in SeqNo
  BY DEF IInv, TypeOK, Slot
<1>8. /\ buffers' \in [0..(n_buffers - 1) -> Buffer \cup {NoBuffer}]
      /\ returned' \in [0..(n_buffers - 1) -> SeqNo]
  BY <1>1, <1>7
<1>9. \A i \in 1..n_full :
        /\ buffers'[(next_in + i - 1) % n_buffers] = buffers[(next_in + i - 1) % n_buffers]
        /\ returned'[(next_in + i - 1) % n_buffers] = returned[(next_in + i - 1) % n_buffers]
  BY <1>1, <1>5, <1>7
<1>10. buffers'[next_out] = item[p] /\ returned'[next_out] = seq_in
  BY <1>1, <1>5, <1>7
<1>11. \A i \in 1..n_full' : i \in 1..n_full \/ i = n_full'
  BY <1>1
<1>12. \A i \in 1..n_full : i \in 1..n_full'
  BY <1>1
<1>13. n_full' \in 1..n_full'
  BY <1>1
<1>14. RingIsConsistent'
  BY <1>1, <1>5, <1>6, <1>9, <1>10, <1>11 DEF IInv, RingIsConsistent
<1>15. \A i \in 1..n_full : Waiting'[i] = Waiting[i]
  BY <1>1, <1>9, <1>12 DEF Waiting
<1>16. Waiting'[n_full'] = <<item[p], seq_in>>
  BY <1>1, <1>5, <1>10, <1>13 DEF Waiting
<1> QED
  BY <1>1, <1>2, <1>5, <1>6, <1>8, <1>14, <1>15, <1>16 DEF Slot, SeqNo

\* produce() past its wait keeps the invariant.
LEMMA ProduceInv == ASSUME IInv, NEW p \in Producer, Produce(p) PROVE IInv'
<1>1. /\ pc[p] = "check" /\ SignalAndReturn(p) /\ mutex' = Nobody
      /\ UNCHANGED <<next_in, seq_out, item, consumed>>
  BY DEF Produce
<1>2. mutex = p /\ p \in Thread
  BY <1>1 DEF IInv, MutexIsOwned, Thread
<1>3. TypeOK'
  BY <1>1, <1>2, ProduceMovesRing, SignalKeepsOrder DEF IInv, TypeOK
<1>4. MutexIsOwned'
  BY <1>1, <1>2, SignalKeepsOrder, ThreadAssumption DEF IInv, MutexIsOwned, Thread
<1>5. ProducersHoldBuffers'
  BY <1>1, <1>2, SignalKeepsOrder DEF IInv, ProducersHoldBuffers
<1>6. NoSleeperBesideItem'
  BY <1>1, <1>2, SignalKeepsOrder DEF NoSleeperBesideItem
<1> QED
  BY <1>1, <1>2, <1>3, <1>4, <1>5, <1>6, ProduceMovesRing, SignalKeepsOrder DEF IInv

-----------------------------------------------------------------------------
\* The inductive invariant: whatever order the threads run in, whoever is woken.
THEOREM Invariance == Spec => []IInv
<1>1. IInv /\ [Next]_vars => IInv'
  <2> SUFFICES ASSUME IInv, [Next]_vars PROVE IInv'
    OBVIOUS
  <2>1. ASSUME NEW c \in Consumer, ConsumeCall(c) \/ ConsumerStep(c) PROVE IInv'
    <3>1. c \in Thread
      BY DEF Thread
    <3>2. CASE Consume(c)
      BY <3>2, ConsumeInv
    <3>3. CASE ConsumeCall(c) \/ LockMutex(c) \/ ConsumeWait(c)
      <4>1. UNCHANGED <<ring, returned, consumed>>
        BY <3>3 DEF ConsumeCall, LockMutex, ConsumeWait
      <4> QED
        BY <3>1, <3>3, <4>1, RingUnchangedInv
    <3> QED
      BY <2>1, <3>2, <3>3 DEF ConsumerStep
  <2>2. ASSUME NEW p \in Producer,
               (\E b \in Buffer : ProduceCall(p, b)) \/ ProducerStep(p) \/ ProduceWaitReturns(p)
        PROVE IInv'
    <3>1. p \in Thread
      BY DEF Thread
    <3>2. CASE Produce(p)
      BY <3>2, ProduceInv
    <3>3. CASE \/ \E b \in Buffer : ProduceCall(p, b)
               \/ LockMutex(p) \/ ProduceWait(p) \/ ProduceWaitReturns(p)
      <4>1. UNCHANGED <<ring, returned, consumed>>
        BY <3>3 DEF ProduceCall, LockMutex, ProduceWait, ProduceWaitReturns
      <4> QED
        BY <3>1, <3>3, <4>1, RingUnchangedInv
    <3> QED
      BY <2>2, <3>2, <3>3 DEF ProducerStep
  <2>3. CASE UNCHANGED vars
    BY <2>3 DEF vars, ring, IInv, TypeOK, MutexIsOwned, SleepersAreAsleep, ProducersHoldBuffers,
                RingIsConsistent, NoSleeperBesideItem
  <2> QED
    BY <2>1, <2>2, <2>3 DEF Next
<1> QED
  BY <1>1, InitInv, PTL DEF Spec

\* Indices and counters of the ring stay in range.
THEOREM TypeCorrect == Spec => []TypeOK
BY Invariance, PTL DEF IInv

\* No consumer sleeps beside a buffer unless another consumer is on its way to
\* it: one condition and one signal per call lose no wakeup, for any number of
\* threads.
THEOREM SleepersHaveCause == Spec => []NoSleeperBesideItem
BY Invariance, PTL DEF IInv

-----------------------------------------------------------------------------
\* What waits in the ring, as a sequence.
LEMMA WaitingIsASeq == IInv => Waiting \in Seq(Item) /\ Len(Waiting) = n_full
<1> SUFFICES ASSUME IInv PROVE Waiting \in Seq(Item) /\ Len(Waiting) = n_full
  OBVIOUS
<1>1. ASSUME NEW i \in 1..n_full
      PROVE <<buffers[(next_in + i - 1) % n_buffers], returned[(next_in + i - 1) % n_buffers]>> \in Item
  <2>1. returned[(next_in + i - 1) % n_buffers] \in SeqNo
    <3>1. seq_out + i - 1 \in Int /\ SeqMod \in Nat \ {0}
      BY SizeAssumption DEF IInv, TypeOK, SeqNo
    <3> QED
      BY <3>1, ModRange DEF SeqNo, IInv, RingIsConsistent
  <2>2. buffers[(next_in + i - 1) % n_buffers] \in Buffer
    BY DEF IInv, RingIsConsistent
  <2> QED
    BY <2>1, <2>2 DEF Item
<1>2. Waiting \in [1..n_full -> Item]
  BY <1>1 DEF Waiting
<1>3. n_full \in Nat
  BY SizeAssumption DEF IInv, TypeOK
<1>4. Waiting \in Seq(Item)
  BY <1>2, <1>3, SeqDef
<1> QED
  BY <1>2, <1>3, <1>4, LenProperties

\* consume() is Get of the abstract queue.
LEMMA ConsumeGets == ASSUME IInv, IInv', NEW c \in Consumer, Consume(c) PROVE Queue!Get
<1>1. /\ Waiting \in Seq(Item) /\ Len(Waiting) = n_full
      /\ Waiting' \in Seq(Item) /\ Len(Waiting') = n_full'
  <2>1. Waiting \in Seq(Item) /\ Len(Waiting) = n_full
    BY WaitingIsASeq
  <2>2. IInv' => (Waiting \in Seq(Item) /\ Len(Waiting) = n_full)'
    BY WaitingIsASeq, PTL
  <2> QED
    BY <2>1, <2>2
<1>2. n_full > 0 /\ n_full \in Nat /\ n_full' = n_full - 1 /\ consumed' = <<buffers[next_in], seq_out>>
  BY SizeAssumption DEF Consume, IInv, TypeOK
<1>3. /\ Waiting[1] = <<buffers[next_in], seq_out>>
      /\ \A i \in 1..n_full' : Waiting'[i] = Waiting[i + 1]
  BY ConsumeMovesRing
<1>4. Waiting # <<>>
  BY <1>1, <1>2
<1>5. /\ Head(Waiting) = Waiting[1]
      /\ Tail(Waiting) \in Seq(Item) /\ Len(Tail(Waiting)) = n_full - 1
      /\ \A i \in 1..(n_full - 1) : Tail(Waiting)[i] = Waiting[i + 1]
  BY <1>1, <1>4, HeadTailProperties
<1>6. Waiting' = Tail(Waiting)
  BY <1>1, <1>2, <1>3, <1>5, SeqEqual
<1> QED
  BY <1>2, <1>3, <1>4, <1>5, <1>6 DEF Queue!Get

\* produce() is Put of the abstract queue.
LEMMA ProducePuts == ASSUME IInv, IInv', NEW p \in Producer, Produce(p) PROVE Queue!Next
<1> DEFINE v == <<item[p], seq_in>>
<1>1. /\ Waiting \in Seq(Item) /\ Len(Waiting) = n_full
      /\ Waiting' \in Seq(Item) /\ Len(Waiting') = n_full'
  <2>1. Waiting \in Seq(Item) /\ Len(Waiting) = n_full
    BY WaitingIsASeq
  <2>2. IInv' => (Waiting \in Seq(Item) /\ Len(Waiting) = n_full)'
    BY WaitingIsASeq, PTL
  <2> QED
    BY <2>1, <2>2
<1>2. v \in Item
  BY DEF Produce, IInv, TypeOK, ProducersHoldBuffers, Item
<1>3. /\ n_full \in Nat /\ n_full' = n_full + 1
      /\ \A i \in 1..n_full : Waiting'[i] = Waiting[i]
      /\ Waiting'[n_full'] = v
  BY ProduceMovesRing
<1> HIDE DEF v
<1>4. Waiting' = Append(Waiting, v)
  BY <1>1, <1>2, <1>3, IsAppend
<1>5. UNCHANGED consumed
  BY DEF Produce
<1> QED
  BY <1>2, <1>4, <1>5 DEF Queue!Next, Queue!Put

\* The ring with its two counters is a queue of numbered buffers: each comes
\* out once, in order, and consume() reports for it the number that produce()
\* returned for it, across the wrap of indices and counters.
THEOREM Refinement == Spec => ImplementsFifo
<1>1. Init => Queue!Init
  <2> SUFFICES ASSUME Init PROVE Queue!Init
    OBVIOUS
  <2>1. IInv
    BY InitInv
  <2>2. Waiting \in Seq(Item) /\ Len(Waiting) = 0
    BY <2>1, WaitingIsASeq DEF Init
  <2> QED
    BY <2>2, EmptySeq DEF Init, Queue!Init
<1>2. ASSUME IInv, IInv', [Next]_vars PROVE [Queue!Next]_(Queue!vars)
  <2>1. ASSUME NEW c \in Consumer, Consume(c) PROVE Queue!Next
    BY <1>2, <2>1, ConsumeGets DEF Queue!Next
  <2>2. ASSUME NEW p \in Producer, Produce(p) PROVE Queue!Next
    BY <1>2, <2>2, ProducePuts
  <2>3. CASE UNCHANGED <<ring, returned, consumed>>
    BY <2>3 DEF ring, Waiting, Queue!vars
  <2>4. \/ \E c \in Consumer : Consume(c)
        \/ \E p \in Producer : Produce(p)
        \/ UNCHANGED <<ring, returned, consumed>>
    BY <1>2 DEF Next, ConsumerStep, ProducerStep, ConsumeCall, LockMutex, ConsumeWait,
                ProduceCall, ProduceWait, ProduceWaitReturns, vars
  <2> QED
    BY <2>1, <2>2, <2>3, <2>4
<1> QED
  BY <1>1, <1>2, Invariance, PTL DEF Spec, ImplementsFifo, Queue!Spec

===============================================================================
