---------------------------- MODULE InterruptProofs ----------------------------
(***************************************************************************)
(* Proofs about the two components that share their state with an          *)
(* interrupt handler.                                                      *)
(*                                                                         *)
(* AudioPico, for any numbering of the blocks: the types on any placement  *)
(* of the handler, the rest for a handler that preempts the player thread  *)
(* on its own core.                                                        *)
(*                                                                         *)
(* IrqBufferedReader, for any number of getters, any ring and any capacity *)
(* of the device.                                                          *)
(***************************************************************************)
EXTENDS AudioPico, IrqBufferedReader, SequenceLemmas, TLAPS

-----------------------------------------------------------------------------
(* AudioPico                                                                *)

\* Where the player names itself as blocked.
Pausing == {"pause", "disable_pause"}

\* The player has copied a block that is not pending yet.
Holding == player \in {"enqueue", "dma_wait", "pause", "woken", "store"}

\* The player starts the channel itself.
Starting == {"start", "test", "silence", "use", "clear", "check", "started"}

\* The player is about to hand over a block that the handler has handed over.
Taken == player = "use" /\ (dma_pending = Null \/ isr = "clear")

\* A block is pending; it has been given to the DMA already, or has not.
Stale == dma_pending # Null /\ (isr = "clear" \/ player = "clear")
Fresh == dma_pending # Null /\ ~(isr = "clear" \/ player = "clear")

Succ(b) == (b + 1) % BlockMod
Prev == (next_buffer + 2) % n_buffers

\* dma_wait(): who is blocked waits, and is woken when nothing is pending.
WakesWhenTaken ==
  /\ blocked_thread => player \in Pausing
  /\ notified => /\ player \in Pausing /\ dma_pending = Null
                 /\ blocked_thread => isr = "unblock"
  /\ isr \in {"silence", "check", "unblock"} => dma_pending = Null
  /\ isr \in {"use", "clear"} => dma_pending # Null
  /\ player \in {"woken", "store", "disable_irq"} => dma_pending = Null

\* The pending buffer is the last one stored, the one under the DMA it or the
\* one before it; the next one to be written is neither.
BuffersInTurn ==
  /\ dma_pending \in {Null, Prev}
  /\ channel # next_buffer
  /\ dma_pending = Null \/ isr = "clear" \/ player = "clear"
       => channel \in {Prev, Silence, Idle}

\* What was found pending is what is pending while the handler runs; for the
\* player it is the last buffer stored, even when the handler has taken it.
TestsAreTrue ==
  /\ isr = "use" => tested["isr"] = dma_pending
  /\ player = "use" => tested["player"] = Prev

\* The numbers of the blocks: what is pending follows what was started, what
\* was copied follows that.
NumbersInTurn ==
  /\ Fresh => buffers[dma_pending] = Succ(started)
  /\ Stale => buffers[dma_pending] = started
  /\ Holding => buffers[next_buffer] = block
  /\ Fresh /\ Holding => block = Succ(Succ(started))
  /\ Fresh /\ ~Holding => block = Succ(started)
  /\ ~Fresh /\ Holding => block = Succ(started)
  /\ ~Fresh /\ ~Holding => block = started
  /\ Taken => buffers[Prev] = started /\ times = 1
  /\ player = "clear" /\ dma_pending # Null /\ isr # "clear" => times = 1

\* Until disable() is called the channel is started by the thread once, and
\* then by the interrupt at the end of a transfer.
OneStarter ==
  /\ dma_started => player \notin Starting
  /\ cut => disabled
  /\ disabled \/
       /\ irq \/ isr \in {"test", "silence", "use"} => channel = Idle
       /\ ~(irq /\ isr \in {"test", "silence", "use"})
       /\ ~dma_started /\ player \notin {"clear", "check", "started"}
            => channel = Idle /\ ~irq /\ isr = "idle"

IInv ==
  /\ TypeOK
  /\ WakesWhenTaken
  /\ BuffersInTurn
  /\ TestsAreTrue
  /\ NumbersInTurn
  /\ OneStarter

-----------------------------------------------------------------------------
\* The number after a number of a block is one.
LEMMA SuccTypes == ASSUME NEW b \in 0..(BlockMod - 1) PROVE Succ(b) \in 0..(BlockMod - 1)
BY BlockModAssumption DEF Succ

\* The number after it is another one.
LEMMA SuccDiffers == ASSUME NEW b \in 0..(BlockMod - 1) PROVE Succ(b) # b
<1>1. CASE b + 1 < BlockMod
  BY <1>1, BlockModAssumption DEF Succ
<1>2. CASE b + 1 = BlockMod
  BY <1>2, BlockModAssumption DEF Succ
<1> QED
  BY <1>1, <1>2, BlockModAssumption

\* What a hand-over of buffer p, or of none, leaves.
LEMMA HandOverTypes ==
  ASSUME TypeOK, NEW p \in Index \cup {Null}, HandOver(p)
  PROVE /\ channel' \in Index \cup {Silence, Idle} /\ cut' \in BOOLEAN
        /\ started' \in 0..(BlockMod - 1) /\ times' \in Nat
<1>1. channel' = p /\ cut' = (cut \/ channel \in Index)
  BY DEF HandOver
<1>2. CASE p = Null
  BY <1>1, <1>2 DEF HandOver, TypeOK, Null, Silence
<1>3. CASE p # Null
  <2>1. p \in Index /\ buffers[p] \in 0..(BlockMod - 1)
    BY <1>3 DEF TypeOK
  <2>2. started' = buffers[p] /\ times' \in {times + 1, 1}
    BY <1>3 DEF HandOver
  <2> QED
    BY <1>1, <2>1, <2>2 DEF TypeOK
<1> QED
  BY <1>2, <1>3

\* The variables of audio_pico.cpp start with values of their types.
LEMMA TypeInit == Init => TypeOK
<1> SUFFICES ASSUME Init PROVE TypeOK
  OBVIOUS
<1>1. 0 \in Index /\ 0 \in 0..(BlockMod - 1)
  BY BlockModAssumption DEF Index, n_buffers
<1> QED
  BY <1>1 DEF Init, TypeOK

\* No step of the handler, the player or the hardware leaves the types, on either
\* placement of the handler.
LEMMA TypeStep == TypeOK /\ [Next]_vars => TypeOK'
<1> SUFFICES ASSUME TypeOK, [Next]_vars PROVE TypeOK'
  OBVIOUS
<1> USE DEF TypeOK, dma, hw, hist, At, Goto
<1>1. CASE TransferEnds
  BY <1>1 DEF TransferEnds
<1>2. CASE IsrEnter
  <2>1. UNCHANGED <<buffers, next_buffer, dma, player, tested, channel, irq_enabled, hist>>
    BY <1>2 DEF IsrEnter
  <2>2. irq' \in BOOLEAN /\ isr' \in StartPlaces
    BY <1>2 DEF IsrEnter, StartPlaces
  <2> QED
    BY <2>1, <2>2
<1>3. CASE IsrTest \/ StartTest
  <2>1. tested' \in [{"isr", "player"} -> Index \cup {Null}]
    BY <1>3 DEF IsrTest, StartTest, Test
  <2>2. AfterTest \in StartPlaces
    BY DEF AfterTest, StartPlaces
  <2> QED
    BY <1>3, <2>1, <2>2 DEF IsrTest, StartTest, Test
<1>4. CASE IsrSilence \/ StartSilence
  <2>1. HandOver(Null) /\ UNCHANGED tested
    BY <1>4 DEF IsrSilence, StartSilence
  <2>2. "check" \in StartPlaces
    BY DEF StartPlaces
  <2>3. isr' \in StartPlaces \cup {"unblock", "idle"} /\ (player' = player \/ player' \in StartPlaces)
    BY <1>4, <2>2 DEF IsrSilence, StartSilence
  <2> QED
    BY <2>1, <2>3, HandOverTypes DEF HandOver
<1>5. CASE IsrUse \/ StartUse
  <2>1. PICK who \in {"isr", "player"} : Use(who)
    BY <1>5 DEF IsrUse, StartUse
  <2>2. PICK p \in {tested[who], dma_pending} : HandOver(p)
    BY <2>1 DEF Use
  <2>3. p \in Index \cup {Null} /\ tested' \in [{"isr", "player"} -> Index \cup {Null}]
    BY <2>1, <2>2 DEF Use
  <2>4. "clear" \in StartPlaces
    BY DEF StartPlaces
  <2>5. isr' \in StartPlaces \cup {"unblock", "idle"} /\ (player' = player \/ player' \in StartPlaces)
    BY <1>5, <2>4 DEF IsrUse, StartUse
  <2> QED
    BY <2>2, <2>3, <2>5, HandOverTypes DEF HandOver
<1>6. CASE IsrClear \/ StartClear
  BY <1>6 DEF IsrClear, StartClear, ClearPending, StartPlaces
<1>7. CASE IsrCheck \/ StartCheck \/ IsrUnblock
  <2>1. CASE IsrCheck
    BY <2>1 DEF IsrCheck, ResumeBlocked, Unblock
  <2>2. CASE StartCheck
    BY <2>2 DEF StartCheck, ResumeBlocked, Unblock
  <2>3. CASE IsrUnblock
    <3>1. /\ isr' = "idle" /\ blocked_thread' = FALSE
          /\ UNCHANGED <<buffers, next_buffer, dma_pending, dma_started, notified, hw, player, tested, hist>>
      BY <2>3 DEF IsrUnblock, Unblock
    <3>2. blocked_thread' \in BOOLEAN /\ isr' \in StartPlaces \cup {"unblock", "idle"}
      BY <3>1
    <3> QED
      BY <3>1, <3>2
  <2> QED
    BY <1>7, <2>1, <2>2, <2>3
<1>8. CASE Copy
  <2>1. block' \in 0..(BlockMod - 1)
    BY <1>8, SuccTypes DEF Copy, Succ
  <2> QED
    BY <1>8, <2>1 DEF Copy
<1>9. CASE Enqueue \/ DmaWait \/ PauseReturns \/ Woken
  <2>1. CASE Enqueue
    BY <2>1 DEF Enqueue
  <2>2. CASE DmaWait
    BY <2>2 DEF DmaWait
  <2>3. CASE PauseReturns
    <3>1. /\ notified' = FALSE /\ player' \in {"woken", "disable_irq"}
          /\ UNCHANGED <<buffers, next_buffer, dma_pending, dma_started, blocked_thread, hw, isr, tested, hist>>
      BY <2>3 DEF PauseReturns
    <3>2. notified' \in BOOLEAN
      BY <3>1
    <3> QED
      BY <3>1, <3>2
  <2>4. CASE Woken
    BY <2>4 DEF Woken
  <2> QED
    BY <1>9, <2>1, <2>2, <2>3, <2>4
<1>10. CASE Store
  <2>1. (next_buffer + 1) % n_buffers \in Index
    BY DEF Index, n_buffers
  <2> QED
    BY <1>10, <2>1 DEF Store
<1>11. CASE StartIrq \/ Started \/ Disable \/ DisableIrq
  <2>1. CASE StartIrq
    BY <2>1 DEF StartIrq, StartPlaces
  <2>2. CASE Started
    BY <2>2 DEF Started
  <2>3. CASE Disable
    BY <2>3 DEF Disable
  <2>4. CASE DisableIrq
    BY <2>4 DEF DisableIrq
  <2> QED
    BY <1>11, <2>1, <2>2, <2>3, <2>4
<1>12. CASE UNCHANGED vars
  BY <1>12 DEF vars
<1> QED
  BY <1>1, <1>2, <1>3, <1>4, <1>5, <1>6, <1>7, <1>8, <1>9, <1>10, <1>11, <1>12
     DEF Next, Isr, Player, Start

\* Every variable keeps its type, whether or not the handler preempts the player on
\* its own core.
THEOREM TypeCorrect == Spec => []TypeOK
BY TypeInit, TypeStep, PTL DEF Spec

-----------------------------------------------------------------------------
\* No buffer is pending, nobody is blocked and the channel is idle at first.
LEMMA InitInv == Init => IInv
BY TypeInit
   DEF Init, IInv, WakesWhenTaken, BuffersInTurn, TestsAreTrue, NumbersInTurn, OneStarter, Pausing,
       Starting, Holding, Stale, Fresh, Taken, Prev, Null, Idle, Silence, n_buffers

\* Line 42 of the handler, which the player cannot come between.
LEMMA IsrUses ==
  ASSUME IInv, IsrUse
  PROVE /\ dma_pending = Prev /\ Prev \in Index /\ Prev # Null /\ HandOver(Prev)
        /\ isr = "use" /\ isr' = "clear" /\ UNCHANGED player
        /\ tested' = [tested EXCEPT !["isr"] = Null]
<1>1. isr = "use" /\ Use("isr") /\ isr' = "clear" /\ UNCHANGED player
  BY DEF IsrUse
<1>2. dma_pending # Null /\ dma_pending = Prev /\ tested["isr"] = dma_pending /\ dma_pending \in Index
  BY <1>1 DEF IInv, TypeOK, WakesWhenTaken, BuffersInTurn, TestsAreTrue
<1> QED
  BY <1>1, <1>2 DEF Use

\* Line 42 of the player: the last buffer stored, or none when the handler has
\* taken that.
LEMMA PlayerUses ==
  ASSUME SameCore, IInv, StartUse
  PROVE /\ dma_pending \in {Prev, Null} /\ Prev \in Index /\ Prev # Null
        /\ HandOver(Prev) \/ (dma_pending = Null /\ HandOver(Null))
        /\ isr = "idle" /\ player = "use" /\ player' = "clear" /\ UNCHANGED isr
        /\ tested' = [tested EXCEPT !["player"] = Null]
<1>1. isr = "idle" /\ player = "use" /\ Use("player") /\ player' = "clear" /\ UNCHANGED isr
  BY DEF StartUse, At, MayRun, Goto
<1>2. dma_pending \in {Prev, Null} /\ tested["player"] = Prev
  BY <1>1 DEF IInv, BuffersInTurn, TestsAreTrue
<1>3. Prev \in Index /\ Prev # Null
  BY DEF IInv, TypeOK, Prev, Null, Index, n_buffers
<1> QED
  BY <1>1, <1>2, <1>3 DEF Use

\* The block handed over is the one after the last, or, when handler and player
\* start the same transfer, that once more.
LEMMA HandedOver ==
  ASSUME IInv, HandOver(Prev), Prev \in Index, Prev # Null,
         \/ isr = "use" /\ dma_pending = Prev
         \/ isr = "idle" /\ player = "use" /\ dma_pending \in {Prev, Null}
  PROVE \/ /\ Fresh /\ dma_pending = Prev /\ buffers[Prev] = Succ(started)
           /\ started' = Succ(started) /\ times' = 1
        \/ /\ ~Fresh /\ buffers[Prev] = started /\ Overtaken
           /\ started' = started /\ times = 1 /\ times' = 2
<1>1. started' = buffers[Prev] /\ times' = IF buffers[Prev] = started THEN times + 1 ELSE 1
  BY DEF HandOver
<1>2. CASE Fresh
  <2>1. dma_pending = Prev /\ buffers[Prev] = Succ(started)
    BY <1>2 DEF Fresh, IInv, NumbersInTurn
  <2>2. Succ(started) # started
    BY SuccDiffers DEF IInv, TypeOK
  <2> QED
    BY <1>1, <1>2, <2>1, <2>2
<1>3. CASE ~Fresh
  <2>1. buffers[Prev] = started /\ times = 1 /\ Overtaken
    BY <1>3 DEF Fresh, Stale, Taken, Overtaken, IInv, NumbersInTurn
  <2> QED
    BY <1>1, <1>3, <2>1
<1> QED
  BY <1>2, <1>3

\* With the handler on the core of the player, every step keeps who waits, which
\* buffer the DMA reads, and who starts it.
LEMMA PartsInv ==
  ASSUME SameCore, IInv, Next
  PROVE WakesWhenTaken' /\ BuffersInTurn' /\ TestsAreTrue' /\ OneStarter'
<1> USE DEF IInv, TypeOK, Index, Null, Idle, Silence, StartPlaces, n_buffers, dma, hw, hist,
            At, MayRun, Goto, WakesWhenTaken, BuffersInTurn, TestsAreTrue, OneStarter, Pausing, Starting, Prev
<1>1. CASE TransferEnds \/ IsrEnter
  BY <1>1 DEF TransferEnds, IsrEnter
<1>2. CASE IsrTest \/ StartTest
  BY <1>2 DEF IsrTest, StartTest, Test, AfterTest
<1>3. CASE IsrSilence \/ StartSilence
  BY <1>3 DEF IsrSilence, StartSilence, HandOver
<1>4. CASE IsrUse
  BY <1>4, IsrUses DEF HandOver
<1>5. CASE StartUse
  BY <1>5, PlayerUses DEF HandOver
<1>6. CASE IsrClear \/ StartClear
  BY <1>6 DEF IsrClear, StartClear, ClearPending
<1>7. CASE IsrCheck \/ StartCheck \/ IsrUnblock
  BY <1>7 DEF IsrCheck, StartCheck, IsrUnblock, ResumeBlocked, Unblock
<1>8. CASE Copy
  BY <1>8 DEF Copy
<1>9. CASE Enqueue \/ DmaWait \/ PauseReturns \/ Woken
  BY <1>9 DEF Enqueue, DmaWait, PauseReturns, Woken
<1>10. CASE Store
  BY <1>10 DEF Store
<1>11. CASE StartIrq \/ Started \/ Disable \/ DisableIrq
  BY <1>11 DEF StartIrq, Started, Disable, DisableIrq
<1> QED
  BY <1>1, <1>2, <1>3, <1>4, <1>5, <1>6, <1>7, <1>8, <1>9, <1>10, <1>11
     DEF Next, Isr, Player, Start

\* With the handler on the core of the player, every step keeps the numbers of the
\* buffers in step with the ring of them.
LEMMA NumbersInv ==
  ASSUME SameCore, IInv, Next
  PROVE NumbersInTurn'
<1> USE DEF IInv, TypeOK, Index, Null, Idle, Silence, StartPlaces, n_buffers, dma, hw, hist,
            At, MayRun, Goto, NumbersInTurn, Holding, Stale, Fresh, Taken, Pausing
<1>1. UNCHANGED next_buffer => Prev' = Prev
  BY DEF Prev
<1>2. CASE TransferEnds \/ IsrEnter
  BY <1>1, <1>2 DEF TransferEnds, IsrEnter
<1>3. CASE IsrTest \/ StartTest
  BY <1>1, <1>3 DEF IsrTest, StartTest, Test, AfterTest
<1>4. CASE IsrSilence \/ StartSilence
  BY <1>1, <1>4 DEF IsrSilence, StartSilence, HandOver
<1>5. CASE IsrUse
  BY <1>1, <1>5, IsrUses, HandedOver DEF HandOver
<1>6. CASE StartUse
  BY <1>1, <1>6, PlayerUses, HandedOver DEF HandOver
<1>7. CASE IsrClear \/ StartClear
  BY <1>1, <1>7 DEF IsrClear, StartClear, ClearPending
<1>8. CASE IsrCheck \/ StartCheck \/ IsrUnblock
  BY <1>1, <1>8 DEF IsrCheck, StartCheck, IsrUnblock, ResumeBlocked, Unblock
<1>9. CASE Copy
  BY <1>9, SuccTypes DEF Copy, Succ, BuffersInTurn, Prev
<1>10. CASE Enqueue \/ DmaWait \/ PauseReturns \/ Woken
  BY <1>1, <1>10 DEF Enqueue, DmaWait, PauseReturns, Woken
<1>11. CASE Store
  BY <1>11 DEF Store, WakesWhenTaken
<1>12. CASE StartIrq \/ Started \/ Disable \/ DisableIrq
  BY <1>1, <1>12 DEF StartIrq, Started, Disable, DisableIrq
<1> QED
  BY <1>2, <1>3, <1>4, <1>5, <1>6, <1>7, <1>8, <1>9, <1>10, <1>11, <1>12
     DEF Next, Isr, Player, Start

\* The invariant is inductive.
LEMMA StepInv == SameCore /\ IInv /\ [Next]_vars => IInv'
<1>1. ASSUME SameCore, IInv, Next PROVE IInv'
  BY <1>1, TypeStep, PartsInv, NumbersInv DEF IInv
<1>2. ASSUME IInv, UNCHANGED vars PROVE IInv'
  BY <1>2 DEF vars, dma, hw, hist, IInv, TypeOK, WakesWhenTaken, BuffersInTurn, TestsAreTrue,
              NumbersInTurn, OneStarter, Pausing, Starting, Holding, Stale, Fresh, Taken, Succ, Prev
<1> QED
  BY <1>1, <1>2

\* The inductive invariant holds of audio_pico.cpp whenever the handler runs on the
\* player's core, for any numbering of the blocks.
THEOREM Invariance == ASSUME SameCore PROVE Spec => []IInv
<1>1. IInv /\ [Next]_vars => IInv'
  BY StepInv, SameCore
<1> QED
  BY <1>1, InitInv, PTL DEF Spec

\* Neither assert() fails: nobody else is blocked when dma_wait() blocks, and the
\* place of the pending buffer is free when play stores the next.
THEOREM BothAssertsHold == ASSUME SameCore PROVE Spec => []AssertsHold
<1>1. IInv => AssertsHold
  BY DEF IInv, WakesWhenTaken, Pausing, AssertsHold, NobodyIsBlocked, PendingIsTaken
<1> QED
  BY <1>1, Invariance, SameCore, PTL

\* A buffer that is playing is replaced only after disable() has been called.
THEOREM OnlyDisableCuts == ASSUME SameCore PROVE Spec => []CutOnlyAfterDisable
<1>1. IInv => CutOnlyAfterDisable
  BY DEF IInv, OneStarter, CutOnlyAfterDisable
<1> QED
  BY <1>1, Invariance, SameCore, PTL

\* play() copies into a buffer that neither is pending nor is being read by the DMA.
THEOREM NoCopyUnderTheDma == ASSUME SameCore PROVE Spec => CopyIsSafe
<1>1. IInv /\ [Next]_vars
        => [\A i \in Index : buffers'[i] # buffers[i] => i # dma_pending /\ i # channel]_vars
  <2> SUFFICES ASSUME IInv, Next, NEW i \in Index, buffers'[i] # buffers[i]
               PROVE i # dma_pending /\ i # channel
    OBVIOUS
  <2>1. Copy
    BY DEF Next, Isr, TransferEnds, IsrEnter, IsrTest, IsrSilence, IsrUse, IsrClear, IsrCheck,
           IsrUnblock, Test, Use, HandOver, ClearPending, ResumeBlocked, Unblock, Disable, Player,
           Enqueue, DmaWait, PauseReturns, Woken, Store, Start, StartIrq, StartTest, StartSilence,
           StartUse, StartClear, StartCheck, Started, DisableIrq, hist
  <2>2. i = next_buffer
    BY <2>1 DEF Copy, IInv, TypeOK
  <2> QED
    BY <2>2 DEF IInv, TypeOK, BuffersInTurn, Prev, Null, Index, n_buffers
<1> QED
  BY <1>1, Invariance, SameCore, PTL DEF Spec, CopyIsSafe

\* The blocks reach the DMA in the order of their copies, none is left out and each is
\* handed over once; a second time only when the handler comes between the player's test
\* of dma_pending and its reset, and never a third time.
THEOREM NumbersFollow == ASSUME SameCore PROVE Spec => BlocksInOrder
<1> DEFINE Rule == \/ UNCHANGED <<started, times>>
                   \/ started' = (started + 1) % BlockMod /\ times' = 1
                   \/ started' = started /\ times = 1 /\ times' = 2 /\ Overtaken
<1>1. IInv /\ [Next]_vars => [Rule]_vars
  <2> SUFFICES ASSUME IInv, Next PROVE Rule
    OBVIOUS
  <2>1. CASE IsrUse
    BY <2>1, IsrUses, HandedOver DEF Succ
  <2>2. CASE StartUse
    <3>1. CASE HandOver(Prev)
      BY <2>2, <3>1, PlayerUses, HandedOver, SameCore DEF Succ
    <3>2. CASE HandOver(Null)
      BY <3>2 DEF HandOver
    <3> QED
      BY <2>2, <3>1, <3>2, PlayerUses, SameCore
  <2>3. CASE IsrSilence \/ StartSilence
    BY <2>3 DEF IsrSilence, StartSilence, HandOver
  <2>4. CASE ~(IsrUse \/ StartUse \/ IsrSilence \/ StartSilence)
    BY <2>4
       DEF Next, Isr, TransferEnds, IsrEnter, IsrTest, IsrClear, IsrCheck, IsrUnblock, Test,
           ClearPending, ResumeBlocked, Unblock, Disable, Player, Enqueue, DmaWait, Copy,
           PauseReturns, Woken, Store, Start, StartIrq, StartTest, StartClear, StartCheck,
           Started, DisableIrq, hist
  <2> QED
    BY <2>1, <2>2, <2>3, <2>4
<1> QED
  BY <1>1, Invariance, SameCore, PTL DEF Spec, BlocksInOrder

-----------------------------------------------------------------------------
(* IrqBufferedReader                                                        *)

\* The lock is held by the one thread that is past it.
LockIsOwned ==
  /\ main = "reading" <=> lock = Main
  /\ \A g \in Getter : getter[g] \in {"check", "refill"} <=> lock = g

SleepersAreAsleep == \A g \in Getter : getter[g] = "asleep" <=> g \in sleeping

\* The ends of the ring are n slots apart.
EndsAreApart == high = (low + n) % buffer_n

ReaderInv ==
  /\ ReaderTypeOK
  /\ LockIsOwned
  /\ SleepersAreAsleep
  /\ EndsAreApart
  /\ NotStranded

Slot == 0..(buffer_n - 1)
Slotted == Char \cup {NoChar}

-----------------------------------------------------------------------------
\* The reader starts with an empty ring and nobody asleep.
LEMMA ReaderInitInv == ReaderInit => ReaderInv
<1> SUFFICES ASSUME ReaderInit PROVE ReaderInv
  OBVIOUS
<1> USE SizeAssumption DEF ReaderInit
<1>1. ReaderTypeOK
  <2>1. device \in Seq(Char)
    BY EmptySeq
  <2> QED
    BY <2>1 DEF ReaderTypeOK, MainPlaces, GetterPlaces
<1>2. EndsAreApart
  BY DEF EndsAreApart
<1> QED
  BY <1>1, <1>2, ThreadAssumption DEF ReaderInv, LockIsOwned, SleepersAreAsleep, NotStranded

\* The steps that leave ring, device and history alone, but for who waits.
LEMMA ReaderControlInv ==
  ASSUME ReaderInv, UNCHANGED <<device, ring, last>>,
         \/ ReadPauseReturns \/ MainLock \/ MainUnlock \/ MainSignal
         \/ \E g \in Getter : \/ getc(g) \/ GetLock(g) \/ GetWait(g)
                              \/ GetUnlock(g) \/ GetSignal(g)
  PROVE ReaderInv'
<1> USE SizeAssumption DEF ReaderInv, ReaderTypeOK, MainPlaces, GetterPlaces, ring, Go
<1>1. EndsAreApart'
  BY DEF EndsAreApart
<1>2. CASE ReadPauseReturns \/ MainLock
  BY <1>1, <1>2, ThreadAssumption
     DEF ReadPauseReturns, MainLock, LockIsOwned, SleepersAreAsleep, NotStranded
<1>3. CASE MainUnlock
  BY <1>1, <1>3, ThreadAssumption
     DEF MainUnlock, ReadAllDone, LockIsOwned, SleepersAreAsleep, NotStranded
<1>4. CASE MainSignal
  BY <1>1, <1>4, ThreadAssumption
     DEF MainSignal, signal, LockIsOwned, SleepersAreAsleep, NotStranded
<1>5. ASSUME NEW g \in Getter, getc(g) \/ GetLock(g) PROVE ReaderInv'
  BY <1>1, <1>5, ThreadAssumption
     DEF getc, GetLock, LockIsOwned, SleepersAreAsleep, NotStranded
<1>6. ASSUME NEW g \in Getter, GetWait(g) PROVE ReaderInv'
  BY <1>1, <1>6, ThreadAssumption
     DEF GetWait, LockIsOwned, SleepersAreAsleep, NotStranded
<1>7. ASSUME NEW g \in Getter, GetUnlock(g) PROVE ReaderInv'
  BY <1>1, <1>7, ThreadAssumption
     DEF GetUnlock, ReadAllDone, LockIsOwned, SleepersAreAsleep, NotStranded
<1>8. ASSUME NEW g \in Getter, GetSignal(g) PROVE ReaderInv'
  BY <1>1, <1>8, ThreadAssumption
     DEF GetSignal, LockIsOwned, SleepersAreAsleep, NotStranded
<1> QED
  BY <1>2, <1>3, <1>4, <1>5, <1>6, <1>7, <1>8

\* An interrupt changes the device and the pending resume only.
LEMMA ArriveInv == ASSUME ReaderInv, NEW c \in Char, Arrive(c) PROVE ReaderInv'
<1>1. Append(device, c) \in Seq(Char)
  BY AppendProperties DEF ReaderInv, ReaderTypeOK
<1> QED
  BY <1>1 DEF Arrive, ReaderInv, ReaderTypeOK, LockIsOwned, SleepersAreAsleep, EndsAreApart, NotStranded, ring

\* read_all_locked() moves one character from the device to the ring's end.
LEMMA ReadOneMovesRing ==
  ASSUME ReaderInv, ReadOne
  PROVE /\ device' \in Seq(Char) /\ Head(device) \in Char
        /\ buffer' \in [Slot -> Slotted]
        /\ n \in 0..(buffer_n - 1) /\ n' \in 0..buffer_n /\ high' \in Slot /\ UNCHANGED low
        /\ EndsAreApart'
        /\ n' = n + 1 /\ Buffered'[n'] = Head(device)
        /\ \A i \in 1..n : Buffered'[i] = Buffered[i]
<1>1. /\ n \in 0..(buffer_n - 1) /\ n' = n + 1 /\ n' \in 0..buffer_n
      /\ high' = (high + 1) % buffer_n /\ UNCHANGED low
      /\ buffer' = [buffer EXCEPT ![high] = Head(device)]
      /\ device' = Tail(device) /\ device # <<>>
  BY SizeAssumption DEF ReadOne, ReaderInv, ReaderTypeOK
<1>2. Head(device) \in Char /\ device' \in Seq(Char)
  BY <1>1, HeadTailProperties DEF ReaderInv, ReaderTypeOK
<1>3. /\ buffer_n \in Nat \ {0} /\ n \in Nat /\ low \in 0..(buffer_n - 1)
      /\ buffer \in [0..(buffer_n - 1) -> Slotted] /\ Head(device) \in Slotted
  BY <1>1, <1>2, SizeAssumption DEF ReaderInv, ReaderTypeOK, Slotted
<1>4. OuterEndMoves(buffer_n, low, n, high, high', n')
  BY <1>1 DEF OuterEndMoves, ReaderInv, EndsAreApart
<1>5. high' \in 0..(buffer_n - 1) /\ high' = (low + n') % buffer_n
  BY <1>3, <1>4, OuterEnd
<1>6. buffer' \in [Slot -> Slotted]
  BY <1>1, <1>3 DEF Slot
<1>7. /\ Buffered'[n'] = Head(device)
      /\ \A i \in 1..n : Buffered'[i] = Buffered[i]
  <2>1. n \in 0..(buffer_n - 1) /\ high = (low + n) % buffer_n /\ high \in 0..(buffer_n - 1)
    BY <1>1 DEF ReaderInv, ReaderTypeOK, EndsAreApart
  <2>2. \A i \in 1..n : (low + i - 1) % buffer_n \in (0..(buffer_n - 1)) \ {high}
    BY <1>3, <2>1, OuterEndIsFree
  <2>3. (low + n' - 1) % buffer_n = high
    BY <1>3, <1>4, OuterEnd
  <2>4. n' \in 1..n' /\ \A i \in 1..n : i \in 1..n'
    BY <1>1
  <2>5. buffer'[high] = Head(device) /\ \A j \in (0..(buffer_n - 1)) \ {high} : buffer'[j] = buffer[j]
    BY <1>1, <1>3, <2>1
  <2> QED
    BY <1>1, <2>2, <2>3, <2>4, <2>5 DEF Buffered
<1> QED
  BY <1>1, <1>2, <1>5, <1>6, <1>7 DEF Slot, EndsAreApart

\* Whoever reads the device under the lock.
LEMMA ReadAllInv ==
  ASSUME ReaderInv, MainRead \/ \E g \in Getter : GetRefill(g)
  PROVE ReaderInv'
<1>1. ReadOne /\ UNCHANGED <<resumed, lock, sleeping, main, getter, last>>
  BY DEF MainRead, GetRefill
<1>2. main \in {"pause", "signal"} => \E g \in Getter : getter[g] = "refill"
  BY DEF MainRead, GetRefill
<1>3. ReaderTypeOK'
  BY <1>1, ReadOneMovesRing DEF ReaderInv, ReaderTypeOK, Slot, Slotted
<1> QED
  BY <1>1, <1>2, <1>3, ReadOneMovesRing DEF ReaderInv, LockIsOwned, SleepersAreAsleep, NotStranded

\* getc() takes the character at the ring's inner end.
LEMMA GetCharMovesRing ==
  ASSUME ReaderInv, NEW g \in Getter, GetChar(g)
  PROVE /\ n' \in 0..buffer_n /\ low' \in Slot /\ last' \in Slotted
        /\ EndsAreApart'
        /\ Buffered # <<>> /\ last' = Head(Buffered) /\ Buffered' = Tail(Buffered)
<1>1. /\ n \in 1..buffer_n /\ n' = n - 1 /\ n' \in 0..buffer_n
      /\ low' = (low + 1) % buffer_n
      /\ last' = buffer[low]
      /\ UNCHANGED <<buffer, high>>
  BY SizeAssumption DEF GetChar, ReaderInv, ReaderTypeOK
<1>2. /\ buffer_n \in Nat \ {0} /\ n \in Nat \ {0} /\ low \in 0..(buffer_n - 1)
      /\ buffer \in [0..(buffer_n - 1) -> Slotted]
  BY <1>1, SizeAssumption DEF ReaderInv, ReaderTypeOK, Slotted
<1>3. InnerEndMoves(buffer_n, low, n, low', n')
  BY <1>1 DEF InnerEndMoves
<1>4. low' \in 0..(buffer_n - 1) /\ (low' + n') % buffer_n = (low + n) % buffer_n
  BY <1>2, <1>3, InnerEnd
<1>5. /\ Content(buffer, low, n, buffer_n) # <<>>
      /\ Head(Content(buffer, low, n, buffer_n)) = buffer[low]
      /\ Content(buffer, (low + 1) % buffer_n, n - 1, buffer_n)
           = Tail(Content(buffer, low, n, buffer_n))
  BY <1>1, <1>2, ContentGet
<1>6. Buffered # <<>> /\ last' = Head(Buffered) /\ Buffered' = Tail(Buffered)
  BY <1>1, <1>5 DEF Buffered, Content
<1>7. last' \in Slotted
  BY <1>1, <1>2
<1> QED
  BY <1>1, <1>4, <1>6, <1>7 DEF Slot, ReaderInv, EndsAreApart

\* getc() past its wait keeps the invariant: a ring that was full is read into
\* again before the lock is given up.
LEMMA GetCharInv == ASSUME ReaderInv, NEW g \in Getter, GetChar(g) PROVE ReaderInv'
<1>1. /\ getter[g] = "check" /\ n > 0 /\ n' = n - 1
      /\ UNCHANGED <<device, resumed, sleeping, main, buffer, high>>
      /\ \/ n' = buffer_n - 1 /\ getter' = [getter EXCEPT ![g] = "refill"] /\ UNCHANGED lock
         \/ n' # buffer_n - 1 /\ getter' = [getter EXCEPT ![g] = "signal"] /\ lock' = Nobody
  BY DEF GetChar, Go
<1>2. lock = g
  BY <1>1 DEF ReaderInv, LockIsOwned
<1>3. ReaderTypeOK'
  BY <1>1, GetCharMovesRing DEF ReaderInv, ReaderTypeOK, Slot, Slotted, GetterPlaces
<1>4. LockIsOwned' /\ SleepersAreAsleep'
  BY <1>1, <1>2, ThreadAssumption DEF ReaderInv, ReaderTypeOK, LockIsOwned, SleepersAreAsleep, GetterPlaces
<1>5. NotStranded'
  BY <1>1, <1>2, SizeAssumption DEF ReaderInv, ReaderTypeOK, LockIsOwned, NotStranded
<1> QED
  BY <1>3, <1>4, <1>5, GetCharMovesRing DEF ReaderInv

-----------------------------------------------------------------------------
\* The inductive invariant: whatever order interrupt, reader and getters run in.
THEOREM ReaderInvariance == ReaderSpec => []ReaderInv
<1>1. ReaderInv /\ [ReaderNext]_readerVars => ReaderInv'
  <2> SUFFICES ASSUME ReaderInv, [ReaderNext]_readerVars PROVE ReaderInv'
    OBVIOUS
  <2>1. ASSUME NEW c \in Char, Arrive(c) PROVE ReaderInv'
    BY <2>1, ArriveInv
  <2>2. CASE MainRead \/ \E g \in Getter : GetRefill(g)
    BY <2>2, ReadAllInv
  <2>3. ASSUME NEW g \in Getter, GetChar(g) PROVE ReaderInv'
    BY <2>3, GetCharInv
  <2>4. CASE \/ ReadPauseReturns \/ MainLock \/ MainUnlock \/ MainSignal
             \/ \E g \in Getter : getc(g) \/ GetLock(g) \/ GetWait(g) \/ GetUnlock(g) \/ GetSignal(g)
    <3>1. UNCHANGED <<device, ring, last>>
      BY <2>4 DEF ReadPauseReturns, MainLock, MainUnlock, MainSignal,
                  getc, GetLock, GetWait, GetUnlock, GetSignal
    <3> QED
      BY <2>4, <3>1, ReaderControlInv
  <2>5. CASE UNCHANGED readerVars
    BY <2>5 DEF readerVars, ring, ReaderInv, ReaderTypeOK, LockIsOwned, SleepersAreAsleep, EndsAreApart, NotStranded
  <2> QED
    BY <2>1, <2>2, <2>3, <2>4, <2>5 DEF ReaderNext, MainStep, GetterStep
<1> QED
  BY <1>1, ReaderInitInv, PTL DEF ReaderSpec

\* Indices and counter of the ring stay in range.
THEOREM ReaderTypeCorrect == ReaderSpec => []ReaderTypeOK
BY ReaderInvariance, PTL DEF ReaderInv

\* Characters are never left in the device with no interrupt pending and nobody
\* about to read it, unless the ring is full (the next getc() reads it then):
\* what the comment at irq-buffered-reader.h:33-37 is about.
THEOREM NothingIsStranded == ReaderSpec => []NotStranded
BY ReaderInvariance, PTL DEF ReaderInv

-----------------------------------------------------------------------------
\* What the ring and the device hold, as sequences.
LEMMA BufferedIsASeq ==
  ReaderInv => Buffered \in Seq(Slotted) /\ Len(Buffered) = n /\ device \in Seq(Slotted)
<1> SUFFICES ASSUME ReaderInv
             PROVE Buffered \in Seq(Slotted) /\ Len(Buffered) = n /\ device \in Seq(Slotted)
  OBVIOUS
<1>1. /\ buffer_n \in Nat \ {0} /\ n \in 0..buffer_n /\ low \in 0..(buffer_n - 1)
      /\ buffer \in [0..(buffer_n - 1) -> Slotted]
  BY SizeAssumption DEF ReaderInv, ReaderTypeOK, Slotted
<1>2. /\ Content(buffer, low, n, buffer_n) \in Seq(Slotted)
      /\ Len(Content(buffer, low, n, buffer_n)) = n
  BY <1>1, ContentIsASeq
<1>3. device \in Seq(Slotted)
  <2>1. device \in Seq(Char) /\ Char \subseteq Slotted
    BY DEF ReaderInv, ReaderTypeOK, Slotted
  <2> QED
    BY <2>1, SeqMonotonic
<1> QED
  BY <1>2, <1>3 DEF Buffered, Content

\* Device and ring are one queue: every character comes out of getc() once, in
\* the order of arrival.  read_all_locked() passes characters on inside it.
THEOREM ReaderRefinement == ReaderSpec => ImplementsFifo
<1>1. ReaderInit => Queue!Init
  <2> SUFFICES ASSUME ReaderInit PROVE Queue!Init
    OBVIOUS
  <2>1. Buffered = <<>>
    BY DEF ReaderInit, Buffered
  <2>2. <<>> \o <<>> = <<>>
    BY ConcatEmptySeq, EmptySeq
  <2> QED
    BY <2>1, <2>2 DEF ReaderInit, Queue!Init
<1>2. ASSUME ReaderInv, ReaderInv', [ReaderNext]_readerVars PROVE [Queue!Next]_(Queue!vars)
  <2> USE <1>2
  <2>1. Buffered \in Seq(Slotted) /\ device \in Seq(Slotted) /\ Char \subseteq Slotted
    BY BufferedIsASeq DEF Slotted
  <2>2. ASSUME NEW c \in Char, Arrive(c) PROVE Queue!Next
    <3>1. device' = Append(device, c) /\ UNCHANGED <<ring, last>>
      BY <2>2 DEF Arrive
    <3>2. Buffered \o Append(device, c) = Append(Buffered \o device, c)
      BY <2>1, EnterBehind
    <3>3. UNCHANGED Buffered
      BY <3>1 DEF Buffered, ring
    <3> QED
      BY <3>1, <3>2, <3>3 DEF Queue!Next, Queue!Put
  <2>3. CASE MainRead \/ \E g \in Getter : GetRefill(g)
    <3>1. ReadOne /\ UNCHANGED last
      BY <2>3 DEF MainRead, GetRefill
    <3>2. Buffered' = Append(Buffered, Head(device)) /\ device' = Tail(device) /\ device # <<>>
      <4>1. ReaderInv' => (Buffered \in Seq(Slotted) /\ Len(Buffered) = n)'
        BY BufferedIsASeq, PTL
      <4>2. Buffered' \in Seq(Slotted) /\ Len(Buffered') = n' /\ Len(Buffered) = n
        BY <4>1, BufferedIsASeq
      <4>3. /\ n' = n + 1 /\ Head(device) \in Slotted
            /\ Buffered'[n'] = Head(device)
            /\ \A i \in 1..n : Buffered'[i] = Buffered[i]
        BY <3>1, ReadOneMovesRing DEF Slotted
      <4>4. Buffered' = Append(Buffered, Head(device))
        BY <2>1, <4>2, <4>3, IsAppend
      <4> QED
        BY <3>1, <4>4 DEF ReadOne
    <3>3. Append(Buffered, Head(device)) \o Tail(device) = Buffered \o device
      BY <2>1, <3>2, PassOn
    <3> QED
      BY <3>1, <3>2, <3>3 DEF Queue!vars
  <2>4. ASSUME NEW g \in Getter, GetChar(g) PROVE Queue!Next
    <3>1. Buffered # <<>> /\ last' = Head(Buffered) /\ Buffered' = Tail(Buffered)
      BY <2>4, GetCharMovesRing
    <3>2. UNCHANGED device
      BY <2>4 DEF GetChar
    <3>3. /\ Buffered \o device # <<>>
          /\ Head(Buffered \o device) = Head(Buffered)
          /\ Tail(Buffered \o device) = Tail(Buffered) \o device
      BY <2>1, <3>1, TakeFirst
    <3> QED
      BY <3>1, <3>2, <3>3 DEF Queue!Next, Queue!Get
  <2>5. CASE UNCHANGED <<device, ring, last>>
    BY <2>5 DEF ring, Buffered, Queue!vars
  <2>6. \/ \E c \in Char : Arrive(c)
        \/ MainRead \/ \E g \in Getter : GetRefill(g)
        \/ \E g \in Getter : GetChar(g)
        \/ UNCHANGED <<device, ring, last>>
    BY DEF ReaderNext, MainStep, GetterStep, ReadPauseReturns, MainLock, MainUnlock, MainSignal,
           getc, GetLock, GetWait, GetUnlock, GetSignal, readerVars
  <2> QED
    BY <2>2, <2>3, <2>4, <2>5, <2>6
<1> QED
  BY <1>1, <1>2, ReaderInvariance, PTL DEF ReaderSpec, ImplementsFifo, Queue!Spec

===============================================================================
