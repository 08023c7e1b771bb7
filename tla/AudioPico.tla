------------------------------ MODULE AudioPico ------------------------------
(***************************************************************************)
(* audio/audio-pico.cpp: play() and disable() of the player thread against *)
(* the DMA interrupt.  The channel always runs something once started: the *)
(* pending block, or silence when there is none.  The thread blocks when a *)
(* block is still pending and the interrupt resumes it.                    *)
(*                                                                         *)
(* The interrupt is taken on the core that enabled it, the player thread   *)
(* has no core affinity and FreeRTOS runs on both cores, so a thread and   *)
(* the handler can run at the same time.  SameCore restricts the model to  *)
(* the interrupt preempting the thread.                                    *)
(***************************************************************************)
EXTENDS Naturals

CONSTANTS SameCore,  \* the handler and the thread share a core
          BlockMod   \* bound: blocks are numbered modulo BlockMod

ASSUME SameCoreAssumption == SameCore \in BOOLEAN
ASSUME BlockModAssumption == BlockMod \in Nat /\ BlockMod > 1

VARIABLES
  buffers, next_buffer,
  dma_pending,       \* the index of the pending buffer, Null: none
  dma_started,
  blocked_thread,    \* TRUE: the player thread is named there
  notified,          \* the player's notification (PicoThreads) is pending
  channel,           \* external: what the DMA channel transfers
  irq_enabled, irq,  \* external: DMA_IRQ_0 is enabled; it is raised
  isr,               \* where the interrupt handler is
  player,            \* where the player thread is
  tested,            \* what each of the two found in dma_pending (line 36)
  block,             \* history: the number of the last block copied
  started,           \* history: the number of the last block given to the DMA
  times,             \* history: how often that block has been given to it
  cut,               \* history: a block's transfer was replaced before its end
  disabled           \* history: disable() has been called

dma  == <<dma_pending, dma_started, blocked_thread, notified>>
hw   == <<channel, irq_enabled, irq>>
hist == <<block, started, times, cut, disabled>>
vars == <<buffers, next_buffer, dma, hw, isr, player, tested, hist>>

\* Mutant: a double buffer.
n_buffers_two == 2

n_buffers == 3

Null == n_buffers
Index == 0..(n_buffers - 1)
Idle == n_buffers + 1
Silence == n_buffers

StartPlaces == {"test", "silence", "use", "clear", "check"}

TypeOK ==
  /\ buffers \in [Index -> 0..(BlockMod - 1)]
  /\ next_buffer \in Index
  /\ dma_pending \in Index \cup {Null}
  /\ dma_started \in BOOLEAN /\ blocked_thread \in BOOLEAN /\ notified \in BOOLEAN
  /\ channel \in Index \cup {Silence, Idle}
  /\ irq_enabled \in BOOLEAN /\ irq \in BOOLEAN
  /\ isr \in StartPlaces \cup {"unblock", "idle"}
  /\ player \in StartPlaces \cup
       {"idle", "enqueue", "dma_wait", "pause", "woken", "store", "start", "started",
        "disable", "disable_wait", "disable_pause", "disable_irq"}
  /\ tested \in [{"isr", "player"} -> Index \cup {Null}]
  /\ block \in 0..(BlockMod - 1) /\ started \in 0..(BlockMod - 1) /\ times \in Nat
  /\ cut \in BOOLEAN /\ disabled \in BOOLEAN

Init ==
  /\ buffers = [i \in Index |-> 0]
  /\ next_buffer = 0
  /\ dma_pending = Null
  /\ dma_started = FALSE /\ blocked_thread = FALSE /\ notified = FALSE
  /\ channel = Idle /\ irq_enabled = FALSE /\ irq = FALSE
  /\ isr = "idle" /\ player = "idle" /\ tested = [who \in {"isr", "player"} |-> Null]
  /\ block = 0 /\ started = 0 /\ times = 0 /\ cut = FALSE /\ disabled = FALSE

-----------------------------------------------------------------------------
(* dma_start_transfer(), for the handler and for the thread; its steps leave *)
(* the places to the caller.                                                *)

\* Line 36: is a block pending?
Test(who) ==
  /\ tested' = [tested EXCEPT ![who] = dma_pending]
  /\ UNCHANGED <<buffers, next_buffer, dma, hw, hist>>

AfterTest == IF dma_pending = Null THEN "silence" ELSE "use"

\* The channel starts with buffer p, or without a block.
HandOver(p) ==
  /\ channel' = p
  /\ cut' = (cut \/ channel \in Index)
  /\ started' = IF p = Null THEN started ELSE buffers[p]
  /\ times' = IF p = Null THEN times ELSE IF buffers[p] = started THEN times + 1 ELSE 1
  /\ UNCHANGED <<buffers, next_buffer, dma, irq_enabled, irq, block, disabled>>

\* Line 42 uses dma_pending, which the other may have cleared since line 36:
\* a data race, so that it is what was found there or what is there now.  The
\* null pointer is no block (the channel then sends what lies at address 0).
Use(who) ==
  /\ \E p \in {tested[who], dma_pending} : HandOver(p)
  /\ tested' = [tested EXCEPT ![who] = Null]

\* Mutant: the block stays pending.
Clear_forgotten ==
  UNCHANGED <<buffers, next_buffer, dma, hw, tested, hist>>

ClearPending ==
  /\ dma_pending' = Null
  /\ UNCHANGED <<buffers, next_buffer, dma_started, blocked_thread, notified, hw, tested, hist>>

ResumeBlocked ==
  /\ notified' = (notified \/ blocked_thread)
  /\ UNCHANGED <<buffers, next_buffer, dma_pending, dma_started, blocked_thread, hw, tested, hist>>

\* Mutant: blocked_thread is left set.
Unblock_forgotten ==
  UNCHANGED <<buffers, next_buffer, dma, hw, tested, hist>>

Unblock ==
  /\ blocked_thread' = FALSE
  /\ UNCHANGED <<buffers, next_buffer, dma_pending, dma_started, notified, hw, tested, hist>>

-----------------------------------------------------------------------------
(* The channel and dma_irq_handler().                                       *)

TransferEnds ==
  /\ channel # Idle
  /\ channel' = Idle
  /\ irq' = TRUE
  /\ UNCHANGED <<buffers, next_buffer, dma, irq_enabled, isr, player, tested, hist>>

IsrEnter ==
  /\ isr = "idle" /\ irq /\ irq_enabled
  /\ irq' = FALSE
  /\ isr' = "test"
  /\ UNCHANGED <<buffers, next_buffer, dma, channel, irq_enabled, player, tested, hist>>

IsrTest == isr = "test" /\ Test("isr") /\ isr' = AfterTest /\ UNCHANGED player

\* Mutant: the blocked thread is looked for only when a block was taken.
IsrSilence_no_check ==
  isr = "silence" /\ HandOver(Null) /\ isr' = "idle" /\ UNCHANGED <<player, tested>>

IsrSilence ==
  isr = "silence" /\ HandOver(Null) /\ isr' = "check" /\ UNCHANGED <<player, tested>>

IsrUse == isr = "use" /\ Use("isr") /\ isr' = "clear" /\ UNCHANGED player
IsrClear == isr = "clear" /\ ClearPending /\ isr' = "check" /\ UNCHANGED player
IsrCheck ==
  /\ isr = "check" /\ ResumeBlocked
  /\ isr' = IF blocked_thread THEN "unblock" ELSE "idle"
  /\ UNCHANGED player
IsrUnblock == isr = "unblock" /\ Unblock /\ isr' = "idle" /\ UNCHANGED player

Isr == IsrEnter \/ IsrTest \/ IsrSilence \/ IsrUse \/ IsrClear \/ IsrCheck \/ IsrUnblock

-----------------------------------------------------------------------------
(* The player thread.                                                       *)

MayRun == SameCore => isr = "idle"
At(place) == MayRun /\ player = place
Goto(place) == player' = place /\ UNCHANGED isr

\* play(): memcpy() of the next block into the next buffer.
Copy ==
  /\ At("idle")
  /\ block' = (block + 1) % BlockMod
  /\ buffers' = [buffers EXCEPT ![next_buffer] = block']
  /\ Goto("enqueue")
  /\ UNCHANGED <<next_buffer, dma, hw, tested, started, times, cut, disabled>>

\* Mutant: the pending block is not waited for.
Enqueue_no_wait ==
  /\ At("enqueue")
  /\ Goto("store")
  /\ UNCHANGED <<buffers, next_buffer, dma, hw, tested, hist>>

\* dma_enqueue_data_locked(): is there a block pending?
Enqueue ==
  /\ At("enqueue")
  /\ Goto(IF dma_pending = Null THEN "store" ELSE "dma_wait")
  /\ UNCHANGED <<buffers, next_buffer, dma, hw, tested, hist>>

\* dma_wait(), also of disable(): blocked_thread = me, and then pause().
DmaWait ==
  /\ At("dma_wait") \/ At("disable_wait")
  /\ blocked_thread' = TRUE
  /\ Goto(IF player = "dma_wait" THEN "pause" ELSE "disable_pause")
  /\ UNCHANGED <<buffers, next_buffer, dma_pending, dma_started, notified, hw, tested, hist>>

PauseReturns ==
  /\ At("pause") \/ At("disable_pause")
  /\ notified
  /\ notified' = FALSE
  /\ Goto(IF player = "pause" THEN "woken" ELSE "disable_irq")
  /\ UNCHANGED <<buffers, next_buffer, dma_pending, dma_started, blocked_thread, hw, tested, hist>>

\* assert(dma_pending == NULL): the property PendingIsTaken.
Woken ==
  /\ At("woken")
  /\ Goto("store")
  /\ UNCHANGED <<buffers, next_buffer, dma, hw, tested, hist>>

\* Mutants: the index does not wrap; every block starts the channel.
Store_no_wrap ==
  /\ At("store")
  /\ dma_pending' = next_buffer
  /\ next_buffer' = next_buffer + 1
  /\ Goto(IF dma_started THEN "idle" ELSE "start")
  /\ UNCHANGED <<buffers, dma_started, blocked_thread, notified, hw, tested, hist>>

Store_restarts ==
  /\ At("store")
  /\ dma_pending' = next_buffer
  /\ next_buffer' = (next_buffer + 1) % n_buffers
  /\ Goto("start")
  /\ UNCHANGED <<buffers, dma_started, blocked_thread, notified, hw, tested, hist>>

Store ==
  /\ At("store")
  /\ dma_pending' = next_buffer
  /\ next_buffer' = (next_buffer + 1) % n_buffers
  /\ Goto(IF dma_started THEN "idle" ELSE "start")
  /\ UNCHANGED <<buffers, dma_started, blocked_thread, notified, hw, tested, hist>>

\* The first block, or the first after disable(): the interrupt is enabled
\* and the thread starts the transfer itself.
StartIrq ==
  /\ At("start")
  /\ irq_enabled' = TRUE
  /\ Goto("test")
  /\ UNCHANGED <<buffers, next_buffer, dma, channel, irq, tested, hist>>

StartTest == At("test") /\ Test("player") /\ Goto(AfterTest)
StartSilence == At("silence") /\ HandOver(Null) /\ Goto("check") /\ UNCHANGED tested
StartUse == At("use") /\ Use("player") /\ Goto("clear")
StartClear == At("clear") /\ ClearPending /\ Goto("check")
\* The resume and the reset are one step here: the only thread that could set
\* blocked_thread in between is the one that takes it.
StartCheck ==
  /\ At("check")
  /\ notified' = (notified \/ blocked_thread)
  /\ blocked_thread' = FALSE
  /\ Goto("started")
  /\ UNCHANGED <<buffers, next_buffer, dma_pending, dma_started, hw, tested, hist>>

Started ==
  /\ At("started")
  /\ dma_started' = TRUE
  /\ Goto("idle")
  /\ UNCHANGED <<buffers, next_buffer, dma_pending, blocked_thread, notified, hw, tested, hist>>

\* disable()
Disable ==
  /\ At("idle") /\ dma_started
  /\ Goto(IF dma_pending = Null THEN "disable_irq" ELSE "disable_wait")
  /\ UNCHANGED <<buffers, next_buffer, dma, hw, tested, hist>>

DisableIrq ==
  /\ At("disable_irq")
  /\ irq_enabled' = FALSE
  /\ dma_started' = FALSE
  /\ disabled' = TRUE
  /\ Goto("idle")
  /\ UNCHANGED <<buffers, next_buffer, dma_pending, blocked_thread, notified, channel, irq,
                 tested, block, started, times, cut>>

Start ==
  \/ StartIrq \/ StartTest \/ StartSilence \/ StartUse \/ StartClear \/ StartCheck \/ Started
Player ==
  \/ Enqueue \/ DmaWait \/ PauseReturns \/ Woken \/ Store \/ Start \/ DisableIrq

-----------------------------------------------------------------------------
Next == TransferEnds \/ Isr \/ Copy \/ Disable \/ Player
Spec == Init /\ [][Next]_vars

\* Fairness: hardware and handler run, and a transfer (256 samples, 5.8 ms)
\* lasts long enough for the thread to get on between two interrupts.
FairSpec == Spec /\ WF_vars(TransferEnds) /\ WF_vars(Isr) /\ SF_vars(Player)

-----------------------------------------------------------------------------
(* Properties.                                                              *)

\* assert(! blocked_thread), audio-pico.cpp:67: dma_wait() finds nobody blocked.
NobodyIsBlocked == player = "dma_wait" => ~blocked_thread

\* assert(dma_pending == NULL), audio-pico.cpp:69: the pending block is taken
\* when dma_wait() returns.
PendingIsTaken == player = "woken" => dma_pending = Null

\* Both assertions of dma_wait() and its caller hold, whenever the handler runs.
AssertsHold == NobodyIsBlocked /\ PendingIsTaken

\* Three buffers are enough although play() copies before it waits: it never
\* copies into the buffer that is pending or under the DMA.
CopyIsSafe ==
  [][\A i \in Index : buffers'[i] # buffers[i] => i # dma_pending /\ i # channel]_vars

\* The handler comes between the thread's test of dma_pending (line 36) and
\* its reset (43), and one of them has given the pending block to the DMA when
\* the other does.
Overtaken ==
  \/ player = "use" /\ dma_pending = Null
  \/ player = "clear" /\ isr = "use"

\* Every block is handed to the DMA in order, none is left out, and each once:
\* only when handler and thread start the same transfer is it handed over a
\* second time, and never a third time.
BlocksInOrder ==
  [][\/ UNCHANGED <<started, times>>
     \/ started' = (started + 1) % BlockMod /\ times' = 1
     \/ started' = started /\ times = 1 /\ times' = 2 /\ Overtaken]_vars

\* Once running, the channel takes each block to its end: only a restart after
\* disable(), when an interrupt may be left over, can cut one short.
CutOnlyAfterDisable == cut => disabled

\* Liveness: the player is never blocked for ever, although the handler may
\* take the pending block before it can see who is blocked on it.
PlayerIsResumed == (player \in {"pause", "disable_pause"}) ~> (player = "idle")

=============================================================================
