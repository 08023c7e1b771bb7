--------------------------- MODULE ProducerConsumer ---------------------------
(***************************************************************************)
(* threads/producer-consumer.c: a bounded ring of buffers between threads, *)
(* with sequence numbers on both ends, one mutex and one condition.        *)
(*                                                                         *)
(* consume() waits with the mutex.  produce() waits with the address of    *)
(* the field that holds the mutex (&pc->mutex, line 66), which the void *  *)
(* of the C interface accepts: what the wait then does to that memory is   *)
(* undefined, but the mutex itself stays locked.                           *)
(***************************************************************************)
EXTENDS Naturals, Sequences

CONSTANTS Producer, Consumer,
          Nobody,     \* the mutex is free
          Buffer,     \* what is produced
          NoBuffer,   \* an unused slot
          n_buffers,
          SeqMod      \* unsigned arithmetic is modulo SeqMod (2^32 in the code)

ASSUME ThreadAssumption == Nobody \notin Producer \cup Consumer /\ Producer \cap Consumer = {}
ASSUME BufferAssumption == NoBuffer \notin Buffer
ASSUME SizeAssumption == n_buffers \in Nat \ {0} /\ SeqMod \in Nat \ {0}

Thread == Producer \cup Consumer

VARIABLES
  buffers, n_full, next_out, next_in, seq_in, seq_out,
  mutex,
  sleeping,  \* the consumers asleep on cond, having released the mutex
  pc,        \* where each thread is
  item,      \* the buffer a producer is putting in
  returned,  \* history: what produce() returned for the buffer in each slot
  consumed   \* history: the buffer and the number of the last consume()

ring == <<buffers, n_full, next_out, next_in, seq_in, seq_out>>
vars == <<ring, mutex, sleeping, pc, item, returned, consumed>>

Slot == 0..(n_buffers - 1)
SeqNo == 0..(SeqMod - 1)
Item == Buffer \X SeqNo
NoItem == <<NoBuffer, 0>>

\* stuck: in produce()'s wait with the mutex still locked.
Places == {"out", "lock", "check", "asleep", "stuck"}

TypeOK ==
  /\ buffers \in [Slot -> Buffer \cup {NoBuffer}]
  /\ n_full \in 0..n_buffers
  /\ next_out \in Slot /\ next_in \in Slot
  /\ seq_in \in SeqNo /\ seq_out \in SeqNo
  /\ mutex \in Thread \cup {Nobody}
  /\ sleeping \subseteq Consumer
  /\ pc \in [Thread -> Places]
  /\ item \in [Producer -> Buffer \cup {NoBuffer}]
  /\ returned \in [Slot -> SeqNo]
  /\ consumed \in Item \cup {NoItem}

Init ==
  /\ buffers = [i \in Slot |-> NoBuffer]
  /\ n_full = 0 /\ next_out = 0 /\ next_in = 0
  /\ seq_in = 1 % SeqMod /\ seq_out = 1 % SeqMod
  /\ mutex = Nobody
  /\ sleeping = {}
  /\ pc = [t \in Thread |-> "out"]
  /\ item = [p \in Producer |-> NoBuffer]
  /\ returned = [i \in Slot |-> 0]
  /\ consumed = NoItem

\* pi_cond_signal() wakes a sleeper, if there is one, and t is done.
SignalAndReturn(t) ==
  \/ /\ sleeping = {} /\ UNCHANGED sleeping
     /\ pc' = [pc EXCEPT ![t] = "out"]
  \/ \E s \in sleeping :
       /\ sleeping' = sleeping \ {s}
       /\ pc' = [pc EXCEPT ![t] = "out", ![s] = "lock"]

LockMutex(t) ==
  /\ pc[t] = "lock" /\ mutex = Nobody
  /\ mutex' = t
  /\ pc' = [pc EXCEPT ![t] = "check"]
  /\ UNCHANGED <<ring, sleeping, item, returned, consumed>>

-----------------------------------------------------------------------------
(* producer_consumer_consume                                                *)

ConsumeCall(c) ==
  /\ pc[c] = "out"
  /\ pc' = [pc EXCEPT ![c] = "lock"]
  /\ UNCHANGED <<ring, mutex, sleeping, item, returned, consumed>>

ConsumeWait(c) ==
  /\ pc[c] = "check" /\ n_full = 0
  /\ mutex' = Nobody
  /\ sleeping' = sleeping \cup {c}
  /\ pc' = [pc EXCEPT ![c] = "asleep"]
  /\ UNCHANGED <<ring, item, returned, consumed>>

Consume(c) ==
  /\ pc[c] = "check" /\ n_full > 0
  /\ consumed' = <<buffers[next_in], seq_out>>
  /\ next_in' = (next_in + 1) % n_buffers
  /\ n_full' = n_full - 1
  /\ seq_out' = (seq_out + 1) % SeqMod
  /\ mutex' = Nobody
  /\ SignalAndReturn(c)
  /\ UNCHANGED <<buffers, next_out, seq_in, item, returned>>

-----------------------------------------------------------------------------
(* producer_consumer_produce                                                *)

ProduceCall(p, b) ==
  /\ pc[p] = "out"
  /\ item' = [item EXCEPT ![p] = b]
  /\ pc' = [pc EXCEPT ![p] = "lock"]
  /\ UNCHANGED <<ring, mutex, sleeping, returned, consumed>>

\* pi_cond_wait(pc->cond, &pc->mutex): the mutex is not released.
ProduceWait(p) ==
  /\ pc[p] = "check" /\ n_full = n_buffers
  /\ pc' = [pc EXCEPT ![p] = "stuck"]
  /\ UNCHANGED <<ring, mutex, sleeping, item, returned, consumed>>

\* The outcomes of the undefined wait: it sleeps for good (no step), or it
\* returns, to find the ring as full as it was.
ProduceWaitReturns(p) ==
  /\ pc[p] = "stuck"
  /\ pc' = [pc EXCEPT ![p] = "check"]
  /\ UNCHANGED <<ring, mutex, sleeping, item, returned, consumed>>

\* Mutants: the index does not wrap; the signal is forgotten; the number
\* returned is that of the next buffer (++seq_in).
Produce_no_wrap(p) ==
  /\ pc[p] = "check" /\ n_full < n_buffers
  /\ buffers' = [buffers EXCEPT ![next_out] = item[p]]
  /\ next_out' = next_out + 1
  /\ n_full' = n_full + 1
  /\ seq_in' = (seq_in + 1) % SeqMod
  /\ returned' = [returned EXCEPT ![next_out] = seq_in]
  /\ mutex' = Nobody
  /\ SignalAndReturn(p)
  /\ UNCHANGED <<next_in, seq_out, item, consumed>>

Produce_no_signal(p) ==
  /\ pc[p] = "check" /\ n_full < n_buffers
  /\ buffers' = [buffers EXCEPT ![next_out] = item[p]]
  /\ next_out' = (next_out + 1) % n_buffers
  /\ n_full' = n_full + 1
  /\ seq_in' = (seq_in + 1) % SeqMod
  /\ returned' = [returned EXCEPT ![next_out] = seq_in]
  /\ mutex' = Nobody
  /\ pc' = [pc EXCEPT ![p] = "out"]
  /\ UNCHANGED <<next_in, seq_out, sleeping, item, consumed>>

Produce_next_number(p) ==
  /\ pc[p] = "check" /\ n_full < n_buffers
  /\ buffers' = [buffers EXCEPT ![next_out] = item[p]]
  /\ next_out' = (next_out + 1) % n_buffers
  /\ n_full' = n_full + 1
  /\ seq_in' = (seq_in + 1) % SeqMod
  /\ returned' = [returned EXCEPT ![next_out] = seq_in']
  /\ mutex' = Nobody
  /\ SignalAndReturn(p)
  /\ UNCHANGED <<next_in, seq_out, item, consumed>>

Produce(p) ==
  /\ pc[p] = "check" /\ n_full < n_buffers
  /\ buffers' = [buffers EXCEPT ![next_out] = item[p]]
  /\ next_out' = (next_out + 1) % n_buffers
  /\ n_full' = n_full + 1
  /\ seq_in' = (seq_in + 1) % SeqMod
  /\ returned' = [returned EXCEPT ![next_out] = seq_in]
  /\ mutex' = Nobody
  /\ SignalAndReturn(p)
  /\ UNCHANGED <<next_in, seq_out, item, consumed>>

-----------------------------------------------------------------------------
ConsumerStep(c) == LockMutex(c) \/ ConsumeWait(c) \/ Consume(c)
ProducerStep(p) == LockMutex(p) \/ ProduceWait(p) \/ Produce(p)

Next ==
  \/ \E c \in Consumer : ConsumeCall(c) \/ ConsumerStep(c)
  \/ \E p \in Producer : \/ \E b \in Buffer : ProduceCall(p, b)
                         \/ ProducerStep(p) \/ ProduceWaitReturns(p)

Spec == Init /\ [][Next]_vars

\* Fairness: threads run and get a mutex that is let go again and again.
FairSpec ==
  /\ Spec
  /\ \A c \in Consumer : WF_vars(ConsumerStep(c)) /\ SF_vars(LockMutex(c))
  /\ \A p \in Producer : WF_vars(ProducerStep(p)) /\ SF_vars(LockMutex(p))

-----------------------------------------------------------------------------
(* Properties.                                                              *)

\* Refinement: a queue of buffers, each under the number that produce()
\* returned for it.  Every buffer is consumed once, in order, and the number
\* that consume() reports, which it counts on its own, is the one produce()
\* returned for that very buffer, across the wrap of indices and counters.
Waiting == [i \in 1..n_full |-> <<buffers[(next_in + i - 1) % n_buffers],
                                  returned[(next_in + i - 1) % n_buffers]>>]
Queue == INSTANCE Fifo WITH q <- Waiting, out <- consumed,
                            Value <- Item, NoValue <- NoItem
ImplementsFifo == Queue!Spec

\* No consumer sleeps beside a buffer unless a woken one is on its way: one
\* condition and one signal per call suffice here, because only consumers
\* ever sleep with the mutex free.
NoSleeperBesideItem ==
  n_full > 0 /\ sleeping # {} => \E c \in Consumer : pc[c] \in {"lock", "check"}

\* Liveness: with buffers in the ring a consumer that sleeps gets to run, or a
\* producer has met a full ring.
ItemsAreConsumed ==
  <>[](n_full > 0 /\ \E c \in Consumer : pc[c] # "out")
    => \/ []<><<\E c \in Consumer : Consume(c)>>_vars
       \/ <>[](n_full = n_buffers)

=============================================================================
