-------------------------- MODULE IrqBufferedReader --------------------------
(***************************************************************************)
(* threads/include/irq-buffered-reader.h: a thread that an interrupt       *)
(* resumes moves characters from the device into a ring buffer; getc()     *)
(* takes them out.  On the pico it is what stdin is read through           *)
(* (threads/pico/platform-threads.cpp, StdinBuffer).                       *)
(*                                                                         *)
(* The condition variable is modelled by the set of its sleepers, as       *)
(* PicoThreads shows it to behave when no sleeper is resume()d.            *)
(***************************************************************************)
EXTENDS Naturals, Sequences

CONSTANTS Getter,    \* the threads that call getc()
          Main,      \* the reader's own thread
          Nobody,    \* the lock is free
          Char,      \* the characters
          NoChar,    \* no character yet
          buffer_n,  \* the size of the ring
          HwMax      \* bound: characters the device holds

ASSUME ThreadAssumption == Main \notin Getter /\ Nobody \notin Getter /\ Main # Nobody
ASSUME CharAssumption == NoChar \notin Char
ASSUME SizeAssumption == buffer_n \in Nat \ {0} /\ HwMax \in Nat \ {0}

VARIABLES
  device,    \* external: the characters the device holds
  resumed,   \* the interrupt's resume of the reader thread is pending
  lock,
  sleeping,  \* the getters asleep on cond
  main,      \* where the reader thread is
  getter,    \* where each getter is
  buffer, n, low, high,
  last       \* history: the last character taken out

ring == <<buffer, n, low, high>>
readerVars == <<device, resumed, lock, sleeping, main, getter, ring, last>>

MainPlaces == {"pause", "lock", "reading", "signal"}
GetterPlaces == {"out", "lock", "check", "asleep", "refill", "signal"}

ReaderTypeOK ==
  /\ device \in Seq(Char)
  /\ resumed \in BOOLEAN
  /\ lock \in Getter \cup {Main, Nobody}
  /\ sleeping \subseteq Getter
  /\ main \in MainPlaces
  /\ getter \in [Getter -> GetterPlaces]
  /\ buffer \in [0..(buffer_n - 1) -> Char \cup {NoChar}]
  /\ n \in 0..buffer_n
  /\ low \in 0..(buffer_n - 1)
  /\ high \in 0..(buffer_n - 1)
  /\ last \in Char \cup {NoChar}

ReaderInit ==
  /\ device = <<>>
  /\ resumed = FALSE
  /\ lock = Nobody
  /\ sleeping = {}
  /\ main = "pause"
  /\ getter = [g \in Getter |-> "out"]
  /\ buffer = [i \in 0..(buffer_n - 1) |-> NoChar]
  /\ n = 0 /\ low = 0 /\ high = 0
  /\ last = NoChar

Go(g, place) == getter' = [getter EXCEPT ![g] = place]

-----------------------------------------------------------------------------
\* External: a character arrives and its interrupt calls resume_from_isr().
Arrive(c) ==
  /\ Len(device) < HwMax
  /\ device' = Append(device, c)
  /\ resumed' = TRUE
  /\ UNCHANGED <<lock, sleeping, main, getter, ring, last>>

\* Mutant: a character is stored where the last one was.
ReadOne_same_slot ==
  /\ n < buffer_n /\ device # <<>>
  /\ buffer' = [buffer EXCEPT ![high] = Head(device)]
  /\ high' = IF n = 0 THEN (high + 1) % buffer_n ELSE high
  /\ n' = n + 1
  /\ device' = Tail(device)
  /\ UNCHANGED low

\* One turn of read_all_locked(): read_char_if_available() finds a character.
ReadOne ==
  /\ n < buffer_n /\ device # <<>>
  /\ buffer' = [buffer EXCEPT ![high] = Head(device)]
  /\ high' = (high + 1) % buffer_n
  /\ n' = n + 1
  /\ device' = Tail(device)
  /\ UNCHANGED low

\* Its two returns.
ReadAllDone == n >= buffer_n \/ device = <<>>

\* cond->signal() wakes a sleeper, if there is one.
signal ==
  \/ sleeping = {} /\ UNCHANGED <<sleeping, getter>>
  \/ \E g \in sleeping : sleeping' = sleeping \ {g} /\ Go(g, "lock")

-----------------------------------------------------------------------------
(* main()                                                                   *)

ReadPauseReturns ==
  /\ main = "pause" /\ resumed
  /\ resumed' = FALSE
  /\ main' = "lock"
  /\ UNCHANGED <<device, lock, sleeping, getter, ring, last>>

MainLock ==
  /\ main = "lock" /\ lock = Nobody
  /\ lock' = Main
  /\ main' = "reading"
  /\ UNCHANGED <<device, resumed, sleeping, getter, ring, last>>

MainRead ==
  /\ main = "reading"
  /\ ReadOne
  /\ UNCHANGED <<resumed, lock, sleeping, main, getter, last>>

MainUnlock ==
  /\ main = "reading" /\ ReadAllDone
  /\ lock' = Nobody
  /\ main' = "signal"
  /\ UNCHANGED <<device, resumed, sleeping, getter, ring, last>>

MainSignal ==
  /\ main = "signal"
  /\ signal
  /\ main' = "pause"
  /\ UNCHANGED <<device, resumed, lock, ring, last>>

-----------------------------------------------------------------------------
(* getc()                                                                   *)

getc(g) ==
  /\ getter[g] = "out"
  /\ Go(g, "lock")
  /\ UNCHANGED <<device, resumed, lock, sleeping, main, ring, last>>

GetLock(g) ==
  /\ getter[g] = "lock" /\ lock = Nobody
  /\ lock' = g
  /\ Go(g, "check")
  /\ UNCHANGED <<device, resumed, sleeping, main, ring, last>>

\* cond->wait() gives the lock up and goes to sleep in one step.
GetWait(g) ==
  /\ getter[g] = "check" /\ n = 0
  /\ lock' = Nobody
  /\ sleeping' = sleeping \cup {g}
  /\ Go(g, "asleep")
  /\ UNCHANGED <<device, resumed, main, ring, last>>

\* Mutants: the device is not read again; the index does not wrap.
GetChar_no_refill(g) ==
  /\ getter[g] = "check" /\ n > 0
  /\ last' = buffer[low]
  /\ low' = (low + 1) % buffer_n
  /\ n' = n - 1
  /\ lock' = Nobody
  /\ Go(g, "signal")
  /\ UNCHANGED <<device, resumed, sleeping, main, buffer, high>>

GetChar_no_wrap(g) ==
  /\ getter[g] = "check" /\ n > 0
  /\ last' = buffer[low]
  /\ low' = low + 1
  /\ n' = n - 1
  /\ Go(g, "refill")
  /\ UNCHANGED <<device, resumed, lock, sleeping, main, buffer, high>>

\* The character is taken; if the ring was full the device is read again
\* under the same lock.
GetChar(g) ==
  /\ getter[g] = "check" /\ n > 0
  /\ last' = buffer[low]
  /\ low' = (low + 1) % buffer_n
  /\ n' = n - 1
  /\ IF n' = buffer_n - 1
     THEN Go(g, "refill") /\ UNCHANGED lock
     ELSE Go(g, "signal") /\ lock' = Nobody
  /\ UNCHANGED <<device, resumed, sleeping, main, buffer, high>>

GetRefill(g) ==
  /\ getter[g] = "refill"
  /\ ReadOne
  /\ UNCHANGED <<resumed, lock, sleeping, main, getter, last>>

GetUnlock(g) ==
  /\ getter[g] = "refill" /\ ReadAllDone
  /\ lock' = Nobody
  /\ Go(g, "signal")
  /\ UNCHANGED <<device, resumed, sleeping, main, ring, last>>

\* Mutant: getc() returns without a signal.
GetSignal_omitted(g) ==
  /\ getter[g] = "signal"
  /\ Go(g, "out")
  /\ UNCHANGED <<device, resumed, lock, sleeping, main, ring, last>>

GetSignal(g) ==
  /\ getter[g] = "signal"
  /\ \/ sleeping = {} /\ Go(g, "out") /\ UNCHANGED sleeping
     \/ \E s \in sleeping :
          /\ sleeping' = sleeping \ {s}
          /\ getter' = [getter EXCEPT ![g] = "out", ![s] = "lock"]
  /\ UNCHANGED <<device, resumed, lock, main, ring, last>>

-----------------------------------------------------------------------------
MainStep == ReadPauseReturns \/ MainLock \/ MainRead \/ MainUnlock \/ MainSignal
GetterStep(g) ==
  GetLock(g) \/ GetWait(g) \/ GetChar(g) \/ GetRefill(g) \/ GetUnlock(g) \/ GetSignal(g)

ReaderNext ==
  \/ \E c \in Char : Arrive(c)
  \/ MainStep
  \/ \E g \in Getter : getc(g) \/ GetterStep(g)

ReaderSpec == ReaderInit /\ [][ReaderNext]_readerVars

\* Fairness: the threads run, and a mutex that is let go again and again is
\* obtained.  Nobody has to call getc(), nothing has to arrive.
ReaderFairSpec ==
  /\ ReaderSpec
  /\ WF_readerVars(MainStep) /\ SF_readerVars(MainLock)
  /\ \A g \in Getter : WF_readerVars(GetterStep(g)) /\ SF_readerVars(GetLock(g))

-----------------------------------------------------------------------------
(* Properties.                                                              *)

\* The hazard that the comment at irq-buffered-reader.h:33-37 names: data is
\* pending in the device with no interrupt left to process it.  It happens
\* only while the ring is full (and the next getc() then reads the device).
NotStranded ==
  device # <<>> /\ ~resumed /\ main \in {"pause", "signal"}
    => n = buffer_n \/ \E g \in Getter : getter[g] = "refill"

\* Refinement: ring and device together are one queue, whose characters come
\* out of getc() once and in the order they arrived.
Buffered == [i \in 1..n |-> buffer[(low + i - 1) % buffer_n]]
Queue == INSTANCE Fifo WITH q <- Buffered \o device, out <- last,
                            Value <- Char, NoValue <- NoChar
ImplementsFifo == Queue!Spec

\* Liveness: getters never sleep for ever beside characters that nobody takes
\* (one signal wakes one getter and one read may bring many characters, so
\* each getter has to pass the signal on).
SleepersAreServed ==
  <>[](sleeping # {} /\ (n > 0 \/ device # <<>>))
    => []<><<\E g \in Getter : GetChar(g)>>_readerVars

=============================================================================
