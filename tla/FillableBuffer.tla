---------------------------- MODULE FillableBuffer ----------------------------
(***************************************************************************)
(* core/include/fillable-buffer.h: a Buffer whose read() lends its memory  *)
(* to fill(), which copies what it is given straight into it, part by      *)
(* part, until the read is full.  Under one lock, a reader thread waits on *)
(* one condition and a filler thread on the other.                         *)
(*                                                                         *)
(* A read() that finds the end of the stream returns with the lock held.   *)
(* Bytes are numbered in the order they are given to fill().               *)
(***************************************************************************)
EXTENDS Naturals, Sequences

CONSTANTS MaxBytes,  \* bound: bytes of one read() or fill()
          ByteMod    \* bound: bytes are numbered modulo ByteMod

VARIABLES
  is_eof_forced,
  to_fill_n,    \* the room left in what read() lent; 0: to_fill is NULL
  n_filled,
  fb_lock,      \* "free", or "lost": left locked by read()
  fb_reader,    \* where read() is: in its first wait ("lent", "relook"), for an
                \* earlier read, or in its second ("asleep", "woken"), for the filler
  fb_filler,    \* where fill() is
  fill_n,       \* what fill() has still to copy
  next_byte,    \* history: the byte to be filled in next
  memory,       \* the bytes in the reader's memory
  expected,     \* history: the byte the next read() should begin with
  eof_undone    \* history: set_is_eof(false) has been called

vars == <<is_eof_forced, to_fill_n, n_filled, fb_lock, fb_reader, fb_filler, fill_n,
          next_byte, memory, expected, eof_undone>>

Byte == 0..(ByteMod - 1)
Size == 1..MaxBytes

TypeOK ==
  /\ is_eof_forced \in BOOLEAN
  /\ to_fill_n \in 0..MaxBytes /\ n_filled \in 0..MaxBytes
  /\ fb_lock \in {"free", "lost"}
  /\ fb_reader \in {"out", "lent", "relook", "asleep", "woken"}
  /\ fb_filler \in {"out", "filling", "asleep"}
  /\ fill_n \in 0..MaxBytes
  /\ next_byte \in Byte /\ expected \in Byte
  /\ memory \in Seq(Byte)
  /\ eof_undone \in BOOLEAN

Init ==
  /\ is_eof_forced = FALSE
  /\ to_fill_n = 0 /\ n_filled = 0
  /\ fb_lock = "free"
  /\ fb_reader = "out" /\ fb_filler = "out"
  /\ fill_n = 0
  /\ next_byte = 0 /\ memory = <<>> /\ expected = 0 /\ eof_undone = FALSE

ReaderSignalled ==
  CASE fb_reader = "lent"   -> "relook"
    [] fb_reader = "asleep" -> "woken"
    [] OTHER                -> fb_reader
SignalFiller == fb_filler' = IF fb_filler = "asleep" THEN "filling" ELSE fb_filler

-----------------------------------------------------------------------------
(* The reader.                                                              *)

\* read() lends its memory, signals the filler and waits.
ReadLend(n) ==
  /\ fb_reader \in {"out", "relook"} /\ fb_lock = "free" /\ ~is_eof_forced /\ to_fill_n = 0
  /\ to_fill_n' = n /\ n_filled' = 0
  /\ memory' = <<>>
  /\ SignalFiller
  /\ fb_reader' = "asleep"
  /\ UNCHANGED <<is_eof_forced, fb_lock, fill_n, next_byte, expected, eof_undone>>

\* What an earlier read() lent is not filled yet.
ReadLent ==
  /\ fb_reader \in {"out", "relook"} /\ fb_lock = "free" /\ ~is_eof_forced /\ to_fill_n > 0
  /\ fb_reader' = "lent"
  /\ UNCHANGED <<is_eof_forced, to_fill_n, n_filled, fb_lock, fb_filler, fill_n,
                 next_byte, memory, expected, eof_undone>>

\* Mutant: the end of the stream gives the lock back, not the memory.
ReadEof_unlocks ==
  /\ fb_reader \in {"out", "relook", "woken"} /\ fb_lock = "free" /\ is_eof_forced
  /\ fb_reader' = "out"
  /\ UNCHANGED <<is_eof_forced, to_fill_n, n_filled, fb_lock, fb_filler, fill_n,
                 next_byte, memory, expected, eof_undone>>

\* return 0, from the first look or from a wait.
ReadEof ==
  /\ fb_reader \in {"out", "relook", "woken"} /\ fb_lock = "free" /\ is_eof_forced
  /\ fb_lock' = "lost"
  /\ fb_reader' = "out"
  /\ UNCHANGED <<is_eof_forced, to_fill_n, n_filled, fb_filler, fill_n,
                 next_byte, memory, expected, eof_undone>>

\* Woken with nothing filled in: signal and wait again.
ReadAgain ==
  /\ fb_reader = "woken" /\ fb_lock = "free" /\ ~is_eof_forced /\ n_filled = 0
  /\ SignalFiller
  /\ fb_reader' = "asleep"
  /\ UNCHANGED <<is_eof_forced, to_fill_n, n_filled, fb_lock, fill_n,
                 next_byte, memory, expected, eof_undone>>

\* Woken with something: read() returns n_filled.
ReadReturns ==
  /\ fb_reader = "woken" /\ fb_lock = "free" /\ ~is_eof_forced /\ n_filled > 0
  /\ expected' = (expected + n_filled) % ByteMod
  /\ n_filled' = 0
  /\ fb_reader' = "out"
  /\ UNCHANGED <<is_eof_forced, to_fill_n, fb_lock, fb_filler, fill_n, next_byte, memory,
                 eof_undone>>

-----------------------------------------------------------------------------
(* The filler, and set_is_eof().                                            *)

FillCall(n) ==
  /\ fb_filler = "out"
  /\ fill_n' = n
  /\ fb_filler' = "filling"
  /\ UNCHANGED <<is_eof_forced, to_fill_n, n_filled, fb_lock, fb_reader,
                 next_byte, memory, expected, eof_undone>>

Least(a, b) == IF a < b THEN a ELSE b
NextBytes(n) == [i \in 1..n |-> (next_byte + i - 1) % ByteMod]

\* The copy of one part; a reader whose memory is full is signalled.
Copy ==
  LET n == Least(fill_n, to_fill_n)
  IN  /\ n > 0
      /\ memory' = memory \o NextBytes(n)
      /\ next_byte' = (next_byte + n) % ByteMod
      /\ n_filled' = n_filled + n
      /\ fill_n' = fill_n - n /\ to_fill_n' = to_fill_n - n
      /\ fb_reader' = IF to_fill_n' = 0 THEN ReaderSignalled ELSE fb_reader

\* fill() copies all it can, and returns or waits for the next read().
Fill ==
  /\ fb_filler = "filling" /\ fb_lock = "free"
  /\ Copy
  /\ fb_filler' = IF fill_n' = 0 THEN "out" ELSE "asleep"
  /\ UNCHANGED <<is_eof_forced, fb_lock, expected, eof_undone>>

FillWait ==
  /\ fb_filler = "filling" /\ fb_lock = "free" /\ to_fill_n = 0
  /\ fb_filler' = "asleep"
  /\ UNCHANGED <<is_eof_forced, to_fill_n, n_filled, fb_lock, fb_reader, fill_n,
                 next_byte, memory, expected, eof_undone>>

set_is_eof(is_eof) ==
  /\ fb_lock = "free"
  /\ is_eof_forced' = is_eof
  /\ eof_undone' = (eof_undone \/ ~is_eof)
  /\ fb_reader' = ReaderSignalled
  /\ UNCHANGED <<to_fill_n, n_filled, fb_lock, fb_filler, fill_n,
                 next_byte, memory, expected>>

Next ==
  \/ \E n \in Size : ReadLend(n) \/ FillCall(n)
  \/ ReadLent \/ ReadEof \/ ReadAgain \/ ReadReturns
  \/ Fill \/ FillWait
  \/ \E is_eof \in BOOLEAN : set_is_eof(is_eof)

Spec == Init /\ [][Next]_vars

-----------------------------------------------------------------------------
(* Properties.                                                              *)

\* Unless the end of the stream is undone, which wakes the reader early:
\* whatever the sizes of the reads and the fills, what is in the reader's
\* memory are the bytes that follow those of the last read, none lost and none
\* twice...
BytesInOrder ==
  fb_reader \in {"asleep", "woken"} /\ ~eof_undone =>
    memory = [i \in 1..n_filled |-> (expected + i - 1) % ByteMod]

\* ...and fill() copies only into memory whose read() has not returned: read()
\* leaves with its memory full, or with the lock that fill() needs.
MemoryIsLent ==
  fb_reader = "out" /\ fb_lock = "free" /\ ~eof_undone => to_fill_n = 0

=============================================================================
