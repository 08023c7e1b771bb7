------------------------------ MODULE DataProofs ------------------------------
(***************************************************************************)
(* Proofs about what is read from files, and about what the HTTP server    *)
(* makes of a path and of a page: the parts of MCDevices whose invariants  *)
(* take reasoning about sequences and about division.  DevicesProofs has   *)
(* the other parts, and the theorems of them all.                          *)
(*                                                                         *)
(* The parts share nothing, so each has an inductive invariant of its own: *)
(* XInv, with XInit (it holds at first), XStep (every step of the part     *)
(* keeps it) and, where it does not contain what the part promises as it   *)
(* stands, XInvImplies.                                                    *)
(***************************************************************************)
EXTENDS MCDevices, SequenceLemmas, FiniteSetTheorems, TLAPS

-----------------------------------------------------------------------------
(* Induction and recursion up to a bound.                                   *)

\* What holds of 0, and of a number when it holds of the one before.
LEMMA UpTo ==
  ASSUME NEW n \in Nat, NEW T, 0 \in T, \A i \in 1..n : i - 1 \in T => i \in T
  PROVE  \A i \in 0..n : i \in T
<1> DEFINE Not == {i \in 0..n : i \notin T}
<1>1. SUFFICES ASSUME Not # {} PROVE FALSE
  OBVIOUS
<1>2. PICK k \in Not : \A j \in Not : k <= j
  <2>1. Not \subseteq Nat
    OBVIOUS
  <2> QED
    BY <1>1, <2>1, LeastNatural
<1>3. k \in 1..n /\ k - 1 \in 0..n
  BY <1>2
<1>4. k - 1 \in T
  BY <1>2, <1>3
<1> QED
  BY <1>2, <1>3, <1>4

\* The i-th value of f is what step gives of i and the value before.
StepsIn(step, Val, n) == \A i \in 1..n, s \in Val : step[<<i, s>>] \in Val
IsRecursion(f, first, step, n) == f[0] = first /\ \A i \in 1..n : f[i] = step[<<i, f[i - 1]>>]

\* A function may be defined by such a recursion.
LEMMA RecursionExists ==
  ASSUME NEW Val, NEW first \in Val, NEW n \in Nat, NEW step, StepsIn(step, Val, n)
  PROVE  \E f \in [0..n -> Val] : IsRecursion(f, first, step, n)
<1> USE DEF IsRecursion, StepsIn
<1> DEFINE Recursive(f, k) == IsRecursion(f, first, step, k)
           T == {k \in 0..n : \E f \in [0..k -> Val] : Recursive(f, k)}
<1>1. 0 \in T
  <2> DEFINE f == [i \in 0..0 |-> first]
  <2>1. f \in [0..0 -> Val] /\ f[0] = first /\ 1..0 = {}
    OBVIOUS
  <2> HIDE DEF f
  <2> QED
    BY <2>1
<1>2. ASSUME NEW k \in 1..n, k - 1 \in T
      PROVE  k \in T
  <2>1. PICK g \in [0..(k - 1) -> Val] : Recursive(g, k - 1)
    BY <1>2
  <2> DEFINE f == [i \in 0..k |-> IF i = k THEN step[<<k, g[k - 1]>>] ELSE g[i]]
  <2>2. f \in [0..k -> Val]
    <3>1. g[k - 1] \in Val
      BY <2>1
    <3>2. \A i \in 0..k : i # k => g[i] \in Val
      BY <2>1
    <3> QED
      BY <3>1, <3>2
  <2>3. \A i \in 1..k : f[i] = step[<<i, f[i - 1]>>]
    <3> TAKE i \in 1..k
    <3>1. i - 1 \in 0..k /\ i - 1 # k /\ f[i - 1] = g[i - 1]
      OBVIOUS
    <3>2. CASE i = k
      BY <3>1, <3>2
    <3>3. CASE i # k
      <4>1. i \in 1..(k - 1) /\ f[i] = g[i]
        BY <3>3
      <4> QED
        BY <2>1, <3>1, <4>1
    <3> QED
      BY <3>2, <3>3
  <2>4. f[0] = first
    BY <2>1
  <2> HIDE DEF f
  <2> QED
    BY <2>2, <2>3, <2>4
<1>3. n \in T
  <2> HIDE DEF T
  <2>1. \A i \in 0..n : i \in T
    BY <1>1, <1>2, UpTo
  <2> QED
    BY <2>1
<1> QED
  BY <1>3

-----------------------------------------------------------------------------
(* Division, for the parts that reckon.                                     *)

\* A quotient and its remainder.
LEMMA DivExists ==
  ASSUME NEW N \in Nat \ {0}, NEW x \in Int
  PROVE  \E q \in Int, r \in 0..(N - 1) :
           x = (N * q) + r /\ x \div N = q /\ x % N = r
OBVIOUS

\* Products of natural numbers are natural numbers.
LEMMA ProductOfNaturals == \A a, b \in Nat : a * b \in Nat
OBVIOUS

\* More times more is more.
LEMMA ProductIsMonotone ==
  ASSUME NEW a \in Nat, NEW b \in Nat, a <= b, NEW n \in Nat
  PROVE  a * n \in 0..(b * n) /\ n * a \in 0..(n * b)
<1>1. (b - a) * n \in Nat /\ a * n \in Nat
  BY ProductOfNaturals
<1>2. (b - a) * n = (b * n) - (a * n) /\ n * a = a * n /\ n * b = b * n
  OBVIOUS
<1> QED
  BY <1>1, <1>2

-----------------------------------------------------------------------------
(* AudioData: the buffers of a file                                         *)

\* What has been read never takes the buffer further than what is left of the
\* file; and the memory is the buffer's part of it, unless it is nested.
BufferInv ==
  /\ W!BufferTypeOK
  /\ at >= -MaxSeek /\ at + W!Left <= (2 * NBytes) + MaxSeek
  /\ file_pos >= 0
  /\ mem_start + mem_n <= NBytes
  /\ ~nested => /\ start = mem_start
                /\ IF max_bytes = -1 THEN start = 0 /\ mem_n = NBytes ELSE mem_n = max_bytes
  /\ W!LikeMemory

\* Nothing has been read.
LEMMA BufferInit == W!BufferInit => BufferInv
<1> SUFFICES ASSUME W!BufferInit
             PROVE  BufferInv
  OBVIOUS
<1>1. unplaced \in BOOLEAN /\ nested \in BOOLEAN
  BY DEF W!BufferInit
<1> QED
  BY <1>1, BufferAssumption
  DEF W!BufferInit, BufferInv, W!BufferTypeOK, W!LikeMemory, W!Left

\* There is no more left of the file than the file.
LEMMA LeftOfTheFile ==
  /\ \A x, y \in Nat : x + y \in Nat
  /\ \A x \in Nat : (IF x < NBytes THEN NBytes - x ELSE 0) \in 0..NBytes
BY BufferAssumption

\* Every read and seek keeps it.
LEMMA BufferStep == BufferInv /\ [W!BufferNext]_buffer => BufferInv'
<1> SUFFICES ASSUME BufferInv, [W!BufferNext]_buffer
             PROVE  BufferInv'
  OBVIOUS
<1> USE BufferAssumption DEF BufferInv, W!BufferTypeOK
<1>0. W!Left \in 0..NBytes
  BY DEF W!Left
<1>1. ASSUME NEW n \in 0..NBytes, n > 0, W!read(n)
      PROVE  BufferInv'
  <2>1. /\ at' = at + W!Advance(n) /\ file_pos' = file_pos + W!Advance(n)
        /\ mem_at' = mem_at + W!Least(n, mem_n - mem_at)
        /\ UNCHANGED <<start, max_bytes, mem_n, mem_start, unplaced, nested>>
    BY <1>1 DEF W!read
  <2>2. W!Advance(n) \in 0..W!Left
    BY <1>0 DEF W!Advance, W!Clipped, W!Least
  <2>3. at' + W!Left' <= (2 * NBytes) + MaxSeek
    BY <2>1, <2>2 DEF W!Left
  <2>4. W!Left' \in 0..NBytes
    BY <2>1, <2>2, <1>0 DEF W!Left
  <2>5. file_pos' >= 0 /\ at' >= at /\ (file_pos' <= NBytes \/ file_pos' = file_pos)
    BY <2>1, <2>2, <1>0 DEF W!Left
  <2>6. mem_at' \in 0..mem_n'
    BY <2>1 DEF W!Least
  <2>7. W!BufferTypeOK'
    BY <2>1, <2>3, <2>4, <2>5, <2>6
  <2>8. W!LikeMemory'
    <3> SUFFICES ASSUME ~unplaced, ~nested
                 PROVE  /\ at' = mem_at' /\ start' = mem_start' /\ file_pos' = start' + at'
                        /\ max_bytes' >= 0 => at' <= max_bytes'
      BY <2>1 DEF W!LikeMemory
    <3>1. at = mem_at /\ start = mem_start /\ file_pos = start + at
      BY DEF W!LikeMemory
    <3>2. W!Left = NBytes - (start + at)
      BY <3>1 DEF W!Left
    <3>3. W!Advance(n) = W!Least(n, mem_n - mem_at)
      <4>1. CASE max_bytes = -1
        BY <3>1, <3>2, <4>1, <1>1 DEF W!Advance, W!Clipped, W!Least
      <4>2. CASE max_bytes # -1
        BY <3>1, <3>2, <4>2, <1>1 DEF W!Advance, W!Clipped, W!Least
      <4> QED
        BY <4>1, <4>2
    <3>4. at' = mem_at' /\ start' = mem_start'
      BY <2>1, <3>1, <3>3
    <3>5. file_pos' = start' + at'
      <4>1. W!Advance(n) \in Int /\ at \in Int /\ start \in Int
        BY <1>0, <2>2
      <4> QED
        BY <2>1, <3>1, <4>1
    <3>6. max_bytes' >= 0 => mem_n' = max_bytes'
      BY <2>1
    <3> QED
      BY <2>6, <3>4, <3>5, <3>6
  <2> QED
    BY <2>1, <2>3, <2>5, <2>7, <2>8
<1>2. ASSUME NEW n \in 0..NBytes, W!get_sub_buffer(n)
      PROVE  BufferInv'
  <2>1. /\ mem_at + n <= mem_n /\ at >= 0 /\ at <= NBytes + MaxSeek
        /\ start' = at /\ max_bytes' = n
        /\ at' = 0 /\ file_pos' = 0
        /\ mem_start' = mem_start + mem_at /\ mem_n' = n /\ mem_at' = 0
    BY <1>2 DEF W!get_sub_buffer
  <2>2. /\ unplaced' \in BOOLEAN /\ (unplaced' <=> start' # 0)
        /\ nested' \in BOOLEAN /\ (nested' <=> nested \/ max_bytes # -1 \/ unplaced)
    BY <1>2 DEF W!get_sub_buffer
  <2>3. W!BufferTypeOK'
    BY <2>1, <2>2
  <2>4. at' + W!Left' <= (2 * NBytes) + MaxSeek
    BY <2>1 DEF W!Left
  <2>5. ~nested' => start' = mem_start'
    BY <2>1, <2>2 DEF W!LikeMemory
  <2>6. W!LikeMemory'
    BY <2>1, <2>2, <2>5 DEF W!LikeMemory
  <2> QED
    BY <2>1, <2>3, <2>4, <2>5, <2>6
<1>3. ASSUME NEW p \in -MaxSeek..(NBytes + MaxSeek), W!seek_abs(p)
      PROVE  BufferInv'
  <2>1. /\ at' = IF max_bytes > 0 THEN W!Clamp(p, max_bytes - 1) ELSE IF p < 0 THEN 0 ELSE p
        /\ W!Seek(start + at')
        /\ mem_at' = W!Clamp(p, mem_n)
        /\ UNCHANGED <<start, max_bytes, mem_n, mem_start, nested>>
    BY <1>3 DEF W!seek_abs
  <2>2. unplaced' \in BOOLEAN /\ (unplaced' <=> W!Beyond(p))
    BY <1>3 DEF W!seek_abs, W!Beyond
  <2>3. at' \in 0..(NBytes + MaxSeek) /\ mem_at' \in 0..mem_n
    BY <2>1 DEF W!Clamp, W!Least
  <2>4. file_pos' = start + at'
    BY <2>1, <2>3 DEF W!Seek
  <2>5. W!BufferTypeOK'
    BY <2>1, <2>2, <2>3, <2>4
  <2>6. W!Left' \in 0..NBytes
    <3>1. start \in Nat /\ at' \in Nat
      BY <2>3
    <3> HIDE DEF BufferInv, W!BufferTypeOK
    <3>2. file_pos' \in Nat
      BY <2>4, <3>1, LeftOfTheFile
    <3> QED
      BY <3>2, LeftOfTheFile DEF W!Left
  <2>7. W!LikeMemory'
    <3> SUFFICES ASSUME ~W!Beyond(p), ~nested
                 PROVE  /\ at' = mem_at' /\ start' = mem_start' /\ file_pos' = start' + at'
                        /\ max_bytes' >= 0 => at' <= max_bytes'
      BY <2>1, <2>2 DEF W!LikeMemory
    <3>1. max_bytes # -1 => mem_n = max_bytes
      OBVIOUS
    <3>2. at' = mem_at'
      BY <2>1, <3>1 DEF W!Beyond, W!Clamp, W!Least
    <3> QED
      BY <2>1, <2>3, <2>4, <3>1, <3>2
  <2> QED
    BY <2>1, <2>3, <2>4, <2>5, <2>6, <2>7
<1>4. ASSUME NEW d \in -MaxSeek..(NBytes + MaxSeek), W!seek_rel(d)
      PROVE  BufferInv'
  <2>1. /\ at + d \in -MaxSeek..(NBytes + MaxSeek)
        /\ at' = at + d
        /\ W!Seek(at')
        /\ mem_at' = W!Clamp(mem_at + d, mem_n)
        /\ UNCHANGED <<start, max_bytes, mem_n, mem_start, nested>>
    BY <1>4 DEF W!seek_rel
  <2>2. /\ unplaced' \in BOOLEAN
        /\ unplaced' <=> unplaced \/ start # 0 \/ mem_at + d \notin 0..mem_n
    BY <1>4 DEF W!seek_rel
  <2>3. mem_at' \in 0..mem_n
    BY <2>1 DEF W!Clamp, W!Least
  <2>4. file_pos' >= 0 /\ file_pos' \in {at', file_pos} /\ (at' >= 0 => file_pos' = at')
    BY <2>1 DEF W!Seek
  <2>5. W!BufferTypeOK'
    BY <2>1, <2>2, <2>3, <2>4
  <2>6. W!Left' \in 0..NBytes
    <3>1. file_pos' \in Nat
      BY <2>1, <2>4
    <3> HIDE DEF BufferInv, W!BufferTypeOK
    <3> QED
      BY <3>1, LeftOfTheFile DEF W!Left
  <2>7. W!LikeMemory'
    <3> SUFFICES ASSUME ~unplaced', ~nested
                 PROVE  /\ at' = mem_at' /\ start' = mem_start' /\ file_pos' = start' + at'
                        /\ max_bytes' >= 0 => at' <= max_bytes'
      BY <2>1 DEF W!LikeMemory
    <3>1. ~unplaced /\ start = 0 /\ mem_at + d \in 0..mem_n
      BY <2>2
    <3>2. at = mem_at
      BY <3>1 DEF W!LikeMemory
    <3>3. mem_at' = mem_at + d
      BY <2>1, <3>1 DEF W!Clamp, W!Least
    <3> QED
      BY <2>1, <2>3, <2>4, <3>1, <3>2, <3>3
  <2> QED
    BY <2>1, <2>4, <2>5, <2>6, <2>7
<1>5. CASE UNCHANGED buffer
  BY <1>5 DEF buffer, W!Left, W!LikeMemory
<1>6. ASSUME W!BufferNext
      PROVE  BufferInv'
  <2>1. PICK n \in 0..NBytes :
          \/ (n > 0 /\ W!read(n)) \/ W!get_sub_buffer(n)
          \/ \E d \in {-MaxSeek, 0, MaxSeek} : W!seek_abs(n + d) \/ W!seek_rel(n + d)
    BY <1>6 DEF W!BufferNext
  <2>2. \A d \in {-MaxSeek, 0, MaxSeek} : n + d \in -MaxSeek..(NBytes + MaxSeek)
    OBVIOUS
  <2> QED
    BY <1>1, <1>2, <1>3, <1>4, <2>1, <2>2
<1> QED
  BY <1>5, <1>6

-----------------------------------------------------------------------------
(* AudioData: the chunks of a file                                          *)

\* A bounded sequence is a sequence that is not too long.
LEMMA BoundedSequence ==
  ASSUME NEW T, NEW n \in Nat, NEW s
  PROVE  s \in W!BoundedSeq(T, n) <=> s \in Seq(T) /\ Len(s) <= n
<1>1. ASSUME s \in W!BoundedSeq(T, n)
      PROVE  s \in Seq(T) /\ Len(s) <= n
  <2>1. PICK m \in 0..n : s \in [1..m -> T]
    BY <1>1 DEF W!BoundedSeq, W!SeqOf
  <2>2. s \in Seq(T)
    BY <2>1, SeqDef
  <2>3. Len(s) = m
    BY <2>1, <2>2, LenProperties
  <2> QED
    BY <2>1, <2>2, <2>3
<1>2. ASSUME s \in Seq(T), Len(s) <= n
      PROVE  s \in W!BoundedSeq(T, n)
  <2>1. Len(s) \in 0..n /\ s \in [1..Len(s) -> T]
    BY <1>2, LenProperties
  <2> QED
    BY <2>1 DEF W!BoundedSeq, W!SeqOf
<1> QED
  BY <1>1, <1>2

\* A pad byte makes a size even.
LEMMA PaddedSize ==
  \A sz \in Nat : /\ W!Padded(sz) \in Nat /\ W!Padded(sz) >= sz
                  /\ sz % 2 = 0 => W!Padded(sz) = sz
<1> TAKE sz \in Nat
<1>1. sz % 2 \in 0..1
  OBVIOUS
<1> QED
  BY <1>1 DEF W!Padded

\* At is defined by its recursion.
LEMMA AtUnfolds ==
  ASSUME chunks \in Seq(W!Chunk)
  PROVE  /\ \A i \in 1..(Len(chunks) + 1) : W!At(i) \in Nat
         /\ W!At(1) = 0
         /\ \A i \in 1..Len(chunks) : W!At(i + 1) = W!At(i) + Header + W!Padded(chunks[i].sz)
<1> DEFINE n == Len(chunks)
           Recursive(f) ==
             f = [k \in 1..(Len(chunks) + 1) |->
                    IF k = 1 THEN 0 ELSE f[k - 1] + Header + W!Padded(chunks[k - 1].sz)]
           step == [p \in (1..n) \X Nat |-> p[2] + Header + W!Padded(chunks[p[1]].sz)]
<1>1. n \in Nat /\ \A i \in 1..n : chunks[i] \in W!Chunk /\ W!Padded(chunks[i].sz) \in Nat
  <2>1. n \in Nat /\ \A i \in 1..n : chunks[i] \in W!Chunk
    OBVIOUS
  <2>2. \A c \in W!Chunk : c.sz \in Nat
    BY WavAssumption DEF W!Chunk
  <2> QED
    BY <2>1, <2>2, PaddedSize
<1>2. \A i \in 1..n, x \in Nat :
        /\ step[<<i, x>>] = x + Header + W!Padded(chunks[i].sz)
        /\ step[<<i, x>>] \in Nat
  BY <1>1, WavAssumption
<1> HIDE DEF step
<1>3. PICK g \in [0..n -> Nat] : g[0] = 0 /\ \A i \in 1..n : g[i] = step[<<i, g[i - 1]>>]
  <2>1. n \in Nat /\ 0 \in Nat /\ StepsIn(step, Nat, n)
    BY <1>1, <1>2 DEF StepsIn
  <2> HIDE DEF n
  <2>2. PICK g \in [0..n -> Nat] : IsRecursion(g, 0, step, n)
    BY <2>1, RecursionExists
  <2> QED
    BY <2>2 DEF IsRecursion
<1>4. \A i \in 1..n : g[i] = g[i - 1] + Header + W!Padded(chunks[i].sz)
  <2>1. \A i \in 1..n : i - 1 \in 0..n /\ g[i - 1] \in Nat
    <3>1. \A i \in 1..n : i - 1 \in 0..n
      BY <1>1
    <3> HIDE DEF n
    <3> QED
      BY <1>3, <3>1
  <2> QED
    BY <1>2, <1>3, <2>1
<1> DEFINE f == [k \in 1..(n + 1) |-> g[k - 1]]
<1>5. Recursive(f)
  <2>1. ASSUME NEW k \in 1..(n + 1)
        PROVE  f[k] = IF k = 1 THEN 0 ELSE f[k - 1] + Header + W!Padded(chunks[k - 1].sz)
    <3>1. f[k] = g[k - 1]
      OBVIOUS
    <3>2. CASE k = 1
      BY <1>3, <3>1, <3>2
    <3>3. CASE k # 1
      <4>1. k - 1 \in 1..n /\ k - 1 \in 1..(n + 1) /\ f[k - 1] = g[(k - 1) - 1]
        BY <1>1, <3>3
      <4> HIDE DEF f
      <4> QED
        BY <1>4, <3>1, <3>3, <4>1
    <3> QED
      BY <3>2, <3>3
  <2> QED
    BY <2>1
<1> DEFINE header_at == CHOOSE h : Recursive(h)
<1>6. Recursive(header_at)
  <2> HIDE DEF f, Recursive
  <2> QED
    BY <1>5
<1>7. \A i : W!At(i) = header_at[i]
  BY DEF W!At
<1> HIDE DEF header_at
<1>8. ASSUME NEW k \in 1..(n + 1)
      PROVE  W!At(k) = IF k = 1 THEN 0 ELSE W!At(k - 1) + Header + W!Padded(chunks[k - 1].sz)
  BY <1>6, <1>7
<1> HIDE DEF f, Recursive
<1>9. W!At(1) = 0
  BY <1>1, <1>8
<1>10. ASSUME NEW i \in 1..n
       PROVE  W!At(i + 1) = W!At(i) + Header + W!Padded(chunks[i].sz)
  <2>1. i + 1 \in 1..(n + 1) /\ i + 1 # 1 /\ (i + 1) - 1 = i
    BY <1>1
  <2> QED
    BY <1>8, <2>1
<1>11. \A i \in 1..(n + 1) : W!At(i) \in Nat
  <2> DEFINE T == {i \in 0..n : W!At(i + 1) \in Nat}
  <2>1. 0 \in T
    BY <1>1, <1>9
  <2>2. ASSUME NEW i \in 1..n, i - 1 \in T
        PROVE  i \in T
    <3>1. (i - 1) + 1 = i /\ W!At(i) \in Nat
      BY <2>2
    <3> QED
      BY <1>1, <1>10, <3>1, WavAssumption
  <2> HIDE DEF T
  <2>3. \A i \in 0..n : i \in T
    BY <1>1, <2>1, <2>2, UpTo
  <2> TAKE i \in 1..(n + 1)
  <2>4. i - 1 \in 0..n /\ (i - 1) + 1 = i
    BY <1>1
  <2>5. i - 1 \in T
    BY <2>3, <2>4
  <2> QED
    BY <2>4, <2>5 DEF T
<1> QED
  BY <1>9, <1>10, <1>11

\* Each header is behind the data of the one before.
LEMMA AtIncreases ==
  ASSUME chunks \in Seq(W!Chunk)
  PROVE  /\ W!NFile \in Nat
         /\ \A i, j \in 1..(Len(chunks) + 1) : i < j => W!At(i) + Header <= W!At(j)
         /\ \A i \in 1..Len(chunks) : W!At(i) + Header + chunks[i].sz <= W!NFile
<1> DEFINE n == Len(chunks)
<1>1. n \in Nat /\ \A i \in 1..n : /\ chunks[i].sz \in Nat /\ W!Padded(chunks[i].sz) \in Nat
                                   /\ W!Padded(chunks[i].sz) >= chunks[i].sz
  <2>1. n \in Nat /\ \A i \in 1..n : chunks[i] \in W!Chunk
    OBVIOUS
  <2>2. \A c \in W!Chunk : c.sz \in Nat
    BY WavAssumption DEF W!Chunk
  <2> QED
    BY <2>1, <2>2, PaddedSize
<1>2. /\ \A i \in 1..(n + 1) : W!At(i) \in Nat
      /\ \A i \in 1..n : W!At(i + 1) = W!At(i) + Header + W!Padded(chunks[i].sz)
  BY AtUnfolds
<1> HIDE DEF n
<1>3. ASSUME NEW i \in 1..(n + 1)
      PROVE  \A j \in 1..(n + 1) : i < j => W!At(i) + Header <= W!At(j)
  <2> DEFINE T == {j \in 0..(n + 1) : i < j => W!At(i) + Header <= W!At(j)}
  <2>1. 0 \in T
    BY <1>1
  <2>2. ASSUME NEW j \in 1..(n + 1), j - 1 \in T
        PROVE  j \in T
    <3>1. SUFFICES ASSUME i < j PROVE W!At(i) + Header <= W!At(j)
      OBVIOUS
    <3>2. j - 1 \in 1..n /\ (j - 1) + 1 = j
      BY <1>1, <3>1
    <3>3. W!At(j) = W!At(j - 1) + Header + W!Padded(chunks[j - 1].sz)
      BY <1>2, <3>2
    <3>4. W!Padded(chunks[j - 1].sz) \in Nat /\ W!At(j - 1) \in Nat /\ W!At(i) \in Nat
      BY <1>1, <1>2, <3>2
    <3>5. CASE i = j - 1
      BY <3>3, <3>4, <3>5, WavAssumption
    <3>6. CASE i # j - 1
      <4>1. i < j - 1
        BY <1>1, <3>1, <3>2, <3>6
      <4>2. W!At(i) + Header <= W!At(j - 1)
        BY <2>2, <4>1
      <4> QED
        BY <3>3, <3>4, <4>2, WavAssumption
    <3> QED
      BY <3>5, <3>6
  <2>3. n + 1 \in Nat
    BY <1>1
  <2> HIDE DEF T
  <2>4. \A j \in 0..(n + 1) : j \in T
    BY <2>1, <2>2, <2>3, UpTo
  <2> QED
    BY <1>1, <2>4 DEF T
<1>4. W!NFile = W!At(n + 1) /\ n + 1 \in 1..(n + 1)
  BY <1>1 DEF W!NFile, n
<1>5. ASSUME NEW i \in 1..n
      PROVE  W!At(i) + Header + chunks[i].sz <= W!NFile
  <2>1. i + 1 \in 1..(n + 1) /\ i \in 1..(n + 1)
    BY <1>1
  <2>2. W!At(i + 1) <= W!NFile
    <3>1. CASE i = n
      BY <1>2, <1>4, <2>1, <3>1
    <3>2. CASE i # n
      <4>1. i + 1 < n + 1
        BY <1>1, <3>2
      <4>2. W!At(i + 1) + Header <= W!At(n + 1)
        BY <1>3, <1>4, <2>1, <4>1
      <4> QED
        BY <1>2, <1>4, <2>1, <4>2, WavAssumption
    <3> QED
      BY <3>1, <3>2
  <2>3. W!At(i + 1) = W!At(i) + Header + W!Padded(chunks[i].sz)
    BY <1>2
  <2>4. W!At(i) \in Nat /\ W!At(i + 1) \in Nat /\ W!NFile \in Nat
    BY <1>2, <1>4, <2>1
  <2> QED
    BY <1>1, <2>2, <2>3, <2>4, WavAssumption
<1> QED
  BY <1>2, <1>3, <1>4, <1>5 DEF n

\* What has been seen of the first i - 1 chunks: no audio data, and the format if
\* it was among them.
Walked(i) ==
  /\ \A j \in 1..(i - 1) : chunks[j].id # "data"
  /\ (\E j \in 1..(i - 1) : chunks[j].id = "fmt") => has_fmt

\* At the header of the i-th chunk, and behind it.
AtHeaderOf(i) == wav_at = W!At(i) /\ Walked(i) /\ (i # 1 => chunk_header.id # "data")
BehindHeaderOf(i) == wav_at = W!At(i) + Header /\ chunk_header = chunks[i] /\ Walked(i)

\* Where the walk is, in a file of chunks of even sizes: at a header or at the end;
\* behind a header, or at the end with one that is not of audio data.
OnTheWay ==
  /\ wav = "read" => \E i \in 1..(Len(chunks) + 1) : AtHeaderOf(i)
  /\ wav = "switch" => \/ \E i \in 1..Len(chunks) : BehindHeaderOf(i)
                       \/ AtHeaderOf(Len(chunks) + 1)

\* The walk is on its way, and what it finds is the audio data.
WavInv ==
  /\ W!WavTypeOK
  /\ \A i \in DOMAIN chunks : chunks[i].id = "fmt" => chunks[i].sz >= Fmt
  /\ chunks # <<>> /\ W!Even => OnTheWay
  /\ W!FindsAudio

\* The file does not change.
LEMMA SameFile ==
  ASSUME UNCHANGED chunks
  PROVE  /\ \A i : W!At(i)' = W!At(i)
         /\ W!NFile' = W!NFile
         /\ W!Data' = W!Data /\ (W!Even' <=> W!Even)
<1>1. \A i : W!At(i)' = W!At(i)
  BY DEF W!At
<1>2. W!NFile' = W!NFile
  BY DEF W!NFile, W!At
<1>3. W!Data' = W!Data
  BY DEF W!Data
<1> QED
  BY <1>1, <1>2, <1>3 DEF W!Even

\* The first of the data chunks is the one that has none before it.
LEMMA FirstData ==
  ASSUME chunks \in Seq(W!Chunk), NEW i \in 1..Len(chunks), Walked(i), chunks[i].id = "data"
  PROVE  W!Data # {} /\ W!Min(W!Data) = i
<1>1. Len(chunks) \in Nat /\ DOMAIN chunks = 1..Len(chunks)
  OBVIOUS
<1>2. i \in W!Data /\ \A j \in W!Data : j \in 1..Len(chunks) /\ i <= j
  BY <1>1 DEF W!Data, Walked
<1>3. \A j \in W!Data : (\A k \in W!Data : j <= k) => j = i
  BY <1>1, <1>2
<1> HIDE DEF W!Data
<1> QED
  BY <1>2, <1>3 DEF W!Min

\* The walk starts at the first header.
LEMMA WavInit ==
  W!WavInit => WavInv
<1> SUFFICES ASSUME W!WavInit
             PROVE  WavInv
  OBVIOUS
<1>1. /\ chunks \in W!BoundedSeq(W!Chunk, MaxChunks)
      /\ \A i \in DOMAIN chunks : chunks[i].id = "fmt" => chunks[i].sz >= Fmt
      /\ wav_at = 0 /\ chunk_header \in W!Chunk /\ wav = "read" /\ audio_data = -1
  BY DEF W!WavInit
<1>2. has_fmt \in BOOLEAN
  BY DEF W!WavInit
<1>3. chunks \in Seq(W!Chunk) /\ Len(chunks) \in Nat
  BY <1>1, BoundedSequence, WavAssumption
<1>4. W!NFile \in Nat /\ W!At(1) = 0 /\ 1 \in 1..(Len(chunks) + 1)
  BY <1>3, AtUnfolds, AtIncreases
<1>5. W!WavTypeOK
  BY <1>1, <1>2, <1>4 DEF W!WavTypeOK
<1>6. OnTheWay
  <2>1. AtHeaderOf(1)
    BY <1>1, <1>4 DEF AtHeaderOf, Walked
  <2> QED
    BY <1>1, <1>4, <2>1 DEF OnTheWay
<1>7. wav_at = W!NFile /\ chunks # <<>> => FALSE
  <2> SUFFICES ASSUME chunks # <<>> PROVE W!NFile # 0
    BY <1>1
  <2>1. Len(chunks) >= 1
    BY <1>3
  <2>2. W!At(1) + Header <= W!At(Len(chunks) + 1)
    <3>1. 1 < Len(chunks) + 1 /\ Len(chunks) + 1 \in 1..(Len(chunks) + 1)
      BY <1>3, <2>1
    <3> QED
      BY <1>3, <1>4, <3>1, AtIncreases
  <2> QED
    BY <1>4, <2>2, WavAssumption DEF W!NFile
<1> QED
  BY <1>1, <1>5, <1>6, <1>7 DEF WavInv, W!FindsAudio

\* One step of the walk keeps to the way.
LEMMA WalkStep ==
  ASSUME WavInv, W!WavNext, chunks # <<>>, W!Even
  PROVE  OnTheWay' /\ W!FindsAudio'
<1> DEFINE n == Len(chunks)
<1>0. chunks \in Seq(W!Chunk) /\ n \in Nat /\ DOMAIN chunks = 1..n
  BY BoundedSequence, WavAssumption DEF WavInv, W!WavTypeOK
<1>1. /\ \A i \in 1..(n + 1) : W!At(i) \in Nat
      /\ \A i \in 1..n : W!At(i + 1) = W!At(i) + Header + W!Padded(chunks[i].sz)
  BY <1>0, AtUnfolds
<1>2. /\ W!NFile \in Nat
      /\ \A i, j \in 1..(n + 1) : i < j => W!At(i) + Header <= W!At(j)
      /\ \A i \in 1..n : W!At(i) + Header + chunks[i].sz <= W!NFile
  BY <1>0, AtIncreases
<1>3. \A i \in 1..n : chunks[i] \in W!Chunk /\ chunks[i].sz \in Nat /\ chunks[i].id \in W!Id
  <2>1. \A c \in W!Chunk : c.sz \in Nat /\ c.id \in W!Id
    BY WavAssumption DEF W!Chunk
  <2> QED
    BY <1>0, <2>1
<1>4. UNCHANGED chunks
  BY DEF W!WavNext, W!ReadHeader, W!ReadNothing, W!ReadFormat, W!FoundData, W!SkipUnknown
<1>5. /\ \A i : W!At(i)' = W!At(i)
      /\ W!NFile' = W!NFile
      /\ W!Data' = W!Data /\ (W!Even' <=> W!Even)
  BY <1>4, SameFile
<1>6. \A i, j \in 1..(n + 1) : W!At(i) = W!At(j) => i = j
  <2> SUFFICES ASSUME NEW i \in 1..(n + 1), NEW j \in 1..(n + 1), W!At(i) = W!At(j), i < j
               PROVE  FALSE
    BY <1>0
  <2>1. W!At(i) + Header <= W!At(j)
    BY <1>2
  <2> QED
    BY <1>1, <2>1, WavAssumption
<1>7. OnTheWay
  BY DEF WavInv
<1>8. W!NFile = W!At(n + 1) /\ n + 1 \in 1..(n + 1)
  BY <1>0 DEF W!NFile
\* The skip from behind a header that is not of audio data to the next.
<1>9. ASSUME NEW i \in 1..n, Walked(i), chunks[i].id # "data"
      PROVE  /\ W!At(i) + Header + chunks[i].sz = W!At(i + 1)
             /\ i + 1 \in 1..(n + 1) /\ i + 1 # 1
  <2>1. \A d \in W!Data : i < d
    BY <1>0, <1>9 DEF W!Data, Walked
  <2>2. chunks[i].sz % 2 = 0
    BY <1>0, <2>1 DEF W!Even
  <2>3. W!Padded(chunks[i].sz) = chunks[i].sz
    BY <1>3, <2>2, PaddedSize
  <2> QED
    BY <1>0, <1>1, <2>3
<1> HIDE DEF n
<1>10. CASE W!ReadHeader
  <2>1. wav = "read" /\ wav_at < W!NFile /\ wav_at' = W!After(Header) /\ wav' = "switch"
        /\ UNCHANGED <<has_fmt, audio_data>>
    BY <1>10 DEF W!ReadHeader
  <2>2. PICK i \in 1..(n + 1) : AtHeaderOf(i)
    BY <1>7, <2>1 DEF OnTheWay, n
  <2>3. i \in 1..n
    BY <1>0, <1>2, <1>8, <2>1, <2>2 DEF AtHeaderOf
  <2>4. W!At(i) = wav_at /\ \A j \in DOMAIN chunks : W!At(j) = wav_at => j = i
    BY <1>0, <1>6, <2>2, <2>3 DEF AtHeaderOf
  <2>5. (CHOOSE j \in DOMAIN chunks : W!At(j) = wav_at) = i
    BY <1>0, <2>3, <2>4
  <2>6. chunk_header' = chunks[i]
    <3>1. \E j \in DOMAIN chunks : W!At(j) = wav_at
      BY <1>0, <2>3, <2>4
    <3> QED
      BY <1>10, <2>5, <3>1 DEF W!ReadHeader
  <2>7. wav_at' = W!At(i) + Header
    <3>1. W!At(i) + Header <= W!NFile /\ W!At(i) \in Nat
      BY <1>0, <1>1, <1>2, <1>8, <2>3
    <3> QED
      BY <1>2, <2>1, <2>4, <3>1, WavAssumption DEF W!After
  <2>8. BehindHeaderOf(i)'
    BY <1>4, <1>5, <2>1, <2>2, <2>6, <2>7 DEF BehindHeaderOf, AtHeaderOf, Walked
  <2> QED
    BY <1>4, <2>1, <2>3, <2>8 DEF OnTheWay, W!FindsAudio, n
<1>11. CASE W!ReadNothing
  <2>1. /\ wav = "read" /\ wav_at = W!NFile /\ wav' = "switch"
        /\ UNCHANGED <<wav_at, chunk_header, has_fmt, audio_data>>
    BY <1>11 DEF W!ReadNothing
  <2>2. PICK i \in 1..(n + 1) : AtHeaderOf(i)
    BY <1>7, <2>1 DEF OnTheWay, n
  <2>3. i = n + 1
    BY <1>6, <1>8, <2>1, <2>2 DEF AtHeaderOf
  <2>4. AtHeaderOf(n + 1)'
    BY <1>4, <1>5, <2>1, <2>2, <2>3 DEF AtHeaderOf, Walked, n
  <2> QED
    BY <1>4, <2>1, <2>4 DEF OnTheWay, W!FindsAudio, n
\* At the end there is no audio data, and everything has been seen.
<1>12. ASSUME AtHeaderOf(n + 1)
       PROVE  /\ wav_at = W!NFile /\ W!Data = {} /\ chunk_header.id # "data"
              /\ ~(\E j \in 1..n : chunks[j].id = "fmt") \/ has_fmt
  <2>1. n + 1 # 1 /\ (n + 1) - 1 = n
    BY <1>0 DEF n
  <2> QED
    BY <1>0, <1>8, <1>12, <2>1 DEF AtHeaderOf, Walked, W!Data
\* A walk that goes on from the switch reaches the next header.
<1>13. ASSUME NEW k \in Nat, wav = "switch", wav' = "read", UNCHANGED <<chunk_header, audio_data>>,
              chunk_header.id # "data", wav_at' = W!After(k),
              (\E i \in 1..n : BehindHeaderOf(i)) => k = chunk_header.sz,
              has_fmt' \in BOOLEAN,
              has_fmt' = has_fmt \/ (has_fmt' /\ has_fmt = FALSE),
              chunk_header.id = "fmt" /\ wav_at + Fmt <= W!NFile => has_fmt'
       PROVE  OnTheWay' /\ W!FindsAudio'
  <2>1. CASE \E i \in 1..n : BehindHeaderOf(i)
    <3>1. PICK i \in 1..n : BehindHeaderOf(i)
      BY <2>1
    <3>2. wav_at = W!At(i) + Header /\ chunk_header = chunks[i] /\ Walked(i) /\ k = chunks[i].sz
      BY <1>13, <3>1 DEF BehindHeaderOf
    <3>3. W!At(i) + Header + chunks[i].sz = W!At(i + 1) /\ i + 1 \in 1..(n + 1) /\ i + 1 # 1
      BY <1>9, <1>13, <3>2
    <3>4. wav_at' = W!At(i + 1)
      <4>1. W!At(i + 1) <= W!NFile
        BY <1>2, <3>3
      <4>2. wav_at + k = W!At(i + 1)
        BY <3>2, <3>3
      <4> QED
        BY <1>1, <1>2, <1>13, <3>3, <4>1, <4>2 DEF W!After
    <3>5. chunk_header.id = "fmt" => has_fmt'
      <4>1. chunks[i].id = "fmt" => chunks[i].sz >= Fmt
        BY <1>0 DEF WavInv
      <4>2. W!At(i) + Header + chunks[i].sz <= W!NFile /\ W!At(i) \in Nat
        BY <1>0, <1>1, <1>2
      <4> QED
        BY <1>2, <1>3, <1>13, <3>2, <4>1, <4>2, WavAssumption
    <3>6. Walked(i + 1)'
      <4>1. \A j \in 1..((i + 1) - 1) : j \in 1..(i - 1) \/ j = i
        BY <1>0
      <4> QED
        BY <1>4, <1>13, <3>2, <3>5, <4>1 DEF Walked
    <3>7. AtHeaderOf(i + 1)'
      BY <1>5, <1>13, <3>4, <3>6 DEF AtHeaderOf
    <3>8. ASSUME wav_at' = W!NFile'
          PROVE  W!Data' = {}
      <4>1. i + 1 = n + 1
        BY <1>5, <1>6, <1>8, <3>3, <3>4, <3>8
      <4>2. \A j \in 1..((i + 1) - 1) : chunks[j].id # "data"
        BY <1>4, <3>6 DEF Walked
      <4>3. (i + 1) - 1 = n
        BY <1>0, <4>1
      <4> QED
        BY <1>0, <1>5, <4>2, <4>3 DEF W!Data
    <3> QED
      BY <1>4, <1>13, <3>3, <3>7, <3>8 DEF OnTheWay, W!FindsAudio, n
  <2>2. CASE AtHeaderOf(n + 1)
    <3>1. wav_at' = W!NFile
      BY <1>2, <1>12, <1>13, <2>2 DEF W!After
    <3>2. AtHeaderOf(n + 1)'
      BY <1>4, <1>5, <1>8, <1>13, <2>2, <3>1 DEF AtHeaderOf, Walked, n
    <3>3. W!Data' = {}
      BY <1>5, <1>12, <2>2
    <3> QED
      BY <1>4, <1>8, <1>13, <3>2, <3>3 DEF OnTheWay, W!FindsAudio, n
  <2> QED
    BY <1>7, <1>13, <2>1, <2>2 DEF OnTheWay, n
<1>14. CASE W!ReadFormat
  <2>1. /\ wav = "switch" /\ chunk_header.id = "fmt"
        /\ wav_at' = W!After(IF chunk_header.sz > Fmt THEN chunk_header.sz ELSE Fmt)
        /\ wav' = "read" /\ UNCHANGED <<chunk_header, audio_data>>
    BY <1>14 DEF W!ReadFormat
  <2>2. has_fmt' \in BOOLEAN /\ (has_fmt' <=> has_fmt \/ wav_at + Fmt <= W!NFile)
    BY <1>14 DEF W!ReadFormat
  <2>3. chunk_header.sz \in Nat
    <3>1. chunk_header \in W!Chunk
      BY DEF WavInv, W!WavTypeOK
    <3>2. \A c \in W!Chunk : c.sz \in Nat
      BY WavAssumption DEF W!Chunk
    <3> QED
      BY <3>1, <3>2
  <2>4. ASSUME NEW i \in 1..n, BehindHeaderOf(i)
        PROVE  chunk_header.sz >= Fmt
    <3>1. chunk_header = chunks[i] /\ chunks[i].id = "fmt" => chunks[i].sz >= Fmt
      BY <1>0, <2>4 DEF WavInv, BehindHeaderOf
    <3> QED
      BY <2>1, <2>4, <3>1 DEF BehindHeaderOf
  <2> DEFINE k == IF chunk_header.sz > Fmt THEN chunk_header.sz ELSE Fmt
  <2>5. k \in Nat /\ ((\E i \in 1..n : BehindHeaderOf(i)) => k = chunk_header.sz)
    BY <2>3, <2>4, WavAssumption
  <2>6. has_fmt \in BOOLEAN
    BY DEF WavInv, W!WavTypeOK
  <2>7. wav_at' = W!After(k)
    BY <2>1
  <2> HIDE DEF k
  <2> QED
    BY <1>13, <2>1, <2>2, <2>5, <2>6, <2>7
<1>15. CASE W!SkipUnknown
  <2>1. /\ wav = "switch" /\ chunk_header.id = "other"
        /\ wav_at' = W!After(chunk_header.sz)
        /\ wav' = "read" /\ UNCHANGED <<chunk_header, has_fmt, audio_data>>
    BY <1>15 DEF W!SkipUnknown
  <2>2. chunk_header.sz \in Nat
    <3>1. chunk_header \in W!Chunk
      BY DEF WavInv, W!WavTypeOK
    <3>2. \A c \in W!Chunk : c.sz \in Nat
      BY WavAssumption DEF W!Chunk
    <3> QED
      BY <3>1, <3>2
  <2>3. has_fmt \in BOOLEAN
    BY DEF WavInv, W!WavTypeOK
  <2> QED
    BY <1>13, <2>1, <2>2, <2>3
<1>16. CASE W!FoundData
  <2>1. /\ wav = "switch" /\ chunk_header.id = "data"
        /\ audio_data' = IF wav_at + chunk_header.sz <= W!NFile THEN wav_at ELSE -1
        /\ wav' = "opened" /\ UNCHANGED <<wav_at, chunk_header, has_fmt>>
    BY <1>16 DEF W!FoundData
  <2>2. PICK i \in 1..n : BehindHeaderOf(i)
    BY <1>7, <1>12, <2>1 DEF OnTheWay, n
  <2>3. wav_at = W!At(i) + Header /\ chunk_header = chunks[i] /\ Walked(i)
    BY <2>2 DEF BehindHeaderOf
  <2>4. W!Data # {} /\ W!Min(W!Data) = i
    BY <1>0, <2>1, <2>3, FirstData DEF n
  <2>5. audio_data' = W!At(i) + Header
    <3>1. W!At(i) + Header + chunks[i].sz <= W!NFile
      BY <1>2
    <3> QED
      BY <2>1, <2>3, <3>1
  <2>6. W!Min(W!Data)' = i
    BY <1>5, <2>4 DEF W!Min
  <2>7. (\E j \in DOMAIN chunks : chunks[j].id = "fmt" /\ j < i) => has_fmt
    <3>1. \A j \in DOMAIN chunks : j < i => j \in 1..(i - 1)
      BY <1>0
    <3> QED
      BY <2>3, <3>1 DEF Walked
  <2> QED
    BY <1>4, <1>5, <2>1, <2>4, <2>5, <2>6, <2>7 DEF OnTheWay, W!FindsAudio
<1> QED
  BY <1>10, <1>11, <1>14, <1>15, <1>16 DEF W!WavNext

\* Every step of the walk keeps it.
LEMMA WavStep ==
  WavInv /\ [W!WavNext]_wav_file => WavInv'
<1> SUFFICES ASSUME WavInv, [W!WavNext]_wav_file
             PROVE  WavInv'
  OBVIOUS
<1>1. UNCHANGED chunks
  BY DEF W!WavNext, W!ReadHeader, W!ReadNothing, W!ReadFormat, W!FoundData, W!SkipUnknown, wav_file
<1>2. /\ \A i : W!At(i)' = W!At(i)
      /\ W!NFile' = W!NFile
      /\ W!Data' = W!Data /\ (W!Even' <=> W!Even)
  BY <1>1, SameFile
<1>3. chunks \in Seq(W!Chunk)
  BY BoundedSequence, WavAssumption DEF WavInv, W!WavTypeOK
<1>4. W!NFile \in Nat
  BY <1>3, AtIncreases
<1>5. ASSUME NEW k \in Nat
      PROVE  W!After(k) \in 0..W!NFile
  BY <1>4 DEF WavInv, W!WavTypeOK, W!After
<1>6. CASE UNCHANGED wav_file
  <2>1. W!Min(W!Data)' = W!Min(W!Data)
    BY <1>2 DEF W!Min
  <2> QED
    BY <1>2, <1>6, <2>1
    DEF wav_file, WavInv, W!WavTypeOK, OnTheWay, AtHeaderOf, BehindHeaderOf, Walked, W!FindsAudio
<1>7. CASE W!WavNext
  <2>1. chunk_header.sz \in Nat
    <3>1. chunk_header \in W!Chunk
      BY DEF WavInv, W!WavTypeOK
    <3>2. \A c \in W!Chunk : c.sz \in Nat
      BY WavAssumption DEF W!Chunk
    <3> QED
      BY <3>1, <3>2
  <2>2. wav_at' \in 0..W!NFile /\ audio_data' \in -1..W!NFile
        /\ wav' \in {"read", "switch", "opened"}
    <3>1. CASE W!ReadHeader
      BY <1>5, <3>1, WavAssumption DEF W!ReadHeader, WavInv, W!WavTypeOK
    <3>2. CASE W!ReadNothing
      BY <3>2 DEF W!ReadNothing, WavInv, W!WavTypeOK
    <3>3. CASE W!ReadFormat
      <4>1. (IF chunk_header.sz > Fmt THEN chunk_header.sz ELSE Fmt) \in Nat
        BY <2>1, WavAssumption
      <4> QED
        BY <1>5, <3>3, <4>1 DEF W!ReadFormat, WavInv, W!WavTypeOK
    <3>4. CASE W!FoundData
      BY <1>4, <3>4 DEF W!FoundData, WavInv, W!WavTypeOK
    <3>5. CASE W!SkipUnknown
      BY <1>5, <2>1, <3>5 DEF W!SkipUnknown, WavInv, W!WavTypeOK
    <3> QED
      BY <1>7, <3>1, <3>2, <3>3, <3>4, <3>5 DEF W!WavNext
  <2>3. chunk_header' \in W!Chunk
    <3>1. \A i \in DOMAIN chunks : chunks[i] \in W!Chunk
      BY <1>3
    <3>2. CASE W!ReadHeader
      BY <3>1, <3>2 DEF W!ReadHeader
    <3>3. CASE ~W!ReadHeader
      BY <1>7, <3>3 DEF W!WavNext, W!ReadNothing, W!ReadFormat, W!FoundData, W!SkipUnknown, WavInv, W!WavTypeOK
    <3> QED
      BY <3>2, <3>3
  <2>4. has_fmt' \in BOOLEAN
    BY <1>7 DEF W!WavNext, W!ReadHeader, W!ReadNothing, W!ReadFormat, W!FoundData, W!SkipUnknown, WavInv, W!WavTypeOK
  <2>5. W!WavTypeOK'
    BY <1>1, <1>2, <2>2, <2>3, <2>4 DEF WavInv, W!WavTypeOK
  <2>6. chunks # <<>> /\ W!Even => OnTheWay' /\ W!FindsAudio'
    BY <1>7, WalkStep
  <2>7. ~(chunks # <<>> /\ W!Even) => W!FindsAudio'
    BY <1>1, <1>2 DEF W!FindsAudio
  <2> QED
    BY <1>1, <1>2, <2>5, <2>6, <2>7 DEF WavInv
<1> QED
  BY <1>6, <1>7

-----------------------------------------------------------------------------
(* AudioData: the frames of a sound                                         *)

\* The quotient is the only one.
LEMMA DivUnique ==
  ASSUME NEW N \in Nat \ {0}, NEW q \in Int, NEW r \in 0..(N - 1)
  PROVE  ((N * q) + r) \div N = q
<1>1. (N * q) + r \in Int
  OBVIOUS
<1>2. PICK p \in Int, s \in 0..(N - 1) : (N * q) + r = (N * p) + s /\ ((N * q) + r) \div N = p
  BY <1>1, DivExists
<1>3. N * (q - p) = s - r
  BY <1>2
<1>4. q - p < 1
  <2> SUFFICES ASSUME q - p >= 1 PROVE FALSE
    OBVIOUS
  <2>1. N * (q - p) >= N * 1
    OBVIOUS
  <2> QED
    BY <1>3, <2>1
<1>5. q - p > -1
  <2> SUFFICES ASSUME q - p <= -1 PROVE FALSE
    OBVIOUS
  <2>1. N * (q - p) <= N * (-1)
    OBVIOUS
  <2> QED
    BY <1>3, <2>1
<1> QED
  BY <1>2, <1>4, <1>5

\* Dividing twice is dividing by the product.
LEMMA DivTwice ==
  ASSUME NEW x \in Nat, NEW a \in Nat \ {0}, NEW b \in Nat \ {0}
  PROVE  (x \div a) \div b = x \div (a * b)
OBVIOUS

\* Products of positive numbers are positive.
LEMMA PositiveProduct ==
  \A a, b \in Nat \ {0} : a * b \in Nat \ {0}
OBVIOUS

\* The states of next() in the middle of a frame, and how many bytes are left.
Reading ==
  {s \in [at : 0..n_bytes, n : 0..a_block, pos : 0..a_block, ok : BOOLEAN, bytes : Seq(Nat)] :
     s.n <= s.at}
Remaining(s) == (n_bytes - s.at) + (IF s.pos >= s.n THEN 0 ELSE s.n - s.pos)

\* TakeByte and Refill, field by field.
LEMMA TakeByteFields ==
  ASSUME NEW a, NEW n, NEW p, NEW k, NEW b
  PROVE  W!TakeByte([at |-> a, n |-> n, pos |-> p, ok |-> k, bytes |-> b]) =
           [at |-> a, n |-> n, pos |-> p + 1, ok |-> k, bytes |-> Append(b, a - n + p)]
<1> DEFINE s == [at |-> a, n |-> n, pos |-> p, ok |-> k, bytes |-> b]
           v == p + 1
           w == Append(b, a - n + p)
<1>1. W!TakeByte(s) = [[s EXCEPT !.pos = v] EXCEPT !.bytes = w]
  BY DEF W!TakeByte
<1> HIDE DEF v, w
<1>2. [s EXCEPT !.pos = v] = [at |-> a, n |-> n, pos |-> v, ok |-> k, bytes |-> b]
  OBVIOUS
<1>3. [[at |-> a, n |-> n, pos |-> v, ok |-> k, bytes |-> b] EXCEPT !.bytes = w] =
        [at |-> a, n |-> n, pos |-> v, ok |-> k, bytes |-> w]
  OBVIOUS
<1> QED
  BY <1>1, <1>2, <1>3 DEF v, w

\* Likewise.
LEMMA RefillFields ==
  ASSUME NEW a, NEW m, NEW p, NEW k, NEW b,
         NEW n, n = IF n_bytes - a < a_block THEN n_bytes - a ELSE a_block
  PROVE  W!Refill([at |-> a, n |-> m, pos |-> p, ok |-> k, bytes |-> b]) =
           [at |-> a + n, n |-> n, pos |-> IF n = 0 THEN p ELSE 0, ok |-> n > 0, bytes |-> b]
<1> DEFINE s == [at |-> a, n |-> m, pos |-> p, ok |-> k, bytes |-> b]
           v == a + n
           w == IF n = 0 THEN p ELSE 0
           o == n > 0
           s1 == [at |-> v, n |-> m, pos |-> p, ok |-> k, bytes |-> b]
           s2 == [at |-> v, n |-> n, pos |-> p, ok |-> k, bytes |-> b]
           s3 == [at |-> v, n |-> n, pos |-> w, ok |-> k, bytes |-> b]
<1>1. W!Refill(s) = [[[[s EXCEPT !.at = v] EXCEPT !.n = n] EXCEPT !.pos = w] EXCEPT !.ok = o]
  BY DEF W!Refill
<1> HIDE DEF v, w, o
<1>2. [s EXCEPT !.at = v] = s1
  OBVIOUS
<1>3. [s1 EXCEPT !.n = n] = s2
  OBVIOUS
<1>4. [s2 EXCEPT !.pos = w] = s3
  OBVIOUS
<1>5. [s3 EXCEPT !.ok = o] = [at |-> v, n |-> n, pos |-> w, ok |-> o, bytes |-> b]
  OBVIOUS
<1> HIDE DEF s, s1, s2, s3
<1>6. W!Refill(s) = [at |-> v, n |-> n, pos |-> w, ok |-> o, bytes |-> b]
  BY <1>1, <1>2, <1>3, <1>4, <1>5
<1> QED
  BY <1>6 DEF s, v, w, o

\* A byte is the next in the file, whether the block has it or must be read.
LEMMA NextByteIsNext ==
  ASSUME n_bytes \in Nat, NEW s \in Reading
  PROVE  /\ W!NextByte(s) \in Reading
         /\ Remaining(s) \in 0..n_bytes
         /\ ~s.ok => W!NextByte(s) = s
         /\ s.ok /\ Remaining(s) = 0 => ~W!NextByte(s).ok /\ Remaining(W!NextByte(s)) = 0
         /\ s.ok /\ Remaining(s) # 0 =>
              /\ W!NextByte(s).ok
              /\ Remaining(W!NextByte(s)) = Remaining(s) - 1
              /\ W!NextByte(s).bytes = Append(s.bytes, n_bytes - Remaining(s))
<1>1. /\ s.at \in 0..n_bytes /\ s.n \in 0..a_block /\ s.pos \in 0..a_block
      /\ s.ok \in BOOLEAN /\ s.bytes \in Seq(Nat) /\ s.n <= s.at
      /\ s = [at |-> s.at, n |-> s.n, pos |-> s.pos, ok |-> s.ok, bytes |-> s.bytes]
  BY DEF Reading
<1>2. Remaining(s) \in 0..n_bytes
  BY <1>1, SoundAssumption DEF Remaining
<1>3. CASE ~s.ok
  <2>1. W!NextByte(s) = s
    BY <1>3 DEF W!NextByte
  <2> QED
    BY <1>2, <1>3, <2>1
\* A byte that is taken from a block that has it.
<1>4. ASSUME NEW f \in Reading, f.ok, f.pos < f.n, f.bytes = s.bytes
      PROVE  /\ W!TakeByte(f) \in Reading /\ W!TakeByte(f).ok
             /\ Remaining(W!TakeByte(f)) = Remaining(f) - 1
             /\ W!TakeByte(f).bytes = Append(s.bytes, n_bytes - Remaining(f))
  <2>1. /\ f.at \in 0..n_bytes /\ f.n \in 0..a_block /\ f.pos \in 0..a_block
        /\ f.bytes \in Seq(Nat) /\ f.n <= f.at
        /\ f = [at |-> f.at, n |-> f.n, pos |-> f.pos, ok |-> f.ok, bytes |-> f.bytes]
    BY DEF Reading
  <2>2. W!TakeByte(f) = [at |-> f.at, n |-> f.n, pos |-> f.pos + 1, ok |-> f.ok,
                         bytes |-> Append(f.bytes, (f.at - f.n) + f.pos)]
    <3> DEFINE a == f.at
               n == f.n
               p == f.pos
               k == f.ok
               b == f.bytes
    <3>1. f = [at |-> a, n |-> n, pos |-> p, ok |-> k, bytes |-> b]
      BY <2>1
    <3> HIDE DEF a, n, p, k, b
    <3>2. W!TakeByte(f) = [at |-> a, n |-> n, pos |-> p + 1, ok |-> k, bytes |-> Append(b, a - n + p)]
      BY <3>1, TakeByteFields
    <3> QED
      BY <3>2 DEF a, n, p, k, b
  <2>3. (f.at - f.n) + f.pos \in Nat /\ f.pos + 1 \in 0..a_block
    BY <1>4, <2>1, SoundAssumption
  <2>4. Append(f.bytes, (f.at - f.n) + f.pos) \in Seq(Nat)
    BY <2>1, <2>3, AppendProperties
  <2>5. W!TakeByte(f) \in Reading
    BY <1>4, <2>1, <2>2, <2>3, <2>4 DEF Reading
  <2>6. Remaining(f) = (n_bytes - f.at) + (f.n - f.pos)
    BY <1>4, <2>1 DEF Remaining
  <2>7. n_bytes - Remaining(f) = (f.at - f.n) + f.pos
    BY <2>1, <2>6, SoundAssumption
  <2>8. Remaining(W!TakeByte(f)) = Remaining(f) - 1
    <3>1. W!TakeByte(f).at = f.at /\ W!TakeByte(f).n = f.n /\ W!TakeByte(f).pos = f.pos + 1
      BY <2>2
    <3>2. Remaining(W!TakeByte(f)) =
            (n_bytes - f.at) + (IF f.pos + 1 >= f.n THEN 0 ELSE f.n - (f.pos + 1))
      BY <3>1 DEF Remaining
    <3>3. \A a, n, p \in Int : p < n =>
            (n_bytes - a) + (IF p + 1 >= n THEN 0 ELSE n - (p + 1)) = ((n_bytes - a) + (n - p)) - 1
      OBVIOUS
    <3>4. f.at \in Int /\ f.n \in Int /\ f.pos \in Int
      BY <2>1, SoundAssumption
    <3> QED
      BY <1>4, <2>6, <3>2, <3>3, <3>4
  <2> QED
    BY <1>4, <2>2, <2>5, <2>7, <2>8
<1>5. CASE s.ok /\ s.pos < s.n
  <2>1. W!NextByte(s) = W!TakeByte(s)
    BY <1>1, <1>5, SoundAssumption DEF W!NextByte
  <2>2. Remaining(s) # 0
    BY <1>1, <1>5, SoundAssumption DEF Remaining
  <2> QED
    BY <1>2, <1>4, <1>5, <2>1, <2>2
<1>6. CASE s.ok /\ s.pos >= s.n
  <2> DEFINE n == IF n_bytes - s.at < a_block THEN n_bytes - s.at ELSE a_block
             f == W!Refill(s)
  <2>1. n \in 0..a_block /\ s.at + n \in 0..n_bytes /\ n <= s.at + n
        /\ (n = 0 <=> s.at = n_bytes)
    BY SMTT(20), <1>1, SoundAssumption
  <2>2. (n > 0) \in BOOLEAN
    OBVIOUS
  <2>3. f = [at |-> s.at + n, n |-> n, pos |-> IF n = 0 THEN s.pos ELSE 0, ok |-> n > 0,
             bytes |-> s.bytes]
    <3> DEFINE a == s.at
               m == s.n
               p == s.pos
               k == s.ok
               b == s.bytes
    <3>1. s = [at |-> a, n |-> m, pos |-> p, ok |-> k, bytes |-> b]
      BY <1>1
    <3>2. n = IF n_bytes - a < a_block THEN n_bytes - a ELSE a_block
      OBVIOUS
    <3> HIDE DEF a, m, p, k, b, n
    <3>3. W!Refill([at |-> a, n |-> m, pos |-> p, ok |-> k, bytes |-> b]) =
            [at |-> a + n, n |-> n, pos |-> IF n = 0 THEN p ELSE 0, ok |-> n > 0, bytes |-> b]
      BY <3>2, RefillFields
    <3> QED
      BY <3>1, <3>3 DEF a, p, b
  <2>4. Remaining(s) = n_bytes - s.at
    BY <1>1, <1>6 DEF Remaining
  <2> HIDE DEF n
  <2>5. f \in Reading
    BY <1>1, <2>1, <2>2, <2>3, SoundAssumption DEF Reading
  <2>6. f.at = s.at + n /\ f.n = n /\ f.pos = (IF n = 0 THEN s.pos ELSE 0) /\ f.bytes = s.bytes
        /\ (f.ok <=> n > 0)
    <3> HIDE DEF f
    <3>1. f.ok = (n > 0)
      BY <2>3
    <3> QED
      BY <2>3, <3>1
  <2>7. W!NextByte(s) = IF f.ok THEN W!TakeByte(f) ELSE f
    BY <1>6 DEF W!NextByte
  <2> HIDE DEF f
  <2>8. CASE n = 0
    <3>1. ~f.ok /\ W!NextByte(s) = f
      BY <2>6, <2>7, <2>8
    <3>2. f.at = n_bytes /\ f.n = 0 /\ f.pos = s.pos
      BY <1>1, <2>1, <2>6, <2>8
    <3>3. Remaining(f) = 0 /\ Remaining(s) = 0
      BY <1>1, <2>1, <2>4, <2>8, <3>2 DEF Remaining
    <3> QED
      BY <1>2, <1>6, <2>5, <3>1, <3>3
  <2>9. CASE n # 0
    <3>1. f.ok /\ f.pos < f.n
      BY <2>1, <2>6, <2>9, SoundAssumption
    <3>2. Remaining(f) = Remaining(s) /\ Remaining(s) # 0
      BY <1>1, <2>1, <2>4, <2>6, <2>9, SoundAssumption DEF Remaining
    <3> QED
      BY <1>2, <1>4, <1>6, <2>5, <2>6, <2>7, <3>1, <3>2
  <2> QED
    BY <2>8, <2>9
<1> QED
  BY <1>1, <1>3, <1>5, <1>6, SoundAssumption

\* What the constructor is told of the sound.
Format ==
  /\ n_bytes \in Nat /\ num_channels \in Nat \ {0} /\ bytes_per_sample \in Nat \ {0}
  /\ n_per_sample \in Nat \ {0} /\ n_to_avg \in Nat \ {0}

\* Where next() begins.
Now == [at |-> buf_at, n |-> n_block, pos |-> block_pos, ok |-> TRUE, bytes |-> <<>>]

\* Numbered is a sequence, and its next byte has the next number.
LEMMA NumberedGrows ==
  ASSUME NEW from \in Nat, NEW k \in Nat
  PROVE  /\ W!Numbered(from, k) \in Seq(Nat) /\ Len(W!Numbered(from, k)) = k
         /\ \A i \in 1..k : W!Numbered(from, k)[i] = from + i - 1
         /\ Append(W!Numbered(from, k), from + k) = W!Numbered(from, k + 1)
<1>1. ASSUME NEW m \in Nat
      PROVE  /\ W!Numbered(from, m) \in Seq(Nat) /\ Len(W!Numbered(from, m)) = m
             /\ \A i \in 1..m : W!Numbered(from, m)[i] = from + i - 1
  <2>1. W!Numbered(from, m) \in [1..m -> Nat]
    BY DEF W!Numbered
  <2>2. W!Numbered(from, m) \in Seq(Nat)
    BY <2>1, SeqDef
  <2> QED
    BY <2>1, <2>2, LenProperties DEF W!Numbered
<1>2. k + 1 \in Nat /\ k + 1 \in 1..(k + 1) /\ \A i \in 1..k : i \in 1..(k + 1)
  OBVIOUS
<1>3. /\ W!Numbered(from, k) \in Seq(Nat) /\ Len(W!Numbered(from, k)) = k
      /\ \A i \in 1..k : W!Numbered(from, k)[i] = from + i - 1
      /\ W!Numbered(from, k + 1) \in Seq(Nat) /\ Len(W!Numbered(from, k + 1)) = k + 1
      /\ \A i \in 1..(k + 1) : W!Numbered(from, k + 1)[i] = from + i - 1
  BY <1>1, <1>2
<1>4. from + (k + 1) - 1 = from + k /\ from + k \in Nat
  OBVIOUS
<1> DEFINE s == W!Numbered(from, k)
           t == W!Numbered(from, k + 1)
           v == from + k
<1>5. /\ s \in Seq(Nat) /\ t \in Seq(Nat) /\ v \in Nat /\ Len(t) = Len(s) + 1
      /\ \A i \in 1..Len(s) : t[i] = s[i]
      /\ t[Len(s) + 1] = v
  BY <1>2, <1>3, <1>4
<1> HIDE DEF s, t, v
<1>6. t = Append(s, v)
  BY <1>5, IsAppend
<1> QED
  BY <1>3, <1>6 DEF s, t, v

\* next() takes a frame's bytes when there are as many, and else what is left.
LEMMA FrameIsTaken ==
  ASSUME Format, Now \in Reading
  PROVE  LET s == W!AfterFrame IN
         /\ s \in Reading
         /\ Remaining(Now) >= W!FrameBytes =>
              /\ s.ok /\ Remaining(s) = Remaining(Now) - W!FrameBytes
              /\ s.bytes = W!Numbered(n_bytes - Remaining(Now), W!FrameBytes)
         /\ Remaining(Now) < W!FrameBytes => ~s.ok /\ Remaining(s) = 0
<1> DEFINE FB == W!FrameBytes
           rest == Remaining(Now)
           Recursive(f) ==
             f = [i \in 0..W!FrameBytes |->
                    IF i = 0
                      THEN [at |-> buf_at, n |-> n_block, pos |-> block_pos, ok |-> TRUE, bytes |-> <<>>]
                      ELSE W!NextByte(f[i - 1])]
           taken == CHOOSE f : Recursive(f)
<1>1. FB \in Nat /\ n_bytes \in Nat
  BY ProductOfNaturals DEF Format, W!FrameBytes
<1>2. rest \in 0..n_bytes
  BY <1>1, NextByteIsNext
<1>3. \A s \in Reading : W!NextByte(s) \in Reading
  BY <1>1, NextByteIsNext
<1>4. taken[0] = Now /\ \A i \in 1..FB : taken[i] = W!NextByte(taken[i - 1])
  <2> DEFINE step == [p \in (1..FB) \X Reading |-> W!NextByte(p[2])]
  <2>1. \A i \in 1..FB, s \in Reading : step[<<i, s>>] = W!NextByte(s)
    OBVIOUS
  <2>2. StepsIn(step, Reading, FB)
    BY <1>3, <2>1 DEF StepsIn
  <2> HIDE DEF step, FB
  <2>3. PICK g \in [0..FB -> Reading] : IsRecursion(g, Now, step, FB)
    BY <1>1, <2>2, RecursionExists
  <2>4. \A i \in 0..FB : g[i] = IF i = 0 THEN Now ELSE W!NextByte(g[i - 1])
    <3> TAKE i \in 0..FB
    <3>1. CASE i = 0
      BY <2>3, <3>1 DEF IsRecursion
    <3>2. CASE i # 0
      <4>1. i \in 1..FB /\ i - 1 \in 0..FB
        BY <1>1, <3>2
      <4>2. g[i - 1] \in Reading
        BY <4>1
      <4>3. g[i] = step[<<i, g[i - 1]>>]
        BY <2>3, <4>1 DEF IsRecursion
      <4> QED
        BY <2>1, <3>2, <4>1, <4>2, <4>3
    <3> QED
      BY <3>1, <3>2
  <2>5. Recursive(g)
    BY <2>4 DEF FB, Now
  <2>6. Recursive(taken)
    <3> HIDE DEF Recursive
    <3> QED
      BY <2>5
  <2>7. \A i \in 0..FB : taken[i] = IF i = 0 THEN Now ELSE W!NextByte(taken[i - 1])
    BY <2>6 DEF FB, Now
  <2> HIDE DEF taken, Recursive
  <2> QED
    BY <1>1, <2>7
<1>5. W!AfterFrame = taken[FB]
  BY DEF W!AfterFrame
<1> HIDE DEF taken, Recursive, FB
<1> DEFINE Good(i) ==
             /\ taken[i] \in Reading
             /\ i <= rest => /\ taken[i].ok /\ Remaining(taken[i]) = rest - i
                          /\ taken[i].bytes = W!Numbered(n_bytes - rest, i)
             /\ i > rest => ~taken[i].ok /\ Remaining(taken[i]) = 0
           T == {i \in 0..FB : Good(i)}
<1>6. Good(0)
  <2>1. Now.ok /\ Now.bytes = <<>>
    BY DEF Now
  <2>2. W!Numbered(n_bytes - rest, 0) = <<>>
    <3>1. n_bytes - rest \in Nat /\ 0 \in Nat
      BY <1>1, <1>2
    <3>2. W!Numbered(n_bytes - rest, 0) \in Seq(Nat) /\ Len(W!Numbered(n_bytes - rest, 0)) = 0
      <4> HIDE DEF rest
      <4> QED
        BY <3>1, NumberedGrows
    <3> QED
      BY <3>2, EmptySeq
  <2> QED
    BY <1>2, <1>4, <2>1, <2>2
<1> HIDE DEF rest
<1>7. ASSUME NEW i \in 1..FB, Good(i - 1)
      PROVE  Good(i)
  <2> DEFINE s == taken[i - 1]
             t == taken[i]
  <2>1. t = W!NextByte(s) /\ s \in Reading
    BY <1>4, <1>7
  <2>2. /\ t \in Reading
        /\ ~s.ok => t = s
        /\ s.ok /\ Remaining(s) = 0 => ~t.ok /\ Remaining(t) = 0
        /\ s.ok /\ Remaining(s) # 0 =>
              /\ t.ok
              /\ Remaining(t) = Remaining(s) - 1
              /\ t.bytes = Append(s.bytes, n_bytes - Remaining(s))
    BY <1>1, <2>1, NextByteIsNext
  <2>3. CASE i <= rest
    <3>1. i - 1 <= rest /\ i - 1 \in Nat /\ rest - (i - 1) # 0
      BY <1>1, <1>2, <2>3
    <3>2. s.ok /\ Remaining(s) = rest - (i - 1) /\ s.bytes = W!Numbered(n_bytes - rest, i - 1)
      BY <1>7, <3>1
    <3>3. t.ok /\ Remaining(t) = rest - i
      BY <1>1, <1>2, <2>2, <3>1, <3>2
    <3>4. Append(W!Numbered(n_bytes - rest, i - 1), (n_bytes - rest) + (i - 1)) = W!Numbered(n_bytes - rest, (i - 1) + 1)
      <4>1. n_bytes - rest \in Nat
        BY <1>1, <1>2
      <4> QED
        BY <3>1, <4>1, NumberedGrows
    <3>5. n_bytes - Remaining(s) = (n_bytes - rest) + (i - 1) /\ (i - 1) + 1 = i
      BY <1>1, <1>2, <3>2
    <3>6. t.bytes = W!Numbered(n_bytes - rest, i)
      BY <2>2, <3>1, <3>2, <3>4, <3>5
    <3> QED
      BY <1>1, <1>2, <2>2, <2>3, <3>3, <3>6
  <2>4. CASE i > rest
    <3>1. CASE i - 1 <= rest
      <4>1. s.ok /\ Remaining(s) = rest - (i - 1) /\ rest - (i - 1) = 0
        BY <1>1, <1>2, <1>7, <2>4, <3>1
      <4> QED
        BY <1>2, <2>2, <2>4, <4>1
    <3>2. CASE i - 1 > rest
      <4>1. ~s.ok /\ Remaining(s) = 0
        BY <1>7, <3>2
      <4> QED
        BY <1>2, <2>2, <2>4, <4>1
    <3> QED
      BY <1>1, <1>2, <3>1, <3>2
  <2> QED
    BY <1>1, <1>2, <2>3, <2>4
<1> HIDE DEF Good
<1>8. \A i \in 0..FB : i \in T
  <2>1. 0 \in T
    BY <1>1, <1>6
  <2>2. \A i \in 1..FB : i - 1 \in T => i \in T
    BY <1>1, <1>7
  <2> HIDE DEF T
  <2> QED
    BY <1>1, <2>1, <2>2, UpTo
<1>9. Good(FB)
  BY <1>1, <1>8
<1> QED
  BY <1>1, <1>2, <1>5, <1>9 DEF Good, rest, FB

\* A quotient is between its bounds, and no more than the number.
LEMMA DivBounds ==
  ASSUME NEW x \in Nat, NEW N \in Nat \ {0}
  PROVE  /\ x \div N \in 0..x
         /\ N * (x \div N) <= x /\ x < N * ((x \div N) + 1)
<1>1. PICK q \in Int, r \in 0..(N - 1) : x = (N * q) + r /\ x \div N = q
  <2>1. x \in Int
    OBVIOUS
  <2> QED
    BY <2>1, DivExists
<1>2. N * q <= x /\ x < N * (q + 1)
  <2>1. N * (q + 1) = (N * q) + N
    OBVIOUS
  <2>2. N * q \in Int
    OBVIOUS
  <2> QED
    BY <1>1, <2>1, <2>2
<1>3. q >= 0
  <2> SUFFICES ASSUME q <= -1 PROVE FALSE
    OBVIOUS
  <2>1. N * q <= N * (-1)
    OBVIOUS
  <2> QED
    BY <1>1, <2>1
<1>4. q <= x
  <2>1. 1 * q \in 0..(N * q)
    <3>1. 1 \in Nat /\ 1 <= N /\ q \in Nat
      BY <1>3
    <3> QED
      BY <3>1, ProductIsMonotone
  <2> QED
    BY <1>2, <2>1
<1> QED
  BY <1>1, <1>2, <1>3, <1>4

\* An op takes so many frames.
FramesPerOp == n_per_sample * n_to_avg

\* The ops that are counted: no more than bytes, and with two bytes in a sample
\* as many as the data has.
LEMMA OpsOfTheData ==
  ASSUME Format
  PROVE  /\ W!FrameBytes \in Nat \ {0} /\ FramesPerOp \in Nat \ {0}
         /\ W!get_n_ops \in 0..n_bytes
         /\ bytes_per_sample = 2 =>
              W!get_n_ops = (n_bytes \div W!FrameBytes) \div FramesPerOp
<1>1. /\ n_bytes \in Nat /\ num_channels \in Nat \ {0} /\ bytes_per_sample \in Nat \ {0}
      /\ n_per_sample \in Nat \ {0} /\ n_to_avg \in Nat \ {0} /\ 2 \in Nat \ {0}
  BY DEF Format
<1>2. W!FrameBytes \in Nat \ {0} /\ FramesPerOp \in Nat \ {0}
  BY <1>1, PositiveProduct DEF W!FrameBytes, FramesPerOp
<1>3. /\ n_bytes \div num_channels \in 0..n_bytes
      /\ W!get_n_samples \in 0..(n_bytes \div num_channels)
  BY <1>1, DivBounds DEF W!get_n_samples
<1>4. W!get_n_samples \in 0..n_bytes
  BY <1>1, <1>3
<1>5. /\ W!get_n_samples \div n_per_sample \in 0..W!get_n_samples
      /\ W!get_n_ops \in 0..(W!get_n_samples \div n_per_sample)
  <2>1. W!get_n_samples \div n_per_sample \in 0..W!get_n_samples
    BY <1>1, <1>4, DivBounds
  <2>2. W!get_n_samples \div n_per_sample \in Nat
    BY <1>4, <2>1
  <2> QED
    BY <1>1, <2>1, <2>2, DivBounds DEF W!get_n_ops
<1>6. W!get_n_ops \in 0..n_bytes
  BY <1>1, <1>4, <1>5
<1>7. ASSUME bytes_per_sample = 2
      PROVE  W!get_n_ops = (n_bytes \div W!FrameBytes) \div FramesPerOp
  <2>1. W!get_n_samples = n_bytes \div W!FrameBytes
    <3>1. (n_bytes \div num_channels) \div bytes_per_sample = n_bytes \div (num_channels * bytes_per_sample)
      BY <1>1, DivTwice
    <3>2. W!get_n_samples = (n_bytes \div num_channels) \div bytes_per_sample
      BY <1>7 DEF W!get_n_samples
    <3> QED
      BY <3>1, <3>2 DEF W!FrameBytes
  <2>2. W!get_n_samples \in Nat
    BY <1>1, <1>4
  <2> QED
    BY <1>1, <2>1, <2>2, DivTwice DEF W!get_n_ops, FramesPerOp
<1> QED
  BY <1>2, <1>6, <1>7

\* The bytes of the frames that were taken and those that are left are the data;
\* when next() has failed, fewer than a frame are missing.
Accounted ==
  \/ (W!FrameBytes * n_frames) + Remaining(Now) = n_bytes
  \/ /\ Remaining(Now) = 0
     /\ W!FrameBytes * n_frames <= n_bytes /\ n_bytes < W!FrameBytes * (n_frames + 1)

\* The frame that was given last has the bytes that were next.
FrameIsItsBytes ==
  frame # W!NoFrame =>
    /\ n_frames # 0
    /\ frame = W!FrameOf(W!Numbered(W!FrameBytes * (n_frames - 1), W!FrameBytes))

\* The invariant of the sound.
SoundInv ==
  /\ Format
  /\ Now \in Reading /\ n_frames \in Nat
  /\ Accounted
  /\ FrameIsItsBytes
  /\ skull_ops \in [at : {"out", "next", "fatal", "assert"}, n : Nat, i : Nat, late : BOOLEAN]
  /\ skull_ops.n <= W!get_n_ops /\ skull_ops.i < FramesPerOp
  /\ skull_ops.at = "next" /\ ~skull_ops.late /\ bytes_per_sample = 2 =>
       n_frames = (FramesPerOp * skull_ops.n) + skull_ops.i
  /\ W!OpsAreCounted

\* So frames are whole, and ops are counted.
LEMMA SoundInvImplies ==
  SoundInv => W!SoundTypeOK /\ W!FramesAreWhole /\ W!OpsAreCounted
<1> SUFFICES ASSUME SoundInv
             PROVE  W!SoundTypeOK /\ W!FramesAreWhole
  BY DEF SoundInv
<1>1. Format /\ Now \in Reading
  BY DEF SoundInv
<1>2. /\ W!FrameBytes \in Nat \ {0} /\ FramesPerOp \in Nat \ {0} /\ W!get_n_ops \in 0..n_bytes
      /\ n_bytes \in Nat
  BY <1>1, OpsOfTheData DEF Format
<1>3. buf_at \in 0..n_bytes /\ n_block \in 0..a_block /\ block_pos \in 0..a_block
  BY <1>1 DEF Now, Reading
<1>4. /\ skull_ops.at \in {"out", "next", "fatal", "assert"} /\ skull_ops.n \in Nat
      /\ skull_ops.i \in Nat /\ skull_ops.late \in BOOLEAN
      /\ skull_ops.n <= W!get_n_ops /\ skull_ops.i < FramesPerOp
  BY DEF SoundInv
<1>5. W!SoundTypeOK
  <2>1. skull_ops.n \in 0..n_bytes /\ skull_ops.i \in 0..(FramesPerOp - 1)
    BY <1>2, <1>4
  <2> QED
    BY <1>3, <1>4, <2>1 DEF W!SoundTypeOK, FramesPerOp
<1>6. ASSUME frame # W!NoFrame
      PROVE  /\ frame.l = W!Numbered((n_frames - 1) * W!FrameBytes, bytes_per_sample)
             /\ frame.r = W!Numbered(((n_frames - 1) * W!FrameBytes) + ((num_channels - 1) * bytes_per_sample),
                                     bytes_per_sample)
  <2> DEFINE from == W!FrameBytes * (n_frames - 1)
             other == (num_channels - 1) * bytes_per_sample
             bytes == W!Numbered(from, W!FrameBytes)
             bps == bytes_per_sample
  <2>1. /\ n_frames - 1 \in Nat /\ num_channels - 1 \in Nat /\ bps \in Nat \ {0}
        /\ frame = W!FrameOf(bytes)
    BY <1>1, <1>6 DEF SoundInv, Format, FrameIsItsBytes
  <2>2. from \in Nat /\ other \in Nat /\ (n_frames - 1) * W!FrameBytes = from
    <3>1. W!FrameBytes * (n_frames - 1) \in Nat /\ (num_channels - 1) * bps \in Nat
      BY <1>2, <2>1, ProductOfNaturals
    <3> QED
      BY <1>2, <2>1, <3>1
  <2>3. W!FrameBytes = other + bps
    BY <1>1 DEF W!FrameBytes, Format
  <2> HIDE DEF from, other, bps
  <2>4. /\ bytes \in Seq(Nat) /\ Len(bytes) = W!FrameBytes
        /\ \A i \in 1..W!FrameBytes : bytes[i] = from + i - 1
    BY <1>2, <2>2, NumberedGrows
  <2> HIDE DEF bytes
  <2>5. ASSUME NEW k \in 0..other
        PROVE  SubSeq(bytes, k + 1, k + bps) = W!Numbered(from + k, bps)
    <3>1. \A i \in (k + 1)..(k + bps) : i \in 1..W!FrameBytes /\ bytes[i] \in Nat
      <4>1. \A i \in (k + 1)..(k + bps) : i \in 1..W!FrameBytes
        BY <2>1, <2>2, <2>3
      <4> QED
        BY <2>4, <4>1
    <3>2. k + 1 \in Int /\ k + bps \in Int /\ k + 1 <= k + bps /\ ((k + bps) - (k + 1)) + 1 = bps
      BY <2>1, <2>2
    <3>3. /\ SubSeq(bytes, k + 1, k + bps) \in Seq(Nat)
          /\ Len(SubSeq(bytes, k + 1, k + bps)) = bps
          /\ \A i \in 1..bps : SubSeq(bytes, k + 1, k + bps)[i] = bytes[((k + 1) + i) - 1]
      BY <3>1, <3>2, SubSeqProperties
    <3>4. /\ W!Numbered(from + k, bps) \in Seq(Nat) /\ Len(W!Numbered(from + k, bps)) = bps
          /\ \A i \in 1..bps : W!Numbered(from + k, bps)[i] = (from + k) + i - 1
      <4>1. from + k \in Nat /\ bps \in Nat
        BY <2>1, <2>2
      <4> QED
        BY <4>1, NumberedGrows
    <3>5. ASSUME NEW i \in 1..bps
          PROVE  SubSeq(bytes, k + 1, k + bps)[i] = W!Numbered(from + k, bps)[i]
      <4>1. ((k + 1) + i) - 1 \in 1..W!FrameBytes /\ ((k + 1) + i) - 1 = k + i
        BY <2>1, <2>2, <2>3
      <4>2. bytes[k + i] = from + (k + i) - 1
        BY <2>4, <4>1
      <4>3. from + (k + i) - 1 = (from + k) + i - 1
        BY <2>1, <2>2
      <4> QED
        BY <3>3, <3>4, <4>1, <4>2, <4>3
    <3> QED
      BY <2>1, <3>3, <3>4, <3>5, SeqEqual
  <2>6. frame.l = SubSeq(bytes, 1, bps) /\ frame.r = SubSeq(bytes, (W!FrameBytes - bps) + 1, W!FrameBytes)
    BY <2>1 DEF W!FrameOf, bps
  <2>7. frame.l = W!Numbered(from, bps)
    <3>1. 0 \in 0..other /\ 0 + 1 = 1 /\ 0 + bps = bps /\ from + 0 = from
      BY <2>1, <2>2
    <3> QED
      BY <2>5, <2>6, <3>1
  <2>8. frame.r = W!Numbered(from + other, bps)
    <3>1. other \in 0..other /\ other + 1 = (W!FrameBytes - bps) + 1 /\ other + bps = W!FrameBytes
      BY <2>1, <2>2, <2>3
    <3> QED
      BY <2>5, <2>6, <3>1
  <2> QED
    BY <2>2, <2>7, <2>8 DEF from, other, bps
<1>7. W!FramesAreWhole
  BY <1>6 DEF W!FramesAreWhole
<1> QED
  BY <1>5, <1>7

\* No frame has been taken at first.
LEMMA SoundInit ==
  W!SoundInit => SoundInv
<1> SUFFICES ASSUME W!SoundInit
             PROVE  SoundInv
  OBVIOUS
<1>1. /\ n_bytes \in Lengths /\ num_channels \in Channels /\ bytes_per_sample \in SampleBytes
      /\ n_per_sample \in Averages /\ n_to_avg \in Averages
      /\ buf_at = 0 /\ n_block = 0 /\ block_pos = 0 /\ frame = W!NoFrame /\ n_frames = 0
  BY DEF W!SoundInit
<1>2. /\ skull_ops \in [at : {"out", "next", "fatal", "assert"}, n : Nat, i : Nat, late : BOOLEAN]
      /\ skull_ops.at = "out" /\ skull_ops.n = 0 /\ skull_ops.i = 0
  BY DEF W!SoundInit
<1>3. Format
  BY <1>1, SoundAssumption DEF Format
<1>4. /\ W!FrameBytes \in Nat \ {0} /\ FramesPerOp \in Nat \ {0} /\ W!get_n_ops \in 0..n_bytes
      /\ n_bytes \in Nat
  BY <1>3, OpsOfTheData DEF Format
<1>5. Now \in Reading /\ Remaining(Now) = n_bytes
  <2>1. <<>> \in Seq(Nat)
    OBVIOUS
  <2> QED
    BY <1>1, <1>4, <2>1, SoundAssumption DEF Now, Reading, Remaining
<1>6. W!FrameBytes * 0 = 0
  BY <1>4
<1>7. Accounted
  BY <1>1, <1>4, <1>5, <1>6 DEF Accounted
<1> QED
  BY <1>1, <1>2, <1>3, <1>4, <1>5, <1>7 DEF SoundInv, FrameIsItsBytes, W!OpsAreCounted

\* One more frame, or the end of the data.
LEMMA NextIsAccounted ==
  ASSUME Format, Now \in Reading, n_frames \in Nat, Accounted, W!next, UNCHANGED W!format
  PROVE  /\ (Now \in Reading)' /\ Accounted' /\ FrameIsItsBytes' /\ n_frames' \in Nat
         /\ IF W!AfterFrame.ok
              THEN /\ n_frames' = n_frames + 1
                   /\ W!FrameBytes * (n_frames + 1) <= n_bytes
              ELSE /\ n_frames' = n_frames
                   /\ W!FrameBytes * n_frames <= n_bytes
                   /\ n_bytes < W!FrameBytes * (n_frames + 1)
<1> DEFINE s == W!AfterFrame
           FB == W!FrameBytes
           rest == Remaining(Now)
<1>1. /\ s \in Reading
      /\ rest >= FB => /\ s.ok /\ Remaining(s) = rest - FB
                    /\ s.bytes = W!Numbered(n_bytes - rest, FB)
      /\ rest < FB => ~s.ok /\ Remaining(s) = 0
  BY FrameIsTaken
<1>2. /\ buf_at' = s.at /\ n_block' = s.n /\ block_pos' = s.pos
      /\ frame' = IF s.ok THEN W!FrameOf(s.bytes) ELSE W!NoFrame
      /\ n_frames' = IF s.ok THEN n_frames + 1 ELSE n_frames
  BY DEF W!next
<1>3. FB \in Nat \ {0} /\ n_bytes \in Nat /\ FB' = FB /\ n_bytes' = n_bytes
  <2>1. FB' = FB /\ n_bytes' = n_bytes
    BY DEF W!format, W!FrameBytes
  <2> QED
    BY <2>1, OpsOfTheData DEF Format
<1>4. rest \in 0..n_bytes
  BY <1>3, NextByteIsNext
<1>5. /\ s.at \in 0..n_bytes /\ s.n \in 0..a_block /\ s.pos \in 0..a_block /\ s.n <= s.at
  BY <1>1 DEF Reading
<1>6. (Now \in Reading)' /\ Remaining(Now)' = Remaining(s)
  <2>1. Now' = [at |-> s.at, n |-> s.n, pos |-> s.pos, ok |-> TRUE, bytes |-> <<>>]
    BY <1>2 DEF Now
  <2>2. <<>> \in Seq(Nat) /\ Reading' = Reading
    BY <1>3 DEF Reading
  <2>3. Now' \in Reading
    BY <1>5, <2>1, <2>2 DEF Reading
  <2>4. Now'.at = s.at /\ Now'.n = s.n /\ Now'.pos = s.pos
    BY <2>1
  <2>5. Remaining(Now)' = (n_bytes' - Now'.at) + (IF Now'.pos >= Now'.n THEN 0 ELSE Now'.n - Now'.pos)
    BY DEF Remaining
  <2> QED
    BY <1>3, <2>2, <2>3, <2>4, <2>5 DEF Remaining
<1>7. FB * n_frames \in Nat /\ FB * (n_frames + 1) = (FB * n_frames) + FB
      /\ FB * ((n_frames + 1) + 1) = (FB * (n_frames + 1)) + FB
  <2>1. FB * n_frames \in Nat
    BY <1>3, ProductOfNaturals
  <2> HIDE DEF FB
  <2> QED
    BY <1>3, <2>1
<1>8. \/ (FB * n_frames) + rest = n_bytes
      \/ rest = 0 /\ FB * n_frames <= n_bytes /\ n_bytes < FB * (n_frames + 1)
  BY DEF Accounted
<1> DEFINE F == FB * n_frames
           F1 == FB * (n_frames + 1)
<1>9. CASE rest >= FB
  <2>1. F + rest = n_bytes
    BY <1>3, <1>4, <1>8, <1>9
  <2>2. n_frames' = n_frames + 1 /\ Remaining(Now)' = rest - FB /\ s.ok
    BY <1>1, <1>2, <1>6, <1>9
  <2>3. F1 + (rest - FB) = n_bytes /\ F1 <= n_bytes /\ n_bytes - rest = F
    <3> HIDE DEF FB, rest, F, F1
    <3>1. F \in Nat /\ F1 = F + FB
      BY <1>7 DEF F, F1
    <3> QED
      BY <1>3, <1>4, <1>9, <2>1, <3>1
  <2>4. Accounted'
    BY <1>3, <2>2, <2>3 DEF Accounted
  <2>5. FrameIsItsBytes'
    <3>1. frame' = W!FrameOf(W!Numbered(F, FB))
      BY <1>1, <1>2, <1>9, <2>3
    <3>2. frame' = [l |-> SubSeq(W!Numbered(F, FB), 1, bytes_per_sample),
                    r |-> SubSeq(W!Numbered(F, FB), W!FrameBytes - bytes_per_sample + 1, W!FrameBytes)]
      BY <3>1 DEF W!FrameOf
    <3>3. n_frames' # 0 /\ n_frames' - 1 = n_frames /\ W!FrameBytes' * (n_frames' - 1) = F
      BY <1>3, <2>2
    <3>4. bytes_per_sample' = bytes_per_sample
      BY DEF W!format
    <3>5. (W!FrameOf(W!Numbered(W!FrameBytes * (n_frames - 1), W!FrameBytes)))' = frame'
      BY <1>3, <3>2, <3>3, <3>4 DEF W!FrameOf
    <3> QED
      BY <3>3, <3>5 DEF FrameIsItsBytes
  <2>6. n_frames' \in Nat
    BY <2>2
  <2> QED
    BY <1>6, <2>2, <2>3, <2>4, <2>5, <2>6
<1>10. CASE rest < FB
  <2>1. n_frames' = n_frames /\ Remaining(Now)' = 0 /\ ~s.ok /\ frame' = W!NoFrame
    BY <1>1, <1>2, <1>6, <1>10
  <2>2. F <= n_bytes /\ n_bytes < F1
    <3> HIDE DEF FB, rest, F, F1
    <3>1. F \in Nat /\ F1 = F + FB
      BY <1>7 DEF F, F1
    <3>2. F + rest = n_bytes \/ (F <= n_bytes /\ n_bytes < F1)
      BY <1>8 DEF F, F1
    <3> QED
      BY <1>3, <1>4, <1>10, <3>1, <3>2
  <2>3. Accounted'
    BY <1>3, <2>1, <2>2 DEF Accounted
  <2>4. FrameIsItsBytes'
    BY <2>1 DEF FrameIsItsBytes, W!NoFrame
  <2> QED
    BY <1>6, <2>1, <2>2, <2>3, <2>4
<1> QED
  BY <1>3, <1>4, <1>9, <1>10

\* Frames that come after n whole ops and i frames of the next are counted right.
LEMMA FramesAreOps ==
  ASSUME Format, bytes_per_sample = 2, NEW n \in Nat, NEW i \in 0..(FramesPerOp - 1),
         NEW m, m = (FramesPerOp * n) + i
  PROVE  /\ W!FrameBytes * m <= n_bytes /\ n_bytes < W!FrameBytes * (m + 1) => n = W!get_n_ops
         /\ W!FrameBytes * (m + 1) <= n_bytes /\ i + 1 = FramesPerOp => n < W!get_n_ops
<1> DEFINE P == FramesPerOp
           FB == W!FrameBytes
           q == n_bytes \div FB
           nops == W!get_n_ops
<1>1. FB \in Nat \ {0} /\ P \in Nat \ {0} /\ n_bytes \in Nat /\ nops = q \div P
  BY OpsOfTheData DEF Format
<1> HIDE DEF FB, P, nops
<1>2. m \in Nat
  <2>1. P * n \in Nat
    BY <1>1, ProductOfNaturals
  <2> QED
    BY <1>1, <2>1 DEF P
<1>3. ASSUME FB * m <= n_bytes, n_bytes < FB * (m + 1)
      PROVE  n = nops
  <2>1. n_bytes - (FB * m) \in 0..(FB - 1) /\ n_bytes = (FB * m) + (n_bytes - (FB * m))
    <3>1. FB * (m + 1) = (FB * m) + FB /\ FB * m \in Nat
      BY <1>1, <1>2, ProductOfNaturals
    <3> QED
      BY <1>1, <1>3, <3>1
  <2> DEFINE r == n_bytes - (FB * m)
  <2>2. r \in 0..(FB - 1) /\ n_bytes = (FB * m) + r /\ m \in Int
    BY <1>2, <2>1
  <2> HIDE DEF r
  <2>3. q = m
    BY <1>1, <2>2, DivUnique
  <2>4. ((P * n) + i) \div P = n
    BY <1>1, DivUnique DEF P
  <2> QED
    BY <1>1, <2>3, <2>4 DEF P
<1>4. ASSUME FB * (m + 1) <= n_bytes, i + 1 = P
      PROVE  n < nops
  <2>1. m + 1 <= q
    <3>1. q \in Nat /\ n_bytes < FB * (q + 1)
      BY <1>1, DivBounds
    <3>2. SUFFICES ASSUME q + 1 <= m + 1 PROVE FALSE
      BY <1>2, <3>1
    <3>3. FB * (q + 1) \in 0..(FB * (m + 1))
      <4>1. q + 1 \in Nat /\ m + 1 \in Nat
        BY <1>2, <3>1
      <4> QED
        BY <1>1, <3>2, <4>1, ProductIsMonotone
    <3>4. FB * (m + 1) \in Nat
      BY <1>1, <1>2, ProductOfNaturals
    <3> HIDE DEF q
    <3> QED
      BY <1>1, <1>4, <3>1, <3>3, <3>4
  <2>2. m + 1 = P * (n + 1)
    <3>1. P * (n + 1) = (P * n) + P /\ P * n \in Nat
      BY <1>1, ProductOfNaturals
    <3> QED
      BY <1>1, <1>4, <3>1 DEF P
  <2>3. q \in Nat /\ nops \in Nat /\ q < P * (nops + 1)
    <3>1. q \in Nat
      BY <1>1, DivBounds
    <3> HIDE DEF q
    <3> QED
      BY <1>1, <3>1, DivBounds
  <2> HIDE DEF q
  <2>4. SUFFICES ASSUME nops + 1 <= n + 1 PROVE FALSE
    BY <2>3
  <2>5. P * (nops + 1) \in 0..(P * (n + 1))
    <3>1. nops + 1 \in Nat /\ n + 1 \in Nat
      BY <2>3
    <3> QED
      BY <1>1, <2>4, <3>1, ProductIsMonotone
  <2>6. P * (n + 1) \in Nat /\ P * (nops + 1) \in Nat
    BY <1>1, <2>3, ProductOfNaturals
  <2> QED
    BY <1>2, <2>1, <2>2, <2>3, <2>5, <2>6
<1> QED
  BY <1>3, <1>4 DEF FB, P, nops

\* The counters of set_ops().
OpsCounters == [at : {"out", "next", "fatal", "assert"}, n : Nat, i : Nat, late : BOOLEAN]

\* The counters, one by one.
LEMMA CounterOfOps ==
  ASSUME NEW o \in OpsCounters
  PROVE  \A k \in Nat : LET p == [o EXCEPT !.i = k] IN
           p \in OpsCounters /\ p.at = o.at /\ p.n = o.n /\ p.i = k /\ p.late = o.late
BY DEF OpsCounters

\* Likewise.
LEMMA CounterOfFrames ==
  ASSUME NEW o \in OpsCounters
  PROVE  \A k \in Nat : LET p == [o EXCEPT !.n = k] IN
           p \in OpsCounters /\ p.at = o.at /\ p.n = k /\ p.i = o.i /\ p.late = o.late
BY DEF OpsCounters

\* Every frame that is taken or is not there keeps it.
LEMMA SoundStep ==
  SoundInv /\ [W!SoundNext]_sound => SoundInv'
<1> SUFFICES ASSUME SoundInv, [W!SoundNext]_sound
             PROVE  SoundInv'
  OBVIOUS
<1>1. UNCHANGED W!format
  BY DEF W!SoundNext, W!reset, W!set_ops, W!OpsNext, W!Frame, sound, W!format
<1>2. /\ Format' /\ W!FrameBytes' = W!FrameBytes /\ FramesPerOp' = FramesPerOp
      /\ W!get_n_ops' = W!get_n_ops /\ n_bytes' = n_bytes /\ bytes_per_sample' = bytes_per_sample
  BY <1>1 DEF SoundInv, Format, W!format, W!FrameBytes, FramesPerOp, W!get_n_ops, W!get_n_samples
<1>3. Format /\ Now \in Reading /\ n_frames \in Nat /\ Accounted
  BY DEF SoundInv
<1>4. /\ W!FrameBytes \in Nat \ {0} /\ FramesPerOp \in Nat \ {0} /\ W!get_n_ops \in 0..n_bytes
      /\ n_bytes \in Nat
  BY <1>3, OpsOfTheData DEF Format
<1>5. /\ skull_ops \in [at : {"out", "next", "fatal", "assert"}, n : Nat, i : Nat, late : BOOLEAN]
      /\ skull_ops.n <= W!get_n_ops /\ skull_ops.i < FramesPerOp
  BY DEF SoundInv
<1>6. ASSUME UNCHANGED W!reading
      PROVE  Now' = Now /\ (Now \in Reading)' /\ Accounted' /\ FrameIsItsBytes'
  <2>1. Now' = Now /\ Reading' = Reading
    BY <1>2, <1>6 DEF Now, Reading, W!reading
  <2>2. (Now \in Reading)'
    BY <1>3, <2>1
  <2>3. Remaining(Now)' = Remaining(Now)
    BY <1>2, <2>1 DEF Remaining
  <2>4. n_frames' = n_frames /\ frame' = frame
    BY <1>6 DEF W!reading
  <2>5. Accounted'
    BY <1>2, <1>3, <2>3, <2>4 DEF Accounted
  <2>6. FrameIsItsBytes'
    BY <1>2, <2>4 DEF FrameIsItsBytes, SoundInv, W!FrameOf, W!Numbered
  <2> QED
    BY <2>1, <2>2, <2>5, <2>6
<1>7. CASE UNCHANGED sound
  <2>1. UNCHANGED <<W!reading, n_frames, skull_ops>>
    BY <1>7 DEF sound, W!reading
  <2> QED
    BY <1>2, <1>6, <2>1 DEF SoundInv, W!OpsAreCounted
<1>8. CASE W!reset
  <2>1. /\ skull_ops.at = "out" /\ UNCHANGED skull_ops
        /\ buf_at' = 0 /\ n_block' = 0 /\ block_pos' = 0 /\ frame' = W!NoFrame /\ n_frames' = 0
    BY <1>8 DEF W!reset
  <2>2. (Now \in Reading)' /\ Remaining(Now)' = n_bytes
    <3>1. <<>> \in Seq(Nat)
      OBVIOUS
    <3> QED
      BY <1>2, <1>4, <2>1, <3>1, SoundAssumption DEF Now, Reading, Remaining
  <2>3. Accounted'
    <3>1. W!FrameBytes * 0 = 0
      BY <1>4
    <3> QED
      BY <1>2, <1>4, <2>1, <2>2, <3>1 DEF Accounted
  <2>4. FrameIsItsBytes'
    BY <2>1 DEF FrameIsItsBytes, W!NoFrame
  <2> QED
    BY <1>2, <1>5, <2>1, <2>2, <2>3, <2>4 DEF SoundInv, W!OpsAreCounted
<1>9. CASE W!set_ops
  <2>1. UNCHANGED W!reading
    BY <1>9 DEF W!set_ops
  <2>2. (buf_at > 0) \in BOOLEAN
    OBVIOUS
  <2>3. skull_ops' = [at |-> "next", n |-> 0, i |-> 0, late |-> buf_at > 0]
    BY <1>9 DEF W!set_ops
  <2>4. /\ skull_ops' \in [at : {"out", "next", "fatal", "assert"}, n : Nat, i : Nat, late : BOOLEAN]
        /\ skull_ops'.at = "next" /\ skull_ops'.n = 0 /\ skull_ops'.i = 0
        /\ skull_ops'.late = (buf_at > 0)
    BY <2>2, <2>3
  <2>5. ASSUME ~skull_ops'.late
        PROVE  n_frames = 0
    <3>1. buf_at = 0 /\ n_block = 0 /\ block_pos \in Nat
      BY <1>3, <1>4, <2>4, <2>5, SoundAssumption DEF Now, Reading
    <3>2. Remaining(Now) = n_bytes
      BY <1>4, <3>1 DEF Now, Remaining
    <3>3. W!FrameBytes * n_frames <= 0
      <4>1. W!FrameBytes * n_frames \in Nat
        BY <1>3, <1>4, ProductOfNaturals
      <4> QED
        BY <1>3, <1>4, <3>2, <4>1 DEF Accounted
    <3>4. SUFFICES ASSUME 1 <= n_frames PROVE FALSE
      BY <1>3
    <3>5. 1 * n_frames \in 0..(W!FrameBytes * n_frames)
      <4>1. 1 \in Nat /\ 1 <= W!FrameBytes /\ W!FrameBytes \in Nat
        BY <1>4
      <4> QED
        BY <1>3, <4>1, ProductIsMonotone
    <3> QED
      BY <1>3, <1>4, <3>3, <3>4, <3>5
  <2>6. n_frames' = n_frames
    BY <2>1 DEF W!reading
  <2>7. FramesPerOp * 0 = 0
    BY <1>4
  <2> QED
    BY <1>2, <1>3, <1>4, <1>6, <2>1, <2>4, <2>5, <2>6, <2>7 DEF SoundInv, W!OpsAreCounted
<1>10. CASE W!Frame
  <2>1. W!next /\ skull_ops.at = "out" /\ UNCHANGED skull_ops
    BY <1>10 DEF W!Frame
  <2>2. (Now \in Reading)' /\ Accounted' /\ FrameIsItsBytes' /\ n_frames' \in Nat
    BY <1>1, <1>3, <2>1, NextIsAccounted
  <2> QED
    BY <1>2, <1>5, <2>1, <2>2 DEF SoundInv, W!OpsAreCounted
<1>11. CASE W!OpsNext
  <2> DEFINE P == FramesPerOp
             nops == W!get_n_ops
             o == skull_ops
  <2>1. /\ o.at = "next" /\ W!next
        /\ o' = IF ~W!AfterFrame.ok THEN [o EXCEPT !.at = IF o.n = nops THEN "out" ELSE "assert"]
                ELSE IF o.i + 1 < P THEN [o EXCEPT !.i = @ + 1]
                ELSE IF o.n >= nops THEN [o EXCEPT !.at = "fatal"]
                ELSE [o EXCEPT !.n = @ + 1, !.i = 0]
    BY <1>11 DEF W!OpsNext, FramesPerOp
  <2>2. /\ (Now \in Reading)' /\ Accounted' /\ FrameIsItsBytes' /\ n_frames' \in Nat
        /\ IF W!AfterFrame.ok
             THEN /\ n_frames' = n_frames + 1
                  /\ W!FrameBytes * (n_frames + 1) <= n_bytes
             ELSE /\ n_frames' = n_frames
                  /\ W!FrameBytes * n_frames <= n_bytes
                  /\ n_bytes < W!FrameBytes * (n_frames + 1)
    BY <1>1, <1>3, <2>1, NextIsAccounted
  <2>3. /\ o.n \in Nat /\ o.i \in Nat /\ o.late \in BOOLEAN /\ o.n <= nops /\ o.i < P /\ o.i \in 0..(P - 1)
        /\ P \in Nat \ {0} /\ nops \in Nat
    BY <1>4, <1>5
  <2>4. ~o.late /\ bytes_per_sample = 2 => n_frames = (P * o.n) + o.i
    BY <2>1 DEF SoundInv
  <2>5. ASSUME ~o.late, bytes_per_sample = 2
        PROVE  /\ ~W!AfterFrame.ok => o.n = nops
               /\ W!AfterFrame.ok /\ o.i + 1 = P => o.n < nops
    BY <1>3, <2>2, <2>3, <2>4, <2>5, FramesAreOps
  <2> HIDE DEF P, nops
  <2>6. CASE ~W!AfterFrame.ok
    <3>1. o' = [o EXCEPT !.at = IF o.n = nops THEN "out" ELSE "assert"]
      BY <2>1, <2>6
    <3>2. /\ o' \in [at : {"out", "next", "fatal", "assert"}, n : Nat, i : Nat, late : BOOLEAN]
          /\ o'.at = (IF o.n = nops THEN "out" ELSE "assert") /\ o'.n = o.n /\ o'.i = o.i /\ o'.late = o.late
      BY <1>5, <3>1
    <3> QED
      BY <1>2, <2>2, <2>3, <2>5, <2>6, <3>2 DEF SoundInv, W!OpsAreCounted, P, nops
  <2>7. CASE W!AfterFrame.ok /\ o.i + 1 < P
    <3>1. o' = [o EXCEPT !.i = @ + 1]
      BY <2>1, <2>7
    <3>2. /\ o' \in [at : {"out", "next", "fatal", "assert"}, n : Nat, i : Nat, late : BOOLEAN]
          /\ o'.at = "next" /\ o'.n = o.n /\ o'.i = o.i + 1 /\ o'.late = o.late
      <4> DEFINE k == o.i + 1
      <4>1. k \in Nat /\ o \in OpsCounters /\ o' = [o EXCEPT !.i = k]
        BY <1>5, <2>3, <3>1 DEF OpsCounters
      <4> HIDE DEF k, o
      <4>2. o' \in OpsCounters /\ o'.at = o.at /\ o'.n = o.n /\ o'.i = k /\ o'.late = o.late
        BY <4>1, CounterOfOps
      <4> QED
        BY <2>1, <4>2 DEF k, OpsCounters
    <3>3. ~o.late /\ bytes_per_sample = 2 => n_frames' = (P * o'.n) + o'.i
      <4>1. P * o.n \in Nat
        BY <2>3, ProductOfNaturals
      <4> QED
        BY <2>2, <2>3, <2>4, <2>7, <3>2, <4>1
    <3> QED
      BY <1>2, <2>2, <2>3, <2>7, <3>2, <3>3 DEF SoundInv, W!OpsAreCounted, P, nops
  <2>8. CASE W!AfterFrame.ok /\ ~(o.i + 1 < P) /\ o.n >= nops
    <3>1. o' = [o EXCEPT !.at = "fatal"]
      BY <2>1, <2>8
    <3>2. /\ o' \in [at : {"out", "next", "fatal", "assert"}, n : Nat, i : Nat, late : BOOLEAN]
          /\ o'.at = "fatal" /\ o'.n = o.n /\ o'.i = o.i /\ o'.late = o.late
      BY <1>5, <3>1
    <3>3. o.late \/ bytes_per_sample # 2
      BY <2>3, <2>5, <2>8
    <3> QED
      BY <1>2, <2>2, <2>3, <2>8, <3>2, <3>3 DEF SoundInv, W!OpsAreCounted, P, nops
  <2>9. CASE W!AfterFrame.ok /\ ~(o.i + 1 < P) /\ ~(o.n >= nops)
    <3>1. o' = [o EXCEPT !.n = @ + 1, !.i = 0]
      BY <2>1, <2>9
    <3>2. /\ o' \in [at : {"out", "next", "fatal", "assert"}, n : Nat, i : Nat, late : BOOLEAN]
          /\ o'.at = "next" /\ o'.n = o.n + 1 /\ o'.i = 0 /\ o'.late = o.late
      <4> DEFINE j == o.n + 1
                 m == [o EXCEPT !.n = j]
      <4>1. j \in Nat /\ 0 \in Nat /\ o \in OpsCounters /\ o' = [m EXCEPT !.i = 0]
        BY <1>5, <2>3, <3>1 DEF OpsCounters
      <4> HIDE DEF j, o
      <4>2. m \in OpsCounters /\ m.at = o.at /\ m.n = j /\ m.i = o.i /\ m.late = o.late
        BY <4>1, CounterOfFrames
      <4> HIDE DEF m
      <4>3. o' \in OpsCounters /\ o'.at = o.at /\ o'.n = j /\ o'.i = 0 /\ o'.late = o.late
        BY <4>1, <4>2, CounterOfOps
      <4> QED
        BY <2>1, <4>3 DEF j, OpsCounters
    <3>3. ~o.late /\ bytes_per_sample = 2 => n_frames' = (P * o'.n) + o'.i
      <4>1. P * o.n \in Nat /\ P * (o.n + 1) = (P * o.n) + P
        BY <2>3, ProductOfNaturals
      <4>2. o.i + 1 = P
        BY <2>3, <2>9
      <4> QED
        BY <2>2, <2>3, <2>4, <2>9, <3>2, <4>1, <4>2
    <3> QED
      BY <1>2, <2>2, <2>3, <2>9, <3>2, <3>3 DEF SoundInv, W!OpsAreCounted, P, nops
  <2> QED
    BY <2>6, <2>7, <2>8, <2>9
<1> QED
  BY <1>7, <1>8, <1>9, <1>10, <1>11 DEF W!SoundNext

-----------------------------------------------------------------------------
(* HttpdHandlers: the handlers of a path                                    *)

\* The n-th of the prefixes that are tried, the longest last.
PrefixOf(p, n) == SubSeq(p, 1, n - 1)
Found(p, n) == <<"prefix", PrefixOf(p, n), SubSeq(p, n, Len(p))>>

\* A strict prefix is one of those.
LEMMA StrictPrefixes ==
  ASSUME NEW p \in Seq(STRING), NEW q \in Seq(STRING)
  PROVE  U!IsStrictPrefix(q, p) <=> \E n \in 1..Len(p) : q = PrefixOf(p, n)
<1>1. Len(p) \in Nat /\ Len(q) \in Nat
  OBVIOUS
<1>2. ASSUME NEW n \in 1..Len(p), q = PrefixOf(p, n)
      PROVE  U!IsStrictPrefix(q, p)
  <2>1. Len(q) = n - 1
    BY <1>1, <1>2 DEF PrefixOf
  <2>2. SubSeq(q, 1, Len(q)) = q
    OBVIOUS
  <2>3. SubSeq(p, 1, Len(q)) = q
    BY <1>2, <2>1 DEF PrefixOf
  <2> QED
    BY <1>1, <2>1, <2>2, <2>3 DEF U!IsStrictPrefix, U!IsPrefix
<1>3. ASSUME U!IsStrictPrefix(q, p)
      PROVE  \E n \in 1..Len(p) : q = PrefixOf(p, n)
  <2>1. Len(q) <= Len(p) /\ SubSeq(q, 1, Len(q)) = SubSeq(p, 1, Len(q)) /\ q # p
    BY <1>3 DEF U!IsStrictPrefix, U!IsPrefix
  <2>2. SubSeq(q, 1, Len(q)) = q /\ SubSeq(p, 1, Len(p)) = p
    OBVIOUS
  <2>3. Len(q) + 1 \in 1..Len(p) /\ (Len(q) + 1) - 1 = Len(q)
    BY <1>1, <2>1, <2>2
  <2> QED
    BY <2>1, <2>2, <2>3 DEF PrefixOf
<1> QED
  BY <1>2, <1>3

\* A path is its prefix and the rest.
LEMMA PrefixAndRest ==
  ASSUME NEW p \in Seq(STRING), NEW n \in 1..Len(p)
  PROVE  /\ PrefixOf(p, n) \in Seq(STRING) /\ Len(PrefixOf(p, n)) = n - 1
         /\ PrefixOf(p, n) \o SubSeq(p, n, Len(p)) = p
<1> DEFINE a == PrefixOf(p, n)
           b == SubSeq(p, n, Len(p))
<1>1. Len(p) \in Nat /\ \A i \in 1..Len(p) : p[i] \in STRING
  OBVIOUS
<1>2. a \in Seq(STRING) /\ Len(a) = n - 1 /\ \A i \in 1..(n - 1) : a[i] = p[i]
  BY <1>1 DEF PrefixOf
<1>3. /\ b \in Seq(STRING) /\ Len(b) = (Len(p) - n) + 1
      /\ \A i \in 1..((Len(p) - n) + 1) : b[i] = p[(n + i) - 1]
  BY <1>1
<1> HIDE DEF a, b
<1>4. /\ a \o b \in Seq(STRING) /\ Len(a \o b) = Len(p)
      /\ \A i \in 1..Len(p) : (a \o b)[i] = IF i <= n - 1 THEN a[i] ELSE b[i - (n - 1)]
  BY <1>1, <1>2, <1>3, ConcatProperties
<1>5. ASSUME NEW i \in 1..Len(p)
      PROVE  (a \o b)[i] = p[i]
  <2>1. CASE i <= n - 1
    BY <1>1, <1>2, <1>4, <2>1
  <2>2. CASE i > n - 1
    <3>1. i - (n - 1) \in 1..((Len(p) - n) + 1) /\ (n + (i - (n - 1))) - 1 = i
      BY <1>1, <2>2
    <3>2. b[i - (n - 1)] = p[(n + (i - (n - 1))) - 1]
      BY <1>3, <3>1
    <3> QED
      BY <1>1, <1>4, <2>2, <3>1, <3>2
  <2>3. i <= n - 1 \/ i > n - 1
    BY <1>1
  <2> QED
    BY <2>1, <2>2, <2>3
<1>6. a \o b = p
  BY <1>4, <1>5, SeqEqual
<1> QED
  BY <1>2, <1>6 DEF a, b

\* The search finds the longest strict prefix with a handler that answers.
LEMMA SearchFinds ==
  ASSUME NEW p \in Seq(STRING), NEW no
  PROVE  \/ \E n \in 1..Len(p) :
              /\ PrefixOf(p, n) \in prefix_handlers \ no /\ U!Search(p, no) = Found(p, n)
              /\ \A m \in 1..Len(p) : m > n => PrefixOf(p, m) \notin prefix_handlers \ no
         \/ /\ U!Search(p, no) = <<>>
            /\ \A m \in 1..Len(p) : PrefixOf(p, m) \notin prefix_handlers \ no
<1> DEFINE L == Len(p)
           H == prefix_handlers \ no
           Q == {<<>>} \cup {Found(p, n) : n \in 1..L}
           Recursive(f) ==
             f = [n \in 0..Len(p) |->
                    IF n = 0 THEN <<>>
                    ELSE IF SubSeq(p, 1, n - 1) \in prefix_handlers \ no
                      THEN <<"prefix", SubSeq(p, 1, n - 1), SubSeq(p, n, Len(p))>>
                      ELSE f[n - 1]]
           search == CHOOSE f : Recursive(f)
           step == [x \in (1..L) \X Q |-> IF PrefixOf(p, x[1]) \in H THEN Found(p, x[1]) ELSE x[2]]
<1>1. L \in Nat
  OBVIOUS
<1>2. \A n \in 1..L, s \in Q : step[<<n, s>>] = IF PrefixOf(p, n) \in H THEN Found(p, n) ELSE s
  OBVIOUS
<1>3. StepsIn(step, Q, L)
  <2> HIDE DEF step, H
  <2> QED
    BY <1>2 DEF StepsIn
<1> HIDE DEF step
<1>4. PICK g \in [0..L -> Q] : IsRecursion(g, <<>>, step, L)
  <2>1. <<>> \in Q
    OBVIOUS
  <2> HIDE DEF Q, L
  <2> QED
    BY <1>1, <1>3, <2>1, RecursionExists
<1>5. \A n \in 0..L : g[n] = IF n = 0 THEN <<>> ELSE IF PrefixOf(p, n) \in H THEN Found(p, n) ELSE g[n - 1]
  <2> TAKE n \in 0..L
  <2> HIDE DEF Q, H
  <2>1. CASE n = 0
    BY <1>4, <2>1 DEF IsRecursion
  <2>2. CASE n # 0
    <3>1. n \in 1..L /\ n - 1 \in 0..L
      BY <1>1, <2>2
    <3>2. g[n - 1] \in Q /\ g[n] = step[<<n, g[n - 1]>>]
      BY <1>4, <3>1 DEF IsRecursion
    <3> QED
      BY <1>2, <2>2, <3>1, <3>2
  <2> QED
    BY <2>1, <2>2
<1>6. Recursive(g)
  <2>1. g = [n \in 0..L |-> g[n]]
    BY <1>4
  <2> QED
    BY <1>5, <2>1 DEF PrefixOf, Found
<1>7. Recursive(search)
  <2> HIDE DEF Recursive
  <2> QED
    BY <1>6
<1>8. U!Search(p, no) = search[L]
  BY DEF U!Search
<1>9. \A n \in 0..L : search[n] = IF n = 0 THEN <<>>
                                  ELSE IF PrefixOf(p, n) \in H THEN Found(p, n) ELSE search[n - 1]
  <2> HIDE DEF search
  <2> QED
    BY <1>7 DEF PrefixOf, Found
<1> HIDE DEF search, Recursive, L, H
<1> DEFINE Good(k) ==
             \/ \E n \in 1..k : /\ PrefixOf(p, n) \in H /\ search[k] = Found(p, n)
                                /\ \A m \in 1..k : m > n => PrefixOf(p, m) \notin H
             \/ search[k] = <<>> /\ \A m \in 1..k : PrefixOf(p, m) \notin H
           T == {k \in 0..L : Good(k)}
<1>10. 0 \in T
  <2>1. 0 \in 0..L /\ 1..0 = {}
    BY <1>1
  <2>2. search[0] = <<>>
    BY <1>9, <2>1
  <2> QED
    BY <2>1, <2>2
<1>11. ASSUME NEW k \in 1..L, k - 1 \in T
       PROVE  k \in T
  <2>1. \A m \in 1..k : m \in 1..(k - 1) \/ m = k
    BY <1>1
  <2>2. search[k] = IF PrefixOf(p, k) \in H THEN Found(p, k) ELSE search[k - 1]
    BY <1>1, <1>9
  <2>3. CASE PrefixOf(p, k) \in H
    <3>1. \A m \in 1..k : ~(m > k)
      BY <1>1
    <3>2. k \in 1..k
      BY <1>1
    <3> QED
      BY <2>2, <2>3, <3>1, <3>2
  <2>4. CASE PrefixOf(p, k) \notin H
    <3>1. Good(k - 1) /\ \A n \in 1..(k - 1) : n \in 1..k
      BY <1>1, <1>11
    <3> QED
      BY <2>1, <2>2, <2>4, <3>1
  <2> QED
    BY <2>3, <2>4
<1> HIDE DEF Good
<1>12. \A k \in 0..L : k \in T
  <2> HIDE DEF T
  <2> QED
    BY <1>1, <1>10, <1>11, UpTo
<1>13. Good(L)
  BY <1>1, <1>12
<1> QED
  BY <1>8, <1>13 DEF Good, L, H

\* The invariant of the paths is what they promise, with their types.
UriInv == U!UriTypeOK /\ U!LongestPrefixAnswers

\* There are no handlers at first.
LEMMA UriInit ==
  U!UriInit => UriInv
<1> SUFFICES ASSUME U!UriInit PROVE UriInv
  OBVIOUS
<1>1. /\ file_handlers = {} /\ prefix_handlers = {}
      /\ asked_for = <<>> /\ missing = FALSE /\ declined = {} /\ response = <<>>
  BY DEF U!UriInit
<1> QED
  BY <1>1 DEF UriInv, U!UriTypeOK, U!LongestPrefixAnswers, U!Answers

\* Every handler that is added and every request keeps it.
LEMMA UriStep ==
  UriInv /\ [U!UriNext]_uri => UriInv'
<1> SUFFICES ASSUME UriInv, [U!UriNext]_uri
             PROVE  UriInv'
  OBVIOUS
<1>1. /\ file_handlers \subseteq FilePath /\ prefix_handlers \subseteq Path
      /\ asked_for \in Path \cup {<<>>} /\ declined \subseteq prefix_handlers
      /\ missing \in BOOLEAN
      /\ response = <<>> \/ response[1] \in {"file", "prefix"}
  BY DEF UriInv, U!UriTypeOK
<1>2. <<>> \notin FilePath
  BY PathAssumption
<1>3. CASE UNCHANGED uri
  BY <1>3 DEF uri, UriInv, U!UriTypeOK, U!LongestPrefixAnswers, U!Answers, U!IsStrictPrefix, U!IsPrefix
\* A change of the handlers comes with no request.
<1>4. ASSUME asked_for' = <<>>, missing' = FALSE, declined' = {}, response' = <<>>,
             file_handlers' \subseteq FilePath, prefix_handlers' \subseteq Path
      PROVE  UriInv'
  <2>1. ASSUME NEW q \in Path
        PROVE  ~U!Answers(q)'
    <3>1. q \in Seq(STRING) /\ <<>> \in Seq(STRING) /\ Len(<<>>) = 0 /\ 1..0 = {}
      BY PathAssumption
    <3>2. ~U!IsStrictPrefix(q, <<>>)
      BY <3>1, StrictPrefixes
    <3> QED
      BY <1>4, <3>2 DEF U!Answers, U!IsStrictPrefix, U!IsPrefix
  <2> QED
    BY <1>2, <1>4, <2>1 DEF UriInv, U!UriTypeOK, U!LongestPrefixAnswers
<1>5. ASSUME NEW p \in FilePath, U!add_file_handler(p)
      PROVE  UriInv'
  BY <1>1, <1>4, <1>5 DEF U!add_file_handler, U!NoRequest
<1>6. ASSUME NEW p \in Path, U!add_prefix_handler(p)
      PROVE  UriInv'
  BY <1>1, <1>4, <1>6 DEF U!add_prefix_handler, U!NoRequest
<1>7. ASSUME NEW p \in Path \ {<<>>}, NEW no \in SUBSET prefix_handlers, U!get_uri(p, no)
      PROVE  UriInv'
  <2>1. /\ asked_for' = p /\ declined' = no
        /\ p \in file_handlers =>
             \/ response' = <<"file", p>> /\ missing' = FALSE
             \/ response' = <<>> /\ missing' = TRUE
        /\ p \notin file_handlers => response' = U!Search(p, no) /\ missing' = FALSE
        /\ UNCHANGED <<file_handlers, prefix_handlers>>
    BY <1>7 DEF U!get_uri
  <2>2. p \in Seq(STRING) /\ \A q \in Path : q \in Seq(STRING)
    BY PathAssumption
  <2>3. \A q \in Path : U!Answers(q)' <=>
           q \in prefix_handlers \ no /\ \E n \in 1..Len(p) : q = PrefixOf(p, n)
    <3>1. \A q \in Path : U!IsStrictPrefix(q, p) <=> \E n \in 1..Len(p) : q = PrefixOf(p, n)
      BY <2>2, StrictPrefixes
    <3>2. \A q : U!Answers(q)' <=> q \in prefix_handlers \ no /\ U!IsStrictPrefix(q, p)
      BY <2>1 DEF U!Answers, U!IsStrictPrefix, U!IsPrefix
    <3> QED
      BY <3>1, <3>2
  <2>4. CASE p \in file_handlers
    <3>1. CASE response' = <<"file", p>> /\ missing' = FALSE
      <4>1. response' # <<>> /\ response'[1] = "file"
        BY <3>1
      <4> QED
        BY <1>1, <2>1, <3>1, <4>1 DEF UriInv, U!UriTypeOK, U!LongestPrefixAnswers
    \* The file is not there.
    <3>2. CASE response' = <<>> /\ missing' = TRUE
      BY <1>1, <2>1, <2>4, <3>2 DEF UriInv, U!UriTypeOK, U!LongestPrefixAnswers
    <3> QED
      BY <2>1, <2>4, <3>1, <3>2
  <2>5. CASE p \notin file_handlers
    <3>1. response' = U!Search(p, no) /\ missing' = FALSE
      BY <2>1, <2>5
    <3>2. ASSUME NEW n \in 1..Len(p), PrefixOf(p, n) \in prefix_handlers \ no,
                 U!Search(p, no) = Found(p, n),
                 \A m \in 1..Len(p) : m > n => PrefixOf(p, m) \notin prefix_handlers \ no
          PROVE  UriInv'
      <4>1. response' = <<"prefix", PrefixOf(p, n), SubSeq(p, n, Len(p))>>
        BY <3>1, <3>2 DEF Found
      <4>2. /\ response' # <<>> /\ response'[1] = "prefix"
            /\ response'[2] = PrefixOf(p, n) /\ response'[3] = SubSeq(p, n, Len(p))
        BY <4>1
      <4>3. response'[2] \o response'[3] = asked_for'
        BY <2>1, <2>2, <4>2, PrefixAndRest
      <4>4. PrefixOf(p, n) \in Path
        BY <1>1, <3>2
      <4>5. U!Answers(response[2])'
        <5>1. U!IsStrictPrefix(PrefixOf(p, n), p)
          BY <2>2, <4>4, StrictPrefixes
        <5> QED
          BY <2>1, <3>2, <4>2, <5>1 DEF U!Answers, U!IsStrictPrefix, U!IsPrefix
      <4>6. ASSUME NEW q \in Path, U!Answers(q)'
            PROVE  Len(q) <= Len(response'[2])
        <5>1. PICK m \in 1..Len(p) : q = PrefixOf(p, m)
          BY <2>3, <4>6
        <5>2. q \in prefix_handlers \ no
          BY <2>3, <4>6
        <5>3. ~(m > n)
          BY <3>2, <5>1, <5>2
        <5>4. Len(q) = m - 1 /\ Len(PrefixOf(p, n)) = n - 1
          BY <2>2, <5>1, PrefixAndRest
        <5> QED
          BY <2>2, <4>2, <5>3, <5>4
      <4> QED
        BY <1>1, <2>1, <2>5, <3>1, <4>2, <4>3, <4>5, <4>6 DEF UriInv, U!UriTypeOK, U!LongestPrefixAnswers
    <3>3. ASSUME U!Search(p, no) = <<>>,
                 \A m \in 1..Len(p) : PrefixOf(p, m) \notin prefix_handlers \ no
          PROVE  UriInv'
      <4>1. \A q \in Path : ~U!Answers(q)'
        BY <2>3, <3>3
      <4> QED
        BY <1>1, <2>1, <2>5, <3>1, <3>3, <4>1 DEF UriInv, U!UriTypeOK, U!LongestPrefixAnswers
    <3> QED
      BY <2>2, <3>2, <3>3, SearchFinds
  <2> QED
    BY <2>4, <2>5
<1> QED
  BY <1>3, <1>5, <1>6, <1>7 DEF U!UriNext

-----------------------------------------------------------------------------
(* HttpdHandlers: the pieces of a page                                      *)

\* The pieces up to the i-th, one after the other.
ArePrefixes(Q, C, seqs) ==
  /\ Q \in [0..Len(seqs) -> Seq(C)]
  /\ Q[0] = <<>> /\ \A i \in 1..Len(seqs) : Q[i] = Q[i - 1] \o seqs[i]

\* FlattenSeq puts them all together.
LEMMA FlattenUnfolds ==
  ASSUME NEW C, NEW seqs \in Seq(Seq(C))
  PROVE  \E Q : ArePrefixes(Q, C, seqs) /\ U!FlattenSeq(seqs) = Q[Len(seqs)]
<1> DEFINE n == Len(seqs)
           Recursive(f) ==
             f = [i \in 1..Len(seqs) |-> IF i = 1 THEN seqs[i] ELSE f[i - 1] \o seqs[i]]
           flatten == CHOOSE f : Recursive(f)
           step == [x \in (1..n) \X Seq(C) |-> x[2] \o seqs[x[1]]]
<1>1. n \in Nat /\ \A i \in 1..n : seqs[i] \in Seq(C)
  OBVIOUS
<1>2. \A i \in 1..n, s \in Seq(C) : step[<<i, s>>] = s \o seqs[i] /\ s \o seqs[i] \in Seq(C)
  <2> TAKE i \in 1..n, s \in Seq(C)
  <2>1. s \o seqs[i] \in Seq(C)
    BY <1>1, ConcatProperties
  <2>2. <<i, s>> \in (1..n) \X Seq(C)
    OBVIOUS
  <2> HIDE DEF n
  <2>3. step[<<i, s>>] = s \o seqs[i]
    BY <2>2
  <2> QED
    BY <2>1, <2>3
<1> HIDE DEF step
<1>3. StepsIn(step, Seq(C), n)
  BY <1>2 DEF StepsIn
<1>4. PICK Q \in [0..n -> Seq(C)] : IsRecursion(Q, <<>>, step, n)
  <2>1. <<>> \in Seq(C)
    OBVIOUS
  <2> DEFINE D == Seq(C)
  <2>2. n \in Nat /\ <<>> \in D /\ StepsIn(step, D, n)
    BY <1>1, <1>3, <2>1
  <2> HIDE DEF D, n
  <2>3. \E Q \in [0..n -> D] : IsRecursion(Q, <<>>, step, n)
    BY <2>2, RecursionExists
  <2> QED
    BY <2>3 DEF D
<1>5. Q[0] = <<>> /\ \A i \in 1..n : Q[i] = Q[i - 1] \o seqs[i] /\ Q[i - 1] \in Seq(C)
  <2> HIDE DEF n
  <2>1. \A i \in 1..n : i - 1 \in 0..n
    BY <1>1
  <2>2. \A i \in 1..n : Q[i - 1] \in Seq(C)
    BY <1>4, <2>1
  <2> QED
    BY <1>2, <1>4, <2>2 DEF IsRecursion
<1>6. ArePrefixes(Q, C, seqs)
  BY <1>4, <1>5 DEF ArePrefixes
<1>7. CASE n = 0
  <2>1. seqs = <<>>
    BY <1>7
  <2> QED
    BY <1>5, <1>6, <1>7, <2>1 DEF U!FlattenSeq
<1>8. CASE n # 0
  <2> DEFINE g == [i \in 1..n |-> Q[i]]
  <2>1. \A i \in 1..n : g[i] = IF i = 1 THEN seqs[i] ELSE g[i - 1] \o seqs[i]
    <3> TAKE i \in 1..n
    <3>1. g[i] = Q[i - 1] \o seqs[i] /\ seqs[i] \in Seq(C)
      BY <1>1, <1>5
    <3>2. CASE i = 1
      <4>1. Q[i - 1] = <<>>
        BY <1>5, <3>2
      <4> QED
        BY <3>1, <3>2, <4>1
    <3>3. CASE i # 1
      <4>1. i - 1 \in 1..n
        BY <1>1, <3>3
      <4> QED
        BY <3>1, <3>3, <4>1
    <3> QED
      BY <3>2, <3>3
  <2>2. Recursive(g)
    BY <2>1
  <2>3. Recursive(flatten)
    <3> HIDE DEF Recursive, g
    <3> QED
      BY <2>2
  <2>4. U!FlattenSeq(seqs) = flatten[n]
    BY <1>8 DEF U!FlattenSeq
  <2> HIDE DEF flatten
  <2>5. \A i \in 1..n : flatten[i] = IF i = 1 THEN seqs[i] ELSE flatten[i - 1] \o seqs[i]
    BY <2>3
  <2> HIDE DEF Recursive, g, n
  <2> DEFINE T == {i \in 0..n : i # 0 => flatten[i] = Q[i]}
  <2>6. 0 \in T
    BY <1>1
  <2>7. ASSUME NEW i \in 1..n, i - 1 \in T
        PROVE  i \in T
    <3>1. Q[i] = Q[i - 1] \o seqs[i] /\ seqs[i] \in Seq(C)
      BY <1>1, <1>5
    <3>2. CASE i = 1
      <4>1. Q[i - 1] = <<>>
        BY <1>5, <3>2
      <4>2. Q[i] = seqs[i]
        BY <3>1, <4>1, ConcatEmptySeq
      <4>3. flatten[i] = seqs[i]
        BY <2>5, <3>2
      <4> QED
        BY <4>2, <4>3 DEF T
    <3>3. CASE i # 1
      <4>1. flatten[i - 1] = Q[i - 1]
        BY <1>1, <2>7, <3>3
      <4>2. flatten[i] = flatten[i - 1] \o seqs[i]
        BY <2>5, <3>3
      <4>3. flatten[i] = Q[i]
        BY <3>1, <4>1, <4>2
      <4>4. i \in 0..n
        BY <1>1
      <4> QED
        BY <4>3, <4>4 DEF T
    <3> QED
      BY <3>2, <3>3
  <2> HIDE DEF T
  <2>8. \A i \in 0..n : i \in T
    BY <1>1, <2>6, <2>7, UpTo
  <2>9. flatten[n] = Q[n]
    BY <1>1, <1>8, <2>8 DEF T
  <2> QED
    BY <1>6, <2>4, <2>9 DEF n
<1> QED
  BY <1>7, <1>8

\* The characters of a page, its pieces, and the one that has a value.
Char == {"x", "space", "@", "k", "u", "v"}
IsText(p) == Len(p) = 1 /\ p[1] \in {"x", "space"}
IsName(p) == Len(p) = 5 /\ p[1] = "@" /\ p[2] = "@" /\ p[3] \in {"k", "u"} /\ p[4] = "@" /\ p[5] = "@"
Known == U!At2 \o <<"k">> \o U!At2

\* Two sequences one after the other.
LEMMA Joined ==
  ASSUME NEW C, NEW s \in Seq(C), NEW t \in Seq(C)
  PROVE  /\ s \o t \in Seq(C) /\ Len(s \o t) = Len(s) + Len(t)
         /\ \A i \in 1..Len(s) : (s \o t)[i] = s[i]
         /\ \A i \in 1..Len(t) : (s \o t)[Len(s) + i] = t[i]
<1>1. Len(s) \in Nat /\ Len(t) \in Nat
  OBVIOUS
<1>2. /\ s \o t \in Seq(C) /\ Len(s \o t) = Len(s) + Len(t)
      /\ \A i \in 1..(Len(s) + Len(t)) : (s \o t)[i] = IF i <= Len(s) THEN s[i] ELSE t[i - Len(s)]
  BY ConcatProperties
<1>3. ASSUME NEW i \in 1..Len(t)
      PROVE  (s \o t)[Len(s) + i] = t[i]
  <2>1. Len(s) + i \in 1..(Len(s) + Len(t)) /\ ~(Len(s) + i <= Len(s)) /\ (Len(s) + i) - Len(s) = i
    BY <1>1
  <2> QED
    BY <1>2, <2>1
<1> QED
  BY <1>1, <1>2, <1>3

\* A name has five characters.
LEMMA NameIsFive ==
  ASSUME NEW c \in Char
  PROVE  LET p == U!At2 \o <<c>> \o U!At2 IN
         /\ p \in Seq(Char) /\ Len(p) = 5
         /\ p[1] = "@" /\ p[2] = "@" /\ p[3] = c /\ p[4] = "@" /\ p[5] = "@"
<1> DEFINE a == U!At2
           b == <<c>>
           p == a \o b \o a
<1>1. a \in Seq(Char) /\ Len(a) = 2 /\ a[1] = "@" /\ a[2] = "@"
  BY DEF U!At2, Char
<1>2. b \in Seq(Char) /\ Len(b) = 1 /\ b[1] = c
  OBVIOUS
<1> HIDE DEF a, b
<1>3. /\ a \o b \in Seq(Char) /\ Len(a \o b) = 3
      /\ (a \o b)[1] = "@" /\ (a \o b)[2] = "@" /\ (a \o b)[3] = c
  <2>0. /\ a \o b \in Seq(Char) /\ Len(a \o b) = Len(a) + Len(b)
        /\ \A i \in 1..Len(a) : (a \o b)[i] = a[i]
        /\ \A i \in 1..Len(b) : (a \o b)[Len(a) + i] = b[i]
    <3>1. a \in Seq(Char) /\ b \in Seq(Char)
      BY <1>1, <1>2
    <3> QED
      BY <3>1, Joined
  <2>1. /\ a \o b \in Seq(Char) /\ Len(a \o b) = 2 + 1
        /\ \A i \in 1..2 : (a \o b)[i] = a[i]
        /\ \A i \in 1..1 : (a \o b)[2 + i] = b[i]
    BY <1>1, <1>2, <2>0
  <2>2. (a \o b)[2 + 1] = b[1]
    BY <2>1
  <2> QED
    BY <1>1, <1>2, <2>1, <2>2
<1> DEFINE ab == a \o b
<1> HIDE DEF ab
<1>4. /\ ab \o a \in Seq(Char) /\ Len(ab \o a) = 5
      /\ (ab \o a)[1] = "@" /\ (ab \o a)[2] = "@" /\ (ab \o a)[3] = c /\ (ab \o a)[4] = "@"
      /\ (ab \o a)[5] = "@"
  <2>1. ab \in Seq(Char) /\ Len(ab) = 3 /\ ab[1] = "@" /\ ab[2] = "@" /\ ab[3] = c
    BY <1>3 DEF ab
  <2>0. /\ ab \o a \in Seq(Char) /\ Len(ab \o a) = Len(ab) + Len(a)
        /\ \A i \in 1..Len(ab) : (ab \o a)[i] = ab[i]
        /\ \A i \in 1..Len(a) : (ab \o a)[Len(ab) + i] = a[i]
    <3>1. a \in Seq(Char) /\ ab \in Seq(Char)
      BY <1>1, <2>1
    <3> QED
      BY <3>1, Joined
  <2>2. /\ ab \o a \in Seq(Char) /\ Len(ab \o a) = 3 + 2
        /\ \A i \in 1..3 : (ab \o a)[i] = ab[i]
        /\ \A i \in 1..2 : (ab \o a)[3 + i] = a[i]
    BY <1>1, <2>1, <2>0
  <2>3. (ab \o a)[3 + 1] = a[1] /\ (ab \o a)[3 + 2] = a[2]
    BY <2>2
  <2> QED
    BY <1>1, <2>1, <2>2, <2>3
<1> QED
  BY <1>4 DEF ab, a, b

\* What the pieces of a page are, but for the stray mark.
LEMMA Pieces ==
  /\ Known \in Seq(Char) /\ Len(Known) = 5 /\ IsName(Known)
  /\ U!Piece \subseteq Seq(Char)
  /\ \A p \in U!Piece : p # <<"@">> => IsText(p) \/ IsName(p)
  /\ \A p \in U!Piece : IsName(p) => (p[3] = "k" <=> p = Known)
<1> DEFINE unknown == U!At2 \o <<"u">> \o U!At2
<1>1. /\ Known \in Seq(Char) /\ Len(Known) = 5
      /\ Known[1] = "@" /\ Known[2] = "@" /\ Known[3] = "k" /\ Known[4] = "@" /\ Known[5] = "@"
  <2>1. "k" \in Char
    BY DEF Char
  <2> QED
    BY <2>1, NameIsFive DEF Known
<1>2. /\ unknown \in Seq(Char) /\ Len(unknown) = 5
      /\ unknown[1] = "@" /\ unknown[2] = "@" /\ unknown[3] = "u" /\ unknown[4] = "@" /\ unknown[5] = "@"
  <2>1. "u" \in Char
    BY DEF Char
  <2> QED
    BY <2>1, NameIsFive
<1>3. U!Piece = {<<"x">>, <<"space">>, <<"@">>, Known, unknown}
  BY DEF U!Piece, Known
<1> HIDE DEF unknown
<1>4. IsText(<<"x">>) /\ IsText(<<"space">>) /\ <<"x">> \in Seq(Char) /\ <<"space">> \in Seq(Char)
      /\ <<"@">> \in Seq(Char) /\ Len(<<"x">>) = 1 /\ Len(<<"space">>) = 1 /\ Len(<<"@">>) = 1
  BY DEF IsText, Char
<1> QED
  BY <1>1, <1>2, <1>3, <1>4 DEF IsName

\* What the first pieces make, for every number of them.
Upto(seqs) ==
  LET f[i \in 0..Len(seqs)] == IF i = 0 THEN <<>> ELSE f[i - 1] \o seqs[i]
  IN  f

\* They are prefixes.
LEMMA UptoUnfolds ==
  ASSUME NEW C, NEW seqs \in Seq(Seq(C))
  PROVE  ArePrefixes(Upto(seqs), C, seqs) /\ U!FlattenSeq(seqs) = Upto(seqs)[Len(seqs)]
<1> DEFINE n == Len(seqs)
           Recursive(f) == f = [i \in 0..Len(seqs) |-> IF i = 0 THEN <<>> ELSE f[i - 1] \o seqs[i]]
           upto == CHOOSE f : Recursive(f)
<1>1. n \in Nat
  OBVIOUS
<1>2. PICK Q : ArePrefixes(Q, C, seqs) /\ U!FlattenSeq(seqs) = Q[n]
  BY FlattenUnfolds
<1>3. Recursive(Q)
  <2>1. Q \in [0..n -> Seq(C)]
    BY <1>2 DEF ArePrefixes
  <2>2. \A i \in 0..n : Q[i] = IF i = 0 THEN <<>> ELSE Q[i - 1] \o seqs[i]
    <3>1. Q[0] = <<>> /\ \A i \in 1..n : Q[i] = Q[i - 1] \o seqs[i]
      BY <1>2 DEF ArePrefixes
    <3>2. \A i \in 0..n : i # 0 => i \in 1..n
      BY <1>1
    <3> HIDE DEF n
    <3> QED
      BY <3>1, <3>2, Zenon
  <2>3. Q = [i \in 0..n |-> IF i = 0 THEN <<>> ELSE Q[i - 1] \o seqs[i]]
    <3> HIDE DEF n
    <3> QED
      BY <2>1, <2>2, Zenon
  <2> QED
    BY <2>3
<1>4. Recursive(upto)
  <2> HIDE DEF Recursive
  <2> QED
    BY <1>3
<1>5. Upto(seqs) = upto
  BY DEF Upto
<1> HIDE DEF upto
<1>6. upto = [i \in 0..n |-> upto[i]] /\ upto[0] = <<>>
      /\ \A i \in 1..n : upto[i] = upto[i - 1] \o seqs[i]
  <2>1. upto = [i \in 0..n |-> IF i = 0 THEN <<>> ELSE upto[i - 1] \o seqs[i]]
    BY <1>4
  <2> HIDE DEF n
  <2>2. \A i \in 0..n : upto[i] = IF i = 0 THEN <<>> ELSE upto[i - 1] \o seqs[i]
    BY <2>1
  <2>3. upto = [i \in 0..n |-> upto[i]]
    BY <2>1
  <2>4. 0 \in 0..n /\ \A i \in 1..n : i \in 0..n /\ i # 0
    BY <1>1
  <2> QED
    BY <2>2, <2>3, <2>4
<1> DEFINE T == {i \in 0..n : upto[i] = Q[i]}
<1>7. 0 \in T
  BY <1>1, <1>2, <1>6 DEF ArePrefixes
<1>8. ASSUME NEW i \in 1..n, i - 1 \in T
      PROVE  i \in T
  <2>1. Q[i] = Q[i - 1] \o seqs[i]
    BY <1>2 DEF ArePrefixes
  <2>2. upto[i - 1] = Q[i - 1] /\ i \in 0..n
    BY <1>1, <1>8
  <2>3. upto[i] = Q[i]
    BY <1>6, <2>1, <2>2
  <2> QED
    BY <2>2, <2>3
<1> HIDE DEF T
<1>9. \A i \in 0..n : i \in T
  BY <1>1, <1>7, <1>8, UpTo
<1>10. upto = Q
  <2>1. Q = [i \in 0..n |-> Q[i]]
    BY <1>2 DEF ArePrefixes
  <2>2. \A i \in 0..n : upto[i] = Q[i]
    BY <1>9 DEF T
  <2> HIDE DEF n
  <2> QED
    BY <1>6, <2>1, <2>2
<1> QED
  BY <1>2, <1>5, <1>10

\* Where a piece stands in the whole.
StandInOrder(Q, C, seqs) ==
  /\ \A i \in 0..Len(seqs) : Q[i] \in Seq(C) /\ Len(Q[i]) \in Nat
  /\ \A m \in 0..Len(seqs), i \in 0..Len(seqs) : i <= m => Len(Q[i]) <= Len(Q[m])
  /\ \A i \in 1..Len(seqs) : Len(Q[i]) = Len(Q[i - 1]) + Len(seqs[i])
  /\ \A i \in 1..Len(seqs) :
       \A x \in 1..Len(seqs[i]) : Q[Len(seqs)][Len(Q[i - 1]) + x] = seqs[i][x]

\* Every piece stands behind those before it.
LEMMA PieceIsThere ==
  ASSUME NEW C, NEW seqs \in Seq(Seq(C)), NEW Q, ArePrefixes(Q, C, seqs)
  PROVE  StandInOrder(Q, C, seqs)
<1> DEFINE n == Len(seqs)
<1>1. n \in Nat /\ \A i \in 1..n : seqs[i] \in Seq(C) /\ Len(seqs[i]) \in Nat
  OBVIOUS
<1> HIDE DEF n
<1>2. \A i \in 0..n : Q[i] \in Seq(C) /\ Len(Q[i]) \in Nat
  <2>1. \A i \in 0..n : Q[i] \in Seq(C)
    BY DEF ArePrefixes, n
  <2> QED
    BY <2>1
<1>3. \A i \in 1..n : Q[i] = Q[i - 1] \o seqs[i] /\ i - 1 \in 0..n /\ i \in 0..n
  <2>1. \A i \in 1..n : Q[i] = Q[i - 1] \o seqs[i]
    BY DEF ArePrefixes, n
  <2>2. \A i \in 1..n : i - 1 \in 0..n /\ i \in 0..n
    BY <1>1
  <2> QED
    BY <2>1, <2>2
<1>4. \A i \in 1..n : Len(Q[i]) = Len(Q[i - 1]) + Len(seqs[i])
  <2> TAKE i \in 1..n
  <2>1. Q[i - 1] \in Seq(C) /\ seqs[i] \in Seq(C)
    BY <1>1, <1>2, <1>3
  <2>2. \A s, t \in Seq(C) : Len(s \o t) = Len(s) + Len(t)
    BY Joined
  <2> QED
    BY <1>3, <2>1, <2>2
<1> DEFINE T == {m \in 0..n :
                   /\ \A i \in 0..n : i <= m => Len(Q[i]) <= Len(Q[m])
                   /\ \A i \in 1..n : i <= m =>
                        \A x \in 1..Len(seqs[i]) : Q[m][Len(Q[i - 1]) + x] = seqs[i][x]}
<1>5. 0 \in T
  BY <1>1, <1>2
<1>6. ASSUME NEW m \in 1..n, m - 1 \in T
      PROVE  m \in T
  <2> DEFINE before == Q[m - 1]
  <2>1. before \in Seq(C) /\ seqs[m] \in Seq(C) /\ Q[m] = before \o seqs[m]
    BY <1>1, <1>2, <1>3
  <2>2. /\ Len(Q[m]) = Len(before) + Len(seqs[m])
        /\ \A x \in 1..Len(before) : Q[m][x] = before[x]
        /\ \A x \in 1..Len(seqs[m]) : Q[m][Len(before) + x] = seqs[m][x]
    <3>1. \A s, t \in Seq(C) :
            /\ Len(s \o t) = Len(s) + Len(t)
            /\ \A x \in 1..Len(s) : (s \o t)[x] = s[x]
            /\ \A x \in 1..Len(t) : (s \o t)[Len(s) + x] = t[x]
      BY Joined
    <3> HIDE DEF before
    <3> QED
      BY <2>1, <3>1
  <2>3. Len(before) \in Nat /\ Len(seqs[m]) \in Nat /\ m \in 0..n /\ Len(Q[m]) \in Nat
    <3>1. m \in 0..n
      BY <1>1
    <3>2. Len(before) \in Nat
      BY <2>1
    <3> QED
      BY <1>1, <1>2, <3>1, <3>2
  <2>4. ASSUME NEW i \in 0..n, i <= m
        PROVE  Len(Q[i]) <= Len(Q[m])
    <3>1. CASE i = m
      BY <2>3, <3>1
    <3>2. CASE i # m
      <4>1. i <= m - 1
        BY <1>1, <2>4, <3>2
      <4>2. Len(Q[i]) <= Len(before) /\ Len(Q[i]) \in Nat
        BY <1>2, <1>6, <4>1
      <4>3. \A a, b, c \in Nat : a <= b => a <= b + c
        OBVIOUS
      <4> QED
        BY <2>2, <2>3, <4>2, <4>3
    <3> QED
      BY <3>1, <3>2
  <2>5. ASSUME NEW i \in 1..n, i <= m, NEW x \in 1..Len(seqs[i])
        PROVE  Q[m][Len(Q[i - 1]) + x] = seqs[i][x]
    <3>1. CASE i = m
      BY <2>2, <3>1
    <3>2. CASE i # m
      <4>1. i <= m - 1 /\ i \in 0..n /\ i - 1 \in 0..n
        BY <1>1, <2>5, <3>2
      <4>2. before[Len(Q[i - 1]) + x] = seqs[i][x]
        BY <1>6, <4>1
      <4>3. Len(Q[i]) <= Len(before)
        BY <1>6, <4>1
      <4>4. Len(Q[i]) = Len(Q[i - 1]) + Len(seqs[i]) /\ Len(Q[i - 1]) \in Nat /\ Len(seqs[i]) \in Nat
        BY <1>1, <1>2, <1>4, <4>1
      <4>5. Len(Q[i - 1]) + x \in 1..Len(before)
        <5>1. \A a, b, c, d \in Nat : \A y \in 1..b : a <= d /\ a = c + b => c + y \in 1..d
          OBVIOUS
        <5>2. Len(Q[i]) \in Nat
          BY <1>2, <4>1
        <5> QED
          BY <2>3, <4>3, <4>4, <5>1, <5>2
      <4> QED
        BY <2>2, <4>2, <4>5
    <3> QED
      BY <3>1, <3>2
  <2> HIDE DEF before
  <2> QED
    BY <1>3, <2>4, <2>5
<1> HIDE DEF T
<1>7. \A m \in 0..n : m \in T
  BY <1>1, <1>5, <1>6, UpTo
<1>8. \A m \in 0..n, i \in 0..n : i <= m => Len(Q[i]) <= Len(Q[m])
  BY <1>7 DEF T
<1>9. \A i \in 1..n : \A x \in 1..Len(seqs[i]) : Q[n][Len(Q[i - 1]) + x] = seqs[i][x]
  BY <1>1, <1>7 DEF T
<1> QED
  BY <1>2, <1>4, <1>8, <1>9 DEF n, StandInOrder

\* A piece is what stands there.
LEMMA PieceStandsThere ==
  ASSUME NEW C, NEW seqs \in Seq(Seq(C)), NEW Q, ArePrefixes(Q, C, seqs), NEW i \in 1..Len(seqs)
  PROVE  SubSeq(Q[Len(seqs)], Len(Q[i - 1]) + 1, Len(Q[i])) = seqs[i]
<1> DEFINE old == Q[Len(seqs)]
           a == Len(Q[i - 1])
           b == Len(seqs[i])
           t == seqs[i]
<1>1. Len(seqs) \in Nat /\ Len(seqs) \in 0..Len(seqs) /\ i - 1 \in 0..Len(seqs) /\ i \in 0..Len(seqs)
      /\ i <= Len(seqs)
  <2>1. \A n \in Nat : \A j \in 1..n : n \in 0..n /\ j - 1 \in 0..n /\ j \in 0..n /\ j <= n
    OBVIOUS
  <2> QED
    BY <2>1
<1>2. old \in Seq(C) /\ a \in Nat /\ Len(Q[i]) = a + b /\ Len(Q[i]) <= Len(old)
      /\ \A x \in 1..b : old[a + x] = t[x]
  <2>1. StandInOrder(Q, C, seqs)
    BY PieceIsThere
  <2> QED
    BY <1>1, <2>1 DEF StandInOrder
<1>3. t \in Seq(C) /\ b = Len(t)
  OBVIOUS
<1> HIDE DEF old, a, b, t
<1>4. Len(old) \in Nat /\ b \in Nat
  BY <1>2, <1>3
<1>5. SubSeq(old, a + 1, a + b) = t
  <2> DEFINE u == SubSeq(old, a + 1, a + b)
  <2>1. u \in Seq(C) /\ Len(u) = b /\ \A x \in 1..b : u[x] = old[a + x]
    <3>1. a + 1 \in 1..(Len(old) + 1) /\ a + b \in ((a + 1) - 1)..Len(old) /\ ((a + b) - (a + 1)) + 1 = b
      BY <1>2, <1>4
    <3>2. \A x \in 1..b : a + x \in 1..Len(old)
      BY <1>2, <1>4
    <3> QED
      BY <1>2, <1>4, <3>1, <3>2
  <2> HIDE DEF u
  <2>2. \A x \in 1..b : u[x] = t[x]
    BY <1>2, <2>1
  <2>3. Len(u) = Len(t) /\ \A x \in 1..Len(u) : u[x] = t[x]
    BY <1>3, <2>1, <2>2
  <2>4. u \in Seq(C) /\ t \in Seq(C)
    BY <1>3, <2>1
  <2>5. u = t
    BY <2>3, <2>4, SeqEqual
  <2> QED
    BY <2>5 DEF u
<1> QED
  BY <1>2, <1>5 DEF old, a, b, t

\* A page with nothing but text and names, what its pieces make, and what they
\* are to make.
Substituted(ps) ==
  [i \in DOMAIN ps |-> IF ps[i] = U!At2 \o <<"k">> \o U!At2 THEN <<"v">> ELSE ps[i]]

IsPage(ps, Q, O) ==
  /\ ps \in Seq(U!Piece) /\ \A i \in 1..Len(ps) : ps[i] # <<"@">>
  /\ ArePrefixes(Q, Char, ps) /\ ArePrefixes(O, Char, Substituted(ps))

\* What is to come out grows piece by piece.
ComesOut(ps, O) ==
  /\ O[0] = <<>>
  /\ \A i \in 0..Len(ps) : O[i] \in Seq(Char)
  /\ \A i \in 1..Len(ps) : O[i] = O[i - 1] \o (IF ps[i] = Known THEN <<"v">> ELSE ps[i])

\* What is said of a page above, of one.
LEMMA PageFacts ==
  ASSUME NEW ps, NEW Q, NEW O, IsPage(ps, Q, O)
  PROVE  /\ Len(ps) \in Nat /\ StandInOrder(Q, Char, ps) /\ ComesOut(ps, O)
         /\ ps \in Seq(Seq(Char))
         /\ \A i \in 1..Len(ps) : ps[i] \in Seq(Char) /\ (IsText(ps[i]) \/ IsName(ps[i]))
<1>1. ps \in Seq(U!Piece) /\ U!Piece \subseteq Seq(Char)
  BY Pieces DEF IsPage
<1>2. ps \in Seq(Seq(Char))
  BY <1>1, SeqMonotonic
<1>3. Len(ps) \in Nat /\ \A i \in 1..Len(ps) : ps[i] \in U!Piece
  BY <1>1
<1>4. StandInOrder(Q, Char, ps)
  BY <1>2, PieceIsThere DEF IsPage
<1>5. \A i \in 1..Len(ps) : ps[i] \in Seq(Char) /\ (IsText(ps[i]) \/ IsName(ps[i]))
  BY <1>1, <1>3, Pieces DEF IsPage
<1>6. /\ DOMAIN ps = 1..Len(ps)
      /\ Len(Substituted(ps)) = Len(ps)
      /\ \A i \in 1..Len(ps) : Substituted(ps)[i] = IF ps[i] = Known THEN <<"v">> ELSE ps[i]
  BY <1>1 DEF Substituted, Known
<1>7. ComesOut(ps, O)
  BY <1>6 DEF ComesOut, IsPage, ArePrefixes
<1> QED
  BY <1>2, <1>3, <1>4, <1>5, <1>7

\* What stands where a piece does.
LEMMA WhatStandsThere ==
  ASSUME NEW ps, NEW Q, NEW O, IsPage(ps, Q, O), NEW i \in 1..Len(ps)
  PROVE  LET old == Q[Len(ps)]
             a == Len(Q[i - 1])
         IN  /\ a \in Nat /\ old[a + 1] # "k"
             /\ IsText(ps[i]) => Len(Q[i]) = a + 1 /\ old[a + 1] # "@"
             /\ IsName(ps[i]) => /\ Len(Q[i]) = a + 5
                                 /\ old[a + 1] = "@" /\ old[a + 2] = "@" /\ old[a + 3] = ps[i][3]
                                 /\ old[a + 4] = "@" /\ old[a + 5] = "@"
<1>1. IsText(ps[i]) \/ IsName(ps[i])
  BY PageFacts
<1>2. Len(ps) \in Nat /\ StandInOrder(Q, Char, ps)
  BY PageFacts
<1>3. i - 1 \in 0..Len(ps)
  BY <1>2
<1>4. /\ Len(Q[i - 1]) \in Nat /\ Len(Q[i]) = Len(Q[i - 1]) + Len(ps[i])
      /\ \A x \in 1..Len(ps[i]) : Q[Len(ps)][Len(Q[i - 1]) + x] = ps[i][x]
  BY <1>2, <1>3 DEF StandInOrder
<1>5. CASE IsText(ps[i])
  <2>1. Len(ps[i]) = 1 /\ ps[i][1] # "@" /\ ps[i][1] # "k" /\ 1 \in 1..1
    BY <1>5 DEF IsText
  <2>2. ~IsName(ps[i])
    BY <2>1 DEF IsName
  <2> QED
    BY <1>4, <2>1, <2>2
<1>6. CASE IsName(ps[i])
  <2>1. Len(ps[i]) = 5 /\ ps[i][1] = "@" /\ ps[i][2] = "@" /\ ps[i][4] = "@" /\ ps[i][5] = "@"
    BY <1>6 DEF IsName
  <2>2. ~IsText(ps[i])
    BY <2>1 DEF IsText
  <2>3. \A x \in 1..5 : Q[Len(ps)][Len(Q[i - 1]) + x] = ps[i][x]
    BY <1>4, <2>1
  <2>4. 1 \in 1..5 /\ 2 \in 1..5 /\ 3 \in 1..5 /\ 4 \in 1..5 /\ 5 \in 1..5
    OBVIOUS
  <2> QED
    BY <1>4, <2>1, <2>2, <2>3, <2>4
<1> QED
  BY <1>1, <1>5, <1>6

\* A run of text comes out as it is.
AllText(ps, j, m) == \A i \in (j + 1)..m : IsText(ps[i])
IsRun(ps, Q, O, j, m) ==
  /\ \A k \in (Len(Q[j]) + 1)..Len(Q[m]) : Q[Len(ps)][k] # "@"
  /\ O[m] = O[j] \o SubSeq(Q[Len(ps)], Len(Q[j]) + 1, Len(Q[m]))

\* The pieces behind the j-th up to the m-th are a run if they are text.
LEMMA TextRun ==
  ASSUME NEW ps, NEW Q, NEW O, IsPage(ps, Q, O),
         NEW j \in 0..Len(ps), NEW m \in 0..Len(ps), j <= m,
         AllText(ps, j, m)
  PROVE  IsRun(ps, Q, O, j, m)
<1> DEFINE n == Len(ps)
           old == Q[Len(ps)]
           P == [i \in 0..n |-> Len(Q[i])]
<1>1. n \in Nat /\ StandInOrder(Q, Char, ps) /\ ComesOut(ps, O) /\ \A i \in 1..n : ps[i] \in Seq(Char)
  BY PageFacts
<1>2. /\ n \in 0..n
      /\ \A i \in 1..n : i - 1 \in 0..n /\ i \in 0..n /\ i <= n
  BY <1>1
<1>3. /\ old \in Seq(Char) /\ \A i \in 0..n : P[i] \in Nat /\ P[i] <= Len(old)
      /\ \A i \in 0..n : P[i] = Len(Q[i])
  <2>1. \A i \in 0..n : i <= n
    BY <1>1
  <2> QED
    BY <1>1, <1>2, <2>1 DEF StandInOrder
<1>4. \A i \in 0..n : O[i] \in Seq(Char)
  BY <1>1 DEF ComesOut
<1>5. ASSUME NEW i \in (j + 1)..m
      PROVE  /\ i \in 1..n /\ i - 1 \in 0..n /\ P[i] = P[i - 1] + 1 /\ old[P[i]] # "@"
             /\ O[i] = O[i - 1] \o SubSeq(old, P[i - 1] + 1, P[i])
  <2>1. i \in 1..n /\ i - 1 \in 0..n /\ i \in 0..n
    BY <1>1
  <2>2. IsText(ps[i])
    BY DEF AllText
  <2>3. Len(Q[i]) = Len(Q[i - 1]) + 1 /\ Q[Len(ps)][Len(Q[i - 1]) + 1] # "@"
    BY <2>1, <2>2, WhatStandsThere
  <2>4. P[i] = P[i - 1] + 1 /\ old[P[i]] # "@"
    BY <2>1, <2>3
  <2>5. ps[i] # Known
    <3>1. Len(ps[i]) = 1
      BY <2>2 DEF IsText
    <3>2. Len(Known) = 5
      BY Pieces
    <3>3. ps[i] = Known => Len(ps[i]) = 5
      BY <3>2
    <3> QED
      BY <3>1, <3>3
  <2>6. O[i] = O[i - 1] \o ps[i]
    BY <1>1, <2>1, <2>5 DEF ComesOut
  <2>7. SubSeq(Q[Len(ps)], Len(Q[i - 1]) + 1, Len(Q[i])) = ps[i]
    <3>1. ps \in Seq(Seq(Char)) /\ ArePrefixes(Q, Char, ps) /\ i \in 1..Len(ps)
      BY <2>1, PageFacts DEF IsPage
    <3> QED
      BY <3>1, PieceStandsThere
  <2>8. SubSeq(old, P[i - 1] + 1, P[i]) = ps[i]
    BY <2>1, <2>7
  <2> QED
    BY <2>1, <2>4, <2>6, <2>8
<1> HIDE DEF old, P, n
<1>6. n \in Nat /\ j \in 0..n /\ m \in 0..n /\ j \in Nat /\ m \in Nat /\ m - j \in Nat
  BY <1>1 DEF n
<1> DEFINE T == {d \in 0..(m - j) :
                   /\ \A k \in (P[j] + 1)..P[j + d] : old[k] # "@"
                   /\ P[j] <= P[j + d]
                   /\ O[j + d] = O[j] \o SubSeq(old, P[j] + 1, P[j + d])}
<1>7. 0 \in T
  <2>1. j + 0 = j /\ (P[j] + 1)..P[j] = {} /\ P[j] <= P[j] /\ P[j] < P[j] + 1
    BY <1>3, <1>6
  <2>2. SubSeq(old, P[j] + 1, P[j]) = <<>>
    BY <1>3, <1>6, <2>1, SubSeqEmpty
  <2>3. O[j] = O[j] \o <<>>
    BY <1>4, <1>6, ConcatEmptySeq
  <2>4. 0 \in 0..(m - j)
    BY <1>6
  <2> QED
    BY <2>1, <2>2, <2>3, <2>4
<1>8. ASSUME NEW d \in 1..(m - j), d - 1 \in T
      PROVE  d \in T
  <2> DEFINE i == j + d
  <2>1. i \in (j + 1)..m /\ j + (d - 1) = i - 1 /\ d \in 0..(m - j) /\ i \in 0..n
    BY <1>6
  <2> HIDE DEF i
  <2> DEFINE a == P[j]
             b == P[i - 1]
  <2>2. /\ i - 1 \in 0..n /\ P[i] = b + 1 /\ old[P[i]] # "@"
        /\ O[i] = O[i - 1] \o SubSeq(old, b + 1, P[i])
    BY <1>5, <2>1
  <2>3. /\ \A k \in (a + 1)..b : old[k] # "@"
        /\ a <= b
        /\ O[i - 1] = O[j] \o SubSeq(old, a + 1, b)
    BY <1>8, <2>1
  <2>4. a \in Nat /\ b \in Nat /\ P[i] <= Len(old) /\ Len(old) \in Nat
    <3>1. P[i] \in Nat /\ P[i] <= Len(old)
      BY <1>3, <2>1
    <3>2. a \in Nat /\ b \in Nat
      BY <1>3, <1>6, <2>2
    <3>3. Len(old) \in Nat
      BY <1>3
    <3> QED
      BY <3>1, <3>2, <3>3
  <2> DEFINE left == SubSeq(old, a + 1, b)
             right == SubSeq(old, b + 1, P[i])
             both == SubSeq(old, a + 1, P[i])
  <2>5. left \in Seq(Char) /\ right \in Seq(Char) /\ O[j] \in Seq(Char) /\ left \o right = both
    <3>1. /\ a + 1 \in 1..(Len(old) + 1) /\ b \in ((a + 1) - 1)..Len(old)
          /\ P[i] \in b..Len(old)
      <4>1. \A x, y, z \in Nat : x <= y /\ y + 1 <= z =>
              x + 1 \in 1..(z + 1) /\ y \in ((x + 1) - 1)..z /\ y + 1 \in y..z
        OBVIOUS
      <4> QED
        BY <2>2, <2>3, <2>4, <4>1
    <3>2. left \in Seq(Char)
      <4>1. \A k \in (a + 1)..b : old[k] \in Char
        BY <1>3, <2>4, <3>1
      <4> QED
        BY <2>4, <4>1, SubSeqProperties
    <3>3. right \in Seq(Char)
      <4>1. \A k \in (b + 1)..P[i] : old[k] \in Char
        BY <1>3, <2>4, <3>1
      <4>2. P[i] \in Int
        BY <2>2, <2>4
      <4> QED
        BY <2>4, <4>1, <4>2, SubSeqProperties
    <3>4. left \o right = both
      BY <1>3, <3>1, ConcatAdjacentSubSeq
    <3> QED
      BY <1>4, <1>6, <3>2, <3>3, <3>4
  <2> HIDE DEF left, right, both
  <2>6. (O[j] \o left) \o right = O[j] \o both
    <3> DEFINE first == O[j]
    <3>1. first \in Seq(Char) /\ left \in Seq(Char) /\ right \in Seq(Char)
      BY <2>5
    <3> HIDE DEF first
    <3>2. (first \o left) \o right = first \o (left \o right)
      BY SMTT(20), <3>1, ConcatAssociative
    <3> QED
      BY <2>5, <3>2 DEF first
  <2>7. O[i] = O[j] \o both
    BY <2>2, <2>3, <2>6 DEF left, right
  <2>8. \A k \in (a + 1)..P[i] : old[k] # "@"
    <3> TAKE k \in (a + 1)..P[i]
    <3>1. k \in (a + 1)..b \/ k = P[i]
      BY <2>2, <2>4
    <3> QED
      BY <2>2, <2>3, <3>1
  <2>9. a <= P[i]
    BY <2>2, <2>3, <2>4
  <2> QED
    BY <2>1, <2>7, <2>8, <2>9 DEF both, i
<1> HIDE DEF T
<1>9. \A d \in 0..(m - j) : d \in T
  BY <1>6, <1>7, <1>8, UpTo
<1>10. m - j \in T /\ j + (m - j) = m
  BY <1>6, <1>9
<1>11. /\ \A k \in (P[j] + 1)..P[m] : old[k] # "@"
       /\ O[m] = O[j] \o SubSeq(old, P[j] + 1, P[m])
  BY <1>10 DEF T
<1> QED
  BY <1>3, <1>6, <1>11 DEF old, IsRun

\* The marks of a page, and the ends of the name after one.
MarksIn(old) == {i \in 0..Len(old) - 2 : SubSeq(old, i + 1, i + 2) = U!At2}
EndsIn(old, i) == {x \in MarksIn(old) : x >= i + 2 /\ SubSeq(old, (i + 2) + 1, x) = <<"k">>}

\* A mark is two characters.
LEMMA IsMark ==
  ASSUME NEW old \in Seq(Char), NEW i \in Nat
  PROVE  i \in MarksIn(old) <=> i + 2 <= Len(old) /\ old[i + 1] = "@" /\ old[i + 2] = "@"
<1>1. Len(old) \in Nat
  OBVIOUS
<1>2. ASSUME i + 2 <= Len(old)
      PROVE  SubSeq(old, i + 1, i + 2) = U!At2 <=> old[i + 1] = "@" /\ old[i + 2] = "@"
  <2> DEFINE t == SubSeq(old, i + 1, i + 2)
  <2>1. t \in Seq(Char) /\ Len(t) = 2 /\ t[1] = old[i + 1] /\ t[2] = old[i + 2]
    <3>1. \A k \in (i + 1)..(i + 2) : old[k] \in Char
      BY <1>1, <1>2
    <3>2. /\ t \in Seq(Char)
          /\ Len(t) = IF i + 1 <= i + 2 THEN ((i + 2) - (i + 1)) + 1 ELSE 0
          /\ \A k \in 1..(((i + 2) - (i + 1)) + 1) : t[k] = old[((i + 1) + k) - 1]
      BY <3>1, SubSeqProperties
    <3>3. ((i + 2) - (i + 1)) + 1 = 2 /\ i + 1 <= i + 2
          /\ 1 \in 1..2 /\ 2 \in 1..2 /\ ((i + 1) + 1) - 1 = i + 1 /\ ((i + 1) + 2) - 1 = i + 2
      OBVIOUS
    <3>4. Len(t) = 2 /\ \A k \in 1..2 : t[k] = old[((i + 1) + k) - 1]
      BY <3>2, <3>3
    <3> QED
      BY <3>2, <3>3, <3>4
  <2>2. U!At2 \in Seq(Char) /\ Len(U!At2) = 2 /\ U!At2[1] = "@" /\ U!At2[2] = "@"
    BY DEF U!At2, Char
  <2> HIDE DEF t
  <2>3. ASSUME t[1] = "@", t[2] = "@"
        PROVE  t = U!At2
    <3>1. \A k \in 1..2 : k = 1 \/ k = 2
      OBVIOUS
    <3>2. Len(t) = Len(U!At2) /\ \A k \in 1..Len(t) : t[k] = U!At2[k]
      BY <2>1, <2>2, <2>3, <3>1
    <3>3. t \in Seq(Char) /\ U!At2 \in Seq(Char)
      BY <2>1, <2>2
    <3> QED
      BY <3>2, <3>3, SeqEqual
  <2>4. t = U!At2 => t[1] = "@" /\ t[2] = "@"
    BY <2>2
  <2>5. t = U!At2 <=> old[i + 1] = "@" /\ old[i + 2] = "@"
    BY <2>1, <2>3, <2>4
  <2> QED
    BY <2>5 DEF t
<1>3. i \in 0..(Len(old) - 2) <=> i + 2 <= Len(old)
  BY <1>1
<1> QED
  BY <1>2, <1>3 DEF MarksIn

\* Only "k" is a name with a value.
LEMMA EndOfName ==
  ASSUME NEW old \in Seq(Char), NEW i \in Nat, NEW x
  PROVE  x \in EndsIn(old, i) <=> x = i + 3 /\ i + 3 \in MarksIn(old) /\ old[i + 3] = "k"
<1>1. Len(old) \in Nat
  OBVIOUS
<1>2. ASSUME x \in MarksIn(old), x >= i + 2
      PROVE  SubSeq(old, (i + 2) + 1, x) = <<"k">> <=> x = i + 3 /\ old[i + 3] = "k"
  <2> DEFINE t == SubSeq(old, (i + 2) + 1, x)
  <2>1. x \in Nat /\ x <= Len(old) /\ (i + 2) + 1 = i + 3
    BY <1>1, <1>2 DEF MarksIn
  <2>2. \A k \in (i + 3)..x : old[k] \in Char
    BY <1>1, <2>1
  <2>3. /\ t \in Seq(Char) /\ Len(t) = IF i + 3 <= x THEN (x - (i + 3)) + 1 ELSE 0
        /\ \A k \in 1..((x - (i + 3)) + 1) : t[k] = old[((i + 3) + k) - 1]
    BY <2>1, <2>2, SubSeqProperties
  <2>4. "k" \in Char
    BY DEF Char
  <2> DEFINE u == <<"k">>
  <2>5. u \in Seq(Char) /\ Len(u) = 1 /\ u[1] = "k"
    BY <2>4
  <2> HIDE DEF t, u
  <2>6. ASSUME t = u
        PROVE  x = i + 3 /\ old[i + 3] = "k"
    <3>1. Len(t) = 1 /\ t[1] = "k"
      BY <2>5, <2>6
    <3>2. x = i + 3
      <4>1. \A y, j \in Nat : 1 = (IF j + 3 <= y THEN (y - (j + 3)) + 1 ELSE 0) => y = j + 3
        OBVIOUS
      <4> QED
        BY <2>1, <2>3, <3>1, <4>1
    <3>3. 1 \in 1..((x - (i + 3)) + 1) /\ ((i + 3) + 1) - 1 = i + 3
      BY <3>2
    <3>4. t[1] = old[i + 3]
      BY <2>3, <3>3
    <3> QED
      BY <3>1, <3>2, <3>4
  <2>7. ASSUME x = i + 3, old[i + 3] = "k"
        PROVE  t = u
    <3>1. 1 \in 1..((x - (i + 3)) + 1) /\ ((i + 3) + 1) - 1 = i + 3 /\ (x - (i + 3)) + 1 = 1 /\ i + 3 <= x
      BY <2>7
    <3>2. t[1] = "k" /\ Len(t) = 1
      BY <2>3, <2>7, <3>1
    <3>3. \A k \in 1..1 : k = 1
      OBVIOUS
    <3>4. Len(t) = Len(u) /\ \A k \in 1..Len(t) : t[k] = u[k]
      BY <2>5, <3>2, <3>3
    <3>5. t \in Seq(Char) /\ u \in Seq(Char)
      BY <2>3, <2>5
    <3> QED
      BY <3>4, <3>5, SeqEqual
  <2>8. t = u <=> x = i + 3 /\ old[i + 3] = "k"
    BY <2>6, <2>7
  <2> QED
    BY <2>8 DEF t, u
<1>3. i + 3 >= i + 2
  OBVIOUS
<1> QED
  BY <1>2, <1>3 DEF EndsIn

\* The marks of a name, and what begins at them.
MarkedAs(ps, old, m, a) ==
  /\ a \in Nat /\ a \in MarksIn(old) /\ a + 2 \notin MarksIn(old) /\ a + 3 \in MarksIn(old)
  /\ \A x : x \in EndsIn(old, a) <=> x = a + 3 /\ ps[m + 1] = Known
  /\ \A x : x \notin EndsIn(old, a + 3)

\* So a name has four characters that may be marks.
LEMMA MarksOfName ==
  ASSUME NEW ps, NEW Q, NEW O, IsPage(ps, Q, O), NEW m \in 0..(Len(ps) - 1), IsName(ps[m + 1])
  PROVE  MarkedAs(ps, Q[Len(ps)], m, Len(Q[m])) /\ Len(Q[m + 1]) = Len(Q[m]) + 5
<1> DEFINE n == Len(ps)
           old == Q[Len(ps)]
           a == Len(Q[m])
           i == m + 1
<1>1. n \in Nat /\ StandInOrder(Q, Char, ps) /\ \A k \in 1..n : ps[k] \in Seq(Char)
  BY PageFacts
<1>2. i \in 1..n /\ i - 1 = m /\ i \in 0..n /\ m \in 0..n /\ i <= n /\ n \in 0..n
  BY <1>1
<1>3. /\ a \in Nat /\ Len(Q[i]) = a + 5
      /\ old[a + 1] = "@" /\ old[a + 2] = "@" /\ old[a + 3] = ps[i][3]
      /\ old[a + 4] = "@" /\ old[a + 5] = "@"
  <2>1. LET a0 == Len(Q[i - 1]) IN
        /\ a0 \in Nat /\ Len(Q[i]) = a0 + 5
        /\ old[a0 + 1] = "@" /\ old[a0 + 2] = "@" /\ old[a0 + 3] = ps[i][3]
        /\ old[a0 + 4] = "@" /\ old[a0 + 5] = "@"
    BY <1>2, WhatStandsThere
  <2> QED
    BY <1>2, <2>1
<1>4. old \in Seq(Char) /\ Len(old) \in Nat /\ a + 5 <= Len(old)
  BY <1>1, <1>2, <1>3 DEF StandInOrder
<1>5. ps[i][3] # "@" /\ (ps[i][3] = "k" <=> ps[i] = Known)
  <2>1. ps[i] \in U!Piece
    BY <1>2 DEF IsPage
  <2> QED
    BY <2>1, Pieces DEF IsName
<1>6. a + 5 = Len(old) \/ old[a + 6] # "k"
  <2>1. CASE i = n
    BY <1>3, <2>1
  <2>2. CASE i # n
    <3>1. i + 1 \in 1..n /\ (i + 1) - 1 = i
      BY <1>1, <1>2, <2>2
    <3>2. LET a0 == Len(Q[(i + 1) - 1]) IN old[a0 + 1] # "k"
      BY <3>1, WhatStandsThere
    <3>3. (a + 5) + 1 = a + 6
      BY <1>3
    <3> QED
      BY <1>3, <3>1, <3>2, <3>3
  <2> QED
    BY <2>1, <2>2
<1> HIDE DEF old, a, i, n
<1>7. a + 2 \in Nat /\ a + 3 \in Nat
  BY <1>3
<1>8. a \in MarksIn(old)
  BY SMTT(20), <1>3, <1>4, IsMark
<1>9. a + 2 \notin MarksIn(old)
  <2>1. (a + 2) + 1 = a + 3
    BY <1>3
  <2> QED
    BY <1>3, <1>4, <1>5, <1>7, <2>1, IsMark
<1>10. a + 3 \in MarksIn(old)
  <2>1. (a + 3) + 1 = a + 4 /\ (a + 3) + 2 = a + 5
    BY <1>3
  <2> QED
    BY <1>3, <1>4, <1>7, <2>1, IsMark
<1>11. \A x : x \in EndsIn(old, a) <=> x = a + 3 /\ ps[i] = Known
  BY <1>3, <1>4, <1>5, <1>10, EndOfName
<1>12. ASSUME NEW x, x \in EndsIn(old, a + 3)
       PROVE  FALSE
  <2>1. (a + 3) + 3 \in MarksIn(old) /\ old[(a + 3) + 3] = "k"
    BY <1>4, <1>7, <1>12, EndOfName
  <2>2. (a + 3) + 3 = a + 6 /\ a + 6 \in Nat
    BY SMTT(20), <1>3
  <2>3. (a + 6) + 2 <= Len(old)
    BY <1>4, <2>1, <2>2, IsMark
  <2>4. a + 5 # Len(old)
    BY <1>3, <1>4, <2>3
  <2> QED
    BY <1>6, <2>1, <2>2, <2>4
<1> QED
  BY <1>3, <1>8, <1>9, <1>10, <1>11, <1>12 DEF old, a, i, MarkedAs

\* From the end of a piece on, the next mark begins a name.
NoMoreNames(ps, Q, O, j) ==
  /\ \A x \in MarksIn(Q[Len(ps)]) : x < Len(Q[j])
  /\ O[Len(ps)] = O[j] \o SubSeq(Q[Len(ps)], Len(Q[j]) + 1, Len(Q[Len(ps)]))

\* Or the next name is the m-th piece but one, behind a run of text.
IsNextName(ps, Q, O, j, m) ==
  /\ IsName(ps[m + 1])
  /\ Len(Q[j]) <= Len(Q[m])
  /\ \A x \in MarksIn(Q[Len(ps)]) : x >= Len(Q[j]) => x >= Len(Q[m])
  /\ O[m] = O[j] \o SubSeq(Q[Len(ps)], Len(Q[j]) + 1, Len(Q[m]))

\* One or the other.
LEMMA NextName ==
  ASSUME NEW ps, NEW Q, NEW O, IsPage(ps, Q, O), NEW j \in 0..Len(ps)
  PROVE  NoMoreNames(ps, Q, O, j) \/ \E m \in 0..(Len(ps) - 1) : IsNextName(ps, Q, O, j, m)
<1> DEFINE n == Len(ps)
           old == Q[Len(ps)]
           Stops == {m \in 0..n : j <= m /\ (m = n \/ IsName(ps[m + 1]))}
<1>1. n \in Nat /\ StandInOrder(Q, Char, ps) /\ \A i \in 1..n : IsText(ps[i]) \/ IsName(ps[i])
  BY PageFacts
<1>2. \E m \in Stops : \A k \in Stops : m <= k
  <2>1. n \in Stops
    BY <1>1
  <2>2. Stops \subseteq Nat
    BY <1>1
  <2> HIDE DEF Stops, n
  <2> QED
    BY <2>1, <2>2, LeastNatural
<1>3. PICK m \in Stops : \A k \in Stops : m <= k
  BY <1>2
<1>4. m \in 0..n /\ j \in 0..n /\ j <= m /\ n \in 0..n
  BY <1>1
<1>5. \A i \in (j + 1)..m : IsText(ps[i])
  <2> SUFFICES ASSUME NEW i \in (j + 1)..m, ~IsText(ps[i]) PROVE FALSE
    OBVIOUS
  <2>1. i \in 1..n /\ i - 1 \in 0..n /\ j <= i - 1 /\ (i - 1) + 1 = i /\ ~(m <= i - 1)
    BY <1>1, <1>4
  <2>2. IsName(ps[i])
    BY <1>1, <2>1
  <2>3. i - 1 \in Stops
    BY <2>1, <2>2
  <2> QED
    BY <1>3, <2>1, <2>3
<1>6. /\ \A k \in (Len(Q[j]) + 1)..Len(Q[m]) : Q[Len(ps)][k] # "@"
      /\ O[m] = O[j] \o SubSeq(Q[Len(ps)], Len(Q[j]) + 1, Len(Q[m]))
  <2> HIDE DEF Stops, old
  <2>1. m \in 0..Len(ps) /\ j <= m
    BY <1>4
  <2> HIDE DEF n
  <2>2. AllText(ps, j, m)
    BY <1>5 DEF AllText
  <2>3. IsRun(ps, Q, O, j, m)
    BY <2>1, <2>2, TextRun
  <2> QED
    BY <2>3 DEF IsRun
<1>7. /\ old \in Seq(Char) /\ Len(Q[j]) \in Nat /\ Len(Q[m]) \in Nat /\ Len(Q[j]) <= Len(Q[m])
      /\ Len(old) \in Nat
  BY <1>1, <1>4 DEF StandInOrder
<1>8. ASSUME NEW x \in MarksIn(old), x >= Len(Q[j])
      PROVE  x >= Len(Q[m])
  <2>1. x \in Nat
    BY <1>7 DEF MarksIn
  <2>2. old[x + 1] = "@"
    BY <1>7, <2>1, IsMark
  <2>3. \A a, b \in Nat : a <= x /\ ~(x >= b) => x + 1 \in (a + 1)..b
    BY <2>1
  <2> QED
    BY <1>6, <1>7, <1>8, <2>1, <2>2, <2>3
<1>9. CASE m = n
  <2>1. ASSUME NEW x \in MarksIn(old)
        PROVE  x < Len(Q[j])
    <3>1. x \in Nat /\ x + 2 <= Len(old)
      BY <1>7 DEF MarksIn
    <3>2. x >= Len(Q[j]) => x >= Len(old)
      BY <1>8, <1>9
    <3>3. \A a, b \in Nat : x + 2 <= b /\ (x >= a => x >= b) => x < a
      BY <3>1
    <3> QED
      BY <1>7, <3>1, <3>2, <3>3
  <2> QED
    BY <1>6, <1>9, <2>1 DEF NoMoreNames
<1>10. CASE m # n
  <2>1. m \in 0..(n - 1) /\ IsName(ps[m + 1])
    BY <1>1, <1>4, <1>10
  <2>2. IsNextName(ps, Q, O, j, m)
    BY <1>6, <1>7, <1>8, <2>1 DEF IsNextName
  <2> HIDE DEF Stops
  <2> QED
    BY <2>1, <2>2
<1> QED
  BY <1>9, <1>10

\* The names whose value is not empty are the "k".
LEMMA EndsAre ==
  ASSUME NEW i
  PROVE  U!Marks = MarksIn(old_payload) /\ U!Ends(i) = EndsIn(old_payload, i)
<1>1. U!Marks = MarksIn(old_payload)
  BY DEF U!Marks, MarksIn
<1>2. ASSUME NEW s
      PROVE  ~U!Contains(s, "space") /\ U!get_value_of(s) # <<>> <=> s = <<"k">>
  <2>1. ASSUME s = <<"k">>
        PROVE  ~U!Contains(s, "space")
    <3>1. Len(s) = 1 /\ s[1] = "k" /\ "k" # "space"
      BY <2>1
    <3>2. \A k \in 1..1 : k = 1
      OBVIOUS
    <3> QED
      BY <3>1, <3>2 DEF U!Contains
  <2>2. <<"v">> # <<>>
    OBVIOUS
  <2> QED
    BY <2>1, <2>2 DEF U!get_value_of
<1>3. U!Ends(i) = {x \in U!Marks : x >= i + 2 /\ U!substr(i + 2, x) = <<"k">>}
  BY <1>2 DEF U!Ends
<1> QED
  BY <1>1, <1>3 DEF EndsIn, U!substr

\* One turn of the loop.
TurnTo(next) ==
  /\ next \in MarksIn(old_payload) /\ next >= cur
  /\ \A i \in MarksIn(old_payload) : i >= cur => next <= i
  /\ \/ /\ EndsIn(old_payload, next) = {}
        /\ payload' = payload \o SubSeq(old_payload, cur + 1, next) \o U!At2
        /\ cur' = next + 2
     \/ \E x \in EndsIn(old_payload, next) :
          /\ payload' = payload \o SubSeq(old_payload, cur + 1, next) \o <<"v">>
          /\ cur' = x + 2

\* A step is a turn of the loop with some next mark.
LEMMA Turn ==
  ASSUME U!Substitute
  PROVE  \E next : TurnTo(next)
<1> DEFINE marks == {i \in U!Marks : i >= cur}
           next == CHOOSE i \in marks : \A j \in marks : i <= j
           x == CHOOSE x \in U!Ends(next) : \A y \in U!Ends(next) : x <= y
<1>1. marks # {} /\ marks \subseteq Nat
  BY DEF U!Substitute, U!Marks
<1>2. IF U!Ends(next) # {}
        THEN /\ payload' = payload \o U!substr(cur, next) \o U!get_value_of(U!substr(next + 2, x))
             /\ cur' = x + 2
        ELSE /\ payload' = payload \o U!substr(cur, next) \o U!At2
             /\ cur' = next + 2
  BY DEF U!Substitute
<1>3. next \in marks /\ \A j \in marks : next <= j
  <2>1. \E i \in marks : \A j \in marks : i <= j
    <3> HIDE DEF marks
    <3> QED
      BY <1>1, LeastNatural
  <2> HIDE DEF marks
  <2> QED
    BY <2>1
<1>4. CASE U!Ends(next) # {}
  <2>1. U!Ends(next) \subseteq Nat
    BY DEF U!Ends, U!Marks
  <2>2. x \in U!Ends(next)
    <3> DEFINE ends == U!Ends(next)
    <3>1. ends # {} /\ ends \subseteq Nat
      BY <1>4, <2>1
    <3> HIDE DEF ends
    <3>2. \E y \in ends : \A z \in ends : y <= z
      BY <3>1, LeastNatural
    <3>3. (CHOOSE y \in ends : \A z \in ends : y <= z) \in ends
      BY <3>2
    <3> QED
      BY <3>3 DEF ends
  <2> HIDE DEF x, next, marks
  <2>3. x \in EndsIn(old_payload, next)
    BY <2>2, EndsAre
  <2>4. U!get_value_of(U!substr(next + 2, x)) = <<"v">>
    BY <2>3 DEF EndsIn, U!substr, U!get_value_of
  <2>5. payload' = payload \o U!substr(cur, next) \o <<"v">> /\ cur' = x + 2
    BY <1>2, <1>4, <2>4
  <2>6. U!substr(cur, next) = SubSeq(old_payload, cur + 1, next)
    BY DEF U!substr
  <2>7. next \in MarksIn(old_payload) /\ next >= cur /\ \A i \in MarksIn(old_payload) : i >= cur => next <= i
    BY <1>3, EndsAre DEF marks
  <2>8. TurnTo(next)
    BY <2>3, <2>5, <2>6, <2>7 DEF TurnTo
  <2> QED
    BY <2>8
<1>5. CASE U!Ends(next) = {}
  <2> HIDE DEF x, next, marks
  <2>1. EndsIn(old_payload, next) = {}
    BY <1>5, EndsAre
  <2>2. payload' = payload \o U!substr(cur, next) \o U!At2 /\ cur' = next + 2
    BY <1>2, <1>5
  <2>3. U!substr(cur, next) = SubSeq(old_payload, cur + 1, next)
    BY DEF U!substr
  <2>4. next \in MarksIn(old_payload) /\ next >= cur /\ \A i \in MarksIn(old_payload) : i >= cur => next <= i
    BY <1>3, EndsAre DEF marks
  <2>5. TurnTo(next)
    BY <2>1, <2>2, <2>3, <2>4 DEF TurnTo
  <2> QED
    BY <2>5
<1> QED
  BY <1>4, <1>5

\* The pages that are checked, and how much of one has come out.
IsPlain == \A i \in 1..Len(pieces) : pieces[i] # <<"@">>
Made == Upto(pieces)
ToMake == Upto(Substituted(pieces))

\* The j-th piece has come out, or the marks of the unknown name behind it.
Reached(j) ==
  \/ payload = ToMake[j] /\ cur = Len(Made[j])
  \/ /\ j < Len(pieces) /\ IsName(pieces[j + 1]) /\ pieces[j + 1] # Known
     /\ payload = ToMake[j] \o U!At2 /\ cur = Len(Made[j]) + 2

\* The loop is at such a place, and everything has come out when it is done.
PageInv ==
  /\ pieces \in Seq(U!Piece) /\ Len(pieces) <= MaxPieces
  /\ old_payload = U!FlattenSeq(pieces)
  /\ cur \in 0..Len(old_payload) /\ done \in BOOLEAN
  /\ IsPlain /\ done => payload = ToMake[Len(pieces)] /\ cur = Len(old_payload)
  /\ IsPlain /\ ~done => \E j \in 0..Len(pieces) : Reached(j)

\* The pieces are sequences of characters.
LEMMA PieceSequences ==
  ASSUME NEW ps \in Seq(U!Piece)
  PROVE  ps \in Seq(Seq(Char)) /\ Substituted(ps) \in Seq(Seq(Char)) /\ Len(Substituted(ps)) = Len(ps)
<1>1. U!Piece \subseteq Seq(Char)
  BY Pieces
<1>2. ps \in Seq(Seq(Char))
  BY <1>1, SeqMonotonic
<1>3. <<"v">> \in Seq(Char)
  BY DEF Char
<1>4. Len(ps) \in Nat /\ DOMAIN ps = 1..Len(ps) /\ \A i \in 1..Len(ps) : ps[i] \in Seq(Char)
  BY <1>2
<1> DEFINE D == Seq(Char)
           v == <<"v">>
           mark == U!At2 \o <<"k">> \o U!At2
           s == [i \in 1..Len(ps) |-> IF ps[i] = mark THEN v ELSE ps[i]]
<1>5. Substituted(ps) = s
  BY <1>4 DEF Substituted
<1>6. \A i \in 1..Len(ps) : ps[i] \in D /\ v \in D
  BY <1>3, <1>4
<1> HIDE DEF D, v, mark
<1>7. s \in Seq(D) /\ Len(s) = Len(ps)
  BY <1>4, <1>6
<1> QED
  BY <1>2, <1>5, <1>7 DEF D

\* What UptoUnfolds says of a page.
LEMMA PageIs ==
  ASSUME pieces \in Seq(U!Piece), old_payload = U!FlattenSeq(pieces)
  PROVE  /\ old_payload = Made[Len(pieces)] /\ old_payload \in Seq(Char)
         /\ U!FlattenSeq(Substituted(pieces)) = ToMake[Len(pieces)]
         /\ IsPlain => IsPage(pieces, Made, ToMake)
<1>1. /\ pieces \in Seq(Seq(Char)) /\ Substituted(pieces) \in Seq(Seq(Char))
      /\ Len(Substituted(pieces)) = Len(pieces)
  BY PieceSequences
<1>2. /\ ArePrefixes(Made, Char, pieces) /\ old_payload = Made[Len(pieces)]
      /\ ArePrefixes(ToMake, Char, Substituted(pieces))
      /\ U!FlattenSeq(Substituted(pieces)) = ToMake[Len(pieces)]
  BY <1>1, UptoUnfolds DEF Made, ToMake
<1>3. old_payload \in Seq(Char)
  <2>1. Len(pieces) \in 0..Len(pieces)
    BY <1>1
  <2> QED
    BY <1>2, <2>1 DEF ArePrefixes
<1> QED
  BY <1>2, <1>3 DEF IsPage, IsPlain

\* A bounded sequence of pieces is one that is not too long.
LEMMA BoundedPieces ==
  ASSUME NEW T, NEW n \in Nat, NEW s
  PROVE  s \in U!BoundedSeq(T, n) <=> s \in Seq(T) /\ Len(s) <= n
<1>1. U!BoundedSeq(T, n) = W!BoundedSeq(T, n)
  BY DEF U!BoundedSeq, W!BoundedSeq, U!SeqOf, W!SeqOf
<1> QED
  BY <1>1, BoundedSequence

\* So the page is made as it should be.
LEMMA PageInvImplies ==
  ASSUME PageInv
  PROVE  U!PageTypeOK /\ U!PageIsSubstituted
<1> USE DEF PageInv
<1>1. U!PageTypeOK
  BY PieceAssumption, BoundedPieces DEF U!PageTypeOK
<1>2. ASSUME done, ~U!Contains(pieces, <<"@">>)
      PROVE  payload = U!FlattenSeq([i \in DOMAIN pieces |->
                IF pieces[i] = U!At2 \o <<"k">> \o U!At2 THEN <<"v">> ELSE pieces[i]])
  <2>1. IsPlain
    BY <1>2 DEF IsPlain, U!Contains
  <2>2. payload = U!FlattenSeq(Substituted(pieces))
    BY <1>2, <2>1, PageIs
  <2> QED
    BY <2>2 DEF Substituted
<1> QED
  BY <1>1, <1>2 DEF U!PageIsSubstituted

\* Nothing has come out at first.
LEMMA PageInit ==
  ASSUME U!PageInit
  PROVE  PageInv
<1>1. /\ pieces \in Seq(U!Piece) /\ Len(pieces) <= MaxPieces
      /\ old_payload = U!FlattenSeq(pieces)
      /\ payload = <<>> /\ cur = 0 /\ done = FALSE
  BY PieceAssumption, BoundedPieces DEF U!PageInit
<1>2. old_payload \in Seq(Char) /\ (IsPlain => IsPage(pieces, Made, ToMake))
  BY <1>1, PageIs
<1>3. cur \in 0..Len(old_payload)
  BY <1>1, <1>2
<1>4. ASSUME IsPlain
      PROVE  0 \in 0..Len(pieces) /\ Reached(0)
  <2>1. ToMake[0] = <<>> /\ Made[0] = <<>> /\ Len(pieces) \in Nat
    BY <1>2, <1>4, PageFacts DEF ComesOut, IsPage, ArePrefixes
  <2> QED
    BY <1>1, <2>1 DEF Reached
<1> QED
  BY <1>1, <1>3, <1>4 DEF PageInv

\* A turn gets a plain page from one place to the next.
LEMMA PlainTurn ==
  ASSUME PageInv, IsPlain, NEW next, TurnTo(next), NEW j \in 0..Len(pieces), Reached(j)
  PROVE  \E k \in 0..Len(pieces) :
           \/ payload' = ToMake[k] /\ cur' = Len(Made[k])
           \/ /\ k < Len(pieces) /\ IsName(pieces[k + 1]) /\ pieces[k + 1] # Known
              /\ payload' = ToMake[k] \o U!At2 /\ cur' = Len(Made[k]) + 2
<1> DEFINE ps == pieces
           Q == Made
           O == ToMake
           n == Len(pieces)
           old == Made[Len(pieces)]
<1>1. IsPage(ps, Q, O) /\ old_payload = old /\ old \in Seq(Char)
  BY PageIs DEF PageInv
<1>2. /\ n \in Nat /\ StandInOrder(Q, Char, ps) /\ ComesOut(ps, O)
      /\ \A i \in 1..n : ps[i] \in Seq(Char)
  BY <1>1, PageFacts
<1>3. /\ next \in MarksIn(old) /\ next >= cur
      /\ \A i \in MarksIn(old) : i >= cur => next <= i
      /\ \/ /\ EndsIn(old, next) = {}
            /\ payload' = payload \o SubSeq(old, cur + 1, next) \o U!At2
            /\ cur' = next + 2
         \/ \E x \in EndsIn(old, next) :
              /\ payload' = payload \o SubSeq(old, cur + 1, next) \o <<"v">>
              /\ cur' = x + 2
  BY <1>1 DEF TurnTo
<1>4. next \in Nat
  BY <1>3 DEF MarksIn
<1> HIDE DEF old
<1>5. CASE payload = O[j] /\ cur = Len(Q[j])
  <2>1. PICK m \in 0..(n - 1) :
          /\ IsName(ps[m + 1])
          /\ Len(Q[j]) <= Len(Q[m])
          /\ \A x \in MarksIn(old) : x >= Len(Q[j]) => x >= Len(Q[m])
          /\ O[m] = O[j] \o SubSeq(old, Len(Q[j]) + 1, Len(Q[m]))
    <3>1. Len(Q[j]) \in Nat
      BY <1>2 DEF StandInOrder
    <3>2. ~(\A x \in MarksIn(old) : x < Len(Q[j]))
      BY <1>3, <1>4, <1>5, <3>1
    <3>3. ~NoMoreNames(ps, Q, O, j)
      BY <3>2 DEF NoMoreNames, old
    <3>4. PICK m \in 0..(n - 1) : IsNextName(ps, Q, O, j, m)
      BY <1>1, <3>3, NextName
    <3>5. m >= 0 /\ m \in 0..(n - 1)
      BY <1>2
    <3> QED
      BY <3>4, <3>5 DEF IsNextName, old
  <2> DEFINE a == Len(Q[m])
  <2>2. /\ a \in Nat /\ a \in MarksIn(old) /\ Len(Q[m + 1]) = a + 5
        /\ \A x : x \in EndsIn(old, a) <=> x = a + 3 /\ ps[m + 1] = Known
    <3>1. MarkedAs(ps, old, m, a) /\ Len(Q[m + 1]) = a + 5
      BY <1>1, <2>1, MarksOfName DEF old
    <3> QED
      BY <3>1 DEF MarkedAs
  <2>3. next = a
    <3>1. a >= cur
      BY <1>5, <2>1
    <3>2. next <= a /\ next >= a
      BY <1>3, <1>5, <2>1, <2>2, <3>1
    <3> QED
      BY <1>4, <2>2, <3>2
  <2>4. m \in 0..n /\ m + 1 \in 0..n /\ m + 1 \in 1..n /\ (m + 1) - 1 = m /\ m < n
    BY <1>2
  <2>5. payload \o SubSeq(old, cur + 1, next) = O[m]
    BY <1>5, <2>1, <2>3
  <2>6. CASE ps[m + 1] = Known
    <3>1. O[m + 1] = O[m] \o <<"v">>
      BY <1>2, <2>4, <2>6 DEF ComesOut
    <3>2. \A x : x \in EndsIn(old, next) <=> x = a + 3
      BY <2>2, <2>3, <2>6
    <3>3. payload' = O[m] \o <<"v">> /\ cur' = (a + 3) + 2
      BY <1>3, <2>5, <3>2
    <3>4. cur' = Len(Q[m + 1])
      BY <2>2, <3>3
    <3> QED
      BY <2>4, <3>1, <3>3, <3>4
  <2>7. CASE ps[m + 1] # Known
    <3>1. EndsIn(old, next) = {}
      BY <2>2, <2>3, <2>7
    <3>2. payload' = O[m] \o U!At2 /\ cur' = a + 2
      BY <1>3, <2>3, <2>5, <3>1
    <3> QED
      BY <2>1, <2>4, <2>7, <3>2
  <2> QED
    BY <2>6, <2>7
<1>6. CASE /\ j < n /\ IsName(ps[j + 1]) /\ ps[j + 1] # Known
           /\ payload = O[j] \o U!At2 /\ cur = Len(Q[j]) + 2
  <2> DEFINE a == Len(Q[j])
  <2>1. j \in 0..(n - 1) /\ j + 1 \in 0..n /\ j + 1 \in 1..n /\ (j + 1) - 1 = j /\ j \in 0..n
    BY <1>2, <1>6
  <2>2. /\ a \in Nat /\ a + 2 \notin MarksIn(old) /\ a + 3 \in MarksIn(old)
        /\ Len(Q[j + 1]) = a + 5 /\ \A x : x \notin EndsIn(old, a + 3)
    <3>1. MarkedAs(ps, old, j, a) /\ Len(Q[j + 1]) = a + 5
      BY <1>1, <1>6, <2>1, MarksOfName DEF old
    <3> QED
      BY <3>1 DEF MarkedAs
  <2>3. next = a + 3
    <3>1. next >= a + 2 /\ next # a + 2
      BY <1>3, <1>6, <2>2
    <3>2. next <= a + 3
      <4>1. a + 3 >= cur
        BY <1>6, <2>2
      <4> QED
        BY <1>3, <2>2, <4>1
    <3> HIDE DEF a
    <3> QED
      BY <1>4, <2>2, <3>1, <3>2
  <2>4. payload' = payload \o SubSeq(old, cur + 1, next) \o U!At2 /\ cur' = (a + 3) + 2
    BY <1>3, <2>2, <2>3
  <2>5. cur' = Len(Q[j + 1])
    BY <2>2, <2>4
  <2>6. O[j + 1] = O[j] \o ps[j + 1]
    BY <1>2, <1>6, <2>1 DEF ComesOut
  <2>7. ps[j + 1] = U!At2 \o SubSeq(old, cur + 1, next) \o U!At2
    <3>1. SubSeq(old, Len(Q[(j + 1) - 1]) + 1, Len(Q[j + 1])) = ps[j + 1]
      <4>1. ps \in Seq(Seq(Char)) /\ ArePrefixes(Q, Char, ps) /\ j + 1 \in 1..Len(ps)
        BY <1>1, <2>1, PageFacts DEF IsPage
      <4> QED
        BY <4>1, PieceStandsThere DEF old
    <3>2. SubSeq(old, a + 1, a + 5) = ps[j + 1]
      BY <2>1, <2>2, <3>1
    <3>3. ps[j + 1] = U!At2 \o <<"u">> \o U!At2
      <4>1. ps[j + 1] \in U!Piece
        BY <1>1, <2>1 DEF IsPage
      <4>2. ~IsName(<<"x">>) /\ ~IsName(<<"space">>) /\ ~IsName(<<"@">>)
        BY DEF IsName
      <4> QED
        BY <1>6, <4>1, <4>2 DEF U!Piece, Known
    <3>4. old[a + 3] = "u"
      <4>1. LET a0 == Len(Q[(j + 1) - 1]) IN old[a0 + 3] = ps[j + 1][3]
        BY <1>1, <1>6, <2>1, WhatStandsThere DEF old
      <4>2. ps[j + 1][3] = "u"
        <5>1. "u" \in Char
          BY DEF Char
        <5> QED
          BY <3>3, <5>1, NameIsFive
      <4> QED
        BY <2>1, <4>1, <4>2
    <3>5. SubSeq(old, cur + 1, next) = <<"u">>
      <4>1. cur + 1 = a + 3 /\ next = a + 3
        BY <1>6, <2>2, <2>3
      <4> DEFINE t == SubSeq(old, a + 3, a + 3)
      <4>2. a + 3 <= Len(old) /\ Len(old) \in Nat
        <5>1. a + 3 \in 0..(Len(old) - 2) /\ Len(old) \in Nat
          BY <1>1, <2>2 DEF MarksIn
        <5> QED
          BY <2>2, <5>1
      <4>3. old[a + 3] \in Char
        BY <3>4 DEF Char
      <4>4. t \in Seq(Char) /\ Len(t) = 1 /\ t[1] = "u"
        <5> DEFINE b == a + 3
        <5>1. b \in Int /\ \A k \in b..b : old[k] \in Char
          BY <2>2, <4>3
        <5>2. old[b] = "u"
          BY <3>4
        <5> HIDE DEF b
        <5> DEFINE w == SubSeq(old, b, b)
        <5>3. /\ w \in Seq(Char) /\ Len(w) = IF b <= b THEN (b - b) + 1 ELSE 0
              /\ \A k \in 1..((b - b) + 1) : w[k] = old[(b + k) - 1]
          BY <5>1, SubSeqProperties
        <5>4. (b - b) + 1 = 1 /\ 1 \in 1..1 /\ (b + 1) - 1 = b /\ b <= b
          BY <5>1
        <5> HIDE DEF w
        <5>5. w \in Seq(Char) /\ Len(w) = 1 /\ w[1] = "u"
          BY <5>2, <5>3, <5>4
        <5> QED
          BY <5>5 DEF w, b, t
      <4> DEFINE u == <<"u">>
      <4>5. u \in Seq(Char) /\ Len(u) = 1 /\ u[1] = "u"
        BY DEF Char
      <4> HIDE DEF t, u
      <4>6. \A k \in 1..1 : k = 1
        OBVIOUS
      <4>7. Len(t) = Len(u) /\ \A k \in 1..Len(t) : t[k] = u[k]
        BY <4>4, <4>5, <4>6
      <4>8. t \in Seq(Char) /\ u \in Seq(Char)
        BY <4>4, <4>5
      <4>9. t = u
        BY <4>7, <4>8, SeqEqual
      <4> QED
        BY <4>1, <4>9 DEF t, u
    <3> QED
      BY <3>3, <3>5
  <2>8. payload' = O[j + 1]
    <3> DEFINE x == O[j]
               y == U!At2
               z == SubSeq(old, cur + 1, next)
    <3>1. x \in Seq(Char) /\ y \in Seq(Char)
      BY <1>2, <2>1 DEF ComesOut, U!At2, Char
    <3>2. z \in Seq(Char)
      <4>1. next <= Len(old) /\ cur + 1 \in Nat /\ cur + 1 >= 1
        <5>1. next \in 0..(Len(old) - 2) /\ Len(old) \in Nat
          BY <1>1, <1>3 DEF MarksIn
        <5> QED
          BY <1>6, <2>2, <5>1
      <4>2. \A k \in (cur + 1)..next : old[k] \in Char
        BY <1>1, <1>4, <4>1
      <4> QED
        BY <1>4, <4>1, <4>2, SubSeqProperties
    <3>3. payload' = ((x \o y) \o z) \o y /\ O[j + 1] = x \o ((y \o z) \o y)
      BY <1>6, <2>4, <2>6, <2>7
    <3> HIDE DEF x, y, z
    <3>4. (x \o y) \o z = x \o (y \o z) /\ y \o z \in Seq(Char)
      <4>1. (x \o y) \o z = x \o (y \o z)
        BY SMTT(20), <3>1, <3>2, ConcatAssociative
      <4>2. y \o z \in Seq(Char)
        BY <3>1, <3>2, ConcatProperties
      <4> QED
        BY <4>1, <4>2
    <3> DEFINE yz == y \o z
    <3> HIDE DEF yz
    <3>5. yz \in Seq(Char) /\ (x \o y) \o z = x \o yz
      BY <3>4 DEF yz
    <3>6. (x \o yz) \o y = x \o (yz \o y)
      BY SMTT(20), <3>1, <3>5, ConcatAssociative
    <3> QED
      BY <3>3, <3>5, <3>6 DEF yz
  <2> QED
    BY <2>1, <2>5, <2>8
<1> QED
  BY <1>5, <1>6 DEF Reached

\* Every turn of the loop keeps it.
LEMMA PageStep ==
  ASSUME PageInv, [U!PageNext]_U!pageVars
  PROVE  PageInv'
<1> USE DEF PageInv
<1>1. old_payload = Made[Len(pieces)] /\ old_payload \in Seq(Char) /\ Len(old_payload) \in Nat
      /\ (IsPlain => IsPage(pieces, Made, ToMake))
  <2>1. old_payload = Made[Len(pieces)] /\ old_payload \in Seq(Char)
        /\ (IsPlain => IsPage(pieces, Made, ToMake))
    BY PageIs
  <2> QED
    BY <2>1
<1>2. ASSUME U!Substitute
      PROVE  PageInv'
  <2>1. PICK next : TurnTo(next)
    BY <1>2, Turn
  <2>2. pieces' = pieces /\ old_payload' = old_payload /\ done' = done
    BY <1>2 DEF U!Substitute
  <2>3. IsPlain' = IsPlain /\ Made' = Made /\ ToMake' = ToMake
    BY <2>2 DEF IsPlain, Made, ToMake
  <2>4. cur' \in 0..Len(old_payload) /\ cur < Len(old_payload)
    <3>1. \A y \in MarksIn(old_payload) : y \in Nat /\ y + 2 <= Len(old_payload)
      BY <1>1 DEF MarksIn
    <3>2. next \in Nat /\ next + 2 <= Len(old_payload) /\ next >= cur
      BY <2>1, <3>1 DEF TurnTo
    <3>3. \E y \in MarksIn(old_payload) : cur' = y + 2
      BY <2>1 DEF TurnTo, EndsIn
    <3>4. cur' \in 0..Len(old_payload)
      BY <1>1, <3>1, <3>3
    <3> QED
      BY <1>1, <3>2, <3>4
  <2>5. ASSUME IsPlain
        PROVE  ~done /\ \E k \in 0..Len(pieces) : Reached(k)'
    <3>1. ~done
      BY <1>1, <2>4, <2>5
    <3>2. PICK j \in 0..Len(pieces) : Reached(j)
      BY <2>5, <3>1
    <3>3. PICK k \in 0..Len(pieces) :
           \/ payload' = ToMake[k] /\ cur' = Len(Made[k])
           \/ /\ k < Len(pieces) /\ IsName(pieces[k + 1]) /\ pieces[k + 1] # Known
              /\ payload' = ToMake[k] \o U!At2 /\ cur' = Len(Made[k]) + 2
      BY <2>1, <2>5, <3>2, PlainTurn
    <3>4. Reached(k)'
      BY <2>2, <2>3, <3>3 DEF Reached
    <3> QED
      BY <3>1, <3>4
  <2> QED
    BY <2>2, <2>3, <2>4, <2>5
<1>3. ASSUME U!Finish
      PROVE  PageInv'
  <2>1. /\ ~done /\ \A i \in MarksIn(old_payload) : i < cur
        /\ payload' = payload \o SubSeq(old_payload, cur + 1, Len(old_payload))
        /\ done' = TRUE /\ cur' = Len(old_payload)
        /\ pieces' = pieces /\ old_payload' = old_payload
    BY <1>3, EndsAre DEF U!Finish, U!substr
  <2>2. IsPlain' = IsPlain /\ Made' = Made /\ ToMake' = ToMake
    BY <2>1 DEF IsPlain, Made, ToMake
  <2>3. ASSUME IsPlain
        PROVE  payload' = ToMake[Len(pieces)]
    <3>1. IsPage(pieces, Made, ToMake) /\ StandInOrder(Made, Char, pieces) /\ Len(pieces) \in Nat
      BY <1>1, <2>3, PageFacts
    <3>2. PICK j \in 0..Len(pieces) : Reached(j)
      BY <2>1, <2>3
    <3>3. CASE payload = ToMake[j] /\ cur = Len(Made[j])
      <4>1. ASSUME NEW m \in 0..(Len(pieces) - 1), IsName(pieces[m + 1]), Len(Made[j]) <= Len(Made[m])
            PROVE  FALSE
        <5>1. Len(Made[m]) \in MarksIn(old_payload) /\ Len(Made[m]) \in Nat
          BY <1>1, <3>1, <4>1, MarksOfName DEF MarkedAs
        <5>2. Len(Made[m]) < cur
          BY <2>1, <5>1
        <5>3. Len(Made[j]) \in Nat
          BY <3>1 DEF StandInOrder
        <5> QED
          BY <3>3, <4>1, <5>1, <5>2, <5>3
      <4>2. ToMake[Len(pieces)]
              = ToMake[j] \o SubSeq(Made[Len(pieces)], Len(Made[j]) + 1, Len(Made[Len(pieces)]))
        <5>1. ~(\E m \in 0..(Len(pieces) - 1) : IsNextName(pieces, Made, ToMake, j, m))
          BY <4>1 DEF IsNextName
        <5> QED
          BY <3>1, <5>1, NextName DEF NoMoreNames
      <4> QED
        BY <1>1, <2>1, <3>3, <4>2
    <3>4. CASE j < Len(pieces) /\ IsName(pieces[j + 1]) /\ cur = Len(Made[j]) + 2
      <4>1. j \in 0..(Len(pieces) - 1)
        BY <3>1, <3>4
      <4>2. Len(Made[j]) + 3 \in MarksIn(old_payload) /\ Len(Made[j]) \in Nat
        BY <1>1, <3>1, <3>4, <4>1, MarksOfName DEF MarkedAs
      <4>3. Len(Made[j]) + 3 < cur
        BY <2>1, <4>2
      <4> QED
        BY <3>4, <4>2, <4>3
    <3> QED
      BY <3>2, <3>3, <3>4 DEF Reached
  <2>4. cur' \in 0..Len(old_payload)'
    BY <1>1, <2>1
  <2>5. done' \in BOOLEAN
    BY <2>1
  <2>6. (IsPlain /\ done => payload = ToMake[Len(pieces)] /\ cur = Len(old_payload))'
    BY <2>1, <2>2, <2>3
  <2>7. (IsPlain /\ ~done => \E j \in 0..Len(pieces) : Reached(j))'
    BY <2>1
  <2> QED
    BY <2>1, <2>4, <2>5, <2>6, <2>7
<1>4. ASSUME UNCHANGED U!pageVars
      PROVE  PageInv'
  <2>1. /\ pieces' = pieces /\ old_payload' = old_payload /\ payload' = payload
        /\ cur' = cur /\ done' = done
    BY <1>4 DEF U!pageVars
  <2>2. IsPlain' = IsPlain /\ Made' = Made /\ ToMake' = ToMake
    BY <2>1 DEF IsPlain, Made, ToMake
  <2> QED
    BY <2>1, <2>2 DEF Reached
<1> QED
  BY <1>2, <1>3, <1>4 DEF U!PageNext

===============================================================================
