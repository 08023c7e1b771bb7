------------------------------ MODULE SequenceLemmas ------------------------------
(***************************************************************************)
(* Facts about the indices of a ring of N slots and about the sequences    *)
(* that rings hold, for the proofs about threads/producer-consumer.c,      *)
(* threads/include/irq-buffered-reader.h and core/include/                 *)
(* fillable-buffer.h; and about what remove() leaves of a std::list.       *)
(***************************************************************************)
EXTENDS Integers, StdList, SequenceTheorems, FiniteSetTheorems, WellFoundedInduction,
        TLAPS

\* Division with remainder, with names for its results.
LEMMA ModExists ==
  ASSUME NEW N \in Nat \ {0}, NEW x \in Int
  PROVE \E k \in Int, r \in 0..(N - 1) : x = (N * k) + r /\ x % N = r
<1>1. x = (N * (x \div N)) + (x % N) /\ x % N \in 0..(N - 1) /\ x \div N \in Int
  OBVIOUS
<1> QED
  BY <1>1

\* The remainder is the only one.
LEMMA ModUnique ==
  ASSUME NEW N \in Nat \ {0}, NEW k \in Int, NEW r \in 0..(N - 1)
  PROVE ((N * k) + r) % N = r
<1>1. PICK q \in Int, s \in 0..(N - 1) :
        (N * k) + r = (N * q) + s /\ ((N * k) + r) % N = s
  <2>1. (N * k) + r \in Int
    OBVIOUS
  <2> QED
    BY <2>1, ModExists
<1>2. N * (k - q) = s - r
  BY <1>1
<1>3. k - q < 1
  <2> SUFFICES ASSUME k - q >= 1 PROVE FALSE
    OBVIOUS
  <2>1. N * (k - q) >= N * 1
    OBVIOUS
  <2> QED
    BY <1>2, <2>1
<1>4. k - q > -1
  <2> SUFFICES ASSUME k - q <= -1 PROVE FALSE
    OBVIOUS
  <2>1. N * (k - q) <= N * (-1)
    OBVIOUS
  <2> QED
    BY <1>2, <2>1
<1> QED
  BY <1>1, <1>2, <1>3, <1>4

\* One turn of the ring is none.
LEMMA ModPlus ==
  ASSUME NEW N \in Nat \ {0}, NEW x \in Int
  PROVE (x + N) % N = x % N
<1>1. PICK k \in Int, r \in 0..(N - 1) : x = (N * k) + r /\ x % N = r
  BY ModExists
<1>2. x + N = (N * (k + 1)) + r
  BY <1>1
<1>3. ((N * (k + 1)) + r) % N = r
  BY ModUnique
<1> QED
  BY <1>1, <1>2, <1>3

\* An index after the next slot is counted from there.
LEMMA ModStep ==
  ASSUME NEW N \in Nat \ {0}, NEW a \in 0..(N - 1), NEW i \in Nat
  PROVE (((a + 1) % N) + i) % N = (a + (i + 1)) % N
<1>1. CASE a + 1 < N
  BY <1>1
<1>2. CASE a + 1 = N
  <2>1. (a + 1) % N = 0
    BY <1>2
  <2>2. a + (i + 1) = i + N
    BY <1>2
  <2>3. (i + N) % N = i % N
    <3>1. i \in Int
      OBVIOUS
    <3> QED
      BY <3>1, ModPlus
  <2> QED
    BY <2>1, <2>2, <2>3
<1> QED
  BY <1>1, <1>2

\* The same for the slots counted from 1.
LEMMA ModShift ==
  ASSUME NEW N \in Nat \ {0}, NEW a \in 0..(N - 1), NEW i \in Nat \ {0}
  PROVE (((a + 1) % N) + i - 1) % N = (a + (i + 1) - 1) % N
<1>1. (((a + 1) % N) + (i - 1)) % N = (a + ((i - 1) + 1)) % N
  <2>1. i - 1 \in Nat
    OBVIOUS
  <2> QED
    BY <2>1, ModStep
<1>2. ((a + 1) % N) + (i - 1) = ((a + 1) % N) + i - 1
  <2>1. (a + 1) % N \in Int
    OBVIOUS
  <2> QED
    BY <2>1
<1>3. a + ((i - 1) + 1) = a + (i + 1) - 1
  OBVIOUS
<1> QED
  BY <1>1, <1>2, <1>3

\* The next slot may be computed from the wrapped index.
LEMMA ModSucc ==
  ASSUME NEW N \in Nat \ {0}, NEW x \in Nat
  PROVE ((x % N) + 1) % N = (x + 1) % N
<1>1. PICK k \in Int, r \in 0..(N - 1) : x = (N * k) + r /\ x % N = r
  <2>1. x \in Int
    OBVIOUS
  <2> QED
    BY <2>1, ModExists
<1>2. CASE r + 1 < N
  <2>1. x + 1 = (N * k) + (r + 1)
    BY <1>1
  <2>2. ((N * k) + (r + 1)) % N = r + 1
    BY <1>2, ModUnique
  <2>3. (r + 1) % N = r + 1
    BY <1>2
  <2> QED
    BY <1>1, <2>1, <2>2, <2>3
<1>3. CASE r + 1 = N
  <2>1. x + 1 = (N * (k + 1)) + 0
    BY <1>1, <1>3
  <2>2. ((N * (k + 1)) + 0) % N = 0
    BY ModUnique
  <2>3. (r + 1) % N = 0
    BY <1>3
  <2> QED
    BY <1>1, <2>1, <2>2, <2>3
<1> QED
  BY <1>2, <1>3

\* A wrapped index is a slot.
LEMMA ModRange ==
  ASSUME NEW N \in Nat \ {0}, NEW x \in Int
  PROVE x % N \in 0..(N - 1)
OBVIOUS

\* Fewer than N slots apart are different slots.
LEMMA ModDistinct ==
  ASSUME NEW N \in Nat \ {0}, NEW a \in 0..(N - 1),
         NEW i \in 0..(N - 1), NEW j \in 0..(N - 1), i # j
  PROVE (a + i) % N # (a + j) % N
<1>1. ASSUME NEW k \in 0..(N - 1)
      PROVE (a + k) % N = IF a + k < N THEN a + k ELSE a + k - N
  OBVIOUS
<1> QED
  BY <1>1

\* What comes out: the inner end goes from a to b, of n slots m are left.
InnerEndMoves(N, a, n, b, m) == b = (a + 1) % N /\ m = n - 1

\* The inner end moves by one slot, and with it the rest of the ring's content;
\* n and N are independent (a sequence number wraps at its own modulus).
LEMMA InnerEnd ==
  ASSUME NEW N \in Nat \ {0}, NEW a \in 0..(N - 1), NEW n \in Nat \ {0},
         NEW b, NEW m, InnerEndMoves(N, a, n, b, m)
  PROVE /\ b \in 0..(N - 1) /\ m \in 0..(n - 1)
        /\ (a + 1 - 1) % N = a
        /\ (b + m) % N = (a + n) % N
        /\ \A i \in 1..m : i + 1 \in 1..n /\ (b + i - 1) % N = (a + (i + 1) - 1) % N
<1>1. b = (a + 1) % N /\ m = n - 1
  BY DEF InnerEndMoves
<1>2. b \in 0..(N - 1) /\ m \in 0..(n - 1)
  BY <1>1
<1>3. (a + 1 - 1) % N = a
  OBVIOUS
<1>4. (b + m) % N = (a + n) % N
  <2>1. (((a + 1) % N) + m) % N = (a + (m + 1)) % N
    BY <1>2, ModStep
  <2>2. m + 1 = n
    BY <1>1
  <2> QED
    BY <1>1, <2>1, <2>2
<1>5. ASSUME NEW i \in 1..m PROVE i + 1 \in 1..n /\ (b + i - 1) % N = (a + (i + 1) - 1) % N
  <2>1. i \in Nat \ {0}
    BY <1>2
  <2>2. i + 1 \in 1..n
    BY <1>1
  <2>3. (((a + 1) % N) + i - 1) % N = (a + (i + 1) - 1) % N
    BY <2>1, ModShift
  <2> QED
    BY <1>1, <2>2, <2>3
<1> QED
  BY <1>2, <1>3, <1>4, <1>5

\* What goes in: the outer end, n slots from a, goes from e to f.
OuterEndMoves(N, a, n, e, f, m) == e = (a + n) % N /\ f = (e + 1) % N /\ m = n + 1

\* The outer end moves by one slot.
LEMMA OuterEnd ==
  ASSUME NEW N \in Nat \ {0}, NEW a \in 0..(N - 1), NEW n \in Nat,
         NEW e, NEW f, NEW m, OuterEndMoves(N, a, n, e, f, m)
  PROVE /\ e \in 0..(N - 1) /\ f \in 0..(N - 1)
        /\ f = (a + m) % N
        /\ (a + m - 1) % N = e
<1>1. e = (a + n) % N /\ f = (e + 1) % N /\ m = n + 1
  BY DEF OuterEndMoves
<1>2. e \in 0..(N - 1) /\ f \in 0..(N - 1)
  BY <1>1
<1>3. f = (a + m) % N
  <2>1. a + n \in Nat /\ (a + n) + 1 = a + m
    BY <1>1
  <2>2. (((a + n) % N) + 1) % N = ((a + n) + 1) % N
    BY <2>1, ModSucc
  <2> QED
    BY <1>1, <2>1, <2>2
<1>4. (a + m - 1) % N = e
  <2>1. a + m - 1 = a + n
    BY <1>1
  <2> QED
    BY <1>1, <2>1
<1> QED
  BY <1>2, <1>3, <1>4

\* The slot that is filled is none of those that wait to be emptied.
LEMMA OuterEndIsFree ==
  ASSUME NEW N \in Nat \ {0}, NEW a \in 0..(N - 1), NEW n \in 0..(N - 1),
         NEW e, e = (a + n) % N
  PROVE \A i \in 1..n : (a + i - 1) % N \in (0..(N - 1)) \ {e}
<1> TAKE i \in 1..n
<1> DEFINE j == i - 1
<1>1. j \in 0..(N - 1) /\ j # n /\ a + j = a + i - 1
  OBVIOUS
<1>2. (a + j) % N # (a + n) % N
  <2> HIDE DEF j
  <2> QED
    BY <1>1, ModDistinct
<1>3. (a + j) % N \in 0..(N - 1)
  BY <1>1
<1> QED
  BY <1>1, <1>2, <1>3

\* The slots of a ring between its ends.
Content(ring, from, count, N) == [i \in 1..count |-> ring[(from + i - 1) % N]]

\* A ring's content is a sequence.
LEMMA ContentIsASeq ==
  ASSUME NEW N \in Nat \ {0}, NEW S, NEW ring \in [0..(N - 1) -> S],
         NEW from \in 0..(N - 1), NEW count \in 0..N
  PROVE /\ Content(ring, from, count, N) \in Seq(S)
        /\ Len(Content(ring, from, count, N)) = count
<1>1. \A i \in 1..count : (from + i - 1) % N \in 0..(N - 1)
  OBVIOUS
<1>2. Content(ring, from, count, N) \in [1..count -> S]
  BY <1>1 DEF Content
<1>3. Content(ring, from, count, N) \in Seq(S)
  BY <1>2, SeqDef
<1> QED
  BY <1>2, <1>3, LenProperties

\* Taking the slot at the inner end leaves the tail.
LEMMA ContentGet ==
  ASSUME NEW N \in Nat \ {0}, NEW S, NEW ring \in [0..(N - 1) -> S],
         NEW from \in 0..(N - 1), NEW count \in 1..N
  PROVE /\ Content(ring, from, count, N) # <<>>
        /\ Head(Content(ring, from, count, N)) = ring[from]
        /\ Content(ring, (from + 1) % N, count - 1, N) = Tail(Content(ring, from, count, N))
<1> DEFINE c == Content(ring, from, count, N)
           next == (from + 1) % N
           d == Content(ring, next, count - 1, N)
<1>1. next \in 0..(N - 1)
  OBVIOUS
<1>2. c \in Seq(S) /\ Len(c) = count
  <2>1. count \in 0..N
    OBVIOUS
  <2> QED
    BY <2>1, ContentIsASeq
<1>3. d \in Seq(S) /\ Len(d) = count - 1
  <2>1. count - 1 \in 0..N
    OBVIOUS
  <2> HIDE DEF next
  <2> QED
    BY <2>1, <1>1, ContentIsASeq
<1>4. \A i \in 1..(count - 1) : d[i] = c[i + 1]
  <2> TAKE i \in 1..(count - 1)
  <2>1. i \in Nat \ {0} /\ i + 1 \in 1..count
    OBVIOUS
  <2>2. (((from + 1) % N) + i - 1) % N = (from + (i + 1) - 1) % N
    BY <2>1, ModShift
  <2> QED
    BY <2>1, <2>2 DEF Content
<1>5. c[1] = ring[from]
  <2>1. (from + 1 - 1) % N = from
    OBVIOUS
  <2> QED
    BY <2>1 DEF Content
<1> HIDE DEF c, d
<1>6. c # <<>> /\ Head(c) = c[1] /\ Tail(c) \in Seq(S) /\ Len(Tail(c)) = count - 1
      /\ \A i \in 1..(count - 1) : Tail(c)[i] = c[i + 1]
  <2>1. c # <<>>
    BY <1>2
  <2> QED
    BY <1>2, <2>1, HeadTailProperties
<1>7. d = Tail(c)
  BY <1>2, <1>3, <1>4, <1>6, SeqEqual
<1> QED
  BY <1>5, <1>6, <1>7 DEF c, d
-----------------------------------------------------------------------------
(* Sequences.  Two buffers in a row are one: s is the one nearer to the reader.         *)

\* A sequence that is one longer and otherwise the same is an Append.
LEMMA IsAppend ==
  ASSUME NEW S, NEW s \in Seq(S), NEW t \in Seq(S), NEW v \in S,
         Len(t) = Len(s) + 1, \A i \in 1..Len(s) : t[i] = s[i], t[Len(s) + 1] = v
  PROVE t = Append(s, v)
<1>1. /\ Append(s, v) \in Seq(S) /\ Len(Append(s, v)) = Len(s) + 1
      /\ \A i \in 1..Len(s) : Append(s, v)[i] = s[i]
      /\ Append(s, v)[Len(s) + 1] = v
  BY AppendProperties
<1>2. Len(s) \in Nat
  OBVIOUS
<1>3. \A i \in 1..Len(t) : t[i] = Append(s, v)[i]
  BY <1>1, <1>2
<1> QED
  BY <1>1, <1>3, SeqEqual

\* What enters the second buffer enters both.
LEMMA EnterBehind ==
  ASSUME NEW S, NEW s \in Seq(S), NEW d \in Seq(S), NEW e \in S
  PROVE s \o Append(d, e) = Append(s \o d, e)
<1>1. s \o d \in Seq(S) /\ <<e>> \in Seq(S)
  BY ConcatProperties
<1>2. Append(d, e) = d \o <<e>> /\ Append(s \o d, e) = (s \o d) \o <<e>>
  BY <1>1, AppendIsConcat
<1>3. (s \o d) \o <<e>> = s \o (d \o <<e>>)
  BY <1>1, ConcatAssociative
<1> QED
  BY <1>2, <1>3

\* Passing the head of the second on to the first changes nothing.
LEMMA PassOn ==
  ASSUME NEW S, NEW s \in Seq(S), NEW d \in Seq(S), d # <<>>
  PROVE Append(s, Head(d)) \o Tail(d) = s \o d
<1> DEFINE h == Head(d)
           t == Tail(d)
<1>1. h \in S /\ t \in Seq(S)
  BY HeadTailProperties
<1>2. <<h>> \o t = d
  <2>1. Len(t) = Len(d) - 1 /\ \A i \in 1..Len(t) : t[i] = d[i + 1]
    BY HeadTailProperties
  <2>2. <<h>> \in Seq(S) /\ Len(<<h>>) = 1 /\ <<h>>[1] = d[1]
    BY <1>1
  <2> HIDE DEF h, t
  <2>3. Len(d) \in Nat \ {0}
    BY EmptySeq
  <2>4. /\ <<h>> \o t \in Seq(S) /\ Len(<<h>> \o t) = Len(d)
        /\ \A i \in 1..Len(d) : (<<h>> \o t)[i] = IF i <= 1 THEN <<h>>[i] ELSE t[i - 1]
    BY <1>1, <2>1, <2>2, <2>3, ConcatProperties
  <2>5. ASSUME NEW i \in 1..Len(d) PROVE (<<h>> \o t)[i] = d[i]
    <3>1. CASE i = 1
      BY <2>2, <2>4, <3>1
    <3>2. CASE i > 1
      <4>1. i - 1 \in 1..Len(t) /\ (i - 1) + 1 = i
        BY <2>1, <2>3, <3>2
      <4>2. (<<h>> \o t)[i] = t[i - 1]
        BY <2>4, <3>2
      <4>3. t[i - 1] = d[(i - 1) + 1]
        BY <2>1, <4>1
      <4> QED
        BY <4>1, <4>2, <4>3
    <3>3. i = 1 \/ i > 1
      BY <2>3
    <3> QED
      BY <3>1, <3>2, <3>3
  <2> QED
    BY <2>4, <2>5, SeqEqual
<1> HIDE DEF h, t
<1>3. <<h>> \in Seq(S)
  BY <1>1
<1>4. Append(s, h) = s \o <<h>>
  BY <1>1, AppendIsConcat
<1>5. (s \o <<h>>) \o t = s \o (<<h>> \o t)
  BY <1>1, <1>3, ConcatAssociative
<1> QED
  BY <1>2, <1>4, <1>5 DEF h, t

\* What the first gives comes from both.
LEMMA TakeFirst ==
  ASSUME NEW S, NEW s \in Seq(S), NEW d \in Seq(S), s # <<>>
  PROVE /\ s \o d # <<>>
        /\ Head(s \o d) = Head(s)
        /\ Tail(s \o d) = Tail(s) \o d
<1>1. /\ s \o d \in Seq(S) /\ Len(s \o d) = Len(s) + Len(d)
      /\ \A i \in 1..(Len(s) + Len(d)) :
           (s \o d)[i] = IF i <= Len(s) THEN s[i] ELSE d[i - Len(s)]
  BY ConcatProperties
<1>2. Len(s) \in Nat \ {0} /\ Len(d) \in Nat
  BY EmptySeq, LenProperties
<1>3. s \o d # <<>>
  BY <1>1, <1>2
<1>4. Head(s \o d) = Head(s)
  BY <1>1, <1>2
<1>5. /\ Tail(s) \in Seq(S) /\ Len(Tail(s)) = Len(s) - 1
      /\ \A i \in 1..Len(Tail(s)) : Tail(s)[i] = s[i + 1]
  BY HeadTailProperties
<1>6. /\ Tail(s \o d) \in Seq(S) /\ Len(Tail(s \o d)) = Len(s) + Len(d) - 1
      /\ \A i \in 1..(Len(s) + Len(d) - 1) : Tail(s \o d)[i] = (s \o d)[i + 1]
  BY <1>1, <1>3, HeadTailProperties
<1>7. /\ Tail(s) \o d \in Seq(S) /\ Len(Tail(s) \o d) = Len(s) + Len(d) - 1
      /\ \A i \in 1..(Len(s) + Len(d) - 1) :
           (Tail(s) \o d)[i] = IF i <= Len(s) - 1 THEN Tail(s)[i] ELSE d[i - (Len(s) - 1)]
  BY <1>2, <1>5, ConcatProperties
<1>8. ASSUME NEW i \in 1..(Len(s) + Len(d) - 1) PROVE Tail(s \o d)[i] = (Tail(s) \o d)[i]
  <2>1. i + 1 \in 1..(Len(s) + Len(d))
    BY <1>2
  <2>2. (s \o d)[i + 1] = IF i + 1 <= Len(s) THEN s[i + 1] ELSE d[(i + 1) - Len(s)]
    BY <1>1, <2>1
  <2>3. (i + 1) - Len(s) = i - (Len(s) - 1) /\ (i + 1 <= Len(s) <=> i <= Len(s) - 1)
    BY <1>2
  <2>4. i <= Len(s) - 1 => Tail(s)[i] = s[i + 1]
    BY <1>2, <1>5
  <2> QED
    BY <1>6, <1>7, <2>2, <2>3, <2>4
<1>9. Tail(s \o d) = Tail(s) \o d
  BY <1>6, <1>7, <1>8, SeqEqual
<1> QED
  BY <1>3, <1>4, <1>9

-----------------------------------------------------------------------------
(* What a std::list keeps in remove(), by induction on its length.          *)

\* A set of natural numbers has a least one: the induction of these proofs.
LEMMA LeastNatural ==
  ASSUME NEW T, T \subseteq Nat, T # {}
  PROVE  \E k \in T : \A j \in T : k <= j
<1>1. PICK t \in T : TRUE
  OBVIOUS
<1> DEFINE S == 0..t
           F == {0..(k - 1) : k \in {k \in T : k <= t}}
<1>2. IsFiniteSet(S) /\ FiniteSubsetsOf(S) = SUBSET S
  <2>1. 0 \in Int /\ t \in Int
    BY <1>1
  <2>2. IsFiniteSet(0..t)
    BY <2>1, FS_Interval
  <2> QED
    BY <2>2, FS_FiniteSubsetsOfFinite
<1>3. IsWellFoundedOn(StrictSubsetOrdering(S), SUBSET S)
  BY <1>2, FS_StrictSubsetOrderingWellFounded
<1>4. F \subseteq SUBSET S /\ F # {}
  BY <1>1
<1>5. PICK A \in F : \A B \in F : ~(<<B, A>> \in StrictSubsetOrdering(S))
  BY <1>3, <1>4, WFMin
<1>6. PICK k \in T : k <= t /\ A = 0..(k - 1)
  BY <1>5
<1>7. ASSUME NEW j \in T, j < k PROVE FALSE
  <2>1. 0..(j - 1) \in F
    BY <1>1, <1>6, <1>7
  <2>2. 0..(j - 1) \subseteq A /\ j \in A /\ j \notin 0..(j - 1)
    BY <1>6, <1>7
  <2> QED
    BY <1>4, <1>5, <2>1, <2>2 DEF StrictSubsetOrdering
<1> QED
  BY <1>7

\* f is the recursive function of Without, up to n.
KeptUpTo(f, s, t, n) ==
  f = [i \in 0..n |-> IF i = 0 THEN <<>>
         ELSE IF s[i] = t THEN f[i - 1] ELSE Append(f[i - 1], s[i])]

\* The recursion of Without defines a function.
LEMMA KeptExists ==
  ASSUME NEW s, NEW t, NEW n \in Nat
  PROVE  \E f : KeptUpTo(f, s, t, n)
<1> DEFINE None == {k \in Nat : ~ \E f : KeptUpTo(f, s, t, k)}
<1>1. SUFFICES None = {}
  OBVIOUS
<1>2. SUFFICES ASSUME NEW k \in None, \A j \in None : k <= j PROVE FALSE
  BY LeastNatural
<1>3. k # 0
  <2>1. KeptUpTo([i \in 0..0 |-> <<>>], s, t, 0)
    BY DEF KeptUpTo
  <2> QED
    BY <2>1
<1>4. k - 1 \in Nat /\ k - 1 \notin None
  BY <1>2, <1>3
<1>5. PICK g : KeptUpTo(g, s, t, k - 1)
  BY <1>4
<1> DEFINE last == IF s[k] = t THEN g[k - 1] ELSE Append(g[k - 1], s[k])
           f == [i \in 0..k |-> IF i = k THEN last ELSE g[i]]
<1>6. KeptUpTo(f, s, t, k)
  <2>1. ASSUME NEW i \in 0..k
        PROVE  f[i] = IF i = 0 THEN <<>>
                      ELSE IF s[i] = t THEN f[i - 1] ELSE Append(f[i - 1], s[i])
    <3>1. CASE i = k
      <4>1. f[i] = last /\ f[i - 1] = g[k - 1]
        BY <1>3, <1>4, <3>1
      <4> QED
        BY <1>3, <3>1, <4>1
    <3>2. CASE i # k
      <4>1. i \in 0..(k - 1) /\ f[i] = g[i]
        BY <1>4, <3>2
      <4>2. i # 0 => f[i - 1] = g[i - 1]
        BY <1>4, <3>2
      <4>3. g[i] = IF i = 0 THEN <<>>
                   ELSE IF s[i] = t THEN g[i - 1] ELSE Append(g[i - 1], s[i])
        BY <1>5, <4>1 DEF KeptUpTo
      <4> QED
        BY <4>1, <4>2, <4>3
    <3> QED
      BY <3>1, <3>2
  <2> QED
    BY <2>1 DEF KeptUpTo
<1> QED
  BY <1>2, <1>6

\* What Without has kept of the first n items, for every n.
LEMMA WithoutUnfolds ==
  ASSUME NEW s, NEW t, Len(s) \in Nat
  PROVE  \E kept : /\ Without(s, t) = kept[Len(s)] /\ kept[0] = <<>>
                   /\ \A i \in 1..Len(s) :
                        kept[i] = IF s[i] = t THEN kept[i - 1] ELSE Append(kept[i - 1], s[i])
<1> DEFINE kept == CHOOSE f : KeptUpTo(f, s, t, Len(s))
<1>1. KeptUpTo(kept, s, t, Len(s))
  BY KeptExists
<1>2. Without(s, t) = kept[Len(s)]
  BY DEF Without, KeptUpTo
<1> HIDE DEF kept
<1>3. ASSUME NEW i \in 0..Len(s)
      PROVE  kept[i] = IF i = 0 THEN <<>>
                       ELSE IF s[i] = t THEN kept[i - 1] ELSE Append(kept[i - 1], s[i])
  BY <1>1 DEF KeptUpTo
<1> QED
  BY <1>2, <1>3

\* Removing an item keeps every other, and adds none.
LEMMA WithoutKeeps ==
  ASSUME NEW T, NEW s \in Seq(T), NEW t
  PROVE  /\ Without(s, t) \in Seq(T)
         /\ \A i \in 1..Len(s) : s[i] # t => \E j \in 1..Len(Without(s, t)) : Without(s, t)[j] = s[i]
         /\ \A j \in 1..Len(Without(s, t)) :
              Without(s, t)[j] # t /\ \E i \in 1..Len(s) : s[i] = Without(s, t)[j]
<1>1. Len(s) \in Nat
  OBVIOUS
<1>2. PICK kept :
        /\ Without(s, t) = kept[Len(s)] /\ kept[0] = <<>>
        /\ \A i \in 1..Len(s) : kept[i] = IF s[i] = t THEN kept[i - 1] ELSE Append(kept[i - 1], s[i])
  BY <1>1, WithoutUnfolds
<1>3. /\ kept[0] = <<>>
      /\ \A i \in 1..Len(s) : kept[i] = IF s[i] = t THEN kept[i - 1] ELSE Append(kept[i - 1], s[i])
  BY <1>2
<1> DEFINE Good(n) == /\ kept[n] \in Seq(T)
                      /\ \A i \in 1..n : s[i] # t => \E j \in 1..Len(kept[n]) : kept[n][j] = s[i]
                      /\ \A j \in 1..Len(kept[n]) :
                           kept[n][j] # t /\ \E i \in 1..n : s[i] = kept[n][j]
           Bad == {n \in 0..Len(s) : ~Good(n)}
<1>G. Good(0)
  <2>1. kept[0] = <<>> /\ 1..0 = {} /\ Len(kept[0]) = 0
    BY <1>3
  <2> QED
    BY <2>1
<1> HIDE DEF Good
<1>4. Bad = {}
  <2>1. SUFFICES ASSUME Bad # {} PROVE FALSE
    OBVIOUS
  <2>2. Bad \subseteq Nat
    BY <1>1
  <2>3. PICK n \in Bad : \A j \in Bad : n <= j
    BY <2>1, <2>2, LeastNatural
  <2>4. n # 0
    BY <1>G, <2>3
  <2>5. n - 1 \in 0..Len(s) /\ Good(n - 1)
    BY <1>1, <2>3, <2>4
  <2>6. n \in 1..Len(s) /\ s[n] \in T
    BY <1>1, <2>3, <2>4
  <2>g. /\ kept[n - 1] \in Seq(T)
        /\ \A i \in 1..(n - 1) : s[i] # t => \E j \in 1..Len(kept[n - 1]) : kept[n - 1][j] = s[i]
        /\ \A j \in 1..Len(kept[n - 1]) :
             kept[n - 1][j] # t /\ \E i \in 1..(n - 1) : s[i] = kept[n - 1][j]
    BY <2>5 DEF Good
  <2>7. CASE s[n] = t
    <3>1. kept[n] = kept[n - 1]
      BY <1>3, <2>6, <2>7
    <3>2. Good(n)
      BY <2>6, <2>7, <2>g, <3>1 DEF Good
    <3> QED
      BY <2>3, <3>2
  <2>8. CASE s[n] # t
    <3>1. kept[n] = Append(kept[n - 1], s[n])
      BY <1>3, <2>6, <2>8
    <3>2. /\ kept[n] \in Seq(T) /\ Len(kept[n]) = Len(kept[n - 1]) + 1
          /\ kept[n][Len(kept[n])] = s[n]
          /\ \A j \in 1..Len(kept[n - 1]) : kept[n][j] = kept[n - 1][j]
      BY <2>6, <2>g, <3>1
    <3>3. ASSUME NEW i \in 1..n, s[i] # t
          PROVE  \E j \in 1..Len(kept[n]) : kept[n][j] = s[i]
      <4>1. CASE i = n
        BY <3>2, <4>1
      <4>2. CASE i # n
        <5>1. PICK j \in 1..Len(kept[n - 1]) : kept[n - 1][j] = s[i]
          BY <2>6, <2>g, <3>3, <4>2
        <5> QED
          BY <2>g, <3>2, <5>1
      <4> QED
        BY <4>1, <4>2
    <3>4. ASSUME NEW j \in 1..Len(kept[n])
          PROVE  kept[n][j] # t /\ \E i \in 1..n : s[i] = kept[n][j]
      <4>1. CASE j = Len(kept[n])
        BY <2>6, <2>8, <3>2, <4>1
      <4>2. CASE j # Len(kept[n])
        <5>1. j \in 1..Len(kept[n - 1]) /\ kept[n][j] = kept[n - 1][j]
          BY <2>g, <3>2, <4>2
        <5> QED
          BY <2>6, <2>g, <5>1
      <4> QED
        BY <4>1, <4>2
    <3>5. Good(n)
      BY <3>2, <3>3, <3>4 DEF Good
    <3> QED
      BY <2>3, <3>5
  <2> QED
    BY <2>7, <2>8
<1>5. Good(Len(s))
  BY <1>1, <1>4
<1> QED
  BY <1>2, <1>5 DEF Good

\* No item stands in the sequence twice.
Apart(s) == \A i, j \in 1..Len(s) : s[i] = s[j] => i = j

\* Removing an item doubles no other.
LEMMA WithoutApart ==
  ASSUME NEW T, NEW s \in Seq(T), NEW t, Apart(s)
  PROVE  Apart(Without(s, t))
<1>1. Len(s) \in Nat
  OBVIOUS
<1>2. PICK kept :
        /\ Without(s, t) = kept[Len(s)] /\ kept[0] = <<>>
        /\ \A i \in 1..Len(s) : kept[i] = IF s[i] = t THEN kept[i - 1] ELSE Append(kept[i - 1], s[i])
  BY <1>1, WithoutUnfolds
<1> DEFINE Good(n) == /\ kept[n] \in Seq(T) /\ Apart(kept[n])
                      /\ \A j \in 1..Len(kept[n]) : \E i \in 1..n : s[i] = kept[n][j]
           Bad == {n \in 0..Len(s) : ~Good(n)}
<1>3. Good(0)
  <2>1. kept[0] = <<>> /\ 1..0 = {} /\ Len(kept[0]) = 0
    BY <1>2
  <2> QED
    BY <2>1 DEF Apart
<1> HIDE DEF Good
<1>4. Bad = {}
  <2>1. SUFFICES ASSUME Bad # {} PROVE FALSE
    OBVIOUS
  <2>2. Bad \subseteq Nat
    BY <1>1
  <2>3. PICK n \in Bad : \A j \in Bad : n <= j
    BY <2>1, <2>2, LeastNatural
  <2>4. n # 0
    BY <1>3, <2>3
  <2>5. n - 1 \in 0..Len(s) /\ Good(n - 1)
    BY <1>1, <2>3, <2>4
  <2>6. n \in 1..Len(s) /\ s[n] \in T
    BY <1>1, <2>3, <2>4
  <2>7. /\ kept[n - 1] \in Seq(T) /\ Apart(kept[n - 1])
        /\ \A j \in 1..Len(kept[n - 1]) : \E i \in 1..(n - 1) : s[i] = kept[n - 1][j]
    BY <2>5 DEF Good
  <2>8. CASE s[n] = t
    <3>1. kept[n] = kept[n - 1]
      BY <1>2, <2>6, <2>8
    <3>2. Good(n)
      BY <2>6, <2>7, <3>1 DEF Good
    <3> QED
      BY <2>3, <3>2
  <2>9. CASE s[n] # t
    <3>1. kept[n] = Append(kept[n - 1], s[n])
      BY <1>2, <2>6, <2>9
    <3>2. /\ kept[n] \in Seq(T) /\ Len(kept[n]) = Len(kept[n - 1]) + 1
          /\ kept[n][Len(kept[n - 1]) + 1] = s[n]
          /\ \A j \in 1..Len(kept[n - 1]) : kept[n][j] = kept[n - 1][j]
      BY <2>6, <2>7, <3>1, AppendProperties
    <3>3. Len(kept[n - 1]) \in Nat
      BY <2>7
    <3>4. \A j \in 1..Len(kept[n - 1]) : kept[n - 1][j] # s[n]
      <4> SUFFICES ASSUME NEW j \in 1..Len(kept[n - 1]), kept[n - 1][j] = s[n] PROVE FALSE
        OBVIOUS
      <4>1. PICK i \in 1..(n - 1) : s[i] = kept[n - 1][j]
        BY <2>7
      <4>2. i \in 1..Len(s) /\ i # n
        BY <2>6
      <4> QED
        BY <2>6, <4>1, <4>2 DEF Apart
    <3>5. \A j \in 1..Len(kept[n]) : j = Len(kept[n - 1]) + 1 \/ j \in 1..Len(kept[n - 1])
      BY <3>2, <3>3
    <3>6. Apart(kept[n])
      <4> SUFFICES ASSUME NEW a \in 1..Len(kept[n]), NEW b \in 1..Len(kept[n]), kept[n][a] = kept[n][b]
                   PROVE a = b
        BY DEF Apart
      <4>1. CASE a \in 1..Len(kept[n - 1]) /\ b \in 1..Len(kept[n - 1])
        BY <2>7, <3>2, <4>1 DEF Apart
      <4> QED
        BY <3>2, <3>4, <3>5, <4>1
    <3>7. ASSUME NEW j \in 1..Len(kept[n])
          PROVE  \E i \in 1..n : s[i] = kept[n][j]
      <4>1. CASE j = Len(kept[n - 1]) + 1
        BY <2>6, <3>2, <4>1
      <4>2. CASE j \in 1..Len(kept[n - 1])
        BY <2>6, <2>7, <3>2, <4>2
      <4> QED
        BY <3>5, <4>1, <4>2
    <3>8. Good(n)
      BY <3>2, <3>6, <3>7 DEF Good
    <3> QED
      BY <2>3, <3>8
  <2> QED
    BY <2>8, <2>9
<1>5. Good(Len(s))
  BY <1>1, <1>4
<1> QED
  BY <1>2, <1>5 DEF Good

-----------------------------------------------------------------------------
(* More about remainders.                                                   *)

\* A remainder can be taken early, or late.
LEMMA ModAdd ==
  ASSUME NEW N \in Nat \ {0}, NEW x \in Nat, NEW j \in Int
  PROVE  ((x % N) + j) % N = (x + j) % N
<1>1. PICK k \in Int, r \in 0..(N - 1) : x = (N * k) + r /\ x % N = r
  <2>1. x \in Int
    OBVIOUS
  <2> QED
    BY <2>1, ModExists
<1>2. r + j \in Int
  OBVIOUS
<1>3. PICK q \in Int, s \in 0..(N - 1) : r + j = (N * q) + s /\ (r + j) % N = s
  BY <1>2, ModExists
<1>4. x + j = (N * (k + q)) + s
  BY <1>1, <1>3
<1>5. ((N * (k + q)) + s) % N = s
  <2>1. k + q \in Int
    OBVIOUS
  <2> QED
    BY <2>1, ModUnique
<1> QED
  BY <1>1, <1>3, <1>4, <1>5

=============================================================================
