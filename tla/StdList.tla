------------------------------- MODULE StdList -------------------------------
(***************************************************************************)
(* std::list<T>::remove(), of the C++ library: every entry that equals t   *)
(* goes.  It is a SelectSeq, by recursion on the number of entries, in a   *)
(* form that a proof can expand.                                           *)
(***************************************************************************)
EXTENDS Naturals, Sequences

Without(s, t) ==
  LET kept[i \in 0..Len(s)] ==
        IF i = 0 THEN <<>>
        ELSE IF s[i] = t THEN kept[i - 1] ELSE Append(kept[i - 1], s[i])
  IN  kept[Len(s)]

=============================================================================
