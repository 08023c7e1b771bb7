-------------------------------- MODULE Fifo --------------------------------
(***************************************************************************)
(* What a buffer between producers and consumers promises: what is put in  *)
(* comes out once, in order.                                               *)
(***************************************************************************)
EXTENDS Sequences

CONSTANTS Value,
          NoValue   \* nothing has come out yet

VARIABLES q,     \* what is inside
          out    \* what came out last

vars == <<q, out>>

Init == q = <<>> /\ out = NoValue

Put(v) == q' = Append(q, v) /\ UNCHANGED out
Get == q # <<>> /\ out' = Head(q) /\ q' = Tail(q)

Next == Get \/ \E v \in Value : Put(v)

Spec == Init /\ [][Next]_vars

=============================================================================
