----------------------------- MODULE RotaryEncoder -----------------------------
(***************************************************************************)
(* core/include/rotary-encoder.h: the two outputs A and B of an encoder    *)
(* are decoded in the interrupt of A into a value within a range.          *)
(* position counts the quarter steps that the knob has been turned, from a *)
(* position in which A and B are low.                                      *)
(***************************************************************************)
EXTENDS Integers

CONSTANTS MaxPosition,   \* bounds the turning, both ways
          INT_MAX,
          Ranges         \* the <<min_value, max_value>> that set_range() is given

VARIABLES
  position,
  value, min_value, max_value, last_A,
  on_change,     \* "out", or the handler has read A: its value
  pending,       \* the interrupt of A is pending
  late,          \* history: the knob was turned before an edge of A was handled
  moved          \* history: set_range() or the ends of the range have changed the value

vars == <<position, value, min_value, max_value, last_A, on_change, pending, late, moved>>

A(p) == p % 4 \in {1, 2}
B(p) == p % 4 \in {2, 3}

TypeOK ==
  /\ position \in -MaxPosition..MaxPosition
  /\ <<min_value, max_value>> \in Ranges \cup {<<-INT_MAX, INT_MAX>>}
  /\ value \in min_value..max_value
  /\ last_A \in BOOLEAN
  /\ on_change \in {"out", "low", "high"}
  /\ pending \in BOOLEAN /\ late \in BOOLEAN /\ moved \in BOOLEAN

Init ==
  /\ position = 0
  /\ min_value = -INT_MAX /\ max_value = INT_MAX
  /\ value = 0
  /\ last_A = A(0)
  /\ on_change = "out" /\ pending = FALSE
  /\ late = FALSE /\ moved = FALSE

Turn(direction) ==
  LET p == position + direction IN
  /\ p \in -MaxPosition..MaxPosition
  /\ position' = p
  /\ pending' = (pending \/ A(p) # A(position))
  /\ late' = (late \/ pending \/ on_change # "out")
  /\ UNCHANGED <<value, min_value, max_value, last_A, on_change, moved>>

\* on_change() begins and reads A (line 59).
ReadA ==
  /\ pending /\ on_change = "out"
  /\ pending' = FALSE
  /\ on_change' = IF A(position) THEN "high" ELSE "low"
  /\ UNCHANGED <<position, value, min_value, max_value, last_A, late, moved>>

\* Mutant: the direction is taken from the old level of A.
Step_old == IF B(position) = last_A THEN 1 ELSE -1

\* The direction: B is read after A.
Step == IF B(position) = (on_change = "high") THEN 1 ELSE -1

\* The rest of on_change().
Count ==
  /\ on_change # "out"
  /\ on_change' = "out"
  /\ last_A' = (on_change = "high")
  /\ IF last_A' = last_A THEN UNCHANGED <<value, moved>>
     ELSE IF value + Step \in min_value..max_value
            THEN value' = value + Step /\ UNCHANGED moved
            ELSE moved' = TRUE /\ UNCHANGED value
  /\ UNCHANGED <<position, min_value, max_value, pending, late>>

set_range(mn, mx) ==
  /\ min_value' = mn /\ max_value' = mx
  /\ value' = IF value < mn THEN mn ELSE IF value > mx THEN mx ELSE value
  /\ moved' = (moved \/ value' # value)
  /\ UNCHANGED <<position, last_A, on_change, pending, late>>

\* Values outside the range are ignored.
set(new_value) ==
  /\ new_value \in min_value..max_value
  /\ value' = new_value
  /\ moved' = (moved \/ new_value # value)
  /\ UNCHANGED <<position, min_value, max_value, last_A, on_change, pending, late>>

Next ==
  \/ \E direction \in {-1, 1} : Turn(direction)
  \/ ReadA \/ Count
  \/ \E r \in Ranges : set_range(r[1], r[2])
  \/ set(0)

Spec == Init /\ [][Next]_vars

-----------------------------------------------------------------------------
(* Properties.                                                              *)

\* As long as every edge of A is handled before the knob turns on, and nothing
\* else changes the value, the value is given by where the knob is: turning to
\* and fro, also over the same edge, adds nothing up.
CountsThePosition ==
  ~late /\ ~moved /\ ~pending /\ on_change = "out" => value = -((position + 1) \div 2)

=============================================================================
