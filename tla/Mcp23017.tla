------------------------------- MODULE Mcp23017 -------------------------------
(***************************************************************************)
(* core/mcp23017.cpp: a port expander behind I2C, one of its two banks.    *)
(* The object keeps a copy of the direction, pull-up, output and interrupt *)
(* registers, changes a bit of the copy and writes the whole byte; the     *)
(* result of the write is ignored.  Nothing is locked: threads set their   *)
(* outputs at once, reading, changing, storing and writing the byte of all *)
(* eight.  One thread, Setup, makes the inputs and outputs.                *)
(*                                                                         *)
(* A register is the set of its bits.                                      *)
(***************************************************************************)
EXTENDS Naturals

CONSTANTS McpThread, Setup, Pin,
          McpInput,    \* the MCPInput objects, with their pin
          has_int,     \* the bank's interrupt pin is connected
          Failing      \* the registers whose writes may fail

pin_of == McpInput     \* a function from the objects to their pins
Input == DOMAIN McpInput
Reg == {"dir", "pullup", "out", "inten"}

VARIABLES
  copy,       \* the object's dir, pullup, out and inten
  device,     \* the registers of the expander
  call,       \* what each thread does: a record with its place
  input,      \* "none", "made", "notifying" or "deleted", for each MCPInput
  inputs,     \* MCPNotifier::inputs
  clash,      \* history: the threads whose call has overlapped another for its register
  suspect     \* history: the registers whose last write failed or clashed

vars == <<copy, device, call, input, inputs, clash, suspect>>

Idle == [at |-> "out", reg |-> "out", value |-> {}]
Call == [at : {"out", "change", "write"}, reg : Reg, value : SUBSET Pin]

TypeOK ==
  /\ copy \in [Reg -> SUBSET Pin] /\ device \in [Reg -> SUBSET Pin]
  /\ call \in [McpThread -> Call]
  /\ input \in [Input -> {"none", "made", "notifying", "deleted"}]
  /\ inputs \subseteq Input
  /\ clash \subseteq McpThread /\ suspect \subseteq Reg

\* The constructor writes every register, as it does here without failing.
Init ==
  /\ copy = [r \in Reg |-> {}] /\ device = copy
  /\ call = [t \in McpThread |-> Idle]
  /\ input = [i \in Input |-> "none"]
  /\ inputs = {}
  /\ clash = {} /\ suspect = {}

-----------------------------------------------------------------------------
(* Changing a bit: set_bit() and the write of the register.                 *)

WithBit(bits, pin, value) == IF value THEN bits \cup {pin} ELSE bits \ {pin}

\* The copy is read, and the new value made.
Begin(t, reg, pin, value) ==
  /\ call[t].at = "out"
  /\ call' = [call EXCEPT ![t] = [at |-> "change", reg |-> reg,
                                  value |-> WithBit(copy[reg], pin, value)]]
  /\ LET others == {u \in McpThread : call[u].at # "out" /\ call[u].reg = reg}
     IN  clash' = IF others = {} THEN clash ELSE clash \cup others \cup {t}

\* It is stored, and i2c_write_byte() called with it.
Store(t) ==
  /\ call[t].at = "change"
  /\ copy' = [copy EXCEPT ![call[t].reg] = call[t].value]
  /\ call' = [call EXCEPT ![t].at = "write"]
  /\ UNCHANGED <<device, input, inputs, clash, suspect>>

\* Mutant: the direction is written when the first pin of the byte is used.
Write_late(t) ==
  /\ call[t].at = "write"
  /\ device' = IF call[t].reg = "dir" THEN device ELSE [device EXCEPT ![call[t].reg] = call[t].value]
  /\ suspect' = suspect \ {call[t].reg}
  /\ call' = [call EXCEPT ![t] = Idle]
  /\ clash' = clash \ {t}
  /\ UNCHANGED <<copy, input, inputs>>

Write(t) ==
  /\ call[t].at = "write"
  /\ \/ /\ device' = [device EXCEPT ![call[t].reg] = call[t].value]
        /\ suspect' = IF t \in clash THEN suspect \cup {call[t].reg} ELSE suspect \ {call[t].reg}
     \/ /\ call[t].reg \in Failing
        /\ suspect' = suspect \cup {call[t].reg}
        /\ UNCHANGED device
  /\ call' = [call EXCEPT ![t] = Idle]
  /\ clash' = clash \ {t}
  /\ UNCHANGED <<copy, input, inputs>>

\* assert_output() holds.
set(t, pin, value) ==
  /\ pin \notin copy["dir"]
  /\ Begin(t, "out", pin, value)
  /\ UNCHANGED <<copy, device, input, inputs, suspect>>

get_output(t, pin) ==
  /\ \A i \in Input : pin_of[i] = pin => input[i] \in {"none", "deleted"}
  /\ Begin(t, "dir", pin, FALSE)
  /\ UNCHANGED <<copy, device, input, inputs, suspect>>

-----------------------------------------------------------------------------
(* MCPInput                                                                 *)

get_input(t, i) ==
  /\ input[i] = "none"
  /\ Begin(t, "dir", pin_of[i], TRUE)
  /\ input' = [input EXCEPT ![i] = "made"]
  /\ UNCHANGED <<copy, device, inputs, suspect>>

set_pullup(t, i, value) ==
  /\ input[i] \in {"made", "notifying"} /\ pin_of[i] \in copy["dir"]
  /\ Begin(t, "pullup", pin_of[i], value)
  /\ UNCHANGED <<copy, device, input, inputs, suspect>>

\* set_notifier(): refused without an interrupt pin.
add_notifier(t, i) ==
  /\ input[i] \in {"made", "notifying"}
  /\ has_int
  /\ inputs' = inputs \cup {i}
  /\ input' = [input EXCEPT ![i] = "notifying"]
  /\ Begin(t, "inten", pin_of[i], TRUE)
  /\ UNCHANGED <<copy, device, suspect>>

\* ~MCPInput(): the bit is cleared for every object of the pin; without an
\* interrupt pin the list of the bank does not exist.
remove_notifier(t, i) ==
  /\ input[i] \in {"made", "notifying"}
  /\ Begin(t, "inten", pin_of[i], FALSE)
  /\ input' = [input EXCEPT ![i] = "deleted"]
  /\ inputs' = inputs \ {i}
  /\ UNCHANGED <<copy, device, suspect>>

Next ==
  \/ \E t \in McpThread :
       \/ Store(t) \/ Write(t)
       \/ \E pin \in Pin, value \in BOOLEAN : set(t, pin, value)
  \/ \E pin \in Pin : get_output(Setup, pin)
  \/ \E i \in Input :
       \/ \E value \in BOOLEAN : set_pullup(Setup, i, value)
       \/ get_input(Setup, i) \/ add_notifier(Setup, i) \/ remove_notifier(Setup, i)

Spec == Init /\ [][Next]_vars

-----------------------------------------------------------------------------
(* Properties.                                                              *)

Quiet(reg) == \A t \in McpThread : call[t].at = "out" \/ call[t].reg # reg

\* When no call is under way for a register, the expander has the value that
\* the object believes, unless the last write failed or overlapped another
\* (then the older value may have been written last): one write that does
\* neither puts it right again.
DeviceIsTheCopy == \A reg \in Reg \ suspect : Quiet(reg) => device[reg] = copy[reg]

\* An input that waits for changes has its interrupt enabled, unless another
\* object of the same pin has been deleted.
NotifyingIsEnabled ==
  Quiet("inten") =>
    \A i \in inputs :
      pin_of[i] \in copy["inten"] \/ \E o \in Input \ {i} : pin_of[o] = pin_of[i] /\ input[o] = "deleted"

=============================================================================
