---------------------------------- MODULE I2c ----------------------------------
(***************************************************************************)
(* Reads and writes of a device's registers over I2C, on the Pi and on the *)
(* Pico.                                                                   *)
(*                                                                         *)
(* core/pi/i2c.cpp: through /dev/i2c-*.  The device (external) keeps the   *)
(* register that was written to it last and answers a read from it, so     *)
(* that a read takes two transfers, under the lock of the bus.             *)
(* i2c_unlock() locks it again (line 31), and a thread that locks a        *)
(* pthread mutex twice waits for ever; a transfer that fails returns with  *)
(* the lock taken (75, 98).  The lock is NULL, and nothing is locked, when *)
(* i2c_init_bus() has not been called or there were no lock functions      *)
(* then.                                                                   *)
(*                                                                         *)
(* core/pico/i2c.cpp: the table of opened devices, where an address of 0   *)
(* marks a free entry, and reads and writes of a device's registers.       *)
(* Nothing is locked, tasks are preempted between any two transfers, and   *)
(* transfers fail.  A task owns one device: it opens it, reads, writes and *)
(* closes it.                                                              *)
(***************************************************************************)
EXTENDS Integers, Sequences, FiniteSets

-----------------------------------------------------------------------------
(* The Pi.                                                                  *)

CONSTANTS I2cThread,
          Byte     \* the bytes that make up a register's number

Reg == Byte \X Byte \* 16-bit registers, the upper byte first; 8-bit ones are <<0, b>>

VARIABLES
  bus_lock,     \* lock[bus]: "null", "free", or who holds it
  has_lock_fns, \* core_lock_init() has been called
  pointer,      \* the register that the device is at
  i2c_at,       \* where each thread is
  asked,        \* the register that it reads
  answer        \* the register whose data it got, <<>> when it failed

pi_vars == <<bus_lock, has_lock_fns, pointer, i2c_at, asked, answer>>

Places == {"out", "lock", "lock16", "reg", "reg16", "data", "unlock"}

PiTypeOK ==
  /\ bus_lock \in I2cThread \cup {"null", "free"}
  /\ has_lock_fns \in BOOLEAN
  /\ pointer \in Reg
  /\ i2c_at \in [I2cThread -> Places]
  /\ asked \in [I2cThread -> Reg]
  /\ answer \in [I2cThread -> Reg \cup {<<>>}]

PiInit ==
  /\ bus_lock = "null" /\ has_lock_fns = FALSE
  /\ pointer = <<0, 0>>
  /\ i2c_at = [t \in I2cThread |-> "out"]
  /\ asked = [t \in I2cThread |-> <<0, 0>>]
  /\ answer = [t \in I2cThread |-> <<>>]

Goto(t, place) == i2c_at' = [i2c_at EXCEPT ![t] = place]

pi_init_with_threads ==
  /\ ~has_lock_fns /\ bus_lock = "null"
  /\ \A t \in I2cThread : i2c_at[t] = "out"
  /\ has_lock_fns' = TRUE
  /\ UNCHANGED <<bus_lock, pointer, i2c_at, asked, answer>>

\* Before the bus is used.
i2c_init_bus ==
  /\ bus_lock = "null" /\ \A t \in I2cThread : i2c_at[t] = "out"
  /\ bus_lock' = IF has_lock_fns THEN "free" ELSE "null"
  /\ UNCHANGED <<has_lock_fns, pointer, i2c_at, asked, answer>>

-----------------------------------------------------------------------------
(* i2c_read() and i2c_read_16()                                             *)

i2c_read(t, b) ==
  /\ i2c_at[t] = "out"
  /\ asked' = [asked EXCEPT ![t] = <<0, b>>]
  /\ answer' = [answer EXCEPT ![t] = <<>>]
  /\ Goto(t, "lock")
  /\ UNCHANGED <<bus_lock, has_lock_fns, pointer>>

i2c_read_16(t, reg) ==
  /\ i2c_at[t] = "out"
  /\ asked' = [asked EXCEPT ![t] = reg]
  /\ answer' = [answer EXCEPT ![t] = <<>>]
  /\ Goto(t, "lock16")
  /\ UNCHANGED <<bus_lock, has_lock_fns, pointer>>

\* Mutant: the bus is not locked.
i2c_lock_none(t) ==
  /\ i2c_at[t] \in {"lock", "lock16"}
  /\ Goto(t, IF i2c_at[t] = "lock" THEN "reg" ELSE "reg16")
  /\ UNCHANGED <<bus_lock, has_lock_fns, pointer, asked, answer>>

i2c_lock(t) ==
  /\ i2c_at[t] \in {"lock", "lock16"}
  /\ bus_lock \in {"null", "free"}
  /\ bus_lock' = IF bus_lock = "free" THEN t ELSE bus_lock
  /\ Goto(t, IF i2c_at[t] = "lock" THEN "reg" ELSE "reg16")
  /\ UNCHANGED <<has_lock_fns, pointer, asked, answer>>

\* The transfer of the register's number: as one byte, or (in i2c_read_16()) as
\* the two bytes of a little-endian integer, the lower first.
WriteReg(t) ==
  /\ i2c_at[t] \in {"reg", "reg16"}
  /\ pointer' = IF i2c_at[t] = "reg" THEN asked[t] ELSE <<asked[t][2], asked[t][1]>>
  /\ Goto(t, "data")
  /\ UNCHANGED <<bus_lock, has_lock_fns, asked, answer>>

\* Nobody unlocks.
WriteRegFails(t) ==
  /\ i2c_at[t] \in {"reg", "reg16"}
  /\ Goto(t, "out")
  /\ UNCHANGED <<bus_lock, has_lock_fns, pointer, asked, answer>>

ReadData(t) ==
  /\ i2c_at[t] = "data"
  /\ answer' = [answer EXCEPT ![t] = pointer]
  /\ Goto(t, "unlock")
  /\ UNCHANGED <<bus_lock, has_lock_fns, pointer, asked>>

\* i2c_unlock() of who holds the lock never returns.
i2c_unlock(t) ==
  /\ i2c_at[t] = "unlock" /\ bus_lock \in {"null", "free"}
  /\ bus_lock' = IF bus_lock = "free" THEN t ELSE bus_lock
  /\ Goto(t, "out")
  /\ UNCHANGED <<has_lock_fns, pointer, asked, answer>>

\* i2c_write() and i2c_write_16() are one transfer, and i2c_exists() a read of
\* one byte without the lock, which does not move the register.
WriteRegAndData(t, reg) ==
  /\ i2c_at[t] = "out" /\ bus_lock \in {"null", "free"}
  /\ bus_lock' = IF bus_lock = "free" THEN t ELSE bus_lock
  /\ pointer' = reg
  /\ asked' = [asked EXCEPT ![t] = reg]
  /\ answer' = [answer EXCEPT ![t] = reg]
  /\ Goto(t, "unlock")
  /\ UNCHANGED has_lock_fns

PiNext ==
  \/ pi_init_with_threads \/ i2c_init_bus
  \/ \E t \in I2cThread :
       \/ \E b \in Byte : i2c_read(t, b)
       \/ \E reg \in Reg : i2c_read_16(t, reg) \/ WriteRegAndData(t, reg)
       \/ i2c_lock(t) \/ WriteReg(t) \/ WriteRegFails(t) \/ ReadData(t) \/ i2c_unlock(t)

PiSpec == PiInit /\ [][PiNext]_pi_vars

\* On a bus that has a lock, whoever got data has the lock, and got the data of
\* the register it asked for (or of the one with the bytes the other way round,
\* for i2c_read_16()).
ReadsOwnRegister ==
  bus_lock # "null" => \A t \in I2cThread :
    i2c_at[t] = "unlock" => answer[t] \in {asked[t], <<asked[t][2], asked[t][1]>>} /\ bus_lock = t

\* Once the lock of a bus has been taken it is never free again, whether the
\* transfer succeeds or fails, because i2c_unlock() does not unlock: nobody gets
\* past i2c_lock() or i2c_unlock() any more, not even who holds it.  The first
\* operation on the bus is the last.
FirstOperationIsTheLast ==
  [][\A t \in I2cThread : bus_lock \in I2cThread =>
       /\ bus_lock' = bus_lock
       /\ i2c_at[t] \in {"lock", "lock16", "unlock"} => i2c_at'[t] = i2c_at[t]]_pi_vars

-----------------------------------------------------------------------------
(* The Pico.                                                                *)

CONSTANTS I2cTask,
          MAX_I2C,
          Address,    \* a function: the address, not 0, of each task's device
          Register

VARIABLES
  i2c_data,     \* the address of each entry
  reg_of,       \* the register that each device is at
  task_at,      \* where each task is
  fd,           \* the entry that it looks at or has opened; MAX_I2C: none
  reg,          \* the register that it has asked for last
  open_raced,   \* history: two calls of i2c_open() have overlapped
  read_raced,   \* history: the tasks whose device another has sent a register
                \* between the two transfers of their read
  write_lost    \* history: the tasks whose i2c_read() could not send the register

pico_vars == <<i2c_data, reg_of, task_at, fd, reg, open_raced, read_raced, write_lost>>

Addresses == {Address[t] : t \in I2cTask}
Slot == 0..(MAX_I2C - 1)

PicoTypeOK ==
  /\ i2c_data \in [Slot -> Addresses \cup {0}]
  /\ reg_of \in [Addresses -> Register]
  /\ task_at \in [I2cTask -> {"closed", "scan", "store", "open", "read"}]
  /\ fd \in [I2cTask -> 0..MAX_I2C]
  /\ reg \in [I2cTask -> Register]
  /\ open_raced \in BOOLEAN /\ read_raced \subseteq I2cTask /\ write_lost \subseteq I2cTask

AnyReg == CHOOSE r \in Register : TRUE

PicoInit ==
  /\ i2c_data = [s \in Slot |-> 0]
  /\ reg_of = [a \in Addresses |-> AnyReg]
  /\ task_at = [t \in I2cTask |-> "closed"]
  /\ fd = [t \in I2cTask |-> MAX_I2C]
  /\ reg = [t \in I2cTask |-> AnyReg]
  /\ open_raced = FALSE /\ read_raced = {} /\ write_lost = {}

PicoGoto(t, place) == task_at' = [task_at EXCEPT ![t] = place]
Opening == {t \in I2cTask : task_at[t] \in {"scan", "store"}}
Readers(t) == {u \in I2cTask : task_at[u] = "read" /\ Address[u] = Address[t]}

-----------------------------------------------------------------------------
(* i2c_open() and i2c_close()                                               *)

pico_i2c_open(t) ==
  /\ task_at[t] = "closed"
  /\ fd' = [fd EXCEPT ![t] = 0]
  /\ open_raced' = (open_raced \/ Opening # {})
  /\ PicoGoto(t, "scan")
  /\ UNCHANGED <<i2c_data, reg_of, reg, read_raced, write_lost>>

ScanOne(t) ==
  /\ task_at[t] = "scan" /\ fd[t] < MAX_I2C /\ i2c_data[fd[t]] # 0
  /\ fd' = [fd EXCEPT ![t] = @ + 1]
  /\ UNCHANGED <<i2c_data, reg_of, task_at, reg, open_raced, read_raced, write_lost>>

ScanFound(t) ==
  /\ task_at[t] = "scan" /\ fd[t] < MAX_I2C /\ i2c_data[fd[t]] = 0
  /\ PicoGoto(t, "store")
  /\ UNCHANGED <<i2c_data, reg_of, fd, reg, open_raced, read_raced, write_lost>>

\* The table is full.
OpenFails(t) ==
  /\ task_at[t] = "scan" /\ fd[t] = MAX_I2C
  /\ PicoGoto(t, "closed")
  /\ UNCHANGED <<i2c_data, reg_of, fd, reg, open_raced, read_raced, write_lost>>

StoreAddress(t) ==
  /\ task_at[t] = "store"
  /\ i2c_data' = [i2c_data EXCEPT ![fd[t]] = Address[t]]
  /\ PicoGoto(t, "open")
  /\ UNCHANGED <<reg_of, fd, reg, open_raced, read_raced, write_lost>>

pico_i2c_close(t) ==
  /\ task_at[t] = "open"
  /\ i2c_data' = [i2c_data EXCEPT ![fd[t]] = 0]
  /\ fd' = [fd EXCEPT ![t] = MAX_I2C]
  /\ reg' = [reg EXCEPT ![t] = AnyReg]
  /\ PicoGoto(t, "closed")
  /\ UNCHANGED <<reg_of, open_raced, read_raced, write_lost>>

-----------------------------------------------------------------------------
(* i2c_read(), i2c_read_16(), i2c_write() and i2c_write_16(): the register's *)
(* number, and then, in another transfer or behind it, the data, at the      *)
(* address that the entry has at that moment.  Every transfer may fail.      *)

\* The number of register r reaches the device.
Send(t, r) ==
  /\ LET a == i2c_data[fd[t]]
     IN  reg_of' = [x \in Addresses |-> IF x = a THEN r ELSE reg_of[x]]
  /\ read_raced' = read_raced \cup Readers(t)

\* Mutant: the register is sent only when it is not the task's last one.
pico_i2c_read_lazy(t, r) ==
  /\ task_at[t] = "open"
  /\ reg' = [reg EXCEPT ![t] = r]
  /\ \/ r # reg[t] /\ Send(t, r) /\ UNCHANGED write_lost
     \/ r = reg[t] /\ UNCHANGED <<reg_of, read_raced, write_lost>>
     \/ UNCHANGED <<reg_of, read_raced>> /\ write_lost' = write_lost \cup {t}
  /\ PicoGoto(t, "read")
  /\ UNCHANGED <<i2c_data, fd, open_raced>>

\* Whether the register's number was sent is ignored (line 50).
pico_i2c_read(t, r) ==
  /\ task_at[t] = "open"
  /\ reg' = [reg EXCEPT ![t] = r]
  /\ \/ Send(t, r) /\ UNCHANGED write_lost
     \/ UNCHANGED <<reg_of, read_raced>> /\ write_lost' = write_lost \cup {t}
  /\ PicoGoto(t, "read")
  /\ UNCHANGED <<i2c_data, fd, open_raced>>

\* It returns -1 when the register's number was not sent (85).
pico_i2c_read_16(t, r) ==
  /\ task_at[t] = "open"
  /\ reg' = [reg EXCEPT ![t] = r]
  /\ \/ Send(t, r) /\ PicoGoto(t, "read")
     \/ UNCHANGED <<reg_of, read_raced, task_at>>
  /\ UNCHANGED <<i2c_data, fd, open_raced, write_lost>>

\* The data are those of the register that the device is at by now, or the
\* transfer fails, which is what the caller is told.
PicoReadData(t) ==
  /\ task_at[t] = "read"
  /\ read_raced' = read_raced \ {t} /\ write_lost' = write_lost \ {t}
  /\ PicoGoto(t, "open")
  /\ UNCHANGED <<i2c_data, reg_of, fd, reg, open_raced>>

\* Register and data are one transfer, of which the caller is told whether it failed.
pico_i2c_write(t, r) ==
  /\ task_at[t] = "open"
  /\ reg' = [reg EXCEPT ![t] = r]
  /\ Send(t, r) \/ UNCHANGED <<reg_of, read_raced>>
  /\ UNCHANGED <<i2c_data, task_at, fd, open_raced, write_lost>>

PicoNext ==
  \E t \in I2cTask :
    \/ pico_i2c_open(t) \/ ScanOne(t) \/ ScanFound(t) \/ OpenFails(t) \/ StoreAddress(t)
    \/ \E r \in Register : pico_i2c_read(t, r) \/ pico_i2c_read_16(t, r) \/ pico_i2c_write(t, r)
    \/ PicoReadData(t) \/ pico_i2c_close(t)

PicoSpec == PicoInit /\ [][PicoNext]_pico_vars

\* As long as no two calls of i2c_open() have overlapped, tasks have entries of
\* their own, through all closing and reuse, and a read takes the data of the
\* register it asked for, except: when another task has sent its device a
\* register in between, and when i2c_read() could not send the register and
\* reads all the same.
ReadsItsRegister ==
  ~open_raced => \A t \in I2cTask : task_at[t] \in {"open", "read"} =>
    /\ i2c_data[fd[t]] = Address[t]
    /\ \A u \in I2cTask \ {t} : task_at[u] \in {"open", "read"} => fd[u] # fd[t]
    /\ task_at[t] = "read" /\ t \notin read_raced \cup write_lost => reg_of[Address[t]] = reg[t]

=============================================================================
