---------------------------- MODULE DevicesProofs ----------------------------
(***************************************************************************)
(* Proofs about the devices: what the run `devices' checks of every state  *)
(* and of every step, for any pins, ranges, files, pages, canvases and     *)
(* sounds, and any bounds.  Each part has an inductive invariant, as in    *)
(* DataProofs; IInv, at the end, is the conjunction of them all.           *)
(***************************************************************************)
EXTENDS DataProofs

-----------------------------------------------------------------------------
(* GpioPico                                                                 *)

\* The pins of a slice are counted where they are.
PwmInv == G!TypeOK /\ G!SliceServesItsPins

\* The channels that are claimed: neither, either or both.
Claimed(pins) == {c \in {0, 1} : pins[c] # -1}

\* Their number.
LEMMA ClaimedIsCounted ==
  ASSUME NEW pins
  PROVE  Cardinality(Claimed(pins)) =
           (IF pins[0] # -1 THEN 1 ELSE 0) + (IF pins[1] # -1 THEN 1 ELSE 0)
<1>1. CASE pins[0] # -1 /\ pins[1] # -1
  <2>1. Claimed(pins) = {0, 1}
    BY <1>1 DEF Claimed
  <2>2. Cardinality({0, 1}) = 2
    <3>1. {0, 1} = {0} \cup {1} /\ 1 \notin {0}
      OBVIOUS
    <3>2. IsFiniteSet({0}) /\ Cardinality({0}) = 1
      BY FS_Singleton
    <3> QED
      BY <3>1, <3>2, FS_AddElement
  <2> QED
    BY <1>1, <2>1, <2>2
<1>2. CASE pins[0] # -1 /\ pins[1] = -1
  <2>1. Claimed(pins) = {0}
    BY <1>2 DEF Claimed
  <2> QED
    BY <1>2, <2>1, FS_Singleton
<1>3. CASE pins[0] = -1 /\ pins[1] # -1
  <2>1. Claimed(pins) = {1}
    BY <1>3 DEF Claimed
  <2> QED
    BY <1>3, <2>1, FS_Singleton
<1>4. CASE pins[0] = -1 /\ pins[1] = -1
  <2>1. Claimed(pins) = {}
    BY <1>4 DEF Claimed
  <2> QED
    BY <1>4, <2>1, FS_EmptySet
<1> QED
  BY <1>1, <1>2, <1>3, <1>4

\* The module has a copy of the operator.
LEMMA SameCardinality == ASSUME NEW some PROVE G!Cardinality(some) = Cardinality(some)
BY DEF G!Cardinality, Cardinality

\* The count in the words of the module.
Count(pins) == (IF pins[0] # -1 THEN 1 ELSE 0) + (IF pins[1] # -1 THEN 1 ELSE 0)

\* The channels in use are counted by it, before a step and after it.
LEMMA SliceCounts ==
  /\ G!Cardinality({c \in G!Channel : channel_pins[c] # G!NoPin}) = Count(channel_pins)
  /\ G!Cardinality({c \in G!Channel : channel_pins'[c] # G!NoPin}) = Count(channel_pins')
BY ClaimedIsCounted, SameCardinality DEF G!Channel, G!NoPin, Claimed, Count

\* A slice has no pins at first.
LEMMA PwmInit == G!Init => PwmInv
<1> SUFFICES ASSUME G!Init
             PROVE  PwmInv
  OBVIOUS
<1>1. Count(channel_pins) = 0
  BY DEF G!Init, G!Channel, G!NoPin, Count
<1>2. enabled \in BOOLEAN
  BY DEF G!Init
<1> QED
  BY <1>1, <1>2, SliceCounts DEF G!Init, PwmInv, G!TypeOK, G!SliceServesItsPins, G!Channel, G!NoPin

\* A pin's channel is one of the two.
LEMMA ChannelOfPin == \A g \in Gpio : G!channel(g) \in G!Channel
BY GpioAssumption DEF G!channel, G!Channel

\* Enabling a pin counts it, and keeps the frequency that others asked for.
LEMMA EnableStep ==
  ASSUME PwmInv, NEW g \in Gpio, NEW f \in Hz, G!Enable(g, f)
  PROVE  /\ channel_pins' \in [G!Channel -> Gpio \cup {G!NoPin}]
         /\ hz' \in Hz \cup {0} /\ top_hz' \in Hz \cup {0} /\ n_active' \in 0..2
         /\ function' \subseteq Gpio
         /\ G!SliceServesItsPins'
<1> DEFINE c == G!channel(g)
<1> USE DEF PwmInv, G!TypeOK, G!SliceServesItsPins
<1>1. c \in {0, 1}
  BY ChannelOfPin DEF G!Channel
<1>2. g \in Nat
  BY GpioAssumption
<1>3. channel_pins[c] = -1 /\ channel_pins' = [channel_pins EXCEPT ![c] = g]
  BY DEF G!Enable, G!CanEnable, G!NoPin
<1> HIDE DEF c
<1>4. channel_pins' \in [G!Channel -> Gpio \cup {G!NoPin}]
  BY <1>1, <1>3 DEF G!Channel
<1>5. Count(channel_pins') = Count(channel_pins) + 1 /\ Count(channel_pins') \in 0..2
  BY <1>1, <1>2, <1>3 DEF Count, G!Channel
<1>6. n_active' = Count(channel_pins')
  BY <1>5, SliceCounts DEF G!Enable
<1>7. n_active \in 0..2 /\ n_active' = n_active + 1
  BY DEF G!Enable
<1>8. n_active' > 0 /\ hz' \notin BadHz => top_hz' = hz'
  BY <1>7 DEF G!Enable, G!CanEnable
<1> QED
  BY <1>4, <1>5, <1>6, <1>8, SliceCounts DEF G!Enable

\* Every step of the slice keeps its invariant.
LEMMA PwmStep == PwmInv /\ [G!Next]_gpio_pico => PwmInv'
<1> SUFFICES ASSUME PwmInv, [G!Next]_gpio_pico
             PROVE  PwmInv'
  OBVIOUS
<1> USE DEF PwmInv, G!TypeOK, G!SliceServesItsPins
<1>1. ASSUME NEW g \in Gpio, G!pi_gpio_get(g) \/ G!pi_gpio_set(g)
      PROVE  PwmInv'
  BY <1>1 DEF G!pi_gpio_get, G!pi_gpio_set
<1>2. ASSUME NEW g \in Gpio, NEW mode \in {"IN", "OUT"}, G!pi_gpio_set_direction(g, mode)
      PROVE  PwmInv'
  BY <1>2 DEF G!pi_gpio_set_direction
<1>3. ASSUME NEW g \in Gpio, NEW f \in Hz, G!pi_gpio_pwm_enable(g, f)
      PROVE  PwmInv'
  BY <1>3, EnableStep DEF G!pi_gpio_pwm_enable
<1>4. ASSUME NEW g \in Gpio, G!pi_gpio_pwm_disable(g)
      PROVE  PwmInv'
  <2> DEFINE c == G!channel(g)
  <2>1. c \in {0, 1}
    BY ChannelOfPin DEF G!Channel
  <2>2. channel_pins[c] = g /\ channel_pins' = [channel_pins EXCEPT ![c] = -1] /\ g # -1
    BY <1>4, GpioAssumption DEF G!pi_gpio_pwm_disable, G!Owns, G!NoPin
  <2> HIDE DEF c
  <2>3. channel_pins' \in [G!Channel -> Gpio \cup {G!NoPin}]
    BY <2>1, <2>2 DEF G!Channel, G!NoPin
  <2>4. Count(channel_pins') = Count(channel_pins) - 1 /\ Count(channel_pins') \in 0..2
    BY <2>1, <2>2 DEF Count, G!Channel
  <2>5. n_active' = Count(channel_pins') /\ n_active \in 0..2 /\ n_active' = n_active - 1
    BY <1>4, <2>4, SliceCounts DEF G!pi_gpio_pwm_disable
  <2>6. enabled' \in BOOLEAN /\ state' \in [Gpio -> {"FREE", "IN", "OUT", "PWM"}]
    BY <1>4 DEF G!pi_gpio_pwm_disable
  <2> QED
    BY <1>4, <2>3, <2>4, <2>5, <2>6, SliceCounts DEF G!pi_gpio_pwm_disable
<1>5. ASSUME NEW g \in Gpio, G!SetDuty(g)
      PROVE  level_by' \in [G!Channel -> Gpio \cup {G!NoPin}] /\ enabled' \in BOOLEAN
  BY <1>5, ChannelOfPin DEF G!SetDuty
<1>6. ASSUME NEW g \in Gpio, G!pi_gpio_pwm_set_duty(g)
      PROVE  PwmInv'
  BY <1>6, <1>5 DEF G!pi_gpio_pwm_set_duty
<1>7. ASSUME NEW g \in Gpio, G!pi_gpio_servo(g)
      PROVE  PwmInv'
  BY <1>7, <1>5, EnableStep, GpioAssumption DEF G!pi_gpio_servo
<1>8. CASE UNCHANGED gpio_pico
  BY <1>8 DEF gpio_pico
<1> QED
  BY <1>1, <1>2, <1>3, <1>4, <1>6, <1>7, <1>8 DEF G!Next

\* A level is set for a pin by a servo of its own, or by whoever owns the channel.
LEMMA OnlyStaleServosIntrudeStep ==
  ASSUME PwmInv, [G!Next]_gpio_pico
  PROVE  [\A gpio \in Gpio :
            level_by'[G!channel(gpio)] = gpio /\ level_by[G!channel(gpio)] # gpio
              => channel_pins'[G!channel(gpio)] = gpio \/ G!StaleServo(gpio)]_G!vars
<1> SUFFICES ASSUME NEW g \in Gpio, level_by'[G!channel(g)] = g, level_by[G!channel(g)] # g
             PROVE  channel_pins'[G!channel(g)] = g \/ G!StaleServo(g)
  OBVIOUS
<1>1. PICK h \in Gpio : G!pi_gpio_pwm_set_duty(h) \/ G!pi_gpio_servo(h)
  BY DEF G!Next, gpio_pico, G!pi_gpio_get, G!pi_gpio_set, G!pi_gpio_set_direction,
         G!pi_gpio_pwm_enable, G!pi_gpio_pwm_disable
<1>2. level_by' = [level_by EXCEPT ![G!channel(h)] = h]
  BY <1>1 DEF G!pi_gpio_pwm_set_duty, G!pi_gpio_servo, G!SetDuty
<1>3. h = g
  BY <1>2, ChannelOfPin DEF PwmInv, G!TypeOK
<1>4. CASE G!pi_gpio_pwm_set_duty(g)
  BY <1>4 DEF G!pi_gpio_pwm_set_duty, G!Owns
<1>5. CASE G!pi_gpio_servo(g)
  BY <1>5, ChannelOfPin DEF G!pi_gpio_servo, G!Enable, G!StaleServo, G!Owns, PwmInv, G!TypeOK
<1> QED
  BY <1>1, <1>3, <1>4, <1>5

-----------------------------------------------------------------------------
(* GpioPi                                                                   *)

\* The type of the edge that led to the present level.
Level == IF line THEN "RISING" ELSE "FALLING"

\* The last event of the queue, and once the queue is empty the event that was
\* read last, is the edge that led to the present level; the argument is the
\* handler's own unless setter says which is still to be stored.
EdgesInv ==
  /\ E!TypeOK
  /\ ~irq_active => irq_thread = "none" /\ events = <<>> /\ called[1] = 0
                    /\ setter = 0
  /\ IF setter = 0 THEN irq_arg = irq_f ELSE irq_f = setter
  /\ events # <<>> => events[Len(events)] = Level
  /\ irq_thread \in {"drain", "call_arg"} /\ events = <<>> => event = Level
  /\ irq_thread = "call_arg" => called[3] = event
  /\ irq_thread = "read" /\ events = <<>> /\ called[1] # 0 => called[3] = Level

\* No edge has been seen.
LEMMA EdgesInit == E!Init => EdgesInv
<1> SUFFICES ASSUME E!Init
             PROVE  EdgesInv
  OBVIOUS
<1>1. ~line /\ line \in BOOLEAN
  BY DEF E!Init
<1>2. ~irq_active /\ irq_active \in BOOLEAN
  BY DEF E!Init
<1> QED
  BY <1>1, <1>2, EventsAssumption DEF E!Init, EdgesInv, E!TypeOK, E!Type, Level

\* What an edge appends, and what reading takes.
LEMMA QueueOfEvents ==
  ASSUME NEW T, NEW q \in Seq(T)
  PROVE  /\ \A x \in T : /\ Append(q, x) \in Seq(T) /\ Append(q, x) # <<>>
                         /\ Len(Append(q, x)) = Len(q) + 1
                         /\ Append(q, x)[Len(Append(q, x))] = x
         /\ q # <<>> => /\ Head(q) \in T /\ Tail(q) \in Seq(T) /\ Len(Tail(q)) = Len(q) - 1
                        /\ Tail(q) = <<>> => Head(q) = q[Len(q)]
                        /\ Tail(q) # <<>> => Tail(q)[Len(Tail(q))] = q[Len(q)]
<1>1. \A x \in T : /\ Append(q, x) \in Seq(T) /\ Append(q, x) # <<>>
                   /\ Len(Append(q, x)) = Len(q) + 1
                   /\ Append(q, x)[Len(Append(q, x))] = x
  BY AppendProperties
<1>2. ASSUME q # <<>>
      PROVE  /\ Head(q) \in T /\ Tail(q) \in Seq(T) /\ Len(Tail(q)) = Len(q) - 1
             /\ Tail(q) = <<>> => Head(q) = q[Len(q)]
             /\ Tail(q) # <<>> => Tail(q)[Len(Tail(q))] = q[Len(q)]
  <2>1. /\ Tail(q) \in Seq(T) /\ Len(Tail(q)) = Len(q) - 1
        /\ \A i \in 1..Len(Tail(q)) : Tail(q)[i] = q[i + 1]
    BY <1>2, HeadTailProperties
  <2>2. Head(q) \in T /\ Head(q) = q[1]
    BY <1>2, HeadTailProperties
  <2>3. Len(q) \in Nat \ {0}
    BY <1>2, EmptySeq, LenProperties
  <2>4. CASE Tail(q) = <<>>
    <3>1. Len(q) = 1
      <4>1. Len(Tail(q)) = 0
        BY <2>1, <2>4, EmptySeq
      <4>2. Len(Tail(q)) = Len(q) - 1
        BY <2>1
      <4> QED
        BY <2>3, <4>1, <4>2
    <3> QED
      BY <2>1, <2>2, <2>4, <3>1
  <2>5. CASE Tail(q) # <<>>
    <3>1. Len(Tail(q)) \in 1..Len(Tail(q))
      BY <2>1, <2>3, <2>5, EmptySeq, LenProperties
    <3> QED
      BY <2>1, <2>2, <2>3, <2>5, <3>1
  <2> QED
    BY <2>4, <2>5
<1> QED
  BY <1>1, <1>2

\* Every step of the pin, of its thread and of who sets the handler keeps it.
LEMMA EdgesStep == EdgesInv /\ [E!Next]_gpio_pi => EdgesInv'
<1> SUFFICES ASSUME EdgesInv, [E!Next]_gpio_pi
             PROVE  EdgesInv'
  OBVIOUS
<1> USE DEF EdgesInv, E!TypeOK, E!Type, Level
<1>1. CASE E!Edge
  <2> DEFINE new == IF line THEN "FALLING" ELSE "RISING"
  <2>1. line' \in BOOLEAN /\ (line' <=> ~line)
    BY <1>1 DEF E!Edge
  <2>2. CASE irq_active
    <3>1. /\ events' \in Seq(E!Type) /\ events' # <<>>
          /\ Len(events') = Len(events) + 1 /\ events'[Len(events')] = new
      BY <1>1, <2>2, QueueOfEvents DEF E!Edge
    <3>2. Len(events') <= MaxEvents
      BY <1>1, <3>1, EventsAssumption DEF E!Edge
    <3>3. new = Level'
      BY <2>1
    <3> QED
      BY <1>1, <2>1, <2>2, <3>1, <3>2, <3>3 DEF E!Edge
  <2>3. CASE ~irq_active
    BY <1>1, <2>1, <2>3 DEF E!Edge
  <2> QED
    BY <2>2, <2>3
<1>2. ASSUME events # <<>>, event' = Head(events), events' = Tail(events),
             irq_thread' = "drain",
             UNCHANGED <<line, irq_active, irq_f, irq_arg, called, setter>>, irq_thread # "none"
      PROVE  EdgesInv'
  <2>1. /\ event' \in E!Type /\ events' \in Seq(E!Type) /\ Len(events') = Len(events) - 1
        /\ events' = <<>> => event' = events[Len(events)]
        /\ events' # <<>> => events'[Len(events')] = events[Len(events)]
    BY <1>2, QueueOfEvents
  <2>2. Len(events') <= MaxEvents
    BY <2>1, EventsAssumption
  <2> QED
    BY <1>2, <2>1, <2>2
<1>3. CASE E!Read
  BY <1>2, <1>3 DEF E!Read
<1>4. CASE E!DrainOne
  BY <1>2, <1>4 DEF E!DrainOne
<1>5. CASE E!LoadHandler
  <2>1. called' \in (Handler \cup {0}) \X (Handler \cup {0}) \X E!Type /\ called'[3] = event
    BY <1>5 DEF E!LoadHandler
  <2> QED
    BY <1>5, <2>1 DEF E!LoadHandler
<1>6. CASE E!CallHandler
  <2>1. /\ called' \in (Handler \cup {0}) \X (Handler \cup {0}) \X E!Type
        /\ called'[3] = called[3] /\ called'[1] = called[1]
    BY <1>6 DEF E!CallHandler
  <2> QED
    BY <1>6, <2>1 DEF E!CallHandler
<1>7. ASSUME NEW h \in Handler, E!FirstHandler(h)
      PROVE  EdgesInv'
  <2>1. irq_active' /\ irq_active' \in BOOLEAN
    BY <1>7 DEF E!FirstHandler
  <2>2. ~irq_active
    BY <1>7 DEF E!FirstHandler
  <2>3. /\ irq_f' = h /\ irq_arg' = h /\ irq_thread' = "read"
        /\ UNCHANGED <<line, events, event, called, setter>>
    BY <1>7 DEF E!FirstHandler
  <2>4. E!TypeOK'
    BY <2>1, <2>3
  <2>5. events' = <<>> /\ called'[1] = 0
    BY <2>2, <2>3
  <2> QED
    BY <2>1, <2>2, <2>3, <2>4, <2>5
<1>8. ASSUME NEW h \in Handler, E!SetF(h)
      PROVE  EdgesInv'
  BY <1>8, EventsAssumption DEF E!SetF
<1>9. CASE E!SetArg
  BY <1>9 DEF E!SetArg
<1>10. CASE UNCHANGED gpio_pi
  BY <1>10 DEF gpio_pi
<1> QED
  BY <1>1, <1>3, <1>4, <1>5, <1>6, <1>7, <1>8, <1>9, <1>10 DEF E!Next

\* So the last edge is told.
LEMMA EdgesInvImplies == EdgesInv => E!TypeOK /\ E!LastEdgeIsReported
BY DEF EdgesInv, E!LastEdgeIsReported, Level

\* A handler is called with the argument that was set with it.
LEMMA HandlerGetsItsArgStep ==
  ASSUME EdgesInv
  PROVE  [E!CallHandler /\ setter = 0 /\ irq_f = called[1] => called'[1] = called'[2]]_E!vars
BY DEF EdgesInv, E!TypeOK, E!CallHandler

-----------------------------------------------------------------------------
(* Mcp23017                                                                 *)

\* A thread in the middle of changing a register.
Busy(t, r) == call[t].at # "out" /\ call[t].reg = r

\* The interrupts that are enabled, or will be once the value made is stored.
Enabled == IF call[Setup].at = "change" /\ call[Setup].reg = "inten"
             THEN call[Setup].value ELSE copy["inten"]

\* Whether an input has its interrupt.
Notified(i) == \/ M!pin_of[i] \in Enabled
               \/ \E o \in M!Input \ {i} : M!pin_of[o] = M!pin_of[i] /\ input[o] = "deleted"

\* Calls for one register know that they overlap; one that does not writes the
\* copy; and nobody but Setup changes what Setup has enabled.
ExpanderInv ==
  /\ M!TypeOK
  /\ \A t, u \in McpThread : \A r \in M!Reg :
       t # u /\ Busy(t, r) /\ Busy(u, r) => t \in clash
  /\ \A t \in McpThread : call[t].at = "write" /\ t \notin clash => copy[call[t].reg] = call[t].value
  /\ \A t \in McpThread \ {Setup} : call[t].reg = "out"
  /\ M!DeviceIsTheCopy
  /\ \A i \in M!Input : i \in inputs <=> input[i] = "notifying"
  /\ \A i \in inputs : Notified(i)

\* The expander has the registers of the copy at first.
LEMMA ExpanderInit == M!Init => ExpanderInv
<1> SUFFICES ASSUME M!Init
             PROVE  ExpanderInv
  OBVIOUS
<1>1. \A t \in McpThread : call[t] = M!Idle
  BY DEF M!Init
<1>2. M!Idle \in M!Call /\ M!Idle.at = "out" /\ M!Idle.reg = "out"
  BY DEF M!Idle, M!Call, M!Reg
<1>3. call \in [McpThread -> M!Call]
  BY <1>2 DEF M!Init
<1>4. M!TypeOK
  BY <1>3 DEF M!Init, M!TypeOK
<1>5. M!DeviceIsTheCopy
  BY DEF M!Init, M!DeviceIsTheCopy
<1> QED
  BY <1>1, <1>2, <1>4, <1>5 DEF M!Init, ExpanderInv, Busy

\* What a call is when it begins.
LEMMA BeginStep ==
  ASSUME ExpanderInv, NEW t \in McpThread, NEW r \in M!Reg, NEW p \in Pin, NEW v \in BOOLEAN,
         M!Begin(t, r, p, v), t = Setup \/ r = "out", UNCHANGED <<copy, device, suspect>>
  PROVE  /\ call' \in [McpThread -> M!Call] /\ clash' \subseteq McpThread
         /\ \A u, w \in McpThread : \A q \in M!Reg :
              u # w /\ Busy(u, q)' /\ Busy(w, q)' => u \in clash'
         /\ \A u \in McpThread :
              call'[u].at = "write" /\ u \notin clash' => copy'[call'[u].reg] = call'[u].value
         /\ \A u \in McpThread \ {Setup} : call'[u].reg = "out"
         /\ M!DeviceIsTheCopy'
         /\ Enabled' = IF r = "inten" THEN M!WithBit(Enabled, p, v) ELSE Enabled
<1> DEFINE new == [at |-> "change", reg |-> r, value |-> M!WithBit(copy[r], p, v)]
<1> USE DEF ExpanderInv, M!TypeOK
<1>1. M!WithBit(copy[r], p, v) \in SUBSET Pin
  BY DEF M!WithBit
<1>2. new \in M!Call /\ new.at = "change" /\ new.reg = r /\ new.value = M!WithBit(copy[r], p, v)
  BY <1>1 DEF M!Call
<1>3. call[t].at = "out" /\ call' = [call EXCEPT ![t] = new]
  BY DEF M!Begin
<1> HIDE DEF new
<1>4. call' \in [McpThread -> M!Call] /\ call'[t] = new /\ \A u \in McpThread \ {t} : call'[u] = call[u]
  BY <1>2, <1>3
<1> DEFINE others == {u \in McpThread : call[u].at # "out" /\ call[u].reg = r}
<1>5. clash' = IF others = {} THEN clash ELSE clash \cup others \cup {t}
  BY DEF M!Begin
<1>6. clash' \subseteq McpThread /\ clash \subseteq clash'
  BY <1>5
<1>7. ASSUME NEW u \in McpThread, NEW w \in McpThread, NEW q \in M!Reg,
             u # w, Busy(u, q)', Busy(w, q)'
      PROVE  u \in clash'
  <2>1. CASE u = t
    <3>1. w \in others
      BY <1>2, <1>4, <1>7, <2>1 DEF Busy
    <3> QED
      BY <1>5, <2>1, <3>1
  <2>2. CASE w = t
    <3>1. u \in others
      BY <1>2, <1>4, <1>7, <2>2 DEF Busy
    <3> QED
      BY <1>5, <3>1
  <2>3. CASE u # t /\ w # t
    BY <1>4, <1>6, <1>7, <2>3 DEF Busy
  <2> QED
    BY <2>1, <2>2, <2>3
<1>8. ASSUME NEW u \in McpThread, call'[u].at = "write", u \notin clash'
      PROVE  copy'[call'[u].reg] = call'[u].value
  BY <1>2, <1>4, <1>6, <1>8
<1>9. \A u \in McpThread \ {Setup} : call'[u].reg = "out"
  BY <1>2, <1>4
<1>10. M!DeviceIsTheCopy'
  BY <1>2, <1>3, <1>4 DEF M!DeviceIsTheCopy, M!Quiet
<1>11. Enabled' = IF r = "inten" THEN M!WithBit(Enabled, p, v) ELSE Enabled
  <2>1. CASE t = Setup
    BY <1>2, <1>3, <1>4, <2>1 DEF Enabled
  <2>2. CASE t # Setup
    <3>1. r = "out" /\ call'[Setup] = call[Setup]
      BY <1>4, <2>2, ExpanderAssumption
    <3> QED
      BY <3>1 DEF Enabled
  <2> QED
    BY <2>1, <2>2
<1> QED
  BY <1>4, <1>6, <1>7, <1>8, <1>9, <1>10, <1>11

\* The pins of inputs.
LEMMA PinsOfInputs == \A i \in M!Input : M!pin_of[i] \in Pin
BY ExpanderAssumption DEF M!Input, M!pin_of

\* Every step of the threads keeps it.
LEMMA ExpanderStep == ExpanderInv /\ [M!Next]_mcp23017 => ExpanderInv'
<1> SUFFICES ASSUME ExpanderInv, [M!Next]_mcp23017
             PROVE  ExpanderInv'
  OBVIOUS
<1> Setup \in McpThread
  BY ExpanderAssumption
<1> USE DEF ExpanderInv, M!TypeOK
<1>1. ASSUME NEW t \in McpThread, M!Store(t)
      PROVE  ExpanderInv'
  <2> DEFINE c == call[t]
  <2>1. /\ c.at = "change" /\ copy' = [copy EXCEPT ![c.reg] = c.value]
        /\ call' = [call EXCEPT ![t].at = "write"]
        /\ UNCHANGED <<device, input, inputs, clash, suspect>>
    BY <1>1 DEF M!Store
  <2>2. c.reg \in M!Reg /\ c.value \in SUBSET Pin
    BY DEF M!Call
  <2>3. /\ call' \in [McpThread -> M!Call]
        /\ call'[t].at = "write" /\ call'[t].reg = c.reg /\ call'[t].value = c.value
        /\ \A u \in McpThread \ {t} : call'[u] = call[u]
    BY <2>1 DEF M!Call
  <2>4. /\ copy' \in [M!Reg -> SUBSET Pin] /\ copy'[c.reg] = c.value
        /\ \A r \in M!Reg \ {c.reg} : copy'[r] = copy[r]
    BY <2>1, <2>2
  <2> HIDE DEF c
  <2>5. \A u \in McpThread : \A r \in M!Reg : Busy(u, r)' <=> Busy(u, r)
    BY <2>1, <2>3 DEF Busy, c
  <2>6. ASSUME NEW u \in McpThread, call'[u].at = "write", u \notin clash'
        PROVE  copy'[call'[u].reg] = call'[u].value
    <3>1. CASE u = t
      BY <2>3, <2>4, <3>1
    <3>2. CASE u # t
      <4>1. call[u].at = "write" /\ call[u] = call'[u] /\ u \notin clash /\ call[u].reg \in M!Reg
        BY <2>1, <2>3, <2>6, <3>2 DEF M!Call
      <4>2. call[u].reg # c.reg
        <5>1. Busy(t, c.reg)
          BY <2>1 DEF Busy, c
        <5> QED
          BY <2>2, <3>2, <4>1, <5>1 DEF Busy
      <4> QED
        BY <2>4, <4>1, <4>2
    <3> QED
      BY <3>1, <3>2
  <2>7. \A u \in McpThread \ {Setup} : call'[u].reg = "out"
    BY <2>3 DEF c
  <2>8. M!DeviceIsTheCopy'
    <3>1. ASSUME NEW r \in M!Reg \ suspect', M!Quiet(r)'
          PROVE  device'[r] = copy'[r]
      <4>1. r # c.reg
        BY <2>3, <3>1 DEF M!Quiet
      <4>2. M!Quiet(r)
        BY <2>3, <3>1, <4>1 DEF M!Quiet, c
      <4> QED
        BY <2>1, <2>4, <4>1, <4>2 DEF M!DeviceIsTheCopy
    <3> QED
      BY <3>1 DEF M!DeviceIsTheCopy
  <2>9. Enabled' = Enabled
    <3>1. CASE t = Setup
      BY <2>1, <2>3, <2>4, <3>1 DEF Enabled, c, M!Reg
    <3>2. CASE t # Setup
      <4>1. c.reg = "out" /\ call'[Setup] = call[Setup]
        BY <2>3, <3>2 DEF c
      <4>2. copy'["inten"] = copy["inten"]
        BY <2>4, <4>1 DEF M!Reg
      <4> QED
        BY <4>1, <4>2 DEF Enabled
    <3> QED
      BY <3>1, <3>2
  <2>10. \A u, w \in McpThread : \A r \in M!Reg :
            u # w /\ Busy(u, r)' /\ Busy(w, r)' => u \in clash'
    BY <2>1, <2>5
  <2>11. \A i \in inputs' : Notified(i)'
    BY <2>1, <2>9 DEF Notified
  <2> QED
    BY <2>1, <2>3, <2>4, <2>6, <2>7, <2>8, <2>10, <2>11
<1>2. ASSUME NEW t \in McpThread, M!Write(t)
      PROVE  ExpanderInv'
  <2> DEFINE c == call[t]
  <2>1. /\ c.at = "write"
        /\ call' = [call EXCEPT ![t] = M!Idle] /\ clash' = clash \ {t}
        /\ UNCHANGED <<copy, input, inputs>>
        /\ \/ /\ device' = [device EXCEPT ![c.reg] = c.value]
              /\ suspect' = IF t \in clash THEN suspect \cup {c.reg} ELSE suspect \ {c.reg}
           \/ suspect' = suspect \cup {c.reg} /\ UNCHANGED device
    BY <1>2 DEF M!Write
  <2>2. c.reg \in M!Reg /\ c.value \in SUBSET Pin
    BY DEF M!Call
  <2>3. M!Idle \in M!Call /\ M!Idle.at = "out" /\ M!Idle.reg = "out"
    BY DEF M!Idle, M!Call, M!Reg
  <2>4. /\ call' \in [McpThread -> M!Call] /\ call'[t] = M!Idle
        /\ \A u \in McpThread \ {t} : call'[u] = call[u]
    BY <2>1, <2>3
  <2>5. /\ device' \in [M!Reg -> SUBSET Pin] /\ suspect' \subseteq M!Reg
        /\ \A r \in M!Reg \ {c.reg} : device'[r] = device[r] /\ (r \in suspect' <=> r \in suspect)
        /\ c.reg \notin suspect' => t \notin clash /\ device'[c.reg] = c.value
    BY <2>1, <2>2
  <2> HIDE DEF c
  <2>6. M!DeviceIsTheCopy'
    <3>1. ASSUME NEW r \in M!Reg \ suspect', M!Quiet(r)'
          PROVE  device'[r] = copy'[r]
      <4>1. CASE r = c.reg
        BY <2>1, <2>5, <3>1, <4>1 DEF c
      <4>2. CASE r # c.reg
        <5>1. M!Quiet(r)
          BY <2>4, <3>1, <4>2 DEF M!Quiet, c
        <5> QED
          BY <2>1, <2>5, <4>2, <5>1 DEF M!DeviceIsTheCopy
      <4> QED
        BY <4>1, <4>2
    <3> QED
      BY <3>1 DEF M!DeviceIsTheCopy
  <2>7. \A u, w \in McpThread : \A r \in M!Reg :
            u # w /\ Busy(u, r)' /\ Busy(w, r)' => u \in clash'
    BY <2>1, <2>3, <2>4 DEF Busy
  <2>8. \A u \in McpThread :
          call'[u].at = "write" /\ u \notin clash' => copy'[call'[u].reg] = call'[u].value
    BY <2>1, <2>3, <2>4
  <2>9. \A u \in McpThread \ {Setup} : call'[u].reg = "out"
    BY <2>3, <2>4
  <2>10. Enabled' = Enabled
    <3>1. CASE t = Setup
      BY <2>1, <2>3, <2>4, <3>1 DEF Enabled, c
    <3>2. CASE t # Setup
      BY <2>1, <2>4, <3>2 DEF Enabled
    <3> QED
      BY <3>1, <3>2
  <2>11. \A i \in inputs' : Notified(i)'
    BY <2>1, <2>10 DEF Notified
  <2> QED
    BY <2>1, <2>4, <2>5, <2>6, <2>7, <2>8, <2>9, <2>11
<1>3. ASSUME NEW t \in McpThread, NEW r \in M!Reg, NEW p \in Pin, NEW v \in BOOLEAN,
             M!Begin(t, r, p, v), t = Setup \/ r = "out", r # "inten",
             UNCHANGED <<copy, device, inputs, suspect>>,
             \/ UNCHANGED input
             \/ \E i \in M!Input : input[i] = "none" /\ input' = [input EXCEPT ![i] = "made"]
      PROVE  ExpanderInv'
  <2>1. Enabled' = Enabled
    BY <1>3, BeginStep
  <2>2. input' \in [M!Input -> {"none", "made", "notifying", "deleted"}]
    BY <1>3
  <2>3. \A i \in M!Input : i \in inputs' <=> input'[i] = "notifying"
    BY <1>3
  <2>4. \A i \in M!Input : input[i] = "deleted" => input'[i] = "deleted"
    BY <1>3
  <2>5. \A i \in inputs' : Notified(i)'
    BY <1>3, <2>1, <2>4 DEF Notified
  <2>6. M!TypeOK'
    BY <1>3, <2>2, BeginStep
  <2> QED
    BY <1>3, <2>3, <2>5, <2>6, BeginStep
<1> HIDE DEF ExpanderInv, M!TypeOK
<1>4. ASSUME NEW t \in McpThread, NEW pin \in Pin, NEW v \in BOOLEAN, M!set(t, pin, v)
      PROVE  ExpanderInv'
  BY <1>3, <1>4 DEF M!set, M!Reg
<1>5. ASSUME NEW pin \in Pin, M!get_output(Setup, pin)
      PROVE  ExpanderInv'
  BY <1>3, <1>5 DEF M!get_output, M!Reg
<1>6. ASSUME NEW i \in M!Input, NEW v \in BOOLEAN, M!set_pullup(Setup, i, v)
      PROVE  ExpanderInv'
  BY <1>3, <1>6, PinsOfInputs DEF M!set_pullup, M!Reg
<1>7. ASSUME NEW i \in M!Input, M!get_input(Setup, i)
      PROVE  ExpanderInv'
  BY <1>3, <1>7, PinsOfInputs DEF M!get_input, M!Reg
<1> USE DEF ExpanderInv, M!TypeOK
<1>8. ASSUME NEW i \in M!Input, NEW v \in BOOLEAN, M!Begin(Setup, "inten", M!pin_of[i], v),
             input[i] \in {"made", "notifying"},
             input' = [input EXCEPT ![i] = IF v THEN "notifying" ELSE "deleted"],
             inputs' = IF v THEN inputs \cup {i} ELSE inputs \ {i},
             UNCHANGED <<copy, device, suspect>>
      PROVE  ExpanderInv'
  <2>1. "inten" \in M!Reg /\ M!pin_of[i] \in Pin
    BY PinsOfInputs DEF M!Reg
  <2>2. Enabled' = M!WithBit(Enabled, M!pin_of[i], v)
    BY <1>8, <2>1, BeginStep
  <2>3. /\ input' \in [M!Input -> {"none", "made", "notifying", "deleted"}]
        /\ inputs' \subseteq M!Input
        /\ input'[i] = IF v THEN "notifying" ELSE "deleted"
        /\ \A j \in M!Input \ {i} : input'[j] = input[j] /\ (j \in inputs' <=> j \in inputs)
        /\ i \in inputs' <=> v
    BY <1>8
  <2>4. \A j \in M!Input : j \in inputs' <=> input'[j] = "notifying"
    BY <2>3
  <2>5. \A j \in M!Input : input[j] = "deleted" => input'[j] = "deleted"
    BY <1>8, <2>3
  <2>6. ASSUME NEW j \in inputs'
        PROVE  Notified(j)'
    <3>1. CASE j = i
      BY <2>2, <2>3, <3>1 DEF Notified, M!WithBit
    <3>2. CASE j # i /\ M!pin_of[j] = M!pin_of[i]
      <4>1. CASE v
        BY <2>2, <3>2, <4>1 DEF Notified, M!WithBit
      <4>2. CASE ~v
        <5>1. input'[i] = "deleted" /\ i \in M!Input \ {j}
          BY <2>3, <3>2, <4>2
        <5> QED
          BY <3>2, <5>1 DEF Notified
      <4> QED
        BY <4>1, <4>2
    <3>3. CASE j # i /\ M!pin_of[j] # M!pin_of[i]
      <4>1. j \in inputs /\ Notified(j)
        BY <2>3, <3>3
      <4>2. M!pin_of[j] \in Enabled => M!pin_of[j] \in Enabled'
        BY <2>2, <3>3 DEF M!WithBit
      <4> QED
        BY <2>5, <4>1, <4>2 DEF Notified
    <3> QED
      BY <3>1, <3>2, <3>3
  <2>7. M!TypeOK'
    BY <1>8, <2>1, <2>3, BeginStep
  <2> QED
    BY <1>8, <2>1, <2>4, <2>6, <2>7, BeginStep
<1> HIDE DEF ExpanderInv, M!TypeOK
<1>9. ASSUME NEW i \in M!Input, M!add_notifier(Setup, i)
      PROVE  ExpanderInv'
  BY <1>8, <1>9 DEF M!add_notifier
<1>10. ASSUME NEW i \in M!Input, M!remove_notifier(Setup, i)
      PROVE  ExpanderInv'
  BY <1>8, <1>10 DEF M!remove_notifier
<1>11. CASE UNCHANGED mcp23017
  BY <1>11 DEF mcp23017, ExpanderInv, M!TypeOK, Busy, M!DeviceIsTheCopy, M!Quiet, Notified, Enabled
<1> QED
  BY <1>1, <1>2, <1>4, <1>5, <1>6, <1>7, <1>9, <1>10, <1>11 DEF M!Next

\* So the expander has the copy, and the interrupts of the inputs that wait.
LEMMA ExpanderInvImplies == ExpanderInv => M!TypeOK /\ M!DeviceIsTheCopy /\ M!NotifyingIsEnabled
BY ExpanderAssumption DEF ExpanderInv, M!NotifyingIsEnabled, M!Quiet, Notified, Enabled

-----------------------------------------------------------------------------
(* RotaryEncoder                                                            *)

\* What the value is, where the knob is.
Counted == 0 - ((position + 1) \div 2)

\* What handling the edge of A at this position adds.
Due == IF R!B(position) = R!A(position) THEN 1 ELSE -1

\* An edge of A is known, or it is pending or has been read and then it is
\* still to be added: if the knob has not turned on, the position is beside it.
EncoderInv ==
  /\ R!TypeOK
  /\ pending /\ on_change # "out" => late
  /\ ~late /\ ~pending /\ on_change = "out" =>
       /\ last_A = R!A(position)
       /\ ~moved => value = Counted
  /\ ~late /\ on_change # "out" => (on_change = "high") = R!A(position)
  /\ ~late /\ (pending \/ on_change # "out") =>
       /\ last_A = ~R!A(position)
       /\ ~moved => value + Due = Counted

\* A quarter step either changes A, and then what is due, or leaves the count alone.
LEMMA QuarterStep ==
  ASSUME NEW p \in Int, NEW d \in {-1, 1}
  PROVE  /\ R!A(p) \in BOOLEAN /\ R!B(p) \in BOOLEAN
         /\ R!A(p + d) = R!A(p) => (p + d + 1) \div 2 = (p + 1) \div 2
         /\ R!A(p + d) # R!A(p) =>
              ((p + d + 1) \div 2) = ((p + 1) \div 2) - (IF R!B(p + d) = R!A(p + d) THEN 1 ELSE -1)
<1>1. PICK k \in Int, r \in 0..3 : p = (4 * k) + r /\ p % 4 = r
  BY ModExists
<1>2. /\ r = 0 => (p + 1) \div 2 = 2 * k
      /\ r = 1 => (p + 1) \div 2 = (2 * k) + 1
      /\ r = 2 => (p + 1) \div 2 = (2 * k) + 1
      /\ r = 3 => (p + 1) \div 2 = (2 * k) + 2
  BY <1>1
<1>3. CASE d = 1
  <2>1. /\ r = 0 => (p + d) % 4 = 1 /\ (p + d + 1) \div 2 = (2 * k) + 1
        /\ r = 1 => (p + d) % 4 = 2 /\ (p + d + 1) \div 2 = (2 * k) + 1
        /\ r = 2 => (p + d) % 4 = 3 /\ (p + d + 1) \div 2 = (2 * k) + 2
        /\ r = 3 => (p + d) % 4 = 0 /\ (p + d + 1) \div 2 = (2 * k) + 2
    BY <1>1, <1>3
  <2> QED
    BY <1>1, <1>2, <1>3, <2>1 DEF R!A, R!B
<1>4. CASE d = -1
  <2>1. /\ r = 0 => (p + d) % 4 = 3 /\ (p + d + 1) \div 2 = 2 * k
        /\ r = 1 => (p + d) % 4 = 0 /\ (p + d + 1) \div 2 = 2 * k
        /\ r = 2 => (p + d) % 4 = 1 /\ (p + d + 1) \div 2 = (2 * k) + 1
        /\ r = 3 => (p + d) % 4 = 2 /\ (p + d + 1) \div 2 = (2 * k) + 1
    BY <1>1, <1>4
  <2> QED
    BY <1>1, <1>2, <1>4, <2>1 DEF R!A, R!B
<1> QED
  BY <1>3, <1>4

\* The knob has not been turned.
LEMMA EncoderInit == R!Init => EncoderInv
<1> SUFFICES ASSUME R!Init
             PROVE  EncoderInv
  OBVIOUS
<1>1. ~pending /\ ~late /\ ~moved
  BY DEF R!Init
<1>2. pending \in BOOLEAN /\ late \in BOOLEAN /\ moved \in BOOLEAN
  BY DEF R!Init
<1>3. last_A = R!A(position) /\ R!A(position) \in BOOLEAN
  BY QuarterStep DEF R!Init
<1>4. position = 0 /\ value = 0 /\ on_change = "out" /\ min_value = -INT_MAX /\ max_value = INT_MAX
  BY DEF R!Init
<1>5. R!TypeOK
  BY <1>2, <1>3, <1>4, EncoderAssumption DEF R!TypeOK
<1>6. value = Counted
  <2>1. (position + 1) \div 2 = 0
    <3>1. position + 1 = (2 * 0) + 1
      BY <1>4
    <3> QED
      BY <3>1
  <2> QED
    BY <1>4, <2>1 DEF Counted
<1> QED
  BY <1>1, <1>3, <1>4, <1>5, <1>6 DEF EncoderInv

\* Every step of the knob, of its interrupts and of who sets the range keeps it.
LEMMA EncoderStep == EncoderInv /\ [R!Next]_encoder => EncoderInv'
<1> SUFFICES ASSUME EncoderInv, [R!Next]_encoder
             PROVE  EncoderInv'
  OBVIOUS
<1> USE DEF EncoderInv, R!TypeOK, Counted, Due
<1>1. position \in Int /\ R!A(position) \in BOOLEAN /\ R!B(position) \in BOOLEAN
  BY QuarterStep, EncoderAssumption
<1>2. value \in Int /\ min_value \in Int /\ max_value \in Int
  BY EncoderAssumption
<1>3. ASSUME NEW direction \in {-1, 1}, R!Turn(direction)
      PROVE  EncoderInv'
  <2>1. /\ position' = position + direction
        /\ UNCHANGED <<value, min_value, max_value, last_A, on_change, moved>>
        /\ position' \in -MaxPosition..MaxPosition
    BY <1>3 DEF R!Turn
  <2>2. /\ R!A(position') \in BOOLEAN
        /\ R!A(position') = R!A(position) => (position' + 1) \div 2 = (position + 1) \div 2
        /\ R!A(position') # R!A(position) =>
              ((position' + 1) \div 2)
                = ((position + 1) \div 2) - (IF R!B(position') = R!A(position') THEN 1 ELSE -1)
    BY <1>1, <2>1, QuarterStep
  <2>3. /\ pending' \in BOOLEAN /\ (pending' <=> pending \/ R!A(position') # R!A(position))
        /\ late' \in BOOLEAN /\ (late' <=> late \/ pending \/ on_change # "out")
    BY <1>3, <2>1 DEF R!Turn
  <2>4. R!TypeOK'
    BY <2>1, <2>3
  <2>5. CASE late'
    BY <2>1, <2>3, <2>4, <2>5
  <2>6. CASE ~late'
    <3>1. ~late /\ ~pending /\ on_change = "out" /\ last_A = R!A(position)
      BY <2>3, <2>6
    <3>2. CASE R!A(position') = R!A(position)
      BY <2>1, <2>2, <2>3, <2>4, <2>6, <3>1, <3>2
    <3>3. CASE R!A(position') # R!A(position)
      <4>1. pending' /\ last_A' = ~R!A(position')
        BY <1>1, <2>1, <2>2, <2>3, <3>1, <3>3
      <4>2. ~moved' => value' + Due' = Counted'
        BY <1>1, <1>2, <2>1, <2>2, <3>1, <3>3
      <4> QED
        BY <2>1, <2>3, <2>4, <2>6, <3>1, <4>1, <4>2
    <3> QED
      BY <3>2, <3>3
  <2> QED
    BY <2>5, <2>6
<1>4. CASE R!ReadA
  <2>1. /\ ~pending' /\ pending' \in BOOLEAN
        /\ pending /\ on_change = "out"
        /\ on_change' = IF R!A(position) THEN "high" ELSE "low"
        /\ UNCHANGED <<position, value, min_value, max_value, last_A, late, moved>>
    BY <1>4 DEF R!ReadA
  <2> QED
    BY <1>1, <2>1
<1>5. CASE R!Count
  <2> DEFINE high == on_change = "high"
  <2>1. /\ on_change # "out" /\ on_change' = "out"
        /\ last_A' \in BOOLEAN /\ (last_A' <=> high)
        /\ UNCHANGED <<position, min_value, max_value, pending, late>>
    BY <1>5 DEF R!Count
  <2>2. /\ last_A' = last_A => UNCHANGED <<value, moved>>
        /\ last_A' # last_A =>
             \/ value' = value + R!Step /\ value' \in min_value..max_value /\ UNCHANGED moved
             \/ moved' = TRUE /\ UNCHANGED value
    BY <1>5 DEF R!Count
  <2>3. R!TypeOK'
    BY <2>1, <2>2
  <2>4. ASSUME ~late'
        PROVE  ~pending' /\ last_A' = R!A(position') /\ (~moved' => value' = Counted')
    <3>1. ~late /\ ~pending /\ high = R!A(position) /\ last_A = ~R!A(position)
      BY <2>1, <2>4
    <3>2. R!Step = Due
      BY <3>1 DEF R!Step
    <3>3. last_A' # last_A /\ last_A' = R!A(position')
      BY <1>1, <2>1, <3>1
    <3>4. ~moved' => ~moved /\ value' = value + Due
      BY <2>2, <3>2, <3>3
    <3>5. ~moved' => value' = Counted'
      BY <2>1, <2>4, <3>4
    <3> QED
      BY <2>1, <3>1, <3>3, <3>5
  <2> QED
    BY <2>1, <2>3, <2>4
<1>6. ASSUME NEW r \in Ranges, R!set_range(r[1], r[2])
      PROVE  EncoderInv'
  <2>1. r \in Int \X Int /\ r[1] <= r[2]
    BY EncoderAssumption
  <2>2. /\ min_value' = r[1] /\ max_value' = r[2] /\ <<min_value', max_value'>> \in Ranges
        /\ value' = IF value < r[1] THEN r[1] ELSE IF value > r[2] THEN r[2] ELSE value
        /\ UNCHANGED <<position, last_A, on_change, pending, late>>
    BY <1>6, <2>1 DEF R!set_range
  <2>3. moved' \in BOOLEAN /\ (moved' <=> moved \/ value' # value)
    BY <1>6 DEF R!set_range
  <2>4. R!TypeOK'
    BY <1>2, <2>1, <2>2, <2>3
  <2> QED
    BY <2>2, <2>3, <2>4
<1>7. CASE R!set(0)
  <2>1. /\ value' = 0 /\ value' \in min_value..max_value
        /\ UNCHANGED <<position, min_value, max_value, last_A, on_change, pending, late>>
    BY <1>7 DEF R!set
  <2>2. moved' \in BOOLEAN /\ (moved' <=> moved \/ value' # value)
    BY <1>7 DEF R!set
  <2> QED
    BY <2>1, <2>2
<1>8. CASE UNCHANGED encoder
  BY <1>8 DEF encoder
<1> QED
  BY <1>3, <1>4, <1>5, <1>6, <1>7, <1>8 DEF R!Next

\* So the value is where the knob is.
LEMMA EncoderInvImplies == EncoderInv => R!TypeOK /\ R!CountsThePosition
<1>1. \A n \in Int : -n = 0 - n
  OBVIOUS
<1>2. EncoderInv => (position + 1) \div 2 \in Int
  BY EncoderAssumption DEF EncoderInv, R!TypeOK
<1> QED
  BY <1>1, <1>2 DEF EncoderInv, R!CountsThePosition, Counted

-----------------------------------------------------------------------------
(* I2c on the Pi                                                            *)

\* The places that a thread is at between locking the bus and unlocking it.
Locked == {"reg", "reg16", "data", "unlock"}

\* Whoever is there holds the lock, if there is one, and with it the device's
\* register.
BusInv ==
  /\ B!PiTypeOK
  /\ bus_lock # "null" => \A t \in I2cThread :
       /\ i2c_at[t] \in Locked => bus_lock = t
       /\ i2c_at[t] = "data" => pointer \in {asked[t], <<asked[t][2], asked[t][1]>>}
  /\ B!ReadsOwnRegister

\* Nobody has the bus.
LEMMA BusInit == B!PiInit => BusInv
<1> SUFFICES ASSUME B!PiInit
             PROVE  BusInv
  OBVIOUS
<1>1. has_lock_fns \in BOOLEAN /\ bus_lock = "null"
  BY DEF B!PiInit
<1> QED
  BY <1>1, BusAssumption DEF B!PiInit, BusInv, B!PiTypeOK, B!Places, B!Reg, B!ReadsOwnRegister

\* Every step of the threads keeps it.
LEMMA BusStep == BusInv /\ [B!PiNext]_i2c_pi => BusInv'
<1> SUFFICES ASSUME BusInv, [B!PiNext]_i2c_pi
             PROVE  BusInv'
  OBVIOUS
<1> USE DEF BusInv, B!PiTypeOK, B!Places, B!ReadsOwnRegister, Locked
<1>0. "null" \notin I2cThread /\ "free" \notin I2cThread
  BY BusAssumption
<1>1. CASE B!pi_init_with_threads
  <2>1. has_lock_fns' \in BOOLEAN
    BY <1>1 DEF B!pi_init_with_threads
  <2> QED
    BY <1>1, <2>1 DEF B!pi_init_with_threads
<1>2. CASE B!i2c_init_bus
  BY <1>2 DEF B!i2c_init_bus
<1>3. ASSUME NEW t \in I2cThread, NEW r \in B!Reg, NEW place \in {"lock", "lock16"},
             i2c_at[t] = "out",
             asked' = [asked EXCEPT ![t] = r], answer' = [answer EXCEPT ![t] = <<>>],
             i2c_at' = [i2c_at EXCEPT ![t] = place],
             UNCHANGED <<bus_lock, has_lock_fns, pointer>>
      PROVE  BusInv'
  BY <1>3
<1>4. ASSUME NEW t \in I2cThread, NEW b \in Byte, B!i2c_read(t, b)
      PROVE  BusInv'
  <2>1. <<0, b>> \in B!Reg
    BY BusAssumption DEF B!Reg
  <2> QED
    BY <1>3, <1>4, <2>1 DEF B!i2c_read, B!Goto
<1>5. ASSUME NEW t \in I2cThread, NEW r \in B!Reg, B!i2c_read_16(t, r)
      PROVE  BusInv'
  BY <1>3, <1>5 DEF B!i2c_read_16, B!Goto
<1>6. ASSUME NEW t \in I2cThread, NEW r \in B!Reg, B!WriteRegAndData(t, r)
      PROVE  BusInv'
  <2>1. /\ bus_lock \in {"null", "free"} /\ bus_lock' = IF bus_lock = "free" THEN t ELSE bus_lock
        /\ pointer' = r /\ asked' = [asked EXCEPT ![t] = r] /\ answer' = [answer EXCEPT ![t] = r]
        /\ i2c_at' = [i2c_at EXCEPT ![t] = "unlock"] /\ UNCHANGED has_lock_fns
    BY <1>6 DEF B!WriteRegAndData, B!Goto
  <2>2. B!PiTypeOK'
    BY <2>1
  <2>3. ASSUME bus_lock' # "null", NEW u \in I2cThread \ {t}
        PROVE  i2c_at'[u] \notin Locked
    BY <1>0, <2>1, <2>3
  <2> QED
    BY <2>1, <2>2, <2>3
<1>7. ASSUME NEW t \in I2cThread, B!i2c_lock(t)
      PROVE  BusInv'
  <2>1. /\ bus_lock \in {"null", "free"} /\ bus_lock' = IF bus_lock = "free" THEN t ELSE bus_lock
        /\ i2c_at' = [i2c_at EXCEPT ![t] = IF i2c_at[t] = "lock" THEN "reg" ELSE "reg16"]
        /\ UNCHANGED <<has_lock_fns, pointer, asked, answer>>
    BY <1>7 DEF B!i2c_lock, B!Goto
  <2>2. B!PiTypeOK'
    BY <2>1
  <2>3. ASSUME bus_lock' # "null", NEW u \in I2cThread \ {t}
        PROVE  i2c_at'[u] \notin Locked
    BY <1>0, <2>1, <2>3
  <2> QED
    BY <2>1, <2>2, <2>3
<1>8. ASSUME NEW t \in I2cThread, B!WriteReg(t)
      PROVE  BusInv'
  <2>1. /\ i2c_at[t] \in Locked
        /\ pointer' = IF i2c_at[t] = "reg" THEN asked[t] ELSE <<asked[t][2], asked[t][1]>>
        /\ i2c_at' = [i2c_at EXCEPT ![t] = "data"]
        /\ UNCHANGED <<bus_lock, has_lock_fns, asked, answer>>
    BY <1>8 DEF B!WriteReg, B!Goto
  <2>2. pointer' \in B!Reg
    BY <2>1 DEF B!Reg
  <2>3. ASSUME bus_lock' # "null", NEW u \in I2cThread \ {t}
        PROVE  i2c_at'[u] \notin Locked
    BY <2>1, <2>3
  <2> QED
    BY <2>1, <2>2, <2>3
<1>9. ASSUME NEW t \in I2cThread, B!WriteRegFails(t)
      PROVE  BusInv'
  BY <1>9 DEF B!WriteRegFails, B!Goto
<1>10. ASSUME NEW t \in I2cThread, B!ReadData(t)
      PROVE  BusInv'
  BY <1>10 DEF B!ReadData, B!Goto
<1>11. ASSUME NEW t \in I2cThread, B!i2c_unlock(t)
      PROVE  BusInv'
  <2>1. /\ i2c_at[t] = "unlock" /\ bus_lock = "null" /\ UNCHANGED bus_lock
        /\ i2c_at' = [i2c_at EXCEPT ![t] = "out"]
        /\ UNCHANGED <<has_lock_fns, pointer, asked, answer>>
    BY <1>0, <1>11 DEF B!i2c_unlock, B!Goto
  <2> QED
    BY <2>1
<1>12. CASE UNCHANGED i2c_pi
  BY <1>12 DEF i2c_pi
<1> QED
  BY <1>1, <1>2, <1>4, <1>5, <1>6, <1>7, <1>8, <1>9, <1>10, <1>11, <1>12 DEF B!PiNext

\* Who holds the lock keeps it, and nobody gets past it.
LEMMA FirstOperationIsTheLastStep ==
  ASSUME BusInv, B!PiNext, bus_lock \in I2cThread, NEW u \in I2cThread
  PROVE  /\ bus_lock' = bus_lock
         /\ i2c_at[u] \in {"lock", "lock16", "unlock"} => i2c_at'[u] = i2c_at[u]
<1>1. bus_lock \notin {"null", "free"}
  BY BusAssumption
<1>2. i2c_at \in [I2cThread -> B!Places]
  BY DEF BusInv, B!PiTypeOK
<1>3. ASSUME NEW t \in I2cThread, NEW place, i2c_at[t] \notin {"lock", "lock16", "unlock"},
             i2c_at' = [i2c_at EXCEPT ![t] = place]
      PROVE  i2c_at[u] \in {"lock", "lock16", "unlock"} => i2c_at'[u] = i2c_at[u]
  BY <1>2, <1>3
<1>4. PICK t \in I2cThread :
        \/ \E b \in Byte : B!i2c_read(t, b)
        \/ \E r \in B!Reg : B!i2c_read_16(t, r)
        \/ B!WriteReg(t) \/ B!WriteRegFails(t) \/ B!ReadData(t)
  BY <1>1
  DEF B!PiNext, B!pi_init_with_threads, B!i2c_init_bus, B!WriteRegAndData, B!i2c_lock, B!i2c_unlock
<1>5. bus_lock' = bus_lock
  BY <1>4 DEF B!i2c_read, B!i2c_read_16, B!WriteReg, B!WriteRegFails, B!ReadData
<1>6. /\ i2c_at[t] \notin {"lock", "lock16", "unlock"}
      /\ \E place : i2c_at' = [i2c_at EXCEPT ![t] = place]
  BY <1>4 DEF B!i2c_read, B!i2c_read_16, B!WriteReg, B!WriteRegFails, B!ReadData, B!Goto
<1> QED
  BY <1>3, <1>5, <1>6

-----------------------------------------------------------------------------
(* I2c on the Pico                                                          *)

\* Unless calls of i2c_open() have overlapped, one task opens at a time, and the
\* entry that it is about to take is nobody's.
TableInv ==
  /\ B!PicoTypeOK
  /\ \A t \in I2cTask : task_at[t] \in {"store", "open", "read"} => fd[t] \in B!Slot
  /\ ~open_raced =>
       /\ \A t, u \in B!Opening : t = u
       /\ \A t \in I2cTask : task_at[t] = "store" => i2c_data[fd[t]] = 0
  /\ B!ReadsItsRegister

\* The devices have addresses that no free entry has.
LEMMA TableAddresses == \A t \in I2cTask : Address[t] \in B!Addresses /\ Address[t] # 0
BY BusAssumption DEF B!Addresses

\* The number of a register reaches the device of task t, by itself or with the
\* data behind it: the readers of that device are raced, the others have theirs.
LEMMA TableSend ==
  ASSUME TableInv, NEW t \in I2cTask, NEW r \in Register, task_at[t] = "open", B!Send(t, r),
         NEW place \in {"open", "read"}, task_at' = [task_at EXCEPT ![t] = place],
         reg' = [reg EXCEPT ![t] = r],
         UNCHANGED <<i2c_data, fd, open_raced, write_lost>>
  PROVE  TableInv'
<1> USE DEF TableInv, B!PicoTypeOK, B!ReadsItsRegister, B!Opening
<1>1. /\ reg_of' = [x \in B!Addresses |-> IF x = i2c_data[fd[t]] THEN r ELSE reg_of[x]]
      /\ read_raced' = read_raced \cup B!Readers(t)
  BY DEF B!Send
<1>2. B!PicoTypeOK'
  <2>1. read_raced' \subseteq I2cTask
    BY <1>1 DEF B!Readers
  <2> QED
    BY <1>1, <2>1
<1>3. \A u \in I2cTask \ {t} : task_at'[u] = task_at[u] /\ reg'[u] = reg[u]
  OBVIOUS
<1>4. B!ReadsItsRegister'
  <2>1. ASSUME ~open_raced, NEW u \in I2cTask, task_at'[u] = "read", u \notin read_raced' \cup write_lost'
        PROVE  reg_of'[Address[u]] = reg'[u]
    <3>1. i2c_data[fd[t]] = Address[t]
      BY <2>1
    <3>2. CASE u = t
      BY <1>1, <3>1, <3>2, TableAddresses
    <3>3. CASE u # t
      <4>1. task_at[u] = "read" /\ u \notin read_raced \cup write_lost
        BY <1>1, <1>3, <2>1, <3>3
      <4>2. Address[u] # Address[t]
        <5>1. u \notin B!Readers(t)
          BY <1>1, <2>1
        <5> QED
          BY <4>1, <5>1 DEF B!Readers
      <4>3. reg_of[Address[u]] = reg[u]
        BY <2>1, <4>1
      <4> QED
        BY <1>1, <1>3, <3>1, <3>3, <4>2, <4>3, TableAddresses
    <3> QED
      BY <3>2, <3>3
  <2> QED
    BY <1>3, <2>1
<1> QED
  BY <1>2, <1>3, <1>4

\* The number of a register is not sent, and task t, if it reads all the same,
\* knows that it may read another.
LEMMA TableSendFails ==
  ASSUME TableInv, NEW t \in I2cTask, NEW r \in Register, task_at[t] = "open",
         NEW place \in {"open", "read"}, task_at' = [task_at EXCEPT ![t] = place],
         reg' = [reg EXCEPT ![t] = r],
         write_lost' = IF place = "read" THEN write_lost \cup {t} ELSE write_lost,
         UNCHANGED <<i2c_data, reg_of, fd, open_raced, read_raced>>
  PROVE  TableInv'
<1> USE DEF TableInv, B!PicoTypeOK, B!ReadsItsRegister, B!Opening
<1>1. B!PicoTypeOK'
  OBVIOUS
<1>2. \A u \in I2cTask \ {t} : task_at'[u] = task_at[u] /\ reg'[u] = reg[u]
  OBVIOUS
<1>3. task_at'[t] = place /\ write_lost \subseteq write_lost' /\ (place = "read" => t \in write_lost')
  OBVIOUS
<1>4. B!ReadsItsRegister'
  BY <1>2, <1>3
<1> QED
  BY <1>1, <1>2, <1>3, <1>4

\* No device has been opened.
LEMMA TableInit == B!PicoInit => TableInv
<1> SUFFICES ASSUME B!PicoInit
             PROVE  TableInv
  OBVIOUS
<1>1. B!AnyReg \in Register
  BY BusAssumption DEF B!AnyReg
<1>2. open_raced \in BOOLEAN
  BY DEF B!PicoInit
<1>3. B!PicoTypeOK
  BY <1>1, <1>2, BusAssumption DEF B!PicoInit, B!PicoTypeOK
<1>4. \A t \in I2cTask : task_at[t] = "closed"
  BY DEF B!PicoInit
<1> QED
  BY <1>3, <1>4 DEF TableInv, B!Opening, B!ReadsItsRegister

\* Every step of the tasks keeps it.
LEMMA TableStep == TableInv /\ [B!PicoNext]_i2c_pico => TableInv'
<1> SUFFICES ASSUME TableInv, [B!PicoNext]_i2c_pico
             PROVE  TableInv'
  OBVIOUS
<1>0. /\ B!AnyReg \in Register /\ MAX_I2C \in Nat
      /\ B!Slot \subseteq 0..MAX_I2C /\ MAX_I2C \notin B!Slot
      /\ \A s \in 0..MAX_I2C : s < MAX_I2C <=> s \in B!Slot
      /\ \A s \in B!Slot : s + 1 \in 0..MAX_I2C
  BY BusAssumption DEF B!AnyReg, B!Slot
<1> USE DEF TableInv, B!PicoTypeOK, B!ReadsItsRegister, B!Opening
<1>1. ASSUME NEW t \in I2cTask, B!pico_i2c_open(t)
      PROVE  TableInv'
  <2>1. open_raced' \in BOOLEAN /\ (open_raced' <=> open_raced \/ B!Opening # {})
    BY <1>1 DEF B!pico_i2c_open
  <2>2. /\ task_at[t] = "closed" /\ task_at' = [task_at EXCEPT ![t] = "scan"]
        /\ fd' = [fd EXCEPT ![t] = 0]
        /\ UNCHANGED <<i2c_data, reg_of, reg, read_raced, write_lost>>
    BY <1>1 DEF B!pico_i2c_open, B!PicoGoto
  <2>3. B!PicoTypeOK'
    BY <1>0, <2>1, <2>2
  <2>4. \A u \in I2cTask \ {t} : task_at'[u] = task_at[u] /\ fd'[u] = fd[u]
    BY <2>2
  <2>5. task_at'[t] = "scan"
    BY <2>2
  <2> QED
    BY <2>1, <2>2, <2>3, <2>4, <2>5
<1>2. ASSUME NEW t \in I2cTask, B!ScanOne(t)
      PROVE  TableInv'
  <2>1. /\ task_at[t] = "scan" /\ fd[t] \in B!Slot /\ fd' = [fd EXCEPT ![t] = fd[t] + 1]
        /\ UNCHANGED <<i2c_data, reg_of, task_at, reg, open_raced, read_raced, write_lost>>
    BY <1>0, <1>2 DEF B!ScanOne
  <2>2. fd' \in [I2cTask -> 0..MAX_I2C]
    BY <1>0, <2>1
  <2> QED
    BY <2>1, <2>2
<1>3. ASSUME NEW t \in I2cTask, B!ScanFound(t)
      PROVE  TableInv'
  <2>1. /\ task_at[t] = "scan" /\ fd[t] \in B!Slot /\ i2c_data[fd[t]] = 0
        /\ task_at' = [task_at EXCEPT ![t] = "store"]
        /\ UNCHANGED <<i2c_data, reg_of, fd, reg, open_raced, read_raced, write_lost>>
    BY <1>0, <1>3 DEF B!ScanFound, B!PicoGoto
  <2> QED
    BY <2>1
<1>4. ASSUME NEW t \in I2cTask, B!OpenFails(t)
      PROVE  TableInv'
  BY <1>4 DEF B!OpenFails, B!PicoGoto
<1>5. ASSUME NEW t \in I2cTask, B!StoreAddress(t)
      PROVE  TableInv'
  <2>1. /\ task_at[t] = "store" /\ fd[t] \in B!Slot
        /\ i2c_data' = [i2c_data EXCEPT ![fd[t]] = Address[t]]
        /\ task_at' = [task_at EXCEPT ![t] = "open"]
        /\ UNCHANGED <<reg_of, fd, reg, open_raced, read_raced, write_lost>>
    BY <1>5 DEF B!StoreAddress, B!PicoGoto
  <2>2. B!PicoTypeOK'
    BY <2>1, TableAddresses
  <2>3. \A u \in I2cTask \ {t} : task_at'[u] = task_at[u]
    BY <2>1
  <2>4. ASSUME ~open_raced, NEW u \in I2cTask \ {t}
        PROVE  /\ task_at[u] \notin {"scan", "store"}
               /\ task_at[u] \in {"open", "read"} => fd[u] # fd[t] /\ i2c_data'[fd[u]] = Address[u]
    <3>1. task_at[u] \notin {"scan", "store"}
      BY <2>1, <2>4
    <3>2. ASSUME task_at[u] \in {"open", "read"}
          PROVE  fd[u] # fd[t] /\ i2c_data'[fd[u]] = Address[u]
      <4>1. i2c_data[fd[t]] = 0 /\ i2c_data[fd[u]] = Address[u] /\ fd[u] \in B!Slot
        BY <2>1, <2>4, <3>2
      <4>2. fd[u] # fd[t]
        BY <4>1, TableAddresses
      <4> QED
        BY <2>1, <4>1, <4>2
    <3> QED
      BY <3>1, <3>2
  <2>5. task_at'[t] = "open" /\ i2c_data'[fd[t]] = Address[t]
    BY <2>1
  <2>6. B!ReadsItsRegister'
    BY <2>1, <2>3, <2>4, <2>5
  <2> QED
    BY <2>1, <2>2, <2>3, <2>4, <2>5, <2>6
<1>6. ASSUME NEW t \in I2cTask, NEW r \in Register, B!pico_i2c_read(t, r)
      PROVE  TableInv'
  <2>1. /\ task_at[t] = "open" /\ task_at' = [task_at EXCEPT ![t] = "read"]
        /\ reg' = [reg EXCEPT ![t] = r] /\ UNCHANGED <<i2c_data, fd, open_raced>>
        /\ \/ B!Send(t, r) /\ UNCHANGED write_lost
           \/ UNCHANGED <<reg_of, read_raced>> /\ write_lost' = write_lost \cup {t}
    BY <1>6 DEF B!pico_i2c_read, B!PicoGoto
  <2> HIDE DEF TableInv
  <2> QED
    BY <2>1, TableSend, TableSendFails
<1>7. ASSUME NEW t \in I2cTask, NEW r \in Register, B!pico_i2c_read_16(t, r)
      PROVE  TableInv'
  <2>1. /\ task_at[t] = "open"
        /\ reg' = [reg EXCEPT ![t] = r] /\ UNCHANGED <<i2c_data, fd, open_raced, write_lost>>
        /\ \/ B!Send(t, r) /\ task_at' = [task_at EXCEPT ![t] = "read"]
           \/ UNCHANGED <<reg_of, read_raced, task_at>>
    BY <1>7 DEF B!pico_i2c_read_16, B!PicoGoto
  <2>2. task_at = [task_at EXCEPT ![t] = "open"]
    BY <2>1
  <2> HIDE DEF TableInv
  <2> QED
    BY <2>1, <2>2, TableSend, TableSendFails
<1>8. ASSUME NEW t \in I2cTask, NEW r \in Register, B!pico_i2c_write(t, r)
      PROVE  TableInv'
  <2>1. /\ task_at[t] = "open" /\ reg' = [reg EXCEPT ![t] = r]
        /\ B!Send(t, r) \/ UNCHANGED <<reg_of, read_raced>>
        /\ UNCHANGED <<i2c_data, task_at, fd, open_raced, write_lost>>
    BY <1>8 DEF B!pico_i2c_write
  <2>2. task_at' = [task_at EXCEPT ![t] = "open"]
    BY <2>1
  <2> HIDE DEF TableInv
  <2> QED
    BY <2>1, <2>2, TableSend, TableSendFails
<1>9. ASSUME NEW t \in I2cTask, B!PicoReadData(t)
      PROVE  TableInv'
  BY <1>9 DEF B!PicoReadData, B!PicoGoto
<1>10. ASSUME NEW t \in I2cTask, B!pico_i2c_close(t)
      PROVE  TableInv'
  <2>1. /\ task_at[t] = "open" /\ fd[t] \in B!Slot /\ i2c_data' = [i2c_data EXCEPT ![fd[t]] = 0]
        /\ fd' = [fd EXCEPT ![t] = MAX_I2C] /\ reg' = [reg EXCEPT ![t] = B!AnyReg]
        /\ task_at' = [task_at EXCEPT ![t] = "closed"]
        /\ UNCHANGED <<reg_of, open_raced, read_raced, write_lost>>
    BY <1>10 DEF B!pico_i2c_close, B!PicoGoto
  <2>2. B!PicoTypeOK'
    BY <1>0, <2>1
  <2>3. \A u \in I2cTask \ {t} : task_at'[u] = task_at[u] /\ fd'[u] = fd[u] /\ reg'[u] = reg[u]
    BY <2>1
  <2>4. task_at'[t] = "closed"
    BY <2>1
  <2>5. \A s \in B!Slot \ {fd[t]} : i2c_data'[s] = i2c_data[s]
    BY <2>1
  <2>6. i2c_data'[fd[t]] = 0
    BY <2>1
  <2>7. B!ReadsItsRegister'
    BY <2>1, <2>3, <2>4, <2>5
  <2> QED
    BY <2>1, <2>2, <2>3, <2>4, <2>5, <2>6, <2>7
<1>11. CASE UNCHANGED i2c_pico
  BY <1>11 DEF i2c_pico
<1> QED
  BY <1>1, <1>2, <1>3, <1>4, <1>5, <1>6, <1>7, <1>8, <1>9, <1>10, <1>11 DEF B!PicoNext

-----------------------------------------------------------------------------
(* AudioPi                                                                  *)

\* Of some places that are natural numbers, one is before the others.
LEMMA FirstPlaceExists ==
  ASSUME NEW ready, ready \subseteq A!Place, ready # {}
  PROVE  \E p \in ready : \A q \in ready \ {p} : A!Before(p, q)
<1>1. \A p \in ready : p[1] \in Nat /\ p[2] \in Nat /\ p = <<p[1], p[2]>>
  BY AlsaAssumption DEF A!Place
<1> DEFINE cards == {p[1] : p \in ready}
<1>2. PICK card \in cards : \A other \in cards : card <= other
  <2>1. cards \subseteq Nat /\ cards # {}
    BY <1>1
  <2> QED
    BY <2>1, LeastNatural
<1> DEFINE devices == {p[2] : p \in {p \in ready : p[1] = card}}
<1>3. PICK dev \in devices : \A other \in devices : dev <= other
  <2>1. devices \subseteq Nat /\ devices # {}
    BY <1>1
  <2> QED
    BY <2>1, LeastNatural
<1>4. PICK p \in ready : p[1] = card /\ p[2] = dev
  OBVIOUS
<1>5. ASSUME NEW q \in ready, q # p
      PROVE  A!Before(p, q)
  <2>1. card <= q[1] /\ card \in Nat /\ q[1] \in Nat /\ dev \in Nat /\ q[2] \in Nat
    BY <1>1, <1>2, <1>4
  <2>2. CASE card < q[1]
    BY <1>4, <2>2 DEF A!Before
  <2>3. CASE card = q[1]
    <3>1. q[2] \in devices
      BY <2>3
    <3>2. dev <= q[2] /\ dev # q[2]
      BY <1>1, <1>3, <1>4, <1>5, <2>3, <3>1
    <3> QED
      BY <1>4, <2>1, <2>3, <3>2 DEF A!Before
  <2> QED
    BY <2>1, <2>2, <2>3
<1> QED
  BY <1>5

\* What opening gives: nothing, or a place that is one, and that is ready or the
\* constructor's.
LEMMA FirstReadyIsReady ==
  ASSUME NEW places, places \subseteq A!Place, NEW c
  PROVE  /\ A!FirstReady(places, c) \in A!Pcm \cup {A!NoPcm}
         /\ A!FirstReady(places, c) # A!NoPcm => A!FirstReady(places, c).ready
         /\ ~A!FirstReady(places, c).ready => places \cap playable[c] = {}
<1> DEFINE ready == places \cap playable[c]
           p == CHOOSE p \in ready : \A q \in ready \ {p} : A!Before(p, q)
<1>1. CASE ready = {}
  BY <1>1 DEF A!FirstReady, A!NoPcm
<1>2. CASE ready # {}
  <2>1. p \in ready
    <3>1. ready \subseteq A!Place
      OBVIOUS
    <3>2. \E x \in ready : \A q \in ready \ {x} : A!Before(x, q)
      BY <1>2, <3>1, FirstPlaceExists
    <3> QED
      BY <3>2
  <2>2. A!FirstReady(places, c) = [place |-> p, ready |-> TRUE]
    BY <1>2 DEF A!FirstReady
  <2> HIDE DEF p
  <2> QED
    BY <2>1, <2>2 DEF A!Pcm
<1> QED
  BY <1>1, <1>2

\* What opening the preferred device gives: a device, which is ready or the one
\* that was asked for, or none.
LEMMA OpenPreferredGives ==
  ASSUME NEW c, NEW p \in A!OpenPreferred(c)
  PROVE  /\ p \in A!Pcm \cup {A!NoPcm}
         /\ p # A!NoPcm => p.ready \/ p.place = preferred
<1>1. CASE preferred \in A!Place
  <2>1. \/ p = [place |-> preferred, ready |-> TRUE] \/ p = [place |-> preferred, ready |-> FALSE]
        \/ p = A!NoPcm
    BY <1>1 DEF A!OpenPreferred
  <2>2. \A b \in BOOLEAN : /\ [place |-> preferred, ready |-> b] \in A!Pcm
                           /\ [place |-> preferred, ready |-> b].place = preferred
    BY <1>1 DEF A!Pcm
  <2> QED
    BY <2>1, <2>2
<1>2. CASE preferred \notin A!Place
  <2> DEFINE places == {q \in A!Place : q[1] = preferred[1]}
  <2>1. p = A!FirstReady(places, c) /\ places \subseteq A!Place
    BY <1>2 DEF A!OpenPreferred
  <2> HIDE DEF places
  <2> QED
    BY <2>1, FirstReadyIsReady
<1> QED
  BY <1>1, <1>2

\* The volume is that of the handle, which is ready or the constructor's.
AlsaInv ==
  /\ A!TypeOK
  /\ pcm # A!NoPcm => mixer = pcm.place[1] /\ (pcm.ready \/ pcm.place = preferred)
  /\ configured.said = "yes" => pcm # A!NoPcm /\ config = configured.asked

\* No device has been opened.
LEMMA AlsaInit == A!Init => AlsaInv
BY AlsaAssumption DEF A!Init, AlsaInv, A!TypeOK, A!NoMixer

\* Every step of configure() and of the cards keeps it.
LEMMA AlsaStep == AlsaInv /\ [A!Next]_alsa => AlsaInv'
<1> SUFFICES ASSUME AlsaInv, [A!Next]_alsa
             PROVE  AlsaInv'
  OBVIOUS
<1>1. CASE A!DeviceChanges
  <2>1. playable' \in [Config -> SUBSET A!Place]
    BY <1>1 DEF A!DeviceChanges, AlsaInv, A!TypeOK
  <2> QED
    BY <1>1, <2>1 DEF A!DeviceChanges, AlsaInv, A!TypeOK
<1>2. ASSUME NEW c \in Config, A!configure(c)
      PROVE  AlsaInv'
  <2>0. UNCHANGED <<preferred, playable>>
    BY <1>2 DEF A!configure
  <2>1. CASE A!Kept(c)
    <3>1. /\ configured' = [said |-> "yes", asked |-> c] /\ UNCHANGED <<pcm, config, mixer>>
          /\ pcm # A!NoPcm /\ config = c
      BY <1>2, <2>1 DEF A!configure, A!Kept
    <3> QED
      BY <2>0, <3>1 DEF AlsaInv, A!TypeOK
  <2>2. CASE ~A!Kept(c)
    <3> DEFINE Opened(p) == IF p # A!NoPcm THEN p ELSE A!FirstReady(A!Place, c)
    <3>1. PICK p \in A!OpenPreferred(c) :
            /\ config' = c /\ pcm' = Opened(p)
            /\ mixer' = IF Opened(p) = A!NoPcm THEN mixer ELSE Opened(p).place[1]
            /\ configured' = [said |-> IF Opened(p).ready THEN "yes" ELSE "no", asked |-> c]
      BY <1>2, <2>2, Zenon DEF A!configure
    <3>2. /\ Opened(p) \in A!Pcm \cup {A!NoPcm}
          /\ Opened(p) # A!NoPcm => Opened(p).ready \/ Opened(p).place = preferred
      BY OpenPreferredGives, FirstReadyIsReady
    <3> DEFINE found == Opened(p)
    <3> HIDE DEF Opened
    <3>3. found # A!NoPcm => found.place[1] \in 0..MaxCards
      BY <3>2, AlsaAssumption DEF A!Pcm, A!Place
    <3>4. found.ready => found # A!NoPcm
      BY DEF A!NoPcm
    <3>5. A!TypeOK'
      BY <2>0, <3>1, <3>2, <3>3 DEF AlsaInv, A!TypeOK
    <3> QED
      BY <2>0, <3>1, <3>2, <3>4, <3>5 DEF AlsaInv
  <2> QED
    BY <2>1, <2>2
<1>3. CASE UNCHANGED alsa
  BY <1>3 DEF alsa, AlsaInv, A!TypeOK
<1> QED
  BY <1>1, <1>2, <1>3 DEF A!Next

\* So a promise is kept.
LEMMA AlsaInvImplies == AlsaInv => A!TypeOK /\ A!YesMeansReady
BY DEF AlsaInv, A!YesMeansReady

\* configure() says no only if there is nothing to play on, or the preferred device
\* is there and does not play.
LEMMA GivesUpLastStep ==
  ASSUME AlsaInv
  PROVE  [\A c \in Config : A!configure(c) /\ configured'.said = "no" =>
            playable[c] = {} \/ pcm'.place = preferred]_A!vars
<1> SUFFICES ASSUME NEW c \in Config, A!configure(c), configured'.said = "no"
             PROVE  playable[c] = {} \/ pcm'.place = preferred
  OBVIOUS
<1> DEFINE Opened(p) == IF p # A!NoPcm THEN p ELSE A!FirstReady(A!Place, c)
<1>1. ~A!Kept(c)
  BY DEF A!configure
<1>2. PICK p \in A!OpenPreferred(c) :
        /\ pcm' = Opened(p)
        /\ configured' = [said |-> IF Opened(p).ready THEN "yes" ELSE "no", asked |-> c]
  BY <1>1, Zenon DEF A!configure
<1>3. ~Opened(p).ready
  BY <1>2
<1>4. CASE p # A!NoPcm
  BY <1>2, <1>3, <1>4, OpenPreferredGives
<1>5. CASE p = A!NoPcm
  <2>1. A!Place \cap playable[c] = {}
    BY <1>3, <1>5, FirstReadyIsReady
  <2> QED
    BY <2>1 DEF AlsaInv, A!TypeOK
<1> QED
  BY <1>4, <1>5

-----------------------------------------------------------------------------
(* AxisStepper                                                              *)

\* The invariant of an axis is that it knows where its carriage is.
AxisInv == X!TypeOK /\ X!PosIsTheCarriage

\* However it is rounded, and however many of the steps are made, they fit into
\* the distance.
LEMMA StepsFit ==
  ASSUME NEW distance \in Nat, NEW n \in X!NSteps(distance), NEW made \in 0..n
  PROVE  n \in Nat /\ made * Sub \in 0..distance
<1>1. Sub \in Nat \ {0}
  BY AxisAssumption
<1>2. PICK q \in Int, r \in 0..(Sub - 1) : distance = (Sub * q) + r /\ distance \div Sub = q
  BY <1>1, DivExists
<1>3. q \in Nat
  BY <1>1, <1>2
<1>4. n \in Nat /\ n <= q
  BY <1>2, <1>3 DEF X!NSteps
<1>5. made \in Nat /\ made <= q
  BY <1>4
<1>6. made * Sub \in 0..(q * Sub)
  BY <1>1, <1>3, <1>5, ProductIsMonotone
<1>7. q * Sub = Sub * q /\ Sub * q \in Nat
  BY <1>1, <1>3
<1> QED
  BY <1>2, <1>4, <1>6, <1>7

\* A move is by a part of the distance, in its direction.
LEMMA GoMoves ==
  ASSUME X!TypeOK, NEW target \in 0..MaxAxis, X!go(target)
  PROVE  \E direction \in {-1, 1}, way \in Nat, rest \in Nat :
           /\ pos' = pos + direction * way /\ target = pos' + direction * rest
           /\ \E n \in Nat : n * Sub = way /\ carriage' = X!Moved(n, direction)
           /\ wanted' = target /\ UNCHANGED homed
<1> DEFINE direction == IF target > pos THEN 1 ELSE -1
           distance == (target - pos) * direction
<1>1. pos \in Nat /\ target \in Nat
  BY AxisAssumption DEF X!TypeOK
<1>2. /\ direction \in {-1, 1} /\ distance \in Nat
      /\ target = pos + direction * distance
  <2>1. CASE target > pos
    BY <1>1, <2>1
  <2>2. CASE ~(target > pos)
    BY <1>1, <2>2
  <2> QED
    BY <2>1, <2>2
<1>3. PICK starting_n_steps, accel_steps, n_full_speed_steps, n_steps :
        /\ starting_n_steps \in X!NSteps(distance) /\ accel_steps \in 0..starting_n_steps
        /\ n_full_speed_steps =
             IF starting_n_steps > 2 * accel_steps THEN starting_n_steps - 2 * accel_steps ELSE 0
        /\ n_steps \in 0..(starting_n_steps - accel_steps - n_full_speed_steps)
        /\ pos' = pos + direction * (starting_n_steps - n_steps) * Sub
        /\ carriage' = X!Moved(starting_n_steps - n_steps, direction)
        /\ wanted' = target /\ UNCHANGED homed
  BY DEF X!go
<1> HIDE DEF direction, distance
<1>4. starting_n_steps \in Nat
  BY <1>2, <1>3, AxisAssumption DEF X!NSteps
<1> DEFINE made == starting_n_steps - n_steps
<1>5. made \in 0..starting_n_steps
  BY <1>3, <1>4
<1>6. made * Sub \in 0..distance /\ made \in Nat
  BY <1>2, <1>3, <1>4, <1>5, StepsFit
<1> DEFINE way == made * Sub
           rest == distance - way
<1>7. way \in Nat /\ rest \in Nat
  BY <1>2, <1>6
<1>8. direction * made * Sub = direction * way
  <2> HIDE DEF made
  <2>1. Sub \in Int /\ made \in Int /\ direction \in Int
    BY <1>2, <1>6, AxisAssumption
  <2> QED
    BY <2>1
<1>9. pos' = pos + direction * way
  BY <1>3, <1>8
<1>10. target = pos' + direction * rest
  BY <1>1, <1>2, <1>7, <1>9
<1> QED
  BY <1>2, <1>3, <1>6, <1>7, <1>9, <1>10

\* It is told so at first.
LEMMA AxisInit == X!Init => AxisInv
BY AxisAssumption DEF X!Init, AxisInv, X!TypeOK, X!PosIsTheCarriage

\* Every step of the axis keeps it.
LEMMA AxisStep == AxisInv /\ [X!Next]_axis => AxisInv'
<1> SUFFICES ASSUME AxisInv, [X!Next]_axis
             PROVE  AxisInv'
  OBVIOUS
<1> USE AxisAssumption DEF AxisInv, X!TypeOK, X!PosIsTheCarriage
<1>1. ASSUME NEW target \in 0..MaxAxis, X!go(target)
      PROVE  AxisInv'
  <2>1. PICK direction \in {-1, 1}, way \in Nat, rest \in Nat :
           /\ pos' = pos + direction * way /\ target = pos' + direction * rest
           /\ \E n \in Nat : n * Sub = way /\ carriage' = X!Moved(n, direction)
           /\ wanted' = target /\ UNCHANGED homed
    BY <1>1, GoMoves
  <2>2. pos' \in 0..MaxAxis
    BY <2>1
  <2>3. PICK n \in Nat : n * Sub = way /\ carriage' = X!Moved(n, direction)
    BY <2>1
  <2> DEFINE to == carriage + direction * way
  <2>4. carriage' = IF to < -Slack THEN -Slack ELSE IF to > MaxAxis + Slack THEN MaxAxis + Slack ELSE to
    <3>1. direction * n * Sub = direction * way
      BY <2>3
    <3> QED
      BY <2>3, <3>1 DEF X!Moved
  <2>5. to \in Int
    BY <2>1
  <2>6. carriage' \in -Slack..(MaxAxis + Slack)
    BY <2>4, <2>5
  <2>7. ASSUME homed' = "edge"
        PROVE  carriage' - pos' \in (1 - Sub)..0
    BY <2>1, <2>2, <2>4, <2>7
  <2> QED
    BY <2>1, <2>2, <2>6, <2>7
<1>2. CASE X!home
  <2>1. PICK n \in 0..MaxRamp :
          /\ carriage' = IF X!Moved(n, -1) > 0 THEN -((-X!Moved(n, -1)) % Sub) ELSE X!Moved(n, -1)
          /\ homed' = IF X!Moved(n, -1) > -Sub THEN "edge" ELSE "overrun"
          /\ pos' = 0 /\ wanted' = -1
    BY <1>2 DEF X!home
  <2> DEFINE fast == X!Moved(n, -1)
  <2>2. fast \in -Slack..(MaxAxis + Slack)
    <3>1. -1 * n * Sub \in Int
      OBVIOUS
    <3> QED
      BY <3>1 DEF X!Moved
  <2> HIDE DEF fast
  <2>3. (-fast) % Sub \in 0..(Sub - 1)
    <3>1. -fast \in Int
      BY <2>2
    <3> QED
      BY <3>1, ModRange
  <2> QED
    BY <2>1, <2>2, <2>3 DEF fast
<1>3. CASE UNCHANGED axis
  BY <1>3 DEF axis
<1> QED
  BY <1>1, <1>2, <1>3 DEF X!Next

\* The sign of what is left of the way stays, and it becomes no longer.
LEMMA NeverPastTheTargetStep ==
  ASSUME AxisInv, [X!Next]_axis
  PROVE  [wanted' >= 0 =>
            (wanted' - pos') * (wanted' - pos) >= 0 /\
            (wanted' - pos') * (wanted' - pos') <= (wanted' - pos) * (wanted' - pos)]_X!vars
<1>1. ASSUME NEW target \in 0..MaxAxis, X!go(target)
      PROVE  /\ (wanted' - pos') * (wanted' - pos) >= 0
             /\ (wanted' - pos') * (wanted' - pos') <= (wanted' - pos) * (wanted' - pos)
  <2>1. PICK direction \in {-1, 1}, way \in Nat, rest \in Nat :
           pos' = pos + direction * way /\ target = pos' + direction * rest /\ wanted' = target
    BY <1>1, GoMoves DEF AxisInv
  <2>2. pos \in Int
    BY AxisAssumption DEF AxisInv, X!TypeOK
  <2>3. wanted' - pos' = direction * rest /\ wanted' - pos = direction * (rest + way)
    BY <2>1, <2>2
  <2>4. \A a, b \in Nat : (direction * a) * (direction * b) = a * b
    BY <2>1
  <2>5. /\ (wanted' - pos') * (wanted' - pos) = rest * (rest + way)
        /\ (wanted' - pos') * (wanted' - pos') = rest * rest
        /\ (wanted' - pos) * (wanted' - pos) = (rest + way) * (rest + way)
    BY <2>3, <2>4
  <2>6. rest * (rest + way) \in Nat /\ rest * rest <= rest * (rest + way)
        /\ rest * (rest + way) <= (rest + way) * (rest + way) /\ rest * rest \in Nat
        /\ (rest + way) * (rest + way) \in Nat
    BY ProductIsMonotone, ProductOfNaturals
  <2> QED
    BY <2>5, <2>6
<1>2. CASE X!home
  <2>1. wanted' = -1
    BY <1>2 DEF X!home
  <2> QED
    BY <2>1
<1>3. CASE UNCHANGED axis
  BY <1>3 DEF axis, X!vars
<1> QED
  BY <1>1, <1>2, <1>3 DEF X!Next

-----------------------------------------------------------------------------
(* Maestro                                                                  *)

\* Of n positions: less than 100 percent leaves one out, and more percent are
\* no fewer positions.
LEMMA PercentOf ==
  ASSUME NEW n \in Nat, NEW p \in 0..100
  PROVE  /\ (n * p) \div 100 \in 0..n
         /\ n > 0 /\ p < 100 => (n * p) \div 100 \in 0..(n - 1)
         /\ (n * p + 50) \div 100 \in 0..n
<1>1. n * p \in 0..(n * 100)
  BY ProductIsMonotone
<1> DEFINE np == n * p
<1>2. p < 100 => np <= n * 99
  <2>1. p < 100 => n * p \in 0..(n * 99)
    BY ProductIsMonotone
  <2> QED
    BY <2>1
<1>3. np \in 0..(n * 100)
  BY <1>1
<1> HIDE DEF np
<1>4. /\ np \div 100 \in 0..n
      /\ n > 0 /\ p < 100 => np \div 100 \in 0..(n - 1)
      /\ (np + 50) \div 100 \in 0..n
  BY <1>2, <1>3
<1> QED
  BY <1>4 DEF np

\* More percent are no less.
LEMMA PercentsAreOrdered ==
  ASSUME NEW n \in Nat, NEW p \in 0..100, NEW q \in 0..100, p <= q
  PROVE  (n * p) \div 100 <= (n * q) \div 100
<1>1. n * p \in 0..(n * q)
  BY ProductIsMonotone
<1> DEFINE np == n * p
           nq == n * q
<1>2. np \in Nat /\ nq \in Nat /\ np <= nq
  BY <1>1, ProductOfNaturals
<1> HIDE DEF np, nq
<1>3. np \div 100 <= nq \div 100
  BY <1>2
<1> QED
  BY <1>3 DEF np, nq

\* A range that was widened is by as much the longer.
ServoInv ==
  /\ S!TypeOK
  /\ lo <= MaxPos + widened /\ hi <= MaxPos + widened
  /\ S!TargetIsRemembered
  /\ S!RangeIsTheControllers

\* The object has what the controller has.
LEMMA ServoInit == S!Init => ServoInv
<1> SUFFICES ASSUME S!Init
             PROVE  ServoInv
  OBVIOUS
<1>1. is_inverted \in BOOLEAN /\ lost \in BOOLEAN /\ torn \in BOOLEAN
  BY DEF S!Init
<1> QED
  BY <1>1, ServoAssumption
  DEF S!Init, ServoInv, S!TypeOK, S!Pos, S!TargetIsRemembered, S!RangeIsTheControllers

\* Every call of the object and every write that is lost or torn keeps it.
LEMMA ServoStep == ServoInv /\ [S!Next]_maestro => ServoInv'
<1> SUFFICES ASSUME ServoInv, [S!Next]_maestro
             PROVE  ServoInv'
  OBVIOUS
<1> USE ServoAssumption
        DEF ServoInv, S!TypeOK, S!Pos, S!TargetIsRemembered, S!RangeIsTheControllers
\* What is read back of a range is the controller's, or it is known to be torn.
<1>1. ASSUME NEW l \in S!Pos, NEW h \in S!Pos, S!get_servo_config(l, h), l <= h
      PROVE  /\ lo' \in 1..(MaxPos + MaxWidened) /\ hi' \in 1..(MaxPos + MaxWidened)
             /\ torn' \in BOOLEAN /\ widened' \in 0..MaxWidened
             /\ lo' <= MaxPos + widened' /\ hi' <= MaxPos + widened'
             /\ torn' \/ (lo' >= l /\ hi' <= h + widened' /\ lo' <= hi')
  <2>1. CASE lo' = l /\ hi' = h /\ torn' = FALSE /\ widened' = 0
    <3>1. torn' \in BOOLEAN
      BY <2>1
    <3> QED
      BY <1>1, <2>1, <3>1
  <2>2. CASE hi' = hi /\ torn' = TRUE /\ widened' = widened /\ lo' \in {l, lo}
    <3>1. torn' \in BOOLEAN /\ torn'
      BY <2>2
    <3> QED
      BY <2>2, <3>1
  <2> QED
    BY <1>1, <2>1, <2>2 DEF S!get_servo_config
<1>2. ASSUME NEW l \in S!Pos, NEW h \in S!Pos, l < h,
             S!maestro_set_servo_physical_range(l, h)
      PROVE  ServoInv'
  <2>0. UNCHANGED <<is_inverted, current_real_pos, dev_target, lost>>
    BY <1>2 DEF S!maestro_set_servo_physical_range
  <2>1. CASE dev_lo' = l /\ dev_hi' = h /\ S!get_servo_config(l, h)
    BY <1>1, <1>2, <2>0, <2>1
  <2>2. CASE dev_lo' = l /\ UNCHANGED <<dev_hi, lo, hi, widened>> /\ torn' = TRUE
    <3>1. torn' \in BOOLEAN /\ torn'
      BY <2>2
    <3> QED
      BY <2>0, <2>2, <3>1
  <2>3. CASE UNCHANGED <<dev_lo, dev_hi, lo, hi, torn, widened>>
    BY <2>0, <2>3
  <2> QED
    BY <1>2, <2>1, <2>2, <2>3 DEF S!maestro_set_servo_physical_range
<1>3. ASSUME NEW low \in Percent, NEW high \in Percent, low < high,
             S!maestro_set_servo_range_pct(low, high)
      PROVE  ServoInv'
  <2> DEFINE n == hi - lo + 1
             l == IF is_inverted THEN 100 - high ELSE low
             h == IF is_inverted THEN 100 - low ELSE high
             nh == (n * h) \div 100
             nl == (n * l) \div 100
  <2>1. l \in 0..100 /\ h \in 0..100 /\ l < h
    BY <1>3
  <2>2. /\ n > 0 /\ widened' = IF h = 100 THEN widened + 1 ELSE widened
        /\ widened' <= MaxWidened
        /\ hi' = lo + nh /\ lo' = lo + nl
        /\ UNCHANGED <<dev_lo, dev_hi, is_inverted, current_real_pos, dev_target, lost, torn>>
    BY <1>3 DEF S!maestro_set_servo_range_pct
  <2>3. n \in Nat
    BY <2>2
  <2> HIDE DEF n, l, h
  <2>4. /\ nl \in 0..(n - 1) /\ nl <= nh
        /\ nh \in 0..n /\ (h < 100 => nh \in 0..(n - 1))
    <3>1. l < 100 /\ l <= h
      BY <2>1
    <3>2. nl \in 0..(n - 1) /\ nh \in 0..n
      BY <2>1, <2>2, <2>3, <3>1, PercentOf
    <3>3. h < 100 => nh \in 0..(n - 1)
      BY <2>1, <2>2, <2>3, PercentOf
    <3>4. nl <= nh
      BY <2>1, <2>3, <3>1, PercentsAreOrdered
    <3> QED
      BY <3>2, <3>3, <3>4
  <2> HIDE DEF nh, nl
  <2>5. lo' \in lo..hi /\ hi' >= lo' /\ hi' <= hi + (widened' - widened)
    <3>1. n = hi - lo + 1
      BY DEF n
    <3> QED
      BY <2>1, <2>2, <2>4, <3>1
  <2>6. widened' \in 0..MaxWidened /\ widened' >= widened
    BY <2>2
  <2> QED
    BY <2>2, <2>5, <2>6
<1>4. ASSUME NEW inverted \in BOOLEAN, S!maestro_set_servo_is_inverted(inverted)
      PROVE  ServoInv'
  BY <1>4 DEF S!maestro_set_servo_is_inverted
<1>5. CASE S!maestro_factory_reset
  <2>1. lost' \in BOOLEAN
    BY <1>5 DEF S!maestro_factory_reset
  <2>2. /\ dev_lo' = 1 /\ dev_hi' = MaxPos /\ dev_target' = 0 /\ S!get_servo_config(1, MaxPos)
        /\ current_real_pos' = 0 /\ UNCHANGED is_inverted
    BY <1>5 DEF S!maestro_factory_reset
  <2> QED
    BY <1>1, <2>1, <2>2
<1>6. ASSUME NEW pct \in Percent, S!maestro_set_servo_pos(pct)
      PROVE  ServoInv'
  <2>1. UNCHANGED <<lo, hi, dev_lo, dev_hi, is_inverted, torn, widened>>
    BY <1>6 DEF S!maestro_set_servo_pos
  <2>2. /\ lo <= hi /\ current_real_pos' = S!RealPos(pct)
        /\ \/ dev_target' = S!RealPos(pct) /\ lost' = FALSE
           \/ dev_target' = dev_target /\ lost' = TRUE
    BY <1>6 DEF S!maestro_set_servo_pos, S!SendTarget
  <2>3. S!RealPos(pct) \in lo..hi
    <3> DEFINE p == IF is_inverted THEN 100 - pct ELSE pct
               n == hi - lo
               q == (n * p + 50) \div 100
    <3>1. p \in 0..100 /\ n \in Nat
      BY <2>2
    <3>2. S!RealPos(pct) = q + lo
      BY DEF S!RealPos
    <3>3. n = hi - lo
      OBVIOUS
    <3> HIDE DEF p, n
    <3>4. q \in 0..n
      BY <3>1, PercentOf
    <3> HIDE DEF q
    <3> QED
      BY <3>2, <3>3, <3>4
  <2>4. CASE dev_target' = S!RealPos(pct) /\ lost' = FALSE
    <3>1. lost' \in BOOLEAN
      BY <2>4
    <3> QED
      BY <2>1, <2>2, <2>3, <2>4, <3>1
  <2>5. CASE dev_target' = dev_target /\ lost' = TRUE
    <3>1. lost' \in BOOLEAN /\ lost'
      BY <2>5
    <3> QED
      BY <2>1, <2>2, <2>3, <2>5, <3>1
  <2> QED
    BY <2>2, <2>4, <2>5
<1>7. CASE UNCHANGED maestro
  BY <1>7 DEF maestro
<1> QED
  BY <1>2, <1>3, <1>4, <1>5, <1>6, <1>7 DEF S!Next

-----------------------------------------------------------------------------
(* Canvas                                                                   *)

\* Places with different columns or rows are different.
LEMMA PlacesDiffer ==
  ASSUME NEW n \in Nat \ {0}, NEW a \in 0..(n - 1), NEW b \in 0..(n - 1), NEW k \in Int, NEW m \in Int,
         a + k * n = b + m * n
  PROVE  a = b /\ k = m
<1>1. (n * k) + a = a + k * n /\ (n * m) + b = b + m * n
  OBVIOUS
<1> DEFINE x == (n * k) + a
           y == (n * m) + b
<1>2. x = y
  BY <1>1
<1>3. x \div n = k /\ x % n = a
  BY DivUnique, ModUnique
<1>4. y \div n = m /\ y % n = b
  BY DivUnique, ModUnique
<1> HIDE DEF x, y
<1> QED
  BY <1>2, <1>3, <1>4

\* A place in one of the first m rows.
LEMMA PlaceIsInside ==
  ASSUME NEW n \in Nat \ {0}, NEW a \in 0..(n - 1), NEW k \in Nat, NEW m \in Nat, k < m,
         NEW b \in Nat, n * m <= b
  PROVE  a + k * n \in 0..(b - 1)
<1>1. k + 1 \in Nat /\ k + 1 <= m
  OBVIOUS
<1>2. n * (k + 1) \in 0..(n * m)
  BY <1>1, ProductIsMonotone
<1>3. n * (k + 1) = k * n + n /\ k * n \in Nat /\ n * m \in Nat
  <2>1. n * (k + 1) = k * n + n
    OBVIOUS
  <2> QED
    BY <2>1, ProductOfNaturals
<1> DEFINE p == k * n
           q == n * m
<1>4. p \in Nat /\ q \in Nat /\ p + n <= q /\ q <= b
  BY <1>2, <1>3
<1> HIDE DEF p, q
<1>5. a + p \in 0..(b - 1)
  BY <1>4
<1> QED
  BY <1>5 DEF p

\* Windows and calls, whose numbers may be any.
Windows == [x : Nat, first_x_max : Nat, cur_x_max : Nat, y : Nat, y_max : Nat]
Drawings == [kind : {"fill", "import"}, x0 : Nat, x_end : Int, y_end : Int, x : Nat, y : Nat,
             first : BOOLEAN]

\* The shape of a window: only its second row may be longer than the first, by
\* one pixel.
Shape(x, first, c, y, y_max) ==
  /\ x <= first /\ x <= c /\ y <= y_max
  /\ c <= first + 1 /\ (c = first + 1 => y_max = y + 1) /\ (y = y_max => c = first)

\* A window on the canvas and in the buffer.
Fits(x, first, c, y, y_max) ==
  /\ first < Width /\ c < Width /\ y_max < Height
  /\ y < y_max => (first - x + 1) * (y_max - y + 1) <= Width * buffered_rows

\* The pixels that a window without strays has.
PixelsOf(w) == {p \in (w.x..w.first_x_max) \X (w.y..w.y_max) : p[2] = w.y_max => p[1] <= w.cur_x_max}
\* The window holds them where it should.
Holds(w, s) ==
  /\ w.cur_x_max <= w.first_x_max
  /\ DOMAIN s = {V!dirty_at(w, p[1], p[2]) : p \in PixelsOf(w)}
  /\ \A p \in PixelsOf(w) : s[V!dirty_at(w, p[1], p[2])] = p

\* A call is in the middle of its rectangle, which is on the canvas if it was so placed.
DrawingInv ==
  drawing # V!NoCall =>
    /\ drawing \in Drawings
    /\ drawing.x0 <= drawing.x /\ drawing.x < drawing.x_end /\ drawing.y < drawing.y_end
    /\ ~misplaced => drawing.x_end <= Width /\ drawing.y_end <= Height

\* The window has its shape, and fits.
WindowInv ==
  window # V!NoWindow =>
    /\ window \in Windows
    /\ Shape(window.x, window.first_x_max, window.cur_x_max, window.y, window.y_max)
    /\ ~misplaced => Fits(window.x, window.first_x_max, window.cur_x_max, window.y, window.y_max)

\* The window of one call holds what the call has set so far.
CallInv ==
  drawing # V!NoCall /\ ~drawing.first /\ ~mixed =>
    /\ window # V!NoWindow /\ drawing.x0 <= window.x
    /\ window.y_max = IF drawing.x > drawing.x0 THEN drawing.y ELSE drawing.y - 1

\* Pixels are stored in the buffer, and a window without strays holds its own.
StoredInv ==
  /\ ~misplaced => DOMAIN stored \subseteq 0..(Width * buffered_rows - 1)
  /\ \A place \in DOMAIN stored : stored[place] \in V!Pixel
  /\ window # V!NoWindow /\ ~strayed => Holds(window, stored)

\* The four together; pixels stray only when calls are mixed.
CanvasInv ==
  /\ DrawingInv /\ WindowInv /\ CallInv /\ StoredInv
  /\ strayed \in BOOLEAN /\ mixed \in BOOLEAN /\ misplaced \in BOOLEAN
  /\ strayed => mixed

-----------------------------------------------------------------------------
\* So the display shows what was set.
LEMMA CanvasInvImplies ==
  ASSUME CanvasInv
  PROVE  V!TypeOK /\ V!ShowsWhatWasSet /\ V!StraysOnlyWhenMixed /\ V!StaysOnCanvas
<1> USE DEF CanvasInv, WindowInv, StoredInv
<1>1. V!TypeOK
  BY DEF V!TypeOK, Shape
<1>2. ASSUME window # V!NoWindow
      PROVE  \A d \in V!Drawn(window) :
               \E p \in Int \X Int :
                 /\ d = <<p, V!dirty_at(window, p[1], p[2])>>
                 /\ window.x <= p[1] /\ window.y <= p[2] /\ p[2] <= window.y_max
                 /\ p[1] <= window.first_x_max \/ p[1] <= window.cur_x_max
  <2> DEFINE w == window
             whole == IF w.cur_x_max = w.first_x_max THEN w.y_max ELSE w.y_max - 1
             pixels == ((w.x..w.first_x_max) \X (w.y..whole)) \cup ((w.x..w.cur_x_max) \X {w.y_max})
  <2>1. /\ w.x \in Nat /\ w.first_x_max \in Nat /\ w.cur_x_max \in Nat /\ w.y \in Nat /\ w.y_max \in Nat
        /\ w.y <= w.y_max
    BY <1>2 DEF Windows, Shape
  <2>2. whole \in Int /\ whole <= w.y_max
    BY <2>1
  <2> HIDE DEF whole
  <2>3. \A p \in pixels :
          /\ p \in Int \X Int /\ w.x <= p[1] /\ w.y <= p[2] /\ p[2] <= w.y_max
          /\ p[1] <= w.first_x_max \/ p[1] <= w.cur_x_max
    BY <2>1, <2>2
  <2>4. V!Drawn(w) = {<<p, V!dirty_at(w, p[1], p[2])>> : p \in pixels}
    BY DEF V!Drawn, whole
  <2> HIDE DEF w, pixels
  <2> QED
    BY <2>3, <2>4 DEF w
<1>3. V!StaysOnCanvas
  <2> SUFFICES ASSUME window # V!NoWindow, ~misplaced, NEW d \in V!Drawn(window)
               PROVE  d[1] \in (0..Width - 1) \X (0..Height - 1)
    BY DEF V!StaysOnCanvas
  <2>1. PICK p \in Int \X Int :
          /\ d = <<p, V!dirty_at(window, p[1], p[2])>>
          /\ window.x <= p[1] /\ window.y <= p[2] /\ p[2] <= window.y_max
          /\ p[1] <= window.first_x_max \/ p[1] <= window.cur_x_max
    BY <1>2
  <2>2. /\ window.x \in Nat /\ window.first_x_max \in Nat /\ window.cur_x_max \in Nat
        /\ window.y \in Nat /\ window.y_max \in Nat
        /\ window.first_x_max < Width /\ window.cur_x_max < Width /\ window.y_max < Height
    BY DEF Windows, Fits
  <2>3. p[1] \in 0..Width - 1 /\ p[2] \in 0..Height - 1
    BY <2>1, <2>2, CanvasAssumption
  <2>4. d[1] = p /\ p = <<p[1], p[2]>>
    BY <2>1
  <2> QED
    BY <2>3, <2>4
<1>4. V!ShowsWhatWasSet
  <2> SUFFICES ASSUME window # V!NoWindow, ~strayed
               PROVE  V!Drawn(window) = {<<stored[place], place>> : place \in DOMAIN stored}
    BY DEF V!ShowsWhatWasSet
  <2> DEFINE w == window
             At(p) == V!dirty_at(w, p[1], p[2])
             whole == IF w.cur_x_max = w.first_x_max THEN w.y_max ELSE w.y_max - 1
             pixels == ((w.x..w.first_x_max) \X (w.y..whole)) \cup ((w.x..w.cur_x_max) \X {w.y_max})
  <2>1. /\ w.x \in Nat /\ w.first_x_max \in Nat /\ w.cur_x_max \in Nat /\ w.y \in Nat /\ w.y_max \in Nat
        /\ w.y <= w.y_max /\ w.cur_x_max <= w.first_x_max
    BY DEF Windows, Shape, Holds
  <2>2. pixels = PixelsOf(w)
    <3>1. ASSUME NEW a, NEW b
          PROVE  <<a, b>> \in pixels <=> <<a, b>> \in PixelsOf(w)
      BY <2>1 DEF PixelsOf
    <3>2. \A p \in pixels : p = <<p[1], p[2]>>
      OBVIOUS
    <3>3. \A p \in PixelsOf(w) : p = <<p[1], p[2]>>
      BY DEF PixelsOf
    <3> HIDE DEF pixels
    <3>4. ASSUME NEW p
          PROVE  p \in pixels <=> p \in PixelsOf(w)
      <4>1. <<p[1], p[2]>> \in pixels <=> <<p[1], p[2]>> \in PixelsOf(w)
        BY <3>1
      <4> QED
        BY <3>2, <3>3, <4>1
    <3> QED
      BY <3>4
  <2>3. V!Drawn(w) = {<<p, At(p)>> : p \in PixelsOf(w)}
    BY <2>2 DEF V!Drawn
  <2>4. DOMAIN stored = {At(p) : p \in PixelsOf(w)} /\ \A p \in PixelsOf(w) : stored[At(p)] = p
    BY DEF Holds
  <2> HIDE DEF w, At
  <2>5. {<<p, At(p)>> : p \in PixelsOf(w)} = {<<stored[place], place>> : place \in DOMAIN stored}
    BY <2>4
  <2> QED
    BY <2>3, <2>5 DEF w
<1>5. V!StraysOnlyWhenMixed
  BY DEF V!StraysOnlyWhenMixed
<1> QED
  BY <1>1, <1>3, <1>4, <1>5

\* Nothing has been drawn.
LEMMA CanvasInit ==
  ASSUME V!Init
  PROVE  CanvasInv
<1>1. window = V!NoWindow /\ drawing = V!NoCall /\ stored = <<>> /\ DOMAIN stored = {}
      /\ strayed = FALSE /\ mixed = FALSE /\ misplaced = FALSE
  BY DEF V!Init
<1> QED
  BY <1>1 DEF CanvasInv, DrawingInv, WindowInv, CallInv, StoredInv

-----------------------------------------------------------------------------
\* The window after a pixel that fits.
Next1(w, x, y) == V!Wider(V!NextRow(w, x, y), x)

\* The fields of it.
LEMMA FieldsOf ==
  ASSUME NEW w \in Windows, NEW x \in Nat, NEW y \in Nat
  PROVE  LET v == Next1(w, x, y) IN
         /\ v \in Windows /\ v.x = w.x /\ v.y = w.y
         /\ v.y_max = IF y = w.y_max + 1 THEN y ELSE w.y_max
         /\ v.cur_x_max = IF y = w.y_max + 1 \/ x > w.cur_x_max THEN x ELSE w.cur_x_max
         /\ v.first_x_max = IF y # w.y_max + 1 /\ x > w.cur_x_max /\ w.y = w.y_max THEN x
                            ELSE w.first_x_max
<1>1. w.cur_x_max \in Nat /\ w.y_max \in Nat /\ w.y \in Nat /\ w.first_x_max \in Nat /\ w.x \in Nat
  BY DEF Windows
<1>2. CASE y = w.y_max + 1
  <2> DEFINE u == [[w EXCEPT !.y_max = y] EXCEPT !.cur_x_max = x]
  <2>1. V!NextRow(w, x, y) = u
    BY <1>2 DEF V!NextRow, Windows
  <2>2. /\ u \in Windows /\ u.x = w.x /\ u.y = w.y /\ u.y_max = y /\ u.cur_x_max = x
        /\ u.first_x_max = w.first_x_max
    BY DEF Windows
  <2> HIDE DEF u
  <2>3. Next1(w, x, y) = u
    BY <2>1, <2>2 DEF Next1, V!Wider
  <2> QED
    BY <1>2, <2>2, <2>3
<1>3. CASE y # w.y_max + 1
  <2>1. Next1(w, x, y) = V!Wider(w, x)
    BY <1>3 DEF Next1, V!NextRow
  <2>2. CASE x <= w.cur_x_max
    <3>1. Next1(w, x, y) = w /\ ~(x > w.cur_x_max)
      BY <1>1, <2>1, <2>2 DEF V!Wider
    <3> QED
      BY <1>3, <3>1
  <2>3. CASE ~(x <= w.cur_x_max)
    <3> DEFINE f == IF w.y = w.y_max THEN x ELSE w.first_x_max
               u == [[w EXCEPT !.cur_x_max = x] EXCEPT !.first_x_max = f]
    <3>1. f \in Nat
      BY <1>1
    <3>2. V!Wider(w, x) = u
      BY <2>3 DEF V!Wider, Windows
    <3> HIDE DEF f
    <3>3. /\ u \in Windows /\ u.x = w.x /\ u.y = w.y /\ u.y_max = w.y_max /\ u.cur_x_max = x
          /\ u.first_x_max = f
      BY <3>1 DEF Windows
    <3> HIDE DEF u
    <3>4. Next1(w, x, y) = u /\ x > w.cur_x_max
      BY <1>1, <2>1, <2>3, <3>2
    <3> QED
      BY <1>3, <3>3, <3>4 DEF f
  <2> QED
    BY <2>2, <2>3
<1> QED
  BY <1>2, <1>3

\* The same with numbers: a pixel that fits keeps the window's shape.
LEMMA ShapeIsKept ==
  ASSUME NEW wx \in Nat, NEW f \in Nat, NEW c \in Nat, NEW wy \in Nat, NEW ym \in Nat,
         Shape(wx, f, c, wy, ym), NEW x \in Nat, NEW y \in Nat,
         ~(x < wx), ~(x > c + 1), ~(y > ym /\ c < f), ~(wy < ym /\ x > f), ~(y < wy), ~(y > ym + 1)
  PROVE  LET ym2 == IF y = ym + 1 THEN y ELSE ym
             c2 == IF y = ym + 1 \/ x > c THEN x ELSE c
             f2 == IF y # ym + 1 /\ x > c /\ wy = ym THEN x ELSE f
         IN Shape(wx, f2, c2, wy, ym2)
BY DEF Shape

\* The pixel begins a window.
Flushed(x, y) == window = V!NoWindow \/ V!needs_to_be_flushed(window, x, y)

\* A window with one pixel.
LEMMA SetAnew ==
  ASSUME NEW x \in Nat, NEW y \in Nat, NEW mix, V!set_pixel_raw(x, y, mix), Flushed(x, y),
         misplaced' = misplaced, ~misplaced => x < Width /\ y < Height
  PROVE  /\ window' = V!NewWindow(x, y)
         /\ strayed' = FALSE /\ mixed' = FALSE
         /\ WindowInv' /\ StoredInv'
<1> DEFINE w == V!NewWindow(x, y)
<1>1. /\ window' = w /\ strayed' = FALSE /\ mixed' = FALSE
      /\ stored' = V!With(<<>>, V!dirty_at(w, x, y), <<x, y>>)
  BY DEF V!set_pixel_raw, Flushed
<1>2. /\ w \in Windows /\ w.x = x /\ w.first_x_max = x /\ w.cur_x_max = x /\ w.y = y /\ w.y_max = y
      /\ w # V!NoWindow
  <2>1. /\ w \in Windows /\ w.x = x /\ w.first_x_max = x /\ w.cur_x_max = x /\ w.y = y /\ w.y_max = y
    BY DEF V!NewWindow, Windows
  <2>2. V!NoWindow.x = -1 /\ x # -1
    BY DEF V!NoWindow
  <2> QED
    BY <2>1, <2>2
<1> HIDE DEF w
<1>3. V!dirty_at(w, x, y) = 0
  BY <1>2 DEF V!dirty_at, V!PerRow
<1>4. DOMAIN stored' = {0} /\ stored'[0] = <<x, y>>
  <2>1. stored' = [p \in DOMAIN <<>> \cup {0} |-> IF p = 0 THEN <<x, y>> ELSE <<>>[p]] /\ DOMAIN <<>> = {}
    BY <1>1, <1>3 DEF V!With
  <2> QED
    BY <2>1
<1>5. WindowInv'
  <2>1. (/\ window \in Windows
         /\ Shape(window.x, window.first_x_max, window.cur_x_max, window.y, window.y_max)
         /\ ~misplaced => Fits(window.x, window.first_x_max, window.cur_x_max, window.y, window.y_max))'
    BY <1>1, <1>2 DEF Shape, Fits
  <2> QED
    BY <2>1 DEF WindowInv
<1>6. PixelsOf(w) = {<<x, y>>}
  <2>1. PixelsOf(w) = {p \in (x..x) \X (y..y) : p[2] = y => p[1] <= x}
    BY <1>2 DEF PixelsOf
  <2>2. x..x = {x} /\ y..y = {y} /\ x <= x
    OBVIOUS
  <2> QED
    BY <2>1, <2>2
<1>7. Holds(w, stored')
  <2>1. V!dirty_at(w, <<x, y>>[1], <<x, y>>[2]) = 0
    BY <1>3
  <2> QED
    BY <1>2, <1>4, <1>6, <2>1 DEF Holds
<1>8. StoredInv'
  <2>1. Width * buffered_rows \in Nat \ {0}
    <3>1. Width * buffered_rows \in Nat /\ Width * 2 \in 0..(Width * buffered_rows)
      BY CanvasAssumption, ProductOfNaturals, ProductIsMonotone
    <3> QED
      BY <3>1, CanvasAssumption
  <2>2. 0 \in 0..(Width * buffered_rows - 1)
    BY <2>1
  <2>3. <<x, y>> \in V!Pixel
    BY DEF V!Pixel
  <2>4. Holds(window, stored)'
    BY <1>1, <1>7
  <2> QED
    BY <1>4, <2>2, <2>3, <2>4 DEF StoredInv, V!Pixel
<1> QED
  BY <1>1, <1>5, <1>8 DEF w

\* The place of a pixel that fits.
LEMMA PlaceOfMore ==
  ASSUME NEW wx \in Nat, NEW f \in Nat, NEW c \in Nat, NEW wy \in Nat, NEW ym \in Nat,
         Shape(wx, f, c, wy, ym), Fits(wx, f, c, wy, ym), NEW x \in Nat, NEW y \in Nat,
         x < Width, y < Height,
         ~(x < wx), ~(x > c + 1), ~(y > ym /\ c < f), ~(wy < ym /\ x > f), ~(y < wy), ~(y > ym + 1),
         ~(y > ym /\ (f - wx + 1) * (y - wy + 1) > Width * buffered_rows)
  PROVE  LET ym2 == IF y = ym + 1 THEN y ELSE ym
             c2 == IF y = ym + 1 \/ x > c THEN x ELSE c
             f2 == IF y # ym + 1 /\ x > c /\ wy = ym THEN x ELSE f
         IN /\ Fits(wx, f2, c2, wy, ym2)
            /\ (x - wx) + (y - wy) * (f2 - wx + 1) \in 0..(Width * buffered_rows - 1)
<1> DEFINE ym2 == IF y = ym + 1 THEN y ELSE ym
           c2 == IF y = ym + 1 \/ x > c THEN x ELSE c
           f2 == IF y # ym + 1 /\ x > c /\ wy = ym THEN x ELSE f
           all == Width * buffered_rows
<1>1. all \in Nat /\ Width * 2 \in 0..all
  BY CanvasAssumption, ProductOfNaturals, ProductIsMonotone
<1>2. wx <= f /\ wx <= c /\ wy <= ym /\ (wy = ym => c = f) /\ c <= f + 1
  BY DEF Shape
<1>3. f < Width /\ c < Width /\ ym < Height /\ (wy < ym => (f - wx + 1) * (ym - wy + 1) <= all)
  BY DEF Fits
<1>4. CASE y = ym + 1
  <2>1. ym2 = y /\ c2 = x /\ f2 = f
    BY <1>4
  <2>2. (f - wx + 1) * (y - wy + 1) <= all
    <3>1. y > ym /\ (f - wx + 1) * (y - wy + 1) \in Int
      BY <1>4
    <3> QED
      BY <1>1, <3>1
  <2>3. Fits(wx, f, x, wy, y)
    BY <1>3, <2>2 DEF Fits
  <2>4. CASE x <= f
    <3>1. /\ f - wx + 1 \in Nat \ {0} /\ x - wx \in 0..((f - wx + 1) - 1) /\ y - wy \in Nat
          /\ y - wy + 1 \in Nat /\ y - wy < y - wy + 1
      BY <1>2, <2>4
    <3> DEFINE n == f - wx + 1
               a == x - wx
               k == y - wy
               m == y - wy + 1
    <3>2. n * m <= all
      BY <2>2
    <3> HIDE DEF n, a, k, m, all
    <3>3. /\ n \in Nat \ {0} /\ a \in 0..(n - 1) /\ k \in Nat /\ m \in Nat /\ k < m /\ all \in Nat
      BY <1>1, <3>1 DEF n, a, k, m
    <3>4. a + k * n \in 0..(all - 1)
      BY <3>2, <3>3, PlaceIsInside
    <3> QED
      BY <2>1, <2>3, <3>4 DEF n, a, k, all
  <2>5. CASE x > f
    <3>1. wy = ym /\ c = f /\ x = f + 1 /\ y - wy = 1
      BY <1>2, <1>4, <2>5
    <3>2. (x - wx) + (y - wy) * (f - wx + 1) = 2 * (x - wx)
      BY <3>1
    <3>3. x - wx \in Nat /\ x - wx < Width /\ Width \in Nat /\ 2 * (x - wx) \in Nat
          /\ 2 * (x - wx) < Width * 2
      BY CanvasAssumption, <1>2
    <3>4. 2 * (x - wx) \in 0..(all - 1)
      <4> HIDE DEF all
      <4> QED
        BY <1>1, <3>3
    <3> QED
      BY <2>1, <2>3, <3>2, <3>4
  <2> QED
    BY <2>4, <2>5
<1>5. CASE y # ym + 1 /\ wy = ym
  <2>1. y = wy /\ y - wy = 0 /\ ym2 = ym
    BY <1>5
  <2>2. x <= f2 /\ f2 \in Nat /\ f2 < Width /\ c2 < Width
    BY <1>2, <1>3, <1>5
  <2>3. Fits(wx, f2, c2, wy, ym2)
    BY <1>3, <1>5, <2>1, <2>2 DEF Fits
  <2>4. (y - wy) * (f2 - wx + 1) = 0
    <3>1. \A i \in Int : 0 * i = 0
      OBVIOUS
    <3>2. f2 - wx + 1 \in Int
      BY <2>2
    <3> HIDE DEF f2
    <3> QED
      BY <2>1, <3>1, <3>2
  <2>5. x - wx \in 0..(all - 1)
    <3>1. x - wx \in Nat /\ x - wx < Width /\ Width \in Nat /\ Width <= Width * 2
      BY CanvasAssumption
    <3> HIDE DEF all
    <3> QED
      BY <1>1, <3>1
  <2>6. (x - wx) + (y - wy) * (f2 - wx + 1) = x - wx
    <3>1. x - wx \in Int
      OBVIOUS
    <3> HIDE DEF f2
    <3> QED
      BY <2>4, <3>1
  <2> QED
    BY <2>3, <2>5, <2>6
<1>6. CASE y # ym + 1 /\ wy # ym
  <2>1. wy < ym /\ y <= ym /\ x <= f /\ ym2 = ym /\ f2 = f
    BY <1>2, <1>6
  <2>2. c2 < Width
    BY <1>3, <1>6
  <2>3. Fits(wx, f2, c2, wy, ym2)
    BY <1>3, <2>1, <2>2 DEF Fits
  <2> DEFINE n == f - wx + 1
             a == x - wx
             k == y - wy
             m == ym - wy + 1
  <2>4. n * m <= all
    BY <1>3, <2>1
  <2>5. /\ n \in Nat \ {0} /\ a \in 0..(n - 1) /\ k \in Nat /\ m \in Nat /\ k < m /\ all \in Nat
    BY <1>1, <1>2, <2>1
  <2> HIDE DEF n, a, k, m, all
  <2>6. a + k * n \in 0..(all - 1)
    BY <2>4, <2>5, PlaceIsInside
  <2> QED
    BY <2>1, <2>3, <2>6 DEF n, a, k, all
<1> QED
  BY <1>4, <1>5, <1>6

\* What is in a window, with numbers.
LEMMA PixelOf ==
  ASSUME NEW w \in Windows, NEW p
  PROVE  p \in PixelsOf(w) <=>
           \E a, b \in Nat : /\ p = <<a, b>> /\ w.x <= a /\ a <= w.first_x_max
                             /\ w.y <= b /\ b <= w.y_max /\ (b = w.y_max => a <= w.cur_x_max)
<1>1. w.cur_x_max \in Nat /\ w.y_max \in Nat /\ w.y \in Nat /\ w.first_x_max \in Nat /\ w.x \in Nat
  BY DEF Windows
<1>2. ASSUME p \in PixelsOf(w)
      PROVE  \E a, b \in Nat : /\ p = <<a, b>> /\ w.x <= a /\ a <= w.first_x_max
                               /\ w.y <= b /\ b <= w.y_max /\ (b = w.y_max => a <= w.cur_x_max)
  <2>1. p = <<p[1], p[2]>> /\ p[1] \in w.x..w.first_x_max /\ p[2] \in w.y..w.y_max
        /\ (p[2] = w.y_max => p[1] <= w.cur_x_max)
    BY <1>2 DEF PixelsOf
  <2>2. p[1] \in Nat /\ p[2] \in Nat
    BY <1>1, <2>1
  <2> QED
    BY <1>1, <2>1, <2>2
<1>3. ASSUME NEW a \in Nat, NEW b \in Nat, p = <<a, b>>, w.x <= a, a <= w.first_x_max,
             w.y <= b, b <= w.y_max, b = w.y_max => a <= w.cur_x_max
      PROVE  p \in PixelsOf(w)
  BY <1>1, <1>3 DEF PixelsOf
<1> QED
  BY <1>2, <1>3

\* Different pixels of a window have different places.
LEMMA PixelsArePlaced ==
  ASSUME NEW w \in Windows, NEW p \in PixelsOf(w), NEW q \in PixelsOf(w),
         V!dirty_at(w, p[1], p[2]) = V!dirty_at(w, q[1], q[2])
  PROVE  p = q
<1>1. w.cur_x_max \in Nat /\ w.y_max \in Nat /\ w.y \in Nat /\ w.first_x_max \in Nat /\ w.x \in Nat
  BY DEF Windows
<1>2. PICK a, b \in Nat : p = <<a, b>> /\ w.x <= a /\ a <= w.first_x_max /\ w.y <= b /\ b <= w.y_max
  BY PixelOf
<1>3. PICK c, d \in Nat : q = <<c, d>> /\ w.x <= c /\ c <= w.first_x_max /\ w.y <= d /\ d <= w.y_max
  BY PixelOf
<1> DEFINE n == w.first_x_max - w.x + 1
           i == a - w.x
           j == c - w.x
           k == b - w.y
           m == d - w.y
<1>4. n \in Nat \ {0} /\ i \in 0..(n - 1) /\ j \in 0..(n - 1) /\ k \in Int /\ m \in Int
  BY <1>1, <1>2, <1>3
<1>5. i + k * n = j + m * n
  BY <1>2, <1>3 DEF V!dirty_at, V!PerRow
<1>6. (i = j => a = c) /\ (k = m => b = d)
  BY <1>1
<1> HIDE DEF n, i, j, k, m
<1>7. i = j /\ k = m
  BY <1>4, <1>5, PlacesDiffer
<1> QED
  BY <1>2, <1>3, <1>6, <1>7

\* A window with one more pixel holds it, when the others keep their places.
LEMMA OneMore ==
  ASSUME NEW w \in Windows, NEW v \in Windows, NEW s, Holds(w, s), NEW p,
         PixelsOf(v) = PixelsOf(w) \cup {p}, v.cur_x_max <= v.first_x_max,
         \A q \in PixelsOf(w) : V!dirty_at(v, q[1], q[2]) = V!dirty_at(w, q[1], q[2])
  PROVE  Holds(v, V!With(s, V!dirty_at(v, p[1], p[2]), p))
<1> DEFINE At(q) == V!dirty_at(v, q[1], q[2])
           t == V!With(s, V!dirty_at(v, p[1], p[2]), p)
<1>1. DOMAIN s = {At(q) : q \in PixelsOf(w)} /\ \A q \in PixelsOf(w) : s[At(q)] = q
  BY DEF Holds
<1>2. t = [place \in DOMAIN s \cup {At(p)} |-> IF place = At(p) THEN p ELSE s[place]]
  BY DEF V!With
<1>3. \A q \in PixelsOf(v) : At(q) = At(p) => q = p
  BY PixelsArePlaced
<1> HIDE DEF At, t
<1>4. DOMAIN t = {At(q) : q \in PixelsOf(v)}
  BY <1>1, <1>2
<1>5. ASSUME NEW q \in PixelsOf(v)
      PROVE  t[At(q)] = q
  <2>1. CASE q = p
    BY <1>2, <2>1
  <2>2. CASE q # p
    <3>1. q \in PixelsOf(w) /\ At(q) # At(p)
      BY <1>3, <2>2
    <3>2. At(q) \in DOMAIN s /\ s[At(q)] = q
      BY <1>1, <3>1
    <3> QED
      BY <1>2, <3>1, <3>2
  <2> QED
    BY <2>1, <2>2
<1> QED
  BY <1>4, <1>5 DEF Holds, At, t

\* The same for a pixel that fits and is in order.
LEMMA InOrderIsHeld ==
  ASSUME NEW w \in Windows, Shape(w.x, w.first_x_max, w.cur_x_max, w.y, w.y_max),
         NEW s, Holds(w, s), NEW x \in Nat, NEW y \in Nat,
         ~V!needs_to_be_flushed(w, x, y), V!InOrder(w, x, y)
  PROVE  LET v == Next1(w, x, y) IN Holds(v, V!With(s, V!dirty_at(v, x, y), <<x, y>>))
<1> DEFINE v == Next1(w, x, y)
           p == <<x, y>>
<1>1. w.cur_x_max \in Nat /\ w.y_max \in Nat /\ w.y \in Nat /\ w.first_x_max \in Nat /\ w.x \in Nat
  BY DEF Windows
<1>2. /\ w.x <= x /\ x <= w.cur_x_max + 1 /\ w.y <= y /\ y <= w.y_max + 1
      /\ ~(y > w.y_max /\ w.cur_x_max < w.first_x_max)
      /\ ~(w.y < w.y_max /\ x > w.first_x_max)
  BY <1>1 DEF V!needs_to_be_flushed
<1>3. /\ w.x <= w.first_x_max /\ w.x <= w.cur_x_max /\ w.y <= w.y_max
      /\ (w.y = w.y_max => w.cur_x_max = w.first_x_max) /\ w.cur_x_max <= w.first_x_max
  BY DEF Shape, Holds
<1>4. /\ v \in Windows /\ v.x = w.x /\ v.y = w.y
      /\ v.y_max = IF y = w.y_max + 1 THEN y ELSE w.y_max
      /\ v.cur_x_max = IF y = w.y_max + 1 \/ x > w.cur_x_max THEN x ELSE w.cur_x_max
      /\ v.first_x_max = IF y # w.y_max + 1 /\ x > w.cur_x_max /\ w.y = w.y_max THEN x
                         ELSE w.first_x_max
  BY FieldsOf
<1>5. y = w.y_max \/ (y = w.y_max + 1 /\ x = w.x) \/ (y < w.y_max /\ x <= w.cur_x_max)
  BY DEF V!InOrder
<1> HIDE DEF v
<1>6. v.cur_x_max <= v.first_x_max
  BY <1>1, <1>2, <1>3, <1>4, <1>5
<1>7. ASSUME NEW a \in Nat, NEW b \in Nat
      PROVE  (/\ v.x <= a /\ a <= v.first_x_max
              /\ v.y <= b /\ b <= v.y_max /\ (b = v.y_max => a <= v.cur_x_max))
             <=>
             \/ /\ w.x <= a /\ a <= w.first_x_max
                /\ w.y <= b /\ b <= w.y_max /\ (b = w.y_max => a <= w.cur_x_max)
             \/ a = x /\ b = y
  <2>1. CASE y = w.y_max /\ x <= w.cur_x_max
    <3>1. v.y_max = w.y_max /\ v.cur_x_max = w.cur_x_max /\ v.first_x_max = w.first_x_max
      BY <1>1, <1>4, <2>1
    <3> QED
      BY <1>1, <1>2, <1>3, <1>4, <2>1, <3>1
  <2>2. CASE y = w.y_max /\ x = w.cur_x_max + 1
    <3>1. v.y_max = w.y_max /\ v.cur_x_max = x
          /\ v.first_x_max = IF w.y = w.y_max THEN x ELSE w.first_x_max
      BY <1>1, <1>4, <2>2
    <3> QED
      BY <1>1, <1>2, <1>3, <1>4, <2>2, <3>1
  <2>3. CASE y = w.y_max + 1 /\ x = w.x
    <3>1. v.y_max = y /\ v.cur_x_max = x /\ v.first_x_max = w.first_x_max
          /\ w.cur_x_max = w.first_x_max
      BY <1>1, <1>2, <1>3, <1>4, <2>3
    <3> QED
      BY <1>1, <1>2, <1>3, <1>4, <2>3, <3>1
  <2>4. CASE y < w.y_max /\ x <= w.cur_x_max
    <3>1. v.y_max = w.y_max /\ v.cur_x_max = w.cur_x_max /\ v.first_x_max = w.first_x_max
      BY <1>1, <1>4, <2>4
    <3> QED
      BY <1>1, <1>2, <1>3, <1>4, <2>4, <3>1
  <2>5. x <= w.cur_x_max \/ x = w.cur_x_max + 1
    BY <1>1, <1>2
  <2> QED
    BY <1>5, <2>1, <2>2, <2>3, <2>4, <2>5
<1>8. PixelsOf(v) = PixelsOf(w) \cup {p}
  <2>1. ASSUME NEW q
        PROVE  q \in PixelsOf(v) <=> q \in PixelsOf(w) \/ q = p
    <3>1. q \in PixelsOf(v) <=>
           \E a, b \in Nat : /\ q = <<a, b>> /\ v.x <= a /\ a <= v.first_x_max
                             /\ v.y <= b /\ b <= v.y_max /\ (b = v.y_max => a <= v.cur_x_max)
      BY <1>4, PixelOf
    <3>2. q \in PixelsOf(w) <=>
           \E a, b \in Nat : /\ q = <<a, b>> /\ w.x <= a /\ a <= w.first_x_max
                             /\ w.y <= b /\ b <= w.y_max /\ (b = w.y_max => a <= w.cur_x_max)
      BY PixelOf
    <3> QED
      BY <1>7, <3>1, <3>2
  <2> QED
    BY <2>1
<1>9. ASSUME NEW q \in PixelsOf(w)
      PROVE  V!dirty_at(v, q[1], q[2]) = V!dirty_at(w, q[1], q[2])
  <2>1. PICK a, b \in Nat : q = <<a, b>> /\ w.y <= b /\ b <= w.y_max
    BY PixelOf
  <2>2. CASE v.first_x_max = w.first_x_max
    BY <1>4, <2>2 DEF V!dirty_at, V!PerRow
  <2>3. CASE v.first_x_max # w.first_x_max
    <3>1. w.y = w.y_max
      BY <1>4, <2>3
    <3>2. b - w.y = 0
      BY <1>1, <2>1, <3>1
    <3>3. \A i \in Int : 0 * i = 0
      OBVIOUS
    <3>4. v.first_x_max - v.x + 1 \in Int /\ w.first_x_max - w.x + 1 \in Int /\ a - w.x \in Int
      BY <1>1, <1>4 DEF Windows
    <3>5. V!dirty_at(v, a, b) = (a - w.x) + 0 * (v.first_x_max - v.x + 1)
          /\ V!dirty_at(w, a, b) = (a - w.x) + 0 * (w.first_x_max - w.x + 1)
      BY <1>4, <3>2 DEF V!dirty_at, V!PerRow
    <3> QED
      BY <2>1, <3>3, <3>4, <3>5
  <2> QED
    BY <2>2, <2>3
<1> HIDE DEF p
<1>10. Holds(v, V!With(s, V!dirty_at(v, p[1], p[2]), p))
  BY <1>4, <1>6, <1>8, <1>9, OneMore
<1> QED
  BY <1>10 DEF v, p

\* A pixel that fits joins the window.
LEMMA SetMore ==
  ASSUME WindowInv, StoredInv, NEW x \in Nat, NEW y \in Nat, NEW mix, V!set_pixel_raw(x, y, mix),
         ~Flushed(x, y), misplaced' = misplaced, ~misplaced => x < Width /\ y < Height
  PROVE  /\ window' = Next1(window, x, y)
         /\ strayed' = (strayed \/ ~V!InOrder(window, x, y)) /\ mixed' = (mixed \/ mix)
         /\ WindowInv' /\ StoredInv'
<1> DEFINE w == window
           v == Next1(window, x, y)
<1>1. /\ w # V!NoWindow /\ ~V!needs_to_be_flushed(w, x, y)
      /\ window' = v
      /\ stored' = V!With(stored, V!dirty_at(v, x, y), <<x, y>>)
      /\ strayed' = (strayed \/ ~V!InOrder(w, x, y)) /\ mixed' = (mixed \/ mix)
  BY DEF V!set_pixel_raw, Flushed, Next1
<1>2. /\ w \in Windows /\ Shape(w.x, w.first_x_max, w.cur_x_max, w.y, w.y_max)
      /\ ~misplaced => Fits(w.x, w.first_x_max, w.cur_x_max, w.y, w.y_max)
  BY <1>1 DEF WindowInv
<1>3. /\ v \in Windows /\ v.x = w.x /\ v.y = w.y
      /\ v.y_max = IF y = w.y_max + 1 THEN y ELSE w.y_max
      /\ v.cur_x_max = IF y = w.y_max + 1 \/ x > w.cur_x_max THEN x ELSE w.cur_x_max
      /\ v.first_x_max = IF y # w.y_max + 1 /\ x > w.cur_x_max /\ w.y = w.y_max THEN x
                         ELSE w.first_x_max
  BY <1>2, FieldsOf
<1> HIDE DEF v, w
<1> DEFINE wx == w.x
           f == w.first_x_max
           c == w.cur_x_max
           wy == w.y
           ym == w.y_max
<1>4. wx \in Nat /\ f \in Nat /\ c \in Nat /\ wy \in Nat /\ ym \in Nat
  BY <1>2 DEF Windows
<1>5. /\ Shape(wx, f, c, wy, ym)
      /\ ~(x < wx) /\ ~(x > c + 1) /\ ~(y > ym /\ c < f) /\ ~(wy < ym /\ x > f)
      /\ ~(y < wy) /\ ~(y > ym + 1)
      /\ ~(y > ym /\ (f - wx + 1) * (y - wy + 1) > Width * buffered_rows)
      /\ ~misplaced => Fits(wx, f, c, wy, ym)
  BY <1>1, <1>2 DEF V!needs_to_be_flushed, V!PerRow
<1>6. /\ v.x = wx /\ v.y = wy /\ v.y_max = IF y = ym + 1 THEN y ELSE ym
      /\ v.cur_x_max = IF y = ym + 1 \/ x > c THEN x ELSE c
      /\ v.first_x_max = IF y # ym + 1 /\ x > c /\ wy = ym THEN x ELSE f
  BY <1>3
<1> HIDE DEF wx, f, c, wy, ym
<1>7. Shape(v.x, v.first_x_max, v.cur_x_max, v.y, v.y_max)
  BY <1>4, <1>5, <1>6, ShapeIsKept
<1>8. ASSUME ~misplaced
      PROVE  /\ Fits(v.x, v.first_x_max, v.cur_x_max, v.y, v.y_max)
             /\ V!dirty_at(v, x, y) \in 0..(Width * buffered_rows - 1)
  <2> DEFINE ym2 == IF y = ym + 1 THEN y ELSE ym
             c2 == IF y = ym + 1 \/ x > c THEN x ELSE c
             f2 == IF y # ym + 1 /\ x > c /\ wy = ym THEN x ELSE f
  <2>1. /\ Fits(wx, f2, c2, wy, ym2)
        /\ (x - wx) + (y - wy) * (f2 - wx + 1) \in 0..(Width * buffered_rows - 1)
    BY <1>4, <1>5, <1>8, PlaceOfMore
  <2>2. v.y_max = ym2 /\ v.cur_x_max = c2 /\ v.first_x_max = f2
    BY <1>6
  <2> HIDE DEF ym2, c2, f2
  <2> QED
    BY <1>6, <2>1, <2>2 DEF V!dirty_at, V!PerRow
<1>9. v # V!NoWindow
  <2>1. v.x \in Nat
    BY <1>3 DEF Windows
  <2>2. V!NoWindow.x = -1 /\ -1 \notin Nat
    BY DEF V!NoWindow
  <2> QED
    BY <2>1, <2>2
<1>10. WindowInv'
  BY <1>1, <1>3, <1>7, <1>8 DEF WindowInv
<1>11. StoredInv'
  <2> DEFINE place == V!dirty_at(v, x, y)
  <2>1. stored' = [p \in DOMAIN stored \cup {place} |-> IF p = place THEN <<x, y>> ELSE stored[p]]
    BY <1>1 DEF V!With
  <2>2. <<x, y>> \in V!Pixel
    BY DEF V!Pixel
  <2>3. ~strayed' => Holds(v, stored')
    <3> SUFFICES ASSUME ~strayed' PROVE Holds(v, stored')
      OBVIOUS
    <3>1. ~strayed /\ V!InOrder(w, x, y)
      BY <1>1
    <3>2. Holds(w, stored)
      BY <1>1, <3>1 DEF StoredInv, w
    <3> QED
      BY <1>1, <1>2, <3>1, <3>2, InOrderIsHeld DEF v, w
  <2>4. ~misplaced => place \in 0..(Width * buffered_rows - 1)
    BY <1>8
  <2> HIDE DEF place
  <2>5. DOMAIN stored' = DOMAIN stored \cup {place}
        /\ \A p \in DOMAIN stored' : stored'[p] \in V!Pixel
    BY <2>1, <2>2 DEF StoredInv
  <2>6. (~strayed => Holds(window, stored))'
    BY <1>1, <2>3
  <2> QED
    BY <2>4, <2>5, <2>6 DEF StoredInv, V!Pixel
<1> QED
  BY <1>1, <1>10, <1>11 DEF v, w

\* The call after one pixel.
LEMMA LoopGoesOn ==
  ASSUME DrawingInv, drawing # V!NoCall, NEW first \in BOOLEAN, V!Loop(first), misplaced' = misplaced
  PROVE  /\ DrawingInv'
         /\ drawing' # V!NoCall =>
              /\ drawing'.x0 = drawing.x0 /\ drawing'.first = first
              /\ \/ drawing'.x = drawing.x + 1 /\ drawing'.y = drawing.y
                 \/ drawing'.x = drawing.x0 /\ drawing'.y = drawing.y + 1
<1> DEFINE d == drawing
           right == [[d EXCEPT !.x = d.x + 1] EXCEPT !.first = first]
           down == [[[d EXCEPT !.x = d.x0] EXCEPT !.y = d.y + 1] EXCEPT !.first = first]
<1>1. /\ d \in Drawings /\ d.x0 <= d.x /\ d.x < d.x_end /\ d.y < d.y_end
      /\ ~misplaced => d.x_end <= Width /\ d.y_end <= Height
  BY DEF DrawingInv
<1>2. d.x0 \in Nat /\ d.x \in Nat /\ d.y \in Nat /\ d.x_end \in Int /\ d.y_end \in Int
  BY <1>1 DEF Drawings
<1>3. d.x + 1 \in Nat /\ d.y + 1 \in Nat /\ d.x0 <= d.x + 1 /\ d.x0 <= d.x0
  BY <1>1, <1>2
<1>4. /\ right \in Drawings /\ right.x0 = d.x0 /\ right.x_end = d.x_end /\ right.y_end = d.y_end
      /\ right.x = d.x + 1 /\ right.y = d.y /\ right.first = first
  BY <1>1, <1>3 DEF Drawings
<1>5. /\ down \in Drawings /\ down.x0 = d.x0 /\ down.x_end = d.x_end /\ down.y_end = d.y_end
      /\ down.x = d.x0 /\ down.y = d.y + 1 /\ down.first = first
  BY <1>1, <1>2, <1>3 DEF Drawings
<1>6. drawing' = IF d.x + 1 < d.x_end THEN right ELSE IF d.y + 1 < d.y_end THEN down ELSE V!NoCall
  BY <1>1 DEF V!Loop, Drawings
<1> HIDE DEF d, right, down
<1>7. CASE d.x + 1 < d.x_end
  <2>1. drawing' = right
    BY <1>6, <1>7
  <2>2. DrawingInv'
    BY <1>1, <1>3, <1>4, <1>7, <2>1 DEF DrawingInv
  <2> QED
    BY <1>4, <2>1, <2>2 DEF d
<1>8. CASE ~(d.x + 1 < d.x_end) /\ d.y + 1 < d.y_end
  <2>1. drawing' = down
    BY <1>6, <1>8
  <2>2. d.x0 < d.x_end
    BY <1>1, <1>2
  <2>3. DrawingInv'
    BY <1>1, <1>3, <1>5, <1>8, <2>1, <2>2 DEF DrawingInv
  <2> QED
    BY <1>5, <2>1, <2>3 DEF d
<1>9. CASE ~(d.x + 1 < d.x_end) /\ ~(d.y + 1 < d.y_end)
  BY <1>6, <1>9 DEF DrawingInv
<1> QED
  BY <1>7, <1>8, <1>9

\* A call begins with its first pixel to come.
LEMMA CallBegins ==
  ASSUME NEW kind \in {"fill", "import"}, NEW x0 \in Nat, NEW y0 \in Nat, NEW xw \in Int, NEW yh \in Int,
         V!Call(kind, x0, y0, xw, yh), ~misplaced' => x0 + xw <= Width /\ y0 + yh <= Height
  PROVE  DrawingInv' /\ (drawing' # V!NoCall => drawing'.first)
<1>1. CASE xw > 0 /\ yh > 0
  <2> DEFINE d == [kind |-> kind, x0 |-> x0, x_end |-> x0 + xw, y_end |-> y0 + yh,
                   x |-> x0, y |-> y0, first |-> TRUE]
  <2>1. drawing' = d
    BY <1>1 DEF V!Call
  <2>2. x0 + xw \in Int /\ y0 + yh \in Int /\ x0 < x0 + xw /\ y0 < y0 + yh /\ x0 <= x0
    BY <1>1
  <2>3. /\ d \in Drawings /\ d.x0 = x0 /\ d.x = x0 /\ d.y = y0 /\ d.x_end = x0 + xw /\ d.y_end = y0 + yh
        /\ d.first = TRUE
    BY <2>2 DEF Drawings
  <2> HIDE DEF d
  <2> QED
    BY <2>1, <2>2, <2>3 DEF DrawingInv
<1>2. CASE ~(xw > 0 /\ yh > 0)
  <2>1. drawing' = V!NoCall
    BY <1>2 DEF V!Call
  <2> QED
    BY <2>1 DEF DrawingInv
<1> QED
  BY <1>1, <1>2

\* Every pixel that is set and every window that is sent keeps it.
LEMMA CanvasStep ==
  ASSUME CanvasInv, [V!Next]_V!vars
  PROVE  CanvasInv'
<1> USE DEF CanvasInv
<1>1. ASSUME NEW a \in Fills, V!fill(a[1], a[2], a[3], a[4])
      PROVE  CanvasInv'
  <2> DEFINE xw == V!FillWidth(a[1], a[3])
             yh == V!FillHeight(a[2], a[4])
  <2>1. a[1] \in Nat /\ a[2] \in Nat /\ a[3] \in Int /\ a[4] \in Int
    BY CanvasAssumption
  <2>2. xw \in Int /\ yh \in Int /\ a[1] + xw <= Width /\ a[2] + yh <= Height
    BY <2>1, CanvasAssumption DEF V!FillWidth, V!FillHeight
  <2>3. /\ V!Call("fill", a[1], a[2], xw, yh)
        /\ UNCHANGED <<window, stored, strayed, mixed, misplaced>>
    BY <1>1 DEF V!fill
  <2> HIDE DEF xw, yh
  <2>4. DrawingInv' /\ (drawing' # V!NoCall => drawing'.first)
    BY <2>1, <2>2, <2>3, CallBegins
  <2>5. CallInv'
    BY <2>4 DEF CallInv
  <2>6. WindowInv' /\ StoredInv'
    BY <2>3 DEF WindowInv, StoredInv, Holds
  <2> QED
    BY <2>3, <2>4, <2>5, <2>6
<1>2. ASSUME NEW a \in Imports, V!import(a[1], a[2], a[3], a[4])
      PROVE  CanvasInv'
  <2> DEFINE iw == IF a[3] <= 0 \/ a[3] > a[1] + Width THEN Width - a[1] ELSE a[3]
             ih == IF a[4] <= 0 \/ a[4] > a[2] + Height THEN Height - a[2] ELSE a[4]
  <2>1. a[1] \in Nat /\ a[2] \in Nat /\ a[3] \in Int /\ a[4] \in Int
    BY CanvasAssumption
  <2>2. iw \in Int /\ ih \in Int
    BY <2>1, CanvasAssumption
  <2>3. /\ V!Call("import", a[1], a[2], iw, ih)
        /\ misplaced' = (misplaced \/ a[1] + iw > Width \/ a[2] + ih > Height)
        /\ UNCHANGED <<window, stored, strayed, mixed>>
    BY <1>2 DEF V!import
  <2> HIDE DEF iw, ih
  <2>4. misplaced' \in BOOLEAN /\ (~misplaced' => ~misplaced)
    BY <2>3
  <2>5. ~misplaced' => a[1] + iw <= Width /\ a[2] + ih <= Height
    <3>1. ~misplaced' => ~(a[1] + iw > Width) /\ ~(a[2] + ih > Height)
      BY <2>3
    <3> QED
      BY <2>1, <2>2, <3>1, CanvasAssumption
  <2>6. DrawingInv' /\ (drawing' # V!NoCall => drawing'.first)
    BY <2>1, <2>2, <2>3, <2>5, CallBegins
  <2>7. CallInv'
    BY <2>6 DEF CallInv
  <2>8. WindowInv' /\ StoredInv'
    BY <2>3, <2>4 DEF WindowInv, StoredInv, Holds
  <2> QED
    BY <2>3, <2>4, <2>6, <2>7, <2>8
<1>3. ASSUME V!DrawPixel
      PROVE  CanvasInv'
  <2> DEFINE x == drawing.x
             y == drawing.y
             mix == drawing.first
  <2>1. /\ drawing # V!NoCall /\ V!set_pixel_raw(x, y, mix) /\ V!Loop(FALSE) /\ misplaced' = misplaced
    BY <1>3 DEF V!DrawPixel
  <2>2. /\ drawing \in Drawings
        /\ drawing.x0 <= drawing.x /\ drawing.x < drawing.x_end /\ drawing.y < drawing.y_end
        /\ ~misplaced => drawing.x_end <= Width /\ drawing.y_end <= Height
    BY <2>1 DEF DrawingInv
  <2>3. /\ x \in Nat /\ y \in Nat /\ mix \in BOOLEAN /\ drawing.x0 \in Nat
        /\ drawing.x_end \in Int /\ drawing.y_end \in Int
    BY <2>2 DEF Drawings
  <2>4. ~misplaced => x < Width /\ y < Height
    BY <2>2, <2>3, CanvasAssumption
  <2>5. /\ DrawingInv'
        /\ drawing' # V!NoCall =>
             /\ drawing'.x0 = drawing.x0
             /\ \/ drawing'.x = drawing.x + 1 /\ drawing'.y = drawing.y
                \/ drawing'.x = drawing.x0 /\ drawing'.y = drawing.y + 1
    BY <2>1, LoopGoesOn
  \* What CallInv asks of the window, once the pixel is in it.
  <2>6. ASSUME window' # V!NoWindow, drawing.x0 <= window'.x, window'.y_max = drawing.y
        PROVE  CallInv'
    <3> SUFFICES ASSUME drawing' # V!NoCall
                 PROVE  /\ drawing'.x0 <= window'.x
                        /\ window'.y_max = IF drawing'.x > drawing'.x0 THEN drawing'.y ELSE drawing'.y - 1
      BY <2>6 DEF CallInv
    <3>1. CASE drawing'.x = drawing.x + 1 /\ drawing'.y = drawing.y
      <4>1. drawing.x + 1 > drawing.x0
        BY <2>2, <2>3
      <4> QED
        BY <2>5, <2>6, <3>1, <4>1
    <3>2. CASE drawing'.x = drawing.x0 /\ drawing'.y = drawing.y + 1
      <4>1. ~(drawing.x0 > drawing.x0) /\ (drawing.y + 1) - 1 = drawing.y
        BY <2>3
      <4> QED
        BY <2>5, <2>6, <3>2, <4>1
    <3> QED
      BY <2>5, <3>1, <3>2
  <2>7. CASE Flushed(x, y)
    <3>1. /\ window' = V!NewWindow(x, y) /\ strayed' = FALSE /\ mixed' = FALSE
          /\ WindowInv' /\ StoredInv'
      BY <2>1, <2>3, <2>4, <2>7, SetAnew
    <3>2. window'.x = x /\ window'.y_max = y
      BY <3>1 DEF V!NewWindow
    <3>3. window' # V!NoWindow
      <4>1. V!NoWindow.x = -1 /\ x # -1
        BY <2>3 DEF V!NoWindow
      <4> QED
        BY <3>2, <4>1
    <3>4. CallInv'
      BY <2>2, <2>6, <3>2, <3>3
    <3> QED
      BY <2>1, <2>5, <3>1, <3>4
  <2>8. CASE ~Flushed(x, y)
    <3>1. /\ window' = Next1(window, x, y)
          /\ strayed' = (strayed \/ ~V!InOrder(window, x, y)) /\ mixed' = (mixed \/ mix)
          /\ WindowInv' /\ StoredInv'
      BY <2>1, <2>3, <2>4, <2>8, SetMore
    <3>2. window \in Windows /\ window # V!NoWindow /\ ~V!needs_to_be_flushed(window, x, y)
      BY <2>8 DEF Flushed, WindowInv
    <3>3. window'.x = window.x
          /\ window'.y_max = IF y = window.y_max + 1 THEN y ELSE window.y_max
      BY <2>3, <3>1, <3>2, FieldsOf
    <3>4. window.x \in Nat /\ window.y_max \in Nat
      BY <3>2 DEF Windows
    <3>5. ASSUME ~mixed'
          PROVE  /\ CallInv' /\ V!InOrder(window, x, y)
      <4>1. ~mixed /\ ~drawing.first
        BY <3>1, <3>5
      <4>2. drawing.x0 <= window.x /\ window.y_max = IF x > drawing.x0 THEN y ELSE y - 1
        BY <2>1, <4>1 DEF CallInv
      <4>3. window'.y_max = y
        BY <2>3, <3>3, <4>2
      <4>4. V!InOrder(window, x, y)
        <5>1. ~(x < window.x)
          BY <3>2 DEF V!needs_to_be_flushed
        <5>2. CASE x > drawing.x0
          BY <4>2, <5>2 DEF V!InOrder
        <5>3. CASE ~(x > drawing.x0)
          <6>1. y = window.y_max + 1 /\ x = window.x
            BY <2>2, <2>3, <3>4, <4>2, <5>1, <5>3
          <6> QED
            BY <6>1 DEF V!InOrder
        <5> QED
          BY <5>2, <5>3
      <4>5. window' # V!NoWindow
        <5>1. V!NoWindow.x = -1 /\ window.x # -1
          BY <3>4 DEF V!NoWindow
        <5> QED
          BY <3>3, <5>1
      <4>6. CallInv'
        BY <2>6, <3>3, <4>2, <4>3, <4>5
      <4> QED
        BY <4>4, <4>6
    <3>6. CallInv'
      BY <3>5 DEF CallInv
    <3>7. strayed' \in BOOLEAN /\ mixed' \in BOOLEAN
      BY <3>1
    <3>8. strayed' => mixed'
      BY <3>1, <3>5
    <3> QED
      BY <2>1, <2>5, <3>1, <3>6, <3>7, <3>8
  <2> QED
    BY <2>7, <2>8
<1>4. ASSUME V!SkipPixel
      PROVE  CanvasInv'
  <2>1. /\ drawing.kind = "import" /\ V!Loop(TRUE)
        /\ UNCHANGED <<window, stored, strayed, mixed, misplaced>>
    BY <1>4 DEF V!SkipPixel
  <2>2. drawing # V!NoCall
    BY <2>1 DEF V!NoCall
  <2>3. DrawingInv' /\ (drawing' # V!NoCall => drawing'.first = TRUE)
    BY <2>1, <2>2, LoopGoesOn
  <2>4. CallInv'
    BY <2>3 DEF CallInv
  <2>5. WindowInv' /\ StoredInv'
    BY <2>1 DEF WindowInv, StoredInv, Holds
  <2> QED
    BY <2>1, <2>3, <2>4, <2>5
<1>5. ASSUME V!flush
      PROVE  CanvasInv'
  <2>1. /\ drawing = V!NoCall /\ drawing' = V!NoCall /\ window' = V!NoWindow /\ stored' = <<>>
        /\ DOMAIN stored' = {}
        /\ strayed' = FALSE /\ mixed' = FALSE /\ misplaced' = FALSE
    BY <1>5 DEF V!flush
  <2> QED
    BY <2>1 DEF DrawingInv, WindowInv, CallInv, StoredInv
<1>6. ASSUME UNCHANGED V!vars
      PROVE  CanvasInv'
  BY <1>6 DEF V!vars, DrawingInv, WindowInv, CallInv, StoredInv, Holds
<1> QED
  BY <1>1, <1>2, <1>3, <1>4, <1>5, <1>6 DEF V!Next

-----------------------------------------------------------------------------
(* All of them                                                              *)

\* The inductive invariant: that of every part, whether it runs or not.
IInv ==
  /\ part \in Parts
  /\ PwmInv /\ EdgesInv /\ ExpanderInv /\ EncoderInv /\ BusInv /\ TableInv
  /\ ServoInv /\ BufferInv /\ WavInv /\ UriInv /\ PageInv /\ CanvasInv
  /\ AlsaInv /\ SoundInv /\ AxisInv

\* Every part starts in its invariant.
LEMMA InitIInv == Init => IInv
<1> SUFFICES ASSUME Init
             PROVE  IInv
  OBVIOUS
<1>1. part \in Parts
  BY DEF Init
<1>2. PwmInv /\ EdgesInv /\ ExpanderInv /\ EncoderInv
  BY PwmInit, EdgesInit, ExpanderInit, EncoderInit DEF Init
<1>3. BusInv /\ TableInv /\ ServoInv /\ BufferInv
  BY BusInit, TableInit, ServoInit, BufferInit DEF Init
<1>4. WavInv /\ UriInv /\ PageInv /\ CanvasInv
  BY WavInit, UriInit, PageInit, CanvasInit DEF Init
<1>5. AlsaInv /\ SoundInv /\ AxisInv
  BY AlsaInit, SoundInit, AxisInit DEF Init
<1> QED
  BY <1>1, <1>2, <1>3, <1>4, <1>5 DEF IInv

\* A step of every part, or none.
OneEach ==
  /\ UNCHANGED part
  /\ [G!Next]_gpio_pico /\ [E!Next]_gpio_pi /\ [M!Next]_mcp23017
  /\ [R!Next]_encoder /\ [B!PiNext]_i2c_pi /\ [B!PicoNext]_i2c_pico
  /\ [S!Next]_maestro /\ [W!BufferNext]_buffer /\ [W!WavNext]_wav_file
  /\ [U!UriNext]_uri /\ [U!PageNext]_page /\ [V!Next]_canvas
  /\ [A!Next]_alsa /\ [W!SoundNext]_sound /\ [X!Next]_axis

\* A step is a step of one part, and leaves the others as they are.
LEMMA OneStepAtATime == [Next]_vars => OneEach
<1> SUFFICES ASSUME [Next]_vars
             PROVE  OneEach
  OBVIOUS
<1>1. CASE Slice
  BY <1>1, Zenon DEF Slice, OneEach
<1>2. CASE Edges
  BY <1>2, Zenon DEF Edges, OneEach
<1>3. CASE Expander
  BY <1>3, Zenon DEF Expander, OneEach
<1>4. CASE Encoder
  BY <1>4, Zenon DEF Encoder, OneEach
<1>5. CASE BusOnThePi
  BY <1>5, Zenon DEF BusOnThePi, OneEach
<1>6. CASE BusOnThePico
  BY <1>6, Zenon DEF BusOnThePico, OneEach
<1>7. CASE Servo
  BY <1>7, Zenon DEF Servo, OneEach
<1>8. CASE BufferOfAFile
  BY <1>8, Zenon DEF BufferOfAFile, OneEach
<1>9. CASE WavFile
  BY <1>9, Zenon DEF WavFile, OneEach
<1>10. CASE Lookup
  BY <1>10, Zenon DEF Lookup, OneEach
<1>11. CASE Substitution
  BY <1>11, Zenon DEF Substitution, OneEach
<1>12. CASE Drawing
  BY <1>12, Zenon DEF Drawing, OneEach
<1>13. CASE SoundDevice
  BY <1>13, Zenon DEF SoundDevice, OneEach
<1>14. CASE Sound
  BY <1>14, Zenon DEF Sound, OneEach
<1>15. CASE Axis
  BY <1>15, Zenon DEF Axis, OneEach
<1>16. CASE UNCHANGED vars
  BY <1>16, Zenon DEF vars, OneEach
<1> QED
  BY <1>1, <1>2, <1>3, <1>4, <1>5, <1>6, <1>7, <1>8, <1>9, <1>10, <1>11,
     <1>12, <1>13, <1>14, <1>15, <1>16, Zenon DEF Next

\* The variables of a page and of a canvas, in the order of their modules.
LEMMA PageAndCanvas ==
  /\ [U!PageNext]_page => [U!PageNext]_U!pageVars
  /\ [V!Next]_canvas => [V!Next]_V!vars
<1>1. UNCHANGED page => UNCHANGED U!pageVars
  BY DEF page, U!pageVars
<1>2. UNCHANGED canvas => UNCHANGED V!vars
  BY DEF canvas, V!vars
<1> QED
  BY <1>1, <1>2

\* Every step keeps the invariant of every part.
LEMMA NextIInv == IInv /\ [Next]_vars => IInv'
<1> SUFFICES ASSUME IInv, [Next]_vars
             PROVE  IInv'
  OBVIOUS
<1>1. OneEach
  BY OneStepAtATime
<1>2. part' \in Parts
  BY <1>1 DEF IInv, OneEach
<1>3. PwmInv' /\ EdgesInv' /\ ExpanderInv' /\ EncoderInv'
  BY <1>1, PwmStep, EdgesStep, ExpanderStep, EncoderStep DEF IInv, OneEach
<1>4. BusInv' /\ TableInv' /\ ServoInv' /\ BufferInv'
  BY <1>1, BusStep, TableStep, ServoStep, BufferStep DEF IInv, OneEach
<1>5. WavInv' /\ UriInv' /\ PageInv' /\ CanvasInv'
  BY <1>1, PageAndCanvas, WavStep, UriStep, PageStep, CanvasStep DEF IInv, OneEach
<1>6. AlsaInv' /\ SoundInv' /\ AxisInv'
  BY <1>1, AlsaStep, SoundStep, AxisStep DEF IInv, OneEach
<1> QED
  BY <1>2, <1>3, <1>4, <1>5, <1>6 DEF IInv

\* The invariant of every part holds in every reachable state.
THEOREM IInvThm == Spec => []IInv
<1> QED
  BY InitIInv, NextIInv, PTL DEF Spec

\* The variables of the part that runs have their types.
THEOREM TypeOKThm == Spec => []TypeOK
<1>1. IInv => TypeOK
  <2> SUFFICES ASSUME IInv
               PROVE  TypeOK
    OBVIOUS
  <2>1. part \in Parts /\ G!TypeOK /\ E!TypeOK /\ M!TypeOK /\ R!TypeOK
    BY EdgesInvImplies, ExpanderInvImplies, EncoderInvImplies DEF IInv, PwmInv
  <2>2. B!PiTypeOK /\ B!PicoTypeOK /\ S!TypeOK /\ W!BufferTypeOK
    BY DEF IInv, BusInv, TableInv, ServoInv, BufferInv
  <2>3. W!WavTypeOK /\ U!UriTypeOK /\ U!PageTypeOK /\ V!TypeOK
    BY PageInvImplies, CanvasInvImplies DEF IInv, WavInv, UriInv
  <2>4. A!TypeOK /\ W!SoundTypeOK /\ X!TypeOK
    BY AlsaInvImplies, SoundInvImplies DEF IInv, AxisInv
  <2> QED
    BY <2>1, <2>2, <2>3, <2>4, Zenon DEF TypeOK
<1> QED
  BY <1>1, IInvThm, PTL

\* A PWM slice takes a level for a pin only if it serves the pin, or its servo is
\* stale.
LEMMA IntrudesOnlyIfStale ==
  IInv /\ [Next]_vars =>
    [\A gpio \in Gpio :
       level_by'[G!channel(gpio)] = gpio /\ level_by[G!channel(gpio)] # gpio
         => channel_pins'[G!channel(gpio)] = gpio \/ G!StaleServo(gpio)]_G!vars
BY OneStepAtATime, OnlyStaleServosIntrudeStep DEF IInv, OneEach

\* A handler is called with its own argument.
LEMMA CallsWithItsArg ==
  IInv /\ [Next]_vars =>
    [E!CallHandler /\ setter = 0 /\ irq_f = called[1] => called'[1] = called'[2]]_E!vars
BY HandlerGetsItsArgStep DEF IInv

\* Other devices are tried before configure() gives up.
LEMMA TriesTheRest ==
  IInv /\ [Next]_vars =>
    [\A c \in Config : A!configure(c) /\ configured'.said = "no" =>
       playable[c] = {} \/ pcm'.place = preferred]_A!vars
BY GivesUpLastStep DEF IInv

\* A bus that has been locked stays locked.
LEMMA StaysLocked ==
  IInv /\ [Next]_vars =>
    [\A t \in I2cThread : bus_lock \in I2cThread =>
       /\ bus_lock' = bus_lock
       /\ i2c_at[t] \in {"lock", "lock16", "unlock"} => i2c_at'[t] = i2c_at[t]]_B!pi_vars
<1> SUFFICES ASSUME IInv, [Next]_vars, ~UNCHANGED B!pi_vars,
                    NEW t \in I2cThread, bus_lock \in I2cThread
             PROVE  /\ bus_lock' = bus_lock
                    /\ i2c_at[t] \in {"lock", "lock16", "unlock"} => i2c_at'[t] = i2c_at[t]
  OBVIOUS
<1>1. [B!PiNext]_i2c_pi
  BY OneStepAtATime DEF OneEach
<1>2. B!PiNext
  BY <1>1 DEF i2c_pi, B!pi_vars
<1> QED
  BY <1>2, FirstOperationIsTheLastStep DEF IInv

\* A carriage comes nearer to its target and does not pass it.
LEMMA ComesNearer ==
  IInv /\ [Next]_vars =>
    [wanted' >= 0 =>
       (wanted' - pos') * (wanted' - pos) >= 0 /\
       (wanted' - pos') * (wanted' - pos') <= (wanted' - pos) * (wanted' - pos)]_X!vars
BY OneStepAtATime, NeverPastTheTargetStep DEF IInv, OneEach

\* What the software remembers of a device is what the device does: PWM slices,
\* the port expander, the servo controller, the encoder, the display, the sound
\* device and the axis, with the exceptions that their modules name.
THEOREM DevicesAreAsRememberedThm == Spec => DevicesAreAsRemembered
<1> DEFINE Remembered ==
      /\ part = "gpio_pico" => G!SliceServesItsPins
      /\ part = "mcp23017" => M!DeviceIsTheCopy /\ M!NotifyingIsEnabled
      /\ part = "maestro" => S!TargetIsRemembered /\ S!RangeIsTheControllers
      /\ part = "encoder" => R!CountsThePosition
      /\ part = "canvas" => V!ShowsWhatWasSet /\ V!StraysOnlyWhenMixed /\ V!StaysOnCanvas
      /\ part = "alsa" => A!YesMeansReady
      /\ part = "axis" => X!PosIsTheCarriage
<1>1. IInv => Remembered
  <2> SUFFICES ASSUME IInv
               PROVE  Remembered
    OBVIOUS
  <2>1. G!SliceServesItsPins /\ M!DeviceIsTheCopy /\ M!NotifyingIsEnabled
    BY ExpanderInvImplies DEF IInv, PwmInv
  <2>2. S!TargetIsRemembered /\ S!RangeIsTheControllers /\ R!CountsThePosition
    BY EncoderInvImplies DEF IInv, ServoInv
  <2>3. V!ShowsWhatWasSet /\ V!StraysOnlyWhenMixed /\ V!StaysOnCanvas
    BY CanvasInvImplies DEF IInv
  <2>4. A!YesMeansReady /\ X!PosIsTheCarriage
    BY AlsaInvImplies DEF IInv, AxisInv
  <2> QED
    BY <2>1, <2>2, <2>3, <2>4
<1>2. Spec => []Remembered
  <2> HIDE DEF Remembered
  <2> QED
    BY <1>1, IInvThm, PTL
<1>3. Spec => G!OnlyStaleServosIntrude
  BY IInvThm, IntrudesOnlyIfStale, PTL DEF Spec, G!OnlyStaleServosIntrude
<1>4. Spec => A!GivesUpLast
  BY IInvThm, TriesTheRest, PTL DEF Spec, A!GivesUpLast
<1>5. Spec => X!NeverPastTheTarget
  BY IInvThm, ComesNearer, PTL DEF Spec, X!NeverPastTheTarget
<1> QED
  BY <1>2, <1>3, <1>4, <1>5 DEF DevicesAreAsRemembered

\* What is read is what was asked for: the edges of a pin, the registers of a
\* device on the bus, the bytes of a file, its audio data, its frames, and the
\* pages of the HTTP server, with the exceptions that their modules name.
THEOREM DataAreAsAskedForThm == Spec => DataAreAsAskedFor
<1> DEFINE AskedFor ==
      /\ part = "gpio_pi" => E!LastEdgeIsReported
      /\ part = "i2c_pi" => B!ReadsOwnRegister
      /\ part = "i2c_pico" => B!ReadsItsRegister
      /\ part = "buffer" => W!LikeMemory
      /\ part = "wav_file" => W!FindsAudio
      /\ part = "sound" => W!FramesAreWhole /\ W!OpsAreCounted
      /\ part = "uri" => U!LongestPrefixAnswers
      /\ part = "page" => U!PageIsSubstituted
<1>1. IInv => AskedFor
  <2> SUFFICES ASSUME IInv
               PROVE  AskedFor
    OBVIOUS
  <2>1. E!LastEdgeIsReported /\ B!ReadsOwnRegister /\ B!ReadsItsRegister
    BY EdgesInvImplies DEF IInv, BusInv, TableInv
  <2>2. W!LikeMemory /\ W!FindsAudio /\ W!FramesAreWhole /\ W!OpsAreCounted
    BY SoundInvImplies DEF IInv, BufferInv, WavInv
  <2>3. U!LongestPrefixAnswers /\ U!PageIsSubstituted
    BY PageInvImplies DEF IInv, UriInv
  <2> QED
    BY <2>1, <2>2, <2>3
<1>2. Spec => []AskedFor
  <2> HIDE DEF AskedFor
  <2> QED
    BY <1>1, IInvThm, PTL
<1>3. Spec => E!HandlerGetsItsArg
  BY IInvThm, CallsWithItsArg, PTL DEF Spec, E!HandlerGetsItsArg
<1>4. Spec => B!FirstOperationIsTheLast
  BY IInvThm, StaysLocked, PTL DEF Spec, B!FirstOperationIsTheLast
<1> QED
  BY <1>2, <1>3, <1>4 DEF DataAreAsAskedFor

=============================================================================
