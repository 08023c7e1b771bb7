------------------------------- MODULE GpioPico -------------------------------
(***************************************************************************)
(* core/pico/pi-gpio-pico.c: the state of each pin, and the PWM slices,    *)
(* two channels each, that pins share: one frequency per slice, one level  *)
(* per channel.  Gpio holds the pins of one slice (the hardware maps       *)
(* several to one channel).  Callers set a duty only after pwm_enable()    *)
(* has succeeded for their pin, as its result asks for, or use servo().    *)
(***************************************************************************)
EXTENDS Integers, FiniteSets

CONSTANTS Gpio,
          Hz, BadHz,   \* frequencies, and those that set_pwm_freq() refuses
          ServoHz

Channel == {0, 1}
channel(gpio) == gpio % 2   \* pwm_gpio_to_channel()
NoPin == -1

VARIABLES
  state,         \* gpios[].state
  channel_pins, hz, n_active,   \* the pwm_slice_t
  function,      \* hardware: the pins switched to the PWM
  top_hz,        \* hardware: the frequency that div and top give (0: never set)
  enabled,       \* hardware: the slice runs
  level_by       \* hardware: the pin for which each channel's level was set last

vars == <<state, channel_pins, hz, n_active, function, top_hz, enabled, level_by>>

TypeOK ==
  /\ state \in [Gpio -> {"FREE", "IN", "OUT", "PWM"}]
  /\ channel_pins \in [Channel -> Gpio \cup {NoPin}]
  /\ hz \in Hz \cup {0} /\ top_hz \in Hz \cup {0}
  /\ n_active \in 0..2
  /\ function \subseteq Gpio
  /\ enabled \in BOOLEAN
  /\ level_by \in [Channel -> Gpio \cup {NoPin}]

Init ==
  /\ state = [g \in Gpio |-> "FREE"]
  /\ channel_pins = [c \in Channel |-> NoPin]
  /\ hz = 0 /\ n_active = 0
  /\ function = {} /\ top_hz = 0 /\ enabled = FALSE
  /\ level_by = [c \in Channel |-> NoPin]

Owns(gpio) == channel_pins[channel(gpio)] = gpio

-----------------------------------------------------------------------------
(* Plain input and output.                                                  *)

\* Another state fails the assertion of line 48 or 56.
pi_gpio_get(gpio) ==
  /\ state[gpio] \in {"FREE", "IN"}
  /\ state' = [state EXCEPT ![gpio] = "IN"]
  /\ UNCHANGED <<channel_pins, hz, n_active, function, top_hz, enabled, level_by>>

pi_gpio_set(gpio) ==
  /\ state[gpio] \in {"FREE", "OUT"}
  /\ state' = [state EXCEPT ![gpio] = "OUT"]
  /\ UNCHANGED <<channel_pins, hz, n_active, function, top_hz, enabled, level_by>>

\* Whatever the pin was; gpio_init() takes it from the PWM, the slice does not
\* hear of it.
pi_gpio_set_direction(gpio, mode) ==
  /\ state' = [state EXCEPT ![gpio] = mode]
  /\ function' = function \ {gpio}
  /\ UNCHANGED <<channel_pins, hz, n_active, top_hz, enabled, level_by>>

-----------------------------------------------------------------------------
(* PWM                                                                      *)

CanEnable(gpio, new_hz) ==
  /\ channel_pins[channel(gpio)] = NoPin
  /\ n_active > 0 => hz = new_hz

\* Mutant: any frequency is taken for a slice in use.
Enable_anyfreq(gpio, new_hz) ==
  /\ channel_pins[channel(gpio)] = NoPin
  /\ function' = function \cup {gpio}
  /\ hz' = new_hz
  /\ top_hz' = IF n_active = 0 /\ new_hz \notin BadHz THEN new_hz ELSE top_hz
  /\ n_active' = n_active + 1
  /\ channel_pins' = [channel_pins EXCEPT ![channel(gpio)] = gpio]

\* The result of set_pwm_freq() is ignored.
Enable(gpio, new_hz) ==
  /\ CanEnable(gpio, new_hz)
  /\ function' = function \cup {gpio}
  /\ hz' = new_hz
  /\ top_hz' = IF n_active = 0 /\ new_hz \notin BadHz THEN new_hz ELSE top_hz
  /\ n_active' = n_active + 1
  /\ channel_pins' = [channel_pins EXCEPT ![channel(gpio)] = gpio]

pi_gpio_pwm_enable(gpio, new_hz) ==
  /\ Enable(gpio, new_hz)
  /\ UNCHANGED <<state, enabled, level_by>>

\* The pin is FREE again only when it was the last of its slice.
pi_gpio_pwm_disable(gpio) ==
  /\ Owns(gpio)
  /\ channel_pins' = [channel_pins EXCEPT ![channel(gpio)] = NoPin]
  /\ n_active' = n_active - 1
  /\ IF n_active = 1
       THEN state' = [state EXCEPT ![gpio] = "FREE"] /\ enabled' = FALSE
       ELSE UNCHANGED <<state, enabled>>
  /\ UNCHANGED <<hz, function, top_hz, level_by>>

SetDuty(gpio) ==
  /\ level_by' = [level_by EXCEPT ![channel(gpio)] = gpio]
  /\ enabled' = TRUE

pi_gpio_pwm_set_duty(gpio) ==
  /\ Owns(gpio)
  /\ SetDuty(gpio)
  /\ UNCHANGED <<state, channel_pins, hz, n_active, function, top_hz>>

\* A free pin is enabled first.
pi_gpio_servo(gpio) ==
  /\ \/ /\ state[gpio] = "FREE" /\ Enable(gpio, ServoHz)
        /\ state' = [state EXCEPT ![gpio] = "PWM"]
     \/ /\ state[gpio] = "PWM"
        /\ UNCHANGED <<state, channel_pins, hz, n_active, function, top_hz>>
  /\ SetDuty(gpio)

Next ==
  \E gpio \in Gpio :
    \/ pi_gpio_get(gpio) \/ pi_gpio_set(gpio)
    \/ \E mode \in {"IN", "OUT"} : pi_gpio_set_direction(gpio, mode)
    \/ \E new_hz \in Hz : pi_gpio_pwm_enable(gpio, new_hz)
    \/ pi_gpio_pwm_disable(gpio) \/ pi_gpio_pwm_set_duty(gpio) \/ pi_gpio_servo(gpio)

Spec == Init /\ [][Next]_vars

-----------------------------------------------------------------------------
(* Properties.                                                              *)

StaleServo(gpio) == state[gpio] = "PWM" /\ ~Owns(gpio)

\* The slice counts its pins rightly through every order of enabling, servos
\* and disabling, and runs at the frequency that all of them asked for, unless
\* that frequency was refused.
SliceServesItsPins ==
  /\ n_active = Cardinality({c \in Channel : channel_pins[c] # NoPin})
  /\ n_active > 0 /\ hz \notin BadHz => top_hz = hz

\* The level of a claimed channel was set last for the pin that claims it, or
\* for nobody since: only a servo whose disabling left it in state PWM sets the
\* level of a channel that has become another's.
OnlyStaleServosIntrude ==
  [][\A gpio \in Gpio :
       level_by'[channel(gpio)] = gpio /\ level_by[channel(gpio)] # gpio
         => channel_pins'[channel(gpio)] = gpio \/ StaleServo(gpio)]_vars

=============================================================================
