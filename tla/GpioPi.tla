-------------------------------- MODULE GpioPi --------------------------------
(***************************************************************************)
(* core/pi/pi-gpio-pi.c: the thread that turns the edge events of a line   *)
(* into calls of a handler, one for each burst of events, and              *)
(* pi_gpio_set_irq_handler(), which replaces the handler and its argument  *)
(* while the thread runs.  The line belongs to the kernel: it queues an    *)
(* event per edge, up to MaxEvents here.  A read that fails is made again, *)
(* and is left out.                                                        *)
(***************************************************************************)
EXTENDS Naturals, Sequences

CONSTANTS MaxEvents, Handler   \* handlers are numbers; 0: none yet

VARIABLES
  line,          \* the level of the line
  events,        \* the kernel's queue of event types
  irq_active, irq_f, irq_arg,  \* gpios[].irq_handler; the arg of handler h is h
  irq_thread,    \* "none", "read", "drain", "call_arg": f is loaded, "handler"
  event,         \* the event read last
  called,        \* <<f, arg, type>> of the last call
  setter         \* "out", or the handler whose arg is still to be stored

vars == <<line, events, irq_active, irq_f, irq_arg, irq_thread, event, called, setter>>

Type == {"RISING", "FALLING"}

TypeOK ==
  /\ line \in BOOLEAN
  /\ events \in Seq(Type) /\ Len(events) <= MaxEvents
  /\ irq_active \in BOOLEAN
  /\ irq_f \in Handler \cup {0} /\ irq_arg \in Handler \cup {0}
  /\ irq_thread \in {"none", "read", "drain", "call_arg"}
  /\ event \in Type
  /\ called \in (Handler \cup {0}) \X (Handler \cup {0}) \X Type
  /\ setter \in Handler \cup {0}

Init ==
  /\ line = FALSE /\ events = <<>>
  /\ irq_active = FALSE /\ irq_f = 0 /\ irq_arg = 0
  /\ irq_thread = "none"
  /\ event = "FALLING" /\ called = <<0, 0, "FALLING">>
  /\ setter = 0

\* Before the events are requested the kernel keeps none.
Edge ==
  /\ Len(events) < MaxEvents
  /\ line' = ~line
  /\ events' = IF irq_active THEN Append(events, IF line THEN "FALLING" ELSE "RISING") ELSE events
  /\ UNCHANGED <<irq_active, irq_f, irq_arg, irq_thread, event, called, setter>>

-----------------------------------------------------------------------------
(* irq_handler_main()                                                       *)

Read ==
  /\ irq_thread = "read" /\ events # <<>>
  /\ event' = Head(events) /\ events' = Tail(events)
  /\ irq_thread' = "drain"
  /\ UNCHANGED <<line, irq_active, irq_f, irq_arg, called, setter>>

\* Mutant: the first event of a burst is the one that is reported.
DrainOne_first ==
  /\ irq_thread = "drain" /\ events # <<>>
  /\ events' = Tail(events)
  /\ UNCHANGED <<line, irq_active, irq_f, irq_arg, irq_thread, event, called, setter>>

\* Another event within a microsecond.
DrainOne ==
  /\ irq_thread = "drain" /\ events # <<>>
  /\ event' = Head(events) /\ events' = Tail(events)
  /\ UNCHANGED <<line, irq_active, irq_f, irq_arg, irq_thread, called, setter>>

\* A microsecond has passed without one; f is loaded, then arg.
LoadHandler ==
  /\ irq_thread = "drain" /\ events = <<>>
  /\ called' = <<irq_f, called[2], event>>
  /\ irq_thread' = "call_arg"
  /\ UNCHANGED <<line, events, irq_active, irq_f, irq_arg, event, setter>>

CallHandler ==
  /\ irq_thread = "call_arg"
  /\ called' = [called EXCEPT ![2] = irq_arg]
  /\ irq_thread' = "read"
  /\ UNCHANGED <<line, events, irq_active, irq_f, irq_arg, event, setter>>

-----------------------------------------------------------------------------
(* pi_gpio_set_irq_handler()                                                *)

\* The first time, before there is a thread.
FirstHandler(h) ==
  /\ ~irq_active
  /\ irq_f' = h /\ irq_arg' = h
  /\ irq_active' = TRUE
  /\ irq_thread' = "read"
  /\ UNCHANGED <<line, events, event, called, setter>>

SetF(h) ==
  /\ irq_active /\ setter = 0
  /\ irq_f' = h
  /\ setter' = h
  /\ UNCHANGED <<line, events, irq_active, irq_arg, irq_thread, event, called>>

SetArg ==
  /\ setter # 0
  /\ irq_arg' = setter
  /\ setter' = 0
  /\ UNCHANGED <<line, events, irq_active, irq_f, irq_thread, event, called>>

Next ==
  \/ Edge \/ Read \/ DrainOne \/ LoadHandler \/ CallHandler
  \/ \E h \in Handler : FirstHandler(h) \/ SetF(h)
  \/ SetArg

Spec == Init /\ [][Next]_vars

-----------------------------------------------------------------------------
(* Properties.                                                              *)

\* When the queue is empty and the thread waits for the next event, the handler
\* has been told of the edge that led to the present level, however many edges
\* the burst had.
LastEdgeIsReported ==
  /\ irq_active /\ events = <<>> /\ irq_thread = "read" /\ called[1] # 0
       => called[3] = IF line THEN "RISING" ELSE "FALLING"
  /\ events = <<>> /\ irq_thread \in {"drain", "call_arg"}
       => event = IF line THEN "RISING" ELSE "FALLING"

\* A handler gets an argument that is not its own only when the handler is
\* being replaced at that moment.
HandlerGetsItsArg ==
  [][CallHandler /\ setter = 0 /\ irq_f = called[1] => called'[1] = called'[2]]_vars

=============================================================================
