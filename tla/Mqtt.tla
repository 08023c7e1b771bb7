---------------------------------- MODULE Mqtt ----------------------------------
(***************************************************************************)
(* net/mqtt.cpp: an MQTT client.  Threads publish messages; the event loop *)
(* of the MQTT thread sends them, and connects again every 3 s while there *)
(* is no connection.                                                       *)
(*                                                                         *)
(* A message is handed over as an action, which mg_wakeup() carries to the *)
(* event loop together with the id of a connection.  publish() reads       *)
(* state->connection twice, without a lock (85, 89), and keeps the         *)
(* caller's pointers: alert() passes one to its own stack.                 *)
(***************************************************************************)
EXTENDS Naturals

CONSTANTS
  Message,    \* one for each call of publish() or alert()
  Alert,      \* a subset of them: those of alert(); the strings of the others are never freed
  MaxId       \* bound on the connections made

NULL == 0  \* no mg_connection; the others are their ids, 1, 2, ...

VARIABLES
  mq_connection,  \* state->connection
  mq_open,        \* mongoose: the connections it has not closed
  last_id,        \* mongoose: the last id given
  message,        \* where each message is
  tested,         \* the connection that publish() found at line 85
  to,             \* the id that the action carries, or NULL for whatever was read as one
  acted_on,       \* the connections that each message was sent over
  text,           \* the strings of each message still exist
  garbled         \* history: messages sent after their strings were gone

conn == <<mq_connection, mq_open, last_id>>
mqttVars == <<conn, message, tested, to, acted_on, text, garbled>>

TypeOK ==
  /\ mq_connection \in 0..MaxId /\ last_id \in 0..MaxId
  /\ mq_open \subseteq 1..last_id
  /\ message \in [Message -> {"new", "tested", "wakeup", "deleted", "refused", "leaked"}]
  /\ tested \in [Message -> 0..MaxId]
  /\ to \in [Message -> 0..MaxId]
  /\ acted_on \in [Message -> SUBSET (1..MaxId)]
  /\ text \in [Message -> BOOLEAN] /\ garbled \subseteq Message

Init ==
  /\ mq_connection = NULL /\ mq_open = {} /\ last_id = 0
  /\ message = [m \in Message |-> "new"]
  /\ tested = [m \in Message |-> NULL] /\ to = [m \in Message |-> NULL]
  /\ acted_on = [m \in Message |-> {}]
  /\ text = [m \in Message |-> TRUE] /\ garbled = {}

-----------------------------------------------------------------------------
(* publish() and alert(), in any thread                                     *)

Test(m) ==
  /\ message[m] = "new"
  /\ message' = [message EXCEPT ![m] = IF mq_connection = NULL THEN "refused" ELSE "tested"]
  /\ tested' = [tested EXCEPT ![m] = mq_connection]
  /\ UNCHANGED <<conn, to, acted_on, text, garbled>>

\* state->connection->id is read again: it may be another connection's by now,
\* or whatever is found through a NULL or a freed pointer.  mg_wakeup() may
\* fail, and the action is then leaked.
Wakeup(m) ==
  /\ message[m] = "tested"
  /\ to' = [to EXCEPT ![m] = IF mq_connection \in mq_open THEN mq_connection ELSE NULL]
  /\ message' \in {[message EXCEPT ![m] = "wakeup"], [message EXCEPT ![m] = "leaked"]}
  /\ UNCHANGED <<conn, tested, acted_on, text, garbled>>

\* alert() returns, and full_topic goes with its frame.
AlertReturns(m) ==
  /\ m \in Alert /\ text[m]
  /\ message[m] \notin {"new", "tested"}
  /\ text' = [text EXCEPT ![m] = FALSE]
  /\ UNCHANGED <<conn, message, tested, to, acted_on, garbled>>

-----------------------------------------------------------------------------
(* The event loop                                                           *)

\* Mutant: without the test, a second connection is made beside the first.
Reconnect_always ==
  /\ last_id < MaxId
  /\ last_id' = last_id + 1
  /\ mq_connection' = last_id' /\ mq_open' = mq_open \cup {last_id'}
  /\ UNCHANGED <<message, tested, to, acted_on, text, garbled>>

\* The timer of 3 s.  (A call that fails leaves all as it is, until the next.)
Reconnect ==
  /\ mq_connection = NULL
  /\ last_id < MaxId
  /\ last_id' = last_id + 1
  /\ mq_connection' = last_id' /\ mq_open' = mq_open \cup {last_id'}
  /\ UNCHANGED <<message, tested, to, acted_on, text, garbled>>

\* MG_EV_CLOSE, also after MG_EV_ERROR: the connection has failed or ended.
Close(c) ==
  /\ c \in mq_open
  /\ mq_open' = mq_open \ {c}
  /\ mq_connection' = NULL
  /\ UNCHANGED <<last_id, message, tested, to, acted_on, text, garbled>>

\* MG_EV_WAKEUP: the action acts on the connection, and is deleted.
Act(m) ==
  /\ message[m] = "wakeup"
  /\ \E c \in mq_open :
       /\ to[m] \in {c, NULL}
       /\ acted_on' = [acted_on EXCEPT ![m] = @ \cup {c}]
  /\ garbled' = IF text[m] THEN garbled ELSE garbled \cup {m}
  /\ message' = [message EXCEPT ![m] = "deleted"]
  /\ UNCHANGED <<conn, tested, to, text>>

\* A wakeup for a connection that mongoose no longer has is dropped, and its
\* action is never deleted.
Drop(m) ==
  /\ message[m] = "wakeup"
  /\ to[m] \notin mq_open
  /\ message' = [message EXCEPT ![m] = "leaked"]
  /\ UNCHANGED <<conn, tested, to, acted_on, text, garbled>>

Next ==
  \/ \E m \in Message : Test(m) \/ Wakeup(m) \/ AlertReturns(m) \/ Act(m) \/ Drop(m)
  \/ Reconnect
  \/ \E c \in mq_open : Close(c)

\* The event loop polls for ever.  It is told of everything, but nothing makes
\* a broker answer: Close() is not fair.
Fairness ==
  /\ WF_mqttVars(Reconnect)
  /\ \A m \in Message : WF_mqttVars(Act(m) \/ Drop(m))

Spec == Init /\ [][Next]_mqttVars /\ Fairness

-----------------------------------------------------------------------------
(* Properties.                                                              *)

\* The client knows the one connection that it has.
OneConnection == mq_open = {mq_connection} \ {NULL}

\* A message goes out over the connection that was there when it was published,
\* or over a later one if that has closed; what is refused is not sent.
SentWhereMeant ==
  \A m \in Message :
    /\ \A c \in acted_on[m] : c = tested[m] \/ tested[m] \notin mq_open
    /\ message[m] = "refused" => acted_on[m] = {}

\* What is sent is what was published, except an alert's topic.
OnlyAlertsAreGarbled == garbled \subseteq Alert

\* While connections can be made, there is one again in the end; and every
\* message has then been sent, refused, or lost with its connection.
Reconnects == mq_connection = NULL ~> mq_connection # NULL \/ last_id = MaxId
MessagesEnd == \A m \in Message : message[m] = "wakeup" ~> message[m] \in {"deleted", "leaked"}

=============================================================================
