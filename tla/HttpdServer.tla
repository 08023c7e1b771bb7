----------------------------- MODULE HttpdServer -----------------------------
(***************************************************************************)
(* net/httpd-server.cpp: the event loop (HttpdServer::main and its         *)
(* mongoose callback), the background loader thread (HttpdResponseLoader)  *)
(* and the connection object they share (HttpdConnection).                 *)
(*                                                                         *)
(* The body of a response is a sequence of buffer-sized blocks.  One block *)
(* at a time is read by the loader into the connection's buffer and handed *)
(* to mongoose by the event loop.  Mongoose itself is external: what it    *)
(* does to a connection is modelled from how the code uses it.             *)
(***************************************************************************)
EXTENDS Naturals, Sequences, FiniteSets

LOCAL INSTANCE TLC

CONSTANTS Conn,       \* the connections
          NoConn,     \* no connection
          Watched,    \* the connections whose progress is asked for
          MaxBlocks,  \* bound: the longest body, in blocks
          MaxReplies  \* bound: what is in the send buffer when a reply is added at once

ASSUME NoConnAssumption == NoConn \notin Conn
ASSUME WatchedAssumption == Watched \subseteq Conn
ASSUME MaxBlocksAssumption == MaxBlocks \in Nat
ASSUME MaxRepliesAssumption == MaxReplies \in Nat

\* For TLC: the connections can be exchanged, unless one is watched.
Perms == Permutations(Conn)

VARIABLES
  link,         \* mongoose: "closed", "open", "closing" (c->is_closing)
  is_resp,      \* mongoose: c->is_resp, a request is being answered
  send,         \* mongoose: c->send.len in units of the buffer size
  wakeups,      \* mongoose: connections with an undelivered mg_wakeup
  connections,  \* connections[c->id] # NULL
  response,     \* HttpdConnection::response
  n,            \* HttpdConnection::n, as the number of the buffered block; 0: empty
  enqueue_is_active,
  waiting,      \* HttpdResponseLoader::waiting
  loader,       \* the loader thread
  httpd,        \* the event loop thread
  sent          \* history: blocks of the current response given to mongoose

connVars == <<response, n, enqueue_is_active>>
mgVars   == <<link, is_resp, send, wakeups>>
vars     == <<mgVars, connVars, connections, waiting, loader, httpd, sent>>

-----------------------------------------------------------------------------
(* Responses.  FileBuffer::is_eof is feof(): it turns true on the read that *)
(* comes up short, so a body that fills its last block exactly is at eof    *)
(* only after one more read, which returns nothing.                         *)

NoResponse == [blocks |-> 0, partial |-> FALSE, at |-> 0, null |-> TRUE]
Response == [blocks : 0..MaxBlocks, partial : BOOLEAN, at : 0..(MaxBlocks + 1), null : {FALSE}]

\* The responses a handler can return: partial means the last block is short.
NewResponses == {r \in Response : r.at = 0 /\ (r.partial => r.blocks > 0)}

\* Mutant: the end of file is reported one block early.
is_eof_early(r) == r.at + 1 >= r.blocks

is_eof(r) == IF r.partial THEN r.at >= r.blocks ELSE r.at > r.blocks

\* Mutant: the read does not stop at the end of the body.
ReadResult_overrun(r) == r.at + 1

\* response->read(): the number of the block that was read, 0 at the end.
ReadResult(r) == IF r.at < r.blocks THEN r.at + 1 ELSE 0
AfterRead(r) == [r EXCEPT !.at = IF @ <= r.blocks THEN @ + 1 ELSE @]

-----------------------------------------------------------------------------
LoaderStates == {"idle", "read", "store", "wakeup"}
HttpdStates == {"poll", "new_response", "destroy", "tail", "sending"}

TypeOK ==
  /\ link \in [Conn -> {"closed", "open", "closing"}]
  /\ is_resp \in [Conn -> BOOLEAN]
  /\ send \in [Conn -> Nat]
  /\ wakeups \subseteq Conn
  /\ connections \in [Conn -> BOOLEAN]
  /\ response \in [Conn -> Response \cup {NoResponse}]
  /\ n \in [Conn -> 0..MaxBlocks]
  /\ enqueue_is_active \in [Conn -> BOOLEAN]
  /\ waiting \in Seq(Conn)
  /\ loader \in [pc : LoaderStates, conn : Conn \cup {NoConn}, n_read : 0..MaxBlocks]
  /\ httpd \in [pc : HttpdStates, conn : Conn \cup {NoConn},
                response : Response \cup {NoResponse}]
  /\ sent \in [Conn -> 0..MaxBlocks]

Init ==
  /\ link = [c \in Conn |-> "closed"]
  /\ is_resp = [c \in Conn |-> FALSE]
  /\ send = [c \in Conn |-> 0]
  /\ wakeups = {}
  /\ connections = [c \in Conn |-> FALSE]
  /\ response = [c \in Conn |-> NoResponse]
  /\ n = [c \in Conn |-> 0]
  /\ enqueue_is_active = [c \in Conn |-> FALSE]
  /\ waiting = <<>>
  /\ loader = [pc |-> "idle", conn |-> NoConn, n_read |-> 0]
  /\ httpd = [pc |-> "poll", conn |-> NoConn, response |-> NoResponse]
  /\ sent = [c \in Conn |-> 0]

Polling == httpd.pc = "poll"
At(c, pc) == httpd.pc = pc /\ httpd.conn = c
Goto(pc, c) == httpd' = [pc |-> pc, conn |-> c, response |-> NoResponse]
BackToPoll == Goto("poll", NoConn)

-----------------------------------------------------------------------------
(* Mongoose: what happens to a connection between two callbacks.            *)

Accept(c) ==
  /\ Polling /\ link[c] = "closed"
  /\ link' = [link EXCEPT ![c] = "open"]
  /\ send' = [send EXCEPT ![c] = 0]
  /\ is_resp' = [is_resp EXCEPT ![c] = FALSE]
  /\ UNCHANGED <<wakeups, connections, connVars, waiting, loader, httpd, sent>>

\* The peer goes away or the socket fails.
PeerCloses(c) ==
  /\ Polling /\ link[c] = "open"
  /\ link' = [link EXCEPT ![c] = "closing"]
  /\ UNCHANGED <<is_resp, send, wakeups, connections, connVars, waiting, loader, httpd, sent>>

\* The socket takes what is buffered; the peer may be slow.
Drain(c) ==
  /\ Polling /\ link[c] = "open" /\ send[c] > 0
  /\ send' = [send EXCEPT ![c] = @ - 1]
  /\ UNCHANGED <<link, is_resp, wakeups, connections, connVars, waiting, loader, httpd, sent>>

-----------------------------------------------------------------------------
(* mongoose_callback.  Every event but CLOSE ends in send_if_possible.      *)

EndOfCallback(c) == IF connections'[c] THEN Goto("tail", c) ELSE BackToPoll

\* MG_EV_HTTP_MSG whose reply is complete at once: no handler (404) or a
\* response with raw data.  Mongoose delivers a request only when the
\* previous one is answered, i.e. when is_resp is clear.
MsgImmediate(c) ==
  /\ Polling /\ link[c] = "open" /\ ~is_resp[c]
  /\ send[c] < MaxReplies
  /\ send' = [send EXCEPT ![c] = @ + 1]
  /\ UNCHANGED <<link, is_resp, wakeups, connections, connVars, waiting, loader, sent>>
  /\ EndOfCallback(c)

\* MG_EV_HTTP_MSG for a streamed body: create the connection object when
\* there is none and enter new_response().
MsgStream(c, r) ==
  /\ Polling /\ link[c] = "open" /\ ~is_resp[c]
  /\ is_resp' = [is_resp EXCEPT ![c] = TRUE]
  /\ connections' = [connections EXCEPT ![c] = TRUE]
  /\ IF connections[c] THEN UNCHANGED connVars
     ELSE /\ response' = [response EXCEPT ![c] = NoResponse]
          /\ n' = [n EXCEPT ![c] = 0]
          /\ enqueue_is_active' = [enqueue_is_active EXCEPT ![c] = FALSE]
  /\ httpd' = [pc |-> "new_response", conn |-> c, response |-> r]
  /\ UNCHANGED <<link, send, wakeups, waiting, loader, sent>>

\* wait_for_no_enqueues() is over: install the response and enqueue its
\* first read.
new_response(c) ==
  /\ At(c, "new_response") /\ ~enqueue_is_active[c]
  /\ response' = [response EXCEPT ![c] = httpd.response]
  /\ enqueue_is_active' = [enqueue_is_active EXCEPT ![c] = TRUE]
  /\ waiting' = Append(waiting, c)
  /\ sent' = [sent EXCEPT ![c] = 0]
  /\ Goto("tail", c)
  /\ UNCHANGED <<mgVars, connections, n, loader>>

\* MG_EV_CLOSE: the delete enters the destructor.
Close(c) ==
  /\ Polling /\ link[c] = "closing"
  /\ link' = [link EXCEPT ![c] = "closed"]
  /\ wakeups' = wakeups \ {c}
  /\ IF connections[c] THEN Goto("destroy", c) ELSE BackToPoll
  /\ UNCHANGED <<is_resp, send, connections, connVars, waiting, loader, sent>>

\* Mutant: the destructor does not wait for the loader.
Destroy_nowait(c) ==
  /\ At(c, "destroy")
  /\ connections' = [connections EXCEPT ![c] = FALSE]
  /\ response' = [response EXCEPT ![c] = NoResponse]
  /\ n' = [n EXCEPT ![c] = 0]
  /\ BackToPoll
  /\ UNCHANGED <<mgVars, enqueue_is_active, waiting, loader, sent>>

\* ~HttpdConnection once wait_for_no_enqueues() returns, and the erase.
Destroy(c) ==
  /\ At(c, "destroy") /\ ~enqueue_is_active[c]
  /\ connections' = [connections EXCEPT ![c] = FALSE]
  /\ response' = [response EXCEPT ![c] = NoResponse]
  /\ n' = [n EXCEPT ![c] = 0]
  /\ BackToPoll
  /\ UNCHANGED <<mgVars, enqueue_is_active, waiting, loader, sent>>

\* MG_EV_WAKEUP for an mg_wakeup() of the loader.
Wakeup(c) ==
  /\ Polling /\ c \in wakeups /\ link[c] # "closed"
  /\ wakeups' = wakeups \ {c}
  /\ UNCHANGED <<link, is_resp, send, connections, connVars, waiting, loader, sent>>
  /\ EndOfCallback(c)

\* Mutant: MG_EV_POLL does not reach send_if_possible.
Poll_ignored(c) ==
  /\ Polling /\ link[c] # "closed" /\ connections[c]
  /\ UNCHANGED vars

\* MG_EV_POLL, at least every 10 s, and the other events that only fall
\* through to send_if_possible.
Poll(c) ==
  /\ Polling /\ link[c] # "closed" /\ connections[c]
  /\ Goto("tail", c)
  /\ UNCHANGED <<mgVars, connVars, connections, waiting, loader, sent>>

-----------------------------------------------------------------------------
(* send_if_possible.  The lock is dropped around mg_send.                   *)

CanSend(c) == send[c] < 2 /\ n[c] > 0 /\ link[c] = "open"

SendNothing(c) ==
  /\ At(c, "tail") /\ ~CanSend(c)
  /\ BackToPoll
  /\ UNCHANGED <<mgVars, connVars, connections, waiting, loader, sent>>

\* mg_send() appends the buffer to the connection's output.
MgSend(c) ==
  /\ At(c, "tail") /\ CanSend(c)
  /\ send' = [send EXCEPT ![c] = @ + 1]
  /\ sent' = [sent EXCEPT ![c] = n[c]]
  /\ Goto("sending", c)
  /\ UNCHANGED <<link, is_resp, wakeups, connVars, connections, waiting, loader>>

\* mg_send() fails: the response is dropped (and leaked).
MgSendFails(c) ==
  /\ At(c, "tail") /\ CanSend(c)
  /\ n' = [n EXCEPT ![c] = 0]
  /\ is_resp' = [is_resp EXCEPT ![c] = FALSE]
  /\ response' = [response EXCEPT ![c] = NoResponse]
  /\ BackToPoll
  /\ UNCHANGED <<link, send, wakeups, enqueue_is_active, connections, waiting, loader, sent>>

\* Mutants: the finished response is not cleared; the next read is flagged and never queued.
AfterSend_keeps_response(c) ==
  /\ At(c, "sending")
  /\ n' = [n EXCEPT ![c] = 0]
  /\ IF is_eof(response[c])
     THEN /\ is_resp' = [is_resp EXCEPT ![c] = FALSE]
          /\ UNCHANGED <<enqueue_is_active, waiting>>
     ELSE /\ enqueue_is_active' = [enqueue_is_active EXCEPT ![c] = TRUE]
          /\ waiting' = Append(waiting, c)
          /\ UNCHANGED is_resp
  /\ BackToPoll
  /\ UNCHANGED <<link, send, wakeups, response, connections, loader, sent>>

AfterSend_not_queued(c) ==
  /\ At(c, "sending")
  /\ n' = [n EXCEPT ![c] = 0]
  /\ IF is_eof(response[c])
     THEN /\ is_resp' = [is_resp EXCEPT ![c] = FALSE]
          /\ response' = [response EXCEPT ![c] = NoResponse]
          /\ UNCHANGED enqueue_is_active
     ELSE /\ enqueue_is_active' = [enqueue_is_active EXCEPT ![c] = TRUE]
          /\ UNCHANGED <<is_resp, response>>
  /\ BackToPoll
  /\ UNCHANGED <<link, send, wakeups, waiting, connections, loader, sent>>

\* After a successful mg_send(): finish the response or ask for more.
AfterSend(c) ==
  /\ At(c, "sending")
  /\ n' = [n EXCEPT ![c] = 0]
  /\ IF is_eof(response[c])
     THEN /\ is_resp' = [is_resp EXCEPT ![c] = FALSE]
          /\ response' = [response EXCEPT ![c] = NoResponse]
          /\ UNCHANGED <<enqueue_is_active, waiting>>
     ELSE /\ enqueue_is_active' = [enqueue_is_active EXCEPT ![c] = TRUE]
          /\ waiting' = Append(waiting, c)
          /\ UNCHANGED <<is_resp, response>>
  /\ BackToPoll
  /\ UNCHANGED <<link, send, wakeups, connections, loader, sent>>

-----------------------------------------------------------------------------
(* HttpdResponseLoader::main and HttpdConnection::read.                     *)

LoaderPop ==
  /\ loader.pc = "idle" /\ waiting # <<>>
  /\ loader' = [pc |-> "read", conn |-> Head(waiting), n_read |-> 0]
  /\ waiting' = Tail(waiting)
  /\ UNCHANGED <<mgVars, connVars, connections, httpd, sent>>

LoaderRead ==
  LET c == loader.conn IN
  /\ loader.pc = "read"
  /\ response' = [response EXCEPT ![c] = AfterRead(@)]
  /\ loader' = [loader EXCEPT !.pc = "store", !.n_read = ReadResult(response[c])]
  /\ UNCHANGED <<mgVars, n, enqueue_is_active, connections, waiting, httpd, sent>>

LoaderStore ==
  LET c == loader.conn IN
  /\ loader.pc = "store"
  /\ n' = [n EXCEPT ![c] = loader.n_read]
  /\ enqueue_is_active' = [enqueue_is_active EXCEPT ![c] = FALSE]
  /\ loader' = [loader EXCEPT !.pc = "wakeup", !.n_read = 0]
  /\ UNCHANGED <<mgVars, response, connections, waiting, httpd, sent>>

\* httpd->wakeup(this) may fail.  It reads the id out of the connection,
\* which the event loop may have destroyed by now: then the id is whatever
\* the freed memory holds.
LoaderWakeup ==
  /\ loader.pc = "wakeup"
  /\ \/ UNCHANGED wakeups
     \/ \E id \in IF connections[loader.conn] THEN {loader.conn} ELSE Conn :
           wakeups' = IF link[id] = "closed" THEN wakeups ELSE wakeups \cup {id}
  /\ loader' = [pc |-> "idle", conn |-> NoConn, n_read |-> 0]
  /\ UNCHANGED <<link, is_resp, send, connVars, connections, waiting, httpd, sent>>

-----------------------------------------------------------------------------
Loader == LoaderPop \/ LoaderRead \/ LoaderStore \/ LoaderWakeup
Callback(c) ==
  \/ new_response(c) \/ Destroy(c)
  \/ SendNothing(c) \/ MgSend(c) \/ MgSendFails(c) \/ AfterSend(c)
Event(c) ==
  \/ MsgImmediate(c) \/ (\E r \in NewResponses : MsgStream(c, r))
  \/ Close(c) \/ Wakeup(c) \/ Poll(c)
Network(c) == Accept(c) \/ PeerCloses(c) \/ Drain(c)

Next == Loader \/ \E c \in Conn : Callback(c) \/ Event(c) \/ Network(c)

Spec == Init /\ [][Next]_vars

\* Fairness: both threads run; every mg_mgr_poll() raises MG_EV_POLL on every
\* connection and notices a closed socket however many other events there
\* are; a peer that stays connected takes its data.  Only the connections in
\* Watched need such a peer: the others may do what they like.
FairSpec ==
  /\ Spec
  /\ WF_vars(Loader)
  /\ WF_vars(\E c \in Conn : Callback(c))
  /\ \A c \in Watched : SF_vars(Poll(c)) /\ SF_vars(Close(c)) /\ SF_vars(Drain(c))

-----------------------------------------------------------------------------
(* Properties.                                                              *)

\* Connections the loader still owes a read, as the shared flag says.
Reading == loader.pc \in {"read", "store"}
Queued(c) == \E i \in 1..Len(waiting) : waiting[i] = c

\* The asserts of the code.  HttpdConnection::read (httpd-server.cpp:83-84):
\* when the loader gets to a connection its buffer is empty and it has a
\* response.  new_response (line 74): the previous response is gone when a new
\* one is installed.  send_if_possible (line 126): a block being sent leaves its
\* response in place and no read of it in flight.
AssertsHold ==
  /\ loader.pc = "read" => n[loader.conn] = 0 /\ response[loader.conn] # NoResponse
  /\ \A c \in Conn :
       /\ At(c, "new_response") => response[c] = NoResponse
       /\ At(c, "sending") => response[c] # NoResponse /\ ~enqueue_is_active[c]

\* The flag the destructor waits on covers every use the loader makes of a
\* connection's buffer and response: while it reads or stores, or has the
\* connection queued, the object is there, is queued once, and the flag is set.
LoaderNeverReadsDestroyed ==
  /\ Reading => connections[loader.conn] /\ enqueue_is_active[loader.conn]
                /\ ~Queued(loader.conn)
  /\ \A i, j \in 1..Len(waiting) :
       /\ connections[waiting[i]] /\ enqueue_is_active[waiting[i]]
       /\ waiting[i] = waiting[j] => i = j

\* The flag is set only while the loader owes a read, so that the destructor and
\* new_response(), which block the event loop of every connection until it is
\* clear, come back.  No response is forgotten between the two threads: it has a
\* read under way or a block to send, unless it is a body that filled its last
\* block exactly and whose end was then found by an empty read.
ResponseInProgress ==
  \A c \in Conn :
    /\ enqueue_is_active[c] => Queued(c) \/ (Reading /\ loader.conn = c)
    /\ response[c] # NoResponse /\ ~At(c, "sending") =>
         \/ enqueue_is_active[c]
         \/ n[c] > 0
         \/ ~response[c].partial /\ response[c].at > response[c].blocks

\* Action property: a connection's output is the blocks of one response, each
\* once and in order, and a new body starts only after the old one; while the
\* link is open a request counts as answered (is_resp is cleared) only after the
\* last block, unless mg_send failed.
AnswersAreWhole ==
  [][\A c \in Conn :
       /\ \/ sent'[c] = sent[c] /\ ~(At(c, "tail") /\ httpd'.pc = "sending")
          \/ sent'[c] = sent[c] + 1 /\ sent'[c] <= response[c].blocks
          \/ sent'[c] = 0 /\ response[c] = NoResponse
       /\ is_resp[c] /\ ~is_resp'[c] /\ link[c] = "open" /\ At(c, "sending")
            => sent[c] = response[c].blocks]_vars

\* Liveness: a body with a partial last block is finished or its connection
\* closes, although mg_wakeup may fail every time (the poll timer covers it).
PartialBodiesFinish ==
  \A c \in Watched :
    (response[c] # NoResponse /\ response[c].partial) ~> response[c] = NoResponse

=============================================================================
