----------------------------- MODULE NetworkProofs -----------------------------
(***************************************************************************)
(* Proofs about what speaks over the network: HttpdServer, and, in MCNet,  *)
(* the clients and Bluetooth.                                              *)
(*                                                                         *)
(* HttpdServer, for any number of connections and bodies of any length:    *)
(* the asserts of the code hold and the loader never touches the buffer or *)
(* the response of a connection that is gone.                              *)
(*                                                                         *)
(* The argument: enqueue_is_active covers every connection the loader has  *)
(* (LoaderNeverReadsDestroyed); while it is set the buffer is empty and    *)
(* the response there (ActiveIsEmpty), so the event loop neither sends nor *)
(* finishes anything; while the buffer is full it is clear.  A response    *)
(* keeps is_resp set and the connection alive (ResponseIsOwned), so no     *)
(* second request can reach the connection.                                *)
(*                                                                         *)
(* On top of that, where a body stands (BodyInTurn): the position of the   *)
(* response, the block in the buffer and the blocks sent go up in turn,    *)
(* and a set enqueue_is_active has a read behind it (ReadIsOwed).  So no   *)
(* response is left lying, and answers are whole.                          *)
(*                                                                         *)
(* MCNet, for any messages, users, configurations and phones, and any      *)
(* bounds: what the run `net' checks of every state and of every step.     *)
(* The parts share nothing, so each has an inductive invariant of its own: *)
(* XInv, with XInit (it holds at first) and XStep (every step of the part  *)
(* keeps it).  NetInv, at the end, is their conjunction.  Who waits is     *)
(* answered only under fairness, which is not proved about.                *)
(***************************************************************************)
EXTENDS HttpdServer, MCNet, SequenceTheorems, TLAPS

-----------------------------------------------------------------------------
(* HttpdServer                                                              *)

LoaderHasConn == loader.pc # "idle" => loader.conn \in Conn

ActiveIsEmpty ==
  \A c \in Conn : enqueue_is_active[c] => n[c] = 0 /\ response[c] # NoResponse

FullHasResponse == \A c \in Conn : n[c] > 0 => response[c] # NoResponse

ResponseIsOwned ==
  \A c \in Conn :
    response[c] # NoResponse =>
      /\ connections[c]
      /\ is_resp[c]
      /\ link[c] = "closed" => At(c, "destroy")

\* What the event loop knows while it is inside a callback.
CallbackState ==
  \A c \in Conn :
    /\ At(c, "new_response") =>
         /\ httpd.response \in NewResponses
         /\ response[c] = NoResponse /\ connections[c] /\ is_resp[c] /\ link[c] = "open"
    /\ At(c, "sending") =>
         /\ response[c] # NoResponse /\ n[c] > 0 /\ link[c] = "open"
         /\ n[c] = sent[c]

IInv ==
  /\ TypeOK
  /\ LoaderHasConn
  /\ LoaderNeverReadsDestroyed
  /\ ActiveIsEmpty
  /\ FullHasResponse
  /\ ResponseIsOwned
  /\ CallbackState

-----------------------------------------------------------------------------
(* The loader's queue.                                                      *)

\* Every connection in the queue is one of Conn and has its flag set.
LEMMA QueuedIsActive ==
  ASSUME TypeOK, LoaderNeverReadsDestroyed
  PROVE  \A i \in 1..Len(waiting) :
           waiting[i] \in Conn /\ connections[waiting[i]] /\ enqueue_is_active[waiting[i]]
<1>1. SUFFICES ASSUME NEW i \in 1..Len(waiting)
               PROVE  waiting[i] \in Conn /\ connections[waiting[i]]
                      /\ enqueue_is_active[waiting[i]]
  OBVIOUS
<1>2. waiting[i] \in Conn
  BY <1>1 DEF TypeOK
<1>3. connections[waiting[i]] /\ enqueue_is_active[waiting[i]]
  BY <1>1 DEF LoaderNeverReadsDestroyed
<1>4. QED
  BY <1>2, <1>3

\* Enqueueing a connection the loader does not have.
LEMMA QueuePush ==
  ASSUME TypeOK, LoaderHasConn, LoaderNeverReadsDestroyed, NEW c \in Conn,
         connections[c], ~enqueue_is_active[c],
         waiting' = Append(waiting, c),
         enqueue_is_active' = [enqueue_is_active EXCEPT ![c] = TRUE],
         UNCHANGED <<connections, loader>>
  PROVE  waiting' \in Seq(Conn) /\ LoaderNeverReadsDestroyed'
<1>1. /\ Len(waiting) \in Nat /\ Len(waiting') = Len(waiting) + 1
      /\ waiting'[Len(waiting) + 1] = c
      /\ \A i \in 1..Len(waiting) : waiting'[i] = waiting[i]
      /\ waiting' \in Seq(Conn)
  BY DEF TypeOK
<1>2. \A i \in 1..Len(waiting) :
        /\ waiting[i] \in Conn /\ waiting[i] # c
        /\ connections[waiting[i]] /\ enqueue_is_active[waiting[i]]
  BY QueuedIsActive
<1>3. enqueue_is_active'[c] /\ \A d \in Conn : enqueue_is_active[d] => enqueue_is_active'[d]
  BY DEF TypeOK
<1>4. Reading => connections'[loader.conn] /\ enqueue_is_active'[loader.conn]
                 /\ ~Queued(loader.conn)'
  <2>1. SUFFICES ASSUME Reading
                 PROVE  connections'[loader.conn] /\ enqueue_is_active'[loader.conn]
                        /\ ~Queued(loader.conn)'
    OBVIOUS
  <2>2. /\ loader.conn \in Conn /\ connections[loader.conn]
        /\ enqueue_is_active[loader.conn] /\ ~Queued(loader.conn)
    BY <2>1 DEF LoaderHasConn, LoaderNeverReadsDestroyed, Reading
  <2>3. ~Queued(loader.conn)'
    <3>1. SUFFICES ASSUME NEW i \in 1..Len(waiting'), waiting'[i] = loader.conn
                   PROVE  FALSE
      BY DEF Queued
    <3>2. i \in 1..Len(waiting) \/ i = Len(waiting) + 1
      BY <1>1
    <3>3. QED
      BY <1>1, <2>2, <3>1, <3>2 DEF Queued
  <2>4. QED
    BY <1>3, <2>2, <2>3
<1>5. ASSUME NEW i \in 1..Len(waiting'), NEW j \in 1..Len(waiting')
      PROVE  /\ connections'[waiting'[i]] /\ enqueue_is_active'[waiting'[i]]
             /\ waiting'[i] = waiting'[j] => i = j
  <2>1. /\ i \in 1..Len(waiting) \/ i = Len(waiting) + 1
        /\ j \in 1..Len(waiting) \/ j = Len(waiting) + 1
    BY <1>1
  <2>2. connections'[waiting'[i]] /\ enqueue_is_active'[waiting'[i]]
    BY <1>1, <1>2, <1>3, <2>1
  <2>3. CASE i \in 1..Len(waiting) /\ j \in 1..Len(waiting)
    <3>1. waiting[i] = waiting[j] => i = j
      BY <2>3 DEF LoaderNeverReadsDestroyed
    <3>2. QED
      BY <1>1, <2>2, <2>3, <3>1
  <2>4. CASE i = Len(waiting) + 1 \/ j = Len(waiting) + 1
    BY <1>1, <1>2, <2>1, <2>2, <2>4
  <2>5. QED
    BY <2>1, <2>3, <2>4
<1>6. QED
  BY <1>1, <1>4, <1>5 DEF LoaderNeverReadsDestroyed, Reading

\* The loader takes the front of the queue.
LEMMA QueuePop ==
  ASSUME TypeOK, LoaderNeverReadsDestroyed, LoaderPop
  PROVE  /\ waiting' \in Seq(Conn) /\ loader'.conn \in Conn
         /\ enqueue_is_active[loader'.conn]
         /\ LoaderNeverReadsDestroyed'
<1> USE DEF TypeOK, LoaderNeverReadsDestroyed, LoaderPop
<1>1. /\ Len(waiting) \in Nat /\ Len(waiting) > 0 /\ Len(waiting') = Len(waiting) - 1
      /\ waiting[1] = Head(waiting) /\ waiting[1] \in Conn /\ waiting' \in Seq(Conn)
      /\ \A i \in 1..Len(waiting') : waiting'[i] = waiting[i + 1]
  <2>1. waiting \in Seq(Conn) /\ waiting # <<>> /\ waiting' = Tail(waiting)
    OBVIOUS
  <2> HIDE DEF TypeOK, LoaderNeverReadsDestroyed, LoaderPop
  <2> QED
    BY <2>1
<1>2. loader'.conn = waiting[1]
  BY <1>1
<1>3. UNCHANGED <<connections, enqueue_is_active>>
  BY DEF connVars
<1>4. ~Queued(loader.conn)'
  BY <1>1, <1>2 DEF Queued
<1>5. ASSUME NEW i \in 1..Len(waiting'), NEW j \in 1..Len(waiting')
      PROVE  /\ connections'[waiting'[i]] /\ enqueue_is_active'[waiting'[i]]
             /\ waiting'[i] = waiting'[j] => i = j
  BY <1>1, <1>3
<1>6. QED
  BY <1>1, <1>2, <1>3, <1>4, <1>5

\* A change of flags and objects that spares the connections the loader has.
LEMMA QueueFrame ==
  ASSUME TypeOK, LoaderHasConn, LoaderNeverReadsDestroyed,
         \A c \in Conn : enqueue_is_active[c] /\ connections[c]
                           => enqueue_is_active'[c] /\ connections'[c],
         UNCHANGED <<waiting, loader>>
  PROVE  LoaderNeverReadsDestroyed'
<1>1. \A i \in 1..Len(waiting) : connections'[waiting[i]] /\ enqueue_is_active'[waiting[i]]
  BY QueuedIsActive
<1>2. Reading => loader.conn \in Conn /\ connections'[loader.conn]
                 /\ enqueue_is_active'[loader.conn]
  BY DEF LoaderNeverReadsDestroyed, LoaderHasConn, Reading
<1>3. QED
  BY <1>1, <1>2 DEF LoaderNeverReadsDestroyed, Reading, Queued

-----------------------------------------------------------------------------
(* Responses.                                                               *)

\* A response is not the absence of one, and new ones are responses.
LEMMA ResponseTypes ==
  /\ NoResponse \notin Response
  /\ NewResponses \subseteq Response
BY DEF NewResponses, Response, NoResponse

\* What a read does to a response.
LEMMA ReadTypes ==
  ASSUME NEW r \in Response
  PROVE  ReadResult(r) \in 0..MaxBlocks /\ AfterRead(r) \in Response
<1> USE MaxBlocksAssumption
<1>1. /\ r.blocks \in 0..MaxBlocks /\ r.at \in 0..(MaxBlocks + 1)
      /\ r = [blocks |-> r.blocks, partial |-> r.partial, at |-> r.at, null |-> FALSE]
      /\ r.partial \in BOOLEAN
  BY DEF Response
<1>2. ReadResult(r) \in 0..MaxBlocks
  BY <1>1 DEF ReadResult
<1>3. PICK at \in 0..(MaxBlocks + 1) : AfterRead(r) = [r EXCEPT !.at = at]
  BY <1>1 DEF AfterRead
<1>4. AfterRead(r) \in Response
  BY <1>3 DEF Response
<1>5. QED
  BY <1>2, <1>4

-----------------------------------------------------------------------------
(* The steps.                                                               *)

\* A request for a streamed body.
LEMMA MsgStreamStep ==
  ASSUME IInv, NEW c \in Conn, NEW r \in NewResponses, MsgStream(c, r)
  PROVE  IInv'
<1>1. /\ TypeOK /\ LoaderHasConn /\ LoaderNeverReadsDestroyed /\ ActiveIsEmpty
      /\ FullHasResponse /\ ResponseIsOwned /\ CallbackState
  BY DEF IInv
<1>2. /\ httpd.pc = "poll" /\ link[c] = "open" /\ ~is_resp[c]
      /\ is_resp' = [is_resp EXCEPT ![c] = TRUE]
      /\ connections' = [connections EXCEPT ![c] = TRUE]
      /\ httpd' = [pc |-> "new_response", conn |-> c, response |-> r]
      /\ UNCHANGED <<link, send, wakeups, waiting, loader, sent>>
  BY DEF MsgStream, Polling
<1>3. response[c] = NoResponse
  BY <1>1, <1>2 DEF ResponseIsOwned
<1>4. n[c] = 0 /\ ~enqueue_is_active[c]
  BY <1>1, <1>3 DEF TypeOK, FullHasResponse, ActiveIsEmpty
<1>5. UNCHANGED connVars
  <2>1. CASE connections[c]
    BY <2>1 DEF MsgStream
  <2>2. CASE ~connections[c]
    <3>1. /\ response' = [response EXCEPT ![c] = NoResponse]
          /\ n' = [n EXCEPT ![c] = 0]
          /\ enqueue_is_active' = [enqueue_is_active EXCEPT ![c] = FALSE]
      BY <2>2 DEF MsgStream
    <3>2. response' = response /\ n' = n
      BY <1>1, <1>3, <1>4, <3>1 DEF TypeOK
    <3>3. enqueue_is_active' = enqueue_is_active
      BY <1>1, <1>4, <3>1 DEF TypeOK
    <3>4. QED
      BY <3>2, <3>3 DEF connVars
  <2>3. QED
    BY <2>1, <2>2
<1>6. TypeOK'
  BY <1>1, <1>2, <1>5, ResponseTypes DEF TypeOK, connVars, HttpdStates
<1>7. LoaderHasConn' /\ ActiveIsEmpty' /\ FullHasResponse'
  BY <1>1, <1>2, <1>5 DEF LoaderHasConn, ActiveIsEmpty, FullHasResponse, connVars
<1>8. LoaderNeverReadsDestroyed'
  <2>1. UNCHANGED <<waiting, loader>>
        /\ \A d \in Conn : enqueue_is_active[d] /\ connections[d]
                             => enqueue_is_active'[d] /\ connections'[d]
    BY <1>1, <1>2, <1>5 DEF TypeOK, connVars
  <2>2. QED
    BY <1>1, <2>1, QueueFrame
<1>9. ResponseIsOwned'
  BY <1>1, <1>2, <1>3, <1>5 DEF ResponseIsOwned, TypeOK, connVars, At
<1>10. CallbackState'
  BY <1>1, <1>2, <1>3, <1>5 DEF CallbackState, TypeOK, connVars, At
<1>11. QED
  BY <1>6, <1>7, <1>8, <1>9, <1>10 DEF IInv

\* After a block is sent: the end of the response or the next read.
LEMMA AfterSendStep ==
  ASSUME IInv, NEW c \in Conn, AfterSend(c)
  PROVE  IInv'
<1>1. /\ TypeOK /\ LoaderHasConn /\ LoaderNeverReadsDestroyed /\ ActiveIsEmpty
      /\ FullHasResponse /\ ResponseIsOwned /\ CallbackState
  BY DEF IInv
<1>2. /\ httpd.pc = "sending" /\ httpd.conn = c
      /\ n' = [n EXCEPT ![c] = 0]
      /\ httpd' = [pc |-> "poll", conn |-> NoConn, response |-> NoResponse]
      /\ UNCHANGED <<link, send, wakeups, connections, loader, sent>>
  BY DEF AfterSend, At, BackToPoll, Goto
<1>3. response[c] # NoResponse /\ n[c] > 0 /\ ~enqueue_is_active[c] /\ connections[c]
      /\ is_resp[c] /\ link[c] = "open"
  BY <1>1, <1>2 DEF CallbackState, ActiveIsEmpty, ResponseIsOwned, At, TypeOK
<1>4. LoaderHasConn' /\ CallbackState'
  BY <1>1, <1>2 DEF LoaderHasConn, CallbackState, At
<1>5. CASE is_eof(response[c])
  <2>1. /\ is_resp' = [is_resp EXCEPT ![c] = FALSE]
        /\ response' = [response EXCEPT ![c] = NoResponse]
        /\ UNCHANGED <<enqueue_is_active, waiting>>
    BY <1>5 DEF AfterSend
  <2>2. TypeOK'
    BY <1>1, <1>2, <2>1, MaxBlocksAssumption DEF TypeOK, HttpdStates
  <2>3. LoaderNeverReadsDestroyed'
    BY <1>1, <1>2, <2>1 DEF LoaderNeverReadsDestroyed, Reading, Queued
  <2>4. ActiveIsEmpty' /\ FullHasResponse' /\ ResponseIsOwned'
    BY <1>1, <1>2, <1>3, <2>1 DEF ActiveIsEmpty, FullHasResponse, ResponseIsOwned, TypeOK, At
  <2>5. QED
    BY <1>4, <2>2, <2>3, <2>4 DEF IInv
<1>6. CASE ~is_eof(response[c])
  <2>1. /\ enqueue_is_active' = [enqueue_is_active EXCEPT ![c] = TRUE]
        /\ waiting' = Append(waiting, c)
        /\ UNCHANGED <<is_resp, response>>
    BY <1>6 DEF AfterSend
  <2>2. waiting' \in Seq(Conn) /\ LoaderNeverReadsDestroyed'
    BY <1>1, <1>2, <1>3, <2>1, QueuePush
  <2>3. TypeOK'
    BY <1>1, <1>2, <2>1, <2>2, MaxBlocksAssumption DEF TypeOK, HttpdStates
  <2>4. ActiveIsEmpty' /\ FullHasResponse' /\ ResponseIsOwned'
    BY <1>1, <1>2, <1>3, <2>1 DEF ActiveIsEmpty, FullHasResponse, ResponseIsOwned, TypeOK, At
  <2>5. QED
    BY <1>4, <2>2, <2>3, <2>4 DEF IInv
<1>7. QED
  BY <1>5, <1>6

\* The loader hands a block over.
LEMMA LoaderStoreStep ==
  ASSUME IInv, LoaderStore
  PROVE  IInv'
<1> DEFINE c == loader.conn
<1>1. /\ TypeOK /\ LoaderHasConn /\ LoaderNeverReadsDestroyed /\ ActiveIsEmpty
      /\ FullHasResponse /\ ResponseIsOwned /\ CallbackState
  BY DEF IInv
<1>2. /\ loader.pc = "store"
      /\ n' = [n EXCEPT ![c] = loader.n_read]
      /\ enqueue_is_active' = [enqueue_is_active EXCEPT ![c] = FALSE]
      /\ loader' = [loader EXCEPT !.pc = "wakeup", !.n_read = 0]
      /\ UNCHANGED <<link, is_resp, send, wakeups, response, connections, waiting, httpd, sent>>
  BY DEF LoaderStore, mgVars
<1>3. /\ c \in Conn /\ enqueue_is_active[c] /\ connections[c] /\ ~Queued(c)
      /\ response[c] # NoResponse
  BY <1>1, <1>2 DEF LoaderHasConn, LoaderNeverReadsDestroyed, Reading, ActiveIsEmpty
<1>4. loader' \in [pc : LoaderStates, conn : Conn \cup {NoConn}, n_read : 0..MaxBlocks]
      /\ loader'.conn = c /\ loader'.pc = "wakeup" /\ loader.n_read \in 0..MaxBlocks
  <2>1. loader \in [pc : LoaderStates, conn : Conn \cup {NoConn}, n_read : 0..MaxBlocks]
    BY <1>1 DEF TypeOK
  <2>2. "wakeup" \in LoaderStates /\ 0 \in 0..MaxBlocks
    BY MaxBlocksAssumption DEF LoaderStates
  <2>3. QED
    BY <1>2, <2>1, <2>2
<1>5. TypeOK'
  BY <1>1, <1>2, <1>4 DEF TypeOK
<1>6. LoaderHasConn'
  BY <1>3, <1>4 DEF LoaderHasConn
<1>7. LoaderNeverReadsDestroyed'
  <2>1. ~Reading'
    BY <1>4 DEF Reading
  <2>2. \A i \in 1..Len(waiting) : /\ waiting[i] \in Conn /\ waiting[i] # c
                                   /\ connections[waiting[i]] /\ enqueue_is_active[waiting[i]]
    BY <1>1, <1>3, QueuedIsActive DEF Queued
  <2>3. \A i \in 1..Len(waiting) : enqueue_is_active'[waiting[i]]
    BY <1>1, <1>2, <2>2 DEF TypeOK
  <2>4. QED
    BY <1>1, <1>2, <2>1, <2>2, <2>3 DEF LoaderNeverReadsDestroyed
<1>8. ActiveIsEmpty' /\ FullHasResponse' /\ ResponseIsOwned'
  BY <1>1, <1>2, <1>3 DEF ActiveIsEmpty, FullHasResponse, ResponseIsOwned, TypeOK, At
<1>9. CallbackState'
  BY <1>1, <1>2, <1>3 DEF CallbackState, ActiveIsEmpty, TypeOK, At
<1>10. QED
  BY <1>5, <1>6, <1>7, <1>8, <1>9 DEF IInv

\* Requests, and what the network does to a connection.
LEMMA EventStep ==
  ASSUME IInv, NEW c \in Conn, Event(c) \/ Network(c)
  PROVE  IInv'
<1> USE NoConnAssumption, MaxBlocksAssumption
    DEF IInv, TypeOK, LoaderHasConn, ActiveIsEmpty, FullHasResponse, ResponseIsOwned,
        CallbackState, Polling, At, Goto, BackToPoll, connVars, mgVars, HttpdStates
<1>1. CASE Accept(c) \/ PeerCloses(c) \/ Drain(c)
  <2>1. CASE Accept(c)
    <3>1. TypeOK'
      BY <2>1 DEF Accept
    <3>2. LoaderHasConn' /\ LoaderNeverReadsDestroyed'
      BY <2>1 DEF Accept, LoaderNeverReadsDestroyed, Reading, Queued
    <3>3. ActiveIsEmpty' /\ FullHasResponse' /\ ResponseIsOwned' /\ CallbackState'
      BY <2>1 DEF Accept
    <3>4. QED
      BY <3>1, <3>2, <3>3
  <2>2. CASE PeerCloses(c)
    <3>1. TypeOK'
      BY <2>2 DEF PeerCloses
    <3>2. LoaderHasConn' /\ LoaderNeverReadsDestroyed'
      BY <2>2 DEF PeerCloses, LoaderNeverReadsDestroyed, Reading, Queued
    <3>3. ActiveIsEmpty' /\ FullHasResponse' /\ ResponseIsOwned' /\ CallbackState'
      <4>1. \A d \in Conn : (link'[d] = "closed" <=> link[d] = "closed")
                            /\ (link'[d] = "open" => link[d] = "open")
        BY <2>2 DEF PeerCloses
      <4>2. httpd.pc = "poll" /\ UNCHANGED <<connVars, connections, is_resp, httpd, sent>>
        BY <2>2 DEF PeerCloses
      <4>3. QED
        BY <4>1, <4>2
    <3>4. QED
      BY <3>1, <3>2, <3>3
  <2>3. CASE Drain(c)
    <3>1. TypeOK'
      <4> HIDE DEF LoaderHasConn, ActiveIsEmpty, FullHasResponse, ResponseIsOwned, CallbackState
      <4>1. send' \in [Conn -> Nat]
        BY <2>3 DEF Drain
      <4>2. QED
        BY <2>3, <4>1 DEF Drain
    <3>2. LoaderHasConn' /\ LoaderNeverReadsDestroyed'
      BY <2>3 DEF Drain, LoaderNeverReadsDestroyed, Reading, Queued
    <3>3. ActiveIsEmpty' /\ FullHasResponse' /\ ResponseIsOwned' /\ CallbackState'
      BY <2>3 DEF Drain
    <3>4. QED
      BY <3>1, <3>2, <3>3
  <2>4. QED
    BY <1>1, <2>1, <2>2, <2>3
<1>2. CASE MsgImmediate(c) \/ Wakeup(c)
  <2>1. CASE MsgImmediate(c)
    <3>1. TypeOK'
      <4>1. httpd' \in [pc : HttpdStates, conn : Conn \cup {NoConn},
                        response : Response \cup {NoResponse}]
        BY <2>1 DEF MsgImmediate, EndOfCallback
      <4>2. send' \in [Conn -> Nat]
        BY <2>1 DEF MsgImmediate
      <4> QED
        BY <2>1, <4>1, <4>2 DEF MsgImmediate
    <3>2. LoaderHasConn' /\ LoaderNeverReadsDestroyed'
      BY <2>1 DEF MsgImmediate, LoaderNeverReadsDestroyed, Reading, Queued
    <3>3. ActiveIsEmpty' /\ FullHasResponse' /\ ResponseIsOwned' /\ CallbackState'
      BY <2>1 DEF MsgImmediate, EndOfCallback
    <3>4. QED
      BY <3>1, <3>2, <3>3
  <2>2. CASE Wakeup(c)
    <3>1. httpd' \in [pc : HttpdStates, conn : Conn \cup {NoConn},
                      response : Response \cup {NoResponse}]
      BY <2>2 DEF Wakeup, EndOfCallback
    <3>2. TypeOK'
      <4> HIDE DEF LoaderHasConn, ActiveIsEmpty, FullHasResponse, ResponseIsOwned, CallbackState
      <4>1. /\ wakeups' \subseteq Conn
            /\ UNCHANGED <<link, is_resp, send, connections, response, n, enqueue_is_active,
                           waiting, loader, sent>>
        BY <2>2 DEF Wakeup
      <4> HIDE DEF connVars, mgVars, Polling, At, Goto, BackToPoll, LoaderStates, HttpdStates
      <4>2. QED
        BY <3>1, <4>1
    <3>3. LoaderHasConn' /\ LoaderNeverReadsDestroyed'
      BY <2>2 DEF Wakeup, LoaderNeverReadsDestroyed, Reading, Queued
    <3>4. ActiveIsEmpty' /\ FullHasResponse'
      BY <2>2 DEF Wakeup
    <3>5. ResponseIsOwned' /\ CallbackState'
      <4>1. httpd.pc = "poll" /\ httpd'.pc \in {"poll", "tail"}
        BY <2>2 DEF Wakeup, EndOfCallback
      <4>2. UNCHANGED <<link, is_resp, connections, response, n, sent>>
        BY <2>2 DEF Wakeup
      <4> QED
        BY <4>1, <4>2
    <3>6. QED
      BY <3>2, <3>3, <3>4, <3>5
  <2>3. QED
    BY <1>2, <2>1, <2>2
<1>3. CASE Close(c) \/ Poll(c)
  <2>1. CASE Close(c)
    BY <2>1 DEF Close, LoaderNeverReadsDestroyed, Reading, Queued
  <2>2. CASE Poll(c)
    BY <2>2 DEF Poll, LoaderNeverReadsDestroyed, Reading, Queued
  <2>3. QED
    BY <1>3, <2>1, <2>2
<1>4. ASSUME NEW r \in NewResponses, MsgStream(c, r)
      PROVE  IInv'
  BY <1>4, MsgStreamStep
<1>5. QED
  BY <1>1, <1>2, <1>3, <1>4 DEF Event, Network

\* The second half of a callback.
LEMMA CallbackStep ==
  ASSUME IInv, NEW c \in Conn, Callback(c)
  PROVE  IInv'
<1> USE NoConnAssumption, MaxBlocksAssumption
    DEF IInv, TypeOK, LoaderHasConn, ActiveIsEmpty, FullHasResponse, ResponseIsOwned,
        CallbackState, Polling, At, Goto, BackToPoll, connVars, mgVars, HttpdStates
<1>1. CASE new_response(c)
  <2>1. ~enqueue_is_active[c] /\ connections[c] /\ n[c] = 0 /\ httpd.response \in NewResponses
    BY <1>1 DEF new_response
  <2>2. waiting' \in Seq(Conn) /\ LoaderNeverReadsDestroyed'
    BY <1>1, <2>1, QueuePush DEF new_response
  <2>3. httpd.response \in Response /\ httpd.response # NoResponse
    BY <2>1, ResponseTypes
  <2>4. TypeOK'
    BY <1>1, <2>2, <2>3 DEF new_response
  <2>5. ActiveIsEmpty' /\ FullHasResponse' /\ ResponseIsOwned'
    BY <1>1, <2>1, <2>3 DEF new_response
  <2>6. CallbackState' /\ LoaderHasConn'
    BY <1>1 DEF new_response
  <2>7. QED
    BY <2>2, <2>4, <2>5, <2>6
<1>2. CASE Destroy(c)
  <2>1. LoaderNeverReadsDestroyed'
    <3>1. UNCHANGED <<waiting, loader>>
          /\ \A d \in Conn : enqueue_is_active[d] /\ connections[d]
                               => enqueue_is_active'[d] /\ connections'[d]
      BY <1>2 DEF Destroy
    <3>2. QED
      BY <3>1, QueueFrame
  <2>2. TypeOK' /\ LoaderHasConn' /\ CallbackState'
    BY <1>2 DEF Destroy
  <2>3. ActiveIsEmpty' /\ FullHasResponse' /\ ResponseIsOwned'
    BY <1>2 DEF Destroy
  <2>4. QED
    BY <2>1, <2>2, <2>3
<1>3. CASE SendNothing(c) \/ MgSend(c) \/ MgSendFails(c)
  <2>1. CASE SendNothing(c)
    BY <2>1 DEF SendNothing, CanSend, LoaderNeverReadsDestroyed, Reading, Queued
  <2>2. CASE MgSend(c)
    <3>1. TypeOK' /\ LoaderHasConn'
      <4>1. httpd' \in [pc : HttpdStates, conn : Conn \cup {NoConn},
                        response : Response \cup {NoResponse}]
        BY <2>2 DEF MgSend
      <4>2. send' \in [Conn -> Nat] /\ sent' \in [Conn -> 0..MaxBlocks]
        BY <2>2 DEF MgSend
      <4>3. UNCHANGED <<link, is_resp, wakeups, connections, response, n, enqueue_is_active,
                        waiting, loader>>
        BY <2>2 DEF MgSend
      <4> QED
        BY <4>1, <4>2, <4>3
    <3>2. LoaderNeverReadsDestroyed'
      BY <2>2 DEF MgSend, LoaderNeverReadsDestroyed, Reading, Queued
    <3>3. ActiveIsEmpty' /\ FullHasResponse' /\ ResponseIsOwned' /\ CallbackState'
      BY <2>2 DEF MgSend, CanSend
    <3>4. QED
      BY <3>1, <3>2, <3>3
  <2>3. CASE MgSendFails(c)
    BY <2>3 DEF MgSendFails, CanSend, LoaderNeverReadsDestroyed, Reading, Queued
  <2>4. QED
    BY <1>3, <2>1, <2>2, <2>3
<1>4. CASE AfterSend(c)
  BY <1>4, AfterSendStep
<1>5. QED
  BY <1>1, <1>2, <1>3, <1>4 DEF Callback

\* The loader.
LEMMA LoaderStep ==
  ASSUME IInv, Loader
  PROVE  IInv'
<1> USE NoConnAssumption, MaxBlocksAssumption
    DEF IInv, TypeOK, LoaderHasConn, ActiveIsEmpty, FullHasResponse, ResponseIsOwned,
        CallbackState, At, connVars, mgVars, LoaderStates
<1>1. CASE LoaderPop
  <2>1. waiting' \in Seq(Conn) /\ loader'.conn \in Conn /\ LoaderNeverReadsDestroyed'
    BY <1>1, QueuePop
  <2>2. loader' \in [pc : LoaderStates, conn : Conn \cup {NoConn}, n_read : 0..MaxBlocks]
    BY <1>1, <2>1 DEF LoaderPop
  <2>3. TypeOK' /\ LoaderHasConn'
    BY <1>1, <2>1, <2>2 DEF LoaderPop
  <2>4. ActiveIsEmpty' /\ FullHasResponse' /\ ResponseIsOwned' /\ CallbackState'
    BY <1>1 DEF LoaderPop
  <2>5. QED
    BY <2>1, <2>3, <2>4
<1>2. CASE LoaderRead
  <2> DEFINE c == loader.conn
  <2>1. /\ c \in Conn /\ enqueue_is_active[c] /\ connections[c]
        /\ response[c] \in Response /\ response[c] # NoResponse
    BY <1>2 DEF LoaderRead, LoaderNeverReadsDestroyed, Reading
  <2>2. AfterRead(response[c]) \in Response /\ AfterRead(response[c]) # NoResponse
        /\ ReadResult(response[c]) \in 0..MaxBlocks
    BY <2>1, ReadTypes, ResponseTypes
  <2>3. response' = [response EXCEPT ![c] = AfterRead(response[c])]
        /\ loader' = [loader EXCEPT !.pc = "store", !.n_read = ReadResult(response[c])]
    BY <1>2 DEF LoaderRead
  <2>4. TypeOK' /\ LoaderHasConn'
    <3>1. loader' \in [pc : LoaderStates, conn : Conn \cup {NoConn}, n_read : 0..MaxBlocks]
      BY <2>2, <2>3
    <3>2. response' \in [Conn -> Response \cup {NoResponse}]
      BY <2>2, <2>3
    <3>3. loader'.conn = loader.conn
      BY <2>3
    <3>4. QED
      BY <1>2, <2>1, <3>1, <3>2, <3>3 DEF LoaderRead
  <2>5. LoaderNeverReadsDestroyed'
    BY <1>2, <2>3 DEF LoaderRead, LoaderNeverReadsDestroyed, Reading, Queued
  <2>6. \A k \in Conn : response'[k] # NoResponse <=> response[k] # NoResponse
    BY <2>1, <2>2, <2>3
  <2>7. ActiveIsEmpty' /\ FullHasResponse' /\ ResponseIsOwned'
    BY <1>2, <2>6 DEF LoaderRead
  <2>8. CallbackState'
    BY <1>2, <2>6 DEF LoaderRead
  <2>9. QED
    BY <2>4, <2>5, <2>7, <2>8
<1>3. CASE LoaderStore
  BY <1>3, LoaderStoreStep
<1>4. CASE LoaderWakeup
  BY <1>4 DEF LoaderWakeup, LoaderNeverReadsDestroyed, Reading, Queued
<1>5. QED
  BY <1>1, <1>2, <1>3, <1>4 DEF Loader

LEMMA Inductive == IInv /\ [Next]_vars => IInv'
<1>1. ASSUME IInv, UNCHANGED vars
      PROVE  IInv'
  BY <1>1 DEF vars, connVars, mgVars, IInv, TypeOK, LoaderHasConn, LoaderNeverReadsDestroyed,
              ActiveIsEmpty, FullHasResponse, ResponseIsOwned, CallbackState, Reading, Queued, At
<1>2. QED
  BY <1>1, EventStep, CallbackStep, LoaderStep DEF Next

LEMMA Initially == Init => IInv
BY NoConnAssumption, MaxBlocksAssumption
   DEF Init, IInv, TypeOK, LoaderHasConn, LoaderNeverReadsDestroyed, ActiveIsEmpty,
       FullHasResponse, ResponseIsOwned, CallbackState, Reading, Queued, At, LoaderStates,
       HttpdStates, NoResponse

-----------------------------------------------------------------------------
(* The theorems.                                                            *)

\* The event loop and the loader keep every variable in its type.
THEOREM TypeOKThm == Spec => []TypeOK
<1>1. IInv => TypeOK
  BY DEF IInv
<1>2. QED
  BY <1>1, Initially, Inductive, PTL DEF Spec

\* The loader never reads into, or from the response of, a connection that the
\* event loop has deleted: the destructor's wait covers every use.
THEOREM LoaderNeverReadsDestroyedThm == Spec => []LoaderNeverReadsDestroyed
<1>1. IInv => LoaderNeverReadsDestroyed
  BY DEF IInv
<1>2. QED
  BY <1>1, Initially, Inductive, PTL DEF Spec

\* Every assert of the code holds.
THEOREM AssertsHoldThm == Spec => []AssertsHold
<1>1. IInv => AssertsHold
  BY DEF IInv, AssertsHold, LoaderNeverReadsDestroyed, LoaderHasConn, ActiveIsEmpty, Reading,
         CallbackState, TypeOK
<1>2. QED
  BY <1>1, Initially, Inductive, PTL DEF Spec


-----------------------------------------------------------------------------
(* How far the body of a response is.                                      *)

\* The loader has read a block of c, or its end, and not stored that yet.
Storing(c) == loader.pc = "store" /\ loader.conn = c

\* Where the body of c's response stands.  While a read is due, all that was read
\* has been sent, and more is to come; the block that was read follows what
\* was sent, and is what the buffer holds next; when nothing is under way a
\* whole last block has been followed by an empty read.
InTurn(c) ==
  LET r == response[c] IN
  /\ enqueue_is_active[c] /\ ~Storing(c) =>
       sent[c] = r.at /\ r.at <= r.blocks /\ (r.partial => r.at < r.blocks)
  /\ Storing(c) =>
       \/ loader.n_read = r.at /\ r.at <= r.blocks /\ r.at = sent[c] + 1
       \/ loader.n_read = 0 /\ ~r.partial /\ r.at > r.blocks
  /\ ~enqueue_is_active[c] /\ n[c] > 0 =>
       /\ n[c] = r.at /\ r.at <= r.blocks
       /\ r.at = IF At(c, "sending") THEN sent[c] ELSE sent[c] + 1
  /\ ~enqueue_is_active[c] /\ n[c] = 0 => ~r.partial /\ r.at > r.blocks

BodyInTurn == \A c \in Conn : response[c] # NoResponse => InTurn(c)

\* A read of c is queued, or the loader is at it.
Owed(c) == Queued(c) \/ (Reading /\ loader.conn = c)
\* Whoever has a read under way is owed one by the loader.
ReadIsOwed == \A c \in Conn : enqueue_is_active[c] => Owed(c)

\* The second layer of the invariant.
Progress == ReadIsOwed /\ BodyInTurn

\* A connection that a step leaves alone stays in turn.
LEMMA TurnFrame ==
  ASSUME NEW d \in Conn, response[d] # NoResponse => InTurn(d),
         response'[d] = response[d], enqueue_is_active'[d] = enqueue_is_active[d],
         n'[d] = n[d], sent'[d] = sent[d],
         Storing(d)' <=> Storing(d), Storing(d) => loader'.n_read = loader.n_read,
         At(d, "sending")' <=> At(d, "sending")
  PROVE  response'[d] # NoResponse => InTurn(d)'
BY DEF InTurn

\* A step that neither takes from the loader nor sets a flag owes no more reads.
LEMMA OwedFrame ==
  ASSUME ReadIsOwed, UNCHANGED <<waiting, loader>>,
         \A c \in Conn : enqueue_is_active'[c] => enqueue_is_active[c]
  PROVE  ReadIsOwed'
BY DEF ReadIsOwed, Owed, Queued, Reading

\* Enqueueing a read.
LEMMA OwedPush ==
  ASSUME TypeOK, ReadIsOwed, NEW c \in Conn, waiting' = Append(waiting, c),
         UNCHANGED loader,
         \A d \in Conn \ {c} : enqueue_is_active'[d] => enqueue_is_active[d]
  PROVE  ReadIsOwed'
<1>1. /\ Len(waiting) \in Nat /\ Len(waiting') = Len(waiting) + 1
      /\ waiting'[Len(waiting) + 1] = c
      /\ \A i \in 1..Len(waiting) : waiting'[i] = waiting[i]
  BY DEF TypeOK
<1>2. Queued(c)'
  BY <1>1 DEF Queued
<1>3. \A d \in Conn : Queued(d) => Queued(d)'
  BY <1>1 DEF Queued
<1> QED
  BY <1>2, <1>3 DEF ReadIsOwed, Owed, Reading

\* The numbers of a response.
LEMMA ResponseNumbers ==
  ASSUME TypeOK, NEW c \in Conn, response[c] # NoResponse
  PROVE  /\ response[c].blocks \in 0..MaxBlocks /\ response[c].at \in 0..(MaxBlocks + 1)
         /\ response[c].partial \in BOOLEAN
BY DEF TypeOK, Response

\* The same of a response that is not installed yet.
LEMMA NewNumbers ==
  ASSUME NEW r \in NewResponses
  PROVE  r.at = 0 /\ r.blocks \in 0..MaxBlocks /\ r.partial \in BOOLEAN /\ (r.partial => r.blocks > 0)
BY DEF NewResponses, Response

\* A read moves the position and nothing else.
LEMMA ReadMoves ==
  ASSUME NEW r \in Response
  PROVE  /\ AfterRead(r).blocks = r.blocks /\ AfterRead(r).partial = r.partial
         /\ AfterRead(r).at = IF r.at <= r.blocks THEN r.at + 1 ELSE r.at
BY DEF AfterRead, Response

\* What mongoose does, and the first steps of a callback, touch no body.
LEMMA EventProgress ==
  ASSUME IInv, Progress, NEW c \in Conn, Event(c) \/ Network(c)
  PROVE  Progress'
<1> USE DEF IInv, Progress
<1>1. UNCHANGED <<waiting, loader, sent>> /\ httpd.pc = "poll" /\ httpd'.pc # "sending"
  BY DEF Event, Network, Accept, PeerCloses, Drain, MsgImmediate, MsgStream, Close, Wakeup,
         Poll, Polling, EndOfCallback, BackToPoll, Goto, TypeOK
<1>2. UNCHANGED connVars
  <2>1. ASSUME NEW r \in NewResponses, MsgStream(c, r) PROVE UNCHANGED connVars
    <3>1. response[c] = NoResponse /\ n[c] = 0 /\ ~enqueue_is_active[c]
      BY <2>1 DEF MsgStream, Polling, ResponseIsOwned, TypeOK, FullHasResponse, ActiveIsEmpty
    <3>2. CASE connections[c]
      BY <2>1, <3>2 DEF MsgStream
    <3>3. CASE ~connections[c]
      <4>1. /\ response' = [response EXCEPT ![c] = NoResponse]
            /\ n' = [n EXCEPT ![c] = 0]
            /\ enqueue_is_active' = [enqueue_is_active EXCEPT ![c] = FALSE]
        BY <2>1, <3>3 DEF MsgStream
      <4>2. response' = response /\ n' = n
        BY <3>1, <4>1 DEF TypeOK
      <4>3. enqueue_is_active' = enqueue_is_active
        BY <3>1, <4>1 DEF TypeOK
      <4> QED
        BY <4>2, <4>3 DEF connVars
    <3> QED
      BY <3>2, <3>3
  <2> QED
    BY <2>1 DEF Event, Network, Accept, PeerCloses, Drain, MsgImmediate, Close, Wakeup, Poll
<1>3. ReadIsOwed'
  BY <1>1, <1>2, OwedFrame DEF connVars
<1>4. BodyInTurn'
  <2> SUFFICES ASSUME NEW d \in Conn PROVE response'[d] # NoResponse => InTurn(d)'
    BY DEF BodyInTurn
  <2> QED
    BY <1>1, <1>2, TurnFrame DEF connVars, BodyInTurn, Storing, At
<1> QED
  BY <1>3, <1>4

\* The rest of a callback: a response installed, sent from, destroyed.
LEMMA CallbackProgress ==
  ASSUME IInv, Progress, NEW c \in Conn, Callback(c)
  PROVE  Progress'
<1> USE DEF IInv, Progress
<1>1. \A d \in Conn : response[d] # NoResponse => InTurn(d)
  BY DEF BodyInTurn
<1>2. UNCHANGED loader /\ httpd.conn = c
  BY DEF Callback, new_response, Destroy, SendNothing, MgSend, MgSendFails, AfterSend, At
<1>3. ASSUME ReadIsOwed',
             response'[c] # NoResponse => InTurn(c)',
             \A d \in Conn \ {c} :
               /\ response'[d] = response[d] /\ enqueue_is_active'[d] = enqueue_is_active[d]
               /\ n'[d] = n[d] /\ sent'[d] = sent[d] /\ ~At(d, "sending")'
      PROVE  Progress'
  <2>1. ASSUME NEW d \in Conn, d # c PROVE response'[d] # NoResponse => InTurn(d)'
    BY <1>1, <1>2, <1>3, <2>1, TurnFrame DEF Storing, At
  <2> QED
    BY <1>3, <2>1 DEF BodyInTurn
<1>4. CASE new_response(c)
  <2>1. /\ httpd.response \in NewResponses /\ connections[c] /\ response[c] = NoResponse
        /\ ~enqueue_is_active[c]
    BY <1>4 DEF new_response, CallbackState
  <2>2. ~Storing(c)
    BY <2>1 DEF Storing, LoaderNeverReadsDestroyed, Reading
  <2>3. response'[c] = httpd.response /\ enqueue_is_active'[c] /\ sent'[c] = 0
    BY <1>4 DEF new_response, TypeOK
  <2>4. InTurn(c)'
    <3>1. response'[c].at = 0 /\ response'[c].blocks \in Nat
          /\ (response'[c].partial => response'[c].blocks > 0)
      BY <2>1, <2>3, NewNumbers, MaxBlocksAssumption
    <3>2. ~Storing(c)'
      BY <1>2, <2>2 DEF Storing
    <3> QED
      BY <2>3, <3>1, <3>2 DEF InTurn
  <2>5. ReadIsOwed'
    BY <1>2, <1>4, OwedPush DEF new_response, TypeOK
  <2> QED
    BY <1>3, <1>4, <2>4, <2>5 DEF new_response, TypeOK, Goto, At
<1>5. CASE Destroy(c) \/ MgSendFails(c)
  <2>1. response'[c] = NoResponse
    BY <1>5 DEF Destroy, MgSendFails, TypeOK
  <2>2. ReadIsOwed'
    BY <1>2, <1>5, OwedFrame DEF Destroy, MgSendFails
  <2> QED
    BY <1>3, <1>5, <2>1, <2>2 DEF Destroy, MgSendFails, TypeOK, BackToPoll, Goto, At
<1>6. CASE SendNothing(c)
  <2>1. ReadIsOwed'
    BY <1>2, <1>6, OwedFrame DEF SendNothing, connVars
  <2>2. response'[c] # NoResponse => InTurn(c)'
    BY <1>1, <1>2, <1>6, TurnFrame DEF SendNothing, connVars, Storing, At, BackToPoll, Goto
  <2> QED
    BY <1>3, <1>6, <2>1, <2>2 DEF SendNothing, connVars, BackToPoll, Goto, At
<1>7. CASE MgSend(c)
  <2>1. ReadIsOwed'
    BY <1>2, <1>7, OwedFrame DEF MgSend, connVars
  <2>2. /\ response[c] # NoResponse /\ n[c] > 0 /\ ~enqueue_is_active[c] /\ ~At(c, "sending")
        /\ sent'[c] = n[c] /\ At(c, "sending")' /\ UNCHANGED connVars
    BY <1>7 DEF MgSend, CanSend, FullHasResponse, ActiveIsEmpty, At, TypeOK, Goto
  <2>3. ~Storing(c)
    BY <2>2 DEF Storing, LoaderNeverReadsDestroyed, Reading
  <2>4. InTurn(c)'
    BY <1>1, <1>2, <2>2, <2>3 DEF InTurn, Storing, connVars
  <2> QED
    BY <1>3, <1>7, <2>1, <2>4 DEF MgSend, connVars, Goto, At, TypeOK
<1>8. CASE AfterSend(c)
  <2>1. /\ response[c] # NoResponse /\ n[c] > 0 /\ ~enqueue_is_active[c] /\ n[c] = sent[c]
    BY <1>8 DEF AfterSend, CallbackState, ActiveIsEmpty, At, TypeOK
  <2>2. n'[c] = 0 /\ ~At(c, "sending")' /\ UNCHANGED sent
    BY <1>8 DEF AfterSend, TypeOK, BackToPoll, Goto, At
  <2>3. CASE is_eof(response[c])
    <3>1. response'[c] = NoResponse /\ UNCHANGED <<enqueue_is_active, waiting>>
      BY <1>8, <2>3 DEF AfterSend, TypeOK
    <3>2. ReadIsOwed'
      BY <1>2, <3>1, OwedFrame
    <3> QED
      BY <1>3, <1>8, <2>3, <3>1, <3>2 DEF AfterSend, TypeOK, BackToPoll, Goto, At
  <2>4. CASE ~is_eof(response[c])
    <3>1. /\ enqueue_is_active' = [enqueue_is_active EXCEPT ![c] = TRUE]
          /\ waiting' = Append(waiting, c) /\ UNCHANGED response
      BY <1>8, <2>4 DEF AfterSend
    <3>2. ReadIsOwed'
      BY <1>2, <3>1, OwedPush DEF TypeOK
    <3>3. ~Storing(c)
      BY <2>1 DEF Storing, LoaderNeverReadsDestroyed, Reading
    <3>4. /\ n[c] = response[c].at /\ response[c].at <= response[c].blocks
          /\ At(c, "sending")
      BY <1>1, <1>8, <2>1 DEF InTurn, AfterSend
    <3>5. response[c].partial => response[c].at < response[c].blocks
      BY <2>1, <2>4, ResponseNumbers DEF is_eof
    <3>6. InTurn(c)'
      BY <1>2, <2>1, <2>2, <3>1, <3>3, <3>4, <3>5 DEF InTurn, Storing, TypeOK
    <3> QED
      BY <1>3, <1>8, <2>2, <3>1, <3>2, <3>6 DEF AfterSend, TypeOK, BackToPoll, Goto, At
  <2> QED
    BY <2>3, <2>4
<1> QED
  BY <1>4, <1>5, <1>6, <1>7, <1>8 DEF Callback

\* The loader: it takes a connection, reads a block, stores it, wakes the event loop.
LEMMA LoaderProgress ==
  ASSUME IInv, Progress, Loader
  PROVE  Progress'
<1> USE DEF IInv, Progress
<1>1. \A d \in Conn : response[d] # NoResponse => InTurn(d)
  BY DEF BodyInTurn
<1>2. UNCHANGED <<httpd, sent>>
  BY DEF Loader, LoaderPop, LoaderRead, LoaderStore, LoaderWakeup
<1>3. CASE LoaderPop
  <2>1. /\ loader.pc = "idle" /\ loader'.pc = "read" /\ loader'.conn = waiting[1]
        /\ UNCHANGED connVars /\ waiting # <<>> /\ waiting' = Tail(waiting)
    BY <1>3 DEF LoaderPop, TypeOK
  <2>2. \A d \in Conn : Queued(d) => Queued(d)' \/ loader'.conn = d
    <3>1. \A i \in 1..Len(waiting) :
            i = 1 \/ (i - 1 \in 1..Len(waiting') /\ waiting'[i - 1] = waiting[i])
      BY <2>1 DEF TypeOK
    <3> QED
      BY <2>1, <3>1 DEF Queued
  <2>3. ReadIsOwed'
    BY <2>1, <2>2 DEF ReadIsOwed, Owed, Reading, connVars
  <2>4. BodyInTurn'
    <3> SUFFICES ASSUME NEW d \in Conn PROVE response'[d] # NoResponse => InTurn(d)'
      BY DEF BodyInTurn
    <3> QED
      BY <1>1, <1>2, <2>1, TurnFrame DEF connVars, Storing, At
  <2> QED
    BY <2>3, <2>4
<1>4. CASE LoaderRead
  <2>1. PICK c \in Conn : c = loader.conn
    BY <1>4 DEF LoaderRead, LoaderHasConn
  <2> DEFINE r == response[c]
  <2>2. /\ loader.pc = "read" /\ enqueue_is_active[c]
        /\ r \in Response /\ r # NoResponse
    BY <1>4, <2>1 DEF LoaderRead, LoaderHasConn, LoaderNeverReadsDestroyed, Reading, ActiveIsEmpty,
                TypeOK
  <2>3. /\ loader'.pc = "store" /\ loader'.conn = c /\ loader'.n_read = ReadResult(r)
        /\ response' = [response EXCEPT ![c] = AfterRead(r)]
        /\ UNCHANGED <<n, enqueue_is_active, waiting>>
    BY <1>4, <2>1 DEF LoaderRead, TypeOK
  <2>4. ReadIsOwed'
    BY <2>1, <2>2, <2>3 DEF ReadIsOwed, Owed, Reading, Queued
  <2>5. sent[c] = r.at /\ r.at <= r.blocks /\ (r.partial => r.at < r.blocks)
    BY <1>1, <2>1, <2>2 DEF InTurn, Storing
  <2>6. /\ response'[c].blocks = r.blocks /\ response'[c].partial = r.partial
        /\ response'[c].at = r.at + 1
    BY <2>1, <2>2, <2>3, <2>5, ReadMoves DEF TypeOK
  <2>7. InTurn(c)'
    <3>1. r.at \in Nat /\ r.blocks \in Nat
      BY <2>2, ResponseNumbers, MaxBlocksAssumption
    <3>2. loader'.n_read = IF r.at < r.blocks THEN r.at + 1 ELSE 0
      BY <2>3 DEF ReadResult
    <3>3. Storing(c)' /\ enqueue_is_active'[c] /\ sent'[c] = r.at
      BY <1>2, <2>1, <2>2, <2>3, <2>5 DEF Storing
    <3> QED
      BY <2>5, <2>6, <3>1, <3>2, <3>3 DEF InTurn
  <2>8. ASSUME NEW d \in Conn, d # c PROVE response'[d] # NoResponse => InTurn(d)'
    BY <1>1, <1>2, <2>1, <2>2, <2>3, <2>8, TurnFrame DEF Storing, At, TypeOK
  <2> QED
    BY <2>4, <2>7, <2>8 DEF BodyInTurn
<1>5. CASE LoaderStore
  <2>1. PICK c \in Conn : c = loader.conn
    BY <1>5 DEF LoaderStore, LoaderHasConn
  <2> DEFINE r == response[c]
  <2>2. /\ loader.pc = "store" /\ enqueue_is_active[c] /\ r # NoResponse
    BY <1>5, <2>1 DEF LoaderStore, LoaderHasConn, LoaderNeverReadsDestroyed, Reading, ActiveIsEmpty
  <2>3. /\ loader'.pc = "wakeup" /\ loader'.conn = c
        /\ n' = [n EXCEPT ![c] = loader.n_read]
        /\ enqueue_is_active' = [enqueue_is_active EXCEPT ![c] = FALSE]
        /\ UNCHANGED <<response, waiting>>
    BY <1>5, <2>1 DEF LoaderStore, TypeOK
  <2>4. ReadIsOwed'
    BY <2>1, <2>2, <2>3 DEF ReadIsOwed, Owed, Reading, Queued, TypeOK
  <2>5. ~At(c, "sending")
    BY <2>1, <2>2 DEF CallbackState, ActiveIsEmpty, TypeOK
  <2>6. InTurn(c)'
    <3>1. /\ n'[c] = loader.n_read /\ ~enqueue_is_active'[c] /\ ~Storing(c)'
          /\ ~At(c, "sending")'
      BY <1>2, <2>1, <2>2, <2>3, <2>5 DEF TypeOK, Storing, At
    <3>2. r.at \in Nat /\ r.blocks \in Nat /\ loader.n_read \in Nat /\ sent[c] \in Nat
      BY <2>1, <2>2, ResponseNumbers DEF TypeOK
    <3>3. \/ loader.n_read = r.at /\ r.at <= r.blocks /\ r.at = sent[c] + 1
          \/ loader.n_read = 0 /\ ~r.partial /\ r.at > r.blocks
      BY <1>1, <2>1, <2>2 DEF InTurn, Storing
    <3> QED
      BY <1>2, <2>3, <3>1, <3>2, <3>3 DEF InTurn
  <2>7. ASSUME NEW d \in Conn, d # c PROVE response'[d] # NoResponse => InTurn(d)'
    BY <1>1, <1>2, <2>1, <2>2, <2>3, <2>7, TurnFrame DEF Storing, At, TypeOK
  <2> QED
    BY <2>4, <2>6, <2>7 DEF BodyInTurn
<1>6. CASE LoaderWakeup
  <2>1. /\ loader.pc = "wakeup" /\ loader'.pc = "idle"
        /\ UNCHANGED <<connVars, waiting>>
    BY <1>6 DEF LoaderWakeup
  <2>2. ReadIsOwed'
    BY <2>1 DEF ReadIsOwed, Owed, Reading, Queued, connVars
  <2>3. BodyInTurn'
    <3> SUFFICES ASSUME NEW d \in Conn PROVE response'[d] # NoResponse => InTurn(d)'
      BY DEF BodyInTurn
    <3> QED
      BY <1>1, <1>2, <2>1, TurnFrame DEF connVars, Storing, At
  <2> QED
    BY <2>2, <2>3
<1> QED
  BY <1>3, <1>4, <1>5, <1>6 DEF Loader

\* Every step keeps the second layer, given the first.
LEMMA InductiveProgress == IInv /\ Progress /\ [Next]_vars => Progress'
<1>1. ASSUME Progress, UNCHANGED vars PROVE Progress'
  BY <1>1 DEF vars, connVars, mgVars, Progress, ReadIsOwed, BodyInTurn, InTurn, Owed, Queued,
              Reading, Storing, At
<1> QED
  BY <1>1, EventProgress, CallbackProgress, LoaderProgress DEF Next

\* At first there is no body to stand anywhere.
LEMMA InitProgress == Init => Progress
BY DEF Init, Progress, ReadIsOwed, BodyInTurn

\* Every installed response is being read, has a block to send, or is a body that
\* ended in an empty read, and a set enqueue_is_active always has a read behind
\* it: nothing is left lying between the loader and the event loop, and
\* wait_for_no_enqueues() waits for a read that is on its way.
THEOREM ResponseInProgressThm == Spec => []ResponseInProgress
<1>1. IInv /\ Progress => ResponseInProgress
  <2> SUFFICES ASSUME IInv, Progress, NEW c \in Conn
               PROVE  /\ enqueue_is_active[c] => Queued(c) \/ (Reading /\ loader.conn = c)
                      /\ response[c] # NoResponse /\ ~At(c, "sending") =>
                           \/ enqueue_is_active[c]
                           \/ n[c] > 0
                           \/ ~response[c].partial /\ response[c].at > response[c].blocks
    BY DEF ResponseInProgress
  <2>1. n[c] \in Nat
    BY DEF IInv, TypeOK
  <2> QED
    BY <2>1 DEF Progress, ReadIsOwed, Owed, BodyInTurn, InTurn
<1> QED
  BY <1>1, Initially, Inductive, InitProgress, InductiveProgress, PTL DEF Spec

\* The blocks of a body leave in order, none twice and none left out; while the
\* link is open a request counts as answered only when the whole body was sent,
\* unless mg_send failed.
THEOREM AnswersAreWholeThm == Spec => AnswersAreWhole
<1> DEFINE Whole(c) ==
       /\ \/ sent'[c] = sent[c] /\ ~(At(c, "tail") /\ httpd'.pc = "sending")
          \/ sent'[c] = sent[c] + 1 /\ sent'[c] <= response[c].blocks
          \/ sent'[c] = 0 /\ response[c] = NoResponse
       /\ is_resp[c] /\ ~is_resp'[c] /\ link[c] = "open" /\ At(c, "sending")
            => sent[c] = response[c].blocks
<1>1. ASSUME IInv, Progress, Next, NEW d \in Conn PROVE Whole(d)
  <2> USE DEF IInv, Progress
  <2>1. CASE Loader
    BY <1>1, <2>1 DEF Loader, LoaderPop, LoaderRead, LoaderStore, LoaderWakeup, mgVars, At, TypeOK
  <2>2. ASSUME NEW c \in Conn, Event(c) \/ Network(c) PROVE Whole(d)
    BY <1>1, <2>2 DEF Event, Network, Accept, PeerCloses, Drain, MsgImmediate, MsgStream, Close,
         Wakeup, Poll, Polling, EndOfCallback, BackToPoll, Goto, At, mgVars
  <2>3. ASSUME NEW c \in Conn, Callback(c) PROVE Whole(d)
    <3>1. CASE new_response(c) \/ Destroy(c) \/ SendNothing(c) \/ MgSendFails(c)
      BY <1>1, <2>3, <3>1 DEF new_response, Destroy, SendNothing, MgSendFails, CallbackState,
           BackToPoll, Goto, At, mgVars, TypeOK
    <3>2. CASE MgSend(c)
      <4>1. /\ response[c] # NoResponse /\ n[c] > 0 /\ ~enqueue_is_active[c]
            /\ ~At(c, "sending") /\ UNCHANGED is_resp /\ At(c, "tail")
            /\ sent' = [sent EXCEPT ![c] = n[c]]
        BY <1>1, <3>2 DEF MgSend, CanSend, FullHasResponse, ActiveIsEmpty, At, TypeOK
      <4>2. n[c] = sent[c] + 1 /\ n[c] <= response[c].blocks
        BY <1>1, <4>1 DEF BodyInTurn, InTurn
      <4> QED
        BY <1>1, <4>1, <4>2 DEF TypeOK, At
    <3>3. CASE AfterSend(c)
      <4>1. /\ response[c] # NoResponse /\ n[c] > 0 /\ ~enqueue_is_active[c] /\ n[c] = sent[c]
            /\ At(c, "sending") /\ UNCHANGED sent
        BY <1>1, <3>3 DEF AfterSend, CallbackState, ActiveIsEmpty, At, TypeOK
      <4>2. n[c] = response[c].at /\ response[c].at <= response[c].blocks
        BY <1>1, <4>1 DEF BodyInTurn, InTurn
      <4>3. is_eof(response[c]) => sent[c] = response[c].blocks
        BY <1>1, <4>1, <4>2, ResponseNumbers DEF is_eof
      <4>4. ~is_eof(response[c]) => UNCHANGED is_resp
        BY <3>3 DEF AfterSend
      <4> QED
        BY <1>1, <4>1, <4>3, <4>4 DEF At
    <3> QED
      BY <2>3, <3>1, <3>2, <3>3 DEF Callback
  <2> QED
    BY <1>1, <2>1, <2>2, <2>3 DEF Next
<1>2. IInv /\ Progress /\ [Next]_vars => [\A c \in Conn : Whole(c)]_vars
  BY <1>1
<1> QED
  BY <1>2, Initially, Inductive, InitProgress, InductiveProgress, PTL DEF Spec, AnswersAreWhole

-----------------------------------------------------------------------------
(* Wifi                                                                     *)

\* Whoever is inside holds the mutex; the thread announces only a connection
\* that it has made, and looks at a link that it denies only if it came up late.
WifiInv ==
  /\ W!TypeOK
  /\ m_connection = "wifi_up" <=> wifi_up = "broadcast"
  /\ \A u \in W!User : user[u] = "held" <=> m_connection = u
  /\ wifi_up = "broadcast" => is_connected
  /\ wifi_link /\ ~is_connected /\ wifi_up \in {"check", "sleep"} => late
  /\ W!NoSleeperWhenConnected

\* No network has been joined at first, and nobody waits.
LEMMA WifiInit == W!Init => WifiInv
BY DEF W!Init, WifiInv, W!TypeOK, W!NoSleeperWhenConnected, W!User

\* The thread's own steps.
LEMMA ConnectToWifiStep == WifiInv /\ W!ConnectToWifi => WifiInv'
<1> SUFFICES ASSUME WifiInv, W!ConnectToWifi
             PROVE  WifiInv'
  OBVIOUS
<1> USE DEF WifiInv, W!TypeOK, W!NoSleeperWhenConnected, W!User
<1>1. CASE W!CheckLink
  BY <1>1 DEF W!CheckLink
<1>2. CASE W!ClearConnected
  BY <1>2 DEF W!ClearConnected
<1>3. CASE W!ConnectReturns
  BY <1>3 DEF W!ConnectReturns
<1>4. CASE W!SetConnected
  BY <1>4 DEF W!SetConnected
<1>5. CASE W!Broadcast
  BY <1>5 DEF W!Broadcast
<1>6. CASE W!Awake
  BY <1>6 DEF W!Awake
<1> QED
  BY <1>1, <1>2, <1>3, <1>4, <1>5, <1>6 DEF W!ConnectToWifi

\* wifi_wait_for_connection() of either user: a user waits only for a thread that
\* is not connected.
LEMMA WaitForConnectionStep ==
  ASSUME WifiInv, NEW u \in W!User, W!WaitForConnection(u)
  PROVE  WifiInv'
<1> USE DEF WifiInv, W!TypeOK, W!NoSleeperWhenConnected, W!User, W!UserGoes
<1>1. CASE W!Lock(u)
  BY <1>1 DEF W!Lock
<1>2. CASE W!TestConnected(u)
  BY <1>2 DEF W!TestConnected
<1> QED
  BY <1>1, <1>2 DEF W!WaitForConnection

\* Steps outside the mutex move one user between places where nobody holds it.
LEMMA OutsideStep ==
  ASSUME WifiInv, NEW u \in W!User, NEW p, UNCHANGED <<W!wifi, server, late>>,
         user' = [user EXCEPT ![u] = p], user[u] # "held",
         p \in {"test", "lock", "connected", "accept", "accept_failed", "exited",
                "asked", "unanswered", "retry", "rtc_set"}
  PROVE  WifiInv'
BY DEF WifiInv, W!TypeOK, W!NoSleeperWhenConnected, W!User, W!wifi

\* Every step of Wifi keeps its invariant.
LEMMA WifiStep == WifiInv /\ [W!Next]_wifi => WifiInv'
<1> SUFFICES ASSUME WifiInv, [W!Next]_wifi
             PROVE  WifiInv'
  OBVIOUS
<1>u. "listener" \in W!User /\ "sntp" \in W!User
  BY DEF W!User
<1>1. CASE W!ConnectToWifi
  BY <1>1, ConnectToWifiStep
<1>2. CASE W!ListenerWaits
  BY <1>2, <1>u, WaitForConnectionStep, OutsideStep
  DEF W!ListenerWaits, W!TestListener, W!UserGoes
<1>3. CASE W!Accept
  BY <1>3, <1>u, OutsideStep DEF W!Accept, W!UserGoes
<1>4. CASE W!SetRtc
  <2>1. CASE W!WaitForConnection("sntp")
    BY <2>1, <1>u, WaitForConnectionStep
  <2>2. CASE W!Ask
    BY <2>2, <1>u, OutsideStep DEF W!Ask, W!UserGoes
  <2>3. CASE W!Answered
    BY <2>3, <1>u, OutsideStep DEF W!Answered, W!UserGoes
  <2>4. CASE W!ReceiveTimesOut
    BY <2>4, <1>u, OutsideStep DEF W!ReceiveTimesOut, W!UserGoes
  <2>5. CASE W!Retry
    BY <2>5, <1>u, OutsideStep DEF W!Retry, W!UserGoes
  <2> QED
    BY <1>4, <2>1, <2>2, <2>3, <2>4, <2>5 DEF W!SetRtc
<1> USE DEF WifiInv, W!TypeOK, W!NoSleeperWhenConnected, W!wifi
<1>5. CASE W!LinkUp
  BY <1>5 DEF W!LinkUp
<1>6. CASE W!LinkDown
  BY <1>6 DEF W!LinkDown
<1>7. CASE W!ServerChanges
  BY <1>7 DEF W!ServerChanges
<1>8. CASE UNCHANGED wifi
  BY <1>8 DEF wifi
<1> QED
  BY <1>1, <1>2, <1>3, <1>4, <1>5, <1>6, <1>7, <1>8 DEF W!Next

-----------------------------------------------------------------------------
(* Mqtt                                                                     *)

\* No id is known before it is given, so that a connection made later is never
\* the one that a message was tested for; only the event loop acts.
MqttInv ==
  /\ Q!TypeOK
  /\ Q!OneConnection /\ Q!SentWhereMeant /\ Q!OnlyAlertsAreGarbled
  /\ \A m \in Message :
       /\ tested[m] <= last_id
       /\ message[m] = "new" => acted_on[m] = {}
       /\ ~text[m] => m \in Alert

\* Nothing has been published, and nothing is connected.
LEMMA MqttInit == Q!Init => MqttInv
BY BoundsAssumption
DEF Q!Init, MqttInv, Q!TypeOK, Q!OneConnection, Q!SentWhereMeant, Q!OnlyAlertsAreGarbled, Q!NULL

\* What a thread and the event loop do with one message.
LEMMA MessageStep ==
  ASSUME MqttInv, NEW m \in Message,
         Q!Test(m) \/ Q!Wakeup(m) \/ Q!AlertReturns(m) \/ Q!Act(m) \/ Q!Drop(m)
  PROVE  MqttInv'
<1> USE BoundsAssumption
    DEF MqttInv, Q!TypeOK, Q!OneConnection, Q!SentWhereMeant, Q!OnlyAlertsAreGarbled,
        Q!NULL, Q!conn
<1>1. CASE Q!Test(m)
  BY <1>1 DEF Q!Test
<1>2. CASE Q!Wakeup(m)
  BY <1>2 DEF Q!Wakeup
<1>3. CASE Q!AlertReturns(m)
  BY <1>3 DEF Q!AlertReturns
<1>4. CASE Q!Act(m)
  BY <1>4 DEF Q!Act
<1>5. CASE Q!Drop(m)
  BY <1>5 DEF Q!Drop
<1> QED
  BY <1>1, <1>2, <1>3, <1>4, <1>5

\* Every step of Mqtt keeps its invariant.
LEMMA MqttStep == MqttInv /\ [Q!Next]_mqtt => MqttInv'
<1> SUFFICES ASSUME MqttInv, [Q!Next]_mqtt
             PROVE  MqttInv'
  OBVIOUS
<1>1. ASSUME NEW m \in Message,
             Q!Test(m) \/ Q!Wakeup(m) \/ Q!AlertReturns(m) \/ Q!Act(m) \/ Q!Drop(m)
      PROVE  MqttInv'
  BY <1>1, MessageStep
<1> USE BoundsAssumption
    DEF MqttInv, Q!TypeOK, Q!OneConnection, Q!SentWhereMeant, Q!OnlyAlertsAreGarbled, Q!NULL
<1>2. CASE Q!Reconnect
  BY <1>2 DEF Q!Reconnect
<1>3. ASSUME NEW c \in mq_open, Q!Close(c)
      PROVE  MqttInv'
  BY <1>3 DEF Q!Close
<1>4. CASE UNCHANGED mqtt
  BY <1>4 DEF mqtt
<1> QED
  BY <1>1, <1>2, <1>3, <1>4 DEF Q!Next

-----------------------------------------------------------------------------
(* Hid                                                                      *)

\* What the module promises is inductive.
HidInv == H!TypeOK /\ H!NoRequestIsForgotten /\ H!LockIsHeldByWhoUsesIt

\* The thread starts with a request of its own, and no lock is taken.
LEMMA HidInit == H!Init => HidInv
<1> SUFFICES ASSUME H!Init
             PROVE  HidInv
  OBVIOUS
<1>1. can_send_now \in BOOLEAN /\ requested \in BOOLEAN /\ gave_away \in BOOLEAN
  BY DEF H!Init
<1> QED
  BY <1>1 DEF H!Init, HidInv, H!TypeOK, H!NoRequestIsForgotten, H!LockIsHeldByWhoUsesIt

\* The thread: only its first unlock() can be of another's lock.
LEMMA CsnStep == HidInv /\ H!Csn => HidInv'
<1> SUFFICES ASSUME HidInv, H!Csn
             PROVE  HidInv'
  OBVIOUS
<1> USE NamesAssumption
    DEF HidInv, H!TypeOK, H!NoRequestIsForgotten, H!LockIsHeldByWhoUsesIt
<1>1. CASE H!TakeFirst
  BY <1>1 DEF H!TakeFirst
<1>2. CASE H!Take
  BY <1>2 DEF H!Take
<1>3. CASE H!Unlock
  BY <1>3 DEF H!Unlock
<1>4. CASE H!Ask
  BY <1>4 DEF H!Ask
<1>5. CASE H!CsnLocks
  BY <1>5 DEF H!CsnLocks
<1>6. CASE H!Wait
  BY <1>6 DEF H!Wait
<1> QED
  BY <1>1, <1>2, <1>3, <1>4, <1>5, <1>6 DEF H!Csn

\* Every step of Hid keeps its invariant.
LEMMA HidStep == HidInv /\ [H!Next]_hid => HidInv'
<1> SUFFICES ASSUME HidInv, [H!Next]_hid
             PROVE  HidInv'
  OBVIOUS
<1>1. CASE H!Csn
  BY <1>1, CsnStep
<1> USE NamesAssumption
    DEF HidInv, H!TypeOK, H!NoRequestIsForgotten, H!LockIsHeldByWhoUsesIt
<1>2. ASSUME NEW u \in HidUser, H!UserLocks(u)
      PROVE  HidInv'
  BY <1>2 DEF H!UserLocks
<1>3. ASSUME NEW u \in HidUser, H!UserSets(u)
      PROVE  HidInv'
  BY <1>3 DEF H!UserSets
<1>4. ASSUME NEW u \in HidUser, H!UserSignals(u)
      PROVE  HidInv'
  BY <1>4 DEF H!UserSignals
<1>5. CASE H!connected
  BY <1>5 DEF H!connected
<1>6. CASE H!disconnected
  <2>1. hid_cid' = 0 /\ ~requested'
    BY <1>6 DEF H!disconnected
  <2>2. requested' \in BOOLEAN
    BY <1>6, Zenon DEF H!disconnected
  <2> QED
    BY <1>6, <2>1, <2>2 DEF H!disconnected
<1>7. CASE H!CanSendNow
  BY <1>7 DEF H!CanSendNow
<1>8. CASE UNCHANGED hid
  BY <1>8 DEF hid
<1> QED
  BY <1>1, <1>2, <1>3, <1>4, <1>5, <1>6, <1>7, <1>8 DEF H!Next

-----------------------------------------------------------------------------
(* BluetoothAudio: the sound                                                *)

\* A stream that plays has its handler's configuration, which only a stream that
\* does not play can change; an open stream is one of a connection, and is known
\* not to play.
SinkInv ==
  /\ B!SinkTypeOK
  /\ stream = "streaming" => media_initialized /\ on_configure = configuration
  /\ stream = "open" => a2dp_cid # 0 /\ stream_state # "PLAYING"
  /\ B!SinkKnowsTheStream

\* No phone has connected.
LEMMA SinkStart == B!SinkInit => SinkInv
<1> SUFFICES ASSUME B!SinkInit
             PROVE  SinkInv
  OBVIOUS
<1>1. {on_configure, pcm_as} \subseteq Config \cup {B!Default, B!None}
  BY DEF B!SinkInit
<1>2. reconfigure \in BOOLEAN /\ media_initialized \in BOOLEAN /\ late_packet \in BOOLEAN
  BY DEF B!SinkInit
<1> QED
  BY <1>1, <1>2 DEF B!SinkInit, SinkInv, B!SinkTypeOK, B!SinkKnowsTheStream

\* Every step of the sink keeps its invariant.
LEMMA SinkStep == SinkInv /\ [B!SinkNext]_sink => SinkInv'
<1> SUFFICES ASSUME SinkInv, [B!SinkNext]_sink
             PROVE  SinkInv'
  OBVIOUS
<1> USE DEF SinkInv, B!SinkTypeOK, B!SinkKnowsTheStream, B!Default, B!None
<1>1. ASSUME NEW c \in Config, B!MediaCodecSbcConfiguration(c)
      PROVE  SinkInv'
  BY <1>1 DEF B!MediaCodecSbcConfiguration
<1>2. CASE B!StreamEstablished
  BY <1>2 DEF B!StreamEstablished
<1>3. CASE B!StreamStarted
  BY <1>3 DEF B!StreamStarted
<1>4. CASE B!StreamSuspended
  BY <1>4 DEF B!StreamSuspended
<1>5. CASE B!StreamReleased
  BY <1>5 DEF B!StreamReleased
<1>6. CASE B!SignalingConnectionReleased
  <2>1. a2dp_cid' = 0 /\ ~media_initialized'
    BY <1>6 DEF B!SignalingConnectionReleased
  <2>2. media_initialized' \in BOOLEAN
    BY <1>6, Zenon DEF B!SignalingConnectionReleased
  <2> QED
    BY <1>6, <2>1, <2>2 DEF B!SignalingConnectionReleased
<1>7. CASE B!MediaPacket
  BY <1>7 DEF B!MediaPacket
<1>8. CASE UNCHANGED sink
  BY <1>8 DEF sink
<1> QED
  BY <1>1, <1>2, <1>3, <1>4, <1>5, <1>6, <1>7, <1>8 DEF B!SinkNext

-----------------------------------------------------------------------------
(* BluetoothAudio: the remote control                                       *)

\* What the module promises is inductive.
AvrcpInv == B!AvrcpTypeOK /\ B!CommandsReachAConnection /\ B!OnlyOthersEclipse

\* No phone has connected.
LEMMA AvrcpStart == B!AvrcpInit => AvrcpInv
BY BoundsAssumption
DEF B!AvrcpInit, AvrcpInv, B!AvrcpTypeOK, B!CommandsReachAConnection, B!OnlyOthersEclipse,
    B!is_established, B!Cid, B!Playback

\* Every step of the remote control keeps its invariant.
LEMMA AvrcpStep == AvrcpInv /\ [B!AvrcpNext]_avrcp => AvrcpInv'
<1> SUFFICES ASSUME AvrcpInv, [B!AvrcpNext]_avrcp
             PROVE  AvrcpInv'
  OBVIOUS
<1> USE BoundsAssumption
    DEF AvrcpInv, B!AvrcpTypeOK, B!CommandsReachAConnection, B!OnlyOthersEclipse,
        B!is_established, B!Cid, B!Playback
<1>1. ASSUME NEW c \in B!Cid, B!established(c)
      PROVE  AvrcpInv'
  BY <1>1 DEF B!established, B!Eclipse
<1>2. ASSUME NEW c \in B!Cid, B!released(c)
      PROVE  AvrcpInv'
  BY <1>2 DEF B!released, B!Eclipse
<1>3. ASSUME NEW c \in B!Cid, B!connect(c)
      PROVE  AvrcpInv'
  BY <1>3 DEF B!connect
<1>4. ASSUME NEW c \in B!Cid, NEW k \in Notification, B!add_notification(c, k)
      PROVE  AvrcpInv'
  BY <1>4 DEF B!add_notification
<1>5. ASSUME NEW c \in B!Cid, NEW s \in B!Playback, B!PlaybackStatusChanged(c, s)
      PROVE  AvrcpInv'
  BY <1>5 DEF B!PlaybackStatusChanged
<1>6. CASE B!disconnect
  BY <1>6 DEF B!disconnect
<1>7. ASSUME NEW s \in B!Playback, B!set_playback_status(s)
      PROVE  AvrcpInv'
  BY <1>7 DEF B!set_playback_status
<1>8. CASE UNCHANGED avrcp
  BY <1>8 DEF avrcp
<1> QED
  BY <1>1, <1>2, <1>3, <1>4, <1>5, <1>6, <1>7, <1>8 DEF B!AvrcpNext

-----------------------------------------------------------------------------
(* All of them                                                              *)

\* The inductive invariant: that of every part, whether it runs or not.
NetInv == part \in Parts /\ WifiInv /\ MqttInv /\ HidInv /\ SinkInv /\ AvrcpInv

\* Every part starts in its invariant.
LEMMA InitNetInv == NetInit => NetInv
BY WifiInit, MqttInit, HidInit, SinkStart, AvrcpStart DEF NetInit, NetInv

\* A step is a step of one part, and leaves the others as they are.
LEMMA OneStepAtATime ==
  [NetNext]_netVars =>
    /\ UNCHANGED part
    /\ [W!Next]_wifi /\ [Q!Next]_mqtt /\ [H!Next]_hid
    /\ [B!SinkNext]_sink /\ [B!AvrcpNext]_avrcp
<1> SUFFICES ASSUME [NetNext]_netVars
             PROVE  /\ UNCHANGED part
                    /\ [W!Next]_wifi /\ [Q!Next]_mqtt /\ [H!Next]_hid
                    /\ [B!SinkNext]_sink /\ [B!AvrcpNext]_avrcp
  OBVIOUS
<1>1. CASE OnTheAir
  BY <1>1 DEF OnTheAir, OnWifi
<1>2. CASE Client
  BY <1>2 DEF Client, OnMqtt
<1>3. CASE Device
  BY <1>3 DEF Device, OnHid
<1>4. CASE Sound
  BY <1>4 DEF Sound
<1>5. CASE RemoteControl
  BY <1>5 DEF RemoteControl
<1>6. CASE UNCHANGED netVars
  BY <1>6 DEF netVars
<1> QED
  BY <1>1, <1>2, <1>3, <1>4, <1>5, <1>6 DEF NetNext

\* Every step keeps the invariant of every part.
LEMMA NextNetInv == NetInv /\ [NetNext]_netVars => NetInv'
BY OneStepAtATime, WifiStep, MqttStep, HidStep, SinkStep, AvrcpStep DEF NetInv

\* A packet of a stream that plays is sized for what the handler was told.
LEMMA PacketIsAsAnnounced ==
  NetInv /\ [NetNext]_netVars =>
    [B!MediaPacket => late_packet' \/ pcm_as' = on_configure]_B!sinkVars
BY DEF NetInv, SinkInv, B!MediaPacket, B!SinkTypeOK

\* The invariant of every part holds in every reachable state.
THEOREM NetInvThm == NetSpec => []NetInv
<1> QED
  BY InitNetInv, NextNetInv, PTL DEF NetSpec

\* What an object remembers of a connection is what the connection is: the WiFi
\* thread, the MQTT client, the HID device, the sink and the remote control.
THEOREM ConnectionsAreAsRememberedThm == NetSpec => ConnectionsAreAsRemembered
<1> DEFINE Remembered ==
      /\ NetTypeOK
      /\ W!NoSleeperWhenConnected /\ W!DeniesOnlyLateLink
      /\ Q!OneConnection /\ Q!SentWhereMeant /\ Q!OnlyAlertsAreGarbled
      /\ H!NoRequestIsForgotten /\ H!LockIsHeldByWhoUsesIt
      /\ B!SinkKnowsTheStream
      /\ B!CommandsReachAConnection /\ B!OnlyOthersEclipse
    Announced == stream = "streaming" => media_initialized /\ on_configure = configuration
<1>1. NetInv => Remembered
  BY DEF NetInv, WifiInv, MqttInv, HidInv, SinkInv, AvrcpInv, NetTypeOK, W!DeniesOnlyLateLink
<1>2. NetInv => Announced
  BY DEF NetInv, SinkInv
<1>3. NetSpec => []Remembered
  <2> HIDE DEF Remembered
  <2> QED
    BY <1>1, NetInvThm, PTL
<1>4. NetSpec => []Announced
  <2> HIDE DEF Announced
  <2> QED
    BY <1>2, NetInvThm, PTL
<1>5. NetSpec => [][B!MediaPacket => late_packet' \/ pcm_as' = on_configure]_B!sinkVars
  BY NetInvThm, PacketIsAsAnnounced, PTL DEF NetSpec
<1> QED
  BY <1>3, <1>4, <1>5 DEF ConnectionsAreAsRemembered, B!DataIsAsAnnounced

===============================================================================
