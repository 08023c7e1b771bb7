---------------------------------- MODULE Wifi ----------------------------------
(***************************************************************************)
(* net/wifi.c, and the two threads that wait for it: NetListener           *)
(* (net/net-listener.cpp) and the setting of the clock (net/sntp.c).       *)
(*                                                                         *)
(* The "wifi_up" thread looks at the link every 5 s and connects it again  *)
(* when it is not up.  is_connected says what the thread has done, not     *)
(* what the link does: it is cleared without the lock, and set only by a   *)
(* connect that the thread made itself.                                    *)
(***************************************************************************)
EXTENDS Naturals, FiniteSets

VARIABLES
  is_connected,
  wifi_link,     \* cyw43: the status is CYW43_LINK_UP
  wifi_up,       \* where connect_to_wifi() is
  m_connection,  \* the user that holds the mutex, "wifi_up", or "free"
  user,          \* where each waiting thread is
  server,        \* the time server answers
  late           \* history: the link came up after the thread had given up on it

wifi == <<is_connected, wifi_link, wifi_up, m_connection>>
wifiVars == <<wifi, user, server, late>>

User == {"listener", "sntp"}

TypeOK ==
  /\ is_connected \in BOOLEAN /\ wifi_link \in BOOLEAN
  /\ wifi_up \in {"check", "clear", "connecting", "lock", "broadcast", "sleep"}
  /\ m_connection \in User \cup {"wifi_up", "free"}
  /\ user \in [User -> {"test", "lock", "held", "waiting", "woken", "connected",
                        "accept", "accept_failed", "exited",
                        "asked", "unanswered", "retry", "rtc_set"}]
  /\ server \in BOOLEAN /\ late \in BOOLEAN

\* wifi_init() has made the thread; no network has been joined yet.
Init ==
  /\ is_connected = FALSE /\ wifi_link = FALSE
  /\ wifi_up = "check"
  /\ m_connection = "free"
  /\ user = [u \in User |-> IF u = "listener" THEN "test" ELSE "lock"]
  /\ server \in BOOLEAN
  /\ late = FALSE

\* net_listen() has not called exit().
Running == user["listener"] # "exited"

UserGoes(u, p) == user' = [user EXCEPT ![u] = p]

-----------------------------------------------------------------------------
(* The network                                                              *)

LinkUp ==
  /\ ~wifi_link
  /\ wifi_link' = TRUE
  /\ late' = (wifi_up \in {"check", "sleep"} /\ ~is_connected)
  /\ UNCHANGED <<is_connected, wifi_up, m_connection, user, server>>

LinkDown ==
  /\ wifi_link
  /\ wifi_link' = FALSE
  /\ late' = FALSE
  /\ UNCHANGED <<is_connected, wifi_up, m_connection, user, server>>

ServerChanges ==
  /\ server' = ~server
  /\ UNCHANGED <<wifi, user, late>>

-----------------------------------------------------------------------------
(* connect_to_wifi()                                                        *)

CheckLink ==
  /\ wifi_up = "check"
  /\ wifi_up' = IF wifi_link THEN "sleep" ELSE "clear"
  /\ UNCHANGED <<is_connected, wifi_link, m_connection, user, server, late>>

ClearConnected ==
  /\ wifi_up = "clear"
  /\ is_connected' = FALSE
  /\ wifi_up' = "connecting"
  /\ UNCHANGED <<wifi_link, m_connection, user, server, late>>

\* cyw43_arch_wifi_connect_timeout_ms() waits for the link, or 30 s at most.
ConnectReturns ==
  /\ wifi_up = "connecting"
  /\ wifi_up' = IF wifi_link THEN "lock" ELSE "check"
  /\ UNCHANGED <<is_connected, wifi_link, m_connection, user, server, late>>

SetConnected ==
  /\ wifi_up = "lock" /\ m_connection = "free"
  /\ is_connected' = TRUE
  /\ m_connection' = "wifi_up"
  /\ wifi_up' = "broadcast"
  /\ UNCHANGED <<wifi_link, user, server, late>>

\* Mutant: pi_cond_signal().
Broadcast_one ==
  /\ wifi_up = "broadcast"
  /\ LET w == {u \in User : user[u] = "waiting"} IN
       user' = [user EXCEPT ![IF w = {} THEN "sntp" ELSE CHOOSE u \in w : TRUE] =
                  IF w = {} THEN @ ELSE "woken"]
  /\ m_connection' = "free"
  /\ wifi_up' = "check"
  /\ UNCHANGED <<is_connected, wifi_link, server, late>>

Broadcast ==
  /\ wifi_up = "broadcast"
  /\ user' = [u \in User |-> IF user[u] = "waiting" THEN "woken" ELSE user[u]]
  /\ m_connection' = "free"
  /\ wifi_up' = "check"
  /\ UNCHANGED <<is_connected, wifi_link, server, late>>

Awake ==
  /\ wifi_up = "sleep"
  /\ wifi_up' = "check"
  /\ UNCHANGED <<is_connected, wifi_link, m_connection, user, server, late>>

ConnectToWifi ==
  \/ CheckLink \/ ClearConnected \/ ConnectReturns \/ SetConnected \/ Broadcast \/ Awake

-----------------------------------------------------------------------------
(* wifi_wait_for_connection()                                               *)

Lock(u) ==
  /\ user[u] \in {"lock", "woken"} /\ m_connection = "free"
  /\ m_connection' = u
  /\ UserGoes(u, "held")
  /\ UNCHANGED <<is_connected, wifi_link, wifi_up, server, late>>

\* The test, and then the wait or the unlock.
TestConnected(u) ==
  /\ user[u] = "held"
  /\ UserGoes(u, IF ~is_connected THEN "waiting" ELSE IF u = "listener" THEN "test" ELSE "connected")
  /\ m_connection' = "free"
  /\ UNCHANGED <<is_connected, wifi_link, wifi_up, server, late>>

-----------------------------------------------------------------------------
(* NetListener::main()                                                      *)

\* while (! wifi_is_connected()), without the lock; then net_listen(), which
\* ends the program if it fails.
TestListener ==
  /\ user["listener"] = "test"
  /\ IF is_connected THEN \E p \in {"accept", "exited"} : UserGoes("listener", p)
                     ELSE UserGoes("listener", "lock")
  /\ UNCHANGED <<wifi, server, late>>

\* accept() gives a connection, for accepted(), or fails, and 5 s pass.
Accept ==
  /\ \/ user["listener"] = "accept" /\ \E p \in {"accept", "accept_failed"} : UserGoes("listener", p)
     \/ user["listener"] = "accept_failed" /\ UserGoes("listener", "accept")
  /\ UNCHANGED <<wifi, server, late>>

-----------------------------------------------------------------------------
(* net_sntp_set_pico_rtc()                                                  *)

\* net_sntp_time() connects the socket and sends, or fails; the request or
\* its answer is lost unless the server answers over a link that is up.
Ask ==
  /\ user["sntp"] = "connected"
  /\ \E p \in IF wifi_link THEN {IF server THEN "asked" ELSE "unanswered"} ELSE {"unanswered", "retry"} :
       UserGoes("sntp", p)
  /\ UNCHANGED <<wifi, server, late>>

Answered ==
  /\ user["sntp"] = "asked"
  /\ UserGoes("sntp", "rtc_set")
  /\ UNCHANGED <<wifi, server, late>>

\* Mutant: the socket has no SO_RCVTIMEO.
ReceiveTimesOut_never == FALSE /\ UNCHANGED wifiVars

\* The 30 s of the socket, net_connect_common(), pass without an answer.
ReceiveTimesOut ==
  /\ user["sntp"] \in {"asked", "unanswered"}
  /\ user["sntp"] = "unanswered" \/ ~server \/ ~wifi_link
  /\ UserGoes("sntp", "retry")
  /\ UNCHANGED <<wifi, server, late>>

Retry ==
  /\ user["sntp"] = "retry"
  /\ UserGoes("sntp", "connected")
  /\ UNCHANGED <<wifi, server, late>>

WaitForConnection(u) == Lock(u) \/ TestConnected(u)
ListenerWaits == WaitForConnection("listener") \/ TestListener
SetRtc == WaitForConnection("sntp") \/ Ask \/ Answered \/ ReceiveTimesOut \/ Retry

Next ==
  /\ Running
  /\ \/ ConnectToWifi \/ ListenerWaits \/ Accept \/ SetRtc
     \/ LinkUp \/ LinkDown \/ ServerChanges

\* Threads run while they are not blocked.  The mutex is never held for long, so
\* whoever wants it gets it.  accept() may wait for ever.
Fairness ==
  /\ SF_wifiVars(Running /\ ConnectToWifi)
  /\ SF_wifiVars(Running /\ ListenerWaits) /\ SF_wifiVars(Running /\ SetRtc)

Spec == Init /\ [][Next]_wifiVars /\ Fairness

-----------------------------------------------------------------------------
(* Properties.                                                              *)

\* Nobody waits beside a connection: one that waits while is_connected holds is
\* about to be woken by the broadcast.
NoSleeperWhenConnected ==
  \A u \in User : user[u] = "waiting" /\ is_connected => wifi_up = "broadcast"

\* The thread sleeps over a link that is up, and denies it, only if the link
\* came up after the thread's own attempt had failed: wifi_is_connected() then
\* stays FALSE for as long as the link is up.
DeniesOnlyLateLink ==
  wifi_link /\ ~is_connected /\ wifi_up = "sleep" => late

\* Once the link stays up, other than by such a late join, everyone who waits
\* for it goes on; and the clock is set once the server answers as well.
WaitersGoOn ==
  /\ <>[](wifi_link /\ ~late) =>
       \A u \in User : <>(~Running \/ user[u] \notin {"test", "lock", "held", "waiting", "woken"})
  /\ <>[](wifi_link /\ ~late /\ server) => <>(~Running \/ user["sntp"] = "rtc_set")

\* A link that stays down is noticed.
LossIsNoticed == <>[]~wifi_link => <>[](~Running \/ ~is_connected)

=============================================================================
