-------------------------------- MODULE MCNet --------------------------------
(***************************************************************************)
(* The network's clients and Bluetooth: WiFi and those who wait for it,    *)
(* MQTT, a HID device, the sound and the remote control of a phone.  They  *)
(* do not interact, so one run checks them side by side, each behaviour    *)
(* being one of one part.  The state space is the sum of theirs.           *)
(***************************************************************************)
EXTENDS Naturals

CONSTANTS
  Message, Alert, MaxId,          \* Mqtt
  HidUser,                        \* Hid
  Config, MaxCid, Notification    \* BluetoothAudio

ASSUME BoundsAssumption == MaxId \in Nat /\ MaxCid \in Nat

\* The names of the users are none of those of the thread and of nobody.
ASSUME NamesAssumption == {"csn", "free"} \cap HidUser = {}

VARIABLES
  part,  \* the part that runs
  is_connected, wifi_link, wifi_up, m_connection, user, server, late,
  mq_connection, mq_open, last_id, message, tested, to, acted_on, text, garbled,
  can_send_now, csn_lock, csn_thread, csn_user, hid_cid, requested, wanted,
  gave_away,
  stream, a2dp_cid, stream_state, configuration, reconfigure,
  media_initialized, on_configure, pcm_as, late_packet,
  channel, cid, notifications_supported_by_target, playback_status, eclipsed

W == INSTANCE Wifi
Q == INSTANCE Mqtt
H == INSTANCE Hid
B == INSTANCE BluetoothAudio

Parts == {"wifi", "mqtt", "hid", "sink", "avrcp"}
wifi == <<is_connected, wifi_link, wifi_up, m_connection, user, server, late>>
mqtt == <<mq_connection, mq_open, last_id, message, tested, to, acted_on,
          text, garbled>>
hid == <<can_send_now, csn_lock, csn_thread, csn_user, hid_cid, requested,
         wanted, gave_away>>
sink == <<stream, a2dp_cid, stream_state, configuration, reconfigure,
          media_initialized, on_configure, pcm_as, late_packet>>
avrcp == <<channel, cid, notifications_supported_by_target, playback_status,
           eclipsed>>
netVars == <<part, wifi, mqtt, hid, sink, avrcp>>

\* The choice of a part that does not run is fixed.
NetInit ==
  /\ part \in Parts
  /\ W!Init /\ Q!Init /\ H!Init /\ B!SinkInit /\ B!AvrcpInit
  /\ part = "wifi" \/ ~server

OnWifi(A) == part = "wifi" /\ A /\ UNCHANGED <<part, mqtt, hid, sink, avrcp>>
OnMqtt(A) == part = "mqtt" /\ A /\ UNCHANGED <<part, wifi, hid, sink, avrcp>>
OnHid(A) == part = "hid" /\ A /\ UNCHANGED <<part, wifi, mqtt, sink, avrcp>>

OnTheAir == OnWifi(W!Next)
Client == OnMqtt(Q!Next)
Device == OnHid(H!Next)
Sound ==
  /\ part = "sink" /\ B!SinkNext
  /\ UNCHANGED <<part, wifi, mqtt, hid, avrcp>>
RemoteControl ==
  /\ part = "avrcp" /\ B!AvrcpNext
  /\ UNCHANGED <<part, wifi, mqtt, hid, sink>>

NetNext == OnTheAir \/ Client \/ Device \/ Sound \/ RemoteControl

\* The fairness of each part, while it runs.
Fairness ==
  /\ SF_netVars(OnWifi(W!Running /\ W!ConnectToWifi))
  /\ SF_netVars(OnWifi(W!Running /\ W!ListenerWaits))
  /\ SF_netVars(OnWifi(W!Running /\ W!SetRtc))
  /\ WF_netVars(OnMqtt(Q!Reconnect))
  /\ \A m \in Message : WF_netVars(OnMqtt(Q!Act(m) \/ Q!Drop(m)))
  /\ SF_netVars(OnHid(csn_thread # "asserts" /\ H!Csn))
  /\ \A u \in HidUser :
       WF_netVars(OnHid(csn_thread # "asserts" /\ (H!UserSets(u) \/ H!UserSignals(u))))

NetSpec == NetInit /\ [][NetNext]_netVars /\ Fairness

-----------------------------------------------------------------------------
(* The properties of the parts, by what they are about.                     *)

\* The type invariant of every part.
NetTypeOK ==
  /\ part \in Parts
  /\ W!TypeOK /\ Q!TypeOK /\ H!TypeOK /\ B!SinkTypeOK /\ B!AvrcpTypeOK

\* What an object remembers of a connection is what the connection is: the WiFi
\* thread denies only a link that came up late, the MQTT client knows its one
\* connection, the sink its stream and the form of its data, and the remote
\* control commands only what the stack knows.  Each module names the
\* exceptions.
ConnectionsAreAsRemembered ==
  /\ [](/\ NetTypeOK
        /\ W!NoSleeperWhenConnected /\ W!DeniesOnlyLateLink
        /\ Q!OneConnection /\ Q!SentWhereMeant /\ Q!OnlyAlertsAreGarbled
        /\ H!NoRequestIsForgotten /\ H!LockIsHeldByWhoUsesIt
        /\ B!SinkKnowsTheStream
        /\ B!CommandsReachAConnection /\ B!OnlyOthersEclipse)
  /\ B!DataIsAsAnnounced

\* Whoever waits for the network goes on: the threads that wait for WiFi and for
\* the time, the client without a connection and its messages, and the user
\* of a HID device that wants to send.  A lost link is noticed.
RequestsAreAnswered ==
  /\ part = "wifi" => W!WaitersGoOn /\ W!LossIsNoticed
  /\ part = "mqtt" => Q!Reconnects /\ Q!MessagesEnd
  /\ part = "hid" => H!RequestsReachTheStack

=============================================================================
