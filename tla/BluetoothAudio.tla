--------------------------- MODULE BluetoothAudio ---------------------------
(***************************************************************************)
(* net/bluetooth: a phone that plays to us. Its sound comes through the    *)
(* A2DP sink, its remote control through AVRCP; each is a specification of *)
(* its own, with its own variables.                                        *)
(***************************************************************************)
EXTENDS Naturals

-----------------------------------------------------------------------------
(***************************************************************************)
(* net/bluetooth/a2dp-sink.cpp and sbc-decoder.cpp: sound from a phone.    *)
(* The handler is told the configuration by on_configure() when a stream   *)
(* starts, and then gets blocks of on_pcm_data(), whose size is computed   *)
(* from the configuration that was received last.                          *)
(*                                                                         *)
(* The phone and the Bluetooth stack are modelled by the events they give, *)
(* in the order in which AVDTP allows them: a stream is configured, opened *)
(* and started, suspended and perhaps reconfigured, and released; media    *)
(* packets may arrive late, and a lost link releases everything.           *)
(***************************************************************************)

CONSTANT Config   \* the SBC configurations that a phone may choose

VARIABLES
  stream,             \* AVDTP: what the stack says of the stream
  a2dp_cid,           \* A2DPSinkConnection::a2dp_cid, 0 or 1
  stream_state,       \* A2DPSinkConnection::stream_state
  configuration,      \* SBCDecoder::configuration, as received last
  reconfigure,        \* SBCConfiguration::reconfigure
  media_initialized,  \* SBCDecoder::media_initialized
  on_configure,       \* what the handler was told last
  pcm_as,             \* what the last block of data was sized for
  late_packet         \* history: that block came while no stream was playing

sinkVars == <<stream, a2dp_cid, stream_state, configuration, reconfigure,
              media_initialized, on_configure, pcm_as, late_packet>>

\* num_channels = 2 and sampling_frequency = 44100, before anything is received.
Default == "default"
None == "none"

SinkTypeOK ==
  /\ stream \in {"idle", "configured", "open", "streaming"}
  /\ a2dp_cid \in 0..1
  /\ stream_state \in {"CLOSED", "OPEN", "PLAYING", "PAUSED"}
  /\ configuration \in Config \cup {Default}
  /\ reconfigure \in BOOLEAN /\ media_initialized \in BOOLEAN /\ late_packet \in BOOLEAN
  /\ {on_configure, pcm_as} \subseteq Config \cup {Default, None}

SinkInit ==
  /\ stream = "idle"
  /\ a2dp_cid = 0
  /\ stream_state = "CLOSED"
  /\ configuration = Default /\ reconfigure = FALSE
  /\ media_initialized = FALSE
  /\ on_configure = None /\ pcm_as = None /\ late_packet = FALSE

-----------------------------------------------------------------------------
(* A2DPSink::packet_handler()                                               *)

\* SBCConfiguration::receive(): the first configuration of a stream, or a new
\* one while it is open and not started.
MediaCodecSbcConfiguration(c) ==
  /\ stream \in {"idle", "open"}
  /\ configuration' = c
  /\ reconfigure' = (stream = "open")
  /\ stream' = IF stream = "idle" THEN "configured" ELSE stream
  /\ UNCHANGED <<a2dp_cid, stream_state, media_initialized, on_configure, pcm_as, late_packet>>

StreamEstablished ==
  /\ stream = "configured"
  /\ \/ /\ stream' = "open"
        /\ a2dp_cid' = 1
        /\ stream_state' = "OPEN"
     \/ stream' = "idle" /\ UNCHANGED <<a2dp_cid, stream_state>>   \* with an error
  /\ UNCHANGED <<configuration, reconfigure, media_initialized, on_configure, pcm_as, late_packet>>

\* Mutant: a decoder that is initialised already is left as it is.
StreamStarted_kept ==
  /\ stream = "open"
  /\ stream' = "streaming"
  /\ stream_state' = "PLAYING"
  /\ on_configure' = IF media_initialized THEN on_configure ELSE configuration
  /\ media_initialized' = TRUE
  /\ UNCHANGED <<a2dp_cid, configuration, reconfigure, pcm_as, late_packet>>

\* media_close() if needs_reconfiguration(), and media_init() in any case.
StreamStarted ==
  /\ stream = "open"
  /\ stream' = "streaming"
  /\ stream_state' = "PLAYING"
  /\ on_configure' = configuration
  /\ media_initialized' = TRUE
  /\ UNCHANGED <<a2dp_cid, configuration, reconfigure, pcm_as, late_packet>>

\* decoder->pause() keeps the decoder.
StreamSuspended ==
  /\ stream = "streaming"
  /\ stream' = "open"
  /\ stream_state' = "PAUSED"
  /\ UNCHANGED <<a2dp_cid, configuration, reconfigure, media_initialized, on_configure, pcm_as, late_packet>>

StreamReleased ==
  /\ stream \in {"open", "streaming"}
  /\ stream' = "idle"
  /\ stream_state' = "CLOSED"
  /\ media_initialized' = FALSE
  /\ UNCHANGED <<a2dp_cid, configuration, reconfigure, on_configure, pcm_as, late_packet>>

\* After the stream was released, or with the link, and then alone.
SignalingConnectionReleased ==
  /\ a2dp_cid # 0
  /\ a2dp_cid' = 0
  /\ stream' = "idle"
  /\ media_initialized' = FALSE
  /\ UNCHANGED <<stream_state, configuration, reconfigure, on_configure, pcm_as, late_packet>>

-----------------------------------------------------------------------------
(* SBCDecoder::packet_handler()                                             *)

\* The decoder is not asked whether it is initialised or started, so that a
\* packet that comes after the suspend, or the release, is decoded as well.
\* (Before the first stream there is no packet.)
MediaPacket ==
  /\ on_configure # None
  /\ pcm_as' = configuration
  /\ late_packet' = (stream # "streaming")
  /\ UNCHANGED <<stream, a2dp_cid, stream_state, configuration, reconfigure, media_initialized, on_configure>>

SinkNext ==
  \/ \E c \in Config : MediaCodecSbcConfiguration(c)
  \/ StreamEstablished \/ StreamStarted \/ StreamSuspended \/ StreamReleased
  \/ SignalingConnectionReleased
  \/ MediaPacket

SinkSpec == SinkInit /\ [][SinkNext]_sinkVars

-----------------------------------------------------------------------------
(* Properties.                                                              *)

\* Data of a stream that plays has the form that its handler was told last, after
\* any suspends, reconfigurations, releases and lost links; only a packet
\* that came late may have another.
DataIsAsAnnounced ==
  /\ [](stream = "streaming" => media_initialized /\ on_configure = configuration)
  /\ [][MediaPacket => late_packet' \/ pcm_as' = on_configure]_sinkVars

\* The sink knows that a stream plays; it believes so of one that does not only
\* when the link was lost under it.
SinkKnowsTheStream ==
  /\ stream = "streaming" => stream_state = "PLAYING" /\ a2dp_cid # 0
  /\ stream_state = "PLAYING" /\ stream # "streaming" => stream \in {"idle", "configured"}

-----------------------------------------------------------------------------
(***************************************************************************)
(* net/bluetooth/avrcp.cpp and avrcp-connection.cpp: the remote control of *)
(* phones.  One AVRCPConnection remembers one connection id, 0 for none,   *)
(* and every event of every connection writes to it.                       *)
(*                                                                         *)
(* The Bluetooth stack and the phones are modelled by their events.  The   *)
(* application calls AVRCP from its own thread, between two events.        *)
(***************************************************************************)

CONSTANTS
  MaxCid,        \* the connections: 1..MaxCid, one for each phone
  Notification   \* the events that a phone may support

VARIABLES
  channel,            \* the stack: the state of each connection
  cid,                \* AVRCPConnection::cid
  notifications_supported_by_target,
  playback_status,    \* AVRCP::playback_status
  eclipsed            \* history: connections up while the last event was of another

avrcpVars == <<channel, cid, notifications_supported_by_target, playback_status, eclipsed>>

Cid == 1..MaxCid
Playback == {"STOPPED", "PLAYING", "PAUSED"}

AvrcpTypeOK ==
  /\ channel \in [Cid -> {"none", "connecting", "up", "disconnecting"}]
  /\ cid \in 0..MaxCid
  /\ notifications_supported_by_target \subseteq Notification
  /\ playback_status \in Playback
  /\ eclipsed \subseteq Cid

AvrcpInit ==
  /\ channel = [c \in Cid |-> "none"]
  /\ cid = 0
  /\ notifications_supported_by_target = {}
  /\ playback_status = "STOPPED"
  /\ eclipsed = {}

is_established == cid # 0

\* An event of c takes the object from every other connection.
Eclipse(c) == eclipsed' = {d \in Cid \ {c} : channel[d] = "up"}

-----------------------------------------------------------------------------
(* AVRCP::packet_handler()                                                  *)

\* CONNECTION_ESTABLISHED: of connect(), or of a phone that has connected.
established(c) ==
  /\ channel[c] \in {"none", "connecting"}
  /\ \/ channel' = [channel EXCEPT ![c] = "up"] /\ cid' = c
     \/ channel' = [channel EXCEPT ![c] = "none"] /\ cid' = 0  \* its status is an error
  /\ Eclipse(c)
  /\ UNCHANGED <<notifications_supported_by_target, playback_status>>

\* Mutant: the connection's own release is not noticed.
released_ignored(c) ==
  /\ channel[c] \in {"up", "disconnecting"}
  /\ channel' = [channel EXCEPT ![c] = "none"]
  /\ eclipsed' = eclipsed \ {c}
  /\ UNCHANGED <<cid, notifications_supported_by_target, playback_status>>

\* CONNECTION_RELEASED, whichever connection it was.
released(c) ==
  /\ channel[c] \in {"up", "disconnecting"}
  /\ channel' = [channel EXCEPT ![c] = "none"]
  /\ cid' = 0
  /\ notifications_supported_by_target' = {}
  /\ Eclipse(c)
  /\ UNCHANGED <<playback_status>>

-----------------------------------------------------------------------------
(* The controller's events                                                  *)

\* GET_CAPABILITY_EVENT_ID and NOTIFICATION_PLAYBACK_STATUS_CHANGED, of a
\* connection that is up; dropped if the object has none.
add_notification(c, n) ==
  /\ channel[c] = "up" /\ is_established
  /\ notifications_supported_by_target' = notifications_supported_by_target \cup {n}
  /\ UNCHANGED <<channel, cid, playback_status, eclipsed>>

PlaybackStatusChanged(c, s) ==
  /\ channel[c] = "up" /\ is_established
  /\ playback_status' = s
  /\ UNCHANGED <<channel, cid, notifications_supported_by_target, eclipsed>>

-----------------------------------------------------------------------------
(* The application                                                          *)

\* avrcp_connect() gives the id at once, long before the connection is up.
connect(c) ==
  /\ ~is_established
  /\ channel[c] = "none"
  /\ channel' = [channel EXCEPT ![c] = "connecting"]
  /\ cid' = c
  /\ UNCHANGED <<notifications_supported_by_target, playback_status, eclipsed>>

\* avrcp_disconnect() of a connection that is not up yet fails.
disconnect ==
  /\ is_established
  /\ channel' = [channel EXCEPT ![cid] = IF @ = "up" THEN "disconnecting" ELSE @]
  /\ cid' = 0
  /\ UNCHANGED <<notifications_supported_by_target, playback_status, eclipsed>>

\* The peers are told PLAYING, whatever the status; a connection that is not up
\* refuses.
set_playback_status(s) ==
  /\ is_established /\ channel[cid] = "up"
  /\ playback_status' = s
  /\ UNCHANGED <<channel, cid, notifications_supported_by_target, eclipsed>>

AvrcpNext ==
  \/ \E c \in Cid :
       \/ established(c) \/ released(c) \/ connect(c)
       \/ \E n \in Notification : add_notification(c, n)
       \/ \E s \in Playback : PlaybackStatusChanged(c, s)
  \/ disconnect
  \/ \E s \in Playback : set_playback_status(s)

AvrcpSpec == AvrcpInit /\ [][AvrcpNext]_avrcpVars

-----------------------------------------------------------------------------
(* Properties.                                                              *)

\* A command goes to a connection that the stack still knows: volume_up() and
\* the others never use the id of one that has ended.
CommandsReachAConnection == is_established => channel[cid] # "none"

\* A connection that is up can be commanded, unless an event of another one, or
\* a disconnect() of another that crossed it, has taken its place.
OnlyOthersEclipse == \A c \in Cid : channel[c] = "up" => c = cid \/ c \in eclipsed

=============================================================================
