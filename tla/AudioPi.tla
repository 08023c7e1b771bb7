------------------------------- MODULE AudioPi -------------------------------
(***************************************************************************)
(* audio/audio-pi.cpp: finding a sound device of ALSA that plays a         *)
(* configuration.  The handle that was opened is kept while the            *)
(* configuration is the same, and configure() then says true without a     *)
(* look at it.                                                             *)
(*                                                                         *)
(* ALSA is external: pcm_open() gives a handle, ready or not, or none; a   *)
(* device may come and go between two calls.                               *)
(***************************************************************************)
EXTENDS Naturals, FiniteSets

CONSTANTS
  Config,      \* channels, rate and format
  MaxCards, MaxDevices,
  Preference   \* what the constructor may be given: <<card, device>>, -1 for any

VARIABLES
  preferred,   \* card and device
  pcm,         \* alsa->pcm: its place, and whether it is ready
  config,      \* alsa->config
  mixer,       \* the card whose volume has been set; MaxCards: none
  playable,    \* ALSA: the places that are ready, for each configuration
  configured   \* history: what configure() last said, and what it was asked for

vars == <<preferred, pcm, config, mixer, playable, configured>>

Place == (0..MaxCards - 1) \X (0..MaxDevices - 1)
NoPcm == [place |-> <<>>, ready |-> FALSE]
Pcm == [place : Place, ready : BOOLEAN]
NoMixer == MaxCards

TypeOK ==
  /\ preferred \in Preference
  /\ pcm \in Pcm \cup {NoPcm}
  /\ config \in Config
  /\ mixer \in 0..MaxCards
  /\ playable \in [Config -> SUBSET Place]
  /\ configured \in [said : {"nothing", "yes", "no"}, asked : Config]

Init ==
  /\ preferred \in Preference
  /\ pcm = NoPcm
  /\ config \in Config   \* not initialised
  /\ mixer = NoMixer
  /\ playable = [c \in Config |-> {}]
  /\ configured = [said |-> "nothing", asked |-> config]

-----------------------------------------------------------------------------

\* The loops over cards and devices end at the first that is ready, and forget
\* the handles of the others.
Before(p, q) == p[1] < q[1] \/ (p[1] = q[1] /\ p[2] < q[2])
FirstReady(places, c) ==
  LET ready == places \cap playable[c] IN
  IF ready = {} THEN NoPcm
  ELSE [place |-> CHOOSE p \in ready : \A q \in ready \ {p} : Before(p, q), ready |-> TRUE]

\* The device that the constructor was given is kept even when it is not ready;
\* of a card alone, the first device that is.
OpenPreferred(c) ==
  IF preferred \in Place
    THEN IF preferred \in playable[c] THEN {[place |-> preferred, ready |-> TRUE]}
         ELSE {[place |-> preferred, ready |-> FALSE], NoPcm}
  ELSE {FirstReady({p \in Place : p[1] = preferred[1]}, c)}

\* Mutant: the configuration is compared, the handle is not.
Kept_without_handle(c) == config = c

Kept(c) == pcm # NoPcm /\ config = c

configure(c) ==
  /\ IF Kept(c)
       THEN /\ configured' = [said |-> "yes", asked |-> c]
            /\ UNCHANGED <<pcm, config, mixer>>
       ELSE \E p \in OpenPreferred(c) :
              LET found == IF p # NoPcm THEN p ELSE FirstReady(Place, c) IN
              /\ config' = c
              /\ pcm' = found
              /\ mixer' = IF found = NoPcm THEN mixer ELSE found.place[1]
              /\ configured' = [said |-> IF found.ready THEN "yes" ELSE "no", asked |-> c]
  /\ UNCHANGED <<preferred, playable>>

\* A device is taken, given back, plugged in or removed; a handle that is open
\* stays as it is.
DeviceChanges ==
  /\ \E c \in Config, p \in Place :
       playable' = [playable EXCEPT ![c] = (@ \ {p}) \cup ({p} \ @)]
  /\ UNCHANGED <<preferred, pcm, config, mixer, configured>>

Next == DeviceChanges \/ \E c \in Config : configure(c)

Spec == Init /\ [][Next]_vars

-----------------------------------------------------------------------------
(* Properties.                                                              *)

\* When configure() has said yes, there is a handle of what was asked for, it is
\* ready, and the volume of its card has been set; unless the constructor's own
\* device was not ready, whose handle is kept, so that configure() says no the
\* first time and yes from then on, and play() fails.
YesMeansReady ==
  configured.said = "yes" =>
    /\ pcm # NoPcm /\ config = configured.asked
    /\ mixer = pcm.place[1]
    /\ pcm.ready \/ pcm.place = preferred

\* It gives up only when no device could play, or when its own was not ready.
GivesUpLast ==
  [][\A c \in Config : configure(c) /\ configured'.said = "no" =>
       playable[c] = {} \/ pcm'.place = preferred]_vars

=============================================================================
