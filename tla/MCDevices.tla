------------------------------ MODULE MCDevices ------------------------------
(***************************************************************************)
(* The devices and their drivers, the buffers that sounds are read from,   *)
(* the canvas of a display, and how the HTTP server finds and fills its    *)
(* pages.  They do not interact, so one run checks them side by side, each *)
(* behaviour being one of one part.  The state space is the sum of theirs. *)
(***************************************************************************)
EXTENDS Integers, Sequences

CONSTANTS
  Gpio, Hz, BadHz, ServoHz,                              \* GpioPico
  MaxEvents, Handler,                                    \* GpioPi
  McpThread, Setup, Pin, McpInput, has_int, Failing,     \* Mcp23017
  MaxPosition, INT_MAX, Ranges,                          \* RotaryEncoder
  I2cThread, Byte, I2cTask, MAX_I2C, Address, Register,  \* I2c
  MaxPos, Percent, MaxWidened,                           \* Maestro
  NBytes, MaxSeek, Header, Fmt, Sizes, MaxChunks, \* AudioData: buffers and files
  Lengths, a_block, Channels, SampleBytes, Averages,     \* AudioData: frames
  Path, FilePath, MaxPieces,                             \* HttpdHandlers
  Width, Height, buffered_rows, Fills, Imports,          \* Canvas
  Config, MaxCards, MaxDevices, Preference,              \* AudioPi
  Sub, MaxAxis, MaxRamp, Slack                           \* AxisStepper

ASSUME GpioAssumption == Gpio \subseteq Nat /\ ServoHz \in Hz
ASSUME EventsAssumption == MaxEvents \in Nat /\ 0 \notin Handler
\* The thread that makes the inputs is one of those that set outputs.
ASSUME ExpanderAssumption == Setup \in McpThread /\ \A i \in DOMAIN McpInput : McpInput[i] \in Pin
ASSUME EncoderAssumption ==
  /\ MaxPosition \in Nat /\ INT_MAX \in Nat
  /\ Ranges \subseteq {r \in Int \X Int : r[1] <= r[2]}
\* The names of threads are none of the values that stand for nobody.
ASSUME BusAssumption ==
  /\ {"null", "free"} \cap I2cThread = {} /\ 0 \in Byte
  /\ MAX_I2C \in Nat /\ Address \in [I2cTask -> Nat \ {0}] /\ Register # {}
ASSUME ServoAssumption == MaxPos \in Nat \ {0} /\ MaxWidened \in Nat /\ Percent \subseteq 0..100
ASSUME BufferAssumption == NBytes \in Nat /\ MaxSeek \in Nat
\* A header and a format are at least a byte, and so are a block and a sample.
ASSUME WavAssumption ==
  Header \in Nat \ {0} /\ Fmt \in Nat /\ Sizes \subseteq Nat /\ MaxChunks \in Nat
ASSUME SoundAssumption ==
  /\ Lengths \subseteq Nat /\ a_block \in Nat \ {0}
  /\ Channels \cup SampleBytes \cup Averages \subseteq Nat \ {0}
ASSUME AlsaAssumption == MaxCards \in Nat /\ MaxDevices \in Nat
\* A path is a sequence of names, and that of a file has at least one.
ASSUME PathAssumption == Path \subseteq Seq(STRING) /\ FilePath \subseteq Seq(STRING) \ {<<>>}
ASSUME PieceAssumption == MaxPieces \in Nat
\* The displays buffer 16 rows (st7796s.cpp:11); what is drawn starts at a pixel.
ASSUME CanvasAssumption ==
  /\ Width \in Nat \ {0} /\ Height \in Nat
  /\ buffered_rows \in Nat /\ buffered_rows >= 2
  /\ \A a \in Fills \cup Imports :
       a[1] \in Nat /\ a[2] \in Nat /\ a[3] \in Int /\ a[4] \in Int
\* The frame of an axis lets the carriage go at least a step beyond either end.
ASSUME AxisAssumption ==
  /\ Sub \in Nat \ {0} /\ MaxAxis \in Nat /\ MaxRamp \in Nat
  /\ Slack \in Nat /\ Slack >= Sub

VARIABLES
  part,  \* the part that runs
  state, channel_pins, hz, n_active, function, top_hz, enabled, level_by,
  line, events, irq_active, irq_f, irq_arg, irq_thread, event, called, setter,
  copy, device, call, input, inputs, clash, suspect,
  position, value, min_value, max_value, last_A, on_change, pending, late,
  moved,
  bus_lock, has_lock_fns, pointer, i2c_at, asked, answer,
  i2c_data, reg_of, task_at, fd, reg, open_raced, read_raced, write_lost,
  lo, hi, dev_lo, dev_hi, is_inverted, current_real_pos, dev_target, lost,
  torn, widened,
  at, start, max_bytes, file_pos, mem_at, mem_n, mem_start, unplaced, nested,
  chunks, wav_at, chunk_header, has_fmt, wav, audio_data,
  file_handlers, prefix_handlers, asked_for, missing, declined, response,
  pieces, old_payload, payload, cur, done,
  window, stored, drawing, strayed, mixed, misplaced,
  preferred, pcm, config, mixer, playable, configured,
  n_bytes, num_channels, bytes_per_sample, n_per_sample, n_to_avg, buf_at,
  n_block, block_pos, frame, n_frames, skull_ops,
  pos, wanted, homed, carriage

G == INSTANCE GpioPico
E == INSTANCE GpioPi
M == INSTANCE Mcp23017
R == INSTANCE RotaryEncoder
B == INSTANCE I2c
S == INSTANCE Maestro
W == INSTANCE AudioData
U == INSTANCE HttpdHandlers
V == INSTANCE Canvas
A == INSTANCE AudioPi
X == INSTANCE AxisStepper WITH MaxPos <- MaxAxis

\* What the constants are given to check: sets of tuples, and functions.
OneRange == {<<-1, 1>>}
TwoInputs == <<0, 0>>
OneApart == [t \in I2cTask |-> IF t = "a" THEN 1 ELSE 2]
FivePaths == {<<>>, <<"">>, <<"a">>, <<"a", "b">>, <<"a", "b", "c">>}
TwoFiles == {<<"">>, <<"a", "b">>}
AllFills == (0..2) \X (0..2) \X (0..2) \X (0..2)
SomeImports == (0..1) \X (0..1) \X {-1, 3} \X {-1, 3}
Preferences == {<<-1, -1>>, <<1, -1>>, <<0, 1>>}

Parts == {"gpio_pico", "gpio_pi", "mcp23017", "encoder", "i2c_pi", "i2c_pico",
         "maestro", "buffer", "wav_file", "uri", "page", "canvas", "alsa",
         "sound", "axis"}
gpio_pico == <<state, channel_pins, hz, n_active, function, top_hz, enabled,
               level_by>>
gpio_pi == <<line, events, irq_active, irq_f, irq_arg, irq_thread, event,
             called, setter>>
mcp23017 == <<copy, device, call, input, inputs, clash, suspect>>
encoder == <<position, value, min_value, max_value, last_A, on_change,
             pending, late, moved>>
i2c_pi == <<bus_lock, has_lock_fns, pointer, i2c_at, asked, answer>>
i2c_pico == <<i2c_data, reg_of, task_at, fd, reg, open_raced, read_raced,
              write_lost>>
maestro == <<lo, hi, dev_lo, dev_hi, is_inverted, current_real_pos,
             dev_target, lost, torn, widened>>
buffer == <<at, start, max_bytes, file_pos, mem_at, mem_n, mem_start,
            unplaced, nested>>
wav_file == <<chunks, wav_at, chunk_header, has_fmt, wav, audio_data>>
uri == <<file_handlers, prefix_handlers, asked_for, missing, declined, response>>
page == <<pieces, old_payload, payload, cur, done>>
canvas == <<window, stored, drawing, strayed, mixed, misplaced>>
alsa == <<preferred, pcm, config, mixer, playable, configured>>
sound == <<n_bytes, num_channels, bytes_per_sample, n_per_sample, n_to_avg,
           buf_at, n_block, block_pos, frame, n_frames, skull_ops>>
axis == <<pos, wanted, homed, carriage>>
vars == <<part, gpio_pico, gpio_pi, mcp23017, encoder, i2c_pi, i2c_pico,
          maestro, buffer, wav_file, uri, page, canvas, alsa, sound, axis>>

\* The choices of a part that does not run are fixed.
One(set) == CHOOSE x \in set : TRUE

Init ==
  /\ part \in Parts
  /\ G!Init /\ E!Init /\ M!Init /\ R!Init /\ B!PiInit /\ B!PicoInit /\ S!Init /\
     W!BufferInit /\ U!UriInit /\ V!Init
  /\ W!WavInit /\ (part = "wav_file" \/ <<chunks, chunk_header>> = <<<<>>, One(W!Chunk)>>)
  /\ U!PageInit /\ (part = "page" \/ pieces = <<>>)
  /\ A!Init /\ (part = "alsa" \/ <<preferred, config>> = <<One(Preference), One(Config)>>)
  /\ W!SoundInit /\ (part = "sound" \/ <<n_bytes, num_channels, bytes_per_sample,
                                   n_per_sample, n_to_avg>>
                       = <<One(Lengths), One(Channels), One(SampleBytes),
                           One(Averages), One(Averages)>>)
  /\ X!Init /\ (part = "axis" \/ carriage = 0)

Slice ==
  /\ part = "gpio_pico" /\ G!Next
  /\ UNCHANGED <<part, gpio_pi, mcp23017, encoder, i2c_pi, i2c_pico,
                 maestro, buffer, wav_file, uri, page, canvas, alsa, sound, axis>>
Edges ==
  /\ part = "gpio_pi" /\ E!Next
  /\ UNCHANGED <<part, gpio_pico, mcp23017, encoder, i2c_pi, i2c_pico,
                 maestro, buffer, wav_file, uri, page, canvas, alsa, sound, axis>>
Expander ==
  /\ part = "mcp23017" /\ M!Next
  /\ UNCHANGED <<part, gpio_pico, gpio_pi, encoder, i2c_pi, i2c_pico,
                 maestro, buffer, wav_file, uri, page, canvas, alsa, sound, axis>>
Encoder ==
  /\ part = "encoder" /\ R!Next
  /\ UNCHANGED <<part, gpio_pico, gpio_pi, mcp23017, i2c_pi, i2c_pico,
                 maestro, buffer, wav_file, uri, page, canvas, alsa, sound, axis>>
BusOnThePi ==
  /\ part = "i2c_pi" /\ B!PiNext
  /\ UNCHANGED <<part, gpio_pico, gpio_pi, mcp23017, encoder, i2c_pico,
                 maestro, buffer, wav_file, uri, page, canvas, alsa, sound, axis>>
BusOnThePico ==
  /\ part = "i2c_pico" /\ B!PicoNext
  /\ UNCHANGED <<part, gpio_pico, gpio_pi, mcp23017, encoder, i2c_pi,
                 maestro, buffer, wav_file, uri, page, canvas, alsa, sound, axis>>
Servo ==
  /\ part = "maestro" /\ S!Next
  /\ UNCHANGED <<part, gpio_pico, gpio_pi, mcp23017, encoder, i2c_pi,
                 i2c_pico, buffer, wav_file, uri, page, canvas, alsa,
                 sound, axis>>
BufferOfAFile ==
  /\ part = "buffer" /\ W!BufferNext
  /\ UNCHANGED <<part, gpio_pico, gpio_pi, mcp23017, encoder, i2c_pi,
                 i2c_pico, maestro, wav_file, uri, page, canvas, alsa,
                 sound, axis>>
WavFile ==
  /\ part = "wav_file" /\ W!WavNext
  /\ UNCHANGED <<part, gpio_pico, gpio_pi, mcp23017, encoder, i2c_pi,
                 i2c_pico, maestro, buffer, uri, page, canvas, alsa, sound, axis>>
Lookup ==
  /\ part = "uri" /\ U!UriNext
  /\ UNCHANGED <<part, gpio_pico, gpio_pi, mcp23017, encoder, i2c_pi,
                 i2c_pico, maestro, buffer, wav_file, page, canvas, alsa,
                 sound, axis>>
Substitution ==
  /\ part = "page" /\ U!PageNext
  /\ UNCHANGED <<part, gpio_pico, gpio_pi, mcp23017, encoder, i2c_pi,
                 i2c_pico, maestro, buffer, wav_file, uri, canvas, alsa,
                 sound, axis>>
Drawing ==
  /\ part = "canvas" /\ V!Next
  /\ UNCHANGED <<part, gpio_pico, gpio_pi, mcp23017, encoder, i2c_pi,
                 i2c_pico, maestro, buffer, wav_file, uri, page, alsa,
                 sound, axis>>
SoundDevice ==
  /\ part = "alsa" /\ A!Next
  /\ UNCHANGED <<part, gpio_pico, gpio_pi, mcp23017, encoder, i2c_pi,
                 i2c_pico, maestro, buffer, wav_file, uri, page, canvas,
                 sound, axis>>
Sound ==
  /\ part = "sound" /\ W!SoundNext
  /\ UNCHANGED <<part, gpio_pico, gpio_pi, mcp23017, encoder, i2c_pi,
                 i2c_pico, maestro, buffer, wav_file, uri, page, canvas,
                 alsa, axis>>

Axis ==
  /\ part = "axis" /\ X!Next
  /\ UNCHANGED <<part, gpio_pico, gpio_pi, mcp23017, encoder, i2c_pi,
                 i2c_pico, maestro, buffer, wav_file, uri, page, canvas,
                 alsa, sound>>

Next ==
  \/ Slice \/ Edges \/ Expander \/ Encoder \/ BusOnThePi \/ BusOnThePico \/
     Servo \/ BufferOfAFile \/ WavFile \/ Lookup \/ Substitution \/
     Drawing \/ SoundDevice \/ Sound \/ Axis

Spec == Init /\ [][Next]_vars

-----------------------------------------------------------------------------
(* The properties of the parts, by what they are about.                     *)

\* The type invariant of the part that runs.
TypeOK ==
  /\ part \in Parts
  /\ part = "gpio_pico" => G!TypeOK
  /\ part = "gpio_pi" => E!TypeOK
  /\ part = "mcp23017" => M!TypeOK
  /\ part = "encoder" => R!TypeOK
  /\ part = "i2c_pi" => B!PiTypeOK
  /\ part = "i2c_pico" => B!PicoTypeOK
  /\ part = "maestro" => S!TypeOK
  /\ part = "buffer" => W!BufferTypeOK
  /\ part = "wav_file" => W!WavTypeOK
  /\ part = "uri" => U!UriTypeOK
  /\ part = "page" => U!PageTypeOK
  /\ part = "canvas" => V!TypeOK
  /\ part = "alsa" => A!TypeOK
  /\ part = "sound" => W!SoundTypeOK
  /\ part = "axis" => X!TypeOK

\* What the software remembers of a device is what the device does: a PWM slice
\* counts its pins and runs at their frequency, and no pin takes another's
\* channel; the port expander has the registers of the copy, and the interrupt
\* of every input that waits for one; the controller has the target and the
\* range that the object remembers; the encoder's value is where the knob is;
\* a display shows the pixels that were set; a sound device that configure() has
\* promised is there; and an axis is where its steps have brought it.  Each
\* module names the exceptions.
DevicesAreAsRemembered ==
  /\ [](/\ part = "gpio_pico" => G!SliceServesItsPins
        /\ part = "mcp23017" => M!DeviceIsTheCopy /\ M!NotifyingIsEnabled
        /\ part = "maestro" => S!TargetIsRemembered /\ S!RangeIsTheControllers
        /\ part = "encoder" => R!CountsThePosition
        /\ part = "canvas" => V!ShowsWhatWasSet /\ V!StraysOnlyWhenMixed /\ V!StaysOnCanvas
        /\ part = "alsa" => A!YesMeansReady
        /\ part = "axis" => X!PosIsTheCarriage)
  /\ G!OnlyStaleServosIntrude
  /\ A!GivesUpLast
  /\ X!NeverPastTheTarget

\* What is read is what was asked for: the last edge of a burst, told to a
\* handler with its argument; the data of the register, and of the device, that
\* the reader selected, on a bus whose lock is never given back; the bytes that a buffer in memory would give; the audio
\* data of the first data chunk, in whole frames, as many as were counted; the
\* page of the longest prefix that has one, with its values in their places.
\* Each module names the exceptions.
DataAreAsAskedFor ==
  /\ [](/\ part = "gpio_pi" => E!LastEdgeIsReported
        /\ part = "i2c_pi" => B!ReadsOwnRegister
        /\ part = "i2c_pico" => B!ReadsItsRegister
        /\ part = "buffer" => W!LikeMemory
        /\ part = "wav_file" => W!FindsAudio
        /\ part = "sound" => W!FramesAreWhole /\ W!OpsAreCounted
        /\ part = "uri" => U!LongestPrefixAnswers
        /\ part = "page" => U!PageIsSubstituted)
  /\ E!HandlerGetsItsArg
  /\ B!FirstOperationIsTheLast

\* The handlers of the HTTP server alone, and what the header says of them:
\* include/httpd-server.h:257-259, the handler of / is searched for last.
UriSpec == Init /\ part = "uri" /\ [][Lookup]_vars
RootIsSearchedLast == U!RootIsSearchedLast

=============================================================================
