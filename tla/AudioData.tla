------------------------------ MODULE AudioData ------------------------------
(***************************************************************************)
(* The data of a sound on their way from a file to a player: the buffers   *)
(* that files are read through, the walk of wav_open() through the chunks  *)
(* of such a buffer, and the frames that are taken from the one it finds.  *)
(* Each is a specification of its own, with its own variables.             *)
(***************************************************************************)
EXTENDS Integers, Sequences, SequencesExt, FiniteSetsExt

-----------------------------------------------------------------------------
(***************************************************************************)
(* core/buffer.cpp: a FileBuffer, and beside it a MemoryBuffer of the same *)
(* bytes to which the same calls are made.  The file is NBytes long and    *)
(* belongs to the C library or FreeRTOS-FAT: it has a position of its own, *)
(* which the buffer's `at' is meant to follow.                             *)
(*                                                                         *)
(* get_sub_buffer() opens the file again and leaves it at its beginning;   *)
(* the start of a buffer that is a sub-buffer itself is left out, there    *)
(* and in seek_rel().                                                      *)
(***************************************************************************)

CONSTANTS NBytes, MaxSeek   \* how far beyond the ends seeks go

VARIABLES
  at, start, max_bytes,   \* the FileBuffer; max_bytes is -1 for a whole file
  file_pos,               \* the position in the file
  mem_at, mem_n, mem_start,  \* the MemoryBuffer, whose bytes begin at mem_start
  unplaced,               \* history: a seek_abs() within the buffer is still to come
  nested                  \* history: the buffer is a sub-buffer of a sub-buffer, or of
                          \* a buffer that was not placed

bufferVars == <<at, start, max_bytes, file_pos, mem_at, mem_n, mem_start, unplaced, nested>>

BufferTypeOK ==
  /\ {at, file_pos} \subseteq (-2 * MaxSeek)..(2 * (NBytes + MaxSeek))
  /\ start \in 0..(NBytes + MaxSeek) /\ max_bytes \in -1..NBytes
  /\ mem_n \in 0..NBytes /\ mem_at \in 0..mem_n /\ mem_start \in 0..NBytes
  /\ unplaced \in BOOLEAN /\ nested \in BOOLEAN

\* file_buffer_open()
BufferInit ==
  /\ at = 0 /\ start = 0 /\ max_bytes = -1 /\ file_pos = 0
  /\ mem_at = 0 /\ mem_n = NBytes /\ mem_start = 0
  /\ unplaced = FALSE /\ nested = FALSE

Least(a, b) == IF a < b THEN a ELSE b
Clamp(x, hi) == IF x < 0 THEN 0 ELSE Least(x, hi)
Left == IF file_pos < NBytes THEN NBytes - file_pos ELSE 0

\* What read() asks the file for; a negative number is a huge size_t.
Clipped(n) == IF max_bytes >= 0 /\ at + n > max_bytes THEN max_bytes - at ELSE n

\* Mutant: at follows what was asked for.
Advance_asked(n) == Clipped(n)

\* And what it gets.
Advance(n) == IF Clipped(n) < 0 THEN Left ELSE Least(Clipped(n), Left)

read(n) ==
  /\ at' = at + Advance(n)
  /\ file_pos' = file_pos + Advance(n)
  /\ mem_at' = mem_at + Least(n, mem_n - mem_at)
  /\ UNCHANGED <<start, max_bytes, mem_n, mem_start, unplaced, nested>>

\* fseek() and ff_fseek() refuse a negative position.
Seek(p) == file_pos' = IF p < 0 THEN file_pos ELSE p

\* A seek that the two treat differently: to the end of a sub-buffer or beyond
\* it (the FileBuffer stops one byte before), or beyond a whole file or an
\* empty sub-buffer (which it does not clamp).
Beyond(p) == p > mem_n \/ (max_bytes > 0 /\ p >= max_bytes)

seek_abs(p) ==
  /\ at' = IF max_bytes > 0 THEN Clamp(p, max_bytes - 1) ELSE IF p < 0 THEN 0 ELSE p
  /\ Seek(start + at')
  /\ mem_at' = Clamp(p, mem_n)
  /\ unplaced' = Beyond(p)
  /\ UNCHANGED <<start, max_bytes, mem_n, mem_start, nested>>

seek_rel(d) ==
  /\ at + d \in -MaxSeek..(NBytes + MaxSeek)
  /\ at' = at + d
  /\ Seek(at')
  /\ mem_at' = Clamp(mem_at + d, mem_n)
  /\ unplaced' = (unplaced \/ start # 0 \/ mem_at + d \notin 0..mem_n)
  /\ UNCHANGED <<start, max_bytes, mem_n, mem_start, nested>>

\* The caller goes on with the sub-buffer, as wav_open() does.  A MemoryBuffer
\* gives none that would be longer than what is left.
get_sub_buffer(n) ==
  /\ mem_at + n <= mem_n /\ at >= 0 /\ at <= NBytes + MaxSeek
  /\ start' = at /\ max_bytes' = n
  /\ at' = 0 /\ file_pos' = 0
  /\ mem_start' = mem_start + mem_at /\ mem_n' = n /\ mem_at' = 0
  /\ unplaced' = (start' # 0)
  /\ nested' = (nested \/ max_bytes # -1 \/ unplaced)

BufferNext ==
  \E n \in 0..NBytes :
    \/ n > 0 /\ read(n)
    \/ get_sub_buffer(n)
    \/ \E d \in {-MaxSeek, 0, MaxSeek} : seek_abs(n + d) \/ seek_rel(n + d)

BufferSpec == BufferInit /\ [][BufferNext]_bufferVars

-----------------------------------------------------------------------------
(* Properties.                                                              *)

\* Through all reads and seeks a FileBuffer is where a MemoryBuffer of the same
\* bytes would be, except: a sub-buffer that does not begin at 0 until its
\* first seek_abs() within it (as AudioBuffer::reset() makes) and after a
\* seek_rel(); from a seek_abs() to the end of a sub-buffer or beyond the end of
\* any buffer, or a seek_rel() beyond either end, until the next seek_abs()
\* within it; and sub-buffers of sub-buffers or of a buffer in such a state.
\* Elsewhere at is never beyond the end, so that read() never asks for more
\* bytes than its caller did.
LikeMemory ==
  ~unplaced /\ ~nested =>
    /\ at = mem_at /\ start = mem_start /\ file_pos = start + at
    /\ max_bytes >= 0 => at <= max_bytes

-----------------------------------------------------------------------------
(***************************************************************************)
(* audio/wav.cpp: wav_open() walks through the chunks of a file, from one  *)
(* header to the next, until it finds the audio data.  RIFF puts a pad     *)
(* byte behind a chunk of odd size, which the code does not skip; bytes    *)
(* that are no header are taken for one all the same, with any id and      *)
(* size.  A read at the end of the buffer leaves the header as it was.     *)
(*                                                                         *)
(* Header and Fmt are the bytes of a chunk's header and of the format (8   *)
(* and 16 in the code), Sizes those of a chunk's data.                     *)
(***************************************************************************)

CONSTANTS Header, Fmt, Sizes, MaxChunks

Id == {"fmt", "data", "other"}
Chunk == [id : Id, sz : Sizes]

VARIABLES
  chunks,        \* the file, a sequence of chunks behind the RIFF header
  wav_at,        \* the position in the buffer
  chunk_header,  \* the header that is in the variable
  has_fmt,       \* fmt has been read
  wav,           \* "read", "switch", "opened"
  audio_data     \* where the sub-buffer begins

wavVars == <<chunks, wav_at, chunk_header, has_fmt, wav, audio_data>>

Padded(sz) == sz + (sz % 2)
\* Where the header of the i-th chunk is; of the one behind the last: the end.
At(i) ==
  LET header_at[k \in 1..(Len(chunks) + 1)] ==
        IF k = 1 THEN 0 ELSE header_at[k - 1] + Header + Padded(chunks[k - 1].sz)
  IN  header_at[i]
NFile == At(Len(chunks) + 1)

WavTypeOK ==
  /\ chunks \in BoundedSeq(Chunk, MaxChunks)
  /\ wav_at \in 0..NFile
  /\ chunk_header \in Chunk
  /\ has_fmt \in BOOLEAN
  /\ wav \in {"read", "switch", "opened"}
  /\ audio_data \in -1..NFile

\* The RIFF header has been read.  A format chunk holds a format.
WavInit ==
  /\ chunks \in {c \in BoundedSeq(Chunk, MaxChunks) : \A i \in DOMAIN c : c[i].id = "fmt" => c[i].sz >= Fmt}
  /\ wav_at = 0
  /\ chunk_header \in Chunk  \* not initialised
  /\ has_fmt = FALSE
  /\ wav = "read" /\ audio_data = -1

\* Buffer::read() of a MemoryBuffer, which ends at its end.
After(n) == IF wav_at + n > NFile THEN NFile ELSE wav_at + n

ReadHeader ==
  /\ wav = "read" /\ wav_at < NFile
  /\ chunk_header' \in IF \E i \in DOMAIN chunks : At(i) = wav_at
                         THEN {chunks[CHOOSE i \in DOMAIN chunks : At(i) = wav_at]}
                         ELSE Chunk
  /\ wav_at' = After(Header)
  /\ wav' = "switch"
  /\ UNCHANGED <<chunks, has_fmt, audio_data>>

\* Nothing is read, and nobody looks: the last header is used again.
ReadNothing ==
  /\ wav = "read" /\ wav_at = NFile
  /\ wav' = "switch"
  /\ UNCHANGED <<chunks, wav_at, chunk_header, has_fmt, audio_data>>

ReadFormat ==
  /\ wav = "switch" /\ chunk_header.id = "fmt"
  /\ has_fmt' = (has_fmt \/ wav_at + Fmt <= NFile)
  /\ wav_at' = After(IF chunk_header.sz > Fmt THEN chunk_header.sz ELSE Fmt)
  /\ wav' = "read"
  /\ UNCHANGED <<chunks, chunk_header, audio_data>>

\* get_sub_buffer() is NULL when less than sz is left.
FoundData ==
  /\ wav = "switch" /\ chunk_header.id = "data"
  /\ audio_data' = IF wav_at + chunk_header.sz <= NFile THEN wav_at ELSE -1
  /\ wav' = "opened"
  /\ UNCHANGED <<chunks, wav_at, chunk_header, has_fmt>>

\* Mutant: the skip starts where the header did.
SkipUnknown_short ==
  /\ wav = "switch" /\ chunk_header.id = "other"
  /\ wav_at' = IF chunk_header.sz > Header THEN After(chunk_header.sz - Header) ELSE wav_at
  /\ wav' = "read"
  /\ UNCHANGED <<chunks, chunk_header, has_fmt, audio_data>>

SkipUnknown ==
  /\ wav = "switch" /\ chunk_header.id = "other"
  /\ wav_at' = After(chunk_header.sz)
  /\ wav' = "read"
  /\ UNCHANGED <<chunks, chunk_header, has_fmt, audio_data>>

WavNext == ReadHeader \/ ReadNothing \/ ReadFormat \/ FoundData \/ SkipUnknown

WavSpec == WavInit /\ [][WavNext]_wavVars

-----------------------------------------------------------------------------
(* Properties.                                                              *)

Data == {i \in DOMAIN chunks : chunks[i].id = "data"}
\* Every chunk before the data (before the end, when there are none) is even.
Even == \A i \in DOMAIN chunks : (\A d \in Data : i < d) => chunks[i].sz % 2 = 0

\* In a file with chunks, those before the audio data of even sizes, wav_open()
\* finds the data of the first data chunk, with a format if one came before;
\* and it walks on beyond the end, for ever, only in a file without data.
FindsAudio ==
  chunks # <<>> /\ Even =>
    /\ wav = "opened" => Data # {} /\ audio_data = At(Min(Data)) + Header
    /\ wav = "opened" /\ (\E i \in DOMAIN chunks : chunks[i].id = "fmt" /\ i < Min(Data)) => has_fmt
    /\ wav_at = NFile /\ wav = "read" => Data = {}

-----------------------------------------------------------------------------
(***************************************************************************)
(* audio/include/audio-buffer.h: the frames of a sound, taken from blocks  *)
(* of its bytes; and the two that count them, TalkingSkullAudioOps         *)
(* (audio/talking-skull-from-audio.cpp) and TalkingSkull::set_ops(), which *)
(* ends the program when the counts disagree.  How set_ops() meets the     *)
(* skull's thread is in TalkingSkull.                                      *)
(*                                                                         *)
(* A byte is its number in the file.  What a position of the skull is made *)
(* of is left out.                                                         *)
(***************************************************************************)

CONSTANTS
  Lengths,        \* of the data, in bytes
  a_block,
  Channels, SampleBytes,
  Averages        \* n_per_sample and n_to_avg

VARIABLES
  n_bytes, num_channels, bytes_per_sample, n_per_sample, n_to_avg,
  buf_at,         \* where the buffer stands
  n_block,        \* the block is the last n_block bytes before it
  block_pos,
  frame,          \* the last frame: left and right, each a sequence of bytes
  n_frames,       \* history: frames since the buffer was at its start
  skull_ops       \* set_ops(): what it has counted, and how it ended; history:
                  \* whether it began with the buffer at its start

format == <<n_bytes, num_channels, bytes_per_sample, n_per_sample, n_to_avg>>
reading == <<buf_at, n_block, block_pos, frame, n_frames>>
soundVars == <<format, reading, skull_ops>>

NoFrame == [l |-> <<>>, r |-> <<>>]

SoundTypeOK ==
  /\ buf_at \in 0..n_bytes
  /\ n_block \in 0..a_block /\ block_pos \in 0..a_block
  /\ skull_ops.at \in {"out", "next", "fatal", "assert"}
  /\ skull_ops.n \in 0..n_bytes /\ skull_ops.i \in 0..(n_per_sample * n_to_avg - 1)
  /\ skull_ops.late \in BOOLEAN

SoundInit ==
  /\ n_bytes \in Lengths /\ num_channels \in Channels /\ bytes_per_sample \in SampleBytes
  /\ n_per_sample \in Averages /\ n_to_avg \in Averages
  /\ buf_at = 0 /\ n_block = 0 /\ block_pos = 0
  /\ frame = NoFrame /\ n_frames = 0
  /\ skull_ops = [at |-> "out", n |-> 0, i |-> 0, late |-> FALSE]

-----------------------------------------------------------------------------
(* AudioBuffer                                                              *)

FrameBytes == num_channels * bytes_per_sample

\* Mutant: the position in the block stays.
Refill_no_reset(s) ==
  LET n == IF n_bytes - s.at < a_block THEN n_bytes - s.at ELSE a_block IN
  [s EXCEPT !.at = @ + n, !.n = n, !.pos = IF n = 0 THEN @ ELSE 1, !.ok = n > 0]

\* buffer->read(block, a_block)
Refill(s) ==
  LET n == IF n_bytes - s.at < a_block THEN n_bytes - s.at ELSE a_block IN
  [s EXCEPT !.at = @ + n, !.n = n, !.pos = IF n = 0 THEN @ ELSE 0, !.ok = n > 0]

TakeByte(s) == [s EXCEPT !.pos = @ + 1, !.bytes = Append(@, s.at - s.n + s.pos)]

\* One round of the inner loop, unless next() has returned.
NextByte(s) ==
  LET filled == IF s.pos >= s.n THEN Refill(s) ELSE s IN
  IF ~s.ok THEN s ELSE IF filled.ok THEN TakeByte(filled) ELSE filled

\* The state after next(), and the bytes it has taken: a frame, if ok.
AfterFrame ==
  LET taken[i \in 0..FrameBytes] ==
        IF i = 0
          THEN [at |-> buf_at, n |-> n_block, pos |-> block_pos, ok |-> TRUE, bytes |-> <<>>]
          ELSE NextByte(taken[i - 1])
  IN  taken[FrameBytes]

\* One channel is both sides; of two the second is the right one.
FrameOf(bytes) ==
  [l |-> SubSeq(bytes, 1, bytes_per_sample),
   r |-> SubSeq(bytes, FrameBytes - bytes_per_sample + 1, FrameBytes)]

next ==
  LET s == AfterFrame IN
  /\ buf_at' = s.at /\ n_block' = s.n /\ block_pos' = s.pos
  /\ frame' = IF s.ok THEN FrameOf(s.bytes) ELSE NoFrame
  /\ n_frames' = IF s.ok THEN n_frames + 1 ELSE n_frames

reset ==
  /\ skull_ops.at = "out"
  /\ buf_at' = 0 /\ n_block' = 0 /\ block_pos' = 0
  /\ frame' = NoFrame /\ n_frames' = 0
  /\ UNCHANGED <<format, skull_ops>>

\* AudioBuffer::get_bytes_per_sample() is 2, whatever the data's is.
get_n_samples == (n_bytes \div num_channels) \div 2

-----------------------------------------------------------------------------
(* TalkingSkullAudioOps and TalkingSkull::set_ops()                         *)

get_n_ops == (get_n_samples \div n_per_sample) \div n_to_avg

\* The constructor of the ops resets the buffer; a second set_ops() of the same
\* ops does not.
set_ops ==
  /\ skull_ops.at = "out"
  /\ skull_ops' = [at |-> "next", n |-> 0, i |-> 0, late |-> buf_at > 0]
  /\ UNCHANGED <<format, reading>>

\* A frame of ops->next(): the last of an op stores it, and the first that is
\* missing ends the loop.
OpsNext ==
  /\ skull_ops.at = "next"
  /\ next
  /\ skull_ops' =
       IF ~AfterFrame.ok
         THEN [skull_ops EXCEPT !.at = IF skull_ops.n = get_n_ops THEN "out" ELSE "assert"]
       ELSE IF skull_ops.i + 1 < n_per_sample * n_to_avg THEN [skull_ops EXCEPT !.i = @ + 1]
       ELSE IF skull_ops.n >= get_n_ops THEN [skull_ops EXCEPT !.at = "fatal"]
       ELSE [skull_ops EXCEPT !.n = @ + 1, !.i = 0]
  /\ UNCHANGED format

\* Others take frames too: a player, or the skull's own program.
Frame ==
  /\ skull_ops.at = "out"
  /\ next
  /\ UNCHANGED <<format, skull_ops>>

SoundNext == reset \/ set_ops \/ OpsNext \/ Frame

SoundSpec == SoundInit /\ [][SoundNext]_soundVars

-----------------------------------------------------------------------------
(* Properties.                                                              *)

Numbered(from, n) == [i \in 1..n |-> from + i - 1]

\* However the blocks fall on the frames, the n-th frame is made of the n-th
\* frame's bytes, each side of its own.
FramesAreWhole ==
  frame # NoFrame =>
    LET from == (n_frames - 1) * FrameBytes IN
    /\ frame.l = Numbered(from, bytes_per_sample)
    /\ frame.r = Numbered(from + (num_channels - 1) * bytes_per_sample, bytes_per_sample)

\* The frames that next() gives are those that get_n_samples() counts, so that
\* set_ops() neither gives up nor fails its assertion; unless a sample is not two
\* bytes, or the buffer was not at its start.
OpsAreCounted ==
  skull_ops.at \in {"fatal", "assert"} => bytes_per_sample # 2 \/ skull_ops.late

=============================================================================
