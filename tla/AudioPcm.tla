------------------------------ MODULE AudioPcm ------------------------------
(***************************************************************************)
(* The playback PCM of an audio subdevice (src/audio/pcm.c): opening a     *)
(* substream starts device IO and waits, with a timeout, for the first     *)
(* timestamp message; later timestamps move the stream's reference time,   *)
(* from which aaudio_pcm_pointer computes the ALSA hardware position.      *)
(* ALSA drives each substream through open, hw_params, prepare, trigger,   *)
(* hw_free and close; the hardware description ALSA is given at open is    *)
(* built by aaudio_create_hw_info from the device's stream description.    *)
(*                                                                         *)
(* Time is a clock now, in units of 1/NsPerSec seconds; NsPerSec stands    *)
(* for NSEC_PER_SEC at a scale TLC can enumerate.  All arithmetic is on    *)
(* non-negative operands except where the code subtracts, and there it is  *)
(* C's truncating division on a positive numerator, so \div matches.       *)
(***************************************************************************)
EXTENDS Integers, FiniteSets

CONSTANTS
    Subs,        \* playback substream numbers (out_streams[] indices)
    NsPerSec,    \* NSEC_PER_SEC, scaled
    BufferSize,  \* runtime->buffer_size in frames
    Rate,        \* runtime->rate in frames per second
    Latencies,   \* values of stream->latency + sdev->out_latency, in frames
    MaxTime,     \* bound on the clock
    DescFlags,   \* format flags a device stream description may carry
    DescBits,    \* bits_per_channel values a description may carry
    None         \* model value: no ALSA format (aaudio_get_alsa_fmtbit's 0)

ASSUME 0 \in Subs /\ Subs \subseteq Nat
ASSUME BufferSize > 0 /\ Rate > 0 /\ (NsPerSec * BufferSize) \div Rate > 0

VARIABLES
    opc,       \* substream -> where its open/close thread is
    done,      \* stream -> start_io_compl completed and not yet consumed
    needs,     \* stream -> needs_start_io_compl
    remoteTs,  \* stream -> remote_timestamp
    io,        \* device IO started (aaudio_cmd_start_io) and not stopped
    now,       \* ktime_get_boottime()
    lat,       \* stream -> stream->latency + sdev->out_latency
    desc,      \* stream -> the device's aaudio_apple_description
    bufs,      \* stream -> astream->buffer_cnt (0 or 1 here)
    rtHw       \* substream -> runtime->hw copied at open, or None

vars == <<opc, done, needs, remoteTs, io, now, lat, desc, bufs, rtHw>>

\* The states of a substream: inside aaudio_pcm_open, then the ALSA states
\* the callbacks move it through once open returned.
Opened == {"open", "setup", "prepared", "running"}

\* aaudio_handle_timestamp uses sdev->pcm->streams[PLAYBACK].substream, the
\* first playback substream, whose aaudio_pcm_stream is out_streams[0].
Head == 0

\* aaudio_pcm_pointer.
Pointer(s) ==
    LET t      == now - remoteTs[s]
        btl    == (NsPerSec * BufferSize) \div Rate   \* buffer_time_length
        frames == ((t % btl) * BufferSize) \div btl - lat[s]
    IN IF frames < 0
       THEN frames + ((-frames - 1) \div btl + 1) * btl
       ELSE frames

\* The position the pointer approximates: the frames elapsed since the
\* reference time, less the latency, wrapped into the buffer.
PointerRef(s) ==
    LET t == now - remoteTs[s]
    IN ((t * Rate) \div NsPerSec - lat[s]) % BufferSize

-----------------------------------------------------------------------------
\* Sample formats.  A description is [flags, bits]: flags the set of its
\* AAUDIO_FORMAT_FLAG_ bits, bits its bits_per_channel.  An ALSA format,
\* one SNDRV_PCM_FMTBIT_ value, is [kind, width, phys, be]: signed,
\* unsigned or float samples of width significant bits in phys-bit
\* containers, big- or little-endian; S24_3LE is [S, 24, 24, FALSE] and
\* S24_LE is [S, 24, 32, FALSE].

Descs == [flags : SUBSET DescFlags, bits : DescBits]

Fmt(kind, width, phys, be) ==
    [kind |-> kind, width |-> width, phys |-> phys, be |-> be]

\* DEFINE_BPC_OPTION(val, b): the signed or unsigned, big- or
\* little-endian format of ALSA width b (given as its width and container).
BpcOption(d, width, phys) ==
    Fmt(IF "SIGNED" \in d.flags THEN "S" ELSE "U", width, phys,
        "BIG_ENDIAN" \in d.flags)

\* Faulty variant of AlsaFmtbit: a high-aligned 24-bit sample is given the
\* low-aligned 24-bit format.
AlsaFmtbitHighAsLow(d) ==
    IF "FLOAT" \in d.flags
    THEN IF d.bits \in {32, 64} THEN Fmt("F", d.bits, d.bits, "BIG_ENDIAN" \in d.flags)
         ELSE None
    ELSE IF "PACKED" \in d.flags /\ d.bits \notin {8, 16, 32}
    THEN IF d.bits = 24 THEN BpcOption(d, 24, 24) ELSE None
    ELSE IF "ALIGNED_HIGH" \in d.flags
    THEN IF d.bits = 24 THEN BpcOption(d, 24, 32) ELSE None
    ELSE IF d.bits = 8 THEN Fmt(IF "SIGNED" \in d.flags THEN "S" ELSE "U", 8, 8, FALSE)
    ELSE IF d.bits \in {16, 32} THEN BpcOption(d, d.bits, d.bits)
    ELSE IF d.bits = 24 THEN BpcOption(d, 24, 32)
    ELSE None

\* aaudio_get_alsa_fmtbit: float formats first; then a packed description
\* of 8, 16 or 32 bits falls through, 24 bits is S24_3 and any other width
\* is rejected; then a high-aligned description must be 24 bits (S32);
\* then the plain widths 8 (S8/U8, no byte order), 16, 24 (S24) and 32.
AlsaFmtbit(d) ==
    IF "FLOAT" \in d.flags
    THEN IF d.bits \in {32, 64} THEN Fmt("F", d.bits, d.bits, "BIG_ENDIAN" \in d.flags)
         ELSE None
    ELSE IF "PACKED" \in d.flags /\ d.bits \notin {8, 16, 32}
    THEN IF d.bits = 24 THEN BpcOption(d, 24, 24) ELSE None
    ELSE IF "ALIGNED_HIGH" \in d.flags
    THEN IF d.bits = 24 THEN BpcOption(d, 32, 32) ELSE None
    ELSE IF d.bits = 8 THEN Fmt(IF "SIGNED" \in d.flags THEN "S" ELSE "U", 8, 8, FALSE)
    ELSE IF d.bits \in {16, 32} THEN BpcOption(d, d.bits, d.bits)
    ELSE IF d.bits = 24 THEN BpcOption(d, 24, 32)
    ELSE None

\* aaudio_create_hw_info: the formats from aaudio_get_alsa_fmtbit (0 makes
\* it return -EINVAL) and the interleaved flag unless the description is
\* non-interleaved.  Rates, channels and period sizes are copied from the
\* description and are not modelled.
CreateHwInfo(d) ==
    [formats |-> AlsaFmtbit(d),
     interleaved |-> "NON_INTERLEAVED" \notin d.flags]

\* The reference the format is checked against.  A description's samples
\* sit in containers of bits bits when packed, otherwise in the smallest
\* of 8, 16, 32 or 64 bits that holds them, low-aligned unless ALIGNED_HIGH.
\* An ALSA format reads them right when it has the same kind, container
\* and (for containers wider than a byte) byte order, and either the same
\* width with the sample low in the container, or the full container with
\* the sample high in it (ALSA then sees the sample scaled, not shifted).
Container(d) ==
    IF "PACKED" \in d.flags THEN d.bits
    ELSE CHOOSE c \in {8, 16, 32, 64} :
             /\ c >= d.bits
             /\ \A c2 \in {8, 16, 32, 64} : c2 >= d.bits => c <= c2

SampleKind(d) ==
    IF "FLOAT" \in d.flags THEN "F"
    ELSE IF "SIGNED" \in d.flags THEN "S" ELSE "U"

ReadsRight(f, d) ==
    /\ f.kind = SampleKind(d)
    /\ f.phys = Container(d)
    /\ f.phys = 8 \/ f.be = ("BIG_ENDIAN" \in d.flags)
    /\ \/ f.width = d.bits
          /\ (d.bits = f.phys \/ "ALIGNED_HIGH" \notin d.flags)
       \/ f.width = f.phys /\ "ALIGNED_HIGH" \in d.flags

-----------------------------------------------------------------------------
\* aaudio_create_pcm: every substream closed, IO stopped.  The stream
\* descriptions and buffers are the device's, set up before the PCM is
\* created.
Init ==
    /\ opc = [s \in Subs |-> "closed"]
    /\ done = [s \in Subs |-> FALSE]
    /\ needs = [s \in Subs |-> FALSE]
    /\ remoteTs = [s \in Subs |-> 0]
    /\ io = FALSE
    /\ now = 0
    /\ lat \in [Subs -> Latencies]
    /\ desc \in [Subs -> Descs]
    /\ bufs \in [Subs -> {0, 1}]
    /\ rtHw = [s \in Subs |-> None]

\* aaudio_pcm_open, up to the unlock: runtime->hw is copied from the
\* stream's hardware description; under out_streams[0].start_io_sl,
\* reinit_completion and needs_start_io_compl = true on its own stream.
OpenArm(s) ==
    /\ opc[s] = "closed"
    /\ rtHw' = [rtHw EXCEPT ![s] = CreateHwInfo(desc[s])]
    /\ done' = [done EXCEPT ![s] = FALSE]
    /\ needs' = [needs EXCEPT ![s] = TRUE]
    /\ opc' = [opc EXCEPT ![s] = "starting"]
    /\ UNCHANGED <<remoteTs, io, now, lat, desc, bufs>>

\* aaudio_cmd_start_io for the whole subdevice.  The device starts IO, or
\* the command fails (no reply within 500 ms, or a reply that is not a
\* START_IO_RESPONSE); open ignores the status either way.
OpenStartIo(s) ==
    /\ opc[s] = "starting"
    /\ io' \in {TRUE, io}
    /\ opc' = [opc EXCEPT ![s] = "waiting"]
    /\ UNCHANGED <<done, needs, remoteTs, now, lat, desc, bufs, rtHw>>

\* wait_for_completion_timeout returns, completed or timed out (its result
\* is ignored); then remote_timestamp = ktime_get_boottime().
OpenWait(s) ==
    /\ opc[s] = "waiting"
    /\ \/ done[s] /\ done' = [done EXCEPT ![s] = FALSE]
       \/ ~done[s] /\ UNCHANGED done
    /\ remoteTs' = [remoteTs EXCEPT ![s] = now]
    /\ opc' = [opc EXCEPT ![s] = "open"]
    /\ UNCHANGED <<needs, io, now, lat, desc, bufs, rtHw>>

\* aaudio_pcm_hw_params succeeds when the stream has a buffer, and points
\* the runtime's DMA area at buffers[0]; without one it returns -EINVAL
\* and ALSA stays in the open state (no step).
HwParams(s) ==
    /\ opc[s] = "open"
    /\ bufs[s] > 0
    /\ opc' = [opc EXCEPT ![s] = "setup"]
    /\ UNCHANGED <<done, needs, remoteTs, io, now, lat, desc, bufs, rtHw>>

\* aaudio_pcm_prepare returns 0.
Prepare(s) ==
    /\ opc[s] = "setup"
    /\ opc' = [opc EXCEPT ![s] = "prepared"]
    /\ UNCHANGED <<done, needs, remoteTs, io, now, lat, desc, bufs, rtHw>>

\* aaudio_pcm_trigger returns 0 for START and STOP (for any substream but
\* #0 without looking at the command) and does nothing to the device:
\* ALSA moves the substream between prepared, running and setup.
Trigger(s) ==
    /\ \/ opc[s] = "prepared" /\ opc' = [opc EXCEPT ![s] = "running"]
       \/ opc[s] = "running" /\ opc' = [opc EXCEPT ![s] = "setup"]
    /\ UNCHANGED <<done, needs, remoteTs, io, now, lat, desc, bufs, rtHw>>

\* aaudio_pcm_hw_free returns 0.
HwFree(s) ==
    /\ opc[s] \in {"setup", "prepared"}
    /\ opc' = [opc EXCEPT ![s] = "open"]
    /\ UNCHANGED <<done, needs, remoteTs, io, now, lat, desc, bufs, rtHw>>

\* aaudio_pcm_close: aaudio_cmd_stop_io for the whole subdevice.
Close(s) ==
    /\ opc[s] = "open"
    /\ io' = FALSE
    /\ opc' = [opc EXCEPT ![s] = "closed"]
    /\ UNCHANGED <<done, needs, remoteTs, now, lat, desc, bufs, rtHw>>

\* aaudio_handle_timestamp, with os_timestamp the current time: the first
\* timestamp after an open completes its wait and is otherwise dropped;
\* later ones become the stream's remote_timestamp.
HandleTimestamp ==
    /\ io
    /\ IF needs[Head]
       THEN /\ done' = [done EXCEPT ![Head] = TRUE]
            /\ needs' = [needs EXCEPT ![Head] = FALSE]
            /\ UNCHANGED remoteTs
       ELSE /\ remoteTs' = [remoteTs EXCEPT ![Head] = now]
            /\ UNCHANGED <<done, needs>>
    /\ UNCHANGED <<opc, io, now, lat, desc, bufs, rtHw>>

Tick ==
    /\ now < MaxTime
    /\ now' = now + 1
    /\ UNCHANGED <<opc, done, needs, remoteTs, io, lat, desc, bufs, rtHw>>


Next ==
    \/ \E s \in Subs :
          \/ OpenArm(s) \/ OpenStartIo(s) \/ OpenWait(s) \/ HwParams(s) \/ Prepare(s)
          \/ Trigger(s) \/ HwFree(s) \/ Close(s)
    \/ HandleTimestamp
    \/ Tick

\* Only safety is checked of the PCM callbacks, so no fairness is assumed.
Spec == Init /\ [][Next]_vars

-----------------------------------------------------------------------------
(* Properties *)

TypeOK ==
    /\ opc \in [Subs -> {"closed", "starting", "waiting"} \cup Opened]
    /\ done \in [Subs -> BOOLEAN] /\ needs \in [Subs -> BOOLEAN]
    /\ remoteTs \in [Subs -> 0..MaxTime] /\ now \in 0..MaxTime
    /\ io \in BOOLEAN
    /\ lat \in [Subs -> Latencies]
    /\ desc \in [Subs -> Descs] /\ bufs \in [Subs -> {0, 1}]
    /\ \A s \in Subs : rtHw[s] = None \/ rtHw[s].formats = None
                       \/ rtHw[s].formats.kind \in {"S", "U", "F"}

\* While a substream is open, aaudio_pcm_pointer returns the position the
\* code approximates: the frames elapsed since the last timestamp, less the
\* latency, modulo the buffer size; in particular a position inside the
\* buffer, as ALSA requires of a .pointer callback.
PointerMatchesReference ==
    \A s \in Subs : opc[s] \in Opened => Pointer(s) = PointerRef(s)

\* The hardware description an open substream gives ALSA names a sample
\* format (aaudio_get_alsa_fmtbit) that reads the device's samples right,
\* by the container, alignment, signedness and byte order of the stream's
\* description (ReadsRight), or none at all.  A wrong pick plays noise at
\* full volume, and nothing in the driver would notice.
FormatMatchesDescription ==
    \A s \in Subs :
        rtHw[s] # None /\ rtHw[s].formats # None
            => ReadsRight(rtHw[s].formats, desc[s])

=============================================================================
