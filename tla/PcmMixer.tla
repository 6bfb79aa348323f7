------------------------------ MODULE PcmMixer ------------------------------
(***************************************************************************)
(* firmware/pcm_mixer.c over firmware/pcm.c and the pump of                *)
(* firmware/target/hosted/pcm-alsa.c: the sources of the player (local     *)
(* playback, radio, DLNA, USB, Bluetooth, voice, beep) each have a         *)
(* channel; the mixer adds the active ones up into two buffers that the    *)
(* poll thread copies to the device.                                       *)
(*                                                                         *)
(* Audio is counted in units of a chunk.  Source c hands out units 0, 1,   *)
(* 2, ...; a chunk is [start, start + size) of them.  The PCM mutex is     *)
(* held over the rounds of mixer_buffer_callback() ("cb"); every other     *)
(* locked section is one action.  What the code does outside the mutex -   *)
(* get_more() in mixer_channel_play_data(), all of                         *)
(* mixer_handle_sampr_change() - is an action of its own.                  *)
(***************************************************************************)
EXTENDS Integers, FiniteSets

CONSTANTS
  Channels,   \* mixer channels
  Users,      \* threads that call the mixer
  Chunks,     \* sizes of a chunk get_more() returns
  Frames,     \* values of mix_frame_size
  MaxIdle,    \* max_idle_frames()
  MaxGiven,   \* bound: units a source has
  Alone,      \* nobody calls the mixer while another thread changes the rate
              \* or is between the two locked parts of a call for that channel
  Prompt,     \* no channel is started in the buffer after the silence ran out
  Fed         \* a source that changed the rate has data

ASSUME ChunksAssumption == Chunks \subseteq Nat \ {0}
ASSUME FramesAssumption == Frames \subseteq Nat \ {0} /\ Frames # {}
ASSUME IdleAssumption == MaxIdle \in Nat /\ MaxIdle >= 3
ASSUME GivenAssumption == MaxGiven \in Nat
ASSUME EnvironmentAssumption == {Alone, Prompt, Fed} \subseteq BOOLEAN

NoOne == "no one"
Pump == "pump"
NoChannel == "no channel"

ASSUME NamesAssumption ==
  NoOne \notin Users /\ Pump \notin Users /\ NoChannel \notin Channels

VARIABLES
  status,     \* chan->status
  active,     \* active_channels
  start, size, last,  \* chan->start, size, last_size
  next,       \* ghost: the unit after the last one of the channel that was mixed
  given,      \* units the source has handed out
  frame,      \* mix_frame_size
  nextSize,   \* next_size
  idle,       \* idle_counter
  index,      \* downmix_index
  buf,        \* downmix_buf: the units of each channel in each buffer
  playing,    \* pcm_playing
  drv,        \* pcm_data: buffer being copied, and whether some is left
  heard,      \* ghost: the units the driver was given
  cb,         \* mixer_buffer_callback(): for whom, and calls still to make
  pc,         \* where each user is in a call
  chan,       \* the channel of that call
  got,        \* what its get_more() returned
  seen,       \* channels mixer_handle_sampr_change() is done with
  kick        \* the user changed the rate and has not restarted its channel

chanVars == <<status, active, start, size, last, next>>
bufVars == <<frame, nextSize, idle, index, buf>>
drvVars == <<playing, drv, heard>>
userVars == <<pc, chan, got, seen, kick>>
vars == <<chanVars, given, bufVars, drvVars, cb, userVars>>

Empty == [c \in Channels |-> {}]
Units(s, n) == {x \in 0 .. MaxGiven : s <= x /\ x < s + n}
Chunk == [start : 0 .. MaxGiven, size : 0 .. MaxGiven]
NoChunk == [start |-> 0, size |-> 0]
Quiet == [by |-> NoOne, calls |-> 0]
Sizes == {0} \cup Chunks

Free == cb.by = NoOne

Init ==
  /\ status = [c \in Channels |-> "stopped"]
  /\ active = {}
  /\ start = [c \in Channels |-> 0]
  /\ size = [c \in Channels |-> 0]
  /\ last = [c \in Channels |-> 0]
  /\ next = [c \in Channels |-> 0]
  /\ given = [c \in Channels |-> 0]
  /\ frame \in Frames
  /\ nextSize = 0 /\ idle = 0 /\ index = 0
  /\ buf = [i \in {0, 1} |-> Empty]
  /\ playing = FALSE
  /\ drv = [buf |-> 0, left |-> FALSE]
  /\ heard = Empty
  /\ cb = Quiet
  /\ pc = [u \in Users |-> "idle"]
  /\ chan = [u \in Users |-> NoChannel]
  /\ got = [u \in Users |-> NoChunk]
  /\ seen = [u \in Users |-> {}]
  /\ kick = [u \in Users |-> FALSE]

-----------------------------------------------------------------------------
(* What the callers do to each other.                                      *)

\* u may call the mixer for channel c
MayCall(u, c) ==
  /\ pc[u] = "idle"
  /\ Alone => \A v \in Users \ {u} : ~kick[v] /\ (pc[v] # "idle" => chan[v] # c)

\* a channel may be made active now
MayStart(c) == Prompt => ~(playing /\ nextSize = 0)

\* get_more() of c gives k units; fewer, or none, at the end of the source
Gives(c, k) == k \in Sizes /\ given[c] + k <= MaxGiven

-----------------------------------------------------------------------------
(* Channels.                                                               *)

\* mixer_activate_channel()
Activate(c) ==
  /\ active' = active \cup {c}
  /\ idle' = IF c \in active THEN idle ELSE 0

\* Seeded fault: the buffer is not changed.
Flip_Forgets == index

\* downmix_index ^= 1
Flip == 1 - index

\* mixer_start_pcm(): fills two buffers when the PCM does not run
StartPcm(u) ==
  IF playing
    THEN UNCHANGED <<cb, index, nextSize>>
    ELSE /\ cb' = [by |-> u, calls |-> 2]
         /\ index' = Flip
         /\ nextSize' = 0

\* mixer_channel_play_data(), as every caller here uses it, without a buffer: the
\* channel is taken off before get_more() is asked for one
PlayDeactivate(u, c) ==
  /\ MayCall(u, c) /\ Free
  /\ active' = active \ {c}
  /\ pc' = [pc EXCEPT ![u] = "more"]
  /\ chan' = [chan EXCEPT ![u] = c]
  /\ UNCHANGED <<status, start, size, last, next, given, bufVars, drvVars, cb, got, seen, kick>>

\* get_more(), without the mutex
PlayMore(u) ==
  /\ pc[u] = "more"
  /\ \E k \in Sizes :
       /\ Gives(chan[u], k)
       /\ (Fed /\ kick[u]) => k # 0
       /\ got' = [got EXCEPT ![u] = [start |-> given[chan[u]], size |-> k]]
       /\ given' = [given EXCEPT ![chan[u]] = @ + k]
  /\ pc' = [pc EXCEPT ![u] = "data"]
  /\ UNCHANGED <<chanVars, bufVars, drvVars, cb, chan, seen, kick>>

\* Seeded fault: the size of the last downmix survives a new chunk.
NewChunk_KeepsLast(c, s, n) ==
  /\ start' = [start EXCEPT ![c] = s]
  /\ size' = [size EXCEPT ![c] = n]
  /\ next' = [next EXCEPT ![c] = s]
  /\ UNCHANGED last

\* a chunk put into a channel, none of it mixed yet
NewChunk(c, s, n) ==
  /\ start' = [start EXCEPT ![c] = s]
  /\ size' = [size EXCEPT ![c] = n]
  /\ last' = [last EXCEPT ![c] = 0]
  /\ next' = [next EXCEPT ![c] = s]

\* u returns from its call
Finish(u) ==
  /\ pc' = [pc EXCEPT ![u] = "idle"]
  /\ chan' = [chan EXCEPT ![u] = NoChannel]
  /\ got' = [got EXCEPT ![u] = NoChunk]
  /\ seen' = [seen EXCEPT ![u] = {}]
  /\ kick' = [kick EXCEPT ![u] = FALSE]

\* its second locked part, with data
PlayStart(u) ==
  LET c == chan[u] IN
  /\ pc[u] = "data" /\ got[u].size # 0 /\ Free /\ MayStart(c)
  /\ status' = [status EXCEPT ![c] = "playing"]
  /\ NewChunk(c, got[u].start, got[u].size)
  /\ Activate(c)
  /\ StartPcm(u)
  /\ Finish(u)
  /\ UNCHANGED <<given, frame, buf, drvVars>>

\* channel_stopped()
Stopped(c) ==
  /\ active' = active \ {c}
  /\ size' = [size EXCEPT ![c] = 0]
  /\ start' = [start EXCEPT ![c] = 0]
  /\ status' = [status EXCEPT ![c] = "stopped"]
  /\ next' = [next EXCEPT ![c] = 0]
  /\ UNCHANGED last

\* ... without data
PlayNone(u) ==
  /\ pc[u] = "data" /\ got[u].size = 0 /\ Free
  /\ Stopped(chan[u])
  /\ Finish(u)
  /\ UNCHANGED <<given, bufVars, drvVars, cb>>

\* mixer_channel_stop()
Stop(u, c) ==
  /\ MayCall(u, c) /\ Free
  /\ Stopped(c)
  /\ UNCHANGED <<given, bufVars, drvVars, cb, userVars>>

\* mixer_channel_play_pause(false)
Pause(u, c) ==
  /\ MayCall(u, c) /\ Free /\ status[c] = "playing"
  /\ active' = active \ {c}
  /\ status' = [status EXCEPT ![c] = "paused"]
  /\ UNCHANGED <<start, size, last, next, given, bufVars, drvVars, cb, userVars>>

\* Seeded fault: the PCM is not started.
Resume_NoStart(u, c) ==
  /\ MayCall(u, c) /\ Free /\ status[c] = "paused" /\ MayStart(c)
  /\ status' = [status EXCEPT ![c] = "playing"]
  /\ Activate(c)
  /\ UNCHANGED <<start, size, last, next, given, frame, nextSize, index, buf, drvVars, cb, userVars>>

\* mixer_channel_play_pause(true)
Resume(u, c) ==
  /\ MayCall(u, c) /\ Free /\ status[c] = "paused" /\ MayStart(c)
  /\ status' = [status EXCEPT ![c] = "playing"]
  /\ Activate(c)
  /\ StartPcm(u)
  /\ UNCHANGED <<start, size, last, next, given, frame, buf, drvVars, userVars>>

-----------------------------------------------------------------------------
(* mixer_set_frequency() and the restart of the caller's channel c.        *)

FreqStop(u, c) ==
  /\ MayCall(u, c) /\ Free
  /\ Alone => \A v \in Users \ {u} : pc[v] = "idle"
  /\ playing' = FALSE
  /\ idle' = 0
  /\ drv' = [drv EXCEPT !.left = IF playing THEN FALSE ELSE @]
  /\ pc' = [pc EXCEPT ![u] = "sampr"]
  /\ chan' = [chan EXCEPT ![u] = c]
  /\ seen' = [seen EXCEPT ![u] = {}]
  /\ kick' = [kick EXCEPT ![u] = TRUE]
  /\ UNCHANGED <<chanVars, given, frame, nextSize, index, buf, heard, cb, got>>

\* mixer_handle_sampr_change(): an active channel remakes its buffer
SamprChannel(u, c) ==
  /\ pc[u] = "sampr" /\ c \in active \ seen[u]
  /\ seen' = [seen EXCEPT ![u] = @ \cup {c}]
  /\ \E k \in Sizes :
       /\ Gives(c, k)
       /\ given' = [given EXCEPT ![c] = @ + k]
       /\ IF k = 0
            THEN Stopped(c)
            ELSE /\ NewChunk(c, given[c], k)
                 /\ UNCHANGED <<status, active>>
  /\ UNCHANGED <<bufVars, drvVars, cb, pc, chan, got, kick>>

\* ... the frame size follows the rate, and the caller restarts its channel
SamprDone(u) ==
  /\ pc[u] = "sampr" /\ active \subseteq seen[u] /\ Free
  /\ frame' \in Frames
  /\ active' = active \ {chan[u]}
  /\ pc' = [pc EXCEPT ![u] = "more"]
  /\ UNCHANGED <<status, start, size, last, next, given, nextSize, idle, index, buf,
                 drvVars, cb, chan, got, seen, kick>>

-----------------------------------------------------------------------------
(* mixer_buffer_callback(), one round of fill_frame at a time.             *)

\* the callback is done: the next of the two calls of mixer_start_pcm(), then
\* pcm_play_data() of the first of the two buffers; or back in the pump
Return(b, ns) ==
  IF cb.calls = 2
    THEN /\ cb' = [cb EXCEPT !.calls = 1]
         /\ index' = Flip
         /\ nextSize' = 0
         /\ UNCHANGED drvVars
    ELSE /\ cb' = Quiet
         /\ UNCHANGED index
         /\ nextSize' = ns
         /\ IF cb.by = Pump
              THEN UNCHANGED drvVars
              ELSE /\ playing' = TRUE
                   /\ drv' = [buf |-> 1 - index, left |-> TRUE]
                   /\ heard' = [c \in Channels |-> heard[c] \cup b[1 - index][c]]

\* the channels with nothing left of their chunk after the last downmix
RanOut == {c \in active : size[c] = last[c]}

\* they ask for more: more[c] units, and those given none stop
Dead(more) == {c \in RanOut : more[c] = 0}
On(more) == active \ Dead(more)

\* where an active channel is now in its chunk, and what it has left of it
From(c) == IF c \in RanOut THEN given[c] ELSE start[c] + last[c]
Left(c, more) == IF c \in RanOut THEN more[c] ELSE size[c] - last[c]

\* the least remaining of the channels, or the room in the frame, is the size
\* of the downmix
Downmix(more, n) ==
  /\ n <= frame - nextSize /\ \A c \in On(more) : n <= Left(c, more)
  /\ n = frame - nextSize \/ \E c \in On(more) : n = Left(c, more)

\* n units of each added to what the rounds before mixed into the buffer
Mixed(more, n) ==
  [buf EXCEPT ![index] =
     [c \in Channels |-> (IF nextSize = 0 THEN {} ELSE buf[index][c])
                         \cup (IF c \in On(more) THEN Units(From(c), n) ELSE {})]]

\* a round in which some channel still has data
Mix(more, n) ==
  /\ \A c \in Channels : IF c \in RanOut THEN Gives(c, more[c]) ELSE more[c] = 0
  /\ On(more) # {}
  /\ Downmix(more, n)
  /\ given' = [c \in Channels |-> given[c] + more[c]]
  /\ active' = On(more)
  /\ status' = [c \in Channels |-> IF c \in Dead(more) THEN "stopped" ELSE status[c]]
  /\ start' = [c \in Channels |-> IF c \in On(more) THEN From(c)
                                  ELSE IF c \in Dead(more) THEN 0 ELSE start[c]]
  /\ size' = [c \in Channels |-> IF c \in On(more) THEN Left(c, more)
                                 ELSE IF c \in Dead(more) THEN 0 ELSE size[c]]
  /\ last' = [c \in Channels |-> IF c \in On(more) THEN n ELSE last[c]]
  /\ next' = [c \in Channels |-> IF c \in On(more) THEN From(c) + n
                                 ELSE IF c \in Dead(more) THEN 0 ELSE next[c]]
  /\ buf' = Mixed(more, n)
  /\ IF nextSize + n = frame
       THEN Return(buf', frame)
       ELSE nextSize' = nextSize + n /\ UNCHANGED <<index, cb, drvVars>>

FillMix ==
  /\ ~Free /\ nextSize < frame
  /\ \E more \in [Channels -> Sizes], n \in 1 .. frame : Mix(more, n)
  /\ UNCHANGED <<frame, idle, userVars>>

\* silence is played on for a while
Silence == idle < MaxIdle

\* Seeded fault: only one of the two buffers is cleared.
Clears_Once == idle + 1 <= 1

\* ... from what the buffers hold, which the first three times is cleared
Clears == idle + 1 <= 3

Silenced == [buf EXCEPT ![index] = IF Clears /\ nextSize = 0 THEN Empty ELSE @]

\* no channel is left: silence for a while, then nothing
FillIdle ==
  /\ ~Free
  /\ active = RanOut
  /\ status' = [c \in Channels |-> IF c \in active THEN "stopped" ELSE status[c]]
  /\ start' = [c \in Channels |-> IF c \in active THEN 0 ELSE start[c]]
  /\ size' = [c \in Channels |-> IF c \in active THEN 0 ELSE size[c]]
  /\ next' = [c \in Channels |-> IF c \in active THEN 0 ELSE next[c]]
  /\ active' = {}
  /\ idle' = idle + 1
  /\ IF Silence
       THEN buf' = Silenced /\ Return(buf', frame)
       ELSE UNCHANGED buf /\ Return(buf', nextSize)
  /\ UNCHANGED <<last, given, frame, userVars>>

-----------------------------------------------------------------------------
(* copy_frames() of the pump.                                              *)

\* pcm_play_dma_complete_callback() with a buffer, its first frames, and the
\* status callback that prepares the next one
PumpTake ==
  /\ Free /\ playing /\ ~drv.left /\ nextSize # 0
  /\ \E left \in BOOLEAN : drv' = [buf |-> index, left |-> left]
  /\ heard' = [c \in Channels |-> heard[c] \cup buf[index][c]]
  /\ cb' = [by |-> Pump, calls |-> 1]
  /\ index' = Flip
  /\ nextSize' = 0
  /\ UNCHANGED <<chanVars, given, frame, idle, buf, playing, userVars>>

\* the rest of the buffer
PumpCopy ==
  /\ Free /\ playing /\ drv.left
  /\ drv' = [drv EXCEPT !.left = FALSE]
  /\ UNCHANGED <<chanVars, given, bufVars, playing, heard, cb, userVars>>

\* ... and without one: pcm_play_stop_int()
PumpStop ==
  /\ Free /\ playing /\ ~drv.left /\ nextSize = 0
  /\ playing' = FALSE
  /\ UNCHANGED <<chanVars, given, bufVars, drv, heard, cb, userVars>>

-----------------------------------------------------------------------------
Next ==
  \/ \E u \in Users, c \in Channels :
       \/ PlayDeactivate(u, c) \/ Stop(u, c)
       \/ Pause(u, c) \/ Resume(u, c) \/ FreqStop(u, c) \/ SamprChannel(u, c)
  \/ \E u \in Users : PlayMore(u) \/ PlayStart(u) \/ PlayNone(u) \/ SamprDone(u)
  \/ FillMix \/ FillIdle
  \/ PumpTake \/ PumpCopy \/ PumpStop

Spec == Init /\ [][Next]_vars

-----------------------------------------------------------------------------
(* Properties.                                                             *)

TypeOK ==
  /\ status \in [Channels -> {"stopped", "playing", "paused"}]
  /\ active \subseteq Channels
  /\ start \in [Channels -> 0 .. MaxGiven]
  /\ size \in [Channels -> 0 .. MaxGiven]
  /\ last \in [Channels -> Nat]
  /\ next \in [Channels -> 0 .. MaxGiven]
  /\ given \in [Channels -> 0 .. MaxGiven]
  /\ frame \in Frames
  /\ nextSize \in Nat /\ idle \in 0 .. MaxIdle + 1 /\ index \in {0, 1}
  /\ buf \in [{0, 1} -> [Channels -> SUBSET (0 .. MaxGiven)]]
  /\ playing \in BOOLEAN
  /\ drv \in [buf : {0, 1}, left : BOOLEAN]
  /\ heard \in [Channels -> SUBSET (0 .. MaxGiven)]
  /\ cb \in [by : Users \cup {NoOne, Pump}, calls : 0 .. 2]
  /\ pc \in [Users -> {"idle", "more", "data", "sampr"}]
  /\ chan \in [Users -> Channels \cup {NoChannel}]
  /\ got \in [Users -> Chunk]
  /\ seen \in [Users -> SUBSET Channels]
  /\ kick \in [Users -> BOOLEAN]

\* Whatever the lengths of the other channels' chunks, what is mixed of a
\* channel next is the unit after the one mixed last, and its chunk is the
\* newest its source gave: no unit is left out or mixed twice, over downmixes
\* of part of a chunk, pauses and ends of other channels.
StreamWhole ==
  \A c \in active :
    /\ start[c] + last[c] = next[c]
    /\ last[c] <= size[c]
    /\ (\A u \in Users : pc[u] # "idle" => chan[u] # c) => start[c] + size[c] = given[c]

\* The driver is handed each unit of a source once and in order, over restarts,
\* and never hears again what is left in a buffer that is filled with silence.
LaterThanHeard(i) == \A c \in Channels : \A x \in buf[i][c], y \in heard[c] : y < x
HeardOnce ==
  /\ (playing /\ Free /\ nextSize # 0) => LaterThanHeard(index)
  /\ (cb.by \in Users /\ cb.calls = 1) => LaterThanHeard(1 - index)

\* The buffer the driver has not copied yet is not the one being mixed into.
NoTear == (cb.by = Pump /\ drv.left) => drv.buf # index

\* A prepared buffer is full or empty: the driver is always given
\* mix_frame_size bytes that were mixed or silenced (pcm_play_data() is even
\* told so without a look at next_size).
FrameFull == (Free /\ playing) => nextSize \in {0, frame}

\* The two buffers are sound: typed, apart, and full.
BuffersSound == TypeOK /\ NoTear /\ FrameFull

\* get_more() of a channel is not entered by the pump while a caller of
\* mixer_channel_play_data() is in it (comment at 363-365).
NotReentered ==
  \A u \in Users : pc[u] = "more" => chan[u] \notin active

\* Neither the driver nor a source is taken by surprise.
MixerSound == BuffersSound /\ NotReentered

\* Whoever stopped the PCM, the end of the silence or a change of the rate,
\* an active channel does not stay without it once the mixer is at rest.
ActiveRuns ==
  (Free /\ active # {} /\ \A u \in Users : ~kick[u]) => playing
=============================================================================
