------------------------------ MODULE NetfmPcm ------------------------------
(***************************************************************************)
(* The PCM ring of the network radio, apps/netfm_playback.c: the decoder   *)
(* thread fills it in nf_pcm_insert(), the mixer empties it from           *)
(* nf_get_more() on the PCM thread, and a change of the sample rate throws *)
(* its content away.  Nothing but the mixer's own lock is held: nf_head is *)
(* written by the decoder only, nf_tail by both.                           *)
(*                                                                         *)
(* Frames are numbered in the order dsp_process() delivers them.  nf_head  *)
(* and nf_tail are unsigned counters and wrap at Wrap.                     *)
(***************************************************************************)
EXTENDS Naturals, Sequences

CONSTANTS
  PcmFrames,   \* NF_PCM_FRAMES
  Chunk,       \* NF_CHUNK_FRAMES
  OutSizes,    \* frames dsp_process() can make of one chunk
  Blocks,      \* chunks in one call of the codec
  Rates,       \* sample rates a stream can have
  Wrap,        \* an unsigned int counts modulo Wrap
  MaxMade,     \* bound: frames decoded
  MaxStart     \* bound: sessions

ASSUME PcmAssumption ==
  /\ Chunk \in Nat \ {0} /\ PcmFrames \in Nat /\ Chunk <= PcmFrames
  /\ Wrap \in Nat /\ Wrap >= 2 * PcmFrames /\ Wrap % PcmFrames = 0
  /\ OutSizes \subseteq 0 .. PcmFrames /\ Blocks \subseteq Nat \ {0}
  /\ 0 \notin Rates /\ MaxMade \in Nat /\ MaxStart \in Nat

VARIABLES
  nfRing, nfHead, nfTail, nfRate, nfStopReq,
  chanOn,            \* PCM_MIXER_CHAN_NETFM is active
  playbackBusy,      \* PCM_MIXER_CHAN_PLAYBACK is not stopped
  dpc, left, out,    \* the decoder: where it is, chunks left, frames made
  gpc, gTail, gAvail, obuf,  \* nf_get_more() on the PCM thread
  made,              \* frames delivered by dsp_process()
  heard,             \* the last frame handed to the mixer
  cuts,              \* last frames before each change of the rate
  starts             \* sessions so far

ring == <<nfRing, nfHead, nfTail>>
get  == <<gpc, gTail, gAvail, obuf>>
ctl  == <<nfRate, nfStopReq, chanOn, playbackBusy, starts>>
vars == <<nfRing, nfHead, nfTail, nfRate, nfStopReq, chanOn, playbackBusy, dpc,
          left, out, gpc, gTail, gAvail, obuf, made, heard, cuts, starts>>

At(pc) == dpc = pc
MinOf(a, b) == IF a < b THEN a ELSE b
Slot(i) == i % PcmFrames               \* & (NF_PCM_FRAMES - 1)
FillOf(h, t) == (h + (Wrap - t)) % Wrap  \* h - t on unsigned int
Fill == FillOf(nfHead, nfTail)

\* The n frames from counter t on.
Frames(t, n) == [i \in 1 .. n |-> nfRing[Slot(t + (i - 1))]]
LastHeard(s) == IF s = << >> THEN heard ELSE s[Len(s)]

Init ==
  /\ nfRing = [i \in 0 .. PcmFrames - 1 |-> 0] /\ nfHead = 0 /\ nfTail = 0
  /\ nfRate = 0 /\ nfStopReq = FALSE /\ chanOn = FALSE /\ playbackBusy = FALSE
  /\ dpc = "none" /\ left = 0 /\ out = 0
  /\ gpc = "idle" /\ gTail = 0 /\ gAvail = 0 /\ obuf = << >>
  /\ made = 0 /\ heard = 0 /\ cuts = {} /\ starts = 0

-----------------------------------------------------------------------------
\* nf_get_more(): as the PCM thread runs it, under the mixer's lock.

GmLoad ==
  /\ gpc = "idle" /\ chanOn
  /\ gTail' = nfTail /\ gAvail' = MinOf(Fill, Chunk)
  /\ gpc' = "copy"
  /\ UNCHANGED <<ring, ctl, dpc, left, out, obuf, made, heard, cuts>>

GmCopy ==
  /\ gpc = "copy"
  /\ obuf' = Frames(gTail, gAvail)
  /\ gpc' = "store"
  /\ UNCHANGED <<ring, ctl, dpc, left, out, gTail, gAvail, made, heard, cuts>>

GmStore ==
  /\ gpc = "store"
  /\ nfTail' = (gTail + gAvail) % Wrap
  /\ heard' = LastHeard(obuf) /\ obuf' = << >>
  /\ gTail' = 0 /\ gAvail' = 0 /\ gpc' = "idle"
  /\ UNCHANGED <<nfRing, nfHead, ctl, dpc, left, out, made, cuts>>

\* The whole of it, as the decoder runs it while its channel is inactive and
\* the PCM thread cannot.
GetMore ==
  LET n == MinOf(Fill, Chunk) IN
  /\ nfTail' = (nfTail + n) % Wrap
  /\ heard' = LastHeard(Frames(nfTail, n))

-----------------------------------------------------------------------------
\* netfm_playback_start(), once the previous decoder has ended.

Start ==
  /\ dpc \in {"none", "end"} /\ ~chanOn /\ gpc = "idle" /\ ~playbackBusy
  /\ starts < MaxStart /\ starts' = starts + 1
  /\ nfHead' = 0 /\ nfTail' = 0 /\ nfRate' = 0 /\ nfStopReq' = FALSE
  /\ chanOn' = TRUE /\ dpc' = "codec"
  /\ heard' = made /\ cuts' = {}
  /\ UNCHANGED <<nfRing, playbackBusy, left, out, get, made>>

\* netfm_playback_request_stop(), and the flag of netfm_playback_stop().
RequestStop ==
  /\ dpc # "none" /\ nfStopReq' = TRUE
  /\ UNCHANGED <<ring, nfRate, chanOn, playbackBusy, starts, dpc, left, out,
                 get, made, heard, cuts>>

\* mixer_channel_stop() takes the mixer's lock.
ChannelStop ==
  /\ nfStopReq /\ gpc = "idle" /\ chanOn' = FALSE
  /\ UNCHANGED <<ring, nfRate, nfStopReq, playbackBusy, starts, dpc, left, out,
                 get, made, heard, cuts>>

\* Local playback has asked the stream to stop and starts its own channel;
\* it ends later.
LocalPlay ==
  /\ nfStopReq /\ playbackBusy' = TRUE
  /\ UNCHANGED <<ring, nfRate, nfStopReq, chanOn, starts, dpc, left, out, get,
                 made, heard, cuts>>

LocalEnd ==
  /\ playbackBusy /\ playbackBusy' = FALSE
  /\ UNCHANGED <<ring, nfRate, nfStopReq, chanOn, starts, dpc, left, out, get,
                 made, heard, cuts>>

-----------------------------------------------------------------------------
\* The decoder thread.

\* The codec looks at get_command() and returns.
Halt ==
  /\ At("codec") /\ nfStopReq /\ dpc' = "end"
  /\ UNCHANGED <<ring, ctl, left, out, get, made, heard, cuts>>

\* nf_apply_rate(): a rate other than the current one.
RateSet(r) ==
  /\ At("codec") /\ r # nfRate
  /\ nfRate' = r /\ dpc' = "drop"
  /\ UNCHANGED <<ring, nfStopReq, chanOn, playbackBusy, starts, left, out, get,
                 made, heard, cuts>>

\* nf_tail = nf_head: what is in the ring was made for the old rate.
RateDrop ==
  /\ At("drop")
  /\ nfTail' = nfHead /\ cuts' = cuts \cup {made} /\ dpc' = "switch"
  /\ UNCHANGED <<nfRing, nfHead, ctl, left, out, get, made, heard>>

(* Seeded fault: the channel is started again without being taken down.    *)
RateSwitch_NoLock ==
  /\ At("switch") /\ dpc' = "codec"
  /\ chanOn' = TRUE
  /\ UNCHANGED <<ring, nfRate, nfStopReq, playbackBusy, starts, left, out, get,
                 made, heard, cuts>>

\* The channel is taken out of the mixer under its lock.  When the output
\* changes its frequency, a channel that is active is asked for a new buffer.
RateSwitch ==
  /\ At("switch") /\ gpc = "idle" /\ dpc' = "kick"
  /\ chanOn' = FALSE
  /\ \/ chanOn /\ GetMore
     \/ UNCHANGED <<nfTail, heard>>
  /\ UNCHANGED <<nfRing, nfHead, nfRate, nfStopReq, playbackBusy, starts, left,
                 out, get, made, cuts>>

\* mixer_channel_play_data() asks for the first buffer and starts the channel.
RateKick ==
  /\ At("kick") /\ dpc' = "codec" /\ chanOn' = TRUE
  /\ GetMore
  /\ UNCHANGED <<nfRing, nfHead, nfRate, nfStopReq, playbackBusy, starts, left,
                 out, get, made, cuts>>

\* nf_pcm_insert(): the codec hands over b chunks.
Insert(b) ==
  /\ At("codec") /\ left' = b /\ dpc' = "wait"
  /\ UNCHANGED <<ring, ctl, out, get, made, heard, cuts>>

(* Seeded fault: a decoder that waits for room does not look at the stop.  *)
InsStop_WithRoom ==
  /\ At("wait") /\ nfStopReq /\ Fill <= PcmFrames - Chunk
  /\ left' = 0 /\ dpc' = "codec"
  /\ UNCHANGED <<ring, ctl, out, get, made, heard, cuts>>

\* Asked to stop, it drops the rest.
InsStop ==
  /\ At("wait") /\ nfStopReq /\ left' = 0 /\ dpc' = "codec"
  /\ UNCHANGED <<ring, ctl, out, get, made, heard, cuts>>

(* Seeded fault: the difference of the counters is taken as a signed one.  *)
InsRoom_Signed ==
  /\ At("wait") /\ ~nfStopReq
  /\ nfHead < nfTail \/ nfHead - nfTail <= PcmFrames - Chunk
  /\ dpc' = "claim"
  /\ UNCHANGED <<ring, ctl, left, out, get, made, heard, cuts>>

\* There is room for a chunk; otherwise it sleeps and looks again.
InsRoom ==
  /\ At("wait") /\ ~nfStopReq /\ Fill <= PcmFrames - Chunk
  /\ dpc' = "claim"
  /\ UNCHANGED <<ring, ctl, left, out, get, made, heard, cuts>>

\* The DSP chain is taken when local playback is silent.
InsClaim ==
  /\ At("claim")
  /\ dpc' = IF playbackBusy THEN "wait" ELSE "dsp"
  /\ UNCHANGED <<ring, ctl, left, out, get, made, heard, cuts>>

\* dsp_process() makes n frames of the chunk, which go into the ring.
InsWrite(n) ==
  /\ At("dsp") /\ made + n <= MaxMade
  /\ nfRing' = [i \in 0 .. PcmFrames - 1 |->
                  LET d == Slot(i + (PcmFrames - Slot(nfHead)))
                  IN  IF d < n THEN made + 1 + d ELSE nfRing[i]]
  /\ out' = n /\ dpc' = "publish"
  /\ UNCHANGED <<nfHead, nfTail, ctl, left, get, made, heard, cuts>>

\* nf_head += out, and the loop goes on with the next chunk.
InsPublish ==
  /\ At("publish")
  /\ nfHead' = (nfHead + out) % Wrap /\ made' = made + out
  /\ out' = 0 /\ left' = left - 1
  /\ dpc' = IF left > 1 THEN "wait" ELSE "codec"
  /\ UNCHANGED <<nfRing, nfTail, ctl, get, heard, cuts>>

-----------------------------------------------------------------------------
Mixer   == GmLoad \/ GmCopy \/ GmStore
User    == Start \/ RequestStop \/ ChannelStop \/ LocalPlay \/ LocalEnd
Rate    == (\E r \in Rates : RateSet(r)) \/ RateDrop \/ RateSwitch \/ RateKick
Inserts ==
  \/ \E b \in Blocks : Insert(b)
  \/ InsStop \/ InsRoom \/ InsClaim
  \/ \E n \in OutSizes : InsWrite(n)
  \/ InsPublish

Next == Mixer \/ User \/ Rate \/ Halt \/ Inserts
Spec == Init /\ [][Next]_vars

\* The PCM thread keeps asking an active channel for data and the kernel runs
\* the decoder.
FairSpec ==
  /\ Spec
  /\ WF_vars(Mixer)
  /\ WF_vars(RateDrop) /\ SF_vars(RateSwitch) /\ WF_vars(RateKick)
  /\ WF_vars(InsStop \/ InsClaim) /\ SF_vars(InsRoom) /\ WF_vars(InsPublish)

-----------------------------------------------------------------------------
\* Properties.

Counter == 0 .. Wrap - 1
Number  == 0 .. MaxMade

TypeOK ==
  /\ nfRing \in [0 .. PcmFrames - 1 -> Number]
  /\ nfHead \in Counter /\ nfTail \in Counter
  /\ nfRate \in Rates \cup {0} /\ nfStopReq \in BOOLEAN
  /\ chanOn \in BOOLEAN /\ playbackBusy \in BOOLEAN
  /\ dpc \in {"none", "codec", "drop", "switch", "kick", "wait", "claim", "dsp",
              "publish", "end"}
  /\ left \in Nat /\ out \in OutSizes \cup {0}
  /\ gpc \in {"idle", "copy", "store"}
  /\ gTail \in Counter /\ gAvail \in 0 .. Chunk /\ obuf \in Seq(Number)
  /\ made \in Number /\ heard \in Number /\ cuts \subseteq Number
  /\ starts \in 0 .. MaxStart

\* The decoder never runs the PCM thread over: at most a full ring waits, the
\* frames being stored included, although nf_tail has two writers and the
\* counters wrap.
NoOverrun == Fill + (IF At("publish") THEN out ELSE 0) <= PcmFrames

\* What waits in the ring are the newest frames in the order they were made,
\* and between two calls of nf_get_more() they follow the last frame heard,
\* or the last one before a change of the rate: nothing is heard twice,
\* skipped or reordered, also when a change of the rate on the decoder meets
\* nf_get_more() half way.
QueueInOrder ==
  /\ Frames(nfTail, Fill) = [i \in 1 .. Fill |-> (made - Fill) + i]
  /\ gpc = "idle" => made - Fill \in {heard} \cup cuts

\* The same of the buffer that nf_get_more() is about to return.
BufferInOrder ==
  gpc = "store" /\ obuf # << >> =>
    /\ \A i \in 1 .. Len(obuf) : obuf[i] = obuf[1] + (i - 1)
    /\ obuf[1] - 1 \in {heard} \cup cuts

\* From the decoder to the mixer's buffer the audio is in order, on variables that
\* keep their types.
AudioInOrder == TypeOK /\ QueueInOrder /\ BufferInOrder

\* A decoder that waits for room, for the DSP chain or for the mixer gets on,
\* or leaves because it was asked to stop.
DecoderGetsOn ==
  dpc \in {"wait", "claim", "drop", "switch", "kick"} ~> dpc \in {"dsp", "codec"}
=============================================================================
