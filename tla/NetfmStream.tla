---------------------------- MODULE NetfmStream ----------------------------
(***************************************************************************)
(* The control side of the network radio: apps/netfm_stream.c (worker,     *)
(* monitor, start, stop, takeover) with apps/netfm_playback.c (decoder     *)
(* thread, mixer channel).                                                 *)
(*                                                                         *)
(* Two kinds of threads meet here.  Rockbox threads (the menu threads, the *)
(* monitor, the audio thread) are scheduled cooperatively: one of them     *)
(* runs until it sleeps, yields or returns, so `cpu` names the one that is *)
(* in the middle of an operation.  The download worker and the decoders    *)
(* are raw pthreads and interleave with everything.                        *)
(*                                                                         *)
(* Abstractions: a ring entry is one chunk, tagged with the stream whose   *)
(* worker wrote it; a codec name is a member of Codecs; a socket operation *)
(* succeeds or fails; the status snapshot shown by the menus is left out.  *)
(***************************************************************************)
EXTENDS Naturals, Sequences, FiniteSets

CONSTANTS
  Ctl,        \* Rockbox threads that start and stop the radio (menus, web)
  Mon,        \* the "netfm mon" thread
  Aud,        \* the audio thread
  Free,       \* no Rockbox thread is in the middle of an operation
  MaxStart,   \* bound: streams that netfm_stream_start() sets up
  RingCap,    \* chunks that fit in source.ring
  Dec,        \* slots for live decoder threads
  Inputs,     \* kinds of stream: "mp3" (direct) and "hls"
  Codecs,     \* codec names the worker can pick
  NoCodec     \* source.codec[0] == '\0'

ASSUME NetfmAssumption ==
  /\ MaxStart \in Nat /\ RingCap \in Nat \ {0}
  /\ Mon # Aud /\ {Mon, Aud} \cap Ctl = {} /\ Free \notin Ctl \cup {Mon, Aud}
  /\ Inputs \subseteq {"mp3", "hls"}
  /\ NoCodec \notin Codecs /\ Codecs # {}

Rb    == Ctl \cup {Mon, Aud}
Gens  == 1 .. MaxStart         \* streams, numbered by the start that made them
NoGen == 0

VARIABLES
  \* struct netfm_source
  running, active, codecReady, codecStarted, starting, threadAlive,
  codec, ring,
  \* netfm_playback.c
  nfRunning, nfStopReq, nfChan,
  \* the monitor's static flag, and whether create_thread() refused it
  monRunning, monRefused,
  \* local playback and the external inputs
  local, pbChan, ext,
  \* Rockbox threads
  cpu, pc, ret, snap,
  \* download workers, one per stream
  wpc, cwait, activeConn,
  \* decoders
  dpc, dcodec,
  \* the stream that was started last, and whether its worker has found
  \* out the codec
  gen, probed

src  == <<running, active, codecReady, codecStarted, starting, threadAlive, codec, ring>>
play == <<nfRunning, nfStopReq, nfChan>>
mon  == <<monRunning, monRefused>>
env  == <<local, pbChan, ext>>
rb   == <<cpu, pc, ret, snap>>
wrk  == <<wpc, cwait, activeConn>>
dcd  == <<dpc, dcodec>>
sess == <<gen, probed>>
vars == <<src, play, mon, env, rb, wrk, dcd, sess>>

-----------------------------------------------------------------------------
(* Cooperative scheduling: t can run when no other thread is in the middle *)
(* of something; it keeps the processor (Goto) or gives it up (Yield).     *)
At(t, l)    == pc[t] = l /\ cpu \in {Free, t}
Goto(t, l)  == pc' = [pc EXCEPT ![t] = l] /\ cpu' = t
Yield(t, l) == pc' = [pc EXCEPT ![t] = l] /\ cpu' = Free

(* pthread_cond_broadcast(&source.ready): every waiting worker rechecks.   *)
Broadcast == cwait' = {}

(* Where a worker has a connection open.                                   *)
ConnLabels == {"mp3Body", "mp3Write", "hlsProbe", "hlsProbed", "hlsList", "hlsListed",
               "hlsFetch", "hlsFetched"}

(* Back to the caller; the locals of the call are gone.                    *)
Return(t) ==
  /\ IF ret[t] = "idle" THEN Yield(t, "idle") ELSE Goto(t, ret[t])
  /\ ret' = [ret EXCEPT ![t] = "idle"] /\ snap' = [snap EXCEPT ![t] = NoCodec]

LiveDec    == {d \in Dec : dpc[d] # "none"}
LiveWorker == {g \in Gens : wpc[g] \notin {"none", "done"}}

-----------------------------------------------------------------------------
(* netfm_stream_stop(), in the sections its locks and calls divide it      *)
(* into; ret[t] says where the caller goes on.                             *)
CallStop(t, back) == Goto(t, "stop") /\ ret' = [ret EXCEPT ![t] = back]

(* Seeded fault: a worker that waits for room is not woken.                *)
StopFlag_Silent(t) ==
  /\ At(t, "stop")
  /\ running' = FALSE /\ active' = FALSE
  /\ Goto(t, "stopPlay")
  /\ UNCHANGED <<codecReady, codecStarted, starting, threadAlive, codec, ring, play, mon,
                 env, ret, snap, wrk, dcd, sess>>

StopFlag(t) ==
  /\ At(t, "stop")
  /\ running' = FALSE /\ active' = FALSE
  /\ Broadcast
  /\ Goto(t, "stopPlay")
  /\ UNCHANGED <<codecReady, codecStarted, starting, threadAlive, codec, ring, play, mon,
                 env, ret, snap, wpc, activeConn, dcd, sess>>

(* netfm_playback_stop() *)
PlaybackStop ==
  IF nfRunning
  THEN nfStopReq' = TRUE /\ nfChan' = FALSE /\ nfRunning' = FALSE
  ELSE UNCHANGED play

(* Seeded fault: the decoder is only asked to stop, as stop_async() does.  *)
StopPlay_OnlyAsks(t) ==
  /\ At(t, "stopPlay")
  /\ nfStopReq' = TRUE
  /\ Goto(t, "stopClear")
  /\ UNCHANGED <<src, nfRunning, nfChan, mon, env, ret, snap, wrk, dcd, sess>>

StopPlay(t) ==
  /\ At(t, "stopPlay")
  /\ PlaybackStop
  /\ Goto(t, "stopClear")
  /\ UNCHANGED <<src, mon, env, ret, snap, wrk, dcd, sess>>

(* Seeded fault: the stop also declares the worker gone.                   *)
StopClear_WorkerGone(t) ==
  /\ At(t, "stopClear")
  /\ codecReady' = FALSE /\ codecStarted' = FALSE /\ starting' = FALSE
  /\ codec' = NoCodec /\ ring' = <<>> /\ threadAlive' = FALSE
  /\ Return(t)
  /\ UNCHANGED <<running, active, play, mon, env, wrk, dcd, sess>>

StopClear(t) ==
  /\ At(t, "stopClear")
  /\ codecReady' = FALSE /\ codecStarted' = FALSE /\ starting' = FALSE
  /\ codec' = NoCodec /\ ring' = <<>>
  /\ Return(t)
  /\ UNCHANGED <<running, active, threadAlive, play, mon, env, wrk, dcd, sess>>

-----------------------------------------------------------------------------
(* netfm_stream_start(): stop, wait a bounded time for the old worker,     *)
(* then reset the source, create the worker and see to the monitor.        *)
StartGuard(t) == t \in Ctl /\ At(t, "idle") /\ ~ext /\ gen < MaxStart

Start(t) ==
  /\ StartGuard(t)
  /\ CallStop(t, "wait")
  /\ UNCHANGED <<src, play, mon, env, snap, wrk, dcd, sess>>

(* netfm_step_station(): stop the decoder first, then start the neighbour. *)
StepStation(t) ==
  /\ StartGuard(t) /\ nfRunning
  /\ PlaybackStop
  /\ CallStop(t, "wait")
  /\ UNCHANGED <<src, mon, env, snap, wrk, dcd, sess>>

(* One round of "for (i < 100 && thread_alive) sleep()": the worker is     *)
(* still alive and this thread sleeps, ...                                 *)
WaitWorker(t) ==
  /\ At(t, "wait") /\ threadAlive /\ cpu = t
  /\ Yield(t, "wait")
  /\ UNCHANGED <<src, play, mon, env, ret, snap, wrk, dcd, sess>>

(* ... or the loop ends, because the worker is gone or the tries are used  *)
(* up, and the section under source.lock decides.                          *)
StartRefused(t) ==
  /\ At(t, "wait")
  /\ \/ threadAlive /\ cpu = Free
     \/ ~threadAlive /\ nfRunning
  /\ Yield(t, "idle")
  /\ UNCHANGED <<src, play, mon, env, ret, snap, wrk, dcd, sess>>

(* The fields a new stream starts with.                                    *)
ResetSource(t) ==
  /\ gen < MaxStart
  /\ ring' = <<>> /\ codec' = NoCodec
  /\ codecReady' = FALSE /\ codecStarted' = FALSE /\ starting' = FALSE
  /\ running' = TRUE /\ active' = TRUE /\ threadAlive' = TRUE
  /\ gen' = gen + 1 /\ probed' = FALSE
  /\ Goto(t, "create")
  /\ UNCHANGED <<play, mon, env, ret, snap, wrk, dcd>>

(* Seeded fault: the old worker is not waited for.                         *)
StartCommit_AnyWorker(t) == At(t, "wait") /\ ~nfRunning /\ ResetSource(t)

StartCommit(t) == At(t, "wait") /\ ~threadAlive /\ ~nfRunning /\ ResetSource(t)

CreateWorker(t) ==
  /\ At(t, "create")
  /\ \E i \in Inputs : wpc' = [wpc EXCEPT ![gen] = i]
  /\ Goto(t, "monitor")
  /\ UNCHANGED <<src, play, mon, env, ret, snap, cwait, activeConn, dcd, sess>>

(* pthread_create() of the worker failed: stop and return false. *)
CreateWorkerFails(t) ==
  /\ At(t, "create")
  /\ CallStop(t, "idle")
  /\ UNCHANGED <<src, play, mon, env, snap, wrk, dcd, sess>>

(* netfm_monitor_start() *)
MonitorStart(t) ==
  /\ At(t, "monitor")
  /\ \/ /\ monRunning
        /\ Yield(t, "idle")
        /\ UNCHANGED mon
     \/ /\ ~monRunning
        /\ monRunning' = TRUE /\ monRefused' = FALSE
        /\ pc' = [pc EXCEPT ![t] = "idle", ![Mon] = "loop"] /\ cpu' = Free
     \/ /\ ~monRunning                      \* create_thread() failed
        /\ monRunning' = FALSE /\ monRefused' = TRUE
        /\ Yield(t, "idle")
  /\ UNCHANGED <<src, play, env, ret, snap, wrk, dcd, sess>>

(* netfm_stream_stop() called by a menu, the web worker, DLNA, bluetooth. *)
Stop(t) ==
  /\ t \in Ctl /\ At(t, "idle")
  /\ CallStop(t, "idle")
  /\ UNCHANGED <<src, play, mon, env, snap, wrk, dcd, sess>>

-----------------------------------------------------------------------------
(* netfm_stream_codec_start_now(): called by the monitor and by the status *)
(* screen.  The codec name is copied before the thread sleeps.             *)
CodecPending == codecReady /\ ~codecStarted

CodecClaim(t, back) ==
  /\ active /\ ~starting /\ CodecPending
  /\ starting' = TRUE
  /\ snap' = [snap EXCEPT ![t] = codec]
  /\ ret'  = [ret EXCEPT ![t] = back]
  /\ Goto(t, "bring")
  /\ UNCHANGED <<running, active, codecReady, codecStarted, threadAlive, codec, ring,
                 play, mon, env, wrk, dcd, sess>>

UiCodecStart(t) == t \in Ctl /\ At(t, "idle") /\ CodecClaim(t, "idle")

(* The output is still busy: sleep and look again (50 times at most).      *)
BringWait(t) ==
  /\ At(t, "bring") /\ cpu = t /\ (local \/ pbChan)
  /\ Yield(t, "bring")
  /\ UNCHANGED <<src, play, mon, env, ret, snap, wrk, dcd, sess>>

(* The wait is over: either the output is free, or the tries are used up.  *)
WaitOver == local \/ pbChan => cpu = Free

(* The channel is still taken, or a stop overtook the bring-up.            *)
(* Seeded fault: the claim is kept.                                        *)
BringGiveUp_KeepsClaim(t) ==
  /\ At(t, "bring") /\ WaitOver
  /\ pbChan \/ codecStarted \/ ~active
  /\ Return(t)
  /\ UNCHANGED <<src, play, mon, env, wrk, dcd, sess>>

BringGiveUp(t) ==
  /\ At(t, "bring") /\ WaitOver
  /\ pbChan \/ codecStarted \/ ~active
  /\ starting' = FALSE
  /\ Return(t)
  /\ UNCHANGED <<running, active, codecReady, codecStarted, threadAlive, codec, ring,
                 play, mon, env, wrk, dcd, sess>>

(* netfm_playback_start(): refused while nf_running; then the stop request *)
(* is withdrawn, the channel plays and the decoder thread is created.      *)
PlaybackStart(t) ==
  \/ nfRunning /\ UNCHANGED <<play, dcd>>
  \/ /\ ~nfRunning
     /\ nfStopReq' = FALSE
     /\ \/ \E d \in Dec \ LiveDec :
             /\ dpc' = [dpc EXCEPT ![d] = "load"]
             /\ dcodec' = [dcodec EXCEPT ![d] = snap[t]]
             /\ nfChan' = TRUE /\ nfRunning' = TRUE
        \/ /\ nfChan' = FALSE               \* pthread_create() failed
           /\ UNCHANGED <<nfRunning, dcd>>

BringUp(t) ==
  /\ At(t, "bring") /\ WaitOver
  /\ ~pbChan /\ ~codecStarted /\ active
  /\ codecStarted' = TRUE /\ starting' = FALSE
  /\ PlaybackStart(t)
  /\ Return(t)
  /\ UNCHANGED <<running, active, codecReady, threadAlive, codec, ring,
                 mon, env, wrk, sess>>

-----------------------------------------------------------------------------
(* netfm_monitor_thread()                                                  *)
MonKeep == UNCHANGED <<src, play, env, snap, wrk, dcd, sess>>

MonClaim == At(Mon, "loop") /\ CodecClaim(Mon, "ext")

MonLoop ==
  /\ At(Mon, "loop")
  /\ IF active
     THEN ~(CodecPending /\ ~starting) /\ Goto(Mon, "ext")
     ELSE Goto(Mon, "exit")
  /\ UNCHANGED <<ret, mon>> /\ MonKeep

(* Another source took the output: stop the radio; otherwise sleep.        *)
MonExternal ==
  /\ At(Mon, "ext")
  /\ IF ext THEN CallStop(Mon, "exit") ELSE Yield(Mon, "loop") /\ UNCHANGED ret
  /\ UNCHANGED mon /\ MonKeep

(* A takeover only flags the stop: finish the teardown, then end.          *)
(* Seeded fault: the teardown of a takeover is forgotten.                  *)
MonExit_NoTeardown ==
  /\ At(Mon, "exit")
  /\ Goto(Mon, "end") /\ UNCHANGED <<ret, mon>>
  /\ MonKeep

(* Seeded fault: the monitor sleeps between its last look and its end.     *)
MonExit_Sleeps ==
  /\ At(Mon, "exit")
  /\ IF ~running /\ nfRunning
     THEN CallStop(Mon, "end") /\ UNCHANGED mon
     ELSE Yield(Mon, "end") /\ UNCHANGED <<ret, mon>>
  /\ MonKeep

MonExit ==
  /\ At(Mon, "exit")
  /\ IF ~running /\ nfRunning
     THEN CallStop(Mon, "end") /\ UNCHANGED mon
     ELSE Goto(Mon, "end") /\ UNCHANGED <<ret, mon>>
  /\ MonKeep

MonEnd ==
  /\ At(Mon, "end")
  /\ monRunning' = FALSE
  /\ Yield(Mon, "none")
  /\ UNCHANGED <<ret, monRefused>> /\ MonKeep

-----------------------------------------------------------------------------
(* audio_start_playback() on the audio thread: refused while an external   *)
(* input is active; otherwise the radio is stopped asynchronously.         *)
LocalStart ==
  /\ At(Aud, "idle") /\ ~ext /\ ~local
  /\ IF active
     THEN Goto(Aud, "asyncFlag") /\ UNCHANGED local
     ELSE Yield(Aud, "idle") /\ local' = TRUE
  /\ UNCHANGED <<src, play, mon, pbChan, ext, ret, snap, wrk, dcd, sess>>

(* netfm_stream_stop_async(): the flag section, ...                        *)
(* Seeded fault: a worker that waits for room is not woken.                *)
AsyncFlag_Silent ==
  /\ At(Aud, "asyncFlag")
  /\ running' = FALSE /\ active' = FALSE
  /\ Goto(Aud, "asyncReq")
  /\ UNCHANGED <<codecReady, codecStarted, starting, threadAlive, codec, ring, play, mon,
                 env, ret, snap, wrk, dcd, sess>>

AsyncFlag ==
  /\ At(Aud, "asyncFlag")
  /\ running' = FALSE /\ active' = FALSE
  /\ Broadcast
  /\ Goto(Aud, "asyncReq")
  /\ UNCHANGED <<codecReady, codecStarted, starting, threadAlive, codec, ring, play, mon,
                 env, ret, snap, wpc, activeConn, dcd, sess>>

(* ... then netfm_playback_request_stop(); playback goes on from there.    *)
AsyncRequest ==
  /\ At(Aud, "asyncReq")
  /\ nfStopReq' = TRUE /\ local' = TRUE
  /\ Yield(Aud, "idle")
  /\ UNCHANGED <<src, nfRunning, nfChan, mon, pbChan, ext, ret, snap, wrk, dcd, sess>>

(* Enough of the track is decoded: the playback channel starts.            *)
LocalChannel ==
  /\ At(Aud, "idle") /\ cpu = Free /\ local /\ ~pbChan
  /\ pbChan' = TRUE
  /\ UNCHANGED <<src, play, mon, local, ext, rb, wrk, dcd, sess>>

LocalStop ==
  /\ At(Aud, "idle") /\ cpu = Free /\ local
  /\ local' = FALSE /\ pbChan' = FALSE
  /\ UNCHANGED <<src, play, mon, ext, rb, wrk, dcd, sess>>

(* Bluetooth receive or the USB DAC input starts or ends.                  *)
External ==
  /\ cpu = Free
  /\ ext' = ~ext
  /\ UNCHANGED <<src, play, mon, local, pbChan, rb, wrk, dcd, sess>>

-----------------------------------------------------------------------------
(* download_thread(): the worker of stream g.                              *)
WAt(g, l)   == wpc[g] = l
WGoto(g, l) == wpc' = [wpc EXCEPT ![g] = l]
SrcBut == <<running, active, codecReady, codecStarted, starting, threadAlive>>
WKeep  == UNCHANGED <<play, mon, env, rb, dcd, gen>>

(* A connection is opened: active_conn points into the worker's frame.     *)
ConnOpen(g)  == activeConn' = g
(* The direct stream always forgets the connection before closing it.      *)
ConnClose    == activeConn' = NoGen
(* fetch_http() forgets it only when nothing was read.                     *)
FetchEnd(size) == activeConn' = IF size = 0 THEN NoGen ELSE activeConn

(* Direct stream: the codec is known at once.                              *)
WMp3(g) ==
  /\ WAt(g, "mp3")
  /\ codec' \in Codecs
  /\ WGoto(g, "mp3Ready")
  /\ UNCHANGED <<SrcBut, ring, cwait, activeConn, probed>> /\ WKeep

(* HLS: the probe fetches the first segment (attempts are not counted).    *)
WProbeOpen(g) ==
  /\ WAt(g, "hls") /\ running
  /\ ConnOpen(g) /\ WGoto(g, "hlsProbe")
  /\ UNCHANGED <<src, cwait, probed>> /\ WKeep

(* fetch_http(): the probe, the playlist or a segment is read while the    *)
(* stream runs ...                                                         *)
Got  == [hlsProbe |-> "hlsProbed", hlsList |-> "hlsListed", hlsFetch |-> "hlsFetched"]
Miss == [hlsProbe |-> "hls", hlsList |-> "hlsLoop", hlsFetch |-> "hlsNext"]

WFetchData(g) ==
  /\ wpc[g] \in DOMAIN Got /\ running
  /\ WGoto(g, Got[wpc[g]])
  /\ UNCHANGED <<src, cwait, activeConn, probed>> /\ WKeep

(* ... or nothing is: no answer, an error status, or the stream stopped.   *)
WFetchNothing(g) ==
  /\ wpc[g] \in DOMAIN Miss
  /\ FetchEnd(0)
  /\ WGoto(g, Miss[wpc[g]])
  /\ UNCHANGED <<src, cwait, probed>> /\ WKeep

(* The first segment tells the codec; without an audio track, try again.   *)
WProbed(g) ==
  /\ WAt(g, "hlsProbed")
  /\ FetchEnd(1)
  /\ \/ codec' \in Codecs /\ \E l \in {"hlsReady", "hls"} : WGoto(g, l)
     \/ UNCHANGED codec /\ WGoto(g, "hls")
  /\ UNCHANGED <<SrcBut, ring, cwait, probed>> /\ WKeep

(* The attempts failed, or the stream was stopped: set ERROR and end.      *)
WProbeFail(g) ==
  /\ WAt(g, "hls")
  /\ WGoto(g, "end")
  /\ UNCHANGED <<src, cwait, activeConn, probed>> /\ WKeep

WReady(g) ==
  /\ WAt(g, "mp3Ready") \/ WAt(g, "hlsReady")
  /\ codecReady' = TRUE /\ probed' = TRUE
  /\ WGoto(g, IF WAt(g, "mp3Ready") THEN "mp3Loop" ELSE "hlsLoop")
  /\ UNCHANGED <<running, active, codecStarted, starting, threadAlive, codec, ring,
                 cwait, activeConn>> /\ WKeep

(* The head of either loop: while (source.running).                        *)
WLoopEnd(g) ==
  /\ WAt(g, "mp3Loop") \/ WAt(g, "hlsLoop")
  /\ ~running
  /\ WGoto(g, "end")
  /\ UNCHANGED <<src, cwait, activeConn, probed>> /\ WKeep

(* The stream, the playlist or its next segment is connected.  An attempt  *)
(* that fails leaves the worker where it was.                              *)
WConnect(g) ==
  /\ \/ WAt(g, "mp3Loop") /\ running /\ WGoto(g, "mp3Body")
     \/ WAt(g, "hlsLoop") /\ running /\ WGoto(g, "hlsList")
     \/ WAt(g, "hlsNext") /\ WGoto(g, "hlsFetch")
  /\ ConnOpen(g)
  /\ UNCHANGED <<src, cwait, probed>> /\ WKeep

(* Direct stream: bytes arrive, or the connection ends.                    *)
WBodyData(g) ==
  /\ WAt(g, "mp3Body") /\ running
  /\ WGoto(g, "mp3Write")
  /\ UNCHANGED <<src, cwait, activeConn, probed>> /\ WKeep

WBodyEnd(g) ==
  /\ WAt(g, "mp3Body")
  /\ ConnClose
  /\ WGoto(g, "mp3Loop")
  /\ UNCHANGED <<src, cwait, probed>> /\ WKeep

(* HLS: the playlist was read, or a segment with or without audio frames.  *)
WFetched(g) ==
  /\ \/ WAt(g, "hlsListed") /\ WGoto(g, "hlsNext")
     \/ WAt(g, "hlsFetched") /\ \E l \in {"hlsWrite", "hlsNext"} : WGoto(g, l)
  /\ FetchEnd(1)
  /\ UNCHANGED <<src, cwait, probed>> /\ WKeep

WListEnd(g) ==
  /\ WAt(g, "hlsNext")
  /\ WGoto(g, "hlsLoop")
  /\ UNCHANGED <<src, cwait, activeConn, probed>> /\ WKeep

(* ring_write(): wait for room while the stream runs, then append.         *)
AtWrite(g) == (WAt(g, "mp3Write") \/ WAt(g, "hlsWrite")) /\ g \notin cwait

WWriteWait(g) ==
  /\ AtWrite(g) /\ running /\ Len(ring) = RingCap
  /\ cwait' = cwait \cup {g}
  /\ UNCHANGED <<src, wpc, activeConn, probed>> /\ WKeep

WWrite(g) ==
  /\ AtWrite(g) /\ running /\ Len(ring) < RingCap
  /\ ring' = Append(ring, g)
  /\ Broadcast
  /\ \/ WAt(g, "mp3Write") /\ WGoto(g, "mp3Body")
     \/ WAt(g, "hlsWrite") /\ \E l \in {"hlsWrite", "hlsNext"} : WGoto(g, l)
  /\ UNCHANGED <<SrcBut, codec, activeConn, probed>> /\ WKeep

(* Stopped: ring_write() returns false.  The direct stream closes; the HLS *)
(* demultiplexer ignores the result and goes on with the playlist.         *)
WWriteStopped(g) ==
  /\ AtWrite(g) /\ ~running
  /\ \/ WAt(g, "mp3Write") /\ ConnClose /\ WGoto(g, "mp3Loop")
     \/ WAt(g, "hlsWrite") /\ WGoto(g, "hlsNext") /\ UNCHANGED activeConn
  /\ UNCHANGED <<src, cwait, probed>> /\ WKeep

(* worker_done(), and the thread returns.                                  *)
WEnd(g) ==
  /\ WAt(g, "end")
  /\ threadAlive' = FALSE
  /\ Broadcast
  /\ WGoto(g, "done")
  /\ UNCHANGED <<running, active, codecReady, codecStarted, starting, codec, ring,
                 activeConn, probed>> /\ WKeep

-----------------------------------------------------------------------------
(* nf_decode_thread() and the codec it runs: it asks for a command, reads, *)
(* decodes and inserts PCM.  The codec itself is not part of this tree; it *)
(* halts when asked to, and ends when its input does.                      *)
DGoto(d, l) == dpc' = [dpc EXCEPT ![d] = l]
DKeep == UNCHANGED <<running, active, codecReady, codecStarted, starting, threadAlive, codec,
                     nfRunning, nfStopReq, mon, env, rb, wpc, activeConn,
                     dcodec, sess>>

DLoad(d) ==
  /\ dpc[d] = "load"
  /\ \E l \in {"cmd", "none"} : DGoto(d, l)
  /\ UNCHANGED <<ring, cwait, nfChan>> /\ DKeep

DCommand(d) ==
  /\ dpc[d] = "cmd"
  /\ DGoto(d, IF nfStopReq THEN "none" ELSE "read")
  /\ UNCHANGED <<ring, cwait, nfChan>> /\ DKeep

(* read_source(): a stopped stream reads as the end of input.              *)
DReadEnd(d) ==
  /\ dpc[d] = "read" /\ ~running
  /\ DGoto(d, "none")
  /\ UNCHANGED <<ring, cwait, nfChan>> /\ DKeep

DRead(d) ==
  /\ dpc[d] = "read" /\ running /\ ring # <<>>
  /\ ring' = Tail(ring)
  /\ Broadcast
  /\ DGoto(d, "decode")
  /\ UNCHANGED nfChan /\ DKeep

(* The codec reports its format; a new rate restarts the mixer channel.    *)
DDecode(d) ==
  /\ dpc[d] = "decode"
  /\ \/ nfChan' = TRUE
     \/ UNCHANGED nfChan
  /\ DGoto(d, "insert")
  /\ UNCHANGED <<ring, cwait>> /\ DKeep

(* nf_pcm_insert(): wait while local playback has the output; a stop       *)
(* request ends the wait.                                                  *)
DInsert(d) ==
  /\ dpc[d] = "insert" /\ (nfStopReq \/ ~pbChan)
  /\ DGoto(d, "cmd")
  /\ UNCHANGED <<ring, cwait, nfChan>> /\ DKeep

-----------------------------------------------------------------------------
Init ==
  /\ running = FALSE /\ active = FALSE
  /\ codecReady = FALSE /\ codecStarted = FALSE /\ starting = FALSE /\ threadAlive = FALSE
  /\ codec = NoCodec /\ ring = <<>> /\ activeConn = NoGen
  /\ nfRunning = FALSE /\ nfStopReq = FALSE /\ nfChan = FALSE
  /\ monRunning = FALSE /\ monRefused = FALSE
  /\ local = FALSE /\ pbChan = FALSE /\ ext = FALSE
  /\ cpu = Free
  /\ pc = [t \in Rb |-> IF t = Mon THEN "none" ELSE "idle"]
  /\ ret = [t \in Rb |-> "idle"]
  /\ snap = [t \in Rb |-> NoCodec]
  /\ wpc = [g \in Gens |-> "none"] /\ cwait = {}
  /\ dpc = [d \in Dec |-> "none"] /\ dcodec = [d \in Dec |-> NoCodec]
  /\ gen = NoGen /\ probed = FALSE

(* What a Rockbox thread does in the middle of an operation.               *)
RbStep(t) ==
  \/ StopFlag(t) \/ StopPlay(t) \/ StopClear(t)
  \/ WaitWorker(t) \/ StartRefused(t) \/ StartCommit(t)
  \/ CreateWorker(t) \/ CreateWorkerFails(t) \/ MonitorStart(t)
  \/ BringWait(t) \/ BringGiveUp(t) \/ BringUp(t)

MonStep == MonClaim \/ MonLoop \/ MonExternal \/ MonExit \/ MonEnd \/ RbStep(Mon)
AudStep == AsyncFlag \/ AsyncRequest

(* What users, bluetooth, USB and the playlist engine ask for.             *)
Request ==
  \/ \E t \in Ctl : Start(t) \/ StepStation(t) \/ Stop(t) \/ UiCodecStart(t)
  \/ LocalStart \/ LocalChannel \/ LocalStop \/ External

Worker(g) ==
  \/ WMp3(g) \/ WProbeOpen(g) \/ WProbed(g) \/ WProbeFail(g) \/ WReady(g)
  \/ WFetchData(g) \/ WFetchNothing(g) \/ WFetched(g) \/ WListEnd(g)
  \/ WLoopEnd(g) \/ WConnect(g) \/ WBodyData(g) \/ WBodyEnd(g)
  \/ WWriteWait(g) \/ WWrite(g) \/ WWriteStopped(g) \/ WEnd(g)

Decoder(d) ==
  \/ DLoad(d) \/ DCommand(d) \/ DReadEnd(d) \/ DRead(d) \/ DDecode(d) \/ DInsert(d)

Next ==
  \/ Request
  \/ \E t \in Ctl : RbStep(t)
  \/ MonStep
  \/ AudStep
  \/ \E g \in Gens : Worker(g)
  \/ \E d \in Dec : Decoder(d)

Spec == Init /\ [][Next]_vars

(* The cooperative scheduler runs every thread that is ready, and the      *)
(* kernel every pthread; socket calls time out (SO_RCVTIMEO); a playlist   *)
(* is finite.                                                              *)
Fairness ==
  /\ \A t \in Ctl : SF_vars(RbStep(t))
  /\ SF_vars(MonStep)
  /\ SF_vars(AudStep)
  /\ \A g \in Gens : WF_vars(Worker(g)) /\ SF_vars(WListEnd(g))
  /\ \A d \in Dec : WF_vars(Decoder(d))

FairSpec == Spec /\ Fairness
-----------------------------------------------------------------------------
WorkerLabels == {"none", "mp3", "mp3Ready", "mp3Loop", "mp3Body", "mp3Write",
                 "hls", "hlsProbe", "hlsProbed", "hlsReady", "hlsLoop", "hlsList",
                 "hlsListed", "hlsNext", "hlsFetch", "hlsFetched", "hlsWrite", "end", "done"}
RbLabels     == {"none", "idle", "stop", "stopPlay", "stopClear", "wait", "create",
                 "monitor", "bring", "loop", "ext", "exit", "end", "asyncFlag", "asyncReq"}
RetLabels    == {"idle", "wait", "ext", "exit", "end"}    \* where calls return to
DecLabels    == {"none", "load", "cmd", "read", "decode", "insert"}

SrcType ==
  /\ running \in BOOLEAN /\ active \in BOOLEAN /\ codecReady \in BOOLEAN
  /\ codecStarted \in BOOLEAN /\ starting \in BOOLEAN /\ threadAlive \in BOOLEAN
  /\ codec \in Codecs \cup {NoCodec}
  /\ ring \in Seq(Gens) /\ Len(ring) <= RingCap
PlayType == nfRunning \in BOOLEAN /\ nfStopReq \in BOOLEAN /\ nfChan \in BOOLEAN
MonType  == monRunning \in BOOLEAN /\ monRefused \in BOOLEAN
EnvType  == local \in BOOLEAN /\ pbChan \in BOOLEAN /\ ext \in BOOLEAN
RbType ==
  /\ cpu \in Rb \cup {Free} /\ pc \in [Rb -> RbLabels] /\ ret \in [Rb -> RetLabels]
  /\ snap \in [Rb -> Codecs \cup {NoCodec}]
WrkType ==
  /\ wpc \in [Gens -> WorkerLabels] /\ cwait \in SUBSET Gens
  /\ activeConn \in Gens \cup {NoGen}
DcdType  == dpc \in [Dec -> DecLabels] /\ dcodec \in [Dec -> Codecs \cup {NoCodec}]
SessType == gen \in Gens \cup {NoGen} /\ probed \in BOOLEAN

(* Types; the compressed ring never holds more than it has room for.       *)
TypeOK == /\ SrcType /\ PlayType /\ MonType /\ EnvType
          /\ RbType /\ WrkType /\ DcdType /\ SessType

(* thread_alive hands the ring and the source over from one worker to the  *)
(* next: a worker that lives is that of the newest stream, and start() can *)
(* tell that it lives.                                                     *)
WorkerHandshake == \A g \in LiveWorker : g = gen /\ threadAlive

(* The control state is sound, and one worker works for one stream.        *)
ControlSound == TypeOK /\ WorkerHandshake

(* What is in the ring was written for the stream that plays: no chunk of  *)
(* a station that was left reaches the decoder of the next one.            *)
RingIsCurrent == \A i \in 1 .. Len(ring) : ring[i] = gen

(* pthread_cond_wait() in ring_write(): no worker sleeps on after the room *)
(* or the stop it waits for has come (no lost wakeup, whoever the stopper).*)
NoLostWakeup == cwait # {} => running /\ Len(ring) = RingCap

(* A stream that is on the air is watched: netfm_mon_running never claims  *)
(* a monitor that has decided to end.                                      *)
MonitorOnDuty == active /\ cpu = Free => monRefused \/ (monRunning /\ pc[Mon] # "none")

(* stop_async() leaves the mixer channel and nf_running to the monitor:    *)
(* the monitor does not end before that teardown is done.                  *)
TeardownDone ==
  ~active /\ ~monRunning /\ ~monRefused /\ cpu = Free => ~nfRunning

(* The monitor does its two duties: it neither leaves a stream that plays   *)
(* nor one whose decoder has still to be stopped.                          *)
MonitorDuties == MonitorOnDuty /\ TeardownDone

(* The decoder that plays is the one codec_started stands for, so no       *)
(* second bring-up is attempted while it plays.                            *)
DecoderClaimed == nfRunning /\ cpu = Free => codecStarted

(* A stopped stream's worker always ends, wherever the stop found it.      *)
WorkerEnds == \A g \in Gens : (g \in LiveWorker /\ ~running) ~> g \notin LiveWorker

(* Local playback that took the radio over gets the output: the flagged    *)
(* decoder is torn down.                                                   *)
TakeoverCompletes == (~active /\ nfRunning) ~> (~nfRunning \/ monRefused)

(* A probed stream is brought up once the output is free.                  *)
BringUpHappens ==
  (active /\ CodecPending) ~> (codecStarted \/ ~active \/ pbChan \/ monRefused)

-----------------------------------------------------------------------------
(* What comments of the code say and the code does not keep.               *)

(* netfm_playback.c:423-426, "the codec returns CODEC_ACTION_HALT" and the  *)
(* decoder thread "winds down on its own": a stopped decoder ends, unless  *)
(* it waits for input for ever.                                            *)
DecoderWindsDown ==
  \A d \in Dec :
    [](dpc[d] # "none" /\ ~nfRunning => <>(dpc[d] = "none") \/ <>[](dpc[d] = "read"))
=============================================================================
