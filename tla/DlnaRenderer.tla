---------------------------- MODULE DlnaRenderer ----------------------------
(***************************************************************************)
(* The DLNA renderer from the controller's commands to the decoder: the    *)
(* AVTransport service (apps/dlna/gmr/upnp_transport.c) posts requests,    *)
(* the monitor of apps/dlna/dlna_output.c carries them out, tells the      *)
(* service what became of them and goes on to a queued track, and          *)
(* apps/dlna/dlna_stream.c starts and stops one worker, one decoder        *)
(* (dlna_playback.c) and the stream's own monitor, which makes way for     *)
(* other sources.                                                          *)
(*                                                                         *)
(* The service runs on pthreads of libupnp, worker and decoder are         *)
(* pthreads; the two monitors and the screens are Rockbox threads, of      *)
(* which one runs until it sleeps (cpu, as in NetfmStream).  What a file   *)
(* holds, volume and positions are left out; the ring is in DlnaWindow.    *)
(***************************************************************************)
EXTENDS Naturals

CONSTANTS
  Om,        \* the "dlna out" thread: dlna_output_monitor()
  Dm,        \* the "dlna mon" thread: dlna_monitor_thread()
  Ui,        \* the thread of the screens
  Free,      \* no Rockbox thread is in the middle of an operation
  MaxCmd,    \* bound: commands of the controller
  Patient,   \* a command comes when the one before it has been taken up
  Timely,    \* network and worker are slower than a turn of a Rockbox thread
  Smooth     \* no other source comes up against a track that is asked for

ASSUME RendererAssumption ==
  /\ Om # Dm /\ Om # Ui /\ Dm # Ui /\ Free \notin {Om, Dm, Ui}
  /\ MaxCmd \in Nat
  /\ Patient \in BOOLEAN /\ Timely \in BOOLEAN /\ Smooth \in BOOLEAN

Rb   == {Om, Dm, Ui}
Gens == 1 .. MaxCmd          \* streams: each is started by a command

VARIABLES
  \* upnp_transport.c and what the controller has asked for last
  transport, order, cmds,
  \* dlna_output.c
  curUri, nextUri,                 \* whether one is set
  pendPlay, pendStop, wasActive, stopReported,
  \* struct dlna_source; finished: its state is DLNA_STREAM_FINISHED
  running, active, codecReady, codecStarted, starting, threadAlive, eof, finished,
  gen, wpc,                        \* the stream started last, and the workers
  \* dlna_playback.c, and the stream its decoder was started for
  dpRunning, dpStopReq, dpDone, dec, decGen,
  dmRunning,                       \* dlna_mon_running
  local, other,                    \* local playback; radio or external input
  cpu, pc, ret, back               \* Rockbox threads

ctl  == <<transport, order, cmds, curUri, nextUri, pendPlay, pendStop>>
rep  == <<wasActive, stopReported>>
code == <<codecReady, codecStarted, starting>>
src  == <<running, active, code, threadAlive, eof, finished>>
wrk  == <<gen, wpc>>
play == <<dpRunning, dpStopReq, dpDone, dec, decGen>>
env  == <<local, other>>
vars == <<ctl, rep, src, wrk, play, dmRunning, env, cpu, pc, ret, back>>

At(t, l)    == pc[t] = l /\ cpu \in {Free, t}
Goto(t, l)  == pc' = [pc EXCEPT ![t] = l] /\ cpu' = t
Yield(t, l) == pc' = [pc EXCEPT ![t] = l] /\ cpu' = Free
Return(t)   ==
  /\ IF ret[t] = "idle" THEN Yield(t, "idle") ELSE Goto(t, ret[t])
  /\ ret' = [ret EXCEPT ![t] = "idle"]

Quiet == Timely => cpu = Free

LiveWorker == {g \in Gens : wpc[g] # "none"}
NoThread   == threadAlive /\ LiveWorker = {}   \* a worker could not be created

-----------------------------------------------------------------------------
\* The AVTransport service: one action at a time, under service_lock().

Command ==
  /\ cmds < MaxCmd /\ cmds' = cmds + 1
  /\ Patient => ~pendPlay /\ ~pendStop
  /\ Smooth => ~(active /\ other)
CmdKeep == UNCHANGED <<rep, src, wrk, play, dmRunning, env, cpu, pc, ret, back>>

\* set_avtransport_uri(): a URI that differs restarts a stream that is active.
SetUri ==
  /\ Command /\ curUri' = TRUE
  /\ \/ UNCHANGED <<pendPlay, order>>
     \/ active /\ pendPlay' = TRUE /\ order' = "play"
  /\ UNCHANGED <<transport, nextUri, pendStop>> /\ CmdKeep

SetNextUri ==
  /\ Command /\ nextUri' \in BOOLEAN
  /\ Smooth => ~other /\ pc[Ui] = "idle"
  /\ UNCHANGED <<transport, order, curUri, pendPlay, pendStop>> /\ CmdKeep

\* play(): nothing to change while PLAYING, an error without a URI.
Play ==
  /\ Command /\ transport # "PLAYING" /\ curUri
  /\ pendPlay' = TRUE /\ transport' = "PLAYING" /\ order' = "play"
  /\ UNCHANGED <<curUri, nextUri, pendStop>> /\ CmdKeep

\* stop() and pause_stream(): the engine has no pause.
Stop ==
  /\ Command /\ transport # "STOPPED"
  /\ pendStop' = TRUE /\ order' = "stop"
  /\ \/ transport' = "STOPPED"
     \/ transport = "PLAYING" /\ transport' = "PAUSED"
  /\ UNCHANGED <<curUri, nextUri, pendPlay>> /\ CmdKeep

\* The stop button of the screen, dlna_output_request_stop().
StopButton ==
  /\ Command /\ At(Ui, "idle")
  /\ pendStop' = TRUE /\ order' = "stop"
  /\ UNCHANGED <<transport, curUri, nextUri, pendPlay>> /\ CmdKeep

-----------------------------------------------------------------------------
\* dlna_stream_stop(); ret[t] says where the caller goes on.

CallStop(t, r) == Goto(t, "stop") /\ ret' = [ret EXCEPT ![t] = r]

StopFlag(t) ==
  /\ At(t, "stop") /\ Goto(t, "stopPlay")
  /\ running' = FALSE /\ active' = FALSE /\ finished' = FALSE
  /\ UNCHANGED <<ctl, rep, code, threadAlive, eof, wrk, play, dmRunning, env, ret, back>>

\* dlna_pb_stop(): nothing before dp_running is set.
PbStop ==
  IF dpRunning
  THEN dpStopReq' = TRUE /\ dpRunning' = FALSE /\ dpDone' = TRUE /\ UNCHANGED <<dec, decGen>>
  ELSE UNCHANGED play

StopPlay(t) ==
  /\ At(t, "stopPlay") /\ Return(t)
  /\ PbStop
  /\ codecReady' = FALSE /\ codecStarted' = FALSE /\ starting' = FALSE
  /\ UNCHANGED <<ctl, rep, running, active, threadAlive, eof, finished, wrk, dmRunning,
                 env, back>>

-----------------------------------------------------------------------------
\* dlna_stream_codec_start_now(), by either monitor and the screen.

CodecPending == codecReady /\ ~codecStarted
CodecKeep == UNCHANGED <<ctl, rep, running, active, threadAlive, eof, finished, wrk,
                         dmRunning, env, back>>

CodecClaim(t, r) ==
  /\ active /\ ~starting /\ CodecPending
  /\ starting' = TRUE /\ ret' = [ret EXCEPT ![t] = r] /\ Goto(t, "bring")
  /\ UNCHANGED <<codecReady, codecStarted, play>> /\ CodecKeep

\* Local playback still has the output: it sleeps and looks again, 50 times.
BringWait(t) ==
  /\ At(t, "bring") /\ cpu = t /\ local /\ Yield(t, "bring")
  /\ UNCHANGED <<code, play, ret>> /\ CodecKeep

WaitOver == local => cpu = Free

BringGiveUp(t) ==
  /\ At(t, "bring") /\ WaitOver /\ (local \/ codecStarted \/ ~active)
  /\ starting' = FALSE /\ Return(t)
  /\ UNCHANGED <<codecReady, codecStarted, play>> /\ CodecKeep

BringClaim(t) ==
  /\ At(t, "bring") /\ WaitOver /\ ~local /\ ~codecStarted /\ active
  /\ codecStarted' = TRUE /\ Goto(t, "pbStart")
  /\ UNCHANGED <<codecReady, starting, play, ret>> /\ CodecKeep

\* dlna_pb_start(): refused while a decoder lives; pthread_create() may fail.
PbStart(t) ==
  /\ At(t, "pbStart")
  /\ \/ /\ ~dpRunning /\ dec = "none"
        /\ dpStopReq' = FALSE /\ dpDone' = FALSE
        /\ dec' = "run" /\ dpRunning' = TRUE /\ decGen' = gen
     \/ UNCHANGED play
  /\ starting' = FALSE /\ Return(t)
  /\ UNCHANGED <<codecReady, codecStarted>> /\ CodecKeep

-----------------------------------------------------------------------------
\* dlna_output_monitor(), a turn of which begins with the requests.

OmKeep == UNCHANGED <<transport, order, cmds, nextUri, rep, wrk, play, dmRunning, env>>

OmStop ==
  /\ At(Om, "turn")
  /\ IF pendStop THEN pendStop' = FALSE /\ CallStop(Om, "play")
                 ELSE Goto(Om, "play") /\ UNCHANGED <<pendStop, ret>>
  /\ UNCHANGED <<curUri, pendPlay, src, back>> /\ OmKeep

\* dlna_output_do_play(), which goes on at b; a local playback is stopped
\* first and waited for, a bounded time.
DoPlay(b) ==
  /\ back' = b
  /\ Goto(Om, IF other THEN b ELSE IF local THEN "takeover" ELSE "start")

OmPlay ==
  /\ At(Om, "play")
  /\ IF pendPlay THEN pendPlay' = FALSE /\ DoPlay("played")
                 ELSE Goto(Om, "codec") /\ UNCHANGED <<pendPlay, back>>
  /\ UNCHANGED <<curUri, pendStop, src, ret>> /\ OmKeep

OmTakeover ==
  /\ At(Om, "takeover")
  /\ IF local /\ cpu = Om THEN Yield(Om, "takeover") ELSE Goto(Om, "start")
  /\ UNCHANGED <<curUri, pendPlay, pendStop, src, ret, back>> /\ OmKeep

\* dlna_stream_start(): refused (no network, another source, no TLS, not a
\* stream), or the old stream is stopped.
StartRefused ==
  /\ At(Om, "start") /\ (Smooth => back # "next")
  /\ stopReported' = FALSE /\ Goto(Om, back)
  /\ UNCHANGED <<ctl, wasActive, src, wrk, play, dmRunning, env, ret, back>>

StartStops ==
  /\ At(Om, "start") /\ ~other
  /\ stopReported' = FALSE /\ CallStop(Om, "wait")
  /\ UNCHANGED <<ctl, wasActive, src, wrk, play, dmRunning, env, back>>

\* Its worker and its decoder are waited for, a bounded time each.
StartWait ==
  /\ At(Om, "wait") /\ (threadAlive \/ dec # "none")
  /\ \/ cpu = Om /\ Yield(Om, "wait")
     \/ cpu = Free /\ (Smooth /\ ~NoThread => back # "next") /\ Goto(Om, back)
  /\ UNCHANGED <<curUri, pendPlay, pendStop, src, ret, back>> /\ OmKeep

Fresh ==
  /\ threadAlive' = TRUE /\ eof' = FALSE /\ finished' = FALSE
  /\ codecReady' = FALSE /\ codecStarted' = FALSE /\ starting' = FALSE

\* pthread_create() failed: it is stopped, and thread_alive stays set.
StartFails ==
  /\ At(Om, "wait") /\ ~threadAlive /\ dec = "none" /\ (Smooth => back # "next")
  /\ Fresh /\ running' = TRUE /\ active' = TRUE
  /\ CallStop(Om, back)
  /\ UNCHANGED <<curUri, pendPlay, pendStop, back>> /\ OmKeep

NewStream ==
  /\ Fresh /\ running' = TRUE /\ active' = TRUE
  /\ gen' = gen + 1 /\ wpc' = [wpc EXCEPT ![gen + 1] = "load"]
  /\ IF dmRunning THEN pc' = [pc EXCEPT ![Om] = back] /\ UNCHANGED dmRunning
     ELSE pc' = [pc EXCEPT ![Om] = back, ![Dm] = "loop"] /\ dmRunning' = TRUE
  /\ cpu' = Om
  /\ UNCHANGED <<ctl, rep, play, env, ret, back>>

\* Seeded fault: the old worker is not waited for.
StartCommits_NoWait == At(Om, "wait") /\ dec = "none" /\ NewStream

StartCommits == At(Om, "wait") /\ ~threadAlive /\ dec = "none" /\ NewStream

\* Seeded fault: the flags are cleared when the play has been carried out.
OmPlayed_Clears ==
  /\ At(Om, "played")
  /\ IF active THEN Goto(Om, "codec") /\ back' = "none"
               ELSE Goto(Om, "tell") /\ back' = "codec"
  /\ pendPlay' = FALSE /\ pendStop' = FALSE
  /\ UNCHANGED <<curUri, src, ret>> /\ OmKeep

\* The push could not start: the transport goes back to STOPPED.
OmPlayed ==
  /\ At(Om, "played")
  /\ IF active THEN Goto(Om, "codec") /\ back' = "none"
               ELSE Goto(Om, "tell") /\ back' = "codec"
  /\ UNCHANGED <<curUri, pendPlay, pendStop, src, ret>> /\ OmKeep

\* inform_play_transition_from_output(PLAY_STOPPED)
OmTell ==
  /\ At(Om, "tell") /\ Goto(Om, back) /\ back' = "none"
  /\ transport' = "STOPPED" /\ stopReported' = TRUE
  /\ UNCHANGED <<order, cmds, curUri, nextUri, pendPlay, pendStop, wasActive, src, wrk, play,
                 dmRunning, env, ret>>

OmCodec ==
  /\ At(Om, "codec")
  /\ \/ CodecClaim(Om, "status")
     \/ /\ ~(active /\ ~starting /\ CodecPending) /\ Goto(Om, "status")
        /\ UNCHANGED <<code, play, ret>> /\ CodecKeep

\* Seeded fault: a stream that another owner stopped is forgotten.
Ended_OwnEnd == active /\ finished

\* The stream ended: the queued track starts, or the transport is told once.
Ended == (active /\ finished) \/ (wasActive /\ ~active)

OmAdvance ==
  /\ At(Om, "status") /\ Ended /\ nextUri
  /\ curUri' = TRUE /\ nextUri' = FALSE /\ stopReported' = FALSE
  /\ order' = "play"
  /\ DoPlay("next")
  /\ UNCHANGED <<transport, cmds, pendPlay, pendStop, wasActive, src, wrk, play, dmRunning,
                 env, ret>>

OmReport ==
  /\ At(Om, "status") /\ ~(Ended /\ nextUri)
  /\ IF Ended /\ ~stopReported THEN Goto(Om, "tell") /\ back' = "next"
                               ELSE Goto(Om, "next") /\ UNCHANGED back
  /\ UNCHANGED <<curUri, pendPlay, pendStop, src, ret>> /\ OmKeep

OmSleep ==
  /\ At(Om, "next") /\ Yield(Om, "turn") /\ back' = "none"
  /\ wasActive' = active
  /\ UNCHANGED <<ctl, stopReported, src, wrk, play, dmRunning, env, ret>>

-----------------------------------------------------------------------------
\* dlna_monitor_thread()

DmKeep == UNCHANGED <<ctl, rep, src, wrk, play, env, back>>

DmLook ==
  /\ At(Dm, "loop")
  /\ \/ CodecClaim(Dm, "ext")
     \/ /\ ~(active /\ ~starting /\ CodecPending)
        /\ Goto(Dm, IF active THEN "ext" ELSE "exit")
        /\ UNCHANGED <<code, play, ret>> /\ CodecKeep

\* Seeded fault: it does not look for other sources.
DmExt_Blind ==
  /\ At(Dm, "ext") /\ Yield(Dm, "loop") /\ UNCHANGED ret
  /\ UNCHANGED dmRunning /\ DmKeep

DmExt ==
  /\ At(Dm, "ext")
  /\ IF other THEN CallStop(Dm, "exit") ELSE Yield(Dm, "loop") /\ UNCHANGED ret
  /\ UNCHANGED dmRunning /\ DmKeep

DmExit ==
  /\ At(Dm, "exit")
  /\ IF ~running /\ dpRunning /\ ~dpDone THEN CallStop(Dm, "end")
                                         ELSE Goto(Dm, "end") /\ UNCHANGED ret
  /\ UNCHANGED dmRunning /\ DmKeep

DmEnd ==
  /\ At(Dm, "end") /\ Yield(Dm, "none") /\ dmRunning' = FALSE
  /\ UNCHANGED ret /\ DmKeep

-----------------------------------------------------------------------------
\* The screens, the other sources and local playback.

EnvKeep == UNCHANGED <<ctl, rep, src, wrk, play, dmRunning, ret, back>>
Rival   == Smooth => ~pendPlay /\ ~nextUri /\ back # "next"

UiCodec == At(Ui, "idle") /\ CodecClaim(Ui, "idle")

\* The radio's and the bluetooth screen stop the stream, stop and wait for
\* local playback, and start their own.
Preempt ==
  /\ At(Ui, "idle") /\ active /\ Rival /\ CallStop(Ui, "take")
  /\ UNCHANGED <<ctl, rep, src, wrk, play, dmRunning, env, back>>

Take ==
  /\ At(Ui, "take")
  /\ \/ cpu = Ui /\ local /\ Yield(Ui, "take") /\ UNCHANGED other
     \/ Rival /\ Yield(Ui, "idle") /\ other' = TRUE
     \/ Yield(Ui, "idle") /\ UNCHANGED other
  /\ UNCHANGED local /\ EnvKeep

\* USB audio comes by itself, and either source ends when it likes; a thread
\* looks at them once in a turn, so that they change between turns.
Plug      == cpu = Free /\ ~other /\ Rival /\ other' = TRUE
OtherEnds == cpu = Free /\ other /\ other' = FALSE
Others ==
  /\ Plug \/ OtherEnds
  /\ UNCHANGED <<local, cpu, pc>> /\ EnvKeep

\* Local playback is refused while a stream or an input is active.
LocalStart == cpu = Free /\ ~active /\ ~other /\ ~local /\ local' = TRUE
LocalStop  == cpu = Free /\ local /\ local' = FALSE
Local ==
  /\ LocalStart \/ LocalStop
  /\ UNCHANGED <<other, cpu, pc>> /\ EnvKeep

-----------------------------------------------------------------------------
\* download_thread() of stream g, for one file that fits the ring.

WGoto(g, l) == wpc' = [wpc EXCEPT ![g] = l] /\ UNCHANGED gen
WrkKeep == UNCHANGED <<ctl, rep, running, active, codecStarted, starting, dmRunning, env,
                       cpu, pc, ret, back>>

\* The first block names the codec; running was looked at before it came.
WSniff(g) ==
  /\ wpc[g] = "load" /\ Quiet /\ WGoto(g, "body")
  /\ codecReady' = TRUE
  /\ UNCHANGED <<threadAlive, eof, finished, play>> /\ WrkKeep

WEof(g) ==
  /\ wpc[g] = "body" /\ running /\ WGoto(g, "await")
  /\ eof' = TRUE
  /\ UNCHANGED <<codecReady, threadAlive, finished, play>> /\ WrkKeep

WLeave(g) ==
  /\ wpc[g] \in {"load", "body"} /\ ~running /\ WGoto(g, "end")
  /\ UNCHANGED <<codecReady, threadAlive, eof, finished, play>> /\ WrkKeep

\* Seeded fault: the decoder is not given time to start.
WAwait_NoTime(g) ==
  /\ wpc[g] = "await" /\ Quiet /\ WGoto(g, "drain")
  /\ UNCHANGED <<codecReady, threadAlive, eof, finished, play>> /\ WrkKeep

\* Ten seconds for the decoder to start, then as long as it plays.
WAwait(g) ==
  /\ wpc[g] = "await" /\ Quiet /\ (Timely => codecStarted \/ ~running) /\ WGoto(g, "drain")
  /\ UNCHANGED <<codecReady, threadAlive, eof, finished, play>> /\ WrkKeep

WDrained(g) ==
  /\ wpc[g] = "drain" /\ Quiet /\ (running => ~dpRunning \/ dpDone) /\ WGoto(g, "last")
  /\ UNCHANGED <<codecReady, threadAlive, eof, finished, play>> /\ WrkKeep

WLast(g) ==
  /\ wpc[g] = "last" /\ WGoto(g, IF running THEN "pbstop" ELSE "end")
  /\ UNCHANGED <<codecReady, threadAlive, eof, finished, play>> /\ WrkKeep

WPbStop(g) ==
  /\ wpc[g] = "pbstop" /\ WGoto(g, "report")
  /\ PbStop
  /\ UNCHANGED <<codecReady, threadAlive, eof, finished>> /\ WrkKeep

WReport(g) ==
  /\ wpc[g] = "report" /\ WGoto(g, "end")
  /\ finished' = TRUE
  /\ UNCHANGED <<codecReady, threadAlive, eof, play>> /\ WrkKeep

WEnd(g) ==
  /\ wpc[g] = "end" /\ WGoto(g, "none")
  /\ threadAlive' = FALSE
  /\ UNCHANGED <<codecReady, eof, finished, play>> /\ WrkKeep

\* dp_decode_thread(): halted, at the end of the file, or on an error.
DecKeep == UNCHANGED <<ctl, rep, src, wrk, dpRunning, dpStopReq, dmRunning, env,
                       cpu, pc, ret, back>>
DecDone == dec = "run" /\ dec' = "leave" /\ dpDone' = TRUE /\ decGen' = 0 /\ DecKeep
DecExit == dec = "leave" /\ dec' = "none" /\ UNCHANGED <<dpDone, decGen>> /\ DecKeep

-----------------------------------------------------------------------------
Init ==
  /\ transport = "STOPPED" /\ order = "none" /\ cmds = 0
  /\ curUri \in BOOLEAN /\ nextUri = FALSE /\ pendPlay = FALSE /\ pendStop = FALSE
  /\ wasActive = FALSE /\ stopReported = FALSE
  /\ running = FALSE /\ active = FALSE
  /\ codecReady = FALSE /\ codecStarted = FALSE /\ starting = FALSE
  /\ threadAlive = FALSE /\ eof = FALSE /\ finished = FALSE
  /\ gen = 0 /\ wpc = [g \in Gens |-> "none"]
  /\ dpRunning = FALSE /\ dpStopReq = FALSE /\ dpDone = FALSE
  /\ dec = "none" /\ decGen = 0
  /\ dmRunning = FALSE
  /\ local = FALSE /\ other = FALSE
  /\ cpu = Free /\ pc = [t \in Rb |-> CASE t = Om -> "turn" [] t = Dm -> "none" [] OTHER -> "idle"]
  /\ ret = [t \in Rb |-> "idle"] /\ back = "none"

Commands ==
  \/ SetUri \/ SetNextUri \/ Play \/ Stop \/ StopButton

Calls(t) ==
  \/ StopFlag(t) \/ StopPlay(t)
  \/ BringWait(t) \/ BringGiveUp(t) \/ BringClaim(t) \/ PbStart(t)

OmStep ==
  \/ OmStop \/ OmPlay \/ OmTakeover
  \/ StartRefused \/ StartStops \/ StartWait \/ StartFails \/ StartCommits
  \/ OmPlayed \/ OmTell \/ OmCodec \/ OmAdvance \/ OmReport \/ OmSleep \/ Calls(Om)
DmStep == DmLook \/ DmExt \/ DmExit \/ DmEnd \/ Calls(Dm)
UiStep == Take \/ Calls(Ui)

Worker(g) ==
  \/ WSniff(g) \/ WEof(g) \/ WLeave(g) \/ WAwait(g) \/ WDrained(g) \/ WLast(g)
  \/ WPbStop(g) \/ WReport(g) \/ WEnd(g)

Next ==
  \/ Commands \/ OmStep \/ DmStep \/ UiStep
  \/ UiCodec \/ Preempt \/ Others \/ Local
  \/ \E g \in Gens : Worker(g)
  \/ DecDone \/ DecExit

Spec == Init /\ [][Next]_vars

\* The cooperative scheduler runs every thread that is ready, the kernel
\* every pthread; a decoder that is halted or has read all comes to its end.
Fairness ==
  /\ SF_vars(OmStep) /\ SF_vars(DmStep) /\ SF_vars(UiStep)
  /\ SF_vars(\E g \in Gens : Worker(g))
  /\ WF_vars(((dpStopReq \/ eof) /\ DecDone) \/ DecExit)

FairSpec == Spec /\ Fairness

-----------------------------------------------------------------------------
OmLabels == {"turn", "play", "takeover", "start", "wait", "played", "tell", "codec",
             "status", "next"}
Labels   == OmLabels \cup {"none", "idle", "stop", "stopPlay", "bring", "pbStart", "loop",
                           "ext", "exit", "end", "take"}
WLabels  == {"none", "load", "body", "await", "drain", "last", "pbstop", "report", "end"}

TypeOK ==
  /\ transport \in {"STOPPED", "PLAYING", "PAUSED"} /\ order \in {"none", "play", "stop"}
  /\ cmds \in 0 .. MaxCmd
  /\ \A b \in {curUri, nextUri, pendPlay, pendStop, wasActive, stopReported, running, active, codecReady,
               codecStarted, starting, threadAlive, eof, finished, dpRunning, dpStopReq,
               dpDone, dmRunning, local, other} : b \in BOOLEAN
  /\ gen \in 0 .. MaxCmd /\ wpc \in [Gens -> WLabels]
  /\ dec \in {"none", "run", "leave"} /\ decGen \in 0 .. MaxCmd
  /\ cpu \in Rb \cup {Free} /\ pc \in [Rb -> Labels] /\ ret \in [Rb -> Labels]
  /\ back \in {"none", "played", "codec", "next"}

\* start() takes nothing over from the stream before: a worker that lives is
\* the newest stream's, no decoder runs on unasked for a stream that is not
\* the active one, and an active stream has its monitor.
WorkerIsCurrent  == \A g \in LiveWorker : g = gen /\ threadAlive
DecoderIsCurrent ==
  dec = "run" /\ dpRunning /\ cpu = Free => active /\ codecStarted /\ decGen = gen
MonitorOnDuty    == active /\ cpu = Free => dmRunning /\ pc[Dm] \notin {"none", "end"}
EngineSound      == TypeOK /\ WorkerIsCurrent /\ DecoderIsCurrent /\ MonitorOnDuty

\* FINISHED means that the file has been played: the monitor never goes on to
\* the queued track, or tells the controller, while a decoder is at work or
\* has still to come.
FinishDrained == active /\ finished => codecStarted /\ dec # "run"

Silent == ~active \/ finished

\* What the comment of dlna_output_monitor() fears does not happen: a
\* renderer that fell silent does not stay PLAYING.
TransportTold == (transport = "PLAYING" /\ Silent) ~> (transport # "PLAYING" \/ ~Silent)

\* A stop, of the controller or of the screen, ends the stream unless the
\* controller or the queue has asked for another.
StopObeyed == order = "stop" ~> (~active \/ order # "stop")

\* The renderer makes way for a radio or an input that takes the output.
OutputYields == (active /\ other) ~> (~active \/ ~other)
=============================================================================
