------------------------- MODULE DlnaRendererProofs -------------------------
(***************************************************************************)
(* Proofs about DlnaRenderer: whatever the controller asks for and however *)
(* many streams it starts, and without any assumption on the network, the  *)
(* other sources or the order of the commands, nothing of one stream runs  *)
(* into the next.                                                          *)
(***************************************************************************)
EXTENDS DlnaRenderer, TLAPS

-----------------------------------------------------------------------------
\* The parts of TypeOK: flags, the service, streams, threads.

Asked ==
  /\ curUri \in BOOLEAN /\ nextUri \in BOOLEAN
  /\ pendPlay \in BOOLEAN /\ pendStop \in BOOLEAN
  /\ wasActive \in BOOLEAN /\ stopReported \in BOOLEAN
Stages ==
  /\ running \in BOOLEAN /\ active \in BOOLEAN
  /\ codecReady \in BOOLEAN /\ codecStarted \in BOOLEAN /\ starting \in BOOLEAN
Ends == threadAlive \in BOOLEAN /\ eof \in BOOLEAN /\ finished \in BOOLEAN
Devices ==
  /\ dpRunning \in BOOLEAN /\ dpStopReq \in BOOLEAN /\ dpDone \in BOOLEAN
  /\ dmRunning \in BOOLEAN /\ local \in BOOLEAN /\ other \in BOOLEAN
Service == transport \in {"STOPPED", "PLAYING", "PAUSED"} /\ order \in {"none", "play", "stop"}
Streams ==
  /\ wpc \in [Gens -> WLabels]
  /\ dec \in {"none", "run", "leave"} /\ decGen \in 0 .. MaxCmd
Threads ==
  /\ cpu \in Rb \cup {Free} /\ pc \in [Rb -> Labels] /\ ret \in [Rb -> Labels]
  /\ back \in {"none", "played", "codec", "next"}
Counts == cmds \in 0 .. MaxCmd /\ gen \in 0 .. MaxCmd

LEMMA TypesAre ==
  TypeOK <=> Asked /\ Stages /\ Ends /\ Devices /\ Service /\ Streams /\ Threads /\ Counts
BY DEF TypeOK, Asked, Stages, Ends, Devices, Service, Streams, Threads, Counts

\* Each part is kept by every step; the parts about threads lean on one another.
LEMMA AskedStep ==
  ASSUME Asked, Stages, [Next]_vars
  PROVE  Asked'
<1> USE DEF At, Goto, Yield, CmdKeep, OmKeep, DmKeep, EnvKeep, CodecKeep, WrkKeep,
    DecKeep, ctl, rep, code, src, wrk, play, env, Asked, Stages
<1>1. CASE Commands
  BY <1>1, Asked, Stages DEF Commands, SetUri, SetNextUri, Play, Stop, StopButton,
      Command
<1>2. CASE OmAdvance
  BY <1>2, Asked, Stages DEF OmAdvance, Ended, DoPlay
<1>3. CASE OmReport
  BY <1>3, Asked, Stages DEF OmReport, Ended
<1>4. CASE OmSleep
  BY <1>4, Asked, Stages DEF OmSleep
<1>5. CASE OmStop \/ OmPlay \/ OmTakeover \/ StartRefused \/ StartStops \/ StartWait \/
         StartFails \/ StartCommits \/ OmPlayed \/ OmTell \/ OmCodec
  BY <1>5, Asked, Stages DEF OmStop, CallStop, OmPlay, DoPlay, OmTakeover, StartRefused,
      StartStops, StartWait, StartFails, Fresh, StartCommits, NewStream, OmPlayed,
      OmTell, OmCodec, CodecClaim, CodecPending
<1>6. ASSUME NEW t \in Rb, Calls(t) PROVE Asked'
  BY <1>6, Asked, Stages DEF Calls, StopFlag, StopPlay, BringWait, BringGiveUp,
      BringClaim, PbStart, Return, PbStop, WaitOver
<1>7. CASE DmLook \/ DmExt \/ DmExit \/ DmEnd
  BY <1>7, Asked, Stages DEF DmLook, CodecClaim, CodecPending, DmExt, CallStop, DmExit,
      DmEnd
<1>8. CASE Take \/ UiCodec \/ Preempt \/ Others \/ Local
  BY <1>8, Asked, Stages DEF Take, Rival, UiCodec, CodecClaim, CodecPending, Preempt,
      CallStop, Others, Plug, OtherEnds, Local, LocalStart, LocalStop
<1>9. ASSUME NEW g \in Gens, Worker(g) PROVE Asked'
  BY <1>9, Asked, Stages DEF Worker, WSniff, WEof, WLeave, WAwait, WDrained, WLast,
      WPbStop, WReport, WEnd, Quiet, WGoto, PbStop
<1>10. CASE DecDone \/ DecExit
  BY <1>10, Asked, Stages DEF DecDone, DecExit
<1>11. CASE UNCHANGED vars
  BY <1>11, Asked, Stages DEF vars
<1> QED BY <1>1, <1>2, <1>3, <1>4, <1>5, <1>6, <1>7, <1>8, <1>9, <1>10, <1>11 DEF Next,
    Commands, OmStep, DmStep, UiStep, Calls, Worker, Rb

LEMMA StagesStep ==
  ASSUME Stages, [Next]_vars
  PROVE  Stages'
<1> USE DEF At, Goto, Yield, CmdKeep, OmKeep, DmKeep, EnvKeep, CodecKeep, WrkKeep,
    DecKeep, ctl, rep, code, src, wrk, play, env, Stages
<1>1. CASE Commands
  BY <1>1, Stages DEF Commands, SetUri, SetNextUri, Play, Stop, StopButton, Command
<1>2. CASE OmStop \/ OmPlay \/ OmTakeover \/ StartRefused \/ StartStops \/ StartWait \/
         StartFails \/ StartCommits \/ OmPlayed \/ OmTell \/ OmCodec \/ OmAdvance \/
         OmReport \/ OmSleep
  BY <1>2, Stages DEF OmStop, CallStop, OmPlay, DoPlay, OmTakeover, StartRefused,
      StartStops, StartWait, StartFails, Fresh, StartCommits, NewStream, OmPlayed,
      OmTell, OmCodec, CodecClaim, CodecPending, OmAdvance, Ended, OmReport, OmSleep
<1>3. ASSUME NEW t \in Rb, Calls(t) PROVE Stages'
  BY <1>3, Stages DEF Calls, StopFlag, StopPlay, BringWait, BringGiveUp, BringClaim,
      PbStart, Return, PbStop, WaitOver
<1>4. CASE DmLook \/ DmExt \/ DmExit \/ DmEnd
  BY <1>4, Stages DEF DmLook, CodecClaim, CodecPending, DmExt, CallStop, DmExit, DmEnd
<1>5. CASE Take \/ UiCodec \/ Preempt \/ Others \/ Local
  BY <1>5, Stages DEF Take, Rival, UiCodec, CodecClaim, CodecPending, Preempt, CallStop,
      Others, Plug, OtherEnds, Local, LocalStart, LocalStop
<1>6. ASSUME NEW g \in Gens, Worker(g) PROVE Stages'
  BY <1>6, Stages DEF Worker, WSniff, WEof, WLeave, WAwait, WDrained, WLast, WPbStop,
      WReport, WEnd, Quiet, WGoto, PbStop
<1>7. CASE DecDone \/ DecExit
  BY <1>7, Stages DEF DecDone, DecExit
<1>8. CASE UNCHANGED vars
  BY <1>8, Stages DEF vars
<1> QED BY <1>1, <1>2, <1>3, <1>4, <1>5, <1>6, <1>7, <1>8 DEF Next, Commands, OmStep,
    DmStep, UiStep, Calls, Worker, Rb

LEMMA EndsStep ==
  ASSUME Ends, [Next]_vars
  PROVE  Ends'
<1> USE DEF At, Goto, Yield, CmdKeep, OmKeep, DmKeep, EnvKeep, CodecKeep, WrkKeep,
    DecKeep, ctl, rep, code, src, wrk, play, env, Ends
<1>1. CASE Commands
  BY <1>1, Ends DEF Commands, SetUri, SetNextUri, Play, Stop, StopButton, Command
<1>2. CASE OmStop \/ OmPlay \/ OmTakeover \/ StartRefused \/ StartStops \/ StartWait \/
         StartFails \/ StartCommits \/ OmPlayed \/ OmTell \/ OmCodec \/ OmAdvance \/
         OmReport \/ OmSleep
  BY <1>2, Ends DEF OmStop, CallStop, OmPlay, DoPlay, OmTakeover, StartRefused,
      StartStops, StartWait, StartFails, Fresh, StartCommits, NewStream, OmPlayed,
      OmTell, OmCodec, CodecClaim, CodecPending, OmAdvance, Ended, OmReport, OmSleep
<1>3. ASSUME NEW t \in Rb, Calls(t) PROVE Ends'
  BY <1>3, Ends DEF Calls, StopFlag, StopPlay, BringWait, BringGiveUp, BringClaim,
      PbStart, Return, PbStop, WaitOver
<1>4. CASE DmLook \/ DmExt \/ DmExit \/ DmEnd
  BY <1>4, Ends DEF DmLook, CodecClaim, CodecPending, DmExt, CallStop, DmExit, DmEnd
<1>5. CASE Take \/ UiCodec \/ Preempt \/ Others \/ Local
  BY <1>5, Ends DEF Take, Rival, UiCodec, CodecClaim, CodecPending, Preempt, CallStop,
      Others, Plug, OtherEnds, Local, LocalStart, LocalStop
<1>6. ASSUME NEW g \in Gens, Worker(g) PROVE Ends'
  BY <1>6, Ends DEF Worker, WSniff, WEof, WLeave, WAwait, WDrained, WLast, WPbStop,
      WReport, WEnd, Quiet, WGoto, PbStop
<1>7. CASE DecDone \/ DecExit
  BY <1>7, Ends DEF DecDone, DecExit
<1>8. CASE UNCHANGED vars
  BY <1>8, Ends DEF vars
<1> QED BY <1>1, <1>2, <1>3, <1>4, <1>5, <1>6, <1>7, <1>8 DEF Next, Commands, OmStep,
    DmStep, UiStep, Calls, Worker, Rb

LEMMA DevicesStep ==
  ASSUME Devices, [Next]_vars
  PROVE  Devices'
<1> USE DEF At, Goto, Yield, CmdKeep, OmKeep, DmKeep, EnvKeep, CodecKeep, WrkKeep,
    DecKeep, ctl, rep, code, src, wrk, play, env, Devices
<1>1. CASE Commands
  BY <1>1, Devices DEF Commands, SetUri, SetNextUri, Play, Stop, StopButton, Command
<1>2. CASE OmStop \/ OmPlay \/ OmTakeover \/ StartRefused \/ StartStops \/ StartWait \/
         StartFails \/ StartCommits \/ OmPlayed \/ OmTell \/ OmCodec \/ OmAdvance \/
         OmReport \/ OmSleep
  BY <1>2, Devices DEF OmStop, CallStop, OmPlay, DoPlay, OmTakeover, StartRefused,
      StartStops, StartWait, StartFails, Fresh, StartCommits, NewStream, OmPlayed,
      OmTell, OmCodec, CodecClaim, CodecPending, OmAdvance, Ended, OmReport, OmSleep
<1>3. ASSUME NEW t \in Rb, Calls(t) PROVE Devices'
  BY <1>3, Devices DEF Calls, StopFlag, StopPlay, BringWait, BringGiveUp, BringClaim,
      PbStart, Return, PbStop, WaitOver
<1>4. CASE DmLook \/ DmExt \/ DmExit \/ DmEnd
  BY <1>4, Devices DEF DmLook, CodecClaim, CodecPending, DmExt, CallStop, DmExit, DmEnd
<1>5. CASE Take \/ UiCodec \/ Preempt \/ Others \/ Local
  BY <1>5, Devices DEF Take, Rival, UiCodec, CodecClaim, CodecPending, Preempt,
      CallStop, Others, Plug, OtherEnds, Local, LocalStart, LocalStop
<1>6. ASSUME NEW g \in Gens, Worker(g) PROVE Devices'
  BY <1>6, Devices DEF Worker, WSniff, WEof, WLeave, WAwait, WDrained, WLast, WPbStop,
      WReport, WEnd, Quiet, WGoto, PbStop
<1>7. CASE DecDone \/ DecExit
  BY <1>7, Devices DEF DecDone, DecExit
<1>8. CASE UNCHANGED vars
  BY <1>8, Devices DEF vars
<1> QED BY <1>1, <1>2, <1>3, <1>4, <1>5, <1>6, <1>7, <1>8 DEF Next, Commands, OmStep,
    DmStep, UiStep, Calls, Worker, Rb

LEMMA ServiceStep ==
  ASSUME Service, [Next]_vars
  PROVE  Service'
<1> USE DEF At, Goto, Yield, CmdKeep, OmKeep, DmKeep, EnvKeep, CodecKeep, WrkKeep,
    DecKeep, ctl, rep, code, src, wrk, play, env, Service
<1>1. CASE Commands
  BY <1>1, Service DEF Commands, SetUri, SetNextUri, Play, Stop, StopButton, Command
<1>2. CASE OmStop \/ OmPlay \/ OmTakeover \/ StartRefused \/ StartStops \/ StartWait \/
         StartFails \/ StartCommits \/ OmPlayed \/ OmTell \/ OmCodec \/ OmAdvance \/
         OmReport \/ OmSleep
  BY <1>2, Service DEF OmStop, CallStop, OmPlay, DoPlay, OmTakeover, StartRefused,
      StartStops, StartWait, StartFails, Fresh, StartCommits, NewStream, OmPlayed,
      OmTell, OmCodec, CodecClaim, CodecPending, OmAdvance, Ended, OmReport, OmSleep
<1>3. ASSUME NEW t \in Rb, Calls(t) PROVE Service'
  BY <1>3, Service DEF Calls, StopFlag, StopPlay, BringWait, BringGiveUp, BringClaim,
      PbStart, Return, PbStop, WaitOver
<1>4. CASE DmLook \/ DmExt \/ DmExit \/ DmEnd
  BY <1>4, Service DEF DmLook, CodecClaim, CodecPending, DmExt, CallStop, DmExit, DmEnd
<1>5. CASE Take \/ UiCodec \/ Preempt \/ Others \/ Local
  BY <1>5, Service DEF Take, Rival, UiCodec, CodecClaim, CodecPending, Preempt,
      CallStop, Others, Plug, OtherEnds, Local, LocalStart, LocalStop
<1>6. ASSUME NEW g \in Gens, Worker(g) PROVE Service'
  BY <1>6, Service DEF Worker, WSniff, WEof, WLeave, WAwait, WDrained, WLast, WPbStop,
      WReport, WEnd, Quiet, WGoto, PbStop
<1>7. CASE DecDone \/ DecExit
  BY <1>7, Service DEF DecDone, DecExit
<1>8. CASE UNCHANGED vars
  BY <1>8, Service DEF vars
<1> QED BY <1>1, <1>2, <1>3, <1>4, <1>5, <1>6, <1>7, <1>8 DEF Next, Commands, OmStep,
    DmStep, UiStep, Calls, Worker, Rb

LEMMA StreamsStep ==
  ASSUME Streams, Counts, [Next]_vars
  PROVE  Streams'
<1> USE DEF At, Goto, Yield, CmdKeep, OmKeep, DmKeep, EnvKeep, CodecKeep, WrkKeep,
    DecKeep, ctl, rep, code, src, wrk, play, env, Streams, Counts, WLabels
<1>1. CASE Commands
  BY <1>1, Streams, Counts, RendererAssumption DEF Commands, SetUri, SetNextUri, Play,
      Stop, StopButton, Command
<1>2. CASE OmStop \/ OmPlay \/ OmTakeover \/ StartRefused \/ StartStops \/ StartWait \/
         StartFails \/ StartCommits \/ OmPlayed \/ OmTell \/ OmCodec \/ OmAdvance \/
         OmReport \/ OmSleep
  BY <1>2, Streams, Counts, RendererAssumption DEF OmStop, CallStop, OmPlay, DoPlay,
      OmTakeover, StartRefused, StartStops, StartWait, StartFails, Fresh, StartCommits,
      NewStream, OmPlayed, OmTell, OmCodec, CodecClaim, CodecPending, OmAdvance, Ended,
      OmReport, OmSleep
<1>3. ASSUME NEW t \in Rb, Calls(t) PROVE Streams'
  BY <1>3, Streams, Counts, RendererAssumption DEF Calls, StopFlag, StopPlay, BringWait,
      BringGiveUp, BringClaim, PbStart, Return, PbStop, WaitOver
<1>4. CASE DmLook \/ DmExt \/ DmExit \/ DmEnd
  BY <1>4, Streams, Counts, RendererAssumption DEF DmLook, CodecClaim, CodecPending,
      DmExt, CallStop, DmExit, DmEnd
<1>5. CASE Take \/ UiCodec \/ Preempt \/ Others \/ Local
  BY <1>5, Streams, Counts, RendererAssumption DEF Take, Rival, UiCodec, CodecClaim,
      CodecPending, Preempt, CallStop, Others, Plug, OtherEnds, Local, LocalStart,
      LocalStop
<1>6. ASSUME NEW g \in Gens, Worker(g) PROVE Streams'
  BY <1>6, Streams, Counts, RendererAssumption DEF Worker, WSniff, WEof, WLeave, WAwait,
      WDrained, WLast, WPbStop, WReport, WEnd, Quiet, WGoto, PbStop
<1>7. CASE DecDone \/ DecExit
  BY <1>7, Streams, Counts, RendererAssumption DEF DecDone, DecExit
<1>8. CASE UNCHANGED vars
  BY <1>8, Streams, Counts, RendererAssumption DEF vars
<1> QED BY <1>1, <1>2, <1>3, <1>4, <1>5, <1>6, <1>7, <1>8 DEF Next, Commands, OmStep,
    DmStep, UiStep, Calls, Worker, Rb

LEMMA ThreadsStep ==
  ASSUME Threads, [Next]_vars
  PROVE  Threads'
<1> USE DEF At, Goto, Yield, CmdKeep, OmKeep, DmKeep, EnvKeep, CodecKeep, WrkKeep,
    DecKeep, ctl, rep, code, src, wrk, play, env, Threads, Rb, Labels, OmLabels
<1>1. CASE Commands
  BY <1>1, Threads DEF Commands, SetUri, SetNextUri, Play, Stop, StopButton, Command
<1>2. CASE OmStop
  BY <1>2, Threads DEF OmStop, CallStop
<1>3. CASE OmPlay
  BY <1>3, Threads DEF OmPlay, DoPlay
<1>4. CASE OmTakeover
  BY <1>4, Threads DEF OmTakeover
<1>5. CASE StartRefused
  BY <1>5, Threads DEF StartRefused
<1>6. CASE StartStops
  BY <1>6, Threads DEF StartStops, CallStop
<1>7. CASE StartWait
  BY <1>7, Threads DEF StartWait
<1>8. CASE StartFails
  BY <1>8, Threads DEF StartFails, Fresh, CallStop
<1>9. CASE StartCommits
  BY <1>9, Threads DEF StartCommits, NewStream, Fresh
<1>10. CASE OmPlayed
  BY <1>10, Threads DEF OmPlayed
<1>11. CASE OmTell
  BY <1>11, Threads DEF OmTell
<1>12. CASE OmCodec
  BY <1>12, Threads DEF OmCodec, CodecClaim, CodecPending
<1>13. CASE OmAdvance
  BY <1>13, Threads DEF OmAdvance, Ended, DoPlay
<1>14. CASE OmReport
  BY <1>14, Threads DEF OmReport, Ended
<1>15. CASE OmSleep
  BY <1>15, Threads DEF OmSleep
<1>16. ASSUME NEW t \in Rb, StopFlag(t) PROVE Threads'
  BY <1>16, Threads DEF StopFlag
<1>17. ASSUME NEW t \in Rb, StopPlay(t) PROVE Threads'
  BY <1>17, Threads DEF StopPlay, Return, PbStop
<1>18. ASSUME NEW t \in Rb, BringWait(t) PROVE Threads'
  BY <1>18, Threads DEF BringWait
<1>19. ASSUME NEW t \in Rb, BringGiveUp(t) PROVE Threads'
  BY <1>19, Threads DEF BringGiveUp, WaitOver, Return
<1>20. ASSUME NEW t \in Rb, BringClaim(t) PROVE Threads'
  BY <1>20, Threads DEF BringClaim, WaitOver
<1>21. ASSUME NEW t \in Rb, PbStart(t) PROVE Threads'
  BY <1>21, Threads DEF PbStart, Return
<1>22. CASE DmLook
  BY <1>22, Threads DEF DmLook, CodecClaim, CodecPending
<1>23. CASE DmExt
  BY <1>23, Threads DEF DmExt, CallStop
<1>24. CASE DmExit
  BY <1>24, Threads DEF DmExit, CallStop
<1>25. CASE DmEnd
  BY <1>25, Threads DEF DmEnd
<1>26. CASE Take
  BY <1>26, Threads DEF Take, Rival
<1>27. CASE UiCodec
  BY <1>27, Threads DEF UiCodec, CodecClaim, CodecPending
<1>28. CASE Preempt
  BY <1>28, Threads DEF Preempt, Rival, CallStop
<1>29. CASE Others
  BY <1>29, Threads DEF Others, Plug, OtherEnds, Rival
<1>30. CASE Local
  BY <1>30, Threads DEF Local, LocalStart, LocalStop
<1>31. ASSUME NEW g \in Gens, Worker(g) PROVE Threads'
  BY <1>31, Threads DEF Worker, WSniff, WEof, WLeave, WAwait, WDrained, WLast, WPbStop,
      WReport, WEnd, Quiet, WGoto, PbStop
<1>32. CASE DecDone \/ DecExit
  BY <1>32, Threads DEF DecDone, DecExit
<1>33. CASE UNCHANGED vars
  BY <1>33, Threads DEF vars
<1> QED BY <1>1, <1>2, <1>3, <1>4, <1>5, <1>6, <1>7, <1>8, <1>9, <1>10, <1>11, <1>12,
    <1>13, <1>14, <1>15, <1>16, <1>17, <1>18, <1>19, <1>20, <1>21, <1>22, <1>23, <1>24,
    <1>25, <1>26, <1>27, <1>28, <1>29, <1>30, <1>31, <1>32, <1>33 DEF Next, Commands,
    OmStep, DmStep, UiStep, Calls, Worker, Rb

-----------------------------------------------------------------------------
\* Where a call of dlna_stream_stop() and codec_start_now() goes on.

Returns ==
  /\ ret[Om] \in {"idle", "play", "wait", "none", "played", "codec", "next", "status"}
  /\ pc[Om] \in {"bring", "pbStart"} => ret[Om] # "wait"
  /\ ret[Dm] \in {"idle", "ext", "exit", "end"}
  /\ pc[Dm] \in {"bring", "pbStart"} => ret[Dm] \in {"idle", "ext"}
  /\ ret[Ui] \in {"idle", "take"}

\* No other thread of Rockbox runs in the middle of a stop, between the claim
\* of a codec and its decoder, or once the stream's monitor has made up its
\* mind to end.
Turn ==
  /\ \A t \in Rb : pc[t] \in {"stop", "stopPlay", "pbStart"} => cpu = t
  /\ \A t \in Rb : pc[t] = "pbStart" => active /\ codecStarted
  /\ \A t \in Rb : pc[t] = "stopPlay" => ~active
  /\ pc[Dm] \in {"exit", "end"} => cpu = Dm /\ ~active

\* An active stream has its monitor, but in a start that failed.
Monitored ==
  /\ dmRunning <=> pc[Dm] # "none"
  /\ active => dmRunning \/ pc[Om] = "stop"

\* A decoder is the active stream's, but within a stop.
Decoded ==
  dec = "run" /\ dpRunning =>
    \/ active /\ codecStarted /\ decGen = gen
    \/ \E t \in Rb : pc[t] = "stopPlay"

\* Between the look at the decoder and the report of the end no decoder of this
\* stream comes any more.
Drained ==
  /\ running <=> active
  /\ Timely /\ active =>
       /\ dec = "run" => dpRunning /\ ~dpDone
       /\ \A g \in Gens : wpc[g] = "drain" => codecStarted
       /\ finished \/ (\E g \in Gens : wpc[g] \in {"last", "pbstop", "report"}) =>
            codecStarted /\ dec # "run" /\ \A t \in Rb : pc[t] # "pbStart"

\* Every stream that was started or is asked for has had a command of its own.
InHand ==
  \/ pc[Om] \in {"takeover", "start", "wait"}
  \/ pc[Om] \in {"stop", "stopPlay"} /\ ret[Om] = "wait"
One(b) == IF b THEN 1 ELSE 0
Counted == gen + One(pendPlay) + One(nextUri) + One(InHand) <= cmds

LEMMA ReturnsStep ==
  ASSUME Threads, Returns, [Next]_vars
  PROVE  Returns'
<1> USE DEF At, Goto, Yield, CmdKeep, OmKeep, DmKeep, EnvKeep, CodecKeep, WrkKeep,
    DecKeep, ctl, rep, code, src, wrk, play, env, Returns, Threads, Rb
<1>1. CASE Commands
  BY <1>1, Threads, RendererAssumption, Returns DEF Commands, SetUri, SetNextUri, Play,
      Stop, StopButton, Command
<1>2. CASE OmStop
  BY <1>2, Threads, RendererAssumption, Returns DEF OmStop, CallStop
<1>3. CASE OmPlay
  BY <1>3, Threads, RendererAssumption, Returns DEF OmPlay, DoPlay
<1>4. CASE OmTakeover
  BY <1>4, Threads, RendererAssumption, Returns DEF OmTakeover
<1>5. CASE StartRefused
  BY <1>5, Threads, RendererAssumption, Returns DEF StartRefused
<1>6. CASE StartStops
  BY <1>6, Threads, RendererAssumption, Returns DEF StartStops, CallStop
<1>7. CASE StartWait
  BY <1>7, Threads, RendererAssumption, Returns DEF StartWait
<1>8. CASE StartFails
  BY <1>8, Threads, RendererAssumption, Returns DEF StartFails, Fresh, CallStop
<1>9. CASE StartCommits
  BY <1>9, Threads, RendererAssumption, Returns DEF StartCommits, NewStream, Fresh
<1>10. CASE OmPlayed
  BY <1>10, Threads, RendererAssumption, Returns DEF OmPlayed
<1>11. CASE OmTell
  BY <1>11, Threads, RendererAssumption, Returns DEF OmTell
<1>12. CASE OmCodec
  BY <1>12, Threads, RendererAssumption, Returns DEF OmCodec, CodecClaim, CodecPending
<1>13. CASE OmAdvance
  BY <1>13, Threads, RendererAssumption, Returns DEF OmAdvance, Ended, DoPlay
<1>14. CASE OmReport
  BY <1>14, Threads, RendererAssumption, Returns DEF OmReport, Ended
<1>15. CASE OmSleep
  BY <1>15, Threads, RendererAssumption, Returns DEF OmSleep
<1>16. ASSUME NEW t \in Rb, StopFlag(t) PROVE Returns'
  BY <1>16, Threads, RendererAssumption, Returns DEF StopFlag
<1>17. ASSUME NEW t \in Rb, StopPlay(t) PROVE Returns'
  BY <1>17, Threads, RendererAssumption, Returns DEF StopPlay, Return, PbStop
<1>18. ASSUME NEW t \in Rb, BringWait(t) PROVE Returns'
  BY <1>18, Threads, RendererAssumption, Returns DEF BringWait
<1>19. ASSUME NEW t \in Rb, BringGiveUp(t) PROVE Returns'
  BY <1>19, Threads, RendererAssumption, Returns DEF BringGiveUp, WaitOver, Return
<1>20. ASSUME NEW t \in Rb, BringClaim(t) PROVE Returns'
  BY <1>20, Threads, RendererAssumption, Returns DEF BringClaim, WaitOver
<1>21. ASSUME NEW t \in Rb, PbStart(t) PROVE Returns'
  BY <1>21, Threads, RendererAssumption, Returns DEF PbStart, Return
<1>22. CASE DmLook
  BY <1>22, Threads, RendererAssumption, Returns DEF DmLook, CodecClaim, CodecPending
<1>23. CASE DmExt
  BY <1>23, Threads, RendererAssumption, Returns DEF DmExt, CallStop
<1>24. CASE DmExit
  BY <1>24, Threads, RendererAssumption, Returns DEF DmExit, CallStop
<1>25. CASE DmEnd
  BY <1>25, Threads, RendererAssumption, Returns DEF DmEnd
<1>26. CASE Take
  BY <1>26, Threads, RendererAssumption, Returns DEF Take, Rival
<1>27. CASE UiCodec
  BY <1>27, Threads, RendererAssumption, Returns DEF UiCodec, CodecClaim, CodecPending
<1>28. CASE Preempt
  BY <1>28, Threads, RendererAssumption, Returns DEF Preempt, Rival, CallStop
<1>29. CASE Others
  BY <1>29, Threads, RendererAssumption, Returns DEF Others, Plug, OtherEnds, Rival
<1>30. CASE Local
  BY <1>30, Threads, RendererAssumption, Returns DEF Local, LocalStart, LocalStop
<1>31. ASSUME NEW g \in Gens, Worker(g) PROVE Returns'
  BY <1>31, Threads, RendererAssumption, Returns DEF Worker, WSniff, WEof, WLeave,
      WAwait, WDrained, WLast, WPbStop, WReport, WEnd, Quiet, WGoto, PbStop
<1>32. CASE DecDone \/ DecExit
  BY <1>32, Threads, RendererAssumption, Returns DEF DecDone, DecExit
<1>33. CASE UNCHANGED vars
  BY <1>33, Threads, RendererAssumption, Returns DEF vars
<1> QED BY <1>1, <1>2, <1>3, <1>4, <1>5, <1>6, <1>7, <1>8, <1>9, <1>10, <1>11, <1>12,
    <1>13, <1>14, <1>15, <1>16, <1>17, <1>18, <1>19, <1>20, <1>21, <1>22, <1>23, <1>24,
    <1>25, <1>26, <1>27, <1>28, <1>29, <1>30, <1>31, <1>32, <1>33 DEF Next, Commands,
    OmStep, DmStep, UiStep, Calls, Worker, Rb

LEMMA TurnStep ==
  ASSUME Threads, Returns, Turn, [Next]_vars
  PROVE  Turn'
<1> USE DEF At, Goto, Yield, CmdKeep, OmKeep, DmKeep, EnvKeep, CodecKeep, WrkKeep,
    DecKeep, ctl, rep, code, src, wrk, play, env, Returns, Turn, Threads, Rb
<1>1. CASE Commands
  BY <1>1, Threads, RendererAssumption, Returns, Turn DEF Commands, SetUri, SetNextUri,
      Play, Stop, StopButton, Command
<1>2. CASE OmStop
  BY <1>2, Threads, RendererAssumption, Returns, Turn DEF OmStop, CallStop
<1>3. CASE OmPlay
  BY <1>3, Threads, RendererAssumption, Returns, Turn DEF OmPlay, DoPlay
<1>4. CASE OmTakeover
  BY <1>4, Threads, RendererAssumption, Returns, Turn DEF OmTakeover
<1>5. CASE StartRefused
  BY <1>5, Threads, RendererAssumption, Returns, Turn DEF StartRefused
<1>6. CASE StartStops
  BY <1>6, Threads, RendererAssumption, Returns, Turn DEF StartStops, CallStop
<1>7. CASE StartWait
  BY <1>7, Threads, RendererAssumption, Returns, Turn DEF StartWait
<1>8. CASE StartFails
  BY <1>8, Threads, RendererAssumption, Returns, Turn DEF StartFails, Fresh, CallStop
<1>9. CASE StartCommits
  BY <1>9, Threads, RendererAssumption, Returns, Turn DEF StartCommits, NewStream, Fresh
<1>10. CASE OmPlayed
  BY <1>10, Threads, RendererAssumption, Returns, Turn DEF OmPlayed
<1>11. CASE OmTell
  BY <1>11, Threads, RendererAssumption, Returns, Turn DEF OmTell
<1>12. CASE OmCodec
  BY <1>12, Threads, RendererAssumption, Returns, Turn DEF OmCodec, CodecClaim,
      CodecPending
<1>13. CASE OmAdvance
  BY <1>13, Threads, RendererAssumption, Returns, Turn DEF OmAdvance, Ended, DoPlay
<1>14. CASE OmReport
  BY <1>14, Threads, RendererAssumption, Returns, Turn DEF OmReport, Ended
<1>15. CASE OmSleep
  BY <1>15, Threads, RendererAssumption, Returns, Turn DEF OmSleep
<1>16. ASSUME NEW t \in Rb, StopFlag(t) PROVE Turn'
  BY <1>16, Threads, RendererAssumption, Returns, Turn DEF StopFlag
<1>17. ASSUME NEW t \in Rb, StopPlay(t) PROVE Turn'
  BY <1>17, Threads, RendererAssumption, Returns, Turn DEF StopPlay, Return, PbStop
<1>18. ASSUME NEW t \in Rb, BringWait(t) PROVE Turn'
  BY <1>18, Threads, RendererAssumption, Returns, Turn DEF BringWait
<1>19. ASSUME NEW t \in Rb, BringGiveUp(t) PROVE Turn'
  BY <1>19, Threads, RendererAssumption, Returns, Turn DEF BringGiveUp, WaitOver, Return
<1>20. ASSUME NEW t \in Rb, BringClaim(t) PROVE Turn'
  BY <1>20, Threads, RendererAssumption, Returns, Turn DEF BringClaim, WaitOver
<1>21. ASSUME NEW t \in Rb, PbStart(t) PROVE Turn'
  BY <1>21, Threads, RendererAssumption, Returns, Turn DEF PbStart, Return
<1>22. CASE DmLook
  BY <1>22, Threads, RendererAssumption, Returns, Turn DEF DmLook, CodecClaim,
      CodecPending
<1>23. CASE DmExt
  BY <1>23, Threads, RendererAssumption, Returns, Turn DEF DmExt, CallStop
<1>24. CASE DmExit
  BY <1>24, Threads, RendererAssumption, Returns, Turn DEF DmExit, CallStop
<1>25. CASE DmEnd
  BY <1>25, Threads, RendererAssumption, Returns, Turn DEF DmEnd
<1>26. CASE Take
  BY <1>26, Threads, RendererAssumption, Returns, Turn DEF Take, Rival
<1>27. CASE UiCodec
  BY <1>27, Threads, RendererAssumption, Returns, Turn DEF UiCodec, CodecClaim,
      CodecPending
<1>28. CASE Preempt
  BY <1>28, Threads, RendererAssumption, Returns, Turn DEF Preempt, Rival, CallStop
<1>29. CASE Others
  BY <1>29, Threads, RendererAssumption, Returns, Turn DEF Others, Plug, OtherEnds,
      Rival
<1>30. CASE Local
  BY <1>30, Threads, RendererAssumption, Returns, Turn DEF Local, LocalStart, LocalStop
<1>31. ASSUME NEW g \in Gens, Worker(g) PROVE Turn'
  BY <1>31, Threads, RendererAssumption, Returns, Turn DEF Worker, WSniff, WEof, WLeave,
      WAwait, WDrained, WLast, WPbStop, WReport, WEnd, Quiet, WGoto, PbStop
<1>32. CASE DecDone \/ DecExit
  BY <1>32, Threads, RendererAssumption, Returns, Turn DEF DecDone, DecExit
<1>33. CASE UNCHANGED vars
  BY <1>33, Threads, RendererAssumption, Returns, Turn DEF vars
<1> QED BY <1>1, <1>2, <1>3, <1>4, <1>5, <1>6, <1>7, <1>8, <1>9, <1>10, <1>11, <1>12,
    <1>13, <1>14, <1>15, <1>16, <1>17, <1>18, <1>19, <1>20, <1>21, <1>22, <1>23, <1>24,
    <1>25, <1>26, <1>27, <1>28, <1>29, <1>30, <1>31, <1>32, <1>33 DEF Next, Commands,
    OmStep, DmStep, UiStep, Calls, Worker, Rb

LEMMA MonitoredStep ==
  ASSUME Threads, Returns, Turn, Monitored, [Next]_vars
  PROVE  Monitored'
<1> USE DEF At, Goto, Yield, CmdKeep, OmKeep, DmKeep, EnvKeep, CodecKeep, WrkKeep,
    DecKeep, ctl, rep, code, src, wrk, play, env, Returns, Turn, Monitored, Threads, Rb
<1>1. CASE Commands
  BY <1>1, Threads, RendererAssumption, Returns, Turn, Monitored DEF Commands, SetUri,
      SetNextUri, Play, Stop, StopButton, Command
<1>2. CASE OmStop
  BY <1>2, Threads, RendererAssumption, Returns, Turn, Monitored DEF OmStop, CallStop
<1>3. CASE OmPlay
  BY <1>3, Threads, RendererAssumption, Returns, Turn, Monitored DEF OmPlay, DoPlay
<1>4. CASE OmTakeover
  BY <1>4, Threads, RendererAssumption, Returns, Turn, Monitored DEF OmTakeover
<1>5. CASE StartRefused
  BY <1>5, Threads, RendererAssumption, Returns, Turn, Monitored DEF StartRefused
<1>6. CASE StartStops
  BY <1>6, Threads, RendererAssumption, Returns, Turn, Monitored DEF StartStops,
      CallStop
<1>7. CASE StartWait
  BY <1>7, Threads, RendererAssumption, Returns, Turn, Monitored DEF StartWait
<1>8. CASE StartFails
  BY <1>8, Threads, RendererAssumption, Returns, Turn, Monitored DEF StartFails, Fresh,
      CallStop
<1>9. CASE StartCommits
  BY <1>9, Threads, RendererAssumption, Returns, Turn, Monitored DEF StartCommits,
      NewStream, Fresh
<1>10. CASE OmPlayed
  BY <1>10, Threads, RendererAssumption, Returns, Turn, Monitored DEF OmPlayed
<1>11. CASE OmTell
  BY <1>11, Threads, RendererAssumption, Returns, Turn, Monitored DEF OmTell
<1>12. CASE OmCodec
  BY <1>12, Threads, RendererAssumption, Returns, Turn, Monitored DEF OmCodec,
      CodecClaim, CodecPending
<1>13. CASE OmAdvance
  BY <1>13, Threads, RendererAssumption, Returns, Turn, Monitored DEF OmAdvance, Ended,
      DoPlay
<1>14. CASE OmReport
  BY <1>14, Threads, RendererAssumption, Returns, Turn, Monitored DEF OmReport, Ended
<1>15. CASE OmSleep
  BY <1>15, Threads, RendererAssumption, Returns, Turn, Monitored DEF OmSleep
<1>16. ASSUME NEW t \in Rb, StopFlag(t) PROVE Monitored'
  BY <1>16, Threads, RendererAssumption, Returns, Turn, Monitored DEF StopFlag
<1>17. ASSUME NEW t \in Rb, StopPlay(t) PROVE Monitored'
  BY <1>17, Threads, RendererAssumption, Returns, Turn, Monitored DEF StopPlay, Return,
      PbStop
<1>18. ASSUME NEW t \in Rb, BringWait(t) PROVE Monitored'
  BY <1>18, Threads, RendererAssumption, Returns, Turn, Monitored DEF BringWait
<1>19. ASSUME NEW t \in Rb, BringGiveUp(t) PROVE Monitored'
  BY <1>19, Threads, RendererAssumption, Returns, Turn, Monitored DEF BringGiveUp,
      WaitOver, Return
<1>20. ASSUME NEW t \in Rb, BringClaim(t) PROVE Monitored'
  BY <1>20, Threads, RendererAssumption, Returns, Turn, Monitored DEF BringClaim,
      WaitOver
<1>21. ASSUME NEW t \in Rb, PbStart(t) PROVE Monitored'
  BY <1>21, Threads, RendererAssumption, Returns, Turn, Monitored DEF PbStart, Return
<1>22. CASE DmLook
  <2>1. CASE CodecClaim(Dm, "ext")
    BY <2>1, <1>22, Threads, RendererAssumption, Returns, Turn, Monitored DEF DmLook, CodecClaim
  <2>2. CASE ~(active /\ ~starting /\ CodecPending) /\ Goto(Dm, IF active THEN "ext" ELSE "exit")
             /\ UNCHANGED <<code, play, ret>> /\ CodecKeep
    BY <2>2, <1>22, Threads, RendererAssumption, Returns, Turn, Monitored DEF DmLook
  <2> QED BY <1>22, <2>1, <2>2 DEF DmLook
<1>23. CASE DmExt
  BY <1>23, Threads, RendererAssumption, Returns, Turn, Monitored DEF DmExt, CallStop
<1>24. CASE DmExit
  BY <1>24, Threads, RendererAssumption, Returns, Turn, Monitored DEF DmExit, CallStop
<1>25. CASE DmEnd
  BY <1>25, Threads, RendererAssumption, Returns, Turn, Monitored DEF DmEnd
<1>26. CASE Take
  BY <1>26, Threads, RendererAssumption, Returns, Turn, Monitored DEF Take, Rival
<1>27. CASE UiCodec
  BY <1>27, Threads, RendererAssumption, Returns, Turn, Monitored DEF UiCodec,
      CodecClaim, CodecPending
<1>28. CASE Preempt
  BY <1>28, Threads, RendererAssumption, Returns, Turn, Monitored DEF Preempt, Rival,
      CallStop
<1>29. CASE Others
  BY <1>29, Threads, RendererAssumption, Returns, Turn, Monitored DEF Others, Plug,
      OtherEnds, Rival
<1>30. CASE Local
  BY <1>30, Threads, RendererAssumption, Returns, Turn, Monitored DEF Local, LocalStart,
      LocalStop
<1>31. ASSUME NEW g \in Gens, Worker(g) PROVE Monitored'
  BY <1>31, Threads, RendererAssumption, Returns, Turn, Monitored DEF Worker, WSniff,
      WEof, WLeave, WAwait, WDrained, WLast, WPbStop, WReport, WEnd, Quiet, WGoto,
      PbStop
<1>32. CASE DecDone \/ DecExit
  BY <1>32, Threads, RendererAssumption, Returns, Turn, Monitored DEF DecDone, DecExit
<1>33. CASE UNCHANGED vars
  BY <1>33, Threads, RendererAssumption, Returns, Turn, Monitored DEF vars
<1> QED BY <1>1, <1>2, <1>3, <1>4, <1>5, <1>6, <1>7, <1>8, <1>9, <1>10, <1>11, <1>12,
    <1>13, <1>14, <1>15, <1>16, <1>17, <1>18, <1>19, <1>20, <1>21, <1>22, <1>23, <1>24,
    <1>25, <1>26, <1>27, <1>28, <1>29, <1>30, <1>31, <1>32, <1>33 DEF Next, Commands,
    OmStep, DmStep, UiStep, Calls, Worker, Rb

LEMMA WorkersStep ==
  ASSUME Streams, Counts, WorkerIsCurrent, [Next]_vars
  PROVE  WorkerIsCurrent'
<1> USE DEF At, Goto, Yield, CmdKeep, OmKeep, DmKeep, EnvKeep, CodecKeep, WrkKeep,
    DecKeep, ctl, rep, code, src, wrk, play, env, Streams, Counts, WorkerIsCurrent,
    LiveWorker, Gens
<1>1. CASE Commands
  BY <1>1, Streams, Counts, RendererAssumption, WorkerIsCurrent DEF Commands, SetUri,
      SetNextUri, Play, Stop, StopButton, Command
<1>2. CASE StartFails
  BY <1>2, Streams, Counts, RendererAssumption, WorkerIsCurrent DEF StartFails, Fresh,
      CallStop
<1>3. CASE StartCommits
  BY <1>3, Streams, Counts, RendererAssumption, WorkerIsCurrent DEF StartCommits,
      NewStream, Fresh
<1>4. CASE OmStop \/ OmPlay \/ OmTakeover \/ StartRefused \/ StartStops \/ StartWait \/
         OmPlayed \/ OmTell \/ OmCodec \/ OmAdvance \/ OmReport \/ OmSleep
  BY <1>4, Streams, Counts, RendererAssumption, WorkerIsCurrent DEF OmStop, CallStop,
      OmPlay, DoPlay, OmTakeover, StartRefused, StartStops, StartWait, OmPlayed, OmTell,
      OmCodec, CodecClaim, CodecPending, OmAdvance, Ended, OmReport, OmSleep
<1>5. ASSUME NEW t \in Rb, Calls(t) PROVE WorkerIsCurrent'
  BY <1>5, Streams, Counts, RendererAssumption, WorkerIsCurrent DEF Calls, StopFlag,
      StopPlay, BringWait, BringGiveUp, BringClaim, PbStart, Return, PbStop, WaitOver
<1>6. CASE DmLook \/ DmExt \/ DmExit \/ DmEnd
  BY <1>6, Streams, Counts, RendererAssumption, WorkerIsCurrent DEF DmLook, CodecClaim,
      CodecPending, DmExt, CallStop, DmExit, DmEnd
<1>7. CASE Take \/ UiCodec \/ Preempt \/ Others \/ Local
  BY <1>7, Streams, Counts, RendererAssumption, WorkerIsCurrent DEF Take, Rival,
      UiCodec, CodecClaim, CodecPending, Preempt, CallStop, Others, Plug, OtherEnds,
      Local, LocalStart, LocalStop
<1>8. ASSUME NEW g \in Gens, WSniff(g) PROVE WorkerIsCurrent'
  BY <1>8, Streams, Counts, RendererAssumption, WorkerIsCurrent DEF WSniff, Quiet, WGoto
<1>9. ASSUME NEW g \in Gens, WEof(g) PROVE WorkerIsCurrent'
  BY <1>9, Streams, Counts, RendererAssumption, WorkerIsCurrent DEF WEof, WGoto
<1>10. ASSUME NEW g \in Gens, WLeave(g) PROVE WorkerIsCurrent'
  BY <1>10, Streams, Counts, RendererAssumption, WorkerIsCurrent DEF WLeave, WGoto
<1>11. ASSUME NEW g \in Gens, WAwait(g) PROVE WorkerIsCurrent'
  BY <1>11, Streams, Counts, RendererAssumption, WorkerIsCurrent DEF WAwait, Quiet,
      WGoto
<1>12. ASSUME NEW g \in Gens, WDrained(g) PROVE WorkerIsCurrent'
  BY <1>12, Streams, Counts, RendererAssumption, WorkerIsCurrent DEF WDrained, Quiet,
      WGoto
<1>13. ASSUME NEW g \in Gens, WLast(g) PROVE WorkerIsCurrent'
  BY <1>13, Streams, Counts, RendererAssumption, WorkerIsCurrent DEF WLast, WGoto
<1>14. ASSUME NEW g \in Gens, WPbStop(g) PROVE WorkerIsCurrent'
  BY <1>14, Streams, Counts, RendererAssumption, WorkerIsCurrent DEF WPbStop, WGoto,
      PbStop
<1>15. ASSUME NEW g \in Gens, WReport(g) PROVE WorkerIsCurrent'
  BY <1>15, Streams, Counts, RendererAssumption, WorkerIsCurrent DEF WReport, WGoto
<1>16. ASSUME NEW g \in Gens, WEnd(g) PROVE WorkerIsCurrent'
  BY <1>16, Streams, Counts, RendererAssumption, WorkerIsCurrent DEF WEnd, WGoto
<1>17. CASE DecDone \/ DecExit
  BY <1>17, Streams, Counts, RendererAssumption, WorkerIsCurrent DEF DecDone, DecExit
<1>18. CASE UNCHANGED vars
  BY <1>18, Streams, Counts, RendererAssumption, WorkerIsCurrent DEF vars
<1> QED BY <1>1, <1>2, <1>3, <1>4, <1>5, <1>6, <1>7, <1>8, <1>9, <1>10, <1>11, <1>12,
    <1>13, <1>14, <1>15, <1>16, <1>17, <1>18 DEF Next, Commands, OmStep, DmStep, UiStep,
    Calls, Worker, Rb

LEMMA DecodedStep ==
  ASSUME Threads, Turn, Decoded, [Next]_vars
  PROVE  Decoded'
<1> USE DEF At, Goto, Yield, CmdKeep, OmKeep, DmKeep, EnvKeep, CodecKeep, WrkKeep,
    DecKeep, ctl, rep, code, src, wrk, play, env, Turn, Decoded, Threads, Rb
<1>1. CASE Commands
  BY <1>1, Threads, RendererAssumption, Turn, Decoded DEF Commands, SetUri, SetNextUri,
      Play, Stop, StopButton, Command
<1>2. CASE OmStop
  BY <1>2, Threads, RendererAssumption, Turn, Decoded DEF OmStop, CallStop
<1>3. CASE OmPlay
  BY <1>3, Threads, RendererAssumption, Turn, Decoded DEF OmPlay, DoPlay
<1>4. CASE OmTakeover
  BY <1>4, Threads, RendererAssumption, Turn, Decoded DEF OmTakeover
<1>5. CASE StartRefused
  BY <1>5, Threads, RendererAssumption, Turn, Decoded DEF StartRefused
<1>6. CASE StartStops
  BY <1>6, Threads, RendererAssumption, Turn, Decoded DEF StartStops, CallStop
<1>7. CASE StartWait
  BY <1>7, Threads, RendererAssumption, Turn, Decoded DEF StartWait
<1>8. CASE StartFails
  BY <1>8, Threads, RendererAssumption, Turn, Decoded DEF StartFails, Fresh, CallStop
<1>9. CASE StartCommits
  BY <1>9, Threads, RendererAssumption, Turn, Decoded DEF StartCommits, NewStream, Fresh
<1>10. CASE OmPlayed
  BY <1>10, Threads, RendererAssumption, Turn, Decoded DEF OmPlayed
<1>11. CASE OmTell
  BY <1>11, Threads, RendererAssumption, Turn, Decoded DEF OmTell
<1>12. CASE OmCodec
  <2>1. CASE CodecClaim(Om, "status")
    BY <2>1, <1>12, Threads, RendererAssumption, Turn, Decoded DEF OmCodec, CodecClaim
  <2>2. CASE ~(active /\ ~starting /\ CodecPending) /\ Goto(Om, "status")
             /\ UNCHANGED <<code, play, ret>> /\ CodecKeep
    BY <2>2, <1>12, Threads, RendererAssumption, Turn, Decoded DEF OmCodec
  <2> QED BY <1>12, <2>1, <2>2 DEF OmCodec
<1>13. CASE OmAdvance
  BY <1>13, Threads, RendererAssumption, Turn, Decoded DEF OmAdvance, Ended, DoPlay
<1>14. CASE OmReport
  BY <1>14, Threads, RendererAssumption, Turn, Decoded DEF OmReport, Ended
<1>15. CASE OmSleep
  BY <1>15, Threads, RendererAssumption, Turn, Decoded DEF OmSleep
<1>16. ASSUME NEW t \in Rb, StopFlag(t) PROVE Decoded'
  BY <1>16, Threads, RendererAssumption, Turn, Decoded DEF StopFlag
<1>17. ASSUME NEW t \in Rb, StopPlay(t) PROVE Decoded'
  BY <1>17, Threads, RendererAssumption, Turn, Decoded DEF StopPlay, Return, PbStop
<1>18. ASSUME NEW t \in Rb, BringWait(t) PROVE Decoded'
  BY <1>18, Threads, RendererAssumption, Turn, Decoded DEF BringWait
<1>19. ASSUME NEW t \in Rb, BringGiveUp(t) PROVE Decoded'
  BY <1>19, Threads, RendererAssumption, Turn, Decoded DEF BringGiveUp, WaitOver, Return
<1>20. ASSUME NEW t \in Rb, BringClaim(t) PROVE Decoded'
  BY <1>20, Threads, RendererAssumption, Turn, Decoded DEF BringClaim, WaitOver
<1>21. ASSUME NEW t \in Rb, PbStart(t) PROVE Decoded'
  BY <1>21, Threads, RendererAssumption, Turn, Decoded DEF PbStart, Return
<1>22. CASE DmLook
  <2>1. CASE CodecClaim(Dm, "ext")
    BY <2>1, <1>22, Threads, RendererAssumption, Turn, Decoded DEF DmLook, CodecClaim
  <2>2. CASE ~(active /\ ~starting /\ CodecPending) /\ Goto(Dm, IF active THEN "ext" ELSE "exit")
             /\ UNCHANGED <<code, play, ret>> /\ CodecKeep
    BY <2>2, <1>22, Threads, RendererAssumption, Turn, Decoded DEF DmLook
  <2> QED BY <1>22, <2>1, <2>2 DEF DmLook
<1>23. CASE DmExt
  BY <1>23, Threads, RendererAssumption, Turn, Decoded DEF DmExt, CallStop
<1>24. CASE DmExit
  BY <1>24, Threads, RendererAssumption, Turn, Decoded DEF DmExit, CallStop
<1>25. CASE DmEnd
  BY <1>25, Threads, RendererAssumption, Turn, Decoded DEF DmEnd
<1>26. CASE Take
  BY <1>26, Threads, RendererAssumption, Turn, Decoded DEF Take, Rival
<1>27. CASE UiCodec
  BY <1>27, Threads, RendererAssumption, Turn, Decoded DEF UiCodec, CodecClaim,
      CodecPending
<1>28. CASE Preempt
  BY <1>28, Threads, RendererAssumption, Turn, Decoded DEF Preempt, Rival, CallStop
<1>29. CASE Others
  BY <1>29, Threads, RendererAssumption, Turn, Decoded DEF Others, Plug, OtherEnds,
      Rival
<1>30. CASE Local
  BY <1>30, Threads, RendererAssumption, Turn, Decoded DEF Local, LocalStart, LocalStop
<1>31. ASSUME NEW g \in Gens, Worker(g) PROVE Decoded'
  BY <1>31, Threads, RendererAssumption, Turn, Decoded DEF Worker, WSniff, WEof, WLeave,
      WAwait, WDrained, WLast, WPbStop, WReport, WEnd, Quiet, WGoto, PbStop
<1>32. CASE DecDone \/ DecExit
  BY <1>32, Threads, RendererAssumption, Turn, Decoded DEF DecDone, DecExit
<1>33. CASE UNCHANGED vars
  BY <1>33, Threads, RendererAssumption, Turn, Decoded DEF vars
<1> QED BY <1>1, <1>2, <1>3, <1>4, <1>5, <1>6, <1>7, <1>8, <1>9, <1>10, <1>11, <1>12,
    <1>13, <1>14, <1>15, <1>16, <1>17, <1>18, <1>19, <1>20, <1>21, <1>22, <1>23, <1>24,
    <1>25, <1>26, <1>27, <1>28, <1>29, <1>30, <1>31, <1>32, <1>33 DEF Next, Commands,
    OmStep, DmStep, UiStep, Calls, Worker, Rb

LEMMA CountedStep ==
  ASSUME Threads, Counts, Returns, Turn, Counted, [Next]_vars
  PROVE  Counted' /\ Counts'
<1> USE DEF At, Goto, Yield, CmdKeep, OmKeep, DmKeep, EnvKeep, CodecKeep, WrkKeep,
    DecKeep, ctl, rep, code, src, wrk, play, env, Counted, Counts, InHand, One, Returns,
    Turn, Threads, Rb
<1>1. CASE Commands
  BY <1>1, Threads, RendererAssumption, Returns, Turn, Counted, Counts DEF Commands,
      SetUri, SetNextUri, Play, Stop, StopButton, Command
<1>2. CASE OmStop
  BY <1>2, Threads, RendererAssumption, Returns, Turn, Counted, Counts DEF OmStop,
      CallStop
<1>3. CASE OmPlay
  BY <1>3, Threads, RendererAssumption, Returns, Turn, Counted, Counts DEF OmPlay,
      DoPlay
<1>4. CASE OmTakeover
  BY <1>4, Threads, RendererAssumption, Returns, Turn, Counted, Counts DEF OmTakeover
<1>5. CASE StartRefused
  BY <1>5, Threads, RendererAssumption, Returns, Turn, Counted, Counts DEF StartRefused
<1>6. CASE StartStops
  BY <1>6, Threads, RendererAssumption, Returns, Turn, Counted, Counts DEF StartStops,
      CallStop
<1>7. CASE StartWait
  BY <1>7, Threads, RendererAssumption, Returns, Turn, Counted, Counts DEF StartWait
<1>8. CASE StartFails
  BY <1>8, Threads, RendererAssumption, Returns, Turn, Counted, Counts DEF StartFails,
      Fresh, CallStop
<1>9. CASE StartCommits
  BY <1>9, Threads, RendererAssumption, Returns, Turn, Counted, Counts DEF StartCommits,
      NewStream, Fresh
<1>10. CASE OmPlayed
  BY <1>10, Threads, RendererAssumption, Returns, Turn, Counted, Counts DEF OmPlayed
<1>11. CASE OmTell
  BY <1>11, Threads, RendererAssumption, Returns, Turn, Counted, Counts DEF OmTell
<1>12. CASE OmCodec
  BY <1>12, Threads, RendererAssumption, Returns, Turn, Counted, Counts DEF OmCodec,
      CodecClaim, CodecPending
<1>13. CASE OmAdvance
  BY <1>13, Threads, RendererAssumption, Returns, Turn, Counted, Counts DEF OmAdvance,
      Ended, DoPlay
<1>14. CASE OmReport
  BY <1>14, Threads, RendererAssumption, Returns, Turn, Counted, Counts DEF OmReport,
      Ended
<1>15. CASE OmSleep
  BY <1>15, Threads, RendererAssumption, Returns, Turn, Counted, Counts DEF OmSleep
<1>16. ASSUME NEW t \in Rb, StopFlag(t) PROVE Counted' /\ Counts'
  BY <1>16, Threads, RendererAssumption, Returns, Turn, Counted, Counts DEF StopFlag
<1>17. ASSUME NEW t \in Rb, StopPlay(t) PROVE Counted' /\ Counts'
  BY <1>17, Threads, RendererAssumption, Returns, Turn, Counted, Counts DEF StopPlay,
      Return, PbStop
<1>18. ASSUME NEW t \in Rb, BringWait(t) PROVE Counted' /\ Counts'
  BY <1>18, Threads, RendererAssumption, Returns, Turn, Counted, Counts DEF BringWait
<1>19. ASSUME NEW t \in Rb, BringGiveUp(t) PROVE Counted' /\ Counts'
  BY <1>19, Threads, RendererAssumption, Returns, Turn, Counted, Counts DEF BringGiveUp,
      WaitOver, Return
<1>20. ASSUME NEW t \in Rb, BringClaim(t) PROVE Counted' /\ Counts'
  BY <1>20, Threads, RendererAssumption, Returns, Turn, Counted, Counts DEF BringClaim,
      WaitOver
<1>21. ASSUME NEW t \in Rb, PbStart(t) PROVE Counted' /\ Counts'
  BY <1>21, Threads, RendererAssumption, Returns, Turn, Counted, Counts DEF PbStart,
      Return
<1>22. CASE DmLook
  BY <1>22, Threads, RendererAssumption, Returns, Turn, Counted, Counts DEF DmLook,
      CodecClaim, CodecPending
<1>23. CASE DmExt
  BY <1>23, Threads, RendererAssumption, Returns, Turn, Counted, Counts DEF DmExt,
      CallStop
<1>24. CASE DmExit
  BY <1>24, Threads, RendererAssumption, Returns, Turn, Counted, Counts DEF DmExit,
      CallStop
<1>25. CASE DmEnd
  BY <1>25, Threads, RendererAssumption, Returns, Turn, Counted, Counts DEF DmEnd
<1>26. CASE Take
  BY <1>26, Threads, RendererAssumption, Returns, Turn, Counted, Counts DEF Take, Rival
<1>27. CASE UiCodec
  BY <1>27, Threads, RendererAssumption, Returns, Turn, Counted, Counts DEF UiCodec,
      CodecClaim, CodecPending
<1>28. CASE Preempt
  BY <1>28, Threads, RendererAssumption, Returns, Turn, Counted, Counts DEF Preempt,
      Rival, CallStop
<1>29. CASE Others
  BY <1>29, Threads, RendererAssumption, Returns, Turn, Counted, Counts DEF Others,
      Plug, OtherEnds, Rival
<1>30. CASE Local
  BY <1>30, Threads, RendererAssumption, Returns, Turn, Counted, Counts DEF Local,
      LocalStart, LocalStop
<1>31. ASSUME NEW g \in Gens, Worker(g) PROVE Counted' /\ Counts'
  BY <1>31, Threads, RendererAssumption, Returns, Turn, Counted, Counts DEF Worker,
      WSniff, WEof, WLeave, WAwait, WDrained, WLast, WPbStop, WReport, WEnd, Quiet,
      WGoto, PbStop
<1>32. CASE DecDone \/ DecExit
  BY <1>32, Threads, RendererAssumption, Returns, Turn, Counted, Counts DEF DecDone,
      DecExit
<1>33. CASE UNCHANGED vars
  BY <1>33, Threads, RendererAssumption, Returns, Turn, Counted, Counts DEF vars
<1> QED BY <1>1, <1>2, <1>3, <1>4, <1>5, <1>6, <1>7, <1>8, <1>9, <1>10, <1>11, <1>12,
    <1>13, <1>14, <1>15, <1>16, <1>17, <1>18, <1>19, <1>20, <1>21, <1>22, <1>23, <1>24,
    <1>25, <1>26, <1>27, <1>28, <1>29, <1>30, <1>31, <1>32, <1>33 DEF Next, Commands,
    OmStep, DmStep, UiStep, Calls, Worker, Rb

LEMMA DrainedStep ==
  ASSUME Threads, Streams, Returns, Turn, WorkerIsCurrent, Drained, [Next]_vars
  PROVE  Drained'
<1> USE DEF At, Goto, Yield, CmdKeep, OmKeep, DmKeep, EnvKeep, CodecKeep, WrkKeep,
    DecKeep, ctl, rep, code, src, wrk, play, env, Drained, Streams, LiveWorker, Returns,
    Turn, WorkerIsCurrent, Gens, Threads, Rb
<1>1. CASE Commands
  BY <1>1, Threads, Streams, RendererAssumption, Returns, Turn, WorkerIsCurrent, Drained
      DEF Commands, SetUri, SetNextUri, Play, Stop, StopButton, Command
<1>2. CASE OmStop
  BY <1>2, Threads, Streams, RendererAssumption, Returns, Turn, WorkerIsCurrent, Drained
      DEF OmStop, CallStop
<1>3. CASE OmPlay
  BY <1>3, Threads, Streams, RendererAssumption, Returns, Turn, WorkerIsCurrent, Drained
      DEF OmPlay, DoPlay
<1>4. CASE OmTakeover
  BY <1>4, Threads, Streams, RendererAssumption, Returns, Turn, WorkerIsCurrent, Drained
      DEF OmTakeover
<1>5. CASE StartRefused
  BY <1>5, Threads, Streams, RendererAssumption, Returns, Turn, WorkerIsCurrent, Drained
      DEF StartRefused
<1>6. CASE StartStops
  BY <1>6, Threads, Streams, RendererAssumption, Returns, Turn, WorkerIsCurrent, Drained
      DEF StartStops, CallStop
<1>7. CASE StartWait
  BY <1>7, Threads, Streams, RendererAssumption, Returns, Turn, WorkerIsCurrent, Drained
      DEF StartWait
<1>8. CASE StartFails
  BY <1>8, Threads, Streams, RendererAssumption, Returns, Turn, WorkerIsCurrent, Drained
      DEF StartFails, Fresh, CallStop
<1>9. CASE StartCommits
  BY <1>9, Threads, Streams, RendererAssumption, Returns, Turn, WorkerIsCurrent, Drained
      DEF StartCommits, NewStream, Fresh
<1>10. CASE OmPlayed
  BY <1>10, Threads, Streams, RendererAssumption, Returns, Turn, WorkerIsCurrent,
      Drained DEF OmPlayed
<1>11. CASE OmTell
  BY <1>11, Threads, Streams, RendererAssumption, Returns, Turn, WorkerIsCurrent,
      Drained DEF OmTell
<1>12. CASE OmCodec
  BY <1>12, Threads, Streams, RendererAssumption, Returns, Turn, WorkerIsCurrent,
      Drained DEF OmCodec, CodecClaim, CodecPending
<1>13. CASE OmAdvance
  BY <1>13, Threads, Streams, RendererAssumption, Returns, Turn, WorkerIsCurrent,
      Drained DEF OmAdvance, Ended, DoPlay
<1>14. CASE OmReport
  BY <1>14, Threads, Streams, RendererAssumption, Returns, Turn, WorkerIsCurrent,
      Drained DEF OmReport, Ended
<1>15. CASE OmSleep
  BY <1>15, Threads, Streams, RendererAssumption, Returns, Turn, WorkerIsCurrent,
      Drained DEF OmSleep
<1>16. ASSUME NEW t \in Rb, StopFlag(t) PROVE Drained'
  BY <1>16, Threads, Streams, RendererAssumption, Returns, Turn, WorkerIsCurrent,
      Drained DEF StopFlag
<1>17. ASSUME NEW t \in Rb, StopPlay(t) PROVE Drained'
  BY <1>17, Threads, Streams, RendererAssumption, Returns, Turn, WorkerIsCurrent,
      Drained DEF StopPlay, Return, PbStop
<1>18. ASSUME NEW t \in Rb, BringWait(t) PROVE Drained'
  BY <1>18, Threads, Streams, RendererAssumption, Returns, Turn, WorkerIsCurrent,
      Drained DEF BringWait
<1>19. ASSUME NEW t \in Rb, BringGiveUp(t) PROVE Drained'
  BY <1>19, Threads, Streams, RendererAssumption, Returns, Turn, WorkerIsCurrent,
      Drained DEF BringGiveUp, WaitOver, Return
<1>20. ASSUME NEW t \in Rb, BringClaim(t) PROVE Drained'
  BY <1>20, Threads, Streams, RendererAssumption, Returns, Turn, WorkerIsCurrent,
      Drained DEF BringClaim, WaitOver
<1>21. ASSUME NEW t \in Rb, PbStart(t) PROVE Drained'
  BY <1>21, Threads, Streams, RendererAssumption, Returns, Turn, WorkerIsCurrent,
      Drained DEF PbStart, Return
<1>22. CASE DmLook
  BY <1>22, Threads, Streams, RendererAssumption, Returns, Turn, WorkerIsCurrent,
      Drained DEF DmLook, CodecClaim, CodecPending
<1>23. CASE DmExt
  BY <1>23, Threads, Streams, RendererAssumption, Returns, Turn, WorkerIsCurrent,
      Drained DEF DmExt, CallStop
<1>24. CASE DmExit
  BY <1>24, Threads, Streams, RendererAssumption, Returns, Turn, WorkerIsCurrent,
      Drained DEF DmExit, CallStop
<1>25. CASE DmEnd
  BY <1>25, Threads, Streams, RendererAssumption, Returns, Turn, WorkerIsCurrent,
      Drained DEF DmEnd
<1>26. CASE Take
  BY <1>26, Threads, Streams, RendererAssumption, Returns, Turn, WorkerIsCurrent,
      Drained DEF Take, Rival
<1>27. CASE UiCodec
  BY <1>27, Threads, Streams, RendererAssumption, Returns, Turn, WorkerIsCurrent,
      Drained DEF UiCodec, CodecClaim, CodecPending
<1>28. CASE Preempt
  BY <1>28, Threads, Streams, RendererAssumption, Returns, Turn, WorkerIsCurrent,
      Drained DEF Preempt, Rival, CallStop
<1>29. CASE Others
  BY <1>29, Threads, Streams, RendererAssumption, Returns, Turn, WorkerIsCurrent,
      Drained DEF Others, Plug, OtherEnds, Rival
<1>30. CASE Local
  BY <1>30, Threads, Streams, RendererAssumption, Returns, Turn, WorkerIsCurrent,
      Drained DEF Local, LocalStart, LocalStop
<1>31. ASSUME NEW g \in Gens, WSniff(g) PROVE Drained'
  BY <1>31, Threads, Streams, RendererAssumption, Returns, Turn, WorkerIsCurrent,
      Drained DEF WSniff, Quiet, WGoto
<1>32. ASSUME NEW g \in Gens, WEof(g) PROVE Drained'
  BY <1>32, Threads, Streams, RendererAssumption, Returns, Turn, WorkerIsCurrent,
      Drained DEF WEof, WGoto
<1>33. ASSUME NEW g \in Gens, WLeave(g) PROVE Drained'
  BY <1>33, Threads, Streams, RendererAssumption, Returns, Turn, WorkerIsCurrent,
      Drained DEF WLeave, WGoto
<1>34. ASSUME NEW g \in Gens, WAwait(g) PROVE Drained'
  BY <1>34, Threads, Streams, RendererAssumption, Returns, Turn, WorkerIsCurrent,
      Drained DEF WAwait, Quiet, WGoto
<1>35. ASSUME NEW g \in Gens, WDrained(g) PROVE Drained'
  BY <1>35, Threads, Streams, RendererAssumption, Returns, Turn, WorkerIsCurrent,
      Drained DEF WDrained, Quiet, WGoto
<1>36. ASSUME NEW g \in Gens, WLast(g) PROVE Drained'
  BY <1>36, Threads, Streams, RendererAssumption, Returns, Turn, WorkerIsCurrent,
      Drained DEF WLast, WGoto
<1>37. ASSUME NEW g \in Gens, WPbStop(g) PROVE Drained'
  BY <1>37, Threads, Streams, RendererAssumption, Returns, Turn, WorkerIsCurrent,
      Drained DEF WPbStop, WGoto, PbStop
<1>38. ASSUME NEW g \in Gens, WReport(g) PROVE Drained'
  BY <1>38, Threads, Streams, RendererAssumption, Returns, Turn, WorkerIsCurrent,
      Drained DEF WReport, WGoto
<1>39. ASSUME NEW g \in Gens, WEnd(g) PROVE Drained'
  BY <1>39, Threads, Streams, RendererAssumption, Returns, Turn, WorkerIsCurrent,
      Drained DEF WEnd, WGoto
<1>40. CASE DecDone
  BY <1>40, Threads, Streams, RendererAssumption, Returns, Turn, WorkerIsCurrent,
      Drained DEF DecDone
<1>41. CASE DecExit
  BY <1>41, Threads, Streams, RendererAssumption, Returns, Turn, WorkerIsCurrent,
      Drained DEF DecExit
<1>42. CASE UNCHANGED vars
  BY <1>42, Threads, Streams, RendererAssumption, Returns, Turn, WorkerIsCurrent,
      Drained DEF vars
<1> QED BY <1>1, <1>2, <1>3, <1>4, <1>5, <1>6, <1>7, <1>8, <1>9, <1>10, <1>11, <1>12,
    <1>13, <1>14, <1>15, <1>16, <1>17, <1>18, <1>19, <1>20, <1>21, <1>22, <1>23, <1>24,
    <1>25, <1>26, <1>27, <1>28, <1>29, <1>30, <1>31, <1>32, <1>33, <1>34, <1>35, <1>36,
    <1>37, <1>38, <1>39, <1>40, <1>41, <1>42 DEF Next, Commands, OmStep, DmStep, UiStep,
    Calls, Worker, Rb

-----------------------------------------------------------------------------
Sound ==
  /\ TypeOK /\ Returns /\ Turn /\ Monitored /\ WorkerIsCurrent /\ Decoded /\ Counted
  /\ Drained

LEMMA SoundInit == Init => Sound
<1> SUFFICES ASSUME Init PROVE Sound
  OBVIOUS
<1> USE RendererAssumption DEF Init
<1>1. Asked /\ Stages /\ Ends /\ Devices /\ Service
  BY DEF Asked, Stages, Ends, Devices, Service
<1>2. Streams /\ Counts
  BY DEF Streams, Counts, Gens, WLabels
<1>3. Threads
  BY DEF Threads, Rb, Labels, OmLabels
<1>4. Returns /\ Turn /\ Monitored /\ Decoded
  BY DEF Returns, Turn, Monitored, Decoded, Rb
<1>5. WorkerIsCurrent /\ Drained
  BY DEF WorkerIsCurrent, LiveWorker, Drained, Gens, Rb
<1>6. Counted
  BY DEF Counted, InHand, One, Rb
<1> QED BY <1>1, <1>2, <1>3, <1>4, <1>5, <1>6, TypesAre DEF Sound

LEMMA SoundStep == Sound /\ [Next]_vars => Sound'
<1> SUFFICES ASSUME Sound, [Next]_vars PROVE Sound'
  OBVIOUS
<1>1. /\ Asked /\ Stages /\ Ends /\ Devices /\ Service /\ Streams /\ Threads /\ Counts
      /\ Returns /\ Turn /\ Monitored /\ WorkerIsCurrent /\ Decoded /\ Counted /\ Drained
  BY TypesAre DEF Sound
<1>2. Asked' /\ Stages' /\ Ends' /\ Devices' /\ Service'
  BY <1>1, AskedStep, StagesStep, EndsStep, DevicesStep, ServiceStep
<1>3. Streams' /\ Threads'
  BY <1>1, StreamsStep, ThreadsStep
<1>4. Counted' /\ Counts'
  BY <1>1, CountedStep
<1>5. Returns' /\ Turn' /\ Monitored' /\ WorkerIsCurrent' /\ Decoded' /\ Drained'
  BY <1>1, ReturnsStep, TurnStep, MonitoredStep, WorkersStep, DecodedStep, DrainedStep
<1>6. TypeOK'
  BY <1>2, <1>3, <1>4 DEF TypeOK, Asked, Stages, Ends, Devices, Service, Streams, Threads,
     Counts
<1> QED BY <1>4, <1>5, <1>6 DEF Sound

\* The invariant from which both properties follow: nobody runs in the middle
\* of a stop, a claim of the codec stands for its decoder, each stream has had a
\* command, and the end is reported after the decoder's.
THEOREM RendererInvariant == Spec => []Sound
BY SoundInit, SoundStep, PTL DEF Spec

LEMMA SoundMeans == Sound => EngineSound /\ (Timely => FinishDrained)
<1> SUFFICES ASSUME Sound PROVE EngineSound /\ (Timely => FinishDrained)
  OBVIOUS
<1> USE RendererAssumption DEF Sound
<1>1. cpu = Free => \A t \in Rb : pc[t] \notin {"stop", "stopPlay"}
  BY DEF Turn, Rb
<1>2. DecoderIsCurrent
  BY <1>1 DEF DecoderIsCurrent, Decoded
<1>3. MonitorOnDuty
  BY <1>1 DEF MonitorOnDuty, Monitored, Turn, Rb
<1>4. Timely => FinishDrained
  BY DEF FinishDrained, Drained
<1> QED BY <1>2, <1>3, <1>4 DEF EngineSound

\* start() of dlna_stream.c takes nothing over from the stream before, for any
\* number of commands in any order, other sources at any time and any timing of
\* network and worker: one worker and one decoder, of the stream that is active,
\* and a monitor on duty.
THEOREM RendererIsSound == Spec => []EngineSound
<1>1. Sound => EngineSound
  BY SoundMeans
<1> QED BY <1>1, RendererInvariant, PTL

\* FINISHED is seen on an active stream only after its decoder has come and gone
\* (dlna_stream.c:833-845), when the worker gives the decoder time to start.
THEOREM FinishMeansPlayed == ASSUME Timely PROVE Spec => []FinishDrained
<1>1. Sound => FinishDrained
  BY SoundMeans
<1> QED BY <1>1, RendererInvariant, PTL

=============================================================================
