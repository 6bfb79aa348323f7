------------------------- MODULE NetfmStreamProofs -------------------------
(***************************************************************************)
(* Theorems about NetfmStream, for every number of users, streams and      *)
(* decoders and every ring size.                                           *)
(***************************************************************************)
EXTENDS NetfmStream, TLAPS

-----------------------------------------------------------------------------
(* Type correctness: one lemma per kind of thread.                         *)

(* What a step leaves alone keeps its types.                               *)
LEMMA Keep ==
  ASSUME TypeOK
  PROVE  /\ UNCHANGED src => SrcType'
         /\ UNCHANGED play => PlayType'
         /\ UNCHANGED mon => MonType'
         /\ UNCHANGED env => EnvType'
         /\ UNCHANGED rb => RbType'
         /\ UNCHANGED wrk => WrkType'
         /\ UNCHANGED dcd => DcdType'
         /\ UNCHANGED sess => SessType'
<1>1. UNCHANGED src => SrcType'   BY DEF TypeOK, SrcType, src
<1>2. UNCHANGED play => PlayType' BY DEF TypeOK, PlayType, play
<1>3. UNCHANGED mon => MonType'   BY DEF TypeOK, MonType, mon
<1>4. UNCHANGED env => EnvType'   BY DEF TypeOK, EnvType, env
<1>5. UNCHANGED rb => RbType'     BY DEF TypeOK, RbType, rb
<1>6. UNCHANGED wrk => WrkType'   BY DEF TypeOK, WrkType, wrk
<1>7. UNCHANGED dcd => DcdType'   BY DEF TypeOK, DcdType, dcd
<1>8. UNCHANGED sess => SessType' BY DEF TypeOK, SessType, sess
<1> QED BY <1>1, <1>2, <1>3, <1>4, <1>5, <1>6, <1>7, <1>8

(* Moving a Rockbox thread to a label keeps the types of its state.        *)
LEMMA GotoType ==
  ASSUME RbType, NEW t \in Rb, NEW l \in RbLabels, Goto(t, l) \/ Yield(t, l)
  PROVE  pc' \in [Rb -> RbLabels] /\ cpu' \in Rb \cup {Free}
  BY DEF RbType, Goto, Yield

LEMMA MoveType ==
  ASSUME RbType, NEW t \in Rb, NEW l \in RbLabels, Goto(t, l) \/ Yield(t, l),
         UNCHANGED <<ret, snap>>
  PROVE  RbType'
  BY GotoType DEF RbType

LEMMA EmptyRing == <<>> \in Seq(Gens) /\ Len(<<>>) <= RingCap
  BY NetfmAssumption

LEMMA NextGen ==
  ASSUME SessType, gen < MaxStart
  PROVE  gen + 1 \in Gens
  BY NetfmAssumption DEF SessType, Gens, NoGen

LEMMA WGotoType ==
  ASSUME WrkType, NEW g \in Gens, NEW l \in WorkerLabels, WGoto(g, l)
  PROVE  wpc' \in [Gens -> WorkerLabels]
  BY DEF WrkType, WGoto

LEMMA CallType ==
  ASSUME RbType, NEW t \in Rb, NEW l \in RetLabels, CallStop(t, l), UNCHANGED snap
  PROVE  RbType'
<1>1. Goto(t, "stop") /\ "stop" \in RbLabels
  BY DEF CallStop, RbLabels
<1>2. ret' \in [Rb -> RetLabels]
  BY DEF RbType, CallStop
<1> QED BY <1>1, <1>2, GotoType DEF RbType

LEMMA ReturnType ==
  ASSUME RbType, NEW t \in Rb, Return(t)
  PROVE  RbType'
<1>1. ret[t] \in RbLabels /\ "idle" \in RbLabels \cap RetLabels
  BY DEF RbType, RbLabels, RetLabels
<1>2. Goto(t, ret[t]) \/ Yield(t, "idle")
  BY DEF Return
<1>3. pc' \in [Rb -> RbLabels] /\ cpu' \in Rb \cup {Free}
  BY <1>1, <1>2, GotoType
<1>4. ret' \in [Rb -> RetLabels] /\ snap' \in [Rb -> Codecs \cup {NoCodec}]
  BY <1>1 DEF RbType, Return
<1> QED BY <1>3, <1>4 DEF RbType

LEMMA TypeStop ==
  ASSUME TypeOK, NEW t \in Rb, StopFlag(t) \/ StopPlay(t) \/ StopClear(t)
  PROVE  TypeOK'
<1>1. CASE StopFlag(t)
  <2>1. RbType'
    BY <1>1, MoveType DEF TypeOK, StopFlag, RbLabels
  <2>2. SrcType'
    BY <1>1 DEF TypeOK, StopFlag, SrcType
  <2>3. WrkType'
    BY <1>1 DEF TypeOK, StopFlag, WrkType, Broadcast
  <2> QED BY <1>1, <2>1, <2>2, <2>3, Keep DEF TypeOK, StopFlag
<1>2. CASE StopPlay(t)
  <2>1. RbType'
    BY <1>2, MoveType DEF TypeOK, StopPlay, RbLabels
  <2>2. PlayType'
    BY <1>2 DEF TypeOK, StopPlay, PlayType, PlaybackStop, play
  <2> QED BY <1>2, <2>1, <2>2, Keep DEF TypeOK, StopPlay
<1>3. CASE StopClear(t)
  <2>1. RbType'
    BY <1>3, ReturnType DEF TypeOK, StopClear
  <2>2. SrcType'
    BY <1>3, EmptyRing DEF TypeOK, StopClear, SrcType
  <2> QED BY <1>3, <2>1, <2>2, Keep DEF TypeOK, StopClear
<1> QED BY <1>1, <1>2, <1>3

LEMMA TypeStart ==
  ASSUME TypeOK, NEW t \in Rb,
         \/ WaitWorker(t) \/ StartRefused(t) \/ StartCommit(t) \/ CreateWorker(t)
         \/ CreateWorkerFails(t) \/ MonitorStart(t)
  PROVE  TypeOK'
<1>1. CASE WaitWorker(t)
  <2>1. RbType'
    BY <1>1, MoveType DEF TypeOK, WaitWorker, RbLabels
  <2> QED BY <1>1, <2>1, Keep DEF TypeOK, WaitWorker
<1>2. CASE StartRefused(t)
  <2>1. RbType'
    BY <1>2, MoveType DEF TypeOK, StartRefused, RbLabels
  <2> QED BY <1>2, <2>1, Keep DEF TypeOK, StartRefused
<1>3. CASE StartCommit(t)
  <2>1. RbType'
    BY <1>3, MoveType DEF TypeOK, StartCommit, ResetSource, RbLabels
  <2>2. SrcType'
    BY <1>3, EmptyRing DEF TypeOK, StartCommit, SrcType, ResetSource
  <2>3. SessType'
    BY <1>3, NextGen DEF TypeOK, StartCommit, SessType, ResetSource
  <2> QED BY <1>3, <2>1, <2>2, <2>3, Keep DEF TypeOK, StartCommit, ResetSource
<1>4. CASE CreateWorker(t)
  <2>1. RbType'
    BY <1>4, MoveType DEF TypeOK, CreateWorker, RbLabels
  <2>2. WrkType'
    BY <1>4, NetfmAssumption DEF TypeOK, CreateWorker, WrkType, WorkerLabels
  <2> QED BY <1>4, <2>1, <2>2, Keep DEF TypeOK, CreateWorker
<1>5. CASE CreateWorkerFails(t)
  <2>1. RbType'
    BY <1>5, CallType DEF TypeOK, CreateWorkerFails, RbLabels, RetLabels
  <2> QED BY <1>5, <2>1, Keep DEF TypeOK, CreateWorkerFails
<1>6. CASE MonitorStart(t)
  <2>1. RbType'
    BY <1>6 DEF TypeOK, MonitorStart, RbType, Yield, RbLabels, Rb
  <2>2. MonType'
    BY <1>6 DEF TypeOK, MonitorStart, MonType, mon
  <2> QED BY <1>6, <2>1, <2>2, Keep DEF TypeOK, MonitorStart
<1> QED BY <1>1, <1>2, <1>3, <1>4, <1>5, <1>6

LEMMA TypeBring ==
  ASSUME TypeOK, NEW t \in Rb, BringWait(t) \/ BringGiveUp(t) \/ BringUp(t)
  PROVE  TypeOK'
<1>1. CASE BringWait(t)
  <2>1. RbType'
    BY <1>1, MoveType DEF TypeOK, BringWait, RbLabels
  <2> QED BY <1>1, <2>1, Keep DEF TypeOK, BringWait
<1>2. CASE BringGiveUp(t)
  <2>1. RbType'
    BY <1>2, ReturnType DEF TypeOK, BringGiveUp
  <2>2. SrcType'
    BY <1>2 DEF TypeOK, BringGiveUp, SrcType
  <2> QED BY <1>2, <2>1, <2>2, Keep DEF TypeOK, BringGiveUp
<1>3. CASE BringUp(t)
  <2>1. RbType'
    BY <1>3, ReturnType DEF TypeOK, BringUp
  <2>2. SrcType'
    BY <1>3 DEF TypeOK, BringUp, SrcType
  <2>3. PlayType'
    BY <1>3 DEF TypeOK, BringUp, PlayType, PlaybackStart, play
  <2>4. DcdType'
    BY <1>3 DEF TypeOK, BringUp, DcdType, PlaybackStart, dcd, DecLabels, LiveDec, RbType
  <2> QED BY <1>3, <2>1, <2>2, <2>3, <2>4, Keep DEF TypeOK, BringUp
<1> QED BY <1>1, <1>2, <1>3

LEMMA TypeMon ==
  ASSUME TypeOK, MonClaim \/ MonLoop \/ MonExternal \/ MonExit \/ MonEnd
  PROVE  TypeOK'
<1>1. CASE MonClaim
  <2>1. RbType'
    BY <1>1, GotoType DEF TypeOK, MonClaim, RbType, CodecClaim, RbLabels, RetLabels, Rb, SrcType
  <2>2. SrcType'
    BY <1>1 DEF TypeOK, MonClaim, SrcType, CodecClaim
  <2> QED BY <1>1, <2>1, <2>2, Keep DEF TypeOK, MonClaim, CodecClaim
<1>2. CASE MonLoop
  <2>1. RbType'
    BY <1>2, MoveType DEF TypeOK, MonLoop, RbLabels, MonKeep, Rb
  <2> QED BY <1>2, <2>1, Keep DEF TypeOK, MonLoop, MonKeep
<1>3. CASE MonExternal
  <2>1. RbType'
    BY <1>3, CallType, MoveType DEF TypeOK, MonExternal, RbLabels, RetLabels, MonKeep, Rb
  <2> QED BY <1>3, <2>1, Keep DEF TypeOK, MonExternal, MonKeep
<1>4. CASE MonExit
  <2>1. RbType'
    BY <1>4, CallType, MoveType DEF TypeOK, MonExit, RbLabels, RetLabels, MonKeep, Rb
  <2> QED BY <1>4, <2>1, Keep DEF TypeOK, MonExit, MonKeep
<1>5. CASE MonEnd
  <2>1. RbType'
    BY <1>5, MoveType DEF TypeOK, MonEnd, RbLabels, MonKeep, Rb
  <2>2. MonType'
    BY <1>5 DEF TypeOK, MonEnd, MonType
  <2> QED BY <1>5, <2>1, <2>2, Keep DEF TypeOK, MonEnd, MonKeep
<1> QED BY <1>1, <1>2, <1>3, <1>4, <1>5

LEMMA TypeAud ==
  ASSUME TypeOK, AsyncFlag \/ AsyncRequest \/ LocalStart \/ LocalChannel \/ LocalStop \/ External
  PROVE  TypeOK'
<1>1. CASE AsyncFlag
  <2>1. RbType'
    BY <1>1, MoveType DEF TypeOK, AsyncFlag, RbLabels, Rb
  <2>2. SrcType'
    BY <1>1 DEF TypeOK, AsyncFlag, SrcType
  <2>3. WrkType'
    BY <1>1 DEF TypeOK, AsyncFlag, WrkType, Broadcast
  <2> QED BY <1>1, <2>1, <2>2, <2>3, Keep DEF TypeOK, AsyncFlag
<1>2. CASE AsyncRequest
  <2>1. RbType'
    BY <1>2, MoveType DEF TypeOK, AsyncRequest, RbLabels, Rb
  <2>2. PlayType'
    BY <1>2 DEF TypeOK, AsyncRequest, PlayType
  <2>3. EnvType'
    BY <1>2 DEF TypeOK, AsyncRequest, EnvType
  <2> QED BY <1>2, <2>1, <2>2, <2>3, Keep DEF TypeOK, AsyncRequest
<1>3. CASE LocalStart
  <2>1. RbType'
    BY <1>3, MoveType DEF TypeOK, LocalStart, RbLabels, Rb
  <2>2. EnvType'
    BY <1>3 DEF TypeOK, LocalStart, EnvType
  <2> QED BY <1>3, <2>1, <2>2, Keep DEF TypeOK, LocalStart
<1>4. CASE LocalChannel
  <2>1. EnvType'
    BY <1>4 DEF TypeOK, LocalChannel, EnvType
  <2> QED BY <1>4, <2>1, Keep DEF TypeOK, LocalChannel
<1>5. CASE LocalStop
  <2>1. EnvType'
    BY <1>5 DEF TypeOK, LocalStop, EnvType
  <2> QED BY <1>5, <2>1, Keep DEF TypeOK, LocalStop
<1>6. CASE External
  <2>1. EnvType'
    BY <1>6 DEF TypeOK, External, EnvType
  <2> QED BY <1>6, <2>1, Keep DEF TypeOK, External
<1> QED BY <1>1, <1>2, <1>3, <1>4, <1>5, <1>6

LEMMA TypeUser ==
  ASSUME TypeOK, NEW t \in Ctl, Start(t) \/ StepStation(t) \/ Stop(t) \/ UiCodecStart(t)
  PROVE  TypeOK'
<1>1. CASE Start(t)
  <2>1. RbType'
    BY <1>1, CallType DEF TypeOK, Start, RbLabels, RetLabels, Rb
  <2> QED BY <1>1, <2>1, Keep DEF TypeOK, Start
<1>2. CASE StepStation(t)
  <2>1. RbType'
    BY <1>2, CallType DEF TypeOK, StepStation, RbLabels, RetLabels, Rb
  <2>2. PlayType'
    BY <1>2 DEF TypeOK, StepStation, PlayType, PlaybackStop, play
  <2> QED BY <1>2, <2>1, <2>2, Keep DEF TypeOK, StepStation
<1>3. CASE Stop(t)
  <2>1. RbType'
    BY <1>3, CallType DEF TypeOK, Stop, RbLabels, RetLabels, Rb
  <2> QED BY <1>3, <2>1, Keep DEF TypeOK, Stop
<1>4. CASE UiCodecStart(t)
  <2>1. RbType'
    BY <1>4, GotoType DEF TypeOK, UiCodecStart, RbType, CodecClaim, RbLabels, RetLabels, Rb, SrcType
  <2>2. SrcType'
    BY <1>4 DEF TypeOK, UiCodecStart, SrcType, CodecClaim
  <2> QED BY <1>4, <2>1, <2>2, Keep DEF TypeOK, UiCodecStart, CodecClaim
<1> QED BY <1>1, <1>2, <1>3, <1>4

LEMMA TypeWorkerOpen ==
  ASSUME TypeOK, NEW g \in Gens,
         \/ WMp3(g) \/ WProbeOpen(g) \/ WProbed(g) \/ WProbeFail(g)
         \/ WReady(g) \/ WFetchData(g) \/ WFetchNothing(g) \/ WFetched(g)
         \/ WListEnd(g)
  PROVE  TypeOK'
<1>1. CASE WMp3(g)
  <2>1. WrkType'
    BY <1>1, WGotoType DEF TypeOK, WMp3, WrkType, WorkerLabels
  <2>2. SrcType'
    BY <1>1 DEF TypeOK, WMp3, SrcType, SrcBut
  <2>3. SessType'
    BY <1>1 DEF TypeOK, WMp3, SessType, WKeep
  <2> QED BY <1>1, <2>1, <2>2, <2>3, Keep DEF TypeOK, WMp3, WKeep
<1>2. CASE WProbeOpen(g)
  <2>1. WrkType'
    BY <1>2, WGotoType DEF TypeOK, WProbeOpen, WrkType, WorkerLabels, ConnOpen
  <2>2. SessType'
    BY <1>2 DEF TypeOK, WProbeOpen, SessType, WKeep
  <2> QED BY <1>2, <2>1, <2>2, Keep DEF TypeOK, WProbeOpen, WKeep
<1>3. CASE WProbed(g)
  <2>1. WrkType'
    BY <1>3, WGotoType DEF TypeOK, WProbed, WrkType, WorkerLabels, FetchEnd, NoGen
  <2>2. SrcType'
    BY <1>3 DEF TypeOK, WProbed, SrcType, SrcBut
  <2>3. SessType'
    BY <1>3 DEF TypeOK, WProbed, SessType, WKeep
  <2> QED BY <1>3, <2>1, <2>2, <2>3, Keep DEF TypeOK, WProbed, WKeep
<1>4. CASE WProbeFail(g)
  <2>1. WrkType'
    BY <1>4, WGotoType DEF TypeOK, WProbeFail, WrkType, WorkerLabels
  <2>2. SessType'
    BY <1>4 DEF TypeOK, WProbeFail, SessType, WKeep
  <2> QED BY <1>4, <2>1, <2>2, Keep DEF TypeOK, WProbeFail, WKeep
<1>5. CASE WReady(g)
  <2>1. WrkType'
    BY <1>5, WGotoType DEF TypeOK, WReady, WrkType, WorkerLabels
  <2>2. SrcType'
    BY <1>5 DEF TypeOK, WReady, SrcType
  <2>3. SessType'
    BY <1>5 DEF TypeOK, WReady, SessType, WKeep
  <2> QED BY <1>5, <2>1, <2>2, <2>3, Keep DEF TypeOK, WReady, WKeep
<1>6. CASE WFetchData(g)
  <2>1. WrkType'
    BY <1>6, WGotoType DEF TypeOK, WFetchData, WrkType, WorkerLabels, Got
  <2>2. SessType'
    BY <1>6 DEF TypeOK, WFetchData, SessType, WKeep
  <2> QED BY <1>6, <2>1, <2>2, Keep DEF TypeOK, WFetchData, WKeep
<1>7. CASE WFetchNothing(g)
  <2>1. WrkType'
    BY <1>7, WGotoType DEF TypeOK, WFetchNothing, WrkType, WorkerLabels, Miss, FetchEnd, NoGen
  <2>2. SessType'
    BY <1>7 DEF TypeOK, WFetchNothing, SessType, WKeep
  <2> QED BY <1>7, <2>1, <2>2, Keep DEF TypeOK, WFetchNothing, WKeep
<1>8. CASE WFetched(g)
  <2>1. WrkType'
    BY <1>8, WGotoType DEF TypeOK, WFetched, WrkType, WorkerLabels, FetchEnd, NoGen
  <2>2. SessType'
    BY <1>8 DEF TypeOK, WFetched, SessType, WKeep
  <2> QED BY <1>8, <2>1, <2>2, Keep DEF TypeOK, WFetched, WKeep
<1>9. CASE WListEnd(g)
  <2>1. WrkType'
    BY <1>9, WGotoType DEF TypeOK, WListEnd, WrkType, WorkerLabels
  <2>2. SessType'
    BY <1>9 DEF TypeOK, WListEnd, SessType, WKeep
  <2> QED BY <1>9, <2>1, <2>2, Keep DEF TypeOK, WListEnd, WKeep
<1> QED BY <1>1, <1>2, <1>3, <1>4, <1>5, <1>6, <1>7, <1>8, <1>9

LEMMA TypeWorkerRun ==
  ASSUME TypeOK, NEW g \in Gens,
         \/ WLoopEnd(g) \/ WConnect(g) \/ WBodyData(g) \/ WBodyEnd(g)
         \/ WWriteWait(g) \/ WWrite(g) \/ WWriteStopped(g) \/ WEnd(g)
  PROVE  TypeOK'
<1>1. CASE WLoopEnd(g)
  <2>1. WrkType'
    BY <1>1, WGotoType DEF TypeOK, WLoopEnd, WrkType, WorkerLabels
  <2>2. SessType'
    BY <1>1 DEF TypeOK, WLoopEnd, SessType, WKeep
  <2> QED BY <1>1, <2>1, <2>2, Keep DEF TypeOK, WLoopEnd, WKeep
<1>2. CASE WConnect(g)
  <2>1. WrkType'
    BY <1>2, WGotoType DEF TypeOK, WConnect, WrkType, WorkerLabels, ConnOpen
  <2>2. SessType'
    BY <1>2 DEF TypeOK, WConnect, SessType, WKeep
  <2> QED BY <1>2, <2>1, <2>2, Keep DEF TypeOK, WConnect, WKeep
<1>3. CASE WBodyData(g)
  <2>1. WrkType'
    BY <1>3, WGotoType DEF TypeOK, WBodyData, WrkType, WorkerLabels
  <2>2. SessType'
    BY <1>3 DEF TypeOK, WBodyData, SessType, WKeep
  <2> QED BY <1>3, <2>1, <2>2, Keep DEF TypeOK, WBodyData, WKeep
<1>4. CASE WBodyEnd(g)
  <2>1. WrkType'
    BY <1>4, WGotoType DEF TypeOK, WBodyEnd, WrkType, WorkerLabels, ConnClose
  <2>2. SessType'
    BY <1>4 DEF TypeOK, WBodyEnd, SessType, WKeep
  <2> QED BY <1>4, <2>1, <2>2, Keep DEF TypeOK, WBodyEnd, WKeep
<1>5. CASE WWriteWait(g)
  <2>1. WrkType'
    BY <1>5 DEF TypeOK, WWriteWait, WrkType
  <2>2. SessType'
    BY <1>5 DEF TypeOK, WWriteWait, SessType, WKeep
  <2> QED BY <1>5, <2>1, <2>2, Keep DEF TypeOK, WWriteWait, WKeep
<1>6. CASE WWrite(g)
  <2>1. WrkType'
    BY <1>6, WGotoType DEF TypeOK, WWrite, WrkType, WorkerLabels, Broadcast
  <2>2. SrcType'
    BY <1>6, NetfmAssumption DEF TypeOK, WWrite, SrcType, SrcBut
  <2>3. SessType'
    BY <1>6 DEF TypeOK, WWrite, SessType, WKeep
  <2> QED BY <1>6, <2>1, <2>2, <2>3, Keep DEF TypeOK, WWrite, WKeep
<1>7. CASE WWriteStopped(g)
  <2>1. WrkType'
    BY <1>7, WGotoType DEF TypeOK, WWriteStopped, WrkType, WorkerLabels, ConnClose
  <2>2. SessType'
    BY <1>7 DEF TypeOK, WWriteStopped, SessType, WKeep
  <2> QED BY <1>7, <2>1, <2>2, Keep DEF TypeOK, WWriteStopped, WKeep
<1>8. CASE WEnd(g)
  <2>1. WrkType'
    BY <1>8, WGotoType DEF TypeOK, WEnd, WrkType, WorkerLabels, Broadcast
  <2>2. SrcType'
    BY <1>8 DEF TypeOK, WEnd, SrcType
  <2>3. SessType'
    BY <1>8 DEF TypeOK, WEnd, SessType, WKeep
  <2> QED BY <1>8, <2>1, <2>2, <2>3, Keep DEF TypeOK, WEnd, WKeep
<1> QED BY <1>1, <1>2, <1>3, <1>4, <1>5, <1>6, <1>7, <1>8

LEMMA TypeDecoder ==
  ASSUME TypeOK, NEW d \in Dec,
         \/ DLoad(d) \/ DCommand(d) \/ DReadEnd(d) \/ DRead(d) \/ DDecode(d) \/ DInsert(d)
  PROVE  TypeOK'
<1>1. CASE DLoad(d)
  <2>1. DcdType'
    BY <1>1 DEF TypeOK, DLoad, DcdType, DGoto, DecLabels, DKeep
  <2>2. SrcType'
    BY <1>1 DEF TypeOK, DLoad, SrcType, DKeep
  <2>3. WrkType'
    BY <1>1 DEF TypeOK, DLoad, WrkType, Broadcast, DKeep
  <2>4. PlayType'
    BY <1>1 DEF TypeOK, DLoad, PlayType, DKeep
  <2> QED BY <1>1, <2>1, <2>2, <2>3, <2>4, Keep DEF TypeOK, DLoad, DKeep
<1>2. CASE DCommand(d)
  <2>1. DcdType'
    BY <1>2 DEF TypeOK, DCommand, DcdType, DGoto, DecLabels, DKeep
  <2>2. SrcType'
    BY <1>2 DEF TypeOK, DCommand, SrcType, DKeep
  <2>3. WrkType'
    BY <1>2 DEF TypeOK, DCommand, WrkType, Broadcast, DKeep
  <2>4. PlayType'
    BY <1>2 DEF TypeOK, DCommand, PlayType, DKeep
  <2> QED BY <1>2, <2>1, <2>2, <2>3, <2>4, Keep DEF TypeOK, DCommand, DKeep
<1>3. CASE DReadEnd(d)
  <2>1. DcdType'
    BY <1>3 DEF TypeOK, DReadEnd, DcdType, DGoto, DecLabels, DKeep
  <2>2. SrcType'
    BY <1>3 DEF TypeOK, DReadEnd, SrcType, DKeep
  <2>3. WrkType'
    BY <1>3 DEF TypeOK, DReadEnd, WrkType, Broadcast, DKeep
  <2>4. PlayType'
    BY <1>3 DEF TypeOK, DReadEnd, PlayType, DKeep
  <2> QED BY <1>3, <2>1, <2>2, <2>3, <2>4, Keep DEF TypeOK, DReadEnd, DKeep
<1>4. CASE DRead(d)
  <2>1. DcdType'
    BY <1>4 DEF TypeOK, DRead, DcdType, DGoto, DecLabels, DKeep
  <2>2. SrcType'
    BY <1>4, NetfmAssumption DEF TypeOK, DRead, SrcType, DKeep
  <2>3. WrkType'
    BY <1>4 DEF TypeOK, DRead, WrkType, Broadcast, DKeep
  <2>4. PlayType'
    BY <1>4 DEF TypeOK, DRead, PlayType, DKeep
  <2> QED BY <1>4, <2>1, <2>2, <2>3, <2>4, Keep DEF TypeOK, DRead, DKeep
<1>5. CASE DDecode(d)
  <2>1. DcdType'
    BY <1>5 DEF TypeOK, DDecode, DcdType, DGoto, DecLabels, DKeep
  <2>2. SrcType'
    BY <1>5 DEF TypeOK, DDecode, SrcType, DKeep
  <2>3. WrkType'
    BY <1>5 DEF TypeOK, DDecode, WrkType, Broadcast, DKeep
  <2>4. PlayType'
    BY <1>5 DEF TypeOK, DDecode, PlayType, DKeep
  <2> QED BY <1>5, <2>1, <2>2, <2>3, <2>4, Keep DEF TypeOK, DDecode, DKeep
<1>6. CASE DInsert(d)
  <2>1. DcdType'
    BY <1>6 DEF TypeOK, DInsert, DcdType, DGoto, DecLabels, DKeep
  <2>2. SrcType'
    BY <1>6 DEF TypeOK, DInsert, SrcType, DKeep
  <2>3. WrkType'
    BY <1>6 DEF TypeOK, DInsert, WrkType, Broadcast, DKeep
  <2>4. PlayType'
    BY <1>6 DEF TypeOK, DInsert, PlayType, DKeep
  <2> QED BY <1>6, <2>1, <2>2, <2>3, <2>4, Keep DEF TypeOK, DInsert, DKeep
<1> QED BY <1>1, <1>2, <1>3, <1>4, <1>5, <1>6

LEMMA TypeRb ==
  ASSUME TypeOK, NEW t \in Rb, RbStep(t)
  PROVE  TypeOK'
  BY TypeStop, TypeStart, TypeBring DEF RbStep

LEMMA TypeNext == TypeOK /\ [Next]_vars => TypeOK'
<1> SUFFICES ASSUME TypeOK, [Next]_vars PROVE TypeOK'
  OBVIOUS
<1>1. CASE Request
  BY <1>1, TypeUser, TypeAud DEF Request
<1>2. CASE \E t \in Ctl : RbStep(t)
  BY <1>2, TypeRb DEF Rb
<1>3. CASE MonStep
  BY <1>3, TypeMon, TypeRb DEF MonStep, Rb
<1>4. CASE AudStep
  BY <1>4, TypeAud DEF AudStep
<1>5. CASE \E g \in Gens : Worker(g)
  BY <1>5, TypeWorkerOpen, TypeWorkerRun DEF Worker
<1>6. CASE \E d \in Dec : Decoder(d)
  BY <1>6, TypeDecoder DEF Decoder
<1>7. CASE UNCHANGED vars
  BY <1>7, Keep DEF TypeOK, vars
<1> QED BY <1>1, <1>2, <1>3, <1>4, <1>5, <1>6, <1>7 DEF Next

LEMMA TypeInit == Init => TypeOK
<1> SUFFICES ASSUME Init PROVE TypeOK
  OBVIOUS
<1>1. SrcType
  BY EmptyRing DEF Init, SrcType
<1>2. PlayType /\ MonType /\ EnvType
  BY DEF Init, PlayType, MonType, EnvType
<1>3. RbType
  BY DEF Init, RbType, RbLabels, RetLabels
<1>4. WrkType
  BY DEF Init, WrkType, WorkerLabels
<1>5. DcdType /\ SessType
  BY DEF Init, DcdType, DecLabels, SessType
<1> QED BY <1>1, <1>2, <1>3, <1>4, <1>5 DEF TypeOK

(* Every variable keeps its type, and the ring never holds more than it    *)
(* has room for, whatever the ring's size.                                 *)
THEOREM TypeCorrect == Spec => []TypeOK
  BY TypeInit, TypeNext, PTL DEF Spec

-----------------------------------------------------------------------------
(* The worker handshake.                                                   *)

(* A thread that is about to create a worker holds the processor, has set  *)
(* thread_alive and finds no worker of its stream; streams to come have    *)
(* none either.                                                            *)
HandshakeInv ==
  /\ WorkerHandshake
  /\ \A g \in Gens : g > gen => wpc[g] = "none"
  /\ \A t \in Rb : pc[t] = "create" =>
       cpu = t /\ threadAlive /\ gen \in Gens /\ wpc[gen] = "none"

(* While a thread that is not about to create a worker moves on, no thread *)
(* is: the one that is would hold the processor.                           *)
LEMMA NobodyCreates ==
  ASSUME RbType, HandshakeInv, NEW t \in Rb, NEW k \in RbLabels, NEW l \in RbLabels,
         At(t, k), l # "create", pc' = [pc EXCEPT ![t] = l]
  PROVE  \A u \in Rb : pc'[u] # "create"
<1> SUFFICES ASSUME NEW u \in Rb, pc'[u] = "create" PROVE FALSE
  OBVIOUS
<1>1. u # t /\ pc[u] = "create"
  BY DEF RbType
<1>2. cpu = u
  BY <1>1 DEF HandshakeInv
<1> QED BY <1>1, <1>2, NetfmAssumption DEF At, Rb

(* Steps that leave the workers and thread_alive alone.                    *)
LEMMA IdleStep ==
  ASSUME HandshakeInv, UNCHANGED <<wpc, gen, threadAlive>>,
         \/ UNCHANGED <<pc, cpu>>
         \/ \A u \in Rb : pc'[u] # "create"
  PROVE  HandshakeInv'
  BY DEF HandshakeInv, WorkerHandshake, LiveWorker

(* A worker's own step: it was the live one, and only its end clears       *)
(* thread_alive.                                                           *)
LEMMA WorkerStep ==
  ASSUME WrkType, HandshakeInv, NEW g \in LiveWorker, NEW l \in WorkerLabels,
         WGoto(g, l), UNCHANGED <<gen, pc, cpu>>,
         threadAlive' = threadAlive \/ l = "done"
  PROVE  HandshakeInv'
<1>1. g \in Gens /\ g = gen /\ threadAlive /\ wpc[g] # "none"
  BY DEF HandshakeInv, WorkerHandshake, LiveWorker
<1>2. \A h \in Gens : wpc'[h] = IF h = g THEN l ELSE wpc[h]
  BY <1>1 DEF WrkType, WGoto
<1>3. \A t \in Rb : pc'[t] # "create"
  BY <1>1 DEF HandshakeInv
<1>4. WorkerHandshake'
  BY <1>1, <1>2 DEF HandshakeInv, WorkerHandshake, LiveWorker
<1>5. \A h \in Gens : h > gen' => wpc'[h] = "none"
  <2> SUFFICES ASSUME NEW h \in Gens, h > gen' PROVE wpc'[h] = "none"
    OBVIOUS
  <2>1. h # g
    BY <1>1, NetfmAssumption DEF Gens
  <2> QED BY <1>2, <2>1 DEF HandshakeInv
<1> QED BY <1>3, <1>4, <1>5 DEF HandshakeInv

LEMMA HandshakeWorker ==
  ASSUME TypeOK, HandshakeInv, NEW g \in Gens, Worker(g)
  PROVE  HandshakeInv'
<1> USE DEF WKeep, rb, WAt, SrcBut
<1> WrkType
  BY DEF TypeOK
<1>1. ASSUME NEW l \in WorkerLabels, wpc[g] \notin {"none", "done"}, WGoto(g, l),
             UNCHANGED <<gen, pc, cpu>>, threadAlive' = threadAlive \/ l = "done"
      PROVE  HandshakeInv'
  BY <1>1, WorkerStep DEF LiveWorker
<1>2. CASE WMp3(g) \/ WProbeOpen(g) \/ WProbed(g) \/ WProbeFail(g)
  BY <1>1, <1>2 DEF WMp3, WProbeOpen, WProbed, WProbeFail, src, WorkerLabels
<1>3. CASE WReady(g) \/ WLoopEnd(g) \/ WConnect(g)
  BY <1>1, <1>3 DEF WReady, WLoopEnd, WConnect, src, WorkerLabels
<1>4. CASE WFetchData(g) \/ WFetchNothing(g) \/ WFetched(g) \/ WListEnd(g)
  BY <1>1, <1>4 DEF WFetchData, WFetchNothing, WFetched, WListEnd, Got, Miss, src, WorkerLabels
<1>5. CASE WBodyData(g) \/ WBodyEnd(g) \/ WWrite(g) \/ WWriteStopped(g) \/ WEnd(g)
  BY <1>1, <1>5 DEF WBodyData, WBodyEnd, WWrite, WWriteStopped, AtWrite, WEnd, src, WorkerLabels
<1>6. CASE WWriteWait(g)
  BY <1>6, IdleStep DEF WWriteWait, src
<1> QED BY <1>2, <1>3, <1>4, <1>5, <1>6 DEF Worker

(* The section of start() that commits to a new stream.                    *)
LEMMA HandshakeCommit ==
  ASSUME TypeOK, HandshakeInv, NEW t \in Rb, StartCommit(t)
  PROVE  HandshakeInv'
<1>1. gen + 1 \in Gens /\ gen' = gen + 1 /\ gen' \in Gens /\ gen < gen'
  BY NextGen, NetfmAssumption DEF TypeOK, SessType, StartCommit, ResetSource, Gens, NoGen
<1>2. LiveWorker = {} /\ LiveWorker' = {}
  BY DEF StartCommit, ResetSource, HandshakeInv, WorkerHandshake, LiveWorker, wrk
<1>3. \A g \in Gens : g >= gen' => wpc'[g] = "none"
  <2> SUFFICES ASSUME NEW g \in Gens, g >= gen' PROVE wpc'[g] = "none"
    OBVIOUS
  <2>1. g > gen
    BY <1>1, NetfmAssumption DEF TypeOK, SessType, Gens, NoGen
  <2> QED BY <2>1 DEF HandshakeInv, StartCommit, ResetSource, wrk
<1>4. \A u \in Rb : pc'[u] = "create" => u = t
  <2> SUFFICES ASSUME NEW u \in Rb, u # t, pc'[u] = "create" PROVE FALSE
    OBVIOUS
  <2>1. pc[u] = "create"
    BY DEF StartCommit, ResetSource, Goto, TypeOK, RbType
  <2>2. cpu = u
    BY <2>1 DEF HandshakeInv
  <2> QED BY <2>2, NetfmAssumption DEF StartCommit, At, Rb
<1>5. cpu' = t /\ threadAlive'
  BY DEF StartCommit, ResetSource, Goto
<1>6. \A g \in Gens : g > gen' => g >= gen'
  BY <1>1 DEF Gens
<1>7. gen' >= gen'
  BY <1>1 DEF Gens
<1>8. WorkerHandshake'
  BY <1>2 DEF WorkerHandshake
<1> QED BY <1>1, <1>3, <1>4, <1>5, <1>6, <1>7, <1>8 DEF HandshakeInv

(* The worker is created, or its creation fails: nobody creates any more.  *)
LEMMA HandshakeCreate ==
  ASSUME TypeOK, HandshakeInv, NEW t \in Rb, CreateWorker(t) \/ CreateWorkerFails(t)
  PROVE  HandshakeInv'
<1>1. pc[t] = "create" /\ cpu = t /\ threadAlive /\ gen \in Gens /\ wpc[gen] = "none"
  BY DEF CreateWorker, CreateWorkerFails, At, HandshakeInv
<1>2. \E l \in RbLabels : l # "create" /\ pc' = [pc EXCEPT ![t] = l]
  BY DEF CreateWorker, CreateWorkerFails, CallStop, Goto, RbLabels
<1>3. \A u \in Rb : pc'[u] # "create"
  <2> SUFFICES ASSUME NEW u \in Rb, pc'[u] = "create" PROVE FALSE
    OBVIOUS
  <2>1. u # t /\ pc[u] = "create"
    BY <1>2 DEF TypeOK, RbType
  <2> QED BY <1>1, <2>1 DEF HandshakeInv
<1>4. CASE CreateWorkerFails(t)
  BY <1>3, <1>4, IdleStep DEF CreateWorkerFails, src, wrk, sess
<1>5. CASE CreateWorker(t)
  <2>1. PICK i \in Inputs : wpc' = [wpc EXCEPT ![gen] = i]
    BY <1>5 DEF CreateWorker
  <2>2. UNCHANGED <<gen, threadAlive>>
    BY <1>5 DEF CreateWorker, src, sess
  <2>3. \A g \in Gens : g # gen => wpc'[g] = wpc[g]
    BY <2>1 DEF TypeOK, WrkType
  <2>4. \A g \in Gens : g # gen => wpc[g] \in {"none", "done"}
    BY DEF HandshakeInv, WorkerHandshake, LiveWorker
  <2>5. WorkerHandshake'
    BY <1>1, <2>2, <2>3, <2>4 DEF WorkerHandshake, LiveWorker
  <2>6. \A g \in Gens : g > gen => g # gen
    BY <1>1 DEF Gens
  <2>7. \A g \in Gens : g > gen' => wpc'[g] = "none"
    BY <2>2, <2>3, <2>6 DEF HandshakeInv
  <2> QED BY <1>3, <2>5, <2>7 DEF HandshakeInv
<1> QED BY <1>4, <1>5

LEMMA HandshakeRb ==
  ASSUME TypeOK, HandshakeInv, NEW t \in Rb, RbStep(t)
  PROVE  HandshakeInv'
<1> RbType
  BY DEF TypeOK
<1>1. ASSUME NEW k \in RbLabels, NEW l \in RbLabels, At(t, k), k # "create", l # "create",
             Goto(t, l) \/ Yield(t, l), UNCHANGED <<wpc, gen, threadAlive>>
      PROVE  HandshakeInv'
  <2>1. \A u \in Rb : pc'[u] # "create"
    BY <1>1, NobodyCreates DEF Goto, Yield
  <2> QED BY <1>1, <2>1, IdleStep
<1>2. CASE StopFlag(t) \/ StopPlay(t)
  BY <1>1, <1>2 DEF StopFlag, StopPlay, src, wrk, sess, RbLabels
<1>3. CASE WaitWorker(t) \/ StartRefused(t) \/ BringWait(t)
  BY <1>1, <1>3 DEF WaitWorker, StartRefused, BringWait, src, wrk, sess, RbLabels
<1>4. CASE StartCommit(t)
  BY <1>4, HandshakeCommit
<1>5. CASE CreateWorker(t) \/ CreateWorkerFails(t)
  BY <1>5, HandshakeCreate
<1>6. CASE MonitorStart(t)
  <2>1. \A u \in Rb : pc[u] # "create"
    BY <1>6, NetfmAssumption DEF MonitorStart, At, HandshakeInv, Rb
  <2>2. \A u \in Rb : pc'[u] # "create"
    BY <1>6, <2>1 DEF MonitorStart, Yield, TypeOK, RbType
  <2> QED BY <1>6, <2>2, IdleStep DEF MonitorStart, src, wrk, sess
<1>7. CASE StopClear(t) \/ BringGiveUp(t) \/ BringUp(t)
  <2>1. ret[t] \in RbLabels /\ ret[t] # "create"
    BY DEF RbType, RbLabels, RetLabels
  <2>2. Goto(t, ret[t]) \/ Yield(t, "idle")
    BY <1>7 DEF StopClear, BringGiveUp, BringUp, Return
  <2>3. At(t, "stopClear") \/ At(t, "bring")
    BY <1>7 DEF StopClear, BringGiveUp, BringUp
  <2>4. UNCHANGED <<wpc, gen, threadAlive>>
    BY <1>7 DEF StopClear, BringGiveUp, BringUp, wrk, sess
  <2> QED BY <1>1, <2>1, <2>2, <2>3, <2>4 DEF RbLabels
<1> QED BY <1>2, <1>3, <1>4, <1>5, <1>6, <1>7 DEF RbStep

(* The rest of the Rockbox threads never creates a worker.                 *)
LEMMA HandshakeMonAud ==
  ASSUME TypeOK, HandshakeInv, MonStep \/ AudStep \/ Request
  PROVE  HandshakeInv'
<1> RbType
  BY DEF TypeOK
<1>1. ASSUME NEW t \in Rb, NEW k \in RbLabels, NEW l \in RbLabels, At(t, k), k # "create",
             l # "create", pc' = [pc EXCEPT ![t] = l], UNCHANGED <<wpc, gen, threadAlive>>
      PROVE  HandshakeInv'
  BY <1>1, NobodyCreates, IdleStep
<1> USE DEF Goto, Yield, CallStop, src, wrk, sess, RbLabels, Rb
<1>2. CASE MonClaim
  BY <1>1, <1>2 DEF MonClaim, CodecClaim
<1>3. CASE MonLoop \/ MonExternal \/ MonExit \/ MonEnd
  BY <1>1, <1>3 DEF MonLoop, MonExternal, MonExit, MonEnd, MonKeep
<1>4. CASE RbStep(Mon)
  BY <1>4, HandshakeRb
<1>5. CASE AudStep \/ LocalStart
  BY <1>1, <1>5 DEF AudStep, AsyncFlag, AsyncRequest, LocalStart
<1>6. CASE LocalChannel \/ LocalStop
  BY <1>6, IdleStep DEF LocalChannel, LocalStop, rb
<1>7. CASE External
  BY <1>7, IdleStep DEF External, rb
<1>8. CASE \E t \in Ctl : Start(t) \/ StepStation(t) \/ Stop(t)
  BY <1>1, <1>8 DEF Start, StepStation, Stop, StartGuard
<1>9. CASE \E t \in Ctl : UiCodecStart(t)
  BY <1>1, <1>9 DEF UiCodecStart, CodecClaim
<1> QED BY <1>2, <1>3, <1>4, <1>5, <1>6, <1>7, <1>8, <1>9 DEF MonStep, Request

LEMMA HandshakeNext == TypeOK /\ HandshakeInv /\ [Next]_vars => HandshakeInv'
<1> SUFFICES ASSUME TypeOK, HandshakeInv, [Next]_vars PROVE HandshakeInv'
  OBVIOUS
<1>1. CASE Request \/ MonStep \/ AudStep
  BY <1>1, HandshakeMonAud
<1>2. CASE \E t \in Ctl : RbStep(t)
  BY <1>2, HandshakeRb DEF Rb
<1>3. CASE \E g \in Gens : Worker(g)
  BY <1>3, HandshakeWorker
<1>4. ASSUME NEW d \in Dec, Decoder(d) PROVE UNCHANGED <<wpc, gen, threadAlive, pc, cpu>>
  BY <1>4 DEF Decoder, DLoad, DCommand, DReadEnd, DRead, DDecode, DInsert, DKeep, rb, sess
<1>5. CASE \E d \in Dec : Decoder(d)
  BY <1>4, <1>5, IdleStep
<1>6. CASE UNCHANGED vars
  BY <1>6, IdleStep DEF vars, wrk, sess, src, rb
<1> QED BY <1>1, <1>2, <1>3, <1>5, <1>6 DEF Next

LEMMA HandshakeInit == Init => HandshakeInv
  BY DEF Init, HandshakeInv, WorkerHandshake, LiveWorker

(* thread_alive hands the source over: at most one worker lives, it is the *)
(* newest stream's, and thread_alive is set while it does, for any number  *)
(* of users who start and stop the radio.                                  *)
THEOREM Handshake == Spec => []WorkerHandshake
<1>1. TypeOK /\ HandshakeInv /\ [Next]_vars => TypeOK' /\ HandshakeInv'
  BY TypeNext, HandshakeNext
<1>2. HandshakeInv => WorkerHandshake
  BY DEF HandshakeInv
<1> QED BY TypeInit, HandshakeInit, <1>1, <1>2, PTL DEF Spec

-----------------------------------------------------------------------------
(* The ring belongs to one stream.                                         *)

LEMMA RingNext == TypeOK /\ HandshakeInv /\ RingIsCurrent /\ [Next]_vars => RingIsCurrent'
<1> SUFFICES ASSUME TypeOK, HandshakeInv, RingIsCurrent, [Next]_vars PROVE RingIsCurrent'
  OBVIOUS
<1> ring \in Seq(Gens)
  BY DEF TypeOK, SrcType
<1>1. ASSUME UNCHANGED <<ring, gen>> PROVE RingIsCurrent'
  BY <1>1 DEF RingIsCurrent
<1>2. ASSUME ring' = <<>> PROVE RingIsCurrent'
  BY <1>2 DEF RingIsCurrent
<1>3. ASSUME NEW t \in Rb, RbStep(t) PROVE RingIsCurrent'
  <2>1. CASE StopClear(t) \/ StartCommit(t)
    BY <1>2, <2>1 DEF StopClear, StartCommit, ResetSource
  <2>2. CASE ~(StopClear(t) \/ StartCommit(t))
    <3>1. UNCHANGED <<ring, gen>>
      BY <1>3, <2>2 DEF RbStep, StopFlag, StopPlay, WaitWorker, StartRefused, CreateWorker,
         CreateWorkerFails, MonitorStart, BringWait, BringGiveUp, BringUp, src, sess
    <3> QED BY <1>1, <3>1
  <2> QED BY <2>1, <2>2
<1>4. CASE Request \/ AudStep
  <2>1. UNCHANGED <<ring, gen>>
    BY <1>4 DEF Request, AudStep, Start, StepStation, Stop, UiCodecStart, CodecClaim, LocalStart,
       LocalChannel, LocalStop, External, AsyncFlag, AsyncRequest, src, sess
  <2> QED BY <1>1, <2>1
<1>5. CASE MonStep /\ ~RbStep(Mon)
  <2>1. UNCHANGED <<ring, gen>>
    BY <1>5 DEF MonStep, MonClaim, CodecClaim, MonLoop, MonExternal, MonExit, MonEnd, MonKeep,
       src, sess
  <2> QED BY <1>1, <2>1
<1>6. ASSUME NEW g \in Gens, Worker(g) PROVE RingIsCurrent'
  <2>1. CASE WWrite(g)
    <3>1. g = gen
      BY <2>1 DEF WWrite, AtWrite, WAt, HandshakeInv, WorkerHandshake, LiveWorker
    <3>2. ring' = Append(ring, g) /\ gen' = gen
      BY <2>1 DEF WWrite, WKeep
    <3>3. /\ Len(ring') = Len(ring) + 1 /\ Len(ring) \in Nat
          /\ \A i \in 1 .. Len(ring') : ring'[i] = IF i <= Len(ring) THEN ring[i] ELSE g
      BY <3>2
    <3> QED BY <3>1, <3>2, <3>3 DEF RingIsCurrent
  <2>2. CASE ~WWrite(g)
    <3>1. UNCHANGED <<ring, gen>>
      BY <1>6, <2>2 DEF Worker, WMp3, WProbeOpen, WProbed, WProbeFail, WReady, WFetchData,
         WFetchNothing, WFetched, WListEnd, WLoopEnd, WConnect, WBodyData, WBodyEnd,
         WWriteWait, WWriteStopped, WEnd, WKeep, src
    <3> QED BY <1>1, <3>1
  <2> QED BY <2>1, <2>2
<1>7. ASSUME NEW d \in Dec, Decoder(d) PROVE RingIsCurrent'
  <2>1. gen' = gen
    BY <1>7 DEF Decoder, DLoad, DCommand, DReadEnd, DRead, DDecode, DInsert, DKeep, sess
  <2>2. CASE DRead(d)
    <3>1. ring' = Tail(ring) /\ ring # <<>>
      BY <2>2 DEF DRead
    <3>2. /\ Len(ring') = Len(ring) - 1 /\ Len(ring) \in Nat
          /\ \A i \in 1 .. Len(ring') : ring'[i] = ring[i + 1]
      BY <3>1
    <3> QED BY <2>1, <3>2 DEF RingIsCurrent
  <2>3. CASE ~DRead(d)
    BY <1>1, <1>7, <2>1, <2>3 DEF Decoder, DLoad, DCommand, DReadEnd, DDecode, DInsert
  <2> QED BY <2>2, <2>3
<1>8. CASE UNCHANGED vars
  BY <1>1, <1>8 DEF vars, src, sess
<1> QED BY <1>3, <1>4, <1>5, <1>6, <1>7, <1>8 DEF Next, MonStep, Rb

(* No chunk of a station that was left reaches the decoder of the next     *)
(* one: whatever is in the ring was written by the newest stream's worker. *)
THEOREM RingOfOneStream == Spec => []RingIsCurrent
<1>1. Init => RingIsCurrent
  BY DEF Init, RingIsCurrent
<1>2. TypeOK /\ HandshakeInv /\ RingIsCurrent /\ [Next]_vars
        => TypeOK' /\ HandshakeInv' /\ RingIsCurrent'
  BY TypeNext, HandshakeNext, RingNext
<1> QED BY TypeInit, HandshakeInit, <1>1, <1>2, PTL DEF Spec

-----------------------------------------------------------------------------
(* No lost wakeup.                                                         *)

(* A waiting worker is in ring_write(); between the flag and the reset of  *)
(* a stop nobody else runs, so the flag still stands when the ring is      *)
(* emptied.                                                                *)
WakeupInv ==
  /\ NoLostWakeup
  /\ \A g \in cwait : wpc[g] \in {"mp3Write", "hlsWrite"}
  /\ \A t \in Rb : pc[t] \in {"stopPlay", "stopClear"} => cpu = t /\ ~running

(* A thread that has the processor and moves on leaves the others where    *)
(* they are, and none of them is inside a stop.                            *)
LEMMA StopsKept ==
  ASSUME RbType, WakeupInv, NEW t \in Rb, cpu \in {Free, t}, NEW l \in RbLabels,
         pc' = [pc EXCEPT ![t] = l],
         l \notin {"stopPlay", "stopClear"} \/ (cpu' = t /\ ~running')
  PROVE  \A u \in Rb : pc'[u] \in {"stopPlay", "stopClear"} => cpu' = u /\ ~running'
<1> SUFFICES ASSUME NEW u \in Rb, pc'[u] \in {"stopPlay", "stopClear"}
             PROVE  cpu' = u /\ ~running'
  OBVIOUS
<1>1. CASE u = t
  BY <1>1 DEF RbType
<1>2. CASE u # t
  <2>1. pc[u] \in {"stopPlay", "stopClear"}
    BY <1>2 DEF RbType
  <2> QED BY <1>2, <2>1, NetfmAssumption DEF WakeupInv, Rb
<1> QED BY <1>1, <1>2

(* The step wakes everyone, or changes nothing that a worker waits for.    *)
LEMMA WakeupKept ==
  ASSUME WakeupInv,
         \/ cwait' = {}
         \/ UNCHANGED <<cwait, wpc, running, ring>>,
         \A t \in Rb : pc'[t] \in {"stopPlay", "stopClear"} => cpu' = t /\ ~running'
  PROVE  WakeupInv'
  BY DEF WakeupInv, NoLostWakeup

LEMMA WakeupRb ==
  ASSUME TypeOK, HandshakeInv, WakeupInv, NEW t \in Rb, RbStep(t)
  PROVE  WakeupInv'
<1> RbType /\ WrkType
  BY DEF TypeOK
<1>1. ASSUME NEW k \in RbLabels, NEW l \in RbLabels, At(t, k), pc' = [pc EXCEPT ![t] = l],
             l \notin {"stopPlay", "stopClear"} \/ (cpu' = t /\ ~running'),
             cwait' = {} \/ UNCHANGED <<cwait, wpc, running, ring>>
      PROVE  WakeupInv'
  BY <1>1, StopsKept, WakeupKept DEF At
<1> USE DEF Goto, Yield, src, wrk, RbLabels
<1>2. CASE StopFlag(t)
  BY <1>1, <1>2 DEF StopFlag, Broadcast
<1>3. CASE StopPlay(t)
  <2>1. ~running
    BY <1>3 DEF StopPlay, At, WakeupInv
  <2> QED BY <1>1, <1>3, <2>1 DEF StopPlay
<1>4. CASE StopClear(t)
  <2>1. cwait = {}
    BY <1>4 DEF StopClear, At, WakeupInv, NoLostWakeup
  <2>2. ret[t] \in RbLabels /\ ret[t] \notin {"stopPlay", "stopClear"}
    BY DEF RbType, RetLabels
  <2> QED BY <1>1, <1>4, <2>1, <2>2 DEF StopClear, Return
<1>5. CASE WaitWorker(t) \/ StartRefused(t) \/ BringWait(t)
  BY <1>1, <1>5 DEF WaitWorker, StartRefused, BringWait
<1>6. CASE StartCommit(t)
  <2>1. LiveWorker = {}
    BY <1>6 DEF StartCommit, HandshakeInv, WorkerHandshake
  <2>2. cwait = {}
    BY <2>1 DEF WakeupInv, LiveWorker, WrkType
  <2> QED BY <1>1, <1>6, <2>2 DEF StartCommit, ResetSource
<1>7. CASE CreateWorker(t)
  <2>1. gen \in Gens /\ wpc[gen] = "none"
    BY <1>7 DEF CreateWorker, At, HandshakeInv
  <2>2. \A g \in cwait : wpc'[g] = wpc[g]
    BY <1>7, <2>1 DEF CreateWorker, WakeupInv, WrkType
  <2>3. \A u \in Rb : pc'[u] \in {"stopPlay", "stopClear"} => cpu' = u /\ ~running'
    BY <1>7, StopsKept DEF CreateWorker, At
  <2> QED BY <1>7, <2>2, <2>3 DEF CreateWorker, WakeupInv, NoLostWakeup
<1>8. CASE CreateWorkerFails(t)
  BY <1>1, <1>8 DEF CreateWorkerFails, CallStop
<1>9. CASE MonitorStart(t)
  <2>1. \A u \in Rb : pc[u] \notin {"stopPlay", "stopClear"}
    BY <1>9, NetfmAssumption DEF MonitorStart, At, WakeupInv, Rb
  <2>2. \A u \in Rb : pc'[u] \notin {"stopPlay", "stopClear"}
    BY <1>9, <2>1 DEF MonitorStart, RbType
  <2> QED BY <1>9, <2>2, WakeupKept DEF MonitorStart
<1>10. CASE BringGiveUp(t) \/ BringUp(t)
  <2>1. ret[t] \in RbLabels /\ ret[t] \notin {"stopPlay", "stopClear"}
    BY DEF RbType, RetLabels
  <2> QED BY <1>1, <1>10, <2>1 DEF BringGiveUp, BringUp, Return
<1> QED BY <1>2, <1>3, <1>4, <1>5, <1>6, <1>7, <1>8, <1>9, <1>10 DEF RbStep

LEMMA WakeupMonAud ==
  ASSUME TypeOK, HandshakeInv, WakeupInv, MonStep \/ AudStep \/ Request
  PROVE  WakeupInv'
<1> RbType
  BY DEF TypeOK
<1>1. ASSUME NEW t \in Rb, NEW k \in RbLabels, NEW l \in RbLabels, At(t, k),
             pc' = [pc EXCEPT ![t] = l], l \notin {"stopPlay", "stopClear"},
             cwait' = {} \/ UNCHANGED <<cwait, wpc, running, ring>>
      PROVE  WakeupInv'
  BY <1>1, StopsKept, WakeupKept DEF At
<1> USE DEF Goto, Yield, CallStop, src, wrk, RbLabels, Rb
<1>2. CASE MonClaim
  BY <1>1, <1>2 DEF MonClaim, CodecClaim
<1>3. CASE MonLoop \/ MonExternal \/ MonExit \/ MonEnd
  BY <1>1, <1>3 DEF MonLoop, MonExternal, MonExit, MonEnd, MonKeep
<1>4. CASE RbStep(Mon)
  BY <1>4, WakeupRb
<1>5. CASE AudStep \/ LocalStart
  BY <1>1, <1>5 DEF AudStep, AsyncFlag, AsyncRequest, LocalStart, Broadcast
<1>6. CASE LocalChannel \/ LocalStop \/ External
  BY <1>6, WakeupKept DEF LocalChannel, LocalStop, External, rb, WakeupInv
<1>7. CASE \E t \in Ctl : Start(t) \/ StepStation(t) \/ Stop(t)
  BY <1>1, <1>7 DEF Start, StepStation, Stop, StartGuard
<1>8. CASE \E t \in Ctl : UiCodecStart(t)
  BY <1>1, <1>8 DEF UiCodecStart, CodecClaim
<1> QED BY <1>2, <1>3, <1>4, <1>5, <1>6, <1>7, <1>8 DEF MonStep, Request

(* Workers and decoders leave the Rockbox threads and the flag alone.      *)
LEMMA WakeupDecoder ==
  ASSUME WakeupInv, NEW d \in Dec, Decoder(d)
  PROVE  WakeupInv'
<1>1. UNCHANGED <<pc, cpu, running>>
  BY DEF Decoder, DLoad, DCommand, DReadEnd, DRead, DDecode, DInsert, DKeep, rb
<1> QED
  BY <1>1, WakeupKept DEF Decoder, DLoad, DCommand, DReadEnd, DRead, DDecode, DInsert,
     DKeep, Broadcast, WakeupInv

LEMMA WakeupWorker ==
  ASSUME TypeOK, WakeupInv, NEW g \in Gens, Worker(g)
  PROVE  WakeupInv'
<1> WrkType
  BY DEF TypeOK
<1>1. UNCHANGED <<pc, cpu, running>>
  BY DEF Worker, WMp3, WProbeOpen, WProbed, WProbeFail, WReady, WFetchData, WFetchNothing,
     WFetched, WListEnd, WLoopEnd, WConnect, WBodyData, WBodyEnd, WWriteWait, WWrite,
     WWriteStopped, WEnd, WKeep, SrcBut, src, rb
<1>2. \A t \in Rb : pc'[t] \in {"stopPlay", "stopClear"} => cpu' = t /\ ~running'
  BY <1>1 DEF WakeupInv
<1>3. CASE WWrite(g) \/ WEnd(g)
  BY <1>2, <1>3, WakeupKept DEF WWrite, WEnd, Broadcast
<1>4. CASE WWriteWait(g)
  BY <1>2, <1>4 DEF WWriteWait, AtWrite, WAt, WakeupInv, NoLostWakeup, src
<1>5. ASSUME NEW l \in WorkerLabels, wpc[g] \notin {"mp3Write", "hlsWrite"} \/ g \notin cwait,
             WGoto(g, l), UNCHANGED <<ring, cwait>>
      PROVE  WakeupInv'
  <2>1. \A h \in cwait : wpc'[h] = wpc[h]
    BY <1>5 DEF WGoto, WakeupInv, WrkType
  <2> QED BY <1>1, <1>2, <1>5, <2>1 DEF WakeupInv, NoLostWakeup
<1>6. CASE WMp3(g) \/ WProbeOpen(g) \/ WProbed(g) \/ WProbeFail(g) \/ WReady(g) \/ WLoopEnd(g)
  BY <1>5, <1>6 DEF WMp3, WProbeOpen, WProbed, WProbeFail, WReady, WLoopEnd, WAt, src,
     WorkerLabels
<1>7. CASE WFetchData(g) \/ WFetchNothing(g) \/ WFetched(g) \/ WListEnd(g)
  BY <1>5, <1>7 DEF WFetchData, WFetchNothing, WFetched, WListEnd, Got, Miss, WAt, src,
     WorkerLabels
<1>8. CASE WConnect(g) \/ WBodyData(g) \/ WBodyEnd(g) \/ WWriteStopped(g)
  BY <1>5, <1>8 DEF WConnect, WBodyData, WBodyEnd, WWriteStopped, AtWrite, WAt, src,
     WorkerLabels
<1> QED BY <1>3, <1>4, <1>6, <1>7, <1>8 DEF Worker

LEMMA WakeupNext == TypeOK /\ HandshakeInv /\ WakeupInv /\ [Next]_vars => WakeupInv'
<1> SUFFICES ASSUME TypeOK, HandshakeInv, WakeupInv, [Next]_vars PROVE WakeupInv'
  OBVIOUS
<1>1. CASE Request \/ MonStep \/ AudStep
  BY <1>1, WakeupMonAud
<1>2. CASE \E t \in Ctl : RbStep(t)
  BY <1>2, WakeupRb DEF Rb
<1>3. CASE \E g \in Gens : Worker(g)
  BY <1>3, WakeupWorker
<1>4. CASE \E d \in Dec : Decoder(d)
  BY <1>4, WakeupDecoder
<1>5. CASE UNCHANGED vars
  BY <1>5, WakeupKept DEF vars, src, wrk, rb, WakeupInv
<1> QED BY <1>1, <1>2, <1>3, <1>4, <1>5 DEF Next

(* A worker sleeps in ring_write() only while the ring is full and the     *)
(* stream runs: every stop, whoever asks for it, and every read wakes it.  *)
THEOREM Wakeups == Spec => []NoLostWakeup
<1>1. Init => WakeupInv
  BY DEF Init, WakeupInv, NoLostWakeup
<1>2. TypeOK /\ HandshakeInv /\ WakeupInv /\ [Next]_vars
        => TypeOK' /\ HandshakeInv' /\ WakeupInv'
  BY TypeNext, HandshakeNext, WakeupNext
<1>3. WakeupInv => NoLostWakeup
  BY DEF WakeupInv
<1> QED BY TypeInit, HandshakeInit, <1>1, <1>2, <1>3, PTL DEF Spec
\* The two together: start(), stop() and the worker keep source.thread_alive
\* and every other variable sound.
THEOREM ControlIsSound == Spec => []ControlSound
<1>1. TypeOK /\ WorkerHandshake => ControlSound
  BY DEF ControlSound
<1> QED BY <1>1, TypeCorrect, Handshake, PTL

-----------------------------------------------------------------------------
(* The monitor's duties and the claim of the decoder.                      *)

(* In the middle of a stop, of a start that has committed and of a takeover *)
(* no other thread of Rockbox runs; the monitor makes up its mind to end    *)
(* only while no stream is active.                                          *)
Sections ==
  /\ running <=> active
  /\ \A t \in Rb :
       /\ pc[t] \in {"stop", "stopPlay", "stopClear", "create", "monitor", "asyncFlag"} => cpu = t
       /\ pc[t] \in {"stopPlay", "stopClear"} => ~active
  /\ pc[Mon] \in {"exit", "end"} => cpu = Mon /\ ~active
  /\ pc[Mon] = "bring" => ret[Mon] \notin {"exit", "end"}

(* A stream that is active has its monitor, was refused one, or is still    *)
(* in the hands of its start.                                               *)
Watched ==
  /\ monRunning <=> pc[Mon] # "none"
  /\ active =>
       monRefused \/ monRunning \/ \E t \in Rb : pc[t] \in {"create", "monitor", "stop"}

(* A decoder that plays has its claim, and somebody who will stop it.       *)
Attended ==
  /\ \A t \in Rb : pc[t] = "stopClear" => ~nfRunning
  /\ pc[Mon] = "end" => ~nfRunning
  /\ nfRunning => codecStarted
  /\ nfRunning =>
       active \/ monRunning \/ monRefused \/ \E t \in Rb : pc[t] = "stopPlay"

(* The sections the critical code of a Rockbox thread forms are kept by every *)
(* step: none of it yields the processor in between.                         *)
LEMMA SectionsStep ==
  ASSUME RbType, Sections, [Next]_vars
  PROVE  Sections'
<1> USE NetfmAssumption DEF At, Goto, Yield, CallStop, MonKeep, WKeep, DKeep, src, play,
   mon, env, rb, wrk, dcd, sess, Rb, RbType, RetLabels, Sections
<1>1. ASSUME NEW t \in Rb, StopFlag(t) PROVE Sections'
  BY <1>1, RbType, Sections DEF StopFlag
<1>2. ASSUME NEW t \in Rb, StopPlay(t) PROVE Sections'
  BY <1>2, RbType, Sections DEF StopPlay, PlaybackStop
<1>3. ASSUME NEW t \in Rb, StopClear(t) PROVE Sections'
  BY <1>3, RbType, Sections DEF StopClear, Return
<1>4. ASSUME NEW t \in Rb, WaitWorker(t) PROVE Sections'
  BY <1>4, RbType, Sections DEF WaitWorker
<1>5. ASSUME NEW t \in Rb, StartRefused(t) PROVE Sections'
  BY <1>5, RbType, Sections DEF StartRefused
<1>6. ASSUME NEW t \in Rb, StartCommit(t) PROVE Sections'
  BY <1>6, RbType, Sections DEF StartCommit, ResetSource
<1>7. ASSUME NEW t \in Rb, CreateWorker(t) PROVE Sections'
  BY <1>7, RbType, Sections DEF CreateWorker
<1>8. ASSUME NEW t \in Rb, CreateWorkerFails(t) PROVE Sections'
  BY <1>8, RbType, Sections DEF CreateWorkerFails
<1>9. ASSUME NEW t \in Rb, MonitorStart(t) PROVE Sections'
  BY <1>9, RbType, Sections DEF MonitorStart
<1>10. ASSUME NEW t \in Rb, BringWait(t) PROVE Sections'
  BY <1>10, RbType, Sections DEF BringWait
<1>11. ASSUME NEW t \in Rb, BringGiveUp(t) PROVE Sections'
  BY <1>11, RbType, Sections DEF BringGiveUp, WaitOver, Return
<1>12. ASSUME NEW t \in Rb, BringUp(t) PROVE Sections'
  BY <1>12, RbType, Sections DEF BringUp, WaitOver, PlaybackStart, Return
<1>13. CASE MonClaim
  BY <1>13, RbType, Sections DEF MonClaim, CodecClaim, CodecPending
<1>14. CASE MonLoop
  BY <1>14, RbType, Sections DEF MonLoop, CodecPending
<1>15. CASE MonExternal
  BY <1>15, RbType, Sections DEF MonExternal
<1>16. CASE MonExit
  BY <1>16, RbType, Sections DEF MonExit
<1>17. CASE MonEnd
  BY <1>17, RbType, Sections DEF MonEnd
<1>18. CASE AsyncFlag
  BY <1>18, RbType, Sections DEF AsyncFlag
<1>19. CASE AsyncRequest
  BY <1>19, RbType, Sections DEF AsyncRequest
<1>20. ASSUME NEW t \in Ctl, Start(t) PROVE Sections'
  BY <1>20, RbType, Sections DEF Start, StartGuard
<1>21. ASSUME NEW t \in Ctl, StepStation(t) PROVE Sections'
  BY <1>21, RbType, Sections DEF StepStation, StartGuard, PlaybackStop
<1>22. ASSUME NEW t \in Ctl, Stop(t) PROVE Sections'
  BY <1>22, RbType, Sections DEF Stop
<1>23. ASSUME NEW t \in Ctl, UiCodecStart(t) PROVE Sections'
  BY <1>23, RbType, Sections DEF UiCodecStart, CodecClaim, CodecPending
<1>24. CASE LocalStart
  BY <1>24, RbType, Sections DEF LocalStart
<1>25. CASE LocalChannel \/ LocalStop \/ External
  BY <1>25, RbType, Sections DEF LocalChannel, LocalStop, External
<1>26. ASSUME NEW g \in Gens, Worker(g) PROVE Sections'
  BY <1>26, RbType, Sections DEF Worker, WMp3, WProbeOpen, WProbed, WProbeFail, WReady,
     WFetchData, WFetchNothing, WFetched, WListEnd, WLoopEnd, WConnect, WBodyData, WBodyEnd,
     WWriteWait, WWrite, WWriteStopped, WEnd, SrcBut
<1>27. ASSUME NEW d \in Dec, Decoder(d) PROVE Sections'
  BY <1>27, RbType, Sections DEF Decoder, DLoad, DCommand, DReadEnd, DRead, DDecode, DInsert
<1>28. CASE UNCHANGED vars
  BY <1>28, RbType, Sections DEF vars
<1> QED BY <1>1, <1>2, <1>3, <1>4, <1>5, <1>6, <1>7, <1>8, <1>9, <1>10, <1>11, <1>12, <1>13,
   <1>14, <1>15, <1>16, <1>17, <1>18, <1>19, <1>20, <1>21, <1>22, <1>23, <1>24, <1>25,
   <1>26, <1>27, <1>28 DEF Next, Request, RbStep, MonStep, AudStep

LEMMA WatchedStep ==
  ASSUME RbType, Sections, Watched, [Next]_vars
  PROVE  Watched'
<1> USE NetfmAssumption DEF At, Goto, Yield, CallStop, MonKeep, WKeep, DKeep, src, play,
   mon, env, rb, wrk, dcd, sess, Rb, RbType, RetLabels, Sections, Watched
<1>1. ASSUME NEW t \in Rb, StopFlag(t) PROVE Watched'
  BY <1>1, RbType, Sections, Watched DEF StopFlag
<1>2. ASSUME NEW t \in Rb, StopPlay(t) PROVE Watched'
  BY <1>2, RbType, Sections, Watched DEF StopPlay, PlaybackStop
<1>3. ASSUME NEW t \in Rb, StopClear(t) PROVE Watched'
  BY <1>3, RbType, Sections, Watched DEF StopClear, Return
<1>4. ASSUME NEW t \in Rb, WaitWorker(t) PROVE Watched'
  BY <1>4, RbType, Sections, Watched DEF WaitWorker
<1>5. ASSUME NEW t \in Rb, StartRefused(t) PROVE Watched'
  BY <1>5, RbType, Sections, Watched DEF StartRefused
<1>6. ASSUME NEW t \in Rb, StartCommit(t) PROVE Watched'
  BY <1>6, RbType, Sections, Watched DEF StartCommit, ResetSource
<1>7. ASSUME NEW t \in Rb, CreateWorker(t) PROVE Watched'
  BY <1>7, RbType, Sections, Watched DEF CreateWorker
<1>8. ASSUME NEW t \in Rb, CreateWorkerFails(t) PROVE Watched'
  BY <1>8, RbType, Sections, Watched DEF CreateWorkerFails
<1>9. ASSUME NEW t \in Rb, MonitorStart(t) PROVE Watched'
  BY <1>9, RbType, Sections, Watched DEF MonitorStart
<1>10. ASSUME NEW t \in Rb, BringWait(t) PROVE Watched'
  BY <1>10, RbType, Sections, Watched DEF BringWait
<1>11. ASSUME NEW t \in Rb, BringGiveUp(t) PROVE Watched'
  BY <1>11, RbType, Sections, Watched DEF BringGiveUp, WaitOver, Return
<1>12. ASSUME NEW t \in Rb, BringUp(t) PROVE Watched'
  BY <1>12, RbType, Sections, Watched DEF BringUp, WaitOver, PlaybackStart, Return
<1>13. CASE MonClaim
  BY <1>13, RbType, Sections, Watched DEF MonClaim, CodecClaim, CodecPending
<1>14. CASE MonLoop
  BY <1>14, RbType, Sections, Watched DEF MonLoop, CodecPending
<1>15. CASE MonExternal
  BY <1>15, RbType, Sections, Watched DEF MonExternal
<1>16. CASE MonExit
  BY <1>16, RbType, Sections, Watched DEF MonExit
<1>17. CASE MonEnd
  BY <1>17, RbType, Sections, Watched DEF MonEnd
<1>18. CASE AsyncFlag
  BY <1>18, RbType, Sections, Watched DEF AsyncFlag
<1>19. CASE AsyncRequest
  BY <1>19, RbType, Sections, Watched DEF AsyncRequest
<1>20. ASSUME NEW t \in Ctl, Start(t) PROVE Watched'
  BY <1>20, RbType, Sections, Watched DEF Start, StartGuard
<1>21. ASSUME NEW t \in Ctl, StepStation(t) PROVE Watched'
  BY <1>21, RbType, Sections, Watched DEF StepStation, StartGuard, PlaybackStop
<1>22. ASSUME NEW t \in Ctl, Stop(t) PROVE Watched'
  BY <1>22, RbType, Sections, Watched DEF Stop
<1>23. ASSUME NEW t \in Ctl, UiCodecStart(t) PROVE Watched'
  BY <1>23, RbType, Sections, Watched DEF UiCodecStart, CodecClaim, CodecPending
<1>24. CASE LocalStart
  BY <1>24, RbType, Sections, Watched DEF LocalStart
<1>25. CASE LocalChannel \/ LocalStop \/ External
  BY <1>25, RbType, Sections, Watched DEF LocalChannel, LocalStop, External
<1>26. ASSUME NEW g \in Gens, Worker(g) PROVE Watched'
  BY <1>26, RbType, Sections, Watched DEF Worker, WMp3, WProbeOpen, WProbed, WProbeFail,
     WReady, WFetchData, WFetchNothing, WFetched, WListEnd, WLoopEnd, WConnect, WBodyData,
     WBodyEnd, WWriteWait, WWrite, WWriteStopped, WEnd, SrcBut
<1>27. ASSUME NEW d \in Dec, Decoder(d) PROVE Watched'
  BY <1>27, RbType, Sections, Watched DEF Decoder, DLoad, DCommand, DReadEnd, DRead,
     DDecode, DInsert
<1>28. CASE UNCHANGED vars
  BY <1>28, RbType, Sections, Watched DEF vars
<1> QED BY <1>1, <1>2, <1>3, <1>4, <1>5, <1>6, <1>7, <1>8, <1>9, <1>10, <1>11, <1>12, <1>13,
   <1>14, <1>15, <1>16, <1>17, <1>18, <1>19, <1>20, <1>21, <1>22, <1>23, <1>24, <1>25,
   <1>26, <1>27, <1>28 DEF Next, Request, RbStep, MonStep, AudStep

LEMMA AttendedStep ==
  ASSUME RbType, Sections, Watched, Attended, [Next]_vars
  PROVE  Attended'
<1> USE NetfmAssumption DEF At, Goto, Yield, CallStop, MonKeep, WKeep, DKeep, src, play,
   mon, env, rb, wrk, dcd, sess, Rb, RbType, RetLabels, Sections, Watched, Attended
<1>1. ASSUME NEW t \in Rb, StopFlag(t) PROVE Attended'
  BY <1>1, RbType, Sections, Watched, Attended DEF StopFlag
<1>2. ASSUME NEW t \in Rb, StopPlay(t) PROVE Attended'
  BY <1>2, RbType, Sections, Watched, Attended DEF StopPlay, PlaybackStop
<1>3. ASSUME NEW t \in Rb, StopClear(t) PROVE Attended'
  BY <1>3, RbType, Sections, Watched, Attended DEF StopClear, Return
<1>4. ASSUME NEW t \in Rb, WaitWorker(t) PROVE Attended'
  BY <1>4, RbType, Sections, Watched, Attended DEF WaitWorker
<1>5. ASSUME NEW t \in Rb, StartRefused(t) PROVE Attended'
  BY <1>5, RbType, Sections, Watched, Attended DEF StartRefused
<1>6. ASSUME NEW t \in Rb, StartCommit(t) PROVE Attended'
  BY <1>6, RbType, Sections, Watched, Attended DEF StartCommit, ResetSource
<1>7. ASSUME NEW t \in Rb, CreateWorker(t) PROVE Attended'
  BY <1>7, RbType, Sections, Watched, Attended DEF CreateWorker
<1>8. ASSUME NEW t \in Rb, CreateWorkerFails(t) PROVE Attended'
  BY <1>8, RbType, Sections, Watched, Attended DEF CreateWorkerFails
<1>9. ASSUME NEW t \in Rb, MonitorStart(t) PROVE Attended'
  BY <1>9, RbType, Sections, Watched, Attended DEF MonitorStart
<1>10. ASSUME NEW t \in Rb, BringWait(t) PROVE Attended'
  BY <1>10, RbType, Sections, Watched, Attended DEF BringWait
<1>11. ASSUME NEW t \in Rb, BringGiveUp(t) PROVE Attended'
  BY <1>11, RbType, Sections, Watched, Attended DEF BringGiveUp, WaitOver, Return
<1>12. ASSUME NEW t \in Rb, BringUp(t) PROVE Attended'
  BY <1>12, RbType, Sections, Watched, Attended DEF BringUp, WaitOver, PlaybackStart, Return
<1>13. CASE MonClaim
  BY <1>13, RbType, Sections, Watched, Attended DEF MonClaim, CodecClaim, CodecPending
<1>14. CASE MonLoop
  BY <1>14, RbType, Sections, Watched, Attended DEF MonLoop, CodecPending
<1>15. CASE MonExternal
  BY <1>15, RbType, Sections, Watched, Attended DEF MonExternal
<1>16. CASE MonExit
  BY <1>16, RbType, Sections, Watched, Attended DEF MonExit
<1>17. CASE MonEnd
  BY <1>17, RbType, Sections, Watched, Attended DEF MonEnd
<1>18. CASE AsyncFlag
  BY <1>18, RbType, Sections, Watched, Attended DEF AsyncFlag
<1>19. CASE AsyncRequest
  BY <1>19, RbType, Sections, Watched, Attended DEF AsyncRequest
<1>20. ASSUME NEW t \in Ctl, Start(t) PROVE Attended'
  BY <1>20, RbType, Sections, Watched, Attended DEF Start, StartGuard
<1>21. ASSUME NEW t \in Ctl, StepStation(t) PROVE Attended'
  BY <1>21, RbType, Sections, Watched, Attended DEF StepStation, StartGuard, PlaybackStop
<1>22. ASSUME NEW t \in Ctl, Stop(t) PROVE Attended'
  BY <1>22, RbType, Sections, Watched, Attended DEF Stop
<1>23. ASSUME NEW t \in Ctl, UiCodecStart(t) PROVE Attended'
  BY <1>23, RbType, Sections, Watched, Attended DEF UiCodecStart, CodecClaim, CodecPending
<1>24. CASE LocalStart
  BY <1>24, RbType, Sections, Watched, Attended DEF LocalStart
<1>25. CASE LocalChannel \/ LocalStop \/ External
  BY <1>25, RbType, Sections, Watched, Attended DEF LocalChannel, LocalStop, External
<1>26. ASSUME NEW g \in Gens, Worker(g) PROVE Attended'
  BY <1>26, RbType, Sections, Watched, Attended DEF Worker, WMp3, WProbeOpen, WProbed,
     WProbeFail, WReady, WFetchData, WFetchNothing, WFetched, WListEnd, WLoopEnd, WConnect,
     WBodyData, WBodyEnd, WWriteWait, WWrite, WWriteStopped, WEnd, SrcBut
<1>27. ASSUME NEW d \in Dec, Decoder(d) PROVE Attended'
  BY <1>27, RbType, Sections, Watched, Attended DEF Decoder, DLoad, DCommand, DReadEnd,
     DRead, DDecode, DInsert
<1>28. CASE UNCHANGED vars
  BY <1>28, RbType, Sections, Watched, Attended DEF vars
<1> QED BY <1>1, <1>2, <1>3, <1>4, <1>5, <1>6, <1>7, <1>8, <1>9, <1>10, <1>11, <1>12, <1>13,
   <1>14, <1>15, <1>16, <1>17, <1>18, <1>19, <1>20, <1>21, <1>22, <1>23, <1>24, <1>25,
   <1>26, <1>27, <1>28 DEF Next, Request, RbStep, MonStep, AudStep

LEMMA DutyInit == Init => Sections /\ Watched /\ Attended
<1> SUFFICES ASSUME Init PROVE Sections /\ Watched /\ Attended
  OBVIOUS
<1> QED BY NetfmAssumption DEF Init, Sections, Watched, Attended, Rb

LEMMA DutyMeans == Sections /\ Watched /\ Attended => MonitorDuties /\ DecoderClaimed
<1> SUFFICES ASSUME Sections, Watched, Attended, cpu = Free
             PROVE  MonitorDuties /\ DecoderClaimed
  BY DEF MonitorDuties, MonitorOnDuty, TeardownDone, DecoderClaimed
<1>1. \A t \in Rb : pc[t] \notin {"stop", "stopPlay", "create", "monitor"}
  BY NetfmAssumption DEF Sections, Rb
<1> QED BY <1>1 DEF Watched, Attended, MonitorDuties, MonitorOnDuty, TeardownDone, DecoderClaimed

LEMMA DutyInvariant == Spec => [](Sections /\ Watched /\ Attended)
<1>1. TypeOK /\ Sections /\ Watched /\ Attended /\ [Next]_vars
      => TypeOK' /\ Sections' /\ Watched' /\ Attended'
  BY TypeNext, SectionsStep, WatchedStep, AttendedStep DEF TypeOK
<1> QED BY TypeInit, DutyInit, <1>1, PTL DEF Spec

(* netfm_mon_running never claims a monitor that has decided to end, and    *)
(* the monitor does not end before the decoder that stop_async() left to it *)
(* is stopped, whoever starts, stops and takes over meanwhile.              *)
THEOREM DutiesDone == Spec => []MonitorDuties
BY DutyMeans, DutyInvariant, PTL

(* codec_started stands for the decoder that plays: no bring-up starts a    *)
(* second one beside it.                                                    *)
THEOREM OneClaim == Spec => []DecoderClaimed
BY DutyMeans, DutyInvariant, PTL

=============================================================================
