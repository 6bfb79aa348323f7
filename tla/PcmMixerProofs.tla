--------------------------- MODULE PcmMixerProofs ---------------------------
(***************************************************************************)
(* Proofs about PcmMixer: for every number of channels and callers, every  *)
(* size of chunks and frames and every length of the silence, the driver   *)
(* gets whole buffers, every unit once and in order, and an active channel *)
(* keeps the PCM, when the callers leave each other alone.                 *)
(***************************************************************************)
EXTENDS PcmMixer, TLAPS

\* Numbers of the model.
LEMMA Constants ==
  /\ Chunks \subseteq Nat \ {0} /\ Sizes \subseteq Nat
  /\ MaxIdle \in Nat /\ MaxIdle >= 3 /\ MaxGiven \in Nat
  /\ \A f \in Frames : f \in Nat /\ f > 0
  /\ NoOne \notin Users /\ Pump \notin Users /\ NoOne # Pump
  /\ NoChannel \notin Channels
<1>1. Chunks \subseteq Nat \ {0} /\ Sizes \subseteq Nat
  BY ChunksAssumption DEF Sizes
<1>2. MaxIdle \in Nat /\ MaxIdle >= 3 /\ MaxGiven \in Nat
  BY IdleAssumption, GivenAssumption
<1>3. \A f \in Frames : f \in Nat /\ f > 0
  BY FramesAssumption
<1>4. NoOne \notin Users /\ Pump \notin Users /\ NoOne # Pump /\ NoChannel \notin Channels
  BY NamesAssumption DEF NoOne, Pump
<1> QED BY <1>1, <1>2, <1>3, <1>4

LEMMA UnitsIn ==
  ASSUME NEW s \in Int, NEW n \in Int
  PROVE  /\ Units(s, n) \subseteq 0 .. MaxGiven
         /\ \A x \in Units(s, n) : x \in Nat /\ s <= x /\ x < s + n
BY Constants DEF Units

-----------------------------------------------------------------------------
\* Types, with bounds only where they hold without a further invariant.

ChanTypes ==
  /\ status \in [Channels -> {"stopped", "playing", "paused"}]
  /\ active \subseteq Channels
  /\ start \in [Channels -> Int] /\ size \in [Channels -> Int]
  /\ last \in [Channels -> Nat] /\ next \in [Channels -> Int]
  /\ given \in [Channels -> 0 .. MaxGiven]
BufTypes ==
  /\ frame \in Frames /\ nextSize \in Nat /\ idle \in Nat /\ index \in {0, 1}
  /\ buf \in [{0, 1} -> [Channels -> SUBSET (0 .. MaxGiven)]]
DrvTypes ==
  /\ playing \in BOOLEAN /\ drv \in [buf : {0, 1}, left : BOOLEAN]
  /\ heard \in [Channels -> SUBSET (0 .. MaxGiven)]
  /\ cb \in [by : Users \cup {NoOne, Pump}, calls : 0 .. 2]
UserTypes ==
  /\ pc \in [Users -> {"idle", "more", "data", "sampr"}]
  /\ chan \in [Users -> Channels \cup {NoChannel}]
  /\ got \in [Users -> Chunk]
  /\ seen \in [Users -> SUBSET Channels]
  /\ kick \in [Users -> BOOLEAN]
  /\ \A u \in Users : pc[u] # "idle" => chan[u] \in Channels
Types == ChanTypes /\ BufTypes /\ DrvTypes /\ UserTypes

LEMMA TypesInit == Init => Types
<1> SUFFICES ASSUME Init PROVE Types
  OBVIOUS
<1>1. ChanTypes
  BY Constants DEF Init, ChanTypes
<1>2. BufTypes
  BY Constants DEF Init, BufTypes, Empty
<1>3. DrvTypes
  <2>1. cb \in [by : Users \cup {NoOne, Pump}, calls : 0 .. 2]
    BY DEF Init, Quiet
  <2>2. heard \in [Channels -> SUBSET (0 .. MaxGiven)]
    BY DEF Init, Empty
  <2> QED BY <2>1, <2>2 DEF Init, DrvTypes
<1>4. UserTypes
  <2>1. NoChunk \in Chunk
    BY Constants DEF NoChunk, Chunk
  <2> QED BY <2>1 DEF Init, UserTypes
<1> QED BY <1>1, <1>2, <1>3, <1>4 DEF Types

LEMMA FlipType == index \in {0, 1} => Flip \in {0, 1} /\ 1 - index \in {0, 1} /\ Flip # index
BY DEF Flip

\* What mixer_start_pcm() does to the types.
LEMMA StartPcmTypes ==
  ASSUME Types, NEW u \in Users, StartPcm(u), UNCHANGED <<frame, buf, drvVars>>, idle' \in Nat
  PROVE  BufTypes' /\ DrvTypes'
BY FlipType, Constants DEF Types, StartPcm, BufTypes, DrvTypes, drvVars

LEMMA FinishTypes ==
  ASSUME Types, NEW u \in Users, Finish(u)
  PROVE  UserTypes'
BY Constants DEF Types, Finish, UserTypes, Chunk, NoChunk

LEMMA StoppedTypes ==
  ASSUME Types, NEW c \in Channels, Stopped(c), UNCHANGED given
  PROVE  ChanTypes'
BY DEF Types, Stopped, ChanTypes

LEMMA NewChunkTypes ==
  ASSUME Types, NEW c \in Channels, NEW s \in Int, NEW n \in Int, NewChunk(c, s, n),
         given' \in [Channels -> 0 .. MaxGiven],
         status' \in [Channels -> {"stopped", "playing", "paused"}], active' \subseteq Channels
  PROVE  ChanTypes'
BY DEF Types, NewChunk, ChanTypes

\* The end of the buffer callback.
LEMMA ReturnTypes ==
  ASSUME Types, NEW b \in [{0, 1} -> [Channels -> SUBSET (0 .. MaxGiven)]],
         NEW ns \in Nat, Return(b, ns), frame' = frame, idle' \in Nat, buf' = b
  PROVE  BufTypes' /\ DrvTypes'
<1>1. 1 - index \in {0, 1} /\ Flip \in {0, 1}
  BY FlipType DEF Types, BufTypes
<1>2. BufTypes'
  BY <1>1 DEF Types, Return, BufTypes
<1>3. cb' \in [by : Users \cup {NoOne, Pump}, calls : 0 .. 2]
  BY DEF Types, Return, DrvTypes, Quiet
<1>4. heard' \in [Channels -> SUBSET (0 .. MaxGiven)]
  BY <1>1 DEF Types, Return, DrvTypes, drvVars
<1>5. CASE cb.calls = 2 \/ cb.by = Pump
  <2>1. playing' = playing /\ drv' = drv
    BY <1>5 DEF Return, drvVars
  <2>2. playing' \in BOOLEAN /\ drv' \in [buf : {0, 1}, left : BOOLEAN]
    BY <2>1 DEF Types, DrvTypes
  <2> QED BY <2>2, <1>2, <1>3, <1>4 DEF DrvTypes
<1>6. CASE ~(cb.calls = 2 \/ cb.by = Pump)
  <2>1. playing' = TRUE /\ drv' = [buf |-> 1 - index, left |-> TRUE]
    BY <1>6 DEF Return
  <2>2. playing' \in BOOLEAN /\ drv' \in [buf : {0, 1}, left : BOOLEAN]
    BY <2>1, <1>1
  <2> QED BY <2>2, <1>2, <1>3, <1>4 DEF DrvTypes
<1> QED BY <1>5, <1>6

LEMMA GivesType ==
  ASSUME Types, NEW c \in Channels, NEW k, Gives(c, k)
  PROVE  k \in Nat /\ given[c] + k \in 0 .. MaxGiven /\ k \in 0 .. MaxGiven
BY Constants DEF Types, ChanTypes, Gives

\* The channels that ran out or not, in a round of mixing.
LEMMA RoundSets ==
  ASSUME Types, NEW more
  PROVE  /\ RanOut \subseteq active /\ Dead(more) \subseteq RanOut
         /\ On(more) \subseteq active /\ On(more) \subseteq Channels
         /\ active = On(more) \cup Dead(more) /\ On(more) \cap Dead(more) = {}
         /\ \A c \in active : From(c) \in Int
BY DEF Types, ChanTypes, RanOut, Dead, On, From

LEMMA MixedType ==
  ASSUME Types, NEW more \in [Channels -> Sizes], NEW n \in Nat
  PROVE  /\ Mixed(more, n) \in [{0, 1} -> [Channels -> SUBSET (0 .. MaxGiven)]]
         /\ Mixed(more, n)[1 - index] = buf[1 - index]
         /\ \A c \in Channels :
              Mixed(more, n)[index][c] = (IF nextSize = 0 THEN {} ELSE buf[index][c])
                         \cup (IF c \in On(more) THEN Units(From(c), n) ELSE {})
<1> DEFINE row == [c \in Channels |-> (IF nextSize = 0 THEN {} ELSE buf[index][c])
                         \cup (IF c \in On(more) THEN Units(From(c), n) ELSE {})]
<1>1. row \in [Channels -> SUBSET (0 .. MaxGiven)]
  <2>1. \A c \in Channels : (IF nextSize = 0 THEN {} ELSE buf[index][c]) \in SUBSET (0 .. MaxGiven)
    BY DEF Types, BufTypes
  <2>2. \A c \in Channels : (IF c \in On(more) THEN Units(From(c), n) ELSE {}) \in SUBSET (0 .. MaxGiven)
    BY RoundSets, UnitsIn
  <2> QED BY <2>1, <2>2
<1>2. index \in {0, 1} /\ 1 - index \in {0, 1} /\ 1 - index # index
  BY DEF Types, BufTypes
<1>3. Mixed(more, n) = [buf EXCEPT ![index] = row]
  BY DEF Mixed
<1>4. \A c \in Channels : row[c] = (IF nextSize = 0 THEN {} ELSE buf[index][c])
                         \cup (IF c \in On(more) THEN Units(From(c), n) ELSE {})
  OBVIOUS
<1> HIDE DEF row
<1> QED BY <1>1, <1>2, <1>3, <1>4 DEF Types, BufTypes

LEMMA MixTypes ==
  ASSUME Types, NEW more \in [Channels -> Sizes], NEW n \in 1 .. frame, Mix(more, n),
         UNCHANGED <<frame, idle, userVars>>
  PROVE  Types'
<1>0. frame \in Nat /\ frame > 0 /\ n \in Nat
  BY Constants DEF Types, BufTypes
<1>1. UserTypes'
  BY DEF Types, UserTypes, userVars
<1>2. ChanTypes'
  <2>1. given' \in [Channels -> 0 .. MaxGiven]
    <3>1. \A c \in Channels : given[c] + more[c] \in 0 .. MaxGiven
      <4> TAKE c \in Channels
      <4>1. CASE c \in RanOut
        BY <4>1, GivesType DEF Mix
      <4>2. CASE c \notin RanOut
        BY <4>2 DEF Mix, Types, ChanTypes
      <4> QED BY <4>1, <4>2
    <3> QED BY <3>1 DEF Mix
  <2>2. active' \subseteq Channels
    BY RoundSets DEF Mix
  <2>3. status' \in [Channels -> {"stopped", "playing", "paused"}]
    BY DEF Mix, Types, ChanTypes
  <2>4. \A c \in Channels : more[c] \in Nat
    BY Constants
  <2>5. \A c \in On(more) : Left(c, more) \in Int /\ From(c) \in Int
    BY <2>4, RoundSets DEF Left, Types, ChanTypes
  <2>6. start' \in [Channels -> Int]
    BY <2>5 DEF Mix, Types, ChanTypes
  <2>7. size' \in [Channels -> Int]
    BY <2>5 DEF Mix, Types, ChanTypes
  <2>8. last' \in [Channels -> Nat]
    BY <1>0 DEF Mix, Types, ChanTypes
  <2>9. next' \in [Channels -> Int]
    BY <2>5, <1>0 DEF Mix, Types, ChanTypes
  <2> QED BY <2>1, <2>2, <2>3, <2>6, <2>7, <2>8, <2>9 DEF ChanTypes
<1>3. BufTypes' /\ DrvTypes'
  <2>1. CASE nextSize + n = frame
    <3>1. Return(buf', frame)
      BY <2>1 DEF Mix
    <3>2. buf' \in [{0, 1} -> [Channels -> SUBSET (0 .. MaxGiven)]]
      BY <1>0, MixedType DEF Mix
    <3> QED BY <3>1, <3>2, <1>0, ReturnTypes DEF Types, BufTypes
  <2>2. CASE nextSize + n # frame
    BY <2>2, <1>0, MixedType DEF Mix, Types, BufTypes, DrvTypes, drvVars
  <2> QED BY <2>1, <2>2
<1> QED BY <1>1, <1>2, <1>3 DEF Types

LEMMA SilencedType ==
  ASSUME Types
  PROVE  /\ Silenced \in [{0, 1} -> [Channels -> SUBSET (0 .. MaxGiven)]]
         /\ Silenced[1 - index] = buf[1 - index]
         /\ Silenced[index] = IF Clears /\ nextSize = 0 THEN Empty ELSE buf[index]
BY DEF Types, BufTypes, Silenced, Empty

LEMMA IdleTypes ==
  ASSUME Types, FillIdle
  PROVE  Types'
<1>1. UserTypes'
  BY DEF Types, UserTypes, userVars, FillIdle
<1>2. ChanTypes'
  BY DEF Types, ChanTypes, FillIdle
<1>3. frame \in Nat
  BY Constants DEF Types, BufTypes
<1>4. BufTypes' /\ DrvTypes'
  <2>1. CASE Silence
    BY <2>1, <1>3, SilencedType, ReturnTypes DEF FillIdle, Types, BufTypes
  <2>2. CASE ~Silence
    BY <2>2, <1>3, ReturnTypes DEF FillIdle, Types, BufTypes
  <2> QED BY <2>1, <2>2
<1> QED BY <1>1, <1>2, <1>4 DEF Types

\* A step and what it leaves alone.
LEMMA TypesStep == Types /\ [Next]_vars => Types'
<1> SUFFICES ASSUME Types, [Next]_vars
             PROVE  Types'
  OBVIOUS
<1>1. ASSUME NEW u \in Users, NEW c \in Channels,
             PlayDeactivate(u, c) \/ Pause(u, c) \/ FreqStop(u, c)
      PROVE  Types'
  <2>1. CASE PlayDeactivate(u, c)
    BY <2>1 DEF PlayDeactivate, Types, ChanTypes, BufTypes, DrvTypes, UserTypes, bufVars, drvVars
  <2>2. CASE Pause(u, c)
    BY <2>2 DEF Pause, Types, ChanTypes, BufTypes, DrvTypes, UserTypes, bufVars, drvVars, userVars
  <2>3. CASE FreqStop(u, c)
    <3>1. ChanTypes' /\ BufTypes'
      BY <2>3 DEF FreqStop, Types, ChanTypes, BufTypes, chanVars
    <3>2. drv' \in [buf : {0, 1}, left : BOOLEAN]
      BY <2>3 DEF FreqStop, Types, DrvTypes
    <3>3. DrvTypes'
      BY <2>3, <3>2 DEF FreqStop, Types, DrvTypes
    <3>4. UserTypes'
      BY <2>3 DEF FreqStop, Types, UserTypes
    <3> QED BY <3>1, <3>3, <3>4 DEF Types
  <2> QED BY <1>1, <2>1, <2>2, <2>3
<1>2. ASSUME NEW u \in Users, NEW c \in Channels, Stop(u, c)
      PROVE  Types'
  BY <1>2, StoppedTypes DEF Stop, Types, BufTypes, DrvTypes, UserTypes, bufVars, drvVars, userVars
<1>3. ASSUME NEW u \in Users, NEW c \in Channels, Resume(u, c)
      PROVE  Types'
  <2>1. ChanTypes' /\ idle' \in Nat
    BY <1>3 DEF Resume, Activate, Types, ChanTypes, BufTypes
  <2>2. BufTypes' /\ DrvTypes'
    BY <1>3, <2>1, StartPcmTypes DEF Resume
  <2>3. UserTypes'
    BY <1>3 DEF Resume, Types, UserTypes, userVars
  <2> QED BY <2>1, <2>2, <2>3 DEF Types
<1>4. ASSUME NEW u \in Users, NEW c \in Channels, SamprChannel(u, c)
      PROVE  Types'
  <2>1. PICK k \in Sizes :
          /\ Gives(c, k) /\ given' = [given EXCEPT ![c] = @ + k]
          /\ IF k = 0 THEN Stopped(c)
             ELSE NewChunk(c, given[c], k) /\ UNCHANGED <<status, active>>
    BY <1>4 DEF SamprChannel
  <2>2. given' \in [Channels -> 0 .. MaxGiven] /\ k \in Int /\ given[c] \in Int
    BY <2>1, GivesType DEF Types, ChanTypes
  <2>3. ChanTypes'
    <3>1. CASE k = 0
      BY <3>1, <2>1, <2>2 DEF Stopped, Types, ChanTypes
    <3>2. CASE k # 0
      BY <3>2, <2>1, <2>2, NewChunkTypes DEF Types, ChanTypes
    <3> QED BY <3>1, <3>2
  <2>4. BufTypes' /\ DrvTypes'
    BY <1>4 DEF SamprChannel, Types, BufTypes, DrvTypes, bufVars, drvVars
  <2>5. UserTypes'
    BY <1>4 DEF SamprChannel, Types, UserTypes
  <2> QED BY <2>3, <2>4, <2>5 DEF Types
<1>5. ASSUME NEW u \in Users, PlayMore(u)
      PROVE  Types'
  <2>1. chan[u] \in Channels
    BY <1>5 DEF PlayMore, Types, UserTypes
  <2>2. PICK k \in Sizes :
          /\ Gives(chan[u], k)
          /\ got' = [got EXCEPT ![u] = [start |-> given[chan[u]], size |-> k]]
          /\ given' = [given EXCEPT ![chan[u]] = @ + k]
    BY <1>5 DEF PlayMore
  <2>3. /\ k \in 0 .. MaxGiven /\ given[chan[u]] \in 0 .. MaxGiven
        /\ given[chan[u]] + k \in 0 .. MaxGiven
    BY <2>1, <2>2, GivesType DEF Types, ChanTypes
  <2>4. ChanTypes'
    BY <1>5, <2>1, <2>2, <2>3 DEF PlayMore, Types, ChanTypes, chanVars
  <2>5. got' \in [Users -> Chunk]
    BY <2>2, <2>3 DEF Types, UserTypes, Chunk
  <2>6. UserTypes'
    BY <1>5, <2>5 DEF PlayMore, Types, UserTypes
  <2>7. BufTypes' /\ DrvTypes'
    BY <1>5 DEF PlayMore, Types, BufTypes, DrvTypes, bufVars, drvVars
  <2> QED BY <2>4, <2>6, <2>7 DEF Types
<1>6. ASSUME NEW u \in Users, PlayStart(u)
      PROVE  Types'
  <2>1. chan[u] \in Channels /\ got[u].start \in Int /\ got[u].size \in Int
    BY <1>6 DEF PlayStart, Types, UserTypes, Chunk
  <2>2. ChanTypes' /\ idle' \in Nat
    BY <1>6, <2>1, NewChunkTypes DEF PlayStart, Activate, Types, ChanTypes, BufTypes
  <2>3. BufTypes' /\ DrvTypes'
    BY <1>6, <2>2, StartPcmTypes DEF PlayStart
  <2>4. UserTypes'
    BY <1>6, FinishTypes DEF PlayStart
  <2> QED BY <2>2, <2>3, <2>4 DEF Types
<1>7. ASSUME NEW u \in Users, PlayNone(u)
      PROVE  Types'
  <2>1. chan[u] \in Channels
    BY <1>7 DEF PlayNone, Types, UserTypes
  <2> QED BY <1>7, <2>1, StoppedTypes, FinishTypes
          DEF PlayNone, Types, BufTypes, DrvTypes, bufVars, drvVars
<1>8. ASSUME NEW u \in Users, SamprDone(u)
      PROVE  Types'
  BY <1>8 DEF SamprDone, Types, ChanTypes, BufTypes, DrvTypes, UserTypes, drvVars
<1>9. CASE FillMix
  BY <1>9, MixTypes DEF FillMix
<1>10. CASE FillIdle
  BY <1>10, IdleTypes
<1>11. CASE PumpTake
  <2>1. ChanTypes' /\ UserTypes'
    BY <1>11 DEF PumpTake, Types, ChanTypes, UserTypes, chanVars, userVars
  <2>2. BufTypes'
    BY <1>11, FlipType DEF PumpTake, Types, BufTypes
  <2>3. drv' \in [buf : {0, 1}, left : BOOLEAN]
    BY <1>11 DEF PumpTake, Types, BufTypes
  <2>4. heard' \in [Channels -> SUBSET (0 .. MaxGiven)]
    BY <1>11 DEF PumpTake, Types, BufTypes, DrvTypes
  <2>5. cb' \in [by : Users \cup {NoOne, Pump}, calls : 0 .. 2]
    BY <1>11 DEF PumpTake
  <2>6. playing' \in BOOLEAN
    BY <1>11 DEF PumpTake, Types, DrvTypes
  <2> QED BY <2>1, <2>2, <2>3, <2>4, <2>5, <2>6 DEF DrvTypes, Types
<1>12. CASE PumpCopy \/ PumpStop
  BY <1>12 DEF PumpCopy, PumpStop, Types, ChanTypes, BufTypes, DrvTypes, UserTypes, chanVars,
               bufVars, userVars
<1>13. CASE UNCHANGED vars
  BY <1>13 DEF vars, Types, ChanTypes, BufTypes, DrvTypes, UserTypes, chanVars, bufVars, drvVars,
               userVars
<1> QED
  BY <1>1, <1>2, <1>3, <1>4, <1>5, <1>6, <1>7, <1>8, <1>9, <1>10, <1>11, <1>12, <1>13 DEF Next

-----------------------------------------------------------------------------
\* Who may be where: callers keep off each other's channels, the one that
\* changes the rate is alone and the PCM stopped, and the pump only fills while
\* the PCM plays, in the buffer it does not copy from.

Exclusive ==
  \A u, v \in Users : (u # v /\ pc[u] # "idle" /\ pc[v] # "idle") => chan[u] # chan[v]
Off == \A u \in Users : pc[u] \in {"more", "data"} => chan[u] \notin active
OneKick ==
  \A u \in Users : kick[u] => pc[u] # "idle" /\ \A v \in Users : v # u => pc[v] = "idle"
Stopping == \A u \in Users : pc[u] = "sampr" => kick[u] /\ ~playing /\ Free
Calls == cb.by # NoOne => cb.calls \in {1, 2}
PumpFills == cb.by = Pump => cb.calls = 1 /\ playing /\ (drv.left => drv.buf # index)
Control == Exclusive /\ Off /\ OneKick /\ Stopping /\ Calls /\ PumpFills

LEMMA ControlInit == Init => Control
BY Constants DEF Init, Control, Exclusive, Off, OneKick, Stopping, Calls, PumpFills, Quiet, Free

\* What Alone says of a caller.
LEMMA MayCallFacts ==
  ASSUME Alone, Types, Control, NEW u \in Users, NEW c \in Channels, MayCall(u, c)
  PROVE  /\ pc[u] = "idle" /\ ~kick[u]
         /\ \A v \in Users : ~kick[v] /\ pc[v] # "sampr" /\ (pc[v] # "idle" => chan[v] # c)
BY DEF MayCall, Control, OneKick, Stopping, Types, UserTypes

\* The callers are where they were, no channel became active, and the callback
\* ran or not.
LEMMA ControlKeeps ==
  ASSUME Types, Control, UNCHANGED userVars, active' \subseteq active, Calls', PumpFills',
         Stopping'
  PROVE  Control'
BY DEF Control, Exclusive, Off, OneKick, userVars

LEMMA ReturnControl ==
  ASSUME Types, Control, NEW b, NEW ns, Return(b, ns), ~Free, UNCHANGED pc
  PROVE  Calls' /\ PumpFills' /\ Stopping'
<1>1. \A u \in Users : pc[u] # "sampr"
  BY DEF Control, Stopping
<1>2. Stopping'
  BY <1>1 DEF Stopping
<1>3. CASE cb.calls = 2
  <2>1. cb.by # Pump
    BY <1>3 DEF Control, PumpFills
  <2>2. cb'.by = cb.by /\ cb'.calls = 1
    BY <1>3 DEF Return, Types, DrvTypes
  <2> QED BY <1>2, <2>1, <2>2 DEF Calls, PumpFills
<1>4. CASE cb.calls # 2
  <2>1. cb'.by = NoOne
    BY <1>4 DEF Return, Quiet
  <2> QED BY <1>2, <2>1, Constants DEF Calls, PumpFills
<1> QED BY <1>3, <1>4

LEMMA MixControl ==
  ASSUME Types, Control, NEW more \in [Channels -> Sizes], NEW n \in 1 .. frame, Mix(more, n),
         ~Free, UNCHANGED <<frame, idle, userVars>>
  PROVE  Control'
<1>1. active' \subseteq active
  BY RoundSets DEF Mix
<1>2. UNCHANGED pc
  BY DEF userVars
<1>3. CASE nextSize + n = frame
  BY <1>1, <1>2, <1>3, ReturnControl, ControlKeeps DEF Mix
<1>4. CASE nextSize + n # frame
  <2>1. UNCHANGED <<index, cb, drvVars>>
    BY <1>4 DEF Mix
  <2>2. Calls' /\ PumpFills' /\ Stopping'
    BY <2>1 DEF drvVars, userVars, Control, Calls, PumpFills, Stopping, Free
  <2> QED BY <1>1, <2>2, ControlKeeps
<1> QED BY <1>3, <1>4

LEMMA ControlStep == Alone /\ Types /\ Control /\ [Next]_vars => Control'
<1> SUFFICES ASSUME Alone, Types, Control, [Next]_vars
             PROVE  Control'
  OBVIOUS
<1>1. ASSUME NEW u \in Users, NEW c \in Channels, PlayDeactivate(u, c)
      PROVE  Control'
  <2>1. Exclusive' /\ OneKick' /\ Off'
    BY <1>1, MayCallFacts
       DEF PlayDeactivate, Types, UserTypes, Control, Exclusive, OneKick, Off
  <2>2. Stopping' /\ Calls' /\ PumpFills'
    BY <1>1 DEF PlayDeactivate, Types, UserTypes, Control, Stopping, Calls, PumpFills, bufVars,
                drvVars, Free
  <2> QED BY <2>1, <2>2 DEF Control
<1>2. ASSUME NEW u \in Users, NEW c \in Channels, Stop(u, c) \/ Pause(u, c)
      PROVE  Control'
  <2>1. active' \subseteq active /\ UNCHANGED <<bufVars, drvVars, cb, userVars>>
    BY <1>2 DEF Stop, Pause, Stopped
  <2>2. Stopping' /\ Calls' /\ PumpFills'
    BY <2>1 DEF Control, Stopping, Calls, PumpFills, bufVars, drvVars, userVars, Free
  <2> QED BY <2>1, <2>2, ControlKeeps
<1>3. ASSUME NEW u \in Users, NEW c \in Channels, Resume(u, c)
      PROVE  Control'
  <2>1. Exclusive' /\ OneKick'
    BY <1>3 DEF Resume, Control, Exclusive, OneKick, userVars
  <2>2. Off'
    BY <1>3, MayCallFacts DEF Resume, Activate, Control, Off, userVars
  <2>3. Stopping'
    BY <1>3, MayCallFacts DEF Resume, Stopping, userVars
  <2>4. Calls' /\ PumpFills'
    BY <1>3, Constants DEF Resume, StartPcm, Control, Calls, PumpFills, drvVars, Free
  <2> QED BY <2>1, <2>2, <2>3, <2>4 DEF Control
<1>4. ASSUME NEW u \in Users, NEW c \in Channels, FreqStop(u, c)
      PROVE  Control'
  <2>1. \A v \in Users : v # u => pc[v] = "idle"
    BY <1>4 DEF FreqStop
  <2>2. Exclusive' /\ OneKick' /\ Off'
    BY <1>4, <2>1, MayCallFacts DEF FreqStop, Types, UserTypes, Exclusive, OneKick, Off
  <2>3. Stopping'
    BY <1>4, <2>1 DEF FreqStop, Types, UserTypes, Stopping, Free
  <2>4. Calls' /\ PumpFills'
    BY <1>4, Constants DEF FreqStop, Calls, PumpFills, Free
  <2> QED BY <2>2, <2>3, <2>4 DEF Control
<1>5. ASSUME NEW u \in Users, NEW c \in Channels, SamprChannel(u, c)
      PROVE  Control'
  <2>1. active' \subseteq active
    BY <1>5 DEF SamprChannel, Stopped
  <2>2. UNCHANGED <<bufVars, drvVars, cb, pc, chan, kick>>
    BY <1>5 DEF SamprChannel
  <2> QED BY <2>1, <2>2 DEF Control, Exclusive, Off, OneKick, Stopping, Calls, PumpFills, bufVars,
                            drvVars, Free
<1>6. ASSUME NEW u \in Users, PlayMore(u)
      PROVE  Control'
  <2>1. UNCHANGED <<chanVars, bufVars, drvVars, cb, chan, kick>> /\ pc[u] = "more"
        /\ pc' = [pc EXCEPT ![u] = "data"]
    BY <1>6 DEF PlayMore
  <2>2. Exclusive' /\ Off' /\ OneKick'
    BY <2>1 DEF Types, UserTypes, Control, Exclusive, Off, OneKick, chanVars
  <2>3. Stopping' /\ Calls' /\ PumpFills'
    BY <2>1 DEF Types, UserTypes, Control, Stopping, Calls, PumpFills, bufVars, drvVars, Free
  <2> QED BY <2>2, <2>3 DEF Control
<1>7. ASSUME NEW u \in Users, PlayStart(u)
      PROVE  Control'
  <2>1. /\ pc[u] = "data" /\ Free
        /\ pc' = [pc EXCEPT ![u] = "idle"] /\ chan' = [chan EXCEPT ![u] = NoChannel]
        /\ kick' = [kick EXCEPT ![u] = FALSE]
        /\ active' = active \cup {chan[u]}
        /\ UNCHANGED drvVars
    BY <1>7 DEF PlayStart, Finish, Activate
  <2>2. Exclusive' /\ Off' /\ OneKick'
    BY <2>1 DEF Types, UserTypes, Control, Exclusive, Off, OneKick
  <2>3. \A v \in Users : pc[v] # "sampr"
    BY <2>1 DEF Control, Stopping, OneKick
  <2>4. Stopping'
    BY <2>1, <2>3 DEF Types, UserTypes, Stopping
  <2>5. Calls' /\ PumpFills'
    BY <1>7, Constants DEF PlayStart, StartPcm, Control, Calls, PumpFills, Free
  <2> QED BY <2>2, <2>4, <2>5 DEF Control
<1>8. ASSUME NEW u \in Users, PlayNone(u)
      PROVE  Control'
  <2>1. /\ pc[u] = "data"
        /\ pc' = [pc EXCEPT ![u] = "idle"] /\ chan' = [chan EXCEPT ![u] = NoChannel]
        /\ kick' = [kick EXCEPT ![u] = FALSE]
        /\ active' \subseteq active
        /\ UNCHANGED <<bufVars, drvVars, cb>>
    BY <1>8 DEF PlayNone, Finish, Stopped
  <2>2. Exclusive' /\ Off' /\ OneKick'
    BY <2>1 DEF Types, UserTypes, Control, Exclusive, Off, OneKick
  <2>3. Stopping' /\ Calls' /\ PumpFills'
    BY <2>1 DEF Types, UserTypes, Control, OneKick, Stopping, Calls, PumpFills, bufVars, drvVars,
                Free
  <2> QED BY <2>2, <2>3 DEF Control
<1>9. ASSUME NEW u \in Users, SamprDone(u)
      PROVE  Control'
  <2>1. /\ pc[u] = "sampr" /\ pc' = [pc EXCEPT ![u] = "more"]
        /\ active' = active \ {chan[u]}
        /\ UNCHANGED <<nextSize, idle, index, buf, drvVars, cb, chan, kick>>
    BY <1>9 DEF SamprDone
  <2>2. Exclusive' /\ Off' /\ OneKick'
    BY <2>1 DEF Types, UserTypes, Control, Exclusive, Off, OneKick
  <2>3. Stopping' /\ Calls' /\ PumpFills'
    BY <2>1 DEF Types, UserTypes, Control, Stopping, Calls, PumpFills, drvVars, Free
  <2> QED BY <2>2, <2>3 DEF Control
<1>10. CASE FillMix
  BY <1>10, MixControl DEF FillMix
<1>11. CASE FillIdle
  <2>1. active' \subseteq active /\ UNCHANGED userVars /\ UNCHANGED pc /\ ~Free
    BY <1>11 DEF FillIdle, userVars
  <2> QED BY <1>11, <2>1, ReturnControl, ControlKeeps DEF FillIdle
<1>12. CASE PumpTake
  <2>1. UNCHANGED userVars /\ active' \subseteq active /\ playing
    BY <1>12 DEF PumpTake, chanVars
  <2>2. \A u \in Users : pc[u] # "sampr"
    BY <2>1 DEF Control, Stopping
  <2>3. Stopping'
    BY <2>1, <2>2 DEF Stopping, userVars
  <2>4. Calls' /\ PumpFills'
    BY <1>12, FlipType DEF PumpTake, Calls, PumpFills, Types, BufTypes
  <2> QED BY <2>1, <2>3, <2>4, ControlKeeps
<1>13. CASE PumpCopy \/ PumpStop
  <2>1. UNCHANGED userVars /\ active' \subseteq active /\ cb' = cb /\ playing /\ cb.by = NoOne
    BY <1>13 DEF PumpCopy, PumpStop, chanVars, Free
  <2>2. Stopping'
    BY <2>1 DEF Stopping, Control, userVars
  <2>3. Calls' /\ PumpFills'
    BY <2>1, Constants DEF Calls, PumpFills
  <2> QED BY <2>1, <2>2, <2>3, ControlKeeps
<1>14. CASE UNCHANGED vars
  BY <1>14 DEF vars, chanVars, bufVars, drvVars, userVars, Control, Exclusive, Off, OneKick,
               Stopping, Calls, PumpFills, Free
<1> QED
  BY <1>1, <1>2, <1>3, <1>4, <1>5, <1>6, <1>7, <1>8, <1>9, <1>10, <1>11, <1>12, <1>13, <1>14
     DEF Next

-----------------------------------------------------------------------------
\* How long the silence has lasted, and how full the buffer is that is filled.

Quieted ==
  /\ active # {} => idle = 0
  /\ cb.calls = 2 => idle = 0
  /\ (cb.by \in Users /\ cb.calls = 1) => idle <= 1
  /\ idle <= MaxIdle + 1
  /\ idle = MaxIdle + 1 => Free /\ nextSize = 0
Filling == ~Free => nextSize < frame /\ (nextSize # 0 => idle = 0)
Level == Quieted /\ Filling /\ FrameFull

LEMMA LevelInit == Init => Level
BY Constants DEF Init, Level, Quieted, Filling, FrameFull, Quiet, Free

\* The three ways the buffer callback ends.
Goes(b, ns) ==
  /\ cb.by \in Users /\ cb.calls = 2 /\ cb'.by = cb.by /\ cb'.calls = 1
  /\ index' = 1 - index /\ nextSize' = 0 /\ UNCHANGED drvVars
Prepared(b, ns) ==
  /\ cb.by = Pump /\ cb.calls = 1 /\ cb' = Quiet
  /\ index' = index /\ nextSize' = ns /\ UNCHANGED drvVars
Started(b, ns) ==
  /\ cb.by \in Users /\ cb.calls = 1 /\ cb' = Quiet
  /\ index' = index /\ nextSize' = ns /\ playing' = TRUE
  /\ heard' = [c \in Channels |-> heard[c] \cup b[1 - index][c]]

LEMMA ReturnWays ==
  ASSUME Types, Control, NEW b, NEW ns, Return(b, ns), ~Free
  PROVE  Goes(b, ns) \/ Prepared(b, ns) \/ Started(b, ns)
<1>1. cb.calls \in {1, 2} /\ (cb.by = Pump => cb.calls = 1)
  BY DEF Control, Calls, PumpFills, Free
<1>2. cb.by = Pump \/ cb.by \in Users
  BY DEF Types, DrvTypes, Free
<1>3. CASE cb.calls = 2
  <2>1. cb'.by = cb.by /\ cb'.calls = 1
    BY <1>3 DEF Return, Types, DrvTypes
  <2> QED BY <1>1, <1>2, <1>3, <2>1 DEF Return, Flip, Goes
<1>4. CASE cb.calls = 1 /\ cb.by = Pump
  BY <1>4 DEF Return, Prepared
<1>5. CASE cb.calls = 1 /\ cb.by # Pump
  BY <1>5, <1>2 DEF Return, Started
<1> QED BY <1>1, <1>3, <1>4, <1>5

\* The mutex after each of them.
LEMMA WaysFree ==
  ASSUME Types, NEW b, NEW ns
  PROVE  /\ Goes(b, ns) => ~Free /\ ~Free' /\ cb'.by \in Users
         /\ (Prepared(b, ns) \/ Started(b, ns)) => Free' /\ cb'.by \notin Users /\ cb'.calls = 0
BY Constants DEF Goes, Prepared, Started, Free, Quiet

\* ... and what they do to the fill level.
LEMMA ReturnLevel ==
  ASSUME Types, Control, Level, NEW b, NEW ns \in {0, frame}, Return(b, ns), ~Free, frame' = frame,
         active' # {} => idle' = 0,
         \/ idle' = 0
         \/ idle' = idle + 1 /\ idle < MaxIdle
         \/ idle' = idle + 1 /\ idle <= MaxIdle /\ ns = 0 /\ 1 < idle
  PROVE  Level'
<1>1. idle \in Nat /\ frame \in Nat /\ frame > 0 /\ idle' \in Nat /\ idle' <= MaxIdle + 1
  BY Constants DEF Types, BufTypes
<1>2. CASE Goes(b, ns)
  <2>1. idle = 0 /\ idle' <= 1
    BY <1>2, <1>1 DEF Goes, Level, Quieted
  <2>2. Quieted'
    BY <1>1, <1>2, <2>1, WaysFree, Constants DEF Goes, Quieted
  <2>3. Filling' /\ FrameFull'
    BY <1>1, <1>2, WaysFree DEF Goes, Filling, FrameFull
  <2> QED BY <2>2, <2>3 DEF Level
<1>3. CASE Prepared(b, ns) \/ Started(b, ns)
  <2>1. nextSize' = ns /\ Free' /\ cb'.by \notin Users /\ cb'.calls = 0
    BY <1>3, WaysFree DEF Prepared, Started
  <2>2. Quieted'
    BY <1>1, <2>1, Constants DEF Quieted
  <2>3. Filling' /\ FrameFull'
    BY <2>1 DEF Filling, FrameFull
  <2> QED BY <2>2, <2>3 DEF Level
<1> QED BY <1>2, <1>3, ReturnWays

LEMMA MixLevel ==
  ASSUME Types, Control, Level, NEW more \in [Channels -> Sizes], NEW n \in 1 .. frame,
         Mix(more, n), ~Free, UNCHANGED <<frame, idle>>
  PROVE  Level'
<1>1. idle = 0 /\ idle' = 0 /\ frame \in Nat /\ n <= frame - nextSize /\ n > 0 /\ nextSize \in Nat
  BY RoundSets, Constants DEF Mix, Downmix, Level, Quieted, Types, BufTypes
<1>2. CASE nextSize + n = frame
  BY <1>1, <1>2, ReturnLevel DEF Mix
<1>3. CASE nextSize + n # frame
  <2>1. nextSize' = nextSize + n /\ cb' = cb
    BY <1>3 DEF Mix
  <2>2. nextSize + n < frame
    BY <1>1, <1>3
  <2> QED BY <1>1, <2>1, <2>2, Constants DEF Level, Quieted, Filling, FrameFull, Free
<1> QED BY <1>2, <1>3

LEMMA IdleLevel ==
  ASSUME Types, Control, Level, FillIdle
  PROVE  Level'
<1>1. idle \in Nat /\ nextSize \in Nat /\ ~Free /\ frame' = frame /\ active' = {} /\ idle' = idle + 1
  BY DEF FillIdle, Types, BufTypes
<1>2. CASE idle < MaxIdle
  <2>1. Return(buf', frame)
    BY <1>2 DEF FillIdle, Silence
  <2> QED BY <1>1, <1>2, <2>1, ReturnLevel
<1>3. CASE ~(idle < MaxIdle)
  <2>1. Return(buf', nextSize)
    BY <1>3 DEF FillIdle, Silence
  <2>2. 1 < idle /\ nextSize = 0 /\ idle <= MaxIdle
    BY <1>1, <1>3, Constants DEF Level, Quieted, Filling
  <2> QED BY <1>1, <2>1, <2>2, ReturnLevel
<1> QED BY <1>2, <1>3

\* A channel is made active with the mutex free.
LEMMA StartLevel ==
  ASSUME Types, Control, Level, NEW c \in Channels, NEW u \in Users, Free, Activate(c), StartPcm(u),
         frame' = frame, playing' = playing
  PROVE  Level'
<1>1. idle' = 0
  BY DEF Activate, Level, Quieted
<1>2. frame \in Nat /\ frame > 0
  BY Constants DEF Types, BufTypes
<1>3. CASE playing
  <2>1. cb' = cb /\ nextSize' = nextSize
    BY <1>3 DEF StartPcm
  <2> QED BY <1>1, <2>1, Constants DEF Level, Quieted, Filling, FrameFull, Free
<1>4. CASE ~playing
  <2>1. cb' = [by |-> u, calls |-> 2] /\ nextSize' = 0
    BY <1>4 DEF StartPcm
  <2>2. ~Free' /\ cb'.calls = 2
    BY <2>1, Constants DEF Free
  <2> QED BY <1>1, <1>2, <2>1, <2>2, Constants DEF Level, Quieted, Filling, FrameFull
<1> QED BY <1>3, <1>4

LEMMA LevelStep == Types /\ Control /\ Level /\ [Next]_vars => Level'
<1> SUFFICES ASSUME Types, Control, Level, [Next]_vars
             PROVE  Level'
  OBVIOUS
<1>1. ASSUME active' \subseteq active, UNCHANGED <<bufVars, playing, cb>>
      PROVE  Level'
  BY <1>1 DEF Level, Quieted, Filling, FrameFull, Free, bufVars
<1>2. ASSUME NEW u \in Users, NEW c \in Channels, PlayDeactivate(u, c) \/ Stop(u, c) \/ Pause(u, c)
      PROVE  Level'
  BY <1>1, <1>2 DEF PlayDeactivate, Stop, Stopped, Pause, drvVars
<1>3. ASSUME NEW u \in Users, NEW c \in Channels, Resume(u, c)
      PROVE  Level'
  BY <1>3, StartLevel DEF Resume, MayCall, drvVars
<1>4. ASSUME NEW u \in Users, NEW c \in Channels, FreqStop(u, c)
      PROVE  Level'
  <2>1. idle' = 0 /\ nextSize' = nextSize /\ frame' = frame /\ cb' = cb /\ playing' = FALSE /\ Free
    BY <1>4 DEF FreqStop
  <2> QED BY <2>1, Constants DEF Level, Quieted, Filling, FrameFull, Free
<1>5. ASSUME NEW u \in Users, NEW c \in Channels, SamprChannel(u, c)
      PROVE  Level'
  BY <1>1, <1>5 DEF SamprChannel, Stopped, drvVars
<1>6. ASSUME NEW u \in Users, PlayMore(u) \/ PlayNone(u)
      PROVE  Level'
  BY <1>1, <1>6 DEF PlayMore, PlayNone, Stopped, chanVars, drvVars
<1>7. ASSUME NEW u \in Users, PlayStart(u)
      PROVE  Level'
  <2>1. chan[u] \in Channels
    BY <1>7 DEF PlayStart, Types, UserTypes
  <2> QED BY <1>7, <2>1, StartLevel DEF PlayStart, drvVars
<1>8. ASSUME NEW u \in Users, SamprDone(u)
      PROVE  Level'
  <2>1. /\ active' \subseteq active /\ UNCHANGED <<nextSize, idle, index, buf, playing, cb>>
        /\ Free /\ ~playing
    BY <1>8 DEF SamprDone, drvVars, Control, Stopping
  <2> QED BY <2>1 DEF Level, Quieted, Filling, FrameFull, Free
<1>9. CASE FillMix
  BY <1>9, MixLevel DEF FillMix
<1>10. CASE FillIdle
  BY <1>10, IdleLevel
<1>11. CASE PumpTake
  <2>1. /\ cb' = [by |-> Pump, calls |-> 1] /\ nextSize' = 0 /\ UNCHANGED <<frame, idle, active>>
        /\ nextSize # 0 /\ Free
    BY <1>11 DEF PumpTake, chanVars
  <2>2. ~Free' /\ frame > 0 /\ frame \in Nat /\ idle # MaxIdle + 1
    BY <2>1, Constants DEF Free, Types, BufTypes, Level, Quieted
  <2> QED BY <2>1, <2>2, Constants DEF Level, Quieted, Filling, FrameFull
<1>12. CASE PumpCopy
  BY <1>1, <1>12 DEF PumpCopy, chanVars
<1>13. CASE PumpStop
  <2>1. active' = active /\ UNCHANGED <<bufVars, cb>> /\ playing' = FALSE
    BY <1>13 DEF PumpStop, chanVars
  <2> QED BY <2>1 DEF Level, Quieted, Filling, FrameFull, Free, bufVars
<1>14. CASE UNCHANGED vars
  BY <1>1, <1>14 DEF vars, chanVars, drvVars
<1> QED
  BY <1>2, <1>3, <1>4, <1>5, <1>6, <1>7, <1>8, <1>9, <1>10, <1>11, <1>12, <1>13, <1>14 DEF Next

-----------------------------------------------------------------------------
\* Each channel's chunk, and where it was mixed up to.

Busy(c) == \E u \in Users : pc[u] # "idle" /\ chan[u] = c
Whole(c) ==
  /\ start[c] >= 0 /\ start[c] + last[c] = next[c] /\ last[c] <= size[c]
  /\ start[c] + size[c] <= given[c]
  /\ ~Busy(c) => start[c] + size[c] = given[c]
Bare(c) == start[c] = 0 /\ size[c] = 0 /\ next[c] = 0
Chunked(c) == IF status[c] = "stopped" THEN Bare(c) ELSE Whole(c)
Fetched == \A u \in Users : pc[u] = "data" => got[u].start + got[u].size = given[chan[u]]
Streams ==
  /\ \A c \in active : status[c] # "stopped"
  /\ \A c \in Channels : Chunked(c)
  /\ Fetched

LEMMA StreamsInit == Init => Streams
BY DEF Init, Streams, Chunked, Bare, Fetched

\* A channel whose chunk is not touched, while no user leaves it.
LEMMA ChunkedKeeps ==
  ASSUME Streams, NEW c \in Channels, Busy(c) => Busy(c)', given'[c] = given[c],
         start'[c] = start[c], size'[c] = size[c], last'[c] = last[c], next'[c] = next[c],
         status'[c] = "stopped" <=> status[c] = "stopped"
  PROVE  Chunked(c)'
BY DEF Streams, Chunked, Bare, Whole

LEMMA MixStreams ==
  ASSUME Types, Control, Streams, NEW more \in [Channels -> Sizes], NEW n \in 1 .. frame,
         Mix(more, n), UNCHANGED userVars
  PROVE  Streams'
<1>0. n \in Nat /\ frame \in Nat
  BY Constants DEF Types, BufTypes
<1>1. ASSUME NEW c \in On(more)
      PROVE  Chunked(c)' /\ status'[c] # "stopped"
  <2>1. c \in active /\ c \in Channels /\ c \notin Dead(more) /\ status[c] # "stopped"
    BY RoundSets DEF Streams
  <2>2. Whole(c)
    BY <2>1 DEF Streams, Chunked
  <2>3. n <= Left(c, more) /\ start'[c] = From(c) /\ size'[c] = Left(c, more) /\ last'[c] = n
        /\ next'[c] = From(c) + n /\ status'[c] = status[c] /\ given'[c] = given[c] + more[c]
    BY <2>1 DEF Mix, Downmix
  <2>4. more[c] \in Nat /\ given[c] \in Nat
    <3>1. more[c] \in Nat
      BY <2>1, Constants
    <3>2. given[c] \in Nat
      BY <2>1 DEF Types, ChanTypes
    <3> QED BY <3>1, <3>2
  <2>5. Whole(c)'
    <3>1. CASE c \in RanOut
      BY <3>1, <2>3, <2>4, <1>0 DEF From, Left, Whole
    <3>2. CASE c \notin RanOut
      <4>1. more[c] = 0
        BY <3>2, <2>1 DEF Mix
      <4>2. ~Busy(c) => start[c] + size[c] = given[c]
        BY <2>2 DEF Whole
      <4>3. Busy(c)' <=> Busy(c)
        BY DEF Busy, userVars
      <4>4. start[c] \in Int /\ size[c] \in Int /\ last[c] \in Nat
        BY <2>1 DEF Types, ChanTypes
      <4> QED BY <3>2, <4>1, <4>2, <4>3, <4>4, <2>2, <2>3, <2>4, <1>0 DEF From, Left, Whole
    <3> QED BY <3>1, <3>2
  <2> QED BY <2>1, <2>3, <2>5 DEF Chunked
<1>2. ASSUME NEW c \in Channels, c \notin On(more)
      PROVE  Chunked(c)'
  <2>1. CASE c \in Dead(more)
    BY <1>2, <2>1 DEF Mix, Chunked, Bare
  <2>2. CASE c \notin Dead(more)
    <3>1. c \notin RanOut
      BY <1>2, <2>2, RoundSets
    <3>2. given'[c] = given[c]
      BY <3>1 DEF Mix, Types, ChanTypes
    <3>3. Busy(c)' <=> Busy(c)
      BY DEF Busy, userVars
    <3> QED BY <1>2, <2>2, <3>2, <3>3, ChunkedKeeps DEF Mix
  <2> QED BY <2>1, <2>2
<1>3. Fetched'
  <2> SUFFICES ASSUME NEW u \in Users, pc[u] = "data"
               PROVE  got[u].start + got[u].size = given'[chan[u]]
    BY DEF Fetched, userVars
  <2>1. chan[u] \in Channels /\ chan[u] \notin active
    BY DEF Control, Off, Types, UserTypes
  <2>2. given'[chan[u]] = given[chan[u]]
    BY <2>1, RoundSets DEF Mix, Types, ChanTypes
  <2> QED BY <2>2 DEF Streams, Fetched
<1>4. active' = On(more)
  BY DEF Mix
<1> QED BY <1>1, <1>2, <1>3, <1>4, RoundSets DEF Streams

LEMMA StreamsStep == Alone /\ Types /\ Control /\ Streams /\ [Next]_vars => Streams'
<1> SUFFICES ASSUME Alone, Types, Control, Streams, [Next]_vars
             PROVE  Streams'
  OBVIOUS
<1>0. ASSUME active' \subseteq active, UNCHANGED <<status, start, size, last, next, given>>,
             \A c \in Channels : Busy(c) => Busy(c)', Fetched'
      PROVE  Streams'
  <2>1. \A c \in Channels : Chunked(c)'
    BY <1>0, ChunkedKeeps
  <2> QED BY <1>0, <2>1 DEF Streams
<1>1. ASSUME NEW u \in Users, NEW c \in Channels, PlayDeactivate(u, c) \/ FreqStop(u, c)
      PROVE  Streams'
  <2>1. /\ pc[u] = "idle" /\ \E v \in {"more", "sampr"} : pc' = [pc EXCEPT ![u] = v]
        /\ chan' = [chan EXCEPT ![u] = c] /\ got' = got /\ active' \subseteq active
        /\ UNCHANGED <<status, start, size, last, next, given>>
    BY <1>1 DEF PlayDeactivate, FreqStop, MayCall, chanVars
  <2>2. \A d \in Channels : Busy(d) => Busy(d)'
    BY <2>1 DEF Busy, Types, UserTypes
  <2>3. Fetched'
    BY <2>1 DEF Streams, Fetched, Types, UserTypes
  <2> QED BY <2>1, <2>2, <2>3, <1>0
<1>2. ASSUME NEW u \in Users, NEW c \in Channels, Stop(u, c)
      PROVE  Streams'
  <2>1. Stopped(c) /\ UNCHANGED <<given, userVars>>
    BY <1>2 DEF Stop
  <2>2. Chunked(c)' /\ active' = active \ {c}
    BY <2>1 DEF Stopped, Chunked, Bare, Types, ChanTypes
  <2>3. ASSUME NEW d \in Channels, d # c
        PROVE  Chunked(d)' /\ status'[d] = status[d]
    BY <2>1, <2>3, ChunkedKeeps DEF Stopped, Types, ChanTypes, Busy, userVars
  <2>4. Fetched'
    BY <2>1 DEF Streams, Fetched, userVars
  <2> QED BY <2>2, <2>3, <2>4 DEF Streams, Types, ChanTypes
<1>3. ASSUME NEW u \in Users, NEW c \in Channels, Pause(u, c) \/ Resume(u, c)
      PROVE  Streams'
  <2>1. /\ status[c] # "stopped" /\ active' \subseteq active \cup {c}
        /\ \E v \in {"playing", "paused"} : status' = [status EXCEPT ![c] = v]
        /\ UNCHANGED <<start, size, last, next, given, userVars>>
    BY <1>3 DEF Pause, Resume, Activate
  <2>2. \A d \in Channels : status'[d] = "stopped" <=> status[d] = "stopped"
    BY <2>1 DEF Types, ChanTypes
  <2>3. \A d \in Channels : Chunked(d)'
    BY <2>1, <2>2, ChunkedKeeps DEF Busy, userVars
  <2>4. Fetched'
    BY <2>1 DEF Streams, Fetched, userVars
  <2> QED BY <2>1, <2>2, <2>3, <2>4 DEF Streams, Types, ChanTypes
<1>4. ASSUME NEW u \in Users, NEW c \in Channels, SamprChannel(u, c)
      PROVE  Streams'
  <2>1. PICK k \in Sizes :
          /\ Gives(c, k) /\ given' = [given EXCEPT ![c] = @ + k]
          /\ IF k = 0 THEN Stopped(c)
             ELSE NewChunk(c, given[c], k) /\ UNCHANGED <<status, active>>
    BY <1>4 DEF SamprChannel
  <2>2. c \in active /\ UNCHANGED <<pc, chan, got>> /\ \A v \in Users : pc[v] # "data"
    BY <1>4 DEF SamprChannel, Control, Stopping, OneKick
  <2>3. Fetched'
    BY <2>2 DEF Fetched
  <2>4. \A d \in Channels : Busy(d) => Busy(d)'
    BY <2>2 DEF Busy
  <2>5. Chunked(c)'
    <3>1. CASE k = 0
      BY <3>1, <2>1 DEF Stopped, Chunked, Bare, Types, ChanTypes
    <3>2. CASE k # 0
      <4>1. k \in Nat /\ given[c] \in Nat
        BY <2>1, GivesType DEF Types, ChanTypes
      <4>2. status'[c] # "stopped"
        BY <3>2, <2>1, <2>2 DEF Streams
      <4>3. Whole(c)'
        BY <3>2, <4>1, <2>1 DEF NewChunk, Whole, Types, ChanTypes
      <4> QED BY <4>2, <4>3 DEF Chunked
    <3> QED BY <3>1, <3>2
  <2>6. ASSUME NEW d \in Channels, d # c
        PROVE  Chunked(d)' /\ status'[d] = status[d]
    BY <2>1, <2>4, <2>6, ChunkedKeeps DEF Stopped, NewChunk, Types, ChanTypes
  <2>7. \A d \in active' : status'[d] # "stopped"
    BY <2>1, <2>6 DEF Stopped, Streams, Types, ChanTypes
  <2> QED BY <2>3, <2>5, <2>6, <2>7 DEF Streams
<1>5. ASSUME NEW u \in Users, PlayMore(u)
      PROVE  Streams'
  <2> DEFINE c == chan[u]
  <2>1. /\ c \in Channels /\ pc[u] = "more" /\ pc' = [pc EXCEPT ![u] = "data"] /\ chan' = chan
        /\ UNCHANGED chanVars /\ given[c] \in Nat
    BY <1>5 DEF PlayMore, Types, UserTypes, ChanTypes
  <2>2. PICK k \in Sizes :
          /\ Gives(c, k)
          /\ got' = [got EXCEPT ![u] = [start |-> given[c], size |-> k]]
          /\ given' = [given EXCEPT ![c] = @ + k]
    BY <1>5 DEF PlayMore
  <2>3. k \in Nat
    BY <2>1, <2>2, GivesType
  <2>4. \A d \in Channels : Busy(d) => Busy(d)'
    BY <2>1 DEF Busy, Types, UserTypes
  <2>5. Chunked(c)'
    <3>1. Busy(c)'
      BY <2>1 DEF Busy, Types, UserTypes
    <3> QED BY <3>1, <2>1, <2>2, <2>3 DEF Streams, Chunked, Bare, Whole, chanVars, Types, ChanTypes
  <2>6. ASSUME NEW d \in Channels, d # c
        PROVE  Chunked(d)'
    BY <2>1, <2>2, <2>4, <2>6, ChunkedKeeps DEF chanVars, Types, ChanTypes
  <2>7. Fetched'
    <3> SUFFICES ASSUME NEW v \in Users, pc'[v] = "data"
                 PROVE  got'[v].start + got'[v].size = given'[chan[v]]
      BY <2>1 DEF Fetched
    <3>1. CASE v = u
      BY <3>1, <2>1, <2>2 DEF Types, UserTypes, ChanTypes
    <3>2. CASE v # u
      <4>1. chan[v] # c /\ pc[v] = "data" /\ got'[v] = got[v]
        BY <3>2, <2>1, <2>2 DEF Control, Exclusive, Types, UserTypes
      <4> QED BY <4>1, <2>2 DEF Streams, Fetched, Types, ChanTypes
    <3> QED BY <3>1, <3>2
  <2> QED BY <2>1, <2>5, <2>6, <2>7 DEF Streams, chanVars
<1>6. ASSUME NEW u \in Users, PlayStart(u) \/ PlayNone(u)
      PROVE  Streams'
  <2>0. chan[u] \in Channels
    BY <1>6 DEF PlayStart, PlayNone, Types, UserTypes
  <2> PICK c \in Channels : c = chan[u]
    BY <2>0
  <2>1. /\ c = chan[u] /\ c # NoChannel /\ pc[u] = "data" /\ Finish(u) /\ given' = given
        /\ got[u].start \in Nat /\ got[u].size \in Nat
        /\ got[u].start + got[u].size = given[c]
    BY <1>6, Constants
       DEF PlayStart, PlayNone, Types, UserTypes, Chunk, Streams, Fetched
  <2>2. \A d \in Channels \ {c} : Busy(d) => Busy(d)'
    BY <2>1 DEF Finish, Busy, Types, UserTypes
  <2>3. Fetched'
    BY <2>1 DEF Finish, Streams, Fetched, Types, UserTypes
  <2>4. CASE PlayStart(u)
    <3>1. /\ NewChunk(c, got[u].start, got[u].size) /\ status' = [status EXCEPT ![c] = "playing"]
          /\ active' = active \cup {c}
      BY <2>4 DEF PlayStart, Activate
    <3>2. Chunked(c)'
      BY <3>1, <2>1 DEF NewChunk, Chunked, Whole, Types, ChanTypes
    <3>3. ASSUME NEW d \in Channels, d # c
          PROVE  Chunked(d)' /\ status'[d] = status[d]
      BY <3>1, <3>3, <2>1, <2>2, ChunkedKeeps DEF NewChunk, Types, ChanTypes
    <3> QED BY <3>1, <3>2, <3>3, <2>3 DEF Streams, Types, ChanTypes
  <2>5. CASE PlayNone(u)
    <3>1. Stopped(c)
      BY <2>5 DEF PlayNone
    <3>2. Chunked(c)'
      BY <3>1, <2>1 DEF Stopped, Chunked, Bare, Types, ChanTypes
    <3>3. ASSUME NEW d \in Channels, d # c
          PROVE  Chunked(d)' /\ status'[d] = status[d]
      BY <3>1, <3>3, <2>1, <2>2, ChunkedKeeps DEF Stopped, Types, ChanTypes
    <3> QED BY <3>1, <3>2, <3>3, <2>3 DEF Stopped, Streams, Types, ChanTypes
  <2> QED BY <1>6, <2>4, <2>5
<1>7. ASSUME NEW u \in Users, SamprDone(u)
      PROVE  Streams'
  <2>1. /\ pc[u] = "sampr" /\ pc' = [pc EXCEPT ![u] = "more"] /\ active' \subseteq active
        /\ UNCHANGED <<status, start, size, last, next, given, chan, got>>
    BY <1>7 DEF SamprDone
  <2>2. \A d \in Channels : Busy(d) => Busy(d)'
    BY <2>1 DEF Busy, Types, UserTypes
  <2>3. Fetched'
    BY <2>1 DEF Streams, Fetched, Types, UserTypes
  <2> QED BY <2>1, <2>2, <2>3, <1>0
<1>8. CASE FillMix
  BY <1>8, MixStreams DEF FillMix
<1>9. CASE FillIdle
  <2>1. /\ active' = {} /\ UNCHANGED <<last, given, userVars>>
        /\ \A c \in Channels : Busy(c)' <=> Busy(c)
    BY <1>9 DEF FillIdle, userVars, Busy
  <2>2. ASSUME NEW c \in Channels
        PROVE  Chunked(c)'
    <3>1. CASE c \in active
      BY <3>1, <1>9 DEF FillIdle, Chunked, Bare
    <3>2. CASE c \notin active
      BY <3>2, <2>1, <1>9, ChunkedKeeps DEF FillIdle
    <3> QED BY <3>1, <3>2
  <2>3. Fetched'
    BY <2>1 DEF Streams, Fetched, userVars
  <2> QED BY <2>1, <2>2, <2>3 DEF Streams
<1>10. CASE PumpTake \/ PumpCopy \/ PumpStop \/ UNCHANGED vars
  <2>1. UNCHANGED <<chanVars, given, userVars>>
    BY <1>10 DEF PumpTake, PumpCopy, PumpStop, vars
  <2>2. Fetched' /\ \A c \in Channels : Busy(c) => Busy(c)'
    BY <2>1 DEF Streams, Fetched, Busy, userVars
  <2> QED BY <2>1, <2>2, <1>0 DEF chanVars
<1> QED
  BY <1>1, <1>2, <1>3, <1>4, <1>5, <1>6, <1>7, <1>8, <1>9, <1>10 DEF Next

-----------------------------------------------------------------------------
\* What is in the buffers or was heard lies before what comes next.

Below(b, h, c, n) ==
  /\ \A i \in {0, 1} : \A x \in b[i][c] : x < n
  /\ \A x \in h[c] : x < n
Past ==
  /\ \A c \in Channels : Below(buf, heard, c, given[c])
  /\ \A c \in Channels : status[c] # "stopped" => Below(buf, heard, c, next[c])
  /\ \A u \in Users : pc[u] = "data" => Below(buf, heard, chan[u], got[u].start)

\* A buffer that is filled in part is already in order, and one that a silence
\* leaves behind is empty.
AfterOther == \A c \in Channels : \A x \in buf[index][c], y \in buf[1 - index][c] : y < x
Parts ==
  /\ (~Free /\ nextSize # 0) => LaterThanHeard(index)
  /\ (cb.by \in Users /\ cb.calls = 1 /\ nextSize # 0) => AfterOther
Wiped ==
  /\ idle >= 2 => buf[IF Free THEN index ELSE 1 - index] = Empty
  /\ idle >= 3 => \A i \in {0, 1} : buf[i] = Empty
InOrder == Parts /\ Wiped /\ HeardOnce

LEMMA OrderInit == Init => Past /\ InOrder
<1> SUFFICES ASSUME Init PROVE Past /\ InOrder
  OBVIOUS
<1>1. /\ \A i \in {0, 1} : \A c \in Channels : buf[i][c] = {}
      /\ \A c \in Channels : heard[c] = {}
      /\ \A c \in Channels : status[c] = "stopped"
      /\ \A u \in Users : pc[u] = "idle"
  BY DEF Init, Empty
<1>2. Past
  BY <1>1 DEF Past, Below
<1>3. idle = 0 /\ nextSize = 0 /\ cb.by \notin Users
  BY Constants DEF Init, Quiet
<1>4. InOrder
  BY <1>3 DEF InOrder, Parts, Wiped, HeardOnce
<1> QED BY <1>2, <1>4

\* What lies before n lies before what is not less.
LEMMA BelowMore ==
  ASSUME Types, NEW c \in Channels, NEW n \in Int, NEW m \in Int, n <= m, Below(buf, heard, c, n)
  PROVE  Below(buf, heard, c, m)
<1>1. \A i \in {0, 1} : \A x \in buf[i][c] : x \in Int
  BY DEF Types, BufTypes
<1>2. \A x \in heard[c] : x \in Int
  BY DEF Types, DrvTypes
<1> QED BY <1>1, <1>2 DEF Below

\* The driver hears nothing that was not in a buffer.
Hears ==
  \A c \in Channels : \A x \in heard'[c] : x \in heard[c] \/ \E i \in {0, 1} : x \in buf'[i][c]
Shrinks == \A i \in {0, 1} : \A c \in Channels : buf'[i][c] \subseteq buf[i][c]

LEMMA BelowHears ==
  ASSUME Hears, NEW c \in Channels, NEW n, Below(buf, heard, c, n),
         \A i \in {0, 1} : \A x \in buf'[i][c] : x < n
  PROVE  Below(buf', heard', c, n)
BY DEF Hears, Below

\* A step that mixes nothing.
LEMMA PastKeeps ==
  ASSUME Hears, Shrinks, Types',
         \A c \in Channels : Below(buf, heard, c, given'[c]),
         \A c \in Channels : status'[c] # "stopped" => Below(buf, heard, c, next'[c]),
         \A u \in Users : pc'[u] = "data" => Below(buf, heard, chan'[u], got'[u].start)
  PROVE  Past'
<1>1. ASSUME NEW c \in Channels, NEW n, Below(buf, heard, c, n)
      PROVE  Below(buf', heard', c, n)
  BY <1>1, BelowHears DEF Shrinks, Below
<1>2. \A u \in Users : pc'[u] = "data" => chan'[u] \in Channels
  BY DEF Types, UserTypes
<1> QED BY <1>1, <1>2 DEF Past

LEMMA SameHears ==
  ASSUME UNCHANGED <<buf, heard>>
  PROVE  Hears /\ Shrinks
BY DEF Hears, Shrinks

\* ... and changes nothing but which channels there are.
LEMMA PastStays ==
  ASSUME Past, Types', UNCHANGED <<buf, heard, given>>,
         \A c \in Channels : status'[c] # "stopped" => status[c] # "stopped" /\ next'[c] = next[c],
         \A u \in Users : pc'[u] = "data" => pc[u] = "data" /\ chan'[u] = chan[u] /\ got'[u] = got[u]
  PROVE  Past'
<1>1. \A c \in Channels : Below(buf, heard, c, given'[c])
  BY DEF Past
<1>2. \A c \in Channels : status'[c] # "stopped" => Below(buf, heard, c, next'[c])
  BY DEF Past
<1>3. \A u \in Users : pc'[u] = "data" => Below(buf, heard, chan'[u], got'[u].start)
  BY DEF Past
<1> QED BY <1>1, <1>2, <1>3, SameHears, PastKeeps

\* The buffers and the callback are left alone.
LEMMA InOrderKeeps ==
  ASSUME InOrder, UNCHANGED <<nextSize, index, buf, heard, cb>>, idle' = idle \/ idle' = 0,
         playing' => playing
  PROVE  InOrder'
<1>1. Parts'
  BY DEF InOrder, Parts, AfterOther, LaterThanHeard, Free
<1>2. Wiped'
  <2>1. CASE idle' = idle
    BY <2>1 DEF InOrder, Wiped, Free, Empty
  <2>2. CASE idle' = 0
    BY <2>2 DEF Wiped
  <2> QED BY <2>1, <2>2
<1>3. HeardOnce'
  <2>1. UNCHANGED <<Free, cb, nextSize, index>> /\ \A i : LaterThanHeard(i)' <=> LaterThanHeard(i)
    BY DEF Free, LaterThanHeard
  <2> QED BY <2>1, Zenon DEF InOrder, HeardOnce
<1> QED BY <1>1, <1>2, <1>3 DEF InOrder

\* The end of the callback: the buffer is later than what was heard, and later
\* than the one filled before it; and a silence has emptied it.
LEMMA ReturnOrder ==
  ASSUME Types, Types', Control, Level, NEW ns \in Nat, Return(buf', ns), ~Free,
         ns # 0 \/ cb.by = Pump, idle' <= idle + 1,
         ns # 0 => \A c \in Channels : \A x \in buf'[index][c], y \in heard[c] : y < x,
         (ns # 0 /\ cb.by \in Users /\ cb.calls = 1) =>
            \A c \in Channels : \A x \in buf'[index][c], y \in buf'[1 - index][c] : y < x,
         idle' >= 2 => buf'[index] = Empty,
         idle' >= 3 => \A i \in {0, 1} : buf'[i] = Empty
  PROVE  InOrder' /\ Hears
<1>1. index \in {0, 1} /\ 1 - index \in {0, 1} /\ 1 - (1 - index) = index /\ idle \in Nat
      /\ idle' \in Nat
  BY DEF Types, BufTypes
<1>2. CASE Goes(buf', ns)
  <2>1. /\ cb'.calls = 1 /\ cb'.by \in Users /\ nextSize' = 0 /\ index' = 1 - index /\ ~Free'
        /\ heard' = heard /\ ns # 0
    BY <1>2, WaysFree, Constants DEF Goes, drvVars
  <2>2. idle' <= 1
    BY <1>1, <1>2 DEF Goes, Level, Quieted
  <2>3. Parts' /\ Wiped'
    BY <2>1, <2>2, <1>1 DEF Parts, Wiped
  <2>4. HeardOnce'
    BY <2>1, <1>1 DEF HeardOnce, LaterThanHeard
  <2>5. Hears
    BY <2>1 DEF Hears
  <2> QED BY <2>3, <2>4, <2>5 DEF InOrder
<1>3. CASE Prepared(buf', ns)
  <2>1. /\ cb'.by \notin Users /\ nextSize' = ns /\ index' = index /\ Free' /\ heard' = heard
    BY <1>3, WaysFree DEF Prepared, drvVars
  <2>2. Parts' /\ Wiped'
    BY <2>1 DEF Parts, Wiped, Empty
  <2>3. HeardOnce'
    BY <2>1 DEF HeardOnce, LaterThanHeard
  <2>4. Hears
    BY <2>1 DEF Hears
  <2> QED BY <2>2, <2>3, <2>4 DEF InOrder
<1>4. CASE Started(buf', ns)
  <2>1. /\ cb'.by \notin Users /\ nextSize' = ns /\ index' = index /\ Free' /\ ns # 0
        /\ cb.by \in Users /\ cb.calls = 1
        /\ heard' = [c \in Channels |-> heard[c] \cup buf'[1 - index][c]]
    BY <1>4, WaysFree, Constants DEF Started
  <2>2. Parts' /\ Wiped'
    BY <2>1 DEF Parts, Wiped, Empty
  <2>3. \A c \in Channels : \A x \in buf'[index][c], y \in heard'[c] : y < x
    BY <2>1
  <2>4. HeardOnce'
    BY <2>1, <2>3 DEF HeardOnce, LaterThanHeard
  <2>5. Hears
    BY <2>1, <1>1 DEF Hears
  <2> QED BY <2>2, <2>4, <2>5 DEF InOrder
<1> QED BY <1>2, <1>3, <1>4, ReturnWays

\* A round of mixing adds what comes after everything there is.
LEMMA MixPast ==
  ASSUME Types, Types', Control, Streams, Past, NEW more \in [Channels -> Sizes],
         NEW n \in 1 .. frame, Mix(more, n), UNCHANGED userVars, Hears
  PROVE  /\ Past'
         /\ \A c \in On(more) : From(c) \in Int /\ Below(buf, heard, c, From(c))
<1>0. n \in Nat /\ index \in {0, 1} /\ 1 - index \in {0, 1}
  BY Constants DEF Types, BufTypes
<1>1. ASSUME NEW c \in On(more)
      PROVE  /\ c \in active /\ c \in Channels /\ status[c] # "stopped" /\ From(c) \in Int
             /\ Below(buf, heard, c, From(c)) /\ given'[c] \in Int /\ given[c] \in Int
             /\ From(c) + n <= given'[c] /\ given[c] <= given'[c]
  <2>1. c \in active /\ c \in Channels /\ status[c] # "stopped" /\ From(c) \in Int
    BY <1>1, RoundSets DEF Streams
  <2>2. n <= Left(c, more) /\ given'[c] = given[c] + more[c]
    BY <2>1 DEF Mix, Downmix
  <2>3. more[c] \in Nat /\ (c \notin RanOut => more[c] = 0)
    BY <2>1, Constants DEF Mix
  <2>4. given[c] \in Int /\ start[c] \in Int /\ last[c] \in Int /\ size[c] \in Int
    BY <2>1 DEF Types, ChanTypes
  <2>5. Whole(c)
    BY <2>1 DEF Streams, Chunked
  <2>6. Below(buf, heard, c, From(c))
    <3>1. CASE c \in RanOut
      BY <3>1, <2>1 DEF Past, From
    <3>2. CASE c \notin RanOut
      BY <3>2, <2>1, <2>5 DEF Past, From, Whole
    <3> QED BY <3>1, <3>2
  <2>7. From(c) + n <= given'[c] /\ given[c] <= given'[c] /\ given'[c] \in Int
    BY <2>2, <2>3, <2>4, <2>5, <1>0 DEF From, Left, Whole
  <2> QED BY <2>1, <2>4, <2>6, <2>7
<1>2. ASSUME NEW c \in Channels, NEW m \in Int, Below(buf, heard, c, m),
             c \in On(more) => From(c) + n <= m
      PROVE  Below(buf', heard', c, m)
  <2>1. \A x \in buf'[index][c] : x \in buf[index][c] \/ (c \in On(more) /\ x \in Units(From(c), n))
    <3>1. buf'[index][c] = (IF nextSize = 0 THEN {} ELSE buf[index][c])
                           \cup (IF c \in On(more) THEN Units(From(c), n) ELSE {})
      BY <1>0, MixedType DEF Mix
    <3> QED BY <3>1
  <2>2. buf'[1 - index] = buf[1 - index]
    BY <1>0, MixedType DEF Mix
  <2>3. \A x \in buf'[index][c] : x < m
    <3> TAKE x \in buf'[index][c]
    <3>1. CASE x \in buf[index][c]
      BY <3>1, <1>0, <1>2 DEF Below
    <3>2. CASE c \in On(more) /\ x \in Units(From(c), n)
      <4>1. x \in Nat /\ x < From(c) + n /\ From(c) \in Int
        BY <3>2, <1>0, <1>1, UnitsIn
      <4> QED BY <4>1, <3>2, <1>0, <1>2
    <3> QED BY <2>1, <3>1, <3>2
  <2>4. \A i \in {0, 1} : \A x \in buf'[i][c] : x < m
    BY <2>2, <2>3, <1>0, <1>2 DEF Below
  <2> QED BY <2>4, <1>2, BelowHears
<1>3. \A c \in Channels : Below(buf', heard', c, given'[c])
  <2> TAKE c \in Channels
  <2>1. CASE c \in On(more)
    <3>1. Below(buf, heard, c, given'[c])
      BY <2>1, <1>1, BelowMore DEF Past
    <3> QED BY <3>1, <2>1, <1>1, <1>2
  <2>2. CASE c \notin On(more)
    <3>1. given[c] \in Nat /\ given'[c] \in Nat
      BY DEF Types, ChanTypes
    <3>2. more[c] \in Nat /\ given'[c] = given[c] + more[c]
      BY Constants DEF Mix
    <3>3. Below(buf, heard, c, given'[c])
      BY <3>1, <3>2, BelowMore DEF Past
    <3> QED BY <3>1, <3>3, <2>2, <1>2
  <2> QED BY <2>1, <2>2
<1>4. \A c \in Channels : status'[c] # "stopped" => Below(buf', heard', c, next'[c])
  <2> SUFFICES ASSUME NEW c \in Channels, status'[c] # "stopped"
               PROVE  Below(buf', heard', c, next'[c])
    OBVIOUS
  <2>1. CASE c \in On(more)
    <3>1. next'[c] = From(c) + n /\ next'[c] \in Int
      BY <2>1, <1>1, <1>0 DEF Mix
    <3>2. Below(buf, heard, c, next'[c])
      BY <3>1, <2>1, <1>0, <1>1, BelowMore
    <3> QED BY <3>1, <3>2, <1>2
  <2>2. CASE c \notin On(more)
    <3>1. c \notin Dead(more) /\ next'[c] = next[c] /\ status[c] # "stopped"
      BY <2>2 DEF Mix
    <3>2. next[c] \in Int
      BY DEF Types, ChanTypes
    <3> QED BY <3>1, <3>2, <2>2, <1>2 DEF Past
  <2> QED BY <2>1, <2>2
<1>5. \A u \in Users : pc[u] = "data" => Below(buf', heard', chan[u], got[u].start)
  <2> SUFFICES ASSUME NEW u \in Users, pc[u] = "data"
               PROVE  Below(buf', heard', chan[u], got[u].start)
    OBVIOUS
  <2>1. chan[u] \in Channels /\ chan[u] \notin active /\ got[u].start \in Int
    BY DEF Control, Off, Types, UserTypes, Chunk
  <2> QED BY <2>1, <1>2, RoundSets DEF Past
<1>6. Past'
  BY <1>3, <1>4, <1>5 DEF Past, userVars
<1> QED BY <1>1, <1>6

LEMMA MixOrder ==
  ASSUME Types, Types', Control, Level, Streams, Past, InOrder,
         NEW more \in [Channels -> Sizes], NEW n \in 1 .. frame, Mix(more, n), ~Free,
         UNCHANGED <<frame, idle, userVars>>
  PROVE  Past' /\ InOrder'
<1>0. /\ n \in Nat /\ n > 0 /\ frame \in Nat /\ nextSize \in Nat /\ idle = 0 /\ idle' = 0
      /\ index \in {0, 1} /\ 1 - index \in {0, 1} /\ frame # 0
  BY RoundSets, Constants DEF Mix, Types, BufTypes, Level, Quieted
<1>1. ASSUME NEW c \in On(more)
      PROVE  c \in Channels /\ From(c) \in Int /\ Below(buf, heard, c, From(c))
  <2>1. c \in active /\ c \in Channels /\ status[c] # "stopped" /\ From(c) \in Int
    BY <1>1, RoundSets DEF Streams
  <2>2. CASE c \in RanOut
    BY <2>1, <2>2 DEF Past, From
  <2>3. CASE c \notin RanOut
    BY <2>1, <2>3 DEF Past, From, Streams, Chunked, Whole
  <2> QED BY <2>1, <2>2, <2>3
<1>2. ASSUME NEW c \in Channels, NEW x \in buf'[index][c]
      PROVE  \/ nextSize # 0 /\ x \in buf[index][c]
             \/ \A y \in heard[c] \cup buf[1 - index][c] : y < x
  <2>1. CASE nextSize # 0 /\ x \in buf[index][c]
    BY <2>1
  <2>2. CASE ~(nextSize # 0 /\ x \in buf[index][c])
    <3>1. c \in On(more) /\ x \in Units(From(c), n)
      BY <2>2, <1>0, <1>2, MixedType DEF Mix
    <3>2. x \in Nat /\ From(c) <= x /\ From(c) \in Int /\ Below(buf, heard, c, From(c))
      BY <3>1, <1>0, <1>1, UnitsIn
    <3>3. \A y \in heard[c] \cup buf[1 - index][c] : y \in Int /\ y < From(c)
      BY <3>2, <1>0 DEF Below, Types, DrvTypes, BufTypes
    <3> QED BY <3>2, <3>3
  <2> QED BY <2>1, <2>2
<1>3. buf'[1 - index] = buf[1 - index]
  BY <1>0, MixedType DEF Mix
<1>4. \A c \in Channels : \A x \in buf'[index][c], y \in heard[c] : y < x
  BY <1>2 DEF InOrder, Parts, LaterThanHeard
<1>5. (cb.by \in Users /\ cb.calls = 1) =>
         \A c \in Channels : \A x \in buf'[index][c], y \in buf'[1 - index][c] : y < x
  BY <1>2, <1>3 DEF InOrder, Parts, AfterOther
<1>6. InOrder' /\ Hears
  <2>1. CASE nextSize + n = frame
    <3>1. Return(buf', frame)
      BY <2>1 DEF Mix
    <3> QED BY <3>1, <1>0, <1>4, <1>5, ReturnOrder
  <2>2. CASE nextSize + n # frame
    <3>1. UNCHANGED <<index, cb, heard>> /\ ~Free'
      BY <2>2 DEF Mix, drvVars, Free
    <3>2. Hears
      BY <3>1 DEF Hears
    <3>3. Parts'
      BY <3>1, <1>4, <1>5 DEF Parts, LaterThanHeard, AfterOther
    <3>4. Wiped'
      BY <1>0 DEF Wiped
    <3>5. HeardOnce'
      <4>1. (cb.by \in Users /\ cb.calls = 1) => LaterThanHeard(1 - index)
        BY DEF InOrder, HeardOnce
      <4> QED BY <4>1, <3>1, <1>3 DEF HeardOnce, LaterThanHeard
    <3> QED BY <3>2, <3>3, <3>4, <3>5 DEF InOrder
  <2> QED BY <2>1, <2>2
<1> QED BY <1>6, MixPast

LEMMA IdleOrder ==
  ASSUME Types, Types', Control, Level, Past, InOrder, FillIdle
  PROVE  Past' /\ InOrder'
<1>0. /\ frame \in Nat /\ frame # 0 /\ nextSize \in Nat /\ idle \in Nat /\ idle' = idle + 1
      /\ index \in {0, 1} /\ 1 - index \in {0, 1} /\ ~Free
  BY Constants DEF FillIdle, Types, BufTypes
<1>1. nextSize # 0 => idle = 0
  BY <1>0 DEF Level, Filling
<1>2. /\ idle >= 2 => buf[1 - index] = Empty
      /\ idle >= 3 => \A i \in {0, 1} : buf[i] = Empty
  BY <1>0 DEF InOrder, Wiped
<1>3. \A c \in Channels : Empty[c] = {}
  BY DEF Empty
<1>4. ASSUME idle < MaxIdle
      PROVE  InOrder' /\ Hears /\ Shrinks
  <2>1. Return(buf', frame) /\ buf' = Silenced
    BY <1>4 DEF FillIdle, Silence
  <2>2. buf'[1 - index] = buf[1 - index] /\ (nextSize # 0 => buf'[index] = buf[index])
    BY <2>1, SilencedType
  <2>3. nextSize = 0 => buf'[index] = Empty
    BY <2>1, <1>0, <1>2, SilencedType DEF Clears
  <2>4. \A c \in Channels : \A x \in buf'[index][c], y \in heard[c] : y < x
    BY <2>2, <2>3, <1>0, <1>3 DEF InOrder, Parts, LaterThanHeard
  <2>5. (cb.by \in Users /\ cb.calls = 1) =>
          \A c \in Channels : \A x \in buf'[index][c], y \in buf'[1 - index][c] : y < x
    BY <2>2, <2>3, <1>3 DEF InOrder, Parts, AfterOther
  <2>6. idle' >= 2 => buf'[index] = Empty
    BY <2>3, <1>0, <1>1
  <2>7. idle' >= 3 => \A i \in {0, 1} : buf'[i] = Empty
    BY <2>2, <2>6, <1>0, <1>2
  <2>8. InOrder' /\ Hears
    BY <2>1, <2>4, <2>5, <2>6, <2>7, <1>0, ReturnOrder
  <2>9. Shrinks
    BY <2>2, <2>3, <1>0, <1>3 DEF Shrinks
  <2> QED BY <2>8, <2>9
<1>5. ASSUME ~(idle < MaxIdle)
      PROVE  InOrder' /\ Hears /\ Shrinks
  <2>1. Return(buf', nextSize) /\ buf' = buf
    BY <1>5 DEF FillIdle, Silence
  <2>2. nextSize = 0 /\ idle >= 3
    BY <1>0, <1>1, <1>5, Constants
  <2>3. cb.by = Pump
    BY <2>2, <1>0 DEF Level, Quieted, Control, Calls, Types, DrvTypes, Free
  <2>4. InOrder' /\ Hears
    BY <2>1, <2>2, <2>3, <1>0, <1>2, ReturnOrder
  <2>5. Shrinks
    BY <2>1 DEF Shrinks
  <2> QED BY <2>4, <2>5
<1>6. InOrder' /\ Hears /\ Shrinks
  BY <1>4, <1>5
<1>7. UNCHANGED <<given, userVars>>
      /\ \A c \in Channels : status'[c] # "stopped" => status[c] # "stopped" /\ next'[c] = next[c]
  BY DEF FillIdle
<1>8. \A c \in Channels : Below(buf, heard, c, given'[c])
  BY <1>7 DEF Past
<1>9. \A c \in Channels : status'[c] # "stopped" => Below(buf, heard, c, next'[c])
  BY <1>7 DEF Past
<1>10. \A u \in Users : pc'[u] = "data" => Below(buf, heard, chan'[u], got'[u].start)
  BY <1>7 DEF Past, userVars
<1> QED BY <1>6, <1>8, <1>9, <1>10, PastKeeps

LEMMA OrderStep ==
  /\ Alone /\ Types /\ Types' /\ Control /\ Level /\ Streams /\ Past /\ InOrder
  /\ [Next]_vars
  => Past' /\ InOrder'
<1> SUFFICES ASSUME Alone, Types, Types', Control, Level, Streams, Past, InOrder, [Next]_vars
             PROVE  Past' /\ InOrder'
  OBVIOUS
<1>1. ASSUME NEW u \in Users, NEW c \in Channels, PlayDeactivate(u, c) \/ FreqStop(u, c)
      PROVE  Past' /\ InOrder'
  <2>1. /\ \E v \in {"more", "sampr"} : pc' = [pc EXCEPT ![u] = v]
        /\ chan' = [chan EXCEPT ![u] = c] /\ got' = got
        /\ UNCHANGED <<status, next, given, nextSize, index, buf, heard, cb>>
        /\ idle' = idle \/ idle' = 0
        /\ playing' = playing \/ playing' = FALSE
    BY <1>1 DEF PlayDeactivate, FreqStop, chanVars, bufVars, drvVars
  <2>2. \A v \in Users : pc'[v] = "data" => pc[v] = "data" /\ chan'[v] = chan[v] /\ got'[v] = got[v]
    BY <2>1 DEF Types, UserTypes
  <2> QED BY <2>1, <2>2, PastStays, InOrderKeeps
<1>2. ASSUME NEW u \in Users, NEW c \in Channels, Stop(u, c) \/ Pause(u, c)
      PROVE  Past' /\ InOrder'
  <2>1. UNCHANGED <<given, bufVars, drvVars, cb, userVars>>
    BY <1>2 DEF Stop, Pause
  <2>2. \A d \in Channels : status'[d] # "stopped" => status[d] # "stopped" /\ next'[d] = next[d]
    BY <1>2 DEF Stop, Stopped, Pause, Types, ChanTypes
  <2> QED BY <2>1, <2>2, PastStays, InOrderKeeps DEF bufVars, drvVars, userVars
<1>3. ASSUME NEW c \in Channels, NEW u \in Users, Free, Activate(c), StartPcm(u),
             UNCHANGED <<buf, heard>>, playing' = playing
      PROVE  InOrder'
  <2>1. idle' = 0
    BY <1>3 DEF Activate, Level, Quieted
  <2>2. CASE playing
    BY <1>3, <2>1, <2>2, InOrderKeeps DEF StartPcm
  <2>3. CASE ~playing
    <3>1. ~Free' /\ cb'.calls = 2 /\ nextSize' = 0
      BY <2>3, <1>3, Constants DEF StartPcm, Free
    <3> QED BY <2>1, <3>1 DEF InOrder, Parts, Wiped, HeardOnce
  <2> QED BY <2>2, <2>3
<1>4. ASSUME NEW u \in Users, NEW c \in Channels, Resume(u, c)
      PROVE  Past' /\ InOrder'
  <2>1. /\ UNCHANGED <<next, given, buf, heard, userVars>>
        /\ playing' = playing
    BY <1>4 DEF Resume, drvVars
  <2>2. InOrder'
    BY <1>4, <2>1, <1>3 DEF Resume, MayCall
  <2>3. \A d \in Channels : status'[d] # "stopped" => status[d] # "stopped"
    BY <1>4 DEF Resume, Types, ChanTypes
  <2> QED BY <2>1, <2>2, <2>3, PastStays DEF userVars
<1>5. ASSUME NEW u \in Users, NEW c \in Channels, SamprChannel(u, c)
      PROVE  Past' /\ InOrder'
  <2>1. PICK k \in Sizes :
          /\ Gives(c, k) /\ given' = [given EXCEPT ![c] = @ + k]
          /\ IF k = 0 THEN Stopped(c)
             ELSE NewChunk(c, given[c], k) /\ UNCHANGED <<status, active>>
    BY <1>5 DEF SamprChannel
  <2>2. UNCHANGED <<bufVars, drvVars, cb, pc, chan, got>> /\ \A v \in Users : pc[v] # "data"
    BY <1>5 DEF SamprChannel, Control, Stopping, OneKick
  <2>3. k \in Nat /\ \A d \in Channels : given[d] \in Int /\ given'[d] \in Int /\ given[d] <= given'[d]
    BY <2>1, GivesType DEF Types, ChanTypes
  <2>4. \A d \in Channels : Below(buf, heard, d, given'[d])
    BY <2>3, BelowMore DEF Past
  <2>5. \A d \in Channels : status'[d] # "stopped" => Below(buf, heard, d, next'[d])
    <3> SUFFICES ASSUME NEW d \in Channels, status'[d] # "stopped"
                 PROVE  Below(buf, heard, d, next'[d])
      OBVIOUS
    <3>1. CASE d = c
      <4>1. k # 0
        BY <3>1, <2>1 DEF Stopped, Types, ChanTypes
      <4>2. next'[d] = given[d]
        BY <3>1, <4>1, <2>1 DEF NewChunk, Types, ChanTypes
      <4> QED BY <4>2 DEF Past
    <3>2. CASE d # c
      BY <3>2, <2>1 DEF Stopped, NewChunk, Types, ChanTypes, Past
    <3> QED BY <3>1, <3>2
  <2>6. UNCHANGED <<nextSize, idle, index, buf, heard, cb, playing>>
    BY <2>2 DEF bufVars, drvVars
  <2>7. Past'
    BY <2>2, <2>4, <2>5, <2>6, SameHears, PastKeeps
  <2>8. InOrder'
    BY <2>6, InOrderKeeps
  <2> QED BY <2>7, <2>8
<1>6. ASSUME NEW u \in Users, PlayMore(u)
      PROVE  Past' /\ InOrder'
  <2>1. /\ chan[u] \in Channels /\ pc' = [pc EXCEPT ![u] = "data"] /\ chan' = chan
        /\ UNCHANGED <<chanVars, bufVars, drvVars, cb>>
    BY <1>6 DEF PlayMore, Types, UserTypes
  <2>2. PICK k \in Sizes :
          /\ Gives(chan[u], k)
          /\ got' = [got EXCEPT ![u] = [start |-> given[chan[u]], size |-> k]]
          /\ given' = [given EXCEPT ![chan[u]] = @ + k]
    BY <1>6 DEF PlayMore
  <2>3. k \in Nat /\ \A d \in Channels : given[d] \in Int /\ given'[d] \in Int /\ given[d] <= given'[d]
    BY <2>1, <2>2, GivesType DEF Types, ChanTypes
  <2>4. \A d \in Channels : Below(buf, heard, d, given'[d])
    BY <2>3, BelowMore DEF Past
  <2>5. \A v \in Users : pc'[v] = "data" => Below(buf, heard, chan'[v], got'[v].start)
    <3> SUFFICES ASSUME NEW v \in Users, pc'[v] = "data"
                 PROVE  Below(buf, heard, chan[v], got'[v].start)
      BY <2>1
    <3>1. CASE v = u
      <4>1. got'[v].start = given[chan[v]]
        BY <3>1, <2>2 DEF Types, UserTypes
      <4> QED BY <4>1, <3>1, <2>1 DEF Past
    <3>2. CASE v # u
      <4>1. pc[v] = "data" /\ got'[v] = got[v]
        BY <3>2, <2>1, <2>2 DEF Types, UserTypes
      <4> QED BY <4>1 DEF Past
    <3> QED BY <3>1, <3>2
  <2>6. UNCHANGED <<nextSize, idle, index, buf, heard, cb, playing, status, next>>
    BY <2>1 DEF bufVars, drvVars, chanVars
  <2>7. \A d \in Channels : status'[d] # "stopped" => Below(buf, heard, d, next'[d])
    BY <2>6 DEF Past
  <2>8. Past'
    BY <2>4, <2>5, <2>6, <2>7, SameHears, PastKeeps
  <2> QED BY <2>6, <2>8, InOrderKeeps
<1>7. ASSUME NEW u \in Users, PlayStart(u)
      PROVE  Past' /\ InOrder'
  <2>0. chan[u] \in Channels
    BY <1>7 DEF PlayStart, Types, UserTypes
  <2> PICK c \in Channels : c = chan[u]
    BY <2>0
  <2>1. /\ Free /\ pc[u] = "data" /\ NewChunk(c, got[u].start, got[u].size)
        /\ status' = [status EXCEPT ![c] = "playing"]
        /\ Activate(c) /\ StartPcm(u) /\ Finish(u) /\ UNCHANGED <<given, buf, heard>>
        /\ playing' = playing
    BY <1>7 DEF PlayStart, drvVars
  <2>2. InOrder'
    BY <2>1, <1>3
  <2>3. \A d \in Channels : status'[d] # "stopped" => Below(buf, heard, d, next'[d])
    <3> SUFFICES ASSUME NEW d \in Channels, status'[d] # "stopped"
                 PROVE  Below(buf, heard, d, next'[d])
      OBVIOUS
    <3>1. CASE d = c
      <4>1. next'[d] = got[u].start
        BY <3>1, <2>1 DEF NewChunk, Types, ChanTypes
      <4> QED BY <4>1, <3>1, <2>1 DEF Past
    <3>2. CASE d # c
      BY <3>2, <2>1 DEF NewChunk, Types, ChanTypes, Past
    <3> QED BY <3>1, <3>2
  <2>4. \A v \in Users : pc'[v] = "data" => Below(buf, heard, chan'[v], got'[v].start)
    BY <2>1 DEF Finish, Types, UserTypes, Past
  <2>5. \A d \in Channels : Below(buf, heard, d, given'[d])
    BY <2>1 DEF Past
  <2> QED BY <2>1, <2>2, <2>3, <2>4, <2>5, SameHears, PastKeeps
<1>8. ASSUME NEW u \in Users, PlayNone(u)
      PROVE  Past' /\ InOrder'
  <2>1. /\ Stopped(chan[u]) /\ Finish(u) /\ UNCHANGED <<given, bufVars, drvVars, cb>>
        /\ chan[u] \in Channels
    BY <1>8 DEF PlayNone, Types, UserTypes
  <2>2. UNCHANGED <<given, nextSize, idle, index, buf, heard, cb, playing>>
    BY <2>1 DEF bufVars, drvVars
  <2>3. \A d \in Channels : status'[d] # "stopped" => status[d] # "stopped" /\ next'[d] = next[d]
    BY <2>1 DEF Stopped, Types, ChanTypes
  <2>4. \A v \in Users : pc'[v] = "data" => pc[v] = "data" /\ chan'[v] = chan[v] /\ got'[v] = got[v]
    BY <2>1 DEF Finish, Types, UserTypes
  <2> QED BY <2>2, <2>3, <2>4, PastStays, InOrderKeeps
<1>9. ASSUME NEW u \in Users, SamprDone(u)
      PROVE  Past' /\ InOrder'
  <2>1. /\ pc' = [pc EXCEPT ![u] = "more"]
        /\ UNCHANGED <<status, next, given, nextSize, idle, index, buf, heard, playing, cb, chan, got>>
    BY <1>9 DEF SamprDone, drvVars
  <2>2. \A v \in Users : pc'[v] = "data" => pc[v] = "data"
    BY <2>1 DEF Types, UserTypes
  <2> QED BY <2>1, <2>2, PastStays, InOrderKeeps
<1>10. CASE FillMix
  BY <1>10, MixOrder DEF FillMix
<1>11. CASE FillIdle
  BY <1>11, IdleOrder
<1>12. CASE PumpTake
  <2>1. /\ Free /\ cb' = [by |-> Pump, calls |-> 1] /\ index' = 1 - index /\ nextSize' = 0
        /\ UNCHANGED <<chanVars, given, idle, buf, userVars>> /\ index \in {0, 1}
        /\ heard' = [c \in Channels |-> heard[c] \cup buf[index][c]]
    BY <1>12 DEF PumpTake, Flip, Types, BufTypes
  <2>2. Hears /\ Shrinks
    BY <2>1 DEF Hears, Shrinks
  <2>3. Past'
    BY <2>1, <2>2, PastKeeps DEF Past, chanVars, userVars
  <2>4. ~Free' /\ cb'.by \notin Users
    BY <2>1, Constants DEF Free
  <2>5. Parts' /\ HeardOnce'
    BY <2>1, <2>4 DEF Parts, HeardOnce
  <2>6. Wiped'
    <3>1. idle >= 2 => buf[index] = Empty
      BY <2>1 DEF InOrder, Wiped
    <3>2. idle >= 3 => \A i \in {0, 1} : buf[i] = Empty
      BY DEF InOrder, Wiped
    <3>3. 1 - (1 - index) = index
      BY <2>1
    <3> QED BY <2>1, <2>4, <3>1, <3>2, <3>3 DEF Wiped, Empty
  <2> QED BY <2>3, <2>5, <2>6 DEF InOrder
<1>13. CASE PumpCopy \/ PumpStop \/ UNCHANGED vars
  <2>1. /\ UNCHANGED <<chanVars, given, bufVars, heard, cb, userVars>>
        /\ playing' => playing
    BY <1>13 DEF PumpCopy, PumpStop, vars, drvVars
  <2> QED BY <2>1, PastStays, InOrderKeeps DEF chanVars, bufVars, userVars
<1> QED
  BY <1>1, <1>2, <1>4, <1>5, <1>6, <1>7, <1>8, <1>9, <1>10, <1>11, <1>12, <1>13 DEF Next

-----------------------------------------------------------------------------
\* Nobody is left over when the PCM stops: it only stops for want of channels or
\* for a change of the rate, whose caller starts it again.

Kept ==
  /\ (Free /\ playing /\ nextSize = 0) => active = {}
  /\ \A u \in Users : (kick[u] /\ pc[u] = "data") => got[u].size # 0
  /\ ActiveRuns

LEMMA KeptInit == Init => Kept
BY DEF Init, Kept, ActiveRuns

LEMMA KeptStep ==
  Alone /\ Prompt /\ Fed /\ Types /\ Control /\ Kept /\ [Next]_vars => Kept'
<1> SUFFICES ASSUME Alone, Prompt, Fed, Types, Control, Kept, [Next]_vars
             PROVE  Kept'
  OBVIOUS
\* without the mutex, or without a channel, there is nothing to show
<1>0. ASSUME ~Free' \/ active' = {}, UNCHANGED userVars
      PROVE  Kept'
  BY <1>0 DEF Kept, ActiveRuns, userVars
<1>1. ASSUME active' \subseteq active, UNCHANGED <<nextSize, playing, cb>>,
             \A u \in Users : kick'[u] => kick[u],
             \A u \in Users : kick[u] => kick'[u],
             \A u \in Users : (kick'[u] /\ pc'[u] = "data") => got'[u].size # 0
      PROVE  Kept'
  <2>1. Free' <=> Free
    BY <1>1 DEF Free
  <2>2. (Free' /\ playing' /\ nextSize' = 0) => active' = {}
    BY <1>1, <2>1 DEF Kept
  <2>3. ActiveRuns'
    <3> SUFFICES ASSUME Free', active' # {}, \A u \in Users : ~kick'[u]
                 PROVE  playing'
      BY DEF ActiveRuns
    <3>1. Free /\ active # {} /\ \A u \in Users : ~kick[u]
      BY <1>1, <2>1
    <3> QED BY <3>1, <1>1 DEF Kept, ActiveRuns
  <2> QED BY <1>1, <2>2, <2>3 DEF Kept
<1>2. ASSUME NEW u \in Users, NEW c \in Channels, PlayDeactivate(u, c)
      PROVE  Kept'
  <2>1. /\ active' \subseteq active /\ UNCHANGED <<nextSize, playing, cb, got, kick>>
        /\ pc' = [pc EXCEPT ![u] = "more"]
    BY <1>2 DEF PlayDeactivate, bufVars, drvVars
  <2>2. \A v \in Users : (kick'[v] /\ pc'[v] = "data") => got'[v].size # 0
    BY <2>1 DEF Kept, Types, UserTypes
  <2> QED BY <2>1, <2>2, <1>1
<1>3. ASSUME NEW u \in Users, NEW c \in Channels, Stop(u, c) \/ Pause(u, c)
      PROVE  Kept'
  BY <1>1, <1>3 DEF Stop, Pause, Stopped, bufVars, drvVars, userVars, Kept
\* a channel made active with the mutex free
<1>4. ASSUME NEW c \in Channels, NEW u \in Users, Free, MayStart(c), Activate(c), StartPcm(u),
             playing' = playing,
             \A v \in Users : (kick'[v] /\ pc'[v] = "data") => got'[v].size # 0
      PROVE  Kept'
  <2>1. CASE playing
    <3>1. nextSize # 0 /\ nextSize' = nextSize
      BY <2>1, <1>4 DEF MayStart, StartPcm
    <3> QED BY <2>1, <3>1, <1>4 DEF Kept, ActiveRuns
  <2>2. CASE ~playing
    <3>1. ~Free'
      BY <2>2, <1>4, Constants DEF StartPcm, Free
    <3> QED BY <3>1, <1>4 DEF Kept, ActiveRuns
  <2> QED BY <2>1, <2>2
<1>5. ASSUME NEW u \in Users, NEW c \in Channels, Resume(u, c)
      PROVE  Kept'
  BY <1>4, <1>5 DEF Resume, MayCall, drvVars, userVars, Kept
<1>6. ASSUME NEW u \in Users, NEW c \in Channels, FreqStop(u, c)
      PROVE  Kept'
  <2>1. /\ playing' = FALSE /\ kick' = [kick EXCEPT ![u] = TRUE] /\ got' = got
        /\ pc' = [pc EXCEPT ![u] = "sampr"] /\ \A v \in Users : ~kick[v]
    BY <1>6, MayCallFacts DEF FreqStop
  <2>2. kick'[u] /\ \A v \in Users : (kick'[v] /\ pc'[v] = "data") => got'[v].size # 0
    BY <2>1 DEF Types, UserTypes
  <2> QED BY <2>1, <2>2 DEF Kept, ActiveRuns
<1>7. ASSUME NEW u \in Users, NEW c \in Channels, SamprChannel(u, c)
      PROVE  Kept'
  BY <1>1, <1>7 DEF SamprChannel, Stopped, bufVars, drvVars, Kept
<1>8. ASSUME NEW u \in Users, PlayMore(u)
      PROVE  Kept'
  <2>1. /\ active' = active /\ UNCHANGED <<nextSize, playing, cb, kick>>
        /\ pc' = [pc EXCEPT ![u] = "data"]
    BY <1>8 DEF PlayMore, chanVars, bufVars, drvVars
  <2>2. PICK k \in Sizes :
          /\ kick[u] => k # 0
          /\ got' = [got EXCEPT ![u] = [start |-> given[chan[u]], size |-> k]]
    BY <1>8 DEF PlayMore
  <2>3. \A v \in Users : (kick'[v] /\ pc'[v] = "data") => got'[v].size # 0
    BY <2>1, <2>2 DEF Kept, Types, UserTypes
  <2> QED BY <2>1, <2>3, <1>1
<1>9. ASSUME NEW u \in Users, PlayStart(u)
      PROVE  Kept'
  <2>1. /\ Finish(u) /\ chan[u] \in Channels
        /\ Free /\ MayStart(chan[u]) /\ Activate(chan[u]) /\ StartPcm(u)
        /\ playing' = playing
    BY <1>9 DEF PlayStart, Types, UserTypes, drvVars
  <2>2. \A v \in Users : (kick'[v] /\ pc'[v] = "data") => got'[v].size # 0
    BY <2>1 DEF Finish, Types, UserTypes, Kept
  <2> QED BY <2>1, <2>2, <1>4
<1>10. ASSUME NEW u \in Users, PlayNone(u)
      PROVE  Kept'
  <2>1. /\ pc[u] = "data" /\ got[u].size = 0 /\ Finish(u) /\ active' \subseteq active
        /\ UNCHANGED <<nextSize, playing, cb>>
    BY <1>10 DEF PlayNone, Stopped, bufVars, drvVars
  <2>2. ~kick[u]
    BY <2>1 DEF Kept
  <2>3. \A v \in Users : (kick'[v] => kick[v]) /\ (kick[v] => kick'[v])
    BY <2>1, <2>2 DEF Finish, Types, UserTypes
  <2>4. \A v \in Users : (kick'[v] /\ pc'[v] = "data") => got'[v].size # 0
    BY <2>1 DEF Finish, Types, UserTypes, Kept
  <2> QED BY <2>1, <2>3, <2>4, <1>1
<1>11. ASSUME NEW u \in Users, SamprDone(u)
      PROVE  Kept'
  <2>1. /\ active' \subseteq active /\ UNCHANGED <<nextSize, playing, cb, got, kick>>
        /\ pc' = [pc EXCEPT ![u] = "more"]
    BY <1>11 DEF SamprDone, drvVars
  <2>2. \A v \in Users : (kick'[v] /\ pc'[v] = "data") => got'[v].size # 0
    BY <2>1 DEF Kept, Types, UserTypes
  <2> QED BY <2>1, <2>2, <1>1
<1>12. ASSUME ~Free, NEW b, Return(b, frame), UNCHANGED userVars
      PROVE  Kept'
  <2>1. frame # 0
    BY Constants DEF Types, BufTypes
  <2>2. CASE Goes(b, frame)
    BY <2>2, <1>12, <1>0, WaysFree
  <2>3. CASE Prepared(b, frame)
    <3>1. playing' /\ nextSize' = frame
      BY <2>3 DEF Prepared, drvVars, Control, PumpFills
    <3> QED BY <3>1, <2>1, <1>12 DEF Kept, ActiveRuns, userVars
  <2>4. CASE Started(b, frame)
    <3>1. playing' /\ nextSize' = frame
      BY <2>4 DEF Started
    <3> QED BY <3>1, <2>1, <1>12 DEF Kept, ActiveRuns, userVars
  <2> QED BY <1>12, <2>2, <2>3, <2>4, ReturnWays
<1>13. CASE FillMix
  <2>1. PICK more \in [Channels -> Sizes], n \in 1 .. frame : Mix(more, n)
    BY <1>13 DEF FillMix
  <2>2. CASE nextSize + n = frame
    BY <1>12, <1>13, <2>1, <2>2 DEF Mix, FillMix
  <2>3. CASE nextSize + n # frame
    <3>1. ~Free'
      BY <1>13, <2>1, <2>3 DEF Mix, FillMix, Free
    <3> QED BY <3>1, <1>0, <1>13 DEF FillMix
  <2> QED BY <2>2, <2>3
<1>14. CASE FillIdle
  BY <1>0, <1>14 DEF FillIdle
<1>15. CASE PumpTake
  <2>1. ~Free' /\ UNCHANGED userVars
    BY <1>15, Constants DEF PumpTake, Free
  <2> QED BY <2>1, <1>0
<1>16. CASE PumpCopy \/ UNCHANGED vars
  BY <1>1, <1>16 DEF PumpCopy, vars, chanVars, bufVars, drvVars, userVars, Kept
<1>17. CASE PumpStop
  <2>1. active' = {} /\ UNCHANGED userVars
    BY <1>17 DEF PumpStop, chanVars, Kept
  <2> QED BY <2>1, <1>0
<1> QED
  BY <1>2, <1>3, <1>5, <1>6, <1>7, <1>8, <1>9, <1>10, <1>11, <1>13, <1>14, <1>15, <1>16, <1>17
     DEF Next

-----------------------------------------------------------------------------
\* The invariant of a mixer whose callers leave each other alone.
Inv == Types /\ Control /\ Level /\ Streams /\ Past /\ InOrder

LEMMA Invariant == ASSUME Alone PROVE Spec => []Inv
<1>1. Init => Inv
  BY TypesInit, ControlInit, LevelInit, StreamsInit, OrderInit DEF Inv
<1>2. Inv /\ [Next]_vars => Inv'
  BY TypesStep, ControlStep, LevelStep, StreamsStep, OrderStep DEF Inv
<1> QED BY <1>1, <1>2, PTL DEF Spec

LEMMA InvTypeOK == Inv => TypeOK
<1> SUFFICES ASSUME Inv PROVE TypeOK
  OBVIOUS
<1>1. Types /\ \A c \in Channels : Chunked(c)
  BY DEF Inv, Streams
<1>2. \A c \in Channels : start[c] \in 0 .. MaxGiven /\ size[c] \in 0 .. MaxGiven
                          /\ next[c] \in 0 .. MaxGiven
  <2> TAKE c \in Channels
  <2>1. /\ start[c] \in Int /\ size[c] \in Int /\ next[c] \in Int /\ last[c] \in Nat
        /\ given[c] \in 0 .. MaxGiven /\ MaxGiven \in Nat
    BY <1>1, Constants DEF Types, ChanTypes
  <2>2. CASE status[c] = "stopped"
    BY <1>1, <2>1, <2>2 DEF Chunked, Bare
  <2>3. CASE status[c] # "stopped"
    BY <1>1, <2>1, <2>3 DEF Chunked, Whole
  <2> QED BY <2>2, <2>3
<1>3. idle \in 0 .. MaxIdle + 1
  BY Constants DEF Inv, Types, BufTypes, Level, Quieted
<1>4. /\ start \in [Channels -> 0 .. MaxGiven] /\ size \in [Channels -> 0 .. MaxGiven]
      /\ next \in [Channels -> 0 .. MaxGiven]
  BY <1>1, <1>2 DEF Types, ChanTypes
<1>5. playing \in BOOLEAN
  BY <1>1 DEF Types, DrvTypes
<1> QED BY <1>1, <1>3, <1>4, <1>5, Zenon
        DEF Types, ChanTypes, BufTypes, DrvTypes, UserTypes, TypeOK

\* The driver always gets a whole buffer of mixed or silenced frames, and not
\* one that is being mixed into (mixer_buffer_callback() and its two buffers).
THEOREM MixerBuffersSound == ASSUME Alone PROVE Spec => []BuffersSound
<1>1. Inv => BuffersSound
  <2> SUFFICES ASSUME Inv PROVE BuffersSound
    OBVIOUS
  <2>1. NoTear
    BY DEF Inv, Control, PumpFills, NoTear
  <2>2. FrameFull
    BY DEF Inv, Level
  <2> QED BY <2>1, <2>2, InvTypeOK DEF BuffersSound
<1> QED BY <1>1, Invariant, PTL

\* The downmixes of every channel follow one another in its stream, whatever the
\* lengths of the others' chunks (the partial downmixes of
\* mixer_buffer_callback()).
THEOREM MixerStreamWhole == ASSUME Alone PROVE Spec => []StreamWhole
<1>1. Inv => StreamWhole
  <2> SUFFICES ASSUME Inv, NEW c \in active
               PROVE  /\ start[c] + last[c] = next[c] /\ last[c] <= size[c]
                      /\ (\A u \in Users : pc[u] # "idle" => chan[u] # c)
                            => start[c] + size[c] = given[c]
    BY DEF StreamWhole
  <2>1. c \in Channels /\ status[c] # "stopped"
    BY DEF Inv, Types, ChanTypes, Streams
  <2>2. Whole(c)
    BY <2>1 DEF Inv, Streams, Chunked
  <2> QED BY <2>2 DEF Whole, Busy
<1> QED BY <1>1, Invariant, PTL

\* The driver hears every unit of a source once and in order, over restarts of
\* the PCM and the silence that wipes the buffers.
THEOREM MixerHeardOnce == ASSUME Alone PROVE Spec => []HeardOnce
<1>1. Inv => HeardOnce
  BY DEF Inv, InOrder
<1> QED BY <1>1, Invariant, PTL

\* A source is asked by one thread at a time (comment at 363-365 of
\* mixer_channel_play_data()).
THEOREM MixerNotReentered == ASSUME Alone PROVE Spec => []NotReentered
<1>1. Inv => NotReentered
  BY DEF Inv, Control, Off, NotReentered
<1> QED BY <1>1, Invariant, PTL

\* Both together: the driver's buffers and the sources' calls are apart.
THEOREM MixerIsSound == ASSUME Alone PROVE Spec => []MixerSound
<1>1. BuffersSound /\ NotReentered => MixerSound
  BY DEF MixerSound
<1> QED BY <1>1, MixerBuffersSound, MixerNotReentered, PTL

\* An active channel has the PCM, when it was not started in the last buffer of
\* the silence and whoever changed the rate had data.
THEOREM MixerActiveRuns == ASSUME Alone, Prompt, Fed PROVE Spec => []ActiveRuns
<1>1. Init => Kept
  BY KeptInit
<1>2. Inv /\ Kept /\ [Next]_vars => Kept'
  BY KeptStep DEF Inv
<1>3. Kept => ActiveRuns
  BY DEF Kept
<1> QED BY <1>1, <1>2, <1>3, Invariant, PTL DEF Spec

=============================================================================
