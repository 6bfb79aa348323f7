--------------------------- MODULE NetfmPcmProofs ---------------------------
(***************************************************************************)
(* Proofs about NetfmPcm: for every size of the ring, of a chunk and of    *)
(* the counters, the decoder never overwrites a frame that waits, and the  *)
(* radio's frames reach the mixer in the order they were made, none twice  *)
(* and none left out but at a change of the rate, as long as dsp_process() *)
(* makes no more frames of a chunk than the chunk has.                     *)
(***************************************************************************)
EXTENDS NetfmPcm, Integers, TLAPS

-----------------------------------------------------------------------------
\* Differences of wrapping counters.

LEMMA Sizes == /\ Wrap \in Nat \ {0} /\ PcmFrames \in Nat /\ Chunk \in Nat \ {0}
               /\ Chunk <= PcmFrames /\ 2 * PcmFrames <= Wrap
               /\ PcmFrames < Wrap
BY PcmAssumption

LEMMA ModLow == ASSUME NEW i \in 0 .. Wrap - 1
                PROVE  i % Wrap = i
BY Sizes

LEMMA ModHigh == ASSUME NEW i \in Wrap .. 2 * Wrap - 1
                 PROVE  i % Wrap = i - Wrap
BY Sizes

LEMMA FillIs ==
  ASSUME NEW h \in Counter, NEW t \in Counter
  PROVE  /\ FillOf(h, t) \in Counter
         /\ FillOf(h, t) = IF h >= t THEN h - t ELSE h + (Wrap - t)
<1>1. CASE h >= t
  <2>1. h + (Wrap - t) \in Wrap .. 2 * Wrap - 1
    BY <1>1, Sizes DEF Counter
  <2>2. (h + (Wrap - t)) % Wrap = (h + (Wrap - t)) - Wrap
    BY <2>1, ModHigh
  <2> QED BY <1>1, <2>2, Sizes DEF FillOf, Counter
<1>2. CASE ~(h >= t)
  <2>1. h + (Wrap - t) \in 0 .. Wrap - 1
    BY <1>2, Sizes DEF Counter
  <2>2. (h + (Wrap - t)) % Wrap = h + (Wrap - t)
    BY <2>1, ModLow
  <2> QED BY <1>2, <2>1, <2>2, Sizes DEF FillOf, Counter
<1> QED BY <1>1, <1>2

\* A counter that moves n on stays a counter.
LEMMA Moved ==
  ASSUME NEW t \in Counter, NEW n \in 0 .. Wrap - 1
  PROVE  /\ (t + n) % Wrap \in Counter
         /\ (t + n) % Wrap = IF t + n < Wrap THEN t + n ELSE (t + n) - Wrap
<1>1. CASE t + n < Wrap
  BY <1>1, ModLow, Sizes DEF Counter
<1>2. CASE ~(t + n < Wrap)
  <2>1. t + n \in Wrap .. 2 * Wrap - 1
    BY <1>2, Sizes DEF Counter
  <2>2. (t + n) % Wrap = (t + n) - Wrap
    BY <2>1, ModHigh
  <2> QED BY <1>2, <2>1, <2>2, Sizes DEF Counter
<1> QED BY <1>1, <1>2

LEMMA FillPut ==
  ASSUME NEW h \in Counter, NEW t \in Counter, NEW n \in Nat,
         FillOf(h, t) + n < Wrap
  PROVE  FillOf((h + n) % Wrap, t) = FillOf(h, t) + n
<1>1. n \in 0 .. Wrap - 1
  BY FillIs, Sizes DEF Counter
<1> DEFINE m == (h + n) % Wrap
<1>2. /\ m \in Counter
      /\ m = IF h + n < Wrap THEN h + n ELSE (h + n) - Wrap
  BY <1>1, Moved
<1> HIDE DEF m
<1>3. FillOf(m, t) = IF m >= t THEN m - t ELSE m + (Wrap - t)
  BY <1>2, FillIs
<1>4. FillOf(h, t) = IF h >= t THEN h - t ELSE h + (Wrap - t)
  BY FillIs
<1>5. FillOf(m, t) = FillOf(h, t) + n
  BY <1>1, <1>2, <1>3, <1>4, Sizes DEF Counter
<1> QED BY <1>5 DEF m

LEMMA FillTake ==
  ASSUME NEW h \in Counter, NEW t \in Counter, NEW n \in Nat,
         n <= FillOf(h, t)
  PROVE  FillOf(h, (t + n) % Wrap) = FillOf(h, t) - n
<1>1. n \in 0 .. Wrap - 1
  BY FillIs, Sizes DEF Counter
<1> DEFINE m == (t + n) % Wrap
<1>2. /\ m \in Counter
      /\ m = IF t + n < Wrap THEN t + n ELSE (t + n) - Wrap
  BY <1>1, Moved
<1> HIDE DEF m
<1>3. FillOf(h, m) = IF h >= m THEN h - m ELSE h + (Wrap - m)
  BY <1>2, FillIs
<1>4. FillOf(h, t) = IF h >= t THEN h - t ELSE h + (Wrap - t)
  BY FillIs
<1>5. FillOf(h, m) = FillOf(h, t) - n
  BY <1>1, <1>2, <1>3, <1>4, Sizes DEF Counter
<1> QED BY <1>5 DEF m

LEMMA SumBelow == ASSUME NEW a \in Nat, NEW b \in Nat, NEW c \in Nat,
                         NEW d \in Nat, a <= b, b + c <= d
                  PROVE  a + c <= d
OBVIOUS

LEMMA FillSame == ASSUME NEW h \in Counter
                  PROVE  FillOf(h, h) = 0
BY FillIs, Sizes DEF Counter

-----------------------------------------------------------------------------
\* The inductive invariant.

CounterType ==
  /\ nfHead \in Counter /\ nfTail \in Counter /\ gTail \in Counter
  /\ gAvail \in 0 .. Chunk /\ out \in 0 .. Chunk

\* How many frames may wait, by what the decoder is about to do.
RoomInv ==
  /\ Fill <= PcmFrames
  /\ dpc \in {"claim", "dsp"} => Fill <= PcmFrames - Chunk
  /\ dpc = "publish" => Fill + out <= PcmFrames
  /\ dpc # "publish" => out = 0

\* While nf_get_more() is half way, nf_tail is the one it has loaded, unless
\* the decoder has just dropped the content and waits for the mixer's lock;
\* and while the decoder starts the channel again nf_get_more() is not running.
GetInv ==
  /\ gpc \in {"idle", "copy", "store"}
  /\ gpc # "idle" =>
       /\ gAvail <= FillOf(nfHead, gTail) /\ FillOf(nfHead, gTail) <= PcmFrames
       /\ nfTail = gTail \/ dpc = "switch"
  /\ dpc = "kick" => gpc = "idle" /\ ~chanOn

OverInv == CounterType /\ RoomInv /\ GetInv

NoUpsampling == OutSizes \subseteq 0 .. Chunk

LEMMA InitOver == Init => OverInv
<1> SUFFICES ASSUME Init PROVE OverInv
  OBVIOUS
<1>1. /\ nfHead = 0 /\ nfTail = 0 /\ gTail = 0 /\ gAvail = 0 /\ out = 0
      /\ dpc = "none" /\ gpc = "idle"
  BY DEF Init
<1>2. CounterType
  BY <1>1, Sizes DEF CounterType, Counter
<1>3. Fill = 0
  BY <1>1, <1>2, FillSame DEF Fill, CounterType
<1> QED BY <1>1, <1>2, <1>3, Sizes DEF OverInv, RoomInv, GetInv

-----------------------------------------------------------------------------
\* One lemma for each kind of step.

\* Steps that leave the counters and nf_get_more() alone.
LEMMA QuietStep ==
  ASSUME OverInv, UNCHANGED <<nfHead, nfTail, gTail, gAvail, gpc, out>>,
         dpc' \in {"claim", "dsp"} =>
           dpc \in {"claim", "dsp"} \/ Fill <= PcmFrames - Chunk,
         dpc' = "publish" => dpc = "publish",
         dpc = "publish" => dpc' = "publish",
         dpc = "switch" => dpc' = "switch",
         dpc' = "kick" => dpc = "kick" /\ (chanOn' => chanOn)
  PROVE  OverInv'
<1>1. Fill' = Fill
  BY DEF Fill, FillOf
<1>2. CounterType'
  BY DEF OverInv, CounterType
<1>3. RoomInv'
  BY <1>1 DEF OverInv, RoomInv
<1>4. GetInv'
  BY DEF OverInv, GetInv, FillOf
<1> QED BY <1>2, <1>3, <1>4 DEF OverInv

\* A whole nf_get_more() only makes room.
LEMMA GetMoreRoom ==
  ASSUME CounterType, GetMore, nfHead' = nfHead
  PROVE  /\ nfTail' \in Counter /\ Fill' \in Nat /\ Fill' <= Fill
<1> DEFINE n == MinOf(Fill, Chunk)
<1>1. Fill \in Counter
  BY FillIs DEF Fill, CounterType
<1>2. n \in Nat /\ n <= Fill /\ n \in 0 .. Wrap - 1
  BY <1>1, Sizes DEF MinOf, Counter
<1>3. nfTail' = (nfTail + n) % Wrap
  BY DEF GetMore
<1> HIDE DEF n
<1>4. nfTail' \in Counter
  BY <1>2, <1>3, Moved DEF CounterType
<1>5. FillOf(nfHead, (nfTail + n) % Wrap) = FillOf(nfHead, nfTail) - n
  BY <1>2, FillTake DEF CounterType, Fill
<1>6. Fill' = Fill - n
  BY <1>3, <1>5 DEF Fill
<1> QED BY <1>1, <1>2, <1>4, <1>6 DEF Counter

LEMMA MixerStep == ASSUME OverInv, Mixer
                   PROVE  OverInv'
<1>0. Fill \in Counter /\ Fill = FillOf(nfHead, nfTail)
  BY FillIs DEF OverInv, CounterType, Fill
<1>1. CASE GmLoad
  <2>1. /\ gTail' = nfTail /\ gAvail' = MinOf(Fill, Chunk) /\ gpc' = "copy"
        /\ UNCHANGED <<nfHead, nfTail, out, dpc, chanOn>> /\ chanOn
        /\ gpc = "idle"
    BY <1>1 DEF GmLoad, ring, ctl
  <2>2. gAvail' \in 0 .. Chunk /\ gAvail' <= Fill
    BY <1>0, <2>1, Sizes DEF MinOf, Counter
  <2>3. CounterType'
    BY <2>1, <2>2 DEF OverInv, CounterType
  <2>4. Fill' = Fill
    BY <2>1 DEF Fill, FillOf
  <2>5. RoomInv'
    BY <2>1, <2>4 DEF OverInv, RoomInv
  <2>6. FillOf(nfHead, gTail)' = Fill
    BY <2>1, <1>0 DEF FillOf
  <2>7. GetInv'
    BY <2>1, <2>2, <2>6 DEF OverInv, RoomInv, GetInv
  <2> QED BY <2>3, <2>5, <2>7 DEF OverInv
<1>2. CASE GmCopy
  <2>1. /\ UNCHANGED <<nfHead, nfTail, gTail, gAvail, out, dpc, chanOn>>
        /\ gpc = "copy" /\ gpc' = "store"
    BY <1>2 DEF GmCopy, ring, ctl
  <2>2. Fill' = Fill /\ FillOf(nfHead, gTail)' = FillOf(nfHead, gTail)
    BY <2>1 DEF Fill, FillOf
  <2> QED BY <2>1, <2>2 DEF OverInv, CounterType, RoomInv, GetInv
<1>3. CASE GmStore
  <2>1. /\ nfTail' = (gTail + gAvail) % Wrap /\ gTail' = 0 /\ gAvail' = 0
        /\ gpc = "store" /\ gpc' = "idle"
        /\ UNCHANGED <<nfHead, out, dpc, chanOn>>
    BY <1>3 DEF GmStore, ctl
  <2>2. /\ gAvail \in Nat /\ gAvail <= FillOf(nfHead, gTail)
        /\ FillOf(nfHead, gTail) <= PcmFrames
        /\ FillOf(nfHead, gTail) \in Counter
        /\ nfHead \in Counter /\ gTail \in Counter
        /\ gAvail \in 0 .. Wrap - 1
    BY <2>1, FillIs, Sizes DEF OverInv, GetInv, CounterType
  <2>3. nfTail' \in Counter
    BY <2>1, <2>2, Moved
  <2>4. Fill' = FillOf(nfHead, gTail) - gAvail
    BY <2>1, <2>2, FillTake DEF Fill
  <2>5. Fill' \in Nat /\ Fill' <= FillOf(nfHead, gTail) /\ Fill' <= PcmFrames
    BY <2>2, <2>4, Sizes DEF Counter
  <2>6. CounterType'
    BY <2>1, <2>3, Sizes DEF OverInv, CounterType, Counter
  <2>7. dpc # "switch" => Fill' <= Fill
    BY <1>0, <2>1, <2>5 DEF OverInv, GetInv
  <2>8. RoomInv'
    <3>1. /\ Fill \in Nat /\ Fill' \in Nat /\ out \in Nat /\ PcmFrames \in Nat
          /\ Chunk \in Nat
      BY <1>0, <2>5, Sizes DEF OverInv, CounterType, Counter
    <3>2. dpc' \in {"claim", "dsp"} => Fill' <= PcmFrames - Chunk
      BY <2>1, <2>7, <3>1 DEF OverInv, RoomInv
    <3>3. ASSUME dpc' = "publish" PROVE Fill' + out' <= PcmFrames
      <4>1. dpc = "publish" /\ out' = out
        BY <2>1, <3>3
      <4>2. Fill + out <= PcmFrames
        BY <4>1 DEF OverInv, RoomInv
      <4>3. Fill' <= Fill
        BY <2>7, <4>1
      <4>5. Fill' + out <= PcmFrames
        BY <3>1, <4>2, <4>3, SumBelow
      <4> QED BY <4>1, <4>5
    <3>4. dpc' # "publish" => out' = 0
      BY <2>1 DEF OverInv, RoomInv
    <3> QED BY <2>5, <3>2, <3>3, <3>4 DEF RoomInv
  <2>9. GetInv'
    BY <2>1 DEF OverInv, GetInv
  <2> QED BY <2>6, <2>8, <2>9 DEF OverInv
<1> QED BY <1>1, <1>2, <1>3 DEF Mixer

LEMMA UserStep == ASSUME OverInv, User \/ Halt
                  PROVE  OverInv'
<1>1. CASE Start
  <2>1. /\ nfHead' = 0 /\ nfTail' = 0 /\ gpc' = gpc /\ gpc = "idle"
        /\ UNCHANGED <<gTail, gAvail, out>> /\ dpc' = "codec"
        /\ dpc \in {"none", "end"}
    BY <1>1 DEF Start, get
  <2>2. 0 \in Counter
    BY Sizes DEF Counter
  <2>3. Fill' = 0
    BY <2>1, <2>2, FillSame DEF Fill
  <2> QED BY <2>1, <2>2, <2>3, Sizes
          DEF OverInv, CounterType, RoomInv, GetInv
<1>2. CASE RequestStop \/ LocalPlay \/ LocalEnd
  BY <1>2, QuietStep DEF RequestStop, LocalPlay, LocalEnd, ring, get
<1>3. CASE ChannelStop
  BY <1>3, QuietStep DEF ChannelStop, ring, get
<1>4. CASE Halt
  BY <1>4, QuietStep DEF Halt, ring, get, At
<1> QED BY <1>1, <1>2, <1>3, <1>4 DEF User

LEMMA RateStep == ASSUME OverInv, Rate
                  PROVE  OverInv'
<1>0. Fill \in Counter /\ nfHead \in Counter
  BY FillIs DEF OverInv, CounterType, Fill
<1>1. ASSUME NEW r \in Rates, RateSet(r)
      PROVE  OverInv'
  BY <1>1, QuietStep DEF RateSet, ring, get, At
<1>2. CASE RateDrop
  <2>1. /\ nfTail' = nfHead /\ dpc = "drop" /\ dpc' = "switch"
        /\ UNCHANGED <<nfHead, gTail, gAvail, gpc, out, chanOn>>
    BY <1>2 DEF RateDrop, ctl, get, At
  <2>2. Fill' = 0 /\ FillOf(nfHead, gTail)' = FillOf(nfHead, gTail)
    BY <1>0, <2>1, FillSame DEF Fill, FillOf
  <2> QED BY <1>0, <2>1, <2>2, Sizes
          DEF OverInv, CounterType, RoomInv, GetInv
<1>3. CASE RateSwitch
  <2>1. /\ dpc = "switch" /\ dpc' = "kick" /\ gpc = "idle" /\ chanOn' = FALSE
        /\ UNCHANGED <<nfHead, gTail, gAvail, gpc, out>>
        /\ GetMore \/ nfTail' = nfTail
    BY <1>3 DEF RateSwitch, get, At
  <2>2. nfTail' \in Counter /\ Fill' \in Nat /\ Fill' <= Fill
    <3>1. CASE GetMore
      BY <2>1, <3>1, GetMoreRoom DEF OverInv
    <3>2. CASE nfTail' = nfTail
      BY <1>0, <2>1, <3>2 DEF Fill, OverInv, CounterType, Counter
    <3> QED BY <2>1, <3>1, <3>2
  <2>3. Fill <= PcmFrames /\ Fill \in Nat
    BY <1>0 DEF OverInv, RoomInv, Counter
  <2>4. Fill' <= PcmFrames
    BY <2>2, <2>3, Sizes
  <2> QED BY <2>1, <2>2, <2>4 DEF OverInv, CounterType, RoomInv, GetInv
<1>4. CASE RateKick
  <2>1. /\ dpc = "kick" /\ dpc' = "codec" /\ gpc = "idle"
        /\ UNCHANGED <<nfHead, gTail, gAvail, gpc, out>> /\ GetMore
    BY <1>4 DEF RateKick, get, At, OverInv, GetInv
  <2>2. nfTail' \in Counter /\ Fill' \in Nat /\ Fill' <= Fill
    BY <2>1, GetMoreRoom DEF OverInv
  <2>3. Fill <= PcmFrames /\ Fill \in Nat
    BY <1>0 DEF OverInv, RoomInv, Counter
  <2>4. Fill' <= PcmFrames
    BY <2>2, <2>3, Sizes
  <2> QED BY <2>1, <2>2, <2>4 DEF OverInv, CounterType, RoomInv, GetInv
<1> QED BY <1>1, <1>2, <1>3, <1>4 DEF Rate

LEMMA InsertStep == ASSUME NoUpsampling, OverInv, Inserts
                    PROVE  OverInv'
<1>0. Fill \in Counter /\ Fill <= PcmFrames
  BY FillIs DEF OverInv, CounterType, RoomInv, Fill
<1>1. CASE InsStop \/ InsRoom \/ InsClaim \/ \E b \in Blocks : Insert(b)
  <2>1. UNCHANGED <<nfHead, nfTail, gTail, gAvail, gpc, out>>
    BY <1>1 DEF InsStop, InsRoom, InsClaim, Insert, ring, get
  <2>2. dpc' \in {"claim", "dsp"} =>
          dpc \in {"claim", "dsp"} \/ Fill <= PcmFrames - Chunk
    BY <1>1 DEF InsStop, InsRoom, InsClaim, Insert, At
  <2>3. dpc' \notin {"publish", "kick"} /\ dpc \notin {"publish", "switch"}
    BY <1>1 DEF InsStop, InsRoom, InsClaim, Insert, At
  <2> QED BY <2>1, <2>2, <2>3, QuietStep
<1>2. ASSUME NEW n \in OutSizes, InsWrite(n)
      PROVE  OverInv'
  <2>1. /\ out' = n /\ dpc = "dsp" /\ dpc' = "publish"
        /\ UNCHANGED <<nfHead, nfTail, gTail, gAvail, gpc>>
    BY <1>2 DEF InsWrite, get, At
  <2>2. n \in 0 .. Chunk
    BY DEF NoUpsampling
  <2>3. Fill' = Fill /\ FillOf(nfHead, gTail)' = FillOf(nfHead, gTail)
    BY <2>1 DEF Fill, FillOf
  <2>4. Fill' + out' <= PcmFrames
    <3>1. Fill <= PcmFrames - Chunk
      BY <2>1 DEF OverInv, RoomInv
    <3> QED BY <1>0, <2>1, <2>2, <2>3, <3>1, Sizes DEF Counter
  <2>5. CounterType'
    BY <2>1, <2>2 DEF OverInv, CounterType
  <2>6. RoomInv'
    BY <1>0, <2>1, <2>3, <2>4 DEF RoomInv
  <2>7. GetInv'
    BY <2>1, <2>3 DEF OverInv, GetInv
  <2> QED BY <2>5, <2>6, <2>7 DEF OverInv
<1>3. CASE InsPublish
  <2>1. /\ nfHead' = (nfHead + out) % Wrap /\ out' = 0
        /\ dpc = "publish" /\ dpc' \in {"wait", "codec"}
        /\ UNCHANGED <<nfTail, gTail, gAvail, gpc>>
    BY <1>3 DEF InsPublish, get, At
  <2>2. /\ out \in Nat /\ out <= Chunk /\ Fill + out <= PcmFrames
        /\ out \in 0 .. Wrap - 1
        /\ nfHead \in Counter /\ nfTail \in Counter /\ gTail \in Counter
    BY <2>1, Sizes DEF OverInv, CounterType, RoomInv
  <2>3. nfHead' \in Counter
    BY <2>1, <2>2, Moved
  <2>4. Fill' = Fill + out
    <3>1. FillOf(nfHead, nfTail) + out < Wrap
      BY <1>0, <2>2, Sizes DEF Fill, Counter
    <3>2. FillOf((nfHead + out) % Wrap, nfTail) = FillOf(nfHead, nfTail) + out
      BY <2>2, <3>1, FillPut
    <3> QED BY <2>1, <3>2 DEF Fill
  <2>5. CounterType'
    BY <2>1, <2>3, Sizes DEF OverInv, CounterType
  <2>6. RoomInv'
    BY <2>1, <2>2, <2>4 DEF RoomInv
  <2>7. gpc # "idle" => nfTail = gTail
    BY <2>1 DEF OverInv, GetInv
  <2>8. gpc # "idle" => FillOf(nfHead, gTail)' = Fill + out
    BY <2>1, <2>4, <2>7 DEF Fill
  <2>9. gpc # "idle" => gAvail <= Fill
    BY <2>7 DEF OverInv, GetInv, Fill
  <2>10. GetInv'
    <3>1. gAvail \in Nat /\ Fill \in Nat
      BY <1>0 DEF OverInv, CounterType, Counter
    <3>2. gpc # "idle" => /\ gAvail <= FillOf(nfHead, gTail)'
                          /\ FillOf(nfHead, gTail)' <= PcmFrames
      BY <2>2, <2>8, <2>9, <3>1
    <3>3. gpc \in {"idle", "copy", "store"}
      BY DEF OverInv, GetInv
    <3> QED BY <2>1, <2>7, <3>2, <3>3 DEF GetInv
  <2> QED BY <2>5, <2>6, <2>10 DEF OverInv
<1> QED BY <1>1, <1>2, <1>3 DEF Inserts

-----------------------------------------------------------------------------
LEMMA OverStep == ASSUME NoUpsampling, OverInv, [Next]_vars
                  PROVE  OverInv'
<1>1. CASE UNCHANGED vars
  BY <1>1, QuietStep DEF vars
<1> QED BY <1>1, MixerStep, UserStep, RateStep, InsertStep DEF Next

\* The inductive invariant holds in every reachable state.
THEOREM OverInvariant == ASSUME NoUpsampling
                         PROVE  Spec => []OverInv
<1>1. OverInv /\ [Next]_vars => OverInv'
  BY OverStep
<1> QED BY <1>1, InitOver, PTL DEF Spec

\* When no chunk grows in the DSP, the decoder never runs the PCM thread over,
\* although both write nf_tail and the counters wrap (nf_pcm_insert(),
\* nf_get_more(), nf_apply_rate()).
THEOREM DecoderStaysBehind == ASSUME NoUpsampling
                              PROVE  Spec => []NoOverrun
<1>1. OverInv => NoOverrun
  <2> SUFFICES ASSUME OverInv PROVE NoOverrun
    OBVIOUS
  <2>1. Fill \in Counter
    BY FillIs DEF OverInv, CounterType, Fill
  <2>2. CASE At("publish")
    BY <2>2 DEF OverInv, RoomInv, NoOverrun, At
  <2>3. CASE ~At("publish")
    BY <2>1, <2>3 DEF OverInv, RoomInv, NoOverrun, Counter
  <2> QED BY <2>2, <2>3
<1> QED BY <1>1, OverInvariant, PTL

-----------------------------------------------------------------------------
\* Places in the ring.

Place == 0 .. PcmFrames - 1

LEMMA Multiple == \E k \in Nat : Wrap = k * PcmFrames
<1> DEFINE k == Wrap \div PcmFrames
<1>1. Wrap = k * PcmFrames + (Wrap % PcmFrames) /\ k \in Int
  BY Sizes
<1>2. Wrap % PcmFrames = 0
  BY PcmAssumption
<1>3. k \in Nat /\ Wrap = k * PcmFrames
  BY <1>1, <1>2, Sizes
<1> QED BY <1>3

LEMMA SlotUnique ==
  ASSUME NEW i \in Int, NEW q \in Int, NEW r \in Place, i = q * PcmFrames + r
  PROVE  Slot(i) = r
<1> DEFINE d == i \div PcmFrames
           m == i % PcmFrames
<1>1. d \in Int /\ m \in Place /\ i = d * PcmFrames + m
  BY Sizes DEF Place
<1> HIDE DEF d, m
<1>2. (q - d) * PcmFrames = m - r
  <2>1. (q - d) * PcmFrames = q * PcmFrames - d * PcmFrames
    BY Sizes, <1>1
  <2> QED BY <1>1, <2>1, Sizes DEF Place
<1>3. CASE q - d >= 1
  <2>1. (q - d) * PcmFrames >= PcmFrames
    BY <1>3, <1>1, Sizes
  <2> QED BY <2>1, <1>1, <1>2, Sizes DEF Place
<1>4. CASE q - d <= -1
  <2>1. (q - d) * PcmFrames <= 0 - PcmFrames
    BY <1>4, <1>1, Sizes
  <2> QED BY <2>1, <1>1, <1>2, Sizes DEF Place
<1>5. CASE q - d = 0
  BY <1>5, <1>1, <1>2, Sizes DEF Place, m, Slot
<1> QED BY <1>1, <1>3, <1>4, <1>5

LEMMA SlotOf ==
  ASSUME NEW i \in Int
  PROVE  Slot(i) \in Place /\ \E q \in Int : i = q * PcmFrames + Slot(i)
<1>1. /\ i = (i \div PcmFrames) * PcmFrames + (i % PcmFrames)
      /\ i \div PcmFrames \in Int /\ i % PcmFrames \in Place
  BY Sizes DEF Place
<1> QED BY <1>1 DEF Slot

LEMMA SameSlot ==
  ASSUME NEW i \in Int, NEW k \in Int
  PROVE  Slot(i + k * PcmFrames) = Slot(i)
<1>1. PICK q \in Int : i = q * PcmFrames + Slot(i)
  BY SlotOf
<1>2. i + k * PcmFrames = (q + k) * PcmFrames + Slot(i)
  <2>1. (q + k) * PcmFrames = q * PcmFrames + k * PcmFrames
    BY Sizes
  <2>2. Slot(i) \in Int /\ q * PcmFrames \in Int /\ k * PcmFrames \in Int
    BY SlotOf, Sizes DEF Place
  <2> QED BY <1>1, <2>1, <2>2
<1>3. i + k * PcmFrames \in Int /\ q + k \in Int /\ Slot(i) \in Place
  BY SlotOf, Sizes
<1> QED BY <1>2, <1>3, SlotUnique

\* A counter that wraps keeps its place.
LEMMA SlotMoved ==
  ASSUME NEW t \in Counter, NEW n \in 0 .. Wrap - 1, NEW j \in Int
  PROVE  Slot(((t + n) % Wrap) + j) = Slot((t + n) + j)
<1> DEFINE m == (t + n) % Wrap
<1>1. m = IF t + n < Wrap THEN t + n ELSE (t + n) - Wrap
  BY Moved
<1> HIDE DEF m
<1>2. CASE t + n < Wrap
  BY <1>1, <1>2 DEF m
<1>3. CASE ~(t + n < Wrap)
  <2>1. PICK k \in Nat : Wrap = k * PcmFrames
    BY Multiple
  <2>2. t \in Int /\ n \in Int /\ (t + n) + j \in Int /\ -k \in Int
    BY <2>1, Sizes DEF Counter
  <2>3. (-k) * PcmFrames = -(k * PcmFrames)
    BY <2>1, Sizes
  <2>4. m + j = ((t + n) + j) + (-k) * PcmFrames
    BY <1>1, <1>3, <2>1, <2>2, <2>3, Sizes
  <2>5. Slot(((t + n) + j) + (-k) * PcmFrames) = Slot((t + n) + j)
    BY <2>2, SameSlot
  <2> QED BY <2>4, <2>5 DEF m
<1> QED BY <1>2, <1>3

\* The head is a fill ahead of the tail.
LEMMA HeadSlot ==
  ASSUME NEW h \in Counter, NEW t \in Counter, NEW e \in Int
  PROVE  Slot(h + e) = Slot(t + (FillOf(h, t) + e))
<1> DEFINE f == FillOf(h, t)
<1>1. f \in Counter /\ f = IF h >= t THEN h - t ELSE h + (Wrap - t)
  BY FillIs
<1> HIDE DEF f
<1>2. f \in 0 .. Wrap - 1
  BY <1>1 DEF Counter
<1>3. (t + f) % Wrap = IF t + f < Wrap THEN t + f ELSE (t + f) - Wrap
  BY <1>2, Moved
<1>4. (t + f) % Wrap = h
  BY <1>1, <1>3, Sizes DEF Counter
<1>5. Slot(((t + f) % Wrap) + e) = Slot((t + f) + e)
  BY <1>2, SlotMoved
<1>6. (t + f) + e = t + (f + e)
  BY <1>1 DEF Counter
<1> QED BY <1>4, <1>5, <1>6 DEF f

\* What InsWrite computes of a place is its distance from the head.
LEMMA Distance ==
  ASSUME NEW h \in Counter, NEW e \in Place
  PROVE  Slot(Slot(h + e) + (PcmFrames - Slot(h))) = e
<1> DEFINE a == Slot(h + e)
           b == Slot(h)
<1>0. h \in Int /\ e \in Int /\ h + e \in Int
  BY Sizes DEF Counter, Place
<1>1. PICK q \in Int : h + e = q * PcmFrames + a
  BY <1>0, SlotOf
<1>2. PICK r \in Int : h = r * PcmFrames + b
  BY <1>0, SlotOf
<1>3. a \in Place /\ b \in Place
  BY <1>0, SlotOf
<1> HIDE DEF a, b
<1>4. ((r - q) + 1) * PcmFrames = (r * PcmFrames - q * PcmFrames) + PcmFrames
  BY Sizes
<1>5. a \in Int /\ b \in Int /\ q * PcmFrames \in Int /\ r * PcmFrames \in Int /\ PcmFrames \in Int
  BY <1>3, Sizes DEF Place
<1>6. a + (PcmFrames - b) = ((r - q) + 1) * PcmFrames + e
  BY <1>0, <1>1, <1>2, <1>4, <1>5
<1>7. a + (PcmFrames - b) \in Int /\ (r - q) + 1 \in Int
  BY <1>5
<1> QED BY <1>6, <1>7, SlotUnique DEF a, b

-----------------------------------------------------------------------------
\* What is where: the frames from a counter up to the head are the newest.

Ahead(t) == FillOf(nfHead, t)
Holds(t) == \A j \in 0 .. Ahead(t) - 1 : nfRing[Slot(t + j)] = (made - Ahead(t)) + 1 + j

\* Between dsp_process() and the new nf_head the frames lie beyond the head.
Stored ==
  dpc = "publish" =>
    /\ made + out <= MaxMade
    /\ \A e \in 0 .. out - 1 : nfRing[Slot(nfHead + e)] = made + 1 + e
Loaded == gpc # "idle" => Holds(gTail)
Copied == gpc = "store" => obuf = [i \in 1 .. gAvail |-> (made - Ahead(gTail)) + i]
Follows ==
  /\ gpc = "idle" => made - Ahead(nfTail) \in {heard} \cup cuts
  /\ gpc # "idle" => made - Ahead(gTail) \in {heard} \cup cuts
Content == Holds(nfTail) /\ Stored /\ Loaded /\ Copied /\ Follows

Working == dpc \in {"wait", "claim", "dsp", "publish"} => left > 0
Typed == TypeOK /\ Working

LEMMA Basics ==
  ASSUME OverInv, Typed
  PROVE  /\ nfHead \in Counter /\ nfTail \in Counter /\ gTail \in Counter
         /\ gAvail \in Nat /\ out \in Nat /\ made \in Nat /\ made <= MaxMade /\ MaxMade \in Nat
         /\ heard \in Number /\ cuts \subseteq Number
         /\ nfRing \in [Place -> Number]
         /\ Ahead(nfTail) \in Counter /\ Ahead(gTail) \in Counter
         /\ Ahead(nfTail) \in Nat /\ Ahead(gTail) \in Nat /\ Fill = Ahead(nfTail)
<1>1. /\ nfHead \in Counter /\ nfTail \in Counter /\ gTail \in Counter
      /\ gAvail \in Nat /\ out \in Nat
  BY Sizes DEF OverInv, CounterType
<1>2. /\ made \in Nat /\ made <= MaxMade /\ heard \in Number /\ cuts \subseteq Number
      /\ nfRing \in [Place -> Number] /\ MaxMade \in Nat
  BY PcmAssumption DEF Typed, TypeOK, Number, Place
<1>3. Ahead(nfTail) \in Counter /\ Ahead(gTail) \in Counter /\ Fill = Ahead(nfTail)
  BY <1>1, FillIs DEF Ahead, Fill
<1>4. Ahead(nfTail) \in Nat /\ Ahead(gTail) \in Nat
  BY <1>3, Sizes DEF Counter
<1> QED BY <1>1, <1>2, <1>3, <1>4

\* The n oldest frames from a counter on, and the last of them.
LEMMA FramesAre ==
  ASSUME NEW t \in Counter, NEW n \in Nat, n <= Ahead(t), Holds(t), Ahead(t) \in Nat,
         made \in Nat, nfRing \in [Place -> Number]
  PROVE  /\ Frames(t, n) = [i \in 1 .. n |-> (made - Ahead(t)) + i]
         /\ Frames(t, n) \in Seq(Number)
         /\ LastHeard(Frames(t, n)) = IF n = 0 THEN heard ELSE (made - Ahead(t)) + n
<1> DEFINE F == Frames(t, n)
           G == [i \in 1 .. n |-> (made - Ahead(t)) + i]
<1>1. ASSUME NEW i \in 1 .. n
      PROVE  nfRing[Slot(t + (i - 1))] = (made - Ahead(t)) + i
  <2>1. i - 1 \in 0 .. Ahead(t) - 1
    OBVIOUS
  <2>2. nfRing[Slot(t + (i - 1))] = (made - Ahead(t)) + 1 + (i - 1)
    BY <2>1 DEF Holds
  <2> QED BY <2>2
<1>2. F = G
  BY <1>1 DEF Frames
<1>3. ASSUME NEW i \in 1 .. n
      PROVE  nfRing[Slot(t + (i - 1))] \in Number
  <2>1. t + (i - 1) \in Int
    BY Sizes DEF Counter
  <2> QED BY <2>1, SlotOf
<1>4. F \in Seq(Number)
  BY <1>3 DEF Frames
<1>5. Len(G) = n
  OBVIOUS
<1>6. CASE n = 0
  <2>1. Frames(t, n) = << >>
    BY <1>6 DEF Frames
  <2> QED BY <1>2, <1>4, <1>6, <2>1 DEF LastHeard
<1>7. CASE n # 0
  <2>1. F # << >>
    BY <1>2, <1>5, <1>7
  <2>2. G[n] = (made - Ahead(t)) + n
    BY <1>7
  <2>3. LastHeard(F) = (made - Ahead(t)) + n
    BY <1>2, <1>5, <2>1, <2>2 DEF LastHeard
  <2> QED BY <1>2, <1>4, <1>7, <2>3
<1> QED BY <1>6, <1>7

LEMMA TailForward ==
  ASSUME NEW t \in Counter, NEW n \in Nat, n <= Ahead(t), Holds(t), nfHead \in Counter, made \in Nat
  PROVE  LET u == (t + n) % Wrap
         IN  u \in Counter /\ Ahead(u) = Ahead(t) - n /\ Holds(u)
<1> DEFINE u == (t + n) % Wrap
<1>1. Ahead(t) \in Counter /\ Ahead(t) \in Nat
  BY FillIs, Sizes DEF Ahead, Counter
<1>2. n \in 0 .. Wrap - 1
  BY <1>1, Sizes DEF Counter
<1>3. u \in Counter
  BY <1>2, Moved
<1>4. Ahead(u) = Ahead(t) - n
  BY FillTake DEF Ahead
<1>5. ASSUME NEW j \in 0 .. (Ahead(t) - n) - 1
      PROVE  nfRing[Slot(u + j)] = (made - (Ahead(t) - n)) + 1 + j
  <2>1. Slot(u + j) = Slot((t + n) + j)
    BY <1>2, SlotMoved
  <2>2. (t + n) + j = t + (n + j) /\ n + j \in 0 .. Ahead(t) - 1
    BY <1>1 DEF Counter
  <2>3. nfRing[Slot(t + (n + j))] = (made - Ahead(t)) + 1 + (n + j)
    BY <2>2 DEF Holds
  <2>4. (made - Ahead(t)) + 1 + (n + j) = (made - (Ahead(t) - n)) + 1 + j
    BY <1>1
  <2> QED BY <2>1, <2>2, <2>3, <2>4
<1> HIDE DEF u
<1>6. Holds(u)
  BY <1>4, <1>5 DEF Holds
<1> QED BY <1>3, <1>4, <1>6 DEF u

\* The store of dsp_process()'s frames leaves what waits alone.
LEMMA WriteHolds ==
  ASSUME NEW t \in Counter, NEW n \in Nat, InsWrite(n), nfHead \in Counter, made \in Nat,
         Ahead(t) + n <= PcmFrames, Ahead(t) \in Nat
  PROVE  \A j \in 0 .. Ahead(t) - 1 : nfRing'[Slot(t + j)] = nfRing[Slot(t + j)]
<1> DEFINE f == Ahead(t)
<1> SUFFICES ASSUME NEW j \in 0 .. f - 1
             PROVE  nfRing'[Slot(t + j)] = nfRing[Slot(t + j)]
  OBVIOUS
<1> DEFINE e == (j - f) + PcmFrames
           i == Slot(t + j)
<1>1. e \in Place /\ e >= n /\ e \in Int /\ t + j \in Int
  BY Sizes DEF Place, Counter
<1>2. Slot(nfHead + e) = Slot(t + (FillOf(nfHead, t) + e))
  BY <1>1, HeadSlot
<1>3. t + (f + e) = (t + j) + 1 * PcmFrames
  BY Sizes DEF Counter
<1>4. Slot((t + j) + 1 * PcmFrames) = i
  BY <1>1, SameSlot
<1>5. Slot(nfHead + e) = i
  BY <1>2, <1>3, <1>4 DEF Ahead
<1>6. Slot(Slot(nfHead + e) + (PcmFrames - Slot(nfHead))) = e
  BY <1>1, Distance
<1>7. i \in Place
  BY <1>1, SlotOf
<1> HIDE DEF e, i
<1>8. nfRing'[i] = IF Slot(i + (PcmFrames - Slot(nfHead))) < n
                   THEN made + 1 + Slot(i + (PcmFrames - Slot(nfHead))) ELSE nfRing[i]
  BY <1>7 DEF InsWrite, Place
<1>9. ~(e < n)
  BY <1>1
<1>10. nfRing'[i] = nfRing[i]
  BY <1>5, <1>6, <1>8, <1>9
<1> QED BY <1>10 DEF i

\* ... and puts the new ones beyond the head.
LEMMA WriteStores ==
  ASSUME NEW n \in Nat, InsWrite(n), n <= PcmFrames, nfHead \in Counter, made \in Nat,
         nfRing \in [Place -> Number]
  PROVE  /\ \A e \in 0 .. n - 1 : nfRing'[Slot(nfHead + e)] = made + 1 + e
         /\ nfRing' \in [Place -> Number] /\ made + n <= MaxMade
<1> DEFINE d(i) == Slot(i + (PcmFrames - Slot(nfHead)))
<1>1. \A i \in Place : nfRing'[i] = IF d(i) < n THEN made + 1 + d(i) ELSE nfRing[i]
  BY DEF InsWrite, Place
<1>2. ASSUME NEW e \in 0 .. n - 1
      PROVE  nfRing'[Slot(nfHead + e)] = made + 1 + e
  <2>1. e \in Place /\ nfHead + e \in Int /\ e < n
    BY Sizes DEF Place, Counter
  <2>2. Slot(nfHead + e) \in Place
    BY <2>1, SlotOf
  <2>3. d(Slot(nfHead + e)) = e
    BY <2>1, Distance
  <2> HIDE DEF d
  <2> QED BY <1>1, <2>1, <2>2, <2>3
<1>3. made + n <= MaxMade
  BY DEF InsWrite
<1>4. ASSUME NEW i \in Place
      PROVE  nfRing'[i] \in Number
  <2>1. i + (PcmFrames - Slot(nfHead)) \in Int
    <3>1. nfHead \in Int
      BY Sizes DEF Counter
    <3>2. Slot(nfHead) \in Int
      BY <3>1, SlotOf, Sizes DEF Place
    <3> QED BY <3>2, Sizes DEF Place
  <2>2. d(i) \in Place
    BY <2>1, SlotOf
  <2> HIDE DEF d
  <2>3. CASE d(i) < n
    <3>1. made + 1 + d(i) \in Number
      BY <1>3, <2>2, <2>3, PcmAssumption, Sizes DEF Place, Number
    <3> QED BY <1>1, <2>3, <3>1
  <2>4. CASE ~(d(i) < n)
    BY <1>1, <2>4
  <2> QED BY <2>3, <2>4
<1>5. nfRing' = [i \in Place |-> nfRing'[i]]
  BY DEF InsWrite, Place
<1>6. nfRing' \in [Place -> Number]
  BY <1>4, <1>5
<1> QED BY <1>2, <1>3, <1>6

\* The new head takes the stored frames in.
LEMMA PublishHolds ==
  ASSUME NEW t \in Counter, NEW n \in Nat, nfHead \in Counter, made \in Nat, Ahead(t) \in Nat,
         Ahead(t) + n <= PcmFrames, Holds(t),
         \A e \in 0 .. n - 1 : nfRing[Slot(nfHead + e)] = made + 1 + e
  PROVE  /\ FillOf((nfHead + n) % Wrap, t) = Ahead(t) + n
         /\ \A j \in 0 .. (Ahead(t) + n) - 1 :
              nfRing[Slot(t + j)] = (made - Ahead(t)) + 1 + j
<1>1. FillOf((nfHead + n) % Wrap, t) = Ahead(t) + n
  BY FillPut, Sizes DEF Ahead
<1>2. ASSUME NEW j \in 0 .. (Ahead(t) + n) - 1
      PROVE  nfRing[Slot(t + j)] = (made - Ahead(t)) + 1 + j
  <2>1. CASE j < Ahead(t)
    <3>1. j \in 0 .. Ahead(t) - 1
      BY <2>1
    <3> QED BY <3>1 DEF Holds
  <2>2. CASE ~(j < Ahead(t))
    <3> DEFINE e == j - Ahead(t)
    <3>1. e \in 0 .. n - 1 /\ e \in Int
      BY <2>2
    <3>2. Slot(nfHead + e) = Slot(t + (Ahead(t) + e))
      BY <3>1, HeadSlot DEF Ahead
    <3>3. Ahead(t) + e = j
      OBVIOUS
    <3>4. nfRing[Slot(nfHead + e)] = made + 1 + e
      BY <3>1
    <3>5. made + 1 + e = (made - Ahead(t)) + 1 + j
      OBVIOUS
    <3> HIDE DEF e
    <3> QED BY <3>2, <3>3, <3>4, <3>5
  <2> QED BY <2>1, <2>2
<1> QED BY <1>1, <1>2

-----------------------------------------------------------------------------
\* The steps, on what is where.

OrderInv == OverInv /\ Typed /\ Content

LEMMA OrderInit == NoUpsampling /\ Init => OrderInv
<1> SUFFICES ASSUME NoUpsampling, Init
             PROVE  OrderInv
  OBVIOUS
<1>1. OverInv
  BY InitOver
<1>2. TypeOK
  <2>1. nfRing \in [0 .. PcmFrames - 1 -> Number] /\ made \in Number /\ heard \in Number
    BY PcmAssumption DEF Init, Number
  <2>2. nfHead \in Counter /\ nfTail \in Counter /\ gTail \in Counter /\ gAvail \in 0 .. Chunk
    BY Sizes DEF Init, Counter
  <2>3. obuf \in Seq(Number) /\ starts \in 0 .. MaxStart
    BY PcmAssumption DEF Init
  <2> QED BY <2>1, <2>2, <2>3 DEF Init, TypeOK
<1>3. Working
  BY DEF Init, Working
<1>4. Ahead(nfTail) = 0
  BY FillSame, Sizes DEF Init, Ahead, Counter
<1>5. Content
  BY <1>4 DEF Init, Content, Holds, Stored, Loaded, Copied, Follows
<1> QED BY <1>1, <1>2, <1>3, <1>5 DEF OrderInv, Typed

\* Neither the ring nor nf_get_more() moves.
LEMMA ContentStays ==
  ASSUME Content, UNCHANGED <<ring, get, made, heard, cuts, out>>,
         dpc' = "publish" => dpc = "publish"
  PROVE  Content'
<1> USE DEF ring, get
<1>1. Holds(nfTail)' /\ Loaded'
  BY DEF Content, Loaded, Holds, Ahead
<1>2. Stored'
  BY DEF Content, Stored
<1>3. Copied' /\ Follows'
  BY DEF Content, Copied, Follows, Ahead
<1> QED BY <1>1, <1>2, <1>3 DEF Content

\* A whole nf_get_more() on the decoder.
LEMMA GetMoreContent ==
  ASSUME OrderInv, GetMore, gpc = "idle", dpc' # "publish",
         UNCHANGED <<nfRing, nfHead, get, made, cuts>>
  PROVE  Content' /\ heard' \in Number
<1> USE DEF get
<1>0. PICK t \in Counter : t = nfTail
  BY Basics DEF OrderInv
<1>1. PICK n \in Nat : n = MinOf(Fill, Chunk) /\ n <= Ahead(t)
  BY <1>0, Basics, Sizes DEF OrderInv, MinOf
<1>2. /\ nfHead \in Counter /\ made \in Nat /\ Ahead(t) \in Nat /\ Holds(t)
      /\ nfRing \in [Place -> Number] /\ heard \in Number /\ made - Ahead(t) \in {heard} \cup cuts
      /\ cuts \subseteq Number /\ made <= MaxMade /\ MaxMade \in Nat
  BY <1>0, Basics DEF OrderInv, Content, Follows
<1> DEFINE u == (t + n) % Wrap
<1>3. u \in Counter /\ Ahead(u) = Ahead(t) - n /\ Holds(u)
  BY <1>1, <1>2, TailForward
<1>4. heard' = IF n = 0 THEN heard ELSE (made - Ahead(t)) + n
  <2>1. LastHeard(Frames(t, n)) = IF n = 0 THEN heard ELSE (made - Ahead(t)) + n
    BY <1>1, <1>2, FramesAre
  <2>2. heard' = LastHeard(Frames(t, n))
    BY <1>0, <1>1 DEF GetMore
  <2> QED BY <2>1, <2>2
<1>5. nfTail' = u
  BY <1>0, <1>1 DEF GetMore
<1> HIDE DEF u
<1>6. Holds(nfTail)'
  BY <1>3, <1>5 DEF Holds, Ahead
<1>7. Follows'
  <2>1. Ahead(nfTail)' = Ahead(t) - n
    BY <1>3, <1>5 DEF Ahead
  <2>2. made - (Ahead(t) - n) \in {heard'} \cup cuts
    <3>1. CASE n = 0
      BY <1>2, <1>4, <3>1
    <3>2. CASE n # 0
      BY <1>2, <1>4, <3>2
    <3> QED BY <3>1, <3>2
  <2> QED BY <2>1, <2>2 DEF Follows
<1>8. Stored' /\ Loaded' /\ Copied'
  BY DEF Stored, Loaded, Copied
<1>9. heard' \in Number
  <2>1. made - Ahead(t) \in Number /\ (made - Ahead(t)) + n \in Number
    BY <1>1, <1>2 DEF Number
  <2> QED BY <1>2, <1>4, <2>1
<1> QED BY <1>6, <1>7, <1>8, <1>9 DEF Content

\* The mixer's nf_get_more().
LEMMA MixerContent ==
  ASSUME OrderInv, Mixer
  PROVE  Content' /\ heard' \in Number /\ obuf' \in Seq(Number)
<1>0. /\ heard \in Number /\ obuf \in Seq(Number) /\ nfHead \in Counter /\ made \in Nat
      /\ nfTail \in Counter /\ gTail \in Counter /\ Ahead(gTail) \in Nat /\ gAvail \in Nat
      /\ nfRing \in [Place -> Number]
  BY Basics DEF OrderInv, Typed, TypeOK
<1>1. CASE GmLoad
  <2>1. /\ gpc' = "copy" /\ gTail' = nfTail /\ gpc = "idle"
        /\ UNCHANGED <<nfRing, nfHead, nfTail, dpc, out, obuf, made, heard, cuts>>
    BY <1>1 DEF GmLoad, ring
  <2>2. Holds(nfTail)' /\ Loaded'
    BY <2>1 DEF OrderInv, Content, Loaded, Holds, Ahead
  <2>3. Stored' /\ Copied' /\ Follows'
    BY <2>1 DEF OrderInv, Content, Stored, Copied, Follows, Ahead
  <2> QED BY <1>0, <2>1, <2>2, <2>3 DEF Content
<1>2. CASE GmCopy
  <2>1. /\ gpc = "copy" /\ gpc' = "store" /\ obuf' = Frames(gTail, gAvail)
        /\ UNCHANGED <<nfRing, nfHead, nfTail, dpc, out, gTail, gAvail, made, heard, cuts>>
    BY <1>2 DEF GmCopy, ring
  <2>2. Holds(gTail) /\ gAvail <= Ahead(gTail)
    BY <2>1 DEF OrderInv, Content, Loaded, OverInv, GetInv, Ahead
  <2>3. /\ obuf' = [i \in 1 .. gAvail |-> (made - Ahead(gTail)) + i]
        /\ obuf' \in Seq(Number)
    BY <1>0, <2>1, <2>2, FramesAre
  <2>4. Holds(nfTail)' /\ Loaded'
    BY <2>1, <2>2 DEF OrderInv, Content, Loaded, Holds, Ahead
  <2>5. Stored' /\ Follows'
    BY <2>1 DEF OrderInv, Content, Stored, Follows, Ahead
  <2>6. Copied'
    BY <2>1, <2>3 DEF Copied, Ahead
  <2> QED BY <1>0, <2>1, <2>3, <2>4, <2>5, <2>6 DEF Content
<1>3. CASE GmStore
  <2>0. PICK t \in Counter, n \in Nat : t = gTail /\ n = gAvail
    BY <1>0
  <2>1. /\ gpc = "store" /\ gpc' = "idle" /\ nfTail' = (t + n) % Wrap /\ obuf' = << >>
        /\ heard' = LastHeard(obuf)
        /\ UNCHANGED <<nfRing, nfHead, dpc, out, made, cuts>>
    BY <1>3, <2>0 DEF GmStore
  <2>2. Holds(t) /\ n <= Ahead(t) /\ made - Ahead(t) \in {heard} \cup cuts /\ Ahead(t) \in Nat
    BY <1>0, <2>0, <2>1 DEF OrderInv, Content, Loaded, Follows, OverInv, GetInv, Ahead
  <2>3. heard' = IF n = 0 THEN heard ELSE (made - Ahead(t)) + n
    <3>1. obuf = [i \in 1 .. n |-> (made - Ahead(t)) + i]
      BY <2>0, <2>1 DEF OrderInv, Content, Copied
    <3>2. Frames(t, n) = [i \in 1 .. n |-> (made - Ahead(t)) + i]
          /\ LastHeard(Frames(t, n)) = IF n = 0 THEN heard ELSE (made - Ahead(t)) + n
      BY <1>0, <2>2, FramesAre
    <3> QED BY <2>1, <3>1, <3>2
  <2>4. heard' \in Number
    <3>1. CASE obuf = << >>
      BY <1>0, <2>1, <3>1 DEF LastHeard
    <3>2. CASE obuf # << >>
      <4>1. Len(obuf) \in 1 .. Len(obuf)
        BY <1>0, <3>2
      <4>2. obuf[Len(obuf)] \in Number
        BY <1>0, <4>1
      <4> QED BY <2>1, <3>2, <4>2 DEF LastHeard
    <3> QED BY <3>1, <3>2
  <2> DEFINE u == (t + n) % Wrap
  <2>5. u \in Counter /\ Ahead(u) = Ahead(t) - n /\ Holds(u)
    BY <1>0, <2>2, TailForward
  <2>6. nfTail' = u
    BY <2>1
  <2> HIDE DEF u
  <2>7. Holds(nfTail)'
    BY <2>1, <2>5, <2>6 DEF Holds, Ahead
  <2>8. Follows'
    <3>1. Ahead(nfTail)' = Ahead(t) - n
      BY <2>1, <2>5, <2>6 DEF Ahead
    <3>2. made - (Ahead(t) - n) \in {heard'} \cup cuts
      <4>1. CASE n = 0
        BY <1>0, <2>2, <2>3, <4>1
      <4>2. CASE n # 0
        BY <1>0, <2>2, <2>3, <4>2
      <4> QED BY <4>1, <4>2
    <3> QED BY <2>1, <3>1, <3>2 DEF Follows
  <2>9. Stored' /\ Loaded' /\ Copied'
    BY <2>1 DEF OrderInv, Content, Stored, Loaded, Copied
  <2>10. obuf' \in Seq(Number)
    BY <2>1
  <2> QED BY <2>4, <2>7, <2>8, <2>9, <2>10 DEF Content
<1> QED BY <1>1, <1>2, <1>3 DEF Mixer

\* A new session, and the change of the rate.
LEMMA StartRateContent ==
  ASSUME OrderInv, Start \/ RateDrop \/ RateSwitch \/ RateKick
  PROVE  Content' /\ heard' \in Number /\ cuts' \subseteq Number
<1>0. /\ heard \in Number /\ cuts \subseteq Number /\ made \in Number /\ nfHead \in Counter
      /\ made \in Nat
  BY Basics DEF OrderInv, Typed, TypeOK
<1>1. CASE Start
  <2>1. /\ nfHead' = 0 /\ nfTail' = 0 /\ gpc = "idle" /\ gpc' = "idle" /\ dpc' = "codec"
        /\ heard' = made /\ cuts' = {} /\ UNCHANGED <<nfRing, made>>
    BY <1>1 DEF Start, get
  <2>2. Ahead(nfTail)' = 0
    BY <2>1, FillSame, Sizes DEF Ahead, Counter
  <2>3. Content'
    BY <1>0, <2>1, <2>2 DEF Content, Holds, Stored, Loaded, Copied, Follows
  <2> QED BY <1>0, <2>1, <2>3
<1>2. CASE RateDrop
  <2>1. /\ nfTail' = nfHead /\ cuts' = cuts \cup {made} /\ dpc' = "switch"
        /\ UNCHANGED <<nfRing, nfHead, gpc, gTail, gAvail, obuf, made, heard, out>>
    BY <1>2 DEF RateDrop, get
  <2>2. Ahead(nfTail)' = 0
    BY <1>0, <2>1, FillSame DEF Ahead
  <2>3. Holds(nfTail)' /\ Stored'
    BY <2>1, <2>2 DEF Holds, Stored
  <2>4. Loaded' /\ Copied'
    BY <2>1 DEF OrderInv, Content, Loaded, Copied, Holds, Ahead
  <2>5. Follows'
    BY <1>0, <2>1, <2>2 DEF OrderInv, Content, Follows, Ahead
  <2> QED BY <1>0, <2>1, <2>3, <2>4, <2>5 DEF Content
<1>3. CASE RateSwitch
  <2>1. /\ gpc = "idle" /\ dpc' = "kick" /\ UNCHANGED <<nfRing, nfHead, get, made, cuts, out>>
        /\ GetMore \/ UNCHANGED <<nfTail, heard>>
    BY <1>3 DEF RateSwitch
  <2>2. CASE GetMore
    BY <1>0, <2>1, <2>2, GetMoreContent
  <2>3. CASE UNCHANGED <<nfTail, heard>>
    BY <1>0, <2>1, <2>3, ContentStays DEF OrderInv, ring
  <2> QED BY <2>1, <2>2, <2>3
<1>4. CASE RateKick
  <2>1. /\ gpc = "idle" /\ dpc' = "codec" /\ UNCHANGED <<nfRing, nfHead, get, made, cuts>>
        /\ GetMore
    BY <1>4 DEF RateKick, At, OrderInv, OverInv, GetInv
  <2> QED BY <1>0, <2>1, GetMoreContent
<1> QED BY <1>1, <1>2, <1>3, <1>4

\* dsp_process() and its store, and the new nf_head.
LEMMA WriteContent ==
  ASSUME NoUpsampling, OrderInv, NEW n \in OutSizes, InsWrite(n)
  PROVE  Content' /\ nfRing' \in [Place -> Number]
<1>0. /\ nfHead \in Counter /\ nfTail \in Counter /\ made \in Nat /\ nfRing \in [Place -> Number]
      /\ Ahead(nfTail) \in Nat /\ Fill = Ahead(nfTail)
  BY Basics DEF OrderInv
<1>1. /\ dpc = "dsp" /\ dpc' = "publish" /\ out' = n
      /\ UNCHANGED <<nfHead, nfTail, gpc, gTail, gAvail, obuf, made, heard, cuts>>
  BY DEF InsWrite, At, get
<1>2. n \in Nat /\ n <= Chunk /\ n <= PcmFrames /\ Ahead(nfTail) + n <= PcmFrames
  BY <1>0, <1>1, Sizes DEF NoUpsampling, OrderInv, OverInv, RoomInv
<1>3. gpc # "idle" => gTail = nfTail
  BY <1>1 DEF OrderInv, OverInv, GetInv
<1>4. \A j \in 0 .. Ahead(nfTail) - 1 : nfRing'[Slot(nfTail + j)] = nfRing[Slot(nfTail + j)]
  BY <1>0, <1>2, WriteHolds
<1>5. Holds(nfTail)'
  BY <1>1, <1>4 DEF OrderInv, Content, Holds, Ahead
<1>6. Loaded'
  BY <1>1, <1>3, <1>5 DEF Loaded, Holds, Ahead
<1>7. /\ \A e \in 0 .. n - 1 : nfRing'[Slot(nfHead + e)] = made + 1 + e
      /\ nfRing' \in [Place -> Number] /\ made + n <= MaxMade
  BY <1>0, <1>2, WriteStores
<1>8. Stored'
  BY <1>1, <1>7 DEF Stored
<1>9. Copied' /\ Follows'
  BY <1>1 DEF OrderInv, Content, Copied, Follows, Ahead
<1> QED BY <1>5, <1>6, <1>7, <1>8, <1>9 DEF Content

LEMMA PublishContent ==
  ASSUME OrderInv, InsPublish
  PROVE  Content' /\ made' \in Number
<1>0. PICK t \in Counter, n \in Nat, h \in Counter, m \in Nat :
        t = nfTail /\ n = out /\ h = nfHead /\ m = made
  BY Basics DEF OrderInv
<1>1. /\ dpc = "publish" /\ nfHead' = (h + n) % Wrap /\ made' = m + n /\ dpc' # "publish"
      /\ UNCHANGED <<nfRing, nfTail, gpc, gTail, gAvail, obuf, heard, cuts>>
  BY <1>0 DEF InsPublish, At, get
<1>2. /\ Ahead(t) \in Nat /\ Ahead(t) + n <= PcmFrames /\ Holds(t) /\ m + n <= MaxMade
      /\ MaxMade \in Nat
      /\ \A e \in 0 .. n - 1 : nfRing[Slot(h + e)] = m + 1 + e
  BY <1>0, <1>1, Basics DEF OrderInv, OverInv, RoomInv, Content, Stored
<1>3. gpc # "idle" => gTail = t
  BY <1>0, <1>1 DEF OrderInv, OverInv, GetInv
<1>4. /\ FillOf((h + n) % Wrap, t) = Ahead(t) + n
      /\ \A j \in 0 .. (Ahead(t) + n) - 1 : nfRing[Slot(t + j)] = (m - Ahead(t)) + 1 + j
  BY <1>0, <1>2, PublishHolds
<1>5. made' - (Ahead(t) + n) = m - Ahead(t)
  BY <1>1, <1>2
<1>6. nfTail' = t /\ (gpc # "idle" => gTail' = t) /\ FillOf(nfHead', t) = Ahead(t) + n
  BY <1>0, <1>1, <1>3, <1>4
<1>7. \A j \in 0 .. FillOf(nfHead', t) - 1 :
        nfRing'[Slot(t + j)] = (made' - FillOf(nfHead', t)) + 1 + j
  BY <1>1, <1>4, <1>5, <1>6
<1>8. Holds(nfTail)' /\ Loaded'
  BY <1>1, <1>6, <1>7 DEF Holds, Loaded, Ahead
<1>9. made' - FillOf(nfHead', t) = made - Ahead(t)
  BY <1>0, <1>5, <1>6
<1>10. Copied'
  BY <1>0, <1>1, <1>3, <1>6, <1>9 DEF OrderInv, Content, Copied, Ahead
<1>11. Follows'
  BY <1>0, <1>1, <1>3, <1>6, <1>9 DEF OrderInv, Content, Follows, Ahead
<1>12. Stored'
  BY <1>1 DEF Stored
<1>13. made' \in Number
  BY <1>1, <1>2 DEF Number
<1> QED BY <1>8, <1>10, <1>11, <1>12, <1>13 DEF Content

-----------------------------------------------------------------------------
\* The types of what is not in the ring, and the chunks left.

Control ==
  /\ nfRate \in Rates \cup {0} /\ starts \in 0 .. MaxStart
  /\ dpc \in {"none", "codec", "drop", "switch", "kick", "wait", "claim", "dsp",
              "publish", "end"}
  /\ left \in Nat /\ out \in OutSizes \cup {0}
Flags == nfStopReq \in BOOLEAN /\ chanOn \in BOOLEAN /\ playbackBusy \in BOOLEAN

LEMMA FlagsStep == ASSUME Flags, [Next]_vars
                   PROVE  Flags'
<1>1. CASE UNCHANGED vars
  BY <1>1 DEF Flags, vars
<1>2. CASE Mixer
  BY <1>2 DEF Flags, Mixer, GmLoad, GmCopy, GmStore, ctl
<1>3. CASE User
  <2>1. nfStopReq' \in BOOLEAN
    BY <1>3, Zenon DEF Flags, User, Start, RequestStop, ChannelStop, LocalPlay, LocalEnd
  <2>2. chanOn' \in BOOLEAN
    BY <1>3, Zenon DEF Flags, User, Start, RequestStop, ChannelStop, LocalPlay, LocalEnd
  <2>3. CASE LocalEnd
    BY <2>3, <2>1, <2>2 DEF Flags, LocalEnd
  <2>4. CASE ~LocalEnd
    <3>1. playbackBusy' \in BOOLEAN
      BY <1>3, <2>4, Zenon DEF Flags, User, Start, RequestStop, ChannelStop, LocalPlay
    <3> QED BY <2>1, <2>2, <3>1 DEF Flags
  <2> QED BY <2>3, <2>4
<1>4. CASE Rate \/ Halt
  <2>1. nfStopReq' = nfStopReq /\ playbackBusy' = playbackBusy
    BY <1>4 DEF Rate, RateSet, RateDrop, RateSwitch, RateKick, Halt, ctl
  <2>2. chanOn' = chanOn \/ chanOn' = FALSE \/ chanOn' = TRUE
    BY <1>4, Zenon DEF Rate, RateSet, RateDrop, RateSwitch, RateKick, Halt, ctl
  <2> QED BY <2>1, <2>2 DEF Flags
<1>5. CASE Inserts
  BY <1>5 DEF Flags, Inserts, Insert, InsStop, InsRoom, InsClaim, InsWrite, InsPublish, ctl
<1> QED BY <1>1, <1>2, <1>3, <1>4, <1>5 DEF Next

LEMMA ControlStep == ASSUME Control, Working, [Next]_vars
                     PROVE  Control' /\ Working'
<1>1. CASE UNCHANGED vars
  BY <1>1 DEF Control, Working, vars
<1>2. CASE Mixer
  BY <1>2 DEF Control, Working, Mixer, GmLoad, GmCopy, GmStore, ctl
<1>3. CASE Start
  <2>1. starts' \in 0 .. MaxStart
    BY <1>3, PcmAssumption DEF Start, Control
  <2> QED BY <1>3, <2>1 DEF Control, Working, Start
<1>4. CASE RequestStop \/ ChannelStop \/ LocalPlay \/ LocalEnd \/ Halt
  BY <1>4 DEF Control, Working, RequestStop, ChannelStop, LocalPlay, LocalEnd, Halt, ctl
<1>5. CASE Rate
  BY <1>5 DEF Control, Working, Rate, RateSet, RateDrop, RateSwitch, RateKick, ctl, At
<1>6. ASSUME NEW b \in Blocks, Insert(b)
      PROVE  Control' /\ Working'
  <2>1. b \in Nat /\ b > 0
    BY PcmAssumption
  <2> QED BY <1>6, <2>1 DEF Control, Working, Insert, ctl
<1>7. CASE InsStop \/ InsRoom \/ InsClaim
  BY <1>7 DEF Control, Working, InsStop, InsRoom, InsClaim, ctl, At
<1>8. ASSUME NEW n \in OutSizes, InsWrite(n)
      PROVE  Control' /\ Working'
  BY <1>8 DEF Control, Working, InsWrite, ctl, At
<1>9. CASE InsPublish
  <2>1. left > 0 /\ left' = left - 1 /\ out' = 0 /\ left \in Nat
        /\ dpc' = IF left > 1 THEN "wait" ELSE "codec"
    BY <1>9 DEF InsPublish, At, Control, Working
  <2> QED BY <1>9, <2>1 DEF Control, Working, InsPublish, ctl
<1> QED BY <1>1, <1>2, <1>3, <1>4, <1>5, <1>6, <1>7, <1>8, <1>9 DEF Next, User, Inserts

\* The steps that leave both ends of the ring alone.
LEMMA StaysStep ==
  ASSUME OrderInv,
         \/ RequestStop \/ ChannelStop \/ LocalPlay \/ LocalEnd \/ Halt
         \/ \E r \in Rates : RateSet(r)
         \/ \E b \in Blocks : Insert(b)
         \/ InsStop \/ InsRoom \/ InsClaim \/ UNCHANGED vars
  PROVE  Content' /\ UNCHANGED <<nfRing, made, heard, cuts, obuf>>
<1>1. UNCHANGED <<ring, get, made, heard, cuts, out>>
  BY DEF RequestStop, ChannelStop, LocalPlay, LocalEnd, Halt, RateSet, Insert, InsStop,
         InsRoom, InsClaim, vars, ring, get
<1>2. dpc' = "publish" => dpc = "publish"
  BY DEF RequestStop, ChannelStop, LocalPlay, LocalEnd, Halt, RateSet, Insert, InsStop,
         InsRoom, InsClaim, vars
<1> QED BY <1>1, <1>2, ContentStays DEF OrderInv, ring, get

\* The data of TypeOK.
Data ==
  /\ nfRing \in [Place -> Number] /\ obuf \in Seq(Number)
  /\ made \in Number /\ heard \in Number /\ cuts \subseteq Number

LEMMA DataStep == ASSUME NoUpsampling, OrderInv, [Next]_vars
                  PROVE  Content' /\ Data'
<1>0. Data
  BY DEF OrderInv, Typed, TypeOK, Data, Place
<1>1. CASE Mixer
  <2>1. UNCHANGED <<nfRing, made, cuts>>
    BY <1>1 DEF Mixer, GmLoad, GmCopy, GmStore, ring
  <2> QED BY <1>0, <1>1, <2>1, MixerContent DEF Data
<1>2. CASE Start \/ RateDrop \/ RateSwitch \/ RateKick
  <2>1. UNCHANGED <<nfRing, made, obuf>>
    BY <1>2 DEF Start, RateDrop, RateSwitch, RateKick, get
  <2> QED BY <1>0, <1>2, <2>1, StartRateContent DEF Data
<1>3. ASSUME NEW n \in OutSizes, InsWrite(n)
      PROVE  Content' /\ Data'
  <2>1. UNCHANGED <<made, heard, cuts, obuf>>
    BY <1>3 DEF InsWrite, get
  <2> QED BY <1>0, <1>3, <2>1, WriteContent DEF Data
<1>4. CASE InsPublish
  <2>1. UNCHANGED <<nfRing, heard, cuts, obuf>>
    BY <1>4 DEF InsPublish, get
  <2> QED BY <1>0, <1>4, <2>1, PublishContent DEF Data
<1>5. CASE \/ RequestStop \/ ChannelStop \/ LocalPlay \/ LocalEnd \/ Halt
           \/ \E r \in Rates : RateSet(r)
           \/ \E b \in Blocks : Insert(b)
           \/ InsStop \/ InsRoom \/ InsClaim \/ UNCHANGED vars
  BY <1>0, <1>5, StaysStep DEF Data
<1> QED BY <1>1, <1>2, <1>3, <1>4, <1>5 DEF Next, User, Rate, Inserts

LEMMA OrderStep == ASSUME NoUpsampling, OrderInv, [Next]_vars
                   PROVE  OrderInv'
<1>1. OverInv'
  BY OverStep DEF OrderInv
<1>2. Content' /\ Data'
  BY DataStep
<1>3. Control /\ Flags /\ Working
  BY DEF OrderInv, Typed, TypeOK, Control, Flags
<1>4. Control' /\ Flags' /\ Working'
  BY <1>3, ControlStep, FlagsStep
<1>5. CounterType' /\ gpc' \in {"idle", "copy", "store"}
  BY <1>1 DEF OverInv, GetInv
<1>6. TypeOK'
  BY <1>2, <1>4, <1>5 DEF TypeOK, CounterType, Data, Control, Flags, Place
<1> QED BY <1>1, <1>2, <1>4, <1>6 DEF OrderInv, Typed

-----------------------------------------------------------------------------
LEMMA OrderIsQueue == ASSUME OrderInv
                      PROVE  QueueInOrder
<1>0. /\ nfTail \in Counter /\ Fill = Ahead(nfTail) /\ Ahead(nfTail) \in Nat /\ made \in Nat
      /\ nfRing \in [Place -> Number] /\ Holds(nfTail)
  BY Basics DEF OrderInv, Content
<1>1. Frames(nfTail, Fill) = [i \in 1 .. Fill |-> (made - Fill) + i]
  BY <1>0, FramesAre
<1>2. gpc = "idle" => made - Fill \in {heard} \cup cuts
  BY <1>0 DEF OrderInv, Content, Follows
<1> QED BY <1>1, <1>2 DEF QueueInOrder

LEMMA OrderIsBuffer == ASSUME OrderInv
                       PROVE  BufferInOrder
<1> SUFFICES ASSUME gpc = "store", obuf # << >>
             PROVE  /\ \A i \in 1 .. Len(obuf) : obuf[i] = obuf[1] + (i - 1)
                    /\ obuf[1] - 1 \in {heard} \cup cuts
  BY DEF BufferInOrder
<1>0. PICK g \in Nat, k \in Int : g = gAvail /\ k = made - Ahead(gTail)
  BY Basics DEF OrderInv
<1>1. obuf = [i \in 1 .. g |-> k + i]
  BY <1>0 DEF OrderInv, Content, Copied
<1>2. Len(obuf) = g
  BY <1>1
<1>3. g # 0
  <2>1. CASE g = 0
    BY <1>1, <2>1
  <2> QED BY <2>1
<1>4. obuf[1] = k + 1
  BY <1>1, <1>3
<1>5. \A i \in 1 .. Len(obuf) : obuf[i] = obuf[1] + (i - 1)
  BY <1>1, <1>2, <1>4
<1>6. k \in {heard} \cup cuts
  BY <1>0 DEF OrderInv, Content, Follows
<1>7. obuf[1] - 1 = k
  BY <1>4
<1> QED BY <1>5, <1>6, <1>7

\* When no chunk grows in the DSP, the frames of a session reach the mixer in
\* the order dsp_process() made them, none twice and none left out but what a
\* change of the rate throws away, although nf_tail has two writers, the
\* content is dropped without a lock and the counters wrap (nf_pcm_insert(),
\* nf_get_more(), nf_apply_rate(), netfm_playback_start()).
THEOREM RadioInOrder == ASSUME NoUpsampling
                        PROVE  Spec => []AudioInOrder
<1>1. Init => OrderInv
  BY OrderInit
<1>2. OrderInv /\ [Next]_vars => OrderInv'
  BY OrderStep
<1>3. OrderInv => AudioInOrder
  BY OrderIsQueue, OrderIsBuffer DEF OrderInv, Typed, AudioInOrder
<1> QED BY <1>1, <1>2, <1>3, PTL DEF Spec
=============================================================================
