-------------------------- MODULE DlnaWindowProofs --------------------------
(***************************************************************************)
(* Proofs about the retained window of the DLNA renderer, for every size   *)
(* of the ring, the file, the blocks and the requests.  The window's shape *)
(* needs no hypothesis; that it holds the file, and that the codec's       *)
(* position and pointer stay true, is proved of servers that honour Range, *)
(* seeks that are waited for and no seek to byte 0.                        *)
(***************************************************************************)
EXTENDS DlnaWindow, TLAPS

-----------------------------------------------------------------------------
\* Arithmetic of the ring: where a byte of the file lies in it.

LEMMA SizePositive == Size \in Nat \ {0}
BY WindowAssumption

LEMMA Divide ==
  ASSUME NEW a \in Nat
  PROVE  /\ a % Size \in 0 .. Size - 1
         /\ \E q \in Nat : a = (Size * q) + (a % Size)
<1>1. a % Size \in 0 .. Size - 1 BY SizePositive
<1>2. a = (Size * (a \div Size)) + (a % Size) BY SizePositive
<1>3. a \div Size \in Nat BY SizePositive
<1> QED BY <1>1, <1>2, <1>3

LEMMA Multiples ==
  ASSUME NEW q \in Int, NEW k \in Int, q < k
  PROVE  Size * k >= (Size * q) + Size
<1> DEFINE d == k - q
<1>1. d \in Nat /\ d >= 1 OBVIOUS
<1>2. Size * d >= Size BY <1>1, SizePositive, SMT
<1>3. Size * d = Size * k - Size * q BY SizePositive, SMT
<1> QED BY <1>2, <1>3, SizePositive

LEMMA Remainder ==
  ASSUME NEW q \in Int, NEW r \in 0 .. Size - 1,
         NEW k \in Int, NEW s \in 0 .. Size - 1,
         (Size * q) + r = (Size * k) + s
  PROVE  r = s
<1>1. CASE q < k
  <2>1. Size * k >= (Size * q) + Size BY <1>1, Multiples
  <2> QED BY <2>1, SizePositive, SMT
<1>2. CASE q > k
  <2>1. Size * q >= (Size * k) + Size BY <1>2, Multiples
  <2> QED BY <2>1, SizePositive, SMT
<1> QED BY <1>1, <1>2, SizePositive

LEMMA SlotIs ==
  ASSUME NEW a \in Nat, NEW q \in Int, NEW r \in 0 .. Size - 1, a = (Size * q) + r
  PROVE  Slot(a) = r
<1>1. PICK k \in Nat : a = (Size * k) + (a % Size) BY Divide
<1>2. a % Size \in 0 .. Size - 1 BY Divide
<1> DEFINE s == a % Size
<1>3. s \in 0 .. Size - 1 /\ k \in Int /\ (Size * q) + r = (Size * k) + s
  BY <1>1, <1>2
<1> HIDE DEF s
<1>4. r = s BY <1>3, Remainder
<1> QED BY <1>4 DEF s, Slot

\* Moved on by d, a byte's slot moves on by d or comes round.
LEMMA SlotAdd ==
  ASSUME NEW a \in Nat, NEW d \in Nat, Slot(a) + d < Size
  PROVE  Slot(a + d) = Slot(a) + d
<1> DEFINE s == Slot(a)
<1>1. PICK q \in Nat : a = (Size * q) + s BY Divide DEF Slot
<1>2. s \in 0 .. Size - 1 BY Divide DEF Slot
<1>3. s + d < Size OBVIOUS
<1> HIDE DEF s
<1> DEFINE m == Size * q
<1>4. m \in Int BY SizePositive
<1>5. a = m + s BY <1>1
<1> HIDE DEF m
<1>6. a + d = m + (s + d) /\ s + d \in 0 .. Size - 1 /\ a + d \in Nat /\ q \in Int
  BY <1>2, <1>3, <1>4, <1>5, SizePositive
<1>7. a + d = (Size * q) + (s + d) BY <1>6 DEF m
<1>8. Slot(a + d) = s + d BY <1>6, <1>7, SlotIs, Zenon
<1> QED BY <1>8 DEF s

LEMMA SlotRound ==
  ASSUME NEW a \in Nat, NEW d \in Nat, d <= Size, Slot(a) + d >= Size
  PROVE  Slot(a + d) = (Slot(a) + d) - Size
<1> DEFINE s == Slot(a)
<1>1. PICK q \in Nat : a = (Size * q) + s BY Divide DEF Slot
<1>2. s \in 0 .. Size - 1 BY Divide DEF Slot
<1>3. s + d >= Size OBVIOUS
<1> HIDE DEF s
<1> DEFINE m == Size * (q + 1)
<1>4. m \in Int BY SizePositive
<1>5. m = (Size * q) + Size BY SizePositive, SMT
<1>6. a = (m - Size) + s
  <2> DEFINE n == Size * q
  <2>1. n \in Int /\ a = n + s /\ m = n + Size BY <1>1, <1>5, SizePositive
  <2> HIDE DEF n, m
  <2> QED BY <2>1, <1>2, SizePositive
<1> HIDE DEF m
<1>7. /\ a + d = m + ((s + d) - Size) /\ (s + d) - Size \in 0 .. Size - 1
      /\ a + d \in Nat /\ q + 1 \in Int
  BY <1>2, <1>3, <1>4, <1>6, SizePositive
<1>8. a + d = (Size * (q + 1)) + ((s + d) - Size) BY <1>7 DEF m
<1>9. Slot(a + d) = (s + d) - Size BY <1>7, <1>8, SlotIs, Zenon
<1> QED BY <1>9 DEF s

LEMMA SlotRange == ASSUME NEW a \in Nat PROVE Slot(a) \in 0 .. Size - 1
BY Divide DEF Slot

LEMMA ModLow == ASSUME NEW i \in 0 .. Size - 1 PROVE i % Size = i
BY SizePositive

LEMMA ModHigh == ASSUME NEW i \in Size .. 2 * Size - 1 PROVE i % Size = i - Size
<1> DEFINE j == i - Size
<1>1. j \in 0 .. Size - 1 /\ i \in Nat /\ 1 \in Int /\ i = (Size * 1) + j
  BY SizePositive
<1> HIDE DEF j
<1>2. Slot(i) = j BY <1>1, SlotIs, Zenon
<1> QED BY <1>2 DEF Slot, j

\* How far the slot of a byte is behind the slot of the next byte to store.
Dist(a, b) == (Slot(a) + (Size - Slot(b))) % Size

LEMMA Ahead ==
  ASSUME NEW b \in Nat, NEW d \in Nat, d < Size
  PROVE  Dist(b + d, b) = d
<1> DEFINE s == Slot(b)
<1>1. s \in 0 .. Size - 1 BY SlotRange
<1>2. CASE s + d < Size
  <2>1. Slot(b + d) = s + d BY <1>2, SlotAdd
  <2> HIDE DEF s
  <2>2. Slot(b + d) + (Size - s) = d + Size BY <2>1, <1>1, SizePositive
  <2>3. (d + Size) % Size = (d + Size) - Size
    <3>1. d + Size \in Size .. 2 * Size - 1 BY SizePositive
    <3> QED BY <3>1, ModHigh
  <2>4. (d + Size) - Size = d BY SizePositive
  <2> QED BY <2>2, <2>3, <2>4 DEF Dist, s
<1>3. CASE s + d >= Size
  <2>1. Slot(b + d) = (s + d) - Size BY <1>3, SizePositive, SlotRound
  <2> HIDE DEF s
  <2>2. Slot(b + d) + (Size - s) = d BY <2>1, <1>1, SizePositive
  <2>3. d % Size = d BY ModLow, SizePositive
  <2> QED BY <2>2, <2>3 DEF Dist, s
<1> HIDE DEF s
<1> QED BY <1>1, <1>2, <1>3, SizePositive

LEMMA Behind ==
  ASSUME NEW a \in Nat, NEW d \in 1 .. Size
  PROVE  Dist(a, a + d) = Size - d
<1> DEFINE s == Slot(a)
<1>1. s \in 0 .. Size - 1 BY SlotRange
<1>2. CASE s + d < Size
  <2>1. Slot(a + d) = s + d BY <1>2, SlotAdd
  <2> HIDE DEF s
  <2>2. s + (Size - Slot(a + d)) = Size - d BY <2>1, <1>1, SizePositive
  <2>3. (Size - d) % Size = Size - d BY ModLow, SizePositive
  <2> QED BY <2>2, <2>3 DEF Dist, s
<1>3. CASE s + d >= Size
  <2>1. Slot(a + d) = (s + d) - Size BY <1>3, SizePositive, SlotRound
  <2> HIDE DEF s
  <2>2. s + (Size - Slot(a + d)) = (Size - d) + Size BY <2>1, <1>1, SizePositive
  <2>3. ((Size - d) + Size) % Size = ((Size - d) + Size) - Size
    <3>1. (Size - d) + Size \in Size .. 2 * Size - 1 BY SizePositive
    <3> QED BY <3>1, ModHigh
  <2>4. ((Size - d) + Size) - Size = Size - d BY SizePositive
  <2> QED BY <2>2, <2>3, <2>4 DEF Dist, s
<1> HIDE DEF s
<1> QED BY <1>1, <1>2, <1>3, SizePositive

-----------------------------------------------------------------------------
\* Storing a block.

HoldsFile(r, b, h) == \A p \in b .. h - 1 : r[Slot(p)] = p

StoreAt(r, h, n) ==
  [i \in 0 .. Size - 1 |->
     LET d == (i + (Size - Slot(h))) % Size IN IF d < n THEN h + d ELSE r[i]]

LEMMA StoreKeepsFile ==
  ASSUME NEW r, NEW b \in Nat, NEW c \in Nat, NEW h \in Nat, NEW n \in 0 .. Size,
         b <= c, h + n <= c + Size, HoldsFile(r, b, h)
  PROVE  HoldsFile(StoreAt(r, h, n), c, h + n)
<1> SUFFICES ASSUME NEW p \in c .. (h + n) - 1
             PROVE  StoreAt(r, h, n)[Slot(p)] = p
  BY DEF HoldsFile
<1>1. p \in Nat /\ Slot(p) \in 0 .. Size - 1 BY SlotRange
<1>2. StoreAt(r, h, n)[Slot(p)]
        = IF Dist(p, h) < n THEN h + Dist(p, h) ELSE r[Slot(p)]
  BY <1>1, Zenon DEF StoreAt, Dist
<1>3. CASE p >= h
  <2> DEFINE d == p - h
  <2>1. d \in Nat /\ d < Size /\ d < n /\ p = h + d BY <1>3, SizePositive
  <2> HIDE DEF d
  <2>2. Dist(p, h) = d BY <2>1, Ahead
  <2> QED BY <1>2, <2>1, <2>2
<1>4. CASE p < h
  <2> DEFINE d == h - p
  <2>1. d \in 1 .. Size /\ Size - d >= n /\ h = p + d BY <1>4, SizePositive
  <2>2. p \in b .. h - 1 BY <1>4
  <2> HIDE DEF d
  <2>3. Dist(p, h) = Size - d BY <1>1, <2>1, Behind
  <2>4. ~(Dist(p, h) < n) BY <2>1, <2>3, SizePositive
  <2> QED BY <1>2, <2>2, <2>4 DEF HoldsFile
<1> QED BY <1>1, <1>3, <1>4

-----------------------------------------------------------------------------
\* The shape of the window, of every server and every seek.

WindowInv ==
  /\ produced \in Nat /\ baseAbs \in Nat /\ readAbs \in Nat
  /\ seekReq \in Targets \cup {NoSeek} /\ rangeOff \in Targets \cup {0}
  /\ block \in 0 .. Size
  /\ asked \in Nat /\ target \in Targets \cup {0}
  /\ ReadInWindow

LEMMA TargetsAre == Targets \subseteq Nat /\ NoSeek \notin Targets
BY WindowAssumption DEF NoSeek

LEMMA InitWindow == Init => WindowInv
BY SizePositive DEF Init, WindowInv, ReadInWindow

LEMMA WindowQuiet ==
  ASSUME WindowInv, UNCHANGED <<window, seekReq, rangeOff, block, asked, target>>
  PROVE  WindowInv'
BY DEF WindowInv, ReadInWindow, window

LEMMA WindowWorker == ASSUME WindowInv, Connection \/ Download PROVE WindowInv'
<1>1. ASSUME WConnect PROVE WindowInv'
  <2>1. rangeOff' \in Targets \cup {0}
    BY <1>1, TargetsAre DEF WindowInv, WConnect, NoSeek
  <2> QED BY <1>1, <2>1 DEF WindowInv, ReadInWindow, WConnect, window, codec, held
<1>2. ASSUME WRefused PROVE WindowInv'
  BY <1>2, WindowQuiet DEF WRefused, window, codec
<1>3. ASSUME NEW part \in Partial, WAnswer(part) PROVE WindowInv'
  <2>1. rangeOff \in Nat BY TargetsAre DEF WindowInv
  <2> QED BY <1>3, <2>1, SizePositive DEF WindowInv, ReadInWindow, WAnswer, codec, held
<1>4. ASSUME NEW n \in WriteSizes, WRead(n) PROVE WindowInv'
  <2>1. n \in 0 .. Size BY WindowAssumption
  <2> QED BY <1>4, <2>1 DEF WindowInv, ReadInWindow, WRead, window, codec, held
<1>5. ASSUME WLeave \/ WAfter \/ WEof \/ WEnd PROVE WindowInv'
  BY <1>5, WindowQuiet DEF WLeave, WAfter, WEof, WEnd, window, codec
<1>6. ASSUME WStore PROVE WindowInv'
  <2>1. /\ baseAbs' \in Nat /\ produced' \in Nat
        /\ baseAbs' <= readAbs /\ readAbs <= produced' /\ produced' <= baseAbs' + Size
    BY <1>6, SizePositive DEF WindowInv, ReadInWindow, WStore, FreeRoom
  <2> QED BY <1>6, <2>1, SizePositive DEF WindowInv, ReadInWindow, WStore, codec, held
<1>7. ASSUME WReclaim PROVE WindowInv'
  BY <1>7, SizePositive DEF WindowInv, ReadInWindow, WReclaim, worker, codec, held
<1>8. ASSUME WDropBlock PROVE WindowInv'
  BY <1>8, SizePositive DEF WindowInv, ReadInWindow, WDropBlock, window, codec, held
<1> QED
  BY <1>1, <1>2, <1>3, <1>4, <1>5, <1>6, <1>7, <1>8 DEF Connection, Download

LEMMA WindowDecoder == ASSUME WindowInv, Reading \/ Seeking \/ Stop PROVE WindowInv'
<1>1. ASSUME CodecStart \/ Halt \/ Stop PROVE WindowInv'
  BY <1>1, WindowQuiet DEF CodecStart, Halt, Stop, window, worker, codec
<1>2. ASSUME NEW r \in ReadSizes, ReqEnter(r) \/ FbEnter(r) PROVE WindowInv'
  BY <1>2, WindowAssumption
     DEF WindowInv, ReadInWindow, ReqEnter, FbEnter, window, worker
<1>3. ASSUME ReqTake \/ SourceDry PROVE WindowInv'
  BY <1>3 DEF WindowInv, ReadInWindow, ReqTake, SourceDry, window, worker
<1>4. ASSUME NEW n \in ReadSizes, Advance(n) PROVE WindowInv'
  <2>1. n \in Nat BY WindowAssumption
  <2> QED BY <1>4, <2>1, SizePositive
          DEF WindowInv, ReadInWindow, Advance, MinOf, worker, held
<1>5. ASSUME FbTake PROVE WindowInv'
  BY <1>5, SizePositive DEF WindowInv, ReadInWindow, FbTake, MinOf, Avail, worker, held
<1>6. ASSUME NEW p \in Targets, SeekNear(p) \/ SeekFar(p) PROVE WindowInv'
  <2>1. p \in Nat BY TargetsAre
  <2>2. CASE SeekNear(p)
    BY <2>1, <2>2 DEF WindowInv, ReadInWindow, SeekNear, InWindow, worker
  <2>3. CASE SeekFar(p) BY <2>3 DEF WindowInv, ReadInWindow, SeekFar, window, worker
  <2> QED BY <1>6, <2>2, <2>3
<1>7. ASSUME SeekDone PROVE WindowInv'
  <2>1. target \in Nat BY TargetsAre DEF WindowInv
  <2> QED BY <1>7, <2>1 DEF WindowInv, ReadInWindow, SeekDone, InWindow, worker, held
<1>8. ASSUME SeekGiveUp PROVE WindowInv'
  BY <1>8 DEF WindowInv, ReadInWindow, SeekGiveUp, window, worker, codec, held
<1> QED
  BY <1>1, <1>2, <1>3, <1>4, <1>5, <1>6, <1>7, <1>8 DEF Reading, Seeking

LEMMA WindowStep == WindowInv /\ [Next]_vars => WindowInv'
<1> SUFFICES ASSUME WindowInv, [Next]_vars PROVE WindowInv'
  OBVIOUS
<1>1. CASE UNCHANGED vars BY <1>1, WindowQuiet DEF vars, window
<1> QED BY <1>1, WindowWorker, WindowDecoder DEF Next

(* The read position stays in the retained window and the window in the    *)
(* ring (dlna_stream.c:530-570, 961-1028), whether or not servers honour   *)
(* Range, seeks time out and answers come late.                            *)
THEOREM WindowShape == Spec => []ReadInWindow
<1>1. WindowInv => ReadInWindow BY DEF WindowInv
<1> QED BY InitWindow, WindowStep, <1>1, PTL DEF Spec

-----------------------------------------------------------------------------
\* The window holds the file, of a server that honours Range.

Served == Partial = {TRUE} /\ Patient /\ 0 \notin Targets

\* A connection for a seek is one the decoder waits for; one from byte 0 finds
\* the ring as the start left it; what a connection delivers is produced next.
SeekInv ==
  /\ running /\ seekReq # NoSeek => dpc = "seek"
  /\ running /\ wpc = "answer" /\ rangeOff > 0 => seekReq # NoSeek
  /\ wpc = "answer" /\ ~(rangeOff > 0) => produced = 0
  /\ running /\ wpc = "connect" /\ seekReq = NoSeek => produced = 0
  /\ wpc \in {"read", "write"} => sendPos = produced

FileInv == SeekInv /\ WindowIsFile

LEMMA InitFile == Init => FileInv
BY DEF Init, FileInv, SeekInv, WindowIsFile, NoSeek

\* The window is left alone.
LEMMA SameFile ==
  ASSUME WindowIsFile, UNCHANGED <<ring, produced>>, baseAbs \in Nat, produced \in Nat,
         baseAbs' \in Nat, baseAbs <= baseAbs'
  PROVE  WindowIsFile'
BY DEF WindowIsFile, Slot

LEMMA FileAnswer ==
  ASSUME Served, WindowInv, FileInv, NEW part \in Partial, WAnswer(part)
  PROVE  FileInv'
<1>1. rangeOff \in Nat /\ produced \in Nat BY TargetsAre DEF WindowInv
<1>2. CASE rangeOff > 0
  <2>1. /\ produced' = rangeOff /\ baseAbs' = rangeOff /\ sendPos' = rangeOff
        /\ seekReq' = NoSeek /\ wpc' = "read"
    BY <1>2 DEF Served, WAnswer
  <2>2. WindowIsFile' BY <1>1, <2>1 DEF WindowIsFile
  <2> QED BY <2>1, <2>2 DEF FileInv, SeekInv
<1>3. CASE ~(rangeOff > 0)
  <2>1. /\ produced = 0 /\ sendPos' = 0 /\ wpc' = "read"
        /\ UNCHANGED <<ring, produced, baseAbs, seekReq, running, dpc>>
    BY <1>3 DEF WAnswer, FileInv, SeekInv, codec
  <2>2. WindowIsFile' BY <2>1 DEF FileInv, WindowIsFile, Slot
  <2> QED BY <2>1, <2>2 DEF FileInv, SeekInv
<1> QED BY <1>2, <1>3

LEMMA FileStore == ASSUME WindowInv, WindowInv', FileInv, WStore PROVE FileInv'
<1>1. /\ sendPos = produced /\ ring' = StoreAt(ring, produced, block)
      /\ produced' = produced + block /\ baseAbs <= baseAbs'
      /\ produced' <= baseAbs' + Size
  BY SizePositive
     DEF WStore, FileInv, SeekInv, Stored, StoreAt, WindowInv, ReadInWindow, FreeRoom
<1>2. HoldsFile(ring, baseAbs, produced) BY DEF FileInv, WindowIsFile, HoldsFile
<1>3. HoldsFile(StoreAt(ring, produced, block), baseAbs', produced + block)
  BY <1>1, <1>2, StoreKeepsFile DEF WindowInv
<1>4. WindowIsFile' BY <1>1, <1>3 DEF WindowIsFile, HoldsFile, Slot
<1>5. SeekInv' BY <1>1 DEF WStore, FileInv, SeekInv, codec
<1> QED BY <1>4, <1>5 DEF FileInv

LEMMA FileWorker ==
  ASSUME Served, WindowInv, WindowInv', FileInv, Connection \/ Download
  PROVE  FileInv'
<1>1. ASSUME UNCHANGED <<ring, produced, baseAbs>> PROVE WindowIsFile'
  BY <1>1, SameFile DEF FileInv, WindowInv
<1>2. ASSUME WConnect PROVE FileInv'
  <2>1. ~(rangeOff' > 0) => seekReq = NoSeek
    BY <1>2, TargetsAre DEF WConnect, WindowInv, Served
  <2>2. rangeOff' > 0 => seekReq # NoSeek BY <1>2 DEF WConnect, NoSeek
  <2> QED BY <1>1, <1>2, <2>1, <2>2 DEF WConnect, FileInv, SeekInv, window, codec
<1>3. ASSUME WRefused PROVE FileInv'
  BY <1>1, <1>3 DEF WRefused, FileInv, SeekInv, window, codec
<1>4. ASSUME NEW part \in Partial, WAnswer(part) PROVE FileInv' BY <1>4, FileAnswer
<1>5. ASSUME NEW n \in WriteSizes, WRead(n) PROVE FileInv'
  BY <1>1, <1>5 DEF WRead, FileInv, SeekInv, window, codec
<1>6. ASSUME WLeave \/ WDropBlock PROVE FileInv'
  BY <1>1, <1>6 DEF WLeave, WDropBlock, FileInv, SeekInv, window, codec
<1>7. ASSUME WAfter PROVE FileInv'
  BY <1>1, <1>7 DEF WAfter, FileInv, SeekInv, window, codec
<1>8. ASSUME WEof \/ WEnd PROVE FileInv'
  BY <1>1, <1>8 DEF WEof, WEnd, FileInv, SeekInv, window, codec
<1>9. ASSUME WReclaim PROVE FileInv'
  <2>1. WindowIsFile' BY <1>9, SameFile DEF WReclaim, FileInv, WindowInv
  <2> QED BY <1>9, <2>1 DEF WReclaim, FileInv, SeekInv, worker, codec
<1> QED
  BY <1>2, <1>3, <1>4, <1>5, <1>6, <1>7, <1>8, <1>9, FileStore DEF Connection, Download

LEMMA FileDecoder ==
  ASSUME Served, WindowInv, FileInv, Reading \/ Seeking \/ Stop
  PROVE  FileInv'
<1>1. ASSUME UNCHANGED <<ring, produced, baseAbs>> PROVE WindowIsFile'
  BY <1>1, SameFile DEF FileInv, WindowInv
<1>2. ASSUME UNCHANGED <<ring, produced, baseAbs, running, seekReq, wpc, rangeOff, sendPos>>,
             dpc # "seek" \/ dpc' = "seek" \/ ~running \/ seekReq = NoSeek
      PROVE  FileInv'
  BY <1>1, <1>2 DEF FileInv, SeekInv
<1>3. ASSUME CodecStart \/ Halt PROVE FileInv'
  BY <1>2, <1>3 DEF CodecStart, Halt, window, worker
<1>4. ASSUME NEW n \in ReadSizes, ReqEnter(n) \/ Advance(n) \/ FbEnter(n) PROVE FileInv'
  BY <1>2, <1>4 DEF ReqEnter, Advance, FbEnter, window, worker
<1>5. ASSUME ReqTake \/ FbTake \/ SourceDry PROVE FileInv'
  BY <1>2, <1>5 DEF ReqTake, FbTake, SourceDry, window, worker
<1>6. ASSUME NEW p \in Targets, SeekNear(p) PROVE FileInv'
  BY <1>2, <1>6 DEF SeekNear, worker
<1>7. ASSUME NEW p \in Targets, SeekFar(p) PROVE FileInv'
  BY <1>1, <1>7, TargetsAre DEF SeekFar, FileInv, SeekInv, window, worker
<1>8. ASSUME SeekDone PROVE FileInv' BY <1>2, <1>8 DEF SeekDone, worker
<1>9. ASSUME SeekGiveUp PROVE FileInv'
  BY <1>1, <1>9 DEF SeekGiveUp, Served, FileInv, SeekInv, window, worker
<1>10. ASSUME Stop PROVE FileInv'
  BY <1>1, <1>10 DEF Stop, FileInv, SeekInv, window, worker, codec
<1> QED
  BY <1>3, <1>4, <1>5, <1>6, <1>7, <1>8, <1>9, <1>10 DEF Reading, Seeking

LEMMA FileStep ==
  ASSUME Served
  PROVE  WindowInv /\ WindowInv' /\ FileInv /\ [Next]_vars => FileInv'
<1> SUFFICES ASSUME WindowInv, WindowInv', FileInv, [Next]_vars PROVE FileInv'
  OBVIOUS
<1>1. CASE UNCHANGED vars
  BY <1>1 DEF vars, FileInv, SeekInv, WindowIsFile, Slot
<1> QED BY <1>1, FileWorker, FileDecoder DEF Next

(* The ring holds the bytes of the file at their absolute positions, over  *)
(* blocks that wrap, room that is reclaimed and connections that are       *)
(* dropped for a seek (dlna_stream.c:530-570, 754-764, 995-998).           *)
THEOREM WindowHoldsFile == ASSUME Served PROVE Spec => []WindowIsFile
<1>1. WindowInv /\ FileInv /\ [Next]_vars => WindowInv' /\ FileInv'
  BY WindowStep, FileStep
<1>2. FileInv => WindowIsFile BY DEF FileInv
<1> QED BY InitWindow, InitFile, <1>1, <1>2, PTL DEF Spec

-----------------------------------------------------------------------------
\* The codec's position, and the pointer it holds.

\* What the codec holds is in the window and not behind the read position; it
\* holds nothing while it waits.
CodecInv ==
  /\ CodecPosition
  /\ running /\ heldLen > 0 =>
       dpc = "codec" /\ heldAt <= readAbs /\ heldAt + heldLen <= produced
  /\ cpos \in Nat /\ heldAt \in Nat /\ heldLen \in Nat
  /\ heldLen > 0 /\ ~linear => heldLen <= Size - Slot(heldAt)

LEMMA InitCodec == Init => CodecInv
BY SizePositive DEF Init, CodecInv, CodecPosition

LEMMA CodecWorker ==
  ASSUME WindowInv, WindowInv', FileInv, CodecInv, Connection \/ Download
  PROVE  CodecInv'
<1>1. ASSUME UNCHANGED <<readAbs, running, codec, held>>, produced' >= produced
      PROVE  CodecInv'
  <2>1. produced \in Nat /\ produced' \in Nat BY DEF WindowInv
  <2> QED BY <1>1, <2>1 DEF CodecInv, CodecPosition, codec, held, Slot
<1>2. produced >= produced BY DEF WindowInv
<1>3. ASSUME WConnect \/ WRefused \/ WLeave \/ WReclaim \/ WDropBlock PROVE CodecInv'
  BY <1>1, <1>2, <1>3 DEF WConnect, WRefused, WLeave, WReclaim, WDropBlock, window
<1>4. ASSUME WAfter \/ WEof \/ WEnd PROVE CodecInv'
  BY <1>1, <1>2, <1>4 DEF WAfter, WEof, WEnd, window
<1>5. ASSUME NEW n \in WriteSizes, WRead(n) PROVE CodecInv'
  BY <1>1, <1>2, <1>5 DEF WRead, window
<1>6. ASSUME WStore PROVE CodecInv'
  <2>1. produced' >= produced BY <1>6 DEF WStore, WindowInv
  <2> QED BY <1>1, <1>6, <2>1 DEF WStore
<1>7. ASSUME NEW part \in Partial, WAnswer(part) PROVE CodecInv'
  <2>1. CASE rangeOff > 0 /\ running
    <3>1. dpc = "seek" /\ dpc' = "seek" /\ UNCHANGED <<cpos, held, running>>
      BY <1>7, <2>1 DEF WAnswer, FileInv, SeekInv, codec
    <3> QED BY <3>1 DEF CodecInv, CodecPosition, held, Slot
  <2>2. CASE ~(rangeOff > 0) BY <1>1, <1>2, <1>7, <2>2 DEF WAnswer
  <2>3. CASE ~running
    BY <1>7, <2>3 DEF WAnswer, CodecInv, CodecPosition, codec, held, Slot
  <2> QED BY <2>1, <2>2, <2>3
<1> QED BY <1>3, <1>4, <1>5, <1>6, <1>7 DEF Connection, Download

LEMMA CodecDecoder ==
  ASSUME Served, WindowInv, WindowInv', FileInv, CodecInv, Reading \/ Seeking \/ Stop
  PROVE  CodecInv'
<1>1. CodecPosition /\ cpos \in Nat /\ heldAt \in Nat /\ heldLen \in Nat BY DEF CodecInv
<1>2. readAbs \in Nat /\ produced \in Nat /\ asked \in Nat /\ readAbs <= produced
  BY DEF WindowInv, ReadInWindow
<1>3. ASSUME CodecStart PROVE CodecInv'
  BY <1>3 DEF CodecStart, CodecInv, CodecPosition, window, held, Slot
<1>4. ASSUME Halt \/ Stop PROVE CodecInv'
  BY <1>4 DEF Halt, Stop, CodecInv, CodecPosition, window, codec, held, Slot
<1>5. ASSUME NEW n \in ReadSizes, ReqEnter(n) \/ FbEnter(n) PROVE CodecInv'
  BY <1>5 DEF ReqEnter, FbEnter, CodecInv, CodecPosition, window
<1>6. ASSUME ReqTake PROVE CodecInv'
  <2>1. heldLen' \in Nat /\ readAbs + heldLen' <= produced
    BY <1>2, <1>6 DEF ReqTake, MinOf, Avail
  <2>2. ~linear' => ~(heldLen' > Size - Slot(heldAt'))
    BY <1>6, Zenon DEF ReqTake
  <2>3. heldAt' = readAbs /\ Slot(readAbs) \in 0 .. Size - 1
    BY <1>2, <1>6, SlotRange DEF ReqTake
  <2>4. ~linear' => heldLen' <= Size - Slot(heldAt')
    BY <2>1, <2>2, <2>3, SizePositive
  <2> QED BY <1>1, <1>2, <1>6, <2>1, <2>4 DEF ReqTake, CodecInv, CodecPosition, window, Slot
<1>7. ASSUME NEW n \in ReadSizes, Advance(n) PROVE CodecInv'
  <2>1. n \in Nat BY WindowAssumption
  <2>2. cpos' \in Nat /\ dpc' = "codec" /\ UNCHANGED <<held, running, produced>>
    BY <1>1, <1>7, <2>1 DEF Advance
  <2>3. readAbs' >= readAbs BY <1>2, <1>7, <2>1 DEF Advance, MinOf
  <2>4. running => readAbs' = cpos'
    BY <1>1, <1>2, <1>7, <2>1 DEF Advance, MinOf, CodecInv, CodecPosition
  <2>5. readAbs' \in Nat BY DEF WindowInv
  <2> QED BY <1>1, <1>2, <1>7, <2>2, <2>3, <2>4, <2>5
          DEF Advance, CodecInv, CodecPosition, held, Slot
<1>8. ASSUME FbTake PROVE CodecInv'
  BY <1>1, <1>2, <1>8 DEF FbTake, MinOf, Avail, CodecInv, CodecPosition, held, Slot
<1>9. ASSUME SourceDry PROVE CodecInv'
  BY <1>9 DEF SourceDry, CodecInv, CodecPosition, window, held, Slot
<1>10. ASSUME NEW p \in Targets, SeekNear(p) \/ SeekFar(p) PROVE CodecInv'
  <2>1. p \in Nat BY TargetsAre
  <2> QED BY <1>1, <1>10, <2>1 DEF SeekNear, SeekFar, CodecInv, CodecPosition, window
<1>11. ASSUME SeekDone PROVE CodecInv'
  <2>1. target \in Nat BY TargetsAre DEF WindowInv
  <2> QED BY <1>1, <1>11, <2>1 DEF SeekDone, CodecInv, CodecPosition, held, Slot
<1>12. ASSUME SeekGiveUp PROVE CodecInv'
  BY <1>12 DEF SeekGiveUp, Served, CodecInv, CodecPosition, window, held, Slot
<1> QED
  BY <1>3, <1>4, <1>5, <1>6, <1>7, <1>8, <1>9, <1>10, <1>11, <1>12
  DEF Reading, Seeking

LEMMA CodecStep ==
  ASSUME Served
  PROVE  WindowInv /\ WindowInv' /\ FileInv /\ CodecInv /\ [Next]_vars => CodecInv'
<1> SUFFICES ASSUME WindowInv, WindowInv', FileInv, CodecInv, [Next]_vars PROVE CodecInv'
  OBVIOUS
<1>1. CASE UNCHANGED vars BY <1>1 DEF vars, CodecInv, CodecPosition, Slot
<1> QED BY <1>1, CodecWorker, CodecDecoder DEF Next

\* A pointer that is not to a copy is to bytes that lie in the ring in one
\* piece; the window still holds those the codec has not used.
LEMMA HeldInWindow == WindowInv /\ FileInv /\ CodecInv => HeldIsFile
<1> SUFFICES ASSUME WindowInv, FileInv, CodecInv, running /\ heldLen > 0 /\ ~linear,
                    NEW p \in cpos .. heldAt + heldLen - 1
             PROVE  ring[Slot(heldAt) + (p - heldAt)] = p
  BY Zenon DEF HeldIsFile
<1>1. /\ cpos = readAbs /\ heldAt <= readAbs /\ heldAt + heldLen <= produced
      /\ heldLen <= Size - Slot(heldAt)
      /\ cpos \in Nat /\ heldAt \in Nat /\ heldLen \in Nat
      /\ baseAbs <= readAbs /\ baseAbs \in Nat /\ produced \in Nat
  <2>1. Slot(heldAt) \in 0 .. Size - 1 BY SlotRange DEF CodecInv
  <2> QED BY <2>1, SizePositive DEF CodecInv, CodecPosition, WindowInv, ReadInWindow
<1> DEFINE d == p - heldAt
<1>2. d \in Nat /\ p = heldAt + d /\ d < heldLen /\ p \in baseAbs .. produced - 1
  BY <1>1
<1> HIDE DEF d
<1>3. Slot(heldAt) \in 0 .. Size - 1 BY <1>1, SlotRange
<1>4. Slot(heldAt) + d < Size BY <1>1, <1>2, <1>3, SizePositive
<1>5. Slot(p) = Slot(heldAt) + d BY <1>1, <1>2, <1>4, SlotAdd
<1>6. ring[Slot(p)] = p BY <1>2 DEF FileInv, WindowIsFile
<1> QED BY <1>5, <1>6 DEF d

(* The positions the codec tracks are the source's (dlna_stream.c:896-900). *)
THEOREM CodecOnSource == ASSUME Served PROVE Spec => []CodecPosition
<1>1. WindowInv /\ FileInv /\ CodecInv /\ [Next]_vars => WindowInv' /\ FileInv' /\ CodecInv'
  BY WindowStep, FileStep, CodecStep
<1>2. CodecInv => CodecPosition BY DEF CodecInv
<1> QED BY InitWindow, InitFile, InitCodec, <1>1, <1>2, PTL DEF Spec

(* What request_source() handed out is not overwritten before it is used,  *)
(* although the worker reclaims room meanwhile (lines 539-551, 907-910).   *)
THEOREM PointerStaysGood == ASSUME Served PROVE Spec => []HeldIsFile
<1>1. WindowInv /\ FileInv /\ CodecInv /\ [Next]_vars => WindowInv' /\ FileInv' /\ CodecInv'
  BY WindowStep, FileStep, CodecStep
<1> QED BY InitWindow, InitFile, InitCodec, HeldInWindow, <1>1, PTL DEF Spec

-----------------------------------------------------------------------------
\* Types: no position leaves the file.

DecoderPcs == {"none", "codec", "request", "reading", "seek", "end"}

SpaceInv ==
  /\ running \in BOOLEAN /\ eof \in BOOLEAN /\ linear \in BOOLEAN
  /\ ring \in [0 .. Size - 1 -> Position]
  /\ wpc \in Pcs /\ dpc \in DecoderPcs
  /\ sendPos \in Position /\ block \in WriteSizes \cup {0}
  /\ wpc = "write" => sendPos + block <= FileLen
  /\ produced <= FileLen /\ heldAt <= FileLen

LEMMA FileLength == FileLen \in Nat /\ Targets \subseteq 0 .. FileLen - 1
BY WindowAssumption

LEMMA InitSpace == Init => SpaceInv
<1> SUFFICES ASSUME Init PROVE SpaceInv
  OBVIOUS
<1>1. 0 \in Position BY FileLength DEF Position
<1>2. ring \in [0 .. Size - 1 -> Position] BY <1>1 DEF Init
<1>3. running \in BOOLEAN /\ eof \in BOOLEAN /\ linear \in BOOLEAN BY Zenon DEF Init
<1>4. wpc \in Pcs /\ dpc \in DecoderPcs BY DEF Init, Pcs, DecoderPcs
<1>5. produced <= FileLen /\ heldAt <= FileLen BY FileLength DEF Init
<1> QED BY <1>1, <1>2, <1>3, <1>4, <1>5 DEF Init, SpaceInv

LEMMA SpaceWorker ==
  ASSUME WindowInv, WindowInv', FileInv, SpaceInv, Connection \/ Download
  PROVE  SpaceInv'
<1> USE DEF SpaceInv, Pcs, codec, held
<1>1. ASSUME WConnect \/ WRefused \/ WLeave \/ WAfter PROVE SpaceInv'
  BY <1>1 DEF WConnect, WRefused, WLeave, WAfter, window
<1>2. ASSUME WEof \/ WEnd PROVE SpaceInv'
  BY <1>2 DEF WEof, WEnd, window
<1>3. ASSUME NEW part \in Partial, WAnswer(part) PROVE SpaceInv'
  <2>1. rangeOff \in Position /\ 0 \in Position
    BY FileLength DEF WindowInv, Position
  <2> QED BY <1>3, <2>1, FileLength DEF WAnswer, Position
<1>4. ASSUME NEW n \in WriteSizes, WRead(n) PROVE SpaceInv'
  BY <1>4 DEF WRead, window
<1>5. ASSUME WStore PROVE SpaceInv'
  <2>1. /\ sendPos = produced /\ sendPos + block <= FileLen /\ sendPos \in Nat
        /\ block \in Nat /\ produced' = produced + block
    BY <1>5 DEF WStore, FileInv, SeekInv, WindowInv, Position
  <2>2. ASSUME NEW i \in 0 .. Size - 1,
               NEW d \in Nat, d = (i + (Size - Slot(produced))) % Size
        PROVE  (IF d < block THEN sendPos + d ELSE ring[i]) \in Position
    BY <2>1, <2>2, FileLength DEF Position
  <2>3. ASSUME NEW i \in 0 .. Size - 1
        PROVE  (i + (Size - Slot(produced))) % Size \in Nat
    <3>1. Slot(produced) \in 0 .. Size - 1 BY SlotRange DEF WindowInv
    <3>2. i + (Size - Slot(produced)) \in Nat BY <3>1, SizePositive
    <3> QED BY <3>2, Divide
  <2>4. Stored(block) \in [0 .. Size - 1 -> Position] BY <2>2, <2>3 DEF Stored
  <2>5. sendPos + block \in Position BY <2>1, FileLength DEF Position
  <2> QED BY <1>5, <2>1, <2>4, <2>5, FileLength DEF WStore
<1>6. ASSUME WReclaim \/ WDropBlock PROVE SpaceInv'
  BY <1>6 DEF WReclaim, WDropBlock, window, worker
<1> QED BY <1>1, <1>2, <1>3, <1>4, <1>5, <1>6 DEF Connection, Download

LEMMA SpaceDecoder ==
  ASSUME WindowInv, SpaceInv, Reading \/ Seeking \/ Stop
  PROVE  SpaceInv'
<1> USE DEF SpaceInv, DecoderPcs, window, worker, held, codec
<1>1. ASSUME CodecStart \/ Halt \/ Stop PROVE SpaceInv'
  BY <1>1 DEF CodecStart, Halt, Stop
<1>2. ASSUME NEW n \in ReadSizes, ReqEnter(n) \/ Advance(n) \/ FbEnter(n) PROVE SpaceInv'
  BY <1>2 DEF ReqEnter, Advance, FbEnter
<1>3. ASSUME ReqTake PROVE SpaceInv'
  <2>1. readAbs <= FileLen BY FileLength DEF WindowInv, ReadInWindow
  <2>2. linear' \in BOOLEAN
    <3>1. (MinOf(asked, Avail) > Size - Slot(readAbs)) \in BOOLEAN
      OBVIOUS
    <3> QED BY <1>3, <3>1, Zenon DEF ReqTake
  <2> QED BY <1>3, <2>1, <2>2 DEF ReqTake
<1>4. ASSUME FbTake \/ SourceDry PROVE SpaceInv'
  BY <1>4 DEF FbTake, SourceDry
<1>5. ASSUME NEW p \in Targets, SeekNear(p) \/ SeekFar(p) PROVE SpaceInv'
  BY <1>5 DEF SeekNear, SeekFar
<1>6. ASSUME SeekDone \/ SeekGiveUp PROVE SpaceInv'
  BY <1>6 DEF SeekDone, SeekGiveUp
<1> QED BY <1>1, <1>2, <1>3, <1>4, <1>5, <1>6 DEF Reading, Seeking

LEMMA SpaceStep == WindowInv /\ WindowInv' /\ FileInv /\ SpaceInv /\ [Next]_vars => SpaceInv'
<1> SUFFICES ASSUME WindowInv, WindowInv', FileInv, SpaceInv, [Next]_vars PROVE SpaceInv'
  OBVIOUS
<1>1. CASE UNCHANGED vars BY <1>1 DEF vars, SpaceInv
<1> QED BY <1>1, SpaceWorker, SpaceDecoder DEF Next

(* Every variable keeps its type; the worker, the window and the decoder   *)
(* never leave the file.                                                   *)
THEOREM TypeCorrect == ASSUME Served PROVE Spec => []TypeOK
<1>1. /\ WindowInv /\ FileInv /\ CodecInv /\ SpaceInv /\ [Next]_vars
      => WindowInv' /\ FileInv' /\ CodecInv' /\ SpaceInv'
  BY WindowStep, FileStep, CodecStep, SpaceStep
<1>2. WindowInv /\ CodecInv /\ SpaceInv => TypeOK
  <2> SUFFICES ASSUME WindowInv, CodecInv, SpaceInv PROVE TypeOK
    OBVIOUS
  <2>1. produced \in Position /\ baseAbs \in Position /\ readAbs \in Position
    BY FileLength DEF WindowInv, ReadInWindow, SpaceInv, Position
  <2>2. heldAt \in Position BY FileLength DEF CodecInv, SpaceInv, Position
  <2> QED BY <2>1, <2>2 DEF TypeOK, WindowInv, CodecInv, SpaceInv, DecoderPcs
<1> QED BY InitWindow, InitFile, InitCodec, InitSpace, <1>1, <1>2, PTL DEF Spec
\* Both together: whatever the worker reclaims and however seeks and answers
\* interleave, the positions of dlna_stream.c keep their types and their order.
THEOREM WindowIsSound == ASSUME Served PROVE Spec => []WindowSound
<1>1. TypeOK /\ ReadInWindow => WindowSound
  BY DEF WindowSound
<1> QED BY <1>1, TypeCorrect, WindowShape, PTL

\* read_filebuf, request_buffer() and advance_buffer() give the codec the file
\* from its own position on.
THEOREM CodecReadsFile == ASSUME Served PROVE Spec => []CodecReads
<1>1. CodecPosition /\ HeldIsFile => CodecReads
  BY DEF CodecReads
<1> QED BY <1>1, CodecOnSource, PointerStaysGood, PTL

=============================================================================
