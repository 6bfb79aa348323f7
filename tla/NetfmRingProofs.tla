-------------------------- MODULE NetfmRingProofs --------------------------
(***************************************************************************)
(* Proofs about NetfmRing, for every size of the ring and of the request   *)
(* buffer: the ring implements the queue of NetfmFifo, and the codec gets  *)
(* the stream in order through a request buffer no copy leaves.            *)
(***************************************************************************)
EXTENDS NetfmRing, SequenceTheorems, TLAPS

-----------------------------------------------------------------------------
\* Arithmetic of the ring.

LEMMA ModSmall == ASSUME NEW i \in 0 .. Size - 1
                  PROVE  i % Size = i
BY RingAssumption

LEMMA ModWrap == ASSUME NEW i \in Size .. 2 * Size - 1
                 PROVE  i % Size = i - Size
BY RingAssumption

\* What used_locked() computes lies between nothing and a full ring.
LEMMA UsedRange == ASSUME NEW h \in Index, NEW t \in Index
                   PROVE  UsedOf(h, t) \in 0 .. Size - 1
BY RingAssumption DEF UsedOf, Index

\* Storing k bytes in the free room adds k to what is used.
LEMMA UsedPut ==
  ASSUME NEW h \in Index, NEW t \in Index, NEW k \in Nat, k <= FreeOf(h, t)
  PROVE  /\ (h + k) % Size \in Index
         /\ UsedOf((h + k) % Size, t) = UsedOf(h, t) + k
<1>1. k < Size
  BY UsedRange, RingAssumption DEF FreeOf, Index
<1>2. CASE h + k < Size
  <2>1. (h + k) % Size = h + k
    BY <1>2, ModSmall, RingAssumption DEF Index
  <2> QED BY <1>2, <2>1, RingAssumption DEF UsedOf, FreeOf, Index
<1>3. CASE h + k >= Size
  <2>1. h + k \in Size .. 2 * Size - 1
    BY <1>1, <1>3, RingAssumption DEF Index
  <2>2. (h + k) % Size = (h + k) - Size
    BY <2>1, ModWrap, Zenon
  <2> QED BY <1>1, <1>3, <2>2, RingAssumption DEF UsedOf, FreeOf, Index
<1> QED BY <1>2, <1>3, RingAssumption DEF Index

\* Taking n of the used bytes leaves the others.
LEMMA UsedTake ==
  ASSUME NEW h \in Index, NEW t \in Index, NEW n \in Nat, n <= UsedOf(h, t)
  PROVE  /\ (t + n) % Size \in Index
         /\ UsedOf(h, (t + n) % Size) = UsedOf(h, t) - n
<1>1. n < Size
  BY UsedRange, RingAssumption DEF Index
<1>2. CASE t + n < Size
  <2>1. (t + n) % Size = t + n
    BY <1>2, ModSmall, RingAssumption DEF Index
  <2> QED BY <1>2, <2>1, RingAssumption DEF UsedOf, Index
<1>3. CASE t + n >= Size
  <2>1. t + n \in Size .. 2 * Size - 1
    BY <1>1, <1>3, RingAssumption DEF Index
  <2>2. (t + n) % Size = (t + n) - Size
    BY <2>1, ModWrap, Zenon
  <2> QED BY <1>1, <1>3, <2>2, RingAssumption DEF UsedOf, Index
<1> QED BY <1>2, <1>3, RingAssumption DEF Index

\* The i-th byte after t, counted around the ring.
LEMMA Slot ==
  ASSUME NEW t \in Index, NEW i \in Nat, i < Size
  PROVE  /\ (t + i) % Size \in Index
         /\ (t + i) % Size = IF t + i < Size THEN t + i ELSE (t + i) - Size
<1>1. CASE t + i < Size
  BY <1>1, ModSmall, RingAssumption DEF Index
<1>2. CASE t + i >= Size
  <2>1. t + i \in Size .. 2 * Size - 1
    BY <1>2, RingAssumption DEF Index
  <2>2. (t + i) % Size = (t + i) - Size
    BY <2>1, ModWrap, Zenon
  <2> QED BY <1>2, <2>1, <2>2, RingAssumption DEF Index
<1> QED BY <1>1, <1>2, RingAssumption DEF Index

-----------------------------------------------------------------------------
\* The two copies.

\* What a ring holds after k bytes b[0], b[1], ... were copied in at the head,
\* in two parts when they reach the end of the array.
Filled(r, h, b, k) ==
  LET first == MinOf(k, Size - h)
  IN  MemCpy(MemCpy(r, h, b, 0, first), 0, b, first, k - first)

\* The bytes that were in the ring stay, the new ones follow them.
LEMMA FilledSlots ==
  ASSUME NEW r \in [Index -> Nat], NEW h \in Index, NEW t \in Index,
         NEW k \in Nat, k <= FreeOf(h, t), NEW b \in [0 .. k - 1 -> Nat]
  PROVE  /\ Filled(r, h, b, k) \in [Index -> Nat]
         /\ \A i \in 0 .. UsedOf(h, t) - 1 :
              Filled(r, h, b, k)[(t + i) % Size] = r[(t + i) % Size]
         /\ \A i \in 0 .. k - 1 :
              Filled(r, h, b, k)[(t + (UsedOf(h, t) + i)) % Size] = b[i]
<1> DEFINE first == MinOf(k, Size - h)
           f == Filled(r, h, b, k)
<1>0. /\ Size \in Nat \ {0} /\ h \in 0 .. Size - 1 /\ t \in 0 .. Size - 1
      /\ UsedOf(h, t) \in 0 .. Size - 1 /\ k + UsedOf(h, t) < Size
  <2>1. UsedOf(h, t) \in 0 .. Size - 1
    BY UsedRange
  <2>2. Size \in Nat \ {0} /\ h \in 0 .. Size - 1 /\ t \in 0 .. Size - 1
    BY RingAssumption DEF Index
  <2> QED BY <2>1, <2>2 DEF FreeOf
<1>1. /\ first \in 0 .. k /\ h + first <= Size
      /\ first < k => h + first = Size
  BY <1>0 DEF MinOf
<1> HIDE DEF first
<1>2. f = [x \in Index |->
             IF x < k - first THEN b[first + x]
             ELSE IF h <= x /\ x < h + first THEN b[x - h] ELSE r[x]]
  <2>1. f = MemCpy(MemCpy(r, h, b, 0, first), 0, b, first, k - first)
    BY DEF Filled, first
  <2> HIDE DEF f
  <2>2. DOMAIN r = Index /\ \A x \in Index : x \in Nat
    BY <1>0 DEF Index
  <2>3. MemCpy(r, h, b, 0, first)
          = [x \in Index |-> IF h <= x /\ x < h + first THEN b[x - h] ELSE r[x]]
    BY <1>0, <1>1, <2>2 DEF MemCpy
  <2>4. f = [x \in Index |-> IF x < k - first THEN b[first + x]
                             ELSE MemCpy(r, h, b, 0, first)[x]]
    BY <1>0, <1>1, <2>1, <2>2, <2>3 DEF MemCpy
  <2> QED BY <2>3, <2>4
<1> HIDE DEF f
<1>3. f \in [Index -> Nat]
  <2>1. ASSUME NEW x \in Index PROVE f[x] \in Nat
    <3>1. CASE x < k - first
      <4>1. f[x] = b[first + x] /\ first + x \in 0 .. k - 1
        BY <1>0, <1>1, <1>2, <3>1 DEF Index
      <4> QED BY <4>1
    <3>2. CASE ~(x < k - first) /\ h <= x /\ x < h + first
      BY <1>0, <1>1, <1>2, <3>2 DEF Index
    <3>3. CASE ~(x < k - first) /\ ~(h <= x /\ x < h + first)
      BY <1>2, <3>3
    <3> QED BY <3>1, <3>2, <3>3
  <2> QED BY <1>2, <2>1
<1>4. ASSUME NEW i \in 0 .. UsedOf(h, t) - 1
      PROVE  f[(t + i) % Size] = r[(t + i) % Size]
  <2> DEFINE x == (t + i) % Size
  <2>0. i \in Nat /\ i < Size
    BY <1>0
  <2>1. /\ x \in Index
        /\ x = IF t + i < Size THEN t + i ELSE (t + i) - Size
    BY <2>0, Slot
  <2> HIDE DEF x
  <2>2. ~(x < k - first) /\ ~(h <= x /\ x < h + first)
    BY <1>0, <1>1, <2>1 DEF UsedOf
  <2>3. f[x] = r[x]
    BY <1>2, <2>1, <2>2
  <2> QED BY <2>3 DEF x
<1>5. ASSUME NEW i \in 0 .. k - 1
      PROVE  f[(t + (UsedOf(h, t) + i)) % Size] = b[i]
  <2> DEFINE u == UsedOf(h, t) + i
             x == (t + u) % Size
  <2>1. u \in Nat /\ u < Size
    BY <1>0
  <2>2. /\ x \in Index
        /\ x = IF t + u < Size THEN t + u ELSE (t + u) - Size
    BY <2>1, Slot
  <2> HIDE DEF x
  <2>3. x = IF h + i < Size THEN h + i ELSE (h + i) - Size
    BY <1>0, <2>2 DEF UsedOf
  <2>4. CASE i < first
    <3>1. x = h + i /\ x - h = i
      BY <1>0, <1>1, <2>3, <2>4
    <3>2. ~(x < k - first) /\ h <= x /\ x < h + first
      BY <1>0, <1>1, <2>4, <3>1
    <3>3. f[x] = b[x - h]
      BY <1>2, <2>2, <3>2
    <3> QED BY <3>1, <3>3 DEF x
  <2>5. CASE i >= first
    <3>1. first + x = i /\ x < k - first
      BY <1>0, <1>1, <2>3, <2>5
    <3>2. f[x] = b[first + x]
      BY <1>2, <2>2, <3>1
    <3> QED BY <3>1, <3>2 DEF x
  <2> QED BY <1>1, <2>4, <2>5
<1> QED BY <1>3, <1>4, <1>5 DEF f

-----------------------------------------------------------------------------
\* The inductive invariant behind the refinement: the types of the ring, and
\* that a decoder inside source.lock still wants bytes.

RingInv ==
  /\ ring \in [Index -> Nat] /\ head \in Index /\ tail \in Index
  /\ sent \in Nat /\ block \in Nat
  /\ running \in BOOLEAN /\ spc \in {"on", "flagged", "cleared"}
  /\ running <=> spc = "on"

ReadInv ==
  /\ asked \in Nat /\ reqPos \in Nat /\ reqLen \in Nat
  /\ heldPos \in Nat /\ heldLen \in Nat
  /\ need \in Nat /\ done \in Nat
  /\ dpc = "locked" => done < need

LEMMA InitInv == Init => RingInv /\ ReadInv
BY RingAssumption DEF Init, RingInv, ReadInv, Index

\* The step that takes bytes out of the ring, as the ring sees it.
Takes(n) ==
  /\ n \in Nat /\ n <= Used /\ tail' = (tail + n) % Size
  /\ UNCHANGED <<running, ring, head, sent, block, spc>>

LEMMA LockedTakes == ASSUME RingInv, ReadInv, ReadLocked
                     PROVE  /\ Takes(MinOf(need - done, Used))
                            /\ done' \in Nat
<1>1. Used \in 0 .. Size - 1
  BY UsedRange DEF Used, RingInv
<1>2. done < need /\ need \in Nat /\ done \in Nat /\ Size \in Nat
  BY RingAssumption DEF ReadLocked, ReadInv, At
<1> DEFINE n == MinOf(need - done, Used)
<1>3. n \in Nat /\ n <= Used
  BY <1>1, <1>2 DEF MinOf
<1>4. /\ tail' = (tail + n) % Size /\ done' = done + n
      /\ UNCHANGED <<running, ring, head, sent, block, spc>>
  BY DEF ReadLocked
<1> HIDE DEF n
<1> QED BY <1>2, <1>3, <1>4 DEF Takes, n

\* Whatever the decoder computes stays a natural number.
LEMMA ReadStep == ASSUME RingInv, ReadInv, [Next]_vars
                  PROVE  ReadInv'
<1>0. MinOf(1, 2) \in Nat /\ ReqSize \in Nat /\ ReadSizes \subseteq Nat
  BY RingAssumption DEF MinOf
<1>1. CASE UNCHANGED <<req, dpc, asked, heldPos, heldLen, rd>>
  BY <1>1 DEF ReadInv, req, rd
<1>2. ASSUME \E r \in ReadSizes : ReqEnter(r) \/ AdvLoad(r) \/ FbEnter(r)
      PROVE  ReadInv'
  BY <1>0, <1>2 DEF ReadInv, ReqEnter, AdvLoad, FbEnter, MinOf, req, rd
<1>3. CASE ReqEof
  BY <1>3 DEF ReadInv, ReqEof, Eof, rd
<1>4. CASE ReqShift
  <2>1. PICK p \in {heldPos, reqPos}, l \in {heldLen, reqLen} :
          reqLen' = Less(l, p) /\ reqPos' = 0
    BY <1>4 DEF ReqShift
  <2>2. Less(l, p) \in Nat
    <3>1. p \in Nat /\ l \in Nat /\ Wrap \in Nat \ {0}
      BY RingAssumption DEF ReadInv
    <3> QED BY <3>1 DEF Less
  <2> QED BY <1>4, <2>1, <2>2 DEF ReqShift, ReadInv, rd
<1>5. CASE ReqFill
  BY <1>5 DEF ReqFill, ReadCall, ReadInv, req, rd
<1>6. CASE AdvStore
  BY <1>6 DEF AdvStore, ReadInv, MinOf, rd
<1>7. CASE FbCopy
  <2>1. PICK p \in {heldPos, reqPos}, l \in {heldLen, reqLen} :
          LET n == IF p < l THEN MinOf(asked, l - p) ELSE 0 IN
          IF n < asked /\ p + n >= l
            THEN /\ reqPos' = 0 /\ reqLen' = 0
                 /\ ReadCall("fb", n, asked - n)
            ELSE /\ reqPos' = p + n /\ dpc' = "codec"
                 /\ UNCHANGED <<reqLen, dst, base, need, done>>
    BY <1>7 DEF FbCopy
  <2>2. p \in Nat /\ l \in Nat /\ asked \in Nat
    BY DEF ReadInv
  <2>3. UNCHANGED <<asked, heldPos, heldLen>>
    BY <1>7 DEF FbCopy
  <2> QED BY <2>1, <2>2, <2>3 DEF ReadCall, ReadInv, MinOf
<1>8. CASE ReadTurn
  BY <1>8 DEF ReadTurn, ReadInv, req, rd, At
<1>9. CASE ReadLocked
  <2>1. done' \in Nat
    BY <1>9, LockedTakes
  <2> QED BY <1>9, <2>1 DEF ReadLocked, ReadInv
<1>10. CASE ReadReturn
  <2>1. Wrap \in Nat \ {0}
    BY RingAssumption
  <2>2. (reqLen + done) % Wrap \in Nat
    BY <2>1 DEF ReadInv
  <2> QED BY <1>10, <2>2 DEF ReadReturn, ReadInv
<1>11. CASE StopClear
  BY <1>11 DEF StopClear, ReadInv, rd
<1>12. CASE StopFlag \/ Worker
  <2>1. UNCHANGED <<req, dpc, asked, heldPos, heldLen, rd>>
    BY <1>12 DEF StopFlag, Worker, WBlock, WStore, WAbort
  <2> QED BY <2>1, <1>1
<1>13. CASE UNCHANGED vars
  BY <1>13, <1>1 DEF vars, req, rd
<1> QED
  BY <1>2, <1>3, <1>4, <1>5, <1>6, <1>7, <1>8, <1>9, <1>10, <1>11, <1>12, <1>13
  DEF Next, Decoder, Stopper, ReadSrc

\* How a step of the program looks from the ring: it stores the waiting block,
\* takes some bytes, is one of the two halves of the stop, or leaves the ring
\* alone.
Stores == WStore /\ ring' = Filled(ring, head, Body(block), block)
Flags  == StopFlag
Clears == StopClear
Leaves == UNCHANGED <<running, ring, head, tail, sent, spc>> /\ block' \in Nat

LEMMA RingSteps == ASSUME RingInv, ReadInv, [Next]_vars
                   PROVE  \/ Stores \/ Flags \/ Clears \/ Leaves
                          \/ \E n \in Nat : Takes(n)
<1>0. block \in Nat
  BY DEF RingInv
<1>1. CASE WStore
  BY <1>1 DEF WStore, Stores, Filled
<1>2. CASE WAbort \/ \E k \in WriteSizes : WBlock(k)
  BY <1>2, RingAssumption DEF WAbort, WBlock, Leaves
<1>3. CASE StopFlag \/ StopClear
  BY <1>3 DEF Flags, Clears
<1>4. CASE ReadLocked
  BY <1>4, LockedTakes DEF Takes
<1>5. CASE \/ ReqEof \/ ReqShift \/ ReqFill \/ AdvStore \/ FbCopy \/ ReadTurn
           \/ ReadReturn
           \/ \E r \in ReadSizes : ReqEnter(r) \/ AdvLoad(r) \/ FbEnter(r)
  <2>1. UNCHANGED source
    BY <1>5 DEF ReqEof, Eof, ReqShift, ReqFill, AdvStore, FbCopy, ReadTurn,
                ReadReturn, ReqEnter, AdvLoad, FbEnter
  <2> QED BY <1>0, <2>1 DEF source, Leaves
<1>6. CASE UNCHANGED vars
  BY <1>0, <1>6 DEF vars, Leaves
<1> QED
  BY <1>1, <1>2, <1>3, <1>4, <1>5, <1>6
  DEF Next, Worker, Decoder, Stopper, ReadSrc

\* The block the worker stores, as the ring receives it.
LEMMA StoredBlock ==
  ASSUME RingInv, Stores
  PROVE  /\ block \in Nat \ {0} /\ block <= FreeOf(head, tail)
         /\ Body(block) \in [0 .. block - 1 -> Nat]
         /\ \A i \in 0 .. block - 1 : Body(block)[i] = sent + 1 + i
<1>1. block \in Nat \ {0} /\ sent \in Nat
  BY DEF RingInv, Stores, WStore
<1>2. block <= FreeOf(head, tail)
  <2>1. FreeRoom \in Nat /\ FreeRoom >= block
    BY UsedRange, RingAssumption DEF Stores, WStore, FreeRoom, FreeOf, RingInv
  <2> QED BY <1>1, <2>1 DEF FreeRoom
<1> QED BY <1>1, <1>2 DEF Body

\* What storing it does to the ring: the bytes that wait stay where they are
\* and those of the block follow.
LEMMA StoredRing ==
  ASSUME RingInv, Stores
  PROVE  /\ ring' \in [Index -> Nat] /\ head' \in Index
         /\ UsedOf(head', tail) = UsedOf(head, tail) + block
         /\ \A i \in 0 .. UsedOf(head, tail) - 1 :
              ring'[(tail + i) % Size] = ring[(tail + i) % Size]
         /\ \A i \in 0 .. block - 1 :
              ring'[(tail + (UsedOf(head, tail) + i)) % Size] = sent + 1 + i
<1> DEFINE b == Body(block)
<1>1. /\ block \in Nat /\ block <= FreeOf(head, tail)
      /\ b \in [0 .. block - 1 -> Nat]
      /\ \A i \in 0 .. block - 1 : b[i] = sent + 1 + i
  BY StoredBlock
<1>2. /\ ring' = Filled(ring, head, b, block)
      /\ head' = (head + block) % Size
  BY DEF Stores, WStore
<1> HIDE DEF b
<1>3. ring \in [Index -> Nat] /\ head \in Index /\ tail \in Index
  BY DEF RingInv
<1>4. /\ Filled(ring, head, b, block) \in [Index -> Nat]
      /\ \A i \in 0 .. UsedOf(head, tail) - 1 :
           Filled(ring, head, b, block)[(tail + i) % Size]
             = ring[(tail + i) % Size]
      /\ \A i \in 0 .. block - 1 :
           Filled(ring, head, b, block)[(tail + (UsedOf(head, tail) + i)) % Size]
             = b[i]
  BY <1>1, <1>3, FilledSlots, Zenon
<1>5. /\ (head + block) % Size \in Index
      /\ UsedOf((head + block) % Size, tail) = UsedOf(head, tail) + block
  BY <1>1, <1>3, UsedPut, Zenon
<1> QED BY <1>1, <1>2, <1>4, <1>5, Zenon

LEMMA RingStep == ASSUME RingInv, ReadInv, [Next]_vars
                  PROVE  RingInv'
<1>1. CASE Stores
  <2>1. ring' \in [Index -> Nat] /\ head' \in Index
    BY <1>1, StoredRing
  <2>2. sent' \in Nat /\ block' \in Nat
    BY <1>1 DEF RingInv, Stores, WStore
  <2>3. UNCHANGED <<running, tail, spc>>
    BY <1>1 DEF Stores, WStore
  <2> QED BY <2>1, <2>2, <2>3 DEF RingInv
<1>2. CASE Flags
  BY <1>2 DEF Flags, StopFlag, RingInv
<1>3. CASE Clears
  BY <1>3, RingAssumption DEF Clears, StopClear, RingInv, Index
<1>4. CASE Leaves
  BY <1>4 DEF Leaves, RingInv
<1>5. ASSUME NEW n \in Nat, Takes(n)
      PROVE  RingInv'
  <2>1. tail' \in Index
    BY <1>5, UsedTake DEF Takes, RingInv, Used
  <2> QED BY <1>5, <2>1 DEF Takes, RingInv
<1> QED BY <1>1, <1>2, <1>3, <1>4, <1>5, RingSteps

\* The two parts of the invariant hold in every reachable state.
THEOREM RingInvariant == Spec => [](RingInv /\ ReadInv)
<1>1. RingInv /\ ReadInv /\ [Next]_vars => (RingInv /\ ReadInv)'
  BY RingStep, ReadStep
<1> QED BY <1>1, InitInv, PTL DEF Spec

-----------------------------------------------------------------------------
\* The refinement.

\* The sequence that a ring r with head h and tail t stands for.
Queue(r, h, t) == [i \in 1 .. UsedOf(h, t) |-> r[(t + (i - 1)) % Size]]

LEMMA QueueSeq ==
  ASSUME NEW r \in [Index -> Nat], NEW h \in Index, NEW t \in Index
  PROVE  /\ Queue(r, h, t) \in Seq(Nat)
         /\ Len(Queue(r, h, t)) = UsedOf(h, t)
         /\ UsedOf(h, t) \in 0 .. Size - 1
         /\ \A i \in 1 .. UsedOf(h, t) :
              Queue(r, h, t)[i] = r[(t + (i - 1)) % Size]
<1>1. UsedOf(h, t) \in 0 .. Size - 1
  BY UsedRange
<1>2. ASSUME NEW i \in 1 .. UsedOf(h, t)
      PROVE  r[(t + (i - 1)) % Size] \in Nat
  <2>1. i - 1 \in Nat /\ i - 1 < Size
    BY <1>1, RingAssumption
  <2>2. (t + (i - 1)) % Size \in Index
    BY <2>1, Slot
  <2> QED BY <2>2
<1>3. UsedOf(h, t) \in Nat
  BY <1>1, RingAssumption
<1> QED BY <1>1, <1>2, <1>3 DEF Queue

LEMMA ContentsQueue == /\ Contents = Queue(ring, head, tail)
                       /\ Contents' = Queue(ring', head', tail')
BY DEF Contents, Queue, Used

\* Storing a block appends the next bytes of the stream.
LEMMA StorePuts == ASSUME RingInv, RingInv', Stores
                   PROVE  Fifo!Put(block)
<1> DEFINE q   == Queue(ring, head, tail)
           q2  == Queue(ring', head', tail)
           u   == UsedOf(head, tail)
           new == [i \in 1 .. block |-> sent + i]
<1>1. /\ block \in Nat \ {0} /\ block <= FreeOf(head, tail) /\ sent \in Nat
  BY StoredBlock DEF RingInv
<1>2. /\ tail' = tail /\ sent' = sent + block /\ running /\ running' = running
  BY DEF Stores, WStore
<1>3. /\ ring' \in [Index -> Nat] /\ head' \in Index /\ tail \in Index
      /\ ring \in [Index -> Nat] /\ head \in Index
      /\ UsedOf(head', tail) = u + block
      /\ \A i \in 0 .. u - 1 : ring'[(tail + i) % Size] = ring[(tail + i) % Size]
      /\ \A i \in 0 .. block - 1 :
           ring'[(tail + (u + i)) % Size] = sent + 1 + i
  BY StoredRing DEF RingInv
<1>4. /\ q \in Seq(Nat) /\ Len(q) = u /\ u \in 0 .. Size - 1
      /\ \A i \in 1 .. u : q[i] = ring[(tail + (i - 1)) % Size]
  BY <1>3, QueueSeq, Zenon
<1>5. /\ q2 \in Seq(Nat) /\ Len(q2) = u + block
      /\ \A i \in 1 .. u + block : q2[i] = ring'[(tail + (i - 1)) % Size]
  <2> DEFINE v == UsedOf(head', tail)
  <2>1. /\ q2 \in Seq(Nat) /\ Len(q2) = v
        /\ \A i \in 1 .. v : q2[i] = ring'[(tail + (i - 1)) % Size]
    BY <1>2, <1>3, QueueSeq, Zenon
  <2>2. v = u + block
    BY <1>3
  <2> HIDE DEF q2, v, u
  <2> QED BY <2>1, <2>2, Zenon
<1>6. /\ new \in Seq(Nat) /\ Len(new) = block
      /\ \A i \in 1 .. block : new[i] = sent + i
  BY <1>1
<1> HIDE DEF q, q2, new, u
<1>7. /\ q \o new \in Seq(Nat) /\ Len(q \o new) = u + block
      /\ \A i \in 1 .. u + block :
           (q \o new)[i] = IF i <= u THEN q[i] ELSE new[i - u]
  BY <1>4, <1>6, ConcatProperties, Zenon
<1>8. ASSUME NEW i \in 1 .. u + block
      PROVE  q2[i] = (q \o new)[i]
  <2>1. q2[i] = ring'[(tail + (i - 1)) % Size]
    BY <1>5
  <2>2. CASE i <= u
    <3>1. i - 1 \in 0 .. u - 1 /\ i \in 1 .. u
      BY <1>1, <1>4, <2>2, RingAssumption
    <3> QED BY <1>3, <1>4, <1>7, <2>1, <2>2, <3>1
  <2>3. CASE ~(i <= u)
    <3> DEFINE j == (i - 1) - u
    <3>1. j \in 0 .. block - 1 /\ u + j = i - 1 /\ i - u \in 1 .. block
      BY <1>1, <1>4, <2>3, RingAssumption
    <3>2. sent + 1 + j = sent + (i - u)
      BY <1>1, <1>4, <3>1, RingAssumption
    <3> HIDE DEF j
    <3>3. ring'[(tail + (u + j)) % Size] = sent + 1 + j
      BY <1>3, <3>1
    <3>4. (q \o new)[i] = sent + (i - u)
      BY <1>6, <1>7, <2>3, <3>1
    <3> QED BY <2>1, <3>1, <3>2, <3>3, <3>4
  <2> QED BY <2>2, <2>3
<1>9. q2 = q \o new
  BY <1>5, <1>7, <1>8, SeqEqual
<1>10. u + block <= Size - 1
  BY <1>1, <1>4, RingAssumption DEF FreeOf, u
<1>11. Contents' = Contents \o new /\ Len(Contents) = u
  BY <1>2, <1>4, <1>9, ContentsQueue DEF q, q2
<1> QED BY <1>2, <1>10, <1>11 DEF Fifo!Put, new

\* A turn of read_source() removes the oldest bytes.
LEMMA LockedTakesOldest ==
  ASSUME RingInv, RingInv', NEW n \in Nat, Takes(n)
  PROVE  Fifo!Take(n)
<1> DEFINE q  == Queue(ring, head, tail)
           q2 == Queue(ring, head, tail')
           u  == UsedOf(head, tail)
<1>1. /\ n <= u /\ tail' = (tail + n) % Size
      /\ UNCHANGED <<ring, head, sent, running>>
  BY DEF Takes, Used
<1>2. /\ ring \in [Index -> Nat] /\ head \in Index /\ tail \in Index
      /\ tail' \in Index /\ UsedOf(head, tail') = u - n
      /\ tail \in 0 .. Size - 1 /\ Size \in Nat \ {0}
  BY <1>1, UsedTake, RingAssumption DEF RingInv, Index
<1>3. /\ q \in Seq(Nat) /\ Len(q) = u /\ u \in 0 .. Size - 1
      /\ \A i \in 1 .. u : q[i] = ring[(tail + (i - 1)) % Size]
  <2>1. ring \in [Index -> Nat] /\ head \in Index /\ tail \in Index
    BY <1>2
  <2> QED BY ONLY <2>1, QueueSeq, ZenonT(60)
<1>4. /\ q2 \in Seq(Nat) /\ Len(q2) = u - n
      /\ \A i \in 1 .. u - n : q2[i] = ring[(tail' + (i - 1)) % Size]
  <2> DEFINE v == UsedOf(head, tail')
  <2>1. ring \in [Index -> Nat] /\ head \in Index /\ tail' \in Index
    BY <1>2
  <2>2. /\ q2 \in Seq(Nat) /\ Len(q2) = v
        /\ \A i \in 1 .. v : q2[i] = ring[(tail' + (i - 1)) % Size]
    BY ONLY <2>1, QueueSeq, ZenonT(60)
  <2>3. v = u - n
    BY <1>2
  <2> HIDE DEF q2, v, u
  <2> QED BY <2>2, <2>3, Zenon
<1> HIDE DEF q, q2, u
<1> DEFINE rest == SubSeq(q, n + 1, Len(q))
<1>5. /\ rest \in Seq(Nat) /\ Len(rest) = u - n
      /\ \A i \in 1 .. u - n : rest[i] = q[n + i]
  <2>1. q \in Seq(Nat) /\ Len(q) = u /\ u \in Nat /\ n <= u
    BY <1>1, <1>2, <1>3
  <2> QED BY ONLY <2>1, n \in Nat, SMTT(60)
<1>6. ASSUME NEW i \in 1 .. u - n
      PROVE  q2[i] = rest[i]
  <2>1. /\ n < Size /\ i - 1 \in Nat /\ i - 1 < Size
        /\ n + (i - 1) \in Nat /\ n + (i - 1) < Size
        /\ n + i \in 1 .. u /\ (n + i) - 1 = n + (i - 1)
    BY <1>1, <1>2, <1>3
  <2>2. (tail' + (i - 1)) % Size = (tail + (n + (i - 1))) % Size
    <3>1. tail' = IF tail + n < Size THEN tail + n ELSE (tail + n) - Size
      BY <1>1, <1>2, <2>1, Slot
    <3>2. (tail' + (i - 1)) % Size
            = IF tail' + (i - 1) < Size THEN tail' + (i - 1)
                                        ELSE (tail' + (i - 1)) - Size
      BY <1>2, <2>1, Slot
    <3>3. (tail + (n + (i - 1))) % Size
            = IF tail + (n + (i - 1)) < Size THEN tail + (n + (i - 1))
                                             ELSE (tail + (n + (i - 1))) - Size
      BY <1>2, <2>1, Slot
    <3> QED BY <1>2, <2>1, <3>1, <3>2, <3>3
  <2>3. q[n + i] = ring[(tail + (n + (i - 1))) % Size]
    BY <1>3, <2>1
  <2> QED BY <1>4, <1>5, <2>2, <2>3
<1> HIDE DEF rest
<1>7. q2 = rest
  BY <1>4, <1>5, <1>6, SeqEqual
<1>8. Contents' = SubSeq(Contents, n + 1, Len(Contents)) /\ Len(Contents) = u
  BY <1>1, <1>3, <1>7, ContentsQueue DEF q, q2, rest
<1> QED BY <1>1, <1>8 DEF Fifo!Take

\* The ring of netfm_stream.c implements the queue: see RingIsFifo.
THEOREM RingImplementsFifo == Spec => RingIsFifo
<1>1. Init => Fifo!Init
  <2> SUFFICES ASSUME Init PROVE Fifo!Init
    OBVIOUS
  <2>1. head = 0 /\ tail = 0 /\ sent = 0 /\ running = TRUE
    BY DEF Init
  <2>2. Used = 0
    BY <2>1, RingAssumption DEF Used, UsedOf
  <2>3. Contents = << >>
    BY <2>2 DEF Contents
  <2> QED BY <2>1, <2>3 DEF Fifo!Init
<1>2. ASSUME RingInv, ReadInv, RingInv', [Next]_vars
      PROVE  [Fifo!Next]_(Fifo!vars)
  <2>1. CASE Stores
    <3>1. block \in 1 .. Size - 1
      <4>1. block \in Nat \ {0} /\ block <= FreeOf(head, tail)
        BY <2>1, StoredBlock, <1>2
      <4>2. UsedOf(head, tail) \in 0 .. Size - 1
        BY UsedRange, <1>2 DEF RingInv
      <4> QED BY <4>1, <4>2, RingAssumption DEF FreeOf
    <3> QED BY <1>2, <2>1, <3>1, StorePuts DEF Fifo!Next
  <2>2. CASE Flags
    <3>1. running' = FALSE /\ UNCHANGED <<ring, head, tail, sent>>
      BY <2>2 DEF Flags, StopFlag
    <3>2. Contents' = Contents
      BY <3>1 DEF Contents, Used
    <3> QED BY <3>1, <3>2 DEF Fifo!Next, Fifo!Close
  <2>3. CASE Clears
    <3>1. /\ head' = 0 /\ tail' = 0 /\ ~running /\ UNCHANGED <<running, sent>>
      BY <1>2, <2>3 DEF Clears, StopClear, RingInv
    <3>2. Used' = 0
      BY <3>1, RingAssumption DEF Used, UsedOf
    <3>3. Contents' = << >>
      BY <3>2 DEF Contents
    <3> QED BY <3>1, <3>3 DEF Fifo!Next, Fifo!Discard
  <2>4. CASE Leaves
    <3>1. Contents' = Contents
      BY <2>4 DEF Leaves, Contents, Used
    <3> QED BY <2>4, <3>1 DEF Leaves, Fifo!vars
  <2>5. ASSUME NEW n \in Nat, Takes(n)
        PROVE  [Fifo!Next]_(Fifo!vars)
    <3>1. Fifo!Take(n)
      BY <1>2, <2>5, LockedTakesOldest
    <3>2. Used \in 0 .. Size - 1
      BY <1>2, UsedRange DEF RingInv, Used
    <3>3. CASE n = 0
      <4>1. tail' = tail
        BY <2>5, <3>3, <1>2, ModSmall DEF Takes, RingInv, Index
      <4>2. Contents' = Contents /\ UNCHANGED <<sent, running>>
        BY <2>5, <4>1 DEF Takes, Contents, Used
      <4> QED BY <4>2 DEF Fifo!vars
    <3>4. CASE n > 0
      <4>1. n \in 1 .. Size - 1
        BY <2>5, <3>2, <3>4, RingAssumption DEF Takes
      <4> QED BY <3>1, <4>1 DEF Fifo!Next
    <3> QED BY <3>3, <3>4
  <2> QED BY <1>2, <2>1, <2>2, <2>3, <2>4, <2>5, RingSteps
<1> QED BY <1>1, <1>2, RingInvariant, PTL DEF Spec, RingIsFifo, Fifo!Spec

-----------------------------------------------------------------------------
(* The request buffer: where its bytes lie, and which bytes they are.      *)

\* A difference of two counters on size_t, when it does not wrap and at all.
LEMMA LessSmall == ASSUME NEW a \in 0 .. Wrap - 1, NEW b \in 0 .. a
                   PROVE  Less(a, b) = a - b
<1>1. a + Wrap - b \in Wrap .. 2 * Wrap - 1 /\ Wrap \in Nat \ {0}
  BY RingAssumption
<1>2. (a + Wrap - b) % Wrap = (a + Wrap - b) - Wrap
  BY <1>1
<1> QED BY <1>1, <1>2 DEF Less

LEMMA LessRange == ASSUME NEW a \in Nat, NEW b \in Nat
                   PROVE  Less(a, b) \in 0 .. Wrap - 1
<1>1. a + Wrap - b \in Int /\ Wrap \in Nat \ {0}
  BY RingAssumption
<1> QED BY <1>1 DEF Less

\* What a copy leaves in its destination has the type of both, provided that
\* it reads inside its source where it writes inside its destination.
LEMMA MemCpyType ==
  ASSUME NEW S, NEW D, NEW to \in [D -> S], NEW from,
         NEW at \in Nat, NEW off \in Nat, NEW n \in Nat, D \subseteq Nat,
         \A j \in 0 .. n - 1 : from[off + j] \in S
  PROVE  MemCpy(to, at, from, off, n) \in [D -> S]
<1>1. ASSUME NEW i \in D, at <= i /\ i < at + n
      PROVE  from[off + (i - at)] \in S
  <2>1. i - at \in 0 .. n - 1
    BY <1>1
  <2> QED BY <2>1
<1> QED BY <1>1 DEF MemCpy

ReqIndex == 0 .. ReqSize - 1

Counts ==
  /\ sent \in Bytes /\ block \in WriteSizes \cup {0}
  /\ block > 0 => sent + block <= MaxSent
  /\ reqLen \in 0 .. Wrap - 1 /\ reqPos \in 0 .. Wrap - 1
  /\ dpc \in {"codec", "shift", "fill", "read", "locked", "advance", "fbcopy", "eof"}
  /\ asked \in Nat /\ heldPos \in Nat /\ heldLen \in Nat
  /\ dst \in {"req", "fb"} /\ base \in Nat /\ need \in Nat /\ done \in Nat
  /\ given \in Nat /\ eaten \in Nat

Memory ==
  /\ ring \in [Index -> Bytes]
  /\ reqBuf \in [ReqIndex -> Bytes]
  /\ fbBuf \in [ReqIndex -> Bytes]

(* What the decoder has loaded, has asked for and was given fits the buffer *)
(* as it is, or as it was before a stop emptied it.                         *)
Fits ==
  /\ dpc \in {"shift", "fill", "fbcopy"} => asked <= ReqSize
  /\ dpc \notin {"read", "locked"} => done = 0
  /\ reqPos <= eaten
  /\ spc # "cleared" => reqPos <= reqLen /\ reqLen <= ReqSize
  /\ dpc \in {"shift", "fbcopy", "advance"} =>
       /\ reqPos <= heldPos /\ reqLen <= heldLen /\ heldPos <= eaten
       /\ spc # "cleared" => heldPos = reqPos /\ heldLen = reqLen
       /\ heldLen < Wrap
  /\ dpc \in {"shift", "fbcopy"} => heldPos <= heldLen /\ heldLen <= ReqSize
  /\ dpc \in {"read", "locked"} =>
       /\ base + need <= ReqSize /\ done <= need
       /\ dst = "req" => asked <= ReqSize
       /\ spc # "cleared" => IF dst = "req" THEN base = reqLen
                                           ELSE reqLen = 0 /\ reqPos = 0

ShapeInv == RingInv /\ ReadInv /\ Counts /\ Memory /\ Fits

LEMMA ShapeInit == Init => ShapeInv
<1>1. Size \in Nat \ {0} /\ ReqSize \in Nat \ {0} /\ MaxSent \in Nat /\ Wrap \in Nat \ {0}
  BY RingAssumption
<1> QED BY <1>1, InitInv DEF Init, ShapeInv, Counts, Memory, Fits, Index, Bytes, ReqIndex

\* The sizes and counters, by the step of the decoder.
LEMMA CountsStep == ASSUME ShapeInv, [Next]_vars
                    PROVE  Counts' /\ Fits'
<1> USE DEF ShapeInv, Counts, Fits
<1>0. /\ Size \in Nat \ {0} /\ ReqSize \in Nat \ {0} /\ MaxSent \in Nat
      /\ Wrap \in Nat /\ Wrap > ReqSize + Size
      /\ WriteSizes \subseteq Nat \ {0} /\ ReadSizes \subseteq Nat \ {0}
  BY RingAssumption
<1>00. (running <=> spc = "on") /\ spc \in {"on", "flagged", "cleared"}
  BY DEF RingInv
<1>1. CASE Worker
  <2>1. ASSUME NEW k \in WriteSizes, WBlock(k) PROVE Counts' /\ Fits'
    BY <1>0, <2>1 DEF WBlock, req, rd
  <2>2. CASE WStore
    BY <1>0, <2>2 DEF WStore, req, rd, Bytes
  <2>3. CASE WAbort
    BY <1>0, <2>3 DEF WAbort, req, rd
  <2> QED BY <1>1, <2>1, <2>2, <2>3 DEF Worker
<1>2. CASE ReqEof
  BY <1>0, <1>2 DEF ReqEof, Eof, At, source, rd
<1>3. ASSUME NEW r \in ReadSizes, ReqEnter(r) PROVE Counts' /\ Fits'
  BY <1>0, <1>00, <1>3 DEF ReqEnter, At, source, req, rd, MinOf
<1>4. ASSUME NEW r \in ReadSizes, AdvLoad(r) PROVE Counts' /\ Fits'
  BY <1>0, <1>00, <1>4 DEF AdvLoad, At, source, req, rd
<1>5. ASSUME NEW r \in ReadSizes, FbEnter(r) PROVE Counts' /\ Fits'
  BY <1>0, <1>00, <1>5 DEF FbEnter, At, source, req, rd
<1>6. CASE ReqShift
  <2>1. PICK p \in {heldPos, reqPos}, l \in {heldLen, reqLen} :
          reqLen' = Less(l, p) /\ reqPos' = 0
    BY <1>6 DEF ReqShift
  <2>2. dpc = "shift" /\ dpc' = "fill"
    BY <1>6 DEF ReqShift, At
  <2>3. Less(l, p) \in 0 .. Wrap - 1
    <3>1. l \in Nat /\ p \in Nat
      BY <1>0
    <3> QED BY <3>1, LessRange
  <2>4. spc # "cleared" => Less(l, p) = l - p
    <3>1. spc # "cleared" => l \in 0 .. Wrap - 1 /\ p \in 0 .. l
      BY <2>2, <1>0
    <3> QED BY <3>1, LessSmall
  <2>5. UNCHANGED <<source, asked, heldPos, heldLen, rd, given, eaten>>
    BY <1>6 DEF ReqShift
  <2> QED BY <1>0, <2>1, <2>2, <2>3, <2>4, <2>5 DEF source, rd
<1>7. CASE ReqFill
  BY <1>0, <1>7 DEF ReqFill, ReadCall, At, source, req, rd
<1>8. CASE AdvStore
  <2>1. PICK p \in {heldPos, reqPos}, l \in {heldLen, reqLen} :
          reqPos' = MinOf(p + asked, l)
    BY <1>8 DEF AdvStore
  <2>2. /\ dpc = "advance" /\ dpc' = "codec"
        /\ eaten' = eaten + (MinOf(heldPos + asked, heldLen) - heldPos)
        /\ UNCHANGED <<source, reqLen, asked, heldPos, heldLen, rd, given>>
    BY <1>8 DEF AdvStore, At
  <2>3. p \in Nat /\ p <= heldPos /\ l \in Nat /\ l <= heldLen /\ l < Wrap
    BY <1>0, <2>2
  <2> DEFINE a == MinOf(p + asked, l)
             b == MinOf(heldPos + asked, heldLen)
  <2>4. a \in Nat /\ b \in Nat /\ a <= b /\ a <= l
    BY <2>3 DEF MinOf
  <2>5. spc # "cleared" => a <= reqLen
    BY <2>2, <2>4
  <2> HIDE DEF a, b
  <2>6. reqPos' = a /\ eaten' = eaten + (b - heldPos)
    BY <2>1, <2>2 DEF a, b
  <2> QED BY <1>0, <2>2, <2>3, <2>4, <2>5, <2>6 DEF source, rd
<1>9. CASE FbCopy
  <2>1. PICK p \in {heldPos, reqPos}, l \in {heldLen, reqLen} :
          LET n == IF p < l THEN MinOf(asked, l - p) ELSE 0 IN
          /\ eaten' = eaten + n
          /\ IF n < asked /\ p + n >= l
               THEN /\ reqPos' = 0 /\ reqLen' = 0
                    /\ ReadCall("fb", n, asked - n)
               ELSE /\ reqPos' = p + n /\ dpc' = "codec"
                    /\ UNCHANGED <<reqLen, dst, base, need, done>>
    BY <1>9 DEF FbCopy
  <2>2. dpc = "fbcopy" /\ UNCHANGED <<source, asked, heldPos, heldLen, given>>
    BY <1>9 DEF FbCopy, At
  <2> DEFINE n == IF p < l THEN MinOf(asked, l - p) ELSE 0
  <2>3. /\ p \in Nat /\ p <= heldPos /\ l \in Nat /\ l <= heldLen
        /\ asked <= ReqSize /\ heldPos <= eaten
        /\ heldPos <= heldLen /\ heldLen <= ReqSize
        /\ spc # "cleared" => p = reqPos /\ l = reqLen /\ p <= l
    BY <1>0, <2>2
  <2>4. n \in Nat /\ n <= asked /\ (p <= l => p + n <= l) /\ p + n < Wrap
    BY <1>0, <2>3 DEF MinOf
  <2> HIDE DEF n
  <2>5. eaten' = eaten + n
    BY <2>1 DEF n
  <2>6. CASE n < asked /\ p + n >= l
    <3>1. reqPos' = 0 /\ reqLen' = 0 /\ ReadCall("fb", n, asked - n)
      BY <2>1, <2>6 DEF n
    <3> QED BY <1>0, <2>2, <2>3, <2>4, <2>5, <3>1, <2>6 DEF source, ReadCall
  <2>7. CASE ~(n < asked /\ p + n >= l)
    <3>1. /\ reqPos' = p + n /\ dpc' = "codec"
          /\ UNCHANGED <<reqLen, dst, base, need, done>>
      BY <2>1, <2>7 DEF n
    <3> QED BY <1>0, <2>2, <2>3, <2>4, <2>5, <3>1 DEF source
  <2> QED BY <2>6, <2>7
<1>10. CASE ReadTurn
  BY <1>10 DEF ReadTurn, At, source, req, rd
<1>11. CASE ReadLocked
  <2>1. Used \in 0 .. Size - 1
    BY UsedRange DEF Used, RingInv
  <2> DEFINE n == MinOf(need - done, Used)
  <2>2. done < need /\ dpc = "locked" /\ dpc' = "read" /\ done' = done + n
    BY <1>11 DEF ReadLocked, At, ReadInv
  <2>3. n \in Nat /\ n <= need - done
    BY <1>0, <2>1, <2>2 DEF MinOf
  <2>4. /\ eaten' = IF dst = "req" THEN eaten ELSE eaten + n
        /\ UNCHANGED <<sent, block, spc, reqLen, reqPos, asked, heldPos,
                       heldLen, dst, base, need, given>>
    BY <1>11 DEF ReadLocked
  <2> HIDE DEF n
  <2> QED BY <1>0, <2>2, <2>3, <2>4
<1>12. CASE ReadReturn
  <2>1. /\ dpc = "read" /\ done' = 0
        /\ UNCHANGED <<source, reqPos, asked, heldPos, heldLen, dst, base, need, eaten>>
    BY <1>12 DEF ReadReturn, At
  <2>2. CASE /\ dst = "req" /\ reqLen' = (reqLen + done) % Wrap
             /\ dpc' = "fill" /\ UNCHANGED given
    <3>1. reqLen + done \in Nat /\ (reqLen + done) % Wrap \in 0 .. Wrap - 1
      BY <1>0
    <3>2. spc # "cleared" => reqLen + done <= ReqSize
      BY <1>0, <2>1, <2>2
    <3>3. spc # "cleared" => (reqLen + done) % Wrap = reqLen + done
      BY <1>0, <3>1, <3>2
    <3>4. asked <= ReqSize
      BY <2>1, <2>2
    <3> QED BY <1>0, <2>1, <2>2, <3>1, <3>2, <3>3, <3>4 DEF source
  <2>3. CASE dpc' = "codec" /\ given' \in {given, reqLen} /\ UNCHANGED reqLen
    BY <1>0, <2>1, <2>3 DEF source
  <2> QED BY <1>12, <2>1, <2>2, <2>3 DEF ReadReturn
<1>13. CASE Stopper
  <2>1. CASE StopFlag
    BY <2>1 DEF StopFlag, req, rd
  <2>2. CASE StopClear
    BY <1>0, <2>2 DEF StopClear, rd
  <2> QED BY <1>13, <2>1, <2>2 DEF Stopper
<1>14. CASE UNCHANGED vars
  BY <1>14 DEF vars, req, rd
<1> QED
  BY <1>1, <1>2, <1>3, <1>4, <1>5, <1>6, <1>7, <1>8, <1>9, <1>10, <1>11, <1>12,
     <1>13, <1>14
  DEF Next, Decoder, ReadSrc

(* What a locked turn of read_source() leaves in its destination: the n     *)
(* oldest bytes of the ring, in both copies, and the rest as it was.        *)
LEMMA TakenSlots ==
  ASSUME RingInv, Memory, NEW to \in [ReqIndex -> Bytes], NEW at \in Nat,
         NEW n \in Nat, n < Size
  PROVE  /\ FromRing(to, at, n) \in [ReqIndex -> Bytes]
         /\ \A i \in ReqIndex :
              FromRing(to, at, n)[i] = IF at <= i /\ i < at + n
                                         THEN ring[(tail + (i - at)) % Size] ELSE to[i]
<1> DEFINE first == MinOf(n, Size - tail)
           one == MemCpy(to, at, ring, tail, first)
<1>0. /\ Size \in Nat \ {0} /\ tail \in 0 .. Size - 1 /\ ReqSize \in Nat
      /\ DOMAIN to = ReqIndex /\ \A i \in ReqIndex : i \in Nat
  BY RingAssumption DEF RingInv, Index, ReqIndex
<1>1. /\ first \in 0 .. n /\ tail + first <= Size
      /\ first < n => tail + first = Size
  BY <1>0 DEF MinOf
<1>2. FromRing(to, at, n) = MemCpy(one, at + first, ring, 0, n - first)
  BY DEF FromRing
<1> HIDE DEF first
<1>3. one = [i \in ReqIndex |-> IF at <= i /\ i < at + first
                                  THEN ring[tail + (i - at)] ELSE to[i]]
  BY <1>0 DEF MemCpy
<1> HIDE DEF one
<1>4. FromRing(to, at, n)
        = [i \in ReqIndex |-> IF at + first <= i /\ i < (at + first) + (n - first)
                                THEN ring[0 + (i - (at + first))] ELSE one[i]]
  BY <1>2, <1>3 DEF MemCpy
<1>5. ASSUME NEW i \in ReqIndex
      PROVE  (IF at + first <= i /\ i < (at + first) + (n - first)
                THEN ring[0 + (i - (at + first))] ELSE one[i])
             = IF at <= i /\ i < at + n THEN ring[(tail + (i - at)) % Size] ELSE to[i]
  <2>0. i \in Nat
    BY <1>0
  <2>1. CASE at + first <= i /\ i < at + n
    <3>1. i - at \in Nat /\ i - at < Size /\ first < n
      BY <1>0, <1>1, <2>0, <2>1
    <3>2. (tail + (i - at)) % Size
            = IF tail + (i - at) < Size THEN tail + (i - at) ELSE (tail + (i - at)) - Size
      BY <1>0, <3>1, Slot DEF Index
    <3>3. (tail + (i - at)) % Size = 0 + (i - (at + first))
      BY <1>0, <1>1, <2>0, <2>1, <3>1, <3>2
    <3>4. i < (at + first) + (n - first) /\ at <= i
      BY <1>0, <1>1, <2>0, <2>1
    <3> QED BY <2>1, <3>3, <3>4
  <2>2. CASE at <= i /\ i < at + first
    <3>1. i - at \in Nat /\ i - at < Size /\ tail + (i - at) < Size /\ i < at + n
      BY <1>0, <1>1, <2>0, <2>2
    <3>2. (tail + (i - at)) % Size = tail + (i - at)
      BY <1>0, <3>1, Slot DEF Index
    <3>3. ~(at + first <= i)
      BY <1>0, <1>1, <2>0, <2>2
    <3> QED BY <1>3, <2>2, <3>1, <3>2, <3>3
  <2>3. CASE ~(at <= i /\ i < at + n)
    <3>1. /\ ~(at + first <= i /\ i < (at + first) + (n - first))
          /\ ~(at <= i /\ i < at + first)
      BY <1>0, <1>1, <2>0, <2>3
    <3> QED BY <1>3, <2>3, <3>1
  <2> QED BY <1>0, <1>1, <2>0, <2>1, <2>2, <2>3
<1>6. FromRing(to, at, n)
        = [i \in ReqIndex |-> IF at <= i /\ i < at + n
                                THEN ring[(tail + (i - at)) % Size] ELSE to[i]]
  BY <1>4, <1>5
<1>7. ASSUME NEW i \in ReqIndex, at <= i, i < at + n
      PROVE  ring[(tail + (i - at)) % Size] \in Bytes
  <2>1. i - at \in Nat /\ i - at < Size
    BY <1>0, <1>7
  <2>2. (tail + (i - at)) % Size \in Index
    BY <2>1, Slot DEF RingInv
  <2> QED BY <2>2 DEF Memory
<1> QED BY <1>6, <1>7

\* A turn takes no more than the ring holds and the destination has room for.
LEMMA TurnFits ==
  ASSUME ShapeInv, ReadLocked
  PROVE  LET n == MinOf(need - done, Used)
         IN  /\ n \in Nat /\ n < Size /\ n <= Used /\ n <= need - done
             /\ done < need /\ base + need <= ReqSize
<1>1. Used \in 0 .. Size - 1 /\ Size \in Nat
  BY UsedRange, RingAssumption DEF Used, ShapeInv, RingInv
<1>2. done < need /\ dpc = "locked" /\ need \in Nat /\ done \in Nat
  BY DEF ReadLocked, At, ShapeInv, ReadInv
<1>3. base + need <= ReqSize
  BY <1>2 DEF ShapeInv, Fits
<1> QED BY <1>1, <1>2, <1>3 DEF MinOf

\* Whatever is copied where, the three buffers hold bytes of the stream.
LEMMA MemoryStep == ASSUME ShapeInv, [Next]_vars
                    PROVE  Memory'
<1>0. /\ Size \in Nat \ {0} /\ ReqSize \in Nat \ {0} /\ MaxSent \in Nat
      /\ ReqIndex \subseteq Nat /\ Index \subseteq Nat
  BY RingAssumption DEF ReqIndex, Index
<1>1. Memory
  BY DEF ShapeInv
<1>2. CASE WStore
  <2> DEFINE first == MinOf(block, Size - head)
             one == MemCpy(ring, head, Body(block), 0, first)
  <2>1. /\ block \in Nat \ {0} /\ sent \in Nat /\ sent + block <= MaxSent
        /\ head \in 0 .. Size - 1
    BY <1>0, <1>2 DEF WStore, ShapeInv, RingInv, Counts, Index
  <2>2. first \in 0 .. block
    BY <1>0, <2>1 DEF MinOf
  <2>3. ring' = MemCpy(one, 0, Body(block), first, block - first)
    BY <1>2 DEF WStore
  <2>4. \A j \in 0 .. block - 1 : Body(block)[j] \in Bytes
    BY <1>0, <2>1 DEF Body, Bytes
  <2> HIDE DEF first
  <2>5. one \in [Index -> Bytes]
    <3>1. \A j \in 0 .. first - 1 : Body(block)[0 + j] \in Bytes
      BY <2>1, <2>2, <2>4
    <3>2. head \in Nat /\ first \in Nat /\ ring \in [Index -> Bytes]
      BY <1>0, <1>1, <2>1, <2>2 DEF Memory
    <3> QED BY <1>0, <3>1, <3>2, MemCpyType
  <2> HIDE DEF one
  <2>6. ring' \in [Index -> Bytes]
    <3>1. \A j \in 0 .. (block - first) - 1 : Body(block)[first + j] \in Bytes
      BY <2>1, <2>2, <2>4
    <3>2. first \in Nat /\ block - first \in Nat
      BY <2>1, <2>2
    <3> QED BY <1>0, <2>3, <2>5, <3>1, <3>2, MemCpyType
  <2> QED BY <1>1, <1>2, <2>6 DEF WStore, Memory, req, rd
<1>3. CASE ReqShift
  <2>1. PICK p \in {heldPos, reqPos}, l \in {heldLen, reqLen} :
          reqBuf' = IF p < l THEN MemCpy(reqBuf, 0, reqBuf, p, l - p) ELSE reqBuf
    BY <1>3 DEF ReqShift
  <2>2. p \in Nat /\ l \in Nat /\ l <= ReqSize
    BY <1>0, <1>3, RingAssumption DEF ReqShift, At, ShapeInv, Counts, Fits
  <2>3. ASSUME p < l
        PROVE  MemCpy(reqBuf, 0, reqBuf, p, l - p) \in [ReqIndex -> Bytes]
    <3>1. \A j \in 0 .. (l - p) - 1 : p + j \in ReqIndex
      BY <1>0, <2>2, <2>3 DEF ReqIndex
    <3>2. \A j \in 0 .. (l - p) - 1 : reqBuf[p + j] \in Bytes
      BY <1>1, <3>1 DEF Memory
    <3>3. l - p \in Nat /\ reqBuf \in [ReqIndex -> Bytes]
      BY <1>1, <2>2, <2>3 DEF Memory
    <3> QED BY <1>0, <2>2, <3>2, <3>3, MemCpyType
  <2> QED BY <1>1, <1>3, <2>1, <2>3 DEF Memory, ReqShift, source, rd
<1>4. CASE FbCopy
  <2>1. PICK p \in {heldPos, reqPos}, l \in {heldLen, reqLen} :
          LET n == IF p < l THEN MinOf(asked, l - p) ELSE 0
          IN  fbBuf' = MemCpy(fbBuf, 0, reqBuf, p, n)
    BY <1>4 DEF FbCopy
  <2> DEFINE n == IF p < l THEN MinOf(asked, l - p) ELSE 0
  <2>2. p \in Nat /\ l \in Nat /\ l <= ReqSize /\ asked \in Nat
    BY <1>0, <1>4, RingAssumption DEF FbCopy, At, ShapeInv, Counts, Fits
  <2>3. n \in Nat /\ (n > 0 => p + n <= ReqSize)
    BY <1>0, <2>2 DEF MinOf
  <2>4. fbBuf' = MemCpy(fbBuf, 0, reqBuf, p, n)
    BY <2>1
  <2> HIDE DEF n
  <2>5. \A j \in 0 .. n - 1 : p + j \in ReqIndex
    BY <1>0, <2>2, <2>3 DEF ReqIndex
  <2>6. \A j \in 0 .. n - 1 : reqBuf[p + j] \in Bytes
    BY <1>1, <2>5 DEF Memory
  <2>7. fbBuf' \in [ReqIndex -> Bytes]
    <3>1. fbBuf \in [ReqIndex -> Bytes]
      BY <1>1 DEF Memory
    <3> QED BY <1>0, <2>2, <2>3, <2>4, <2>6, <3>1, MemCpyType
  <2> QED BY <1>1, <1>4, <2>7 DEF Memory, FbCopy, source
<1>5. CASE ReadLocked
  <2> DEFINE n == MinOf(need - done, Used)
             at == base + done
  <2>1. n \in Nat /\ n < Size /\ at \in Nat
    BY <1>5, TurnFits DEF ShapeInv, Counts
  <2>2. RingInv
    BY DEF ShapeInv
  <2>3. \/ reqBuf' = FromRing(reqBuf, at, n) /\ UNCHANGED <<fbBuf, ring>>
        \/ fbBuf' = FromRing(fbBuf, at, n) /\ UNCHANGED <<reqBuf, ring>>
    BY <1>5 DEF ReadLocked
  <2> HIDE DEF n, at
  <2>4. ASSUME NEW to \in [ReqIndex -> Bytes]
        PROVE  FromRing(to, at, n) \in [ReqIndex -> Bytes]
    BY <1>1, <2>1, <2>2, TakenSlots
  <2> QED BY <1>1, <2>3, <2>4 DEF Memory
<1>6. CASE UNCHANGED <<ring, reqBuf, fbBuf>>
  BY <1>1, <1>6 DEF Memory
<1>7. CASE \/ WAbort \/ \E k \in WriteSizes : WBlock(k)
           \/ StopFlag \/ StopClear
  <2>1. UNCHANGED <<ring, reqBuf, fbBuf>>
    BY <1>7 DEF WAbort, WBlock, StopFlag, StopClear, req, rd
  <2> QED BY <1>6, <2>1
<1>8. CASE \/ ReqEof \/ ReqFill \/ AdvStore \/ ReadTurn \/ ReadReturn
           \/ \E r \in ReadSizes : ReqEnter(r) \/ AdvLoad(r) \/ FbEnter(r)
  <2>1. UNCHANGED <<ring, reqBuf, fbBuf>>
    BY <1>8 DEF ReqEof, Eof, ReqFill, AdvStore, ReadTurn, ReadReturn, ReqEnter,
                AdvLoad, FbEnter, ReadCall, source, req, rd
  <2> QED BY <1>6, <2>1
<1>9. CASE UNCHANGED vars
  BY <1>6, <1>9 DEF vars
<1> QED
  BY <1>2, <1>3, <1>4, <1>5, <1>7, <1>8, <1>9
  DEF Next, Worker, Decoder, Stopper, ReadSrc

LEMMA ShapeStep == ASSUME ShapeInv, [Next]_vars
                   PROVE  ShapeInv'
BY CountsStep, MemoryStep, RingStep, ReadStep DEF ShapeInv

\* The i-th byte after a tail that moved by n.
LEMMA TailMoved ==
  ASSUME NEW t \in Index, NEW n \in Nat, NEW i \in Nat, n + i < Size
  PROVE  (((t + n) % Size) + i) % Size = (t + (n + i)) % Size
<1> DEFINE u == (t + n) % Size
<1>0. t \in 0 .. Size - 1 /\ Size \in Nat \ {0} /\ n < Size /\ i < Size
  BY RingAssumption DEF Index
<1>1. u \in Index /\ u = IF t + n < Size THEN t + n ELSE (t + n) - Size
  BY <1>0, Slot
<1> HIDE DEF u
<1>2. (u + i) % Size = IF u + i < Size THEN u + i ELSE (u + i) - Size
  BY <1>0, <1>1, Slot
<1>3. (t + (n + i)) % Size
        = IF t + (n + i) < Size THEN t + (n + i) ELSE (t + (n + i)) - Size
  <2>1. n + i \in Nat /\ n + i < Size
    BY <1>0
  <2> QED BY <2>1, Slot
<1>4. u \in 0 .. Size - 1
  BY <1>1 DEF Index
<1>5. (u + i) % Size = (t + (n + i)) % Size
  BY <1>0, <1>1, <1>2, <1>3, <1>4
<1> QED BY <1>5 DEF u

\* How many bytes of req_buf the codec has not used.
Buffered == reqLen - reqPos + IF dst = "req" THEN done ELSE 0

(* Every byte the worker stored is used, in the request buffer or in the    *)
(* ring, once, and lies where the next one to read is looked for.           *)
Order ==
  /\ sent = eaten + Buffered + Used
  /\ \A i \in 0 .. Buffered - 1 : reqBuf[reqPos + i] = eaten + 1 + i
  /\ \A i \in 0 .. Used - 1 : ring[(tail + i) % Size] = eaten + Buffered + 1 + i
  /\ dst = "fb" /\ dpc \in {"read", "locked"} =>
       \A i \in 0 .. base + done - 1 : fbBuf[i] = eaten - (base + done) + 1 + i

OrderInv == running => Order

\* What is known of the request buffer while the stream runs.
LEMMA LiveShape ==
  ASSUME ShapeInv, running
  PROVE  /\ spc = "on" /\ reqPos \in Nat /\ reqLen \in Nat /\ eaten \in Nat
         /\ reqPos <= reqLen /\ reqLen <= ReqSize /\ ReqSize \in Nat /\ ReqSize < Wrap
         /\ done \in Nat /\ base \in Nat /\ need \in Nat /\ asked \in Nat /\ sent \in Nat
         /\ Buffered \in Nat /\ Used \in 0 .. Size - 1 /\ Size \in Nat \ {0}
         /\ dst \in {"req", "fb"}
         /\ dpc \notin {"read", "locked"} => done = 0
         /\ dpc \in {"shift", "fbcopy", "advance"} => heldPos = reqPos /\ heldLen = reqLen
         /\ dpc \in {"read", "locked"} =>
              /\ base + need <= ReqSize /\ done <= need
              /\ IF dst = "req" THEN base = reqLen ELSE reqLen = 0 /\ reqPos = 0
<1>1. /\ Size \in Nat \ {0} /\ ReqSize \in Nat \ {0} /\ MaxSent \in Nat
      /\ Wrap \in Nat /\ Wrap > ReqSize + Size
  BY RingAssumption
<1>2. Used \in 0 .. Size - 1
  BY UsedRange DEF Used, ShapeInv, RingInv
<1>3. spc = "on"
  BY DEF ShapeInv, RingInv
<1> QED BY <1>1, <1>2, <1>3 DEF ShapeInv, Counts, Fits, Buffered, Bytes

\* A step that moves nothing keeps the order.
LEMMA OrderKept ==
  ASSUME Order, UNCHANGED <<ring, head, tail, sent, reqBuf, fbBuf, eaten, reqPos>>,
         Buffered' = Buffered,
         \/ UNCHANGED <<dst, dpc, base, done>>
         \/ UNCHANGED <<dst, base, done>> /\ dpc \in {"read", "locked"}
         \/ ~(dst' = "fb" /\ dpc' \in {"read", "locked"})
  PROVE  Order'
BY DEF Order, Used

\* The codec has used d more bytes of the buffer.
LEMMA OrderUsed ==
  ASSUME ShapeInv, running, Order, NEW d \in Nat, d <= Buffered,
         UNCHANGED <<ring, head, tail, sent, reqBuf>>,
         reqPos' = reqPos + d, eaten' = eaten + d, Buffered' = Buffered - d,
         ~(dst' = "fb" /\ dpc' \in {"read", "locked"})
  PROVE  Order'
<1>1. /\ Used' = Used /\ sent \in Nat /\ eaten \in Nat /\ reqPos \in Nat
      /\ Buffered \in Nat /\ Used \in Nat
  BY LiveShape DEF Used
<1>2. ASSUME NEW i \in 0 .. (Buffered - d) - 1
      PROVE  reqBuf[(reqPos + d) + i] = (eaten + d) + 1 + i
  <2>1. d + i \in 0 .. Buffered - 1 /\ (reqPos + d) + i = reqPos + (d + i)
    BY <1>1
  <2>2. reqBuf[reqPos + (d + i)] = eaten + 1 + (d + i)
    BY <2>1 DEF Order
  <2> QED BY <1>1, <2>1, <2>2
<1>3. \A i \in 0 .. Used - 1 :
        ring[(tail + i) % Size] = (eaten + d) + (Buffered - d) + 1 + i
  BY <1>1 DEF Order
<1>4. sent = (eaten + d) + (Buffered - d) + Used
  BY <1>1 DEF Order
<1> QED BY <1>1, <1>2, <1>3, <1>4 DEF Order

LEMMA OrderInit == Init => OrderInv
<1> SUFFICES ASSUME Init PROVE Order
  BY DEF OrderInv
<1>1. Buffered = 0
  BY DEF Init, Buffered
<1>2. Used = 0
  BY RingAssumption DEF Init, Used, UsedOf
<1> QED BY <1>1, <1>2 DEF Init, Order

LEMMA StoreOrder == ASSUME ShapeInv, Order, WStore
                    PROVE  Order'
<1>1. Stores
  BY DEF WStore, Stores, Filled
<1>2. running
  BY DEF WStore
<1>3. /\ block \in Nat \ {0} /\ sent' = sent + block
      /\ UNCHANGED <<tail, req, dpc, rd, eaten>>
  BY <1>1, StoredBlock DEF ShapeInv, WStore
<1>4. /\ UsedOf(head', tail) = Used + block
      /\ \A i \in 0 .. Used - 1 : ring'[(tail + i) % Size] = ring[(tail + i) % Size]
      /\ \A i \in 0 .. block - 1 : ring'[(tail + (Used + i)) % Size] = sent + 1 + i
  BY <1>1, StoredRing DEF ShapeInv, Used
<1>5. Used' = Used + block /\ Buffered' = Buffered
  BY <1>3, <1>4 DEF Used, Buffered, req, rd
<1>6. sent \in Nat /\ eaten \in Nat /\ Used \in Nat /\ Buffered \in Nat
  BY <1>2, LiveShape
<1>7. ASSUME NEW i \in 0 .. (Used + block) - 1
      PROVE  ring'[(tail + i) % Size] = eaten + Buffered + 1 + i
  <2>1. CASE i < Used
    <3>1. i \in 0 .. Used - 1
      BY <1>6, <2>1
    <3> QED BY <1>4, <3>1 DEF Order
  <2>2. CASE i >= Used
    <3>1. PICK j \in 0 .. block - 1 : i = Used + j
      <4>1. i - Used \in 0 .. block - 1 /\ i = Used + (i - Used)
        BY <1>3, <1>6, <2>2
      <4> QED BY <4>1
    <3>2. ring'[(tail + i) % Size] = sent + 1 + j
      BY <1>4, <3>1
    <3>3. sent = eaten + Buffered + Used
      BY DEF Order
    <3> QED BY <1>3, <1>6, <3>1, <3>2, <3>3
  <2> QED BY <1>6, <2>1, <2>2
<1>8. sent' = eaten + Buffered + (Used + block)
  BY <1>3, <1>6 DEF Order
<1> QED BY <1>3, <1>5, <1>7, <1>8 DEF Order, req, rd

LEMMA ShiftOrder == ASSUME ShapeInv, running, Order, ReqShift
                    PROVE  Order'
<1>1. PICK p \in {heldPos, reqPos}, l \in {heldLen, reqLen} :
        /\ reqBuf' = IF p < l THEN MemCpy(reqBuf, 0, reqBuf, p, l - p) ELSE reqBuf
        /\ reqLen' = Less(l, p) /\ reqPos' = 0
  BY DEF ReqShift
<1>2. /\ dpc = "shift" /\ dpc' = "fill"
      /\ UNCHANGED <<source, rd, eaten>>
  BY DEF ReqShift, At
<1>3. /\ reqPos \in Nat /\ reqLen \in Nat /\ reqPos <= reqLen /\ reqLen <= ReqSize
      /\ ReqSize \in Nat /\ ReqSize < Wrap /\ done = 0 /\ p = reqPos /\ l = reqLen
      /\ dst \in {"req", "fb"} /\ eaten \in Nat
  BY <1>2, LiveShape
<1>4. Less(l, p) = reqLen - reqPos
  <2>1. reqLen \in 0 .. Wrap - 1 /\ reqPos \in 0 .. reqLen
    BY <1>3, RingAssumption
  <2> QED BY <1>3, <2>1, LessSmall
<1>5. Buffered = reqLen - reqPos /\ Buffered' = Buffered
  BY <1>1, <1>2, <1>3, <1>4 DEF Buffered, rd
<1>6. ASSUME NEW i \in 0 .. Buffered - 1
      PROVE  reqBuf'[0 + i] = eaten + 1 + i
  <2>1. p < l /\ i \in ReqIndex /\ 0 <= i /\ i < 0 + (l - p) /\ i - 0 = i /\ 0 + i = i
    BY <1>3, <1>5, <1>6 DEF ReqIndex
  <2>2. DOMAIN reqBuf = ReqIndex
    BY DEF ShapeInv, Memory
  <2>3. reqBuf' = MemCpy(reqBuf, 0, reqBuf, p, l - p)
    BY <1>1, <2>1
  <2>4. reqBuf'[i] = reqBuf[p + (i - 0)]
    BY <2>1, <2>2, <2>3 DEF MemCpy
  <2> QED BY <1>3, <2>1, <2>4 DEF Order
<1>7. Used' = Used
  BY <1>2 DEF Used, source
<1> QED BY <1>1, <1>2, <1>5, <1>6, <1>7 DEF Order, source, rd

LEMMA AdvanceOrder == ASSUME ShapeInv, running, Order, AdvStore
                      PROVE  Order'
<1>1. PICK p \in {heldPos, reqPos}, l \in {heldLen, reqLen} :
        reqPos' = MinOf(p + asked, l)
  BY DEF AdvStore
<1>2. /\ dpc = "advance" /\ dpc' = "codec"
      /\ eaten' = eaten + (MinOf(heldPos + asked, heldLen) - heldPos)
      /\ UNCHANGED <<source, reqBuf, reqLen, rd>>
  BY DEF AdvStore, At
<1>3. /\ reqPos \in Nat /\ reqLen \in Nat /\ reqPos <= reqLen /\ done = 0
      /\ heldPos = reqPos /\ heldLen = reqLen /\ asked \in Nat /\ eaten \in Nat
      /\ dst \in {"req", "fb"}
  BY <1>2, LiveShape
<1> DEFINE d == MinOf(reqPos + asked, reqLen) - reqPos
<1>4. d \in Nat /\ d <= reqLen - reqPos
  BY <1>3 DEF MinOf
<1>5. reqPos' = reqPos + d /\ eaten' = eaten + d
  <2>1. MinOf(reqPos + asked, reqLen) \in Int
    BY <1>3 DEF MinOf
  <2>2. p = reqPos /\ l = reqLen
    BY <1>3
  <2>3. /\ reqPos' = MinOf(reqPos + asked, reqLen)
        /\ eaten' = eaten + (MinOf(reqPos + asked, reqLen) - reqPos)
    BY <1>1, <1>2, <1>3, <2>2, Zenon
  <2> QED BY <1>3, <2>1, <2>3
<1> HIDE DEF d
<1>6. Buffered = reqLen - reqPos /\ Buffered' = Buffered - d
  BY <1>2, <1>3, <1>4, <1>5 DEF Buffered, rd
<1>7. d <= Buffered
  BY <1>4, <1>6
<1> QED BY <1>2, <1>4, <1>5, <1>6, <1>7, OrderUsed DEF source

LEMMA CopyOrder == ASSUME ShapeInv, running, Order, FbCopy
                   PROVE  Order'
<1>1. PICK p \in {heldPos, reqPos}, l \in {heldLen, reqLen} :
        LET n == IF p < l THEN MinOf(asked, l - p) ELSE 0 IN
        /\ fbBuf' = MemCpy(fbBuf, 0, reqBuf, p, n)
        /\ eaten' = eaten + n
        /\ IF n < asked /\ p + n >= l
             THEN /\ reqPos' = 0 /\ reqLen' = 0
                  /\ ReadCall("fb", n, asked - n)
             ELSE /\ reqPos' = p + n /\ dpc' = "codec"
                  /\ UNCHANGED <<reqLen, dst, base, need, done>>
  BY DEF FbCopy
<1>2. dpc = "fbcopy" /\ UNCHANGED <<source, reqBuf>>
  BY DEF FbCopy, At
<1>3. /\ reqPos \in Nat /\ reqLen \in Nat /\ reqPos <= reqLen /\ done = 0
      /\ reqLen <= ReqSize /\ ReqSize \in Nat
      /\ p = reqPos /\ l = reqLen /\ asked \in Nat /\ eaten \in Nat
      /\ dst \in {"req", "fb"}
  BY <1>2, LiveShape
<1> DEFINE n == IF p < l THEN MinOf(asked, l - p) ELSE 0
<1>4. n \in Nat /\ n <= reqLen - reqPos
  BY <1>3 DEF MinOf
<1>5. /\ fbBuf' = MemCpy(fbBuf, 0, reqBuf, p, n) /\ eaten' = eaten + n
      /\ IF n < asked /\ p + n >= l
           THEN /\ reqPos' = 0 /\ reqLen' = 0
                /\ ReadCall("fb", n, asked - n)
           ELSE /\ reqPos' = p + n /\ dpc' = "codec"
                /\ UNCHANGED <<reqLen, dst, base, need, done>>
  BY <1>1
<1> HIDE DEF n
<1>6. Buffered = reqLen - reqPos
  BY <1>3 DEF Buffered
<1>7. CASE ~(n < asked /\ p + n >= l)
  <2>1. /\ reqPos' = reqPos + n /\ dpc' = "codec"
        /\ UNCHANGED <<reqLen, dst, base, need, done>>
    BY <1>3, <1>5, <1>7
  <2>2. Buffered' = Buffered - n /\ n <= Buffered
    BY <1>3, <1>4, <1>6, <2>1 DEF Buffered
  <2> QED BY <1>2, <1>4, <1>5, <2>1, <2>2, OrderUsed DEF source
<1>8. CASE n < asked /\ p + n >= l
  <2>1. /\ reqPos' = 0 /\ reqLen' = 0 /\ dst' = "fb" /\ base' = n /\ done' = 0
        /\ n = Buffered
    BY <1>3, <1>4, <1>5, <1>6, <1>8 DEF ReadCall
  <2>2. Buffered' = 0 /\ Used' = Used /\ Used \in Nat
    BY <1>2, <2>1, LiveShape DEF Buffered, Used, source
  <2>3. ASSUME NEW i \in 0 .. n - 1
        PROVE  fbBuf'[i] = eaten + 1 + i
    <3>1. i \in ReqIndex /\ 0 <= i /\ i < 0 + n /\ i - 0 = i
      BY <1>3, <1>4 DEF ReqIndex
    <3>2. DOMAIN fbBuf = ReqIndex
      BY DEF ShapeInv, Memory
    <3>3. fbBuf'[i] = reqBuf[p + (i - 0)]
      BY <1>5, <3>1, <3>2 DEF MemCpy
    <3> QED BY <1>3, <2>1, <3>1, <3>3 DEF Order
  <2>4. \A i \in 0 .. base' + done' - 1 :
          fbBuf'[i] = eaten' - (base' + done') + 1 + i
    BY <1>3, <1>4, <1>5, <2>1, <2>3
  <2>5. sent' = eaten' + Buffered' + Used'
    BY <1>2, <1>3, <1>4, <1>5, <2>1, <2>2 DEF Order, source
  <2>6. \A i \in 0 .. Used - 1 : ring[(tail + i) % Size] = eaten' + Buffered' + 1 + i
    BY <1>3, <1>4, <1>5, <2>1, <2>2 DEF Order
  <2>7. \A i \in 0 .. Buffered' - 1 : reqBuf'[reqPos' + i] = eaten' + 1 + i
    BY <2>2
  <2> QED BY <1>2, <2>2, <2>4, <2>5, <2>6, <2>7 DEF Order, source
<1> QED BY <1>7, <1>8

LEMMA TurnOrder == ASSUME ShapeInv, running, Order, ReadLocked
                   PROVE  Order'
<1> DEFINE n == MinOf(need - done, Used)
           at == base + done
<1>1. /\ n \in Nat /\ n < Size /\ n <= Used /\ n <= need - done
      /\ done < need /\ base + need <= ReqSize
  BY TurnFits
<1>2. /\ dpc = "locked" /\ dpc' = "read"
      /\ tail' = (tail + n) % Size /\ done' = done + n
      /\ UNCHANGED <<ring, head, sent, reqLen, reqPos, dst, base>>
      /\ IF dst = "req"
           THEN reqBuf' = FromRing(reqBuf, at, n) /\ UNCHANGED <<fbBuf, eaten>>
           ELSE /\ fbBuf' = FromRing(fbBuf, at, n) /\ eaten' = eaten + n
                /\ UNCHANGED reqBuf
  BY DEF ReadLocked, At
<1> HIDE DEF n
<1>3. /\ reqPos \in Nat /\ reqLen \in Nat /\ reqPos <= reqLen /\ ReqSize \in Nat
      /\ done \in Nat /\ base \in Nat /\ need \in Nat /\ eaten \in Nat /\ sent \in Nat
      /\ Used \in 0 .. Size - 1 /\ Size \in Nat \ {0} /\ dst \in {"req", "fb"}
      /\ IF dst = "req" THEN base = reqLen ELSE reqLen = 0 /\ reqPos = 0
  BY <1>2, LiveShape
<1>4. /\ RingInv /\ Memory /\ head \in Index /\ tail \in Index
      /\ reqBuf \in [ReqIndex -> Bytes] /\ fbBuf \in [ReqIndex -> Bytes]
  BY DEF ShapeInv, RingInv, Memory
<1>5. Used' = Used - n
  BY <1>1, <1>2, <1>4, UsedTake DEF Used
<1>6. ASSUME NEW i \in 0 .. (Used - n) - 1
      PROVE  ring[(tail' + i) % Size] = eaten + Buffered + 1 + (n + i)
  <2>1. i \in Nat /\ n + i \in 0 .. Used - 1 /\ n + i < Size
    BY <1>1, <1>3
  <2>2. (tail' + i) % Size = (tail + (n + i)) % Size
    BY <1>1, <1>2, <1>4, <2>1, TailMoved
  <2> QED BY <2>1, <2>2 DEF Order
<1>7. /\ sent = eaten + Buffered + Used
      /\ \A i \in 0 .. n - 1 : ring[(tail + i) % Size] = eaten + Buffered + 1 + i
  BY <1>1, <1>3 DEF Order
<1>71. at \in Nat /\ at + n <= ReqSize
  BY <1>1, <1>3
<1>8. CASE dst = "req"
  <2>1. /\ Buffered = (reqLen - reqPos) + done /\ Buffered' = Buffered + n
        /\ Buffered \in Nat /\ reqPos + Buffered = at
    BY <1>1, <1>2, <1>3, <1>8 DEF Buffered
  <2>2. \A i \in ReqIndex :
          reqBuf'[i] = IF at <= i /\ i < at + n
                         THEN ring[(tail + (i - at)) % Size] ELSE reqBuf[i]
    <3>1. reqBuf' = FromRing(reqBuf, at, n)
      BY <1>2, <1>8
    <3> HIDE DEF at
    <3> QED BY <1>1, <1>4, <1>71, <3>1, TakenSlots
  <2>3. ASSUME NEW i \in 0 .. (Buffered + n) - 1
        PROVE  reqBuf'[reqPos + i] = eaten + 1 + i
    <3>0. reqPos + i \in ReqIndex /\ i \in Nat
      BY <1>1, <1>3, <1>71, <2>1 DEF ReqIndex
    <3>1. CASE i < Buffered
      <4>1. i \in 0 .. Buffered - 1 /\ ~(at <= reqPos + i)
        BY <1>3, <2>1, <3>0, <3>1
      <4>2. reqBuf'[reqPos + i] = reqBuf[reqPos + i]
        BY <2>2, <3>0, <4>1
      <4> QED BY <4>1, <4>2 DEF Order
    <3>2. CASE i >= Buffered
      <4>1. PICK j \in 0 .. n - 1 : i = Buffered + j
        <5>1. i - Buffered \in 0 .. n - 1 /\ i = Buffered + (i - Buffered)
          BY <1>1, <2>1, <3>0, <3>2
        <5> QED BY <5>1
      <4>2. /\ at <= reqPos + i /\ reqPos + i < at + n /\ (reqPos + i) - at = j
        BY <1>1, <1>3, <2>1, <3>0, <4>1
      <4>3. reqBuf'[reqPos + i] = ring[(tail + j) % Size]
        BY <2>2, <3>0, <4>2
      <4>4. ring[(tail + j) % Size] = eaten + Buffered + 1 + j
        BY <1>7
      <4> QED BY <1>1, <1>3, <2>1, <4>1, <4>3, <4>4
    <3> QED BY <2>1, <3>0, <3>1, <3>2
  <2>4. \A i \in 0 .. (Used - n) - 1 :
          ring[(tail' + i) % Size] = eaten + (Buffered + n) + 1 + i
    BY <1>1, <1>3, <1>6, <2>1
  <2>5. sent = eaten + (Buffered + n) + (Used - n)
    BY <1>1, <1>3, <1>7, <2>1
  <2>6. eaten' = eaten /\ dst' = "req" /\ sent' = sent /\ ring' = ring /\ reqPos' = reqPos
    BY <1>2, <1>8
  <2> QED BY <1>5, <2>1, <2>3, <2>4, <2>5, <2>6 DEF Order
<1>9. CASE dst = "fb"
  <2>1. /\ reqLen = 0 /\ reqPos = 0 /\ Buffered = 0 /\ Buffered' = 0 /\ eaten' = eaten + n
        /\ base' + done' = at + n
    BY <1>1, <1>2, <1>3, <1>9 DEF Buffered
  <2>2. \A i \in ReqIndex :
          fbBuf'[i] = IF at <= i /\ i < at + n
                        THEN ring[(tail + (i - at)) % Size] ELSE fbBuf[i]
    <3>1. fbBuf' = FromRing(fbBuf, at, n)
      BY <1>2, <1>9
    <3> HIDE DEF at
    <3> QED BY <1>1, <1>4, <1>71, <3>1, TakenSlots
  <2>3. ASSUME NEW i \in 0 .. (at + n) - 1
        PROVE  fbBuf'[i] = (eaten + n) - (at + n) + 1 + i
    <3>0. i \in ReqIndex /\ i \in Nat
      BY <1>1, <1>3, <1>71 DEF ReqIndex
    <3>1. CASE i < at
      <4>1. i \in 0 .. base + done - 1 /\ ~(at <= i)
        BY <1>3, <3>0, <3>1
      <4>2. fbBuf'[i] = fbBuf[i]
        BY <2>2, <3>0, <4>1
      <4>3. fbBuf[i] = eaten - (base + done) + 1 + i
        BY <1>2, <1>9, <4>1 DEF Order
      <4> QED BY <1>1, <1>3, <3>0, <4>2, <4>3
    <3>2. CASE i >= at
      <4>1. PICK j \in 0 .. n - 1 : i = at + j
        <5>1. i - at \in 0 .. n - 1 /\ i = at + (i - at)
          BY <1>1, <1>3, <3>0, <3>2
        <5> QED BY <5>1
      <4>2. at <= i /\ i < at + n /\ i - at = j
        BY <1>1, <1>3, <4>1
      <4>3. fbBuf'[i] = ring[(tail + j) % Size]
        BY <2>2, <3>0, <4>2
      <4>4. ring[(tail + j) % Size] = eaten + Buffered + 1 + j
        BY <1>7
      <4> QED BY <1>1, <1>3, <2>1, <4>1, <4>3, <4>4
    <3> QED BY <1>3, <3>0, <3>1, <3>2
  <2>4. \A i \in 0 .. (Used - n) - 1 :
          ring[(tail' + i) % Size] = (eaten + n) + 0 + 1 + i
    BY <1>1, <1>3, <1>6, <2>1
  <2>5. sent = (eaten + n) + 0 + (Used - n)
    BY <1>1, <1>3, <1>7, <2>1
  <2>6. sent' = sent /\ ring' = ring
    BY <1>2
  <2>7. ASSUME NEW i \in 0 .. base' + done' - 1
        PROVE  fbBuf'[i] = eaten' - (base' + done') + 1 + i
    <3>0. base' = base /\ done' = done + n /\ base \in Nat /\ done \in Nat /\ n \in Nat
      BY <1>1, <1>2, <1>3
    <3>1. i \in 0 .. (at + n) - 1
      BY <3>0
    <3>2. fbBuf'[i] = (eaten + n) - (at + n) + 1 + i
      BY <2>3, <3>1
    <3> QED BY <2>1, <3>2
  <2> HIDE DEF at
  <2>8. \A i \in 0 .. Used' - 1 : ring'[(tail' + i) % Size] = eaten' + Buffered' + 1 + i
    BY <1>5, <2>1, <2>4, <2>6
  <2> QED BY <1>5, <2>1, <2>5, <2>6, <2>7, <2>8 DEF Order
<1> QED BY <1>3, <1>8, <1>9

LEMMA FillOrder == ASSUME ShapeInv, running, Order, ReqFill
                   PROVE  Order'
<1>1. /\ dpc = "fill" /\ UNCHANGED <<source, req, fbBuf, eaten>>
      /\ \/ dst' = "req" /\ done' = 0 /\ dpc' = "read"
         \/ UNCHANGED <<dst, base, done>> /\ dpc' = "codec"
  BY DEF ReqFill, ReadCall, At, rd
<1>2. done = 0 /\ dst \in {"req", "fb"} /\ reqLen \in Nat /\ reqPos \in Nat
  BY <1>1, LiveShape
<1>3. Buffered' = Buffered
  BY <1>1, <1>2 DEF Buffered, req
<1>4. ~(dst' = "fb" /\ dpc' \in {"read", "locked"})
  BY <1>1
<1> QED BY <1>1, <1>3, <1>4, OrderKept DEF source, req

LEMMA ReturnOrder == ASSUME ShapeInv, running, Order, ReadReturn
                     PROVE  Order'
<1>1. /\ dpc = "read" /\ done' = 0 /\ dpc' \in {"fill", "codec"}
      /\ UNCHANGED <<source, reqBuf, reqPos, dst, base, fbBuf, eaten>>
  BY DEF ReadReturn, At
<1>2. /\ reqLen \in Nat /\ reqPos \in Nat /\ done \in Nat /\ ReqSize \in Nat
      /\ base \in Nat /\ need \in Nat /\ ReqSize < Wrap /\ dst \in {"req", "fb"}
      /\ done <= need /\ base + need <= ReqSize /\ (dst = "req" => base = reqLen)
  BY <1>1, LiveShape
<1>3. Buffered' = Buffered
  <2>1. CASE dst = "req" /\ reqLen' = (reqLen + done) % Wrap
    <3>1. reqLen + done \in 0 .. Wrap - 1
      BY <1>2, <2>1, RingAssumption
    <3>2. (reqLen + done) % Wrap = reqLen + done
      BY <3>1, RingAssumption
    <3> QED BY <1>1, <1>2, <2>1, <3>2 DEF Buffered
  <2>2. CASE dst = "req" /\ done = 0 /\ UNCHANGED reqLen
    BY <1>1, <1>2, <2>2 DEF Buffered
  <2>3. CASE dst = "fb" /\ UNCHANGED reqLen
    BY <1>1, <1>2, <2>3 DEF Buffered
  <2> QED BY <2>1, <2>2, <2>3 DEF ReadReturn
<1> QED BY <1>1, <1>3, OrderKept DEF source

LEMMA OrderStep == ASSUME ShapeInv, OrderInv, [Next]_vars
                   PROVE  OrderInv'
<1> SUFFICES ASSUME running' PROVE Order'
  BY DEF OrderInv
<1>1. CASE StopFlag \/ StopClear \/ ReqEof
  <2>1. running' = FALSE
    BY <1>1 DEF StopFlag, StopClear, ReqEof, Eof, source, ShapeInv, RingInv
  <2> QED BY <2>1
<1>2. CASE WStore
  BY <1>2, StoreOrder DEF OrderInv, WStore
<1>3. CASE WAbort \/ (\E k \in WriteSizes : WBlock(k)) \/ UNCHANGED vars
  <2>1. UNCHANGED <<running, ring, head, tail, sent, req, dpc, rd, eaten>>
    BY <1>3 DEF WAbort, WBlock, vars, req, rd
  <2>2. Buffered' = Buffered
    BY <2>1 DEF Buffered, req, rd
  <2>3. Order
    BY <2>1 DEF OrderInv
  <2> QED BY <2>1, <2>2, <2>3, OrderKept DEF req, rd
<1>4. CASE \/ ReadTurn
           \/ \E r \in ReadSizes : ReqEnter(r) \/ AdvLoad(r) \/ FbEnter(r)
  <2>1. /\ UNCHANGED <<source, req, rd, eaten>>
        /\ \/ dpc \in {"read", "locked"}
           \/ dpc' \notin {"read", "locked"}
    BY <1>4 DEF ReadTurn, ReqEnter, AdvLoad, FbEnter, At
  <2>2. Buffered' = Buffered
    BY <2>1 DEF Buffered, req, rd
  <2>3. Order
    BY <2>1 DEF OrderInv, source
  <2> QED BY <2>1, <2>2, <2>3, OrderKept DEF source, req, rd
<1>5. CASE ReqShift \/ ReqFill \/ AdvStore \/ FbCopy \/ ReadLocked \/ ReadReturn
  <2>1. running' = running
    BY <1>5 DEF ReqShift, ReqFill, AdvStore, FbCopy, ReadLocked, ReadReturn, source
  <2>2. running /\ Order
    BY <2>1 DEF OrderInv
  <2> QED BY <1>5, <2>2, ShiftOrder, FillOrder, AdvanceOrder, CopyOrder, TurnOrder,
             ReturnOrder
<1> QED
  BY <1>1, <1>2, <1>3, <1>4, <1>5
  DEF Next, Worker, Decoder, Stopper, ReadSrc

(* The request buffer keeps its shape, and while the stream runs its bytes  *)
(* and the ring's are the ones that follow what the codec has used.         *)
THEOREM BufferInvariant == Spec => [](ShapeInv /\ OrderInv)
<1>1. ShapeInv /\ OrderInv /\ [Next]_vars => (ShapeInv /\ OrderInv)'
  BY ShapeStep, OrderStep
<1> QED BY <1>1, ShapeInit, OrderInit, PTL DEF Spec

(* No copy of request_source(), advance_source() and read_filebuf_source()  *)
(* leaves req_buf, whatever the codec says it has used and whenever the     *)
(* stream is stopped.                                                       *)
THEOREM CopiesStayInside == Spec => []InsideReqBuf
<1>1. ShapeInv => InsideReqBuf
  BY DEF ShapeInv, Fits, InsideReqBuf
<1> QED BY <1>1, BufferInvariant, PTL

\* The order by positions is the order of the sequences.
LEMMA InOrder == ASSUME ShapeInv, running, Order
                 PROVE  Held \o Contents = [i \in 1 .. sent - eaten |-> eaten + i]
<1> DEFINE b == Buffered
           stream == [i \in 1 .. sent - eaten |-> eaten + i]
<1>1. /\ b \in Nat /\ Used \in Nat /\ eaten \in Nat /\ sent \in Nat /\ reqPos \in Nat
      /\ reqLen \in Nat /\ done \in Nat /\ dst \in {"req", "fb"}
  BY LiveShape
<1>2. /\ sent = eaten + b + Used
      /\ \A i \in 0 .. b - 1 : reqBuf[reqPos + i] = eaten + 1 + i
      /\ \A i \in 0 .. Used - 1 : ring[(tail + i) % Size] = eaten + b + 1 + i
  BY DEF Order
<1>3. (reqLen + IF dst = "req" THEN done ELSE 0) - reqPos = b
  BY <1>1 DEF Buffered
<1> HIDE DEF b
<1>4. /\ Held \in Seq(Nat) /\ Len(Held) = b
      /\ \A i \in 1 .. b : Held[i] = eaten + i
  <2>1. Held = [i \in 1 .. b |-> reqBuf[reqPos + i - 1]]
    BY <1>3 DEF Held
  <2>2. ASSUME NEW i \in 1 .. b PROVE reqBuf[reqPos + i - 1] = eaten + i
    <3>1. i - 1 \in 0 .. b - 1 /\ reqPos + i - 1 = reqPos + (i - 1)
      BY <1>1
    <3> QED BY <1>1, <1>2, <3>1
  <2>3. Held = [i \in 1 .. b |-> eaten + i]
    BY <2>1, <2>2
  <2> QED BY <1>1, <2>3
<1>5. /\ Contents \in Seq(Nat) /\ Len(Contents) = Used
      /\ \A i \in 1 .. Used : Contents[i] = eaten + b + i
  <2>1. ASSUME NEW i \in 1 .. Used
        PROVE  ring[(tail + (i - 1)) % Size] = eaten + b + i
    <3>1. i - 1 \in 0 .. Used - 1
      BY <1>1
    <3> QED BY <1>1, <1>2, <3>1
  <2>2. Contents = [i \in 1 .. Used |-> eaten + b + i]
    BY <2>1 DEF Contents
  <2> QED BY <1>1, <2>2
<1>6. sent - eaten = b + Used
  BY <1>1, <1>2
<1>7. /\ stream \in Seq(Nat) /\ Len(stream) = b + Used
      /\ \A i \in 1 .. b + Used : stream[i] = eaten + i
  BY <1>1, <1>6
<1> HIDE DEF stream
<1> DEFINE q == Held
           c == Contents
           u == Used
<1>8. q \in Seq(Nat) /\ c \in Seq(Nat) /\ Len(q) = b /\ Len(c) = u
  BY <1>4, <1>5
<1> HIDE DEF q, c, u
<1>9. /\ q \o c \in Seq(Nat) /\ Len(q \o c) = b + u
      /\ \A i \in 1 .. b + u : (q \o c)[i] = IF i <= b THEN q[i] ELSE c[i - b]
  BY <1>8, ConcatProperties, Zenon
<1>10. ASSUME NEW i \in 1 .. b + u
       PROVE  (q \o c)[i] = stream[i]
  <2>1. stream[i] = eaten + i
    BY <1>7 DEF u
  <2>2. CASE i <= b
    <3>1. i \in 1 .. b
      BY <1>1, <2>2
    <3> QED BY <1>4, <1>9, <2>1, <2>2, <3>1 DEF q
  <2>3. CASE ~(i <= b)
    <3>1. i - b \in 1 .. u /\ eaten + b + (i - b) = eaten + i
      BY <1>1, <2>3 DEF u
    <3>2. c[i - b] = eaten + b + (i - b)
      BY <1>5, <3>1 DEF c, u
    <3> QED BY <1>9, <2>1, <2>3, <3>1, <3>2
  <2> QED BY <2>2, <2>3
<1>11. q \o c = stream
  BY <1>7, <1>9, <1>10, SeqEqual DEF u
<1> QED BY <1>11 DEF q, c, stream

(* The codec gets the stream: read_source(), request_source(),              *)
(* advance_source() and read_filebuf_source() in any order hand it every    *)
(* byte the worker stored, in order and once.                               *)
THEOREM CodecGetsStream == Spec => []SourceInOrder
<1>1. ASSUME ShapeInv, OrderInv PROVE SourceInOrder
  <2>1. TypeOK
    BY <1>1 DEF ShapeInv, RingInv, ReadInv, Counts, Memory, ReqIndex, TypeOK
  <2>2. StreamInOrder
    BY <1>1, InOrder DEF StreamInOrder, OrderInv
  <2>3. FileBufInOrder
    BY <1>1 DEF FileBufInOrder, OrderInv, Order
  <2> QED BY <2>1, <2>2, <2>3 DEF SourceInOrder
<1> QED BY <1>1, BufferInvariant, PTL

=============================================================================
