----------------------------- MODULE NetfmRing -----------------------------
(***************************************************************************)
(* The compressed ring of apps/netfm_stream.c, byte by byte: ring_write()  *)
(* on the download worker, read_source(), request_source(),                *)
(* advance_source() and read_filebuf_source() on the decoder, and the stop *)
(* of the stream on a Rockbox thread.                                      *)
(*                                                                         *)
(* One stream is followed from its start to its stop.  Its bytes are       *)
(* numbered 1, 2, 3, ... so that order and loss are visible.  source.lock  *)
(* makes ring_write() and one turn of read_source() atomic; `running`,     *)
(* req_buf, req_len and req_pos are read and written without it, so a      *)
(* decoder may compute with values it loaded before a stop.                *)
(***************************************************************************)
EXTENDS Naturals, Sequences

CONSTANTS
  Size,        \* NETFM_RING_SIZE
  ReqSize,     \* sizeof(req_buf)
  WriteSizes,  \* sizes of the blocks handed to ring_write()
  ReadSizes,   \* sizes the codec asks for
  MaxSent,     \* bound: bytes the worker receives
  Wrap         \* a size_t counts modulo Wrap

ASSUME RingAssumption ==
  /\ Size \in Nat \ {0} /\ ReqSize \in Nat \ {0}
  /\ WriteSizes \subseteq Nat \ {0} /\ ReadSizes \subseteq Nat \ {0}
  /\ MaxSent \in Nat
  /\ Wrap \in Nat /\ Wrap > ReqSize + Size

VARIABLES
  running,          \* source.running
  ring, head, tail, \* source.ring, .head, .tail
  sent,             \* bytes that ring_write() stored
  block,            \* size of the block the worker waits to store, or 0
  reqBuf, reqLen, reqPos,
  dpc,              \* where the decoder is
  asked,            \* want (request_source) or size (read_filebuf_source)
  heldPos, heldLen, \* req_pos and req_len as the decoder loaded them
  dst, base, need, done,  \* read_source(): destination, its offset, size, done
  fbBuf,            \* the memory the codec passed to read_filebuf()
  given,            \* length of the buffer request_source() returned
  eaten,            \* bytes the codec has consumed
  spc               \* the stop: "on", "flagged", "cleared"

source == <<running, ring, head, tail, sent, block, spc>>
req    == <<reqBuf, reqLen, reqPos>>
rd     == <<dst, base, need, done, fbBuf>>
vars   == <<running, ring, head, tail, sent, block, reqBuf, reqLen,
            reqPos, dpc, asked, heldPos, heldLen, dst, base, need, done, fbBuf,
            given, eaten, spc>>

At(pc) == dpc = pc
MinOf(a, b) == IF a < b THEN a ELSE b
Less(a, b) == (a + Wrap - b) % Wrap      \* a - b on size_t

UsedOf(h, t) == IF h >= t THEN h - t ELSE Size - t + h
FreeOf(h, t) == Size - UsedOf(h, t) - 1
Used == UsedOf(head, tail)
FreeRoom == FreeOf(head, tail)

\* memcpy(to + at, from + off, n)
MemCpy(to, at, from, off, n) ==
  [i \in DOMAIN to |-> IF at <= i /\ i < at + n THEN from[off + (i - at)]
                                                ELSE to[i]]

Init ==
  /\ running = TRUE /\ spc = "on"
  /\ ring = [i \in 0 .. Size - 1 |-> 0] /\ head = 0 /\ tail = 0
  /\ sent = 0 /\ block = 0
  /\ reqBuf = [i \in 0 .. ReqSize - 1 |-> 0] /\ reqLen = 0 /\ reqPos = 0
  /\ dpc = "codec" /\ asked = 0 /\ heldPos = 0 /\ heldLen = 0
  /\ dst = "req" /\ base = 0 /\ need = 0 /\ done = 0
  /\ fbBuf = [i \in 0 .. ReqSize - 1 |-> 0]
  /\ given = 0 /\ eaten = 0

-----------------------------------------------------------------------------
\* The download worker.

(* Seeded fault: a block as large as the ring is accepted.               *)
WBlock_OneMore(k) ==
  /\ block = 0 /\ running /\ sent + k <= MaxSent
  /\ k <= Size /\ block' = k
  /\ UNCHANGED <<running, ring, head, tail, sent, spc, req, dpc, asked,
                 heldPos, heldLen, rd, given, eaten>>

\* A block arrived: ring_write(body, k) begins.  A block that can never fit
\* is refused at once, which changes nothing.
WBlock(k) ==
  /\ block = 0 /\ running /\ sent + k <= MaxSent
  /\ k <= Size - 1 /\ block' = k
  /\ UNCHANGED <<running, ring, head, tail, sent, spc, req, dpc, asked,
                 heldPos, heldLen, rd, given, eaten>>

\* The block, as the worker received it.
Body(k) == [i \in 0 .. k - 1 |-> sent + 1 + i]

(* Seeded fault: the copy at the front of the ring is forgotten.         *)
WStore_NoWrap ==
  /\ block > 0 /\ running /\ FreeRoom >= block
  /\ LET first == MinOf(block, Size - head) IN
     ring' = MemCpy(ring, head, Body(block), 0, first)
  /\ head' = (head + block) % Size
  /\ sent' = sent + block /\ block' = 0
  /\ UNCHANGED <<running, tail, spc, req, dpc, asked, heldPos,
                 heldLen, rd, given, eaten>>

\* The rest of ring_write() under source.lock: both copies, then the head.
WStore ==
  /\ block > 0 /\ running /\ FreeRoom >= block
  /\ LET first == MinOf(block, Size - head) IN
     ring' = MemCpy(MemCpy(ring, head, Body(block), 0, first),
                    0, Body(block), first, block - first)
  /\ head' = (head + block) % Size
  /\ sent' = sent + block /\ block' = 0
  /\ UNCHANGED <<running, tail, spc, req, dpc, asked, heldPos,
                 heldLen, rd, given, eaten>>

\* The stream was stopped: nothing of the block is stored.
WAbort ==
  /\ block > 0 /\ ~running /\ block' = 0
  /\ UNCHANGED <<running, ring, head, tail, sent, spc, req, dpc,
                 asked, heldPos, heldLen, rd, given, eaten>>

-----------------------------------------------------------------------------
\* request_source() on the decoder.

\* The stream is being stopped: report a clean end of file and the codec
\* returns.
Eof ==
  /\ ~running
  /\ reqPos' = 0 /\ reqLen' = 0 /\ given' = 0 /\ dpc' = "eof"
  /\ UNCHANGED <<source, reqBuf, asked, heldPos, heldLen, rd, eaten>>

ReqEof == At("codec") /\ Eof

\* Entry of request_source() while the stream runs.
ReqEnter(r) ==
  /\ At("codec") /\ running
  /\ asked' = MinOf(r, ReqSize)
  /\ heldPos' = reqPos /\ heldLen' = reqLen
  /\ dpc' = IF reqPos > 0 THEN "shift" ELSE "fill"
  /\ given' = 0
  /\ UNCHANGED <<source, req, rd, eaten>>

(* Seeded fault: the bytes used still count.                             *)
ReqShift_KeepsLen ==
  /\ At("shift")
  /\ \E p \in {heldPos, reqPos}, l \in {heldLen, reqLen} :
       /\ reqBuf' = IF p < l THEN MemCpy(reqBuf, 0, reqBuf, p, l - p)
                             ELSE reqBuf
       /\ reqLen' = l /\ reqPos' = 0
  /\ dpc' = "fill"
  /\ UNCHANGED <<source, asked, heldPos, heldLen, rd, given, eaten>>

\* Move what the codec left to the front.  A stop may zero req_len and
\* req_pos between the loads and the store, so each is the value loaded at
\* entry or the one in memory now.
ReqShift ==
  /\ At("shift")
  /\ \E p \in {heldPos, reqPos}, l \in {heldLen, reqLen} :
       /\ reqBuf' = IF p < l THEN MemCpy(reqBuf, 0, reqBuf, p, l - p)
                             ELSE reqBuf
       /\ reqLen' = Less(l, p) /\ reqPos' = 0
  /\ dpc' = "fill"
  /\ UNCHANGED <<source, asked, heldPos, heldLen, rd, given, eaten>>

\* read_source(context, d + off, n) is called.
ReadCall(d, off, n) ==
  dst' = d /\ base' = off /\ need' = n /\ done' = 0 /\ dpc' = "read"

\* The loop of request_source(): top up, or return the buffer.
ReqFill ==
  /\ At("fill")
  /\ IF reqLen < asked
       THEN /\ ReadCall("req", reqLen, asked - reqLen)
            /\ UNCHANGED <<fbBuf, given>>
       ELSE /\ given' = reqLen /\ dpc' = "codec"
            /\ UNCHANGED rd
  /\ UNCHANGED <<source, req, asked, heldPos, heldLen, eaten>>

-----------------------------------------------------------------------------
\* advance_source(): the codec used n bytes of the buffer.

AdvLoad(n) ==
  /\ At("codec") /\ given > 0
  /\ asked' = n /\ heldPos' = reqPos /\ heldLen' = reqLen
  /\ dpc' = "advance"
  /\ UNCHANGED <<source, req, rd, given, eaten>>

(* Seeded fault: the position is not held back.                          *)
AdvStore_NoCap ==
  /\ At("advance")
  /\ \E p \in {heldPos, reqPos} : reqPos' = p + asked
  /\ eaten' = eaten + (MinOf(heldPos + asked, heldLen) - heldPos)
  /\ dpc' = "codec"
  /\ UNCHANGED <<source, reqBuf, reqLen, asked, heldPos, heldLen, rd, given>>

AdvStore ==
  /\ At("advance")
  /\ \E p \in {heldPos, reqPos}, l \in {heldLen, reqLen} :
       reqPos' = MinOf(p + asked, l)
  /\ eaten' = eaten + (MinOf(heldPos + asked, heldLen) - heldPos)
  /\ dpc' = "codec"
  /\ UNCHANGED <<source, reqBuf, reqLen, asked, heldPos, heldLen, rd, given>>

-----------------------------------------------------------------------------
\* read_filebuf_source(): first what is left of the request buffer, then the
\* ring.

FbEnter(n) ==
  /\ At("codec") /\ running /\ n <= ReqSize      \* bound: the size of fbBuf
  /\ asked' = n /\ heldPos' = reqPos /\ heldLen' = reqLen
  /\ dpc' = "fbcopy" /\ given' = 0
  /\ UNCHANGED <<source, req, rd, eaten>>

FbCopy ==
  /\ At("fbcopy")
  /\ \E p \in {heldPos, reqPos}, l \in {heldLen, reqLen} :
       LET n == IF p < l THEN MinOf(asked, l - p) ELSE 0 IN
       /\ fbBuf' = MemCpy(fbBuf, 0, reqBuf, p, n)
       /\ eaten' = eaten + n
       /\ IF n < asked /\ p + n >= l
            THEN /\ reqPos' = 0 /\ reqLen' = 0
                 /\ ReadCall("fb", n, asked - n)
            ELSE /\ reqPos' = p + n /\ dpc' = "codec"
                 /\ UNCHANGED <<reqLen, dst, base, need, done>>
  /\ UNCHANGED <<source, reqBuf, asked, heldPos, heldLen, given>>

-----------------------------------------------------------------------------
\* read_source(): one turn of its loop takes what the ring holds.

ReadTurn ==
  /\ At("read") /\ done < need /\ running
  /\ dpc' = "locked"
  /\ UNCHANGED <<source, req, asked, heldPos, heldLen, rd, given, eaten>>

\* n bytes from the tail of the ring to to + at, in two copies.
FromRing(to, at, n) ==
  LET first == MinOf(n, Size - tail)
  IN  MemCpy(MemCpy(to, at, ring, tail, first), at + first, ring, 0, n - first)

\* Under source.lock.  An empty ring is waited for with a sleep, after which
\* the loop looks again.
ReadLocked ==
  /\ At("locked")
  /\ LET n == MinOf(need - done, Used) IN
     /\ IF dst = "req"
          THEN /\ reqBuf' = FromRing(reqBuf, base + done, n)
               /\ UNCHANGED <<fbBuf, eaten>>
          ELSE /\ fbBuf' = FromRing(fbBuf, base + done, n)
               /\ eaten' = eaten + n
               /\ UNCHANGED reqBuf
     /\ tail' = (tail + n) % Size
     /\ done' = done + n
  /\ dpc' = "read"
  /\ UNCHANGED <<running, ring, head, sent, block, spc, reqLen, reqPos,
                 asked, heldPos, heldLen, dst, base, need, given>>

\* read_source() returns.  With nothing read, request_source() gives up and
\* returns what it has; otherwise it looks at its loop condition again.
ReadReturn ==
  /\ At("read") /\ (done = need \/ ~running)
  /\ \/ /\ dst = "req" /\ done > 0
        /\ reqLen' = (reqLen + done) % Wrap /\ dpc' = "fill"
        /\ UNCHANGED given
     \/ /\ dst = "req" /\ done = 0
        /\ given' = reqLen /\ dpc' = "codec"
        /\ UNCHANGED reqLen
     \/ /\ dst = "fb" /\ dpc' = "codec"
        /\ UNCHANGED <<reqLen, given>>
  /\ done' = 0
  /\ UNCHANGED <<source, reqBuf, reqPos, asked, heldPos, heldLen, dst, base,
                 need, fbBuf, eaten>>

-----------------------------------------------------------------------------
\* netfm_stream_stop() on a Rockbox thread: the flag first, the ring and the
\* request buffer later, both under source.lock.

StopFlag ==
  /\ spc = "on" /\ spc' = "flagged" /\ running' = FALSE
  /\ UNCHANGED <<ring, head, tail, sent, block, req, dpc, asked,
                 heldPos, heldLen, rd, given, eaten>>

StopClear ==
  /\ spc = "flagged" /\ spc' = "cleared"
  /\ head' = 0 /\ tail' = 0 /\ reqLen' = 0 /\ reqPos' = 0
  /\ UNCHANGED <<running, ring, sent, block, reqBuf, dpc, asked,
                 heldPos, heldLen, rd, given, eaten>>

-----------------------------------------------------------------------------
Worker  == (\E k \in WriteSizes : WBlock(k)) \/ WStore \/ WAbort
ReadSrc == ReadTurn \/ ReadLocked \/ ReadReturn
Decoder ==
  \/ ReqEof
  \/ \E r \in ReadSizes : ReqEnter(r) \/ AdvLoad(r) \/ FbEnter(r)
  \/ ReqShift \/ ReqFill \/ AdvStore \/ FbCopy \/ ReadSrc
Stopper == StopFlag \/ StopClear

Next == Worker \/ Decoder \/ Stopper
Spec == Init /\ [][Next]_vars

\* The kernel runs the worker and the decoder, and a codec keeps decoding: it
\* uses some of what it was given, and then asks for more.
FairSpec ==
  /\ Spec
  /\ WF_vars(WStore \/ WAbort)
  /\ WF_vars(ReqShift \/ ReqFill \/ AdvStore \/ FbCopy \/ ReadSrc)
  /\ WF_vars(ReqEof)
  /\ SF_vars(\E r \in ReadSizes : ReqEnter(r) \/ FbEnter(r))
  /\ SF_vars(\E r \in ReadSizes : reqPos < reqLen /\ AdvLoad(r))

-----------------------------------------------------------------------------
\* Properties.

Index == 0 .. Size - 1
Bytes == 0 .. MaxSent

TypeOK ==
  /\ running \in BOOLEAN
  /\ ring \in [Index -> Bytes] /\ head \in Index /\ tail \in Index
  /\ sent \in Bytes /\ block \in WriteSizes \cup {0}
  /\ reqBuf \in [0 .. ReqSize - 1 -> Bytes]
  /\ reqLen \in 0 .. Wrap - 1 /\ reqPos \in 0 .. Wrap - 1
  /\ dpc \in {"codec", "shift", "fill", "read", "locked", "advance", "fbcopy",
              "eof"}
  /\ asked \in Nat /\ heldPos \in Nat /\ heldLen \in Nat
  /\ dst \in {"req", "fb"} /\ base \in Nat /\ need \in Nat /\ done \in Nat
  /\ fbBuf \in [0 .. ReqSize - 1 -> Bytes]
  /\ given \in Nat /\ eaten \in Nat
  /\ spc \in {"on", "flagged", "cleared"}

\* What the ring holds, oldest byte first.
Contents == [i \in 1 .. Used |-> ring[(tail + (i - 1)) % Size]]

\* The ring implements the queue of NetfmFifo: a block is stored whole or not
\* at all, bytes leave in the order they came in, none is overwritten while
\* it waits, also when a copy wraps around the end of the array, and after
\* the stop nothing enters.  ring_write() relies on the first of these ("the
\* write must be atomic", netfm_stream.c:440).
Fifo == INSTANCE NetfmFifo WITH Cap <- Size - 1, queue <- Contents,
                                put <- sent, open <- running
RingIsFifo == Fifo!Spec

\* The bytes of req_buf that the codec has not used, those that
\* read_source() appended in this call included.
Held == LET n == reqLen + IF dst = "req" THEN done ELSE 0
        IN  [i \in 1 .. n - reqPos |-> reqBuf[reqPos + i - 1]]

\* End to end: while the stream runs, what the codec has left in its request
\* buffer followed by the ring is exactly the stream from the first byte it
\* has not used to the last byte the worker stored.  No byte is lost,
\* repeated or moved by partial use, by topping up a buffer, by alternating
\* the two ways to read, or by the wrap of the ring.
StreamInOrder ==
  running /\ dpc # "advance" =>
    Held \o Contents = [i \in 1 .. sent - eaten |-> eaten + i]

\* What read_filebuf() returned are the bytes just before the first one not
\* used.
FileBufInOrder ==
  running /\ dst = "fb" /\ dpc \in {"read", "locked"} =>
    \A i \in 0 .. base + done - 1 : fbBuf[i] = eaten - (base + done) + 1 + i

\* The codec gets the stream: both of these, whichever way it reads, on variables
\* that keep their types.
SourceInOrder == TypeOK /\ StreamInOrder /\ FileBufInOrder

\* No copy leaves req_buf, and until a stop clears them req_pos and req_len
\* stay inside it, for any amount the codec says it has used.
InsideReqBuf ==
  /\ dpc \in {"read", "locked"} => base + need <= ReqSize
  /\ spc # "cleared" => reqPos <= reqLen /\ reqLen <= ReqSize

\* The worker and the codec never wait for each other for ever: a block that
\* ring_write() accepted is stored, or given up because of a stop.
BlockLeaves == (block > 0) ~> (block = 0)
=============================================================================
