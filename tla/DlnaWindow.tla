----------------------------- MODULE DlnaWindow -----------------------------
(***************************************************************************)
(* The source of the DLNA renderer, apps/dlna/dlna_stream.c: the download  *)
(* worker streams a pushed file into a ring that keeps what was read until *)
(* the room is needed, and the codec reads, holds pointers into the ring   *)
(* and seeks.  A seek inside the retained window moves the read position;  *)
(* one outside makes the worker reconnect with a Range request.            *)
(*                                                                         *)
(* One pushed file of known length is followed from its start to its stop. *)
(* Byte p of the file is the number p, so the ring shows which bytes of    *)
(* the file it holds.  Positions are absolute, as in the code.             *)
(***************************************************************************)
EXTENDS Integers

CONSTANTS
  Size,        \* DLNA_RING_SIZE
  FileLen,     \* length of the pushed file
  WriteSizes,  \* sizes of the blocks a connection delivers
  ReadSizes,   \* sizes the codec asks for
  Targets,     \* positions the codec seeks to
  Partial,     \* whether servers honour a Range: a subset of BOOLEAN
  Patient      \* the five seconds of a seek are not over while the stream runs

\* The ring is megabytes, a block and a request kilobytes: a block and a
\* request that both have to wait never fill the ring between them.
ASSUME WindowAssumption ==
  /\ Size \in Nat \ {0} /\ FileLen \in Nat \ {0}
  /\ WriteSizes \subseteq 1 .. Size /\ ReadSizes \subseteq Nat \ {0}
  /\ \A w \in WriteSizes, r \in ReadSizes : w + r <= Size + 1
  /\ Targets \subseteq 0 .. FileLen - 1
  /\ Partial \subseteq BOOLEAN /\ Patient \in BOOLEAN

VARIABLES
  running, eof,                \* source.running, source.eof
  ring,
  produced, baseAbs, readAbs,  \* the ring holds [baseAbs, produced)
  seekReq,                     \* source.seek_req
  wpc, rangeOff,               \* the worker, and the offset it asked for
  sendPos,                     \* the next byte the server sends
  block,                       \* bytes received and not yet stored
  dpc, asked,                  \* the decoder, and what it still wants
  target,                      \* position of the seek it waits for
  cpos,                        \* the position the codec believes in
  heldAt, heldLen, linear      \* what request_source() handed out

window == <<ring, produced, baseAbs, readAbs>>
worker == <<wpc, rangeOff, sendPos, block>>
held   == <<heldAt, heldLen, linear>>
codec  == <<dpc, asked, target, cpos>>
vars   == <<running, eof, ring, produced, baseAbs, readAbs, seekReq, wpc,
            rangeOff, sendPos, block, dpc, asked, target, cpos, heldAt, heldLen,
            linear>>

NoSeek == -1
MinOf(a, b) == IF a < b THEN a ELSE b
Slot(p) == p % Size
FreeRoom == Size - (produced - baseAbs)     \* free_locked()
Avail == produced - readAbs

Init ==
  /\ running = TRUE /\ eof = FALSE
  /\ ring = [i \in 0 .. Size - 1 |-> 0]
  /\ produced = 0 /\ baseAbs = 0 /\ readAbs = 0 /\ seekReq = NoSeek
  /\ wpc = "connect" /\ rangeOff = 0 /\ sendPos = 0 /\ block = 0
  /\ dpc = "none" /\ asked = 0 /\ target = 0 /\ cpos = 0
  /\ heldAt = 0 /\ heldLen = 0 /\ linear = FALSE

-----------------------------------------------------------------------------
\* The download worker.

\* A turn of the outer loop begins: the offset is read without the lock.
WConnect ==
  /\ wpc = "connect" /\ running /\ wpc' = "answer"
  /\ rangeOff' = IF seekReq >= 0 THEN seekReq ELSE 0
  /\ UNCHANGED <<running, eof, window, seekReq, sendPos, block, codec, held>>

\* The connection or the request failed, or the server refused.
WRefused ==
  /\ wpc = "answer" /\ wpc' = "connect"
  /\ UNCHANGED <<running, eof, window, seekReq, rangeOff, sendPos, block, codec,
                 held>>

\* The server answers 206 (part) or 200 (the whole file, whatever was asked).
WAnswer(part) ==
  /\ wpc = "answer" /\ wpc' = "read"
  /\ sendPos' = IF part /\ rangeOff > 0 THEN rangeOff ELSE 0
  /\ IF part /\ rangeOff > 0
       THEN produced' = rangeOff /\ baseAbs' = rangeOff /\ readAbs' = rangeOff
       ELSE UNCHANGED <<produced, baseAbs, readAbs>>
  /\ seekReq' = IF rangeOff > 0 THEN NoSeek ELSE seekReq
  /\ UNCHANGED <<running, eof, ring, rangeOff, block, codec, held>>

\* A block of n bytes arrives.
WRead(n) ==
  /\ wpc = "read" /\ running /\ seekReq = NoSeek /\ sendPos + n <= FileLen
  /\ block' = n /\ wpc' = "write"
  /\ UNCHANGED <<running, eof, window, seekReq, rangeOff, sendPos, codec, held>>

\* The file is complete, the server closed, a seek is pending or a stop came.
WLeave ==
  /\ wpc = "read" /\ wpc' = "closed"
  /\ UNCHANGED <<running, eof, window, seekReq, rangeOff, sendPos, block, codec,
                 held>>

\* The n bytes the connection has delivered go into the ring.
Stored(n) ==
  [i \in 0 .. Size - 1 |->
     LET d == (i + (Size - Slot(produced))) % Size
     IN  IF d < n THEN sendPos + d ELSE ring[i]]

(* Seeded fault: room is made without asking what the codec has read.      *)
WStore_ReclaimsUnread ==
  /\ wpc = "write" /\ running /\ seekReq = NoSeek
  /\ baseAbs' = IF FreeRoom < block THEN baseAbs + (block - FreeRoom) ELSE baseAbs
  /\ ring' = Stored(block) /\ produced' = produced + block
  /\ sendPos' = sendPos + block /\ block' = 0 /\ wpc' = "read"
  /\ UNCHANGED <<running, eof, readAbs, seekReq, rangeOff, codec, held>>

(* Seeded fault: the window keeps its beginning.                           *)
WStore_KeepsBase ==
  /\ wpc = "write" /\ running /\ seekReq = NoSeek
  /\ block - FreeRoom <= readAbs - baseAbs
  /\ ring' = Stored(block) /\ produced' = produced + block
  /\ sendPos' = sendPos + block /\ block' = 0 /\ wpc' = "read"
  /\ UNCHANGED <<running, eof, baseAbs, readAbs, seekReq, rangeOff, codec, held>>

\* ring_write(): room is taken from what the codec has read past.
WStore ==
  /\ wpc = "write" /\ running /\ seekReq = NoSeek
  /\ block - FreeRoom <= readAbs - baseAbs
  /\ baseAbs' = IF FreeRoom < block THEN baseAbs + (block - FreeRoom) ELSE baseAbs
  /\ ring' = Stored(block) /\ produced' = produced + block
  /\ sendPos' = sendPos + block /\ block' = 0 /\ wpc' = "read"
  /\ UNCHANGED <<running, eof, readAbs, seekReq, rangeOff, codec, held>>

\* All that was read is given up and it is not enough: it waits.
WReclaim ==
  /\ wpc = "write" /\ running /\ seekReq = NoSeek
  /\ readAbs > baseAbs /\ block - FreeRoom > readAbs - baseAbs
  /\ baseAbs' = readAbs
  /\ UNCHANGED <<running, eof, ring, produced, readAbs, seekReq, worker, codec,
                 held>>

(* Seeded fault: ring_write() does not look at a pending seek.             *)
WDropBlock_OnlyStop ==
  /\ wpc = "write" /\ ~running
  /\ block' = 0 /\ wpc' = "closed"
  /\ UNCHANGED <<running, eof, window, seekReq, rangeOff, sendPos, codec, held>>

\* ring_write() fails: the decoder waits for a seek and will not make room,
\* or the stream was stopped.
WDropBlock ==
  /\ wpc = "write" /\ (~running \/ seekReq # NoSeek)
  /\ block' = 0 /\ wpc' = "closed"
  /\ UNCHANGED <<running, eof, window, seekReq, rangeOff, sendPos, codec, held>>

\* After the connection: end, reconnect for a seek, or end of file.
WAfter ==
  /\ wpc = "closed"
  /\ \/ ~running /\ wpc' = "end"
     \/ running /\ seekReq # NoSeek /\ wpc' = "connect"
     \/ running /\ seekReq = NoSeek /\ wpc' = "eof"
  /\ UNCHANGED <<running, eof, window, seekReq, rangeOff, sendPos, block, codec,
                 held>>

(* Seeded fault: the decoder is not told that the file is complete.        *)
WEof_Silent ==
  /\ wpc = "eof" /\ wpc' = "drain"
  /\ UNCHANGED <<running, eof, window, seekReq, rangeOff, sendPos, block, codec,
                 held>>

WEof ==
  /\ wpc = "eof" /\ eof' = TRUE /\ wpc' = "drain"
  /\ UNCHANGED <<running, window, seekReq, rangeOff, sendPos, block, codec, held>>

\* The worker ends when the stream is stopped, also between two connections,
\* or when the decoder has come to its end or never began.
WEnd ==
  /\ \/ wpc = "connect" /\ ~running
     \/ wpc = "drain" /\ (~running \/ dpc \in {"none", "end"})
  /\ wpc' = "end"
  /\ UNCHANGED <<running, eof, window, seekReq, rangeOff, sendPos, block, codec,
                 held>>

-----------------------------------------------------------------------------
\* The decoder.

\* The first block has shown which codec it takes; the decoder is started.
CodecStart ==
  /\ dpc = "none" /\ running /\ (block > 0 \/ produced > 0) /\ dpc' = "codec"
  /\ UNCHANGED <<running, eof, window, seekReq, worker, asked, target, cpos, held>>

\* The codec asks for r bytes in one piece; what it held is gone.
ReqEnter(r) ==
  /\ dpc = "codec" /\ dpc' = "request" /\ asked' = r /\ heldLen' = 0
  /\ UNCHANGED <<running, eof, window, seekReq, worker, target, cpos, heldAt,
                 linear>>

AtEnd == eof \/ ~running

\* A pointer into the ring, or to a copy when the bytes cross its seam.
ReqTake ==
  /\ dpc = "request" /\ Avail > 0 /\ (Avail >= asked \/ AtEnd)
  /\ heldAt' = readAbs /\ heldLen' = MinOf(asked, Avail)
  /\ linear' = (MinOf(asked, Avail) > Size - Slot(readAbs))
  /\ dpc' = "codec" /\ asked' = 0
  /\ UNCHANGED <<running, eof, window, seekReq, worker, target, cpos>>

\* advance_source(): the codec has used n bytes of what it holds.
Advance(n) ==
  /\ dpc = "codec" /\ cpos + n <= heldAt + heldLen /\ heldLen > 0
  /\ readAbs' = MinOf(readAbs + n, produced) /\ cpos' = cpos + n
  /\ UNCHANGED <<running, eof, ring, produced, baseAbs, seekReq, worker, dpc,
                 asked, target, held>>

\* read_source(): n bytes are copied out, as far as they are there.
FbEnter(n) ==
  /\ dpc = "codec" /\ dpc' = "reading" /\ asked' = n /\ heldLen' = 0
  /\ UNCHANGED <<running, eof, window, seekReq, worker, target, cpos, heldAt,
                 linear>>

FbTake ==
  /\ dpc = "reading" /\ Avail > 0
  /\ LET n == MinOf(asked, Avail) IN
     /\ readAbs' = readAbs + n /\ cpos' = cpos + n /\ asked' = asked - n
     /\ dpc' = IF n = asked THEN "codec" ELSE "reading"
  /\ UNCHANGED <<running, eof, ring, produced, baseAbs, seekReq, worker, target,
                 held>>

\* Nothing is left and nothing will come: the codec returns.
SourceDry ==
  /\ dpc \in {"request", "reading"} /\ Avail = 0 /\ AtEnd
  /\ dpc' = "end" /\ asked' = 0
  /\ UNCHANGED <<running, eof, window, seekReq, worker, target, cpos, held>>

\* A codec that is asked to stop returns.
Halt ==
  /\ dpc = "codec" /\ ~running /\ dpc' = "end" /\ heldLen' = 0
  /\ UNCHANGED <<running, eof, window, seekReq, worker, asked, target, cpos,
                 heldAt, linear>>

InWindow(p) == baseAbs <= p /\ p <= produced

(* Seeded fault: only the end of the window is looked at.                  *)
SeekNear_Forward(p) ==
  /\ dpc = "codec" /\ running /\ p <= produced
  /\ readAbs' = p /\ cpos' = p /\ heldLen' = 0
  /\ UNCHANGED <<running, eof, ring, produced, baseAbs, seekReq, worker, dpc,
                 asked, target, heldAt, linear>>

\* seek_source(): inside the retained window.
SeekNear(p) ==
  /\ dpc = "codec" /\ running /\ InWindow(p)
  /\ readAbs' = p /\ cpos' = p /\ heldLen' = 0
  /\ UNCHANGED <<running, eof, ring, produced, baseAbs, seekReq, worker, dpc,
                 asked, target, heldAt, linear>>

\* Outside it: ask the worker, and wait.
SeekFar(p) ==
  /\ dpc = "codec" /\ running /\ ~InWindow(p)
  /\ seekReq' = p /\ target' = p /\ dpc' = "seek" /\ heldLen' = 0
  /\ UNCHANGED <<running, eof, window, worker, asked, cpos, heldAt, linear>>

SeekDone ==
  /\ dpc = "seek" /\ running /\ seekReq = NoSeek /\ InWindow(target)
  /\ readAbs' = target /\ cpos' = target /\ dpc' = "codec"
  /\ UNCHANGED <<running, eof, ring, produced, baseAbs, seekReq, worker, asked,
                 target, held>>

\* After five seconds the decoder gives up; the worker may be on its way.
SeekGiveUp ==
  /\ dpc = "seek" /\ (Patient => ~running)
  /\ seekReq' = NoSeek /\ dpc' = "codec"
  /\ UNCHANGED <<running, eof, window, worker, asked, target, cpos, held>>

-----------------------------------------------------------------------------
\* dlna_stream_stop()
Stop ==
  /\ running /\ running' = FALSE
  /\ UNCHANGED <<eof, window, seekReq, worker, codec, held>>

Connection == WConnect \/ WRefused \/ \E part \in Partial : WAnswer(part)
Download ==
  \/ \E n \in WriteSizes : WRead(n)
  \/ WLeave \/ WStore \/ WReclaim \/ WDropBlock \/ WAfter \/ WEof \/ WEnd
Reading ==
  \/ CodecStart
  \/ \E r \in ReadSizes : ReqEnter(r) \/ Advance(r) \/ FbEnter(r)
  \/ ReqTake \/ FbTake \/ SourceDry \/ Halt
Seeking ==
  \/ \E p \in Targets : SeekNear(p) \/ SeekFar(p)
  \/ SeekDone \/ SeekGiveUp

Next == Connection \/ Download \/ Reading \/ Seeking \/ Stop
Spec == Init /\ [][Next]_vars

\* The kernel runs both threads, a server that is asked again and again
\* answers, and a connection delivers what is left of the file.
FairSpec ==
  /\ Spec
  /\ WF_vars(WConnect)
  /\ SF_vars(\E part \in Partial : WAnswer(part))
  /\ WF_vars(\/ \E n \in WriteSizes : WRead(n)
             \/ wpc = "read" /\ (~running \/ seekReq # NoSeek \/ sendPos = FileLen)
                /\ WLeave)
  /\ WF_vars(WStore \/ WReclaim \/ WDropBlock \/ WAfter \/ WEof \/ WEnd)
  /\ WF_vars(ReqTake \/ FbTake \/ SourceDry)
  /\ WF_vars(SeekDone \/ SeekGiveUp)

-----------------------------------------------------------------------------
\* Properties.

Position == 0 .. FileLen
Pcs == {"connect", "answer", "read", "write", "closed", "eof", "drain", "end"}

TypeOK ==
  /\ running \in BOOLEAN /\ eof \in BOOLEAN
  /\ ring \in [0 .. Size - 1 -> Position]
  /\ produced \in Position /\ baseAbs \in Position /\ readAbs \in Position
  /\ seekReq \in Targets \cup {NoSeek}
  /\ wpc \in Pcs /\ rangeOff \in Targets \cup {0} /\ sendPos \in Position
  /\ block \in WriteSizes \cup {0}
  /\ dpc \in {"none", "codec", "request", "reading", "seek", "end"}
  /\ asked \in Nat /\ target \in Targets \cup {0} /\ cpos \in Nat
  /\ heldAt \in Position /\ heldLen \in Nat /\ linear \in BOOLEAN

\* The read position never leaves the retained window and the window never
\* outgrows the ring, whatever the worker reclaims and however seeks, late
\* answers and blocks interleave.
ReadInWindow ==
  baseAbs <= readAbs /\ readAbs <= produced /\ produced <= baseAbs + Size

\* The positions are sound, and so is the window they bound.
WindowSound == TypeOK /\ ReadInWindow

\* The ring holds the bytes of the file at their absolute positions: "absolute
\* positions keep matching the file" (dlna_stream.c:998).
WindowIsFile == \A p \in baseAbs .. produced - 1 : ring[Slot(p)] = p

\* "The positions the codec tracks match the source exactly" (line 899): the
\* ring's read position is the codec's, except while a seek is on its way.
CodecPosition == running /\ dpc # "seek" => readAbs = cpos

\* The codec "keeps the returned pointer until its next request_buffer()"
\* (line 908): the bytes it has not used yet are not overwritten under it.
HeldIsFile ==
  running /\ heldLen > 0 /\ ~linear =>
    \A p \in cpos .. heldAt + heldLen - 1 : ring[Slot(heldAt) + (p - heldAt)] = p

\* What the codec reads, copied or through the pointer it was given, is the
\* file from the position the codec counts itself to be at.
CodecReads == CodecPosition /\ HeldIsFile

\* The worker and the decoder never wait for each other for ever: a seek
\* is answered unless the worker has already come to the end of the file.
SeekAnswered ==
  dpc = "seek" ~> dpc # "seek" \/ eof

\* A codec that waits for bytes gets them or learns that there are no more.
CodecGetsOn == dpc \in {"request", "reading"} ~> dpc \in {"codec", "end"}
=============================================================================
