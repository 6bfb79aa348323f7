------------------------------- MODULE BtInput -------------------------------
(***************************************************************************)
(* Bluetooth receive: firmware/target/hosted/cayin/n3pro/n3pro-bt-input.c   *)
(* and the receive screen of apps/bluetooth.c.                             *)
(*                                                                         *)
(* A session is started by the screen, which may be left while it runs.    *)
(* Its pump, a detached thread, opens the capture, reads frames of the     *)
(* phone into a ring and tries again when the link is lost - in the        *)
(* background it ends the session instead.  The mixer takes chunks out of  *)
(* the ring on the PCM thread.  No lock protects any of this; the pump     *)
(* that belongs to an older session is told by a generation number.        *)
(*                                                                         *)
(* A frame is its serial number.  The plugin that delivers the frames is   *)
(* not part of the repository: its calls fail, succeed, or have no data.   *)
(***************************************************************************)
EXTENDS Integers, FiniteSets

CONSTANTS
  Pumps,      \* thread slots
  Ring,       \* BTIN_RING_FRAMES
  Chunk,      \* BTIN_CHUNK_FRAMES
  Prime,      \* frames of BTIN_PRIME_MS
  Skip,       \* frames of BTIN_SKIP_MS
  Rates,      \* capture rates
  Wrap,       \* bound of an unsigned counter
  MaxMade,    \* bound: frames the phone sends
  MaxStart,   \* bound: sessions
  Prompt,     \* the pump does not touch the ring in the middle of get_more()
  Patient     \* the user stops no pump that is opening the capture, and starts anew
              \* once the last pump has closed it or sleeps between two attempts

ASSUME SizesAssumption ==
  /\ Chunk \in Nat \ {0} /\ Ring \in Nat /\ Wrap \in Nat
  /\ 2 * Chunk <= Ring /\ Ring % 2 = 0 /\ Wrap >= 2 * Ring /\ Wrap % Ring = 0
  /\ Skip \in Nat /\ Prime \in Nat \ {0} /\ Skip < Prime /\ Prime <= Ring - Chunk
  /\ Rates \subseteq Nat \ {0} /\ MaxMade \in Nat
ASSUME EnvironmentAssumption == {Prompt, Patient} \subseteq BOOLEAN

Nobody == "nobody"

VARIABLES
  running,    \* btin_running
  gen,        \* btin_gen
  fg,         \* btin_fg
  linkOk,     \* btin_link_ok
  rate,       \* btin_rate, 0 before the first link
  head, tail, primed,  \* btin_head, btin_tail, btin_primed
  ring,       \* btin_ring: the serial number of each frame
  cfg,        \* btin_cfg: the pump whose capture it was parsed for
  channel,    \* the mixer channel plays
  pc,         \* where each pump is
  own,        \* its generation
  handle,     \* it has the capture open
  frames,     \* frames it has read
  ui,         \* where the screen is
  gm,         \* btin_get_more() between its load and its store
  made,       \* ghost: frames captured so far
  since,      \* ghost: frames captured before this link (or session)
  last        \* ghost: the frame the mixer got last

sessionVars == <<running, gen, fg, linkOk, rate>>
ringVars == <<head, tail, primed, ring>>
pumpVars == <<pc, own, handle, frames>>
ghosts == <<made, since, last>>
vars == <<sessionVars, ringVars, cfg, channel, pumpVars, ui, gm, ghosts>>

Idle == [at |-> "idle", tail |-> 0, n |-> 0]
Fill == (head - tail) % Wrap

Init ==
  /\ running = FALSE /\ gen = 0 /\ fg = FALSE /\ linkOk = FALSE /\ rate = 0
  /\ head = 0 /\ tail = 0 /\ primed = FALSE
  /\ ring = [i \in 0 .. Ring - 1 |-> 0]
  /\ cfg = Nobody /\ channel = FALSE
  /\ pc = [p \in Pumps |-> "none"]
  /\ own = [p \in Pumps |-> 0]
  /\ handle = [p \in Pumps |-> FALSE]
  /\ frames = [p \in Pumps |-> 0]
  /\ ui = "menu" /\ gm = Idle
  /\ made = 0 /\ since = 0 /\ last = 0

-----------------------------------------------------------------------------
(* What the environment is assumed to do.                                  *)

UserMayAct ==
  Patient => \A p \in Pumps : pc[p] \notin {"open", "link", "rate", "kick"}
NoLeftOver ==
  Patient => \A p \in Pumps : pc[p] = "none" \/ (pc[p] \in {"loop", "close"} /\ ~handle[p])

\* the pump works on the ring
MayTouchRing == Prompt => gm.at = "idle"

-----------------------------------------------------------------------------
(* bt_input_stop(), by the screen or by a pump.                            *)

StopSession ==
  /\ running' = FALSE
  /\ gen' = gen + 1

\* mixer_channel_stop(): the PCM mutex waits for get_more() to end
StopChannel ==
  /\ gm.at = "idle"
  /\ channel' = FALSE

-----------------------------------------------------------------------------
(* The receive screen.                                                     *)

\* the screen is entered: bt_input_set_fg(true)
UiOpen ==
  /\ ui = "menu" /\ UserMayAct
  /\ fg' = TRUE /\ ui' = "opening"
  /\ UNCHANGED <<running, gen, linkOk, rate, ringVars, cfg, channel, pumpVars, gm, ghosts>>

\* bt_input_active()
UiEnter ==
  /\ ui = "opening" /\ running
  /\ ui' = "screen"
  /\ UNCHANGED <<sessionVars, ringVars, cfg, channel, pumpVars, gm, ghosts>>

\* bt_input_start() up to the thread
UiStart ==
  LET p == CHOOSE q \in Pumps : pc[q] = "none" IN
  /\ ui = "opening" /\ ~running /\ NoLeftOver /\ gen < 2 * MaxStart
  /\ \E q \in Pumps : pc[q] = "none"
  /\ head' = 0 /\ tail' = 0 /\ rate' = 0 /\ primed' = FALSE
  /\ linkOk' = FALSE /\ gen' = gen + 1 /\ running' = TRUE
  /\ pc' = [pc EXCEPT ![p] = "born"]
  /\ ui' = "play"
  /\ since' = made
  /\ UNCHANGED <<fg, ring, cfg, channel, own, handle, frames, gm, made, last>>

\* ... and its mixer_channel_play_data()
UiPlay ==
  /\ ui = "play"
  /\ channel' = TRUE /\ ui' = "screen"
  /\ UNCHANGED <<sessionVars, ringVars, cfg, pumpVars, gm, ghosts>>

\* bt_input_start() refused, or pthread_create() failed
UiRefused ==
  /\ ui = "opening" /\ ~running
  /\ fg' = FALSE /\ ui' = "menu"
  /\ UNCHANGED <<running, gen, linkOk, rate, ringVars, cfg, channel, pumpVars, gm, ghosts>>

\* back: the session goes on in the background
UiLeave ==
  /\ ui = "screen"
  /\ fg' = FALSE /\ ui' = "menu"
  /\ UNCHANGED <<running, gen, linkOk, rate, ringVars, cfg, channel, pumpVars, gm, ghosts>>

\* disconnect, or the reset of the stack from the menu
UiStop ==
  /\ ui \in {"screen", "menu"} /\ running /\ UserMayAct
  /\ StopSession
  /\ fg' = FALSE /\ ui' = "stop"
  /\ UNCHANGED <<linkOk, rate, ringVars, cfg, channel, pumpVars, gm, ghosts>>

UiStopped ==
  /\ ui = "stop" /\ StopChannel
  /\ ui' = "menu"
  /\ UNCHANGED <<sessionVars, ringVars, cfg, pumpVars, gm, ghosts>>

Ui == UiOpen \/ UiEnter \/ UiStart \/ UiPlay \/ UiRefused \/ UiLeave \/ UiStop \/ UiStopped

-----------------------------------------------------------------------------
(* btin_pump_thread().                                                     *)

Goto(p, from, to) == pc[p] = from /\ pc' = [pc EXCEPT ![p] = to]

\* Seeded fault: the generation is not looked at.
Mine_OnlyRunning(p) == running

Mine(p) == running /\ own[p] = gen

\* the thread starts to run and reads its generation
PumpBorn(p) ==
  /\ Goto(p, "born", "loop")
  /\ own' = [own EXCEPT ![p] = gen]
  /\ UNCHANGED <<sessionVars, ringVars, cfg, channel, handle, frames, ui, gm, ghosts>>

\* the head of the loop
PumpLoop(p) ==
  /\ Goto(p, "loop", IF ~Mine(p) THEN "close" ELSE IF handle[p] THEN "read" ELSE "open")
  /\ UNCHANGED <<sessionVars, ringVars, cfg, channel, own, handle, frames, ui, gm, ghosts>>

\* no capture: in the background the session ends, else try again later
LostNext == IF fg THEN "loop" ELSE "stop"

\* btin_open_capture() fails, or btin_setup_stream() or snd_pcm_prepare() of
\* what it opened, which is closed again with the configuration
PumpOpenFails(p) ==
  /\ Goto(p, "open", "lost")
  /\ linkOk' = FALSE
  /\ cfg' \in {cfg, Nobody}
  /\ UNCHANGED <<running, gen, fg, rate, ringVars, channel, own, handle, frames, ui, gm, ghosts>>

\* Seeded fault: the pump tries again in the background too.
PumpLost_AlwaysRetries(p) ==
  /\ Goto(p, "lost", "loop")
  /\ UNCHANGED <<sessionVars, ringVars, cfg, channel, own, handle, frames, ui, gm, ghosts>>

PumpLost(p) ==
  /\ Goto(p, "lost", LostNext)
  /\ UNCHANGED <<sessionVars, ringVars, cfg, channel, own, handle, frames, ui, gm, ghosts>>

PumpOpens(p) ==
  /\ Goto(p, "open", "link")
  /\ handle' = [handle EXCEPT ![p] = TRUE]
  /\ cfg' = p
  /\ UNCHANGED <<sessionVars, ringVars, channel, own, frames, ui, gm, ghosts>>

\* Seeded fault: the ring keeps what the lost link left.
PumpLink_KeepsRing(p) ==
  /\ Goto(p, "link", "rate") /\ MayTouchRing
  /\ primed' = FALSE
  /\ since' = made
  /\ UNCHANGED <<sessionVars, head, tail, ring, cfg, channel, own, handle, frames, ui, gm, made, last>>

\* the ring is emptied for the new link
PumpLink(p) ==
  /\ Goto(p, "link", "rate") /\ MayTouchRing
  /\ head' = tail /\ primed' = FALSE
  /\ since' = made
  /\ UNCHANGED <<sessionVars, tail, ring, cfg, channel, own, handle, frames, ui, gm, made, last>>

\* btin_apply_rate() up to mixer_set_frequency()
PumpRate(p) ==
  /\ MayTouchRing
  /\ \E r \in Rates :
       IF r = rate
         THEN /\ Goto(p, "rate", "linked")
              /\ UNCHANGED <<rate, tail, primed>>
         ELSE /\ Goto(p, "rate", "kick")
              /\ rate' = r /\ tail' = head /\ primed' = FALSE
  /\ UNCHANGED <<running, gen, fg, linkOk, head, ring, cfg, channel, own, handle, frames, ui, gm, ghosts>>

\* its mixer_channel_play_data()
PumpKick(p) ==
  /\ Goto(p, "kick", "linked") /\ gm.at = "idle"
  /\ channel' = TRUE
  /\ UNCHANGED <<sessionVars, ringVars, cfg, own, handle, frames, ui, gm, ghosts>>

PumpLinked(p) ==
  /\ Goto(p, "linked", "read")
  /\ linkOk' = TRUE
  /\ UNCHANGED <<running, gen, fg, rate, ringVars, cfg, channel, own, handle, frames, ui, gm, ghosts>>

PumpRead(p) ==
  /\ \/ /\ \E n \in 1 .. Chunk :
             /\ made + n <= MaxMade
             /\ frames' = [frames EXCEPT ![p] = n]
        /\ Goto(p, "read", "drop")
     \/ Goto(p, "read", "loop") /\ UNCHANGED frames
  /\ UNCHANGED <<sessionVars, ringVars, cfg, channel, own, handle, ui, gm, ghosts>>

PumpReadFails(p) ==
  /\ Goto(p, "read", "lost")
  /\ linkOk' = FALSE
  /\ handle' = [handle EXCEPT ![p] = FALSE]
  /\ cfg' = Nobody
  /\ UNCHANGED <<running, gen, fg, rate, ringVars, channel, own, frames, ui, gm, ghosts>>

\* Seeded fault: only a full ring is made room in.
DropsChunk_WhenFull == Fill >= Ring

\* the oldest chunk makes room for the frames
DropsChunk == Fill > Ring - Chunk

PumpDrop(p) ==
  /\ Goto(p, "drop", "put") /\ MayTouchRing
  /\ tail' = IF DropsChunk THEN (tail + Chunk) % Wrap ELSE tail
  /\ UNCHANGED <<sessionVars, head, primed, ring, cfg, channel, own, handle, frames, ui, gm, ghosts>>

PumpPut(p) ==
  /\ Goto(p, "put", "loop") /\ MayTouchRing
  /\ ring' = [i \in 0 .. Ring - 1 |->
                LET k == (i - head) % Ring IN IF k < frames[p] THEN made + k + 1 ELSE ring[i]]
  /\ head' = (head + frames[p]) % Wrap
  /\ made' = made + frames[p]
  /\ frames' = [frames EXCEPT ![p] = 0]
  /\ UNCHANGED <<sessionVars, tail, primed, cfg, channel, own, handle, ui, gm, since, last>>

\* Seeded fault: the channel is left on.
PumpStop_NoChannel(p) ==
  /\ Goto(p, "stop", "close")
  /\ IF running THEN StopSession ELSE UNCHANGED <<running, gen>>
  /\ UNCHANGED <<fg, linkOk, rate, ringVars, cfg, channel, own, handle, frames, ui, gm, ghosts>>

\* bt_input_stop()
PumpStop(p) ==
  /\ IF running
       THEN Goto(p, "stop", "stopChannel") /\ StopSession
       ELSE Goto(p, "stop", "close") /\ UNCHANGED <<running, gen>>
  /\ UNCHANGED <<fg, linkOk, rate, ringVars, cfg, channel, own, handle, frames, ui, gm, ghosts>>

PumpStopped(p) ==
  /\ Goto(p, "stopChannel", "close") /\ StopChannel
  /\ UNCHANGED <<sessionVars, ringVars, cfg, own, handle, frames, ui, gm, ghosts>>

\* btin_close_capture() of an open capture, and the end of the thread
PumpClose(p) ==
  /\ Goto(p, "close", "none")
  /\ handle' = [handle EXCEPT ![p] = FALSE]
  /\ cfg' = IF handle[p] THEN Nobody ELSE cfg
  /\ own' = [own EXCEPT ![p] = 0]
  /\ UNCHANGED <<sessionVars, ringVars, channel, frames, ui, gm, ghosts>>

Pump(p) ==
  \/ PumpBorn(p) \/ PumpLoop(p) \/ PumpOpenFails(p) \/ PumpLost(p) \/ PumpOpens(p)
  \/ PumpLink(p) \/ PumpRate(p) \/ PumpKick(p) \/ PumpLinked(p)
  \/ PumpRead(p) \/ PumpReadFails(p) \/ PumpDrop(p) \/ PumpPut(p)
  \/ PumpStop(p) \/ PumpStopped(p) \/ PumpClose(p)

-----------------------------------------------------------------------------
(* btin_get_more() on the PCM thread.                                      *)

Least(a, b) == IF a < b THEN a ELSE b

\* the frames to leave out when the prime is reached
GmSkip == IF primed THEN 0 ELSE Least(Skip, Fill)

\* its loads; silence until the ring carries the prime
Primes == primed \/ Fill >= Prime

\* the frames it takes
Avail == Least(Fill - GmSkip, Chunk)

GmLoad ==
  /\ channel /\ gm.at = "idle"
  /\ Primes
  /\ primed' = TRUE
  /\ tail' = (tail + GmSkip) % Wrap
  /\ gm' = [at |-> "copy", tail |-> tail', n |-> Avail]
  /\ UNCHANGED <<sessionVars, head, ring, cfg, channel, pumpVars, ui, ghosts>>

\* the copy and the store of btin_tail
GmStore ==
  /\ gm.at = "copy"
  /\ tail' = (gm.tail + gm.n) % Wrap
  /\ gm' = Idle
  /\ last' = IF gm.n = 0 THEN last ELSE ring[(gm.tail + gm.n - 1) % Ring]
  /\ UNCHANGED <<sessionVars, head, primed, ring, cfg, channel, pumpVars, ui, made, since>>

-----------------------------------------------------------------------------
Next ==
  \/ Ui \/ \E p \in Pumps : Pump(p)
  \/ GmLoad \/ GmStore

Spec == Init /\ [][Next]_vars

\* The kernel runs the threads, and the calls into the plugin return; get_more()
\* is microseconds of every chunk, so the pump and the stop get their turn
\* between two of them.
FairSpec ==
  /\ Spec
  /\ \A p \in Pumps : SF_vars(Pump(p))
  /\ WF_vars(GmStore)

-----------------------------------------------------------------------------
(* Properties.                                                             *)

TypeOK ==
  /\ running \in BOOLEAN /\ gen \in Nat /\ fg \in BOOLEAN /\ linkOk \in BOOLEAN
  /\ rate \in Rates \cup {0}
  /\ head \in 0 .. Wrap - 1 /\ tail \in 0 .. Wrap - 1 /\ primed \in BOOLEAN
  /\ ring \in [0 .. Ring - 1 -> 0 .. MaxMade]
  /\ cfg \in Pumps \cup {Nobody} /\ channel \in BOOLEAN
  /\ pc \in [Pumps -> {"none", "born", "loop", "open", "lost", "link", "rate", "kick", "linked",
                       "read", "drop", "put", "stop", "stopChannel", "close"}]
  /\ own \in [Pumps -> Nat] /\ handle \in [Pumps -> BOOLEAN]
  /\ frames \in [Pumps -> 0 .. Chunk]
  /\ ui \in {"menu", "opening", "play", "screen", "stop"}
  /\ gm \in [at : {"idle", "copy"}, tail : 0 .. Wrap - 1, n : 0 .. Chunk]
  /\ made \in 0 .. MaxMade /\ since \in 0 .. MaxMade /\ last \in 0 .. MaxMade

\* Whatever was dropped, skipped or emptied, btin_tail is at most a ring behind
\* btin_head and never ahead of it (it would read as almost 2^32 frames).
TailBehind == Fill <= Ring

\* A ring with counters in range.
RingSound == TypeOK /\ TailBehind

\* What the mixer is about to copy is in the order it was captured, later than
\* what it had, and of this link: nothing is heard again, and nothing of the
\* phone's last connection or of an earlier session.
HeardInOrder ==
  gm.at = "copy" =>
    /\ \A i \in 0 .. gm.n - 1 : ring[(gm.tail + i) % Ring] > (IF last > since THEN last ELSE since)
    /\ \A i \in 1 .. gm.n - 1 : ring[(gm.tail + i) % Ring] > ring[(gm.tail + i - 1) % Ring]

\* The configuration an open capture refers to is not deleted (the tree is
\* "kept alive for as long as the handle references it").
ConfigKept == \A p \in Pumps : handle[p] => cfg = p

\* A session that ended has no channel, once whoever ended it is through.
StopSilences ==
  (~running /\ ui # "stop" /\ \A p \in Pumps : pc[p] # "stopChannel") => ~channel

\* What a session has opened is its own while it lives and gone when it ended.
SessionClean == ConfigKept /\ StopSilences

\* A running session is ended by the user or by its own pump: one that slept
\* over a stop and a start leaves the new session alone.
SessionKept ==
  [][(running /\ ~running') => (ui' = "stop" \/ \E p \in Pumps : own[p] = gen /\ pc[p] = "stop")]_vars

\* The pump of a session that ended does not stay, and holds no capture.
StalePumpEnds ==
  \A p \in Pumps : (pc[p] # "none" /\ ~running) ~> (pc[p] = "none" \/ running)

\* In the background a session without a link comes to an end or gets one.
BackgroundEnds == (running /\ ~fg /\ ~linkOk) ~> (~running \/ fg \/ linkOk)

\* No pump and no session outlives what it is for.
PumpsWindDown == StalePumpEnds /\ BackgroundEnds
=============================================================================
