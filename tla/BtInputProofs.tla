---------------------------- MODULE BtInputProofs ----------------------------
(***************************************************************************)
(* Proofs about BtInput: for every number of pumps, every size of the ring *)
(* and of its chunks and every width of the counters, the ring stays       *)
(* sound, what is heard is in order, a stop silences and a session is      *)
(* ended by its own pump only - when the user is patient, and the pump     *)
(* keeps off the ring in the middle of get_more().                         *)
(***************************************************************************)
EXTENDS BtInput, TLAPS

-----------------------------------------------------------------------------
\* Counters of the ring, and the places they stand for.

Counter == 0 .. Wrap - 1
Place == 0 .. Ring - 1

LEMMA Sizes ==
  /\ Chunk \in Nat /\ Chunk > 0 /\ Ring \in Nat /\ 2 * Chunk <= Ring /\ Ring > 0
  /\ Wrap \in Nat /\ Wrap >= 2 * Ring /\ Ring < Wrap
  /\ Skip \in Nat /\ Prime \in Nat /\ MaxMade \in Nat /\ Rates \subseteq Nat \ {0}
BY SizesAssumption

LEMMA ModLow == ASSUME NEW i \in 0 .. Wrap - 1
                PROVE  i % Wrap = i
BY Sizes

LEMMA ModHigh == ASSUME NEW i \in Wrap .. 2 * Wrap - 1
                 PROVE  i % Wrap = i - Wrap
BY Sizes

LEMMA ModBelow == ASSUME NEW i \in Int, 0 - Wrap <= i, i < 0
                  PROVE  i % Wrap = i + Wrap
BY Sizes

FillOf(h, t) == (h - t) % Wrap

LEMMA FillIs ==
  ASSUME NEW h \in Counter, NEW t \in Counter
  PROVE  /\ FillOf(h, t) \in Counter
         /\ FillOf(h, t) = IF h >= t THEN h - t ELSE (h - t) + Wrap
<1>1. CASE h >= t
  <2>1. h - t \in 0 .. Wrap - 1
    BY <1>1, Sizes DEF Counter
  <2>2. (h - t) % Wrap = h - t
    BY <2>1, ModLow
  <2> QED BY <1>1, <2>1, <2>2 DEF FillOf, Counter
<1>2. CASE ~(h >= t)
  <2>1. h - t \in Int /\ 0 - Wrap <= h - t /\ h - t < 0 /\ (h - t) + Wrap \in 0 .. Wrap - 1
    BY <1>2, Sizes DEF Counter
  <2>2. (h - t) % Wrap = (h - t) + Wrap
    BY <2>1, ModBelow
  <2> QED BY <1>2, <2>1, <2>2 DEF FillOf, Counter
<1> QED BY <1>1, <1>2

\* A counter that moves n on stays a counter.
LEMMA Moved ==
  ASSUME NEW t \in Counter, NEW n \in 0 .. Wrap - 1
  PROVE  /\ (t + n) % Wrap \in Counter
         /\ (t + n) % Wrap = IF t + n < Wrap THEN t + n ELSE (t + n) - Wrap
<1>1. CASE t + n < Wrap
  BY <1>1, ModLow, Sizes DEF Counter
<1>2. CASE ~(t + n < Wrap)
  <2>1. t + n \in Wrap .. 2 * Wrap - 1
    BY <1>2, Sizes DEF Counter
  <2>2. (t + n) % Wrap = (t + n) - Wrap
    BY <2>1, ModHigh
  <2> QED BY <1>2, <2>1, <2>2, Sizes DEF Counter
<1> QED BY <1>1, <1>2

LEMMA FillPut ==
  ASSUME NEW h \in Counter, NEW t \in Counter, NEW n \in Nat, FillOf(h, t) + n < Wrap
  PROVE  (h + n) % Wrap \in Counter /\ FillOf((h + n) % Wrap, t) = FillOf(h, t) + n
<1>1. n \in 0 .. Wrap - 1
  BY FillIs, Sizes DEF Counter
<1> DEFINE m == (h + n) % Wrap
<1>2. m \in Counter /\ m = IF h + n < Wrap THEN h + n ELSE (h + n) - Wrap
  BY <1>1, Moved
<1> HIDE DEF m
<1>3. FillOf(m, t) = IF m >= t THEN m - t ELSE (m - t) + Wrap
  BY <1>2, FillIs
<1>4. FillOf(h, t) = IF h >= t THEN h - t ELSE (h - t) + Wrap
  BY FillIs
<1>5. FillOf(m, t) = FillOf(h, t) + n
  BY <1>1, <1>2, <1>3, <1>4, Sizes DEF Counter
<1> QED BY <1>2, <1>5 DEF m

LEMMA FillTake ==
  ASSUME NEW h \in Counter, NEW t \in Counter, NEW n \in Nat, n <= FillOf(h, t)
  PROVE  (t + n) % Wrap \in Counter /\ FillOf(h, (t + n) % Wrap) = FillOf(h, t) - n
<1>1. n \in 0 .. Wrap - 1
  BY FillIs, Sizes DEF Counter
<1> DEFINE m == (t + n) % Wrap
<1>2. m \in Counter /\ m = IF t + n < Wrap THEN t + n ELSE (t + n) - Wrap
  BY <1>1, Moved
<1> HIDE DEF m
<1>3. FillOf(h, m) = IF h >= m THEN h - m ELSE (h - m) + Wrap
  BY <1>2, FillIs
<1>4. FillOf(h, t) = IF h >= t THEN h - t ELSE (h - t) + Wrap
  BY FillIs
<1>5. FillOf(h, m) = FillOf(h, t) - n
  BY <1>1, <1>2, <1>3, <1>4, Sizes DEF Counter
<1> QED BY <1>2, <1>5 DEF m

LEMMA FillSame == ASSUME NEW h \in Counter
                  PROVE  FillOf(h, h) = 0
BY FillIs, Sizes DEF Counter

\* The counters wrap at a multiple of the ring: a counter's place in the ring
\* moves on evenly.
LEMMA Multiple == \E k \in Nat : Wrap = k * Ring
<1> DEFINE k == Wrap \div Ring
<1>1. Wrap = k * Ring + (Wrap % Ring) /\ k \in Int
  BY Sizes
<1>2. Wrap % Ring = 0
  BY SizesAssumption
<1>3. k \in Nat /\ Wrap = k * Ring
  BY <1>1, <1>2, Sizes
<1> QED BY <1>3

LEMMA Unique ==
  ASSUME NEW i \in Int, NEW q \in Int, NEW r \in Place, i = q * Ring + r
  PROVE  i % Ring = r
<1> DEFINE d == i \div Ring
           m == i % Ring
<1>1. d \in Int /\ m \in Place /\ i = d * Ring + m
  BY Sizes DEF Place
<1> HIDE DEF d, m
<1>2. (q - d) * Ring = m - r
  <2>1. (q - d) * Ring = q * Ring - d * Ring
    BY Sizes, <1>1
  <2> QED BY <1>1, <2>1, Sizes DEF Place
<1>3. CASE q - d >= 1
  <2>1. (q - d) * Ring >= Ring
    BY <1>3, <1>1, Sizes
  <2> QED BY <2>1, <1>1, <1>2, Sizes DEF Place
<1>4. CASE q - d <= -1
  <2>1. (q - d) * Ring <= 0 - Ring
    BY <1>4, <1>1, Sizes
  <2> QED BY <2>1, <1>1, <1>2, Sizes DEF Place
<1>5. CASE q - d = 0
  BY <1>5, <1>1, <1>2, Sizes DEF Place, m
<1> QED BY <1>1, <1>3, <1>4, <1>5

LEMMA PlaceOf ==
  ASSUME NEW i \in Int
  PROVE  i % Ring \in Place /\ \E q \in Int : i = q * Ring + (i % Ring)
<1>1. i = (i \div Ring) * Ring + (i % Ring) /\ i \div Ring \in Int /\ i % Ring \in Place
  BY Sizes DEF Place
<1> QED BY <1>1

\* Adding whole rings, or what a counter lost when it wrapped, leaves the place.
LEMMA SamePlace ==
  ASSUME NEW i \in Int, NEW k \in Int
  PROVE  (i + k * Ring) % Ring = i % Ring
<1>1. PICK q \in Int : i = q * Ring + (i % Ring)
  BY PlaceOf
<1>2. i + k * Ring = (q + k) * Ring + (i % Ring)
  <2>1. (q + k) * Ring = q * Ring + k * Ring
    BY Sizes
  <2>2. i % Ring \in Int /\ q * Ring \in Int /\ k * Ring \in Int
    BY PlaceOf, Sizes DEF Place
  <2> QED BY <1>1, <2>1, <2>2
<1>3. i + k * Ring \in Int /\ q + k \in Int /\ i % Ring \in Place
  BY PlaceOf, Sizes
<1> QED BY <1>2, <1>3, Unique

LEMMA PlaceMoved ==
  ASSUME NEW t \in Counter, NEW n \in 0 .. Wrap - 1, NEW j \in Int
  PROVE  (((t + n) % Wrap) + j) % Ring = ((t + n) + j) % Ring
<1> DEFINE m == (t + n) % Wrap
<1>1. m = IF t + n < Wrap THEN t + n ELSE (t + n) - Wrap
  BY Moved
<1> HIDE DEF m
<1>2. CASE t + n < Wrap
  BY <1>1, <1>2 DEF m
<1>3. CASE ~(t + n < Wrap)
  <2>1. PICK k \in Nat : Wrap = k * Ring
    BY Multiple
  <2>2. t \in Int /\ n \in Int /\ (t + n) + j \in Int /\ -k \in Int
    BY <2>1, Sizes DEF Counter
  <2>3. (-k) * Ring = -(k * Ring)
    BY <2>1, Sizes
  <2>4. m + j = ((t + n) + j) + (-k) * Ring
    BY <1>1, <1>3, <2>1, <2>2, <2>3, Sizes
  <2>5. (((t + n) + j) + (-k) * Ring) % Ring = ((t + n) + j) % Ring
    BY <2>2, SamePlace
  <2> QED BY <2>4, <2>5 DEF m
<1> QED BY <1>2, <1>3

\* How far the place of the frame j behind the tail is from that of the head.
LEMMA FromHead ==
  ASSUME NEW h \in Counter, NEW t \in Counter, NEW j \in Int
  PROVE  (((t + j) % Ring) - h) % Ring = (j - FillOf(h, t)) % Ring
<1> DEFINE f == FillOf(h, t)
           i == (t + j) % Ring
<1>1. /\ f \in Counter /\ f = IF h >= t THEN h - t ELSE (h - t) + Wrap
  BY FillIs
<1>2. t + j \in Int /\ i \in Place
  BY PlaceOf, Sizes DEF Counter
<1>3. PICK q \in Int : t + j = q * Ring + i
  BY <1>2, PlaceOf
<1>4. PICK k \in Nat : Wrap = k * Ring
  BY Multiple
<1> HIDE DEF f, i
<1>5. h \in Int /\ t \in Int /\ f \in Int /\ i \in Int /\ q * Ring \in Int /\ k * Ring \in Int
  BY <1>1, <1>2, <1>3, <1>4, Sizes DEF Counter, Place
<1>6. \E e \in Int : i - h = (j - f) + e * Ring
  <2>1. CASE h >= t
    <3>1. (-q) * Ring = -(q * Ring)
      BY <1>3, Sizes
    <3>2. i - h = (j - f) + (-q) * Ring
      BY <2>1, <3>1, <1>1, <1>3, <1>5
    <3> QED BY <3>2
  <2>2. CASE ~(h >= t)
    <3>1. (k - q) * Ring = k * Ring - q * Ring
      BY <1>3, <1>4, Sizes
    <3>2. i - h = (j - f) + (k - q) * Ring
      BY <2>2, <3>1, <1>1, <1>3, <1>4, <1>5, Sizes
    <3> QED BY <3>2, <1>3, <1>4
  <2> QED BY <2>1, <2>2
<1>7. (i - h) % Ring = (j - f) % Ring
  BY <1>5, <1>6, SamePlace
<1> QED BY <1>7 DEF f, i

-----------------------------------------------------------------------------
\* Who works: a pump that may touch the session, its ring or its capture.

Opened == {"link", "rate", "kick", "linked", "read", "drop", "put"}
States == {"none", "born", "loop", "open", "lost", "stop", "stopChannel", "close"} \cup Opened
Live(p) ==
  \/ pc[p] \notin {"none", "loop", "close"}
  \/ handle[p]
  \/ pc[p] = "loop" /\ own[p] = gen
One == \A p, q \in Pumps : Live(p) /\ Live(q) => p = q
Handles ==
  \A p \in Pumps : /\ pc[p] \in Opened => handle[p]
                   /\ handle[p] => pc[p] \in Opened \cup {"loop", "close"}
Gens == \A p \in Pumps : own[p] <= gen
Owned == running => \A p \in Pumps : Live(p) => pc[p] = "born" \/ own[p] = gen
Runs == \A p \in Pumps : pc[p] \in {"open", "link", "rate", "kick"} => running
Front ==
  /\ ui \in {"opening", "play"} => fg
  /\ ui = "play" => running /\ \A p \in Pumps : pc[p] \notin {"stop", "stopChannel"}
Copying == gm.at = "copy" => channel

PumpTypes ==
  /\ running \in BOOLEAN /\ gen \in Nat /\ fg \in BOOLEAN
  /\ pc \in [Pumps -> States] /\ own \in [Pumps -> Nat] /\ handle \in [Pumps -> BOOLEAN]
Turns == PumpTypes /\ One /\ Handles /\ Gens /\ Owned /\ Runs
Session == Front /\ Copying /\ StopSilences /\ ConfigKept

LEMMA TurnsInit == Init => Turns /\ Session
<1> SUFFICES ASSUME Init PROVE Turns /\ Session
  OBVIOUS
<1>1. /\ \A p \in Pumps : pc[p] = "none" /\ own[p] = 0 /\ handle[p] = FALSE
      /\ running = FALSE /\ gen = 0 /\ ui = "menu" /\ channel = FALSE /\ gm.at = "idle"
  BY DEF Init, Idle
<1>2. PumpTypes
  BY DEF Init, PumpTypes, States
<1>3. One /\ Gens /\ Owned /\ Runs
  BY <1>1 DEF Live, One, Gens, Owned, Runs
<1>4. Handles
  BY <1>1 DEF Handles, Opened
<1>5. Session
  BY <1>1 DEF Session, Front, Copying, StopSilences, ConfigKept
<1> QED BY <1>2, <1>3, <1>4, <1>5 DEF Turns

\* The thread bt_input_start() makes.
LEMMA StartsOne ==
  ASSUME UiStart
  PROVE  \E p \in Pumps : pc[p] = "none" /\ pc' = [pc EXCEPT ![p] = "born"]
<1> DEFINE P(q) == q \in Pumps /\ pc[q] = "none"
           p == CHOOSE q \in Pumps : pc[q] = "none"
<1>1. \E q \in Pumps : pc[q] = "none"
  BY DEF UiStart
<1>2. p \in Pumps /\ pc[p] = "none"
  BY <1>1
<1>3. pc' = [pc EXCEPT ![p] = "born"]
  BY DEF UiStart
<1> QED BY <1>2, <1>3

\* A pump that stays live or goes, the session as it was.
LEMMA OnePumpMoves ==
  ASSUME Turns, NEW p \in Pumps, NEW s \in States, pc' = [pc EXCEPT ![p] = s], own' = own,
         gen' = gen, handle' \in [Pumps -> BOOLEAN], \A q \in Pumps \ {p} : handle'[q] = handle[q],
         running' = running, fg' = fg,
         Live(p)' => Live(p), Live(p)' /\ s = "born" => pc[p] = "born",
         Live(p)' /\ pc[p] = "born" => own[p] = gen \/ s = "born",
         s \in Opened => handle'[p], handle'[p] => s \in Opened \cup {"loop", "close"},
         s \in {"open", "link", "rate", "kick"} => running
  PROVE  Turns'
<1>1. PumpTypes'
  BY DEF Turns, PumpTypes
<1>2. \A q \in Pumps : (q # p => pc'[q] = pc[q] /\ handle'[q] = handle[q]) /\ own'[q] = own[q]
  BY DEF Turns, PumpTypes
<1>3. pc'[p] = s
  BY DEF Turns, PumpTypes
<1>4. \A q \in Pumps : Live(q)' => Live(q)
  BY <1>2 DEF Live
<1>5. One' /\ Gens'
  BY <1>4 DEF Turns, One, Gens
<1>6. Handles' /\ Runs'
  BY <1>2, <1>3 DEF Turns, Handles, Runs
<1>7. Owned'
  BY <1>2, <1>3, <1>4 DEF Turns, Owned
<1> QED BY <1>1, <1>5, <1>6, <1>7 DEF Turns

\* The pumps as they were, and the session ended or not.
LEMMA PumpsStay ==
  ASSUME Turns, UNCHANGED <<pc, own, handle>>, fg' \in BOOLEAN,
         (running' = running /\ gen' = gen) \/ StopSession,
         StopSession => \A p \in Pumps : pc[p] \notin {"open", "link", "rate", "kick"}
  PROVE  Turns'
<1>1. CASE running' = running /\ gen' = gen
  BY <1>1 DEF Turns, PumpTypes, Live, One, Handles, Gens, Owned, Runs
<1>2. CASE StopSession
  <2>1. gen' = gen + 1 /\ running' = FALSE /\ gen \in Nat
    BY <1>2 DEF StopSession, Turns, PumpTypes
  <2>2. \A p \in Pumps : own[p] \in Nat /\ own[p] <= gen
    BY DEF Turns, PumpTypes, Gens
  <2>3. \A p \in Pumps : Live(p)' => Live(p)
    BY <2>1, <2>2 DEF Live
  <2>4. One'
    BY <2>3 DEF Turns, One
  <2>5. PumpTypes'
    <3>1. running' \in BOOLEAN
      BY <2>1, Zenon
    <3>2. gen' \in Nat
      BY <2>1
    <3> QED BY <3>1, <3>2 DEF Turns, PumpTypes
  <2>8. Handles'
    BY DEF Turns, Handles
  <2>7. Gens'
    BY <2>1, <2>2 DEF Gens
  <2>6. Owned' /\ Runs'
    BY <1>2, <2>1 DEF Owned, Runs
  <2> QED BY <2>4, <2>5, <2>6, <2>7, <2>8 DEF Turns
<1> QED BY <1>1, <1>2

LEMMA PumpTurns ==
  ASSUME Turns, NEW p \in Pumps, Pump(p)
  PROVE  Turns'
<1>0. /\ pc \in [Pumps -> States] /\ own \in [Pumps -> Nat] /\ handle \in [Pumps -> BOOLEAN]
      /\ gen \in Nat
      /\ (pc[p] \in Opened => handle[p]) /\ (handle[p] => pc[p] \in Opened \cup {"loop", "close"})
      /\ pc[p] \in {"open", "link", "rate", "kick"} => running
  BY DEF Turns, PumpTypes, Handles, Runs
\* a move of the pump that leaves the session and its capture alone
<1>1. ASSUME NEW f, NEW t, Goto(p, f, t), f \in States, t \in States,
             UNCHANGED <<own, gen, handle, running, fg>>,
             f \notin {"none", "born", "close"}, t # "born",
             f = "loop" => IF Mine(p) THEN TRUE ELSE t = "close",
             t = "loop" => f # "loop",
             t \in Opened => handle[p], handle[p] => t \in Opened \cup {"loop", "close"},
             t \in {"open", "link", "rate", "kick"} => running
      PROVE  Turns'
  <2>1. pc[p] = f /\ pc' = [pc EXCEPT ![p] = t] /\ pc'[p] = t
    BY <1>0, <1>1 DEF Goto
  <2>2. Live(p)' => Live(p)
    BY <2>1, <1>1 DEF Live, Mine
  <2>3. handle' \in [Pumps -> BOOLEAN] /\ \A q \in Pumps \ {p} : handle'[q] = handle[q]
    BY <1>0, <1>1
  <2>4. handle'[p] = handle[p]
    BY <1>1
  <2> QED BY <1>1, <2>1, <2>2, <2>3, <2>4, OnePumpMoves
<1>2. ASSUME PumpBorn(p)
      PROVE  Turns'
  <2>1. pc[p] = "born" /\ pc' = [pc EXCEPT ![p] = "loop"] /\ own' = [own EXCEPT ![p] = gen]
        /\ UNCHANGED <<gen, handle, running, fg>>
    BY <1>2 DEF PumpBorn, Goto, sessionVars
  <2>2. PumpTypes' /\ Gens'
    BY <2>1, <1>0 DEF Turns, PumpTypes, Gens, States
  <2>3. \A q \in Pumps : Live(q)' => Live(q)
    BY <2>1, <1>0 DEF Live
  <2>4. One' /\ Owned'
    BY <2>1, <2>3, <1>0 DEF Turns, One, Owned
  <2>5. Handles' /\ Runs'
    BY <2>1, <1>0 DEF Turns, Handles, Runs, Opened
  <2> QED BY <2>2, <2>4, <2>5 DEF Turns
<1>3. ASSUME PumpLoop(p)
      PROVE  Turns'
  <2>1. /\ pc[p] = "loop" /\ UNCHANGED <<own, gen, handle, running, fg>>
        /\ Goto(p, "loop", IF ~Mine(p) THEN "close" ELSE IF handle[p] THEN "read" ELSE "open")
    BY <1>3 DEF PumpLoop, Goto, sessionVars
  <2>2. CASE ~Mine(p)
    BY <2>1, <2>2, <1>1 DEF States, Opened
  <2>3. CASE Mine(p) /\ handle[p]
    BY <2>1, <2>3, <1>1 DEF States, Opened
  <2>4. CASE Mine(p) /\ ~handle[p]
    BY <2>1, <2>4, <1>1 DEF States, Opened, Mine
  <2> QED BY <2>2, <2>3, <2>4
<1>4. ASSUME PumpOpenFails(p) \/ PumpLost(p)
      PROVE  Turns'
  <2>1. CASE PumpOpenFails(p)
    BY <2>1, <1>0, <1>1 DEF PumpOpenFails, Goto, States, Opened
  <2>2. CASE PumpLost(p)
    <3>1. LostNext \in {"loop", "stop"}
      BY DEF LostNext
    <3> QED BY <2>2, <3>1, <1>0, <1>1 DEF PumpLost, Goto, States, Opened, sessionVars
  <2> QED BY <1>4, <2>1, <2>2
<1>5. ASSUME PumpOpens(p)
      PROVE  Turns'
  <2>1. /\ pc[p] = "open" /\ pc' = [pc EXCEPT ![p] = "link"] /\ handle' = [handle EXCEPT ![p] = TRUE]
        /\ UNCHANGED <<own, gen, running, fg>>
    BY <1>5 DEF PumpOpens, Goto, sessionVars
  <2>2. handle' \in [Pumps -> BOOLEAN] /\ handle'[p] /\ \A q \in Pumps \ {p} : handle'[q] = handle[q]
    BY <2>1, <1>0
  <2>3. Live(p)
    BY <2>1 DEF Live
  <2> QED BY <2>1, <2>2, <2>3, <1>0, OnePumpMoves DEF States, Opened
<1>6. ASSUME PumpLink(p) \/ PumpRate(p) \/ PumpKick(p) \/ PumpLinked(p)
      PROVE  Turns'
  <2>1. /\ UNCHANGED <<own, gen, handle, running, fg>>
        /\ \/ Goto(p, "link", "rate") \/ Goto(p, "rate", "linked") \/ Goto(p, "rate", "kick")
           \/ Goto(p, "kick", "linked") \/ Goto(p, "linked", "read")
    BY <1>6 DEF PumpLink, PumpRate, PumpKick, PumpLinked, sessionVars
  <2> QED BY <2>1, <1>0, <1>1 DEF Goto, States, Opened
<1>7. ASSUME PumpRead(p) \/ PumpDrop(p) \/ PumpPut(p)
      PROVE  Turns'
  <2>1. /\ UNCHANGED <<own, gen, handle, running, fg>>
        /\ \/ Goto(p, "read", "drop") \/ Goto(p, "read", "loop") \/ Goto(p, "drop", "put")
           \/ Goto(p, "put", "loop")
    BY <1>7 DEF PumpRead, PumpDrop, PumpPut, sessionVars
  <2> QED BY <2>1, <1>0, <1>1 DEF Goto, States, Opened
<1>8. ASSUME PumpReadFails(p)
      PROVE  Turns'
  <2>1. /\ pc[p] = "read" /\ pc' = [pc EXCEPT ![p] = "lost"] /\ handle' = [handle EXCEPT ![p] = FALSE]
        /\ UNCHANGED <<own, gen, running, fg>>
    BY <1>8 DEF PumpReadFails, Goto
  <2>2. handle' \in [Pumps -> BOOLEAN] /\ ~handle'[p] /\ \A q \in Pumps \ {p} : handle'[q] = handle[q]
    BY <2>1, <1>0
  <2>3. Live(p)
    BY <2>1 DEF Live
  <2> QED BY <2>1, <2>2, <2>3, <1>0, OnePumpMoves DEF States, Opened
<1>9. ASSUME PumpStop(p)
      PROVE  Turns'
  <2>1. CASE ~running
    BY <2>1, <1>9, <1>0, <1>1 DEF PumpStop, Goto, States, Opened
  <2>2. CASE running
    <3>1. /\ pc[p] = "stop" /\ pc' = [pc EXCEPT ![p] = "stopChannel"] /\ gen' = gen + 1
          /\ running' = FALSE /\ UNCHANGED <<own, handle, fg>> /\ Live(p)
      BY <2>2, <1>9 DEF PumpStop, Goto, StopSession, Live
    <3>2. \A q \in Pumps : own[q] <= gen /\ own[q] \in Nat
      BY <1>0 DEF Turns, Gens
    <3>3. \A q \in Pumps : Live(q)' => Live(q)
      BY <3>1, <3>2, <1>0 DEF Live
    <3>4. One' /\ Gens'
      BY <3>1, <3>2, <3>3, <1>0 DEF Turns, One, Gens
    <3>5. Handles'
      BY <3>1, <1>0 DEF Turns, Handles, Opened
    <3>6. Owned'
      BY <3>1 DEF Owned
    <3>7. Runs'
      BY <3>1, <1>0 DEF Turns, One, Live, Runs
    <3>8. running' \in BOOLEAN
      BY <3>1, Zenon
    <3>9. PumpTypes'
      BY <3>1, <3>8, <1>0 DEF Turns, PumpTypes, States
    <3> QED BY <3>4, <3>5, <3>6, <3>7, <3>9 DEF Turns
  <2> QED BY <2>1, <2>2
<1>10. ASSUME PumpStopped(p)
       PROVE  Turns'
  BY <1>10, <1>0, <1>1 DEF PumpStopped, Goto, States, Opened, sessionVars
<1>11. ASSUME PumpClose(p)
       PROVE  Turns'
  <2>1. /\ pc[p] = "close" /\ pc' = [pc EXCEPT ![p] = "none"] /\ handle' = [handle EXCEPT ![p] = FALSE]
        /\ own' = [own EXCEPT ![p] = 0] /\ UNCHANGED <<gen, running, fg>>
    BY <1>11 DEF PumpClose, Goto, sessionVars
  <2>2. \A q \in Pumps : Live(q)' => Live(q) /\ q # p
    BY <2>1, <1>0 DEF Live
  <2>3. One' /\ Owned' /\ Runs'
    BY <2>1, <2>2, <1>0 DEF Turns, One, Owned, Runs
  <2>4. Gens'
    BY <2>1, <1>0 DEF Turns, Gens
  <2>5. PumpTypes' /\ Handles'
    BY <2>1, <1>0 DEF Turns, PumpTypes, Handles, States, Opened
  <2> QED BY <2>3, <2>4, <2>5 DEF Turns
<1> QED
  BY <1>2, <1>3, <1>4, <1>5, <1>6, <1>7, <1>8, <1>9, <1>10, <1>11 DEF Pump

LEMMA TurnsStep == Patient /\ Turns /\ [Next]_vars => Turns'
<1> SUFFICES ASSUME Patient, Turns, [Next]_vars
             PROVE  Turns'
  OBVIOUS
<1>1. CASE \E p \in Pumps : Pump(p)
  BY <1>1, PumpTurns
<1>2. CASE UiStart
  <2>1. PICK p \in Pumps : pc[p] = "none" /\ pc' = [pc EXCEPT ![p] = "born"]
    BY <1>2, StartsOne
  <2>2. /\ gen' = gen + 1 /\ running' = TRUE /\ UNCHANGED <<own, handle, fg>>
        /\ \A q \in Pumps : pc[q] = "none" \/ (pc[q] \in {"loop", "close"} /\ ~handle[q])
    BY <1>2 DEF UiStart, NoLeftOver
  <2>3. /\ pc \in [Pumps -> States] /\ own \in [Pumps -> Nat] /\ gen \in Nat
        /\ \A q \in Pumps : own[q] <= gen /\ (handle[q] => pc[q] \in Opened \cup {"loop", "close"})
    BY DEF Turns, PumpTypes, Gens, Handles
  <2>4. \A q \in Pumps : Live(q)' => q = p
    BY <2>1, <2>2, <2>3 DEF Live, Opened
  <2>5. One' /\ Owned'
    BY <2>1, <2>3, <2>4 DEF One, Owned
  <2>6. Gens' /\ Runs'
    BY <2>1, <2>2, <2>3 DEF Gens, Runs
  <2>7. Handles'
    BY <2>1, <2>2, <2>3 DEF Turns, Handles, Opened
  <2>8. running' \in BOOLEAN
    BY <2>2, Zenon
  <2>9. PumpTypes'
    BY <2>1, <2>2, <2>3, <2>8 DEF Turns, PumpTypes, States
  <2> QED BY <2>5, <2>6, <2>7, <2>9 DEF Turns
<1>3. CASE UiStop
  <2>1. StopSession /\ UNCHANGED <<pc, own, handle>> /\ fg' = FALSE
        /\ \A p \in Pumps : pc[p] \notin {"open", "link", "rate", "kick"}
    BY <1>3 DEF UiStop, UserMayAct, pumpVars
  <2>2. fg' \in BOOLEAN
    BY <2>1, Zenon
  <2> QED BY <2>1, <2>2, PumpsStay
<1>4. ASSUME UNCHANGED <<running, gen, pc, own, handle>>, fg' = fg \/ fg' = TRUE \/ fg' = FALSE
      PROVE  Turns'
  <2>1. fg' \in BOOLEAN
    BY <1>4, Zenon DEF Turns, PumpTypes
  <2>2. ~StopSession
    BY <1>4 DEF StopSession, Turns, PumpTypes
  <2> QED BY <1>4, <2>1, <2>2, PumpsStay
<1>5. CASE UiOpen \/ UiRefused \/ UiLeave
  BY <1>4, <1>5 DEF UiOpen, UiRefused, UiLeave, pumpVars
<1>6. CASE UiEnter \/ UiPlay \/ UiStopped \/ GmLoad \/ GmStore \/ UNCHANGED vars
  BY <1>4, <1>6 DEF UiEnter, UiPlay, UiStopped, GmLoad, GmStore, vars, pumpVars, sessionVars
<1> QED BY <1>1, <1>2, <1>3, <1>5, <1>6 DEF Next, Ui

-----------------------------------------------------------------------------
\* The session, its channel and the configuration of its capture.

LEMMA PumpSession ==
  ASSUME Turns, Turns', Session, NEW p \in Pumps, Pump(p)
  PROVE  Session'
<1>0. /\ pc \in [Pumps -> States] /\ handle \in [Pumps -> BOOLEAN]
      /\ (pc[p] \in Opened => handle[p]) /\ (handle[p] => pc[p] \in Opened \cup {"loop", "close"})
      /\ pc[p] \in {"open", "link", "rate", "kick"} => running
  BY DEF Turns, PumpTypes, Handles, Runs
<1>1. \A q \in Pumps : q # p /\ Live(p) => ~handle[q] /\ pc[q] \notin {"stop", "stopChannel"}
  BY DEF Turns, One, Live
\* the move of a pump that leaves the channel and the configuration alone
<1>2. ASSUME NEW f, NEW t, Goto(p, f, t), t \notin {"stop", "stopChannel"},
             f # "stopChannel", UNCHANGED <<running, fg, ui, gm, channel, cfg, handle>>
      PROVE  Session'
  <2>1. \A q \in Pumps : /\ pc'[q] \in {"stop", "stopChannel"} => pc[q] = pc'[q]
                         /\ pc[q] = "stopChannel" => pc'[q] = "stopChannel"
    BY <1>0, <1>2 DEF Goto
  <2>2. Front' /\ Copying'
    BY <2>1, <1>2 DEF Session, Front, Copying
  <2>3. StopSilences' /\ ConfigKept'
    BY <2>1, <1>2 DEF Session, StopSilences, ConfigKept
  <2> QED BY <2>2, <2>3 DEF Session
<1>3. ASSUME PumpBorn(p) \/ PumpLoop(p)
      PROVE  Session'
  <2>1. UNCHANGED <<running, fg, ui, gm, channel, cfg, handle>>
    BY <1>3 DEF PumpBorn, PumpLoop, sessionVars
  <2>2. \E f \in {"born", "loop"}, t \in {"loop", "close", "read", "open"} : Goto(p, f, t)
    BY <1>3 DEF PumpBorn, PumpLoop
  <2> QED BY <2>1, <2>2, <1>2
<1>4. ASSUME PumpLink(p) \/ PumpRate(p) \/ PumpLinked(p) \/ PumpRead(p) \/ PumpDrop(p) \/ PumpPut(p)
      PROVE  Session'
  <2>1. UNCHANGED <<running, fg, ui, gm, channel, cfg, handle>>
    BY <1>4 DEF PumpLink, PumpRate, PumpLinked, PumpRead, PumpDrop, PumpPut, sessionVars
  <2>2. \E f \in {"link", "rate", "linked", "read", "drop", "put"},
           t \in {"rate", "kick", "linked", "read", "drop", "put", "loop"} : Goto(p, f, t)
    BY <1>4 DEF PumpLink, PumpRate, PumpLinked, PumpRead, PumpDrop, PumpPut
  <2> QED BY <2>1, <2>2, <1>2
<1>5. ASSUME PumpLost(p)
      PROVE  Session'
  <2>1. UNCHANGED <<running, fg, ui, gm, channel, cfg, handle>> /\ pc[p] = "lost"
        /\ pc' = [pc EXCEPT ![p] = LostNext]
    BY <1>5 DEF PumpLost, Goto, sessionVars
  <2>2. \A q \in Pumps : pc[q] = "stopChannel" => pc'[q] = "stopChannel"
    BY <2>1, <1>0
  <2>3. StopSilences' /\ ConfigKept' /\ Copying'
    BY <2>1, <2>2 DEF Session, StopSilences, ConfigKept, Copying
  <2>4. \A q \in Pumps : fg /\ pc'[q] \in {"stop", "stopChannel"} => pc[q] = pc'[q]
    BY <2>1, <1>0 DEF LostNext
  <2>5. Front'
    BY <2>1, <2>4 DEF Session, Front
  <2> QED BY <2>3, <2>5 DEF Session
<1>6. ASSUME PumpOpenFails(p) \/ PumpOpens(p) \/ PumpReadFails(p) \/ PumpClose(p)
      PROVE  Session'
  <2>1. /\ UNCHANGED <<running, fg, ui, gm, channel>>
        /\ \E f \in {"open", "read", "close"}, t \in {"lost", "link", "none"} : Goto(p, f, t)
    BY <1>6 DEF PumpOpenFails, PumpOpens, PumpReadFails, PumpClose, sessionVars
  <2>2. \A q \in Pumps : /\ pc'[q] \in {"stop", "stopChannel"} => pc[q] = pc'[q]
                         /\ pc[q] = "stopChannel" => pc'[q] = "stopChannel"
    BY <2>1, <1>0 DEF Goto
  <2>3. Front' /\ Copying'
    BY <2>1, <2>2 DEF Session, Front, Copying
  <2>4. StopSilences'
    BY <2>1, <2>2 DEF Session, StopSilences
  <2>5. ConfigKept'
    <3>1. CASE PumpOpenFails(p)
      <4>1. Live(p) /\ ~handle[p] /\ handle' = handle
        BY <3>1, <1>0 DEF PumpOpenFails, Goto, Live, Opened
      <4> QED BY <4>1, <1>1 DEF ConfigKept
    <3>2. CASE PumpOpens(p)
      <4>1. Live(p) /\ handle' = [handle EXCEPT ![p] = TRUE] /\ cfg' = p
        BY <3>2 DEF PumpOpens, Goto, Live
      <4> QED BY <4>1, <1>0, <1>1 DEF ConfigKept
    <3>3. CASE PumpReadFails(p)
      <4>1. Live(p) /\ handle' = [handle EXCEPT ![p] = FALSE]
        BY <3>3 DEF PumpReadFails, Goto, Live
      <4> QED BY <4>1, <1>0, <1>1 DEF ConfigKept
    <3>4. CASE PumpClose(p)
      <4>1. handle' = [handle EXCEPT ![p] = FALSE] /\ cfg' = IF handle[p] THEN Nobody ELSE cfg
        BY <3>4 DEF PumpClose
      <4>2. CASE handle[p]
        BY <4>1, <4>2, <1>0, <1>1 DEF ConfigKept, Live
      <4>3. CASE ~handle[p]
        BY <4>1, <4>3, <1>0 DEF ConfigKept, Session
      <4> QED BY <4>2, <4>3
    <3> QED BY <1>6, <3>1, <3>2, <3>3, <3>4
  <2> QED BY <2>3, <2>4, <2>5 DEF Session
<1>7. ASSUME PumpKick(p)
      PROVE  Session'
  <2>1. /\ channel' = TRUE /\ running /\ UNCHANGED <<running, fg, ui, gm, cfg, handle>>
        /\ pc' = [pc EXCEPT ![p] = "linked"]
    BY <1>7, <1>0 DEF PumpKick, Goto, sessionVars
  <2>2. \A q \in Pumps : pc'[q] \in {"stop", "stopChannel"} => pc[q] = pc'[q]
    BY <2>1, <1>0
  <2> QED BY <2>1, <2>2 DEF Session, Front, Copying, StopSilences, ConfigKept
<1>8. ASSUME PumpStop(p)
      PROVE  Session'
  <2>1. /\ pc[p] = "stop" /\ UNCHANGED <<fg, ui, gm, channel, cfg, handle>>
        /\ \/ running /\ ~running' /\ pc' = [pc EXCEPT ![p] = "stopChannel"]
           \/ ~running /\ ~running' /\ pc' = [pc EXCEPT ![p] = "close"]
    BY <1>8 DEF PumpStop, Goto, StopSession
  <2>2. ui # "play"
    BY <2>1 DEF Session, Front
  <2>3. Front' /\ Copying' /\ ConfigKept'
    BY <2>1, <2>2 DEF Session, Front, Copying, ConfigKept
  <2>4. \A q \in Pumps : pc[q] = "stopChannel" => pc'[q] = "stopChannel"
    BY <2>1, <1>0
  <2>5. StopSilences'
    BY <2>1, <2>4, <1>0 DEF Session, StopSilences
  <2> QED BY <2>3, <2>5 DEF Session
<1>9. ASSUME PumpStopped(p)
      PROVE  Session'
  <2>1. /\ pc[p] = "stopChannel" /\ channel' = FALSE /\ gm.at = "idle"
        /\ UNCHANGED <<running, fg, ui, gm, cfg, handle>>
    BY <1>9 DEF PumpStopped, Goto, StopChannel, sessionVars
  <2>2. ui # "play"
    BY <2>1 DEF Session, Front
  <2> QED BY <2>1, <2>2 DEF Session, Front, Copying, StopSilences, ConfigKept
<1> QED
  BY <1>3, <1>4, <1>5, <1>6, <1>7, <1>8, <1>9 DEF Pump

LEMMA SessionStep == Patient /\ Turns /\ Turns' /\ Session /\ [Next]_vars => Session'
<1> SUFFICES ASSUME Patient, Turns, Turns', Session, [Next]_vars
             PROVE  Session'
  OBVIOUS
<1>1. CASE \E p \in Pumps : Pump(p)
  BY <1>1, PumpSession
<1>2. CASE UiStart
  <2>1. PICK p \in Pumps : pc[p] = "none" /\ pc' = [pc EXCEPT ![p] = "born"]
    BY <1>2, StartsOne
  <2>2. /\ ui = "opening" /\ ui' = "play" /\ running' = TRUE
        /\ UNCHANGED <<fg, gm, channel, cfg, handle>>
        /\ \A q \in Pumps : pc[q] \notin {"stop", "stopChannel"}
    BY <1>2 DEF UiStart, NoLeftOver
  <2>3. \A q \in Pumps : pc'[q] \notin {"stop", "stopChannel"}
    BY <2>1, <2>2 DEF Turns, PumpTypes
  <2> QED BY <2>2, <2>3 DEF Session, Front, Copying, StopSilences, ConfigKept
<1>3. CASE UiOpen \/ UiEnter \/ UiRefused \/ UiLeave
  <2>1. /\ UNCHANGED <<running, pc, gm, channel, cfg, handle>>
        /\ ui # "stop" /\ ui' \notin {"stop", "play"} /\ (ui' = "opening" => fg')
    BY <1>3 DEF UiOpen, UiEnter, UiRefused, UiLeave, pumpVars, sessionVars
  <2> QED BY <2>1 DEF Session, Front, Copying, StopSilences, ConfigKept
<1>4. CASE UiPlay
  <2>1. /\ ui = "play" /\ ui' = "screen" /\ channel' = TRUE
        /\ UNCHANGED <<running, fg, pc, gm, cfg, handle>>
    BY <1>4 DEF UiPlay, pumpVars, sessionVars
  <2> QED BY <2>1 DEF Session, Front, Copying, StopSilences, ConfigKept
<1>5. CASE UiStop
  <2>1. ui' = "stop" /\ UNCHANGED <<gm, channel, cfg, handle>>
    BY <1>5 DEF UiStop, pumpVars
  <2> QED BY <2>1 DEF Session, Front, Copying, StopSilences, ConfigKept
<1>6. CASE UiStopped
  <2>1. ui' = "menu" /\ channel' = FALSE /\ gm.at = "idle" /\ UNCHANGED <<gm, cfg, handle>>
    BY <1>6 DEF UiStopped, StopChannel, pumpVars
  <2> QED BY <2>1 DEF Session, Front, Copying, StopSilences, ConfigKept
<1>7. CASE GmLoad \/ GmStore \/ UNCHANGED vars
  <2>1. /\ UNCHANGED <<running, fg, ui, pc, channel, cfg, handle>>
        /\ gm'.at = "copy" => channel \/ gm' = gm
    BY <1>7 DEF GmLoad, GmStore, Idle, vars, pumpVars, sessionVars
  <2> QED BY <2>1 DEF Session, Front, Copying, StopSilences, ConfigKept
<1> QED BY <1>1, <1>2, <1>3, <1>4, <1>5, <1>6, <1>7 DEF Next, Ui

-----------------------------------------------------------------------------
\* The ring: how far it is filled, and with which frames.

RingTypes ==
  /\ head \in Counter /\ tail \in Counter /\ ring \in [Place -> 0 .. MaxMade]
  /\ frames \in [Pumps -> 0 .. Chunk]
  /\ gm \in [at : {"idle", "copy"}, tail : Counter, n : 0 .. Chunk]
  /\ made \in 0 .. MaxMade /\ since \in 0 .. MaxMade /\ last \in 0 .. MaxMade
Level ==
  /\ Fill <= Ring
  /\ \A p \in Pumps : pc[p] = "put" => Fill <= Ring - Chunk
  /\ gm.at = "copy" => gm.tail = tail /\ gm.n <= Fill
Coming == \A p \in Pumps : pc[p] \in {"drop", "put"} => made + frames[p] <= MaxMade
Newest == \A j \in 0 .. Fill - 1 : ring[(tail + j) % Ring] = (made - Fill) + 1 + j
Later == made - Fill >= last /\ made - Fill >= since
RingInv == RingTypes /\ Level /\ Coming /\ Newest /\ Later

LEMMA RingInit == Init => RingInv
<1> SUFFICES ASSUME Init PROVE RingInv
  OBVIOUS
<1>1. RingTypes
  BY Sizes DEF Init, RingTypes, Counter, Place, Idle
<1>2. Fill = 0
  BY Sizes, ModLow DEF Init, Fill
<1>3. Level /\ Coming
  BY <1>2, Sizes DEF Init, Level, Coming, Idle
<1>4. Newest /\ Later
  BY <1>2 DEF Init, Newest, Later
<1> QED BY <1>1, <1>3, <1>4 DEF RingInv

LEMMA FillType == RingTypes => Fill \in Nat /\ Fill = FillOf(head, tail)
BY FillIs DEF RingTypes, Fill, FillOf, Counter

\* Nothing of the ring changes, and no pump comes to it.
LEMMA RingStays ==
  ASSUME RingInv, UNCHANGED <<head, tail, ring, frames, gm, made, since, last>>,
         \A p \in Pumps : pc'[p] \in {"drop", "put"} => pc[p] = pc'[p]
  PROVE  RingInv'
<1>1. Fill' = Fill
  BY DEF Fill
<1>2. RingTypes' /\ Coming'
  BY DEF RingInv, RingTypes, Coming
<1>3. Level'
  BY <1>1 DEF RingInv, Level
<1>4. Newest' /\ Later'
  BY <1>1 DEF RingInv, Newest, Later
<1> QED BY <1>2, <1>3, <1>4 DEF RingInv

\* The ring is emptied.
LEMMA RingEmptied ==
  ASSUME RingInv, head' = tail', tail' \in Counter, UNCHANGED <<ring, frames, gm, made, last>>,
         since' = since \/ since' = made, gm.at # "copy",
         \A p \in Pumps : pc'[p] \in {"drop", "put"} => pc[p] = pc'[p]
  PROVE  RingInv'
<1>1. Fill' = 0
  BY FillSame DEF Fill, FillOf
<1>2. made \in Nat /\ last \in Nat /\ since \in Nat /\ made - Fill >= last /\ made - Fill >= since
      /\ Fill \in Nat
  BY FillType DEF RingInv, RingTypes, Later
<1>3. RingTypes' /\ Coming'
  BY DEF RingInv, RingTypes, Coming
<1>4. Level'
  BY <1>1, Sizes DEF Level
<1>5. Newest' /\ Later'
  BY <1>1, <1>2 DEF Newest, Later
<1> QED BY <1>3, <1>4, <1>5 DEF RingInv

\* The tail moves over n frames of the ring.
LEMMA TailMoves ==
  ASSUME RingInv, NEW n \in Nat, n <= Fill, tail' = (tail + n) % Wrap,
         UNCHANGED <<head, ring, made>>
  PROVE  tail' \in Counter /\ Fill' = Fill - n /\ Newest'
<1>0. tail \in Counter /\ head \in Counter /\ made \in 0 .. MaxMade
  BY DEF RingInv, RingTypes
<1>a. Fill = FillOf(head, tail) /\ Fill \in Counter
  BY <1>0, FillIs DEF Fill, FillOf
<1>b. n \in 0 .. Wrap - 1 /\ made \in Int
  BY <1>0, <1>a, Sizes DEF Counter
<1>1. tail \in Counter /\ head \in Counter /\ Fill = FillOf(head, tail) /\ Fill \in Counter
      /\ n \in 0 .. Wrap - 1 /\ made \in Int
  BY <1>0, <1>a, <1>b
<1>2. tail' \in Counter /\ Fill' = Fill - n
  BY <1>1, FillTake DEF Fill, FillOf
<1>3. Newest'
  <2> SUFFICES ASSUME NEW j \in 0 .. (Fill - n) - 1
               PROVE  ring[(((tail + n) % Wrap) + j) % Ring] = (made - (Fill - n)) + 1 + j
    BY <1>2 DEF Newest
  <2>1. (((tail + n) % Wrap) + j) % Ring = ((tail + n) + j) % Ring
    BY <1>1, PlaceMoved
  <2>2. (tail + n) + j = tail + (n + j) /\ n + j \in 0 .. Fill - 1
    BY <1>1 DEF Counter
  <2>3. ring[(tail + (n + j)) % Ring] = (made - Fill) + 1 + (n + j)
    BY <2>2 DEF RingInv, Newest
  <2> QED BY <2>1, <2>2, <2>3, <1>1 DEF Counter
<1> QED BY <1>2, <1>3

\* A frame that was there lies n places or more behind the head, a new one less.
LEMMA OldOrNew ==
  ASSUME NEW f \in Nat, NEW n \in Nat, NEW j \in 0 .. (f + n) - 1, n <= Chunk, f <= Ring - Chunk
  PROVE  /\ j < f => (j - f) + Ring \in Place /\ (j - f) + Ring >= n
         /\ ~(j < f) => j - f \in Place /\ j - f < n
BY Sizes DEF Place

\* The frames of a read are put behind what is there.
LEMMA FramesPut ==
  ASSUME RingInv, NEW p \in Pumps, PumpPut(p), pc[p] = "put"
  PROVE  /\ head' \in Counter /\ Fill' = Fill + frames[p] /\ Newest' /\ made' = made + frames[p]
         /\ ring' \in [Place -> 0 .. MaxMade] /\ made + frames[p] <= MaxMade
         /\ Fill + frames[p] <= Ring
<1> DEFINE n == frames[p]
<1>0. /\ n \in Nat /\ n <= Chunk /\ made + n <= MaxMade /\ made \in Nat /\ MaxMade \in Nat
      /\ head \in Counter /\ tail \in Counter /\ Fill \in Nat /\ Fill = FillOf(head, tail)
      /\ Fill <= Ring - Chunk /\ ring \in [Place -> 0 .. MaxMade] /\ tail' = tail
  BY FillType, Sizes DEF RingInv, RingTypes, Level, Coming, PumpPut
<1>1. Fill + n <= Ring /\ Fill + n < Wrap
  BY <1>0, Sizes
<1>2. head' = (head + n) % Wrap /\ made' = made + n
  BY DEF PumpPut
<1>3. head' \in Counter /\ Fill' = Fill + n
  BY <1>0, <1>1, <1>2, FillPut DEF Fill, FillOf
<1>4. \A i \in Place : /\ (i - head) % Ring \in Place
                       /\ ring'[i] = IF (i - head) % Ring < n THEN made + ((i - head) % Ring) + 1
                                     ELSE ring[i]
  <2> TAKE i \in Place
  <2>1. i - head \in Int
    BY <1>0, Sizes DEF Place, Counter
  <2>2. (i - head) % Ring \in Place
    BY <2>1, PlaceOf
  <2>3. ring' = [k \in Place |-> LET m == (k - head) % Ring IN IF m < n THEN made + m + 1 ELSE ring[k]]
    BY DEF PumpPut, Place
  <2> QED BY <2>2, <2>3
<1>5. ring' \in [Place -> 0 .. MaxMade]
  <2>1. \A i \in Place : ring'[i] \in 0 .. MaxMade
    <3> TAKE i \in Place
    <3> DEFINE m == (i - head) % Ring
    <3>1. m \in Place /\ ring'[i] = IF m < n THEN made + m + 1 ELSE ring[i]
      BY <1>4
    <3> HIDE DEF m
    <3>2. CASE m < n
      <4>1. made + m + 1 \in 0 .. MaxMade
        BY <3>1, <3>2, <1>0, Sizes DEF Place
      <4> QED BY <3>1, <3>2, <4>1
    <3>3. CASE ~(m < n)
      BY <3>1, <3>3, <1>0
    <3> QED BY <3>2, <3>3
  <2>2. ring' = [i \in Place |-> ring'[i]]
    BY DEF PumpPut, Place
  <2> QED BY <2>1, <2>2
<1>6. Newest'
  <2> SUFFICES ASSUME NEW j \in 0 .. (Fill + n) - 1
               PROVE  ring'[(tail + j) % Ring] = ((made + n) - (Fill + n)) + 1 + j
    BY <1>0, <1>2, <1>3 DEF Newest
  <2> DEFINE i == (tail + j) % Ring
             m == (i - head) % Ring
  <2>0. j \in Int /\ tail + j \in Int /\ j - Fill \in Int
    BY <1>0, Sizes DEF Counter
  <2>1. j \in Int /\ tail + j \in Int /\ j - Fill \in Int /\ i \in Place
    BY <2>0, PlaceOf
  <2>2. m = (j - Fill) % Ring
    BY <1>0, <2>1, FromHead
  <2>3. ring'[i] = IF m < n THEN made + m + 1 ELSE ring[i]
    BY <2>1, <1>4
  <2> HIDE DEF i, m
  <2>4. CASE j < Fill
    <3> DEFINE back == (j - Fill) + Ring
    <3>0. (-1) * Ring = 0 - Ring
      BY Sizes
    <3>1. back \in Place /\ back >= n
      BY <2>4, <1>0, OldOrNew
    <3>a. j - Fill = (-1) * Ring + back
      BY <3>0, <2>1, <1>0, Sizes
    <3> HIDE DEF back
    <3>2. m = back
      BY <2>1, <2>2, <3>1, <3>a, Unique
    <3>b. back \in Int /\ n \in Int
      BY <3>1, <1>0, Sizes DEF Place
    <3>c. ~(m < n)
      BY <3>1, <3>2, <3>b
    <3>3. ring'[i] = ring[i]
      BY <2>3, <3>c
    <3>4. j \in 0 .. Fill - 1
      BY <2>4, <1>0
    <3>5. ring[i] = (made - Fill) + 1 + j
      BY <3>4 DEF RingInv, Newest, i
    <3> QED BY <3>3, <3>5, <1>0 DEF i
  <2>5. CASE ~(j < Fill)
    <3>0. 0 * Ring = 0
      BY Sizes
    <3>1. j - Fill \in Place /\ j - Fill < n
      BY <2>5, <1>0, OldOrNew
    <3>a. j - Fill = 0 * Ring + (j - Fill)
      BY <3>0, <2>1
    <3>2. m = j - Fill
      BY <2>1, <2>2, <3>1, <3>a, Unique
    <3>3. ring'[i] = made + (j - Fill) + 1
      BY <2>3, <3>1, <3>2
    <3> QED BY <3>3, <1>0, <2>1 DEF i
  <2> QED BY <2>4, <2>5
<1> QED BY <1>0, <1>1, <1>2, <1>3, <1>5, <1>6

\* The pump makes room, or finds it.
LEMMA RoomMade ==
  ASSUME Prompt, Turns, RingInv, NEW p \in Pumps, PumpDrop(p)
  PROVE  RingInv'
<1> DEFINE n == IF DropsChunk THEN Chunk ELSE 0
<1>1. /\ pc[p] = "drop" /\ pc' = [pc EXCEPT ![p] = "put"] /\ gm.at = "idle"
      /\ UNCHANGED <<head, ring, frames, gm, made, since, last>>
  BY DEF PumpDrop, Goto, MayTouchRing, ghosts
<1>2. pc \in [Pumps -> States] /\ \A q \in Pumps : pc[q] \in {"drop", "put"} => q = p
  BY <1>1 DEF Turns, PumpTypes, One, Live
<1>3. \A q \in Pumps : pc'[q] \in {"drop", "put"} => q = p
  BY <1>1, <1>2
<1>4. Fill \in Nat /\ Fill <= Ring /\ tail \in Counter
  BY FillType DEF RingInv, RingTypes, Level
<1>5. n \in Nat /\ n <= Fill /\ Fill - n <= Ring - Chunk
  BY <1>4, Sizes DEF DropsChunk
<1>6. tail' = (tail + n) % Wrap
  <2>1. CASE DropsChunk
    BY <2>1 DEF PumpDrop
  <2>2. CASE ~DropsChunk
    <3>1. tail + 0 = tail /\ tail % Wrap = tail
      BY <1>4, ModLow, Sizes DEF Counter
    <3> QED BY <2>2, <3>1 DEF PumpDrop
  <2> QED BY <2>1, <2>2
<1> HIDE DEF n
<1>7. tail' \in Counter /\ Fill' = Fill - n /\ Newest'
  BY <1>1, <1>5, <1>6, TailMoves
<1>8. RingTypes'
  BY <1>1, <1>7 DEF RingInv, RingTypes
<1>9. Level'
  BY <1>1, <1>4, <1>5, <1>7, Sizes DEF Level
<1>10. Coming'
  BY <1>1, <1>3 DEF RingInv, Coming
<1>11. made \in Int /\ last \in Int /\ since \in Int /\ made - Fill >= last /\ made - Fill >= since
  BY DEF RingInv, RingTypes, Later
<1>12. Later'
  BY <1>1, <1>4, <1>5, <1>7, <1>11 DEF Later
<1> QED BY <1>7, <1>8, <1>9, <1>10, <1>12 DEF RingInv

\* The pump puts what it has read.
LEMMA ReadPut ==
  ASSUME Prompt, Turns, RingInv, NEW p \in Pumps, PumpPut(p)
  PROVE  RingInv'
<1>1. /\ pc[p] = "put" /\ pc' = [pc EXCEPT ![p] = "loop"] /\ gm.at = "idle"
      /\ frames' = [frames EXCEPT ![p] = 0] /\ UNCHANGED <<tail, gm, since, last>>
  BY DEF PumpPut, Goto, MayTouchRing
<1>2. pc \in [Pumps -> States] /\ \A q \in Pumps : pc[q] \in {"drop", "put"} => q = p
  BY <1>1 DEF Turns, PumpTypes, One, Live
<1>3. \A q \in Pumps : pc'[q] \notin {"drop", "put"}
  BY <1>1, <1>2
<1>4. /\ head' \in Counter /\ Fill' = Fill + frames[p] /\ Newest' /\ made' = made + frames[p]
      /\ ring' \in [Place -> 0 .. MaxMade] /\ made + frames[p] <= MaxMade
      /\ Fill + frames[p] <= Ring
  BY <1>1, FramesPut
<1>5. /\ frames \in [Pumps -> 0 .. Chunk] /\ frames[p] \in 0 .. Chunk /\ made \in 0 .. MaxMade
      /\ tail \in Counter /\ Fill \in Nat
      /\ last \in 0 .. MaxMade /\ since \in 0 .. MaxMade
      /\ gm \in [at : {"idle", "copy"}, tail : Counter, n : 0 .. Chunk]
      /\ made - Fill >= last /\ made - Fill >= since
  BY FillType DEF RingInv, RingTypes, Later
<1>6. frames' \in [Pumps -> 0 .. Chunk] /\ made' \in 0 .. MaxMade
  BY <1>1, <1>4, <1>5, Sizes
<1>7. RingTypes'
  BY <1>1, <1>4, <1>5, <1>6 DEF RingTypes
<1>8. Level'
  BY <1>1, <1>3, <1>4 DEF Level
<1>9. Coming'
  BY <1>3 DEF Coming
<1>10. made' - Fill' = made - Fill
  <2>1. frames[p] \in Int /\ made \in Int /\ Fill \in Int
    BY <1>5, Sizes
  <2> QED BY <2>1, <1>4
<1>11. Later'
  BY <1>1, <1>5, <1>10 DEF Later
<1> QED BY <1>4, <1>7, <1>8, <1>9, <1>11 DEF RingInv

LEMMA PumpRing ==
  ASSUME Prompt, Turns, RingInv, NEW p \in Pumps, Pump(p)
  PROVE  RingInv'
<1>0. pc \in [Pumps -> States]
  BY DEF Turns, PumpTypes
<1>1. ASSUME NEW f, NEW t, Goto(p, f, t), t \notin {"drop", "put"},
             UNCHANGED <<head, tail, ring, frames, gm, made, since, last>>
      PROVE  RingInv'
  <2>1. \A q \in Pumps : pc'[q] \in {"drop", "put"} => pc[q] = pc'[q]
    BY <1>0, <1>1 DEF Goto
  <2> QED BY <1>1, <2>1, RingStays
<1>2. ASSUME PumpBorn(p) \/ PumpLoop(p) \/ PumpOpenFails(p) \/ PumpLost(p) \/ PumpOpens(p)
      PROVE  RingInv'
  <2>1. UNCHANGED <<head, tail, ring, frames, gm, made, since, last>>
    BY <1>2 DEF PumpBorn, PumpLoop, PumpOpenFails, PumpLost, PumpOpens, ringVars, ghosts
  <2>2. \E f \in States, t \in {"loop", "close", "read", "open", "lost", "stop", "link"} : Goto(p, f, t)
    BY <1>2 DEF PumpBorn, PumpLoop, PumpOpenFails, PumpLost, PumpOpens, LostNext, States, Opened
  <2> QED BY <2>1, <2>2, <1>1
<1>3. ASSUME PumpKick(p) \/ PumpLinked(p) \/ PumpReadFails(p) \/ PumpStop(p) \/ PumpStopped(p)
             \/ PumpClose(p)
      PROVE  RingInv'
  <2>1. UNCHANGED <<head, tail, ring, frames, gm, made, since, last>>
    BY <1>3 DEF PumpKick, PumpLinked, PumpReadFails, PumpStop, PumpStopped, PumpClose, ringVars, ghosts
  <2>2. \E f \in States, t \in {"linked", "read", "lost", "stopChannel", "close", "none"} : Goto(p, f, t)
    BY <1>3 DEF PumpKick, PumpLinked, PumpReadFails, PumpStop, PumpStopped, PumpClose, States, Opened
  <2> QED BY <2>1, <2>2, <1>1
<1>4. ASSUME PumpLink(p)
      PROVE  RingInv'
  <2>1. /\ head' = tail' /\ tail' = tail /\ gm.at = "idle" /\ since' = made
        /\ UNCHANGED <<ring, frames, gm, made, last>> /\ pc' = [pc EXCEPT ![p] = "rate"]
    BY <1>4 DEF PumpLink, Goto, MayTouchRing
  <2>2. \A q \in Pumps : pc'[q] \in {"drop", "put"} => pc[q] = pc'[q]
    BY <2>1, <1>0
  <2>3. tail' \in Counter
    BY <2>1 DEF RingInv, RingTypes
  <2> QED BY <2>1, <2>2, <2>3, RingEmptied
<1>5. ASSUME PumpRate(p)
      PROVE  RingInv'
  <2>1. /\ gm.at = "idle" /\ UNCHANGED <<head, ring, frames, gm, made, since, last>>
        /\ \/ Goto(p, "rate", "linked") /\ tail' = tail
           \/ Goto(p, "rate", "kick") /\ tail' = head
    BY <1>5 DEF PumpRate, MayTouchRing, ghosts
  <2>2. \A q \in Pumps : pc'[q] \in {"drop", "put"} => pc[q] = pc'[q]
    BY <2>1, <1>0 DEF Goto
  <2>3. CASE tail' = tail
    BY <2>1, <2>2, <2>3, RingStays
  <2>4. CASE tail' = head
    <3>1. tail' \in Counter /\ head' = tail'
      BY <2>1, <2>4 DEF RingInv, RingTypes
    <3> QED BY <2>1, <2>2, <3>1, RingEmptied
  <2> QED BY <2>1, <2>3, <2>4
<1>6. ASSUME PumpRead(p)
      PROVE  RingInv'
  <2>1. CASE Goto(p, "read", "loop") /\ UNCHANGED frames
    BY <1>6, <2>1, <1>1 DEF PumpRead, ringVars, ghosts
  <2>2. ASSUME NEW n \in 1 .. Chunk, made + n <= MaxMade, frames' = [frames EXCEPT ![p] = n],
               Goto(p, "read", "drop")
        PROVE  RingInv'
    <3>1. /\ UNCHANGED <<head, tail, ring, gm, made, since, last>>
          /\ pc' = [pc EXCEPT ![p] = "drop"]
      BY <1>6, <2>2 DEF PumpRead, Goto, ringVars, ghosts
    <3>2. frames' \in [Pumps -> 0 .. Chunk] /\ frames'[p] = n /\ \A q \in Pumps \ {p} : frames'[q] = frames[q]
      BY <2>2, Sizes DEF RingInv, RingTypes
    <3>3. Coming'
      BY <3>1, <3>2, <2>2, <1>0 DEF RingInv, Coming
    <3>4. Level'
      BY <3>1, <1>0 DEF RingInv, Level, Fill
    <3>5. RingTypes'
      BY <3>1, <3>2 DEF RingInv, RingTypes
    <3> QED BY <3>1, <3>3, <3>4, <3>5 DEF RingInv, Newest, Later, Fill
  <2> QED BY <1>6, <2>1, <2>2 DEF PumpRead
<1> QED
  BY <1>2, <1>3, <1>4, <1>5, <1>6, RoomMade, ReadPut DEF Pump

-----------------------------------------------------------------------------
\* The mixer's side of the ring.

\* The load leaves out the skip and says what it is going to copy.
LEMMA LoadRing ==
  ASSUME RingInv, GmLoad
  PROVE  RingInv'
<1>1. /\ tail' = (tail + GmSkip) % Wrap /\ gm' = [at |-> "copy", tail |-> tail', n |-> Avail]
      /\ UNCHANGED <<head, ring, frames, pc, made, since, last>>
  BY DEF GmLoad, pumpVars, ghosts
<1>2. /\ Fill \in Nat /\ Fill <= Ring /\ made \in 0 .. MaxMade /\ last \in 0 .. MaxMade
      /\ since \in 0 .. MaxMade /\ made - Fill >= last /\ made - Fill >= since
  BY FillType DEF RingInv, RingTypes, Level, Later
<1>3. GmSkip \in Nat /\ GmSkip <= Fill
  BY <1>2, Sizes DEF GmSkip, Least
<1>4. Avail \in 0 .. Chunk /\ Avail <= Fill - GmSkip
  BY <1>2, <1>3, Sizes DEF Avail, Least
<1>5. tail' \in Counter /\ Fill' = Fill - GmSkip /\ Newest'
  BY <1>1, <1>3, TailMoves
<1>6. RingTypes'
  <2>1. gm' \in [at : {"idle", "copy"}, tail : Counter, n : 0 .. Chunk]
    BY <1>1, <1>4, <1>5
  <2> QED BY <1>1, <1>5, <2>1 DEF RingInv, RingTypes
<1>7. Level'
  <2>1. Fill' <= Fill /\ Fill' <= Ring
    BY <1>2, <1>3, <1>5, Sizes
  <2>2. \A p \in Pumps : pc[p] = "put" => Fill' <= Ring - Chunk
    BY <1>2, <1>3, <1>5, Sizes DEF RingInv, Level
  <2>3. gm'.tail = tail' /\ gm'.n <= Fill'
    BY <1>1, <1>4, <1>5
  <2> QED BY <1>1, <2>1, <2>2, <2>3 DEF Level
<1>8. Coming'
  BY <1>1 DEF RingInv, Coming
<1>9. Later'
  BY <1>1, <1>2, <1>3, <1>5 DEF Later
<1> QED BY <1>5, <1>6, <1>7, <1>8, <1>9 DEF RingInv

\* The store takes what was copied out of the ring.
LEMMA StoreRing ==
  ASSUME RingInv, GmStore
  PROVE  RingInv'
<1> DEFINE n == gm.n
<1>1. /\ gm.at = "copy" /\ tail' = (gm.tail + n) % Wrap /\ gm' = Idle
      /\ last' = IF n = 0 THEN last ELSE ring[(gm.tail + n - 1) % Ring]
      /\ UNCHANGED <<head, ring, frames, pc, made, since>>
  BY DEF GmStore, pumpVars
<1>2. /\ Fill \in Nat /\ Fill <= Ring /\ made \in 0 .. MaxMade /\ last \in 0 .. MaxMade
      /\ since \in 0 .. MaxMade /\ made - Fill >= last /\ made - Fill >= since
      /\ n \in 0 .. Chunk /\ gm.tail = tail /\ n <= Fill /\ tail \in Counter
  BY <1>1, FillType DEF RingInv, RingTypes, Level, Later
<1>3. n \in Nat /\ tail' = (tail + n) % Wrap
  BY <1>1, <1>2, Sizes
<1>4. tail' \in Counter /\ Fill' = Fill - n /\ Newest'
  BY <1>1, <1>2, <1>3, TailMoves
<1>5. last' = IF n = 0 THEN last ELSE made - Fill'
  <2>1. CASE n = 0
    BY <1>1, <2>1
  <2>2. CASE n # 0
    <3>1. n - 1 \in 0 .. Fill - 1 /\ tail + n - 1 = tail + (n - 1)
      BY <1>2, <1>3, <2>2, Sizes DEF Counter
    <3>2. ring[(tail + (n - 1)) % Ring] = (made - Fill) + 1 + (n - 1)
      BY <3>1 DEF RingInv, Newest
    <3>3. (made - Fill) + 1 + (n - 1) = made - (Fill - n)
      BY <1>2, <1>3
    <3> QED BY <1>1, <1>2, <1>4, <2>2, <3>1, <3>2, <3>3
  <2> QED BY <2>1, <2>2
<1>6. made - Fill' >= made - Fill /\ made - Fill' \in 0 .. MaxMade
  BY <1>2, <1>3, <1>4, Sizes
<1>7. last' \in 0 .. MaxMade /\ made - Fill' >= last' /\ made - Fill' >= since
  BY <1>2, <1>4, <1>5, <1>6, Sizes
<1>8. RingTypes'
  <2>1. gm' \in [at : {"idle", "copy"}, tail : Counter, n : 0 .. Chunk]
    BY <1>1, Sizes DEF Idle, Counter
  <2> QED BY <1>1, <1>4, <1>7, <2>1 DEF RingInv, RingTypes
<1>9. Level'
  <2>1. Fill' <= Ring /\ \A p \in Pumps : pc[p] = "put" => Fill' <= Ring - Chunk
    BY <1>2, <1>3, <1>4, Sizes DEF RingInv, Level
  <2> QED BY <1>1, <2>1 DEF Level, Idle
<1>10. Coming' /\ Later'
  BY <1>1, <1>7 DEF RingInv, Coming, Later
<1> QED BY <1>4, <1>8, <1>9, <1>10 DEF RingInv

LEMMA RingStep == Patient /\ Prompt /\ Turns /\ Session /\ RingInv /\ [Next]_vars => RingInv'
<1> SUFFICES ASSUME Patient, Prompt, Turns, Session, RingInv, [Next]_vars
             PROVE  RingInv'
  OBVIOUS
<1>1. CASE \E p \in Pumps : Pump(p)
  BY <1>1, PumpRing
<1>2. CASE UiStart
  <2>1. /\ head' = 0 /\ tail' = 0 /\ since' = made /\ ui = "opening" /\ ~running
        /\ UNCHANGED <<ring, frames, gm, made, last>>
        /\ \A p \in Pumps : pc[p] \in {"none", "loop", "close"}
    BY <1>2 DEF UiStart, NoLeftOver
  <2>2. gm.at # "copy"
    BY <2>1 DEF Session, StopSilences, Copying
  <2>3. PICK p \in Pumps : pc[p] = "none" /\ pc' = [pc EXCEPT ![p] = "born"]
    BY <1>2, StartsOne
  <2>4. \A q \in Pumps : pc'[q] \in {"drop", "put"} => pc[q] = pc'[q]
    BY <2>3 DEF Turns, PumpTypes
  <2>5. tail' \in Counter /\ head' = tail'
    BY <2>1, Sizes DEF Counter
  <2> QED BY <2>1, <2>2, <2>4, <2>5, RingEmptied
<1>3. CASE UiOpen \/ UiEnter \/ UiPlay \/ UiRefused \/ UiLeave \/ UiStop \/ UiStopped \/ UNCHANGED vars
  <2>1. UNCHANGED <<head, tail, ring, frames, gm, made, since, last, pc>>
    BY <1>3 DEF UiOpen, UiEnter, UiPlay, UiRefused, UiLeave, UiStop, UiStopped, vars, pumpVars, ringVars,
                ghosts
  <2> QED BY <2>1, RingStays
<1> QED BY <1>1, <1>2, <1>3, LoadRing, StoreRing DEF Next, Ui

-----------------------------------------------------------------------------
\* The rest of the types.

Flags ==
  /\ linkOk \in BOOLEAN /\ rate \in Rates \cup {0} /\ primed \in BOOLEAN /\ channel \in BOOLEAN
  /\ cfg \in Pumps \cup {Nobody} /\ ui \in {"menu", "opening", "play", "screen", "stop"}

LEMMA FlagsInit == Init => Flags
BY DEF Init, Flags

LEMMA FlagsStep == Flags /\ [Next]_vars => Flags'
<1> SUFFICES ASSUME Flags, [Next]_vars
             PROVE  Flags'
  OBVIOUS
<1>1. linkOk' \in BOOLEAN /\ primed' \in BOOLEAN /\ channel' \in BOOLEAN
  <2>1. linkOk' \in {linkOk, TRUE, FALSE}
    BY DEF Next, Ui, Pump, UiOpen, UiEnter, UiStart, UiPlay, UiRefused, UiLeave, UiStop, UiStopped,
           PumpBorn, PumpLoop, PumpOpenFails, PumpLost, PumpOpens, PumpLink, PumpRate, PumpKick,
           PumpLinked, PumpRead, PumpReadFails, PumpDrop, PumpPut, PumpStop, PumpStopped, PumpClose,
           GmLoad, GmStore, vars, sessionVars
  <2>2. primed' \in {primed, TRUE, FALSE}
    BY DEF Next, Ui, Pump, UiOpen, UiEnter, UiStart, UiPlay, UiRefused, UiLeave, UiStop, UiStopped,
           PumpBorn, PumpLoop, PumpOpenFails, PumpLost, PumpOpens, PumpLink, PumpRate, PumpKick,
           PumpLinked, PumpRead, PumpReadFails, PumpDrop, PumpPut, PumpStop, PumpStopped, PumpClose,
           GmLoad, GmStore, vars, ringVars
  <2>3. channel' \in {channel, TRUE, FALSE}
    BY DEF Next, Ui, Pump, UiOpen, UiEnter, UiStart, UiPlay, UiRefused, UiLeave, UiStop, UiStopped,
           PumpBorn, PumpLoop, PumpOpenFails, PumpLost, PumpOpens, PumpLink, PumpRate, PumpKick,
           PumpLinked, PumpRead, PumpReadFails, PumpDrop, PumpPut, PumpStop, PumpStopped, PumpClose,
           StopChannel, GmLoad, GmStore, vars
  <2> QED BY <2>1, <2>2, <2>3, Zenon DEF Flags
<1>2. rate' \in Rates \cup {0}
  <2>1. rate' \in {rate, 0} \cup Rates
    BY DEF Next, Ui, Pump, UiOpen, UiEnter, UiStart, UiPlay, UiRefused, UiLeave, UiStop, UiStopped,
           PumpBorn, PumpLoop, PumpOpenFails, PumpLost, PumpOpens, PumpLink, PumpRate, PumpKick,
           PumpLinked, PumpRead, PumpReadFails, PumpDrop, PumpPut, PumpStop, PumpStopped, PumpClose,
           GmLoad, GmStore, vars, sessionVars
  <2> QED BY <2>1 DEF Flags
<1>3. cfg' \in Pumps \cup {Nobody}
  <2>1. cfg' \in {cfg, Nobody} \cup Pumps
    BY DEF Next, Ui, Pump, UiOpen, UiEnter, UiStart, UiPlay, UiRefused, UiLeave, UiStop, UiStopped,
           PumpBorn, PumpLoop, PumpOpenFails, PumpLost, PumpOpens, PumpLink, PumpRate, PumpKick,
           PumpLinked, PumpRead, PumpReadFails, PumpDrop, PumpPut, PumpStop, PumpStopped, PumpClose,
           GmLoad, GmStore, vars
  <2> QED BY <2>1 DEF Flags
<1>4. ui' \in {"menu", "opening", "play", "screen", "stop"}
  BY DEF Flags, Next, Ui, Pump, UiOpen, UiEnter, UiStart, UiPlay, UiRefused, UiLeave, UiStop, UiStopped,
         PumpBorn, PumpLoop, PumpOpenFails, PumpLost, PumpOpens, PumpLink, PumpRate, PumpKick,
         PumpLinked, PumpRead, PumpReadFails, PumpDrop, PumpPut, PumpStop, PumpStopped, PumpClose,
         GmLoad, GmStore, vars
<1> QED BY <1>1, <1>2, <1>3, <1>4 DEF Flags

-----------------------------------------------------------------------------
\* What follows.

LEMMA Inductive ==
  ASSUME Patient, Prompt
  PROVE  Spec => [](Turns /\ Session /\ RingInv /\ Flags)
<1>1. Init => Turns /\ Session /\ RingInv /\ Flags
  BY TurnsInit, RingInit, FlagsInit
<1>2. (Turns /\ Session /\ RingInv /\ Flags) /\ [Next]_vars => (Turns /\ Session /\ RingInv /\ Flags)'
  <2> SUFFICES ASSUME Turns, Session, RingInv, Flags, [Next]_vars
               PROVE  (Turns /\ Session /\ RingInv /\ Flags)'
    OBVIOUS
  <2>1. Turns'
    BY TurnsStep
  <2> QED BY <2>1, SessionStep, RingStep, FlagsStep
<1> QED BY <1>1, <1>2, PTL DEF Spec

LEMMA Sessions ==
  ASSUME Patient
  PROVE  Spec => [](Turns /\ Session)
<1>1. (Turns /\ Session) /\ [Next]_vars => (Turns /\ Session)'
  BY TurnsStep, SessionStep
<1> QED BY TurnsInit, <1>1, PTL DEF Spec

\* Whatever the mixer, the pump and the user do to the ring, its counters are in
\* range and the tail is at most a ring behind the head (btin_put(),
\* btin_get_more(), btin_apply_rate()), for every size of the ring and of its
\* chunks and for every width of the counters.
THEOREM BtRingSound ==
  ASSUME Patient, Prompt
  PROVE  Spec => []RingSound
<1>1. Turns /\ RingInv /\ Flags => RingSound
  <2> SUFFICES ASSUME Turns, RingInv, Flags
               PROVE  RingSound
    OBVIOUS
  <2>1. TailBehind
    BY DEF RingInv, Level, TailBehind
  <2>2. TypeOK
    BY DEF Turns, PumpTypes, States, Opened, RingInv, RingTypes, Counter, Place, Flags, TypeOK
  <2> QED BY <2>1, <2>2 DEF RingSound
<1> QED BY <1>1, Inductive, PTL

\* The mixer gets the frames of the phone in the order they were captured, none
\* twice, and none of a link or a session that is over (btin_get_more()).
THEOREM BtHeardInOrder ==
  ASSUME Patient, Prompt
  PROVE  Spec => []HeardInOrder
<1>1. RingInv => HeardInOrder
  <2> SUFFICES ASSUME RingInv, gm.at = "copy"
               PROVE  /\ \A i \in 0 .. gm.n - 1 :
                           ring[(gm.tail + i) % Ring] > (IF last > since THEN last ELSE since)
                      /\ \A i \in 1 .. gm.n - 1 :
                           ring[(gm.tail + i) % Ring] > ring[(gm.tail + i - 1) % Ring]
    BY DEF HeardInOrder
  <2>1. /\ gm.tail = tail /\ gm.n <= Fill /\ gm.n \in Nat /\ Fill \in Nat /\ tail \in Int
        /\ made \in Int /\ last \in Int /\ since \in Int
        /\ made - Fill >= last /\ made - Fill >= since
    BY FillType, Sizes DEF RingInv, RingTypes, Level, Later, Counter
  <2>2. \A i \in 0 .. gm.n - 1 : ring[(tail + i) % Ring] = (made - Fill) + 1 + i
    BY <2>1 DEF RingInv, Newest
  <2>3. \A i \in 0 .. gm.n - 1 : ring[(gm.tail + i) % Ring] > (IF last > since THEN last ELSE since)
    BY <2>1, <2>2
  <2>4. ASSUME NEW i \in 1 .. gm.n - 1
        PROVE  ring[(gm.tail + i) % Ring] > ring[(gm.tail + i - 1) % Ring]
    <3>1. i \in 0 .. gm.n - 1 /\ i - 1 \in 0 .. gm.n - 1 /\ tail + i - 1 = tail + (i - 1)
      BY <2>1
    <3>2. ring[(tail + i) % Ring] = (made - Fill) + 1 + i
      BY <2>2, <3>1
    <3>3. ring[(tail + (i - 1)) % Ring] = (made - Fill) + 1 + (i - 1)
      BY <2>2, <3>1
    <3> QED BY <2>1, <3>1, <3>2, <3>3
  <2> QED BY <2>3, <2>4
<1> QED BY <1>1, Inductive, PTL

\* The configuration tree an open capture refers to is not deleted by another
\* pump's btin_close_capture() or btin_open_capture().
THEOREM BtConfigKept ==
  ASSUME Patient
  PROVE  Spec => []ConfigKept
<1>1. Turns /\ Session => ConfigKept
  BY DEF Session
<1> QED BY <1>1, Sessions, PTL

\* Once bt_input_stop() is through, by the screen or by the pump, the mixer
\* channel of the session is off.
THEOREM BtStopSilences ==
  ASSUME Patient
  PROVE  Spec => []StopSilences
<1>1. Turns /\ Session => StopSilences
  BY DEF Session
<1> QED BY <1>1, Sessions, PTL

\* Both together: the capture configuration and the mixer channel follow the
\* session.
THEOREM BtSessionClean ==
  ASSUME Patient
  PROVE  Spec => []SessionClean
<1>1. ConfigKept /\ StopSilences => SessionClean
  BY DEF SessionClean
<1> QED BY <1>1, BtConfigKept, BtStopSilences, PTL

\* A session ends by the user's bt_input_stop() or by that of the pump it was
\* started with, never by a pump of an earlier session.
THEOREM BtSessionKept ==
  ASSUME Patient
  PROVE  Spec => SessionKept
<1>1. (Turns /\ Session) /\ [Next]_vars
      => [(running /\ ~running') => (ui' = "stop" \/ \E p \in Pumps : own[p] = gen /\ pc[p] = "stop")]_vars
  <2> SUFFICES ASSUME Turns, Next, running, ~running'
               PROVE  ui' = "stop" \/ \E p \in Pumps : own[p] = gen /\ pc[p] = "stop"
    BY DEF vars, sessionVars
  <2>1. CASE UiStop
    BY <2>1 DEF UiStop
  <2>2. CASE UiOpen \/ UiEnter \/ UiStart \/ UiPlay \/ UiRefused \/ UiLeave \/ UiStopped
             \/ GmLoad \/ GmStore
    BY <2>2 DEF UiOpen, UiEnter, UiStart, UiPlay, UiRefused, UiLeave, UiStopped, GmLoad, GmStore,
                sessionVars
  <2>3. ASSUME NEW p \in Pumps, Pump(p)
        PROVE  own[p] = gen /\ pc[p] = "stop"
    <3>1. PumpStop(p)
      BY <2>3 DEF Pump, PumpBorn, PumpLoop, PumpOpenFails, PumpLost, PumpOpens, PumpLink, PumpRate,
                  PumpKick, PumpLinked, PumpRead, PumpReadFails, PumpDrop, PumpPut, PumpStopped,
                  PumpClose, sessionVars
    <3>2. pc[p] = "stop"
      BY <3>1 DEF PumpStop, Goto
    <3> QED BY <3>2 DEF Turns, Owned, Live
  <2> QED BY <2>1, <2>2, <2>3 DEF Next, Ui
<1> QED BY <1>1, Sessions, PTL DEF Spec, SessionKept
=============================================================================
