------------------------------ MODULE Playlist ------------------------------
(***************************************************************************)
(* The current playlist, apps/playlist.c, and its control file.  Every     *)
(* change of the list in memory appends a command to the control file;     *)
(* after a shutdown or a crash playlist_resume() reads the commands again  *)
(* and is meant to end up with the very same list.                         *)
(*                                                                         *)
(* pl is struct playlist_info as far as the list is concerned: idx is the  *)
(* used part of indices[], an entry a record of its flags and its seek     *)
(* position; a position in the control file is a line number.  ctl is the  *)
(* control file after its P line, and synced how much of it has been       *)
(* through fsync().  fromFile says whether the P line names a playlist     *)
(* file, saved is the resume info of a clean shutdown, phase is "down"     *)
(* while no list is loaded.  Positions count from 0 as in the code.  All   *)
(* operations hold the playlist's lock, so each is one action.             *)
(***************************************************************************)
EXTENDS Integers, Sequences, SequencesExt, TLC

CONSTANTS
  Files,       \* the tracks of the playlist file, in its order
  FileSeek,    \* and where they stand in it, on the scale of the control file
  Track,       \* tracks a user can add
  MaxSize,     \* max_playlist_size
  Seeds,       \* seeds of a shuffle: values of current_tick
  Rand,        \* Rand[seed][i]: the number rand() returns for position i
  Modes,       \* repeat modes the user has
  Careful,     \* callers sort before they shuffle, and keep index in range
  MaxLines     \* bound: commands in the control file

ASSUME PlaylistAssumption ==
  /\ MaxSize \in Nat /\ Careful \in BOOLEAN /\ MaxLines \in Nat
  /\ Files \in Seq(ToSet(Files)) /\ Len(Files) <= MaxSize
  /\ FileSeek \in [1 .. Len(Files) -> Nat]
  /\ 0 \notin Seeds /\ \A seed \in Seeds, k \in 1 .. MaxSize : Rand[seed][k] \in Nat
  /\ Modes \subseteq {"off", "all", "one", "shuffle"}

VARIABLES pl, ctl, synced, fromFile, saved, phase

vars == <<pl, ctl, synced, fromFile, saved, phase>>

PREPEND == -1
INSERT == -2
INSERT_LAST == -3
INSERT_FIRST == -4
INSERT_SHUFFLED == -5
LAST_SHUFFLED == -7
LAST_ROTATED == -8

-----------------------------------------------------------------------------
\* The list in memory.

ListEntry(i) == [kind |-> "list", queued |-> FALSE, seek |-> FileSeek[i], track |-> Files[i]]
Inserted(queue, line, t) ==
  [kind |-> "insert", queued |-> queue, seek |-> line, track |-> t]
\* What indices[] holds beyond the tracks in use.
Junk == [kind |-> "list", queued |-> FALSE, seek |-> 0, track |-> "junk"]

Amount(p) == Len(p.idx)
EntryAt(p, i) == p.idx[i + 1]
InList(p, i) == i >= 0 /\ i < Amount(p)

Rotate(p, i) ==
  IF i - p.first < 0 THEN (i - p.first) + Amount(p) ELSE i - p.first

\* The tracks as they are shown and played: from first_index on.
Shown(p) == [i \in 1 .. Amount(p) |->
               EntryAt(p, (p.first + (i - 1)) % Amount(p)).track]

Fresh(listed) ==
  [idx |-> IF listed THEN [i \in 1 .. Len(Files) |-> ListEntry(i)] ELSE << >>,
   index |-> 0, first |-> 0, last |-> -1, started |-> FALSE]

AfterCurrent(p) == IF Amount(p) > 0 THEN p.index + 1 ELSE 0

\* Where a track goes that is added at pos; r is what rand() returned, s the
\* start of a shuffled batch.
InsertPosition(p, pos, r, s) ==
  LET end == IF p.first > 0 THEN p.first ELSE Amount(p) IN
  CASE pos \in {PREPEND, LAST_ROTATED} -> p.first
    [] pos = INSERT ->
         IF InList(p, p.last) /\ EntryAt(p, p.last).kind = "insert"
         THEN p.last + 1 ELSE AfterCurrent(p)
    [] pos = INSERT_FIRST -> AfterCurrent(p)
    [] pos = INSERT_LAST -> end
    [] pos = INSERT_SHUFFLED ->
         IF ~p.started THEN r % (Amount(p) + 1)
         ELSE LET n == Amount(p) - Rotate(p, p.index)
                  q == p.index + (IF n > 0 THEN r % n ELSE 0) + 1
              IN  IF q >= Amount(p) THEN q - Amount(p) ELSE q
    [] pos = LAST_SHUFFLED -> s + (r % ((end - s) + 1))
    [] OTHER -> pos

\* The array after a track was put at q: beyond the end it leaves a hole.
PutAt(idx, q, e) == IF q <= Len(idx) THEN InsertAt(idx, q + 1, e) ELSE Append(idx, Junk)

\* (The second case of line 1429 never holds: position is negative only as
\* PLAYLIST_INSERT_LAST_ROTATED by then.)
SetsLast(pos) == pos \in {INSERT, INSERT_FIRST, INSERT_LAST, LAST_ROTATED}

\* Seeded fault: a track put at the first row does not turn the list.
Turns_BeforeOnly(p, pos, q) ==
  pos < 0 /\ Amount(p) > 0 /\ q < p.first /\ pos /= PREPEND /\ p.started

\* A track put at or before the first one turns the list on: first_index keeps its
\* track.
Turns(p, pos, q) ==
  pos < 0 /\ Amount(p) > 0 /\ q <= p.first /\ pos /= PREPEND /\ p.started

\* Seeded fault: the command has the index.
Written_Plain(p, pos, q) == q

\* The position the control file gets.
Written(p, pos, q) ==
  IF Turns(p, pos, q) /\ q = p.first THEN LAST_ROTATED ELSE q

\* add_track_to_playlist_unlocked(): the new list and the position the control
\* file gets.  line is where the track's name stands in the control file.
AddTrack(p, pos, queue, t, line, r, s) ==
  LET q == InsertPosition(p, pos, r, s)
      some == Amount(p) > 0
      last0 == IF SetsLast(pos) THEN q ELSE p.last
  IN [pos |-> Written(p, pos, q),
      pl  |-> [p EXCEPT
        !.idx = PutAt(@, q, Inserted(queue, line, t)),
        !.index = IF pos < 0 /\ some /\ q <= @ /\ p.started /\ pos /= LAST_ROTATED
                  THEN @ + 1 ELSE @,
        !.first = IF Turns(p, pos, q) \/ (pos >= 0 /\ some /\ q < @ /\ p.started)
                  THEN @ + 1 ELSE @,
        !.last = IF q < last0 THEN last0 + 1 ELSE last0]]

RemoveTrack(p, i) ==
  [p EXCEPT !.idx = RemoveAt(@, i + 1),
            !.index = IF i < @ THEN @ - 1 ELSE @,
            !.first = IF i < @ THEN @ - 1 ELSE @,
            !.last = IF i <= @ THEN @ - 1 ELSE @]

\* find_and_set_playlist_index_unlocked()
FindIndex(p, e) ==
  IF \E i \in 1 .. Amount(p) : p.idx[i] = e
  THEN LET i == CHOOSE j \in 1 .. Amount(p) :
                  p.idx[j] = e /\ \A k \in 1 .. j - 1 : p.idx[k] /= e
       IN  [p EXCEPT !.index = i - 1, !.first = i - 1]
  ELSE p
Current(p) == IF InList(p, p.index) THEN EntryAt(p, p.index) ELSE Junk

Swap(s, i, j) == [s EXCEPT ![i] = s[j], ![j] = s[i]]

\* From the last place down, each entry is swapped with one at or before it.
Mixed(s, seed) ==
  LET mix[j \in 0 .. Len(s)] ==
        IF j = 0 THEN s
        ELSE LET k == (Len(s) - j) + 1 IN Swap(mix[j - 1], k, (Rand[seed][k] % k) + 1)
  IN  mix[Len(s)]

\* randomise_playlist_unlocked() without its line in the control file.
Randomise(p, seed, startCurrent) ==
  LET q == [p EXCEPT !.idx = Mixed(@, seed)]
  IN  [(IF startCurrent THEN FindIndex(q, Current(p)) ELSE q) EXCEPT !.last = -1]

\* sort_compare_fn() > 0.  With a track of the file on one side and an added one
\* on the other the code returns the 32-bit difference of the whole entries as an
\* int: for an added track that is the difference of the seek positions, turned
\* around; the bit of a queued one outweighs it.
Behind(a, b) ==
  CASE a.kind = b.kind -> a.seek > b.seek
    [] a.kind = "list" -> b.queued \/ a.seek < b.seek
    [] OTHER -> ~a.queued /\ a.seek < b.seek

\* qsort() of the C library: a merge sort, which takes what the comparison says
\* of the two entries in hand.  Taken(s, t)[k] of the first k entries are from s.
Taken(s, t) ==
  LET from[k \in 0 .. Len(s) + Len(t)] ==
        IF k = 0 THEN 0
        ELSE LET i == from[k - 1]
                 j == (k - 1) - i
             IN  IF i < Len(s) /\ (j < Len(t) => ~Behind(s[i + 1], t[j + 1])) THEN i + 1 ELSE i
  IN  from
Merge(s, t) ==
  [k \in 1 .. Len(s) + Len(t) |->
     LET i == Taken(s, t)[k] IN IF i > Taken(s, t)[k - 1] THEN s[i] ELSE t[k - i]]

\* part[n][lo] is the n entries from lo on, sorted.
Sorted(s) ==
  LET part[n \in 0 .. Len(s)] ==
        [lo \in Nat |-> IF n < 2 THEN SubSeq(s, lo, (lo + n) - 1)
                        ELSE Merge(part[n \div 2][lo], part[n - (n \div 2)][lo + (n \div 2)])]
  IN  part[Len(s)][1]

\* sort_playlist_unlocked(), with the write flag.
SortList(p, startCurrent, write) ==
  LET q == [p EXCEPT !.idx = Sorted(@)]
      c == IF startCurrent THEN FindIndex(q, Current(p)) ELSE q
  IN  [c EXCEPT !.last = -1, !.first = IF write THEN 0 ELSE @]

-----------------------------------------------------------------------------
\* The control file.

CAdd(pos, queue, t, last) ==
  [op |-> IF queue THEN "Q" ELSE "A", pos |-> pos, last |-> last, track |-> t]
CDelete(i) == [op |-> "D", pos |-> i]
CShuffle(seed, first) == [op |-> "S", seed |-> seed, first |-> first]
CUnshuffle == [op |-> "U", first |-> 0]
CReset == [op |-> "R"]

\* One command, as the loop of playlist_resume() carries it out.
Redo(s, c) ==
  LET p == s.pl
      l == s.line + 1
  IN CASE c.op \in {"A", "Q"} ->
            [s EXCEPT !.line = l,
               !.pl = [AddTrack(p, c.pos, c.op = "Q", c.track, l, 0, 0).pl
                       EXCEPT !.last = c.last]]
       [] c.op = "D" -> [s EXCEPT !.line = l, !.pl = RemoveTrack(p, c.pos)]
       [] c.op = "S" ->
            LET q == IF s.sorted THEN p ELSE SortList(p, FALSE, FALSE)
            IN  [line |-> l, sorted |-> FALSE,
                 pl |-> Randomise([q EXCEPT !.first = c.first], c.seed, FALSE)]
       [] c.op = "U" ->
            [line |-> l, sorted |-> TRUE,
             pl |-> SortList([p EXCEPT !.first = c.first], FALSE, FALSE)]
       [] c.op = "R" -> [s EXCEPT !.line = l, !.pl.last = -1]

\* The loop of playlist_resume() over the commands of a control file: what it has
\* got to after k of them.
Begin(listed) ==
  [pl |-> [Fresh(listed) EXCEPT !.started = TRUE], sorted |-> TRUE, line |-> 0]
After(commands, listed) ==
  LET after[k \in 0 .. Len(commands)] ==
        IF k = 0 THEN Begin(listed) ELSE Redo(after[k - 1], commands[k])
  IN  after
Replay(commands, listed) == After(commands, listed)[Len(commands)]

\* Resume info the model does not keep.
Anything == [index |-> 0, track |-> "any"]

Room(n) == Len(ctl) + n <= MaxLines
Log(commands) == ctl' = ctl \o commands
Running == phase = "on"

-----------------------------------------------------------------------------
\* The operations.

Init ==
  /\ pl = Fresh(FALSE) /\ ctl = << >> /\ synced = 0 /\ fromFile = FALSE
  /\ saved = Anything /\ phase = "down"

\* playlist_create() of a playlist file (of a running list, that is after its
\* shutdown), and playlist_start() at track i, with
\* playlist_shuffle() in between when shuffle is on.
CreateAndStart(i) ==
  /\ phase = "down" /\ i \in 0 .. Len(Files) - 1
  /\ pl' = [Fresh(TRUE) EXCEPT !.index = i, !.started = TRUE]
  /\ ctl' = << >> /\ synced' = 0 /\ fromFile' = TRUE
  /\ phase' = "on" /\ saved' = Anything

CreateShuffled(i, seed, selected) ==
  /\ phase = "down" /\ i \in 0 .. Len(Files) - 1 /\ MaxLines > 0
  /\ LET p == IF selected   \* play_selected
              THEN Randomise([Fresh(TRUE) EXCEPT !.index = i, !.first = i], seed, TRUE)
              ELSE Randomise(Fresh(TRUE), seed, FALSE)
     IN  /\ pl' = [p EXCEPT !.started = TRUE]
         /\ ctl' = <<CShuffle(seed, p.first)>>
  /\ synced' = 1 /\ fromFile' = TRUE
  /\ phase' = "on" /\ saved' = Anything

\* A playlist of nothing, to be filled and then started.
CreateEmpty ==
  /\ phase = "down" /\ pl' = Fresh(FALSE) /\ ctl' = << >> /\ synced' = 0 /\ fromFile' = FALSE
  /\ phase' = "on" /\ saved' = Anything

Start ==
  /\ Running /\ ~pl.started /\ Amount(pl) > 0
  /\ pl' = [pl EXCEPT !.index = 0, !.started = TRUE] /\ synced' = Len(ctl)
  /\ UNCHANGED <<ctl, fromFile, saved, phase>>

\* A user with care does not add behind a current track that was the last one
\* and is gone, nor at random to a list that was emptied.
MayAdd(pos) == Careful => \/ InList(pl, pl.index)
                          \/ Amount(pl) = 0 /\ pos /= INSERT_SHUFFLED

\* playlist_set_last_shuffled_start()
ShuffledStart == IF pl.first > 0 THEN pl.first ELSE Amount(pl)

\* playlist_insert_track(); sync is its argument.
Insert(pos, queue, t, r, sync) ==
  /\ Running /\ Room(1) /\ MayAdd(pos) /\ Amount(pl) < MaxSize
  /\ LET a == AddTrack(pl, pos, queue, t, Len(ctl) + 1, r, ShuffledStart)
     IN  /\ pl' = a.pl
         /\ Log(<<CAdd(a.pos, queue, t, a.pl.last)>>)
  /\ synced' = IF sync THEN Len(ctl') ELSE synced
  /\ UNCHANGED <<fromFile, saved, phase>>

\* Two tracks through an insert context: INSERT_FIRST becomes INSERT after the
\* first one, a shuffled batch starts at the end of the list it found.
InsertBatch(pos, queue, t, u, r, r2) ==
  LET s == ShuffledStart
      a == AddTrack(pl, pos, queue, t, Len(ctl) + 1, r, s)
      pos2 == IF pos = INSERT_FIRST THEN INSERT ELSE pos
      b == AddTrack(a.pl, pos2, queue, u, Len(ctl) + 2, r2, s)
  IN /\ Running /\ Room(2) /\ MayAdd(pos) /\ Amount(pl) + 1 < MaxSize
     /\ pl' = b.pl
     /\ Log(<<CAdd(a.pos, queue, t, a.pl.last), CAdd(b.pos, queue, u, b.pl.last)>>)
     /\ synced' = Len(ctl')
     /\ UNCHANGED <<fromFile, saved, phase>>

Delete(i) ==
  /\ Running /\ Room(1) /\ i \in 0 .. Amount(pl) - 1
  /\ pl' = RemoveTrack(pl, i)
  /\ Log(<<CDelete(i)>>) /\ synced' = Len(ctl')
  /\ UNCHANGED <<fromFile, saved, phase>>

\* Seeded fault: moving to the current row from before it counts.
Displaces_OwnRow(i, j) ==
  LET cur == Rotate(pl, pl.index) IN
  \/ Rotate(pl, i) > cur /\ Rotate(pl, j) <= cur
  \/ Rotate(pl, i) < cur /\ Rotate(pl, j) <= cur

\* Does moving from i to j, both as shown, push the current track on?
Displaces(i, j) ==
  LET cur == Rotate(pl, pl.index) IN
  \/ Rotate(pl, i) > cur /\ Rotate(pl, j) <= cur
  \/ Rotate(pl, i) < cur /\ Rotate(pl, j) < cur

\* Seeded fault: the row is taken after the delete.
TargetRow_AfterDelete(i, j) == Rotate(RemoveTrack(pl, i), j)

\* The row a move is to, taken before the delete.
TargetRow(i, j) == Rotate(pl, j)

\* playlist_move(): a delete, which is synced, and an add, which is not.
Move(i, j) ==
  LET r == TargetRow(i, j)
      p == RemoveTrack(pl, i)
      n == Amount(p)
      pos == IF r = 0 THEN PREPEND
             ELSE IF r = n THEN INSERT_LAST ELSE (r + p.first) % n
      shifts == IF pos < 0 THEN Displaces(i, j)
                ELSE IF pos < p.first /\ pos <= p.index THEN TRUE
                ELSE IF pos >= p.first /\ p.index < p.first THEN FALSE
                ELSE Displaces(i, j)
      e == EntryAt(pl, i)
      a == AddTrack(p, pos, e.queued, e.track, Len(ctl) + 2, 0, 0)
      back == a.pl.first - 1
  IN /\ Running /\ Room(2) /\ i /= j
     /\ InList(pl, i) /\ InList(pl, j) /\ InList(pl, pl.index)
     /\ pl' = IF i = pl.index
              THEN [a.pl EXCEPT !.index =
                      CASE pos = PREPEND -> a.pl.first
                        [] pos = INSERT_LAST -> IF back < 0 THEN back + Amount(a.pl) ELSE back
                        [] OTHER -> pos]
              ELSE IF shifts /\ pos /= PREPEND THEN [a.pl EXCEPT !.index = @ + 1]
              ELSE a.pl
     /\ Log(<<CDelete(i), CAdd(a.pos, e.queued, e.track, a.pl.last)>>)
     /\ synced' = Len(ctl) + 1
     /\ UNCHANGED <<fromFile, saved, phase>>

\* Turning shuffle off: playlist_sort(playlist, true).
Unshuffle ==
  /\ Running /\ Room(1) /\ InList(pl, pl.index)
  /\ pl' = SortList(pl, TRUE, TRUE)
  /\ Log(<<CUnshuffle>>)
  /\ UNCHANGED <<synced, fromFile, saved, phase>>

\* Shuffle from a menu, playlist_sort() and playlist_randomise(): the playing screen's
\* keeps the current track, the library's does not.
SortAndShuffle(seed, startCurrent) ==
  /\ Running /\ Room(2) /\ InList(pl, pl.index)
  /\ (startCurrent => pl.started) /\ (Careful => startCurrent)
  /\ LET p == Randomise(SortList(pl, startCurrent, TRUE), seed, startCurrent)
     IN  /\ pl' = p
         /\ Log(<<CUnshuffle, CShuffle(seed, p.first)>>)
  /\ UNCHANGED <<synced, fromFile, saved, phase>>

\* Turning shuffle on in the settings: playlist_randomise() alone.
ShuffleOn(seed) ==
  /\ Running /\ Room(1) /\ InList(pl, pl.index) /\ pl.started
  /\ Careful => Replay(ctl, fromFile).sorted
  /\ LET p == Randomise(pl, seed, TRUE)
     IN  pl' = p /\ Log(<<CShuffle(seed, p.first)>>)
  /\ UNCHANGED <<synced, fromFile, saved, phase>>

\* Seeded fault: the entry keeps its place in the old control file.
Left_OldSeek(e) == [e EXCEPT !.kind = "insert", !.queued = TRUE]

\* The one entry remove_all_tracks_unlocked() leaves: in the new control file.
Left(e) == Inserted(TRUE, 1, e.track)

\* playlist_shuffle(seed, -1): of a list that was just made, before it is started;
\* the library's play button does it to any list.
ShuffleNew(seed) ==
  /\ Running /\ Room(1) /\ Amount(pl) > 0
  /\ Careful => ~pl.started /\ Replay(ctl, fromFile).sorted
  /\ LET p == Randomise(pl, seed, FALSE)
     IN  pl' = p /\ Log(<<CShuffle(seed, p.first)>>)
  /\ UNCHANGED <<synced, fromFile, saved, phase>>

\* remove_all_tracks_unlocked(): the current track stays, queued, in a new
\* control file.
RemoveAll ==
  /\ Running /\ InList(pl, pl.index) /\ MaxLines > 0
  /\ LET e == EntryAt(pl, pl.index)
     IN  /\ pl' = [pl EXCEPT !.idx = <<Left(e)>>, !.index = 0,
                             !.first = 0, !.last = IF @ = 0 THEN -1 ELSE 0]
         /\ ctl' = <<CAdd(0, TRUE, e.track, 0)>>
  /\ synced' = 1 /\ fromFile' = FALSE
  /\ UNCHANGED <<saved, phase>>

-----------------------------------------------------------------------------
\* Going on to another track.

NextIndex(p, steps, mode) ==
  LET n == Amount(p)
      m == IF mode = "shuffle" /\ n <= 1 THEN "all" ELSE mode
      shown == Rotate(p, p.index) + steps
      round == (p.index + steps) % n
      kept == {k \in 0 .. n - 1 : ~EntryAt(p, (round + k) % n).queued}
      next == CASE m \in {"off", "shuffle"} ->
                     IF shown < 0 \/ shown >= n THEN -1 ELSE (shown + p.first) % n
                [] m = "one" -> p.index
                [] m = "all" ->
                     IF steps < n THEN round
                     ELSE IF kept = {} THEN -1
                     ELSE (round + (CHOOSE k \in kept : \A l \in kept : k <= l)) % n
  IN  IF n = 0 \/ ~InList(p, next) THEN -1 ELSE next

\* Seeded fault: a deleted track still counts as a step.
DropOne_KeepsSteps(s, i, mode) ==
  LET k == NextIndex(s.pl, i - 1, mode)
  IN  IF k >= 0 /\ EntryAt(s.pl, k).queued
      THEN [s EXCEPT !.pl = RemoveTrack(@, k), !.log = Append(@, CDelete(k))]
      ELSE s

\* playlist_next() first deletes the queued tracks it leaves behind.
DropOne(s, i, mode) ==
  LET k == NextIndex(s.pl, i - 1, mode)
  IN  IF k >= 0 /\ EntryAt(s.pl, k).queued
      THEN [pl |-> RemoveTrack(s.pl, k), steps |-> s.steps - 1,
            log |-> Append(s.log, CDelete(k))]
      ELSE s
DropQueued(p, steps, mode) ==
  LET after[i \in 0 .. steps] ==
        IF i = 0 THEN [pl |-> p, steps |-> steps, log |-> << >>]
        ELSE DropOne(after[i - 1], i, mode)
  IN  after[steps]

\* playlist_next(); manual is is_manual_skip() in repeat-one mode.
PlaylistNext(steps, mode, manual) ==
  LET m == IF mode = "one" /\ manual THEN "all" ELSE mode
      d == IF steps > 0 /\ m /= "one" THEN DropQueued(pl, steps, mode)
           ELSE [pl |-> pl, steps |-> steps, log |-> << >>]
      k == NextIndex(d.pl, d.steps, m)
      q == [d.pl EXCEPT !.index = k]
      passed == q.last >= 0 /\ d.steps > 0 /\ Rotate(q, k) > Rotate(q, q.last)
  IN /\ Running /\ Room(Len(d.log) + 1) /\ k >= 0
     /\ pl' = IF passed THEN [q EXCEPT !.last = -1] ELSE q
     /\ Log(IF passed THEN Append(d.log, CReset) ELSE d.log)
     /\ synced' = IF ctl' = ctl THEN synced ELSE Len(ctl')
     /\ UNCHANGED <<fromFile, saved, phase>>

\* The end of the list: only repeat shuffle goes on, with the list sorted in
\* memory and shuffled again; the control file has the shuffle only.
AtEnd(steps, mode, seed) ==
  LET d == IF steps > 0 /\ mode /= "one" THEN DropQueued(pl, steps, mode)
           ELSE [pl |-> pl, steps |-> steps, log |-> << >>]
      again == mode = "shuffle" /\ Amount(d.pl) > 1
      p == Randomise(SortList([d.pl EXCEPT !.first = 0], FALSE, FALSE), seed, FALSE)
  IN /\ Running /\ Room(Len(d.log) + 1) /\ NextIndex(d.pl, d.steps, mode) < 0
     /\ Careful => ~again
     /\ IF again
        THEN pl' = [p EXCEPT !.index = 0] /\ Log(Append(d.log, CShuffle(seed, 0)))
        ELSE pl' = d.pl /\ Log(d.log)
     /\ synced' = IF d.log = << >> THEN synced ELSE Len(ctl) + Len(d.log)
     /\ UNCHANGED <<fromFile, saved, phase>>

-----------------------------------------------------------------------------
\* Going down and coming back.

\* Power is lost, between two writes: of the commands that were not synced any
\* number may have reached the disk.  The resume info is what
\* playlist_update_resume_info() saved at some time before.
Crash ==
  /\ Running /\ phase' = "down"
  /\ \E k \in synced .. Len(ctl) : ctl' = SubSeq(ctl, 1, k) /\ synced' = k
  /\ pl' = Fresh(FALSE) /\ saved' = Anything
  /\ UNCHANGED fromFile

\* playlist_shutdown(): the control file is closed; audio_stop() saves the resume
\* info first.
Shutdown ==
  /\ Running /\ phase' = "down" /\ synced' = Len(ctl) /\ pl' = Fresh(FALSE)
  /\ saved' = IF InList(pl, pl.index)
              THEN [index |-> pl.index, track |-> EntryAt(pl, pl.index).track]
              ELSE Anything
  /\ UNCHANGED <<ctl, fromFile>>

\* playlist_resume_track(): the track that was playing is looked for by its name,
\* from the saved index on.
ResumeTrack(p, info) ==
  LET n == Amount(p)
      hits == {k \in 0 .. n - 1 : EntryAt(p, (k + info.index) % n).track = info.track}
  IN  IF hits = {} THEN 0
      ELSE ((CHOOSE k \in hits : \A l \in hits : k <= l) + info.index) % n

\* playlist_resume(), then playlist_resume_track().
Resume ==
  LET p == Replay(ctl, fromFile).pl IN
  /\ phase = "down" /\ (fromFile \/ ctl /= << >>)
  /\ phase' = "on" /\ synced' = Len(ctl) /\ saved' = Anything
  /\ IF saved /= Anything THEN pl' = [p EXCEPT !.index = ResumeTrack(p, saved)]
     ELSE \E i \in 0 .. MaxSize - 1 :
            (i = 0 \/ i < Amount(p)) /\ pl' = [p EXCEPT !.index = i]
  /\ UNCHANGED <<ctl, fromFile>>

Where == {PREPEND, INSERT, INSERT_LAST, INSERT_FIRST, INSERT_SHUFFLED,
          LAST_SHUFFLED}
Dice == 0 .. MaxSize - 1
Rolls(pos) == IF pos \in {INSERT_SHUFFLED, LAST_SHUFFLED} THEN Dice ELSE {0}

Adds ==
  \E pos \in Where, queue \in BOOLEAN, t \in Track :
    \/ \E r \in Rolls(pos), sync \in BOOLEAN : Insert(pos, queue, t, r, sync)
    \/ \E u \in Track \ {t}, r, r2 \in Rolls(pos) : InsertBatch(pos, queue, t, u, r, r2)

Moves == \E i, j \in 0 .. MaxSize - 1 : Move(i, j)

Deletes == \E i \in 0 .. MaxSize - 1 : Delete(i)

Shuffles ==
  \/ Unshuffle
  \/ \E seed \in Seeds : ShuffleOn(seed) \/ ShuffleNew(seed)
  \/ \E seed \in Seeds, startCurrent \in BOOLEAN : SortAndShuffle(seed, startCurrent)

Steps ==
  \E steps \in {-1, 1, 2}, mode \in Modes :
    \/ \E manual \in BOOLEAN : PlaylistNext(steps, mode, manual)
    \/ \E seed \in Seeds : AtEnd(steps, mode, seed)

Next ==
  \/ \E i \in 0 .. Len(Files) - 1 :
       \/ CreateAndStart(i)
       \/ \E seed \in Seeds, selected \in BOOLEAN : CreateShuffled(i, seed, selected)
  \/ CreateEmpty \/ Start
  \/ Adds \/ Moves \/ Deletes \/ Shuffles \/ RemoveAll \/ Steps
  \/ Crash \/ Shutdown \/ Resume

Spec == Init /\ [][Next]_vars

-----------------------------------------------------------------------------
\* Properties.

\* Type invariant: positions stay in the list or just behind it.
TypeOK ==
  /\ phase \in {"on", "down"} /\ fromFile \in BOOLEAN
  /\ Amount(pl) <= MaxSize
  /\ pl.index \in 0 .. Amount(pl) /\ pl.first \in 0 .. Amount(pl)
  /\ pl.last \in -1 .. Amount(pl)
  /\ synced \in 0 .. Len(ctl) /\ Len(ctl) <= MaxLines

\* The commands in the control file, carried out again, give the list there is in
\* memory: the same tracks at the same places and the same first one.  (Where
\* remove_all_tracks_unlocked() has -1 for the last insertion its command says 0.)
ResumeExact ==
  Running => LET p == Replay(ctl, fromFile).pl
             IN  /\ p.idx = pl.idx /\ p.first = pl.first
                 /\ p.last = pl.last \/ {p.last, pl.last} = {-1, 0}

\* Every entry names a track: one of the playlist file, or the line of the control
\* file that added it, with the same name and the same kind.
EntriesNamed ==
  Running => \A i \in 1 .. Amount(pl) :
    LET e == pl.idx[i] IN
    IF e.kind = "list"
    THEN fromFile /\ \E k \in DOMAIN Files : e = ListEntry(k)
    ELSE e.seek \in 1 .. Len(ctl) /\
         LET c == ctl[e.seek] IN c.op = (IF e.queued THEN "Q" ELSE "A") /\ c.track = e.track

\* The list is well formed: its positions are in range and its entries stand for
\* tracks that can be found again.
WellFormed == TypeOK /\ EntriesNamed

\* Adding, moving, deleting another track, shuffling and unshuffling do not change
\* what is playing.
Logged(n) == Running /\ phase' = "on" /\ Len(ctl') = Len(ctl) + n
KeepsTrack ==
  \/ \E n \in 1 .. 2 : Logged(n) /\ Last(ctl').op \in {"A", "Q", "S", "U"}
  \/ \E i \in 0 .. Amount(pl) - 1 :
       /\ i /= pl.index /\ Logged(1) /\ Last(ctl') = CDelete(i)
       /\ pl' = RemoveTrack(pl, i)
TrackKept ==
  [][KeepsTrack /\ pl.started /\ InList(pl, pl.index) => Current(pl').track = Current(pl).track]_vars

\* Moving a track takes it to the row it was moved to, as the rows are shown, and
\* leaves the others in their order.
Moved(i) == Logged(2) /\ ctl'[Len(ctl) + 1] = CDelete(i)
MoveShows ==
  [][\A i, j \in 0 .. Amount(pl) - 1 : Moved(i) /\ Move(i, j) =>
       Shown(pl') = InsertAt(RemoveAt(Shown(pl), Rotate(pl, i) + 1),
                             Rotate(pl, j) + 1, EntryAt(pl, i).track)]_vars

\* A track added at the end is shown last and one added at the start first; the
\* others keep their order.
EndsMeant ==
  [][Logged(1) /\ Last(ctl').op \in {"A", "Q"} =>
       LET t == Last(ctl').track
           Did(pos) == \E queue, sync \in BOOLEAN : Insert(pos, queue, t, 0, sync)
       IN  /\ Did(INSERT_LAST) => Shown(pl') = Append(Shown(pl), t)
           /\ Did(PREPEND) => Shown(pl') = <<t>> \o Shown(pl)]_vars

\* Going on by one track comes to the track playlist_peek() announced, also when
\* the one that is left was queued and is deleted.
Stepped == Running /\ phase' = "on" /\ \/ Len(ctl') = Len(ctl) /\ pl' /= pl
                                       \/ Len(ctl') > Len(ctl) /\ Last(ctl').op \in {"D", "R"}
NextLands ==
  [][Stepped => \A steps \in {-1, 1}, mode \in Modes :
       LET k == NextIndex(pl, steps, mode)
       IN  k >= 0 /\ PlaylistNext(steps, mode, FALSE)
             => Current(pl').track = EntryAt(pl, k).track]_vars
=============================================================================
