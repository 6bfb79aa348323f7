----------------------------- MODULE NetfmFifo -----------------------------
(***************************************************************************)
(* What the compressed ring of the network radio promises to the thread    *)
(* that fills it and to the codec that empties it: a bounded first-in      *)
(* first-out queue of the bytes 1, 2, 3, ... of the stream.  A write is    *)
(* whole or absent, nothing is written once the queue is closed, and the   *)
(* content may only be thrown away after that.                             *)
(***************************************************************************)
EXTENDS Naturals, Sequences

CONSTANT Cap        \* bytes the queue holds when it is full

VARIABLES
  queue,            \* bytes written and not yet taken
  put,              \* bytes written since the beginning
  open              \* FALSE once the stream was stopped

vars == <<queue, put, open>>

Init == queue = << >> /\ put = 0 /\ open = TRUE

\* The next k bytes of the stream, all of them at once.
Put(k) ==
  /\ open /\ Len(queue) + k <= Cap
  /\ queue' = queue \o [i \in 1 .. k |-> put + i]
  /\ put' = put + k
  /\ UNCHANGED open

\* The n oldest bytes leave, in order.
Take(n) ==
  /\ n <= Len(queue)
  /\ queue' = SubSeq(queue, n + 1, Len(queue))
  /\ UNCHANGED <<put, open>>

Close == open' = FALSE /\ UNCHANGED <<queue, put>>

Discard == ~open /\ queue' = << >> /\ UNCHANGED <<put, open>>

Next ==
  \/ \E k \in 1 .. Cap : Put(k) \/ Take(k)
  \/ Close
  \/ Discard

Spec == Init /\ [][Next]_vars
=============================================================================
