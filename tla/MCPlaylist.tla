----------------------------- MODULE MCPlaylist -----------------------------
EXTENDS Playlist

MCFiles == <<"f1", "f2", "f3">>
MCFileSeek == <<0, 2, 4>>
\* What rand() returns after srand(): the first seed turns a list of two around.
MCRand == [seed \in {1, 2} |-> [k \in 1 .. 5 |-> IF seed = 1 THEN k \div 2 ELSE 2 * k + 1]]
Users == Permutations(Track)
=============================================================================
