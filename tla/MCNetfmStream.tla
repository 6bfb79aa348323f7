--------------------------- MODULE MCNetfmStream ---------------------------
(* Small instances of NetfmStream for TLC.                                 *)
EXTENDS NetfmStream, TLC

(* Users, decoder slots and codecs are interchangeable.                    *)
Symmetry == Permutations(Ctl) \cup Permutations(Dec) \cup Permutations(Codecs)
=============================================================================
