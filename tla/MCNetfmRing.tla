---------------------------- MODULE MCNetfmRing ----------------------------
EXTENDS NetfmRing
=============================================================================
