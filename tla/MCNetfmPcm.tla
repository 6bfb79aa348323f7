----------------------------- MODULE MCNetfmPcm -----------------------------
EXTENDS NetfmPcm
=============================================================================
