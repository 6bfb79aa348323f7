--------------------------- MODULE MCDlnaRenderer ---------------------------
(* Small instance of DlnaRenderer for TLC.                                 *)
EXTENDS DlnaRenderer
=============================================================================
