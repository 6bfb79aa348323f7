---------------------------- MODULE MCDlnaWindow ----------------------------
EXTENDS DlnaWindow
=============================================================================
