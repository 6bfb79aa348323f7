----------------------------- MODULE MCBtInput -----------------------------
EXTENDS BtInput
=============================================================================
