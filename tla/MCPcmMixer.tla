---------------------------- MODULE MCPcmMixer ----------------------------
EXTENDS PcmMixer, TLC

Symmetric == Permutations(Channels) \cup Permutations(Users)
=============================================================================
