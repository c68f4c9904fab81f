-------------------------- MODULE MCChannelHealth --------------------------
EXTENDS ChannelHealth, TLC

Symmetry == Permutations(Caller)
=============================================================================
