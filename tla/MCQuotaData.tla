---------------------------- MODULE MCQuotaData ----------------------------
EXTENDS QuotaData, TLC

Symmetry == Permutations(Node) \cup Permutations(Key)
=============================================================================
