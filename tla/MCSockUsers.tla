---------------------------- MODULE MCSockUsers ----------------------------
EXTENDS SockUsers, TLC

Symmetry == Permutations(Job) \cup Permutations(Client)
=============================================================================
