--------------------------- MODULE MCUserSessions ---------------------------
EXTENDS UserSessions, TLC

CONSTANTS s1, s2, s3, q1, q2

Symmetry == Permutations(Session) \cup Permutations(Request)
=============================================================================
