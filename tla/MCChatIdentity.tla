--------------------------- MODULE MCChatIdentity ---------------------------
EXTENDS ChatIdentity, TLC

CONSTANTS u1, u2, w1, w2, c1, c2, h1, h2

Symmetry == Permutations(User) \cup Permutations(Workspace) \cup Permutations(Chat)
                \cup Permutations(Handler)
=============================================================================
