------------------------ MODULE MCChatConversation ------------------------
EXTENDS ChatConversation

CONSTANTS r1, r2, a1, h1, h2

\* The rows come from two statements that overlap.
OneHash == [r \in Row |-> r1]

\* One row repeats what was imported before, as far as its facts tell.
OneDuplicate == [r \in Row |-> IF r = r2 THEN "possible_duplicate" ELSE "open"]
=============================================================================
