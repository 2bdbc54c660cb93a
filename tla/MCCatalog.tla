------------------------------ MODULE MCCatalog ------------------------------
EXTENDS Catalog, TLC

CONSTANTS system, c1, c2, r1, r2, x1, o1, rub, usd

\* A name of the members in two ways of writing.
Folded == [n \in Name \cup {SystemName} |-> IF n = "FUN" THEN "fun" ELSE n]

Slots == Permutations({c1, c2}) \cup Permutations({r1, r2}) \cup Permutations({rub, usd})
=============================================================================
