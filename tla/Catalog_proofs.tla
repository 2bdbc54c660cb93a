--------------------------- MODULE Catalog_proofs ---------------------------
(***************************************************************************)
(* Proofs about Catalog, for any number of categories, names, rules, rows  *)
(* and operations. References stand because commands delete only what      *)
(* nothing names (TargetsOK, RowsOK, OperationsOK), and the account keeps  *)
(* its currency while any row or operation is there. The loop that selects *)
(* a rule is a recursion over the list; that it finds the best rule in     *)
(* lists of every length is shown by a least counterexample.               *)
(***************************************************************************)
EXTENDS Catalog, FiniteSetTheorems, SequenceTheorems, WellFoundedInduction, TLAPS

\* A set of natural numbers that is not empty has a least element: what
\* stands for an induction over positions of a list below.
LEMMA LeastNat == ASSUME NEW T \in SUBSET Nat, T # {} PROVE \E n \in T : \A m \in T : n <= m
<1> DEFINE L == OpToRel(<, Nat)
<1>1. IsWellFoundedOn(L, Nat)
  BY NatLessThanWellFounded, Zenon
<1>2. \A n, m \in Nat : n < m => <<n, m>> \in L
  BY SMT DEF OpToRel
<1> HIDE DEF L
<1>3. PICK x \in T : \A y \in T : ~(<<y,x>> \in L)
  BY <1>1, WFMin, Zenon
<1>5. \A m \in T : ~(m < x)
  BY <1>2, <1>3, Zenon
<1>4. QED
  BY <1>5

\* A set of positions has a last one.
LEMMA GreatestIndex ==
  ASSUME NEW n \in Nat, NEW s \in SUBSET (1..n), s # {}
  PROVE  /\ Max(s) \in s
         /\ \A i \in s : i <= Max(s)
<1> DEFINE distances == {n - i : i \in s}
<1>0. \A i \in s : i \in 1..n /\ n - i \in Nat
  OBVIOUS
<1>1. distances \in SUBSET Nat /\ distances # {}
  BY <1>0
<1>2. PICK d \in distances : \A e \in distances : d <= e
  BY <1>1, LeastNat, Zenon
<1>3. PICK i \in s : d = n - i
  BY <1>2
<1>4. \A j \in s : n - i <= n - j
  BY <1>2, <1>3
<1>5. \A j \in s : i >= j
  BY <1>0, <1>4
<1>6. QED
  BY <1>5 DEF Max

-----------------------------------------------------------------------------
\* The positions of the active rules that match, in the order of the list.
Candidates(matching) ==
  {i \in DOMAIN rules : rule[rules[i]].status = "active" /\ rules[i] \in matching}

\* How much the rule at a position says about the row.
Says(i, narrow) == Score(rules[i], narrow)

\* The candidates that say most, the first of those.
BestOf(cs, narrow) ==
  {i \in cs : \A j \in cs : \/ Says(j, narrow) < Says(i, narrow)
                            \/ Says(j, narrow) = Says(i, narrow) /\ i <= j}

\* What the loop has found when it has seen the rules at s.
BestAmong(s, matching, narrow) ==
  LET cs == Candidates(matching) \cap s IN
  IF cs = {} THEN NoRule ELSE rules[CHOOSE i : i \in BestOf(cs, narrow)]

\* A score is one of four numbers.
LEMMA ScoreType == \A r, narrow : Score(r, narrow) \in 0..3
BY DEF Score

\* There is one best among candidates.
LEMMA OneBest ==
  ASSUME NEW n \in Nat, NEW cs \in SUBSET (1..n), cs # {}, NEW narrow
  PROVE  \E i \in cs : BestOf(cs, narrow) = {i}
<1> DEFINE scores == {3 - Says(i, narrow) : i \in cs}
           says == [i \in cs |-> Says(i, narrow)]
<1>1. says \in [cs -> 0..3]
  BY ScoreType DEF Says
<1>2. scores \in SUBSET Nat /\ scores # {}
  <2>1. scores = {3 - says[i] : i \in cs}
    OBVIOUS
  <2>2. \A i \in cs : 3 - says[i] \in Nat
    BY <1>1
  <2> HIDE DEF says, scores
  <2>3. QED
    BY <2>1, <2>2
<1>3. PICK d \in scores : \A e \in scores : d <= e
  BY <1>2, LeastNat, Zenon
<1>4. PICK k \in cs : d = 3 - says[k]
  BY <1>3
<1>5. \A j \in cs : 3 - says[k] <= 3 - says[j]
  BY <1>3, <1>4
<1>6. BestOf(cs, narrow) =
        {i \in cs : \A j \in cs : \/ says[j] < says[i]
                                  \/ says[j] = says[i] /\ i <= j}
  BY DEF BestOf
<1> HIDE DEF says, scores
<1>7. \A j \in cs : says[j] <= says[k]
  BY <1>5, <1>1
<1> DEFINE top == {j \in cs : says[j] = says[k]}
<1>8. top \in SUBSET Nat /\ top # {}
  <2>1. cs \subseteq Nat
    OBVIOUS
  <2>2. QED
    BY <2>1, <1>4
<1>9. PICK i \in top : \A j \in top : i <= j
  BY <1>8, LeastNat, Zenon
<1>10. \A j \in cs : says[j] < says[i] \/ (says[j] = says[i] /\ i <= j)
  BY <1>7, <1>9, <1>1
<1>11. ASSUME NEW j \in cs, \A m \in cs : says[m] < says[j] \/ (says[m] = says[j] /\ j <= m)
       PROVE  j = i
  <2>1. says[i] \in 0..3 /\ says[j] \in 0..3 /\ i \in Nat /\ j \in Nat
    BY <1>1, <1>9
  <2>2. QED
    BY <1>10, <1>11, <2>1, <1>9
<1>12. i \in BestOf(cs, narrow)
  BY <1>6, <1>9, <1>10
<1>13. \A j \in BestOf(cs, narrow) : j \in cs /\ j = i
  BY <1>6, <1>11
<1>14. QED
  BY <1>9, <1>12, <1>13

\* What the loop has found after one more rule: that one, if it is a
\* candidate and says more than what was found before.
LEMMA BestAmongStep ==
  ASSUME NEW n \in Nat, rules \in Seq(Rule), Len(rules) = n, NoRule \notin Rule,
         NEW s \in SUBSET (1..n), s # {}, NEW matching, NEW narrow
  PROVE  BestAmong(s, matching, narrow) =
           LET x == Max(s)
               best == BestAmong(s \ {x}, matching, narrow)
           IN IF rule[rules[x]].status = "active" /\ rules[x] \in matching
                 /\ (best = NoRule \/ Score(rules[x], narrow) > Score(best, narrow))
              THEN rules[x] ELSE best
<1> DEFINE x == Max(s)
           cs == Candidates(matching) \cap s
           ds == Candidates(matching) \cap (s \ {x})
           best == BestAmong(s \ {x}, matching, narrow)
<1>1. x \in s /\ \A i \in s : i <= x
  BY GreatestIndex, Zenon
<1>2. DOMAIN rules = 1..n /\ \A i \in 1..n : rules[i] \in Rule
  OBVIOUS
<1>3. x \in Candidates(matching) <=> rule[rules[x]].status = "active" /\ rules[x] \in matching
  BY <1>1, <1>2 DEF Candidates
<1> HIDE DEF x
<1>4. BestAmong(s, matching, narrow) =
        IF cs = {} THEN NoRule ELSE rules[CHOOSE i : i \in BestOf(cs, narrow)]
  BY DEF BestAmong
<1>5. best = IF ds = {} THEN NoRule ELSE rules[CHOOSE i : i \in BestOf(ds, narrow)]
  BY DEF BestAmong
<1>6. CASE x \notin Candidates(matching)
  <2>1. cs = ds
    BY <1>6
  <2>2. QED
    BY <2>1, <1>3, <1>4, <1>5, <1>6 DEF x
<1>7. CASE x \in Candidates(matching) /\ ds = {}
  <2>1. cs = {x}
    BY <1>1, <1>7
  <2>2. BestOf(cs, narrow) = {x}
    BY <2>1, <1>1, ScoreType DEF BestOf, Says
  <2>3. BestAmong(s, matching, narrow) = rules[x]
    BY <1>4, <2>1, <2>2
  <2>4. QED
    BY <2>3, <1>3, <1>5, <1>7 DEF x
<1>8. CASE x \in Candidates(matching) /\ ds # {}
  <2>1. cs = ds \cup {x} /\ ds \in SUBSET (1..n) /\ x \notin ds /\ x \in 1..n
    BY <1>1, <1>8
  <2>2. PICK k \in ds : BestOf(ds, narrow) = {k}
    BY <1>8, <2>1, OneBest, Zenon
  <2>3. best = rules[k]
    BY <1>5, <1>8, <2>2
  <2>4. best # NoRule
    BY <2>3, <2>1, <1>2
  <2>5. k < x /\ k \in 1..n
    BY <2>1, <1>1
  <2> HIDE DEF cs, ds, best
  <2>6. \A i : Says(i, narrow) \in 0..3
    BY ScoreType DEF Says
  <2>7. \A j \in ds : Says(j, narrow) < Says(k, narrow)
                      \/ (Says(j, narrow) = Says(k, narrow) /\ k <= j)
    BY <2>2 DEF BestOf
  <2>8. CASE Says(x, narrow) > Says(k, narrow)
    <3>1. BestOf(cs, narrow) = {x}
      <4>1. x \in BestOf(cs, narrow)
        BY <2>1, <2>6, <2>7, <2>8 DEF BestOf
      <4>2. ASSUME NEW i \in BestOf(cs, narrow), i # x PROVE FALSE
        <5>1. i \in ds /\ (Says(x, narrow) < Says(i, narrow) \/ Says(x, narrow) = Says(i, narrow))
          BY <4>2, <2>1 DEF BestOf
        <5>2. Says(i, narrow) <= Says(k, narrow)
          BY <5>1, <2>6, <2>7
        <5>3. QED
          BY <5>1, <5>2, <2>6, <2>8
      <4>3. QED
        BY <4>1, <4>2
    <3>2. BestAmong(s, matching, narrow) = rules[x]
      BY <1>4, <2>1, <3>1
    <3>3. QED
      BY <3>2, <1>3, <1>8, <2>3, <2>8 DEF x, best, Says
  <2>9. CASE ~(Says(x, narrow) > Says(k, narrow))
    <3>1. BestOf(cs, narrow) = {k}
      <4>0. Says(x, narrow) < Says(k, narrow) \/ Says(x, narrow) = Says(k, narrow)
        BY <2>9, <2>6
      <4>1. k \in BestOf(cs, narrow)
        BY <2>1, <2>2, <2>5, <2>7, <4>0 DEF BestOf
      <4>2. ASSUME NEW i \in BestOf(cs, narrow), i # k PROVE FALSE
        <5>1. CASE i = x
          <6>1. Says(k, narrow) < Says(x, narrow) \/ x <= k
            BY <4>2, <5>1, <2>1, <2>2 DEF BestOf
          <6>2. QED
            BY <6>1, <2>5, <2>9, <2>1, <2>6
        <5>2. CASE i # x
          <6>1. i \in BestOf(ds, narrow)
            BY <4>2, <5>2, <2>1 DEF BestOf
          <6>2. QED
            BY <6>1, <4>2, <2>2
        <5>3. QED
          BY <5>1, <5>2
      <4>3. QED
        BY <4>1, <4>2
    <3>2. BestAmong(s, matching, narrow) = rules[k]
      BY <1>4, <2>1, <3>1
    <3>3. QED
      BY <3>2, <2>3, <2>4, <2>9 DEF x, best, Says
  <2>10. QED
    BY <2>8, <2>9
<1>9. QED
  BY <1>6, <1>7, <1>8

\* The loop of select_best_rule as the recursion a fold stands for.
SelectRec(matching, narrow) ==
  CHOOSE iter : iter =
    [s \in SUBSET DOMAIN rules |->
       IF s = {} THEN NoRule
       ELSE IF rule[rules[Max(s)]].status = "active" /\ rules[Max(s)] \in matching
               /\ (iter[s \ {Max(s)}] = NoRule
                   \/ Score(rules[Max(s)], narrow) > Score(iter[s \ {Max(s)}], narrow))
            THEN rules[Max(s)] ELSE iter[s \ {Max(s)}]]

\* The fold is that recursion.
LEMMA SelectBestUnfolded ==
  \A matching, narrow :
    SelectBest(matching, narrow) = SelectRec(matching, narrow)[DOMAIN rules]
BY DEF SelectBest, SelectRec, FoldLeft, MapThenFoldSet

\* The loop finds the best rule. If it did not on the first k rules, take the
\* least such k: it did on the first k - 1, and one more rule is
\* BestAmongStep.
LEMMA SelectBestIs ==
  ASSUME rules \in Seq(Rule), NoRule \notin Rule, NEW matching, NEW narrow
  PROVE  SelectBest(matching, narrow) = BestAmong(DOMAIN rules, matching, narrow)
<1> DEFINE n == Len(rules)
           Picked(s, best) ==
             IF s = {} THEN NoRule
             ELSE IF rule[rules[Max(s)]].status = "active" /\ rules[Max(s)] \in matching
                     /\ (best = NoRule \/ Score(rules[Max(s)], narrow) > Score(best, narrow))
                  THEN rules[Max(s)] ELSE best
           closed == [s \in SUBSET DOMAIN rules |-> BestAmong(s, matching, narrow)]
           loop == SelectRec(matching, narrow)
<1>1. n \in Nat /\ DOMAIN rules = 1..n
  OBVIOUS
<1>2. \A s \in SUBSET DOMAIN rules :
        BestAmong(s, matching, narrow) = Picked(s, BestAmong(s \ {Max(s)}, matching, narrow))
  <2>1. BestAmong({}, matching, narrow) = NoRule
    BY DEF BestAmong
  <2>2. ASSUME NEW s \in SUBSET (1..n), s # {}
        PROVE  BestAmong(s, matching, narrow) = Picked(s, BestAmong(s \ {Max(s)}, matching, narrow))
    BY <1>1, <2>2, BestAmongStep, Zenon
  <2>3. QED
    BY <1>1, <2>1, <2>2
<1>3. closed = [s \in SUBSET DOMAIN rules |-> Picked(s, closed[s \ {Max(s)}])]
  <2>1. \A s \in SUBSET DOMAIN rules :
           closed[s \ {Max(s)}] = BestAmong(s \ {Max(s)}, matching, narrow)
    OBVIOUS
  <2> HIDE DEF Picked
  <2>2. QED
    BY <1>2, <2>1
<1>4. loop = [s \in SUBSET DOMAIN rules |-> Picked(s, loop[s \ {Max(s)}])]
  <2>1. loop = CHOOSE iter : iter = [s \in SUBSET DOMAIN rules |-> Picked(s, iter[s \ {Max(s)}])]
    BY DEF SelectRec
  <2> HIDE DEF Picked, loop, closed
  <2>2. QED
    BY <1>3, <2>1, Zenon
<1> HIDE DEF loop, Picked
<1>5. ASSUME NEW k \in 0..n, loop[1..k] # BestAmong(1..k, matching, narrow) PROVE FALSE
  <2> DEFINE wrong == {m \in 0..n : loop[1..m] # BestAmong(1..m, matching, narrow)}
  <2>1. PICK m \in wrong : \A j \in wrong : m <= j
    <3>1. wrong \in SUBSET Nat /\ wrong # {}
      BY <1>5, <1>1
    <3>2. QED
      BY <3>1, LeastNat, Zenon
  <2>0. 1..m \in SUBSET DOMAIN rules
    BY <1>1, <2>1
  <2>2. loop[1..m] = Picked(1..m, loop[(1..m) \ {Max(1..m)}])
    <3> DEFINE f == [s \in SUBSET DOMAIN rules |-> Picked(s, loop[s \ {Max(s)}])]
    <3>1. f[1..m] = Picked(1..m, loop[(1..m) \ {Max(1..m)}])
      BY <2>0, Zenon
    <3>2. QED
      BY <1>4, <3>1, Zenon
  <2>3. BestAmong(1..m, matching, narrow)
          = Picked(1..m, BestAmong((1..m) \ {Max(1..m)}, matching, narrow))
    BY <1>1, <1>2
  <2>4. CASE m = 0
    BY <2>1, <2>2, <2>3, <2>4 DEF Picked
  <2>5. CASE m # 0
    <3>1. Max(1..m) = m
      <4>1. Max(1..m) \in 1..m /\ \A i \in 1..m : i <= Max(1..m)
        <5>1. m \in Nat /\ 1..m \in SUBSET (1..m) /\ 1..m # {}
          BY <2>1, <2>5, <1>1
        <5>2. QED
          BY <5>1, GreatestIndex, Zenon
      <4>2. QED
        BY <4>1, <2>1, <2>5, <1>1
    <3>2. (1..m) \ {m} = 1..(m - 1) /\ m - 1 \in 0..n /\ ~(m <= m - 1)
      BY <2>1, <2>5, <1>1
    <3>3. loop[1..(m - 1)] = BestAmong(1..(m - 1), matching, narrow)
      BY <2>1, <3>2
    <3>4. QED
      BY <2>1, <2>2, <2>3, <3>1, <3>2, <3>3
  <2>6. QED
    BY <2>4, <2>5
<1>6. loop[1..n] = BestAmong(1..n, matching, narrow)
  BY <1>1, <1>5
<1>7. QED
  BY <1>1, <1>6, SelectBestUnfolded DEF loop

\* The loop picks the rule that says most, the oldest of those.
LEMMA SelectBestChoosesBest ==
  ASSUME rules \in Seq(Rule), NoRule \notin Rule, NEW matching, NEW narrow
  PROVE  LET cs == Candidates(matching)
         IN IF cs = {} THEN SelectBest(matching, narrow) = NoRule
            ELSE \E i \in cs : /\ BestOf(cs, narrow) = {i}
                               /\ SelectBest(matching, narrow) = rules[i]
<1> DEFINE cs == Candidates(matching)
<1>1. cs \in SUBSET (1..Len(rules)) /\ Len(rules) \in Nat /\ cs \cap DOMAIN rules = cs
  BY DEF Candidates
<1>2. SelectBest(matching, narrow) =
        IF cs = {} THEN NoRule ELSE rules[CHOOSE i : i \in BestOf(cs, narrow)]
  BY <1>1, SelectBestIs DEF BestAmong
<1> HIDE DEF cs
<1>3. CASE cs = {}
  BY <1>2, <1>3 DEF cs
<1>4. CASE cs # {}
  <2>1. PICK i \in cs : BestOf(cs, narrow) = {i}
    BY <1>1, <1>4, OneBest, Zenon
  <2>2. (CHOOSE j : j \in BestOf(cs, narrow)) = i
    BY <2>1
  <2>3. QED
    BY <1>2, <1>4, <2>1, <2>2 DEF cs
<1>5. QED
  BY <1>3, <1>4

\* In a sequence that names nothing twice, removing an element removes it and
\* nothing else.
LEMMA RemoveFirstProperties ==
  ASSUME NEW S, NEW s \in Seq(S), IsInjective(s), NEW e
  PROVE  /\ RemoveFirst(s, e) \in Seq(S) /\ IsInjective(RemoveFirst(s, e))
         /\ ToSet(RemoveFirst(s, e)) = ToSet(s) \ {e}
<1>1. CASE ~ \E i \in 1..Len(s) : s[i] = e
  <2>1. RemoveFirst(s, e) = s
    BY <1>1 DEF RemoveFirst
  <2>2. QED
    BY <1>1, <2>1 DEF ToSet
<1>2. CASE \E i \in 1..Len(s) : s[i] = e
  <2>1. PICK i \in 1..Len(s) : s[i] = e
    BY <1>2
  <2>2. {j \in 1..Len(s) : s[j] = e} = {i}
    BY <2>1 DEF IsInjective
  <2>3. SelectInSeq(s, LAMBDA v : v = e) = Min({i})
    BY <2>2 DEF SelectInSeq
  <2>4. Min({i}) = i
    BY <2>1 DEF Min
  <2> DEFINE t == RemoveAt(s, i)
  <2>5. RemoveFirst(s, e) = t
    BY <1>2, <2>3, <2>4 DEF RemoveFirst
  <2>6. t \in Seq(S) /\ Len(t) = Len(s) - 1
     /\ \A j \in 1..Len(s) - 1 : t[j] = IF j < i THEN s[j] ELSE s[j+1]
    <3> DEFINE u == SubSeq(s, 1, i-1)
               v == SubSeq(s, i+1, Len(s))
    <3>0. i \in Nat /\ Len(s) \in Nat /\ i >= 1 /\ i <= Len(s)
      BY <2>1
    <3>1. u \in Seq(S) /\ Len(u) = i - 1 /\ \A j \in 1..i-1 : u[j] = s[j]
      BY <3>0
    <3>2. v \in Seq(S) /\ Len(v) = Len(s) - i /\ \A j \in 1..(Len(s) - i) : v[j] = s[i + j]
      BY <3>0
    <3>3. t = u \o v
      BY DEF RemoveAt
    <3> HIDE DEF u, v, t
    <3>4. t \in Seq(S) /\ Len(t) = Len(s) - 1
      BY <3>0, <3>1, <3>2, <3>3
    <3>5. ASSUME NEW j \in 1..Len(s) - 1 PROVE t[j] = IF j < i THEN s[j] ELSE s[j+1]
      <4>0. \A k \in 1 .. Len(u) + Len(v) :
               (u \o v)[k] = IF k <= Len(u) THEN u[k] ELSE v[k - Len(u)]
        BY <3>1, <3>2, ConcatProperties, Zenon
      <4>6. j \in 1 .. Len(u) + Len(v)
        BY <3>0, <3>1, <3>2
      <4>1. t[j] = IF j <= Len(u) THEN u[j] ELSE v[j - Len(u)]
        BY <4>0, <4>6, <3>3, Zenon
      <4>2. CASE j < i
        BY <4>1, <4>2, <3>1, <3>0
      <4>3. CASE j >= i
        <5>1. t[j] = v[j - (i - 1)]
          BY <4>1, <4>3, <3>1, <3>0
        <5>2. j - (i-1) \in 1..(Len(s) - i)
          BY <4>3, <3>0
        <5>3. v[j - (i - 1)] = s[i + (j - (i-1))]
          BY <5>2, <3>2
        <5>4. i + (j - (i-1)) = j + 1
          BY <3>0
        <5>5. QED
          BY <5>1, <5>3, <5>4, <4>3, <3>0
      <4>4. QED
        BY <4>2, <4>3, <3>0
    <3>6. QED
      BY <3>4, <3>5
  <2> HIDE DEF t
  <2>7. IsInjective(t)
    <3>0. DOMAIN t = 1..Len(s) - 1
      BY <2>6
    <3>1. SUFFICES ASSUME NEW j \in 1..Len(s) - 1, NEW k \in 1..Len(s) - 1, t[j] = t[k] PROVE j = k
      BY <3>0 DEF IsInjective
    <3>2. \A l, m \in 1..Len(s) : s[l] = s[m] => l = m
      BY DEF IsInjective
    <3>3. \A l \in 1..Len(s) - 1 : l \in 1..Len(s) /\ l + 1 \in 1..Len(s)
      OBVIOUS
    <3>4. QED
      BY <3>1, <3>2, <3>3, <2>6
  <2>8. ToSet(t) = ToSet(s) \ {e}
    <3>0. /\ ToSet(s) = {s[j] : j \in 1..Len(s)}
          /\ ToSet(t) = {t[j] : j \in 1..Len(s) - 1}
      <4>1. DOMAIN s = 1..Len(s)
        OBVIOUS
      <4>2. DOMAIN t = 1..Len(s) - 1
        BY <2>6
      <4>3. QED
        BY <4>1, <4>2, Zenon DEF ToSet
    <3>1. ASSUME NEW j \in 1..Len(s) - 1 PROVE t[j] \in ToSet(s) \ {e}
      <4>1. \A k \in 1..Len(s) : s[k] = e => k = i
        BY <2>1 DEF IsInjective
      <4>2. \A l \in 1..Len(s) - 1 : l \in 1..Len(s) /\ l + 1 \in 1..Len(s)
        OBVIOUS
      <4>3. CASE j < i
        BY <3>0, <4>1, <4>2, <4>3, <2>6, <2>1
      <4>4. CASE j >= i
        BY <3>0, <4>1, <4>2, <4>4, <2>6, <2>1
      <4>5. QED
        BY <4>3, <4>4, <2>1
    <3>2. ASSUME NEW j \in 1..Len(s), s[j] # e PROVE s[j] \in ToSet(t)
      <4>1. CASE j < i
        <5>1. j \in 1..Len(s) - 1 /\ t[j] = s[j]
          BY <4>1, <2>6, <2>1
        <5>2. QED
          BY <5>1, <3>0
      <4>2. CASE j > i
        <5>1. j-1 \in 1..Len(s) - 1 /\ t[j-1] = s[j]
          BY <4>2, <2>6, <2>1
        <5>2. QED
          BY <5>1, <3>0
      <4>3. QED
        BY <4>1, <4>2, <3>2, <2>1
    <3>3. QED
      BY <3>0, <3>1, <3>2
  <2>9. QED
    BY <2>5, <2>6, <2>7, <2>8
<1>3. QED
  BY <1>1, <1>2

-----------------------------------------------------------------------------
\* Categories are well typed, and only a name that is seeded is taken twice.
CategoriesOK == category \in [Category -> CategoryRecord] /\ OnlySeededTwice

\* The list has every rule that exists, once.
RulesOK ==
  /\ rule \in [Rule -> RuleRecord]
  /\ rules \in Seq(Rule) /\ ToSet(rules) = ExistingRules /\ IsInjective(rules)

\* Active rules can be used, and what a rule names is there.
TargetsOK ==
  /\ ActiveRulesUsable
  /\ \A r \in ExistingRules : rule[r].category \in Existing \cup {NoCategory}

\* The rows of a statement come together.
RowsTogether ==
  \A x, y \in Row : row[x].status = "absent" => row[y].status = "absent"

\* What a row suggests is there.
RowsOK ==
  /\ row \in [Row -> RowRecord]
  /\ RowsTogether
  /\ \A x \in Row :
        /\ row[x].suggested.rule \in ExistingRules \cup {NoRule}
        /\ row[x].suggested.category \in Existing \cup {NoCategory}

\* The row an operation was posted from is there.
OperationsOK ==
  /\ operation \in [Operation -> OperationRecord]
  /\ \A o \in Operation :
        /\ operation[o].status # "absent" => operation[o].category \in Existing
        /\ operation[o].row \in Row => row[operation[o].row].status # "absent"

\* All money of the account has its currency.
MoneyOK ==
  /\ account \in Currency
  /\ money \in [Row \cup Operation -> Currency]
  /\ CurrencyKept

\* A command that creates the defaults is at one of its stages.
SeedingOK == seeding \in SeedRecord \cup {Idle}

\* The inductive invariant.
IInv ==
  /\ CategoriesOK /\ RulesOK /\ TargetsOK /\ RowsOK /\ OperationsOK /\ MoneyOK
  /\ SeedingOK

\* At first there is nothing.
LEMMA InitInvariant == Init => IInv
<1> SUFFICES ASSUME Init PROVE IInv
  OBVIOUS
<1>1. CategoriesOK
  BY DEF Init, CategoriesOK, OnlySeededTwice, Existing, Free, CategoryRecord
<1>2. RulesOK
  BY DEF Init, RulesOK, RuleRecord, Unwritten, ToSet, IsInjective, ExistingRules
<1>3. TargetsOK
  BY DEF Init, TargetsOK, ActiveRulesUsable, ExistingRules, Unwritten
<1>4. RowsOK
  BY DEF Init, RowsOK, RowsTogether, RowRecord, NoSuggestion
<1>5. OperationsOK
  BY CatalogAssumption DEF Init, OperationsOK, OperationRecord, Unposted
<1>6. MoneyOK
  BY DEF Init, MoneyOK, CurrencyKept, Unposted
<1>7. SeedingOK
  BY DEF Init, SeedingOK
<1>8. QED
  BY <1>1, <1>2, <1>3, <1>4, <1>5, <1>6, <1>7 DEF IInv

\* What the rules suggest is there.
SuggestionsStand ==
  \A x : /\ Suggestion(x) \in [rule : Rule \cup {NoRule}, category : Category \cup {NoCategory}]
         /\ Suggestion(x).rule \in ExistingRules \cup {NoRule}
         /\ \/ Suggestion(x).category = NoCategory
            \/ \E r \in ExistingRules : Suggestion(x).category = rule[r].category

\* It is, because the loop picks one of the list.
LEMMA SuggestionStands == RulesOK => SuggestionsStand
<1> SUFFICES ASSUME RulesOK, NEW x
             PROVE  /\ Suggestion(x) \in [rule : Rule \cup {NoRule},
                                        category : Category \cup {NoCategory}]
                    /\ Suggestion(x).rule \in ExistingRules \cup {NoRule}
                    /\ \/ Suggestion(x).category = NoCategory
                       \/ \E r \in ExistingRules : Suggestion(x).category = rule[r].category
  BY DEF SuggestionsStand
<1> DEFINE best == SelectBest(Matching(x), Narrow)
<1>1. best \in ToSet(rules) \cup {NoRule}
  <2>1. rules \in Seq(Rule) /\ NoRule \notin Rule
    BY CatalogAssumption DEF RulesOK
  <2>2. best = NoRule \/ \E i \in Candidates(Matching(x)) : best = rules[i]
    BY <2>1, SelectBestChoosesBest, Zenon
  <2>3. QED
    BY <2>2 DEF Candidates, ToSet
<1>2. best \in ExistingRules \cup {NoRule}
  BY <1>1 DEF RulesOK
<1>3. Suggestion(x) = [rule |-> best,
                       category |-> IF best = NoRule THEN NoCategory ELSE rule[best].category]
  BY DEF Suggestion
<1> HIDE DEF best
<1>4. QED
  BY <1>2, <1>3 DEF RulesOK, ExistingRules, RuleRecord

\* More categories do no harm to rules,
LEMMA KeepTargets ==
  ASSUME TargetsOK, Existing \subseteq Existing', Active \subseteq Active', UNCHANGED rule
  PROVE  TargetsOK'
BY DEF TargetsOK, ActiveRulesUsable, Usable, ExistingRules

\* nor to suggestions,
LEMMA KeepRows ==
  ASSUME RowsOK, Existing \subseteq Existing', ExistingRules \subseteq ExistingRules',
         UNCHANGED row
  PROVE  RowsOK'
BY DEF RowsOK, RowsTogether

\* nor to operations, whose rows are still there.
LEMMA KeepOperations ==
  ASSUME OperationsOK, Existing \subseteq Existing', UNCHANGED operation,
         \A x \in Row : row[x].status # "absent" => row'[x].status # "absent"
  PROVE  OperationsOK'
BY DEF OperationsOK

\* No money comes into being.
LEMMA KeepMoney ==
  ASSUME MoneyOK, UNCHANGED <<account, money>>,
         \A o \in Operation : operation[o].status = "absent" => operation'[o].status = "absent",
         \A x \in Row : row[x].status = "absent" => row'[x].status = "absent"
  PROVE  MoneyOK'
BY DEF MoneyOK, CurrencyKept

\* A command that only adds categories, or makes them active.
LEMMA KeepCategories ==
  ASSUME IInv, CategoriesOK', Existing \subseteq Existing', Active \subseteq Active',
         UNCHANGED <<rule, rules, row, operation, account, money>>, SeedingOK'
  PROVE  IInv'
<1>1. RulesOK' /\ ExistingRules \subseteq ExistingRules'
  BY DEF IInv, RulesOK, ExistingRules
<1>2. TargetsOK'
  BY KeepTargets DEF IInv
<1>3. RowsOK'
  BY <1>1, KeepRows DEF IInv
<1>4. OperationsOK'
  BY KeepOperations DEF IInv
<1>5. MoneyOK'
  BY KeepMoney DEF IInv
<1>6. QED
  BY <1>1, <1>2, <1>3, <1>4, <1>5 DEF IInv

\* A category is written under a name that is available.
LEMMA PutEffect ==
  ASSUME CategoriesOK, NEW c \in Category, NEW status \in {"active", "archived"},
         NEW name \in Name, Put(c, status, name), NameAvailable(c, name)
  PROVE  /\ CategoriesOK'
         /\ Existing' = Existing \cup {c}
         /\ Active \ {c} \subseteq Active'
<1> DEFINE new == [status |-> status, name |-> name]
<1>1. new \in CategoryRecord /\ new.status = status /\ new.name = name
  BY DEF CategoryRecord
<1>2. category' = [category EXCEPT ![c] = new]
  BY DEF Put
<1> HIDE DEF new
<1>3. category' \in [Category -> CategoryRecord]
  BY <1>1, <1>2 DEF CategoriesOK
<1>4. /\ category'[c].status = status /\ category'[c].name = name
      /\ \A d \in Category \ {c} : category'[d] = category[d]
  BY <1>1, <1>2 DEF CategoriesOK
<1>5. Existing' = Existing \cup {c}
  BY <1>4 DEF Existing
<1>6. Active \ {c} \subseteq Active'
  BY <1>4 DEF Active
<1>7. OnlySeededTwice'
  <2> SUFFICES ASSUME NEW d \in Existing', NEW e \in Existing', d # e,
                      Fold[category'[d].name] = Fold[category'[e].name]
               PROVE  \E n \in DefaultName \cup {SystemName} : Fold[n] = Fold[category'[d].name]
    BY DEF OnlySeededTwice
  <2>1. CASE d # c /\ e # c
    BY <2>1, <1>4, <1>5 DEF CategoriesOK, OnlySeededTwice, Existing
  <2>2. CASE d = c
    <3>1. e \in Existing /\ Fold[category[e].name] = Fold[name]
      BY <2>2, <1>4, <1>5 DEF Existing
    <3>2. QED
      BY <3>1, <2>2 DEF NameAvailable
  <2>3. CASE e = c
    <3>1. d \in Existing /\ Fold[category[d].name] = Fold[name]
      BY <2>3, <1>4, <1>5 DEF Existing
    <3>2. QED
      BY <3>1, <2>3 DEF NameAvailable
  <2>4. QED
    BY <2>1, <2>2, <2>3
<1>8. QED
  BY <1>3, <1>5, <1>6, <1>7 DEF CategoriesOK

\* A custom category is created.
LEMMA CreateCustomInvariant ==
  ASSUME IInv, NEW c \in Category, NEW name \in Name, CreateCustom(c, name) PROVE IInv'
<1>1. CategoriesOK' /\ Existing' = Existing \cup {c} /\ Active \ {c} \subseteq Active'
  BY PutEffect DEF CreateCustom, IInv
<1>2. c \notin Active
  BY DEF CreateCustom, Existing, Active
<1>3. SeedingOK'
  BY DEF CreateCustom, OnlyCategories, IInv, SeedingOK
<1>4. QED
  BY <1>1, <1>2, <1>3, KeepCategories DEF CreateCustom, OnlyCategories

\* The name of a category changes and nothing else, or its status.
LEMMA StatusEffect ==
  ASSUME CategoriesOK, NEW c \in Existing, NEW status \in {"active", "archived"},
         Put(c, status, category[c].name)
  PROVE  /\ CategoriesOK'
         /\ Existing' = Existing
         /\ Active \ {c} \subseteq Active'
         /\ status = "active" => c \in Active'
<1> DEFINE new == [status |-> status, name |-> category[c].name]
<1>0. c \in Category
  BY DEF Existing
<1>1. new \in CategoryRecord /\ new.status = status /\ new.name = category[c].name
  BY <1>0 DEF CategoryRecord, CategoriesOK
<1>2. category' = [category EXCEPT ![c] = new]
  BY DEF Put
<1> HIDE DEF new
<1>3. category' \in [Category -> CategoryRecord]
  BY <1>0, <1>1, <1>2 DEF CategoriesOK
<1>4. /\ category'[c].status = status
      /\ \A d \in Category : category'[d].name = category[d].name
      /\ \A d \in Category \ {c} : category'[d] = category[d]
  BY <1>0, <1>1, <1>2 DEF CategoriesOK
<1>5. Existing' = Existing
  BY <1>4 DEF Existing
<1>6. Active \ {c} \subseteq Active' /\ (status = "active" => c \in Active')
  BY <1>0, <1>4 DEF Active
<1>7. OnlySeededTwice'
  BY <1>4, <1>5 DEF CategoriesOK, OnlySeededTwice, Existing
<1>8. QED
  BY <1>3, <1>5, <1>6, <1>7 DEF CategoriesOK

\* A custom category gets another name.
LEMMA UpdateCustomInvariant ==
  ASSUME IInv, NEW c \in Category, NEW name \in Name, UpdateCustom(c, name) PROVE IInv'
<1> DEFINE status == category[c].status
<1>1. c \in Existing /\ status \in {"active", "archived"}
  BY DEF UpdateCustom, Editable, IInv, CategoriesOK, Existing, CategoryRecord
<1>2. Put(c, status, name) /\ NameAvailable(c, name)
  BY DEF UpdateCustom
<1>3. category'[c].status = status
  BY <1>2 DEF IInv, CategoriesOK, Put
<1> HIDE DEF status
<1>4. CategoriesOK' /\ Existing' = Existing \cup {c} /\ Active \ {c} \subseteq Active'
  BY <1>1, <1>2, PutEffect DEF IInv
<1>5. Active \subseteq Active'
  BY <1>3, <1>4 DEF Active, status
<1>6. SeedingOK'
  BY DEF UpdateCustom, OnlyCategories, IInv, SeedingOK
<1>7. QED
  BY <1>4, <1>5, <1>6, KeepCategories DEF UpdateCustom, OnlyCategories

\* An archived category is restored.
LEMMA RestoreInvariant ==
  ASSUME IInv, NEW c \in Category, Restore(c) PROVE IInv'
<1>1. c \in Existing /\ Put(c, "active", category[c].name)
  BY DEF Restore, Editable
<1>2. /\ CategoriesOK' /\ Existing' = Existing
      /\ Active \ {c} \subseteq Active' /\ c \in Active'
  BY <1>1, StatusEffect DEF IInv
<1>3. SeedingOK'
  BY DEF Restore, OnlyCategories, IInv, SeedingOK
<1>4. QED
  BY <1>2, <1>3, KeepCategories DEF Restore, OnlyCategories

\* A category is archived unless an active rule names it.
LEMMA ArchiveInvariant ==
  ASSUME IInv, NEW c \in Category, Archive(c) PROVE IInv'
<1> USE DEF Archive, OnlyCategories
<1>1. c \in Existing /\ Put(c, "archived", category[c].name)
  BY DEF Editable
<1>2. CategoriesOK' /\ Existing' = Existing /\ Active \ {c} \subseteq Active'
  BY <1>1, StatusEffect DEF IInv
<1>3. RulesOK' /\ ExistingRules' = ExistingRules
  BY DEF IInv, RulesOK, ExistingRules
<1>4. TargetsOK'
  BY <1>2, <1>3 DEF IInv, TargetsOK, ActiveRulesUsable, Usable, Unruled
<1>5. RowsOK'
  BY <1>2, <1>3, KeepRows DEF IInv
<1>6. OperationsOK'
  BY <1>2, KeepOperations DEF IInv
<1>7. MoneyOK' /\ SeedingOK'
  BY KeepMoney DEF IInv, SeedingOK
<1>8. QED
  BY <1>2, <1>3, <1>4, <1>5, <1>6, <1>7 DEF IInv

\* An archived category is deleted unless something names it.
LEMMA DeleteArchivedInvariant ==
  ASSUME IInv, NEW c \in Category, DeleteArchived(c) PROVE IInv'
<1> USE DEF DeleteArchived, OnlyCategories
<1>0. Free \in CategoryRecord /\ Free.status = "absent"
  BY DEF Free, CategoryRecord
<1>1. /\ category' \in [Category -> CategoryRecord]
      /\ category'[c].status = "absent"
      /\ \A d \in Category \ {c} : category'[d] = category[d]
  BY <1>0 DEF IInv, CategoriesOK
<1>2. Existing' = Existing \ {c} /\ Active' = Active
  BY <1>1 DEF Existing, Active
<1>3. CategoriesOK'
  BY <1>1, <1>2 DEF IInv, CategoriesOK, OnlySeededTwice, Existing
<1>4. RulesOK' /\ ExistingRules' = ExistingRules
  BY DEF IInv, RulesOK, ExistingRules
<1>5. TargetsOK'
  BY <1>2, <1>4 DEF IInv, TargetsOK, ActiveRulesUsable, Usable, Unreferenced, ExistingRules
<1>6. RowsOK'
  BY <1>2, <1>4 DEF IInv, RowsOK, RowsTogether, Unreferenced
<1>7. OperationsOK'
  BY <1>2 DEF IInv, OperationsOK, Unreferenced
<1>8. MoneyOK' /\ SeedingOK'
  BY KeepMoney DEF IInv, SeedingOK
<1>9. QED
  BY <1>3, <1>4, <1>5, <1>6, <1>7, <1>8 DEF IInv

\* The missing default categories are created beside what has their names by
\* then.
LEMMA SeededEffect ==
  ASSUME CategoriesOK, NEW system \in BOOLEAN, NEW names \in SUBSET DefaultName,
         Seeded(system, names)
  PROVE  /\ CategoriesOK'
         /\ Existing \subseteq Existing'
         /\ Active \subseteq Active'
         /\ system => System \in Existing'
<1>1. PICK slot \in [names -> Category \ (Existing \cup {System})] :
        /\ IsInjective(slot)
        /\ category' = [c \in Category |->
             CASE c = System /\ system -> [status |-> "active", name |-> SystemName]
               [] \E n \in names : slot[n] = c ->
                      [status |-> "active", name |-> CHOOSE n \in names : slot[n] = c]
               [] OTHER -> category[c]]
  BY DEF Seeded
<1>2. system => System \notin Existing
  BY DEF Seeded
<1> DEFINE Taken(c) == \E n \in names : slot[n] = c
           New(c, name) == /\ category'[c].status = "active"
                           /\ category'[c].name = name
                           /\ category'[c] \in CategoryRecord
                           /\ c \notin Existing
<1>3. ASSUME NEW c \in Category, c = System, system PROVE New(c, SystemName)
  BY <1>1, <1>2, <1>3 DEF CategoryRecord
<1>4. ASSUME NEW c \in Category, ~(c = System /\ system), Taken(c)
      PROVE  \E n \in names : New(c, n)
  <2> DEFINE n == CHOOSE n \in names : slot[n] = c
  <2>1. n \in names /\ slot[n] = c
    BY <1>4
  <2>2. c \notin Existing
    BY <2>1, <1>1
  <2>3. category'[c] = [status |-> "active", name |-> n]
    BY <1>1, <1>4
  <2> HIDE DEF n
  <2>4. New(c, n)
    BY <2>1, <2>2, <2>3, CatalogAssumption DEF CategoryRecord
  <2>5. QED
    BY <2>1, <2>4
<1>5. ASSUME NEW c \in Category, ~(c = System /\ system), ~Taken(c)
      PROVE  category'[c] = category[c]
  BY <1>1, <1>5
<1>6. \A c \in Category :
        category'[c] = category[c] \/ \E n \in DefaultName \cup {SystemName} : New(c, n)
  BY <1>3, <1>4, <1>5
<1>7. DOMAIN category' = Category /\ category' = [c \in Category |-> category'[c]]
  BY <1>1
<1>8. category' \in [Category -> CategoryRecord]
  <2>1. \A c \in Category : category'[c] \in CategoryRecord
    BY <1>6 DEF CategoriesOK
  <2>2. QED
    BY <1>7, <2>1
<1>9. system => System \in Existing'
  BY <1>3, CatalogAssumption DEF Existing
<1> HIDE DEF Taken
<1>10. \A c \in Existing : category'[c] = category[c]
  BY <1>6 DEF Existing
<1>11. Existing \subseteq Existing' /\ Active \subseteq Active'
  BY <1>10 DEF Existing, Active
<1>12. \A c \in Existing' : c \in Existing \/ category'[c].name \in DefaultName \cup {SystemName}
  BY <1>6 DEF Existing
<1>13. OnlySeededTwice'
  <2> SUFFICES ASSUME NEW d \in Existing', NEW e \in Existing', d # e,
                      Fold[category'[d].name] = Fold[category'[e].name]
               PROVE  \E n \in DefaultName \cup {SystemName} : Fold[n] = Fold[category'[d].name]
    BY DEF OnlySeededTwice
  <2>1. CASE d \in Existing /\ e \in Existing
    BY <2>1, <1>10 DEF CategoriesOK, OnlySeededTwice
  <2>2. CASE ~(d \in Existing /\ e \in Existing)
    BY <2>2, <1>12
  <2>3. QED
    BY <2>1, <2>2
<1>14. QED
  BY <1>8, <1>9, <1>11, <1>13 DEF CategoriesOK

\* Every command about categories.
LEMMA DirectoryInvariant ==
  ASSUME IInv, ReadDirectory \/ WriteDefaults \/ AbandonDefaults PROVE IInv'
<1>1. CASE ReadDirectory
  <2>1. seeding' \in SeedRecord
    BY <1>1 DEF ReadDirectory, SeedRecord, MissingSystem, MissingNames
  <2>2. CategoriesOK' /\ Existing' = Existing /\ Active' = Active
    BY <1>1 DEF ReadDirectory, IInv, CategoriesOK, OnlySeededTwice, Existing, Active
  <2>3. QED
    BY <1>1, <2>1, <2>2, KeepCategories DEF ReadDirectory, SeedingOK
<1>2. CASE WriteDefaults
  <2>1. seeding.system \in BOOLEAN /\ seeding.names \in SUBSET DefaultName
    BY <1>2 DEF WriteDefaults, IInv, SeedingOK, SeedRecord
  <2>2. Seeded(seeding.system, seeding.names)
    BY <1>2 DEF WriteDefaults
  <2>3. CategoriesOK' /\ Existing \subseteq Existing' /\ Active \subseteq Active'
    BY <2>1, <2>2, SeededEffect DEF IInv
  <2>4. QED
    BY <1>2, <2>3, KeepCategories DEF WriteDefaults, SeedingOK
<1>3. CASE AbandonDefaults
  <2>1. CategoriesOK' /\ Existing' = Existing /\ Active' = Active
    BY <1>3 DEF AbandonDefaults, IInv, CategoriesOK, OnlySeededTwice, Existing, Active
  <2>2. QED
    BY <1>3, <2>1, KeepCategories DEF AbandonDefaults, SeedingOK
<1>4. QED
  BY <1>1, <1>2, <1>3

-----------------------------------------------------------------------------
\* What a command about rules leaves alone.
LEMMA KeepRules ==
  ASSUME IInv, CategoriesOK', Existing \subseteq Existing', RulesOK', TargetsOK',
         ExistingRules \subseteq ExistingRules',
         UNCHANGED <<row, operation, account, money, seeding>>
  PROVE  IInv'
<1>1. RowsOK'
  BY KeepRows DEF IInv
<1>2. OperationsOK'
  BY KeepOperations DEF IInv
<1>3. MoneyOK' /\ SeedingOK'
  BY KeepMoney DEF IInv, SeedingOK
<1>4. QED
  BY <1>1, <1>2, <1>3 DEF IInv

\* Categories are as they were.
LEMMA SameCategories ==
  ASSUME CategoriesOK, UNCHANGED category
  PROVE  CategoriesOK' /\ Existing' = Existing /\ Active' = Active
BY DEF CategoriesOK, OnlySeededTwice, Existing, Active

\* A sequence that names nothing twice grows by something new.
LEMMA AppendUniqueProperties ==
  ASSUME NEW S, NEW s \in Seq(S), IsInjective(s), NEW e \in S, e \notin ToSet(s)
  PROVE  /\ Append(s, e) \in Seq(S) /\ IsInjective(Append(s, e))
         /\ ToSet(Append(s, e)) = ToSet(s) \cup {e}
<1> DEFINE t == Append(s, e)
<1>1. /\ t \in Seq(S) /\ Len(t) = Len(s) + 1
      /\ \A i \in 1..Len(s) : t[i] = s[i]
      /\ t[Len(s) + 1] = e
  OBVIOUS
<1>2. DOMAIN s = 1..Len(s) /\ DOMAIN t = 1..(Len(s) + 1) /\ Len(s) \in Nat
  BY <1>1
<1> HIDE DEF t
<1>3. \A i \in 1..(Len(s) + 1) : i \in 1..Len(s) \/ i = Len(s) + 1
  BY <1>2
<1>4. ToSet(t) = ToSet(s) \cup {e}
  <2>1. ToSet(s) = {s[i] : i \in 1..Len(s)} /\ ToSet(t) = {t[i] : i \in 1..(Len(s) + 1)}
    BY <1>2, Zenon DEF ToSet
  <2>2. \A i \in 1..Len(s) : i \in 1..(Len(s) + 1)
    BY <1>2
  <2>3. Len(s) + 1 \in 1..(Len(s) + 1)
    BY <1>2
  <2>4. ToSet(t) \subseteq ToSet(s) \cup {e}
    BY <2>1, <1>1, <1>3
  <2>5. ToSet(s) \cup {e} \subseteq ToSet(t)
    BY <2>1, <2>2, <2>3, <1>1
  <2>6. QED
    BY <2>4, <2>5
<1>5. IsInjective(t)
  <2>1. SUFFICES ASSUME NEW i \in 1..(Len(s) + 1), NEW j \in 1..(Len(s) + 1), t[i] = t[j]
                 PROVE  i = j
    BY <1>2 DEF IsInjective
  <2>2. \A k, l \in 1..Len(s) : s[k] = s[l] => k = l
    BY <1>2 DEF IsInjective
  <2>3. \A k \in 1..Len(s) : s[k] # e
    BY <1>2 DEF ToSet
  <2>4. QED
    BY <2>1, <2>2, <2>3, <1>1, <1>3
<1>6. QED
  BY <1>1, <1>4, <1>5 DEF t

\* A new rule goes to the end of the list.
LEMMA CreateRuleEffect ==
  ASSUME RulesOK, TargetsOK, NEW r \in Rule, NEW c \in Category \cup {NoCategory},
         r \notin ExistingRules,
         rule' = [rule EXCEPT ![r] = [status |-> "active", category |-> c]],
         rules' = Append(rules, r),
         Existing \subseteq Existing', Active \subseteq Active',
         c = NoCategory \/ c \in Active'
  PROVE  RulesOK' /\ TargetsOK' /\ ExistingRules \subseteq ExistingRules'
<1> DEFINE new == [status |-> "active", category |-> c]
<1>1. new \in RuleRecord /\ new.status = "active" /\ new.category = c
  BY DEF RuleRecord
<1>2. rule' = [rule EXCEPT ![r] = new]
  OBVIOUS
<1> HIDE DEF new
<1>3. /\ rule' \in [Rule -> RuleRecord]
      /\ rule'[r].status = "active" /\ rule'[r].category = c
      /\ \A q \in Rule \ {r} : rule'[q] = rule[q]
  BY <1>1, <1>2 DEF RulesOK
<1>4. ExistingRules' = ExistingRules \cup {r}
  BY <1>3 DEF ExistingRules
<1>5. rules' \in Seq(Rule) /\ IsInjective(rules') /\ ToSet(rules') = ToSet(rules) \cup {r}
  <2>1. rules \in Seq(Rule) /\ IsInjective(rules) /\ r \notin ToSet(rules)
    BY DEF RulesOK
  <2>2. /\ Append(rules, r) \in Seq(Rule) /\ IsInjective(Append(rules, r))
        /\ ToSet(Append(rules, r)) = ToSet(rules) \cup {r}
    BY <2>1, AppendUniqueProperties
  <2>3. QED
    BY <2>2
<1>6. RulesOK'
  BY <1>3, <1>4, <1>5 DEF RulesOK
<1>7. Active' \subseteq Existing'
  BY DEF Active, Existing
<1>8. TargetsOK'
  BY <1>3, <1>4, <1>7 DEF TargetsOK, ActiveRulesUsable, Usable, ExistingRules
<1>9. QED
  BY <1>4, <1>6, <1>8

\* A rule is created for a category that can be used.
LEMMA CreateRuleInvariant ==
  ASSUME IInv, NEW r \in Rule, NEW c \in Category \cup {NoCategory},
         CreateRule(r, c), OnlyRules
  PROVE  IInv'
<1>1. CategoriesOK' /\ Existing' = Existing /\ Active' = Active
  BY SameCategories DEF OnlyRules, IInv
<1>2. RulesOK' /\ TargetsOK' /\ ExistingRules \subseteq ExistingRules'
  BY <1>1, CreateRuleEffect DEF CreateRule, Usable, IInv
<1>3. QED
  BY <1>1, <1>2, KeepRules DEF OnlyRules

\* A rule gets another category, or is turned on or off.
LEMMA ChangeRuleInvariant ==
  ASSUME IInv, NEW r \in Rule,
         \/ \E c \in Category \cup {NoCategory} : UpdateRule(r, c)
         \/ \E s \in {"active", "inactive"} : SetRuleActive(r, s)
  PROVE  IInv'
<1>1. UNCHANGED rules /\ OnlyRules /\ r \in ExistingRules
  BY DEF UpdateRule, SetRuleActive
<1>2. CategoriesOK' /\ Existing' = Existing /\ Active' = Active
  BY <1>1, SameCategories DEF OnlyRules, IInv
<1>3. Active \subseteq Existing
  BY DEF Active, Existing
<1>4. /\ rule' \in [Rule -> RuleRecord]
      /\ rule'[r].status # "absent"
      /\ rule'[r].category \in Existing \cup {NoCategory}
      /\ rule'[r].status = "active" => Usable(rule'[r].category)
      /\ \A q \in Rule \ {r} : rule'[q] = rule[q]
  <2>1. CASE \E c \in Category \cup {NoCategory} : UpdateRule(r, c)
    <3>1. PICK c \in Category \cup {NoCategory} : UpdateRule(r, c)
      BY <2>1
    <3>2. /\ rule' = [rule EXCEPT ![r].category = c]
          /\ Usable(c) \/ c = rule[r].category
      BY <3>1 DEF UpdateRule
    <3>3. QED
      BY <1>1, <1>3, <3>2 DEF IInv, RulesOK, TargetsOK, ActiveRulesUsable, Usable,
                               ExistingRules, RuleRecord
  <2>2. CASE \E s \in {"active", "inactive"} : SetRuleActive(r, s)
    <3>1. PICK s \in {"active", "inactive"} : SetRuleActive(r, s)
      BY <2>2
    <3>2. /\ rule' = [rule EXCEPT ![r].status = s]
          /\ s = "active" => Usable(rule[r].category)
      BY <3>1 DEF SetRuleActive
    <3>3. QED
      BY <1>1, <1>3, <3>2 DEF IInv, RulesOK, TargetsOK, ActiveRulesUsable, Usable,
                               ExistingRules, RuleRecord
  <2>3. QED
    BY <2>1, <2>2
<1>5. ExistingRules' = ExistingRules
  BY <1>1, <1>4 DEF ExistingRules
<1>6. RulesOK'
  BY <1>1, <1>4, <1>5 DEF IInv, RulesOK
<1>7. TargetsOK'
  <2>1. ActiveRulesUsable'
    BY <1>2, <1>4 DEF IInv, TargetsOK, ActiveRulesUsable, Usable
  <2>2. \A q \in ExistingRules' : rule'[q].category \in Existing' \cup {NoCategory}
    BY <1>2, <1>4, <1>5 DEF IInv, TargetsOK, ExistingRules
  <2>3. QED
    BY <2>1, <2>2 DEF TargetsOK
<1>8. QED
  BY <1>1, <1>2, <1>5, <1>6, <1>7, KeepRules DEF OnlyRules

\* A rule that is off and suggested for no row is deleted.
LEMMA DeleteRuleInvariant ==
  ASSUME IInv, NEW r \in Rule, DeleteRule(r) PROVE IInv'
<1> USE DEF DeleteRule, OnlyRules
<1>1. CategoriesOK' /\ Existing' = Existing /\ Active' = Active
  BY SameCategories DEF IInv
<1>2. Unwritten \in RuleRecord /\ Unwritten.status = "absent"
  BY DEF Unwritten, RuleRecord
<1>3. /\ rule' \in [Rule -> RuleRecord] /\ rule'[r].status = "absent"
      /\ \A q \in Rule \ {r} : rule'[q] = rule[q]
  BY <1>2 DEF IInv, RulesOK
<1>4. ExistingRules' = ExistingRules \ {r}
  BY <1>3 DEF ExistingRules
<1>5. rules' \in Seq(Rule) /\ IsInjective(rules') /\ ToSet(rules') = ToSet(rules) \ {r}
  <2>1. rules \in Seq(Rule) /\ IsInjective(rules)
    BY DEF IInv, RulesOK
  <2>2. QED
    BY <2>1, RemoveFirstProperties, Zenon
<1>6. RulesOK'
  BY <1>3, <1>4, <1>5 DEF IInv, RulesOK
<1>7. TargetsOK'
  BY <1>1, <1>3, <1>4 DEF IInv, TargetsOK, ActiveRulesUsable, Usable, ExistingRules
<1>8. RowsOK'
  BY <1>1, <1>4 DEF IInv, RowsOK, RowsTogether, Unsuggested
<1>9. OperationsOK'
  BY <1>1, KeepOperations DEF IInv
<1>10. MoneyOK' /\ SeedingOK'
  BY KeepMoney DEF IInv, SeedingOK
<1>11. QED
  BY <1>1, <1>6, <1>7, <1>8, <1>9, <1>10 DEF IInv

\* A default rule is created for the category of its name, or for a new one.
LEMMA SeedRulesInvariant ==
  ASSUME IInv, NEW name \in DefaultName, NEW r \in Rule, NEW c \in Category,
         SeedRules(name, r, c)
  PROVE  IInv'
<1> DEFINE named == {x \in Existing : Fold[category[x].name] = Fold[name]}
<1>1. /\ CategoriesOK' /\ Existing \subseteq Existing' /\ Active \subseteq Active'
      /\ c \in Active'
  <2>1. CASE c \in Active /\ UNCHANGED category
    BY <2>1, SameCategories DEF IInv
  <2>2. CASE named = {} /\ c \notin Existing \cup {System} /\ Put(c, "active", name)
    <3>1. name \in Name /\ NameAvailable(c, name)
      BY <2>2, CatalogAssumption DEF NameAvailable
    <3>2. CategoriesOK' /\ Existing' = Existing \cup {c} /\ Active \ {c} \subseteq Active'
      BY <2>2, <3>1, PutEffect DEF IInv
    <3>3. c \in Active' /\ c \notin Active
      BY <2>2 DEF Put, IInv, CategoriesOK, Active, Existing
    <3>4. QED
      BY <3>2, <3>3
  <2>3. QED
    BY <2>1, <2>2 DEF SeedRules
<1>2. RulesOK' /\ TargetsOK' /\ ExistingRules \subseteq ExistingRules'
  BY <1>1, CreateRuleEffect DEF SeedRules, IInv
<1>3. QED
  BY <1>1, <1>2, KeepRules DEF SeedRules

-----------------------------------------------------------------------------
\* The rules are applied to the open rows again.
LEMMA ApplyRulesInvariant ==
  ASSUME IInv, ApplyRules PROVE IInv'
<1> USE DEF ApplyRules
<1>1. CategoriesOK' /\ Existing' = Existing /\ Active' = Active
  BY SameCategories DEF IInv
<1>2. RulesOK' /\ ExistingRules' = ExistingRules
  BY DEF IInv, RulesOK, ExistingRules
<1>3. TargetsOK'
  BY <1>1, KeepTargets DEF IInv
<1>4. /\ row' \in [Row -> RowRecord]
      /\ \A x \in Row : row'[x].status = row[x].status
      /\ \A x \in Row : row'[x].suggested \in {row[x].suggested, Suggestion(x)}
  <2>1. \A x \in Row : row'[x] = IF row[x].status = "open"
                                 THEN [row[x] EXCEPT !.suggested = Suggestion(x)] ELSE row[x]
    OBVIOUS
  <2>2. \A x \in Row : Suggestion(x) \in [rule : Rule \cup {NoRule},
                                         category : Category \cup {NoCategory}]
    BY SuggestionStands DEF SuggestionsStand, IInv
  <2>3. row \in [Row -> RowRecord]
    BY DEF IInv, RowsOK
  <2>4. \A x \in Row : /\ row'[x] \in RowRecord
                       /\ row'[x].status = row[x].status
                       /\ row'[x].suggested \in {row[x].suggested, Suggestion(x)}
    BY <2>1, <2>2, <2>3 DEF RowRecord
  <2>5. row' = [x \in Row |-> row'[x]]
    OBVIOUS
  <2>6. QED
    BY <2>4, <2>5
<1>5. RowsOK'
  <2>1. \A x \in Row : /\ Suggestion(x).rule \in ExistingRules \cup {NoRule}
                       /\ Suggestion(x).category \in Existing \cup {NoCategory}
    BY SuggestionStands DEF SuggestionsStand, IInv, TargetsOK
  <2>2. \A x \in Row : /\ row[x].suggested.rule \in ExistingRules \cup {NoRule}
                       /\ row[x].suggested.category \in Existing \cup {NoCategory}
    BY DEF IInv, RowsOK
  <2>3. \A x \in Row : /\ row'[x].suggested.rule \in ExistingRules \cup {NoRule}
                       /\ row'[x].suggested.category \in Existing \cup {NoCategory}
    BY <2>1, <2>2, <1>4
  <2>4. QED
    BY <2>3, <1>1, <1>2, <1>4 DEF IInv, RowsOK, RowsTogether
<1>6. OperationsOK'
  BY <1>1, <1>4, KeepOperations DEF IInv
<1>7. MoneyOK' /\ SeedingOK'
  BY <1>4, KeepMoney DEF IInv, SeedingOK
<1>8. QED
  BY <1>1, <1>2, <1>3, <1>5, <1>6, <1>7 DEF IInv

\* A statement brings its rows, with what the rules suggest for them.
LEMMA StatementInvariant ==
  ASSUME IInv, UploadDocument \/ ParseDocument PROVE IInv'
<1>1. CategoriesOK' /\ Existing' = Existing /\ Active' = Active
  BY SameCategories DEF UploadDocument, ParseDocument, IInv
<1>2. RulesOK' /\ ExistingRules' = ExistingRules
  BY DEF UploadDocument, ParseDocument, IInv, RulesOK, ExistingRules
<1>3. TargetsOK'
  BY <1>1, KeepTargets DEF UploadDocument, ParseDocument, IInv
<1>4. SeedingOK'
  BY DEF UploadDocument, ParseDocument, IInv, SeedingOK
<1>5. row \in [Row -> RowRecord]
  BY DEF IInv, RowsOK
<1>6. /\ row' \in [Row -> RowRecord]
      /\ \A x \in Row : row'[x].status # "absent"
      /\ \A x \in Row : /\ row'[x].suggested.rule \in ExistingRules \cup {NoRule}
                        /\ row'[x].suggested.category \in Existing \cup {NoCategory}
  <2>1. CASE UploadDocument
    BY <2>1, <1>5 DEF UploadDocument, RowRecord, IInv, RowsOK
  <2>2. CASE ParseDocument
    <3>1. \A x \in Row :
            /\ Suggestion(x) \in [rule : Rule \cup {NoRule}, category : Category \cup {NoCategory}]
            /\ Suggestion(x).rule \in ExistingRules \cup {NoRule}
            /\ Suggestion(x).category \in Existing \cup {NoCategory}
      BY SuggestionStands DEF SuggestionsStand, IInv, TargetsOK
    <3>2. row' = [x \in Row |-> [status |-> "open", suggested |-> Suggestion(x)]]
      BY <2>2 DEF ParseDocument
    <3>3. \A x \in Row : /\ row'[x] = [status |-> "open", suggested |-> Suggestion(x)]
                         /\ row'[x] \in RowRecord
      BY <3>1, <3>2 DEF RowRecord
    <3>4. QED
      BY <3>1, <3>2, <3>3
  <2>3. QED
    BY <2>1, <2>2
<1>7. RowsOK'
  BY <1>1, <1>2, <1>6 DEF RowsOK, RowsTogether
<1>8. OperationsOK'
  BY <1>1, <1>6, KeepOperations DEF IInv, UploadDocument, ParseDocument
<1>9. MoneyOK'
  <2>1. CASE UploadDocument
    BY <2>1, CatalogAssumption DEF UploadDocument, IInv, MoneyOK, CurrencyKept
  <2>2. CASE ParseDocument
    <3>1. \A x \in Row : money[x] = account
      BY <2>2 DEF ParseDocument, IInv, RowsOK, RowsTogether, MoneyOK, CurrencyKept
    <3>2. QED
      BY <2>2, <3>1 DEF ParseDocument, IInv, MoneyOK, CurrencyKept
  <2>3. QED
    BY <2>1, <2>2
<1>10. QED
  BY <1>1, <1>2, <1>3, <1>4, <1>7, <1>8, <1>9 DEF IInv

-----------------------------------------------------------------------------
\* An entry is recorded in the currency of the account.
LEMMA RecordEffect ==
  ASSUME IInv, NEW o \in Operation, NEW c \in Category, NEW x \in Row \cup {NoRow},
         NEW currency, currency = account, Record(o, c, x, currency),
         UNCHANGED account, Existing \subseteq Existing', c \in Existing',
         \A y \in Row : row[y].status = "absent" <=> row'[y].status = "absent",
         x \in Row => row[x].status # "absent"
  PROVE  OperationsOK' /\ MoneyOK'
<1> USE DEF Record
<1> DEFINE new == [status |-> "confirmed", category |-> c, row |-> x]
<1>1. new \in OperationRecord /\ new.status = "confirmed" /\ new.category = c /\ new.row = x
  BY DEF OperationRecord
<1>2. operation' = [operation EXCEPT ![o] = new] /\ operation \in [Operation -> OperationRecord]
  BY DEF IInv, OperationsOK
<1> HIDE DEF new
<1>3. /\ operation' \in [Operation -> OperationRecord]
      /\ operation'[o] = new
      /\ \A p \in Operation \ {o} : operation'[p] = operation[p]
  BY <1>1, <1>2
<1>4. OperationsOK'
  BY <1>1, <1>3 DEF IInv, OperationsOK
<1>5. /\ money' \in [Row \cup Operation -> Currency]
      /\ money'[o] = account
      /\ \A y \in (Row \cup Operation) \ {o} : money'[y] = money[y]
  BY DEF IInv, MoneyOK
<1>6. MoneyOK'
  BY <1>1, <1>3, <1>5 DEF IInv, MoneyOK, CurrencyKept
<1>7. QED
  BY <1>4, <1>6

\* An operation is entered by hand.
LEMMA RecordManualInvariant ==
  ASSUME IInv, NEW o \in Operation, NEW c \in Category, RecordManual(o, c) PROVE IInv'
<1> USE DEF RecordManual
<1>1. CategoriesOK' /\ Existing' = Existing /\ Active' = Active
  BY SameCategories DEF IInv
<1>2. RulesOK' /\ ExistingRules' = ExistingRules
  BY DEF IInv, RulesOK, ExistingRules
<1>3. TargetsOK'
  BY <1>1, KeepTargets DEF IInv
<1>4. RowsOK'
  BY <1>1, <1>2, KeepRows DEF IInv
<1>5. c \in Existing' /\ NoRow \notin Row
  BY <1>1, CatalogAssumption DEF Active, Existing
<1>6. OperationsOK' /\ MoneyOK'
  BY <1>1, <1>5, RecordEffect
<1>7. SeedingOK'
  BY DEF IInv, SeedingOK
<1>8. QED
  BY <1>1, <1>2, <1>3, <1>4, <1>6, <1>7 DEF IInv

\* An operation is entered without a category: the defaults are created with
\* it.
LEMMA RecordUncategorizedInvariant ==
  ASSUME IInv, NEW o \in Operation, RecordUncategorized(o) PROVE IInv'
<1> USE DEF RecordUncategorized
<1>1. /\ CategoriesOK' /\ Existing \subseteq Existing' /\ Active \subseteq Active'
      /\ MissingSystem => System \in Existing'
  <2>1. MissingSystem \in BOOLEAN /\ MissingNames \in SUBSET DefaultName
    BY DEF MissingSystem, MissingNames
  <2>2. QED
    BY <2>1, SeededEffect DEF IInv
<1>2. System \in Existing' /\ System \in Category
  BY <1>1, CatalogAssumption DEF MissingSystem
<1>3. RulesOK' /\ ExistingRules' = ExistingRules
  BY DEF IInv, RulesOK, ExistingRules
<1>4. TargetsOK'
  BY <1>1, KeepTargets DEF IInv
<1>5. RowsOK'
  BY <1>1, <1>3, KeepRows DEF IInv
<1>6. NoRow \notin Row
  BY CatalogAssumption
<1>7. OperationsOK' /\ MoneyOK'
  BY <1>1, <1>2, <1>6, RecordEffect
<1>8. SeedingOK'
  BY DEF IInv, SeedingOK
<1>9. QED
  BY <1>1, <1>3, <1>4, <1>5, <1>7, <1>8 DEF IInv

\* A row is posted.
LEMMA ConfirmRowInvariant ==
  ASSUME IInv, NEW x \in Row, NEW o \in Operation, NEW c \in Category, ConfirmRow(x, o, c)
  PROVE  IInv'
<1> USE DEF ConfirmRow
<1>1. CategoriesOK' /\ Existing' = Existing /\ Active' = Active
  BY SameCategories DEF IInv
<1>2. RulesOK' /\ ExistingRules' = ExistingRules
  BY DEF IInv, RulesOK, ExistingRules
<1>3. TargetsOK'
  BY <1>1, KeepTargets DEF IInv
<1>4. /\ row' \in [Row -> RowRecord]
      /\ row'[x].status = "posted"
      /\ \A y \in Row : row'[y].suggested = row[y].suggested
      /\ \A y \in Row \ {x} : row'[y] = row[y]
  BY DEF IInv, RowsOK, RowRecord
<1>5. RowsOK'
  BY <1>1, <1>2, <1>4 DEF IInv, RowsOK, RowsTogether
<1>6. c \in Existing' /\ money[x] = account
  BY <1>1 DEF Active, Existing, IInv, MoneyOK, CurrencyKept
<1>7. OperationsOK' /\ MoneyOK'
  BY <1>1, <1>4, <1>6, RecordEffect
<1>8. SeedingOK'
  BY DEF IInv, SeedingOK
<1>9. QED
  BY <1>1, <1>2, <1>3, <1>5, <1>7, <1>8 DEF IInv

\* A row is posted and a rule is made of it.
LEMMA ConfirmAndRememberInvariant ==
  ASSUME IInv, NEW x \in Row, NEW o \in Operation, NEW c \in Category, NEW r \in Rule,
         ConfirmAndRemember(x, o, c, r)
  PROVE  IInv'
<1> USE DEF ConfirmAndRemember
<1>1. CategoriesOK' /\ Existing' = Existing /\ Active' = Active
  BY SameCategories DEF IInv
<1>2. RulesOK' /\ TargetsOK' /\ ExistingRules \subseteq ExistingRules'
  BY <1>1, CreateRuleEffect DEF CreateRule, Usable, IInv
<1>3. \A y \in Row :
        /\ Suggestion(y)' \in [rule : Rule \cup {NoRule}, category : Category \cup {NoCategory}]
        /\ Suggestion(y)'.rule \in ExistingRules' \cup {NoRule}
        /\ Suggestion(y)'.category \in Existing' \cup {NoCategory}
  <2>1. SuggestionsStand'
    <3>1. (RulesOK => SuggestionsStand)'
      BY SuggestionStands, PTL
    <3>2. QED
      BY <1>2, <3>1
  <2>2. \A q \in ExistingRules' : rule'[q].category \in Existing' \cup {NoCategory}
    BY <1>2 DEF TargetsOK
  <2>3. QED
    BY <2>1, <2>2 DEF SuggestionsStand
<1>4. row \in [Row -> RowRecord] /\ RowsTogether
  BY DEF IInv, RowsOK
<1>5. /\ row' \in [Row -> RowRecord]
      /\ \A y \in Row : row'[y].status = IF y = x THEN "posted" ELSE row[y].status
      /\ \A y \in Row : row'[y].suggested \in {row[y].suggested, Suggestion(y)'}
  <2>1. row' = [y \in Row |->
                 IF y = x THEN [row[y] EXCEPT !.status = "posted"]
                 ELSE IF row[y].status = "open"
                 THEN [row[y] EXCEPT !.suggested = Suggestion(y)'] ELSE row[y]]
    OBVIOUS
  <2>2. \A y \in Row : /\ row'[y] \in RowRecord
                       /\ row'[y].status = IF y = x THEN "posted" ELSE row[y].status
                       /\ row'[y].suggested \in {row[y].suggested, Suggestion(y)'}
    BY <2>1, <1>3, <1>4 DEF RowRecord
  <2>3. QED
    BY <2>1, <2>2
<1>6. RowsOK'
  <2>1. \A y \in Row : /\ row[y].suggested.rule \in ExistingRules \cup {NoRule}
                       /\ row[y].suggested.category \in Existing \cup {NoCategory}
    BY DEF IInv, RowsOK
  <2>2. \A y \in Row : /\ row'[y].suggested.rule \in ExistingRules' \cup {NoRule}
                       /\ row'[y].suggested.category \in Existing' \cup {NoCategory}
    BY <2>1, <1>1, <1>2, <1>3, <1>5
  <2>3. RowsTogether'
    BY <1>4, <1>5 DEF RowsTogether
  <2>4. QED
    BY <2>2, <2>3, <1>5 DEF RowsOK
<1>7. c \in Existing' /\ money[x] = account
  BY <1>1 DEF Active, Existing, IInv, MoneyOK, CurrencyKept
<1>8. OperationsOK' /\ MoneyOK'
  BY <1>1, <1>5, <1>7, RecordEffect
<1>9. SeedingOK'
  BY DEF IInv, SeedingOK
<1>10. QED
  BY <1>1, <1>2, <1>6, <1>8, <1>9 DEF IInv

\* An operation gets another category.
LEMMA ChangeCategoryInvariant ==
  ASSUME IInv, NEW o \in Operation, NEW c \in Category, ChangeCategory(o, c) PROVE IInv'
<1> USE DEF ChangeCategory
<1>1. CategoriesOK' /\ Existing' = Existing /\ Active' = Active
  BY SameCategories DEF IInv
<1>2. RulesOK' /\ ExistingRules' = ExistingRules
  BY DEF IInv, RulesOK, ExistingRules
<1>3. TargetsOK'
  BY <1>1, KeepTargets DEF IInv
<1>4. RowsOK'
  BY <1>1, <1>2, KeepRows DEF IInv
<1>5. c \in Existing
  BY DEF Active, Existing
<1>6. OperationsOK'
  BY <1>1, <1>5 DEF IInv, OperationsOK, OperationRecord
<1>7. MoneyOK' /\ SeedingOK'
  BY DEF IInv, OperationsOK, OperationRecord, MoneyOK, CurrencyKept, SeedingOK
<1>8. QED
  BY <1>1, <1>2, <1>3, <1>4, <1>6, <1>7 DEF IInv

\* An operation is cancelled.
LEMMA CancelInvariant ==
  ASSUME IInv, NEW o \in Operation, Cancel(o) PROVE IInv'
<1> USE DEF Cancel
<1>1. CategoriesOK' /\ Existing' = Existing /\ Active' = Active
  BY SameCategories DEF IInv
<1>2. RulesOK' /\ ExistingRules' = ExistingRules
  BY DEF IInv, RulesOK, ExistingRules
<1>3. TargetsOK'
  BY <1>1, KeepTargets DEF IInv
<1>4. /\ row' \in [Row -> RowRecord]
      /\ \A x \in Row : row'[x].suggested = row[x].suggested
      /\ \A x \in Row : row'[x].status = IF x = operation[o].row THEN "open" ELSE row[x].status
  BY DEF IInv, RowsOK, RowRecord
<1>5. \A x \in Row : row'[x].status = "absent" <=> row[x].status = "absent"
  BY <1>4 DEF IInv, OperationsOK
<1>6. RowsOK'
  BY <1>1, <1>2, <1>4, <1>5 DEF IInv, RowsOK, RowsTogether
<1>7. /\ operation' \in [Operation -> OperationRecord]
      /\ \A p \in Operation : /\ operation'[p].category = operation[p].category
                              /\ operation'[p].row = operation[p].row
                              /\ operation'[p].status # "absent" => operation[p].status # "absent"
  BY DEF IInv, OperationsOK, OperationRecord
<1>8. OperationsOK'
  BY <1>1, <1>5, <1>7 DEF IInv, OperationsOK
<1>9. MoneyOK' /\ SeedingOK'
  BY <1>5, <1>7 DEF IInv, MoneyOK, CurrencyKept, SeedingOK
<1>10. QED
  BY <1>1, <1>2, <1>3, <1>6, <1>8, <1>9 DEF IInv

\* The currency of an account changes while no money is there.
LEMMA UpdateAccountInvariant ==
  ASSUME IInv, NEW currency \in Currency, UpdateAccount(currency) PROVE IInv'
<1> USE DEF UpdateAccount
<1>1. CategoriesOK' /\ Existing' = Existing /\ Active' = Active
  BY SameCategories DEF IInv
<1>2. RulesOK' /\ ExistingRules' = ExistingRules
  BY DEF IInv, RulesOK, ExistingRules
<1>3. TargetsOK'
  BY <1>1, KeepTargets DEF IInv
<1>4. RowsOK'
  BY <1>1, <1>2, KeepRows DEF IInv
<1>5. OperationsOK'
  BY <1>1, KeepOperations DEF IInv
<1>6. MoneyOK' /\ SeedingOK'
  BY DEF IInv, MoneyOK, CurrencyKept, HasHistory, SeedingOK
<1>7. QED
  BY <1>1, <1>2, <1>3, <1>4, <1>5, <1>6 DEF IInv

\* Nothing happens.
LEMMA StutterInvariant == ASSUME IInv, UNCHANGED vars PROVE IInv'
<1> USE DEF vars
<1>1. CategoriesOK' /\ Existing' = Existing /\ Active' = Active
  BY SameCategories DEF IInv
<1>2. SeedingOK'
  BY DEF IInv, SeedingOK
<1>3. QED
  BY <1>1, <1>2, KeepCategories

\* Every step keeps the invariant.
LEMMA StepInvariant == IInv /\ [Next]_vars => IInv'
<1> SUFFICES ASSUME IInv, [Next]_vars PROVE IInv'
  OBVIOUS
<1>1. CASE \E c \in Category, n \in Name : CreateCustom(c, n) \/ UpdateCustom(c, n)
  BY <1>1, CreateCustomInvariant, UpdateCustomInvariant
<1>2. CASE \E c \in Category : Archive(c) \/ Restore(c) \/ DeleteArchived(c)
  BY <1>2, ArchiveInvariant, RestoreInvariant, DeleteArchivedInvariant
<1>3. CASE ReadDirectory \/ WriteDefaults \/ AbandonDefaults
  BY <1>3, DirectoryInvariant
<1>4. CASE \E r \in Rule, c \in Category \cup {NoCategory} :
              (CreateRule(r, c) /\ OnlyRules) \/ UpdateRule(r, c)
  BY <1>4, CreateRuleInvariant, ChangeRuleInvariant
<1>5. CASE \E r \in Rule : DeleteRule(r) \/ \E s \in {"active", "inactive"} : SetRuleActive(r, s)
  BY <1>5, DeleteRuleInvariant, ChangeRuleInvariant
<1>6. CASE \E n \in DefaultName, r \in Rule, c \in Category : SeedRules(n, r, c)
  BY <1>6, SeedRulesInvariant
<1>7. CASE ApplyRules
  BY <1>7, ApplyRulesInvariant
<1>8. CASE UploadDocument \/ ParseDocument
  BY <1>8, StatementInvariant
<1>9. CASE \E o \in Operation, c \in Category : RecordManual(o, c) \/ ChangeCategory(o, c)
  BY <1>9, RecordManualInvariant, ChangeCategoryInvariant
<1>10. CASE \E o \in Operation : RecordUncategorized(o) \/ Cancel(o)
  BY <1>10, RecordUncategorizedInvariant, CancelInvariant
<1>11. CASE \E x \in Row, o \in Operation, c \in Category :
              ConfirmRow(x, o, c) \/ \E r \in Rule : ConfirmAndRemember(x, o, c, r)
  BY <1>11, ConfirmRowInvariant, ConfirmAndRememberInvariant
<1>12. CASE \E currency \in Currency : UpdateAccount(currency)
  BY <1>12, UpdateAccountInvariant
<1>13. CASE UNCHANGED vars
  BY <1>13, StutterInvariant
<1>14. QED
  BY <1>1, <1>2, <1>3, <1>4, <1>5, <1>6, <1>7, <1>8, <1>9, <1>10, <1>11, <1>12, <1>13 DEF Next

\* The invariant holds at all times.
LEMMA Inductive == Spec => []IInv
BY InitInvariant, StepInvariant, PTL DEF Spec

\* The types, every reference stands, and all money has the currency of its
\* account.
THEOREM CatalogConsistent == Spec => []Consistent
<1>1. IInv => Consistent
  <2> SUFFICES ASSUME IInv PROVE Consistent
    OBVIOUS
  <2>1. TypeOK
    BY DEF IInv, TypeOK, CategoriesOK, RulesOK, RowsOK, OperationsOK, MoneyOK, SeedingOK
  <2>2. ReferencesStand
    BY DEF IInv, ReferencesStand, TargetsOK, RowsOK, OperationsOK
  <2>3. CurrencyKept
    BY DEF IInv, MoneyOK
  <2>4. QED
    BY <2>1, <2>2, <2>3 DEF Consistent
<1>2. QED
  BY <1>1, Inductive, PTL

\* An active rule has a category that may be used, whatever was archived,
\* restored or seeded while it stood.
THEOREM RulesStayUsable == Spec => []ActiveRulesUsable
<1>1. IInv => ActiveRulesUsable
  BY DEF IInv, TargetsOK
<1>2. QED
  BY <1>1, Inductive, PTL

\* Two categories have one name, but for its case, only when it is a name the
\* commands that create defaults write: custom ones are checked against all
\* others, defaults are not.
THEOREM NamesAreUnique == Spec => []OnlySeededTwice
<1>1. IInv => OnlySeededTwice
  BY DEF IInv, CategoriesOK
<1>2. QED
  BY <1>1, Inductive, PTL

\* The loop of select_best_rule, which goes through the rules once and keeps
\* the best so far, finds the rule that says most and among equals the one
\* created first, for every list of rules and every row. The recursion of the
\* loop is covered for lists of every length.
THEOREM LoopChoosesBestRule == Spec => []BestRuleChosen
<1>1. IInv => BestRuleChosen
  <2> SUFFICES ASSUME IInv, NEW matching \in SUBSET ExistingRules, NEW narrow \in SUBSET matching
               PROVE  LET best == {i \in Candidates(matching) : \A j \in Candidates(matching) :
                                      Says(j, narrow) < Says(i, narrow)
                                      \/ (Says(j, narrow) = Says(i, narrow) /\ i <= j)}
                      IN {SelectBest(matching, narrow)} =
                           IF Candidates(matching) = {} THEN {NoRule}
                           ELSE {rules[i] : i \in best}
    BY DEF BestRuleChosen, Candidates, Says
  <2>1. rules \in Seq(Rule) /\ NoRule \notin Rule
    BY CatalogAssumption DEF IInv, RulesOK
  <2>2. IF Candidates(matching) = {} THEN SelectBest(matching, narrow) = NoRule
        ELSE \E i \in Candidates(matching) :
               /\ BestOf(Candidates(matching), narrow) = {i}
               /\ SelectBest(matching, narrow) = rules[i]
    BY <2>1, SelectBestChoosesBest, Zenon
  <2>3. QED
    BY <2>2 DEF BestOf
<1>2. QED
  BY <1>1, Inductive, PTL
=============================================================================
