---------------------- MODULE ChatConversation_proofs ----------------------
(***************************************************************************)
(* Proofs about ChatConversation, for any number of dialogs, rows,         *)
(* accounts, handlers, crashes and decisions elsewhere. A press finds its  *)
(* state open or is refused, so an open state is a right to one more       *)
(* effect: every step keeps the sum of the effects a dialog has had and of *)
(* its states that are open (EffectsOK). What adds to the sum is a handler *)
(* that goes on from a state that was left while it listed the categories; *)
(* the dialog's splits count how often. How many handlers are past that    *)
(* commit together, and whether they read one state or the states of twin  *)
(* rows, plays no part: each is counted when it goes on. Payloads are      *)
(* complete because every step that makes a state keeps what the steps     *)
(* behind it put there (WellFormed), corrections included.                 *)
(***************************************************************************)
EXTENDS ChatConversation, FiniteSetTheorems, SequenceTheorems, TLAPS

-----------------------------------------------------------------------------
\* In a sequence that names nothing twice, removing an element removes it and
\* nothing else.
LEMMA RemoveFirstProperties ==
  ASSUME NEW S, NEW s \in Seq(S), IsInjective(s), NEW e
  PROVE  /\ RemoveFirst(s, e) \in Seq(S) /\ IsInjective(RemoveFirst(s, e))
         /\ ToSet(RemoveFirst(s, e)) = ToSet(s) \ {e}
<1>1. CASE ~ \E i \in 1..Len(s) : s[i] = e
  <2>1. RemoveFirst(s, e) = s
    BY <1>1 DEF RemoveFirst
  <2>2. QED
    BY <1>1, <2>1 DEF ToSet
<1>2. CASE \E i \in 1..Len(s) : s[i] = e
  <2>1. PICK i \in 1..Len(s) : s[i] = e
    BY <1>2
  <2>2. {j \in 1..Len(s) : s[j] = e} = {i}
    BY <2>1 DEF IsInjective
  <2>3. SelectInSeq(s, LAMBDA v : v = e) = Min({i})
    BY <2>2 DEF SelectInSeq
  <2>4. Min({i}) = i
    BY <2>1 DEF Min
  <2> DEFINE t == RemoveAt(s, i)
  <2>5. RemoveFirst(s, e) = t
    BY <1>2, <2>3, <2>4 DEF RemoveFirst
  <2>6. t \in Seq(S) /\ Len(t) = Len(s) - 1
     /\ \A j \in 1..Len(s) - 1 : t[j] = IF j < i THEN s[j] ELSE s[j+1]
    <3> DEFINE u == SubSeq(s, 1, i-1)
               v == SubSeq(s, i+1, Len(s))
    <3>0. i \in Nat /\ Len(s) \in Nat /\ i >= 1 /\ i <= Len(s)
      BY <2>1
    <3>1. u \in Seq(S) /\ Len(u) = i - 1 /\ \A j \in 1..i-1 : u[j] = s[j]
      BY <3>0
    <3>2. v \in Seq(S) /\ Len(v) = Len(s) - i /\ \A j \in 1..(Len(s) - i) : v[j] = s[i + j]
      BY <3>0
    <3>3. t = u \o v
      BY DEF RemoveAt
    <3> HIDE DEF u, v, t
    <3>4. t \in Seq(S) /\ Len(t) = Len(s) - 1
      BY <3>0, <3>1, <3>2, <3>3
    <3>5. ASSUME NEW j \in 1..Len(s) - 1 PROVE t[j] = IF j < i THEN s[j] ELSE s[j+1]
      <4>0. \A k \in 1 .. Len(u) + Len(v) :
               (u \o v)[k] = IF k <= Len(u) THEN u[k] ELSE v[k - Len(u)]
        BY <3>1, <3>2, ConcatProperties, Zenon
      <4>6. j \in 1 .. Len(u) + Len(v)
        BY <3>0, <3>1, <3>2
      <4>1. t[j] = IF j <= Len(u) THEN u[j] ELSE v[j - Len(u)]
        BY <4>0, <4>6, <3>3, Zenon
      <4>2. CASE j < i
        BY <4>1, <4>2, <3>1, <3>0
      <4>3. CASE j >= i
        <5>1. t[j] = v[j - (i - 1)]
          BY <4>1, <4>3, <3>1, <3>0
        <5>2. j - (i-1) \in 1..(Len(s) - i)
          BY <4>3, <3>0
        <5>3. v[j - (i - 1)] = s[i + (j - (i-1))]
          BY <5>2, <3>2
        <5>4. i + (j - (i-1)) = j + 1
          BY <3>0
        <5>5. QED
          BY <5>1, <5>3, <5>4, <4>3, <3>0
      <4>4. QED
        BY <4>2, <4>3, <3>0
    <3>6. QED
      BY <3>4, <3>5
  <2> HIDE DEF t
  <2>7. IsInjective(t)
    <3>0. DOMAIN t = 1..Len(s) - 1
      BY <2>6
    <3>1. SUFFICES ASSUME NEW j \in 1..Len(s) - 1, NEW k \in 1..Len(s) - 1, t[j] = t[k] PROVE j = k
      BY <3>0 DEF IsInjective
    <3>2. \A l, m \in 1..Len(s) : s[l] = s[m] => l = m
      BY DEF IsInjective
    <3>3. \A l \in 1..Len(s) - 1 : l \in 1..Len(s) /\ l + 1 \in 1..Len(s)
      OBVIOUS
    <3>4. QED
      BY <3>1, <3>2, <3>3, <2>6
  <2>8. ToSet(t) = ToSet(s) \ {e}
    <3>0. /\ ToSet(s) = {s[j] : j \in 1..Len(s)}
          /\ ToSet(t) = {t[j] : j \in 1..Len(s) - 1}
      <4>1. DOMAIN s = 1..Len(s)
        OBVIOUS
      <4>2. DOMAIN t = 1..Len(s) - 1
        BY <2>6
      <4>3. QED
        BY <4>1, <4>2, Zenon DEF ToSet
    <3>1. ASSUME NEW j \in 1..Len(s) - 1 PROVE t[j] \in ToSet(s) \ {e}
      <4>1. \A k \in 1..Len(s) : s[k] = e => k = i
        BY <2>1 DEF IsInjective
      <4>2. \A l \in 1..Len(s) - 1 : l \in 1..Len(s) /\ l + 1 \in 1..Len(s)
        OBVIOUS
      <4>3. CASE j < i
        BY <3>0, <4>1, <4>2, <4>3, <2>6, <2>1
      <4>4. CASE j >= i
        BY <3>0, <4>1, <4>2, <4>4, <2>6, <2>1
      <4>5. QED
        BY <4>3, <4>4, <2>1
    <3>2. ASSUME NEW j \in 1..Len(s), s[j] # e PROVE s[j] \in ToSet(t)
      <4>1. CASE j < i
        <5>1. j \in 1..Len(s) - 1 /\ t[j] = s[j]
          BY <4>1, <2>6, <2>1
        <5>2. QED
          BY <5>1, <3>0
      <4>2. CASE j > i
        <5>1. j-1 \in 1..Len(s) - 1 /\ t[j-1] = s[j]
          BY <4>2, <2>6, <2>1
        <5>2. QED
          BY <5>1, <3>0
      <4>3. QED
        BY <4>1, <4>2, <3>2, <2>1
    <3>3. QED
      BY <3>0, <3>1, <3>2
  <2>9. QED
    BY <2>5, <2>6, <2>7, <2>8
<1>3. QED
  BY <1>1, <1>2

\* A sequence that names nothing twice grows by something new.
LEMMA AppendNew ==
  ASSUME NEW S, NEW s \in Seq(S), IsInjective(s), NEW e \in S, e \notin ToSet(s)
  PROVE  /\ Append(s, e) \in Seq(S) /\ IsInjective(Append(s, e))
         /\ ToSet(Append(s, e)) = ToSet(s) \cup {e}
<1> DEFINE t == Append(s, e)
<1>1. /\ t \in Seq(S) /\ Len(s) \in Nat /\ Len(t) = Len(s) + 1
      /\ t[Len(s) + 1] = e
      /\ \A i \in 1..Len(s) : t[i] = s[i]
  OBVIOUS
<1>2. DOMAIN s = 1..Len(s) /\ DOMAIN t = 1..Len(s) + 1
  <2>1. DOMAIN t = 1..Len(t)
    BY <1>1
  <2>2. QED
    BY <1>1, <2>1
<1> HIDE DEF t
<1>3. ToSet(s) = {s[i] : i \in 1..Len(s)} /\ ToSet(t) = {t[i] : i \in 1..Len(s) + 1}
  BY <1>2, Zenon DEF ToSet
<1>4. 1..Len(s) + 1 = 1..Len(s) \cup {Len(s) + 1}
  BY <1>1
<1>5. ToSet(t) = ToSet(s) \cup {e}
  BY <1>1, <1>3, <1>4
<1>6. IsInjective(t)
  BY <1>1, <1>2, <1>3, <1>4 DEF IsInjective
<1>7. QED
  BY <1>1, <1>5, <1>6 DEF t

\* A sequence has finitely many elements.
LEMMA FiniteRange == ASSUME NEW S, NEW s \in Seq(S) PROVE IsFiniteSet(ToSet(s))
<1>1. IsFiniteSet(1..Len(s)) /\ DOMAIN s = 1..Len(s)
  BY FS_Interval
<1>2. s \in Surjection(1..Len(s), ToSet(s))
  BY <1>1 DEF Surjection, ToSet
<1>3. QED
  BY <1>1, <1>2, FS_Surjection

-----------------------------------------------------------------------------
\* A state some step of some dialog made: a row is named from the choice of
\* the document on, and what its step reads from the payload is there. A
\* category is asked before the description, so "confirm" has one.
WellFormed(s) ==
  /\ s \in State
  /\ s.row \in Row <=> s.flow = "review" /\ s.step # "choose_document"
  /\ s.flow \in ManualFlow => Complete(s)
  /\ s.flow = "record_money" /\ s.step = "enter_description" => "category" \in s.has

\* What a handler holds after it gave the lock up for the categories: a state
\* from which its stage is reached.
Held(s, stage) ==
  /\ WellFormed(s)
  /\ s.dialog <= started
  /\ \/ /\ stage = "ask_category"
        /\ s.flow = "record_money" /\ s.step \in {"choose_date", "enter_custom_date", "confirm"}
     \/ /\ stage = "ask_category"
        /\ s.flow = "review" /\ s.step \in {"review_item", "confirm_transfer"}
     \/ /\ stage \in {"accept", "checked"}
        /\ s.flow = "review" /\ s.step = "review_item"

\* The dialog has posted its row and offers a rule.
Suggesting(s) == s.step \in {"suggest_rule", "enter_rule_pattern"}

\* The states of a dialog, and those of them that may still decide a row or
\* save a rule.
Of(d) == {s \in State : s.dialog = d}
DecidingOf(d) == {s \in Of(d) : ~Suggesting(s)}
SuggestingOf(d) == {s \in Of(d) : Suggesting(s)}

\* How many of these states are open.
NumberOpen(states) == Cardinality(OpenStates \cap states)

\* No state is open twice: tokens tell them apart.
StoreOK == open \in Seq(State) /\ IsInjective(open)

\* Open states are well formed and belong to dialogs that were started.
StatesOK == \A s \in OpenStates : WellFormed(s) /\ s.dialog <= started

\* What handlers hold is of the types and stages above.
HandlersOK ==
  /\ handler \in [Handler -> Upload \cup Seeded \cup {Idle}]
  /\ \A h \in Handler : Seeding(h) => Held(handler[h].state, handler[h].stage)

\* A dialog went on from states it had left at most as often as all of them
\* did, which with the dialogs started stays within the bound.
CountersOK ==
  /\ started \in Nat /\ splits \in Nat /\ started + splits <= MaxThreads
  /\ split \in [Dialog -> Nat]
  /\ \A d \in Dialog : split[d] <= splits
  /\ elsewhere \in 0..MaxElsewhere /\ expired \subseteq State

\* The heart of the argument: an open state is a right to one more effect.
\* Operations made and the states of a dialog that are open are, together, no
\* more than the dialog and its splits account for; so are decisions and the
\* states that may still decide. A rule, saved or still offered, has a
\* decision of its own behind it.
EffectsOK ==
  /\ effect \in [Dialog -> [Effect -> Nat]]
  /\ \A d \in Dialog :
       /\ effect[d]["operation"] + NumberOpen(Of(d)) <= 1 + split[d]
       /\ effect[d]["decision"] + NumberOpen(DecidingOf(d)) <= 1 + split[d]
       /\ effect[d]["rule"] + NumberOpen(SuggestingOf(d)) <= effect[d]["decision"]
       /\ d > started => effect[d]["operation"] = 0 /\ effect[d]["decision"] = 0

\* Twins are not posted both.
RowsOK == row \in [Row -> RowStatus] /\ PostedOnce

\* A file has made one document at most, and none while none is recorded
\* under its key.
DocumentsOK ==
  /\ document \in [Dialog -> Account \cup {NoAccount}]
  /\ \A d \in Dialog :
       /\ effect[d]["document"] <= 1
       /\ document[d] = NoAccount => effect[d]["document"] = 0

\* A notice beyond the first is one whose record was lost; while no delivery
\* is recorded and none is on its way to be, every notice sent was lost.
NoticesOK ==
  /\ file \subseteq Dialog /\ delivered \subseteq Dialog
  /\ sent \in [Dialog -> Nat] /\ unrecorded \in [Dialog -> Nat] /\ crashes \in 0..MaxCrashes
  /\ \A d \in Dialog :
       /\ sent[d] <= 1 + unrecorded[d]
       /\ (/\ d \notin delivered
           /\ \A h \in Handler : ~(handler[h].stage = "sent" /\ handler[h].dialog = d))
          => sent[d] <= unrecorded[d]

\* The inductive invariant.
IInv ==
  /\ StoreOK /\ StatesOK /\ HandlersOK /\ CountersOK /\ EffectsOK
  /\ RowsOK /\ DocumentsOK /\ NoticesOK

-----------------------------------------------------------------------------
\* What leaves the store leaves nothing else behind.
LEMMA WithoutEffect ==
  ASSUME StoreOK, NEW s
  PROVE  /\ Without(s) \in Seq(State) /\ IsInjective(Without(s))
         /\ ToSet(Without(s)) = OpenStates \ {s}
BY RemoveFirstProperties, Zenon DEF StoreOK, Without, OpenStates

\* A state that replaces another is told apart from those that stay.
LEMMA NewStates ==
  ASSUME NEW new \in State, NEW left, NEW s \in New(new, left)
  PROVE  /\ s \in State /\ s \notin OpenStates \ {left}
         /\ \E t \in Token : s = [new EXCEPT !.token = t]
<1>1. /\ s \in {[new EXCEPT !.token = t] : t \in Token}
      /\ s \notin OpenStates \ {left}
  BY DEF New, Distinct
<1>2. PICK t \in Token : s = [new EXCEPT !.token = t]
  BY <1>1
<1>3. s \in State
  BY <1>2 DEF State
<1>4. QED
  BY <1>1, <1>2, <1>3

\* What the steps of a dialog do to the open states.
LEMMA ReplaceEffect ==
  ASSUME StoreOK, NEW s, NEW new \in State, Exchange(s, new)
  PROVE  /\ StoreOK' /\ started' = started
         /\ \E t \in Token : /\ [new EXCEPT !.token = t] \notin OpenStates \ {s}
                             /\ OpenStates' = (OpenStates \ {s}) \cup {[new EXCEPT !.token = t]}
<1>1. PICK x \in New(new, s) : open' = Append(Without(s), x)
  BY DEF Exchange
<1>2. /\ x \in State /\ x \notin OpenStates \ {s}
      /\ \E t \in Token : x = [new EXCEPT !.token = t]
  BY <1>1, NewStates
<1>3. /\ Without(s) \in Seq(State) /\ IsInjective(Without(s))
      /\ ToSet(Without(s)) = OpenStates \ {s}
  BY WithoutEffect, Zenon
<1>4. /\ open' \in Seq(State) /\ IsInjective(open')
      /\ ToSet(open') = (OpenStates \ {s}) \cup {x}
  <2> DEFINE w == Without(s)
  <2> HIDE DEF w
  <2>1. w \in Seq(State) /\ IsInjective(w) /\ x \notin ToSet(w)
    BY <1>2, <1>3 DEF w
  <2>2. /\ Append(w, x) \in Seq(State) /\ IsInjective(Append(w, x))
        /\ ToSet(Append(w, x)) = ToSet(w) \cup {x}
    BY <1>2, <2>1, AppendNew
  <2>3. QED
    BY <1>1, <1>3, <2>2 DEF w
<1>5. QED
  BY <1>2, <1>4 DEF StoreOK, OpenStates, Exchange

\* Consuming a state, or its lapse, takes it from the open ones.
LEMMA RemovalEffect ==
  ASSUME StoreOK, NEW s, open' = Without(s)
  PROVE  StoreOK' /\ OpenStates' = OpenStates \ {s}
BY WithoutEffect, Zenon DEF StoreOK, OpenStates

\* Where there is room for one more, the bound on dialogs is not reached.
LEMMA RoomForOne == ASSUME CountersOK, Room(1) PROVE started + splits < MaxThreads
<1>1. Stranded \subseteq Handler /\ IsFiniteSet(Handler)
  BY ChatAssumption DEF Stranded
<1>2. Cardinality(Stranded) \in Nat
  BY <1>1, FS_Subset, FS_CardinalityType
<1>3. QED
  BY <1>2, ChatAssumption DEF Room, Threads, CountersOK

\* A dialog that begins is told apart from all others by its number.
LEMMA BeginEffect ==
  ASSUME StoreOK, StatesOK, CountersOK,
         NEW flow \in Flow, NEW step \in Step, NEW r \in Row \cup {NoRow}, NEW has \in SUBSET Field,
         Begin(flow, step, r, has)
  PROVE  /\ StoreOK' /\ started' = started + 1 /\ started + 1 \in Dialog
         /\ started + 1 + splits <= MaxThreads
         /\ \E t \in Token :
              LET new == [token |-> t, dialog |-> started + 1, flow |-> flow, step |-> step,
                          row |-> r, has |-> has]
              IN  /\ new \in State /\ new \notin OpenStates
                  /\ OpenStates' = OpenStates \cup {new}
<1> DEFINE t == CHOOSE token \in Token : TRUE
           new == [token |-> t, dialog |-> started + 1, flow |-> flow, step |-> step,
                   row |-> r, has |-> has]
<1>1. t \in Token
  BY ChatAssumption
<1>2. /\ started + splits < MaxThreads /\ started' = started + 1 /\ open' = Append(open, new)
  BY RoomForOne DEF Begin
<1>3. started + 1 \in Dialog /\ started + 1 + splits <= MaxThreads
  BY <1>2, ChatAssumption DEF CountersOK, Dialog
<1>4. new \in State
  BY <1>1, <1>3 DEF State
<1>5. new \notin OpenStates
  <2>1. new.dialog = started + 1
    OBVIOUS
  <2>2. \A s \in OpenStates : s.dialog <= started
    BY DEF StatesOK
  <2>3. QED
    BY <2>1, <2>2 DEF CountersOK
<1> HIDE DEF new, t
<1>6. /\ open' \in Seq(State) /\ IsInjective(open')
      /\ ToSet(open') = OpenStates \cup {new}
  <2>1. open \in Seq(State) /\ IsInjective(open) /\ new \notin ToSet(open)
    BY <1>5 DEF StoreOK, OpenStates
  <2>2. /\ Append(open, new) \in Seq(State) /\ IsInjective(Append(open, new))
        /\ ToSet(Append(open, new)) = ToSet(open) \cup {new}
    BY <1>4, <2>1, AppendNew
  <2>3. QED
    BY <1>2, <2>2 DEF OpenStates
<1>7. StoreOK' /\ OpenStates' = OpenStates \cup {new}
  BY <1>6 DEF StoreOK, OpenStates
<1>8. QED
  BY <1>1, <1>2, <1>3, <1>4, <1>5, <1>7 DEF new

-----------------------------------------------------------------------------
\* Whether x counts in S.
Bit(x, S) == IF x \in S THEN 1 ELSE 0

\* Finitely many states are open, of any kind.
LEMMA FiniteOpen == StoreOK => IsFiniteSet(OpenStates) /\ \A D : IsFiniteSet(OpenStates \cap D)
<1> SUFFICES ASSUME StoreOK PROVE IsFiniteSet(OpenStates) /\ \A D : IsFiniteSet(OpenStates \cap D)
  OBVIOUS
<1>1. IsFiniteSet(OpenStates)
  BY FiniteRange, Zenon DEF StoreOK, OpenStates
<1>2. QED
  BY <1>1, FS_Subset

\* One state leaves a finite set, one comes.
LEMMA CountExchange ==
  ASSUME NEW A, IsFiniteSet(A), NEW D, NEW x, NEW y, y \notin A \ {x}
  PROVE  /\ Cardinality(A \cap D) \in Nat
         /\ Cardinality(((A \ {x}) \cup {y}) \cap D)
              = Cardinality(A \cap D) - Bit(x, A \cap D) + Bit(y, D)
<1> DEFINE B == A \cap D
           C == B \ {x}
<1>1. IsFiniteSet(B) /\ Cardinality(B) \in Nat
  BY FS_Subset, FS_CardinalityType
<1>2. IsFiniteSet(C) /\ Cardinality(C) = Cardinality(B) - Bit(x, B)
  BY <1>1, FS_RemoveElement DEF Bit
<1>3. Cardinality(C) \in Nat /\ y \notin C
  BY <1>2, FS_CardinalityType
<1> DEFINE N == ((A \ {x}) \cup {y}) \cap D
<1>4. N = IF y \in D THEN C \cup {y} ELSE C
  OBVIOUS
<1>5. Cardinality(C \cup {y}) = Cardinality(C) + 1
  BY <1>2, <1>3, FS_AddElement
<1> HIDE DEF N, C, B
<1>6. Cardinality(N) = Cardinality(C) + Bit(y, D)
  <2>1. CASE y \in D
    BY <1>4, <1>5, <2>1 DEF Bit
  <2>2. CASE y \notin D
    BY <1>3, <1>4, <2>2 DEF Bit
  <2>3. QED
    BY <2>1, <2>2
<1>7. Cardinality(C) + Bit(y, D) = Cardinality(B) - Bit(x, B) + Bit(y, D)
  BY <1>1, <1>2, <1>3 DEF Bit
<1>8. QED
  BY <1>1, <1>6, <1>7 DEF B, N

\* One element leaves a finite set, if it was there.
LEMMA CountRemoval ==
  ASSUME NEW A, IsFiniteSet(A), NEW D, NEW x
  PROVE  /\ Cardinality(A \cap D) \in Nat
         /\ Cardinality((A \ {x}) \cap D) = Cardinality(A \cap D) - Bit(x, A \cap D)
<1> DEFINE B == A \cap D
<1>1. IsFiniteSet(B) /\ Cardinality(B) \in Nat
  BY FS_Subset, FS_CardinalityType
<1>2. Cardinality(B \ {x}) = Cardinality(B) - Bit(x, B)
  <2>1. Cardinality(B \ {x}) = IF x \in B THEN Cardinality(B) - 1 ELSE Cardinality(B)
    BY <1>1, FS_RemoveElement
  <2> HIDE DEF B
  <2>2. QED
    BY <1>1, <2>1 DEF Bit
<1>3. (A \ {x}) \cap D = B \ {x}
  OBVIOUS
<1>4. QED
  BY <1>1, <1>2, <1>3

-----------------------------------------------------------------------------
\* Which token a state gets matters to nothing else.
LEMMA TokenIndifferent ==
  ASSUME NEW new, WellFormed(new), NEW t \in Token
  PROVE  LET n == [new EXCEPT !.token = t] IN
         /\ n \in State /\ WellFormed(n) /\ n.dialog = new.dialog
         /\ Suggesting(n) <=> Suggesting(new)
BY DEF WellFormed, Complete, Suggesting, State

\* Replacing a state keeps the store in order.
LEMMA Replaced ==
  ASSUME StoreOK, StatesOK, NEW s, NEW new, WellFormed(new), new.dialog <= started,
         Exchange(s, new)
  PROVE  /\ StoreOK' /\ StatesOK' /\ started' = started
         /\ \E n \in State :
              /\ n \notin OpenStates \ {s} /\ OpenStates' = (OpenStates \ {s}) \cup {n}
              /\ n.dialog = new.dialog /\ (Suggesting(n) <=> Suggesting(new))
<1>1. new \in State
  BY DEF WellFormed
<1>2. /\ StoreOK' /\ started' = started
      /\ \E t \in Token : /\ [new EXCEPT !.token = t] \notin OpenStates \ {s}
                          /\ OpenStates' = (OpenStates \ {s}) \cup {[new EXCEPT !.token = t]}
  BY <1>1, ReplaceEffect
<1>3. PICK t \in Token : /\ [new EXCEPT !.token = t] \notin OpenStates \ {s}
                         /\ OpenStates' = (OpenStates \ {s}) \cup {[new EXCEPT !.token = t]}
  BY <1>2
<1> DEFINE n == [new EXCEPT !.token = t]
<1>4. /\ n \in State /\ WellFormed(n) /\ n.dialog = new.dialog
      /\ Suggesting(n) <=> Suggesting(new)
  BY TokenIndifferent
<1>5. n \notin OpenStates \ {s} /\ OpenStates' = (OpenStates \ {s}) \cup {n}
  BY <1>3
<1> HIDE DEF n
<1>6. StatesOK'
  BY <1>2, <1>4, <1>5 DEF StatesOK
<1>7. QED
  BY <1>2, <1>4, <1>5, <1>6

\* So does removing one.
LEMMA Removed ==
  ASSUME StoreOK, StatesOK, NEW s, open' = Without(s), started' = started
  PROVE  StoreOK' /\ StatesOK' /\ OpenStates' = OpenStates \ {s}
<1>1. StoreOK' /\ OpenStates' = OpenStates \ {s}
  BY RemovalEffect
<1>2. QED
  BY <1>1 DEF StatesOK

\* How many of the open states of a dialog there are, of each kind.
Here(s, d) == IF s.dialog = d THEN 1 ELSE 0
DecidingHere(s, d) == IF s.dialog = d /\ ~Suggesting(s) THEN 1 ELSE 0
SuggestingHere(s, d) == IF s.dialog = d /\ Suggesting(s) THEN 1 ELSE 0

\* Counting a state among those of a dialog.
LEMMA Bits ==
  ASSUME NEW s \in State, NEW d
  PROVE  /\ Bit(s, Of(d)) = Here(s, d)
         /\ Bit(s, DecidingOf(d)) = DecidingHere(s, d)
         /\ Bit(s, SuggestingOf(d)) = SuggestingHere(s, d)
BY DEF Bit, Of, DecidingOf, SuggestingOf, Here, DecidingHere, SuggestingHere

\* A state that is not open does not count among the open ones.
LEMMA OpenBits ==
  ASSUME NEW s, NEW D
  PROVE  /\ s \in OpenStates => Bit(s, OpenStates \cap D) = Bit(s, D)
         /\ s \notin OpenStates => Bit(s, OpenStates \cap D) = 0
BY DEF Bit

\* The number of open states of a kind is a number.
LEMMA Numbers ==
  ASSUME StoreOK
  PROVE  \A D : NumberOpen(D) \in Nat
BY FiniteOpen, FS_CardinalityType DEF NumberOpen

\* What is open is a state.
LEMMA OpenAreStates == StoreOK => OpenStates \subseteq State
BY DEF StoreOK, OpenStates, ToSet

\* What a replacement does to the numbers of open states of a dialog, whether
\* the state it comes from was still open or not.
LEMMA CountExchanged ==
  ASSUME StoreOK, NEW s, NEW n \in State, n \notin OpenStates \ {s},
         OpenStates' = (OpenStates \ {s}) \cup {n}, NEW d
  PROVE  IF s \in OpenStates
         THEN /\ NumberOpen(Of(d))' = NumberOpen(Of(d)) - Here(s, d) + Here(n, d)
              /\ NumberOpen(DecidingOf(d))'
                   = NumberOpen(DecidingOf(d)) - DecidingHere(s, d) + DecidingHere(n, d)
              /\ NumberOpen(SuggestingOf(d))'
                   = NumberOpen(SuggestingOf(d)) - SuggestingHere(s, d) + SuggestingHere(n, d)
         ELSE /\ NumberOpen(Of(d))' = NumberOpen(Of(d)) + Here(n, d)
              /\ NumberOpen(DecidingOf(d))' = NumberOpen(DecidingOf(d)) + DecidingHere(n, d)
              /\ NumberOpen(SuggestingOf(d))' = NumberOpen(SuggestingOf(d)) + SuggestingHere(n, d)
<1>1. IsFiniteSet(OpenStates)
  BY FiniteOpen
<1>2. \A D : NumberOpen(D)' = NumberOpen(D) - Bit(s, OpenStates \cap D) + Bit(n, D)
  BY <1>1, CountExchange DEF NumberOpen
<1>3. \A D : NumberOpen(D) \in Nat /\ Bit(n, D) \in {0, 1}
  BY Numbers DEF Bit
<1>4. CASE s \in OpenStates
  <2>1. \A D : NumberOpen(D)' = NumberOpen(D) - Bit(s, D) + Bit(n, D)
    BY <1>2, <1>4, OpenBits
  <2>2. s \in State
    BY <1>4, OpenAreStates
  <2>3. QED
    BY <1>4, <2>1, <2>2, Bits
<1>5. CASE s \notin OpenStates
  <2>1. \A D : NumberOpen(D)' = NumberOpen(D) + Bit(n, D)
    <3> TAKE D
    <3>1. Bit(s, OpenStates \cap D) = 0
      BY <1>5, OpenBits
    <3>2. QED
      BY <1>2, <1>3, <3>1
  <2>2. QED
    BY <1>5, <2>1, Bits
<1>6. QED
  BY <1>4, <1>5

\* And what a removal does to them.
LEMMA CountRemoved ==
  ASSUME StoreOK, NEW s, OpenStates' = OpenStates \ {s}, NEW d
  PROVE  IF s \in OpenStates
         THEN /\ NumberOpen(Of(d))' = NumberOpen(Of(d)) - Here(s, d)
              /\ NumberOpen(DecidingOf(d))' = NumberOpen(DecidingOf(d)) - DecidingHere(s, d)
              /\ NumberOpen(SuggestingOf(d))' = NumberOpen(SuggestingOf(d)) - SuggestingHere(s, d)
         ELSE /\ NumberOpen(Of(d))' = NumberOpen(Of(d))
              /\ NumberOpen(DecidingOf(d))' = NumberOpen(DecidingOf(d))
              /\ NumberOpen(SuggestingOf(d))' = NumberOpen(SuggestingOf(d))
<1>1. IsFiniteSet(OpenStates)
  BY FiniteOpen
<1>2. \A D : NumberOpen(D)' = NumberOpen(D) - Bit(s, OpenStates \cap D)
  BY <1>1, CountRemoval DEF NumberOpen
<1>3. \A D : NumberOpen(D) \in Nat
  BY Numbers
<1>4. CASE s \in OpenStates
  <2>1. \A D : NumberOpen(D)' = NumberOpen(D) - Bit(s, D)
    BY <1>2, <1>4, OpenBits
  <2>2. s \in State
    BY <1>4, OpenAreStates
  <2>3. QED
    BY <1>4, <2>1, <2>2, Bits
<1>5. CASE s \notin OpenStates
  <2>1. \A D : NumberOpen(D)' = NumberOpen(D)
    <3> TAKE D
    <3>1. Bit(s, OpenStates \cap D) = 0
      BY <1>5, OpenBits
    <3>2. QED
      BY <1>2, <1>3, <3>1
  <2>2. QED
    BY <1>5, <2>1
<1>6. QED
  BY <1>4, <1>5

-----------------------------------------------------------------------------
\* What a step leaves alone.
LEMMA KeepHandlers ==
  ASSUME HandlersOK, CountersOK, handler' = handler, started' \in Nat, started <= started'
  PROVE  HandlersOK'
<1>1. \A h \in Handler : Seeding(h)' <=> Seeding(h)
  BY DEF Seeding
<1>2. ASSUME NEW s, NEW stage, Held(s, stage)
      PROVE  Held(s, stage)'
  <2>1. s.dialog \in Nat
    BY <1>2, ChatAssumption DEF Held, WellFormed, State, Dialog
  <2>2. s.dialog <= started'
    BY <1>2, <2>1 DEF Held, CountersOK
  <2>3. QED
    BY <1>2, <2>2 DEF Held
<1>3. \A h \in Handler : Seeding(h) => Held(handler[h].state, handler[h].stage)'
  BY <1>2 DEF HandlersOK
<1>4. QED
  BY <1>1, <1>3 DEF HandlersOK

\* No notice is sent, recorded or lost.
LEMMA KeepNotices ==
  ASSUME NoticesOK, UNCHANGED <<delivered, sent, unrecorded, crashes>>, file' \subseteq Dialog,
         \A h \in Handler : \/ handler'[h] = handler[h]
                            \/ handler[h].stage # "sent" /\ handler'[h].stage # "sent"
  PROVE  NoticesOK'
BY DEF NoticesOK

\* No document is made.
LEMMA KeepDocuments ==
  ASSUME DocumentsOK, UNCHANGED document,
         \A d \in Dialog : effect'[d]["document"] = effect[d]["document"]
  PROVE  DocumentsOK'
BY DEF DocumentsOK

\* No row is decided.
LEMMA KeepRows == ASSUME RowsOK, UNCHANGED row PROVE RowsOK'
BY DEF RowsOK, PostedOnce

\* No state is made or left.
LEMMA KeepStore ==
  ASSUME UNCHANGED <<open, started>>, StoreOK, StatesOK
  PROVE  StoreOK' /\ StatesOK' /\ \A D : NumberOpen(D)' = NumberOpen(D)
BY DEF StoreOK, StatesOK, OpenStates, NumberOpen

\* Handlers, documents and notices are as they were.
LEMMA RestInvariant ==
  ASSUME IInv, StoreOK', StatesOK', EffectsOK', RowsOK', started' = started,
         \A d \in Dialog : effect'[d]["document"] = effect[d]["document"],
         UNCHANGED otherVars
  PROVE  IInv'
<1> USE DEF otherVars, splitVars, fileVars
<1>1. HandlersOK'
  BY KeepHandlers DEF IInv, CountersOK
<1>2. CountersOK'
  BY DEF IInv, CountersOK
<1>3. DocumentsOK'
  BY KeepDocuments DEF IInv
<1>4. NoticesOK'
  BY KeepNotices DEF IInv, NoticesOK
<1>5. QED
  BY <1>1, <1>2, <1>3, <1>4 DEF IInv

\* A state that is left takes its right to an effect with it.
LEMMA FewerOpen ==
  ASSUME IInv, NEW s, open' = Without(s), started' = started, UNCHANGED <<effect, split>>
  PROVE  StoreOK' /\ StatesOK' /\ EffectsOK'
<1>1. StoreOK /\ StatesOK
  BY DEF IInv
<1>2. StoreOK' /\ StatesOK' /\ OpenStates' = OpenStates \ {s}
  BY <1>1, Removed
<1>3. \A d : /\ NumberOpen(Of(d))' \in Nat /\ NumberOpen(Of(d))' <= NumberOpen(Of(d))
             /\ NumberOpen(DecidingOf(d))' \in Nat
             /\ NumberOpen(DecidingOf(d))' <= NumberOpen(DecidingOf(d))
             /\ NumberOpen(SuggestingOf(d))' \in Nat
             /\ NumberOpen(SuggestingOf(d))' <= NumberOpen(SuggestingOf(d))
  <2> TAKE d
  <2>1. Here(s, d) \in Nat /\ DecidingHere(s, d) \in Nat /\ SuggestingHere(s, d) \in Nat
    BY DEF Here, DecidingHere, SuggestingHere
  <2>2. IF s \in OpenStates
        THEN /\ NumberOpen(Of(d))' = NumberOpen(Of(d)) - Here(s, d)
             /\ NumberOpen(DecidingOf(d))' = NumberOpen(DecidingOf(d)) - DecidingHere(s, d)
             /\ NumberOpen(SuggestingOf(d))' = NumberOpen(SuggestingOf(d)) - SuggestingHere(s, d)
        ELSE /\ NumberOpen(Of(d))' = NumberOpen(Of(d))
             /\ NumberOpen(DecidingOf(d))' = NumberOpen(DecidingOf(d))
             /\ NumberOpen(SuggestingOf(d))' = NumberOpen(SuggestingOf(d))
    BY <1>1, <1>2, CountRemoved
  <2>3. (\A D : NumberOpen(D) \in Nat)'
    BY <1>2, Numbers, PTL
  <2>4. QED
    BY <1>1, <2>1, <2>2, <2>3, Numbers
<1>4. EffectsOK'
  <2>1. \A D : NumberOpen(D) \in Nat
    BY <1>1, Numbers
  <2>2. QED
    BY <1>3, <2>1 DEF IInv, EffectsOK, CountersOK, Effect
<1>5. QED
  BY <1>2, <1>4

\* A step within a dialog: from one state to the next.
LEMMA MoveInvariant ==
  ASSUME IInv, NEW s \in OpenStates, NEW new, WellFormed(new), new.dialog = s.dialog,
         Suggesting(new) <=> Suggesting(s), Replace(s, new), Unchanging
  PROVE  IInv'
<1> USE DEF Unchanging, otherVars, splitVars, fileVars
<1>1. StoreOK /\ StatesOK /\ new.dialog <= started
  BY DEF IInv, StatesOK
<1>2. /\ StoreOK' /\ StatesOK' /\ started' = started
      /\ \E n \in State :
           /\ n \notin OpenStates \ {s} /\ OpenStates' = (OpenStates \ {s}) \cup {n}
           /\ n.dialog = new.dialog /\ (Suggesting(n) <=> Suggesting(new))
  BY <1>1, Replaced DEF Replace
<1>3. PICK n \in State :
           /\ n \notin OpenStates \ {s} /\ OpenStates' = (OpenStates \ {s}) \cup {n}
           /\ n.dialog = s.dialog /\ (Suggesting(n) <=> Suggesting(s))
  BY <1>2
<1>4. \A d : /\ NumberOpen(Of(d))' = NumberOpen(Of(d))
             /\ NumberOpen(DecidingOf(d))' = NumberOpen(DecidingOf(d))
             /\ NumberOpen(SuggestingOf(d))' = NumberOpen(SuggestingOf(d))
  <2> TAKE d
  <2>1. /\ Here(n, d) = Here(s, d) /\ DecidingHere(n, d) = DecidingHere(s, d)
        /\ SuggestingHere(n, d) = SuggestingHere(s, d)
        /\ Here(s, d) \in Nat /\ DecidingHere(s, d) \in Nat /\ SuggestingHere(s, d) \in Nat
    BY <1>3 DEF Here, DecidingHere, SuggestingHere
  <2>2. /\ NumberOpen(Of(d))' = NumberOpen(Of(d)) - Here(s, d) + Here(n, d)
        /\ NumberOpen(DecidingOf(d))'
             = NumberOpen(DecidingOf(d)) - DecidingHere(s, d) + DecidingHere(n, d)
        /\ NumberOpen(SuggestingOf(d))'
             = NumberOpen(SuggestingOf(d)) - SuggestingHere(s, d) + SuggestingHere(n, d)
    BY <1>1, <1>3, CountExchanged
  <2>3. QED
    BY <1>1, <2>1, <2>2, Numbers
<1>5. EffectsOK'
  BY <1>2, <1>4 DEF IInv, EffectsOK
<1>6. QED
  BY <1>2, <1>5, RestInvariant, KeepRows DEF IInv

\* A state that is consumed, and nothing else.
LEMMA CloseInvariant ==
  ASSUME IInv, NEW s \in OpenStates, open' = Without(s), started' = started, Unchanging
  PROVE  IInv'
<1>1. UNCHANGED <<row, effect, split, otherVars>>
  BY DEF Unchanging, otherVars, splitVars
<1>2. StoreOK' /\ StatesOK' /\ EffectsOK' /\ RowsOK'
  BY <1>1, FewerOpen, KeepRows DEF IInv
<1>3. QED
  BY <1>1, <1>2, RestInvariant

\* A state that lapses; a handler that read it may still go on with it.
LEMMA LapseInvariant ==
  ASSUME IInv, NEW s \in OpenStates, Lapse(s)
  PROVE  IInv'
<1> USE DEF fileVars
<1>1. /\ open' = Without(s) /\ started' = started
      /\ UNCHANGED <<row, elsewhere, effect, handler, split, splits, fileVars>>
  BY DEF Lapse
<1>2. StoreOK' /\ StatesOK' /\ EffectsOK' /\ RowsOK'
  BY <1>1, FewerOpen, KeepRows DEF IInv
<1>3. expired' \subseteq State
  BY OpenAreStates DEF Lapse, IInv, CountersOK
<1>4. CountersOK'
  BY <1>1, <1>3 DEF IInv, CountersOK
<1>5. HandlersOK'
  BY <1>1, KeepHandlers DEF IInv, CountersOK
<1>6. DocumentsOK'
  BY <1>1, KeepDocuments DEF IInv
<1>7. NoticesOK'
  BY <1>1, KeepNotices DEF IInv, NoticesOK
<1>8. QED
  BY <1>2, <1>4, <1>5, <1>6, <1>7 DEF IInv

\* A dialog that begins.
LEMMA BeginInvariant ==
  ASSUME IInv, NEW flow \in Flow, NEW step \in Step, NEW r \in Row \cup {NoRow},
         Begin(flow, step, r, {}),
         r \in Row <=> flow = "review" /\ step # "choose_document",
         step \in {"choose_account", "choose_source_account", "choose_document", "review_item"},
         file' \subseteq Dialog,
         UNCHANGED <<row, effect, elsewhere, handler, splitVars, document, delivered, sent,
                     unrecorded, crashes>>
  PROVE  IInv'
<1>1. StoreOK /\ StatesOK /\ CountersOK
  BY DEF IInv
<1>2. {} \in SUBSET Field
  OBVIOUS
<1>3. /\ StoreOK' /\ started' = started + 1 /\ started + 1 \in Dialog
      /\ started + 1 + splits <= MaxThreads
      /\ \E t \in Token :
           LET new == [token |-> t, dialog |-> started + 1, flow |-> flow, step |-> step,
                       row |-> r, has |-> {}]
           IN  /\ new \in State /\ new \notin OpenStates
               /\ OpenStates' = OpenStates \cup {new}
  BY <1>1, <1>2, BeginEffect, ZenonT(60)
<1> USE DEF splitVars
<1>4. PICK t \in Token :
           LET new == [token |-> t, dialog |-> started + 1, flow |-> flow, step |-> step,
                       row |-> r, has |-> {}]
           IN  /\ new \in State /\ new \notin OpenStates
               /\ OpenStates' = OpenStates \cup {new}
  BY <1>3
<1> DEFINE n == [token |-> t, dialog |-> started + 1, flow |-> flow, step |-> step,
                 row |-> r, has |-> {}]
<1>5. /\ n \in State /\ n \notin OpenStates /\ OpenStates' = OpenStates \cup {n}
      /\ n.dialog = started + 1 /\ ~Suggesting(n)
  BY <1>4 DEF Suggesting
<1>6. WellFormed(n)
  BY <1>5 DEF WellFormed, Complete, Needed, Waiting
<1> HIDE DEF n
<1>7. StatesOK'
  <2>1. \A s \in OpenStates : s.dialog \in Nat
    BY <1>1, OpenAreStates, ChatAssumption DEF State, Dialog
  <2>2. QED
    BY <1>1, <1>3, <1>5, <1>6, <2>1 DEF StatesOK, CountersOK
<1>8. OpenStates' = (OpenStates \ {n}) \cup {n} /\ n \notin OpenStates \ {n}
  BY <1>5
<1>9. \A d : /\ NumberOpen(Of(d))' = NumberOpen(Of(d)) + Here(n, d)
             /\ NumberOpen(DecidingOf(d))' = NumberOpen(DecidingOf(d)) + DecidingHere(n, d)
             /\ NumberOpen(SuggestingOf(d))' = NumberOpen(SuggestingOf(d)) + SuggestingHere(n, d)
  BY <1>1, <1>5, <1>8, CountExchanged
<1>10. \A d : /\ d # started + 1 => Here(n, d) = 0 /\ DecidingHere(n, d) = 0
              /\ d = started + 1 => Here(n, d) = 1 /\ DecidingHere(n, d) = 1
              /\ SuggestingHere(n, d) = 0
  BY <1>5 DEF Here, DecidingHere, SuggestingHere
<1>11. /\ NumberOpen(Of(started + 1)) = 0
       /\ NumberOpen(DecidingOf(started + 1)) = 0
       /\ NumberOpen(SuggestingOf(started + 1)) = 0
  <2>1. ASSUME NEW D, D \subseteq Of(started + 1)
        PROVE  NumberOpen(D) = 0
    <3>1. \A s \in OpenStates : s.dialog # started + 1
      BY <1>1 DEF StatesOK, CountersOK
    <3>2. OpenStates \cap D = {}
      BY <2>1, <3>1 DEF Of
    <3>3. QED
      BY <3>2, FS_EmptySet DEF NumberOpen
  <2>2. QED
    BY <2>1 DEF DecidingOf, SuggestingOf
<1>12. EffectsOK'
  <2>1. \A D : NumberOpen(D) \in Nat
    BY <1>1, Numbers
  <2>2. ASSUME NEW d \in Dialog
        PROVE  /\ effect[d]["operation"] + NumberOpen(Of(d))' <= 1 + split[d]
               /\ effect[d]["decision"] + NumberOpen(DecidingOf(d))' <= 1 + split[d]
               /\ effect[d]["rule"] + NumberOpen(SuggestingOf(d))' <= effect[d]["decision"]
               /\ d > started + 1 => effect[d]["operation"] = 0 /\ effect[d]["decision"] = 0
    <3>1. d \in Nat /\ split[d] \in Nat
      BY <1>1, ChatAssumption DEF Dialog, CountersOK
    <3>2. /\ effect[d]["operation"] \in Nat /\ effect[d]["decision"] \in Nat
          /\ effect[d]["rule"] \in Nat
      BY DEF IInv, EffectsOK, Effect
    <3>3. /\ effect[d]["operation"] + NumberOpen(Of(d)) <= 1 + split[d]
          /\ effect[d]["decision"] + NumberOpen(DecidingOf(d)) <= 1 + split[d]
          /\ effect[d]["rule"] + NumberOpen(SuggestingOf(d)) <= effect[d]["decision"]
          /\ d > started => effect[d]["operation"] = 0 /\ effect[d]["decision"] = 0
      BY DEF IInv, EffectsOK
    <3>4. CASE d = started + 1
      BY <1>1, <1>9, <1>10, <1>11, <2>1, <3>1, <3>2, <3>3, <3>4 DEF CountersOK
    <3>5. CASE d # started + 1
      BY <1>1, <1>9, <1>10, <2>1, <3>1, <3>2, <3>3, <3>5 DEF CountersOK
    <3>6. QED
      BY <3>4, <3>5
  <2>3. QED
    BY <1>3, <2>2 DEF IInv, EffectsOK
<1>13. HandlersOK'
  BY <1>1, <1>3, KeepHandlers DEF IInv, CountersOK
<1>14. CountersOK' /\ RowsOK'
  BY <1>3 DEF IInv, CountersOK, RowsOK, PostedOnce
<1>15. DocumentsOK'
  BY KeepDocuments DEF IInv
<1>16. NoticesOK'
  BY KeepNotices DEF IInv
<1>17. QED
  BY <1>3, <1>7, <1>12, <1>13, <1>14, <1>15, <1>16 DEF IInv

-----------------------------------------------------------------------------
\* A handler that takes up a state, or gives it up.
LEMMA HandlerTypes ==
  ASSUME HandlersOK, NEW h \in Handler, Seeding(h)
  PROVE  /\ handler[h] \in Seeded /\ handler[h].state \in State
         /\ Held(handler[h].state, handler[h].stage)
<1>1. handler[h] \in Upload \cup Seeded \cup {Idle} /\ Held(handler[h].state, handler[h].stage)
  BY DEF HandlersOK
<1>2. handler[h] \notin Upload /\ handler[h] # Idle
  BY DEF Seeding, Upload, Idle
<1>3. QED
  BY <1>1, <1>2 DEF Held, WellFormed

\* A handler that is put to a stage holds what belongs to the stage.
LEMMA HandlerStaged ==
  ASSUME HandlersOK, NEW h \in Handler, NEW s, NEW stage, Held(s, stage),
         Stage(h, s, stage), handler[h] = Idle \/ Seeding(h), started' = started
  PROVE  /\ HandlersOK'
         /\ \A i \in Handler : \/ handler'[i] = handler[i]
                               \/ handler[i].stage # "sent" /\ handler'[i].stage # "sent"
<1>1. [state |-> s, stage |-> stage] \in Seeded /\ stage # "sent"
  BY DEF Held, WellFormed, Seeded
<1>2. handler' = [handler EXCEPT ![h] = [state |-> s, stage |-> stage]]
  BY DEF Stage
<1>3. /\ handler' \in [Handler -> Upload \cup Seeded \cup {Idle}]
      /\ handler'[h] = [state |-> s, stage |-> stage]
      /\ \A i \in Handler \ {h} : handler'[i] = handler[i]
  BY <1>1, <1>2 DEF HandlersOK
<1>4. \A x, y : Held(x, y)' <=> Held(x, y)
  BY DEF Held
<1>5. \A i \in Handler : Seeding(i)' => Held(handler'[i].state, handler'[i].stage)
  <2> SUFFICES ASSUME NEW i \in Handler, Seeding(i)'
               PROVE  Held(handler'[i].state, handler'[i].stage)
    OBVIOUS
  <2>1. CASE i = h
    BY <1>3, <2>1
  <2>2. CASE i # h
    <3>1. handler'[i] = handler[i] /\ Seeding(i)
      BY <1>3, <2>2 DEF Seeding
    <3>2. QED
      BY <3>1 DEF HandlersOK
  <2>3. QED
    BY <2>1, <2>2
<1>6. HandlersOK'
  BY <1>3, <1>4, <1>5 DEF HandlersOK
<1>7. handler[h].stage # "sent"
  BY DEF Idle, Seeding
<1>8. QED
  BY <1>1, <1>3, <1>6, <1>7

\* A handler that is done holds nothing.
LEMMA HandlerRests ==
  ASSUME HandlersOK, NEW h \in Handler, handler' = [handler EXCEPT ![h] = Idle], started' = started
  PROVE  HandlersOK'
<1>1. /\ handler' \in [Handler -> Upload \cup Seeded \cup {Idle}]
      /\ handler'[h] = Idle
      /\ \A i \in Handler \ {h} : handler'[i] = handler[i]
  BY DEF HandlersOK
<1>2. \A x, y : Held(x, y)' <=> Held(x, y)
  BY DEF Held
<1>3. \A i \in Handler : Seeding(i)' => i # h /\ Seeding(i)
  BY <1>1 DEF Seeding, Idle
<1>4. QED
  BY <1>1, <1>2, <1>3 DEF HandlersOK

\* A step that lists the categories reads its state and gives up the lock.
LEMMA SeedInvariant ==
  ASSUME IInv, NEW s \in OpenStates, NEW stage, Held(s, stage), Seed(s, stage)
  PROVE  IInv'
<1> USE DEF splitVars, fileVars
<1>1. PICK h \in Handler : Free(h) /\ Stage(h, s, stage)
  BY DEF Seed
<1>2. UNCHANGED <<open, started, row, elsewhere, effect, splitVars, fileVars>>
  BY DEF Seed
<1>3. /\ HandlersOK'
      /\ \A i \in Handler : \/ handler'[i] = handler[i]
                            \/ handler[i].stage # "sent" /\ handler'[i].stage # "sent"
  BY <1>1, <1>2, HandlerStaged DEF Free, IInv
<1>4. StoreOK' /\ StatesOK' /\ EffectsOK'
  BY <1>2, KeepStore DEF IInv, EffectsOK
<1>5. CountersOK' /\ RowsOK'
  BY <1>2 DEF IInv, CountersOK, RowsOK, PostedOnce
<1>6. DocumentsOK'
  BY <1>2, KeepDocuments DEF IInv
<1>7. NoticesOK'
  BY <1>2, <1>3, KeepNotices DEF IInv, NoticesOK
<1>8. QED
  BY <1>3, <1>4, <1>5, <1>6, <1>7 DEF IInv

\* It fails after that, and nothing was changed.
LEMMA GiveUpInvariant ==
  ASSUME IInv, NEW h \in Handler, GiveUp(h)
  PROVE  IInv'
<1> USE DEF GiveUp, splitVars, fileVars
<1>1. HandlersOK'
  BY HandlerRests DEF IInv
<1>2. \A i \in Handler : \/ handler'[i] = handler[i]
                         \/ handler[i].stage # "sent" /\ handler'[i].stage # "sent"
  BY DEF IInv, HandlersOK, Seeding, Idle
<1>3. StoreOK' /\ StatesOK' /\ EffectsOK'
  BY KeepStore DEF IInv, EffectsOK
<1>4. CountersOK' /\ RowsOK'
  BY DEF IInv, CountersOK, RowsOK, PostedOnce
<1>5. DocumentsOK'
  BY KeepDocuments DEF IInv
<1>6. NoticesOK'
  BY <1>2, KeepNotices DEF IInv, NoticesOK
<1>7. QED
  BY <1>1, <1>3, <1>4, <1>5, <1>6 DEF IInv

\* A posting was accepted and is not committed yet.
LEMMA CheckAcceptedInvariant ==
  ASSUME IInv, NEW h \in Handler, CheckAccepted(h)
  PROVE  IInv'
<1> USE DEF CheckAccepted, splitVars, fileVars
<1> DEFINE s == handler[h].state
<1>1. Seeding(h)
  BY DEF Seeding
<1>2. Held(s, handler[h].stage)
  BY <1>1, HandlerTypes DEF IInv
<1>3. Held(s, "checked")
  BY <1>2 DEF Held
<1> HIDE DEF s
<1>4. Stage(h, s, "checked")
  BY DEF s
<1>5. /\ HandlersOK'
      /\ \A i \in Handler : \/ handler'[i] = handler[i]
                            \/ handler[i].stage # "sent" /\ handler'[i].stage # "sent"
  BY <1>1, <1>3, <1>4, HandlerStaged DEF IInv
<1>6. StoreOK' /\ StatesOK' /\ EffectsOK'
  BY KeepStore DEF IInv, EffectsOK
<1>7. CountersOK' /\ RowsOK'
  BY DEF IInv, CountersOK, RowsOK, PostedOnce
<1>8. DocumentsOK'
  BY KeepDocuments DEF IInv
<1>9. NoticesOK'
  BY <1>5, KeepNotices DEF IInv, NoticesOK
<1>10. QED
  BY <1>5, <1>6, <1>7, <1>8, <1>9 DEF IInv

\* What holds of a handler that goes on, whatever it does then.
Left(s, d) == IF s \notin OpenStates /\ d = s.dialog THEN 1 ELSE 0

\* A handler that goes on from a state that was left is counted as a split;
\* that is within the bound.
LEMMA ResumeEffect ==
  ASSUME IInv, NEW h \in Handler, Seeding(h), Resume(h), started' = started, elsewhere' = elsewhere
  PROVE  /\ HandlersOK' /\ CountersOK'
         /\ \A i \in Handler : \/ handler'[i] = handler[i]
                               \/ handler[i].stage # "sent" /\ handler'[i].stage # "sent"
         /\ \A d \in Dialog : split'[d] = split[d] + Left(handler[h].state, d)
<1> DEFINE s == handler[h].state
<1>1. s \in State
  BY HandlerTypes DEF IInv
<1>2. handler' = [handler EXCEPT ![h] = Idle]
  BY DEF Resume
<1>3. HandlersOK'
  BY <1>2, HandlerRests DEF IInv
<1>4. \A i \in Handler : \/ handler'[i] = handler[i]
                         \/ handler[i].stage # "sent" /\ handler'[i].stage # "sent"
  BY <1>2 DEF IInv, HandlersOK, Seeding, Idle
<1>5. s.dialog \in Dialog
  BY <1>1 DEF State
<1>6. CASE s \in OpenStates
  BY <1>3, <1>4, <1>6 DEF Resume, Left, IInv, CountersOK
<1>7. CASE s \notin OpenStates
  <2>1. /\ started + splits < MaxThreads
        /\ split' = [split EXCEPT ![s.dialog] = @ + 1]
        /\ splits' = splits + 1
    BY <1>7 DEF Resume, Threads
  <2>2. CountersOK'
    BY <1>5, <2>1, ChatAssumption DEF Resume, IInv, CountersOK
  <2>3. \A d \in Dialog : split'[d] = split[d] + Left(s, d)
    BY <1>5, <1>7, <2>1 DEF IInv, CountersOK, Left
  <2>4. QED
    BY <1>3, <1>4, <2>2, <2>3
<1>8. QED
  BY <1>6, <1>7

\* It replaces the state it holds, be that open or left: an open state is
\* exchanged, a state that was left comes back as one more, which the split
\* accounts for.
LEMMA ResumeInvariant ==
  ASSUME IInv, NEW h \in Handler, Seeding(h), NEW new, WellFormed(new),
         new.dialog = handler[h].state.dialog, ~Suggesting(new),
         Resume(h), Exchange(handler[h].state, new),
         UNCHANGED <<row, elsewhere, effect, fileVars>>
  PROVE  IInv'
<1> USE DEF fileVars
<1> DEFINE s == handler[h].state
<1>1. StoreOK /\ StatesOK /\ CountersOK
  BY DEF IInv
<1>2. s \in State /\ s.dialog <= started /\ ~Suggesting(s)
  BY HandlerTypes DEF IInv, Held, Suggesting
<1> HIDE DEF s
<1>3. Exchange(s, new) /\ new.dialog = s.dialog
  BY DEF s
<1>4. /\ StoreOK' /\ StatesOK' /\ started' = started
      /\ \E n \in State :
           /\ n \notin OpenStates \ {s} /\ OpenStates' = (OpenStates \ {s}) \cup {n}
           /\ n.dialog = new.dialog /\ (Suggesting(n) <=> Suggesting(new))
  BY <1>1, <1>2, <1>3, Replaced
<1>5. PICK n \in State :
           /\ n \notin OpenStates \ {s} /\ OpenStates' = (OpenStates \ {s}) \cup {n}
           /\ n.dialog = s.dialog /\ ~Suggesting(n)
  BY <1>3, <1>4
<1>6. /\ HandlersOK' /\ CountersOK'
      /\ \A i \in Handler : \/ handler'[i] = handler[i]
                            \/ handler[i].stage # "sent" /\ handler'[i].stage # "sent"
      /\ \A d \in Dialog : split'[d] = split[d] + Left(s, d)
  BY <1>4, ResumeEffect DEF s
<1>7. \A d : /\ NumberOpen(Of(d))' = NumberOpen(Of(d)) + Left(s, d)
             /\ NumberOpen(DecidingOf(d))' = NumberOpen(DecidingOf(d)) + Left(s, d)
             /\ NumberOpen(SuggestingOf(d))' = NumberOpen(SuggestingOf(d))
  <2> TAKE d
  <2>1. /\ Here(n, d) = Here(s, d) /\ DecidingHere(n, d) = Here(s, d)
        /\ DecidingHere(s, d) = Here(s, d)
        /\ SuggestingHere(n, d) = 0 /\ SuggestingHere(s, d) = 0
        /\ Here(s, d) \in Nat
        /\ s \in OpenStates => Left(s, d) = 0
        /\ s \notin OpenStates => Left(s, d) = Here(s, d)
    BY <1>2, <1>5 DEF Here, DecidingHere, SuggestingHere, Left
  <2>2. \A D : NumberOpen(D) \in Nat
    BY <1>1, Numbers
  <2>3. CASE s \in OpenStates
    BY <1>1, <1>5, <2>1, <2>2, <2>3, CountExchanged
  <2>4. CASE s \notin OpenStates
    BY <1>1, <1>5, <2>1, <2>2, <2>4, CountExchanged
  <2>5. QED
    BY <2>3, <2>4
<1>8. EffectsOK'
  <2>1. \A D : NumberOpen(D) \in Nat
    BY <1>1, Numbers
  <2>2. \A d : Left(s, d) \in Nat
    BY DEF Left
  <2>3. ASSUME NEW d \in Dialog
        PROVE  /\ effect[d]["operation"] + NumberOpen(Of(d))' <= 1 + split'[d]
               /\ effect[d]["decision"] + NumberOpen(DecidingOf(d))' <= 1 + split'[d]
               /\ effect[d]["rule"] + NumberOpen(SuggestingOf(d))' <= effect[d]["decision"]
               /\ d > started => effect[d]["operation"] = 0 /\ effect[d]["decision"] = 0
    <3>1. split[d] \in Nat /\ split'[d] = split[d] + Left(s, d)
      BY <1>1, <1>6 DEF CountersOK
    <3>2. /\ effect[d]["operation"] \in Nat /\ effect[d]["decision"] \in Nat
          /\ effect[d]["rule"] \in Nat
      BY DEF IInv, EffectsOK, Effect
    <3>3. /\ effect[d]["operation"] + NumberOpen(Of(d)) <= 1 + split[d]
          /\ effect[d]["decision"] + NumberOpen(DecidingOf(d)) <= 1 + split[d]
          /\ effect[d]["rule"] + NumberOpen(SuggestingOf(d)) <= effect[d]["decision"]
          /\ d > started => effect[d]["operation"] = 0 /\ effect[d]["decision"] = 0
      BY DEF IInv, EffectsOK
    <3>4. QED
      BY <1>7, <2>1, <2>2, <3>1, <3>2, <3>3
  <2>4. QED
    BY <1>4, <2>3 DEF IInv, EffectsOK
<1>9. RowsOK'
  BY DEF IInv, RowsOK, PostedOnce
<1>10. DocumentsOK'
  BY KeepDocuments DEF IInv
<1>11. NoticesOK'
  BY <1>6, KeepNotices DEF IInv, NoticesOK
<1>12. QED
  BY <1>4, <1>6, <1>8, <1>9, <1>10, <1>11 DEF IInv

\* The category is asked for an operation or for a row.
LEMMA AskCategoryInvariant ==
  ASSUME IInv, NEW h \in Handler, AskCategory(h)
  PROVE  IInv'
<1> DEFINE s == handler[h].state
           new == CategoryAsked(s)
<1>1. Seeding(h)
  BY DEF AskCategory, Seeding
<1>2. Held(s, "ask_category")
  BY <1>1, HandlerTypes DEF IInv, AskCategory
<1>3. WellFormed(new) /\ new.dialog = s.dialog /\ ~Suggesting(new)
  BY <1>2 DEF Held, WellFormed, CategoryAsked, To, State, Step, Field, Complete, Needed,
              Waiting,
              ManualFlow, Suggesting
<1>4. QED
  BY <1>1, <1>3, ResumeInvariant DEF AskCategory

\* The property is asked after a suggestion was accepted.
LEMMA AskPropertyInvariant ==
  ASSUME IInv, NEW h \in Handler, AskProperty(h)
  PROVE  IInv'
<1> DEFINE s == handler[h].state
           new == To(s, "choose_property", {"category"})
<1>1. Seeding(h)
  BY DEF AskProperty, Seeding
<1>2. Held(s, "accept")
  BY <1>1, HandlerTypes DEF IInv, AskProperty
<1>3. WellFormed(new) /\ new.dialog = s.dialog /\ ~Suggesting(new)
  BY <1>2 DEF Held, WellFormed, To, State, Step, Field, ManualFlow, Suggesting
<1>4. QED
  BY <1>1, <1>3, ResumeInvariant DEF AskProperty

-----------------------------------------------------------------------------
\* The last step of a dialog, and what it leaves in the database.
LEMMA HasEffect ==
  ASSUME EffectsOK, NEW c \in Dialog, NEW e \in Effect, Has(c, e)
  PROVE  /\ effect' \in [Dialog -> [Effect -> Nat]]
         /\ \A d \in Dialog, x \in Effect :
              effect'[d][x] = IF d = c /\ x = e THEN effect[d][x] + 1 ELSE effect[d][x]
BY DEF EffectsOK, Has

\* An effect is had by leaving a state that had the right to it: the sum of
\* both stays.
LEMMA CloseWithEffect ==
  ASSUME IInv, NEW s \in State, s.dialog <= started,
         NEW e \in {"operation", "decision", "rule"}, Has(s.dialog, e),
         e = "rule" <=> Suggesting(s), e = "rule" => s \in OpenStates,
         open' = Without(s), started' = started,
         \A d \in Dialog : split'[d] = split[d] + Left(s, d)
  PROVE  /\ StoreOK' /\ StatesOK' /\ EffectsOK'
         /\ \A d \in Dialog : effect'[d]["document"] = effect[d]["document"]
<1>1. StoreOK /\ StatesOK /\ CountersOK /\ EffectsOK
  BY DEF IInv
<1>2. StoreOK' /\ StatesOK' /\ OpenStates' = OpenStates \ {s}
  BY <1>1, Removed
<1>3. s.dialog \in Dialog /\ e \in Effect /\ "document" \in Effect /\ e # "document"
  BY DEF State, Effect
<1>4. /\ effect' \in [Dialog -> [Effect -> Nat]]
      /\ \A d \in Dialog, x \in Effect :
           effect'[d][x] = IF d = s.dialog /\ x = e THEN effect[d][x] + 1 ELSE effect[d][x]
  BY <1>1, <1>3, HasEffect
<1>5. ASSUME NEW d \in Dialog
      PROVE  /\ effect'[d]["operation"] + NumberOpen(Of(d))' <= 1 + split'[d]
             /\ effect'[d]["decision"] + NumberOpen(DecidingOf(d))' <= 1 + split'[d]
             /\ effect'[d]["rule"] + NumberOpen(SuggestingOf(d))' <= effect'[d]["decision"]
             /\ d > started => effect'[d]["operation"] = 0 /\ effect'[d]["decision"] = 0
  <2>1. /\ split[d] \in Nat /\ split'[d] = split[d] + Left(s, d) /\ d \in Nat /\ started \in Nat
    BY <1>1, ChatAssumption DEF CountersOK, Dialog
  <2>2. /\ effect[d]["operation"] \in Nat /\ effect[d]["decision"] \in Nat
        /\ effect[d]["rule"] \in Nat
    BY <1>1 DEF EffectsOK, Effect
  <2>3. /\ effect[d]["operation"] + NumberOpen(Of(d)) <= 1 + split[d]
        /\ effect[d]["decision"] + NumberOpen(DecidingOf(d)) <= 1 + split[d]
        /\ effect[d]["rule"] + NumberOpen(SuggestingOf(d)) <= effect[d]["decision"]
        /\ d > started => effect[d]["operation"] = 0 /\ effect[d]["decision"] = 0
    BY <1>1 DEF EffectsOK
  <2>4. \A D : NumberOpen(D) \in Nat
    BY <1>1, Numbers
  <2>5. \A x \in {"operation", "decision", "rule"} :
          effect'[d][x] = IF d = s.dialog /\ x = e THEN effect[d][x] + 1 ELSE effect[d][x]
    BY <1>4 DEF Effect
  <2>6. IF s \in OpenStates
        THEN /\ NumberOpen(Of(d))' = NumberOpen(Of(d)) - Here(s, d)
             /\ NumberOpen(DecidingOf(d))' = NumberOpen(DecidingOf(d)) - DecidingHere(s, d)
             /\ NumberOpen(SuggestingOf(d))' = NumberOpen(SuggestingOf(d)) - SuggestingHere(s, d)
        ELSE /\ NumberOpen(Of(d))' = NumberOpen(Of(d))
             /\ NumberOpen(DecidingOf(d))' = NumberOpen(DecidingOf(d))
             /\ NumberOpen(SuggestingOf(d))' = NumberOpen(SuggestingOf(d))
    BY <1>1, <1>2, CountRemoved
  <2>7. CASE d # s.dialog
    <3>1. Left(s, d) = 0 /\ Here(s, d) = 0 /\ DecidingHere(s, d) = 0 /\ SuggestingHere(s, d) = 0
      BY <2>7 DEF Left, Here, DecidingHere, SuggestingHere
    <3>2. QED
      BY <2>1, <2>2, <2>3, <2>4, <2>5, <2>6, <2>7, <3>1
  <2>8. CASE d = s.dialog /\ s \in OpenStates
    <3>1. /\ Left(s, d) = 0 /\ Here(s, d) = 1
          /\ Suggesting(s) => DecidingHere(s, d) = 0 /\ SuggestingHere(s, d) = 1
          /\ ~Suggesting(s) => DecidingHere(s, d) = 1 /\ SuggestingHere(s, d) = 0
      BY <2>8 DEF Left, Here, DecidingHere, SuggestingHere
    <3>2. CASE Suggesting(s)
      BY <2>1, <2>2, <2>3, <2>4, <2>5, <2>6, <2>8, <3>1, <3>2
    <3>3. CASE ~Suggesting(s) /\ e = "operation"
      BY <2>1, <2>2, <2>3, <2>4, <2>5, <2>6, <2>8, <3>1, <3>3
    <3>4. CASE ~Suggesting(s) /\ e = "decision"
      BY <2>1, <2>2, <2>3, <2>4, <2>5, <2>6, <2>8, <3>1, <3>4
    <3>5. QED
      BY <3>2, <3>3, <3>4
  <2>9. CASE d = s.dialog /\ s \notin OpenStates
    <3>1. Left(s, d) = 1
      BY <2>9 DEF Left
    <3>2. QED
      BY <2>1, <2>2, <2>3, <2>4, <2>5, <2>6, <2>9, <3>1
  <2>10. QED
    BY <2>7, <2>8, <2>9
<1>6. EffectsOK'
  BY <1>4, <1>5 DEF EffectsOK
<1>7. QED
  BY <1>2, <1>3, <1>4, <1>6

\* A posting from a suggestion of the dialog: the next step offers a rule.
LEMMA OfferEffect ==
  ASSUME IInv, NEW s \in OpenStates, NEW new, WellFormed(new), new.dialog = s.dialog,
         ~Suggesting(s), Suggesting(new), Replace(s, new), Has(s.dialog, "decision"),
         UNCHANGED split
  PROVE  /\ StoreOK' /\ StatesOK' /\ EffectsOK' /\ started' = started
         /\ \A d \in Dialog : effect'[d]["document"] = effect[d]["document"]
<1>1. StoreOK /\ StatesOK /\ CountersOK /\ EffectsOK
  BY DEF IInv
<1>2. s \in State /\ s.dialog <= started /\ s.dialog \in Dialog
  BY <1>1, OpenAreStates DEF StatesOK, State
<1>3. /\ StoreOK' /\ StatesOK' /\ started' = started
      /\ \E n \in State :
           /\ n \notin OpenStates \ {s} /\ OpenStates' = (OpenStates \ {s}) \cup {n}
           /\ n.dialog = new.dialog /\ (Suggesting(n) <=> Suggesting(new))
  BY <1>1, <1>2, Replaced DEF Replace
<1>4. PICK n \in State :
           /\ n \notin OpenStates \ {s} /\ OpenStates' = (OpenStates \ {s}) \cup {n}
           /\ n.dialog = s.dialog /\ Suggesting(n)
  BY <1>3
<1>5. "document" \in Effect /\ "decision" \in Effect
  BY DEF Effect
<1>6. /\ effect' \in [Dialog -> [Effect -> Nat]]
      /\ \A d \in Dialog, x \in Effect :
           effect'[d][x] = IF d = s.dialog /\ x = "decision" THEN effect[d][x] + 1
                           ELSE effect[d][x]
  BY <1>1, <1>2, <1>5, HasEffect
<1>7. ASSUME NEW d \in Dialog
      PROVE  /\ effect'[d]["operation"] + NumberOpen(Of(d))' <= 1 + split[d]
             /\ effect'[d]["decision"] + NumberOpen(DecidingOf(d))' <= 1 + split[d]
             /\ effect'[d]["rule"] + NumberOpen(SuggestingOf(d))' <= effect'[d]["decision"]
             /\ d > started => effect'[d]["operation"] = 0 /\ effect'[d]["decision"] = 0
  <2>1. split[d] \in Nat /\ d \in Nat /\ started \in Nat
    BY <1>1, ChatAssumption DEF CountersOK, Dialog
  <2>2. /\ effect[d]["operation"] \in Nat /\ effect[d]["decision"] \in Nat
        /\ effect[d]["rule"] \in Nat
    BY <1>1 DEF EffectsOK, Effect
  <2>3. /\ effect[d]["operation"] + NumberOpen(Of(d)) <= 1 + split[d]
        /\ effect[d]["decision"] + NumberOpen(DecidingOf(d)) <= 1 + split[d]
        /\ effect[d]["rule"] + NumberOpen(SuggestingOf(d)) <= effect[d]["decision"]
        /\ d > started => effect[d]["operation"] = 0 /\ effect[d]["decision"] = 0
    BY <1>1 DEF EffectsOK
  <2>4. \A D : NumberOpen(D) \in Nat
    BY <1>1, Numbers
  <2>5. /\ effect'[d]["operation"] = effect[d]["operation"]
        /\ effect'[d]["rule"] = effect[d]["rule"]
        /\ effect'[d]["decision"] = IF d = s.dialog THEN effect[d]["decision"] + 1
                                    ELSE effect[d]["decision"]
    BY <1>6 DEF Effect
  <2>6. /\ NumberOpen(Of(d))' = NumberOpen(Of(d)) - Here(s, d) + Here(n, d)
        /\ NumberOpen(DecidingOf(d))'
             = NumberOpen(DecidingOf(d)) - DecidingHere(s, d) + DecidingHere(n, d)
        /\ NumberOpen(SuggestingOf(d))'
             = NumberOpen(SuggestingOf(d)) - SuggestingHere(s, d) + SuggestingHere(n, d)
    BY <1>1, <1>4, CountExchanged
  <2>7. /\ Here(n, d) = Here(s, d) /\ Here(s, d) \in Nat
        /\ DecidingHere(n, d) = 0 /\ SuggestingHere(s, d) = 0
        /\ DecidingHere(s, d) = IF d = s.dialog THEN 1 ELSE 0
        /\ SuggestingHere(n, d) = IF d = s.dialog THEN 1 ELSE 0
    BY <1>4 DEF Here, DecidingHere, SuggestingHere
  <2>8. QED
    BY <1>2, <2>1, <2>2, <2>3, <2>4, <2>5, <2>6, <2>7
<1>8. EffectsOK'
  BY <1>3, <1>6, <1>7 DEF EffectsOK
<1>9. QED
  BY <1>3, <1>5, <1>6, <1>8

\* A row is posted only while its hash is free.
LEMMA RowDecided ==
  ASSUME RowsOK, NEW r \in Row, NEW status \in RowStatus, status = "booked" => HashFree(r),
         row' = [row EXCEPT ![r] = status]
  PROVE  RowsOK'
<1>1. row' \in [Row -> RowStatus] /\ \A x \in Row : row'[x] = IF x = r THEN status ELSE row[x]
  BY DEF RowsOK
<1>2. PostedOnce'
  BY <1>1 DEF RowsOK, PostedOnce, HashFree
<1>3. QED
  BY <1>1, <1>2 DEF RowsOK

\* An open state was not left, so nothing is split.
LEMMA NotLeft ==
  ASSUME NEW s \in OpenStates, UNCHANGED split, CountersOK
  PROVE  \A d \in Dialog : split'[d] = split[d] + Left(s, d)
BY DEF Left, CountersOK

\* A decision or a posting that ends the dialog.
LEMMA EndInvariant ==
  ASSUME IInv, NEW s \in OpenStates, NEW e \in {"operation", "decision", "rule"},
         e = "rule" <=> Suggesting(s), Has(s.dialog, e), Consume(s), RowsOK', UNCHANGED otherVars
  PROVE  IInv'
<1>1. s \in State /\ s.dialog <= started
  BY OpenAreStates DEF IInv, StatesOK
<1>2. open' = Without(s) /\ started' = started
  BY DEF Consume
<1>3. \A d \in Dialog : split'[d] = split[d] + Left(s, d)
  BY NotLeft DEF IInv, otherVars, splitVars
<1>4. /\ StoreOK' /\ StatesOK' /\ EffectsOK'
      /\ \A d \in Dialog : effect'[d]["document"] = effect[d]["document"]
  BY <1>1, <1>2, <1>3, CloseWithEffect
<1>5. QED
  BY <1>2, <1>4, RestInvariant

\* A posting from a choice of the category or the property.
LEMMA BookInvariant ==
  ASSUME IInv, NEW s \in OpenStates, NEW has \in SUBSET Field,
         s.flow = "review", s.step # "choose_document", ~Suggesting(s),
         Book(s, has), UNCHANGED otherVars
  PROVE  IInv'
<1>1. s \in State /\ WellFormed(s) /\ s.row \in Row
  BY DEF IInv, StatesOK, WellFormed
<1>2. RowsOK'
  <2>1. HashFree(s.row) /\ row' = [row EXCEPT ![s.row] = "booked"] /\ "booked" \in RowStatus
    BY DEF Book, Bookable, RowStatus
  <2>2. QED
    BY <1>1, <2>1, RowDecided DEF IInv
<1>3. CASE Consume(s)
  BY <1>2, <1>3, EndInvariant DEF Book
<1> DEFINE new == To(s, "suggest_rule", {"category"} \cup (has \cap {"property"}))
<1>4. CASE Replace(s, new)
  <2>1. WellFormed(new) /\ new.dialog = s.dialog /\ Suggesting(new)
    BY <1>1 DEF WellFormed, To, State, Step, Field, ManualFlow, Suggesting
  <2> HIDE DEF new
  <2>2. Has(s.dialog, "decision") /\ split' = split
    BY DEF Book, otherVars, splitVars
  <2>3. /\ StoreOK' /\ StatesOK' /\ EffectsOK' /\ started' = started
        /\ \A d \in Dialog : effect'[d]["document"] = effect[d]["document"]
    BY <1>4, <2>1, <2>2, OfferEffect
  <2>4. QED
    BY <1>2, <2>3, RestInvariant
<1>5. QED
  BY <1>3, <1>4 DEF Book

\* The posting of an accepted suggestion, committed under the unique index:
\* the hash is free at that moment whatever was posted since the check.
LEMMA BookAcceptedInvariant ==
  ASSUME IInv, NEW h \in Handler, BookAccepted(h)
  PROVE  IInv'
<1> USE DEF fileVars
<1> DEFINE s == handler[h].state
<1>1. Seeding(h)
  BY DEF BookAccepted, Seeding
<1>2. Held(s, "checked")
  BY <1>1, HandlerTypes DEF IInv, BookAccepted
<1>3. s \in State /\ s.row \in Row /\ s.dialog <= started /\ ~Suggesting(s)
  BY <1>2 DEF Held, WellFormed, Suggesting
<1>4. /\ Resume(h) /\ started' = started /\ elsewhere' = elsewhere
      /\ open' = Without(s) /\ HashFree(s.row) /\ row' = [row EXCEPT ![s.row] = "booked"]
      /\ Has(s.dialog, "decision")
  BY DEF BookAccepted
<1>5. /\ HandlersOK' /\ CountersOK'
      /\ \A i \in Handler : \/ handler'[i] = handler[i]
                            \/ handler[i].stage # "sent" /\ handler'[i].stage # "sent"
      /\ \A d \in Dialog : split'[d] = split[d] + Left(s, d)
  BY <1>1, <1>4, ResumeEffect
<1> HIDE DEF s
<1>6. /\ StoreOK' /\ StatesOK' /\ EffectsOK'
      /\ \A d \in Dialog : effect'[d]["document"] = effect[d]["document"]
  BY <1>3, <1>4, <1>5, CloseWithEffect
<1>7. RowsOK'
  <2>1. "booked" \in RowStatus
    BY DEF RowStatus
  <2>2. QED
    BY <1>3, <1>4, <2>1, RowDecided DEF IInv
<1>8. UNCHANGED <<document, file, delivered, sent, unrecorded, crashes>>
  BY DEF BookAccepted
<1>9. DocumentsOK'
  BY <1>6, <1>8, KeepDocuments DEF IInv
<1>10. NoticesOK'
  BY <1>5, <1>8, KeepNotices DEF IInv, NoticesOK
<1>11. QED
  BY <1>5, <1>6, <1>7, <1>9, <1>10 DEF IInv

\* A transition of a row that is not booked.
LEMMA ApplyActionInvariant ==
  ASSUME IInv, NEW s \in OpenStates, NEW from, NEW target \in {"ignored", "duplicate", "open"},
         ApplyAction(s, from, target), InReview(s, {"review_item", "confirm_review_action"})
  PROVE  IInv'
<1>1. s.row \in Row /\ ~Suggesting(s)
  BY DEF InReview, IInv, StatesOK, WellFormed, Suggesting
<1>2. RowsOK'
  <2>1. target \in RowStatus /\ target # "booked" /\ row' = [row EXCEPT ![s.row] = target]
    BY DEF RowStatus, ApplyAction
  <2>2. QED
    BY <1>1, <2>1, RowDecided DEF IInv
<1>3. QED
  BY <1>1, <1>2, EndInvariant DEF ApplyAction

\* A row is posted as a transfer.
LEMMA ConfirmTransferInvariant ==
  ASSUME IInv, NEW s \in OpenStates, ConfirmTransfer(s)
  PROVE  IInv'
<1>1. s.row \in Row /\ ~Suggesting(s)
  BY DEF ConfirmTransfer, InReview, IInv, StatesOK, WellFormed, Suggesting
<1>2. RowsOK'
  <2>1. "booked" \in RowStatus /\ HashFree(s.row) /\ row' = [row EXCEPT ![s.row] = "booked"]
    BY DEF RowStatus, ConfirmTransfer
  <2>2. QED
    BY <1>1, <2>1, RowDecided DEF IInv
<1>3. QED
  BY <1>1, <1>2, EndInvariant DEF ConfirmTransfer

\* A decision outside the chat.
LEMMA ElsewhereInvariant ==
  ASSUME IInv, NEW r \in Row, ElsewhereDecided(r)
  PROVE  IInv'
<1> USE DEF ElsewhereDecided, splitVars, fileVars
<1>1. RowsOK'
  <2>1. PICK status \in Decisions(row[r]) :
          (status = "booked" => HashFree(r)) /\ row' = [row EXCEPT ![r] = status]
    OBVIOUS
  <2>2. status \in RowStatus
    BY DEF Decisions, RowStatus, IInv, RowsOK
  <2>3. QED
    BY <2>1, <2>2, RowDecided DEF IInv
<1>2. StoreOK' /\ StatesOK' /\ EffectsOK'
  BY KeepStore DEF IInv, EffectsOK
<1>3. HandlersOK'
  BY KeepHandlers DEF IInv, CountersOK
<1>4. CountersOK'
  BY ChatAssumption DEF IInv, CountersOK
<1>5. DocumentsOK'
  BY KeepDocuments DEF IInv
<1>6. NoticesOK'
  BY KeepNotices DEF IInv, NoticesOK
<1>7. QED
  BY <1>1, <1>2, <1>3, <1>4, <1>5, <1>6 DEF IInv

-----------------------------------------------------------------------------
\* Uploads and the notice in the shared feed.
LEMMA UploadTypes ==
  ASSUME HandlersOK, NEW h \in Handler, handler[h].stage \in {"stored", "completed", "sent"}
  PROVE  handler[h] \in Upload /\ handler[h].dialog \in Dialog
<1>1. handler[h] \in Upload \cup Seeded \cup {Idle}
  BY DEF HandlersOK
<1>2. handler[h] \notin Seeded /\ handler[h] # Idle
  BY DEF Seeded, Idle
<1>3. QED
  BY <1>1, <1>2 DEF Upload

\* A handler that is put to a stage of an upload.
LEMMA UploadStaged ==
  ASSUME HandlersOK, NEW h \in Handler, NEW d \in Dialog,
         NEW stage \in {"stored", "completed", "sent"}, Staged(h, d, stage), started' = started
  PROVE  /\ HandlersOK'
         /\ handler'[h] = [dialog |-> d, stage |-> stage]
         /\ \A i \in Handler \ {h} : handler'[i] = handler[i]
<1>1. [dialog |-> d, stage |-> stage] \in Upload
  BY DEF Upload
<1>2. /\ handler' \in [Handler -> Upload \cup Seeded \cup {Idle}]
      /\ handler'[h] = [dialog |-> d, stage |-> stage]
      /\ \A i \in Handler \ {h} : handler'[i] = handler[i]
  BY <1>1 DEF HandlersOK, Staged
<1>3. \A x, y : Held(x, y)' <=> Held(x, y)
  BY DEF Held
<1>4. \A i \in Handler : Seeding(i)' => i # h /\ Seeding(i)
  BY <1>2 DEF Seeding
<1>5. QED
  BY <1>2, <1>3, <1>4 DEF HandlersOK

\* The account of an upload is chosen: the document is made once.
LEMMA PressAccountInvariant ==
  ASSUME IInv, NEW h \in Handler, NEW s \in OpenStates, NEW a \in Account, PressAccount(h, s, a)
  PROVE  IInv'
<1> USE DEF PressAccount, splitVars
<1>1. s.dialog \in Dialog /\ handler[h] = Idle /\ "document" \in Effect /\ NoAccount \notin Account
  BY OpenAreStates, ChatAssumption DEF IInv, State, Free, Effect
<1>2. /\ HandlersOK'
      /\ handler'[h] = [dialog |-> s.dialog, stage |-> "stored"]
      /\ \A i \in Handler \ {h} : handler'[i] = handler[i]
  BY <1>1, UploadStaged DEF IInv
<1>3. StoreOK' /\ StatesOK' /\ \A D : NumberOpen(D)' = NumberOpen(D)
  BY KeepStore DEF IInv
<1>4. /\ effect' \in [Dialog -> [Effect -> Nat]]
      /\ \A d \in Dialog : \A x \in Effect \ {"document"} : effect'[d][x] = effect[d][x]
      /\ DocumentsOK'
  <2>1. CASE document[s.dialog] = NoAccount /\ document' = [document EXCEPT ![s.dialog] = a]
             /\ Has(s.dialog, "document")
    <3>1. /\ effect' \in [Dialog -> [Effect -> Nat]]
          /\ \A d \in Dialog, x \in Effect :
               effect'[d][x] = IF d = s.dialog /\ x = "document" THEN effect[d][x] + 1
                               ELSE effect[d][x]
      BY <1>1, <2>1, HasEffect DEF IInv
    <3>2. DocumentsOK'
      BY <1>1, <2>1, <3>1 DEF IInv, DocumentsOK
    <3>3. QED
      BY <3>1, <3>2
  <2>2. CASE UNCHANGED <<document, effect>>
    BY <2>2 DEF IInv, EffectsOK, DocumentsOK
  <2>3. QED
    BY <2>1, <2>2 DEF Store
<1>5. EffectsOK'
  BY <1>3, <1>4 DEF IInv, EffectsOK, Effect
<1>6. CountersOK' /\ RowsOK'
  BY KeepRows DEF IInv, CountersOK
<1>7. NoticesOK'
  <2>1. \A i \in Handler : \/ handler'[i] = handler[i]
                           \/ handler[i].stage # "sent" /\ handler'[i].stage # "sent"
    BY <1>1, <1>2 DEF Idle
  <2>2. QED
    BY <2>1, KeepNotices DEF IInv, NoticesOK
<1>8. QED
  BY <1>2, <1>3, <1>4, <1>5, <1>6, <1>7 DEF IInv

\* The state of an upload is consumed after its document was made.
LEMMA CompleteUploadInvariant ==
  ASSUME IInv, NEW h \in Handler, CompleteUpload(h)
  PROVE  IInv'
<1> USE DEF CompleteUpload, splitVars
<1> DEFINE d == handler[h].dialog
<1>1. d \in Dialog /\ handler[h].stage = "stored"
  BY UploadTypes DEF IInv
<1>2. /\ HandlersOK'
      /\ handler'[h] = [dialog |-> d, stage |-> "completed"]
      /\ \A i \in Handler \ {h} : handler'[i] = handler[i]
  <2> HIDE DEF d
  <2>1. Staged(h, d, "completed") /\ started' = started
    BY DEF d
  <2>2. QED
    BY <1>1, <2>1, UploadStaged DEF IInv
<1>3. StoreOK' /\ StatesOK' /\ EffectsOK'
  <2>1. CASE open' = open
    BY <2>1, KeepStore DEF IInv, EffectsOK
  <2>2. CASE \E s \in OpenStates : open' = Without(s)
    BY <2>2, FewerOpen
  <2>3. QED
    BY <2>1, <2>2
<1>4. CountersOK' /\ RowsOK'
  BY KeepRows DEF IInv, CountersOK
<1>5. DocumentsOK'
  BY KeepDocuments DEF IInv
<1>6. NoticesOK'
  <2>1. \A i \in Handler : \/ handler'[i] = handler[i]
                           \/ handler[i].stage # "sent" /\ handler'[i].stage # "sent"
    BY <1>1, <1>2
  <2>2. QED
    BY <2>1, KeepNotices DEF IInv, NoticesOK
<1>7. QED
  BY <1>2, <1>3, <1>4, <1>5, <1>6 DEF IInv

\* A notice is sent while no delivery is recorded and no other is on its way
\* to be.
LEMMA SendNoticeInvariant ==
  ASSUME IInv, NEW h \in Handler, SendNotice(h)
  PROVE  IInv'
<1> USE DEF SendNotice, splitVars
<1> DEFINE d == handler[h].dialog
<1>1. d \in Dialog /\ d \notin delivered /\ \A i \in Handler : handler[i].stage # "sent"
  BY UploadTypes DEF IInv, NoticeDue
<1>2. /\ HandlersOK'
      /\ handler'[h] = [dialog |-> d, stage |-> "sent"]
      /\ \A i \in Handler \ {h} : handler'[i] = handler[i]
  BY <1>1, UploadStaged DEF IInv
<1>3. StoreOK' /\ StatesOK' /\ EffectsOK'
  BY KeepStore DEF IInv, EffectsOK
<1>4. CountersOK' /\ RowsOK'
  BY KeepRows DEF IInv, CountersOK
<1>5. DocumentsOK'
  BY KeepDocuments DEF IInv
<1>6. NoticesOK'
  <2>1. \A c \in Dialog : sent'[c] = IF c = d THEN sent[c] + 1 ELSE sent[c]
    BY <1>1 DEF IInv, NoticesOK
  <2>2. \A c \in Dialog : c \notin delivered => sent[c] <= unrecorded[c]
    BY <1>1 DEF IInv, NoticesOK
  <2>3. sent' \in [Dialog -> Nat]
    BY <1>1 DEF IInv, NoticesOK
  <2>4. ASSUME NEW c \in Dialog
        PROVE  /\ sent'[c] <= 1 + unrecorded[c]
               /\ (/\ c \notin delivered
                   /\ \A i \in Handler : ~(handler'[i].stage = "sent" /\ handler'[i].dialog = c))
                  => sent'[c] <= unrecorded[c]
    BY <1>1, <1>2, <2>1, <2>2 DEF IInv, NoticesOK
  <2>5. QED
    BY <2>3, <2>4 DEF IInv, NoticesOK
<1>7. QED
  BY <1>2, <1>3, <1>4, <1>5, <1>6 DEF IInv

\* The delivery is recorded.
LEMMA RecordDeliveryInvariant ==
  ASSUME IInv, NEW h \in Handler, RecordDelivery(h)
  PROVE  IInv'
<1> USE DEF RecordDelivery, splitVars
<1>1. handler[h].dialog \in Dialog
  BY UploadTypes DEF IInv
<1>2. HandlersOK'
  BY HandlerRests DEF IInv
<1>3. StoreOK' /\ StatesOK' /\ EffectsOK'
  BY KeepStore DEF IInv, EffectsOK
<1>4. CountersOK' /\ RowsOK'
  BY KeepRows DEF IInv, CountersOK
<1>5. DocumentsOK'
  BY KeepDocuments DEF IInv
<1>6. NoticesOK'
  <2>1. \A i \in Handler \ {h} : handler'[i] = handler[i]
    BY DEF IInv, HandlersOK
  <2>2. QED
    BY <1>1, <2>1 DEF IInv, NoticesOK
<1>7. QED
  BY <1>2, <1>3, <1>4, <1>5, <1>6 DEF IInv

\* No notice is due.
LEMMA SkipNoticeInvariant ==
  ASSUME IInv, NEW h \in Handler, SkipNotice(h)
  PROVE  IInv'
<1> USE DEF SkipNotice, splitVars
<1>1. HandlersOK'
  BY HandlerRests DEF IInv
<1>2. StoreOK' /\ StatesOK' /\ EffectsOK'
  BY KeepStore DEF IInv, EffectsOK
<1>3. CountersOK' /\ RowsOK'
  BY KeepRows DEF IInv, CountersOK
<1>4. DocumentsOK'
  BY KeepDocuments DEF IInv
<1>5. NoticesOK'
  <2>1. \A i \in Handler : \/ handler'[i] = handler[i]
                           \/ handler[i].stage # "sent" /\ handler'[i].stage # "sent"
    BY DEF IInv, HandlersOK, Idle
  <2>2. QED
    BY <2>1, KeepNotices DEF IInv, NoticesOK
<1>6. QED
  BY <1>1, <1>2, <1>3, <1>4, <1>5 DEF IInv

\* A notice that was sent and not recorded is remembered as lost.
LEMMA CrashInvariant ==
  ASSUME IInv, NEW h \in Handler, Crash(h)
  PROVE  IInv'
<1> USE DEF Crash, splitVars
<1> DEFINE d == handler[h].dialog
<1>1. d \in Dialog
  BY UploadTypes DEF IInv
<1>2. HandlersOK'
  BY HandlerRests DEF IInv
<1>3. StoreOK' /\ StatesOK' /\ EffectsOK'
  BY KeepStore DEF IInv, EffectsOK
<1>4. CountersOK' /\ RowsOK'
  BY KeepRows DEF IInv, CountersOK
<1>5. DocumentsOK'
  BY KeepDocuments DEF IInv
<1>6. NoticesOK'
  <2>1. \A i \in Handler : handler'[i] = IF i = h THEN Idle ELSE handler[i]
    BY DEF IInv, HandlersOK
  <2>2. crashes' \in 0..MaxCrashes
    BY ChatAssumption DEF IInv, NoticesOK
  <2>3. CASE handler[h].stage = "sent"
    <3>1. unrecorded' = [unrecorded EXCEPT ![d] = @ + 1]
      BY <2>3
    <3>2. unrecorded' \in [Dialog -> Nat]
      BY <1>1, <3>1 DEF IInv, NoticesOK
    <3>3. \A c \in Dialog : unrecorded'[c] = IF c = d THEN unrecorded[c] + 1 ELSE unrecorded[c]
      BY <1>1, <3>1 DEF IInv, NoticesOK
    <3>4. \A c \in Dialog : sent[c] \in Nat /\ unrecorded[c] \in Nat /\ sent[c] <= 1 + unrecorded[c]
      BY DEF IInv, NoticesOK
    <3>5. ASSUME NEW c \in Dialog, c \notin delivered,
                 \A i \in Handler : ~(handler'[i].stage = "sent" /\ handler'[i].dialog = c)
          PROVE  sent[c] <= unrecorded'[c]
      <4>1. CASE c = d
        BY <3>3, <3>4, <4>1
      <4>2. CASE c # d
        <5>1. \A i \in Handler : ~(handler[i].stage = "sent" /\ handler[i].dialog = c)
          BY <2>1, <3>5, <4>2
        <5>2. QED
          BY <3>3, <3>5, <4>2, <5>1 DEF IInv, NoticesOK
      <4>3. QED
        BY <4>1, <4>2
    <3>6. QED
      BY <2>2, <3>2, <3>3, <3>4, <3>5 DEF IInv, NoticesOK
  <2>4. CASE handler[h].stage # "sent"
    <3>1. unrecorded' = unrecorded
      BY <2>4
    <3>2. \A c \in Dialog :
            (\A i \in Handler : ~(handler'[i].stage = "sent" /\ handler'[i].dialog = c))
            => (\A i \in Handler : ~(handler[i].stage = "sent" /\ handler[i].dialog = c))
      BY <2>1, <2>4
    <3>3. QED
      BY <2>2, <3>1, <3>2 DEF IInv, NoticesOK
  <2>5. QED
    BY <2>3, <2>4
<1>7. QED
  BY <1>2, <1>3, <1>4, <1>5, <1>6 DEF IInv

\* Files are forgotten by the maintenance.
LEMMA ScrubPayloadsInvariant ==
  ASSUME IInv, ScrubPayloads
  PROVE  IInv'
<1> USE DEF ScrubPayloads, splitVars
<1>1. HandlersOK'
  BY KeepHandlers DEF IInv, CountersOK
<1>2. StoreOK' /\ StatesOK' /\ EffectsOK'
  BY KeepStore DEF IInv, EffectsOK
<1>3. CountersOK' /\ RowsOK'
  BY KeepRows DEF IInv, CountersOK
<1>4. DocumentsOK'
  BY KeepDocuments DEF IInv
<1>5. NoticesOK'
  BY KeepNotices DEF IInv, NoticesOK
<1>6. QED
  BY <1>1, <1>2, <1>3, <1>4, <1>5 DEF IInv

-----------------------------------------------------------------------------
\* Operations entered by hand.
LEMMA OpenState ==
  ASSUME IInv, NEW s \in OpenStates
  PROVE  WellFormed(s) /\ s \in State /\ s.dialog <= started
BY DEF IInv, StatesOK, WellFormed

\* A step of a manual dialog keeps the payload complete.
LEMMA ManualMove ==
  ASSUME IInv, NEW s \in OpenStates, s.flow \in ManualFlow,
         NEW step \in Step, NEW has \in SUBSET Field,
         LET new == To(s, step, has)
         IN  /\ Complete(new)
             /\ new.flow = "record_money" /\ step = "enter_description" => "category" \in has,
         Suggesting(To(s, step, has)) <=> Suggesting(s),
         Replace(s, To(s, step, has)), Unchanging
  PROVE  IInv'
<1> DEFINE new == To(s, step, has)
<1>1. WellFormed(s) /\ s \in State
  BY OpenState
<1>2. new \in State /\ new.dialog = s.dialog /\ new.flow = s.flow /\ new.row = s.row
      /\ new.step = step /\ new.has = has
  BY <1>1 DEF To, State
<1>3. WellFormed(new)
  BY <1>1, <1>2 DEF WellFormed, ManualFlow
<1> HIDE DEF new
<1>4. Replace(s, new) /\ (Suggesting(new) <=> Suggesting(s))
  BY DEF new
<1>5. QED
  BY <1>2, <1>3, <1>4, MoveInvariant

\* The account, or the two of a transfer, are chosen first.
LEMMA SelectAccountInvariant ==
  ASSUME IInv, NEW s \in OpenStates, SelectAccount(s)
  PROVE  IInv'
<1> USE DEF SelectAccount
<1>1. WellFormed(s) /\ s \in State
  BY OpenState
<1>2. CASE s.step = "choose_account" /\ Replace(s, To(s, "enter_amount", {"account"}))
  <2>1. {"account"} \in SUBSET Field /\ "enter_amount" \in Step
    BY DEF Field, Step
  <2>2. Complete(To(s, "enter_amount", {"account"}))
    BY <1>1 DEF To, State, Complete, Needed, Waiting
  <2>3. ~Suggesting(s) /\ ~Suggesting(To(s, "enter_amount", {"account"}))
    BY <1>1, <1>2 DEF Suggesting, To, State
  <2>4. QED
    BY <1>2, <2>1, <2>2, <2>3, ManualMove
<1>3. CASE /\ s.step = "choose_source_account"
           /\ Replace(s, To(s, "choose_destination_account", {"source"}))
  <2>1. {"source"} \in SUBSET Field /\ "choose_destination_account" \in Step
    BY DEF Field, Step
  <2>2. Complete(To(s, "choose_destination_account", {"source"}))
    BY <1>1 DEF To, State, Complete, Needed, Waiting
  <2>3. ~Suggesting(s) /\ ~Suggesting(To(s, "choose_destination_account", {"source"}))
    BY <1>1, <1>3 DEF Suggesting, To, State
  <2>4. QED
    BY <1>3, <2>1, <2>2, <2>3, ManualMove
<1>4. CASE /\ s.step = "choose_destination_account"
           /\ Replace(s, To(s, "enter_amount", {"source", "destination"}))
  <2>1. {"source", "destination"} \in SUBSET Field /\ "enter_amount" \in Step
    BY DEF Field, Step
  <2>2. Complete(To(s, "enter_amount", {"source", "destination"}))
    BY <1>1 DEF To, State, Complete, Needed, Waiting
  <2>3. ~Suggesting(s) /\ ~Suggesting(To(s, "enter_amount", {"source", "destination"}))
    BY <1>1, <1>4 DEF Suggesting, To, State
  <2>4. QED
    BY <1>4, <2>1, <2>2, <2>3, ManualMove
<1>5. QED
  BY <1>2, <1>3, <1>4

\* The date is there: a transfer goes on, money asks for its category.
LEMMA AfterDateInvariant ==
  ASSUME IInv, NEW s \in OpenStates, s.flow \in ManualFlow,
         s.step \in {"choose_date", "enter_custom_date"}, AfterDate(s)
  PROVE  IInv'
<1>1. WellFormed(s) /\ s \in State /\ s.dialog <= started
  BY OpenState
<1>2. CASE /\ s.flow = "record_transfer"
           /\ Replace(s, To(s, "enter_description", s.has \cup {"date"}))
           /\ Unchanging
  <2>1. s.has \cup {"date"} \in SUBSET Field /\ "enter_description" \in Step
    BY <1>1 DEF State, Field, Step
  <2>2. /\ Complete(To(s, "enter_description", s.has \cup {"date"}))
        /\ To(s, "enter_description", s.has \cup {"date"}).flow = "record_transfer"
    BY <1>1, <1>2 DEF WellFormed, To, State, Complete, Needed, Waiting
  <2>3. ~Suggesting(s) /\ ~Suggesting(To(s, "enter_description", s.has \cup {"date"}))
    BY <1>1 DEF Suggesting, To, State
  <2>4. QED
    BY <1>2, <2>1, <2>2, <2>3, ManualMove
<1>3. CASE s.flow = "record_money" /\ Seed(s, "ask_category")
  <2>1. Held(s, "ask_category")
    BY <1>1, <1>3 DEF Held
  <2>2. QED
    BY <1>3, <2>1, SeedInvariant
<1>4. QED
  BY <1>2, <1>3 DEF AfterDate

\* A date is chosen, or is to be entered.
LEMMA SelectDateInvariant ==
  ASSUME IInv, NEW s \in OpenStates, SelectDate(s)
  PROVE  IInv'
<1>1. WellFormed(s) /\ s \in State /\ s.flow \in ManualFlow /\ s.step = "choose_date"
  BY OpenState DEF SelectDate
<1>2. CASE Replace(s, To(s, "enter_custom_date", s.has)) /\ Unchanging
  <2>1. s.has \in SUBSET Field /\ "enter_custom_date" \in Step
    BY <1>1 DEF State, Step
  <2>2. Complete(To(s, "enter_custom_date", s.has))
    BY <1>1 DEF WellFormed, To, State, Complete, Needed, Waiting
  <2>3. ~Suggesting(s) /\ ~Suggesting(To(s, "enter_custom_date", s.has))
    BY <1>1 DEF Suggesting, To, State
  <2>4. QED
    BY <1>1, <1>2, <2>1, <2>2, <2>3, ManualMove
<1>3. CASE AfterDate(s)
  BY <1>1, <1>3, AfterDateInvariant
<1>4. QED
  BY <1>2, <1>3 DEF SelectDate

\* The category comes before the description.
LEMMA SelectCategoryInvariant ==
  ASSUME IInv, NEW s \in OpenStates, SelectCategory(s)
  PROVE  IInv'
<1>1. WellFormed(s) /\ s \in State /\ s.flow \in ManualFlow /\ s.step = "choose_category"
  BY OpenState DEF SelectCategory
<1>2. s.has \cup {"category"} \in SUBSET Field /\ "enter_description" \in Step
  BY <1>1 DEF State, Field, Step
<1>3. Complete(To(s, "enter_description", s.has \cup {"category"}))
  BY <1>1 DEF WellFormed, To, State, Complete, Needed, Waiting
<1>4. ~Suggesting(s) /\ ~Suggesting(To(s, "enter_description", s.has \cup {"category"}))
  BY <1>1 DEF Suggesting, To, State
<1>5. QED
  BY <1>1, <1>2, <1>3, <1>4, ManualMove DEF SelectCategory

\* With the description the payload is complete.
LEMMA DescribeInvariant ==
  ASSUME IInv, NEW s \in OpenStates, s.flow \in ManualFlow, s.step = "enter_description",
         Replace(s, To(s, "confirm", s.has \cup {"description"})), Unchanging
  PROVE  IInv'
<1>1. WellFormed(s) /\ s \in State
  BY OpenState
<1>2. s.has \cup {"description"} \in SUBSET Field /\ "confirm" \in Step
  BY <1>1 DEF State, Field, Step
<1>3. Complete(To(s, "confirm", s.has \cup {"description"}))
  BY <1>1 DEF WellFormed, To, State, Complete, Needed, Waiting, ManualFlow
<1>4. ~Suggesting(s) /\ ~Suggesting(To(s, "confirm", s.has \cup {"description"}))
  BY <1>1 DEF Suggesting, To, State
<1>5. QED
  BY <1>1, <1>2, <1>3, <1>4, ManualMove

\* A correction keeps the payload, so every step it may lead to finds what it
\* reads.
LEMMA SelectCorrectionInvariant ==
  ASSUME IInv, NEW s \in OpenStates, SelectCorrection(s)
  PROVE  IInv'
<1>1. /\ WellFormed(s) /\ s \in State /\ s.flow \in ManualFlow /\ s.step = "confirm"
      /\ s.dialog <= started
  BY OpenState DEF SelectCorrection
<1>2. CASE s.flow = "record_money" /\ Seed(s, "ask_category")
  <2>1. Held(s, "ask_category")
    BY <1>1, <1>2 DEF Held
  <2>2. QED
    BY <1>2, <2>1, SeedInvariant
<1>3. ASSUME NEW step \in {"enter_amount", "choose_date", "enter_description"},
             Replace(s, To(s, step, s.has)), Unchanging
      PROVE  IInv'
  <2>1. s.has \in SUBSET Field /\ step \in Step
    BY <1>1 DEF State, Step
  <2>2. /\ Complete(To(s, step, s.has))
        /\ To(s, step, s.has).flow = "record_money" => "category" \in s.has
    BY <1>1 DEF WellFormed, To, State, Complete, Needed, Waiting
  <2>3. ~Suggesting(s) /\ ~Suggesting(To(s, step, s.has))
    BY <1>1 DEF Suggesting, To, State
  <2>4. QED
    BY <1>1, <1>3, <2>1, <2>2, <2>3, ManualMove
<1>4. QED
  BY <1>2, <1>3 DEF SelectCorrection, Correction

\* An operation is posted and the dialog is over.
LEMMA ConfirmOperationInvariant ==
  ASSUME IInv, NEW s \in OpenStates, ConfirmOperation(s)
  PROVE  IInv'
<1>1. ~Suggesting(s)
  BY DEF ConfirmOperation, Suggesting
<1>2. QED
  BY <1>1, EndInvariant, KeepRows DEF ConfirmOperation, IInv

\* A text answers what the newest manual dialog asks.
LEMMA AnswerTextInvariant ==
  ASSUME IInv, NEW s \in OpenStates, AnswerText(s)
  PROVE  IInv'
<1>1. WellFormed(s) /\ s \in State /\ s.flow \in ManualFlow
  BY OpenState DEF AnswerText, Latest
<1>2. CASE /\ s.step = "enter_amount"
           /\ Replace(s, To(s, "choose_date", s.has \cup {"amount"}))
           /\ Unchanging
  <2>1. s.has \cup {"amount"} \in SUBSET Field /\ "choose_date" \in Step
    BY <1>1 DEF State, Field, Step
  <2>2. Complete(To(s, "choose_date", s.has \cup {"amount"}))
    BY <1>1, <1>2 DEF WellFormed, To, State, Complete, Needed, Waiting
  <2>3. ~Suggesting(s) /\ ~Suggesting(To(s, "choose_date", s.has \cup {"amount"}))
    BY <1>1, <1>2 DEF Suggesting, To, State
  <2>4. QED
    BY <1>1, <1>2, <2>1, <2>2, <2>3, ManualMove
<1>3. CASE s.step \in {"choose_date", "enter_custom_date"} /\ AfterDate(s)
  BY <1>1, <1>3, AfterDateInvariant
<1>4. CASE /\ s.step = "enter_description"
           /\ Replace(s, To(s, "confirm", s.has \cup {"description"}))
           /\ Unchanging
  BY <1>1, <1>4, DescribeInvariant
<1>5. QED
  BY <1>2, <1>3, <1>4 DEF AnswerText

-----------------------------------------------------------------------------
\* Decisions about imported rows.
LEMMA ReviewMove ==
  ASSUME IInv, NEW s \in OpenStates, s.flow = "review",
         NEW step \in Step, NEW has \in SUBSET Field, NEW r \in Row, step # "choose_document",
         step \in {"suggest_rule", "enter_rule_pattern"} <=> Suggesting(s),
         Replace(s, [s EXCEPT !.step = step, !.has = has, !.row = r]), Unchanging
  PROVE  IInv'
<1> DEFINE new == [s EXCEPT !.step = step, !.has = has, !.row = r]
<1>1. WellFormed(s) /\ s \in State
  BY OpenState
<1>2. /\ WellFormed(new) /\ new.dialog = s.dialog
      /\ Suggesting(new) <=> Suggesting(s)
  BY <1>1 DEF State, WellFormed, ManualFlow, Suggesting
<1> HIDE DEF new
<1>3. Replace(s, new)
  BY DEF new
<1>4. QED
  BY <1>2, <1>3, MoveInvariant

\* A step of a review about the same row.
LEMMA ReviewStep ==
  ASSUME IInv, NEW s \in OpenStates, s.flow = "review", s.step # "choose_document",
         NEW step \in Step, NEW has \in SUBSET Field, step # "choose_document",
         step \in {"suggest_rule", "enter_rule_pattern"} <=> Suggesting(s),
         Replace(s, To(s, step, has)), Unchanging
  PROVE  IInv'
<1>1. WellFormed(s) /\ s \in State
  BY OpenState
<1>2. s.row \in Row
  BY <1>1 DEF WellFormed
<1>3. To(s, step, has) = [s EXCEPT !.step = step, !.has = has, !.row = s.row]
  BY <1>1 DEF To, State
<1>4. Replace(s, [s EXCEPT !.step = step, !.has = has, !.row = s.row])
  BY <1>3
<1>5. QED
  BY <1>2, <1>4, ReviewMove

\* The first row of a document, or none.
LEMMA SelectDocumentInvariant ==
  ASSUME IInv, NEW s \in OpenStates, SelectDocument(s)
  PROVE  IInv'
<1>1. /\ WellFormed(s) /\ s \in State /\ s.flow = "review" /\ s.step = "choose_document"
      /\ ~Suggesting(s)
  BY OpenState DEF SelectDocument, InReview, Suggesting
<1>2. ASSUME NEW r \in Row, Replace(s, [s EXCEPT !.step = "review_item", !.row = r]), Unchanging
      PROVE  IInv'
  <2>1. /\ s.has \in SUBSET Field /\ "review_item" \in Step
        /\ [s EXCEPT !.step = "review_item", !.row = r]
             = [s EXCEPT !.step = "review_item", !.has = s.has, !.row = r]
    BY <1>1 DEF State, Step
  <2>2. /\ "review_item" # "choose_document"
        /\ "review_item" \in {"suggest_rule", "enter_rule_pattern"} <=> Suggesting(s)
    BY <1>1
  <2>3. Replace(s, [s EXCEPT !.step = "review_item", !.has = s.has, !.row = r])
    BY <1>2, <2>1
  <2>4. QED
    BY <1>1, <1>2, <2>1, <2>2, <2>3, ReviewMove
<1>3. CASE Consume(s) /\ Unchanging
  BY <1>3, CloseInvariant DEF Consume
<1>4. QED
  BY <1>2, <1>3 DEF SelectDocument

\* The row before or after.
LEMMA AdjacentItemInvariant ==
  ASSUME IInv, NEW s \in OpenStates, NEW r \in Row, AdjacentItem(s, r)
  PROVE  IInv'
<1>1. /\ WellFormed(s) /\ s \in State /\ s.flow = "review" /\ s.step = "review_item"
      /\ ~Suggesting(s)
  BY OpenState DEF AdjacentItem, InReview, Suggesting
<1>2. /\ s.has \in SUBSET Field /\ "review_item" \in Step
      /\ [s EXCEPT !.row = r] = [s EXCEPT !.step = "review_item", !.has = s.has, !.row = r]
  BY <1>1 DEF State, Step
<1>3. /\ "review_item" # "choose_document"
      /\ "review_item" \in {"suggest_rule", "enter_rule_pattern"} <=> Suggesting(s)
  BY <1>1
<1>4. /\ Replace(s, [s EXCEPT !.step = "review_item", !.has = s.has, !.row = r])
      /\ Unchanging
  BY <1>2 DEF AdjacentItem
<1>5. QED
  BY <1>1, <1>2, <1>3, <1>4, ReviewMove

\* What reviews write into payloads.
LEMMA FieldsOfReview ==
  /\ \A x \in {"category", "property", "target", "offer_rule", "mark_duplicate", "ignore"} :
       x \in Field
  /\ {"review_item", "choose_property", "choose_transfer_target", "confirm_transfer",
      "confirm_review_action", "enter_rule_pattern"} \subseteq Step
  /\ {} \in SUBSET Field
BY DEF Field, Step

\* Back to the row.
LEMMA ReturnToItemInvariant ==
  ASSUME IInv, NEW s \in OpenStates, ReturnToItem(s)
  PROVE  IInv'
<1>1. s.flow = "review" /\ s.step # "choose_document" /\ ~Suggesting(s)
  BY DEF ReturnToItem, InReview, Suggesting
<1>2. QED
  BY <1>1, FieldsOfReview, ReviewStep DEF ReturnToItem

\* A category is to be chosen for the row: the handler lists them.
LEMMA StartConfirmationInvariant ==
  ASSUME IInv, NEW s \in OpenStates, StartConfirmation(s)
  PROVE  IInv'
<1>1. Held(s, "ask_category")
  BY OpenState DEF StartConfirmation, InReview, Held
<1>2. QED
  BY <1>1, SeedInvariant DEF StartConfirmation

\* A suggestion is accepted: the handler lists the categories.
LEMMA AcceptSuggestionInvariant ==
  ASSUME IInv, NEW s \in OpenStates, AcceptSuggestion(s)
  PROVE  IInv'
<1>1. Held(s, "accept")
  BY OpenState DEF AcceptSuggestion, InReview, Held
<1>2. QED
  BY <1>1, SeedInvariant DEF AcceptSuggestion

\* The category was chosen: the row is posted or the property is asked.
LEMMA ConfirmWithCategoryInvariant ==
  ASSUME IInv, NEW s \in OpenStates, ConfirmWithCategory(s)
  PROVE  IInv'
<1>1. s.flow = "review" /\ s.step # "choose_document" /\ ~Suggesting(s)
  BY DEF ConfirmWithCategory, InReview, Suggesting
<1> DEFINE has == {"category", "offer_rule"}
<1>2. has \in SUBSET Field
  BY FieldsOfReview
<1>3. FinishCategory(s, has)
  BY DEF ConfirmWithCategory
<1> HIDE DEF has
<1>4. CASE Book(s, has) /\ UNCHANGED otherVars
  BY <1>1, <1>2, <1>4, BookInvariant
<1>5. CASE Replace(s, To(s, "choose_property", has)) /\ Unchanging
  BY <1>1, <1>2, <1>5, FieldsOfReview, ReviewStep
<1>6. QED
  BY <1>3, <1>4, <1>5 DEF FinishCategory, Unchanging, otherVars

\* The property was chosen: the row is posted.
LEMMA ConfirmWithPropertyInvariant ==
  ASSUME IInv, NEW s \in OpenStates, ConfirmWithProperty(s)
  PROVE  IInv'
<1>1. s.flow = "review" /\ s.step # "choose_document" /\ ~Suggesting(s)
  BY DEF ConfirmWithProperty, InReview, Suggesting
<1>2. s.has \cup {"property"} \in SUBSET Field
  BY OpenState, FieldsOfReview DEF State
<1>3. QED
  BY <1>1, <1>2, BookInvariant DEF ConfirmWithProperty

\* The row is to be a transfer.
LEMMA StartTransferInvariant ==
  ASSUME IInv, NEW s \in OpenStates, StartTransfer(s)
  PROVE  IInv'
<1>1. s.flow = "review" /\ s.step # "choose_document" /\ ~Suggesting(s)
  BY DEF StartTransfer, InReview, Suggesting
<1>2. QED
  BY <1>1, FieldsOfReview, ReviewStep DEF StartTransfer

\* The other account was chosen.
LEMMA SelectTransferTargetInvariant ==
  ASSUME IInv, NEW s \in OpenStates, SelectTransferTarget(s)
  PROVE  IInv'
<1>1. s.flow = "review" /\ s.step # "choose_document" /\ ~Suggesting(s)
  BY DEF SelectTransferTarget, InReview, Suggesting
<1>2. {"target"} \in SUBSET Field
  BY FieldsOfReview
<1>3. QED
  BY <1>1, <1>2, FieldsOfReview, ReviewStep DEF SelectTransferTarget

\* An action is asked to be confirmed.
LEMMA StartReviewActionInvariant ==
  ASSUME IInv, NEW s \in OpenStates, StartReviewAction(s)
  PROVE  IInv'
<1>1. s.flow = "review" /\ s.step # "choose_document" /\ ~Suggesting(s)
  BY DEF StartReviewAction, InReview, Suggesting
<1>2. {"ignore"} \in SUBSET Field /\ {"mark_duplicate"} \in SUBSET Field
  BY FieldsOfReview
<1>3. PICK x \in {"ignore", "mark_duplicate"} :
        Replace(s, To(s, "confirm_review_action", {x})) /\ Unchanging
  BY DEF StartReviewAction
<1>4. {x} \in SUBSET Field
  BY <1>2
<1>5. QED
  BY <1>1, <1>3, <1>4, FieldsOfReview, ReviewStep

\* The stored action is applied to the row.
LEMMA ConfirmReviewActionInvariant ==
  ASSUME IInv, NEW s \in OpenStates, ConfirmReviewAction(s)
  PROVE  IInv'
<1>1. InReview(s, {"review_item", "confirm_review_action"})
  BY DEF ConfirmReviewAction, InReview
<1>2. QED
  BY <1>1, ApplyActionInvariant DEF ConfirmReviewAction

\* A duplicate is none.
LEMMA MarkUniqueInvariant ==
  ASSUME IInv, NEW s \in OpenStates, MarkUnique(s)
  PROVE  IInv'
<1>1. InReview(s, {"review_item", "confirm_review_action"})
  BY DEF MarkUnique, InReview
<1>2. QED
  BY <1>1, ApplyActionInvariant DEF MarkUnique

\* The pattern of a rule is to be entered.
LEMMA EnterPatternInvariant ==
  ASSUME IInv, NEW s \in OpenStates, EnterPattern(s)
  PROVE  IInv'
<1>1. s.flow = "review" /\ s.step # "choose_document" /\ Suggesting(s)
  BY DEF EnterPattern, SuggestedRule, InReview, Suggesting
<1>2. s.has \in SUBSET Field
  BY OpenState DEF State
<1>3. QED
  BY <1>1, <1>2, FieldsOfReview, ReviewStep DEF EnterPattern

\* A rule is saved by a dialog that offers one.
LEMMA RuleInvariant ==
  ASSUME IInv, NEW s \in OpenStates, SaveRule(s) \/ AnswerPattern(s)
  PROVE  IInv'
<1>1. Suggesting(s) /\ Consume(s) /\ Has(s.dialog, "rule") /\ UNCHANGED <<row, otherVars>>
  BY DEF SaveRule, SuggestedRule, InReview, AnswerPattern, Suggesting
<1>2. QED
  BY <1>1, EndInvariant, KeepRows DEF IInv

\* Every button of every message.
LEMMA ButtonInvariant ==
  ASSUME IInv, NEW s \in OpenStates, Button(s)
  PROVE  IInv'
<1>1. CASE SelectAccount(s)
  BY <1>1, SelectAccountInvariant
<1>2. CASE SelectDate(s)
  BY <1>2, SelectDateInvariant
<1>3. CASE SelectCategory(s)
  BY <1>3, SelectCategoryInvariant
<1>4. CASE SkipDescription(s)
  BY <1>4, DescribeInvariant DEF SkipDescription
<1>5. CASE SelectCorrection(s)
  BY <1>5, SelectCorrectionInvariant
<1>6. CASE ConfirmOperation(s)
  BY <1>6, ConfirmOperationInvariant
<1>7. CASE SelectDocument(s)
  BY <1>7, SelectDocumentInvariant
<1>8. CASE ReturnToItem(s)
  BY <1>8, ReturnToItemInvariant
<1>9. CASE StartConfirmation(s)
  BY <1>9, StartConfirmationInvariant
<1>10. CASE \E r \in Row : AdjacentItem(s, r)
  BY <1>10, AdjacentItemInvariant
<1>11. CASE AcceptSuggestion(s)
  BY <1>11, AcceptSuggestionInvariant
<1>12. CASE ConfirmWithCategory(s)
  BY <1>12, ConfirmWithCategoryInvariant
<1>13. CASE ConfirmWithProperty(s)
  BY <1>13, ConfirmWithPropertyInvariant
<1>14. CASE StartTransfer(s)
  BY <1>14, StartTransferInvariant
<1>15. CASE SelectTransferTarget(s)
  BY <1>15, SelectTransferTargetInvariant
<1>16. CASE ConfirmTransfer(s)
  BY <1>16, ConfirmTransferInvariant
<1>17. CASE StartReviewAction(s)
  BY <1>17, StartReviewActionInvariant
<1>18. CASE ConfirmReviewAction(s)
  BY <1>18, ConfirmReviewActionInvariant
<1>19. CASE MarkUnique(s)
  BY <1>19, MarkUniqueInvariant
<1>20. CASE EnterPattern(s)
  BY <1>20, EnterPatternInvariant
<1>21. CASE SkipRule(s)
  BY <1>21, CloseInvariant DEF SkipRule, Consume
<1>22. CASE SaveRule(s)
  BY <1>22, RuleInvariant
<1>23. QED
  BY <1>1, <1>2, <1>3, <1>4, <1>5, <1>6, <1>7, <1>8, <1>9, <1>10, <1>11, <1>12, <1>13, <1>14,
     <1>15, <1>16, <1>17, <1>18, <1>19, <1>20, <1>21, <1>22 DEF Button

-----------------------------------------------------------------------------
\* Every way a dialog begins.
LEMMA BeginsInvariant ==
  ASSUME IInv, \/ StartManual \/ OpenDocuments \/ StartUpload
               \/ \E r \in Row : OpenItem(r)
  PROVE  IInv'
<1>1. /\ {"record_money", "record_transfer", "review", "upload_document"} \subseteq Flow
      /\ {"choose_account", "choose_source_account", "choose_document", "review_item"}
             \subseteq Step
      /\ NoRow \notin Row
  BY ChatAssumption DEF Flow, ManualFlow, Step
<1>2. file \subseteq Dialog
  BY DEF IInv, NoticesOK
<1>3. ASSUME NEW flow \in {"record_money", "record_transfer", "review"},
             NEW step \in {"choose_account", "choose_source_account", "choose_document",
                           "review_item"},
             NEW r \in Row \cup {NoRow},
             r \in Row <=> flow = "review" /\ step # "choose_document",
             Begin(flow, step, r, {}), Unchanging
      PROVE  IInv'
  BY <1>1, <1>2, <1>3, BeginInvariant DEF Unchanging, otherVars, fileVars
<1>4. CASE StartManual
  BY <1>1, <1>3, <1>4 DEF StartManual
<1>5. CASE OpenDocuments
  BY <1>1, <1>3, <1>5 DEF OpenDocuments
<1>6. CASE \E r \in Row : OpenItem(r)
  BY <1>3, <1>6 DEF OpenItem
<1>7. CASE StartUpload
  <2>1. started + 1 \in Dialog
    <3>1. started + splits < MaxThreads
      BY <1>7, RoomForOne DEF StartUpload, Begin, IInv
    <3>2. QED
      BY <3>1, ChatAssumption DEF IInv, CountersOK, Dialog
  <2>2. file' \subseteq Dialog
    BY <1>2, <1>7, <2>1 DEF StartUpload
  <2>3. /\ Begin("upload_document", "choose_account", NoRow, {})
        /\ UNCHANGED <<row, effect, elsewhere, handler, splitVars, document, delivered, sent,
                       unrecorded, crashes>>
    BY <1>7 DEF StartUpload
  <2>4. QED
    BY <1>1, <2>2, <2>3, BeginInvariant
<1>8. QED
  BY <1>4, <1>5, <1>6, <1>7

\* Nothing happens.
LEMMA StutterInvariant == ASSUME IInv, UNCHANGED vars PROVE IInv'
<1> USE DEF vars
<1>1. StoreOK' /\ StatesOK' /\ EffectsOK'
  BY KeepStore DEF IInv, EffectsOK
<1>2. UNCHANGED otherVars /\ RowsOK' /\ started' = started
  BY KeepRows DEF IInv, otherVars, splitVars, fileVars
<1>3. QED
  BY <1>1, <1>2, RestInvariant

\* Every step keeps the invariant.
LEMMA StepInvariant == IInv /\ [Next]_vars => IInv'
<1> SUFFICES ASSUME IInv, [Next]_vars PROVE IInv'
  OBVIOUS
<1>1. CASE StartManual \/ OpenDocuments \/ StartUpload \/ \E r \in Row : OpenItem(r)
  BY <1>1, BeginsInvariant
<1>2. CASE \E r \in Row : ElsewhereDecided(r)
  BY <1>2, ElsewhereInvariant
<1>3. CASE \E s \in OpenStates : Button(s)
  BY <1>3, ButtonInvariant
<1>4. CASE \E s \in OpenStates : Text(s)
  BY <1>4, AnswerTextInvariant, RuleInvariant DEF Text
<1>5. CASE \E s \in OpenStates : Lapse(s)
  BY <1>5, LapseInvariant
<1>6. CASE \E h \in Handler, s \in OpenStates, a \in Account : PressAccount(h, s, a)
  BY <1>6, PressAccountInvariant
<1>7. CASE \E h \in Handler : UploadStep(h)
  BY <1>7, CompleteUploadInvariant, SendNoticeInvariant, RecordDeliveryInvariant,
     SkipNoticeInvariant DEF UploadStep
<1>8. CASE \E h \in Handler : CategoryStep(h)
  BY <1>8, AskCategoryInvariant, AskPropertyInvariant, CheckAcceptedInvariant,
     BookAcceptedInvariant, GiveUpInvariant DEF CategoryStep
<1>9. CASE \E h \in Handler : Crash(h)
  BY <1>9, CrashInvariant
<1>10. CASE ScrubPayloads
  BY <1>10, ScrubPayloadsInvariant
<1>11. CASE UNCHANGED vars
  BY <1>11, StutterInvariant
<1>12. QED
  BY <1>1, <1>2, <1>3, <1>4, <1>5, <1>6, <1>7, <1>8, <1>9, <1>10, <1>11 DEF Next

\* At first no dialog was started.
LEMMA InitInvariant == Init => IInv
<1> SUFFICES ASSUME Init PROVE IInv
  OBVIOUS
<1> USE DEF Init
<1>1. open \in Seq(State) /\ DOMAIN open = {}
  OBVIOUS
<1>2. OpenStates = {}
  BY <1>1 DEF OpenStates, ToSet
<1>3. StoreOK /\ StatesOK
  BY <1>1, <1>2 DEF StoreOK, StatesOK, IsInjective
<1>4. \A D : NumberOpen(D) = 0
  <2> TAKE D
  <2>1. OpenStates \cap D = {}
    BY <1>2
  <2>2. QED
    BY <2>1, FS_EmptySet DEF NumberOpen
<1>5. EffectsOK
  BY <1>4 DEF EffectsOK, Effect
<1>6. HandlersOK
  BY DEF HandlersOK, Seeding, Idle
<1>7. CountersOK
  BY ChatAssumption DEF CountersOK
<1>8. RowsOK
  BY ChatAssumption DEF RowsOK, PostedOnce, RowStatus
<1>9. DocumentsOK
  BY DEF DocumentsOK, Effect
<1>10. NoticesOK
  BY ChatAssumption DEF NoticesOK, Idle
<1>11. QED
  BY <1>3, <1>5, <1>6, <1>7, <1>8, <1>9, <1>10 DEF IInv

\* The invariant holds at all times.
LEMMA Inductive == Spec => []IInv
<1>1. QED
  BY InitInvariant, StepInvariant, PTL DEF Spec

-----------------------------------------------------------------------------
\* What a dialog keeps is enough to go on: the readers of the payload
\* (state_reader.py) find what they read, a rule is offered and saved only
\* after the posting it is about, and a notice is repeated only if its record
\* was lost in a crash.
THEOREM DialogsConsistent == Spec => []Consistent
<1>1. IInv => Consistent
  <2> SUFFICES ASSUME IInv PROVE Consistent
    OBVIOUS
  <2>1. TypeOK
    <3>1. /\ \A s \in OpenStates : s.row \in Row <=> s.flow = "review" /\ s.step # "choose_document"
          /\ open \in Seq(State)
      BY DEF IInv, StatesOK, StoreOK, WellFormed
    <3>2. /\ started \in 0..MaxThreads /\ splits \in 0..MaxThreads
          /\ split \in [Dialog -> 0..MaxThreads] /\ elsewhere \in 0..MaxElsewhere
          /\ expired \subseteq State
      <4>1. \A d \in Dialog : split[d] \in 0..MaxThreads
        BY ChatAssumption DEF IInv, CountersOK
      <4>2. QED
        BY <4>1, ChatAssumption DEF IInv, CountersOK
    <3>3. QED
      BY <3>1, <3>2 DEF TypeOK, IInv, RowsOK, EffectsOK, HandlersOK, DocumentsOK, NoticesOK
  <2>2. PayloadComplete
    BY DEF PayloadComplete, IInv, StatesOK, WellFormed
  <2>3. RuleAfterBooking
    <3>1. \A D : NumberOpen(D) \in Nat
      BY Numbers DEF IInv
    <3>2. \A d \in Dialog :
             /\ effect[d]["rule"] + NumberOpen(SuggestingOf(d)) <= effect[d]["decision"]
             /\ effect[d]["rule"] \in Nat /\ effect[d]["decision"] \in Nat
      BY DEF IInv, EffectsOK, Effect
    <3>3. ASSUME NEW s \in OpenStates, Suggesting(s)
          PROVE  s.dialog \in Dialog /\ NumberOpen(SuggestingOf(s.dialog)) # 0
      <4>1. s \in State /\ s.dialog \in Dialog
        BY OpenState DEF State
      <4>2. s \in OpenStates \cap SuggestingOf(s.dialog)
        BY <3>3, <4>1 DEF SuggestingOf, Of
      <4>3. IsFiniteSet(OpenStates \cap SuggestingOf(s.dialog))
        BY FiniteOpen DEF IInv
      <4>4. QED
        BY <4>1, <4>2, <4>3, FS_EmptySet DEF NumberOpen
    <3>4. QED
      BY <3>1, <3>2, <3>3 DEF RuleAfterBooking, Suggesting
  <2>4. NoticeRepeatedOnlyIfLost
    BY DEF NoticeRepeatedOnlyIfLost, IInv, NoticesOK
  <2>5. QED
    BY <2>1, <2>2, <2>3, <2>4 DEF Consistent
<1>2. QED
  BY <1>1, Inductive, PTL

\* A dialog has one message whose buttons work, and one more only for each
\* press that went on from a state left since it gave up the lock to list the
\* categories, however many presses were past that commit together
\* (try_consume_active_conversation_state).
THEOREM OneStatePerDialog == Spec => []OneOpenState
<1>1. IInv => OneOpenState
  <2> SUFFICES ASSUME IInv, NEW d \in Dialog
               PROVE  Cardinality({s \in OpenStates : s.dialog = d}) <= 1 + split[d]
    BY DEF OneOpenState
  <2>1. {s \in OpenStates : s.dialog = d} = OpenStates \cap Of(d)
    BY OpenAreStates DEF IInv, Of
  <2>2. NumberOpen(Of(d)) \in Nat /\ effect[d]["operation"] \in Nat /\ split[d] \in Nat
        /\ effect[d]["operation"] + NumberOpen(Of(d)) <= 1 + split[d]
    BY Numbers DEF IInv, EffectsOK, Effect, CountersOK
  <2>3. QED
    BY <2>1, <2>2 DEF NumberOpen
<1>2. QED
  BY <1>1, Inductive, PTL

\* Pressed again, by handlers that may all be without the lock, delivered
\* again, or resumed after a crash: a dialog makes one document, and one
\* operation, decision and rule for each state it went on from.
THEOREM EffectsOnce == Spec => []OneEffectPerDialog
<1>1. IInv => OneEffectPerDialog
  <2> SUFFICES ASSUME IInv, NEW d \in Dialog
               PROVE  /\ effect[d]["document"] <= 1
                      /\ \A e \in Effect \ {"document"} : effect[d][e] <= 1 + split[d]
    BY DEF OneEffectPerDialog
  <2>1. /\ NumberOpen(Of(d)) \in Nat /\ NumberOpen(DecidingOf(d)) \in Nat
        /\ NumberOpen(SuggestingOf(d)) \in Nat
    BY Numbers DEF IInv
  <2>2. /\ effect[d]["operation"] \in Nat /\ effect[d]["decision"] \in Nat
        /\ effect[d]["rule"] \in Nat /\ split[d] \in Nat
        /\ effect[d]["operation"] + NumberOpen(Of(d)) <= 1 + split[d]
        /\ effect[d]["decision"] + NumberOpen(DecidingOf(d)) <= 1 + split[d]
        /\ effect[d]["rule"] + NumberOpen(SuggestingOf(d)) <= effect[d]["decision"]
    BY DEF IInv, EffectsOK, Effect, CountersOK
  <2>3. /\ effect[d]["operation"] <= 1 + split[d] /\ effect[d]["decision"] <= 1 + split[d]
        /\ effect[d]["rule"] <= 1 + split[d]
    BY <2>1, <2>2
  <2>4. QED
    BY <2>3 DEF Effect, IInv, DocumentsOK
<1>2. QED
  BY <1>1, Inductive, PTL

\* Two rows with one dedupe hash are not both posted, whether under the lock,
\* by others, or by postings without it that were all checked before any of
\* them was committed.
THEOREM TwinsPostedOnce == Spec => []PostedOnce
<1>1. IInv => PostedOnce
  BY DEF IInv, RowsOK
<1>2. QED
  BY <1>1, Inductive, PTL
=============================================================================
