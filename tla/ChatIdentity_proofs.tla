------------------------- MODULE ChatIdentity_proofs -------------------------
(***************************************************************************)
(* Proofs about ChatIdentity, for any number of users, workspaces, chats,  *)
(* updates in flight and link codes.  Bindings and choices belong to       *)
(* members because the updates in flight do (HandlersOfMembers) and hold   *)
(* the locks that revocations need (LocksExclude); codes link once because *)
(* a live code has not linked yet (LiveCodesUnused).                       *)
(***************************************************************************)
EXTENDS ChatIdentity, FiniteSetTheorems, TLAPS

\* An update acts for a member of the workspaces it holds, but for a closed account.
HandlersOfMembers ==
  \A h \in Handler :
    /\ At(h, "acting") \/ At(h, "switching") =>
         (handler[h].user \in account => Usable(handler[h].user, handler[h].workspace))
    /\ At(h, "switching") =>
         (handler[h].user \in account => Usable(handler[h].user, handler[h].target))

\* A workspace is locked by one update at a time.
LocksExclude ==
  \A w \in Workspace : \A g, h \in Handler : g \in Holders(w) /\ h \in Holders(w) => g = h

\* The row a switch is about to activate is its user's own, or there is none.
TargetsSwitchable ==
  \A h \in Handler :
    At(h, "switching") => Switchable(handler[h].user, handler[h].target, handler[h].chat)

Linked(c) == \E k \in Code : redeemed[k][c] > 0

\* A chat with a row, or with an update that found one, was linked by a code.
RowsLinked ==
  /\ \A w \in Workspace, c \in Chat : binding[w][c].user # NoUser => Linked(c)
  /\ \A h \in Handler :
       handler[h] # Idle /\ handler[h].workspace # NoWorkspace => Linked(handler[h].chat)

\* A live code was issued and has not linked any chat; nor has one to come.
LiveCodesUnused ==
  \A k \in Code : code[k].live \/ k > issued =>
    \A c \in Chat : redeemed[k][c] = 0

\* Codes to come are not live.
LiveCodesIssued == \A k \in Code : code[k].live => k <= issued

IInv ==
  /\ TypeOK /\ HandlersOfMembers /\ LocksExclude /\ TargetsSwitchable
  /\ RowsLinked /\ LiveCodesUnused /\ LiveCodesIssued
  /\ BindingsOfMembers /\ SelectionsOfMembers /\ OneUsableCode /\ AmbiguousOnlyByTwoCodes

-----------------------------------------------------------------------------
\* At first nothing is linked and nothing in flight.
LEMMA InitInvariant == Init => IInv
<1> SUFFICES ASSUME Init PROVE IInv
  OBVIOUS
<1>1. TypeOK
  BY IdentityAssumption DEF Init, TypeOK, CodeRecord, BindingRecord, NoBinding, Code
<1>2. /\ \A h \in Handler : handler[h] = Idle
      /\ \A w \in Workspace, c \in Chat : binding[w][c] = [user |-> NoUser, active |-> FALSE]
      /\ \A k \in Code : ~code[k].live
      /\ \A k \in Code, c \in Chat : redeemed[k][c] = 0
      /\ selection = {}
  BY DEF Init, NoBinding
<1>3. HandlersOfMembers /\ LocksExclude /\ TargetsSwitchable /\ RowsLinked
  BY <1>2 DEF HandlersOfMembers, LocksExclude, TargetsSwitchable, RowsLinked, Holders, At
<1>4. LiveCodesUnused /\ LiveCodesIssued /\ OneUsableCode
  BY <1>2 DEF LiveCodesUnused, LiveCodesIssued, OneUsableCode
<1>5. BindingsOfMembers /\ SelectionsOfMembers
  BY <1>2 DEF BindingsOfMembers, SelectionsOfMembers
<1>6. AmbiguousOnlyByTwoCodes
  <2>1. \A c \in Chat : ActiveBindings(c) = {} /\ {k \in Code : redeemed[k][c] > 0} = {}
    BY <1>2 DEF ActiveBindings
  <2> QED
    BY <2>1, FS_EmptySet DEF AmbiguousOnlyByTwoCodes
<1> QED
  BY <1>1, <1>3, <1>4, <1>5, <1>6 DEF IInv

\* What a step of one update changes when it touches nothing but its own record.
LEMMA HandlerStep ==
  ASSUME IInv, NEW h \in Handler,
         UNCHANGED <<workspaceVars, codeVars, binding, selection>>,
         handler' = [handler EXCEPT ![h] = handler'[h]],
         handler'[h] \in HandlerRecord \cup {Idle}
  PROVE  /\ \A g \in Handler \ {h} : handler'[g] = handler[g]
         /\ LiveCodesUnused' /\ LiveCodesIssued' /\ OneUsableCode'
         /\ BindingsOfMembers' /\ SelectionsOfMembers' /\ AmbiguousOnlyByTwoCodes'
<1>1. \A g \in Handler \ {h} : handler'[g] = handler[g]
  BY DEF IInv, TypeOK
<1>2. LiveCodesUnused' /\ LiveCodesIssued' /\ OneUsableCode'
  BY DEF IInv, LiveCodesUnused, LiveCodesIssued, OneUsableCode, codeVars
<1>3. BindingsOfMembers' /\ SelectionsOfMembers'
  BY DEF IInv, BindingsOfMembers, SelectionsOfMembers, workspaceVars, Usable
<1>4. AmbiguousOnlyByTwoCodes'
  BY DEF IInv, AmbiguousOnlyByTwoCodes, ActiveBindings, codeVars
<1> QED
  BY <1>1, <1>2, <1>3, <1>4

\* An update that is received holds nothing yet.
LEMMA ReceiveInvariant == ASSUME IInv, NEW h \in Handler, NEW c \in Chat, Receive(h, c) PROVE IInv'
<1> DEFINE new == handler'[h]
<1>1. /\ handler[h] = Idle
      /\ handler' = [handler EXCEPT ![h] = handler'[h]]
      /\ UNCHANGED <<workspaceVars, codeVars, binding, selection>>
  BY DEF Receive, IInv, TypeOK
<1>2. /\ new \in HandlerRecord /\ new.stage = "read" /\ new.chat = c
      /\ new.target = NoWorkspace
      /\ new.workspace \in Workspace <=> new.user \in User
      /\ new.workspace # NoWorkspace =>
           new.workspace \in Workspace /\ binding[new.workspace][c].user # NoUser
  <2>1. CASE \E w \in Workspace : ActiveBindings(c) = {w}
    <3> DEFINE v == CHOOSE w \in Workspace : ActiveBindings(c) = {w}
    <3>1. v \in Workspace /\ ActiveBindings(c) = {v}
      BY <2>1
    <3> HIDE DEF v
    <3>2. binding[v][c].active /\ binding[v][c].user \in User
      BY <3>1 DEF ActiveBindings, IInv, TypeOK
    <3>3. new = [stage |-> "read", chat |-> c, user |-> binding[v][c].user,
                 workspace |-> v, target |-> NoWorkspace]
      BY <2>1 DEF Receive, IInv, TypeOK, v
    <3> QED
      BY <3>1, <3>2, <3>3, IdentityAssumption DEF HandlerRecord
  <2>2. CASE ~\E w \in Workspace : ActiveBindings(c) = {w}
    <3>1. new = [stage |-> "read", chat |-> c, user |-> NoUser,
                 workspace |-> NoWorkspace, target |-> NoWorkspace]
      BY <2>2 DEF Receive, IInv, TypeOK
    <3> QED
      BY <3>1, IdentityAssumption DEF HandlerRecord
  <2> QED
    BY <2>1, <2>2
<1> HIDE DEF new
<1>3. \A g \in Handler \ {h} : handler'[g] = handler[g]
  BY <1>1, <1>2, HandlerStep DEF new
<1>4. TypeOK'
  BY <1>1, <1>2, <1>3, IdentityAssumption, IdleAssumption, SMTT(30)
     DEF IInv, TypeOK, new, workspaceVars, codeVars, HandlerRecord
<1>5. handler'[h].stage = "read" /\ handler'[h] # Idle
  BY <1>2, IdleAssumption DEF new
<1>6. HandlersOfMembers' /\ TargetsSwitchable'
  BY <1>1, <1>3, <1>5
     DEF IInv, HandlersOfMembers, TargetsSwitchable, At, Usable, Switchable, workspaceVars
<1>7. LocksExclude'
  BY <1>1, <1>3, <1>5 DEF IInv, LocksExclude, Holders
<1>8. RowsLinked'
  BY <1>1, <1>2, <1>3, <1>5 DEF IInv, RowsLinked, Linked, codeVars, new
<1> QED
  BY <1>1, <1>2, <1>4, <1>6, <1>7, <1>8, HandlerStep DEF IInv, new

\* An update that is over holds nothing any more.
LEMMA FinishInvariant == ASSUME IInv, NEW h \in Handler, Finish(h) PROVE IInv'
<1>1. /\ handler'[h] = Idle
      /\ handler' = [handler EXCEPT ![h] = handler'[h]]
      /\ UNCHANGED <<workspaceVars, codeVars, binding, selection>>
  BY DEF Finish, Finished, IInv, TypeOK
<1>2. \A g \in Handler \ {h} : handler'[g] = handler[g]
  BY <1>1, HandlerStep
<1>3. TypeOK'
  BY <1>1, <1>2 DEF IInv, TypeOK, workspaceVars, codeVars
<1>4. HandlersOfMembers' /\ TargetsSwitchable'
  BY <1>1, <1>2
     DEF IInv, HandlersOfMembers, TargetsSwitchable, At, Usable, Switchable, workspaceVars
<1>5. LocksExclude'
  BY <1>1, <1>2 DEF IInv, LocksExclude, Holders
<1>6. RowsLinked'
  BY <1>1, <1>2 DEF IInv, RowsLinked, Linked, codeVars
<1> QED
  BY <1>1, <1>3, <1>4, <1>5, <1>6, HandlerStep DEF IInv

\* An update enters the workspace of its chat when it is free and its member may act.
LEMMA EnterInvariant == ASSUME IInv, NEW h \in Handler, Enter(h) PROVE IInv'
<1> DEFINE b == handler[h]
<1>1. /\ b \in HandlerRecord /\ b # Idle /\ b.stage = "read"
      /\ b.workspace \in Workspace /\ b.user \in User /\ b.target = NoWorkspace
      /\ Free(b.workspace)
      /\ UNCHANGED <<workspaceVars, codeVars, binding, selection>>
      /\ handler' = [handler EXCEPT ![h] = handler'[h]]
  BY IdentityAssumption DEF Enter, At, IInv, TypeOK, HandlerRecord
<1>2. \/ /\ Admits(b.user, b.workspace)
         /\ handler'[h] = [b EXCEPT !.stage = "acting"]
      \/ handler'[h] = [b EXCEPT !.workspace = NoWorkspace, !.user = NoUser]
  BY DEF Enter, IInv, TypeOK
<1>3. /\ handler'[h] \in HandlerRecord /\ handler'[h] # Idle
      /\ handler'[h].target = NoWorkspace /\ handler'[h].chat = b.chat
      /\ \/ /\ handler'[h].stage = "acting" /\ handler'[h].user = b.user
            /\ handler'[h].workspace = b.workspace /\ Admits(b.user, b.workspace)
         \/ /\ handler'[h].stage = "read" /\ handler'[h].user = NoUser
            /\ handler'[h].workspace = NoWorkspace
  <2>1. /\ b.chat \in Chat /\ b.target = NoWorkspace
        /\ b = [stage |-> b.stage, chat |-> b.chat, user |-> b.user,
                workspace |-> b.workspace, target |-> b.target]
    BY <1>1 DEF HandlerRecord
  <2> HIDE DEF b
  <2>2. CASE /\ Admits(b.user, b.workspace)
             /\ handler'[h] = [b EXCEPT !.stage = "acting"]
    <3>1. handler'[h] = [stage |-> "acting", chat |-> b.chat, user |-> b.user,
                         workspace |-> b.workspace, target |-> NoWorkspace]
      BY <2>1, <2>2
    <3>2. handler'[h] \in HandlerRecord
      BY <1>1, <2>1, <3>1 DEF HandlerRecord
    <3> QED
      BY <2>2, <3>1, <3>2, IdleAssumption
  <2>3. CASE handler'[h] = [b EXCEPT !.workspace = NoWorkspace, !.user = NoUser]
    <3>1. handler'[h] = [stage |-> b.stage, chat |-> b.chat, user |-> NoUser,
                         workspace |-> NoWorkspace, target |-> NoWorkspace]
      BY <2>1, <2>3
    <3>2. handler'[h] \in HandlerRecord
      BY <1>1, <2>1, <3>1 DEF HandlerRecord
    <3> QED
      BY <1>1, <3>1, <3>2, IdleAssumption
  <2> QED
    BY <1>2, <2>2, <2>3
<1> HIDE DEF b
<1>4. \A g \in Handler \ {h} : handler'[g] = handler[g]
  BY <1>1, <1>3, HandlerStep
<1>5. TypeOK'
  BY <1>1, <1>3, <1>4, IdentityAssumption, SMTT(30)
     DEF IInv, TypeOK, workspaceVars, codeVars, HandlerRecord
<1>6. HandlersOfMembers' /\ TargetsSwitchable'
  BY <1>1, <1>3, <1>4
     DEF IInv, HandlersOfMembers, TargetsSwitchable, At, Usable, Switchable, workspaceVars, Admits
<1>7. LocksExclude'
  BY <1>1, <1>3, <1>4 DEF IInv, LocksExclude, Holders, Free
<1>8. RowsLinked'
  BY <1>1, <1>3, <1>4, IdentityAssumption DEF IInv, RowsLinked, Linked, codeVars, b
<1> QED
  BY <1>1, <1>3, <1>5, <1>6, <1>7, <1>8, HandlerStep DEF IInv

\* A switch locks its target, looks at it and at the row it will activate.
LEMMA LockTargetInvariant ==
  ASSUME IInv, NEW h \in Handler, NEW w \in Workspace, LockTarget(h, w) PROVE IInv'
<1> DEFINE b == handler[h]
<1>1. /\ b \in HandlerRecord /\ b # Idle /\ b.stage = "acting"
      /\ b.workspace \in Workspace /\ b.user \in User
      /\ Holders(w) \subseteq {h} /\ Usable(b.user, w) /\ Switchable(b.user, w, b.chat)
      /\ UNCHANGED <<workspaceVars, codeVars, binding, selection>>
      /\ handler' = [handler EXCEPT ![h] = handler'[h]]
      /\ handler'[h] = [b EXCEPT !.stage = "switching", !.target = w]
  BY IdentityAssumption DEF LockTarget, At, IInv, TypeOK, HandlerRecord, TargetUsable
<1>2. /\ handler'[h] \in HandlerRecord /\ handler'[h] # Idle
      /\ handler'[h].stage = "switching" /\ handler'[h].user = b.user
      /\ handler'[h].workspace = b.workspace /\ handler'[h].target = w
      /\ handler'[h].chat = b.chat
  <2>1. /\ b.chat \in Chat
        /\ b = [stage |-> b.stage, chat |-> b.chat, user |-> b.user,
                workspace |-> b.workspace, target |-> b.target]
    BY <1>1 DEF HandlerRecord
  <2> HIDE DEF b
  <2>2. handler'[h] = [stage |-> "switching", chat |-> b.chat, user |-> b.user,
                       workspace |-> b.workspace, target |-> w]
    BY <1>1, <2>1
  <2>3. handler'[h] \in HandlerRecord
    BY <1>1, <2>1, <2>2 DEF HandlerRecord
  <2> QED
    BY <2>2, <2>3, IdleAssumption
<1> HIDE DEF b
<1>3. \A g \in Handler \ {h} : handler'[g] = handler[g]
  BY <1>1, <1>2, HandlerStep
<1>4. TypeOK'
  <2>1. handler' \in [Handler -> HandlerRecord \cup {Idle}]
    BY <1>1, <1>2 DEF IInv, TypeOK
  <2>2. handler'[h].user \in User /\ handler'[h].workspace \in Workspace
        /\ handler'[h].target \in Workspace
    BY <1>1, <1>2
  <2> QED
    BY <1>1, <1>2, <1>3, <2>1, <2>2 DEF IInv, TypeOK, workspaceVars, codeVars
<1>5. HandlersOfMembers' /\ TargetsSwitchable'
  <2>1. b.user \in account => Usable(b.user, b.workspace)
    BY <1>1 DEF IInv, HandlersOfMembers, At, b
  <2>2. account' = account /\ active' = active /\ member' = member /\ binding' = binding
    BY <1>1 DEF workspaceVars
  <2>3. ASSUME NEW g \in Handler
        PROVE  /\ At(g, "acting")' \/ At(g, "switching")' =>
                    (handler[g].user \in account => Usable(handler[g].user, handler[g].workspace))'
               /\ At(g, "switching")' =>
                    /\ (handler[g].user \in account => Usable(handler[g].user, handler[g].target))'
                    /\ Switchable(handler[g].user, handler[g].target, handler[g].chat)'
    <3>1. CASE g # h
      <4>1. handler'[g] = handler[g]
        BY <1>3, <3>1
      <4> QED
        BY <2>2, <4>1 DEF IInv, HandlersOfMembers, TargetsSwitchable, At, Usable, Switchable
    <3>2. CASE g = h
      BY <1>1, <1>2, <2>1, <2>2, <3>2 DEF Usable, Switchable
    <3> QED
      BY <3>1, <3>2
  <2> QED
    BY <2>3 DEF HandlersOfMembers, TargetsSwitchable
<1>6. LocksExclude'
  <2>1. \A v \in Workspace : Holders(v)' \subseteq Holders(v) \cup (IF v = w THEN {h} ELSE {})
    BY <1>1, <1>2, <1>3 DEF Holders, b
  <2> QED
    BY <1>1, <2>1 DEF IInv, LocksExclude
<1>7. RowsLinked'
  BY <1>1, <1>2, <1>3 DEF IInv, RowsLinked, Linked, codeVars, b
<1> QED
  BY <1>1, <1>2, <1>4, <1>5, <1>6, <1>7, HandlerStep DEF IInv

\* Active rows of a chat may only become fewer when no new code is redeemed.
LEMMA FewerBindings ==
  ASSUME IInv, redeemed' = redeemed, NEW c \in Chat, ActiveBindings(c)' \subseteq ActiveBindings(c)
  PROVE  (Cardinality(ActiveBindings(c)) <= Cardinality({k \in Code : redeemed[k][c] > 0}))'
<1> DEFINE R == {k \in Code : redeemed[k][c] > 0}
<1>1. IsFiniteSet(ActiveBindings(c))
  BY IdentityAssumption, FS_Subset DEF ActiveBindings
<1>2. /\ IsFiniteSet(ActiveBindings(c)') /\ Cardinality(ActiveBindings(c)') \in Nat
      /\ Cardinality(ActiveBindings(c)') <= Cardinality(ActiveBindings(c))
  BY <1>1, FS_Subset, FS_CardinalityType
<1>3. IsFiniteSet(R) /\ Cardinality(R) \in Nat
  <2>1. IsFiniteSet(Code)
    BY IdentityAssumption, FS_Interval DEF Code
  <2>2. R \subseteq Code
    OBVIOUS
  <2> HIDE DEF R
  <2> QED
    BY <2>1, <2>2, FS_Subset, FS_CardinalityType
<1>4. Cardinality(ActiveBindings(c)) \in Nat /\ Cardinality(ActiveBindings(c)) <= Cardinality(R)
  BY <1>1, FS_CardinalityType DEF IInv, AmbiguousOnlyByTwoCodes
<1>5. R' = R
  OBVIOUS
<1> HIDE DEF R
<1>6. Cardinality(ActiveBindings(c)') <= Cardinality(R)
  BY <1>2, <1>3, <1>4
<1> QED
  BY <1>5, <1>6 DEF R

\* What holds after any step outside the updates that links nothing and only
\* ends codes and bindings.
LEMMA EndsOnly ==
  ASSUME IInv, UNCHANGED <<handler, redeemed, issued>>,
         binding' \in [Workspace -> [Chat -> BindingRecord]],
         code' \in [Code -> CodeRecord],
         \A w \in Workspace, c \in Chat :
             /\ binding'[w][c].user = binding[w][c].user
             /\ binding'[w][c].active => binding[w][c].active,
         \A k \in Code :
             /\ code'[k].user = code[k].user
             /\ code'[k].live => code[k].live
  PROVE  /\ LocksExclude' /\ TargetsSwitchable' /\ RowsLinked'
         /\ LiveCodesUnused' /\ LiveCodesIssued' /\ OneUsableCode' /\ AmbiguousOnlyByTwoCodes'
<1>1. LocksExclude'
  BY DEF IInv, LocksExclude, Holders
<1>2. TargetsSwitchable'
  BY DEF IInv, TypeOK, TargetsSwitchable, At, Switchable, HandlerRecord
<1>3. RowsLinked'
  BY DEF IInv, RowsLinked, Linked
<1>4. LiveCodesUnused' /\ LiveCodesIssued'
  BY DEF IInv, LiveCodesUnused, LiveCodesIssued
<1>5. OneUsableCode'
  BY DEF IInv, OneUsableCode
<1>6. \A c \in Chat : ActiveBindings(c)' \subseteq ActiveBindings(c)
  BY DEF ActiveBindings
<1>7. AmbiguousOnlyByTwoCodes'
  BY <1>6, FewerBindings DEF AmbiguousOnlyByTwoCodes
<1> QED
  BY <1>1, <1>2, <1>3, <1>4, <1>5, <1>7

-----------------------------------------------------------------------------
\* A code is issued and replaces the user's live one.
LEMMA IssueCodeInvariant ==
  ASSUME IInv, NEW u \in User, NEW w \in Workspace, IssueCode(u, w) PROVE IInv'
<1>1. /\ issued < MaxCodes /\ issued' = issued + 1 /\ issued \in Nat
      /\ UNCHANGED <<account, active, member, redeemed, refused, binding, selection, handler>>
  BY DEF IssueCode, IInv, TypeOK, workspaceVars
<1>2. \A k \in Code :
        /\ k = issued + 1 => code'[k] = [user |-> u, workspace |-> w, live |-> TRUE]
        /\ k # issued + 1 => /\ code'[k] \in CodeRecord /\ code'[k].user = code[k].user
                             /\ code'[k].live => code[k].live /\ code[k].user # u
  BY DEF IssueCode, IInv, TypeOK, CodeRecord, Replaced
<1>3. code' \in [Code -> CodeRecord]
  <2>1. code' = [k \in Code |-> code'[k]]
    BY DEF IssueCode
  <2>2. \A k \in Code : code'[k] \in CodeRecord
    <3>1. [user |-> u, workspace |-> w, live |-> TRUE] \in CodeRecord
      BY DEF CodeRecord
    <3> QED
      BY <1>2, <3>1
  <2> QED
    BY <2>1, <2>2
<1>4. TypeOK'
  <2>1. issued' \in 0..MaxCodes
    BY <1>1, IdentityAssumption
  <2> QED
    BY <1>1, <1>3, <2>1 DEF IInv, TypeOK
<1>5. LiveCodesUnused' /\ LiveCodesIssued'
  BY <1>1, <1>2 DEF IInv, LiveCodesUnused, LiveCodesIssued, Code
<1>6. OneUsableCode'
  BY <1>1, <1>2 DEF IInv, OneUsableCode
<1>7. HandlersOfMembers' /\ LocksExclude' /\ TargetsSwitchable' /\ RowsLinked'
  BY <1>1 DEF IInv, HandlersOfMembers, LocksExclude, TargetsSwitchable, RowsLinked, Linked,
              Holders, At, Usable, Switchable
<1>8. BindingsOfMembers' /\ SelectionsOfMembers' /\ AmbiguousOnlyByTwoCodes'
  BY <1>1 DEF IInv, BindingsOfMembers, SelectionsOfMembers, AmbiguousOnlyByTwoCodes,
              ActiveBindings, Usable
<1> QED
  BY <1>4, <1>5, <1>6, <1>7, <1>8 DEF IInv

\* A code or a choice lapses.
LEMMA ExpireInvariant ==
  ASSUME IInv, \/ \E k \in Code : ExpireCode(k)
               \/ \E s \in selection : ExpireSelection(s)
  PROVE  IInv'
<1>1. /\ UNCHANGED <<account, active, member, issued, redeemed, refused, binding, handler>>
      /\ selection' \subseteq selection
      /\ code' \in [Code -> CodeRecord]
      /\ \A k \in Code : code'[k].user = code[k].user /\ (code'[k].live => code[k].live)
  <2>1. ASSUME NEW j \in Code, ExpireCode(j)
        PROVE  /\ UNCHANGED <<account, active, member, issued, redeemed, refused, binding, handler,
                              selection>>
               /\ code' \in [Code -> CodeRecord]
               /\ \A k \in Code : code'[k].user = code[k].user /\ (code'[k].live => code[k].live)
    BY <2>1 DEF ExpireCode, IInv, TypeOK, CodeRecord, workspaceVars
  <2>2. ASSUME NEW s \in selection, ExpireSelection(s)
        PROVE  /\ UNCHANGED <<account, active, member, code, issued, redeemed, refused, binding, handler>>
               /\ selection' \subseteq selection
    BY <2>2 DEF ExpireSelection, workspaceVars, codeVars
  <2> QED
    BY <2>1, <2>2 DEF IInv, TypeOK
<1>2. TypeOK'
  BY <1>1 DEF IInv, TypeOK
<1>3. HandlersOfMembers' /\ BindingsOfMembers' /\ SelectionsOfMembers'
  BY <1>1 DEF IInv, HandlersOfMembers, BindingsOfMembers, SelectionsOfMembers, At, Usable
<1> QED
  BY <1>1, <1>2, <1>3, EndsOnly DEF IInv, TypeOK

\* A choice is offered where the update acts.
LEMMA StartSelectionInvariant ==
  ASSUME IInv, NEW h \in Handler, StartSelection(h) PROVE IInv'
<1> DEFINE b == handler[h]
           new == [workspace |-> b.workspace, user |-> b.user]
<1>1. /\ b \in HandlerRecord /\ b.workspace \in Workspace /\ b.user \in User
      /\ handler' = [handler EXCEPT ![h] = Idle]
      /\ selection' = selection \cup {new}
      /\ UNCHANGED <<account, active, member, code, issued, redeemed, refused, binding>>
      /\ b.user \in account => Usable(b.user, b.workspace)
  BY DEF StartSelection, At, IInv, TypeOK, HandlersOfMembers, Finished, workspaceVars, codeVars,
         HandlerRecord
<1>2. TypeOK'
  <2>1. selection' \subseteq Selection
    BY <1>1 DEF IInv, TypeOK, Selection
  <2> QED
    BY <1>1, <2>1 DEF IInv, TypeOK
<1>3. SelectionsOfMembers'
  <2> HIDE DEF b
  <2> QED
    BY <1>1 DEF IInv, SelectionsOfMembers, Usable
<1>4. /\ handler'[h] = Idle
      /\ \A g \in Handler \ {h} : handler'[g] = handler[g]
  BY <1>1 DEF IInv, TypeOK
<1>5. HandlersOfMembers' /\ TargetsSwitchable'
  BY <1>1, <1>4 DEF IInv, HandlersOfMembers, TargetsSwitchable, At, Usable, Switchable
<1>6. LocksExclude' /\ RowsLinked'
  BY <1>1, <1>4 DEF IInv, LocksExclude, RowsLinked, Linked, Holders
<1>7. LiveCodesUnused' /\ LiveCodesIssued' /\ OneUsableCode'
  BY <1>1 DEF IInv, LiveCodesUnused, LiveCodesIssued, OneUsableCode
<1>8. BindingsOfMembers' /\ AmbiguousOnlyByTwoCodes'
  BY <1>1 DEF IInv, BindingsOfMembers, AmbiguousOnlyByTwoCodes, ActiveBindings, Usable
<1> QED
  BY <1>2, <1>3, <1>5, <1>6, <1>7, <1>8 DEF IInv

-----------------------------------------------------------------------------
\* A live code links the chat, or is refused; the workspace is free, so no
\* switch has looked at its row.
LEMMA RedeemInvariant ==
  ASSUME IInv, NEW h \in Handler, NEW k \in Code, Redeem(h, k) PROVE IInv'
<1> DEFINE c == handler[h].chat
           u == code[k].user
           w == code[k].workspace
<1>1. /\ c \in Chat /\ w \in Workspace /\ u \in User
      /\ code[k].live /\ Free(w) /\ Usable(u, w)
      /\ handler' = [handler EXCEPT ![h] = Idle]
      /\ UNCHANGED <<account, active, member, issued, selection>>
      /\ \A d \in Chat : redeemed[k][d] = 0
  BY DEF Redeem, At, IInv, TypeOK, HandlerRecord, Usable, Finished, workspaceVars, LiveCodesUnused
<1>2. /\ handler'[h] = Idle
      /\ \A g \in Handler \ {h} : handler'[g] = handler[g]
  BY <1>1 DEF IInv, TypeOK
<1>3. \/ /\ code' = [code EXCEPT ![k].live = FALSE]
         /\ redeemed' = [redeemed EXCEPT ![k][c] = @ + 1]
         /\ refused' = refused
         /\ \/ binding' = binding /\ binding[w][c].user = u
            \/ binding' = [binding EXCEPT ![w][c] = [user |-> u, active |-> TRUE]]
      \/ /\ UNCHANGED <<code, redeemed, binding>>
         /\ refused' \subseteq Code
  BY DEF Redeem, Spent, IInv, TypeOK
<1> HIDE DEF c, u, w
<1>4. /\ code' \in [Code -> CodeRecord] /\ redeemed' \in [Code -> [Chat -> Nat]]
      /\ \A j \in Code : /\ code'[j].user = code[j].user
                         /\ code'[j].live => code[j].live
                         /\ code'[j].live => redeemed'[j] = redeemed[j]
                         /\ j # k => redeemed'[j] = redeemed[j]
      /\ \A d \in Chat : redeemed'[k][d] \in {0, IF d = c THEN 1 ELSE 0}
  <2>1. CASE /\ code' = [code EXCEPT ![k].live = FALSE]
             /\ redeemed' = [redeemed EXCEPT ![k][c] = @ + 1]
    <3>1. redeemed'[k] = [redeemed[k] EXCEPT ![c] = @ + 1] /\ redeemed[k] \in [Chat -> Nat]
      BY <2>1 DEF IInv, TypeOK
    <3>2. \A d \in Chat : redeemed'[k][d] = IF d = c THEN 1 ELSE 0
      BY <1>1, <3>1
    <3>3. redeemed' \in [Code -> [Chat -> Nat]]
      BY <1>1, <2>1 DEF IInv, TypeOK
    <3>4. code' \in [Code -> CodeRecord]
      BY <2>1 DEF IInv, TypeOK, CodeRecord
    <3>5. \A j \in Code : /\ code'[j].user = code[j].user
                          /\ code'[j].live => code[j].live /\ j # k
                          /\ j # k => redeemed'[j] = redeemed[j]
      BY <2>1 DEF IInv, TypeOK, CodeRecord
    <3> QED
      BY <3>2, <3>3, <3>4, <3>5
  <2>2. CASE UNCHANGED <<code, redeemed>>
    BY <1>1, <2>2 DEF IInv, TypeOK
  <2> QED
    BY <1>3, <2>1, <2>2
<1>5. /\ binding' \in [Workspace -> [Chat -> BindingRecord]]
      /\ \A v \in Workspace, d \in Chat :
           binding'[v][d] # binding[v][d] =>
             /\ v = w /\ d = c /\ binding'[v][d] = [user |-> u, active |-> TRUE]
             /\ redeemed'[k][c] = 1
  <2>1. CASE /\ redeemed' = [redeemed EXCEPT ![k][c] = @ + 1]
             /\ binding' = [binding EXCEPT ![w][c] = [user |-> u, active |-> TRUE]]
    <3>1. [user |-> u, active |-> TRUE] \in BindingRecord
      BY <1>1 DEF BindingRecord
    <3>2. binding' \in [Workspace -> [Chat -> BindingRecord]]
      BY <1>1, <2>1, <3>1 DEF IInv, TypeOK
    <3>3. \A v \in Workspace, d \in Chat :
             binding'[v][d] = IF v = w /\ d = c THEN [user |-> u, active |-> TRUE] ELSE binding[v][d]
      BY <1>1, <2>1 DEF IInv, TypeOK
    <3>4. redeemed'[k][c] = 1
      <4>1. redeemed'[k] = [redeemed[k] EXCEPT ![c] = @ + 1] /\ redeemed[k] \in [Chat -> Nat]
        BY <2>1 DEF IInv, TypeOK
      <4> QED
        BY <1>1, <4>1
    <3> QED
      BY <3>2, <3>3, <3>4
  <2>2. CASE binding' = binding
    BY <2>2 DEF IInv, TypeOK
  <2> QED
    BY <1>3, <2>1, <2>2
<1>6. TypeOK'
  <2>1. refused' \subseteq Code
    BY <1>3 DEF IInv, TypeOK
  <2>2. \A v \in Workspace, d \in Chat : binding'[v][d].active => binding'[v][d].user \in User
    BY <1>1, <1>5 DEF IInv, TypeOK
  <2> QED
    BY <1>1, <1>2, <1>4, <1>5, <2>1, <2>2 DEF IInv, TypeOK
<1>7. LiveCodesUnused' /\ LiveCodesIssued'
  <2>1. k <= issued /\ ~(k > issued)
    BY <1>1, IdentityAssumption DEF IInv, TypeOK, LiveCodesIssued, Code
  <2>2. \A j \in Code : code'[j].live \/ j > issued' => redeemed'[j] = redeemed[j]
    BY <1>1, <1>4, <2>1
  <2>3. LiveCodesUnused'
    BY <1>1, <1>4, <2>2 DEF IInv, LiveCodesUnused
  <2> QED
    BY <1>1, <1>4, <2>3 DEF IInv, LiveCodesIssued
<1>8. OneUsableCode'
  <2>1. \A i, j \in Code : code'[i].live /\ code'[j].live /\ code'[i].user = code'[j].user => i = j
    BY <1>4 DEF IInv, OneUsableCode
  <2>2. \A j \in Code, d, e \in Chat :
          redeemed'[j][d] <= 1 /\ (redeemed'[j][d] + redeemed'[j][e] > 1 => d = e)
    <3>1. ASSUME NEW d \in Chat, NEW e \in Chat
          PROVE  redeemed'[k][d] <= 1 /\ (redeemed'[k][d] + redeemed'[k][e] > 1 => d = e)
      BY <1>4
    <3> QED
      BY <1>4, <3>1 DEF IInv, OneUsableCode
  <2> QED
    BY <2>1, <2>2 DEF OneUsableCode
<1>9. \A g \in Handler \ {h} : At(g, "switching") => handler[g].target # w
  BY <1>1 DEF Free, Holders, At
<1>10. TargetsSwitchable'
  <2>1. ASSUME NEW g \in Handler \ {h}, At(g, "switching")
        PROVE  Switchable(handler[g].user, handler[g].target, handler[g].chat)'
    <3>1. handler[g].target \in Workspace /\ handler[g].chat \in Chat
      BY <2>1 DEF At, IInv, TypeOK, HandlerRecord
    <3>2. binding'[handler[g].target][handler[g].chat] = binding[handler[g].target][handler[g].chat]
      BY <1>5, <1>9, <2>1, <3>1
    <3> QED
      BY <1>2, <2>1, <3>2 DEF IInv, TargetsSwitchable, Switchable
  <2> QED
    BY <1>2, <2>1 DEF TargetsSwitchable, At
<1>11. HandlersOfMembers' /\ LocksExclude'
  BY <1>1, <1>2 DEF IInv, HandlersOfMembers, LocksExclude, Holders, At, Usable
<1>12. RowsLinked'
  <2>1. \A d \in Chat : Linked(d) => Linked(d)'
    <3>1. \A j \in Code, d \in Chat : redeemed[j][d] > 0 => redeemed'[j][d] > 0
      BY <1>1, <1>4
    <3> QED
      BY <3>1 DEF Linked
  <2>2. \A v \in Workspace, d \in Chat : binding'[v][d] # binding[v][d] => Linked(d)'
    BY <1>1, <1>5 DEF Linked
  <2>3. \A v \in Workspace, d \in Chat : binding'[v][d].user # NoUser => Linked(d)'
    BY <2>1, <2>2 DEF IInv, RowsLinked
  <2>4. ASSUME NEW g \in Handler, handler'[g] # Idle, handler'[g].workspace # NoWorkspace
        PROVE  Linked(handler[g].chat)'
    <3>1. handler'[g] = handler[g] /\ handler[g].chat \in Chat
      BY <1>2, <2>4 DEF IInv, TypeOK, HandlerRecord
    <3>2. Linked(handler[g].chat)
      BY <2>4, <3>1 DEF IInv, RowsLinked
    <3> QED
      BY <1>1, <1>4, <3>1, <3>2 DEF Linked
  <2> QED
    BY <2>3, <2>4 DEF RowsLinked
<1>13. BindingsOfMembers'
  BY <1>1, <1>5 DEF IInv, BindingsOfMembers, Usable
<1>14. SelectionsOfMembers'
  BY <1>1 DEF IInv, SelectionsOfMembers, Usable
<1>15. AmbiguousOnlyByTwoCodes'
  <2> SUFFICES ASSUME NEW d \in Chat
               PROVE (Cardinality(ActiveBindings(d)) <= Cardinality({j \in Code : redeemed[j][d] > 0}))'
    BY DEF AmbiguousOnlyByTwoCodes
  <2> DEFINE A == ActiveBindings(d)
             R == {j \in Code : redeemed[j][d] > 0}
  <2>1. IsFiniteSet(A) /\ IsFiniteSet(Code) /\ IsFiniteSet(A') /\ IsFiniteSet(R) /\ IsFiniteSet(R')
    <3>1. A \subseteq Workspace /\ A' \subseteq Workspace /\ R \subseteq Code /\ R' \subseteq Code
      BY DEF ActiveBindings, Code
    <3>2. IsFiniteSet(Code)
      BY IdentityAssumption, FS_Interval DEF Code
    <3> HIDE DEF A, R
    <3> QED
      BY IdentityAssumption, <3>1, <3>2, FS_Subset
  <2>2. Cardinality(A) <= Cardinality(R)
    BY DEF IInv, AmbiguousOnlyByTwoCodes
  <2>3. R \subseteq R'
    <3>1. \A j \in Code : redeemed[j][d] > 0 => redeemed'[j][d] > 0
      BY <1>1, <1>4
    <3> QED
      BY <3>1 DEF Code
  <2>4. CASE A' \subseteq A
    <3> HIDE DEF A, R
    <3> QED
      BY <2>1, <2>2, <2>3, <2>4, FS_Subset, FS_CardinalityType DEF A, R
  <2>5. CASE ~(A' \subseteq A)
    <3>1. A' \subseteq A \cup {w} /\ k \in R' /\ k \notin R
      <4>1. PICK v \in Workspace : binding'[v][d].active /\ ~binding[v][d].active
        BY <2>5 DEF ActiveBindings
      <4>2. v = w /\ d = c /\ redeemed'[k][c] = 1 /\ redeemed[k][d] = 0
        BY <1>1, <1>5, <4>1
      <4>3. A' \subseteq A \cup {w}
        BY <1>5 DEF ActiveBindings
      <4> QED
        BY <4>2, <4>3
    <3> HIDE DEF A, R
    <3>2. /\ IsFiniteSet(A \cup {w}) /\ Cardinality(A \cup {w}) <= Cardinality(A) + 1
          /\ Cardinality(A \cup {w}) \in Nat /\ Cardinality(A) \in Nat
      <4>1. A \cup {w} = A \/ w \notin A
        OBVIOUS
      <4> QED
        BY <2>1, <4>1, FS_AddElement, FS_CardinalityType
    <3>3. Cardinality(A') <= Cardinality(A \cup {w}) /\ Cardinality(A') \in Nat
      BY <2>1, <3>1, <3>2, FS_Subset, FS_CardinalityType
    <3>4. /\ IsFiniteSet(R \cup {k}) /\ Cardinality(R \cup {k}) = Cardinality(R) + 1
          /\ Cardinality(R) \in Nat
      BY <2>1, <3>1, FS_AddElement, FS_CardinalityType
    <3>5. Cardinality(R \cup {k}) <= Cardinality(R') /\ Cardinality(R') \in Nat
      BY <2>1, <2>3, <3>1, <3>4, FS_Subset, FS_CardinalityType
    <3>6. Cardinality(A') <= Cardinality(R')
      BY <2>2, <3>2, <3>3, <3>4, <3>5
    <3> QED
      BY <3>6 DEF A, R
  <2> QED
    BY <2>4, <2>5
<1> QED
  BY <1>6, <1>7, <1>8, <1>10, <1>11, <1>12, <1>13, <1>14, <1>15 DEF IInv

\* A switch activates the target's row and no other: it holds both workspaces,
\* so no other update looked at these rows, and the chat was linked by a code.
LEMMA SwitchInvariant == ASSUME IInv, NEW h \in Handler, Switch(h) PROVE IInv'
<1> DEFINE b == handler[h]
<1>1. /\ b \in HandlerRecord /\ b # Idle /\ b.stage = "switching"
      /\ b.chat \in Chat /\ b.user \in User /\ b.workspace \in Workspace /\ b.target \in Workspace
      /\ handler' = [handler EXCEPT ![h] = Idle]
      /\ selection' \subseteq selection
      /\ UNCHANGED <<account, active, member, code, issued, redeemed, refused>>
      /\ b.user \in account => Usable(b.user, b.target)
      /\ binding[b.target][b.chat].user \in {b.user, NoUser}
      /\ Linked(b.chat)
      /\ h \in Holders(b.target)
  <2>1. b \in HandlerRecord /\ b # Idle /\ b.stage = "switching"
    BY DEF Switch, At, IInv, TypeOK
  <2>2. b.chat \in Chat /\ b.user \in User /\ b.workspace \in Workspace /\ b.target \in Workspace
    BY <2>1 DEF IInv, TypeOK, HandlerRecord
  <2>3. /\ b.user \in account => Usable(b.user, b.target)
        /\ binding[b.target][b.chat].user \in {b.user, NoUser}
    BY <2>1 DEF IInv, HandlersOfMembers, TargetsSwitchable, At, Switchable
  <2>4. Linked(b.chat)
    BY <2>1, <2>2, IdentityAssumption DEF IInv, RowsLinked
  <2>5. h \in Holders(b.target)
    BY <2>1 DEF Holders
  <2> QED
    BY <2>1, <2>2, <2>3, <2>4, <2>5 DEF Switch, Finished, workspaceVars, codeVars
<1>20. \A v \in Workspace, d \in Chat :
         binding'[v][d] = IF d # b.chat THEN binding[v][d]
                          ELSE IF v = b.target THEN [user |-> b.user, active |-> TRUE]
                          ELSE [user |-> binding[v][d].user, active |-> FALSE]
  <2> SUFFICES ASSUME NEW v \in Workspace, NEW d \in Chat
               PROVE binding'[v][d] = IF d # b.chat THEN binding[v][d]
                          ELSE IF v = b.target THEN [user |-> b.user, active |-> TRUE]
                          ELSE [user |-> binding[v][d].user, active |-> FALSE]
    OBVIOUS
  <2>1. binding[v] \in [Chat -> BindingRecord] /\ binding[v][d] \in BindingRecord
    BY DEF IInv, TypeOK
  <2>2. binding[v][d].user = NoUser <=> binding[v][d] = NoBinding
    BY <2>1, IdentityAssumption DEF IInv, TypeOK, BindingRecord, NoBinding
  <2>3. binding'[v] = [binding[v] EXCEPT ![b.chat] =
            IF v = b.target THEN [user |-> IF @ = NoBinding THEN b.user ELSE @.user, active |-> TRUE]
            ELSE [@ EXCEPT !.active = FALSE]]
    BY DEF Switch, KeptActive
  <2>4. CASE d # b.chat
    BY <2>1, <2>3, <2>4
  <2>5. CASE d = b.chat /\ v = b.target
    BY <1>1, <2>1, <2>2, <2>3, <2>5
  <2>6. CASE d = b.chat /\ v # b.target
    BY <2>1, <2>3, <2>6 DEF BindingRecord
  <2> QED
    BY <2>4, <2>5, <2>6
<1> HIDE DEF b
<1>2. /\ binding'[b.target][b.chat] = [user |-> b.user, active |-> TRUE]
      /\ \A v \in Workspace : v # b.target =>
            /\ binding'[v][b.chat].user = binding[v][b.chat].user
            /\ ~binding'[v][b.chat].active
            /\ binding'[v][b.chat] = [user |-> binding[v][b.chat].user, active |-> FALSE]
      /\ \A v \in Workspace, d \in Chat : d # b.chat => binding'[v][d] = binding[v][d]
  <2>1. binding'[b.target][b.chat] = [user |-> b.user, active |-> TRUE]
    BY <1>1, <1>20
  <2>2. \A v \in Workspace : v # b.target =>
            binding'[v][b.chat] = [user |-> binding[v][b.chat].user, active |-> FALSE]
    BY <1>1, <1>20
  <2>3. ASSUME NEW v \in Workspace, v # b.target
        PROVE  binding'[v][b.chat].user = binding[v][b.chat].user /\ ~binding'[v][b.chat].active
    <3> DEFINE x == binding[v][b.chat].user
    <3>0. binding'[v][b.chat] = [user |-> x, active |-> FALSE]
      BY <2>2, <2>3
    <3>1. binding'[v][b.chat].user = x
      BY ONLY <3>0
    <3>2. binding'[v][b.chat].active = FALSE
      BY ONLY <3>0
    <3> QED
      BY <3>1, <3>2
  <2>4. \A v \in Workspace, d \in Chat : d # b.chat => binding'[v][d] = binding[v][d]
    BY <1>20
  <2> QED
    BY <2>1, <2>2, <2>3, <2>4
<1>3. binding' \in [Workspace -> [Chat -> BindingRecord]]
  <2>1. /\ binding' = [v \in Workspace |-> binding'[v]]
        /\ \A v \in Workspace : binding'[v] = [d \in Chat |-> binding'[v][d]]
    BY DEF Switch, IInv, TypeOK
  <2>2. ASSUME NEW v \in Workspace, NEW d \in Chat PROVE binding'[v][d] \in BindingRecord
    <3>1. binding[v][d] \in BindingRecord
      BY DEF IInv, TypeOK
    <3>2. CASE d # b.chat
      BY <1>2, <3>1, <3>2
    <3>3. CASE d = b.chat /\ v = b.target
      <4>1. [user |-> b.user, active |-> TRUE] \in BindingRecord
        BY <1>1 DEF BindingRecord
      <4> QED
        BY <1>2, <3>3, <4>1
    <3>4. CASE d = b.chat /\ v # b.target
      <4>1. [user |-> binding[v][d].user, active |-> FALSE] \in BindingRecord
        BY <3>1 DEF BindingRecord
      <4> QED
        BY <1>2, <3>4, <4>1
    <3> QED
      BY <3>2, <3>3, <3>4
  <2> QED
    BY <2>1, <2>2
<1>4. /\ handler'[h] = Idle
      /\ \A g \in Handler \ {h} : handler'[g] = handler[g]
  BY <1>1 DEF IInv, TypeOK
<1>5. TypeOK'
  <2>1. ASSUME NEW v \in Workspace, NEW d \in Chat, binding'[v][d].active
        PROVE  binding'[v][d].user \in User
    <3>1. CASE d # b.chat
      BY <1>2, <2>1, <3>1 DEF IInv, TypeOK
    <3>2. CASE d = b.chat
      <4>1. v = b.target
        BY <1>2, <2>1, <3>2
      <4>2. binding'[v][d].user = b.user
        BY <1>2, <3>2, <4>1
      <4> QED
        BY <1>1, <4>2
    <3> QED
      BY <3>1, <3>2
  <2> QED
    BY <1>1, <1>3, <1>4, <2>1 DEF IInv, TypeOK
<1>6. HandlersOfMembers' /\ LocksExclude'
  BY <1>1, <1>4 DEF IInv, HandlersOfMembers, LocksExclude, Holders, At, Usable
<1>7. TargetsSwitchable'
  <2>1. ASSUME NEW g \in Handler \ {h}, At(g, "switching")
        PROVE  Switchable(handler[g].user, handler[g].target, handler[g].chat)'
    <3>1. handler[g].target \in Workspace /\ handler[g].chat \in Chat
      BY <2>1 DEF At, IInv, TypeOK, HandlerRecord
    <3>2. g \in Holders(handler[g].target)
      BY <2>1 DEF At, Holders
    <3>3. handler[g].target # b.target
      BY <1>1, <3>1, <3>2 DEF IInv, LocksExclude
    <3>4. binding'[handler[g].target][handler[g].chat].user =
            binding[handler[g].target][handler[g].chat].user
      <4>1. CASE handler[g].chat = b.chat
        BY <1>2, <3>1, <3>3, <4>1
      <4>2. CASE handler[g].chat # b.chat
        BY <1>2, <3>1, <4>2
      <4> QED
        BY <4>1, <4>2
    <3> QED
      BY <1>4, <2>1, <3>4 DEF IInv, TargetsSwitchable, Switchable
  <2> QED
    BY <1>4, <2>1 DEF TargetsSwitchable, At
<1>8. RowsLinked'
  <2>1. \A d \in Chat : Linked(d)' <=> Linked(d)
    BY <1>1 DEF Linked
  <2>2. \A v \in Workspace, d \in Chat : binding'[v][d].user # NoUser => Linked(d)
    BY <1>1, <1>2 DEF IInv, RowsLinked
  <2>3. ASSUME NEW g \in Handler, handler'[g] # Idle, handler'[g].workspace # NoWorkspace
        PROVE  Linked(handler[g].chat)'
    BY <1>1, <1>4, <2>3 DEF IInv, RowsLinked, Linked
  <2> QED
    BY <2>1, <2>2, <2>3 DEF RowsLinked
<1>9. LiveCodesUnused' /\ LiveCodesIssued' /\ OneUsableCode'
  BY <1>1 DEF IInv, LiveCodesUnused, LiveCodesIssued, OneUsableCode
<1>10. BindingsOfMembers' /\ SelectionsOfMembers'
  <2>1. ASSUME NEW v \in Workspace, NEW d \in Chat,
               binding'[v][d].active, binding'[v][d].user \in account
        PROVE  Usable(binding'[v][d].user, v)
    <3>1. CASE d # b.chat
      BY <1>2, <2>1, <3>1 DEF IInv, BindingsOfMembers
    <3>2. CASE d = b.chat
      <4>1. v = b.target
        BY <1>2, <2>1, <3>2
      <4>2. binding'[v][d].user = b.user
        BY <1>2, <3>2, <4>1
      <4> QED
        BY <1>1, <2>1, <4>1, <4>2
    <3> QED
      BY <3>1, <3>2
  <2>2. BindingsOfMembers'
    BY <1>1, <2>1 DEF BindingsOfMembers, Usable
  <2> QED
    BY <1>1, <2>2 DEF IInv, SelectionsOfMembers, Usable
<1>11. AmbiguousOnlyByTwoCodes'
  <2> SUFFICES ASSUME NEW d \in Chat
               PROVE (Cardinality(ActiveBindings(d)) <= Cardinality({j \in Code : redeemed[j][d] > 0}))'
    BY DEF AmbiguousOnlyByTwoCodes
  <2>1. CASE d # b.chat
    <3>1. ActiveBindings(d)' \subseteq ActiveBindings(d)
      BY <1>2, <2>1 DEF ActiveBindings
    <3> QED
      BY <1>1, <3>1, FewerBindings
  <2>2. CASE d = b.chat
    <3> DEFINE R == {j \in Code : redeemed[j][d] > 0}
    <3>1. ActiveBindings(d)' = {b.target}
      <4>1. \A v \in Workspace : binding'[v][d].active <=> v = b.target
        <5>1. binding'[b.target][b.chat].active
          BY <1>2
        <5> QED
          BY <1>2, <2>2, <5>1
      <4> QED
        BY <1>1, <4>1 DEF ActiveBindings
    <3>2. PICK k \in Code : redeemed[k][d] > 0
      BY <1>1, <2>2 DEF Linked
    <3>3. k \in R /\ R \subseteq Code /\ R' = R
      BY <1>1, <3>2
    <3> HIDE DEF R
    <3>4. IsFiniteSet(Code)
      BY IdentityAssumption, FS_Interval DEF Code
    <3>5. Cardinality({b.target}) = 1 /\ Cardinality({k}) = 1
      BY FS_Singleton
    <3>6. IsFiniteSet(R) /\ Cardinality({k}) <= Cardinality(R)
      BY <3>3, <3>4, FS_Subset
    <3>7. Cardinality(ActiveBindings(d)') <= Cardinality(R')
      BY <3>1, <3>3, <3>5, <3>6
    <3> QED
      BY <3>7 DEF R
  <2> QED
    BY <2>1, <2>2
<1> QED
  BY <1>5, <1>6, <1>7, <1>8, <1>9, <1>10, <1>11 DEF IInv

-----------------------------------------------------------------------------
\* Rows that are ended keep their user.
LEMMA RowsEnded ==
  ASSUME IInv, NEW kept \in [Workspace -> [Chat -> BOOLEAN]],
         binding' = [w \in Workspace |-> [c \in Chat |->
                        [binding[w][c] EXCEPT !.active = @ /\ kept[w][c]]]]
  PROVE  /\ binding' \in [Workspace -> [Chat -> BindingRecord]]
         /\ \A w \in Workspace, c \in Chat :
              /\ binding'[w][c].user = binding[w][c].user
              /\ binding'[w][c].active => binding[w][c].active /\ kept[w][c]
<1>1. ASSUME NEW w \in Workspace, NEW c \in Chat
      PROVE  /\ [binding[w][c] EXCEPT !.active = @ /\ kept[w][c]] \in BindingRecord
             /\ [binding[w][c] EXCEPT !.active = @ /\ kept[w][c]].user = binding[w][c].user
             /\ [binding[w][c] EXCEPT !.active = @ /\ kept[w][c]].active =
                  (binding[w][c].active /\ kept[w][c])
  <2>1. binding[w][c] \in BindingRecord
    BY DEF IInv, TypeOK
  <2> QED
    BY <2>1 DEF BindingRecord
<1>2. \A w \in Workspace, c \in Chat :
         binding'[w][c] = [binding[w][c] EXCEPT !.active = @ /\ kept[w][c]]
  OBVIOUS
<1>3. binding' \in [Workspace -> [Chat -> BindingRecord]]
  BY <1>1
<1>4. ASSUME NEW w \in Workspace, NEW c \in Chat
      PROVE  /\ binding'[w][c].user = binding[w][c].user
             /\ binding'[w][c].active => binding[w][c].active /\ kept[w][c]
  <2>1. /\ binding'[w][c].user = binding[w][c].user
        /\ binding'[w][c].active = (binding[w][c].active /\ kept[w][c])
    BY <1>1, <1>2
  <2> QED
    BY <2>1
<1> QED
  BY <1>3, <1>4

\* A member loses the access to a workspace that no update holds.
LEMMA RevokeMemberInvariant ==
  ASSUME IInv, NEW u \in User, NEW w \in Workspace, RevokeMember(w, u) PROVE IInv'
<1>1. /\ Holders(w) = {}
      /\ UNCHANGED <<account, active, code, issued, redeemed, refused, handler>>
      /\ member' = [member EXCEPT ![w] = @ \ {u}]
      /\ selection' = selection \ {s \in Selection : s.workspace = w /\ s.user = u}
  BY DEF RevokeMember, Free, SelectionsLeft, codeVars
<1>2. /\ binding' \in [Workspace -> [Chat -> BindingRecord]]
      /\ \A v \in Workspace, c \in Chat :
           /\ binding'[v][c].user = binding[v][c].user
           /\ binding'[v][c].active =>
                binding[v][c].active /\ (v = w => binding[v][c].user # u)
  <2> DEFINE kept == [v \in Workspace |-> [c \in Chat |-> v = w => binding[v][c].user # u]]
  <2>1. kept \in [Workspace -> [Chat -> BOOLEAN]]
    OBVIOUS
  <2>2. binding' = [v \in Workspace |-> [c \in Chat |-> [binding[v][c] EXCEPT !.active = @ /\ kept[v][c]]]]
    BY DEF RevokeMember, IInv, TypeOK
  <2>3. \A v \in Workspace, c \in Chat : kept[v][c] <=> (v = w => binding[v][c].user # u)
    OBVIOUS
  <2> HIDE DEF kept
  <2> QED
    BY <2>1, <2>2, <2>3, RowsEnded
<1>3. TypeOK'
  <2>1. member' \in [Workspace -> SUBSET User] /\ selection' \subseteq Selection
    BY <1>1 DEF IInv, TypeOK
  <2> QED
    BY <1>1, <1>2, <2>1 DEF IInv, TypeOK
<1>4. \A v \in Workspace, x \in User :
        Usable(x, v) /\ (v = w => x # u) => x \in member'[v] /\ v \in active'
  BY <1>1 DEF Usable, IInv, TypeOK
<1>5. HandlersOfMembers'
  <2>1. ASSUME NEW g \in Handler
        PROVE  /\ At(g, "acting") \/ At(g, "switching") =>
                    handler[g].workspace \in Workspace \ {w} /\ handler[g].user \in User
               /\ At(g, "switching") => handler[g].target \in Workspace \ {w}
    BY <1>1 DEF At, Holders, IInv, TypeOK
  <2> QED
    BY <1>1, <1>4, <2>1, SMTT(30) DEF IInv, HandlersOfMembers, At, Usable
<1>6. BindingsOfMembers'
  BY <1>1, <1>2, <1>4 DEF IInv, TypeOK, BindingsOfMembers, Usable
<1>7. SelectionsOfMembers'
  BY <1>1, <1>4 DEF IInv, TypeOK, SelectionsOfMembers, Usable, Selection
<1> QED
  BY <1>1, <1>2, <1>3, <1>5, <1>6, <1>7, EndsOnly DEF IInv, TypeOK

\* A member is admitted, or a workspace is restored.
LEMMA AdmitInvariant ==
  ASSUME IInv, \/ \E u \in User, w \in Workspace : AdmitMember(w, u)
               \/ \E w \in Workspace : RestoreWorkspace(w)
  PROVE  IInv'
<1>1. /\ UNCHANGED <<account, code, issued, redeemed, refused, binding, selection, handler>>
      /\ member' \in [Workspace -> SUBSET User] /\ active \subseteq active' /\ active' \subseteq Workspace
      /\ \A w \in Workspace : member[w] \subseteq member'[w]
  <2>1. ASSUME NEW u \in User, NEW w \in Workspace, AdmitMember(w, u)
        PROVE  /\ UNCHANGED <<account, active, code, issued, redeemed, refused, binding, selection, handler>>
               /\ member' \in [Workspace -> SUBSET User]
               /\ \A v \in Workspace : member[v] \subseteq member'[v]
    BY <2>1 DEF AdmitMember, codeVars, IInv, TypeOK
  <2>2. ASSUME NEW w \in Workspace, RestoreWorkspace(w)
        PROVE  /\ UNCHANGED <<account, member, code, issued, redeemed, refused, binding, selection, handler>>
               /\ active \subseteq active' /\ active' \subseteq Workspace
    BY <2>2 DEF RestoreWorkspace, codeVars, IInv, TypeOK
  <2> QED
    BY <2>1, <2>2 DEF IInv, TypeOK
<1>2. TypeOK'
  BY <1>1 DEF IInv, TypeOK
<1>3. \A v \in Workspace : \A x : Usable(x, v) => x \in member'[v] /\ v \in active'
  BY <1>1 DEF Usable
<1>4. HandlersOfMembers'
  <2>1. ASSUME NEW g \in Handler
        PROVE  /\ At(g, "acting") \/ At(g, "switching") => handler[g].workspace \in Workspace
               /\ At(g, "switching") => handler[g].target \in Workspace
    BY DEF At, IInv, TypeOK
  <2> QED
    BY <1>1, <1>3, <2>1 DEF IInv, HandlersOfMembers, At, Usable
<1>5. BindingsOfMembers' /\ SelectionsOfMembers'
  BY <1>1, <1>3 DEF IInv, TypeOK, BindingsOfMembers, SelectionsOfMembers, Usable, Selection
<1> QED
  BY <1>1, <1>2, <1>4, <1>5, EndsOnly DEF IInv, TypeOK

\* A workspace that no update holds is deactivated.
LEMMA DeactivateInvariant ==
  ASSUME IInv, NEW w \in Workspace, DeactivateWorkspace(w) PROVE IInv'
<1>1. /\ Holders(w) = {}
      /\ UNCHANGED <<account, member, code, issued, redeemed, refused, handler>>
      /\ active' = active \ {w}
      /\ selection' = selection \ {s \in Selection : s.workspace = w}
  BY DEF DeactivateWorkspace, Free, SelectionsLeft, codeVars
<1>2. /\ binding' \in [Workspace -> [Chat -> BindingRecord]]
      /\ \A v \in Workspace, c \in Chat :
           /\ binding'[v][c].user = binding[v][c].user
           /\ binding'[v][c].active => binding[v][c].active /\ v # w
  <2> DEFINE kept == [v \in Workspace |-> [c \in Chat |-> v # w]]
  <2>1. kept \in [Workspace -> [Chat -> BOOLEAN]]
    OBVIOUS
  <2>2. binding' = [v \in Workspace |-> [c \in Chat |-> [binding[v][c] EXCEPT !.active = @ /\ kept[v][c]]]]
    BY DEF DeactivateWorkspace, RuntimeEnded, IInv, TypeOK
  <2>3. \A v \in Workspace, c \in Chat : kept[v][c] <=> (v # w)
    OBVIOUS
  <2> HIDE DEF kept
  <2> QED
    BY <2>1, <2>2, <2>3, RowsEnded
<1>3. TypeOK'
  BY <1>1, <1>2 DEF IInv, TypeOK
<1>4. \A v \in Workspace : \A x : Usable(x, v) /\ v # w => x \in member'[v] /\ v \in active'
  BY <1>1 DEF Usable
<1>5. HandlersOfMembers'
  <2>1. ASSUME NEW g \in Handler
        PROVE  /\ At(g, "acting") \/ At(g, "switching") => handler[g].workspace \in Workspace \ {w}
               /\ At(g, "switching") => handler[g].target \in Workspace \ {w}
    BY <1>1 DEF At, Holders, IInv, TypeOK
  <2> QED
    BY <1>1, <1>4, <2>1, SMTT(30) DEF IInv, HandlersOfMembers, At, Usable
<1>6. BindingsOfMembers' /\ SelectionsOfMembers'
  BY <1>1, <1>2, <1>4 DEF IInv, TypeOK, BindingsOfMembers, SelectionsOfMembers, Usable, Selection
<1> QED
  BY <1>1, <1>2, <1>3, <1>5, <1>6, EndsOnly DEF IInv, TypeOK

\* An account is closed, whatever its updates in flight are about to do.
LEMMA CloseAccountInvariant ==
  ASSUME IInv, NEW u \in User, NEW owned \in SUBSET Workspace, CloseAccount(u, owned) PROVE IInv'
<1>1. /\ \A w \in owned : Holders(w) = {} /\ member[w] = {u}
      /\ UNCHANGED <<issued, redeemed, refused, handler>>
      /\ account' = account \ {u} /\ active' = active \ owned
      /\ member' = [w \in Workspace |-> member[w] \ {u}]
      /\ selection' = selection \ {s \in Selection : s.workspace \in owned \/ s.user = u}
  BY DEF CloseAccount, Free, SelectionsLeft
<1>2. /\ binding' \in [Workspace -> [Chat -> BindingRecord]]
      /\ \A v \in Workspace, c \in Chat :
           /\ binding'[v][c].user = binding[v][c].user
           /\ binding'[v][c].active => binding[v][c].active /\ v \notin owned /\ binding[v][c].user # u
  <2> DEFINE kept == [v \in Workspace |-> [c \in Chat |-> v \notin owned /\ binding[v][c].user # u]]
  <2>1. kept \in [Workspace -> [Chat -> BOOLEAN]]
    OBVIOUS
  <2>2. binding' = [v \in Workspace |-> [c \in Chat |-> [binding[v][c] EXCEPT !.active = @ /\ kept[v][c]]]]
    BY DEF CloseAccount, IInv, TypeOK
  <2>3. \A v \in Workspace, c \in Chat : kept[v][c] <=> (v \notin owned /\ binding[v][c].user # u)
    OBVIOUS
  <2> HIDE DEF kept
  <2> QED
    BY <2>1, <2>2, <2>3, RowsEnded
<1>3. /\ code' \in [Code -> CodeRecord]
      /\ \A k \in Code : code'[k].user = code[k].user /\ (code'[k].live => code[k].live)
  <2>1. ASSUME NEW k \in Code, NEW kept \in BOOLEAN
        PROVE  LET ended == [code[k] EXCEPT !.live = @ /\ kept]
               IN ended \in CodeRecord /\ ended.user = code[k].user /\ (ended.live => code[k].live)
    <3>1. code[k] \in CodeRecord
      BY DEF IInv, TypeOK
    <3>2. (code[k].live /\ kept) \in BOOLEAN
      OBVIOUS
    <3> QED
      BY <3>1, <3>2 DEF CodeRecord
  <2>2. ASSUME NEW k \in Code
        PROVE  /\ code'[k] \in CodeRecord
               /\ code'[k].user = code[k].user /\ (code'[k].live => code[k].live)
    <3> DEFINE kept == code[k].user # u
    <3>1. kept \in BOOLEAN
      OBVIOUS
    <3>2. code'[k] = [code[k] EXCEPT !.live = @ /\ kept]
      BY DEF CloseAccount
    <3> HIDE DEF kept
    <3> QED
      BY <2>1, <3>1, <3>2
  <2>3. code' \in [Code -> CodeRecord]
    BY <2>2 DEF CloseAccount
  <2> QED
    BY <2>2, <2>3
<1>4. TypeOK'
  <2>1. TypeOK /\ UNCHANGED <<issued, redeemed, refused, handler>>
    BY <1>1 DEF IInv
  <2>2. /\ account' \subseteq User /\ active' \subseteq Workspace
        /\ member' \in [Workspace -> SUBSET User] /\ selection' \subseteq Selection
    BY <1>1, <2>1 DEF TypeOK
  <2>3. \A v \in Workspace, c \in Chat :
           binding'[v][c].active => binding'[v][c].user \in User
    BY <1>2, <2>1 DEF TypeOK
  <2> QED
    BY <1>2, <1>3, <2>1, <2>2, <2>3 DEF TypeOK
<1>5. \A v \in Workspace : \A x : Usable(x, v) /\ v \notin owned /\ x # u => x \in member'[v] /\ v \in active'
  BY <1>1 DEF Usable
<1>6. HandlersOfMembers'
  <2>1. ASSUME NEW g \in Handler
        PROVE  /\ At(g, "acting") \/ At(g, "switching") => handler[g].workspace \in Workspace \ owned
               /\ At(g, "switching") => handler[g].target \in Workspace \ owned
    BY <1>1 DEF At, Holders, IInv, TypeOK
  <2> QED
    BY <1>1, <1>5, <2>1 DEF IInv, HandlersOfMembers, At, Usable
<1>7. BindingsOfMembers' /\ SelectionsOfMembers'
  BY <1>1, <1>2, <1>5 DEF IInv, TypeOK, BindingsOfMembers, SelectionsOfMembers, Usable, Selection
<1> QED
  BY <1>1, <1>2, <1>3, <1>4, <1>6, <1>7, EndsOnly DEF IInv, TypeOK

-----------------------------------------------------------------------------
LEMMA UpdateInvariant == ASSUME IInv, NEW h \in Handler, Update(h) PROVE IInv'
<1>1. CASE \E c \in Chat : Receive(h, c)
  BY <1>1, ReceiveInvariant
<1>2. CASE Enter(h)
  BY <1>2, EnterInvariant
<1>3. CASE Finish(h)
  BY <1>3, FinishInvariant
<1>4. CASE \E k \in Code : Redeem(h, k)
  BY <1>4, RedeemInvariant
<1>5. CASE StartSelection(h)
  BY <1>5, StartSelectionInvariant
<1>6. CASE \E w \in Workspace : LockTarget(h, w)
  BY <1>6, LockTargetInvariant
<1>7. CASE Switch(h)
  BY <1>7, SwitchInvariant
<1> QED
  BY <1>1, <1>2, <1>3, <1>4, <1>5, <1>6, <1>7 DEF Update

LEMMA NextInvariant == ASSUME IInv, Next PROVE IInv'
<1>1. CASE \E h \in Handler : Update(h)
  BY <1>1, UpdateInvariant
<1>2. ASSUME NEW u \in User, NEW w \in Workspace, IssueCode(u, w) PROVE IInv'
  BY <1>2, IssueCodeInvariant
<1>3. ASSUME NEW u \in User, NEW w \in Workspace, RevokeMember(w, u) PROVE IInv'
  BY <1>3, RevokeMemberInvariant
<1>4. ASSUME NEW u \in User, NEW w \in Workspace, AdmitMember(w, u) PROVE IInv'
  BY <1>4, AdmitInvariant
<1>5. CASE (\E k \in Code : ExpireCode(k)) \/ \E s \in selection : ExpireSelection(s)
  BY <1>5, ExpireInvariant
<1>6. ASSUME NEW w \in Workspace, DeactivateWorkspace(w) PROVE IInv'
  BY <1>6, DeactivateInvariant
<1>7. ASSUME NEW w \in Workspace, RestoreWorkspace(w) PROVE IInv'
  BY <1>7, AdmitInvariant
<1>8. ASSUME NEW u \in User, NEW owned \in SUBSET Workspace, CloseAccount(u, owned) PROVE IInv'
  BY <1>8, CloseAccountInvariant
<1> QED
  BY <1>1, <1>2, <1>3, <1>4, <1>5, <1>6, <1>7, <1>8 DEF Next

LEMMA StutterInvariant == ASSUME IInv, UNCHANGED vars PROVE IInv'
<1>1. TypeOK' /\ HandlersOfMembers' /\ LocksExclude' /\ TargetsSwitchable'
  BY DEF vars, IInv, TypeOK, HandlersOfMembers, LocksExclude, TargetsSwitchable, Holders, At,
         Usable, Switchable
<1>2. RowsLinked' /\ LiveCodesUnused' /\ LiveCodesIssued' /\ OneUsableCode'
  BY DEF vars, IInv, RowsLinked, Linked, LiveCodesUnused, LiveCodesIssued, OneUsableCode
<1>3. BindingsOfMembers' /\ SelectionsOfMembers' /\ AmbiguousOnlyByTwoCodes'
  BY DEF vars, IInv, BindingsOfMembers, SelectionsOfMembers, AmbiguousOnlyByTwoCodes,
         ActiveBindings, Usable
<1> QED
  BY <1>1, <1>2, <1>3 DEF IInv

\* The inductive invariant holds in every reachable state.
THEOREM Invariant == Spec => []IInv
<1>1. IInv /\ [Next]_vars => IInv'
  BY NextInvariant, StutterInvariant
<1> QED
  BY <1>1, InitInvariant, PTL DEF Spec

\* Every state has the types of the rows (use_cases/identity.py, workspace.py).
THEOREM TypeCorrect == Spec => []TypeOK
<1>1. IInv => TypeOK
  BY DEF IInv
<1> QED
  BY <1>1, Invariant, PTL

\* A chat acts only for members of its workspace, however commands and updates
\* interleave (require_bound_workspace, revoke_workspace_access_for_user).
THEOREM Bindings == Spec => []BindingsOfMembers
<1>1. IInv => BindingsOfMembers
  BY DEF IInv
<1> QED
  BY <1>1, Invariant, PTL

\* An open choice is a member's (start_workspace_selection and the revocations).
THEOREM Selections == Spec => []SelectionsOfMembers
<1>1. IInv => SelectionsOfMembers
  BY DEF IInv
<1> QED
  BY <1>1, Invariant, PTL

\* A link code is the only live one of its user and links once
\* (replace_active, consume).
THEOREM Codes == Spec => []OneUsableCode
<1>1. IInv => OneUsableCode
  BY DEF IInv
<1> QED
  BY <1>1, Invariant, PTL

\* A chat has no more active bindings than codes that linked it
\* (deactivate_other_identity_bindings, bind_chat_identity).
THEOREM Ambiguity == Spec => []AmbiguousOnlyByTwoCodes
<1>1. IInv => AmbiguousOnlyByTwoCodes
  BY DEF IInv
<1> QED
  BY <1>1, Invariant, PTL

\* Bindings, choices and codes end with the membership they rest on.
THEOREM ChatsConsistent == Spec => []Consistent
<1>1. TypeOK /\ BindingsOfMembers /\ SelectionsOfMembers /\ OneUsableCode => Consistent
  BY DEF Consistent
<1> QED
  BY <1>1, TypeCorrect, Bindings, Selections, Codes, PTL

-----------------------------------------------------------------------------
\* The row of w and c begins to be active for the user who brings it about.
Begun(w, c) ==
  binding'[w][c].active /\ ~binding[w][c].active =>
      \/ \E k \in Code : redeemed'[k][c] # redeemed[k][c] /\ code[k].user = binding'[w][c].user
      \/ \E h \in Handler : At(h, "switching") /\ handler[h].chat = c
                            /\ handler[h].user = binding'[w][c].user /\ handler[h].target = w

LEMMA RedeemBegins ==
  ASSUME IInv, NEW h \in Handler, NEW k \in Code, Redeem(h, k),
         NEW w \in Workspace, NEW c \in Chat
  PROVE  Begun(w, c)
<1> SUFFICES ASSUME binding'[w][c].active, ~binding[w][c].active
             PROVE redeemed'[k][c] # redeemed[k][c] /\ code[k].user = binding'[w][c].user
  BY DEF Begun
<1> DEFINE d == handler[h].chat
           u == code[k].user
           v == code[k].workspace
<1>1. d \in Chat /\ v \in Workspace /\ redeemed[k][d] \in Nat
  BY DEF Redeem, At, IInv, TypeOK, HandlerRecord, Usable
<1>2. /\ redeemed' = [redeemed EXCEPT ![k][d] = @ + 1]
      /\ binding' = [binding EXCEPT ![v][d] = [user |-> u, active |-> TRUE]]
  BY DEF Redeem
<1> HIDE DEF d, u, v
<1>3. w = v /\ c = d /\ binding'[w][c] = [user |-> u, active |-> TRUE]
  BY <1>1, <1>2 DEF IInv, TypeOK
<1>4. redeemed'[k][d] = redeemed[k][d] + 1
  BY <1>1, <1>2 DEF IInv, TypeOK
<1> QED
  BY <1>1, <1>3, <1>4 DEF u

LEMMA SwitchBegins ==
  ASSUME IInv, NEW h \in Handler, Switch(h), NEW w \in Workspace, NEW c \in Chat
  PROVE  Begun(w, c)
<1> SUFFICES ASSUME binding'[w][c].active, ~binding[w][c].active
             PROVE At(h, "switching") /\ handler[h].chat = c
                   /\ handler[h].user = binding'[w][c].user /\ handler[h].target = w
  BY DEF Begun
<1> DEFINE b == handler[h]
<1>1. At(h, "switching") /\ b.chat \in Chat /\ binding[w][c] \in BindingRecord
  BY DEF Switch, At, IInv, TypeOK, HandlerRecord
<1>2. binding[w] \in [Chat -> BindingRecord]
  BY DEF IInv, TypeOK
<1>3. binding'[w] = [binding[w] EXCEPT ![b.chat] =
          IF w = b.target THEN [user |-> IF @ = NoBinding THEN b.user ELSE @.user, active |-> TRUE]
          ELSE [@ EXCEPT !.active = FALSE]]
  BY DEF Switch, KeptActive
<1>4. b.chat = c
  BY <1>2, <1>3
<1>5. b.target = w
  <2> SUFFICES ASSUME b.target # w PROVE FALSE
    OBVIOUS
  <2>1. binding'[w][c] = [binding[w][c] EXCEPT !.active = FALSE]
    BY <1>2, <1>3, <1>4
  <2>2. binding'[w][c].active = FALSE
    BY <1>1, <2>1 DEF BindingRecord
  <2> QED
    BY <2>2
<1>6. binding'[w][c] = [user |-> IF binding[w][c] = NoBinding THEN b.user ELSE binding[w][c].user,
                        active |-> TRUE]
  BY <1>2, <1>3, <1>4, <1>5
<1>7. b.user \in User /\ binding[w][c].user \in {b.user, NoUser}
  BY <1>1, <1>4, <1>5 DEF IInv, TypeOK, TargetsSwitchable, Switchable, At, HandlerRecord
<1>8. binding[w][c].user = NoUser => binding[w][c] = NoBinding
  BY <1>1, IdentityAssumption DEF IInv, TypeOK, BindingRecord, NoBinding
<1> QED
  BY <1>1, <1>4, <1>5, <1>6, <1>7, <1>8

\* No other step activates a row.
LEMMA OthersBeginNothing ==
  ASSUME IInv, NEW w \in Workspace, NEW c \in Chat, binding'[w][c].active, ~binding[w][c].active, Next
  PROVE  \E h \in Handler : Switch(h) \/ \E k \in Code : Redeem(h, k)
<1>1. binding' # binding
  OBVIOUS
<1>2. \A u \in User, v \in Workspace : ~IssueCode(u, v) /\ ~AdmitMember(v, u)
  BY <1>1 DEF IssueCode, AdmitMember
<1>3. \A v \in Workspace : ~RestoreWorkspace(v)
  BY <1>1 DEF RestoreWorkspace
<1>4. (\A k \in Code : ~ExpireCode(k)) /\ \A s \in selection : ~ExpireSelection(s)
  BY <1>1 DEF ExpireCode, ExpireSelection
<1>5. ASSUME NEW kept \in [Workspace -> [Chat -> BOOLEAN]],
             binding' = [v \in Workspace |-> [d \in Chat |->
                            [binding[v][d] EXCEPT !.active = @ /\ kept[v][d]]]]
      PROVE  FALSE
  BY <1>5, RowsEnded
<1>6. \A u \in User, v \in Workspace : ~RevokeMember(v, u)
  <2> SUFFICES ASSUME NEW u \in User, NEW v \in Workspace, RevokeMember(v, u) PROVE FALSE
    OBVIOUS
  <2> DEFINE kept == [x \in Workspace |-> [d \in Chat |-> x = v => binding[x][d].user # u]]
  <2>1. kept \in [Workspace -> [Chat -> BOOLEAN]]
    OBVIOUS
  <2>2. binding' = [x \in Workspace |-> [d \in Chat |-> [binding[x][d] EXCEPT !.active = @ /\ kept[x][d]]]]
    BY DEF RevokeMember
  <2> HIDE DEF kept
  <2> QED
    BY <1>5, <2>1, <2>2
<1>7. \A v \in Workspace : ~DeactivateWorkspace(v)
  <2> SUFFICES ASSUME NEW v \in Workspace, DeactivateWorkspace(v) PROVE FALSE
    OBVIOUS
  <2> DEFINE kept == [x \in Workspace |-> [d \in Chat |-> x # v]]
  <2>1. kept \in [Workspace -> [Chat -> BOOLEAN]]
    OBVIOUS
  <2>2. binding' = [x \in Workspace |-> [d \in Chat |-> [binding[x][d] EXCEPT !.active = @ /\ kept[x][d]]]]
    BY DEF DeactivateWorkspace, RuntimeEnded
  <2> HIDE DEF kept
  <2> QED
    BY <1>5, <2>1, <2>2
<1>8. \A u \in User, owned \in SUBSET Workspace : ~CloseAccount(u, owned)
  <2> SUFFICES ASSUME NEW u \in User, NEW owned \in SUBSET Workspace, CloseAccount(u, owned)
               PROVE FALSE
    OBVIOUS
  <2> DEFINE kept == [x \in Workspace |-> [d \in Chat |-> x \notin owned /\ binding[x][d].user # u]]
  <2>1. kept \in [Workspace -> [Chat -> BOOLEAN]]
    OBVIOUS
  <2>2. binding' = [x \in Workspace |-> [d \in Chat |-> [binding[x][d] EXCEPT !.active = @ /\ kept[x][d]]]]
    BY DEF CloseAccount
  <2> HIDE DEF kept
  <2> QED
    BY <1>5, <2>1, <2>2
<1>9. \E h \in Handler : Update(h)
  BY <1>2, <1>3, <1>4, <1>6, <1>7, <1>8 DEF Next
<1>10. \A h \in Handler :
         ~Enter(h) /\ ~Finish(h) /\ ~StartSelection(h) /\ (\A d \in Chat : ~Receive(h, d))
         /\ \A v \in Workspace : ~LockTarget(h, v)
  BY <1>1 DEF Enter, Finish, StartSelection, Receive, LockTarget
<1> QED
  BY <1>9, <1>10 DEF Update

\* A chat begins to act in a workspace by a code of the user it then acts for or
\* by an update that acted for that user (bind_chat_identity,
\* _get_or_create_target_binding).
THEOREM SwitchesKeepUser == Spec => SwitchKeepsUser
<1>1. ASSUME IInv, [Next]_vars
      PROVE  [\A w \in Workspace, c \in Chat :
                LET row == binding'[w][c] IN
                row.active /\ ~binding[w][c].active =>
                    \/ \E k \in Code : redeemed'[k][c] # redeemed[k][c] /\ code[k].user = row.user
                    \/ \E h \in Handler : At(h, "switching") /\ handler[h].chat = c
                                          /\ handler[h].user = row.user /\ handler[h].target = w]_vars
  <2>1. CASE Next
    <3>1. ASSUME NEW w \in Workspace, NEW c \in Chat PROVE Begun(w, c)
      <4>1. CASE binding'[w][c].active /\ ~binding[w][c].active
        BY <1>1, <2>1, <4>1, OthersBeginNothing, SwitchBegins, RedeemBegins
      <4>2. CASE ~(binding'[w][c].active /\ ~binding[w][c].active)
        BY <4>2 DEF Begun
      <4> QED
        BY <4>1, <4>2
    <3> QED
      BY <3>1 DEF Begun
  <2>2. CASE UNCHANGED vars
    BY <2>2
  <2> QED
    BY <1>1, <2>1, <2>2
<1> QED
  BY <1>1, Invariant, PTL DEF Spec, SwitchKeepsUser
=============================================================================
