---------------------------- MODULE ChatIdentity ----------------------------
(***************************************************************************)
(* Which workspace a Telegram chat acts in, and for whom: link codes, the  *)
(* bindings of chats, the choice of another workspace, and the end of      *)
(* access (features/chat_integrations/use_cases/{identity,workspace}.py,   *)
(* features/users/identity_repository.py).                                 *)
(*                                                                         *)
(* An update is handled in one transaction.  It reads the bindings of its  *)
(* chat without a lock, locks the workspace it finds there, looks whether  *)
(* the member may act, and then acts.  The commands on a workspace take    *)
(* the same lock.  The closing of an account takes the lock of the account *)
(* instead, and may come between any two steps of an update.  Telegram     *)
(* sends an update again after a failure, and two updates of one chat may  *)
(* be in flight together.                                                  *)
(***************************************************************************)
EXTENDS Naturals, FiniteSets

CONSTANTS
    User, Workspace, Chat,
    Handler,        \* updates in flight
    MaxCodes,       \* link codes issued, bound of the model
    NoUser, NoWorkspace, Idle

ASSUME IdentityAssumption ==
    /\ MaxCodes \in Nat
    /\ IsFiniteSet(Workspace)
    /\ NoUser \notin User
    /\ NoWorkspace \notin Workspace

Code == 1..MaxCodes

\* A link code is live until it is redeemed, replaced by a newer one or expired.
CodeRecord == [user : User \cup {NoUser}, workspace : Workspace \cup {NoWorkspace}, live : BOOLEAN]

\* One row for a workspace and a chat, inactive rows included (unique
\* constraint of chat_identity_bindings); NoUser when there is none.
BindingRecord == [user : User \cup {NoUser}, active : BOOLEAN]

\* An open choice of another workspace, by where and to whom it was offered.
\* Which workspaces it offers is left out: the target is looked at again.
Selection == [workspace : Workspace, user : User]

\* "read": the bindings of the chat were read; "acting": the workspace is
\* locked; "switching": the target is locked too and was looked at.
HandlerRecord ==
    [stage : {"read", "acting", "switching"}, chat : Chat, user : User \cup {NoUser},
     workspace : Workspace \cup {NoWorkspace}, target : Workspace \cup {NoWorkspace}]

ASSUME IdleAssumption == Idle \notin HandlerRecord

VARIABLES
    account,    \* the accounts that are active
    active,     \* the workspaces that are active
    member,     \* workspace -> the users with an active membership
    code,       \* link codes in the order they were issued
    issued,     \* how many there are
    redeemed,   \* code -> chat -> how often the code linked the chat
    refused,    \* codes whose redemption the database refused
    binding,    \* workspace -> chat -> the row that links them
    selection,  \* the open choices
    handler

vars == <<account, active, member, code, issued, redeemed, refused, binding, selection, handler>>

TypeOK ==
    /\ account \subseteq User
    /\ active \subseteq Workspace
    /\ member \in [Workspace -> SUBSET User]
    /\ code \in [Code -> CodeRecord]
    /\ issued \in 0..MaxCodes
    /\ redeemed \in [Code -> [Chat -> Nat]]
    /\ refused \subseteq Code
    /\ binding \in [Workspace -> [Chat -> BindingRecord]]
    /\ selection \subseteq Selection
    /\ handler \in [Handler -> HandlerRecord \cup {Idle}]
    /\ \A w \in Workspace, c \in Chat : binding[w][c].active => binding[w][c].user \in User
    /\ \A h \in Handler : handler[h] # Idle =>
          /\ handler[h].stage # "read" => handler[h].workspace \in Workspace
          /\ handler[h].workspace \in Workspace <=> handler[h].user \in User
          /\ handler[h].target \in Workspace <=> handler[h].stage = "switching"

NoBinding == [user |-> NoUser, active |-> FALSE]

Init ==
    /\ account = User
    /\ active = Workspace
    /\ member = [w \in Workspace |-> User]
    /\ code = [k \in Code |-> [user |-> NoUser, workspace |-> NoWorkspace, live |-> FALSE]]
    /\ issued = 0
    /\ redeemed = [k \in Code |-> [c \in Chat |-> 0]]
    /\ refused = {}
    /\ binding = [w \in Workspace |-> [c \in Chat |-> NoBinding]]
    /\ selection = {}
    /\ handler = [h \in Handler |-> Idle]

-----------------------------------------------------------------------------
\* get_active_membership: an active membership of an active workspace
Usable(u, w) == w \in active /\ u \in member[w]

\* The handlers that hold the row lock of a workspace.
Holders(w) ==
    {h \in Handler : /\ handler[h] # Idle
                     /\ \/ handler[h].stage \in {"acting", "switching"} /\ handler[h].workspace = w
                        \/ handler[h].stage = "switching" /\ handler[h].target = w}

Free(w) == Holders(w) = {}

At(h, stage) == handler[h] # Idle /\ handler[h].stage = stage

Finished(h) == handler' = [handler EXCEPT ![h] = Idle]

\* list_active_identity_bindings_for_external_user
ActiveBindings(c) == {w \in Workspace : binding[w][c].active}

workspaceVars == <<account, active, member>>
codeVars == <<code, issued, redeemed, refused>>

-----------------------------------------------------------------------------
(* Link codes.                                                             *)

\* replace_active: the live codes of the user are consumed.
Replaced(u, k) == code[k].user = u

\* issue, for the workspace the member's session is in
IssueCode(u, w) ==
    /\ u \in account /\ Usable(u, w)
    /\ issued < MaxCodes
    /\ issued' = issued + 1
    /\ code' = [k \in Code |->
          IF k = issued + 1 THEN [user |-> u, workspace |-> w, live |-> TRUE]
          ELSE [code[k] EXCEPT !.live = @ /\ ~Replaced(u, k)]]
    /\ UNCHANGED <<workspaceVars, redeemed, refused, binding, selection, handler>>

ExpireCode(k) ==
    /\ code[k].live
    /\ code' = [code EXCEPT ![k].live = FALSE]
    /\ UNCHANGED <<workspaceVars, issued, redeemed, refused, binding, selection, handler>>

-----------------------------------------------------------------------------
(* An update of a chat.                                                    *)

\* require_bound_workspace up to the lock: no binding, or more than one, and
\* the chat is not linked.
Receive(h, c) ==
    /\ handler[h] = Idle
    /\ handler' = [handler EXCEPT ![h] =
          IF \E w \in Workspace : ActiveBindings(c) = {w}
          THEN LET w == CHOOSE w \in Workspace : ActiveBindings(c) = {w}
               IN  [stage |-> "read", chat |-> c, user |-> binding[w][c].user,
                    workspace |-> w, target |-> NoWorkspace]
          ELSE [stage |-> "read", chat |-> c, user |-> NoUser,
                workspace |-> NoWorkspace, target |-> NoWorkspace]]
    /\ UNCHANGED <<workspaceVars, codeVars, binding, selection>>

\* What is looked at under the lock.
Admits(u, w) == u \in account /\ Usable(u, w)

\* require_bound_workspace, the rest; the chat counts as not linked when the
\* user may not act.
Enter(h) ==
    LET b == handler[h] IN
    /\ At(h, "read") /\ b.workspace # NoWorkspace
    /\ Free(b.workspace)
    /\ handler' = [handler EXCEPT ![h] =
          IF Admits(b.user, b.workspace) THEN [b EXCEPT !.stage = "acting"]
          ELSE [b EXCEPT !.workspace = NoWorkspace, !.user = NoUser]]
    /\ UNCHANGED <<workspaceVars, codeVars, binding, selection>>

\* The update is done and changed nothing here, it is refused, fails, dies with
\* its process, or the database aborts it in a deadlock of two switches.
Finish(h) ==
    /\ handler[h] # Idle
    /\ Finished(h)
    /\ UNCHANGED <<workspaceVars, codeVars, binding, selection>>

\* consume
Spent(k) == code' = [code EXCEPT ![k].live = FALSE]

\* bind and bind_chat_identity, for a chat that is not linked; k is the code in
\* the text.  A refusal rolls the redemption back.
Redeem(h, k) ==
    LET c == handler[h].chat
        u == code[k].user
        w == code[k].workspace
        row == binding[w][c]
    IN
    /\ At(h, "read") /\ handler[h].workspace = NoWorkspace
    /\ code[k].live
    /\ Free(w) /\ Usable(u, w)
    /\ \/ /\ row.active /\ row.user = u
          /\ Spent(k)
          /\ redeemed' = [redeemed EXCEPT ![k][c] = @ + 1]
          /\ UNCHANGED <<binding, refused>>
       \/ /\ row = NoBinding
          /\ Spent(k)
          /\ redeemed' = [redeemed EXCEPT ![k][c] = @ + 1]
          /\ binding' = [binding EXCEPT ![w][c] = [user |-> u, active |-> TRUE]]
          /\ UNCHANGED refused
       \/ /\ row # NoBinding /\ ~row.active     \* a second row: the constraint
          /\ refused' = refused \cup {k}
          /\ UNCHANGED <<code, redeemed, binding>>
    /\ Finished(h)
    /\ UNCHANGED <<workspaceVars, issued, selection>>

\* start_workspace_selection: the workspaces of the user are offered.
StartSelection(h) ==
    LET b == handler[h] IN
    /\ At(h, "acting")
    /\ {w \in Workspace : Usable(b.user, w)} # {}
    /\ selection' = selection \cup {[workspace |-> b.workspace, user |-> b.user]}
    /\ Finished(h)
    /\ UNCHANGED <<workspaceVars, codeVars, binding>>

\* Mutant: the row of another user is taken over.
SwitchableAnyRow(u, w, c) == TRUE

\* _get_or_create_target_binding: the row is the user's own or there is none.
Switchable(u, w, c) == binding[w][c].user \in {u, NoUser}

\* Mutant: a workspace that was offered is still taken for the member's.
StillUsable(u, w) == w \in active

\* The second look at the target, under its lock.
TargetUsable(u, w) == Usable(u, w)

\* select_workspace up to its changes
LockTarget(h, w) ==
    LET b == handler[h] IN
    /\ At(h, "acting")
    /\ [workspace |-> b.workspace, user |-> b.user] \in selection
    /\ Holders(w) \subseteq {h}
    /\ TargetUsable(b.user, w)
    /\ Switchable(b.user, w, b.chat)
    /\ handler' = [handler EXCEPT ![h] = [b EXCEPT !.stage = "switching", !.target = w]]
    /\ UNCHANGED <<workspaceVars, codeVars, binding, selection>>

\* Mutant: the row that was read stays active beside the target's.
OthersKeptActive(h, v) == v = handler[h].workspace /\ binding[v][handler[h].chat].active

\* deactivate_other_identity_bindings
KeptActive(h, v) == FALSE

\* select_workspace: the target's row is the active one of the chat.  The choice
\* is marked as consumed whoever consumed it since it was read.
Switch(h) ==
    LET b == handler[h] IN
    /\ At(h, "switching")
    /\ binding' = [v \in Workspace |-> [binding[v] EXCEPT ![b.chat] =
          IF v = b.target THEN [user |-> IF @ = NoBinding THEN b.user ELSE @.user, active |-> TRUE]
          ELSE [@ EXCEPT !.active = KeptActive(h, v)]]]
    /\ selection' = selection \ {[workspace |-> b.workspace, user |-> b.user]}
    /\ Finished(h)
    /\ UNCHANGED <<workspaceVars, codeVars>>

\* The lifetime of a choice is over.
ExpireSelection(s) ==
    /\ s \in selection
    /\ selection' = selection \ {s}
    /\ UNCHANGED <<workspaceVars, codeVars, binding, handler>>

-----------------------------------------------------------------------------
(* The end of access, and its return.                                      *)

\* The open choices of those who lose access are consumed.
SelectionsLeft(gone) == selection \ gone

\* revoke_workspace_access_for_user, when a member is disabled, removed or leaves
RevokeMember(w, u) ==
    /\ u \in member[w] /\ Free(w)
    /\ member' = [member EXCEPT ![w] = @ \ {u}]
    /\ binding' = [v \in Workspace |-> [c \in Chat |->
          [binding[v][c] EXCEPT !.active = @ /\ (v = w => binding[v][c].user # u)]]]
    /\ selection' = SelectionsLeft({s \in Selection : s.workspace = w /\ s.user = u})
    /\ UNCHANGED <<account, active, codeVars, handler>>

\* A member is reactivated or accepts an invitation.
AdmitMember(w, u) ==
    /\ w \in active /\ u \in account \ member[w] /\ Free(w)
    /\ member' = [member EXCEPT ![w] = @ \cup {u}]
    /\ UNCHANGED <<account, active, codeVars, binding, selection, handler>>

\* deactivate_workspace_runtime, for each of the workspaces
RuntimeEnded(ws) ==
    binding' = [w \in Workspace |-> [c \in Chat |->
        [binding[w][c] EXCEPT !.active = @ /\ w \notin ws]]]

DeactivateWorkspace(w) ==
    /\ w \in active /\ Free(w)
    /\ active' = active \ {w}
    /\ RuntimeEnded({w})
    /\ selection' = SelectionsLeft({s \in Selection : s.workspace = w})
    /\ UNCHANGED <<account, member, codeVars, handler>>

RestoreWorkspace(w) ==
    /\ w \notin active /\ Free(w)
    /\ active' = active \cup {w}
    /\ UNCHANGED <<account, member, codeVars, binding, selection, handler>>

\* deactivate: the workspaces the user owns, who is then their only member, are
\* locked and closed; the other memberships end without a lock.
CloseAccount(u, owned) ==
    /\ u \in account
    /\ \A w \in owned : w \in active /\ member[w] = {u} /\ Free(w)
    /\ account' = account \ {u}
    /\ active' = active \ owned
    /\ member' = [w \in Workspace |-> member[w] \ {u}]
    /\ binding' = [w \in Workspace |-> [c \in Chat |->
          [binding[w][c] EXCEPT !.active = @ /\ w \notin owned /\ binding[w][c].user # u]]]
    /\ selection' = SelectionsLeft({s \in Selection : s.workspace \in owned \/ s.user = u})
    /\ code' = [k \in Code |-> [code[k] EXCEPT !.live = @ /\ code[k].user # u]]
    /\ UNCHANGED <<issued, redeemed, refused, handler>>

-----------------------------------------------------------------------------
Update(h) ==
    \/ \E c \in Chat : Receive(h, c)
    \/ Enter(h) \/ Finish(h)
    \/ \E k \in Code : Redeem(h, k)
    \/ StartSelection(h)
    \/ \E w \in Workspace : LockTarget(h, w)
    \/ Switch(h)

Next ==
    \/ \E h \in Handler : Update(h)
    \/ \E u \in User, w \in Workspace : IssueCode(u, w) \/ RevokeMember(w, u) \/ AdmitMember(w, u)
    \/ \E k \in Code : ExpireCode(k)
    \/ \E s \in selection : ExpireSelection(s)
    \/ \E w \in Workspace : DeactivateWorkspace(w) \/ RestoreWorkspace(w)
    \/ \E u \in User, owned \in SUBSET Workspace : CloseAccount(u, owned)

Spec == Init /\ [][Next]_vars

-----------------------------------------------------------------------------
\* A chat is linked to a workspace only for a member who may act there: every
\* way to lose access, and a deactivation, ends the binding, also one that a
\* switch is about to activate.  Only for a closed account may a switch in
\* flight leave a binding behind; no update acts by it.
BindingsOfMembers ==
    \A w \in Workspace, c \in Chat :
        binding[w][c].active /\ binding[w][c].user \in account => Usable(binding[w][c].user, w)

\* So does every open choice: what was offered to a member cannot be used by
\* one who was removed, or was removed and admitted again.
SelectionsOfMembers ==
    \A s \in selection : s.user \in account => Usable(s.user, s.workspace)

\* A user has one live code at most, and a code links once, however many
\* updates bring it.
OneUsableCode ==
    /\ \A j, k \in Code : code[j].live /\ code[k].live /\ code[j].user = code[k].user => j = k
    /\ \A k \in Code, c, d \in Chat :
          redeemed[k][c] <= 1 /\ (redeemed[k][c] + redeemed[k][d] > 1 => c = d)

\* A chat with two active bindings, which the bot then treats as not linked,
\* has redeemed a code for each: no switch, revocation or repeated update
\* makes it ambiguous.
AmbiguousOnlyByTwoCodes ==
    \A c \in Chat :
        Cardinality(ActiveBindings(c)) <= Cardinality({k \in Code : redeemed[k][c] > 0})

\* A chat begins to act in a workspace by a code of the user it then acts for,
\* or by an update that acted for that user already.
SwitchKeepsUser ==
    [][\A w \in Workspace, c \in Chat :
          LET row == binding'[w][c] IN
          row.active /\ ~binding[w][c].active =>
              \/ \E k \in Code : redeemed'[k][c] # redeemed[k][c] /\ code[k].user = row.user
              \/ \E h \in Handler : At(h, "switching") /\ handler[h].chat = c
                                    /\ handler[h].user = row.user /\ handler[h].target = w]_vars

\* A live code in a message of a chat that is not linked, from a member who may
\* act, links the chat (docs/integrations/CHAT_INTEGRATIONS.md:64); the database
\* never refuses it.
LiveCodeLinks == refused = {}

\* A chat acts for members only: its bindings, the choices it was offered and
\* the codes it may enter end with the membership, the workspace or their use.
Consistent == TypeOK /\ BindingsOfMembers /\ SelectionsOfMembers /\ OneUsableCode
=============================================================================
