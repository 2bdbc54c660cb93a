-------------------------- MODULE WorkspaceAccess --------------------------
(***************************************************************************)
(* Who may act in which workspace: memberships, ownership, invitations,    *)
(* the life cycle of a workspace, the workspace a web session is in, and   *)
(* the closing of an account (features/workspaces, features/users,         *)
(* api/dependencies.py).                                                   *)
(*                                                                         *)
(* A request runs in two steps.  Resolve authenticates the session and     *)
(* reads the membership of its current workspace, without a lock; the      *)
(* command then takes the row lock of that workspace, checks that it is    *)
(* still active, locks what else it needs and commits.  The database       *)
(* session is shared by the two steps and does not expire objects, so the  *)
(* role of the actor in the current workspace, and the current workspace   *)
(* of the session, are those that Resolve read; the filters of a query are *)
(* evaluated by the database and are always fresh.  Commands run under the *)
(* row lock of their workspace from their first read to their commit, so   *)
(* the locked part is one step.  So is the closing of an account: it locks *)
(* the account's row first, and whoever adds a session, a workspace, a     *)
(* membership or an audit event of that user needs the row for its foreign *)
(* key; such a command waits, and is refused or aborted as a deadlock.     *)
(***************************************************************************)
EXTENDS Naturals, FiniteSets

CONSTANTS
    User,           \* accounts with a verified e-mail; it stands for the address too
    Workspace,
    Session,        \* web sessions
    Request,        \* API requests that may be in flight together
    Invitation,
    OfferedRole,    \* the roles an invitation or a role change asks for
    MaxMembers,     \* MAX_WORKSPACE_MEMBERS
    NoUser, NoWorkspace, Idle

Role == {"owner", "admin", "editor", "uploader", "analyst", "viewer"}
Invitable == Role \ {"owner"}
AdminManageable == Invitable \ {"admin"}

ASSUME AccessAssumption ==
    /\ OfferedRole \subseteq Invitable
    /\ MaxMembers \in Nat \ {0}
    /\ NoUser \notin User
    /\ NoWorkspace \notin Workspace

MemberStatus == {"none", "active", "disabled", "removed"}
InvitationStatus == {"free", "pending"}
SessionStatus == {"free", "active"}

VARIABLES
    account,        \* the accounts that are active
    workspace,      \* workspace -> owner_id, is_active and who created it
    member,         \* workspace -> user -> role and status
    invitation,     \* an accepted, revoked or expired row is "free": nothing reads it again
    session,        \* so is a revoked or expired row
    request         \* request -> what Resolve read for it

vars == <<account, workspace, member, invitation, session, request>>

WorkspaceRecord ==
    [owner : User \cup {NoUser}, founder : User \cup {NoUser}, active : BOOLEAN]
MemberRecord == [role : Role, status : MemberStatus]
InvitationRecord ==
    [workspace : Workspace \cup {NoWorkspace}, email : User \cup {NoUser},
     role : Role, status : InvitationStatus, overdue : BOOLEAN]
SessionRecord ==
    [user : User \cup {NoUser}, current : Workspace \cup {NoWorkspace},
     status : SessionStatus]
RequestRecord == [session : Session, user : User, current : Workspace, role : Role]

\* Every record has the type of its columns.
TypeOK ==
    /\ account \subseteq User
    /\ workspace \in [Workspace -> WorkspaceRecord]
    /\ member \in [Workspace -> [User -> MemberRecord]]
    /\ invitation \in [Invitation -> InvitationRecord]
    /\ session \in [Session -> SessionRecord]
    /\ request \in [Request -> RequestRecord \cup {Idle}]

NoInvitation ==
    [workspace |-> NoWorkspace, email |-> NoUser, role |-> "viewer",
     status |-> "free", overdue |-> FALSE]

NoSession == [user |-> NoUser, current |-> NoWorkspace, status |-> "free"]

\* A session that is revoked or expired: nothing reads the row again.
Ended == NoSession

Init ==
    /\ account = User
    /\ workspace = [w \in Workspace |->
                       [owner |-> NoUser, founder |-> NoUser, active |-> FALSE]]
    /\ member = [w \in Workspace |-> [u \in User |-> [role |-> "viewer", status |-> "none"]]]
    /\ invitation = [i \in Invitation |-> NoInvitation]
    /\ session = [s \in Session |-> NoSession]
    /\ request = [q \in Request |-> Idle]

-----------------------------------------------------------------------------
(* What the queries of the repositories return.                            *)

ActiveMember(w, u) == member[w][u].status = "active"

\* get_active_membership: an active membership of an active workspace.
Usable(u, w) == w \in Workspace /\ workspace[w].active /\ ActiveMember(w, u)

Usables(u) == {w \in Workspace : Usable(u, w)}

\* get_first_active_membership_for_user_excluding; the order is not modelled.
Fallbacks(u, w) == Usables(u) \ {w}

\* count_supported_members
Supported(w) == {u \in User : member[w][u].status \in {"active", "disabled"}}

HasPlace(w) == Cardinality(Supported(w)) < MaxMembers

LiveSessions(u) == {s \in Session : session[s].status = "active" /\ session[s].user = u}

\* move_active_workspace_sessions
Moved(s, u, from, to) ==
    IF s \in LiveSessions(u) /\ session[s].current = from
    THEN [session[s] EXCEPT !.current = to] ELSE session[s]

PendingInto(w) == {i \in Invitation : invitation[i].status = "pending" /\ invitation[i].workspace = w}

\* revoke_pending_invitations of the workspaces ws, overdue ones included
PendingRevoked(ws) ==
    [i \in Invitation |->
        IF \E w \in ws : i \in PendingInto(w) THEN NoInvitation ELSE invitation[i]]

\* create_workspace_with_owner_membership
Found(u, w) ==
    /\ workspace[w].owner = NoUser
    /\ workspace' = [workspace EXCEPT ![w] = [owner |-> u, founder |-> u, active |-> TRUE]]
    /\ member' = [member EXCEPT ![w][u] = [role |-> "owner", status |-> "active"]]

\* The workspace a session of u is put into when it has no usable one: one of
\* the user's own, or a new personal workspace when there is none.
FirstOrPersonal(u, w) ==
    \/ w \in Usables(u) /\ UNCHANGED <<workspace, member>>
    \/ Usables(u) = {} /\ Found(u, w)

-----------------------------------------------------------------------------
(* Permissions (features/workspaces/permissions.py); r is the actor's role. *)

Assignable(r) ==
    CASE r = "owner" -> Invitable [] r = "admin" -> AdminManageable [] OTHER -> {}

CanAssign(r, target, role) == target \in Assignable(r) /\ role \in Assignable(r)

CanManage(r, target) ==
    CASE r = "owner" -> TRUE [] r = "admin" -> target \in AdminManageable [] OTHER -> FALSE

FinancialWriters == {"owner", "admin", "editor"}

-----------------------------------------------------------------------------
(* Sessions.                                                               *)

\* login: the session is created in the first usable workspace.
SignIn(u, s, w) ==
    /\ u \in account
    /\ session[s].status = "free"
    /\ \A q \in Request : request[q] # Idle => request[q].session # s
    /\ FirstOrPersonal(u, w)
    /\ session' = [session EXCEPT ![s] = [user |-> u, current |-> w, status |-> "active"]]
    /\ UNCHANGED <<account, invitation, request>>

\* logout, expiry, a session ended from another one, a session of a closed account.
EndSession(s) ==
    /\ session[s].status = "active"
    /\ session' = [session EXCEPT ![s] = Ended]
    /\ UNCHANGED <<account, workspace, member, invitation, request>>

\* get_api_request_context up to the lock: the current workspace is replaced
\* when it is not usable any more, the membership is read.
Resolve(q, s, w) ==
    LET u == session[s].user IN
    /\ request[q] = Idle
    /\ session[s].status = "active"
    /\ u \in account
    /\ IF Usable(u, session[s].current)
       THEN w = session[s].current /\ UNCHANGED <<workspace, member>>
       ELSE FirstOrPersonal(u, w)
    /\ session' = [session EXCEPT ![s].current = w]
    /\ request' = [request EXCEPT ![q] =
                      [session |-> s, user |-> u, current |-> w, role |-> member'[w][u].role]]
    /\ UNCHANGED <<account, invitation>>

\* A command is refused, or its process dies before the commit.
Refuse(q) ==
    /\ request[q] # Idle
    /\ request' = [request EXCEPT ![q] = Idle]
    /\ UNCHANGED <<account, workspace, member, invitation, session>>

-----------------------------------------------------------------------------
(* The commands of a resolved request q on workspace w.                    *)

Actor(q) == request[q].user
Here(q) == request[q].current

\* The role the command sees: the one Resolve read, in the current workspace.
SeenRole(q, w) == IF w = Here(q) THEN request[q].role ELSE member[w][Actor(q)].role

\* get_active_session_for_update
Live(q) == session[request[q].session].status = "active"

\* The lock and the check of get_api_request_context.
Locked(q) ==
    /\ request[q] # Idle
    /\ workspace[Here(q)].active

\* The locks of a command on w: the workspace and the actor's active membership.
LockedMember(q, w) == Locked(q) /\ ActiveMember(w, Actor(q))

Done(q) ==
    /\ request' = [request EXCEPT ![q] = Idle]
    /\ UNCHANGED account

\* Any financial command: require_api_financial_write_context.
FinancialWrite(q) ==
    /\ Locked(q)
    /\ request[q].role \in FinancialWriters
    /\ Done(q)
    /\ UNCHANGED <<workspace, member, invitation, session>>

\* update_role
UpdateRole(q, w, t, role) ==
    /\ LockedMember(q, w)
    /\ workspace[w].active
    /\ t # Actor(q)
    /\ member[w][t].status # "none"
    /\ CanAssign(SeenRole(q, w), member[w][t].role, role)
    /\ member' = [member EXCEPT ![w][t].role = role]
    /\ Done(q)
    /\ UNCHANGED <<workspace, invitation, session>>

DisableMember(q, w, t) ==
    /\ LockedMember(q, w)
    /\ workspace[w].active
    /\ t # Actor(q)
    /\ member[w][t].role # "owner"
    /\ ActiveMember(w, t)
    /\ CanManage(SeenRole(q, w), member[w][t].role)
    /\ member' = [member EXCEPT ![w][t].status = "disabled"]
    /\ \E to \in IF Fallbacks(t, w) = {} THEN {NoWorkspace} ELSE Fallbacks(t, w) :
          session' = [s \in Session |-> Moved(s, t, w, to)]
    /\ Done(q)
    /\ UNCHANGED <<workspace, invitation>>

\* The account of the member is not looked at.
ReactivateMember(q, w, t) ==
    /\ LockedMember(q, w)
    /\ workspace[w].active
    /\ member[w][t].role # "owner"
    /\ member[w][t].status = "disabled"
    /\ CanManage(SeenRole(q, w), member[w][t].role)
    /\ member' = [member EXCEPT ![w][t].status = "active"]
    /\ Done(q)
    /\ UNCHANGED <<workspace, invitation, session>>

\* _require_authoritative_owner, and the directory read before the commit.
AuthoritativeOwner(q, w) ==
    /\ workspace[w].active
    /\ workspace[w].owner = Actor(q)
    /\ SeenRole(q, w) = "owner"
    /\ ActiveMember(w, Actor(q))
    /\ \A u \in User \ {Actor(q)} : ~(member[w][u].role = "owner" /\ ActiveMember(w, u))

\* Mutant: the old owner keeps the role.
TransferOwnershipShared(q, w, t) ==
    /\ Locked(q)
    /\ Live(q)
    /\ AuthoritativeOwner(q, w)
    /\ t # Actor(q)
    /\ ActiveMember(w, t)
    /\ member[w][t].role # "owner"
    /\ workspace' = [workspace EXCEPT ![w].owner = t]
    /\ member' = [member EXCEPT ![w][t].role = "owner"]
    /\ Done(q)
    /\ UNCHANGED <<invitation, session>>

\* transfer: the account of the new owner is not looked at.
TransferOwnership(q, w, t) ==
    /\ Locked(q)
    /\ Live(q)
    /\ AuthoritativeOwner(q, w)
    /\ t # Actor(q)
    /\ ActiveMember(w, t)
    /\ member[w][t].role # "owner"
    /\ workspace' = [workspace EXCEPT ![w].owner = t]
    /\ member' = [member EXCEPT ![w][Actor(q)].role = "admin", ![w][t].role = "owner"]
    /\ Done(q)
    /\ UNCHANGED <<invitation, session>>

\* leave: only the sessions of a user who leaves the current workspace are moved.
Leave(q, w) ==
    /\ LockedMember(q, w)
    /\ Live(q)
    /\ workspace[w].active
    /\ SeenRole(q, w) # "owner"
    /\ workspace[w].owner # Actor(q)
    /\ IF w = Here(q)
       THEN \E to \in Fallbacks(Actor(q), w) :
               session' = [s \in Session |-> Moved(s, Actor(q), w, to)]
       ELSE Usable(Actor(q), Here(q)) /\ UNCHANGED session
    /\ member' = [member EXCEPT ![w][Actor(q)].status = "removed"]
    /\ Done(q)
    /\ UNCHANGED <<workspace, invitation>>

\* The session is put into w.  The ORM writes nothing when the value it read is w.
Select(q, w) ==
    IF w = Here(q) THEN UNCHANGED session
    ELSE session' = [session EXCEPT ![request[q].session].current = w]

\* WorkspaceCreator.create under a new key.
CreateWorkspace(q, w) ==
    /\ Locked(q)
    /\ Live(q)
    /\ Found(Actor(q), w)
    /\ Select(q, w)
    /\ Done(q)
    /\ UNCHANGED invitation

\* WorkspaceCreator.create under a key that has created w.
ReplayCreation(q, w) ==
    /\ Locked(q)
    /\ Live(q)
    /\ workspace[w].founder = Actor(q)
    /\ workspace[w].owner = Actor(q)
    /\ Usable(Actor(q), w)
    /\ Select(q, w)
    /\ Done(q)
    /\ UNCHANGED <<workspace, member, invitation>>

\* Mutant: any active workspace will do.
SwitchAnywhere(q, w) ==
    /\ Locked(q)
    /\ Live(q)
    /\ workspace[w].active
    /\ Select(q, w)
    /\ Done(q)
    /\ UNCHANGED <<workspace, member, invitation>>

\* WorkspaceSwitcher.switch
SwitchWorkspace(q, w) ==
    /\ Locked(q)
    /\ Live(q)
    /\ Usable(Actor(q), w)
    /\ Select(q, w)
    /\ Done(q)
    /\ UNCHANGED <<workspace, member, invitation>>

\* WorkspaceLifecycleService._locked_authority
OwnerAuthority(q, w) ==
    /\ LockedMember(q, w)
    /\ SeenRole(q, w) = "owner"
    /\ workspace[w].owner = Actor(q)
    /\ Live(q)

\* The users whose live sessions are in w.
Affected(w) == {u \in User : \E s \in LiveSessions(u) : session[s].current = w}

DeactivateWorkspace(q, w) ==
    /\ OwnerAuthority(q, w)
    /\ workspace[w].active
    /\ IF w = Here(q) THEN Actor(q) \in Affected(w) ELSE Usable(Actor(q), Here(q))
    /\ \E to \in [Affected(w) -> Workspace] :
          /\ \A u \in Affected(w) : to[u] \in Fallbacks(u, w)
          /\ session' = [s \in Session |->
                IF session[s].user \in Affected(w)
                THEN Moved(s, session[s].user, w, to[session[s].user]) ELSE session[s]]
    /\ workspace' = [workspace EXCEPT ![w].active = FALSE]
    /\ invitation' = PendingRevoked({w})
    /\ Done(q)
    /\ UNCHANGED member

RestoreWorkspace(q, w) ==
    /\ OwnerAuthority(q, w)
    /\ ~workspace[w].active
    /\ Usable(Actor(q), Here(q))
    /\ workspace' = [workspace EXCEPT ![w].active = TRUE]
    /\ Done(q)
    /\ UNCHANGED <<member, invitation, session>>

-----------------------------------------------------------------------------
(* Invitations.                                                            *)

\* WorkspaceInvitationService._locked_actor and _require_role
MayInvite(q, w, role) ==
    /\ LockedMember(q, w)
    /\ workspace[w].active
    /\ role \in Assignable(SeenRole(q, w))

\* expire_pending_invitations_for_email
OverdueExpired(w, e) ==
    [i \in Invitation |->
        IF i \in PendingInto(w) /\ invitation[i].email = e /\ invitation[i].overdue
        THEN NoInvitation ELSE invitation[i]]

\* Mutant: only members are looked for.
UninvitedByMember(w, e) == e \notin Supported(w)

\* get_pending_invitation_for_email, after the overdue ones were expired
Uninvited(w, e) ==
    \A j \in PendingInto(w) : invitation[j].email = e => invitation[j].overdue

CreateInvitation(q, w, i, e, role) ==
    /\ MayInvite(q, w, role)
    /\ invitation[i].status = "free"
    /\ Uninvited(w, e)
    /\ e \notin Supported(w)
    /\ HasPlace(w)
    /\ invitation' = [OverdueExpired(w, e) EXCEPT ![i] =
                         [workspace |-> w, email |-> e, role |-> role,
                          status |-> "pending", overdue |-> FALSE]]
    /\ Done(q)
    /\ UNCHANGED <<workspace, member, session>>

\* INVITATION_TTL has passed; nothing is written.
InvitationOverdue(i) ==
    /\ invitation[i].status = "pending"
    /\ ~invitation[i].overdue
    /\ invitation' = [invitation EXCEPT ![i].overdue = TRUE]
    /\ UNCHANGED <<account, workspace, member, session, request>>

RevokeInvitation(q, i) ==
    LET w == invitation[i].workspace IN
    /\ invitation[i].status = "pending"
    /\ ~invitation[i].overdue
    /\ MayInvite(q, w, invitation[i].role)
    /\ invitation' = [invitation EXCEPT ![i] = NoInvitation]
    /\ Done(q)
    /\ UNCHANGED <<workspace, member, session>>

\* Mutant: the expiry is not looked at.
AcceptableForEver(i, u) ==
    /\ invitation[i].status = "pending"
    /\ invitation[i].email = u

\* The checks of the invitation that a token names: status, expiry, address.
Acceptable(i, u) ==
    /\ invitation[i].status = "pending"
    /\ ~invitation[i].overdue
    /\ invitation[i].email = u

\* accept, by the session s of the invited user; it needs no current workspace.
AcceptInvitation(s, i) ==
    LET w == invitation[i].workspace
        u == session[s].user IN
    /\ session[s].status = "active"
    /\ u \in account
    /\ Acceptable(i, u)
    /\ workspace[w].active
    /\ member[w][u].status \in {"none", "removed"}
    /\ HasPlace(w)
    /\ member' = [member EXCEPT ![w][u] = [role |-> invitation[i].role, status |-> "active"]]
    /\ invitation' = [invitation EXCEPT ![i] = NoInvitation]
    /\ session' = [session EXCEPT ![s].current = w]
    /\ UNCHANGED <<account, workspace, request>>

-----------------------------------------------------------------------------
(* Closing an account (features/users/account_deactivation.py).            *)

Owned(u) == {w \in Workspace : workspace[w].owner = u /\ workspace[w].active}

\* deactivate: refused while a workspace of the account has other active members.
CloseAccount(u) ==
    /\ u \in account
    /\ \A w \in Owned(u) : \A v \in User \ {u} : ~ActiveMember(w, v)
    /\ account' = account \ {u}
    /\ workspace' = [w \in Workspace |->
          [workspace[w] EXCEPT !.active = @ /\ w \notin Owned(u)]]
    /\ invitation' = PendingRevoked(Owned(u))
    /\ member' = [w \in Workspace |->
          IF ActiveMember(w, u) THEN [member[w] EXCEPT ![u].status = "disabled"] ELSE member[w]]
    /\ session' = [s \in Session |->
          IF s \in LiveSessions(u) THEN Ended ELSE session[s]]
    /\ UNCHANGED request

-----------------------------------------------------------------------------
SessionStep ==
    \/ \E u \in User, s \in Session, w \in Workspace : SignIn(u, s, w)
    \/ \E s \in Session : EndSession(s)
    \/ \E q \in Request, s \in Session, w \in Workspace : Resolve(q, s, w)

MemberCommand(q, w) ==
    \/ \E t \in User, role \in OfferedRole : UpdateRole(q, w, t, role)
    \/ \E t \in User : DisableMember(q, w, t)
    \/ \E t \in User : ReactivateMember(q, w, t)
    \/ \E t \in User : TransferOwnership(q, w, t)
    \/ Leave(q, w)

WorkspaceCommand(q, w) ==
    \/ CreateWorkspace(q, w)
    \/ ReplayCreation(q, w)
    \/ SwitchWorkspace(q, w)
    \/ DeactivateWorkspace(q, w)
    \/ RestoreWorkspace(q, w)

InvitationStep ==
    \/ \E q \in Request, w \in Workspace, i \in Invitation, e \in User, role \in OfferedRole :
          CreateInvitation(q, w, i, e, role)
    \/ \E q \in Request, i \in Invitation : RevokeInvitation(q, i)
    \/ \E i \in Invitation : InvitationOverdue(i)
    \/ \E s \in Session, i \in Invitation : AcceptInvitation(s, i)

Next ==
    \/ SessionStep
    \/ \E q \in Request : FinancialWrite(q) \/ Refuse(q)
    \/ \E q \in Request, w \in Workspace : MemberCommand(q, w) \/ WorkspaceCommand(q, w)
    \/ InvitationStep
    \/ \E u \in User : CloseAccount(u)

Spec == Init /\ [][Next]_vars

-----------------------------------------------------------------------------
(* Properties.                                                             *)

Owners(w) == {u \in User : member[w][u].role = "owner"}

\* A workspace has exactly one member with the role of owner, the one its row
\* names; as long as that user's account is open the membership is active.
\* Transfer, leaving, role changes, disabling and closing all touch one half
\* of this.
OneOwner ==
    \A w \in Workspace :
        IF workspace[w].owner = NoUser THEN Owners(w) = {}
        ELSE /\ Owners(w) = {workspace[w].owner}
             /\ workspace[w].owner \in account => ActiveMember(w, workspace[w].owner)

\* No invitation can still be accepted into a workspace that is inactive, so
\* none comes back to life when the workspace is restored.
InvitationsEndWithWorkspace ==
    \A i \in Invitation :
        invitation[i].status = "pending" => workspace[invitation[i].workspace].active

\* An address has at most one invitation into a workspace that can be accepted.
OneOpenInvitation ==
    \A i, j \in Invitation :
        LET open(k) == invitation[k].status = "pending" /\ ~invitation[k].overdue IN
        /\ open(i) /\ open(j)
        /\ invitation[i].workspace = invitation[j].workspace
        /\ invitation[i].email = invitation[j].email
        => i = j

\* Nobody gets into a workspace, or back into one that he left, but by using up
\* an open invitation sent to the own address or by creating the workspace;
\* access that was disabled is given back by another member.
AdmittedByInvitation ==
    [][\A w \in Workspace, u \in User :
          ActiveMember(w, u)' /\ ~ActiveMember(w, u) =>
              \/ workspace[w].founder # u /\ workspace'[w].founder = u
              \/ \E i \in PendingInto(w) :
                    /\ invitation[i].email = u
                    /\ ~invitation[i].overdue
                    /\ invitation'[i].status = "free"
                    /\ member[w][u].status # "disabled"
                    /\ member'[w][u].role = invitation[i].role
              \/ /\ member[w][u].status = "disabled"
                 /\ \E v \in User \ {u} : ActiveMember(w, v)]_vars

\* A session, and a request under way, are only ever in a workspace whose
\* member the user is or was.
SessionAmongOwn ==
    /\ \A s \in Session :
          session[s].current # NoWorkspace =>
              member[session[s].current][session[s].user].status # "none"
    /\ \A q \in Request : request[q] # Idle => member[Here(q)][Actor(q)].status # "none"

\* Invitations as they stand: one that can be accepted to an address and a
\* workspace, and none into a workspace that is inactive.
Consistent == TypeOK /\ OneOpenInvitation /\ InvitationsEndWithWorkspace
=============================================================================
