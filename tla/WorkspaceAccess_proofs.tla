----------------------- MODULE WorkspaceAccess_proofs -----------------------
(***************************************************************************)
(* Ownership, membership, invitations and the workspaces of sessions stay  *)
(* in agreement for any number of users, workspaces, sessions, requests    *)
(* and invitations, whatever comes between what a request reads and what   *)
(* its command does.                                                       *)
(***************************************************************************)
EXTENDS WorkspaceAccess, TLAPS

\* OneOwner, member by member.
OwnersKnown ==
  \A w \in Workspace :
    /\ \A u \in User : member[w][u].role = "owner" <=> u = workspace[w].owner
    /\ workspace[w].owner \in account => ActiveMember(w, workspace[w].owner)

\* A workspace nobody has owned is one nobody has made.
FoundedByOwner ==
  \A w \in Workspace : workspace[w].owner = NoUser => workspace[w].founder = NoUser

MembersOK ==
  /\ account \subseteq User
  /\ workspace \in [Workspace -> WorkspaceRecord]
  /\ member \in [Workspace -> [User -> MemberRecord]]
  /\ OwnersKnown /\ FoundedByOwner

\* A session that has ended is in no workspace.
SessionsOwned ==
  \A s \in Session :
    /\ session[s].current # NoWorkspace => session[s].status = "active"
    /\ session[s].status = "active" => session[s].user \in User

\* The session of a request stays that of the user it was resolved for.
RequestsOwn ==
  \A q \in Request :
    request[q] # Idle /\ session[request[q].session].status = "active" =>
      session[request[q].session].user = request[q].user

SessionsOK ==
  /\ session \in [Session -> SessionRecord]
  /\ request \in [Request -> RequestRecord \cup {Idle}]
  /\ SessionsOwned /\ RequestsOwn /\ SessionAmongOwn

\* Nobody is invited to be an owner.
Offers ==
  \A i \in Invitation :
    invitation[i].status = "pending" =>
      invitation[i].workspace \in Workspace /\ invitation[i].role # "owner"

InvitationsOK ==
  /\ invitation \in [Invitation -> InvitationRecord]
  /\ Offers /\ OneOpenInvitation /\ InvitationsEndWithWorkspace

IInv == MembersOK /\ SessionsOK /\ InvitationsOK

-----------------------------------------------------------------------------
LEMMA InitInvariant == Init => IInv
<1> SUFFICES ASSUME Init PROVE IInv
  OBVIOUS
<1>1. MembersOK
  BY AccessAssumption
     DEF Init, MembersOK, WorkspaceRecord, MemberRecord, Role, MemberStatus, OwnersKnown,
         FoundedByOwner, ActiveMember
<1>2. SessionsOK
  BY DEF Init, SessionsOK, NoSession, SessionRecord, SessionStatus, SessionsOwned,
         RequestsOwn, SessionAmongOwn
<1>3. InvitationsOK
  BY DEF Init, InvitationsOK, NoInvitation, InvitationRecord, InvitationStatus, Role,
         Offers, OneOpenInvitation, InvitationsEndWithWorkspace
<1> QED
  BY <1>1, <1>2, <1>3 DEF IInv

-----------------------------------------------------------------------------
(* Members.                                                                *)

\* No membership is forgotten.
Kept ==
  \A w \in Workspace, u \in User :
    member[w][u].status # "none" => member'[w][u].status # "none"

\* No workspace is deactivated.
NoneDeactivated ==
  \A w \in Workspace : workspace[w].active => workspace'[w].active

LEMMA SameMembers ==
  ASSUME MembersOK, UNCHANGED <<account, workspace, member>>
  PROVE  MembersOK' /\ Kept /\ NoneDeactivated
BY DEF MembersOK, OwnersKnown, FoundedByOwner, ActiveMember, Kept, NoneDeactivated

\* A new workspace has its founder for an owner.
LEMMA FoundMembers ==
  ASSUME MembersOK, NEW u \in User, NEW w \in Workspace, Found(u, w), UNCHANGED account
  PROVE  /\ MembersOK' /\ Kept /\ NoneDeactivated
         /\ member'[w][u] = [role |-> "owner", status |-> "active"]
<1> DEFINE row == [owner |-> u, founder |-> u, active |-> TRUE]
           new == [role |-> "owner", status |-> "active"]
<1>1. row \in WorkspaceRecord /\ new \in MemberRecord
  BY DEF WorkspaceRecord, MemberRecord, Role, MemberStatus
<1>2. /\ workspace' \in [Workspace -> WorkspaceRecord]
      /\ workspace'[w] = row /\ \A x \in Workspace \ {w} : workspace'[x] = workspace[x]
  BY <1>1 DEF Found, MembersOK
<1>3. /\ member' \in [Workspace -> [User -> MemberRecord]]
      /\ member'[w][u] = new
      /\ \A x \in Workspace, v \in User : x # w \/ v # u => member'[x][v] = member[x][v]
  BY <1>1 DEF Found, MembersOK
<1>4. \A v \in User : member[w][v].role # "owner"
  BY AccessAssumption DEF Found, MembersOK, OwnersKnown
<1>5. OwnersKnown'
  <2>1. \A v \in User : member'[w][v].role = "owner" <=> v = workspace'[w].owner
    BY <1>2, <1>3, <1>4
  <2>2. ActiveMember(w, u)'
    BY <1>3 DEF ActiveMember
  <2>3. ASSUME NEW x \in Workspace \ {w}
        PROVE  /\ \A v \in User : member'[x][v].role = "owner" <=> v = workspace'[x].owner
               /\ workspace'[x].owner \in account' => member'[x][workspace'[x].owner].status = "active"
    <3>1. workspace'[x] = workspace[x] /\ \A v \in User : member'[x][v] = member[x][v]
      BY <1>2, <1>3
    <3>2. /\ \A v \in User : member[x][v].role = "owner" <=> v = workspace[x].owner
          /\ workspace[x].owner \in account =>
               workspace[x].owner \in User /\ ActiveMember(x, workspace[x].owner)
      BY DEF MembersOK, OwnersKnown
    <3> QED
      BY <3>1, <3>2 DEF ActiveMember
  <2>4. workspace'[w].owner = u
    BY <1>2
  <2>5. ASSUME NEW x \in Workspace
        PROVE  /\ \A v \in User : member'[x][v].role = "owner" <=> v = workspace'[x].owner
               /\ workspace'[x].owner \in account' => member'[x][workspace'[x].owner].status = "active"
    <3>1. CASE x = w
      BY <2>1, <2>2, <2>4, <3>1 DEF ActiveMember
    <3> QED
      BY <2>3, <3>1
  <2> QED
    BY <2>5 DEF OwnersKnown, ActiveMember
<1>6. FoundedByOwner'
  BY <1>2, AccessAssumption DEF MembersOK, FoundedByOwner
<1>7. Kept /\ NoneDeactivated
  BY <1>2, <1>3 DEF Kept, NoneDeactivated
<1> QED
  BY <1>2, <1>3, <1>5, <1>6, <1>7 DEF MembersOK

\* One membership changes that is not, and does not become, the owner's.
LEMMA OneMember ==
  ASSUME MembersOK, NEW w \in Workspace, NEW t \in User, NEW new \in MemberRecord,
         member' = [member EXCEPT ![w][t] = new], UNCHANGED <<account, workspace>>,
         member[w][t].role # "owner", new.role # "owner", new.status # "none"
  PROVE  MembersOK' /\ Kept /\ NoneDeactivated
<1>1. /\ member' \in [Workspace -> [User -> MemberRecord]]
      /\ member'[w][t] = new
      /\ \A x \in Workspace, v \in User : x # w \/ v # t => member'[x][v] = member[x][v]
  BY DEF MembersOK
<1>2. workspace[w].owner # t
  BY DEF MembersOK, OwnersKnown
<1>3. OwnersKnown'
  <2>1. ASSUME NEW x \in Workspace, NEW v \in User
        PROVE  member'[x][v].role = "owner" <=> v = workspace[x].owner
    BY <1>1, <1>2 DEF MembersOK, OwnersKnown
  <2>2. ASSUME NEW x \in Workspace, workspace[x].owner \in account
        PROVE  ActiveMember(x, workspace[x].owner)'
    <3>1. workspace[x].owner \in User /\ ActiveMember(x, workspace[x].owner)
      BY <2>2 DEF MembersOK, OwnersKnown
    <3>2. x # w \/ workspace[x].owner # t
      BY <1>2
    <3> QED
      BY <1>1, <3>1, <3>2 DEF ActiveMember
  <2> QED
    BY <2>1, <2>2 DEF OwnersKnown
<1> QED
  BY <1>1, <1>3 DEF MembersOK, FoundedByOwner, Kept, NoneDeactivated

\* A workspace changes hands.
LEMMA Transferred ==
  ASSUME MembersOK, NEW w \in Workspace, NEW u \in User, NEW t \in User, u # t,
         workspace[w].owner = u, ActiveMember(w, t),
         workspace' = [workspace EXCEPT ![w].owner = t],
         member' = [member EXCEPT ![w][u].role = "admin", ![w][t].role = "owner"],
         UNCHANGED account
  PROVE  /\ MembersOK' /\ Kept /\ NoneDeactivated
         /\ \A x \in Workspace, v \in User : member'[x][v].status = member[x][v].status
<1> DEFINE old == [member[w][u] EXCEPT !.role = "admin"]
           new == [member[w][t] EXCEPT !.role = "owner"]
<1>1. member[w][u] \in MemberRecord /\ member[w][t] \in MemberRecord
  BY DEF MembersOK
<1>2. /\ old \in MemberRecord /\ old.status = member[w][u].status /\ old.role = "admin"
      /\ new \in MemberRecord /\ new.status = member[w][t].status /\ new.role = "owner"
  BY <1>1 DEF MemberRecord, Role
<1>3. /\ member' \in [Workspace -> [User -> MemberRecord]]
      /\ member'[w][u] = old /\ member'[w][t] = new
      /\ \A x \in Workspace, v \in User : x # w \/ v \notin {u, t} => member'[x][v] = member[x][v]
  BY <1>2 DEF MembersOK
<1> HIDE DEF old, new
<1>4. workspace[w] \in WorkspaceRecord
  BY DEF MembersOK
<1>5. /\ [workspace[w] EXCEPT !.owner = t] \in WorkspaceRecord
      /\ [workspace[w] EXCEPT !.owner = t].owner = t
      /\ [workspace[w] EXCEPT !.owner = t].active = workspace[w].active
  BY <1>4 DEF WorkspaceRecord
<1>6. /\ workspace' \in [Workspace -> WorkspaceRecord]
      /\ workspace'[w] = [workspace[w] EXCEPT !.owner = t]
      /\ \A x \in Workspace \ {w} : workspace'[x] = workspace[x]
  BY <1>5 DEF MembersOK
<1>7. ASSUME NEW x \in Workspace, NEW v \in User
      PROVE  member'[x][v].status = member[x][v].status
  <2>1. CASE x = w /\ v = u
    BY <1>2, <1>3, <2>1
  <2>2. CASE x = w /\ v = t
    BY <1>2, <1>3, <2>2
  <2>3. CASE x # w \/ v \notin {u, t}
    BY <1>3, <2>3
  <2> QED
    BY <2>1, <2>2, <2>3
<1>8. OwnersKnown'
  <2>1. ASSUME NEW v \in User PROVE member'[w][v].role = "owner" <=> v = workspace'[w].owner
    <3>1. member[w][v].role = "owner" <=> v = u
      BY DEF MembersOK, OwnersKnown
    <3> QED
      BY <1>2, <1>3, <1>5, <1>6, <3>1
  <2>2. ASSUME NEW x \in Workspace \ {w}, NEW v \in User
        PROVE  member'[x][v].role = "owner" <=> v = workspace'[x].owner
    BY <1>3, <1>6 DEF MembersOK, OwnersKnown
  <2>3. ActiveMember(w, t)' /\ workspace'[w].owner = t
    BY <1>5, <1>6, <1>7 DEF ActiveMember
  <2>4. ASSUME NEW x \in Workspace \ {w}, workspace'[x].owner \in account'
        PROVE  member'[x][workspace'[x].owner].status = "active"
    <3>1. workspace'[x].owner = workspace[x].owner
      BY <1>6
    <3>2. workspace[x].owner \in User /\ ActiveMember(x, workspace[x].owner)
      BY <2>4, <3>1 DEF MembersOK, OwnersKnown
    <3>3. member'[x][workspace[x].owner].status = member[x][workspace[x].owner].status
      BY <1>7, <3>2
    <3> QED
      BY <3>1, <3>2, <3>3 DEF ActiveMember
  <2>5. ASSUME NEW x \in Workspace
        PROVE  /\ \A v \in User : member'[x][v].role = "owner" <=> v = workspace'[x].owner
               /\ workspace'[x].owner \in account' => member'[x][workspace'[x].owner].status = "active"
    <3>1. CASE x = w
      BY <2>1, <2>3, <3>1 DEF ActiveMember
    <3> QED
      BY <2>2, <2>4, <3>1
  <2> QED
    BY <2>5 DEF OwnersKnown, ActiveMember
<1>9. FoundedByOwner' /\ NoneDeactivated
  BY <1>5, <1>6, AccessAssumption DEF MembersOK, FoundedByOwner, NoneDeactivated
<1> QED
  BY <1>3, <1>6, <1>7, <1>8, <1>9 DEF MembersOK, Kept

\* Workspaces are deactivated or restored.
LEMMA ActiveChanged ==
  ASSUME MembersOK, workspace' \in [Workspace -> WorkspaceRecord],
         \A w \in Workspace : /\ workspace'[w].owner = workspace[w].owner
                              /\ workspace'[w].founder = workspace[w].founder,
         UNCHANGED <<account, member>>
  PROVE  MembersOK' /\ Kept
BY DEF MembersOK, OwnersKnown, FoundedByOwner, ActiveMember, Kept

-----------------------------------------------------------------------------
(* Sessions and requests.                                                  *)

\* A session ends, or goes on or begins in a workspace of its user.
SessionEffect(s) ==
  \/ session'[s] = session[s]
  \/ session'[s] = NoSession
  \/ /\ session'[s] \in SessionRecord
     /\ session'[s].status = "active" /\ session'[s].user \in User
     /\ session'[s].current # NoWorkspace =>
          member'[session'[s].current][session'[s].user].status # "none"
     /\ \/ session[s].status = "active" /\ session'[s].user = session[s].user
        \/ \A q \in Request : request[q] # Idle => request[q].session # s

\* A request ends, or begins with what was read for it.
RequestEffect(q) ==
  \/ request'[q] = request[q]
  \/ request'[q] = Idle
  \/ /\ request'[q] \in RequestRecord
     /\ session'[request'[q].session].user = request'[q].user
     /\ member'[request'[q].current][request'[q].user].status # "none"

\* Functions on the sessions and on the requests.
Tables ==
  /\ session' = [s \in Session |-> session'[s]]
  /\ request' = [q \in Request |-> request'[q]]

LEMMA SessionsKeep ==
  ASSUME SessionsOK, Kept, Tables,
         \A s \in Session : SessionEffect(s), \A q \in Request : RequestEffect(q)
  PROVE  SessionsOK'
<1>1. NoSession \in SessionRecord /\ NoSession.status # "active" /\ NoSession.current = NoWorkspace
  BY DEF NoSession, SessionRecord, SessionStatus
<1>2. ASSUME NEW s \in Session
      PROVE  /\ session'[s] \in SessionRecord
             /\ session'[s].current # NoWorkspace => session'[s].status = "active"
             /\ session'[s].status = "active" => session'[s].user \in User
             /\ session'[s].current # NoWorkspace =>
                  member'[session'[s].current][session'[s].user].status # "none"
  <2>1. session[s] \in SessionRecord
    BY DEF SessionsOK
  <2>2. CASE session'[s] = session[s]
    <3>1. /\ session[s].current # NoWorkspace => session[s].status = "active"
          /\ session[s].status = "active" => session[s].user \in User
          /\ session[s].current # NoWorkspace =>
               member[session[s].current][session[s].user].status # "none"
      BY DEF SessionsOK, SessionsOwned, SessionAmongOwn
    <3>2. session[s].current # NoWorkspace => session[s].current \in Workspace
      BY <2>1 DEF SessionRecord
    <3> QED
      BY <2>1, <2>2, <3>1, <3>2 DEF Kept
  <2>3. CASE session'[s] = NoSession
    BY <1>1, <2>3
  <2> QED
    BY <2>2, <2>3 DEF SessionEffect
<1>3. ASSUME NEW q \in Request, request'[q] # Idle
      PROVE  /\ request'[q] \in RequestRecord
             /\ session'[request'[q].session].status = "active" =>
                  session'[request'[q].session].user = request'[q].user
             /\ member'[request'[q].current][request'[q].user].status # "none"
  <2>1. CASE request'[q] = request[q]
    <3>1. request[q] \in RequestRecord /\ request[q] # Idle
      BY <1>3, <2>1 DEF SessionsOK
    <3>2. /\ request[q].session \in Session /\ request[q].user \in User
          /\ request[q].current \in Workspace
      BY <3>1 DEF RequestRecord
    <3>3. member[request[q].current][request[q].user].status # "none"
      BY <3>1 DEF SessionsOK, SessionAmongOwn, Here, Actor
    <3>4. session[request[q].session].status = "active" =>
            session[request[q].session].user = request[q].user
      BY <3>1 DEF SessionsOK, RequestsOwn
    <3>5. session'[request[q].session].status = "active" =>
            session'[request[q].session].user = request[q].user
      BY <1>1, <3>1, <3>2, <3>4 DEF SessionEffect
    <3> QED
      BY <2>1, <3>1, <3>2, <3>3, <3>5 DEF Kept
  <2> QED
    BY <1>3, <2>1 DEF RequestEffect
<1>4. session' \in [Session -> SessionRecord] /\ request' \in [Request -> RequestRecord \cup {Idle}]
  BY <1>2, <1>3 DEF Tables
<1> QED
  BY <1>2, <1>3, <1>4
     DEF SessionsOK, SessionsOwned, RequestsOwn, SessionAmongOwn, Here, Actor

\* A command forgets what was read for it.
LEMMA DoneFacts ==
  ASSUME SessionsOK, NEW q \in Request, request' = [request EXCEPT ![q] = Idle]
  PROVE  /\ request' = [p \in Request |-> request'[p]]
         /\ \A p \in Request : RequestEffect(p)
BY DEF SessionsOK, RequestEffect

LEMMA SameSessions ==
  ASSUME SessionsOK, UNCHANGED session
  PROVE  session' = [s \in Session |-> session'[s]] /\ \A s \in Session : SessionEffect(s)
BY DEF SessionsOK, SessionEffect

LEMMA SameRequests ==
  ASSUME SessionsOK, UNCHANGED request
  PROVE  request' = [q \in Request |-> request'[q]] /\ \A q \in Request : RequestEffect(q)
BY DEF SessionsOK, RequestEffect

\* Who makes a request, and where.
LEMMA ActorFacts ==
  ASSUME IInv, NEW q \in Request, request[q] # Idle
  PROVE  /\ Actor(q) \in User /\ Here(q) \in Workspace /\ request[q].session \in Session
         /\ request[q].role \in Role
         /\ Live(q) => session[request[q].session].user = Actor(q)
<1>1. request[q] \in RequestRecord
  BY DEF IInv, SessionsOK
<1> QED
  BY <1>1 DEF RequestRecord, Actor, Here, Live, IInv, SessionsOK, RequestsOwn

\* A session is put into another workspace of its user.
LEMMA PutFacts ==
  ASSUME IInv, NEW s \in Session, session[s].status = "active",
         NEW to \in Workspace \cup {NoWorkspace},
         session'[s] = [session[s] EXCEPT !.current = to],
         to # NoWorkspace => member'[to][session[s].user].status # "none"
  PROVE  SessionEffect(s)
<1>1. session[s] \in SessionRecord /\ session[s].user \in User
  BY DEF IInv, SessionsOK, SessionsOwned
<1>2. /\ session'[s] \in SessionRecord /\ session'[s].status = "active"
      /\ session'[s].user = session[s].user /\ session'[s].current = to
  BY <1>1 DEF SessionRecord
<1> QED
  BY <1>1, <1>2 DEF SessionEffect

LEMMA SelectFacts ==
  ASSUME IInv, NEW q \in Request, NEW w \in Workspace, request[q] # Idle, Live(q),
         Select(q, w), member'[w][Actor(q)].status # "none"
  PROVE  session' = [s \in Session |-> session'[s]] /\ \A s \in Session : SessionEffect(s)
<1>1. CASE UNCHANGED session
  BY <1>1, SameSessions DEF IInv
<1>2. CASE session' = [session EXCEPT ![request[q].session].current = w]
  <2> DEFINE s == request[q].session
  <2>1. s \in Session /\ session[s].user = Actor(q) /\ session[s].status = "active"
    BY ActorFacts DEF Live
  <2>2. /\ session'[s] = [session[s] EXCEPT !.current = w]
        /\ \A x \in Session \ {s} : session'[x] = session[x]
        /\ session' = [x \in Session |-> session'[x]]
    BY <1>2, <2>1 DEF IInv, SessionsOK
  <2>3. SessionEffect(s)
    BY <2>1, <2>2, PutFacts
  <2> QED
    BY <2>2, <2>3 DEF SessionEffect
<1> QED
  BY <1>1, <1>2 DEF Select

\* The sessions of a user leave a workspace for another of the user's.
LEMMA MovedFacts ==
  ASSUME IInv, NEW s \in Session, NEW u \in User, NEW w,
         NEW to \in Workspace \cup {NoWorkspace}, session'[s] = Moved(s, u, w, to),
         to # NoWorkspace => member'[to][u].status # "none"
  PROVE  SessionEffect(s)
<1>1. CASE s \in LiveSessions(u) /\ session[s].current = w
  <2>1. session[s].status = "active" /\ session[s].user = u
    BY <1>1 DEF LiveSessions
  <2>2. session'[s] = [session[s] EXCEPT !.current = to]
    BY <1>1 DEF Moved
  <2> QED
    BY <2>1, <2>2, PutFacts
<1>2. CASE ~(s \in LiveSessions(u) /\ session[s].current = w)
  BY <1>2 DEF Moved, SessionEffect
<1> QED
  BY <1>1, <1>2

-----------------------------------------------------------------------------
(* Invitations.                                                            *)

\* Invitations end, or get too old.
InvitationEffect(i) ==
  \/ invitation'[i] = invitation[i]
  \/ invitation'[i] = NoInvitation
  \/ invitation'[i] = [invitation[i] EXCEPT !.overdue = TRUE]

LEMMA InvitationsKeep ==
  ASSUME InvitationsOK, invitation' = [i \in Invitation |-> invitation'[i]],
         \A i \in Invitation : InvitationEffect(i),
         \A i \in Invitation :
           invitation'[i].status = "pending" /\ workspace[invitation[i].workspace].active =>
             workspace'[invitation[i].workspace].active
  PROVE  InvitationsOK'
<1>1. NoInvitation \in InvitationRecord /\ NoInvitation.status # "pending"
  BY DEF NoInvitation, InvitationRecord, InvitationStatus, Role
<1>2. ASSUME NEW i \in Invitation
      PROVE  /\ invitation'[i] \in InvitationRecord
             /\ invitation'[i].status = "pending" =>
                  /\ invitation[i].status = "pending"
                  /\ invitation'[i].workspace = invitation[i].workspace
                  /\ invitation'[i].email = invitation[i].email
                  /\ invitation'[i].role = invitation[i].role
                  /\ ~invitation'[i].overdue => ~invitation[i].overdue
  <2>1. invitation[i] \in InvitationRecord
    BY DEF InvitationsOK
  <2>2. CASE invitation'[i] = [invitation[i] EXCEPT !.overdue = TRUE]
    BY <2>1, <2>2 DEF InvitationRecord
  <2> QED
    BY <1>1, <2>1, <2>2 DEF InvitationEffect
<1>3. invitation' \in [Invitation -> InvitationRecord]
  BY <1>2
<1>4. Offers' /\ InvitationsEndWithWorkspace'
  BY <1>2 DEF InvitationsOK, Offers, InvitationsEndWithWorkspace
<1>5. OneOpenInvitation'
  BY <1>2 DEF InvitationsOK, OneOpenInvitation
<1> QED
  BY <1>3, <1>4, <1>5 DEF InvitationsOK

LEMMA SameInvitations ==
  ASSUME InvitationsOK, UNCHANGED invitation, NoneDeactivated
  PROVE  InvitationsOK'
<1>1. /\ invitation' = [i \in Invitation |-> invitation'[i]]
      /\ \A i \in Invitation : InvitationEffect(i)
  BY DEF InvitationsOK, InvitationEffect
<1>2. ASSUME NEW i \in Invitation, invitation'[i].status = "pending"
      PROVE  invitation[i].workspace \in Workspace
  BY <1>2 DEF InvitationsOK, Offers
<1> QED
  BY <1>1, <1>2, InvitationsKeep DEF NoneDeactivated

\* What every step comes to.
LEMMA Together ==
  ASSUME IInv, MembersOK', Kept, Tables, \A s \in Session : SessionEffect(s),
         \A q \in Request : RequestEffect(q), InvitationsOK'
  PROVE  IInv'
BY SessionsKeep DEF IInv

-----------------------------------------------------------------------------
(* Sign-in and requests.                                                   *)

LEMMA FirstOrPersonalFacts ==
  ASSUME MembersOK, NEW u \in User, NEW w \in Workspace, FirstOrPersonal(u, w),
         UNCHANGED account
  PROVE  MembersOK' /\ Kept /\ NoneDeactivated /\ member'[w][u].status = "active"
<1>1. CASE w \in Usables(u) /\ UNCHANGED <<workspace, member>>
  BY <1>1, SameMembers DEF Usables, Usable, ActiveMember
<1>2. CASE Found(u, w)
  BY <1>2, FoundMembers
<1> QED
  BY <1>1, <1>2 DEF FirstOrPersonal

LEMMA SignInInvariant ==
  ASSUME IInv, NEW u \in User, NEW s \in Session, NEW w \in Workspace, SignIn(u, s, w)
  PROVE  IInv'
<1> DEFINE new == [user |-> u, current |-> w, status |-> "active"]
<1>1. MembersOK' /\ Kept /\ NoneDeactivated /\ member'[w][u].status = "active"
  BY FirstOrPersonalFacts DEF SignIn, IInv
<1>2. session' = [session EXCEPT ![s] = new] /\ new \in SessionRecord
  BY DEF SignIn, SessionRecord, SessionStatus
<1>3. SessionEffect(s)
  <2>1. session'[s] = new
    BY <1>2 DEF IInv, SessionsOK
  <2> QED
    BY <1>1, <1>2, <2>1 DEF SessionEffect, SignIn
<1>4. /\ session' = [x \in Session |-> session'[x]]
      /\ \A x \in Session : SessionEffect(x)
  BY <1>2, <1>3 DEF IInv, SessionsOK, SessionEffect
<1>5. InvitationsOK'
  BY <1>1, SameInvitations DEF SignIn, IInv
<1> QED
  BY <1>1, <1>4, <1>5, SameRequests, Together DEF SignIn, IInv, Tables

LEMMA EndSessionInvariant == ASSUME IInv, NEW s \in Session, EndSession(s) PROVE IInv'
<1>1. MembersOK' /\ Kept /\ NoneDeactivated
  BY SameMembers DEF EndSession, IInv
<1>2. /\ session' = [x \in Session |-> session'[x]]
      /\ \A x \in Session : SessionEffect(x)
  BY DEF EndSession, Ended, IInv, SessionsOK, SessionEffect
<1>3. InvitationsOK'
  BY <1>1, SameInvitations DEF EndSession, IInv
<1> QED
  BY <1>1, <1>2, <1>3, SameRequests, Together DEF EndSession, IInv, Tables

LEMMA ResolveInvariant ==
  ASSUME IInv, NEW q \in Request, NEW s \in Session, NEW w \in Workspace, Resolve(q, s, w)
  PROVE  IInv'
<1> DEFINE u == session[s].user
           new == [session |-> s, user |-> u, current |-> w, role |-> member'[w][u].role]
<1>1. u \in User /\ session[s].status = "active"
  BY DEF Resolve, IInv, MembersOK
<1>2. MembersOK' /\ Kept /\ NoneDeactivated /\ member'[w][u].status = "active"
  <2>1. CASE Usable(u, session[s].current)
    BY <2>1, SameMembers DEF Resolve, Usable, ActiveMember, IInv
  <2>2. CASE ~Usable(u, session[s].current)
    BY <1>1, <2>2, FirstOrPersonalFacts DEF Resolve, IInv
  <2> QED
    BY <2>1, <2>2
<1>3. /\ session'[s] = [session[s] EXCEPT !.current = w]
      /\ \A x \in Session \ {s} : session'[x] = session[x]
      /\ session' = [x \in Session |-> session'[x]]
  BY DEF Resolve, IInv, SessionsOK
<1>4. \A x \in Session : SessionEffect(x)
  BY <1>1, <1>2, <1>3, PutFacts DEF SessionEffect
<1>5. /\ request'[q] = new /\ \A p \in Request \ {q} : request'[p] = request[p]
      /\ request' = [p \in Request |-> request'[p]]
  BY DEF Resolve, IInv, SessionsOK
<1>6. RequestEffect(q)
  <2>1. member'[w][u] \in MemberRecord
    BY <1>1, <1>2 DEF MembersOK
  <2>2. new \in RequestRecord
    BY <1>1, <2>1 DEF RequestRecord, MemberRecord
  <2>3. session'[s].user = u
    <3>1. session[s] \in SessionRecord
      BY DEF IInv, SessionsOK
    <3> QED
      BY <1>3, <3>1 DEF SessionRecord
  <2>4. member'[w][u].status # "none"
    BY <1>2
  <2> QED
    BY <1>5, <2>2, <2>3, <2>4 DEF RequestEffect
<1>7. \A p \in Request : RequestEffect(p)
  BY <1>5, <1>6 DEF RequestEffect
<1>8. InvitationsOK'
  BY <1>2, SameInvitations DEF Resolve, IInv
<1> QED
  BY <1>2, <1>3, <1>4, <1>5, <1>7, <1>8, Together DEF Tables

\* A command of q that changes at most memberships and sessions.
LEMMA CommandKeeps ==
  ASSUME IInv, NEW q \in Request, MembersOK', Kept, NoneDeactivated,
         session' = [s \in Session |-> session'[s]], \A s \in Session : SessionEffect(s),
         UNCHANGED invitation, Done(q)
  PROVE  IInv'
<1>1. InvitationsOK'
  BY SameInvitations DEF IInv
<1>2. /\ request' = [p \in Request |-> request'[p]] /\ \A p \in Request : RequestEffect(p)
  BY DoneFacts DEF Done, IInv
<1> QED
  BY <1>1, <1>2, Together DEF Tables

LEMMA QuietInvariant ==
  ASSUME IInv, NEW q \in Request, FinancialWrite(q) \/ Refuse(q) PROVE IInv'
<1>1. Done(q) /\ UNCHANGED <<account, workspace, member, invitation, session>>
  BY DEF FinancialWrite, Refuse, Done
<1> QED
  BY <1>1, SameMembers, SameSessions, CommandKeeps DEF IInv

-----------------------------------------------------------------------------
(* Commands on members.                                                    *)

LEMMA UpdateRoleInvariant ==
  ASSUME IInv, NEW q \in Request, NEW w \in Workspace, NEW t \in User, NEW role \in OfferedRole,
         UpdateRole(q, w, t, role)
  PROVE  IInv'
<1> DEFINE new == [member[w][t] EXCEPT !.role = role]
<1>1. member[w][t] \in MemberRecord
  BY DEF IInv, MembersOK
<1>2. member[w][t].role # "owner" /\ role # "owner" /\ role \in Role
  BY DEF UpdateRole, CanAssign, Assignable, AdminManageable, Invitable
<1>3. /\ new \in MemberRecord /\ new.role = role /\ new.status = member[w][t].status
  BY <1>1, <1>2 DEF MemberRecord
<1>4. member' = [member EXCEPT ![w][t] = new] /\ member[w][t].status # "none"
  BY DEF UpdateRole, IInv, MembersOK
<1> HIDE DEF new
<1>5. MembersOK' /\ Kept /\ NoneDeactivated
  BY <1>2, <1>3, <1>4, OneMember DEF UpdateRole, Done, IInv
<1> QED
  BY <1>5, SameSessions, CommandKeeps DEF UpdateRole, IInv

LEMMA DisableMemberInvariant ==
  ASSUME IInv, NEW q \in Request, NEW w \in Workspace, NEW t \in User, DisableMember(q, w, t)
  PROVE  IInv'
<1> DEFINE new == [member[w][t] EXCEPT !.status = "disabled"]
<1>1. member[w][t] \in MemberRecord /\ member[w][t].role # "owner"
  BY DEF DisableMember, IInv, MembersOK
<1>2. new \in MemberRecord /\ new.role = member[w][t].role /\ new.status = "disabled"
  BY <1>1 DEF MemberRecord, MemberStatus
<1>3. member' = [member EXCEPT ![w][t] = new]
  BY DEF DisableMember, IInv, MembersOK
<1> HIDE DEF new
<1>4. MembersOK' /\ Kept /\ NoneDeactivated
  BY <1>1, <1>2, <1>3, OneMember DEF DisableMember, Done, IInv
<1>5. PICK to \in IF Fallbacks(t, w) = {} THEN {NoWorkspace} ELSE Fallbacks(t, w) :
         session' = [s \in Session |-> Moved(s, t, w, to)]
  BY DEF DisableMember
<1>6. to \in Workspace \cup {NoWorkspace} /\ (to # NoWorkspace => member'[to][t].status # "none")
  BY <1>4, <1>5 DEF Fallbacks, Usables, Usable, ActiveMember, Kept
<1>7. \A s \in Session : SessionEffect(s)
  BY <1>5, <1>6, MovedFacts
<1> QED
  BY <1>4, <1>5, <1>7, CommandKeeps DEF DisableMember

LEMMA ReactivateMemberInvariant ==
  ASSUME IInv, NEW q \in Request, NEW w \in Workspace, NEW t \in User, ReactivateMember(q, w, t)
  PROVE  IInv'
<1> DEFINE new == [member[w][t] EXCEPT !.status = "active"]
<1>1. member[w][t] \in MemberRecord /\ member[w][t].role # "owner"
  BY DEF ReactivateMember, IInv, MembersOK
<1>2. new \in MemberRecord /\ new.role = member[w][t].role /\ new.status = "active"
  BY <1>1 DEF MemberRecord, MemberStatus
<1>3. member' = [member EXCEPT ![w][t] = new]
  BY DEF ReactivateMember, IInv, MembersOK
<1> HIDE DEF new
<1>4. MembersOK' /\ Kept /\ NoneDeactivated
  BY <1>1, <1>2, <1>3, OneMember DEF ReactivateMember, Done, IInv
<1> QED
  BY <1>4, SameSessions, CommandKeeps DEF ReactivateMember, IInv

LEMMA TransferInvariant ==
  ASSUME IInv, NEW q \in Request, NEW w \in Workspace, NEW t \in User,
         TransferOwnership(q, w, t)
  PROVE  IInv'
<1>1. Actor(q) \in User
  BY ActorFacts DEF TransferOwnership, Locked
<1>2. MembersOK' /\ Kept /\ NoneDeactivated
  BY <1>1, Transferred DEF TransferOwnership, AuthoritativeOwner, Done, IInv
<1> QED
  BY <1>2, SameSessions, CommandKeeps DEF TransferOwnership, IInv

LEMMA LeaveInvariant ==
  ASSUME IInv, NEW q \in Request, NEW w \in Workspace, Leave(q, w) PROVE IInv'
<1> DEFINE u == Actor(q)
           new == [member[w][u] EXCEPT !.status = "removed"]
<1>1. u \in User
  BY ActorFacts DEF Leave, LockedMember, Locked
<1>2. member[w][u] \in MemberRecord /\ member[w][u].role # "owner"
  BY <1>1 DEF Leave, IInv, MembersOK, OwnersKnown
<1>3. new \in MemberRecord /\ new.role = member[w][u].role /\ new.status = "removed"
  BY <1>2 DEF MemberRecord, MemberStatus
<1>4. member' = [member EXCEPT ![w][u] = new]
  BY DEF Leave, IInv, MembersOK
<1> HIDE DEF new
<1>5. MembersOK' /\ Kept /\ NoneDeactivated
  BY <1>1, <1>2, <1>3, <1>4, OneMember DEF Leave, Done, IInv
<1>6. session' = [s \in Session |-> session'[s]] /\ \A s \in Session : SessionEffect(s)
  <2>1. ASSUME NEW to \in Fallbacks(u, w), session' = [s \in Session |-> Moved(s, u, w, to)]
        PROVE  session' = [s \in Session |-> session'[s]] /\ \A s \in Session : SessionEffect(s)
    <3>1. to \in Workspace /\ member'[to][u].status # "none"
      BY <1>1, <1>5, <2>1 DEF Fallbacks, Usables, Usable, ActiveMember, Kept
    <3> QED
      BY <1>1, <2>1, <3>1, MovedFacts
  <2>2. CASE UNCHANGED session
    BY <2>2, SameSessions DEF IInv
  <2> QED
    BY <2>1, <2>2 DEF Leave
<1> QED
  BY <1>5, <1>6, CommandKeeps DEF Leave

-----------------------------------------------------------------------------
(* Commands on workspaces.                                                 *)

LEMMA SelectInvariant ==
  ASSUME IInv, NEW q \in Request, NEW w \in Workspace,
         CreateWorkspace(q, w) \/ ReplayCreation(q, w) \/ SwitchWorkspace(q, w)
  PROVE  IInv'
<1>1. /\ request[q] # Idle /\ Live(q) /\ Select(q, w) /\ Done(q) /\ UNCHANGED invitation
      /\ Found(Actor(q), w) \/ (Usable(Actor(q), w) /\ UNCHANGED <<workspace, member>>)
  BY DEF CreateWorkspace, ReplayCreation, SwitchWorkspace, Locked
<1>2. Actor(q) \in User
  BY <1>1, ActorFacts
<1>3. MembersOK' /\ Kept /\ NoneDeactivated /\ member'[w][Actor(q)].status # "none"
  <2>1. CASE Found(Actor(q), w)
    BY <1>1, <1>2, <2>1, FoundMembers DEF Done, IInv
  <2>2. CASE Usable(Actor(q), w) /\ UNCHANGED <<workspace, member>>
    BY <1>1, <2>2, SameMembers DEF Done, IInv, Usable, ActiveMember
  <2> QED
    BY <1>1, <2>1, <2>2
<1> QED
  BY <1>1, <1>3, SelectFacts, CommandKeeps

\* What is revoked with the workspaces ws.
LEMMA PendingRevokedFacts ==
  ASSUME InvitationsOK, NEW ws \in SUBSET Workspace, invitation' = PendingRevoked(ws),
         \A w \in Workspace : workspace[w].active /\ w \notin ws => workspace'[w].active
  PROVE  InvitationsOK'
<1>1. /\ invitation' = [i \in Invitation |-> invitation'[i]]
      /\ \A i \in Invitation : InvitationEffect(i)
  BY DEF PendingRevoked, InvitationEffect
<1>2. ASSUME NEW i \in Invitation, invitation'[i].status = "pending",
             workspace[invitation[i].workspace].active
      PROVE  workspace'[invitation[i].workspace].active
  <2>1. NoInvitation.status # "pending"
    BY DEF NoInvitation
  <2>2. invitation'[i] = invitation[i] /\ \A w \in ws : i \notin PendingInto(w)
    BY <1>2, <2>1 DEF PendingRevoked
  <2>3. invitation[i].workspace \in Workspace
    BY <1>2, <2>2 DEF InvitationsOK, Offers
  <2> QED
    BY <1>2, <2>2, <2>3 DEF PendingInto
<1> QED
  BY <1>1, <1>2, InvitationsKeep

LEMMA DeactivateInvariant ==
  ASSUME IInv, NEW q \in Request, NEW w \in Workspace, DeactivateWorkspace(q, w) PROVE IInv'
<1>1. workspace[w] \in WorkspaceRecord
  BY DEF IInv, MembersOK
<1>2. /\ workspace' \in [Workspace -> WorkspaceRecord]
      /\ \A x \in Workspace : /\ workspace'[x].owner = workspace[x].owner
                              /\ workspace'[x].founder = workspace[x].founder
                              /\ workspace[x].active /\ x \notin {w} => workspace'[x].active
  <2> DEFINE new == [workspace[w] EXCEPT !.active = FALSE]
  <2>1. /\ new \in WorkspaceRecord /\ new.owner = workspace[w].owner
        /\ new.founder = workspace[w].founder
    BY <1>1 DEF WorkspaceRecord
  <2>2. workspace' = [workspace EXCEPT ![w] = new]
    BY DEF DeactivateWorkspace, IInv, MembersOK
  <2> HIDE DEF new
  <2> QED
    BY <2>1, <2>2 DEF IInv, MembersOK
<1>3. MembersOK' /\ Kept
  BY <1>2, ActiveChanged DEF DeactivateWorkspace, Done, IInv
<1>4. InvitationsOK'
  BY <1>2, PendingRevokedFacts DEF DeactivateWorkspace, IInv
<1>5. PICK to \in [Affected(w) -> Workspace] :
         /\ \A u \in Affected(w) : to[u] \in Fallbacks(u, w)
         /\ session' = [s \in Session |->
               IF session[s].user \in Affected(w)
               THEN Moved(s, session[s].user, w, to[session[s].user]) ELSE session[s]]
  BY DEF DeactivateWorkspace
<1>6. ASSUME NEW s \in Session PROVE SessionEffect(s)
  <2>1. CASE session[s].user \in Affected(w)
    <3> DEFINE u == session[s].user
    <3>1. u \in User /\ to[u] \in Workspace /\ session'[s] = Moved(s, u, w, to[u])
      BY <1>5, <2>1 DEF Affected
    <3>2. member'[to[u]][u].status # "none"
      BY <1>3, <1>5, <2>1, <3>1 DEF Fallbacks, Usables, Usable, ActiveMember, Kept
    <3> QED
      BY <3>1, <3>2, MovedFacts
  <2>2. CASE session[s].user \notin Affected(w)
    BY <1>5, <2>2 DEF SessionEffect
  <2> QED
    BY <2>1, <2>2
<1>7. /\ request' = [p \in Request |-> request'[p]] /\ \A p \in Request : RequestEffect(p)
  BY DoneFacts DEF DeactivateWorkspace, Done, IInv
<1> QED
  BY <1>3, <1>4, <1>5, <1>6, <1>7, Together DEF Tables

LEMMA RestoreInvariant ==
  ASSUME IInv, NEW q \in Request, NEW w \in Workspace, RestoreWorkspace(q, w) PROVE IInv'
<1> DEFINE new == [workspace[w] EXCEPT !.active = TRUE]
<1>1. workspace[w] \in WorkspaceRecord
  BY DEF IInv, MembersOK
<1>2. /\ new \in WorkspaceRecord /\ new.owner = workspace[w].owner
      /\ new.founder = workspace[w].founder /\ new.active = TRUE
  BY <1>1 DEF WorkspaceRecord
<1>3. workspace' = [workspace EXCEPT ![w] = new]
  BY DEF RestoreWorkspace, IInv, MembersOK
<1> HIDE DEF new
<1>4. MembersOK' /\ Kept
  BY <1>2, <1>3, ActiveChanged DEF RestoreWorkspace, Done, IInv, MembersOK
<1>5. NoneDeactivated
  BY <1>2, <1>3 DEF NoneDeactivated, IInv, MembersOK
<1> QED
  BY <1>4, <1>5, SameSessions, CommandKeeps DEF RestoreWorkspace, IInv

-----------------------------------------------------------------------------
(* Commands on invitations.                                                *)

LEMMA CreateInvitationInvariant ==
  ASSUME IInv, NEW q \in Request, NEW w \in Workspace, NEW i \in Invitation, NEW e \in User,
         NEW role \in OfferedRole, CreateInvitation(q, w, i, e, role)
  PROVE  IInv'
<1> DEFINE new == [workspace |-> w, email |-> e, role |-> role,
                   status |-> "pending", overdue |-> FALSE]
           other == OverdueExpired(w, e)
<1>1. role # "owner" /\ role \in Role /\ workspace[w].active
  BY DEF CreateInvitation, MayInvite, Assignable, AdminManageable, Invitable
<1>2. new \in InvitationRecord /\ NoInvitation \in InvitationRecord
  BY <1>1 DEF InvitationRecord, InvitationStatus, NoInvitation, Role
<1>3. NoInvitation.status # "pending"
  BY DEF NoInvitation
<1>4. /\ invitation'[i] = new
      /\ \A j \in Invitation \ {i} : invitation'[j] = other[j]
      /\ invitation' \in [Invitation -> InvitationRecord]
  BY <1>2 DEF CreateInvitation, OverdueExpired, IInv, InvitationsOK
<1>5. ASSUME NEW j \in Invitation \ {i}, invitation'[j].status = "pending"
      PROVE  /\ invitation'[j] = invitation[j]
             /\ invitation[j].workspace = w /\ invitation[j].email = e => FALSE
  <2>1. invitation'[j] = invitation[j]
    BY <1>3, <1>4, <1>5 DEF OverdueExpired
  <2>2. ~(j \in PendingInto(w) /\ invitation[j].email = e /\ invitation[j].overdue)
    BY <1>3, <1>4, <1>5 DEF OverdueExpired
  <2> QED
    BY <1>5, <2>1, <2>2 DEF CreateInvitation, Uninvited, PendingInto
<1>6. MembersOK' /\ Kept /\ UNCHANGED workspace
  BY SameMembers DEF CreateInvitation, Done, IInv
<1>7. /\ new.workspace = w /\ new.email = e /\ new.role = role /\ new.status = "pending"
  OBVIOUS
<1> HIDE DEF new, other
<1>8. Offers' /\ InvitationsEndWithWorkspace'
  BY <1>1, <1>4, <1>5, <1>6, <1>7
     DEF IInv, InvitationsOK, Offers, InvitationsEndWithWorkspace
<1>9. OneOpenInvitation'
  <2>1. ASSUME NEW j \in Invitation, NEW k \in Invitation, j # k,
               invitation'[j].status = "pending", ~invitation'[j].overdue,
               invitation'[k].status = "pending", ~invitation'[k].overdue,
               invitation'[j].workspace = invitation'[k].workspace,
               invitation'[j].email = invitation'[k].email
        PROVE  FALSE
    <3>1. CASE j = i
      BY <1>4, <1>5, <1>7, <2>1, <3>1
    <3>2. CASE k = i
      BY <1>4, <1>5, <1>7, <2>1, <3>2
    <3>3. CASE j # i /\ k # i
      BY <1>5, <2>1, <3>3 DEF IInv, InvitationsOK, OneOpenInvitation
    <3> QED
      BY <3>1, <3>2, <3>3
  <2> QED
    BY <2>1 DEF OneOpenInvitation
<1>10. /\ request' = [p \in Request |-> request'[p]] /\ \A p \in Request : RequestEffect(p)
  BY DoneFacts DEF CreateInvitation, Done, IInv
<1>11. /\ session' = [s \in Session |-> session'[s]] /\ \A s \in Session : SessionEffect(s)
  BY SameSessions DEF CreateInvitation, IInv
<1> QED
  BY <1>4, <1>6, <1>8, <1>9, <1>10, <1>11, Together DEF InvitationsOK, Tables

LEMMA InvitationInvariant ==
  ASSUME IInv, NEW i \in Invitation,
         InvitationOverdue(i) \/ \E q \in Request : RevokeInvitation(q, i)
  PROVE  IInv'
<1>1. UNCHANGED <<account, workspace, member, session>>
  BY DEF InvitationOverdue, RevokeInvitation, Done
<1>2. MembersOK' /\ Kept /\ NoneDeactivated
  BY <1>1, SameMembers DEF IInv
<1>3. InvitationsOK'
  <2>1. /\ invitation' = [j \in Invitation |-> invitation'[j]]
        /\ \A j \in Invitation : InvitationEffect(j)
    <3>1. CASE InvitationOverdue(i)
      BY <3>1 DEF InvitationOverdue, IInv, InvitationsOK, InvitationEffect
    <3>2. ASSUME NEW q \in Request, RevokeInvitation(q, i)
          PROVE  /\ invitation' = [j \in Invitation |-> invitation'[j]]
                 /\ \A j \in Invitation : InvitationEffect(j)
      BY <3>2 DEF RevokeInvitation, IInv, InvitationsOK, InvitationEffect
    <3> QED
      BY <3>1, <3>2
  <2> QED
    BY <1>1, <2>1, InvitationsKeep DEF IInv
<1>4. /\ request' = [p \in Request |-> request'[p]] /\ \A p \in Request : RequestEffect(p)
  <2>1. CASE InvitationOverdue(i)
    BY <2>1, SameRequests DEF InvitationOverdue, IInv
  <2>2. ASSUME NEW q \in Request, RevokeInvitation(q, i)
        PROVE  request' = [p \in Request |-> request'[p]] /\ \A p \in Request : RequestEffect(p)
    BY <2>2, DoneFacts DEF RevokeInvitation, Done, IInv
  <2> QED
    BY <2>1, <2>2
<1> QED
  BY <1>1, <1>2, <1>3, <1>4, SameSessions, Together DEF IInv, Tables

LEMMA AcceptInvitationInvariant ==
  ASSUME IInv, NEW s \in Session, NEW i \in Invitation, AcceptInvitation(s, i) PROVE IInv'
<1> DEFINE w == invitation[i].workspace
           u == session[s].user
           new == [role |-> invitation[i].role, status |-> "active"]
<1>1. /\ u \in User /\ u \in account /\ w \in Workspace
      /\ invitation[i].role # "owner" /\ invitation[i].role \in Role
  BY DEF AcceptInvitation, Acceptable, IInv, MembersOK, InvitationsOK, Offers, InvitationRecord
<1>2. member[w][u].role # "owner"
  BY <1>1 DEF AcceptInvitation, IInv, MembersOK, OwnersKnown, ActiveMember
<1>3. new \in MemberRecord
  BY <1>1 DEF MemberRecord, MemberStatus
<1>4. member' = [member EXCEPT ![w][u] = new] /\ UNCHANGED <<account, workspace, request>>
  BY DEF AcceptInvitation
<1>5. new.role # "owner" /\ new.status = "active"
  BY <1>1
<1>6. /\ session'[s] = [session[s] EXCEPT !.current = w]
      /\ \A x \in Session \ {s} : session'[x] = session[x]
      /\ session' = [x \in Session |-> session'[x]]
      /\ session[s].status = "active"
  BY DEF AcceptInvitation, IInv, SessionsOK
<1>7. /\ invitation' = [j \in Invitation |-> invitation'[j]]
      /\ \A j \in Invitation : InvitationEffect(j)
  BY DEF AcceptInvitation, IInv, InvitationsOK, InvitationEffect
<1>8. member'[w][u] = new
  BY <1>1, <1>4 DEF IInv, MembersOK
<1> HIDE DEF new, w, u
<1>9. MembersOK' /\ Kept /\ NoneDeactivated
  BY <1>1, <1>2, <1>3, <1>4, <1>5, OneMember DEF IInv
<1>10. SessionEffect(s)
  BY <1>1, <1>5, <1>6, <1>8, PutFacts DEF u
<1>11. \A x \in Session : SessionEffect(x)
  BY <1>6, <1>10 DEF SessionEffect
<1>12. InvitationsOK'
  BY <1>4, <1>7, InvitationsKeep DEF IInv
<1> QED
  BY <1>4, <1>6, <1>9, <1>11, <1>12, SameRequests, Together DEF IInv, Tables

-----------------------------------------------------------------------------
(* The closing of an account.                                              *)

LEMMA CloseAccountInvariant == ASSUME IInv, NEW u \in User, CloseAccount(u) PROVE IInv'
<1>1. account' = account \ {u} /\ account' \subseteq User
  BY DEF CloseAccount, IInv, MembersOK
<1>2. ASSUME NEW w \in Workspace
      PROVE  /\ workspace'[w] \in WorkspaceRecord
             /\ workspace'[w].owner = workspace[w].owner
             /\ workspace'[w].founder = workspace[w].founder
             /\ workspace[w].active /\ w \notin Owned(u) => workspace'[w].active
  <2> DEFINE active == workspace[w].active /\ w \notin Owned(u)
  <2>1. workspace'[w] = [workspace[w] EXCEPT !.active = active]
    BY DEF CloseAccount
  <2>2. workspace[w] \in WorkspaceRecord /\ active \in BOOLEAN
    BY DEF IInv, MembersOK, WorkspaceRecord
  <2>3. active <=> workspace[w].active /\ w \notin Owned(u)
    OBVIOUS
  <2> HIDE DEF active
  <2> QED
    BY <2>1, <2>2, <2>3 DEF WorkspaceRecord
<1>3. workspace' \in [Workspace -> WorkspaceRecord]
  BY <1>2 DEF CloseAccount
<1>4. ASSUME NEW w \in Workspace, NEW v \in User
      PROVE  /\ member'[w][v] \in MemberRecord
             /\ member'[w][v].role = member[w][v].role
             /\ member[w][v].status # "none" => member'[w][v].status # "none"
             /\ v # u => member'[w][v] = member[w][v]
  <2>1. member[w] \in [User -> MemberRecord] /\ member[w][v] \in MemberRecord
    BY DEF IInv, MembersOK
  <2>2. CASE ActiveMember(w, u)
    <3>1. member'[w] = [member[w] EXCEPT ![u].status = "disabled"]
      BY <2>2 DEF CloseAccount
    <3>2. CASE v = u
      <4>1. member'[w][v] = [member[w][v] EXCEPT !.status = "disabled"]
        BY <2>1, <3>1, <3>2
      <4> QED
        BY <2>1, <3>2, <4>1 DEF MemberRecord, MemberStatus
    <3>3. CASE v # u
      BY <2>1, <3>1, <3>3
    <3> QED
      BY <3>2, <3>3
  <2>3. CASE ~ActiveMember(w, u)
    BY <2>1, <2>3 DEF CloseAccount
  <2> QED
    BY <2>2, <2>3
<1>5. member' \in [Workspace -> [User -> MemberRecord]]
  <2>1. ASSUME NEW w \in Workspace PROVE member'[w] \in [User -> MemberRecord]
    <3>1. member[w] \in [User -> MemberRecord]
      BY DEF IInv, MembersOK
    <3>2. member'[w] = [v \in User |-> member'[w][v]]
      BY <3>1 DEF CloseAccount
    <3> QED
      BY <1>4, <3>2
  <2> QED
    BY <2>1 DEF CloseAccount
<1>6. OwnersKnown'
  <2>1. ASSUME NEW w \in Workspace
        PROVE  \A v \in User : member'[w][v].role = "owner" <=> v = workspace'[w].owner
    BY <1>2, <1>4 DEF IInv, MembersOK, OwnersKnown
  <2>2. ASSUME NEW w \in Workspace, workspace'[w].owner \in account'
        PROVE  member'[w][workspace'[w].owner].status = "active"
    <3>1. /\ workspace'[w].owner = workspace[w].owner
          /\ workspace[w].owner \in account /\ workspace[w].owner # u
      BY <1>1, <1>2, <2>2
    <3>2. workspace[w].owner \in User /\ ActiveMember(w, workspace[w].owner)
      BY <3>1 DEF IInv, MembersOK, OwnersKnown
    <3> QED
      BY <1>4, <3>1, <3>2 DEF ActiveMember
  <2> QED
    BY <2>1, <2>2 DEF OwnersKnown, ActiveMember
<1>7. FoundedByOwner'
  BY <1>2 DEF IInv, MembersOK, FoundedByOwner
<1>8. MembersOK' /\ Kept
  BY <1>1, <1>3, <1>4, <1>5, <1>6, <1>7 DEF MembersOK, Kept
<1>9. InvitationsOK'
  <2>1. Owned(u) \in SUBSET Workspace /\ invitation' = PendingRevoked(Owned(u))
    BY DEF Owned, CloseAccount
  <2> QED
    BY <1>2, <2>1, PendingRevokedFacts DEF IInv
<1>10. /\ session' = [s \in Session |-> session'[s]] /\ \A s \in Session : SessionEffect(s)
  BY DEF CloseAccount, Ended, SessionEffect
<1> QED
  BY <1>8, <1>9, <1>10, SameRequests, Together DEF CloseAccount, IInv, Tables

-----------------------------------------------------------------------------
(* The specification.                                                      *)

LEMMA StutterInvariant == ASSUME IInv, UNCHANGED vars PROVE IInv'
<1>1. UNCHANGED <<account, workspace, member, invitation, session, request>>
  BY DEF vars
<1>2. MembersOK' /\ Kept /\ NoneDeactivated
  BY <1>1, SameMembers DEF IInv
<1> QED
  BY <1>1, <1>2, SameInvitations, SameSessions, SameRequests, Together DEF IInv, Tables

LEMMA StepInvariant == ASSUME IInv, [Next]_vars PROVE IInv'
<1>1. CASE SessionStep
  BY <1>1, SignInInvariant, EndSessionInvariant, ResolveInvariant DEF SessionStep
<1>2. ASSUME NEW q \in Request, FinancialWrite(q) \/ Refuse(q) PROVE IInv'
  BY <1>2, QuietInvariant
<1>3. ASSUME NEW q \in Request, NEW w \in Workspace, MemberCommand(q, w) PROVE IInv'
  BY <1>3, UpdateRoleInvariant, DisableMemberInvariant, ReactivateMemberInvariant,
     TransferInvariant, LeaveInvariant DEF MemberCommand
<1>4. ASSUME NEW q \in Request, NEW w \in Workspace, WorkspaceCommand(q, w) PROVE IInv'
  BY <1>4, SelectInvariant, DeactivateInvariant, RestoreInvariant DEF WorkspaceCommand
<1>5. CASE InvitationStep
  BY <1>5, CreateInvitationInvariant, InvitationInvariant, AcceptInvitationInvariant
     DEF InvitationStep
<1>6. ASSUME NEW u \in User, CloseAccount(u) PROVE IInv'
  BY <1>6, CloseAccountInvariant
<1>7. CASE UNCHANGED vars
  BY <1>7, StutterInvariant
<1> QED
  BY <1>1, <1>2, <1>3, <1>4, <1>5, <1>6, <1>7 DEF Next

\* Members, sessions, requests and invitations fit together in every reachable
\* state.
THEOREM AccessInvariant == Spec => []IInv
<1>1. Init => IInv
  BY InitInvariant
<1>2. IInv /\ [Next]_vars => IInv'
  BY StepInvariant
<1> QED
  BY <1>1, <1>2, PTL DEF Spec

\* An address has at most one open invitation into a workspace, and none into
\* one that is inactive (workspaces/application/invitations.py).
THEOREM AccessConsistent == Spec => []Consistent
<1>1. IInv => Consistent
  BY DEF IInv, MembersOK, SessionsOK, InvitationsOK, Consistent, TypeOK
<1> QED
  BY <1>1, AccessInvariant, PTL

\* A workspace that was made has one owner, the member its row names, however
\* roles, ownership and accounts change at the same time.
THEOREM OwnersStay == Spec => []OneOwner
<1>1. IInv => OneOwner
  <2> SUFFICES ASSUME IInv PROVE OneOwner
    OBVIOUS
  <2>1. ASSUME NEW w \in Workspace
        PROVE  IF workspace[w].owner = NoUser THEN Owners(w) = {}
               ELSE /\ Owners(w) = {workspace[w].owner}
                    /\ workspace[w].owner \in account => ActiveMember(w, workspace[w].owner)
    <3>1. workspace[w] \in WorkspaceRecord
      BY DEF IInv, MembersOK
    <3>2. workspace[w].owner \in User \cup {NoUser}
      BY <3>1 DEF WorkspaceRecord
    <3>3. \A u \in User : member[w][u].role = "owner" <=> u = workspace[w].owner
      BY DEF IInv, MembersOK, OwnersKnown
    <3>4. workspace[w].owner \in account => ActiveMember(w, workspace[w].owner)
      BY DEF IInv, MembersOK, OwnersKnown
    <3>5. CASE workspace[w].owner = NoUser
      BY <3>3, <3>5, AccessAssumption DEF Owners
    <3>6. CASE workspace[w].owner # NoUser
      BY <3>2, <3>3, <3>4, <3>6 DEF Owners
    <3> QED
      BY <3>5, <3>6
  <2> QED
    BY <2>1 DEF OneOwner
<1> QED
  BY <1>1, AccessInvariant, PTL

\* A session, and a request under way, are only ever in a workspace the user
\* is or was a member of.
THEOREM SessionsAmongOwn == Spec => []SessionAmongOwn
<1>1. IInv => SessionAmongOwn
  BY DEF IInv, SessionsOK
<1> QED
  BY <1>1, AccessInvariant, PTL

\* How a user comes to be an active member.
Founds(w, u) == workspace[w].founder # u /\ workspace'[w].founder = u

Accepts(w, u) ==
  \E i \in PendingInto(w) :
    /\ invitation[i].email = u
    /\ ~invitation[i].overdue
    /\ invitation'[i].status = "free"
    /\ member[w][u].status # "disabled"
    /\ member'[w][u].role = invitation[i].role

IsReactivated(w, u) ==
  /\ member[w][u].status = "disabled"
  /\ \E v \in User \ {u} : ActiveMember(w, v)

LEMMA FoundAdmits ==
  ASSUME IInv, NEW v \in User, NEW x \in Workspace, Found(v, x),
         NEW w \in Workspace, NEW u \in User,
         member'[w][u].status = "active", member[w][u].status # "active"
  PROVE  Founds(w, u)
<1>1. w = x /\ u = v
  BY DEF Found, IInv, MembersOK
<1>2. workspace'[w].founder = u
  BY <1>1 DEF Found, IInv, MembersOK
<1>3. workspace[w].founder # u
  BY <1>1, AccessAssumption DEF Found, IInv, MembersOK, FoundedByOwner
<1> QED
  BY <1>2, <1>3 DEF Founds

LEMMA StepAdmits ==
  ASSUME IInv, Next, NEW w \in Workspace, NEW u \in User,
         member'[w][u].status = "active", member[w][u].status # "active"
  PROVE  Founds(w, u) \/ Accepts(w, u) \/ IsReactivated(w, u)
<1>1. member # member'
  OBVIOUS
<1>2. CASE SessionStep
  <2>1. ASSUME NEW v \in User, NEW s \in Session, NEW x \in Workspace, SignIn(v, s, x)
        PROVE  Founds(w, u)
    BY <1>1, <2>1, FoundAdmits DEF SignIn, FirstOrPersonal
  <2>2. ASSUME NEW q \in Request, NEW s \in Session, NEW x \in Workspace, Resolve(q, s, x)
        PROVE  Founds(w, u)
    <3>1. session[s].user \in User
      BY <2>2 DEF Resolve, IInv, MembersOK
    <3> QED
      BY <1>1, <2>2, <3>1, FoundAdmits DEF Resolve, FirstOrPersonal
  <2> QED
    BY <1>1, <1>2, <2>1, <2>2 DEF SessionStep, EndSession
<1>3. ASSUME NEW q \in Request, FinancialWrite(q) \/ Refuse(q) PROVE FALSE
  BY <1>1, <1>3 DEF FinancialWrite, Refuse
<1>4. ASSUME NEW q \in Request, NEW x \in Workspace, MemberCommand(q, x)
      PROVE  IsReactivated(w, u)
  <2>1. ASSUME NEW t \in User, NEW role \in OfferedRole, UpdateRole(q, x, t, role) PROVE FALSE
    <3>1. member[x][t] \in MemberRecord /\ member' = [member EXCEPT ![x][t].role = role]
      BY <2>1 DEF UpdateRole, IInv, MembersOK
    <3>2. [member[x][t] EXCEPT !.role = role].status = member[x][t].status
      BY <3>1 DEF MemberRecord
    <3> QED
      BY <3>1, <3>2 DEF IInv, MembersOK
  <2>2. ASSUME NEW t \in User, DisableMember(q, x, t) PROVE FALSE
    <3>1. member[x][t] \in MemberRecord /\ member' = [member EXCEPT ![x][t].status = "disabled"]
      BY <2>2 DEF DisableMember, IInv, MembersOK
    <3>2. [member[x][t] EXCEPT !.status = "disabled"].status = "disabled"
      BY <3>1 DEF MemberRecord
    <3> QED
      BY <3>1, <3>2 DEF IInv, MembersOK
  <2>3. ASSUME NEW t \in User, ReactivateMember(q, x, t) PROVE IsReactivated(w, u)
    <3>1. w = x /\ u = t
      BY <2>3 DEF ReactivateMember, IInv, MembersOK
    <3>2. Actor(q) \in User /\ ActiveMember(w, Actor(q)) /\ member[w][u].status = "disabled"
      BY <2>3, <3>1, ActorFacts DEF ReactivateMember, LockedMember, Locked
    <3> QED
      BY <3>2 DEF IsReactivated, ActiveMember
  <2>4. ASSUME NEW t \in User, TransferOwnership(q, x, t) PROVE FALSE
    <3>1. Actor(q) \in User
      BY <2>4, ActorFacts DEF TransferOwnership, Locked
    <3>2. \A y \in Workspace, v \in User : member'[y][v].status = member[y][v].status
      BY <2>4, <3>1, Transferred DEF TransferOwnership, AuthoritativeOwner, Done, IInv
    <3> QED
      BY <3>2
  <2>5. CASE Leave(q, x)
    <3> DEFINE v == Actor(q)
    <3>1. v \in User /\ member' = [member EXCEPT ![x][v].status = "removed"]
      BY <2>5, ActorFacts DEF Leave, LockedMember, Locked
    <3>2. member[x][v] \in MemberRecord
      BY <3>1 DEF IInv, MembersOK
    <3>3. [member[x][v] EXCEPT !.status = "removed"].status = "removed"
      BY <3>2 DEF MemberRecord
    <3> QED
      BY <3>1, <3>3 DEF IInv, MembersOK
  <2> QED
    BY <1>4, <2>1, <2>2, <2>3, <2>4, <2>5 DEF MemberCommand
<1>5. ASSUME NEW q \in Request, NEW x \in Workspace, WorkspaceCommand(q, x)
      PROVE  Founds(w, u)
  <2>1. CASE CreateWorkspace(q, x)
    BY <2>1, ActorFacts, FoundAdmits DEF CreateWorkspace, Locked
  <2> QED
    BY <1>1, <1>5, <2>1
       DEF WorkspaceCommand, ReplayCreation, SwitchWorkspace, DeactivateWorkspace,
           RestoreWorkspace
<1>6. CASE InvitationStep
  <2>1. ASSUME NEW s \in Session, NEW i \in Invitation, AcceptInvitation(s, i)
        PROVE  Accepts(w, u)
    <3> DEFINE x == invitation[i].workspace
               v == session[s].user
               new == [role |-> invitation[i].role, status |-> "active"]
    <3>1. member' = [member EXCEPT ![x][v] = new]
      BY <2>1 DEF AcceptInvitation
    <3>2. w = x /\ u = v
      BY <3>1 DEF IInv, MembersOK
    <3>3. member'[w][u] = new
      BY <3>1, <3>2 DEF IInv, MembersOK
    <3>4. invitation'[i].status = "free"
      BY <2>1 DEF AcceptInvitation, NoInvitation, IInv, InvitationsOK
    <3>5. /\ i \in PendingInto(w) /\ invitation[i].email = u /\ ~invitation[i].overdue
          /\ member[w][u].status # "disabled"
      BY <2>1, <3>2 DEF AcceptInvitation, Acceptable, PendingInto
    <3> QED
      BY <3>3, <3>4, <3>5 DEF Accepts
  <2> QED
    BY <1>1, <1>6, <2>1
       DEF InvitationStep, CreateInvitation, RevokeInvitation, InvitationOverdue
<1>7. ASSUME NEW v \in User, CloseAccount(v) PROVE FALSE
  <2>1. member[w] \in [User -> MemberRecord] /\ member[w][v] \in MemberRecord
    BY DEF IInv, MembersOK
  <2>2. CASE ActiveMember(w, v)
    <3>1. member'[w] = [member[w] EXCEPT ![v].status = "disabled"]
      BY <1>7, <2>2 DEF CloseAccount
    <3>2. [member[w][v] EXCEPT !.status = "disabled"].status = "disabled"
      BY <2>1 DEF MemberRecord
    <3> QED
      BY <2>1, <3>1, <3>2
  <2>3. CASE ~ActiveMember(w, v)
    BY <1>7, <2>3 DEF CloseAccount
  <2> QED
    BY <2>2, <2>3
<1> QED
  BY <1>2, <1>3, <1>4, <1>5, <1>6, <1>7 DEF Next

\* Nobody becomes a member but by founding the workspace, by an open invitation
\* to the own address, or by another member after having been disabled.
THEOREM EntriesInvited == Spec => AdmittedByInvitation
<1> DEFINE Admits ==
      \A w \in Workspace, u \in User :
        ActiveMember(w, u)' /\ ~ActiveMember(w, u) =>
          \/ workspace[w].founder # u /\ workspace'[w].founder = u
          \/ \E i \in PendingInto(w) :
                /\ invitation[i].email = u
                /\ ~invitation[i].overdue
                /\ invitation'[i].status = "free"
                /\ member[w][u].status # "disabled"
                /\ member'[w][u].role = invitation[i].role
          \/ /\ member[w][u].status = "disabled"
             /\ \E v \in User \ {u} : ActiveMember(w, v)
<1>1. ASSUME IInv, Next PROVE Admits
  BY <1>1, StepAdmits DEF ActiveMember, Founds, Accepts, IsReactivated
<1>2. IInv /\ [Next]_vars => [Admits]_vars
  BY <1>1
<1> QED
  BY <1>2, AccessInvariant, PTL DEF Spec, AdmittedByInvitation
=============================================================================
