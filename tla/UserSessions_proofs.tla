------------------------- MODULE UserSessions_proofs -------------------------
(***************************************************************************)
(* Safety of the sessions of an account, for any number of sessions,       *)
(* requests, passwords and tokens: an old password opens nothing, an       *)
(* honest refresh ends nothing, what has ended stays ended.                *)
(***************************************************************************)
EXTENDS UserSessions, TLAPS

Rest(q) == request[q] = Idle

\* What the authentication of a request read is not newer than what is stored.
RequestsKnown ==
  \A q \in Request : ~Rest(q) =>
    /\ verified
    /\ request[q].session \in Session =>
         /\ session[request[q].session].status # "free"
         /\ request[q].refresh <= session[request[q].session].refresh
         /\ open \/ session[request[q].session].status = "revoked"

\* As long as its token is tolerated after a rotation, the token before the
\* current one is remembered, except by a session that was rotated from an
\* older one.
GraceKnown ==
  \A s \in Session :
    session[s].grace => session[s].skewed \/ session[s].previous + 1 = session[s].refresh

IInv ==
  /\ TypeOK /\ RequestsKnown /\ GraceKnown
  /\ OldPasswordEnds /\ ResetLinksCurrent /\ SessionsVerified /\ ReuseJustified

-----------------------------------------------------------------------------
\* A column is changed within its type.
LEMMA Numbers == 1 \in 1..MaxPasswords /\ 1 \in 1..MaxTokens /\ 0 \in 0..MaxTokens
BY SessionsAssumption

LEMMA InitInvariant == Init => IInv
<1> SUFFICES ASSUME Init PROVE IInv
  OBVIOUS
<1>1. Unopened \in SessionRecord
  BY Numbers DEF Unopened, SessionRecord
<1>2. \A p \in Purpose : [live |-> p = "verify_email", password |-> 1] \in LinkRecord
  BY Numbers DEF LinkRecord
<1>3. TypeOK
  <2>1. open \in BOOLEAN /\ verified \in BOOLEAN /\ password \in 1..MaxPasswords
    BY Numbers DEF Init
  <2>2. link \in [Purpose -> LinkRecord] /\ session \in [Session -> SessionRecord]
    BY <1>1, <1>2 DEF Init
  <2>3. \A s \in Session : session[s].previous < session[s].refresh
    BY DEF Init, Unopened
  <2>4. request \in [Request -> RequestRecord \cup {Idle}]
    BY DEF Init
  <2> QED
    BY <2>1, <2>2, <2>3, <2>4 DEF TypeOK
<1>4. RequestsKnown /\ GraceKnown
  BY DEF Init, RequestsKnown, Rest, GraceKnown, Unopened
<1>5. OldPasswordEnds /\ SessionsVerified /\ ReuseJustified /\ ResetLinksCurrent
  BY DEF Init, OldPasswordEnds, Active, SessionsVerified, ReuseJustified, Unopened,
         ResetLinksCurrent, Purpose
<1> QED
  BY <1>3, <1>4, <1>5 DEF IInv

-----------------------------------------------------------------------------
LEMMA RevokedFacts ==
  ASSUME NEW r \in SessionRecord
  PROVE  /\ Revoked(r) \in SessionRecord /\ Revoked(r).status = "revoked"
         /\ Revoked(r).password = r.password /\ Revoked(r).refresh = r.refresh
         /\ Revoked(r).previous = r.previous /\ Revoked(r).grace = r.grace
         /\ Revoked(r).late = r.late /\ Revoked(r).skewed = r.skewed
         /\ Revoked(r).reused = r.reused
BY DEF Revoked, SessionRecord

\* Some sessions end and nothing else happens to them.
OnlyEnded(s) == \/ session'[s] = session[s]
                \/ Active(s) /\ session'[s] = Revoked(session[s])

LEMMA RevokedOnlyEnds ==
  ASSUME NEW keep
  PROVE  \A s \in Session :
           /\ SessionsRevoked(keep)[s] = session[s] \/
                (Active(s) /\ SessionsRevoked(keep)[s] = Revoked(session[s]))
           /\ s \notin keep /\ Active(s) => SessionsRevoked(keep)[s] = Revoked(session[s])
BY DEF SessionsRevoked

\* What sessions that only end keep: their types, what was remembered of their
\* tokens, and that those which go on are as they were.
LEMMA EndsKeep ==
  ASSUME IInv, session' = [s \in Session |-> session'[s]],
         \A s \in Session : OnlyEnded(s)
  PROVE  /\ session' \in [Session -> SessionRecord]
         /\ \A s \in Session : session'[s].previous < session'[s].refresh
         /\ GraceKnown' /\ ReuseJustified'
         /\ \A s \in Session :
              /\ session'[s].status # "free" <=> session[s].status # "free"
              /\ session[s].status = "revoked" => session'[s].status = "revoked"
              /\ session'[s].refresh = session[s].refresh
              /\ Active(s)' => Active(s) /\ session'[s] = session[s]
<1>1. ASSUME NEW s \in Session
      PROVE  /\ session'[s] \in SessionRecord
             /\ session'[s].refresh = session[s].refresh
             /\ session'[s].previous = session[s].previous
             /\ session'[s].grace = session[s].grace
             /\ session'[s].skewed = session[s].skewed
             /\ session'[s].reused = session[s].reused
             /\ session'[s].status # "free" <=> session[s].status # "free"
             /\ session[s].status = "revoked" => session'[s].status = "revoked"
             /\ Active(s)' => Active(s) /\ session'[s] = session[s]
  <2>1. session[s] \in SessionRecord
    BY DEF IInv, TypeOK
  <2> QED
    BY <2>1, RevokedFacts DEF OnlyEnded, Active
<1>2. session' \in [Session -> SessionRecord]
  BY <1>1
<1>3. \A s \in Session : session'[s].previous < session'[s].refresh
  BY <1>1 DEF IInv, TypeOK
<1>4. GraceKnown' /\ ReuseJustified'
  BY <1>1 DEF IInv, GraceKnown, ReuseJustified
<1> QED
  BY <1>1, <1>2, <1>3, <1>4

-----------------------------------------------------------------------------
(* Mailed links.                                                           *)

LEMMA MailedFacts ==
  ASSUME IInv, NEW p \in Purpose, Mailed(p)
  PROVE  /\ link' \in [Purpose -> LinkRecord]
         /\ link'["reset_password"].live =>
              link'["reset_password"].password = password
<1>1. [live |-> TRUE, password |-> password] \in LinkRecord
  BY DEF IInv, TypeOK, LinkRecord
<1> QED
  BY <1>1 DEF IInv, TypeOK, Mailed, ResetLinksCurrent, Purpose

LEMMA UsedFacts ==
  ASSUME IInv, NEW ps \in SUBSET Purpose
  PROVE  /\ Used(ps) \in [Purpose -> LinkRecord]
         /\ \A p \in Purpose : /\ Used(ps)[p].live => link[p].live /\ p \notin ps
                               /\ Used(ps)[p].password = link[p].password
<1>1. ASSUME NEW p \in Purpose
      PROVE  /\ Used(ps)[p] \in LinkRecord
             /\ Used(ps)[p].live => link[p].live /\ p \notin ps
             /\ Used(ps)[p].password = link[p].password
  <2>1. link[p] \in LinkRecord
    BY DEF IInv, TypeOK
  <2> QED
    BY <2>1 DEF Used, LinkRecord
<1> QED
  BY <1>1 DEF Used

\* Links are sent, and expire.
LEMMA LinkInvariant ==
  ASSUME IInv, SendVerification \/ RequestReset \/ \E p \in Purpose : ExpireLink(p)
  PROVE  IInv'
<1>1. UNCHANGED <<open, verified, password, session, request>>
  BY DEF SendVerification, RequestReset, ExpireLink
<1>2. /\ link' \in [Purpose -> LinkRecord]
      /\ link'["reset_password"].live => link'["reset_password"].password = password
  <2>1. CASE SendVerification \/ RequestReset
    BY <2>1, MailedFacts DEF SendVerification, RequestReset, Purpose
  <2>2. ASSUME NEW p \in Purpose, ExpireLink(p)
        PROVE  /\ link' \in [Purpose -> LinkRecord]
               /\ link'["reset_password"].live =>
                    link'["reset_password"].password = password
    <3>1. link' = Used({p}) /\ {p} \in SUBSET Purpose
      BY <2>2 DEF ExpireLink
    <3> QED
      BY <3>1, UsedFacts DEF IInv, ResetLinksCurrent, Purpose
  <2> QED
    BY <2>1, <2>2
<1> QED
  BY <1>1, <1>2
     DEF IInv, TypeOK, RequestsKnown, Rest, GraceKnown, OldPasswordEnds, Active,
         ResetLinksCurrent, SessionsVerified, ReuseJustified

-----------------------------------------------------------------------------
(* Requests begin and end.                                                 *)

LEMMA RequestInvariant ==
  ASSUME IInv, NEW q \in Request,
         VerifyPassword(q) \/ Refuse(q) \/ \E s \in Session : Authenticate(q, s)
  PROVE  IInv'
<1>1. UNCHANGED <<open, verified, password, link, session>>
  BY DEF VerifyPassword, Refuse, Authenticate
<1>2. /\ request' \in [Request -> RequestRecord \cup {Idle}]
      /\ \A p \in Request \ {q} : request'[p] = request[p]
      /\ request'[q] # Idle =>
           /\ verified
           /\ request'[q].session \in Session =>
                /\ open
                /\ session[request'[q].session].status # "free"
                /\ request'[q].refresh <= session[request'[q].session].refresh
  <2>1. CASE VerifyPassword(q)
    <3> DEFINE new == [session |-> NoSession, password |-> password, refresh |-> 0]
    <3>1. new \in RequestRecord /\ new.session \notin Session
      BY SessionsAssumption, Numbers DEF IInv, TypeOK, RequestRecord
    <3> QED
      BY <2>1, <3>1 DEF VerifyPassword, Admitted, IInv, TypeOK
  <2>2. CASE Refuse(q)
    BY <2>2 DEF Refuse, Done, IInv, TypeOK
  <2>3. ASSUME NEW s \in Session, Authenticate(q, s)
        PROVE  /\ request' \in [Request -> RequestRecord \cup {Idle}]
               /\ \A p \in Request \ {q} : request'[p] = request[p]
               /\ verified /\ open
               /\ request'[q].session = s /\ request'[q].refresh = session[s].refresh
    <3> DEFINE new == [session |-> s, password |-> password, refresh |-> session[s].refresh]
    <3>1. session[s].refresh \in 1..MaxTokens
      BY DEF IInv, TypeOK, SessionRecord
    <3>2. new \in RequestRecord
      BY <3>1, SessionsAssumption DEF IInv, TypeOK, RequestRecord
    <3> QED
      BY <2>3, <3>2 DEF Authenticate, Active, IInv, TypeOK, SessionsVerified
  <2>4. ASSUME NEW s \in Session, Authenticate(q, s)
        PROVE  session[s].status # "free" /\ session[s].refresh \in 1..MaxTokens
    BY <2>4 DEF Authenticate, Active, IInv, TypeOK, SessionRecord
  <2> QED
    BY <2>1, <2>2, <2>3, <2>4, SessionsAssumption
<1>3. TypeOK' /\ RequestsKnown'
  BY <1>1, <1>2 DEF IInv, TypeOK, RequestsKnown, Rest
<1> QED
  BY <1>1, <1>3
     DEF IInv, GraceKnown, OldPasswordEnds, Active, ResetLinksCurrent, SessionsVerified,
         ReuseJustified

\* A command forgets what its authentication read.
LEMMA DoneFacts ==
  ASSUME IInv, NEW q \in Request, Done(q)
  PROVE  /\ request' \in [Request -> RequestRecord \cup {Idle}]
         /\ \A p \in Request : request'[p] = request[p] \/ request'[p] = Idle
BY DEF Done, IInv, TypeOK

LEMMA RequestEmailInvariant == ASSUME IInv, NEW q \in Request, RequestEmail(q) PROVE IInv'
<1>1. UNCHANGED <<open, verified, password, session>>
  BY DEF RequestEmail
<1>2. /\ link' \in [Purpose -> LinkRecord]
      /\ link'["reset_password"].live => link'["reset_password"].password = password
  BY MailedFacts DEF RequestEmail, Purpose
<1>3. /\ request' \in [Request -> RequestRecord \cup {Idle}]
      /\ \A p \in Request : request'[p] = request[p] \/ request'[p] = Idle
  BY DoneFacts DEF RequestEmail
<1> QED
  BY <1>1, <1>2, <1>3
     DEF IInv, TypeOK, RequestsKnown, Rest, GraceKnown, OldPasswordEnds, Active,
         ResetLinksCurrent, SessionsVerified, ReuseJustified

-----------------------------------------------------------------------------
(* Sessions begin.                                                         *)

LEMMA OpenedFacts ==
  ASSUME IInv, NEW s \in Session, NEW p \in 1..MaxPasswords
  PROVE  /\ Opened(s, p) \in SessionRecord /\ Opened(s, p).status = "active"
         /\ Opened(s, p).password = password \/ Opened(s, p).late = TRUE
         /\ Opened(s, p).refresh = 1 /\ Opened(s, p).previous = 0
         /\ Opened(s, p).grace = FALSE /\ Opened(s, p).reused = FALSE
<1> DEFINE late == p # password
<1>1. Opened(s, p) = [Unopened EXCEPT !.status = "active", !.password = p, !.late = late]
  BY DEF Opened
<1>2. late \in BOOLEAN
  OBVIOUS
<1> HIDE DEF late
<1>3. Opened(s, p) = [status |-> "active", password |-> p, refresh |-> 1, previous |-> 0,
                      grace |-> FALSE, late |-> late, skewed |-> FALSE, reused |-> FALSE]
  BY <1>1 DEF Unopened
<1>4. Opened(s, p) \in SessionRecord
  BY <1>2, <1>3, Numbers DEF SessionRecord
<1>5. p = password \/ late = TRUE
  BY DEF late
<1> QED
  BY <1>3, <1>4, <1>5

\* A sign-in adds a session of the password it verified, a confirmed address
\* one of the password there is.
LEMMA OpenInvariant ==
  ASSUME IInv, NEW s \in Session, Verify(s) \/ \E q \in Request : SignIn(q, s)
  PROVE  IInv'
<1>1. /\ session[s].status = "free" /\ UNCHANGED <<open, password>>
      /\ \E p \in 1..MaxPasswords : session' = [session EXCEPT ![s] = Opened(s, p)]
      /\ verified' = TRUE
      /\ request' \in [Request -> RequestRecord \cup {Idle}]
      /\ \A p \in Request : request'[p] = request[p] \/ request'[p] = Idle
  <2>1. CASE Verify(s)
    BY <2>1 DEF Verify, IInv, TypeOK
  <2>2. ASSUME NEW q \in Request, SignIn(q, s)
        PROVE  /\ session[s].status = "free" /\ UNCHANGED <<open, password>>
               /\ \E p \in 1..MaxPasswords : session' = [session EXCEPT ![s] = Opened(s, p)]
               /\ verified' = TRUE
               /\ request' \in [Request -> RequestRecord \cup {Idle}]
               /\ \A p \in Request : request'[p] = request[p] \/ request'[p] = Idle
    <3>1. request[q] \in RequestRecord /\ verified = TRUE
      BY <2>2 DEF SignIn, IInv, TypeOK, RequestsKnown, Rest
    <3>2. request[q].password \in 1..MaxPasswords
      BY <3>1 DEF RequestRecord
    <3> QED
      BY <2>2, <3>1, <3>2, DoneFacts DEF SignIn
  <2> QED
    BY <2>1, <2>2
<1>2. /\ link' \in [Purpose -> LinkRecord]
      /\ link'["reset_password"].live => link'["reset_password"].password = password
  <2>1. link' = link \/ (link' = Used({"verify_email"}) /\ {"verify_email"} \in SUBSET Purpose)
    BY DEF Verify, SignIn, Purpose
  <2> QED
    BY <2>1, UsedFacts DEF IInv, TypeOK, ResetLinksCurrent, Purpose
<1>3. PICK p \in 1..MaxPasswords : session' = [session EXCEPT ![s] = Opened(s, p)]
  BY <1>1
<1>4. /\ session' \in [Session -> SessionRecord] /\ session'[s] = Opened(s, p)
      /\ \A x \in Session \ {s} : session'[x] = session[x]
  BY <1>3, OpenedFacts DEF IInv, TypeOK
<1>5. /\ session'[s].refresh = 1 /\ session'[s].previous = 0 /\ session'[s].grace = FALSE
      /\ session'[s].reused = FALSE /\ session'[s].status = "active"
      /\ session'[s].password = password' \/ session'[s].late = TRUE
  <2>1. password' = password /\ session'[s] = Opened(s, p)
    BY <1>1, <1>4
  <2> QED
    BY <2>1, OpenedFacts
<1>8. TypeOK'
  <2>1. \A x \in Session : session'[x].previous < session'[x].refresh
    BY <1>4, <1>5 DEF IInv, TypeOK
  <2> QED
    BY <1>1, <1>2, <1>4, <2>1 DEF IInv, TypeOK
<1>6. RequestsKnown' /\ SessionsVerified'
  BY <1>1, <1>4 DEF IInv, TypeOK, RequestsKnown, Rest, SessionsVerified
<1>7. GraceKnown' /\ ReuseJustified' /\ OldPasswordEnds'
  BY <1>1, <1>4, <1>5 DEF IInv, GraceKnown, ReuseJustified, OldPasswordEnds, Active
<1> QED
  BY <1>1, <1>2, <1>8, <1>6, <1>7 DEF IInv, ResetLinksCurrent

-----------------------------------------------------------------------------
(* Sessions end.                                                           *)

\* A command that ends sessions, and may forget links and a request.
LEMMA EndsInvariant ==
  ASSUME IInv, session' = [s \in Session |-> session'[s]], \A s \in Session : OnlyEnded(s),
         open' \in BOOLEAN, verified' = verified,
         request' \in [Request -> RequestRecord \cup {Idle}],
         \A q \in Request : request'[q] = request[q] \/ request'[q] = Idle,
         link' \in [Purpose -> LinkRecord],
         link'["reset_password"].live => link'["reset_password"].password = password',
         password' \in 1..MaxPasswords,
         password' = password \/ \A s \in Session : ~Active(s)',
         open' = open \/ \A s \in Session : ~Active(s)'
  PROVE  IInv'
<1>1. /\ session' \in [Session -> SessionRecord]
      /\ \A s \in Session : session'[s].previous < session'[s].refresh
      /\ GraceKnown' /\ ReuseJustified'
      /\ \A s \in Session :
            /\ session'[s].status # "free" <=> session[s].status # "free"
            /\ session[s].status = "revoked" => session'[s].status = "revoked"
            /\ session'[s].refresh = session[s].refresh
            /\ Active(s)' => Active(s) /\ session'[s] = session[s]
  BY EndsKeep
<1>2. TypeOK'
  BY <1>1 DEF IInv, TypeOK
<1>3. \A s \in Session : session'[s].status # "free" /\ ~Active(s)' =>
                            session'[s].status = "revoked"
  BY <1>1 DEF Active, SessionRecord
<1>4. RequestsKnown'
  BY <1>1, <1>3 DEF IInv, TypeOK, RequestsKnown, Rest
<1>5. OldPasswordEnds'
  BY <1>1 DEF IInv, OldPasswordEnds
<1>6. SessionsVerified'
  BY <1>1 DEF IInv, SessionsVerified
<1> QED
  BY <1>1, <1>2, <1>4, <1>5, <1>6 DEF IInv, ResetLinksCurrent

LEMMA EndSessionInvariant == ASSUME IInv, NEW s \in Session, EndSession(s) PROVE IInv'
<1>1. /\ session' = [x \in Session |-> session'[x]] /\ \A x \in Session : OnlyEnded(x)
  BY DEF EndSession, OnlyEnded, IInv, TypeOK
<1> QED
  BY <1>1, EndsInvariant DEF EndSession, IInv, TypeOK, ResetLinksCurrent

\* The commands that end the sessions of the account, all or all but one.
LEMMA RevokeInvariant ==
  ASSUME IInv, NEW q \in Request, RevokeSessions(q) \/ CloseAccount(q) PROVE IInv'
<1>1. /\ request' \in [Request -> RequestRecord \cup {Idle}]
      /\ \A p \in Request : request'[p] = request[p] \/ request'[p] = Idle
  BY DoneFacts DEF RevokeSessions, CloseAccount
<1>2. CASE RevokeSessions(q)
  <2>1. /\ session' = [x \in Session |-> session'[x]] /\ \A x \in Session : OnlyEnded(x)
    <3>1. ASSUME NEW s \in Session, Active(s), session' = [session EXCEPT ![s] = Revoked(@)]
          PROVE  session' = [x \in Session |-> session'[x]] /\ \A x \in Session : OnlyEnded(x)
      BY <3>1 DEF OnlyEnded, IInv, TypeOK
    <3>2. CASE session' = SessionsRevoked({request[q].session})
      BY <3>2, RevokedOnlyEnds DEF SessionsRevoked, OnlyEnded
    <3> QED
      BY <1>2, <3>1, <3>2 DEF RevokeSessions
  <2> QED
    BY <1>1, <1>2, <2>1, EndsInvariant DEF RevokeSessions, IInv, TypeOK, ResetLinksCurrent
<1>3. CASE CloseAccount(q)
  <2>1. /\ session' = [x \in Session |-> session'[x]] /\ \A x \in Session : OnlyEnded(x)
        /\ \A x \in Session : ~Active(x)'
    <3>1. session' = SessionsRevoked({})
      BY <1>3 DEF CloseAccount
    <3>2. ASSUME NEW x \in Session PROVE OnlyEnded(x) /\ ~Active(x)'
      <4>1. session[x] \in SessionRecord
        BY DEF IInv, TypeOK
      <4> QED
        BY <3>1, <4>1, RevokedFacts DEF SessionsRevoked, OnlyEnded, Active
    <3> QED
      BY <3>1, <3>2 DEF SessionsRevoked
  <2>2. link' \in [Purpose -> LinkRecord] /\ ~link'["reset_password"].live
    BY <1>3, UsedFacts DEF CloseAccount, Purpose
  <2> QED
    BY <1>1, <1>3, <2>1, <2>2, EndsInvariant DEF CloseAccount, IInv, TypeOK
<1> QED
  BY <1>2, <1>3

LEMMA ResetPasswordInvariant == ASSUME IInv, ResetPassword PROVE IInv'
<1>1. /\ session' = [x \in Session |-> session'[x]] /\ \A x \in Session : OnlyEnded(x)
      /\ \A x \in Session : ~Active(x)'
  <2>1. session' = SessionsRevoked({})
    BY DEF ResetPassword
  <2>2. ASSUME NEW x \in Session PROVE OnlyEnded(x) /\ ~Active(x)'
    <3>1. session[x] \in SessionRecord
      BY DEF IInv, TypeOK
    <3> QED
      BY <2>1, <3>1, RevokedFacts DEF SessionsRevoked, OnlyEnded, Active
  <2> QED
    BY <2>1, <2>2 DEF SessionsRevoked
<1>2. link' \in [Purpose -> LinkRecord] /\ ~link'["reset_password"].live
  <2>1. link' = Used({"reset_password"}) /\ {"reset_password"} \in SUBSET Purpose
    BY DEF ResetPassword, Purpose
  <2> QED
    BY <2>1, UsedFacts DEF Purpose
<1>3. password' \in 1..MaxPasswords
  BY SessionsAssumption DEF ResetPassword, IInv, TypeOK
<1> QED
  BY <1>1, <1>2, <1>3, EndsInvariant DEF ResetPassword, IInv, TypeOK

-----------------------------------------------------------------------------
(* Tokens are replaced.                                                    *)

\* One session changes and remains well formed; its token does not get older.
LEMMA OneSessionKeeps ==
  ASSUME IInv, NEW s \in Session, NEW new \in SessionRecord,
         Active(s), session' = [session EXCEPT ![s] = new],
         new.previous < new.refresh, session[s].refresh <= new.refresh,
         new.status \in {"active", "revoked"},
         new.grace => new.skewed \/ new.previous + 1 = new.refresh,
         new.reused => new.skewed,
         new.status = "active" => new.password = password \/ new.late,
         UNCHANGED <<open, verified, password, link, request>>
  PROVE  IInv'
<1>1. /\ session' \in [Session -> SessionRecord] /\ session'[s] = new
      /\ \A x \in Session \ {s} : session'[x] = session[x]
  BY DEF IInv, TypeOK
<1>2. TypeOK'
  BY <1>1 DEF IInv, TypeOK
<1>3. RequestsKnown'
  <2>1. ASSUME NEW q \in Request, ~Rest(q), request[q].session \in Session
        PROVE  /\ session'[request[q].session].status # "free"
               /\ request[q].refresh <= session'[request[q].session].refresh
               /\ open \/ session'[request[q].session].status = "revoked"
    <3>1. /\ session[request[q].session].status # "free"
          /\ request[q].refresh <= session[request[q].session].refresh
          /\ open \/ session[request[q].session].status = "revoked"
      BY <2>1 DEF IInv, RequestsKnown
    <3>2. CASE request[q].session # s
      BY <1>1, <2>1, <3>1, <3>2
    <3>3. CASE request[q].session = s
      <4>1. /\ request[q].refresh \in Nat /\ session[s].refresh \in Nat /\ new.refresh \in Nat
        BY <2>1 DEF IInv, TypeOK, Rest, RequestRecord, SessionRecord
      <4> QED
        BY <1>1, <3>1, <3>3, <4>1 DEF Active
    <3> QED
      BY <3>2, <3>3
  <2> QED
    BY <2>1 DEF IInv, RequestsKnown, Rest
<1>4. GraceKnown' /\ ReuseJustified' /\ OldPasswordEnds'
  BY <1>1 DEF IInv, GraceKnown, ReuseJustified, OldPasswordEnds, Active
<1>5. ResetLinksCurrent' /\ SessionsVerified'
  BY <1>1 DEF IInv, ResetLinksCurrent, SessionsVerified, Active
<1> QED
  BY <1>2, <1>3, <1>4, <1>5 DEF IInv

LEMMA GraceEndsInvariant == ASSUME IInv, NEW s \in Session, GraceEnds(s) PROVE IInv'
<1> DEFINE new == [session[s] EXCEPT !.grace = FALSE]
<1>1. session[s] \in SessionRecord /\ Active(s)
  BY DEF GraceEnds, IInv, TypeOK
<1>2. /\ new \in SessionRecord /\ new.grace = FALSE /\ new.status = "active"
      /\ new.previous = session[s].previous /\ new.refresh = session[s].refresh
      /\ new.reused = session[s].reused /\ new.skewed = session[s].skewed
      /\ new.password = session[s].password /\ new.late = session[s].late
  BY <1>1 DEF SessionRecord, Active
<1>3. session' = [session EXCEPT ![s] = new] /\ UNCHANGED <<open, verified, password, link, request>>
  BY DEF GraceEnds
<1>4. session[s].refresh \in Nat
  BY <1>1 DEF SessionRecord
<1> HIDE DEF new
<1>5. /\ new.previous < new.refresh /\ session[s].refresh <= new.refresh
      /\ new.status \in {"active", "revoked"}
      /\ new.grace => new.skewed \/ new.previous + 1 = new.refresh
      /\ new.reused => new.skewed
      /\ new.status = "active" => new.password = password \/ new.late
  BY <1>1, <1>2, <1>4 DEF IInv, TypeOK, ReuseJustified, OldPasswordEnds
<1> QED
  BY <1>1, <1>2, <1>3, <1>5, OneSessionKeeps

LEMMA RefreshInvariant ==
  ASSUME IInv, NEW s \in Session, NEW n \in 1..MaxTokens, Refresh(s, n) PROVE IInv'
<1>1. /\ session[s] \in SessionRecord /\ Active(s) /\ session[s].status = "active"
      /\ UNCHANGED <<open, verified, password, link, request>>
  BY DEF Refresh, Active, IInv, TypeOK
<1>2. session[s].refresh \in 1..MaxTokens /\ session[s].previous \in 0..MaxTokens
  BY <1>1 DEF SessionRecord
<1>3. session[s].previous < session[s].refresh
  BY DEF IInv, TypeOK
<1>4. /\ session[s].reused => session[s].skewed
      /\ session[s].password = password \/ session[s].late
      /\ session[s].grace => session[s].skewed \/ session[s].previous + 1 = session[s].refresh
  BY <1>1 DEF IInv, ReuseJustified, OldPasswordEnds, GraceKnown
<1>5. CASE /\ n = session[s].refresh /\ n < MaxTokens
           /\ session' = [session EXCEPT ![s].refresh = n + 1, ![s].previous = n,
                                         ![s].grace = TRUE]
  <2> DEFINE new == [session[s] EXCEPT !.refresh = n + 1, !.previous = n, !.grace = TRUE]
  <2>1. n + 1 \in 1..MaxTokens /\ n \in 0..MaxTokens /\ n < n + 1
    BY <1>5, SessionsAssumption
  <2>2. /\ new \in SessionRecord /\ new.status = "active" /\ new.refresh = n + 1
        /\ new.previous = n /\ new.reused = session[s].reused
        /\ new.skewed = session[s].skewed /\ new.password = session[s].password
        /\ new.late = session[s].late
    BY <1>1, <2>1 DEF SessionRecord
  <2>3. session' = [session EXCEPT ![s] = new]
    BY <1>5 DEF IInv, TypeOK
  <2> HIDE DEF new
  <2>4. /\ new.previous < new.refresh /\ session[s].refresh <= new.refresh
        /\ new.status \in {"active", "revoked"}
        /\ new.grace => new.skewed \/ new.previous + 1 = new.refresh
        /\ new.reused => new.skewed
        /\ new.status = "active" => new.password = password \/ new.late
    BY <1>2, <1>4, <1>5, <2>1, <2>2
  <2> QED
    BY <1>1, <2>2, <2>3, <2>4, OneSessionKeeps
<1>6. CASE /\ n # session[s].refresh /\ ~InGrace(s, n)
           /\ session' = [session EXCEPT ![s].status = "revoked",
                 ![s].reused = n + 1 = session[s].refresh /\ session[s].grace]
  <2> DEFINE reused == n + 1 = session[s].refresh /\ session[s].grace
             new == [session[s] EXCEPT !.status = "revoked", !.reused = reused]
  <2>1. session' = [session EXCEPT ![s] = new]
    BY <1>6 DEF IInv, TypeOK
  <2>2. reused \in BOOLEAN
    OBVIOUS
  <2>3. reused => session[s].skewed
    BY <1>2, <1>4, <1>6 DEF InGrace
  <2> HIDE DEF reused
  <2>4. /\ new \in SessionRecord /\ new.status = "revoked" /\ new.reused = reused
        /\ new.refresh = session[s].refresh /\ new.previous = session[s].previous
        /\ new.skewed = session[s].skewed /\ new.grace = session[s].grace
    BY <1>1, <2>2 DEF SessionRecord
  <2> HIDE DEF new
  <2>5. /\ new.previous < new.refresh /\ session[s].refresh <= new.refresh
        /\ new.status \in {"active", "revoked"}
        /\ new.grace => new.skewed \/ new.previous + 1 = new.refresh
        /\ new.reused => new.skewed
        /\ new.status = "active" => new.password = password \/ new.late
    BY <1>2, <1>3, <1>4, <2>3, <2>4
  <2> QED
    BY <1>1, <2>1, <2>4, <2>5, OneSessionKeeps
<1>7. CASE session' = [session EXCEPT ![s] = Revoked(@)]
  <2>1. EndSession(s)
    BY <1>1, <1>7 DEF EndSession
  <2> QED
    BY <2>1, EndSessionInvariant
<1> QED
  BY <1>5, <1>6, <1>7 DEF Refresh

\* What a command knows of the session it keeps.
LEMMA ChangeableFacts ==
  ASSUME IInv, NEW q \in Request, Changeable(q)
  PROVE  /\ request[q].session \in Session /\ Active(request[q].session) /\ ~Rest(q)
         /\ open /\ verified
         /\ session[request[q].session] \in SessionRecord
         /\ request[q].refresh \in 0..MaxTokens
         /\ session[request[q].session].refresh \in 1..MaxTokens
         /\ request[q].refresh <= session[request[q].session].refresh
         /\ session[request[q].session].refresh + 1 \in 1..MaxTokens
<1>1. request[q] \in RequestRecord /\ request[q] # Idle /\ request[q].session # NoSession
  BY DEF Changeable, Live, IInv, TypeOK
<1>2. request[q].session \in Session /\ request[q].refresh \in 0..MaxTokens
  BY <1>1 DEF RequestRecord
<1>3. session[request[q].session] \in SessionRecord /\ Active(request[q].session)
  BY <1>2 DEF Changeable, Live, IInv, TypeOK
<1>4. session[request[q].session].refresh \in 1..MaxTokens
  BY <1>3 DEF SessionRecord
<1>5. session[request[q].session].refresh + 1 \in 1..MaxTokens
  BY <1>4, SessionsAssumption DEF Changeable
<1> QED
  BY <1>1, <1>2, <1>3, <1>4, <1>5 DEF IInv, RequestsKnown, Rest, Active

\* The session that is kept, s, gets its new record; every other one ends.
KeptIs(s, new) ==
  session' = [x \in Session |-> IF x = s THEN new
                                ELSE IF Active(x) THEN Revoked(session[x]) ELSE session[x]]

LEMMA RotationKeeps ==
  ASSUME IInv, NEW s \in Session, NEW new \in SessionRecord,
         Active(s), open, open' = open, verified' = TRUE, KeptIs(s, new),
         new.status = "active", new.previous < new.refresh,
         session[s].refresh <= new.refresh,
         new.grace => new.skewed \/ new.previous + 1 = new.refresh,
         new.reused => new.skewed, new.password = password' \/ new.late,
         password' \in 1..MaxPasswords,
         link' \in [Purpose -> LinkRecord],
         link'["reset_password"].live => link'["reset_password"].password = password',
         request' \in [Request -> RequestRecord \cup {Idle}],
         \A q \in Request : request'[q] = request[q] \/ request'[q] = Idle
  PROVE  IInv'
<1>1. session'[s] = new
  BY DEF KeptIs
<1>2. ASSUME NEW x \in Session \ {s}
      PROVE  /\ session'[x] \in SessionRecord /\ ~Active(x)'
             /\ session'[x].refresh = session[x].refresh
             /\ session'[x].previous = session[x].previous
             /\ session'[x].grace = session[x].grace
             /\ session'[x].skewed = session[x].skewed
             /\ session'[x].reused = session[x].reused
             /\ session[x].status # "free" => session'[x].status # "free"
  <2>1. session[x] \in SessionRecord
    BY DEF IInv, TypeOK
  <2>2. session'[x] = Revoked(session[x]) \/ (~Active(x) /\ session'[x] = session[x])
    BY DEF KeptIs
  <2> QED
    BY <2>1, <2>2, RevokedFacts DEF Active
<1>3. session' \in [Session -> SessionRecord]
  BY <1>1, <1>2 DEF KeptIs
<1>4. TypeOK'
  <2>1. \A x \in Session : session'[x].previous < session'[x].refresh
    BY <1>1, <1>2 DEF IInv, TypeOK
  <2> QED
    BY <1>3, <2>1 DEF IInv, TypeOK
<1>5. RequestsKnown'
  <2>1. ASSUME NEW q \in Request, ~Rest(q), request[q].session \in Session
        PROVE  /\ session'[request[q].session].status # "free"
               /\ request[q].refresh <= session'[request[q].session].refresh
    <3>1. /\ session[request[q].session].status # "free"
          /\ request[q].refresh <= session[request[q].session].refresh
      BY <2>1 DEF IInv, RequestsKnown
    <3>2. CASE request[q].session # s
      BY <1>2, <2>1, <3>1, <3>2
    <3>3. CASE request[q].session = s
      <4>1. request[q].refresh \in Nat /\ session[s].refresh \in Nat /\ new.refresh \in Nat
        BY <2>1 DEF IInv, TypeOK, Rest, RequestRecord, SessionRecord
      <4> QED
        BY <1>1, <3>1, <3>3, <4>1
    <3> QED
      BY <3>2, <3>3
  <2> QED
    BY <2>1 DEF RequestsKnown, Rest
<1>6. GraceKnown' /\ ReuseJustified'
  BY <1>1, <1>2 DEF IInv, GraceKnown, ReuseJustified
<1>7. OldPasswordEnds'
  BY <1>1, <1>2 DEF OldPasswordEnds
<1> QED
  BY <1>4, <1>5, <1>6, <1>7 DEF IInv, ResetLinksCurrent, SessionsVerified

\* The record of the session a command keeps.
LEMMA RotatedFacts ==
  ASSUME IInv, NEW q \in Request, Changeable(q)
  PROVE  LET s == request[q].session IN
         /\ Rotated(q) = [x \in Session |->
              IF x = s THEN Rotated(q)[s]
              ELSE IF Active(x) THEN Revoked(session[x]) ELSE session[x]]
         /\ Rotated(q)[s] \in SessionRecord
         /\ Rotated(q)[s].status = "active"
         /\ Rotated(q)[s].refresh = session[s].refresh + 1
         /\ Rotated(q)[s].previous = request[q].refresh
         /\ Rotated(q)[s].skewed \/ request[q].refresh = session[s].refresh
         /\ Rotated(q)[s].reused => Rotated(q)[s].skewed
         /\ Rotated(q)[s].password = session[s].password
         /\ Rotated(q)[s].late = session[s].late
<1> DEFINE s == request[q].session
           skewed == session[s].skewed \/ request[q].refresh # session[s].refresh
           new == [session[s] EXCEPT !.refresh = session[s].refresh + 1,
                     !.previous = request[q].refresh, !.grace = TRUE, !.skewed = skewed]
<1>1. /\ s \in Session /\ Active(s) /\ session[s] \in SessionRecord
      /\ request[q].refresh \in 0..MaxTokens /\ session[s].refresh + 1 \in 1..MaxTokens
  BY ChangeableFacts
<1>2. skewed \in BOOLEAN
  OBVIOUS
<1>3. session[s].reused => session[s].skewed
  BY <1>1 DEF IInv, ReuseJustified
<1>4. SessionsRevoked({s})[s] = session[s]
  BY <1>1 DEF SessionsRevoked
<1>5. Rotated(q) = [SessionsRevoked({s}) EXCEPT ![s] = new]
  BY <1>1, <1>4 DEF Rotated, SessionsRevoked
<1>6. /\ skewed \/ request[q].refresh = session[s].refresh
      /\ session[s].reused => skewed
  BY <1>3
<1> HIDE DEF skewed
<1>7. /\ new \in SessionRecord /\ new.status = "active"
      /\ new.refresh = session[s].refresh + 1 /\ new.previous = request[q].refresh
      /\ new.skewed = skewed /\ new.reused = session[s].reused
      /\ new.password = session[s].password /\ new.late = session[s].late
  BY <1>1, <1>2 DEF SessionRecord, Active
<1> HIDE DEF new
<1>8. Rotated(q) = [x \in Session |->
         IF x = s THEN new ELSE IF Active(x) THEN Revoked(session[x]) ELSE session[x]]
  BY <1>1, <1>5 DEF SessionsRevoked
<1>9. Rotated(q)[s] = new
  BY <1>1, <1>8
<1> QED
  BY <1>6, <1>7, <1>8, <1>9

LEMMA ChangePasswordInvariant == ASSUME IInv, NEW q \in Request, ChangePassword(q) PROVE IInv'
<1> DEFINE s == request[q].session
           old == Rotated(q)[s]
           new == [old EXCEPT !.password = password + 1]
<1>1. /\ s \in Session /\ Active(s) /\ open /\ verified
      /\ session[s].refresh \in 1..MaxTokens /\ request[q].refresh \in 0..MaxTokens
      /\ request[q].refresh <= session[s].refresh /\ Changeable(q)
  BY ChangeableFacts DEF ChangePassword
<1>2. password + 1 \in 1..MaxPasswords /\ password' = password + 1
  BY SessionsAssumption DEF ChangePassword, IInv, TypeOK
<1>3. /\ Rotated(q) = [x \in Session |->
           IF x = s THEN old ELSE IF Active(x) THEN Revoked(session[x]) ELSE session[x]]
      /\ old \in SessionRecord /\ old.status = "active"
      /\ old.refresh = session[s].refresh + 1 /\ old.previous = request[q].refresh
      /\ old.skewed \/ request[q].refresh = session[s].refresh
      /\ old.reused => old.skewed
  BY <1>1, RotatedFacts
<1>4. session' = [Rotated(q) EXCEPT ![s] = [@ EXCEPT !.password = password + 1]]
  BY DEF ChangePassword
<1> HIDE DEF old
<1>5. KeptIs(s, new)
  BY <1>1, <1>3, <1>4 DEF KeptIs
<1>6. /\ new \in SessionRecord /\ new.status = "active" /\ new.refresh = old.refresh
      /\ new.previous = old.previous /\ new.skewed = old.skewed /\ new.reused = old.reused
      /\ new.password = password + 1
  BY <1>2, <1>3 DEF SessionRecord
<1> HIDE DEF new
<1>7. /\ new.previous < new.refresh /\ session[s].refresh <= new.refresh
      /\ new.skewed \/ new.previous + 1 = new.refresh
      /\ new.reused => new.skewed /\ new.password = password'
  BY <1>1, <1>2, <1>3, <1>6
<1>8. link' \in [Purpose -> LinkRecord] /\ ~link'["reset_password"].live
  <2>1. link' = Used({"reset_password"}) /\ {"reset_password"} \in SUBSET Purpose
    BY DEF ChangePassword, LinksAfterChange, Purpose
  <2> QED
    BY <2>1, UsedFacts DEF Purpose
<1>9. /\ request' \in [Request -> RequestRecord \cup {Idle}]
      /\ \A p \in Request : request'[p] = request[p] \/ request'[p] = Idle
  BY DoneFacts DEF ChangePassword
<1>10. open' = open /\ verified' = TRUE
  BY <1>1 DEF ChangePassword, IInv, TypeOK
<1> HIDE DEF s
<1> QED
  BY <1>1, <1>2, <1>5, <1>6, <1>7, <1>8, <1>9, <1>10, RotationKeeps

LEMMA ConfirmEmailInvariant == ASSUME IInv, NEW q \in Request, ConfirmEmail(q) PROVE IInv'
<1> DEFINE s == request[q].session
           new == Rotated(q)[s]
<1>1. /\ s \in Session /\ Active(s) /\ open
      /\ session[s].refresh \in 1..MaxTokens /\ request[q].refresh \in 0..MaxTokens
      /\ request[q].refresh <= session[s].refresh /\ Changeable(q)
  BY ChangeableFacts DEF ConfirmEmail
<1>2. /\ Rotated(q) = [x \in Session |->
           IF x = s THEN new ELSE IF Active(x) THEN Revoked(session[x]) ELSE session[x]]
      /\ new \in SessionRecord /\ new.status = "active"
      /\ new.refresh = session[s].refresh + 1 /\ new.previous = request[q].refresh
      /\ new.skewed \/ request[q].refresh = session[s].refresh
      /\ new.reused => new.skewed
      /\ new.password = session[s].password /\ new.late = session[s].late
  BY <1>1, RotatedFacts
<1>3. session' = Rotated(q)
  BY DEF ConfirmEmail
<1> HIDE DEF new
<1>4. KeptIs(s, new)
  BY <1>2, <1>3 DEF KeptIs
<1>5. session[s].password = password \/ session[s].late
  BY <1>1 DEF IInv, OldPasswordEnds
<1>6. /\ new.previous < new.refresh /\ session[s].refresh <= new.refresh
      /\ new.skewed \/ new.previous + 1 = new.refresh
  BY <1>1, <1>2
<1>7. link' \in [Purpose -> LinkRecord] /\ (link'["reset_password"].live =>
        link'["reset_password"].password = password)
  <2>1. link' = Used({"change_email"}) /\ {"change_email"} \in SUBSET Purpose
    BY DEF ConfirmEmail, Purpose
  <2> QED
    BY <2>1, UsedFacts DEF IInv, ResetLinksCurrent, Purpose
<1>8. /\ request' \in [Request -> RequestRecord \cup {Idle}]
      /\ \A p \in Request : request'[p] = request[p] \/ request'[p] = Idle
  BY DoneFacts DEF ConfirmEmail
<1>9. /\ open' = open /\ verified' = TRUE /\ password' = password
      /\ password' \in 1..MaxPasswords
  BY DEF ConfirmEmail, IInv, TypeOK
<1> HIDE DEF s
<1> QED
  BY <1>1, <1>2, <1>4, <1>5, <1>6, <1>7, <1>8, <1>9, RotationKeeps

-----------------------------------------------------------------------------
(* The specification.                                                      *)

LEMMA StutterInvariant == ASSUME IInv, UNCHANGED vars PROVE IInv'
BY DEF vars, IInv, TypeOK, RequestsKnown, Rest, GraceKnown, OldPasswordEnds, Active,
       ResetLinksCurrent, SessionsVerified, ReuseJustified

LEMMA StepInvariant == ASSUME IInv, [Next]_vars PROVE IInv'
<1>1. CASE LinkStep
  BY <1>1, LinkInvariant, ResetPasswordInvariant, OpenInvariant DEF LinkStep
<1>2. ASSUME NEW s \in Session, SessionStep(s) PROVE IInv'
  BY <1>2, EndSessionInvariant, GraceEndsInvariant, RefreshInvariant DEF SessionStep
<1>3. ASSUME NEW q \in Request, RequestStep(q) PROVE IInv'
  BY <1>3, RequestInvariant, OpenInvariant, ChangePasswordInvariant,
     RequestEmailInvariant, ConfirmEmailInvariant, RevokeInvariant DEF RequestStep
<1>4. CASE UNCHANGED vars
  BY <1>4, StutterInvariant
<1> QED
  BY <1>1, <1>2, <1>3, <1>4 DEF Next

\* What the requests read, the tokens, the links and the sessions fit together
\* in every reachable state.
THEOREM SessionsInvariant == Spec => []IInv
<1>1. Init => IInv
  BY InitInvariant
<1>2. IInv /\ [Next]_vars => IInv'
  BY StepInvariant
<1> QED
  BY <1>1, <1>2, PTL DEF Spec

\* No link outlives the password it was asked for under and no session comes
\* before the address is confirmed (users/service.py, users/password_recovery).
THEOREM SessionsConsistent == Spec => []Consistent
<1>1. IInv => Consistent
  BY DEF IInv, Consistent
<1> QED
  BY <1>1, SessionsInvariant, PTL

\* A new password ends the sessions opened with an older one, but for those
\* whose sign-in had verified it before.
THEOREM OldPasswordsEnd == Spec => []OldPasswordEnds
<1>1. IInv => OldPasswordEnds
  BY DEF IInv
<1> QED
  BY <1>1, SessionsInvariant, PTL

\* Honest refreshes that race end no session, unless a command had replaced
\* the token it read while another was current.
THEOREM ReusesJustified == Spec => []ReuseJustified
<1>1. IInv => ReuseJustified
  BY DEF IInv
<1> QED
  BY <1>1, SessionsInvariant, PTL

\* A session that has ended is not touched again by any step.
LEMMA RevokedStays ==
  ASSUME IInv, Next, NEW s \in Session, session[s].status = "revoked"
  PROVE  session'[s] = session[s]
<1>1. ~Active(s) /\ session[s].status # "free"
  BY DEF Active
<1>2. ASSUME NEW x \in Session, NEW y \in SessionRecord,
             session[x].status # "revoked", session' = [session EXCEPT ![x] = y]
      PROVE  session'[s] = session[s]
  BY <1>2 DEF IInv, TypeOK
<1>3. ASSUME NEW keep, session' = SessionsRevoked(keep) PROVE session'[s] = session[s]
  BY <1>1, <1>3 DEF SessionsRevoked
<1>4. CASE LinkStep
  <2>1. CASE SendVerification \/ RequestReset \/ \E p \in Purpose : ExpireLink(p)
    BY <2>1 DEF SendVerification, RequestReset, ExpireLink
  <2>2. CASE ResetPassword
    BY <2>2, <1>3 DEF ResetPassword
  <2>3. ASSUME NEW x \in Session, Verify(x) PROVE session'[s] = session[s]
    BY <1>1, <2>3 DEF Verify, IInv, TypeOK
  <2> QED
    BY <1>4, <2>1, <2>2, <2>3 DEF LinkStep
<1>5. ASSUME NEW x \in Session, SessionStep(x) PROVE session'[s] = session[s]
  BY <1>1, <1>5 DEF SessionStep, EndSession, GraceEnds, Refresh, IInv, TypeOK
<1>6. ASSUME NEW q \in Request, RequestStep(q) PROVE session'[s] = session[s]
  <2>1. CASE VerifyPassword(q) \/ Refuse(q) \/ RequestEmail(q)
             \/ \E x \in Session : Authenticate(q, x)
    BY <2>1 DEF VerifyPassword, Refuse, RequestEmail, Authenticate
  <2>2. ASSUME NEW x \in Session, SignIn(q, x) PROVE session'[s] = session[s]
    BY <1>1, <2>2 DEF SignIn, IInv, TypeOK
  <2>3. CASE ChangePassword(q) \/ ConfirmEmail(q)
    <3>1. Changeable(q) /\ Active(request[q].session)
      BY <2>3, ChangeableFacts DEF ChangePassword, ConfirmEmail
    <3>2. s # request[q].session
      BY <1>1, <3>1
    <3>3. Rotated(q)[s] = session[s]
      BY <1>1, <3>2 DEF Rotated, SessionsRevoked
    <3> QED
      BY <2>3, <3>2, <3>3 DEF ChangePassword, ConfirmEmail, Rotated, SessionsRevoked
  <2>4. CASE RevokeSessions(q)
    <3>1. ASSUME NEW x \in Session, Active(x), session' = [session EXCEPT ![x] = Revoked(@)]
          PROVE  session'[s] = session[s]
      BY <1>1, <3>1 DEF IInv, TypeOK
    <3> QED
      BY <1>3, <2>4, <3>1 DEF RevokeSessions
  <2>5. CASE CloseAccount(q)
    BY <1>3, <2>5 DEF CloseAccount
  <2> QED
    BY <1>6, <2>1, <2>2, <2>3, <2>4, <2>5 DEF RequestStep
<1> QED
  BY <1>4, <1>5, <1>6 DEF Next

\* A closed account is not touched again.
LEMMA ClosedStays ==
  ASSUME IInv, Next, ~open PROVE UNCHANGED <<open, verified, password>>
<1>1. CASE LinkStep
  BY <1>1 DEF LinkStep, SendVerification, RequestReset, ResetPassword, Verify, ExpireLink
<1>2. ASSUME NEW s \in Session, SessionStep(s) PROVE UNCHANGED <<open, verified, password>>
  BY <1>2 DEF SessionStep, EndSession, GraceEnds, Refresh
<1>3. ASSUME NEW q \in Request, RequestStep(q) PROVE UNCHANGED <<open, verified, password>>
  <2>1. ~Changeable(q)
    BY ChangeableFacts
  <2>2. open = FALSE
    BY DEF IInv, TypeOK
  <2> QED
    BY <1>3, <2>1, <2>2
       DEF RequestStep, VerifyPassword, Refuse, SignIn, Authenticate, ChangePassword,
           RequestEmail, ConfirmEmail, RevokeSessions, CloseAccount
<1> QED
  BY <1>1, <1>2, <1>3 DEF Next

\* What has ended stays ended: commands authenticated before a closing change
\* neither the account nor a session that is revoked.
THEOREM EndsAreFinal == Spec => EndIsFinal
<1> DEFINE Final == /\ ~open => UNCHANGED <<open, verified, password>>
                    /\ \A s \in Session :
                         session[s].status = "revoked" => session'[s] = session[s]
<1>1. IInv /\ [Next]_vars => [Final]_vars
  BY RevokedStays, ClosedStays
<1> QED
  BY <1>1, SessionsInvariant, PTL DEF Spec, EndIsFinal
=============================================================================
