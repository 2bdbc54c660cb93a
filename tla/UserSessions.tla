---------------------------- MODULE UserSessions ----------------------------
(***************************************************************************)
(* The password, the mailed links and the web sessions of one account      *)
(* (features/users): signing in, rotation of the refresh token, change and *)
(* reset of the password, change of the e-mail, closing of the account.    *)
(* Accounts share no row, so there is one.                                 *)
(*                                                                         *)
(* A sign-in reads the account and verifies the password without a lock;   *)
(* the session is added later.  A request to the account reads the session *)
(* and the account when it is authenticated; its command then locks the    *)
(* rows, but the objects read before are not refreshed (the session keeps  *)
(* one identity map), so the password hash and the refresh token it uses   *)
(* are those of the authentication, while the filters of its queries are   *)
(* evaluated by the database.  From the first lock on a command is one     *)
(* step: every command that changes the password or closes the account     *)
(* holds the lock of the account.                                          *)
(*                                                                         *)
(* Passwords and refresh tokens are counted in the order they were made.   *)
(* Rate limits, and the renewal of a hash with outdated parameters at a    *)
(* sign-in, are left out.                                                  *)
(***************************************************************************)
EXTENDS Naturals, FiniteSets

CONSTANTS
    Session, Request,
    MaxPasswords,   \* passwords the account has in turn, bound of the model
    MaxTokens,      \* refresh tokens a session has in turn, bound of the model
    NoSession, Idle

ASSUME SessionsAssumption ==
    /\ MaxPasswords \in Nat \ {0}
    /\ MaxTokens \in Nat \ {0}
    /\ NoSession \notin Session

Purpose == {"verify_email", "reset_password", "change_email"}

\* A link is live until it is consumed, replaced or expired; a user has one
\* live link for a purpose.  password is the one it was asked for under.
LinkRecord == [live : BOOLEAN, password : 1..MaxPasswords]

\* password: the one the session was opened with, or that was set in it;
\* late: its sign-in verified a password that was replaced before it was added;
\* skewed: its token was replaced by a command that had read an older one;
\* reused: it was ended because a token came back that was just replaced.
SessionRecord ==
    [status : {"free", "active", "revoked"}, password : 1..MaxPasswords,
     refresh : 1..MaxTokens, previous : 0..MaxTokens, grace : BOOLEAN,
     late : BOOLEAN, skewed : BOOLEAN, reused : BOOLEAN]

\* What a sign-in verified, or what the authentication of a request read.
RequestRecord ==
    [session : Session \cup {NoSession}, password : 1..MaxPasswords, refresh : 0..MaxTokens]

VARIABLES
    open,       \* is_active
    verified,   \* email_verified_at is set
    password,   \* which of its passwords the account has
    link, session, request

vars == <<open, verified, password, link, session, request>>

TypeOK ==
    /\ open \in BOOLEAN
    /\ verified \in BOOLEAN
    /\ password \in 1..MaxPasswords
    /\ link \in [Purpose -> LinkRecord]
    /\ session \in [Session -> SessionRecord]
    /\ \A s \in Session : session[s].previous < session[s].refresh
    /\ request \in [Request -> RequestRecord \cup {Idle}]

Unopened ==
    [status |-> "free", password |-> 1, refresh |-> 1, previous |-> 0, grace |-> FALSE,
     late |-> FALSE, skewed |-> FALSE, reused |-> FALSE]

\* request_signup made the account and its first link.
Init ==
    /\ open = TRUE
    /\ verified = FALSE
    /\ password = 1
    /\ link = [p \in Purpose |-> [live |-> p = "verify_email", password |-> 1]]
    /\ session = [s \in Session |-> Unopened]
    /\ request = [q \in Request |-> Idle]

-----------------------------------------------------------------------------
Active(s) == session[s].status = "active"

\* get_active_session_for_update
Live(q) ==
    /\ request[q] # Idle /\ request[q].session # NoSession
    /\ Active(request[q].session)

Revoked(r) == [r EXCEPT !.status = "revoked"]

\* revoke_all_sessions, revoke_other_sessions: all but those of keep
SessionsRevoked(keep) ==
    [s \in Session |-> IF Active(s) /\ s \notin keep THEN Revoked(session[s]) ELSE session[s]]

\* replace_active, under the lock of the account
Mailed(p) == link' = [link EXCEPT ![p] = [live |-> TRUE, password |-> password]]

\* consume_active_for_user
Used(ps) == [p \in Purpose |-> IF p \in ps THEN [link[p] EXCEPT !.live = FALSE] ELSE link[p]]

Done(q) == request' = [request EXCEPT ![q] = Idle]

\* _create_login_session_record
Opened(s, p) ==
    [Unopened EXCEPT !.status = "active", !.password = p, !.late = p # password]

-----------------------------------------------------------------------------
(* Mailed links.                                                           *)

\* request_resend
SendVerification ==
    /\ open /\ ~verified
    /\ Mailed("verify_email")
    /\ UNCHANGED <<open, verified, password, session, request>>

\* verify: the address is confirmed and a session opened.
Verify(s) ==
    /\ link["verify_email"].live /\ open /\ ~verified
    /\ session[s].status = "free"
    /\ verified' = TRUE
    /\ link' = Used({"verify_email"})
    /\ session' = [session EXCEPT ![s] = Opened(s, password)]
    /\ UNCHANGED <<open, password, request>>

\* request_reset
RequestReset ==
    /\ open /\ verified
    /\ Mailed("reset_password")
    /\ UNCHANGED <<open, verified, password, session, request>>

\* Mutant: the sessions are left to expire.
ResetPasswordOnly ==
    /\ link["reset_password"].live /\ open /\ verified
    /\ password < MaxPasswords
    /\ password' = password + 1
    /\ link' = Used({"reset_password"})
    /\ UNCHANGED <<open, verified, session, request>>

\* reset_password: the link is consumed, the account locked, every session ended.
ResetPassword ==
    /\ link["reset_password"].live /\ open /\ verified
    /\ password < MaxPasswords
    /\ password' = password + 1
    /\ link' = Used({"reset_password"})
    /\ session' = SessionsRevoked({})
    /\ UNCHANGED <<open, verified, request>>

ExpireLink(p) ==
    /\ link[p].live
    /\ link' = Used({p})
    /\ UNCHANGED <<open, verified, password, session, request>>

-----------------------------------------------------------------------------
(* Sessions.                                                               *)

\* What login looks at beside the password.
Admitted == open /\ verified

\* login, up to the verified password
VerifyPassword(q) ==
    /\ request[q] = Idle
    /\ Admitted
    /\ request' = [request EXCEPT ![q] =
                      [session |-> NoSession, password |-> password, refresh |-> 0]]
    /\ UNCHANGED <<open, verified, password, link, session>>

\* login, the rest
SignIn(q, s) ==
    /\ request[q] # Idle /\ request[q].session = NoSession
    /\ session[s].status = "free"
    /\ session' = [session EXCEPT ![s] = Opened(s, request[q].password)]
    /\ Done(q)
    /\ UNCHANGED <<open, verified, password, link>>

\* logout, expiry and idleness; a session of a closed account is ended when it
\* is next used.
EndSession(s) ==
    /\ Active(s)
    /\ session' = [session EXCEPT ![s] = Revoked(@)]
    /\ UNCHANGED <<open, verified, password, link, request>>

\* Mutant: the token just replaced ends the session at once.
InGraceNever(s, n) == FALSE

\* refresh_reuse_grace_seconds after a rotation its previous token is tolerated.
InGrace(s, n) == n = session[s].previous /\ session[s].grace

\* refresh, with any token the session ever had
Refresh(s, n) ==
    /\ Active(s) /\ n <= session[s].refresh
    /\ \/ /\ open /\ n = session[s].refresh /\ n < MaxTokens
          /\ session' = [session EXCEPT ![s].refresh = n + 1, ![s].previous = n,
                                        ![s].grace = TRUE]
       \/ /\ open /\ n # session[s].refresh /\ ~InGrace(s, n)
          /\ session' = [session EXCEPT ![s].status = "revoked",
                ![s].reused = n + 1 = session[s].refresh /\ session[s].grace]
       \/ /\ ~open
          /\ session' = [session EXCEPT ![s] = Revoked(@)]
    /\ UNCHANGED <<open, verified, password, link, request>>

GraceEnds(s) ==
    /\ Active(s) /\ session[s].grace
    /\ session' = [session EXCEPT ![s].grace = FALSE]
    /\ UNCHANGED <<open, verified, password, link, request>>

-----------------------------------------------------------------------------
(* Requests to the account.                                                *)

Authenticate(q, s) ==
    /\ request[q] = Idle
    /\ Active(s) /\ open
    /\ request' = [request EXCEPT ![q] =
          [session |-> s, password |-> password, refresh |-> session[s].refresh]]
    /\ UNCHANGED <<open, verified, password, link, session>>

Refuse(q) ==
    /\ request[q] # Idle
    /\ Done(q)
    /\ UNCHANGED <<open, verified, password, link, session>>

\* The session a command of q keeps gets a new refresh token; the one it
\* replaces is taken from the object that the authentication read.
Rotated(q) ==
    LET s == request[q].session IN
    [SessionsRevoked({s}) EXCEPT
        ![s].refresh = @ + 1,
        ![s].previous = request[q].refresh,
        ![s].grace = TRUE,
        ![s].skewed = @ \/ request[q].refresh # session[s].refresh]

\* Mutant: any session of the account that was authenticated will do.
ChangeableFrom(q) == request[q] # Idle /\ request[q].session # NoSession

\* The session must be active when it is locked; a new token is made for it.
Changeable(q) == Live(q) /\ session[request[q].session].refresh < MaxTokens

\* Mutant: a reset link that is on its way stays live.
LinksAfterChangeKept == link

LinksAfterChange == Used({"reset_password"})

\* change_password; the password given is compared with the hash that was read.
ChangePassword(q) ==
    /\ Changeable(q)
    /\ password < MaxPasswords
    /\ password' = password + 1
    /\ link' = LinksAfterChange
    /\ session' = [Rotated(q) EXCEPT ![request[q].session].password = password + 1]
    /\ Done(q)
    /\ UNCHANGED <<open, verified>>

\* request_change asks for the password that was read, not for the session.
RequestEmail(q) ==
    /\ request[q] # Idle /\ request[q].session # NoSession
    /\ Mailed("change_email")
    /\ Done(q)
    /\ UNCHANGED <<open, verified, password, session>>

\* confirm_change
ConfirmEmail(q) ==
    /\ Changeable(q)
    /\ link["change_email"].live
    /\ verified' = TRUE
    /\ link' = Used({"change_email"})
    /\ session' = Rotated(q)
    /\ Done(q)
    /\ UNCHANGED <<open, password>>

\* UserSessionService.revoke and revoke_others
RevokeSessions(q) ==
    /\ request[q] # Idle /\ request[q].session # NoSession
    /\ \/ \E s \in Session \ {request[q].session} :
             /\ Active(s)
             /\ session' = [session EXCEPT ![s] = Revoked(@)]
       \/ session' = SessionsRevoked({request[q].session})
    /\ Done(q)
    /\ UNCHANGED <<open, verified, password, link>>

\* AccountDeactivationService.deactivate, when nothing blocks it
CloseAccount(q) ==
    /\ request[q] # Idle /\ request[q].session # NoSession
    /\ open' = FALSE
    /\ link' = Used(Purpose)
    /\ session' = SessionsRevoked({})
    /\ Done(q)
    /\ UNCHANGED <<verified, password>>

-----------------------------------------------------------------------------
LinkStep ==
    \/ SendVerification \/ RequestReset \/ ResetPassword
    \/ \E s \in Session : Verify(s)
    \/ \E p \in Purpose : ExpireLink(p)

SessionStep(s) ==
    \/ EndSession(s) \/ GraceEnds(s)
    \/ \E n \in 1..MaxTokens : Refresh(s, n)

RequestStep(q) ==
    \/ VerifyPassword(q) \/ Refuse(q)
    \/ \E s \in Session : SignIn(q, s) \/ Authenticate(q, s)
    \/ ChangePassword(q) \/ RequestEmail(q) \/ ConfirmEmail(q)
    \/ RevokeSessions(q) \/ CloseAccount(q)

Next ==
    \/ LinkStep
    \/ \E s \in Session : SessionStep(s)
    \/ \E q \in Request : RequestStep(q)

Spec == Init /\ [][Next]_vars

-----------------------------------------------------------------------------
\* A new password ends the sessions opened with an older one
\* (frontend/app/routes/auth-reset-password.tsx:74), except one whose sign-in
\* had verified the old password and was added after it was replaced.
OldPasswordEnds ==
    \A s \in Session : Active(s) => session[s].password = password \/ session[s].late

\* A reset link dies with the password it was asked for under, whichever way
\* the password is replaced: an older mail never undoes a newer password.
ResetLinksCurrent ==
    link["reset_password"].live => link["reset_password"].password = password

\* No session exists before the address is confirmed, also none that a sign-in
\* adds later than it checked this.
SessionsVerified == \A s \in Session : session[s].status # "free" => verified

\* Two tabs that refresh at the same time do not sign the user out: only a
\* session whose token was replaced by a command that had read an older one can
\* be ended by the token that was current just before.
ReuseJustified == \A s \in Session : session[s].reused => session[s].skewed

\* Commands that were authenticated before come too late: the account stays as
\* it was closed, and a session that has ended gets no new token and no new life.
EndIsFinal ==
    [][/\ ~open => UNCHANGED <<open, verified, password>>
       /\ \A s \in Session : session[s].status = "revoked" => session'[s] = session[s]]_vars

\* Links and sessions agree with the account: no link outlives the password it
\* was asked for under, no session comes before the address is confirmed.
Consistent == TypeOK /\ ResetLinksCurrent /\ SessionsVerified
=============================================================================
