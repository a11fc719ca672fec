------------------------------ MODULE SignIn ------------------------------
(***************************************************************************)
(* One account: logins, its sessions and access tokens, and everything     *)
(* that is meant to end them (app/services/auth.py, sessions.py and their  *)
(* callers in leaving.py, platform.py, password_reset.py, organisations.py *)
(* and cli.py).                                                            *)
(*                                                                         *)
(* A login reads the user row and checks the password outside any          *)
(* transaction; its transaction comes later.  Each transaction is one      *)
(* action: open_session's DELETE locks the user's range of the             *)
(* (user_id, last_used_at) index and revoke_all needs the same rows, so    *)
(* two of them never interleave.  Refresh-token generations are the        *)
(* subject of module RefreshRotation.                                      *)
(***************************************************************************)
EXTENDS Naturals, Sequences, FiniteSets, SequencesExt

CONSTANTS Logins,       \* login and change-password requests in flight at once
          SessionIds,   \* auth_sessions.id; random, never reused
          Passwords,
          MaxSessions,  \* MAX_SESSIONS_PER_USER
          MaxVersion    \* bound: token_version stops here

ASSUME SessionsAllowed == MaxSessions \in Nat \ {0}

VARIABLES
    user,      \* the users row: password (what its hash matches), legacy, token_version, is_active
    orgActive, \* organisations.is_active
    session,   \* auth_sessions: "none" before the row, then live, expired, revoked; "gone" once deleted
    recent,    \* the live and expired sessions, by last_used_at, latest first
    access,    \* the access tokens handed out
    login,     \* what such a request read before its transaction
    chosen,    \* ghost: the password last chosen for the account
    cuts,      \* ghost: how many password changes, sign-outs everywhere and departures there were
    proof,     \* ghost: the password a session was opened on
    openedAt   \* ghost: cuts when a session was opened

ghosts == <<chosen, cuts, proof, openedAt>>
vars == <<user, orgActive, session, recent, access, login, chosen, cuts, proof, openedAt>>

NoLogin == [kind |-> "none"]
Read(kind) == [kind |-> kind, password |-> user.password, legacy |-> user.legacy,
               version |-> user.version, seen |-> cuts]

TypeOK ==
    /\ user \in [password : Passwords, legacy : BOOLEAN, version : 0..MaxVersion, active : BOOLEAN]
    /\ orgActive \in BOOLEAN
    /\ session \in [SessionIds -> {"none", "live", "expired", "revoked", "gone"}]
    /\ recent \in Seq(SessionIds) /\ IsInjective(recent)
    /\ ToSet(recent) = {s \in SessionIds : session[s] \in {"live", "expired"}}
    /\ access \subseteq [session : SessionIds, version : 0..MaxVersion, seen : 0..MaxVersion]
    /\ \A l \in Logins : login[l].kind \in {"none", "login", "change"}
    /\ chosen \in Passwords /\ cuts \in 0..MaxVersion
    /\ proof \in [SessionIds -> Passwords] /\ openedAt \in [SessionIds -> 0..MaxVersion]

Init ==
    /\ user \in [password : Passwords, legacy : BOOLEAN, version : {0}, active : {TRUE}]
    /\ orgActive = TRUE
    /\ session = [s \in SessionIds |-> "none"]
    /\ recent = <<>>
    /\ access = {}
    /\ login = [l \in Logins |-> NoLogin]
    /\ chosen = user.password
    /\ cuts = 0
    /\ proof = [s \in SessionIds |-> user.password]
    /\ openedAt = [s \in SessionIds |-> 0]

-----------------------------------------------------------------------------
(* Building blocks of the transactions *)

\* authenticate: every request looks the user, the session and the school up again.
Accepts(t) ==
    /\ user.active /\ orgActive
    /\ t.version = user.version
    /\ session[t.session] \in {"live", "expired"}  \* revoked_at IS NULL: expiry is not looked at

SignedIn == \E t \in access : Accepts(t)

Live == {s \in SessionIds : session[s] = "live"}

\* The members of s that are in K, in their order.
Among(s, K) ==
    LET kept[i \in 0..Len(s)] ==
            IF i = 0 THEN <<>> ELSE IF s[i] \in K THEN Append(kept[i - 1], s[i]) ELSE kept[i - 1]
    IN  kept[Len(s)]

\* Mutant: only the sessions that have not expired are revoked.
RevokeLive(rows) == [s \in SessionIds |-> IF rows[s] = "live" THEN "revoked" ELSE rows[s]]

\* revoke_all, on a table `rows` of sessions: revoked_at is set where it is not yet.
RevokeAll(rows) == [s \in SessionIds |-> IF rows[s] \in {"live", "expired"} THEN "revoked" ELSE rows[s]]

\* Mutant: MAX_SESSIONS_PER_USER sessions stay beside the new one.
PrunedTooLate(rows) ==
    LET live == Among(recent, {s \in SessionIds : rows[s] = "live"})
        extra == {live[i] : i \in MaxSessions + 1..Len(live)}
    IN  [s \in SessionIds |->
           IF rows[s] \in {"revoked", "expired"} THEN "gone"
           ELSE IF s \in extra THEN "revoked" ELSE rows[s]]

\* _prune: the dead rows go; of the live ones all but the MaxSessions - 1 last
\* used are revoked.
Pruned(rows) ==
    LET live == Among(recent, {s \in SessionIds : rows[s] = "live"})
        extra == {live[i] : i \in MaxSessions..Len(live)}
    IN  [s \in SessionIds |->
           IF rows[s] \in {"revoked", "expired"} THEN "gone"
           ELSE IF s \in extra THEN "revoked" ELSE rows[s]]

\* open_session on the table `rows`, and the token response for a user row
\* whose token_version was `version` when it was read, after `seen` cuts.
OpenSession(rows, new, password, version, seen) ==
    /\ session[new] = "none"
    /\ session' = [Pruned(rows) EXCEPT ![new] = "live"]
    /\ recent' = <<new>> \o Among(recent, {s \in SessionIds : Pruned(rows)[s] = "live"})
    /\ access' = access \cup {[session |-> new, version |-> version, seen |-> seen]}
    /\ proof' = [proof EXCEPT ![new] = password]
    /\ openedAt' = [openedAt EXCEPT ![new] = cuts']

\* The UPDATE of set_password.
NewPassword(password) ==
    /\ user.version < MaxVersion
    /\ user' = [user EXCEPT !.password = password, !.legacy = FALSE, !.version = @ + 1]
    /\ chosen' = password
    /\ cuts' = cuts + 1

\* revoke_all and nothing else on the sessions.
SignOutEverywhere ==
    /\ session' = RevokeAll(session)
    /\ recent' = <<>>
    /\ UNCHANGED <<access, proof, openedAt>>

-----------------------------------------------------------------------------
(* login *)

\* The password is right and the account active, as the row is now.  A wrong
\* password only counts a failure (login_throttle).
LoginChecks(l) ==
    /\ login[l] = NoLogin
    /\ user.active /\ orgActive
    /\ login' = [login EXCEPT ![l] = Read("login")]
    /\ UNCHANGED <<user, orgActive, session, recent, access, ghosts>>

\* The transaction: a legacy hash is replaced by one of the password that was
\* checked, and a session is opened.
LoginOpens(l, new) ==
    /\ login[l].kind = "login"
    /\ user' = IF login[l].legacy
               THEN [user EXCEPT !.password = login[l].password, !.legacy = FALSE]
               ELSE user
    /\ UNCHANGED <<orgActive, chosen, cuts>>
    /\ OpenSession(session, new, login[l].password, login[l].version, login[l].seen)
    /\ login' = [login EXCEPT ![l] = NoLogin]

\* The request dies, or its transaction is rolled back.
LoginFails(l) ==
    /\ login[l] # NoLogin
    /\ login' = [login EXCEPT ![l] = NoLogin]
    /\ UNCHANGED <<user, orgActive, session, recent, access, ghosts>>

-----------------------------------------------------------------------------
(* Sessions *)

\* rotate for the current refresh token: an inactive user ends the session, a
\* disabled school leaves it as it is.
Refresh(s) ==
    /\ session[s] = "live"
    /\ IF ~user.active
       THEN /\ session' = [session EXCEPT ![s] = "revoked"]
            /\ recent' = Among(recent, SessionIds \ {s})
            /\ UNCHANGED access
       ELSE /\ orgActive
            /\ access' = access \cup {[session |-> s, version |-> user.version, seen |-> cuts]}
            /\ recent' = <<s>> \o Among(recent, SessionIds \ {s})
            /\ UNCHANGED session
    /\ UNCHANGED <<user, orgActive, login, ghosts>>

\* Time passes expires_at or absolute_expires_at.
Expire(s) ==
    /\ session[s] = "live"
    /\ session' = [session EXCEPT ![s] = "expired"]
    /\ UNCHANGED <<user, orgActive, recent, access, login, ghosts>>

\* logout, and rotate of an expired session.
EndSession(s) ==
    /\ session[s] \in {"live", "expired"}
    /\ session' = [session EXCEPT ![s] = "revoked"]
    /\ recent' = Among(recent, SessionIds \ {s})
    /\ UNCHANGED <<user, orgActive, access, login, ghosts>>

\* Mutant: the sessions are revoked but token_version stays.
RevokeOnly ==
    /\ user.version < MaxVersion
    /\ cuts' = cuts + 1
    /\ SignOutEverywhere
    /\ UNCHANGED <<user, orgActive, login, chosen>>

\* logout_everywhere, asked for with an access token, and sign_out_user and
\* the revoke command, asked for by an operator.
LogoutEverywhere ==
    /\ user.version < MaxVersion
    /\ user' = [user EXCEPT !.version = @ + 1]
    /\ cuts' = cuts + 1
    /\ SignOutEverywhere
    /\ UNCHANGED <<orgActive, login, chosen>>

-----------------------------------------------------------------------------
(* Passwords *)

\* change_password, before its transaction: signed in, and the current
\* password is right.
ChangeChecks(l) ==
    /\ login[l] = NoLogin
    /\ SignedIn
    /\ login' = [login EXCEPT ![l] = Read("change")]
    /\ UNCHANGED <<user, orgActive, session, recent, access, ghosts>>

\* Mutant: the tokens for this device carry the token_version read before the change.
ChangeWithOldVersion(l, password, new) ==
    /\ login[l].kind = "change"
    /\ password # login[l].password
    /\ NewPassword(password)
    /\ OpenSession(RevokeAll(session), new, password, login[l].version, cuts')
    /\ login' = [login EXCEPT ![l] = NoLogin]
    /\ UNCHANGED orgActive

\* Its transaction: set_password, then a session of its own for this device.
ChangePassword(l, password, new) ==
    /\ login[l].kind = "change"
    /\ password # login[l].password
    /\ NewPassword(password)
    /\ OpenSession(RevokeAll(session), new, password, user'.version, cuts')
    /\ login' = [login EXCEPT ![l] = NoLogin]
    /\ UNCHANGED orgActive

\* set_user_password and the set-password command.
SetPassword(password) ==
    /\ NewPassword(password)
    /\ SignOutEverywhere
    /\ UNCHANGED <<orgActive, login>>

\* reset_password with a valid code.  The account was found active before the
\* code's row was locked, and mark_left deletes that row, so it still is.
ResetPassword(password, new) ==
    /\ user.active /\ orgActive
    /\ NewPassword(password)
    /\ OpenSession(RevokeAll(session), new, password, user'.version, cuts')
    /\ UNCHANGED <<orgActive, login>>

-----------------------------------------------------------------------------
(* Leaving and returning; the school *)

MarkLeft ==
    /\ user.active /\ user.version < MaxVersion
    /\ user' = [user EXCEPT !.active = FALSE, !.version = @ + 1]
    /\ cuts' = cuts + 1
    /\ SignOutEverywhere
    /\ UNCHANGED <<orgActive, login, chosen>>

Reactivate ==
    /\ ~user.active
    /\ user' = [user EXCEPT !.active = TRUE]
    /\ UNCHANGED <<orgActive, session, recent, access, login, ghosts>>

UpdateOrganisation ==
    /\ orgActive' = ~orgActive
    /\ UNCHANGED <<user, session, recent, access, login, ghosts>>

Next ==
    \/ \E l \in Logins : LoginChecks(l) \/ LoginFails(l) \/ ChangeChecks(l)
    \/ \E l \in Logins, s \in SessionIds : LoginOpens(l, s)
    \/ \E l \in Logins, p \in Passwords, s \in SessionIds : ChangePassword(l, p, s)
    \/ \E p \in Passwords, s \in SessionIds : ResetPassword(p, s)
    \/ \E s \in SessionIds : Refresh(s) \/ Expire(s) \/ EndSession(s)
    \/ \E p \in Passwords : SetPassword(p)
    \/ LogoutEverywhere \/ MarkLeft \/ Reactivate \/ UpdateOrganisation

Spec == Init /\ [][Next]_vars

-----------------------------------------------------------------------------
(* Properties that hold *)

\* auth.py: a password change, a sign-out everywhere or a departure ends at
\* once every access token whose holder's user row was read before it, even one
\* handed out after it by a login that was already under way, and every session
\* that was open.
CutIsImmediate ==
    /\ \A t \in access : Accepts(t) => t.seen = cuts
    /\ \A s \in Live : openedAt[s] = cuts

\* _prune: however many logins race, an account never has more than
\* MAX_SESSIONS_PER_USER sessions that can be refreshed.
SessionLimit == Cardinality(Live) <= MaxSessions

\* change_password: "sign out every other device and return fresh tokens for
\* this one".  The device that changed the password is signed in with tokens
\* that work, and it alone.
ChangerStaysSignedIn ==
    [][\A l \in Logins :
          login[l].kind = "change" /\ login'[l] = NoLogin /\ cuts' # cuts /\ user.active /\ orgActive
          => \E t \in access' : Accepts(t)' /\ Live' = {t.session}]_vars

(* A property the documents state and the code does not keep *)

\* README: password changes cut access immediately.  So whoever can still
\* refresh a session knew the password that is now in force.
OnlyTheCurrentPassword == \A s \in Live : proof[s] = chosen
=============================================================================
