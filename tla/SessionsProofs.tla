--------------------------- MODULE SessionsProofs ---------------------------
(***************************************************************************)
(* What ends a session and what never does, and what is limited, for any   *)
(* number of logins, sessions, refreshes, codes, checks and pictures.  The *)
(* arguments: token_version counts the cuts, so that a token made of an    *)
(* older row is refused (AccountInv); an app's tokens are current or       *)
(* excused by the grace period, and once the current one is under way      *)
(* nothing else is (RotationInv); the row a request has locked is the      *)
(* newest code, and unused (CodesInv); a picture's row lock has one holder *)
(* (PicturesInv); _prune leaves fewer than MaxSessions sessions            *)
(* (RecentInv); and what was counted, with the calls that were let through *)
(* and have not written yet, stays below the limit plus the number of      *)
(* calls (ThrottleInv, ResetInv).                                          *)
(***************************************************************************)
EXTENDS MCSessions, Counting

-----------------------------------------------------------------------------
(* One account: token_version counts the cuts *)

States == {"none", "live", "expired", "revoked", "gone"}
ReadRows == [kind : {"login", "change"}, password : Passwords, legacy : BOOLEAN, version : Nat, seen : Nat]

\* The part of the type invariant the argument needs.
AccountShapes ==
    /\ user \in [password : Passwords, legacy : BOOLEAN, version : Nat, active : BOOLEAN]
    /\ session \in [SessionIds -> States] /\ openedAt \in [SessionIds -> Nat]
    /\ access \subseteq [session : SessionIds, version : Nat, seen : Nat]
    /\ login \in [Logins -> {NoLogin} \cup ReadRows]
    /\ cuts \in Nat

\* Every cut counts token_version up, in the same transaction.
VersionCounts == user.version = cuts
TokensCount == \A t \in access : t.version = t.seen
ReadsCount == \A l \in Logins : login[l].kind # "none" => login[l].version = login[l].seen
OpenedSince == \A s \in Live : openedAt[s] = cuts

AccountInv == AccountShapes /\ VersionCounts /\ TokensCount /\ ReadsCount /\ OpenedSince

LEMMA AccountImplies == AccountInv => CutIsImmediate
  BY DEF AccountInv, VersionCounts, TokensCount, OpenedSince, CutIsImmediate, Accepts

\* _prune revives nothing, and neither does revoke_all.
LEMMA PrunedStates ==
    ASSUME NEW rows \in [SessionIds -> States]
    PROVE  /\ Pruned(rows) \in [SessionIds -> States]
           /\ \A s \in SessionIds : Pruned(rows)[s] = "live" => rows[s] = "live"
  BY DEF Pruned, States

LEMMA RevokedStates ==
    ASSUME NEW rows \in [SessionIds -> States]
    PROVE  /\ RevokeAll(rows) \in [SessionIds -> States]
           /\ \A s \in SessionIds : RevokeAll(rows)[s] # "live"
  BY DEF RevokeAll, States

\* open_session on rows none of which is older than the last cut.
LEMMA OpenedKeeps ==
    ASSUME AccountInv, NEW rows \in [SessionIds -> States], NEW new \in SessionIds, NEW password,
           NEW version \in Nat, OpenSession(rows, new, password, version, version), cuts' \in Nat,
           \A s \in SessionIds : rows[s] = "live" => openedAt[s] = cuts'
    PROVE  /\ session' \in [SessionIds -> States] /\ openedAt' \in [SessionIds -> Nat]
           /\ access' \subseteq [session : SessionIds, version : Nat, seen : Nat] /\ TokensCount'
           /\ OpenedSince'
<1>1. Pruned(rows) \in [SessionIds -> States] /\ \A s \in SessionIds : Pruned(rows)[s] = "live" => rows[s] = "live"
  BY PrunedStates
<1>2. /\ session' = [Pruned(rows) EXCEPT ![new] = "live"]
      /\ access' = access \cup {[session |-> new, version |-> version, seen |-> version]}
      /\ openedAt' = [openedAt EXCEPT ![new] = cuts']
  BY DEF OpenSession
<1>3. session' \in [SessionIds -> States] /\ openedAt' \in [SessionIds -> Nat]
  BY <1>1, <1>2 DEF AccountInv, AccountShapes, States
<1>4. access' \subseteq [session : SessionIds, version : Nat, seen : Nat] /\ TokensCount'
  BY <1>2 DEF AccountInv, AccountShapes, TokensCount
<1>5. ASSUME NEW s \in SessionIds, session'[s] = "live"  PROVE openedAt'[s] = cuts'
  <2>1. CASE s = new
    BY <1>2, <2>1 DEF AccountInv, AccountShapes
  <2>2. CASE s # new
    <3>1. rows[s] = "live"
      BY <1>1, <1>2, <1>5, <2>2
    <3>2. QED BY <1>2, <2>2, <3>1 DEF AccountInv, AccountShapes
  <2>3. QED BY <2>1, <2>2
<1>6. QED BY <1>3, <1>4, <1>5 DEF OpenedSince, Live

\* Most steps cut nothing and open nothing.
AccountKept ==
    /\ AccountShapes' /\ cuts' = cuts /\ user'.version = user.version
    /\ openedAt' = openedAt /\ \A s \in SessionIds : session'[s] = "live" => session[s] = "live"
    /\ \A t \in access' : t \in access \/ t.version = t.seen
    /\ \A l \in Logins : login'[l].kind # "none" => login'[l] = login[l] \/ login'[l].version = login'[l].seen

LEMMA QuietAccount ==
    ASSUME AccountInv, AccountKept
    PROVE AccountInv'
<1>1. VersionCounts' /\ TokensCount'
  BY DEF AccountInv, AccountKept, VersionCounts, TokensCount
<1>2. ReadsCount'
  BY DEF AccountInv, AccountKept, ReadsCount
<1>3. OpenedSince'
  BY DEF AccountInv, AccountKept, OpenedSince, Live
<1>4. QED BY <1>1, <1>2, <1>3 DEF AccountInv, AccountKept

\* A cut that opens no session: set_password, a sign-out everywhere, a departure.
LEMMA CutKeeps ==
    ASSUME AccountInv, SignOutEverywhere, cuts' = cuts + 1, login' = login,
           user' \in [password : Passwords, legacy : BOOLEAN, version : Nat, active : BOOLEAN],
           user'.version = user.version + 1
    PROVE AccountInv'
<1>1. session' \in [SessionIds -> States] /\ \A s \in SessionIds : session'[s] # "live"
  BY RevokedStates DEF SignOutEverywhere, AccountInv, AccountShapes
<1>2. AccountShapes'
  BY <1>1 DEF SignOutEverywhere, AccountInv, AccountShapes
<1>3. VersionCounts' /\ TokensCount' /\ ReadsCount'
  BY DEF SignOutEverywhere, AccountInv, AccountShapes, VersionCounts, TokensCount, ReadsCount
<1>4. OpenedSince'
  BY <1>1 DEF OpenedSince, Live
<1>5. QED BY <1>2, <1>3, <1>4 DEF AccountInv

\* A new password with a session of its own: the old ones are revoked first.
LEMMA ReplaceKeeps ==
    ASSUME AccountInv, NEW password \in Passwords, NEW new \in SessionIds, NewPassword(password),
           OpenSession(RevokeAll(session), new, password, user'.version, cuts'),
           \A l \in Logins : login'[l] \in {login[l], NoLogin}, login' \in [Logins -> {NoLogin} \cup ReadRows]
    PROVE AccountInv'
<1>1. user' \in [password : Passwords, legacy : BOOLEAN, version : Nat, active : BOOLEAN]
  <2>1. user.version + 1 \in Nat
    BY DEF AccountInv, AccountShapes
  <2>2. QED BY <2>1 DEF NewPassword, AccountInv, AccountShapes
<1>2. user'.version = user.version + 1 /\ cuts' = cuts + 1 /\ cuts' \in Nat
  BY DEF NewPassword, AccountInv, AccountShapes
<1>3. user'.version = cuts'
  BY <1>2 DEF AccountInv, VersionCounts
<1>4. RevokeAll(session) \in [SessionIds -> States] /\ \A s \in SessionIds : RevokeAll(session)[s] # "live"
  BY RevokedStates DEF AccountInv, AccountShapes
<1>5. /\ session' \in [SessionIds -> States] /\ openedAt' \in [SessionIds -> Nat]
      /\ access' \subseteq [session : SessionIds, version : Nat, seen : Nat] /\ TokensCount' /\ OpenedSince'
  BY <1>2, <1>3, <1>4, OpenedKeeps
<1>6. ReadsCount'
  BY DEF AccountInv, ReadsCount, NoLogin
<1>7. QED BY <1>1, <1>2, <1>3, <1>5, <1>6 DEF AccountInv, AccountShapes, VersionCounts

LEMMA LoginChecksKeeps ==
    ASSUME AccountInv, NEW l \in Logins, LoginChecks(l)
    PROVE AccountInv'
<1>1. AccountShapes'
  BY DEF LoginChecks, Read, ReadRows, ghosts, AccountInv, AccountShapes
<1>2. AccountKept
  BY <1>1 DEF LoginChecks, Read, ReadRows, ghosts, AccountInv, AccountShapes, VersionCounts, AccountKept, NoLogin
<1>3. QED BY <1>2, QuietAccount

LEMMA LoginFailsKeeps ==
    ASSUME AccountInv, NEW l \in Logins, LoginFails(l)
    PROVE AccountInv'
<1>1. AccountShapes'
  BY DEF LoginFails, ghosts, AccountInv, AccountShapes
<1>2. AccountKept
  BY <1>1 DEF LoginFails, ghosts, AccountInv, AccountShapes, VersionCounts, AccountKept, NoLogin
<1>3. QED BY <1>2, QuietAccount

LEMMA ChangeChecksKeeps ==
    ASSUME AccountInv, NEW l \in Logins, ChangeChecks(l)
    PROVE AccountInv'
<1>1. AccountShapes'
  BY DEF ChangeChecks, Read, ReadRows, ghosts, AccountInv, AccountShapes
<1>2. AccountKept
  BY <1>1 DEF ChangeChecks, Read, ReadRows, ghosts, AccountInv, AccountShapes, VersionCounts, AccountKept, NoLogin
<1>3. QED BY <1>2, QuietAccount

LEMMA RefreshKeeps ==
    ASSUME AccountInv, NEW s \in SessionIds, Refresh(s)
    PROVE AccountInv'
<1>1. /\ user' = user /\ cuts' = cuts /\ openedAt' = openedAt /\ login' = login
      /\ session' \in {session, [session EXCEPT ![s] = "revoked"]}
      /\ access' \in {access, access \cup {[session |-> s, version |-> user.version, seen |-> cuts]}}
  BY DEF Refresh, ghosts
<1>2. session' \in [SessionIds -> States] /\ \A r \in SessionIds : session'[r] = "live" => session[r] = "live"
  BY <1>1 DEF AccountInv, AccountShapes, States
<1>3. /\ access' \subseteq [session : SessionIds, version : Nat, seen : Nat]
      /\ \A t \in access' : t \in access \/ t.version = t.seen
  BY <1>1 DEF AccountInv, AccountShapes, VersionCounts
<1>4. AccountKept
  BY <1>1, <1>2, <1>3 DEF AccountInv, AccountShapes, AccountKept
<1>5. QED BY <1>4, QuietAccount

LEMMA ExpireKeeps ==
    ASSUME AccountInv, NEW s \in SessionIds, Expire(s)
    PROVE AccountInv'
<1>1. AccountShapes'
  BY DEF Expire, States, ghosts, AccountInv, AccountShapes
<1>2. AccountKept
  BY <1>1 DEF Expire, States, ghosts, AccountInv, AccountShapes, VersionCounts, AccountKept
<1>3. QED BY <1>2, QuietAccount

LEMMA EndSessionKeeps ==
    ASSUME AccountInv, NEW s \in SessionIds, EndSession(s)
    PROVE AccountInv'
<1>1. AccountShapes'
  BY DEF EndSession, States, ghosts, AccountInv, AccountShapes
<1>2. AccountKept
  BY <1>1 DEF EndSession, States, ghosts, AccountInv, AccountShapes, VersionCounts, AccountKept
<1>3. QED BY <1>2, QuietAccount

LEMMA ReactivateKeeps ==
    ASSUME AccountInv, Reactivate
    PROVE AccountInv'
<1>1. AccountShapes'
  BY DEF Reactivate, ghosts, AccountInv, AccountShapes
<1>2. AccountKept
  BY <1>1 DEF Reactivate, ghosts, AccountInv, AccountShapes, VersionCounts, AccountKept
<1>3. QED BY <1>2, QuietAccount

LEMMA UpdateOrganisationKeeps ==
    ASSUME AccountInv, UpdateOrganisation
    PROVE AccountInv'
<1>1. AccountShapes'
  BY DEF UpdateOrganisation, ghosts, AccountInv, AccountShapes
<1>2. AccountKept
  BY <1>1 DEF UpdateOrganisation, ghosts, AccountInv, AccountShapes, VersionCounts, AccountKept
<1>3. QED BY <1>2, QuietAccount

LEMMA LoginOpensKeeps ==
    ASSUME AccountInv, NEW l \in Logins, NEW s \in SessionIds, LoginOpens(l, s)
    PROVE AccountInv'
<1>1. login[l] \in ReadRows /\ login[l].version = login[l].seen
  BY DEF LoginOpens, AccountInv, AccountShapes, ReadsCount, NoLogin, ReadRows
<1>2. /\ cuts' = cuts /\ cuts' \in Nat /\ login' = [login EXCEPT ![l] = NoLogin]
      /\ OpenSession(session, s, login[l].password, login[l].version, login[l].version)
  BY <1>1 DEF LoginOpens, AccountInv, AccountShapes
<1>3. /\ session' \in [SessionIds -> States] /\ openedAt' \in [SessionIds -> Nat]
      /\ access' \subseteq [session : SessionIds, version : Nat, seen : Nat] /\ TokensCount' /\ OpenedSince'
  <2>1. session \in [SessionIds -> States] /\ \A r \in SessionIds : session[r] = "live" => openedAt[r] = cuts'
    BY <1>2 DEF AccountInv, AccountShapes, OpenedSince, Live
  <2>2. login[l].version \in Nat
    BY <1>1 DEF ReadRows
  <2>3. QED BY <1>2, <2>1, <2>2, OpenedKeeps
<1>4. user' \in [password : Passwords, legacy : BOOLEAN, version : Nat, active : BOOLEAN] /\ user'.version = user.version
  BY <1>1 DEF LoginOpens, AccountInv, AccountShapes, ReadRows
<1>5. login' \in [Logins -> {NoLogin} \cup ReadRows] /\ ReadsCount'
  BY <1>2 DEF AccountInv, AccountShapes, ReadsCount, NoLogin
<1>6. QED BY <1>2, <1>3, <1>4, <1>5 DEF AccountInv, AccountShapes, VersionCounts

LEMMA ChangePasswordKeeps ==
    ASSUME AccountInv, NEW l \in Logins, NEW p \in Passwords, NEW s \in SessionIds, ChangePassword(l, p, s)
    PROVE AccountInv'
<1>1. login' \in [Logins -> {NoLogin} \cup ReadRows] /\ \A k \in Logins : login'[k] \in {login[k], NoLogin}
  BY DEF ChangePassword, AccountInv, AccountShapes
<1>2. QED BY <1>1, ReplaceKeeps DEF ChangePassword

LEMMA ResetPasswordKeeps ==
    ASSUME AccountInv, NEW p \in Passwords, NEW s \in SessionIds, ResetPassword(p, s)
    PROVE AccountInv'
<1>1. login' \in [Logins -> {NoLogin} \cup ReadRows] /\ \A k \in Logins : login'[k] \in {login[k], NoLogin}
  BY DEF ResetPassword, AccountInv, AccountShapes
<1>2. QED BY <1>1, ReplaceKeeps DEF ResetPassword

LEMMA SetPasswordKeeps ==
    ASSUME AccountInv, NEW p \in Passwords, SetPassword(p)
    PROVE AccountInv'
<1>1. /\ user' \in [password : Passwords, legacy : BOOLEAN, version : Nat, active : BOOLEAN]
      /\ user'.version = user.version + 1
  <2>1. user.version + 1 \in Nat
    BY DEF AccountInv, AccountShapes
  <2>2. QED BY <2>1 DEF SetPassword, NewPassword, AccountInv, AccountShapes
<1>2. QED BY <1>1, CutKeeps DEF SetPassword, NewPassword

LEMMA LogoutEverywhereKeeps ==
    ASSUME AccountInv, LogoutEverywhere
    PROVE AccountInv'
<1>1. /\ user' \in [password : Passwords, legacy : BOOLEAN, version : Nat, active : BOOLEAN]
      /\ user'.version = user.version + 1
  <2>1. user.version + 1 \in Nat
    BY DEF AccountInv, AccountShapes
  <2>2. QED BY <2>1 DEF LogoutEverywhere, AccountInv, AccountShapes
<1>2. QED BY <1>1, CutKeeps DEF LogoutEverywhere

LEMMA MarkLeftKeeps ==
    ASSUME AccountInv, MarkLeft
    PROVE AccountInv'
<1>1. /\ user' \in [password : Passwords, legacy : BOOLEAN, version : Nat, active : BOOLEAN]
      /\ user'.version = user.version + 1
  <2>1. user.version + 1 \in Nat
    BY DEF AccountInv, AccountShapes
  <2>2. QED BY <2>1 DEF MarkLeft, AccountInv, AccountShapes
<1>2. QED BY <1>1, CutKeeps DEF MarkLeft

LEMMA AccountStep ==
    ASSUME AccountInv, [Next]_vars
    PROVE AccountInv'
<1>1. CASE \E l \in Logins : LoginChecks(l) \/ LoginFails(l) \/ ChangeChecks(l)
  BY <1>1, LoginChecksKeeps, LoginFailsKeeps, ChangeChecksKeeps
<1>2. CASE \E l \in Logins, s \in SessionIds : LoginOpens(l, s)
  BY <1>2, LoginOpensKeeps
<1>3. CASE \E l \in Logins, p \in Passwords, s \in SessionIds : ChangePassword(l, p, s)
  BY <1>3, ChangePasswordKeeps
<1>4. CASE \E p \in Passwords, s \in SessionIds : ResetPassword(p, s)
  BY <1>4, ResetPasswordKeeps
<1>5. CASE \E s \in SessionIds : Refresh(s) \/ Expire(s) \/ EndSession(s)
  BY <1>5, RefreshKeeps, ExpireKeeps, EndSessionKeeps
<1>6. CASE \E p \in Passwords : SetPassword(p)
  BY <1>6, SetPasswordKeeps
<1>7. CASE LogoutEverywhere \/ MarkLeft \/ Reactivate \/ UpdateOrganisation
  BY <1>7, LogoutEverywhereKeeps, MarkLeftKeeps, ReactivateKeeps, UpdateOrganisationKeeps
<1>8. CASE UNCHANGED vars
  BY <1>8 DEF vars, AccountInv, AccountShapes, VersionCounts, TokensCount, ReadsCount, OpenedSince, Live
<1>9. QED BY <1>1, <1>2, <1>3, <1>4, <1>5, <1>6, <1>7, <1>8 DEF Next

LEMMA AccountStart == ASSUME Init PROVE AccountInv
<1>1. AccountShapes
  <2>1. user \in [password : Passwords, legacy : BOOLEAN, version : {0}, active : {TRUE}]
    BY DEF Init
  <2>2. 0 \in Nat /\ TRUE \in BOOLEAN
    OBVIOUS
  <2>3. {0} \subseteq Nat /\ {TRUE} \subseteq BOOLEAN
    BY <2>2, Zenon
  <2>4. user \in [password : Passwords, legacy : BOOLEAN, version : Nat, active : BOOLEAN]
    BY <2>1, <2>3, Zenon
  <2>5. QED BY <2>4 DEF Init, AccountShapes, States
<1>2. QED BY <1>1 DEF Init, AccountInv, VersionCounts, TokensCount, ReadsCount, OpenedSince, Live, NoLogin

LEMMA AccountInvariance == Spec => []AccountInv
<1>1. Init => AccountInv  BY AccountStart
<1>2. AccountInv /\ [Next]_vars => AccountInv'  BY AccountStep
<1>3. QED BY <1>1, <1>2, PTL DEF Spec

\* The device that changes its password has a session of its own, and the only one.
LEMMA ChangerStep ==
    ASSUME AccountInv, [Next]_vars, NEW l \in Logins,
           login[l].kind = "change", login'[l] = NoLogin, cuts' # cuts, user.active, orgActive
    PROVE \E t \in access' : Accepts(t)' /\ Live' = {t.session}
<1>1. PICK p \in Passwords, s \in SessionIds : ChangePassword(l, p, s)
  <2>1. login'[l] # login[l]
    BY DEF NoLogin
  <2>2. ~UNCHANGED vars
    BY <2>1 DEF vars
  <2>3. ASSUME NEW k \in Logins, LoginChecks(k) \/ LoginFails(k) \/ ChangeChecks(k)  PROVE FALSE
    BY <2>3 DEF LoginChecks, LoginFails, ChangeChecks, ghosts
  <2>4. ASSUME NEW k \in Logins, NEW s \in SessionIds, LoginOpens(k, s)  PROVE FALSE
    BY <2>4 DEF LoginOpens
  <2>5. ASSUME NEW s \in SessionIds, Refresh(s) \/ Expire(s) \/ EndSession(s)  PROVE FALSE
    BY <2>5 DEF Refresh, Expire, EndSession, ghosts
  <2>6. ASSUME NEW p \in Passwords, SetPassword(p) \/ \E s \in SessionIds : ResetPassword(p, s)  PROVE FALSE
    BY <2>1, <2>6 DEF SetPassword, ResetPassword
  <2>7. ASSUME LogoutEverywhere \/ MarkLeft \/ Reactivate \/ UpdateOrganisation  PROVE FALSE
    BY <2>1, <2>7 DEF LogoutEverywhere, MarkLeft, Reactivate, UpdateOrganisation
  <2>8. PICK k \in Logins, p \in Passwords, s \in SessionIds : ChangePassword(k, p, s)
    BY <2>2, <2>3, <2>4, <2>5, <2>6, <2>7 DEF Next
  <2>9. k = l
    BY <2>1, <2>8 DEF ChangePassword, AccountInv, AccountShapes
  <2>10. QED BY <2>8, <2>9
<1>2. RevokeAll(session) \in [SessionIds -> States] /\ \A r \in SessionIds : RevokeAll(session)[r] # "live"
  BY RevokedStates DEF AccountInv, AccountShapes
<1>3. /\ Pruned(RevokeAll(session)) \in [SessionIds -> States]
      /\ \A r \in SessionIds : Pruned(RevokeAll(session))[r] # "live"
  BY <1>2, PrunedStates
<1>4. PICK t \in access' : /\ t.session = s /\ t.version = user'.version
                           /\ session' = [Pruned(RevokeAll(session)) EXCEPT ![s] = "live"]
  <2>1. [session |-> s, version |-> user'.version, seen |-> cuts'] \in access'
    BY <1>1 DEF ChangePassword, OpenSession
  <2>2. session' = [Pruned(RevokeAll(session)) EXCEPT ![s] = "live"]
    BY <1>1 DEF ChangePassword, OpenSession
  <2>3. QED BY <2>1, <2>2
<1>5. Live' = {s} /\ session'[s] = "live"
  BY <1>3, <1>4 DEF Live
<1>6. user'.active /\ orgActive'
  BY <1>1 DEF ChangePassword, NewPassword, AccountInv, AccountShapes
<1>7. Accepts(t)' /\ Live' = {t.session}
  BY <1>4, <1>5, <1>6 DEF Accepts
<1>8. QED BY <1>7

-----------------------------------------------------------------------------
(* One session's rotation: nobody is late by two generations *)

CallShapes ==
    /\ generation \in Nat /\ held \in Nat /\ outlasted \in BOOLEAN /\ grace \in BOOLEAN
    /\ call \in [Requests -> {Rotation!NoCall} \cup [phase : {"sent", "answered"}, token : Nat]]

IsSent(r) == call[r] # Rotation!NoCall /\ call[r].phase = "sent"
IsAnswered(r) == call[r] # Rotation!NoCall /\ call[r].phase = "answered"
Nearly(token) == token = generation \/ (token = generation - 1 /\ grace)

\* What the app holds, and what it has sent, is current or excused by the grace period; once the
\* current token is under way, nothing else is.
Excused ==
    /\ Nearly(held)
    /\ \A r \in Requests : IsAnswered(r) => call[r].token = generation /\ grace
    /\ \A r \in Requests : IsSent(r) => Nearly(call[r].token)
    /\ \A r, q \in Requests : IsSent(r) /\ call[r].token = generation =>
           held = generation /\ ~IsAnswered(q) /\ (IsSent(q) => call[q].token = generation)
    /\ status # "reuse_detected"

RotationInv == CallShapes /\ (outlasted \/ Excused)

LEMMA RotationStep ==
    ASSUME RotationInv, [Rotation!Next]_(Rotation!vars)
    PROVE RotationInv'
<1> USE DEF Rotation!NoCall
<1>1. ASSUME NEW r \in Requests, Rotation!Send(r)  PROVE RotationInv'
  <2>1. CallShapes'
    BY <1>1 DEF Rotation!Send, RotationInv, CallShapes
  <2>2. ASSUME Excused  PROVE Excused'
    BY <1>1, <2>2 DEF Rotation!Send, Rotation!InFlight, RotationInv, CallShapes, Excused, IsSent, IsAnswered, Nearly
  <2>3. QED BY <1>1, <2>1, <2>2 DEF Rotation!Send, RotationInv
<1>2. ASSUME NEW r \in Requests, Rotation!Receive(r)  PROVE RotationInv'
  <2>1. CallShapes'
    BY <1>2 DEF Rotation!Receive, RotationInv, CallShapes
  <2>2. ASSUME Excused  PROVE Excused'
    BY <1>2, <2>2 DEF Rotation!Receive, RotationInv, CallShapes, Excused, IsSent, IsAnswered, Nearly
  <2>3. QED BY <1>2, <2>1, <2>2 DEF Rotation!Receive, RotationInv
<1>3. ASSUME NEW r \in Requests, Rotation!Lose(r)  PROVE RotationInv'
  <2>1. CallShapes'
    BY <1>3 DEF Rotation!Lose, RotationInv, CallShapes
  <2>2. ASSUME Excused  PROVE Excused'
    BY <1>3, <2>2 DEF Rotation!Lose, RotationInv, CallShapes, Excused, IsSent, IsAnswered, Nearly
  <2>3. QED BY <1>3, <2>1, <2>2 DEF Rotation!Lose, RotationInv
<1>4. ASSUME NEW r \in Requests, Rotation!Rotate(r)  PROVE RotationInv'
  <2>1. IsSent(r) /\ held' = held /\ outlasted' = outlasted
    BY <1>4 DEF Rotation!Rotate, IsSent
  <2>2. CASE Rotation!Unauthorized(r) /\ UNCHANGED <<generation, grace>> /\ (Excused => status' # "reuse_detected")
    <3>1. CallShapes'
      BY <2>1, <2>2 DEF Rotation!Unauthorized, RotationInv, CallShapes
    <3>2. ASSUME Excused  PROVE Excused'
      BY <2>1, <2>2, <3>2 DEF Rotation!Unauthorized, RotationInv, CallShapes, Excused, IsSent, IsAnswered, Nearly
    <3>3. QED BY <2>1, <3>1, <3>2 DEF RotationInv
  <2>3. CASE Rotation!RotateCurrent(r)
    <3>1. CallShapes'
      BY <2>1, <2>3 DEF Rotation!RotateCurrent, Rotation!Answer, RotationInv, CallShapes
    <3>2. ASSUME Excused  PROVE Excused'
      BY <2>1, <2>3, <3>2 DEF Rotation!RotateCurrent, Rotation!Answer, RotationInv, CallShapes, Excused,
         IsSent, IsAnswered, Nearly
    <3>3. QED BY <2>1, <3>1, <3>2 DEF RotationInv
  <2>4. CASE Rotation!RepeatCurrent(r)
    <3>1. CallShapes'
      BY <2>1, <2>4 DEF Rotation!RepeatCurrent, Rotation!Answer, RotationInv, CallShapes
    <3>2. ASSUME Excused  PROVE Excused'
      BY <2>1, <2>4, <3>2 DEF Rotation!RepeatCurrent, Rotation!Answer, RotationInv, CallShapes, Excused,
         IsSent, IsAnswered, Nearly
    <3>3. QED BY <2>1, <3>1, <3>2 DEF RotationInv
  <2>5. Rotation!DetectReuse(r) => ~Excused
    BY <2>1 DEF Rotation!DetectReuse, Excused, Nearly
  <2>6. QED BY <1>4, <2>2, <2>3, <2>4, <2>5 DEF Rotation!Rotate, Rotation!DetectReuse, Rotation!Refuse, Excused
<1>5. ASSUME Rotation!Logout  PROVE RotationInv'
  BY <1>5 DEF Rotation!Logout, RotationInv, CallShapes, Excused, IsSent, IsAnswered, Nearly
<1>6. ASSUME Rotation!GraceEnds  PROVE RotationInv'
  BY <1>6 DEF Rotation!GraceEnds, Rotation!InFlight, RotationInv, CallShapes, Excused, IsSent, IsAnswered, Nearly
<1>7. CASE UNCHANGED Rotation!vars
  BY <1>7 DEF Rotation!vars, RotationInv, CallShapes, Excused, IsSent, IsAnswered, Nearly
<1>8. QED BY <1>1, <1>2, <1>3, <1>4, <1>5, <1>6, <1>7 DEF Rotation!Next

LEMMA RotationStart == ASSUME Rotation!Init PROVE RotationInv
  BY DEF Rotation!Init, Rotation!NoCall, RotationInv, CallShapes, Excused, IsSent, IsAnswered, Nearly

-----------------------------------------------------------------------------
(* One account's reset codes: the row that is locked is the newest, and unused *)

CodeRows == [created : Nat, used : BOOLEAN, attempts : Nat, resets : Nat]
CallRows == [at : Reset!Steps, asked : Nat, gap : BOOLEAN, seen : Seq(CodeRows), row : Nat]
CodeShapes == codes \in Seq(CodeRows) /\ redeemer \in [Calls -> CallRows] /\ clock \in Nat

OldAreUsed == \A c \in DOMAIN codes : c < Len(codes) => codes[c].used
\* One call holds the newest row; the gap in front of the first one can be held by many.
RowsAreHeldOnce == \A r, q \in Calls : Reset!HoldsRows(r) /\ Reset!HoldsRows(q) => r = q
GapsAreEmpty == \A r \in Calls : redeemer[r].gap => redeemer[r].at \in {"marked", "locked"} /\ codes = <<>>
LocksNewest(r) == redeemer[r].row = Len(codes) /\ redeemer[r].row \in DOMAIN codes /\ ~codes[redeemer[r].row].used
NewestIsLocked == \A r \in Calls : redeemer[r].at = "locked" /\ redeemer[r].row # 0 => LocksNewest(r)

CodesInv == CodeShapes /\ OldAreUsed /\ RowsAreHeldOnce /\ GapsAreEmpty /\ NewestIsLocked

\* No step takes a code back that is used up, and a reset is on the newest one.
CodesEnd ==
    \A c \in DOMAIN codes :
        /\ codes[c].used => codes'[c].used /\ codes'[c].resets = codes[c].resets
        /\ codes'[c].resets > codes[c].resets => c = Len(codes')

\* A step that leaves the table alone, and in which nobody comes to hold its rows.
CallsKept ==
    /\ CodeShapes' /\ codes' = codes
    /\ \A r \in Calls : /\ Reset!HoldsRows(r)' => Reset!HoldsRows(r)
                        /\ redeemer'[r].gap => redeemer[r].gap /\ redeemer'[r].at = redeemer[r].at
                        /\ redeemer'[r].at = "locked" => redeemer'[r] = redeemer[r]

LEMMA CodesAreRows ==
    ASSUME CodeShapes
    PROVE \A c \in DOMAIN codes : codes[c] \in CodeRows /\ codes[c].created \in Nat /\ codes[c].resets \in Nat
<1>1. \A c \in DOMAIN codes : codes[c] \in CodeRows
  BY DEF CodeShapes
<1>2. \A row \in CodeRows : row.created \in Nat /\ row.resets \in Nat
  BY DEF CodeRows
<1>3. QED BY <1>1, <1>2

LEMMA IdleIsACall ==
    ASSUME NEW n \in Nat
    PROVE Reset!Idle \in CallRows /\ [Reset!Idle EXCEPT !.at = "queued", !.asked = n] \in CallRows
<1>1. <<>> \in Seq(CodeRows)
  OBVIOUS
<1>2. Reset!Idle \in CallRows
  BY <1>1 DEF Reset!Idle, Reset!Steps, CallRows
<1>3. [Reset!Idle EXCEPT !.at = "queued", !.asked = n] \in CallRows
  BY <1>2 DEF Reset!Steps, CallRows
<1>4. QED BY <1>2, <1>3

LEMMA CallMoves ==
    ASSUME CodesInv, NEW r \in Calls, NEW at \in Reset!Steps, NEW gap \in BOOLEAN, NEW n \in Nat
    PROVE  /\ [redeemer[r] EXCEPT !.at = at] \in CallRows
           /\ [redeemer[r] EXCEPT !.at = at, !.gap = gap] \in CallRows
           /\ [redeemer[r] EXCEPT !.at = at, !.gap = gap, !.row = n] \in CallRows
<1>1. redeemer[r] \in CallRows
  BY DEF CodesInv, CodeShapes
<1>2. QED BY <1>1 DEF CallRows

LEMMA QuietCodes ==
    ASSUME CodesInv, CallsKept
    PROVE CodesInv' /\ CodesEnd
<1>1. OldAreUsed' /\ RowsAreHeldOnce'
  BY DEF CodesInv, CallsKept, OldAreUsed, RowsAreHeldOnce
<1>2. GapsAreEmpty' /\ NewestIsLocked'
  BY DEF CodesInv, CallsKept, GapsAreEmpty, NewestIsLocked, LocksNewest
<1>3. CodesEnd
  BY CodesAreRows DEF CodesInv, CallsKept, CodesEnd
<1>4. QED BY <1>1, <1>2, <1>3 DEF CodesInv, CallsKept

LEMMA RequestCodeCodes ==
    ASSUME CodesInv, NEW r \in Calls, Reset!RequestCode(r)
    PROVE CodesInv' /\ CodesEnd
<1>1. CodeShapes'
  BY DEF Reset!RequestCode, Reset!At, Reset!Steps, CodesInv, CodeShapes, CallRows
<1>2. CallsKept
  BY <1>1 DEF Reset!RequestCode, Reset!At, Reset!Steps, CodesInv, CodeShapes, CallRows, GapsAreEmpty, CallsKept, Reset!HoldsRows
<1>3. QED BY <1>2, QuietCodes

LEMMA CountRecentCodes ==
    ASSUME CodesInv, NEW r \in Calls, Reset!CountRecent(r)
    PROVE CodesInv' /\ CodesEnd
<1>1. /\ redeemer[r].at = "queued" /\ codes' = codes /\ clock' = clock
      /\ redeemer' \in {[redeemer EXCEPT ![r] = Reset!Idle], [redeemer EXCEPT ![r].at = "counted"]}
  BY DEF Reset!CountRecent, Reset!At, Reset!Finish
<1>2. CodeShapes'
  <2>1. redeemer[r].asked \in Nat
    BY DEF CodesInv, CodeShapes, CallRows
  <2>2. Reset!Idle \in CallRows /\ [Reset!Idle EXCEPT !.at = "queued", !.asked = redeemer[r].asked] \in CallRows
    BY <2>1, IdleIsACall, Zenon
  <2>3. [redeemer[r] EXCEPT !.at = "counted"] \in CallRows
    <3>1. "counted" \in Reset!Steps /\ 0 \in Nat /\ TRUE \in BOOLEAN
      BY DEF Reset!Steps
    <3>2. QED BY <3>1, CallMoves, Zenon
  <2>4. QED BY <1>1, <2>2, <2>3 DEF CodesInv, CodeShapes
<1>3. CallsKept
  <2>1. CASE redeemer' = [redeemer EXCEPT ![r] = Reset!Idle]
    BY <1>1, <1>2, <2>1 DEF Reset!Idle, CodesInv, CodeShapes, CallsKept, Reset!HoldsRows
  <2>2. CASE redeemer' = [redeemer EXCEPT ![r].at = "counted"]
    BY <1>1, <1>2, <2>2 DEF CodesInv, CodeShapes, CallRows, GapsAreEmpty, CallsKept, Reset!HoldsRows
  <2>3. QED BY <1>1, <2>1, <2>2
<1>4. QED BY <1>3, QuietCodes

LEMMA IssueFailsCodes ==
    ASSUME CodesInv, NEW r \in Calls, Reset!IssueFails(r)
    PROVE CodesInv' /\ CodesEnd
<1>1. /\ codes' = codes /\ clock' = clock
      /\ redeemer' = [redeemer EXCEPT ![r] = [Reset!Idle EXCEPT !.at = "queued", !.asked = redeemer[r].asked]]
  BY DEF Reset!IssueFails
<1>2. CodeShapes'
  <2>1. redeemer[r].asked \in Nat
    BY DEF CodesInv, CodeShapes, CallRows
  <2>2. Reset!Idle \in CallRows /\ [Reset!Idle EXCEPT !.at = "queued", !.asked = redeemer[r].asked] \in CallRows
    BY <2>1, IdleIsACall, Zenon
  <2>3. [redeemer[r] EXCEPT !.at = "counted"] \in CallRows
    <3>1. "counted" \in Reset!Steps /\ 0 \in Nat /\ TRUE \in BOOLEAN
      BY DEF Reset!Steps
    <3>2. QED BY <3>1, CallMoves, Zenon
  <2>4. QED BY <1>1, <2>2, <2>3 DEF CodesInv, CodeShapes
<1>3. CallsKept
  BY <1>1, <1>2 DEF Reset!Idle, CodesInv, CodeShapes, CallRows, GapsAreEmpty, CallsKept, Reset!HoldsRows
<1>4. QED BY <1>3, QuietCodes

LEMMA FindAccountCodes ==
    ASSUME CodesInv, NEW r \in Calls, Reset!FindAccount(r)
    PROVE CodesInv' /\ CodesEnd
<1>1. CodeShapes'
  BY DEF Reset!FindAccount, Reset!At, Reset!Steps, CodesInv, CodeShapes, CallRows
<1>2. CallsKept
  BY <1>1 DEF Reset!FindAccount, Reset!At, Reset!Steps, CodesInv, CodeShapes, CallRows, GapsAreEmpty, CallsKept, Reset!HoldsRows
<1>3. QED BY <1>2, QuietCodes

LEMMA RefuseCodes ==
    ASSUME CodesInv, NEW r \in Calls, Reset!Refuse(r)
    PROVE CodesInv' /\ CodesEnd
<1>1. CodeShapes'
  BY DEF Reset!Refuse, Reset!Finish, Reset!Idle, Reset!Steps, CodesInv, CodeShapes, CallRows
<1>2. CallsKept
  BY <1>1 DEF Reset!Refuse, Reset!Finish, Reset!Idle, Reset!Steps, CodesInv, CodeShapes, CallRows, GapsAreEmpty, CallsKept, Reset!HoldsRows
<1>3. QED BY <1>2, QuietCodes

LEMMA MarkUsedCodes ==
    ASSUME CodesInv, NEW r \in Calls, Reset!MarkUsed(r)
    PROVE CodesInv' /\ CodesEnd
<1>1. /\ redeemer[r].at = "counted" /\ Reset!RowsFree(r) /\ codes' = codes /\ clock' = clock
      /\ redeemer'[r].at = "marked" /\ redeemer'[r].gap = (codes = <<>>)
      /\ \A q \in Calls \ {r} : redeemer'[q] = redeemer[q]
  BY DEF Reset!MarkUsed, Reset!At, CodesInv, CodeShapes, CallRows
<1>2. CodeShapes'
  <2>1. "marked" \in Reset!Steps /\ (codes = <<>>) \in BOOLEAN /\ 0 \in Nat
    BY DEF Reset!Steps
  <2>2. [redeemer[r] EXCEPT !.at = "marked", !.gap = (codes = <<>>)] \in CallRows
    BY <2>1, CallMoves, Zenon
  <2>3. QED BY <1>1, <2>2 DEF Reset!MarkUsed, CodesInv, CodeShapes
<1>3. OldAreUsed' /\ NewestIsLocked'
  BY <1>1 DEF CodesInv, OldAreUsed, NewestIsLocked, LocksNewest
<1>4. RowsAreHeldOnce'
  BY <1>1 DEF CodesInv, RowsAreHeldOnce, Reset!RowsFree, Reset!HoldsRows
<1>5. GapsAreEmpty'
  BY <1>1 DEF CodesInv, GapsAreEmpty
<1>6. CodesEnd
  BY <1>1, CodesAreRows DEF CodesInv, CodesEnd
<1>7. QED BY <1>2, <1>3, <1>4, <1>5, <1>6 DEF CodesInv

\* The only unused code there can be is the newest.
LEMMA LockCodeCodes ==
    ASSUME CodesInv, NEW r \in Calls, Reset!LockCode(r)
    PROVE CodesInv' /\ CodesEnd
<1>1. /\ redeemer[r].at = "read" /\ Reset!RowsFree(r) /\ codes' = codes /\ clock' = clock
      /\ redeemer'[r].at = "locked" /\ redeemer'[r].gap = (codes = <<>>)
      /\ redeemer'[r].row = IF Reset!Unused = {} THEN 0 ELSE Reset!Newest(Reset!Unused)
      /\ \A q \in Calls \ {r} : redeemer'[q] = redeemer[q]
  BY DEF Reset!LockCode, Reset!Locked, Reset!At, CodesInv, CodeShapes, CallRows
<1>2. Reset!Unused \subseteq {Len(codes)}
  BY DEF Reset!Unused, CodesInv, CodeShapes, OldAreUsed
<1>3. Reset!Unused # {} => Reset!Newest(Reset!Unused) = Len(codes) /\ Len(codes) \in Reset!Unused
  <2>1. SUFFICES ASSUME Reset!Unused = {Len(codes)}  PROVE Reset!Newest(Reset!Unused) = Len(codes)
    BY <1>2
  <2>2. Len(codes) \in Nat /\ codes[Len(codes)].created \in Nat
    BY <2>1, CodesAreRows DEF Reset!Unused, CodesInv, CodeShapes
  <2>3. QED BY <2>1, <2>2 DEF Reset!Newest
<1>4. redeemer'[r].row # 0 => LocksNewest(r)'
  BY <1>1, <1>3 DEF LocksNewest, Reset!Unused
<1>5. redeemer'[r].row \in Nat
  BY <1>1, <1>3 DEF CodesInv, CodeShapes
<1>6. CodeShapes'
  <2>1. PICK n \in Nat :
            redeemer' = [redeemer EXCEPT ![r] = [redeemer[r] EXCEPT !.at = "locked", !.gap = (codes = <<>>), !.row = n]]
    <3>1. (IF Reset!Unused = {} THEN 0 ELSE Reset!Newest(Reset!Unused)) \in Nat
      BY <1>1, <1>5
    <3>2. QED BY <3>1, Zenon DEF Reset!LockCode, Reset!Locked
  <2>2. "locked" \in Reset!Steps /\ (codes = <<>>) \in BOOLEAN
    BY DEF Reset!Steps
  <2>3. [redeemer[r] EXCEPT !.at = "locked", !.gap = (codes = <<>>), !.row = n] \in CallRows
    BY <2>2, CallMoves, Zenon
  <2>4. QED BY <1>1, <2>1, <2>3 DEF CodesInv, CodeShapes
<1>7. OldAreUsed' /\ NewestIsLocked'
  BY <1>1, <1>4 DEF CodesInv, OldAreUsed, NewestIsLocked, LocksNewest
<1>8. RowsAreHeldOnce'
  BY <1>1 DEF CodesInv, RowsAreHeldOnce, Reset!RowsFree, Reset!HoldsRows
<1>9. GapsAreEmpty'
  BY <1>1 DEF CodesInv, GapsAreEmpty
<1>10. CodesEnd
  BY <1>1, CodesAreRows DEF CodesInv, CodesEnd
<1>11. QED BY <1>6, <1>7, <1>8, <1>9, <1>10 DEF CodesInv

\* Who issues a code holds the rows, or there are none and nobody else is at the gap.
LEMMA IssueCodeCodes ==
    ASSUME CodesInv, NEW r \in Calls, Reset!IssueCode(r)
    PROVE CodesInv' /\ CodesEnd
<1> DEFINE old == [c \in DOMAIN codes |-> [codes[c] EXCEPT !.used = TRUE]]
           row == [created |-> redeemer[r].asked, used |-> FALSE, attempts |-> 0, resets |-> 0]
<1>1. /\ redeemer[r].at = "marked" /\ codes' = Append(old, row) /\ clock' = clock
      /\ \A q \in Calls \ {r} : ~redeemer[q].gap
      /\ redeemer' \in {[redeemer EXCEPT ![r] = Reset!Idle],
                      [redeemer EXCEPT ![r] = [Reset!Idle EXCEPT !.at = "queued", !.asked = redeemer[r].asked]]}
  BY DEF Reset!IssueCode, Reset!At, Reset!HoldsGap, Reset!Finish
<1>a. /\ \A q \in Calls \ {r} : ~redeemer[q].gap /\ redeemer'[q] = redeemer[q]
      /\ redeemer'[r].at \in {"idle", "queued"} /\ ~redeemer'[r].gap
  <2>1. redeemer'[r] \in {Reset!Idle, [Reset!Idle EXCEPT !.at = "queued", !.asked = redeemer[r].asked]}
    BY <1>1 DEF CodesInv, CodeShapes
  <2>2. redeemer'[r].at \in {"idle", "queued"} /\ ~redeemer'[r].gap
    <3>1. CASE redeemer'[r] = Reset!Idle
      BY <3>1 DEF Reset!Idle
    <3>2. CASE redeemer'[r] = [Reset!Idle EXCEPT !.at = "queued", !.asked = redeemer[r].asked]
      BY <3>2 DEF Reset!Idle
    <3>3. QED BY <2>1, <3>1, <3>2, Zenon
  <2>3. QED BY <1>1, <2>2 DEF CodesInv, CodeShapes
<1>2. old \in Seq(CodeRows) /\ Len(old) = Len(codes) /\ row \in CodeRows
  <2>1. \A c \in CodeRows : [c EXCEPT !.used = TRUE] \in CodeRows
    BY DEF CodeRows
  <2>2. old \in [1..Len(codes) -> CodeRows] /\ Len(codes) \in Nat
    BY <2>1, CodesAreRows DEF CodesInv, CodeShapes
  <2>3. redeemer[r].asked \in Nat
    BY DEF CodesInv, CodeShapes, CallRows
  <2>4. old \in Seq(CodeRows) /\ Len(old) = Len(codes)
    BY <2>2
  <2>5. row \in CodeRows
    BY <2>3 DEF CodeRows
  <2>6. QED BY <2>4, <2>5
<1>3. /\ codes' \in Seq(CodeRows) /\ Len(codes') = Len(codes) + 1 /\ Len(codes) \in Nat
      /\ \A c \in DOMAIN codes : codes'[c] = [codes[c] EXCEPT !.used = TRUE]
      /\ DOMAIN codes' = DOMAIN codes \cup {Len(codes) + 1} /\ DOMAIN codes = 1..Len(codes)
  BY <1>1, <1>2 DEF CodesInv, CodeShapes
<1>4. redeemer' \in [Calls -> CallRows]
  <2>1. redeemer[r].asked \in Nat
    BY DEF CodesInv, CodeShapes, CallRows
  <2>2. Reset!Idle \in CallRows /\ [Reset!Idle EXCEPT !.at = "queued", !.asked = redeemer[r].asked] \in CallRows
    BY <2>1, IdleIsACall, Zenon
  <2>3. QED BY <1>1, <2>2 DEF CodesInv, CodeShapes
<1>5. \A c \in DOMAIN codes : codes'[c].used /\ codes'[c].resets = codes[c].resets /\ codes[c].resets \in Nat
  <2>1. \A c \in CodeRows : [c EXCEPT !.used = TRUE].used /\ [c EXCEPT !.used = TRUE].resets = c.resets
    BY DEF CodeRows
  <2>2. ASSUME NEW c \in DOMAIN codes  PROVE codes[c] \in CodeRows /\ codes[c].resets \in Nat
    BY CodesAreRows DEF CodesInv
  <2>3. ASSUME NEW c \in DOMAIN codes  PROVE codes'[c] = [codes[c] EXCEPT !.used = TRUE]
    BY <1>3
  <2>4. QED BY <2>1, <2>2, <2>3, Zenon
<1>6. OldAreUsed' /\ CodesEnd
  BY <1>3, <1>5 DEF OldAreUsed, CodesEnd
<1>7. RowsAreHeldOnce'
  BY <1>a DEF CodesInv, RowsAreHeldOnce, Reset!HoldsRows
<1>8. GapsAreEmpty'
  BY <1>a DEF GapsAreEmpty
<1>9. NewestIsLocked'
  <2>1. ASSUME NEW q \in Calls, redeemer'[q].at = "locked", redeemer'[q].row # 0  PROVE FALSE
    <3>1. q # r /\ redeemer[q].at = "locked" /\ redeemer[q].row # 0 /\ ~redeemer[q].gap
      BY <1>a, <2>1
    <3>2. LocksNewest(q)
      BY <3>1 DEF CodesInv, NewestIsLocked
    <3>3. codes # <<>>
      BY <3>2 DEF LocksNewest
    <3>4. ~redeemer[r].gap
      BY <3>3 DEF CodesInv, GapsAreEmpty
    <3>5. QED BY <1>1, <3>1, <3>4 DEF CodesInv, RowsAreHeldOnce, Reset!HoldsRows
  <2>2. QED BY <2>1 DEF NewestIsLocked
<1>10. QED BY <1>1, <1>3, <1>4, <1>6, <1>7, <1>8, <1>9 DEF CodesInv, CodeShapes

\* Accept and a wrong guess write the row their call has locked, and nothing else.
LEMMA RowWritten ==
    ASSUME CodesInv, NEW r \in Calls, redeemer[r].at = "locked", redeemer[r].row # 0,
           redeemer' = [redeemer EXCEPT ![r] = Reset!Idle], clock' = clock,
           codes' \in Seq(CodeRows), DOMAIN codes' = DOMAIN codes, Len(codes') = Len(codes),
           \A c \in DOMAIN codes : c # redeemer[r].row => codes'[c] = codes[c]
    PROVE CodesInv' /\ CodesEnd
<1>1. LocksNewest(r)
  BY DEF CodesInv, NewestIsLocked
<1>2. /\ redeemer'[r].at = "idle" /\ ~redeemer'[r].gap
      /\ \A q \in Calls \ {r} : redeemer'[q] = redeemer[q]
  BY DEF CodesInv, CodeShapes, Reset!Idle
<1>3. CodeShapes'
  BY DEF CodesInv, CodeShapes, CallRows, Reset!Idle, Reset!Steps
<1>4. OldAreUsed'
  BY <1>1 DEF CodesInv, CodeShapes, OldAreUsed, LocksNewest
<1>5. RowsAreHeldOnce'
  BY <1>2 DEF CodesInv, RowsAreHeldOnce, Reset!HoldsRows
<1>6. codes # <<>> /\ ~redeemer[r].gap
  BY <1>1 DEF CodesInv, GapsAreEmpty, LocksNewest
<1>7. GapsAreEmpty'
  BY <1>2, <1>6 DEF CodesInv, GapsAreEmpty
<1>8. NewestIsLocked'
  <2>1. ASSUME NEW q \in Calls, redeemer'[q].at = "locked", redeemer'[q].row # 0  PROVE FALSE
    <3>1. q # r /\ redeemer[q].at = "locked" /\ redeemer[q].row # 0
      BY <1>2, <2>1
    <3>2. ~redeemer[q].gap
      BY <1>6 DEF CodesInv, GapsAreEmpty
    <3>3. QED BY <1>6, <3>1, <3>2 DEF CodesInv, RowsAreHeldOnce, Reset!HoldsRows
  <2>2. QED BY <2>1 DEF NewestIsLocked
<1>9. CodesEnd
  BY <1>1, CodesAreRows DEF CodesInv, LocksNewest, CodesEnd
<1>10. QED BY <1>3, <1>4, <1>5, <1>7, <1>8, <1>9 DEF CodesInv

LEMMA AcceptCodes ==
    ASSUME CodesInv, NEW r \in Calls, Reset!Accept(r)
    PROVE CodesInv' /\ CodesEnd
<1>1. /\ redeemer[r].at = "locked" /\ redeemer[r].row # 0
      /\ redeemer' = [redeemer EXCEPT ![r] = Reset!Idle] /\ clock' = clock
  BY DEF Reset!Accept, Reset!At, Reset!Live, Reset!Finish
<1>2. redeemer[r].row \in DOMAIN codes
  BY <1>1 DEF CodesInv, NewestIsLocked, LocksNewest
<1>3. codes[redeemer[r].row] \in CodeRows
  BY <1>2, CodesAreRows DEF CodesInv
<1>4. PICK new \in CodeRows : codes' = [codes EXCEPT ![redeemer[r].row] = new]
  <2>1. [codes[redeemer[r].row] EXCEPT !.used = TRUE, !.resets = codes[redeemer[r].row].resets + 1] \in CodeRows
    <3>1. codes[redeemer[r].row].resets + 1 \in Nat
      BY <1>3 DEF CodeRows
    <3>2. QED BY <1>3, <3>1 DEF CodeRows
  <2>2. codes = [codes EXCEPT ![redeemer[r].row] = codes[redeemer[r].row]]
    BY <1>2 DEF CodesInv, CodeShapes
  <2>3. \/ codes' = codes
        \/ codes' = [codes EXCEPT ![redeemer[r].row] = [codes[redeemer[r].row] EXCEPT
                         !.used = TRUE, !.resets = codes[redeemer[r].row].resets + 1]]
    BY Zenon DEF Reset!Accept
  <2>4. CASE codes' = codes
    BY <1>3, <2>2, <2>4
  <2>5. QED BY <2>1, <2>3, <2>4, Zenon
<1>5. /\ codes' \in Seq(CodeRows) /\ DOMAIN codes' = DOMAIN codes /\ Len(codes') = Len(codes)
      /\ \A c \in DOMAIN codes : c # redeemer[r].row => codes'[c] = codes[c]
  BY <1>2, <1>4 DEF CodesInv, CodeShapes
<1>6. QED BY <1>1, <1>5, RowWritten

LEMMA CountWrongGuessCodes ==
    ASSUME CodesInv, NEW r \in Calls, Reset!CountWrongGuess(r)
    PROVE CodesInv' /\ CodesEnd
<1>1. /\ redeemer[r].at = "locked" /\ redeemer[r].row # 0
      /\ redeemer' = [redeemer EXCEPT ![r] = Reset!Idle] /\ clock' = clock
  BY DEF Reset!CountWrongGuess, Reset!At, Reset!Live, Reset!Finish
<1>2. redeemer[r].row \in DOMAIN codes
  BY <1>1 DEF CodesInv, NewestIsLocked, LocksNewest
<1>3. codes[redeemer[r].row] \in CodeRows
  BY <1>2, CodesAreRows DEF CodesInv
<1>4. PICK n \in Nat, burnt \in BOOLEAN :
          codes' = [codes EXCEPT ![redeemer[r].row] = [codes[redeemer[r].row] EXCEPT !.attempts = n, !.used = burnt]]
  <2>1. codes[redeemer[r].row].attempts + 1 \in Nat
    BY <1>3 DEF CodeRows
  <2>2. (codes[redeemer[r].row].attempts + 1 >= MaxAttempts) \in BOOLEAN
    OBVIOUS
  <2>3. QED BY <2>1, <2>2, Zenon DEF Reset!CountWrongGuess
<1>5. [codes[redeemer[r].row] EXCEPT !.attempts = n, !.used = burnt] \in CodeRows
  BY <1>3 DEF CodeRows
<1>6. /\ codes' \in Seq(CodeRows) /\ DOMAIN codes' = DOMAIN codes /\ Len(codes') = Len(codes)
      /\ \A c \in DOMAIN codes : c # redeemer[r].row => codes'[c] = codes[c]
  BY <1>2, <1>4, <1>5 DEF CodesInv, CodeShapes
<1>7. QED BY <1>1, <1>6, RowWritten

LEMMA CodesStep ==
    ASSUME CodesInv, [Reset!Next]_(Reset!vars)
    PROVE CodesInv' /\ CodesEnd
<1>1. CASE Reset!Tick
  <2>1. CallsKept
    BY <1>1 DEF Reset!Tick, Reset!HoldsRows, CodesInv, CodeShapes, CallsKept
  <2>2. QED BY <2>1, QuietCodes
<1>2. ASSUME NEW r \in Calls,
             \/ Reset!RequestCode(r) \/ Reset!CountRecent(r) \/ Reset!MarkUsed(r) \/ Reset!IssueCode(r)
             \/ Reset!IssueFails(r) \/ Reset!FindAccount(r) \/ Reset!LockCode(r) \/ Reset!Accept(r)
             \/ Reset!CountWrongGuess(r) \/ Reset!Refuse(r)
      PROVE CodesInv' /\ CodesEnd
  BY <1>2, RequestCodeCodes, CountRecentCodes, MarkUsedCodes, IssueCodeCodes, IssueFailsCodes,
     FindAccountCodes, LockCodeCodes, AcceptCodes, CountWrongGuessCodes, RefuseCodes
<1>3. CASE UNCHANGED Reset!vars
  <2>1. CallsKept
    BY <1>3 DEF Reset!vars, Reset!HoldsRows, CodesInv, CodeShapes, CallsKept
  <2>2. QED BY <2>1, QuietCodes
<1>4. QED BY <1>1, <1>2, <1>3 DEF Reset!Next

LEMMA CodesStart == ASSUME Reset!Init PROVE CodesInv
<1>1. Reset!Idle \in CallRows /\ <<>> \in Seq(CodeRows) /\ DOMAIN <<>> = {}
  <2>1. 0 \in Nat /\ <<>> \in Seq(CodeRows) /\ DOMAIN <<>> = {}
    OBVIOUS
  <2>2. QED BY <2>1, IdleIsACall, Zenon
<1>2. CodeShapes
  BY <1>1 DEF Reset!Init, CodeShapes
<1>3. OldAreUsed
  BY <1>1 DEF Reset!Init, OldAreUsed
<1>4. RowsAreHeldOnce /\ GapsAreEmpty /\ NewestIsLocked
  BY DEF Reset!Init, Reset!Idle, RowsAreHeldOnce, Reset!HoldsRows, GapsAreEmpty, NewestIsLocked
<1>5. QED BY <1>2, <1>3, <1>4 DEF CodesInv

-----------------------------------------------------------------------------
(* One account's throttle: a picture's row lock has one holder *)

Holds(r, c) == check[r].at = "holding" /\ check[r].picture = c

\* The part of the type invariant the argument needs.
PictureShapes ==
    /\ pictures \in [Captchas -> {"none", "unused", "expired", "used"}]
    /\ spent \in [Captchas -> Nat]
    /\ check = [r \in Calls |-> check[r]]
    /\ \A r \in Calls : check[r].at = "holding" => check[r].picture \in Captchas

\* A picture's row lock has one holder.
LocksAreExclusive ==
    \A q, r \in Calls, c \in Captchas : Holds(q, c) /\ Holds(r, c) => q = r

\* What a call read of its picture is still so.
FreshIsFresh ==
    \A r \in Calls, c \in Captchas : Holds(r, c) /\ check[r].fresh => pictures[c] \in {"unused", "expired"}

\* A picture that let a call through is used, and did so once.
SpentIsUsed ==
    \A c \in Captchas : spent[c] = 0 \/ (spent[c] = 1 /\ pictures[c] = "used")

PicturesInv == PictureShapes /\ LocksAreExclusive /\ FreshIsFresh /\ SpentIsUsed

\* No picture is held by a call that has just finished, or moves on to any
\* step but "holding".
LEMMA OthersKeepTheirs ==
    ASSUME PicturesInv, NEW r \in Calls, NEW new, new.at # "holding",
           check' = [check EXCEPT ![r] = new]
    PROVE  /\ check' = [q \in Calls |-> check'[q]]
           /\ \A q \in Calls : check'[q].at = "holding" => check'[q].picture \in Captchas
           /\ \A q \in Calls, c \in Captchas :
                 Holds(q, c)' => Holds(q, c) /\ q # r /\ check'[q] = check[q]
  BY DEF PicturesInv, PictureShapes, Holds

\* The same of a call that ends.
LEMMA FinishKeeps ==
    ASSUME PicturesInv, NEW r \in Calls, Throttle!Finish(r)
    PROVE  /\ check' = [q \in Calls |-> check'[q]]
           /\ \A q \in Calls : check'[q].at = "holding" => check'[q].picture \in Captchas
           /\ \A q \in Calls, c \in Captchas :
                 Holds(q, c)' => Holds(q, c) /\ q # r /\ check'[q] = check[q]
  <1>1. Throttle!Idle.at # "holding"
    BY DEF Throttle!Idle
  <1> QED  BY <1>1, OthersKeepTheirs DEF Throttle!Finish

\* The same of a call that goes on to a step that holds nothing.
LEMMA BecomesKeeps ==
    ASSUME PicturesInv, NEW r \in Calls, NEW step, NEW by, NEW device, step # "holding", Throttle!Becomes(r, step, by, device)
    PROVE  /\ check' = [q \in Calls |-> check'[q]]
           /\ \A q \in Calls : check'[q].at = "holding" => check'[q].picture \in Captchas
           /\ \A q \in Calls, c \in Captchas :
                 Holds(q, c)' => Holds(q, c) /\ q # r /\ check'[q] = check[q]
  <1> DEFINE new == [at |-> step, by |-> by, device |-> device]
  <1>1. new.at # "holding"
    OBVIOUS
  <1>2. check' = [check EXCEPT ![r] = new]
    BY DEF Throttle!Becomes
  <1> HIDE DEF new
  <1> QED  BY <1>1, <1>2, OthersKeepTheirs

\* Nothing the invariant speaks of moves but a call that stops holding.
LEMMA LettingGo ==
    ASSUME PicturesInv, NEW r \in Calls, pictures' = pictures, spent' = spent,
           \/ Throttle!Finish(r)
           \/ \E step, by, device : step # "holding" /\ Throttle!Becomes(r, step, by, device)
    PROVE  PicturesInv'
  <1>1. /\ check' = [q \in Calls |-> check'[q]]
        /\ \A q \in Calls : check'[q].at = "holding" => check'[q].picture \in Captchas
        /\ \A q \in Calls, c \in Captchas :
              Holds(q, c)' => Holds(q, c) /\ q # r /\ check'[q] = check[q]
    <2>1. CASE Throttle!Finish(r)
      BY <2>1, FinishKeeps
    <2>2. CASE \E step, by, device : step # "holding" /\ Throttle!Becomes(r, step, by, device)
      BY <2>2, BecomesKeeps
    <2> QED  BY <2>1, <2>2
  <1>2. PictureShapes'
    BY <1>1 DEF PicturesInv, PictureShapes
  <1>3. LocksAreExclusive'
    BY <1>1 DEF PicturesInv, LocksAreExclusive
  <1>4. FreshIsFresh'
    BY <1>1 DEF PicturesInv, FreshIsFresh
  <1>5. SpentIsUsed'
    BY DEF PicturesInv, SpentIsUsed
  <1> QED  BY <1>2, <1>3, <1>4, <1>5 DEF PicturesInv

\* SELECT ... FOR UPDATE waits for whoever holds the picture, and reads it as it is.
LEMMA LockPictureKeeps ==
    ASSUME PicturesInv, NEW r \in Calls, Throttle!LockPicture(r)
    PROVE  PicturesInv'
  <1>1. PICK k \in Captchas :
            check' = [check EXCEPT ![r] = [at |-> "holding", by |-> "new", device |-> check[r].device,
                                         picture |-> k, fresh |-> pictures[k] \in {"unused", "expired"}]]
    BY DEF Throttle!LockPicture, Throttle!Hold
  <1>2. /\ check'[r].at = "holding" /\ check'[r].picture = k
        /\ check'[r].fresh = (pictures[k] \in {"unused", "expired"})
        /\ check' = [q \in Calls |-> check'[q]]
        /\ \A q \in Calls \ {r} : check'[q] = check[q]
    BY <1>1 DEF PicturesInv, PictureShapes
  <1>3. \A q \in Calls \ {r} : ~(check[q].at = "holding" /\ check[q].picture = k)
    BY <1>2 DEF Throttle!LockPicture, Throttle!At
  <1>4. pictures' = pictures /\ spent' = spent
    BY DEF Throttle!LockPicture
  <1>5. PictureShapes'
    BY <1>2, <1>4 DEF PicturesInv, PictureShapes
  <1>6. LocksAreExclusive'
    <2> SUFFICES ASSUME NEW p \in Calls, NEW q \in Calls, NEW c \in Captchas, Holds(p, c)', Holds(q, c)'
                 PROVE  p = q
      BY DEF LocksAreExclusive
    <2>1. CASE p = r
      BY <1>2, <1>3, <2>1 DEF Holds
    <2>2. CASE q = r
      BY <1>2, <1>3, <2>2 DEF Holds
    <2>3. CASE p # r /\ q # r
      BY <1>2, <2>3 DEF PicturesInv, LocksAreExclusive, Holds
    <2> QED  BY <2>1, <2>2, <2>3
  <1>7. FreshIsFresh'
    <2> SUFFICES ASSUME NEW q \in Calls, NEW c \in Captchas, Holds(q, c)', check'[q].fresh
                 PROVE  pictures[c] \in {"unused", "expired"}
      BY <1>4 DEF FreshIsFresh
    <2>1. CASE q = r
      BY <1>2, <2>1 DEF Holds
    <2>2. CASE q # r
      BY <1>2, <2>2 DEF PicturesInv, FreshIsFresh, Holds
    <2> QED  BY <2>1, <2>2
  <1>8. SpentIsUsed'
    BY <1>4 DEF PicturesInv, SpentIsUsed
  <1> QED  BY <1>5, <1>6, <1>7, <1>8 DEF PicturesInv

\* Whoever holds a fresh picture alone uses it up alone.
LEMMA UsePictureKeeps ==
    ASSUME PicturesInv, NEW r \in Calls, Throttle!UsePicture(r)
    PROVE  PicturesInv'
  <1> DEFINE k == check[r].picture
  <1>1. Holds(r, k) /\ k \in Captchas
    BY DEF PicturesInv, PictureShapes, Throttle!UsePicture, Throttle!At, Holds
  <1>2. /\ check' = [q \in Calls |-> check'[q]]
        /\ \A q \in Calls : check'[q].at = "holding" => check'[q].picture \in Captchas
        /\ \A q \in Calls, c \in Captchas :
              Holds(q, c)' => Holds(q, c) /\ q # r /\ check'[q] = check[q]
    <2>1. CASE Throttle!Becomes(r, "cleared", "solved", check[r].device)
      BY <2>1, BecomesKeeps
    <2>2. CASE Throttle!Finish(r)
      BY <2>2, FinishKeeps
    <2> QED  BY <2>1, <2>2 DEF Throttle!UsePicture
  <1>3. \A q \in Calls, c \in Captchas : Holds(q, c)' => c # k
    BY <1>1, <1>2 DEF PicturesInv, LocksAreExclusive
  <1>4. /\ pictures' \in [Captchas -> {"none", "unused", "expired", "used"}]
        /\ \A c \in Captchas \ {k} : pictures'[c] = pictures[c]
        /\ check[r].fresh => pictures'[k] = "used"
        /\ ~check[r].fresh => pictures'[k] = pictures[k]
    <2>1. CASE /\ check[r].fresh
               /\ pictures' = [pictures EXCEPT ![k] = "used"]
      BY <1>1, <2>1 DEF PicturesInv, PictureShapes
    <2>2. CASE pictures' = [pictures EXCEPT ![k] = IF check[r].fresh THEN "used" ELSE @]
      BY <1>1, <2>2 DEF PicturesInv, PictureShapes
    <2> QED  BY <2>1, <2>2 DEF Throttle!UsePicture
  <1>5. /\ spent' \in [Captchas -> Nat]
        /\ \A c \in Captchas \ {k} : spent'[c] = spent[c]
        /\ \/ spent'[k] = spent[k]
           \/ check[r].fresh /\ spent'[k] = spent[k] + 1
    <2>1. CASE check[r].fresh /\ spent' = [spent EXCEPT ![k] = @ + 1]
      BY <1>1, <2>1 DEF PicturesInv, PictureShapes
    <2>2. CASE UNCHANGED spent
      BY <2>2 DEF PicturesInv, PictureShapes
    <2> QED  BY <2>1, <2>2 DEF Throttle!UsePicture
  <1>6. PictureShapes'
    BY <1>2, <1>4, <1>5 DEF PictureShapes
  <1>7. LocksAreExclusive'
    BY <1>2 DEF PicturesInv, LocksAreExclusive
  <1>8. FreshIsFresh'
    BY <1>2, <1>3, <1>4 DEF PicturesInv, FreshIsFresh
  <1>9. SpentIsUsed'
    <2> SUFFICES ASSUME NEW c \in Captchas
                 PROVE  spent'[c] = 0 \/ (spent'[c] = 1 /\ pictures'[c] = "used")
      BY DEF SpentIsUsed
    <2>1. CASE c # k
      BY <1>4, <1>5, <2>1 DEF PicturesInv, SpentIsUsed
    <2>2. CASE c = k /\ check[r].fresh
      <3>1. spent[k] = 0
        BY <1>1, <2>2 DEF PicturesInv, FreshIsFresh, SpentIsUsed
      <3> QED  BY <1>4, <1>5, <2>2, <3>1
    <2>3. CASE c = k /\ ~check[r].fresh
      BY <1>1, <1>4, <1>5, <2>3 DEF PicturesInv, SpentIsUsed
    <2> QED  BY <2>1, <2>2, <2>3
  <1> QED  BY <1>6, <1>7, <1>8, <1>9 DEF PicturesInv

\* Drawing and expiring move a picture that let nothing through.
LEMMA PictureMoves ==
    ASSUME PicturesInv, NEW c \in Captchas, Throttle!Issue(c) \/ Throttle!Expire(c)
    PROVE  PicturesInv'
  <1>1. /\ check' = check /\ spent' = spent
        /\ \/ pictures[c] = "none" /\ pictures' = [pictures EXCEPT ![c] = "unused"]
           \/ pictures[c] = "unused" /\ pictures' = [pictures EXCEPT ![c] = "expired"]
    BY DEF Throttle!Issue, Throttle!Expire
  <1>2. PictureShapes'
    BY <1>1 DEF PicturesInv, PictureShapes
  <1>3. LocksAreExclusive'
    BY <1>1 DEF PicturesInv, LocksAreExclusive, Holds
  <1>4. FreshIsFresh'
    BY <1>1 DEF PicturesInv, PictureShapes, FreshIsFresh, Holds
  <1>5. SpentIsUsed'
    BY <1>1 DEF PicturesInv, PictureShapes, SpentIsUsed
  <1> QED  BY <1>2, <1>3, <1>4, <1>5 DEF PicturesInv

\* The argument's invariant holds in every reachable state.
LEMMA PicturesKept == Throttle!Spec => []PicturesInv
  <1>1. Throttle!Init => PicturesInv
    BY DEF Throttle!Init, PicturesInv, PictureShapes, LocksAreExclusive, FreshIsFresh, SpentIsUsed, Holds, Throttle!Idle
  <1>2. PicturesInv /\ [Throttle!Next]_(Throttle!vars) => PicturesInv'
    <2> SUFFICES ASSUME PicturesInv, [Throttle!Next]_(Throttle!vars)
                 PROVE  PicturesInv'
      OBVIOUS
    <2>1. CASE UNCHANGED Throttle!vars
      BY <2>1 DEF Throttle!vars, PicturesInv, PictureShapes, LocksAreExclusive, FreshIsFresh, SpentIsUsed, Holds
    <2>2. CASE Throttle!ResetPassword \/ Throttle!WindowMoves
      BY <2>2 DEF Throttle!ResetPassword, Throttle!WindowMoves, PicturesInv, PictureShapes, LocksAreExclusive, FreshIsFresh, SpentIsUsed, Holds
    <2>3. ASSUME NEW c \in Captchas, Throttle!Issue(c) \/ Throttle!Expire(c)
          PROVE  PicturesInv'
      BY <2>3, PictureMoves
    <2>4. ASSUME NEW r \in Calls, Throttle!Arrive(r)
          PROVE  PicturesInv'
      <3>1. \E client \in Throttle!Clients, device \in Devices : Throttle!Becomes(r, "arrived", client, device)
        BY <2>4 DEF Throttle!Arrive
      <3> QED  BY <2>4, <3>1, LettingGo DEF Throttle!Arrive
    <2>5. ASSUME NEW r \in Calls, Throttle!Assess(r)
          PROVE  PicturesInv'
      <3>1. Throttle!Finish(r) \/ Throttle!Becomes(r, "challenged", check[r].by, check[r].device) \/ Throttle!Becomes(r, "cleared", check[r].by, check[r].device)
        BY <2>5 DEF Throttle!Assess
      <3> QED  BY <2>5, <3>1, LettingGo DEF Throttle!Assess
    <2>6. ASSUME NEW r \in Calls, Throttle!AskForPicture(r) \/ Throttle!WrongPassword(r) \/ Throttle!RightPassword(r)
          PROVE  PicturesInv'
      BY <2>6, LettingGo DEF Throttle!AskForPicture, Throttle!WrongPassword, Throttle!RightPassword
    <2>7. ASSUME NEW r \in Calls, Throttle!LockPicture(r) \/ Throttle!UsePicture(r)
          PROVE  PicturesInv'
      BY <2>7, LockPictureKeeps, UsePictureKeeps
    <2> QED  BY <2>1, <2>2, <2>3, <2>4, <2>5, <2>6, <2>7 DEF Throttle!Next
  <1> QED  BY <1>1, <1>2, PTL DEF Throttle!Spec

\* "Each picture works once": whatever calls race for it, one call passes on it.
THEOREM OneCheckPerPicture == Throttle!Spec => []Throttle!PicturesWorkOnce
  <1>1. PicturesInv => Throttle!PicturesWorkOnce
    BY DEF PicturesInv, SpentIsUsed, Throttle!PicturesWorkOnce
  <1> QED  BY <1>1, PicturesKept, PTL

-----------------------------------------------------------------------------
(* One account's throttle: its limits *)

\* The checks that were let through and may still fail, those of a device, and those that were
\* asked for no picture though their app can show one.
Pending == {r \in Calls : check[r].at \in {"challenged", "holding", "cleared"}}
PendingOf(d) == {r \in Pending : check[r].device = d}
Unpictured == {r \in Calls : check[r].at = "cleared" /\ check[r].by = "new"}
NewSince == {i \in Throttle!SinceSuccess : log[i].by = "new"}
AddressLimit == IF IpLimit > FloodLimit THEN IpLimit ELSE FloodLimit

\* The cardinality the module counts with is that of the library.
LEMMA ThrottleCardinality == \A S : Throttle!Cardinality(S) = Cardinality(S)
BY DEF Throttle!Cardinality, Cardinality

\* The failures and the checks that may still become one.
Within(failures, pending, limit) == Cardinality(failures) + Cardinality(pending) < limit + Cardinality(Calls)
Budgets ==
    /\ Within(Throttle!SinceSuccess, Pending, AccountLimit)
    /\ \A d \in Devices : Within(Throttle!FailuresSince(d), PendingOf(d), DeviceLimit)
    /\ Within(Throttle!AllFailures, Pending, AddressLimit)
    /\ Within(NewSince, Unpictured, CaptchaAfterAccount)

ThrottleInv == Throttle!TypeOK /\ check = [r \in Calls |-> check[r]] /\ Budgets

\* The limits are numbers, and the calls can be counted.
LEMMA ThrottleNumbers ==
    /\ AccountLimit \in Nat \ {0} /\ DeviceLimit \in Nat \ {0} /\ AddressLimit \in Nat \ {0}
    /\ CaptchaAfterAccount \in Nat \ {0} /\ IpLimit \in Nat \ {0} /\ FloodLimit \in Nat \ {0}
    /\ IpLimit <= AddressLimit /\ FloodLimit <= AddressLimit /\ MaxLog \in Nat
    /\ IsFiniteSet(Calls) /\ Cardinality(Calls) \in Nat
<1>1. /\ AccountLimit \in Nat \ {0} /\ DeviceLimit \in Nat \ {0} /\ CaptchaAfterAccount \in Nat \ {0}
      /\ IpLimit \in Nat \ {0} /\ FloodLimit \in Nat \ {0} /\ MaxLog \in Nat /\ IsFiniteSet(Calls)
  BY LimitsAllowed
<1>2. QED BY <1>1, FS_CardinalityType DEF AddressLimit

\* What is counted is finite.
LEMMA ThrottleFinite ==
    ASSUME log \in Seq(Throttle!Failures \cup {Throttle!Success})
    PROVE  /\ IsFiniteSet(DOMAIN log) /\ IsFiniteSet(Throttle!SinceSuccess) /\ IsFiniteSet(Throttle!AllFailures)
           /\ IsFiniteSet(NewSince) /\ \A d \in Devices : IsFiniteSet(Throttle!FailuresSince(d))
           /\ IsFiniteSet(Pending) /\ IsFiniteSet(Unpictured) /\ \A d \in Devices : IsFiniteSet(PendingOf(d))
<1>1. IsFiniteSet(DOMAIN log)
  <2>1. DOMAIN log = 1..Len(log) /\ Len(log) \in Nat
    OBVIOUS
  <2>2. QED BY <2>1, FS_Interval
<1>2. \A S \in SUBSET (DOMAIN log) : IsFiniteSet(S)
  BY <1>1, FS_Subset
<1>3. \A S \in SUBSET Calls : IsFiniteSet(S)
  BY FS_Subset, ThrottleNumbers
<1>4. /\ Throttle!SinceSuccess \in SUBSET (DOMAIN log) /\ Throttle!AllFailures \in SUBSET (DOMAIN log)
      /\ NewSince \in SUBSET (DOMAIN log) /\ \A d \in Devices : Throttle!FailuresSince(d) \in SUBSET (DOMAIN log)
  BY DEF Throttle!SinceSuccess, Throttle!AllFailures, NewSince, Throttle!FailuresSince
<1>5. Pending \in SUBSET Calls /\ Unpictured \in SUBSET Calls /\ \A d \in Devices : PendingOf(d) \in SUBSET Calls
  BY DEF Pending, Unpictured, PendingOf
<1>6. QED BY <1>1, <1>2, <1>3, <1>4, <1>5

\* Failures that are, one by one, failures of before, and fewer checks under way.
LEMMA BudgetKept ==
    ASSUME NEW F, NEW P, NEW F2, NEW P2, NEW limit \in Nat, NEW k \in Nat,
           IsFiniteSet(F), IsFiniteSet(P), F2 \subseteq Nat, \A i \in F2 : i + k \in F, P2 \subseteq P, Within(F, P, limit)
    PROVE  Within(F2, P2, limit)
<1> DEFINE g == [i \in F2 |-> i + k]
<1>1. g \in [F2 -> F] /\ \A i, j \in F2 : g[i] = g[j] => i = j
  OBVIOUS
<1>2. Cardinality(F2) <= Cardinality(F) /\ Cardinality(F2) \in Nat
  BY <1>1, Injected
<1>3. Cardinality(P2) <= Cardinality(P) /\ Cardinality(P2) \in Nat /\ Cardinality(P) \in Nat /\ Cardinality(F) \in Nat
  BY Smaller, FS_CardinalityType
<1>4. QED BY <1>2, <1>3, ThrottleNumbers DEF Within

\* One failure more, of a check that was under way.
LEMMA BudgetSpent ==
    ASSUME NEW F, NEW P, NEW F2, NEW P2, NEW limit \in Nat, NEW i, NEW r \in P,
           IsFiniteSet(F), IsFiniteSet(P), F2 \subseteq F \cup {i}, P2 \subseteq P \ {r}, Within(F, P, limit)
    PROVE  Within(F2, P2, limit)
<1>1. IsFiniteSet(F \cup {i}) /\ Cardinality(F \cup {i}) <= Cardinality(F) + 1 /\ Cardinality(F \cup {i}) \in Nat
      /\ Cardinality(F) \in Nat
  BY OneMore
<1>2. IsFiniteSet(P \ {r}) /\ Cardinality(P \ {r}) = Cardinality(P) - 1 /\ Cardinality(P) \in Nat
  BY OneMore
<1>3. Cardinality(F2) <= Cardinality(F \cup {i}) /\ Cardinality(F2) \in Nat
  BY <1>1, Smaller
<1>4. Cardinality(P2) <= Cardinality(P \ {r}) /\ Cardinality(P2) \in Nat
  BY <1>2, Smaller
<1>5. QED BY <1>1, <1>2, <1>3, <1>4, ThrottleNumbers DEF Within

\* A check is let through only below the limit.
LEMMA BudgetOpen ==
    ASSUME NEW F, NEW P2, NEW limit \in Nat, IsFiniteSet(F), Cardinality(F) < limit, P2 \subseteq Calls
    PROVE  Within(F, P2, limit)
<1>1. Cardinality(P2) <= Cardinality(Calls) /\ Cardinality(P2) \in Nat
  BY Smaller, ThrottleNumbers
<1>2. Cardinality(F) \in Nat
  BY FS_CardinalityType
<1>3. QED BY <1>1, <1>2, ThrottleNumbers DEF Within

\* A log that stays, loses its oldest attempt, or ends with a success has no new failures.
LEMMA LogMoves ==
    ASSUME log \in Seq(Throttle!Failures \cup {Throttle!Success}),
           log' = log \/ (log # <<>> /\ log' = Tail(log)) \/ log' = Append(log, Throttle!Success)
    PROVE  /\ log' \in Seq(Throttle!Failures \cup {Throttle!Success})
           /\ \E k \in Nat :
                 /\ \A i \in (Throttle!SinceSuccess)' : i \in Nat /\ i + k \in Throttle!SinceSuccess /\ log'[i] = log[i + k]
                 /\ \A i \in (Throttle!AllFailures)' : i \in Nat /\ i + k \in Throttle!AllFailures
<1> DEFINE A == Throttle!Failures \cup {Throttle!Success}
<1>1. CASE log' = log
  <2>1. /\ \A i \in (Throttle!SinceSuccess)' : i \in Nat /\ i + 0 \in Throttle!SinceSuccess /\ log'[i] = log[i + 0]
        /\ \A i \in (Throttle!AllFailures)' : i \in Nat /\ i + 0 \in Throttle!AllFailures
    BY <1>1 DEF Throttle!SinceSuccess, Throttle!AllFailures
  <2>2. QED BY <1>1, <2>1
<1>2. CASE log # <<>> /\ log' = Tail(log)
  <2> HIDE DEF A
  <2>1. /\ log' \in Seq(A) /\ Len(log') = Len(log) - 1 /\ Len(log) \in Nat \ {0} /\ DOMAIN log' = 1..Len(log')
        /\ DOMAIN log = 1..Len(log)
        /\ \A i \in DOMAIN log' : log'[i] = log[i + 1] /\ i \in Nat /\ i + 1 \in DOMAIN log
    BY <1>2 DEF A
  <2>2. ASSUME NEW i \in (Throttle!SinceSuccess)'  PROVE i + 1 \in Throttle!SinceSuccess /\ log'[i] = log[i + 1] /\ i \in Nat
    <3>1. i \in DOMAIN log' /\ \A j \in DOMAIN log' : log'[j].success => j < i
      BY DEF Throttle!SinceSuccess
    <3>2. ASSUME NEW j \in DOMAIN log, log[j].success  PROVE j < i + 1
      <4>1. CASE j = 1
        BY <2>1, <3>1, <4>1
      <4>2. CASE j # 1
        <5>1. j - 1 \in DOMAIN log' /\ (j - 1) + 1 = j
          BY <2>1, <4>2
        <5>2. log'[j - 1].success
          BY <2>1, <3>2, <5>1
        <5>3. j - 1 < i
          BY <3>1, <5>1, <5>2
        <5>4. i \in Nat /\ j \in Nat
          BY <2>1, <3>1
        <5>5. QED BY <5>3, <5>4
      <4>3. QED BY <4>1, <4>2
    <3>3. QED BY <2>1, <3>1, <3>2 DEF Throttle!SinceSuccess
  <2>3. \A i \in (Throttle!AllFailures)' : i \in Nat /\ i + 1 \in Throttle!AllFailures
    BY <2>1 DEF Throttle!AllFailures
  <2>4. QED BY <2>1, <2>2, <2>3 DEF A
<1>3. CASE log' = Append(log, Throttle!Success)
  <2> HIDE DEF A
  <2>1. /\ log' \in Seq(A) /\ Len(log) \in Nat /\ DOMAIN log' = 1..(Len(log) + 1)
        /\ log'[Len(log) + 1] = Throttle!Success /\ \A i \in DOMAIN log : log'[i] = log[i] /\ i \in Nat
        /\ \A i \in DOMAIN log' : i \in DOMAIN log \/ i = Len(log) + 1
    <3>1. log \in Seq(A) /\ Throttle!Success \in A
      BY DEF A
    <3>2. QED BY <1>3, <3>1, Appended
  <2>2. Throttle!Success.success
    BY DEF Throttle!Success
  <2>3. ASSUME NEW i \in (Throttle!SinceSuccess)'  PROVE FALSE
    <3>1. i \in DOMAIN log' /\ \A j \in DOMAIN log' : log'[j].success => j < i
      BY DEF Throttle!SinceSuccess
    <3>2. Len(log) + 1 \in DOMAIN log' /\ log'[Len(log) + 1].success
      BY <2>1, <2>2
    <3>3. Len(log) + 1 < i
      BY <3>1, <3>2
    <3>4. QED BY <2>1, <3>1, <3>3
  <2>4. ASSUME NEW i \in (Throttle!AllFailures)'  PROVE i \in Nat /\ i + 0 \in Throttle!AllFailures
    <3>1. i \in DOMAIN log' /\ ~log'[i].success
      BY DEF Throttle!AllFailures
    <3>2. i \in DOMAIN log
      BY <2>1, <2>2, <3>1
    <3>3. log'[i] = log[i] /\ i \in Nat /\ i + 0 = i
      BY <2>1, <3>2
    <3>4. QED BY <3>1, <3>2, <3>3 DEF Throttle!AllFailures
  <2>5. QED BY <2>1, <2>3, <2>4 DEF A
<1>4. QED BY <1>1, <1>2, <1>3

\* Steps that add no failure, and let no check through, keep to every limit.
LEMMA QuietThrottle ==
    ASSUME ThrottleInv,
           log' = log \/ (log # <<>> /\ log' = Tail(log)) \/ log' = Append(log, Throttle!Success),
           \A r \in Pending' : r \in Pending /\ check'[r].device = check[r].device,
           Unpictured' \subseteq Unpictured
    PROVE  log' \in Seq(Throttle!Failures \cup {Throttle!Success}) /\ Budgets'
<1>1. log \in Seq(Throttle!Failures \cup {Throttle!Success})
  BY DEF ThrottleInv, Throttle!TypeOK
<1>2. log' \in Seq(Throttle!Failures \cup {Throttle!Success})
  BY <1>1, LogMoves
<1>3. PICK k \in Nat :
          /\ \A i \in (Throttle!SinceSuccess)' : i \in Nat /\ i + k \in Throttle!SinceSuccess /\ log'[i] = log[i + k]
          /\ \A i \in (Throttle!AllFailures)' : i \in Nat /\ i + k \in Throttle!AllFailures
  BY <1>1, LogMoves
<1>4. /\ IsFiniteSet(DOMAIN log) /\ IsFiniteSet(Throttle!SinceSuccess) /\ IsFiniteSet(Throttle!AllFailures)
      /\ IsFiniteSet(NewSince) /\ \A d \in Devices : IsFiniteSet(Throttle!FailuresSince(d))
      /\ IsFiniteSet(Pending) /\ IsFiniteSet(Unpictured) /\ \A d \in Devices : IsFiniteSet(PendingOf(d))
  BY <1>1, ThrottleFinite
<1>5. Pending' \subseteq Pending /\ \A d \in Devices : (PendingOf(d))' \subseteq PendingOf(d)
  BY DEF PendingOf
<1>6. Within(Throttle!SinceSuccess, Pending, AccountLimit)'
  <2>1. (Throttle!SinceSuccess)' \subseteq Nat /\ \A i \in (Throttle!SinceSuccess)' : i + k \in Throttle!SinceSuccess
    BY <1>3
  <2>2. Within(Throttle!SinceSuccess, Pending, AccountLimit) /\ AccountLimit \in Nat
    BY ThrottleNumbers DEF ThrottleInv, Budgets
  <2>3. Within((Throttle!SinceSuccess)', Pending', AccountLimit)
    BY <1>4, <1>5, <2>1, <2>2, BudgetKept
  <2>4. QED BY <2>3 DEF Within
<1>7. Within(Throttle!AllFailures, Pending, AddressLimit)'
  <2>1. (Throttle!AllFailures)' \subseteq Nat /\ \A i \in (Throttle!AllFailures)' : i + k \in Throttle!AllFailures
    BY <1>3
  <2>2. Within(Throttle!AllFailures, Pending, AddressLimit) /\ AddressLimit \in Nat
    BY ThrottleNumbers DEF ThrottleInv, Budgets
  <2>3. Within((Throttle!AllFailures)', Pending', AddressLimit)
    BY <1>4, <1>5, <2>1, <2>2, BudgetKept
  <2>4. QED BY <2>3 DEF Within, AddressLimit
<1>8. Within(NewSince, Unpictured, CaptchaAfterAccount)'
  <2>1. NewSince' \subseteq Nat /\ \A i \in NewSince' : i + k \in NewSince
    BY <1>3 DEF NewSince
  <2>2. Within(NewSince, Unpictured, CaptchaAfterAccount) /\ CaptchaAfterAccount \in Nat
    BY ThrottleNumbers DEF ThrottleInv, Budgets
  <2>3. Within(NewSince', Unpictured', CaptchaAfterAccount)
    BY <1>4, <2>1, <2>2, BudgetKept
  <2>4. QED BY <2>3 DEF Within
<1>9. ASSUME NEW d \in Devices  PROVE Within(Throttle!FailuresSince(d), PendingOf(d), DeviceLimit)'
  <2>1. (Throttle!FailuresSince(d))' \subseteq Nat
        /\ \A i \in (Throttle!FailuresSince(d))' : i + k \in Throttle!FailuresSince(d)
    BY <1>3 DEF Throttle!FailuresSince
  <2>2. Within(Throttle!FailuresSince(d), PendingOf(d), DeviceLimit) /\ DeviceLimit \in Nat
    BY ThrottleNumbers DEF ThrottleInv, Budgets
  <2>3. Within((Throttle!FailuresSince(d))', (PendingOf(d))', DeviceLimit)
    BY <1>4, <1>5, <2>1, <2>2, BudgetKept
  <2>4. QED BY <2>3 DEF Within
<1>10. QED BY <1>2, <1>6, <1>7, <1>8, <1>9 DEF Budgets

\* What a step of call r leaves of the others, and of the calls under way.
LEMMA CheckMoves ==
    ASSUME ThrottleInv, NEW r \in Calls, NEW new, check' = [check EXCEPT ![r] = new]
    PROVE  /\ check' = [q \in Calls |-> check'[q]] /\ DOMAIN check' = Calls
           /\ check'[r] = new /\ \A q \in Calls \ {r} : check'[q] = check[q]
BY DEF ThrottleInv, Throttle!TypeOK

\* A call that ends, or comes, or loses its way, is no longer pending.
LEMMA NotPending ==
    ASSUME ThrottleInv, NEW r \in Calls, NEW new, check' = [check EXCEPT ![r] = new],
           new.at \notin {"challenged", "holding", "cleared"}
    PROVE  /\ \A q \in Pending' : q \in Pending /\ q # r /\ check'[q].device = check[q].device
           /\ Unpictured' \subseteq Unpictured \ {r}
BY CheckMoves DEF Pending, Unpictured

\* A pending call stays pending on its device, and with it the picture it was asked for.
LEMMA StillPending ==
    ASSUME ThrottleInv, NEW r \in Pending, NEW new, check' = [check EXCEPT ![r] = new],
           new.device = check[r].device, ~(new.at = "cleared" /\ new.by = "new")
    PROVE  /\ \A q \in Pending' : q \in Pending /\ check'[q].device = check[q].device
           /\ Unpictured' \subseteq Unpictured
BY CheckMoves DEF Pending, Unpictured

\* The type of a call.
CheckOK(c) ==
    \/ c = Throttle!Idle
    \/ /\ c.at \in Throttle!Steps \ {"idle"} /\ c.by \in Throttle!Clients \cup {"solved"} /\ c.device \in Devices
       /\ c.at = "holding" => c.by = "new" /\ c.picture \in Captchas

LEMMA CheckTyped ==
    ASSUME ThrottleInv, NEW r \in Calls, NEW new, check' = [check EXCEPT ![r] = new], CheckOK(new)
    PROVE  /\ DOMAIN check' = Calls /\ check' = [q \in Calls |-> check'[q]]
           /\ \A q \in Calls : CheckOK(check'[q])
<1>1. \A q \in Calls : CheckOK(check[q])
  BY DEF ThrottleInv, Throttle!TypeOK, CheckOK
<1>2. QED BY <1>1, CheckMoves

\* Most steps: a call moves without being let through.
LEMMA QuietStep ==
    ASSUME ThrottleInv, NEW r \in Calls, NEW new, check' = [check EXCEPT ![r] = new], CheckOK(new),
           \/ new.at \notin {"challenged", "holding", "cleared"}
           \/ r \in Pending /\ new.device = check[r].device /\ ~(new.at = "cleared" /\ new.by = "new"),
           log' = log \/ log' = Append(log, Throttle!Success),
           pictures' \in [Captchas -> {"none", "unused", "expired", "used"}], spent' \in [Captchas -> Nat]
    PROVE  ThrottleInv'
<1>1. /\ \A q \in Pending' : q \in Pending /\ check'[q].device = check[q].device
      /\ Unpictured' \subseteq Unpictured
  BY NotPending, StillPending
<1>2. log' \in Seq(Throttle!Failures \cup {Throttle!Success}) /\ Budgets'
  BY <1>1, QuietThrottle
<1>3. DOMAIN check' = Calls /\ check' = [q \in Calls |-> check'[q]] /\ \A q \in Calls : CheckOK(check'[q])
  BY CheckTyped
<1>4. (Throttle!TypeOK)'
  BY <1>2, <1>3 DEF Throttle!TypeOK, CheckOK
<1>5. QED BY <1>2, <1>3, <1>4 DEF ThrottleInv

\* assess lets a call through only below every limit.
LEMMA AssessBudgets ==
    ASSUME ThrottleInv, NEW r \in Calls, Throttle!Assess(r)
    PROVE  ThrottleInv'
<1>1. check[r].at = "arrived" /\ log' = log /\ pictures' = pictures /\ spent' = spent
  BY DEF Throttle!Assess, Throttle!At
<1>2. check[r] # Throttle!Idle /\ CheckOK(check[r])
  <2>1. Throttle!Idle.at = "idle"
    BY DEF Throttle!Idle
  <2>2. QED BY <1>1, <2>1 DEF ThrottleInv, Throttle!TypeOK, CheckOK
<1>3. CASE Throttle!Locked(r)
  <2>1. check' = [check EXCEPT ![r] = Throttle!Idle] /\ Throttle!Idle.at = "idle" /\ CheckOK(Throttle!Idle)
    BY <1>3 DEF Throttle!Assess, Throttle!Finish, Throttle!Idle, CheckOK
  <2>2. QED BY <1>1, <2>1, QuietStep DEF ThrottleInv, Throttle!TypeOK
<1>4. CASE ~Throttle!Locked(r)
  <2> DEFINE step == IF Throttle!NeedsCaptcha(r) THEN "challenged" ELSE "cleared"
             new == [at |-> step, by |-> check[r].by, device |-> check[r].device]
  <2>1. check' = [check EXCEPT ![r] = new]
    BY <1>4 DEF Throttle!Assess, Throttle!Becomes
  <2>2. /\ Cardinality(Throttle!SinceSuccess) < AccountLimit
        /\ Cardinality(Throttle!FailuresSince(check[r].device)) < DeviceLimit
        /\ Cardinality(Throttle!AllFailures) < AddressLimit
        /\ ~Throttle!NeedsCaptcha(r) /\ check[r].by = "new" => Cardinality(NewSince) < CaptchaAfterAccount
    <3>1. /\ IsFiniteSet(Throttle!SinceSuccess) /\ IsFiniteSet(Throttle!AllFailures)
          /\ IsFiniteSet(Throttle!FailuresSince(check[r].device)) /\ NewSince \subseteq Throttle!SinceSuccess
      <4>1. check[r].device \in Devices
        BY <1>2 DEF CheckOK
      <4>2. log \in Seq(Throttle!Failures \cup {Throttle!Success})
        BY DEF ThrottleInv, Throttle!TypeOK
      <4>3. QED BY <4>1, <4>2, ThrottleFinite DEF NewSince
    <3>2. /\ Cardinality(Throttle!SinceSuccess) \in Nat /\ Cardinality(Throttle!AllFailures) \in Nat
          /\ Cardinality(Throttle!FailuresSince(check[r].device)) \in Nat
          /\ Cardinality(NewSince) \in Nat /\ Cardinality(NewSince) <= Cardinality(Throttle!SinceSuccess)
      BY <3>1, FS_CardinalityType, Smaller
    <3>3. /\ ~(Cardinality(Throttle!SinceSuccess) >= AccountLimit)
          /\ ~(Cardinality(Throttle!FailuresSince(check[r].device)) >= DeviceLimit)
          /\ ~(Cardinality(Throttle!AllFailures) >= IF Throttle!Shows(r) THEN FloodLimit ELSE IpLimit)
      BY <1>4, ThrottleCardinality, Zenon DEF Throttle!Locked
    <3>4. Cardinality(Throttle!AllFailures) < AddressLimit
      BY <3>2, <3>3, ThrottleNumbers
    <3>5. ~Throttle!NeedsCaptcha(r) /\ check[r].by = "new" => ~(Cardinality(Throttle!SinceSuccess) >= CaptchaAfterAccount)
      BY ThrottleCardinality, Zenon DEF Throttle!NeedsCaptcha, Throttle!Shows
    <3>6. ~Throttle!NeedsCaptcha(r) /\ check[r].by = "new" => Cardinality(NewSince) < CaptchaAfterAccount
      BY <3>2, <3>5, ThrottleNumbers
    <3>7. QED BY <3>2, <3>3, <3>4, <3>6, ThrottleNumbers
  <2>3. new.at = step /\ new.by = check[r].by /\ new.device = check[r].device /\ step \in {"challenged", "cleared"}
    OBVIOUS
  <2>4. CheckOK(new)
    BY <1>2, <2>3 DEF CheckOK, Throttle!Steps
  <2>5. /\ DOMAIN check' = Calls /\ check' = [q \in Calls |-> check'[q]] /\ \A q \in Calls : CheckOK(check'[q])
        /\ check'[r] = new /\ \A q \in Calls \ {r} : check'[q] = check[q]
    <3> HIDE DEF new
    <3>1. QED BY <2>1, <2>4, CheckTyped, CheckMoves
  <2>6. /\ Pending' \subseteq Calls /\ Unpictured' \subseteq Calls
        /\ \A d \in Devices \ {check[r].device} : (PendingOf(d))' \subseteq PendingOf(d)
        /\ \A d \in Devices : (PendingOf(d))' \subseteq Calls
        /\ ~(~Throttle!NeedsCaptcha(r) /\ check[r].by = "new") => Unpictured' \subseteq Unpictured
    <3> HIDE DEF new
    <3>1. \A q \in Pending' : q \in Calls /\ (q = r \/ (q \in Pending /\ check'[q] = check[q]))
      BY <2>5 DEF Pending
    <3>2. \A q \in Unpictured' : q \in Calls /\ (q = r \/ q \in Unpictured)
      BY <2>5 DEF Unpictured
    <3>3. r \in Unpictured' => ~Throttle!NeedsCaptcha(r) /\ check[r].by = "new"
      BY <2>3, <2>5 DEF Unpictured
    <3>4. check'[r].device = check[r].device
      BY <2>3, <2>5
    <3>5. QED BY <3>1, <3>2, <3>3, <3>4 DEF PendingOf
  <2> HIDE DEF new, step
  <2>7. log \in Seq(Throttle!Failures \cup {Throttle!Success})
    BY DEF ThrottleInv, Throttle!TypeOK
  <2>8. /\ IsFiniteSet(Throttle!SinceSuccess) /\ IsFiniteSet(Throttle!AllFailures) /\ IsFiniteSet(NewSince)
        /\ \A d \in Devices : IsFiniteSet(Throttle!FailuresSince(d)) /\ IsFiniteSet(PendingOf(d))
        /\ IsFiniteSet(Unpictured)
    BY <2>7, ThrottleFinite
  <2>9. /\ (Throttle!SinceSuccess)' = Throttle!SinceSuccess /\ (Throttle!AllFailures)' = Throttle!AllFailures
        /\ \A d \in Devices : (Throttle!FailuresSince(d))' = Throttle!FailuresSince(d)
        /\ NewSince' = NewSince /\ AddressLimit' = AddressLimit
    BY <1>1 DEF Throttle!SinceSuccess, Throttle!AllFailures, Throttle!FailuresSince, NewSince, AddressLimit
  <2>10. Within(Throttle!SinceSuccess, Pending, AccountLimit)'
    <3>1. Within(Throttle!SinceSuccess, Pending', AccountLimit)
      BY <2>2, <2>6, <2>8, BudgetOpen, ThrottleNumbers
    <3>2. QED BY <2>9, <3>1 DEF Within
  <2>11. Within(Throttle!AllFailures, Pending, AddressLimit)'
    <3>1. Within(Throttle!AllFailures, Pending', AddressLimit)
      BY <2>2, <2>6, <2>8, BudgetOpen, ThrottleNumbers
    <3>2. QED BY <2>9, <3>1 DEF Within
  <2>12. Within(NewSince, Unpictured, CaptchaAfterAccount)'
    <3>1. CASE ~Throttle!NeedsCaptcha(r) /\ check[r].by = "new"
      <4>1. Within(NewSince, Unpictured', CaptchaAfterAccount)
        BY <2>2, <2>6, <2>8, <3>1, BudgetOpen, ThrottleNumbers
      <4>2. QED BY <2>9, <4>1 DEF Within
    <3>2. CASE ~(~Throttle!NeedsCaptcha(r) /\ check[r].by = "new")
      <4>1. Cardinality(Unpictured') <= Cardinality(Unpictured) /\ Cardinality(Unpictured') \in Nat
        BY <2>6, <2>8, <3>2, Smaller
      <4>2. Cardinality(Unpictured) \in Nat /\ Cardinality(NewSince) \in Nat
        BY <2>8, FS_CardinalityType
      <4>3. Within(NewSince, Unpictured, CaptchaAfterAccount)
        BY DEF ThrottleInv, Budgets
      <4>4. Within(NewSince, Unpictured', CaptchaAfterAccount)
        BY <4>1, <4>2, <4>3, ThrottleNumbers DEF Within
      <4>5. QED BY <2>9, <4>4 DEF Within
    <3>3. QED BY <3>1, <3>2
  <2>13. ASSUME NEW d \in Devices  PROVE Within(Throttle!FailuresSince(d), PendingOf(d), DeviceLimit)'
    <3>1. CASE d = check[r].device
      <4>1. Within(Throttle!FailuresSince(d), (PendingOf(d))', DeviceLimit)
        BY <2>2, <2>6, <2>8, <3>1, BudgetOpen, ThrottleNumbers
      <4>2. QED BY <2>9, <4>1 DEF Within
    <3>2. CASE d # check[r].device
      <4>1. Cardinality((PendingOf(d))') <= Cardinality(PendingOf(d)) /\ Cardinality((PendingOf(d))') \in Nat
        BY <2>6, <2>8, <3>2, Smaller
      <4>2. Cardinality(PendingOf(d)) \in Nat /\ Cardinality(Throttle!FailuresSince(d)) \in Nat
        BY <2>8, FS_CardinalityType
      <4>3. Within(Throttle!FailuresSince(d), PendingOf(d), DeviceLimit)
        BY DEF ThrottleInv, Budgets
      <4>4. Within(Throttle!FailuresSince(d), (PendingOf(d))', DeviceLimit)
        BY <4>1, <4>2, <4>3, ThrottleNumbers DEF Within
      <4>5. QED BY <2>9, <4>4 DEF Within
    <3>3. QED BY <3>1, <3>2
  <2>14. Budgets'
    BY <2>10, <2>11, <2>12, <2>13 DEF Budgets
  <2>15. (Throttle!TypeOK)'
    BY <1>1, <2>5, <2>7 DEF Throttle!TypeOK, CheckOK, ThrottleInv
  <2>16. QED BY <2>5, <2>14, <2>15 DEF ThrottleInv
<1>5. QED BY <1>3, <1>4

\* A wrong password turns one pending check into one failure.
LEMMA WrongPasswordBudgets ==
    ASSUME ThrottleInv, NEW r \in Calls, Throttle!WrongPassword(r)
    PROVE  ThrottleInv'
<1> DEFINE x == Throttle!Failure(check[r].device, check[r].by)
           last == Len(log) + 1
<1>1. /\ check[r].at = "cleared" /\ log' = Append(log, x) /\ check' = [check EXCEPT ![r] = Throttle!Idle]
      /\ pictures' = pictures /\ spent' = spent
  BY DEF Throttle!WrongPassword, Throttle!At, Throttle!Finish
<1>2. Throttle!Idle.at = "idle" /\ CheckOK(Throttle!Idle)
  BY DEF Throttle!Idle, CheckOK
<1>3. CheckOK(check[r]) /\ check[r] # Throttle!Idle /\ log \in Seq(Throttle!Failures \cup {Throttle!Success})
  BY <1>1, <1>2 DEF ThrottleInv, Throttle!TypeOK, CheckOK
<1>4. check[r].device \in Devices /\ check[r].by \in Throttle!Clients \cup {"solved"}
  BY <1>3 DEF CheckOK
<1>5. /\ x \in Throttle!Failures /\ x.success = FALSE /\ x.device = check[r].device /\ x.by = check[r].by
  <2>1. x \in Throttle!Failures
    BY <1>4 DEF Throttle!Failures
  <2>2. QED BY <2>1 DEF Throttle!Failure
<1> HIDE DEF x
<1>6. /\ log' \in Seq(Throttle!Failures \cup {Throttle!Success}) /\ log'[last] = x /\ DOMAIN log' = 1..last
      /\ \A i \in DOMAIN log : log'[i] = log[i] /\ i \in Nat /\ i <= Len(log) /\ i \in DOMAIN log'
      /\ \A i \in DOMAIN log' : i \in DOMAIN log \/ i = last
  <2>1. x \in Throttle!Failures \cup {Throttle!Success}
    BY <1>5
  <2>2. /\ log' \in Seq(Throttle!Failures \cup {Throttle!Success}) /\ Len(log) \in Nat
        /\ DOMAIN log = 1..Len(log) /\ DOMAIN log' = 1..(Len(log) + 1) /\ log'[Len(log) + 1] = x
        /\ \A i \in DOMAIN log : log'[i] = log[i] /\ i \in Nat /\ i <= Len(log)
        /\ \A i \in DOMAIN log' : i \in DOMAIN log \/ i = Len(log) + 1
    BY <1>1, <1>3, <2>1, Appended
  <2>3. \A i \in DOMAIN log : i \in DOMAIN log'
    BY <2>2
  <2>4. QED BY <2>2, <2>3
<1> HIDE DEF last
<1>7. (Throttle!SinceSuccess)' \subseteq Throttle!SinceSuccess \cup {last}
  BY <1>6 DEF Throttle!SinceSuccess
<1>8. (Throttle!AllFailures)' \subseteq Throttle!AllFailures \cup {last}
  BY <1>6 DEF Throttle!AllFailures
<1>9. \A d \in Devices : (Throttle!FailuresSince(d))' \subseteq
          Throttle!FailuresSince(d) \cup (IF d = check[r].device THEN {last} ELSE {})
  <2>1. \A i \in (Throttle!SinceSuccess)' : i # last => log'[i] = log[i]
    BY <1>6 DEF Throttle!SinceSuccess
  <2>2. QED BY <1>5, <1>6, <1>7, <2>1 DEF Throttle!FailuresSince
<1>10. NewSince' \subseteq NewSince \cup (IF check[r].by = "new" THEN {last} ELSE {})
  <2>1. \A i \in (Throttle!SinceSuccess)' : i # last => log'[i] = log[i]
    BY <1>6 DEF Throttle!SinceSuccess
  <2>2. QED BY <1>5, <1>6, <1>7, <2>1 DEF NewSince
<1>11. /\ \A q \in Pending' : q \in Pending /\ q # r /\ check'[q].device = check[q].device
       /\ Unpictured' \subseteq Unpictured \ {r}
  <2>1. Throttle!Idle.at \notin {"challenged", "holding", "cleared"}
    BY <1>2
  <2>2. QED BY <1>1, <2>1, NotPending
<1>12. /\ Pending' \subseteq Pending \ {r} /\ \A d \in Devices : (PendingOf(d))' \subseteq PendingOf(d) \ {r}
       /\ r \in Pending /\ r \in PendingOf(check[r].device) /\ (check[r].by = "new" => r \in Unpictured)
  BY <1>1, <1>11 DEF PendingOf, Pending, Unpictured
<1>13. /\ IsFiniteSet(Throttle!SinceSuccess) /\ IsFiniteSet(Throttle!AllFailures) /\ IsFiniteSet(NewSince)
       /\ \A d \in Devices : IsFiniteSet(Throttle!FailuresSince(d)) /\ IsFiniteSet(PendingOf(d))
       /\ IsFiniteSet(Pending) /\ IsFiniteSet(Unpictured)
  BY <1>3, ThrottleFinite
<1>14. \A d \in Devices : /\ Throttle!FailuresSince(d) \subseteq DOMAIN log /\ (Throttle!FailuresSince(d))' \subseteq Nat
                          /\ Throttle!FailuresSince(d) \subseteq Nat
  BY <1>6 DEF Throttle!FailuresSince, Throttle!SinceSuccess
<1>15. NewSince' \subseteq Nat /\ NewSince \subseteq Nat
  BY <1>6 DEF NewSince, Throttle!SinceSuccess
<1>16. Within(Throttle!SinceSuccess, Pending, AccountLimit)'
  <2>1. Within(Throttle!SinceSuccess, Pending, AccountLimit) /\ AccountLimit \in Nat
    BY ThrottleNumbers DEF ThrottleInv, Budgets
  <2>2. Within((Throttle!SinceSuccess)', Pending', AccountLimit)
    BY <1>7, <1>12, <1>13, <2>1, BudgetSpent
  <2>3. QED BY <2>2 DEF Within
<1>17. Within(Throttle!AllFailures, Pending, AddressLimit)'
  <2>1. Within(Throttle!AllFailures, Pending, AddressLimit) /\ AddressLimit \in Nat
    BY ThrottleNumbers DEF ThrottleInv, Budgets
  <2>2. Within((Throttle!AllFailures)', Pending', AddressLimit)
    BY <1>8, <1>12, <1>13, <2>1, BudgetSpent
  <2>3. QED BY <2>2 DEF Within, AddressLimit
<1>18. Within(NewSince, Unpictured, CaptchaAfterAccount)'
  <2>1. Within(NewSince, Unpictured, CaptchaAfterAccount) /\ CaptchaAfterAccount \in Nat
    BY ThrottleNumbers DEF ThrottleInv, Budgets
  <2>2. CASE check[r].by = "new"
    <3>1. NewSince' \subseteq NewSince \cup {last} /\ r \in Unpictured /\ Unpictured' \subseteq Unpictured \ {r}
      BY <1>10, <1>11, <1>12, <2>2
    <3>2. Within(NewSince', Unpictured', CaptchaAfterAccount)
      BY <1>13, <2>1, <3>1, BudgetSpent
    <3>3. QED BY <3>2 DEF Within
  <2>3. CASE check[r].by # "new"
    <3>1. \A i \in NewSince' : i + 0 \in NewSince
      BY <1>10, <1>15, <2>3
    <3>2. Within(NewSince', Unpictured', CaptchaAfterAccount)
      BY <1>11, <1>13, <1>15, <2>1, <3>1, BudgetKept
    <3>3. QED BY <3>2 DEF Within
  <2>4. QED BY <2>2, <2>3
<1>19. ASSUME NEW d \in Devices  PROVE Within(Throttle!FailuresSince(d), PendingOf(d), DeviceLimit)'
  <2>1. Within(Throttle!FailuresSince(d), PendingOf(d), DeviceLimit) /\ DeviceLimit \in Nat
    BY ThrottleNumbers DEF ThrottleInv, Budgets
  <2>2. CASE d = check[r].device
    <3>1. (Throttle!FailuresSince(d))' \subseteq Throttle!FailuresSince(d) \cup {last} /\ r \in PendingOf(d)
          /\ (PendingOf(d))' \subseteq PendingOf(d) \ {r}
      BY <1>9, <1>12, <2>2
    <3>2. Within((Throttle!FailuresSince(d))', (PendingOf(d))', DeviceLimit)
      BY <1>13, <2>1, <3>1, BudgetSpent
    <3>3. QED BY <3>2 DEF Within
  <2>3. CASE d # check[r].device
    <3>1. \A i \in (Throttle!FailuresSince(d))' : i + 0 \in Throttle!FailuresSince(d)
      BY <1>9, <1>14, <2>3
    <3>2. (PendingOf(d))' \subseteq PendingOf(d) /\ (Throttle!FailuresSince(d))' \subseteq Nat
      BY <1>12, <1>14
    <3>3. Within((Throttle!FailuresSince(d))', (PendingOf(d))', DeviceLimit)
      BY <1>13, <2>1, <3>1, <3>2, BudgetKept
    <3>4. QED BY <3>3 DEF Within
  <2>4. QED BY <2>2, <2>3
<1>20. Budgets'
  BY <1>16, <1>17, <1>18, <1>19 DEF Budgets
<1>21. DOMAIN check' = Calls /\ check' = [q \in Calls |-> check'[q]] /\ \A q \in Calls : CheckOK(check'[q])
  BY <1>1, <1>2, CheckTyped
<1>22. (Throttle!TypeOK)'
  BY <1>1, <1>6, <1>21 DEF Throttle!TypeOK, CheckOK, ThrottleInv
<1>23. QED BY <1>20, <1>21, <1>22 DEF ThrottleInv

\* Every step keeps the budgets.
LEMMA ThrottleStep ==
    ASSUME ThrottleInv, [Throttle!Next]_(Throttle!vars)
    PROVE  ThrottleInv'
<1>0. /\ pictures \in [Captchas -> {"none", "unused", "expired", "used"}] /\ spent \in [Captchas -> Nat]
      /\ Throttle!Idle.at = "idle" /\ CheckOK(Throttle!Idle) /\ \A q \in Calls : CheckOK(check[q])
  BY DEF ThrottleInv, Throttle!TypeOK, Throttle!Idle, CheckOK
<1>1. CASE check' = check /\ (log' = log \/ (log # <<>> /\ log' = Tail(log)) \/ log' = Append(log, Throttle!Success))
           /\ pictures' \in [Captchas -> {"none", "unused", "expired", "used"}] /\ spent' = spent
  <2>1. \A q \in Pending' : q \in Pending /\ check'[q].device = check[q].device
    BY <1>1 DEF Pending
  <2>2. Unpictured' \subseteq Unpictured
    BY <1>1 DEF Unpictured
  <2>3. log' \in Seq(Throttle!Failures \cup {Throttle!Success}) /\ Budgets'
    BY <1>1, <2>1, <2>2, QuietThrottle
  <2>4. (Throttle!TypeOK)' /\ check' = [r \in Calls |-> check'[r]]
    BY <1>1, <2>3 DEF ThrottleInv, Throttle!TypeOK
  <2>5. QED BY <2>3, <2>4 DEF ThrottleInv
<1>2. ASSUME NEW c \in Captchas, Throttle!Issue(c) \/ Throttle!Expire(c)  PROVE ThrottleInv'
  BY <1>0, <1>1, <1>2 DEF Throttle!Issue, Throttle!Expire
<1>3. ASSUME NEW r \in Calls, Throttle!Arrive(r)  PROVE ThrottleInv'
  <2>1. PICK by \in Throttle!Clients, device \in Devices :
            check' = [check EXCEPT ![r] = [at |-> "arrived", by |-> by, device |-> device]]
    BY <1>3 DEF Throttle!Arrive, Throttle!Becomes
  <2> DEFINE new == [at |-> "arrived", by |-> by, device |-> device]
  <2>2. new.at = "arrived" /\ CheckOK(new)
    BY DEF CheckOK, Throttle!Steps
  <2>3. check' = [check EXCEPT ![r] = new]
    BY <2>1
  <2> HIDE DEF new
  <2>4. QED BY <1>0, <1>3, <2>2, <2>3, QuietStep DEF Throttle!Arrive
<1>4. ASSUME NEW r \in Calls, Throttle!LockPicture(r)  PROVE ThrottleInv'
  <2>1. PICK c \in Captchas : check' = [check EXCEPT ![r] = [at |-> "holding", by |-> "new",
            device |-> check[r].device, picture |-> c, fresh |-> pictures[c] \in {"unused", "expired"}]]
    BY <1>4 DEF Throttle!LockPicture, Throttle!Hold
  <2> DEFINE new == [at |-> "holding", by |-> "new", device |-> check[r].device, picture |-> c,
                     fresh |-> pictures[c] \in {"unused", "expired"}]
  <2>2. check[r].at = "challenged" /\ r \in Pending
    BY <1>4 DEF Throttle!LockPicture, Throttle!At, Pending
  <2>3. check[r].device \in Devices
    BY <1>0, <2>2 DEF CheckOK
  <2>4. new.at = "holding" /\ new.device = check[r].device /\ CheckOK(new)
    BY <2>3 DEF CheckOK, Throttle!Steps, Throttle!Clients
  <2>5. check' = [check EXCEPT ![r] = new]
    BY <2>1
  <2> HIDE DEF new
  <2>6. QED BY <1>0, <1>4, <2>2, <2>4, <2>5, QuietStep DEF Throttle!LockPicture
<1>5. ASSUME NEW r \in Calls, Throttle!UsePicture(r)  PROVE ThrottleInv'
  <2>1. /\ pictures' \in [Captchas -> {"none", "unused", "expired", "used"}] /\ spent' \in [Captchas -> Nat]
        /\ log' = log /\ check[r].at = "holding"
    BY <1>0, <1>5 DEF Throttle!UsePicture, Throttle!At
  <2>2. CASE check' = [check EXCEPT ![r] = Throttle!Idle]
    BY <1>0, <2>1, <2>2, QuietStep
  <2>3. CASE check' = [check EXCEPT ![r] = [at |-> "cleared", by |-> "solved", device |-> check[r].device]]
    <3> DEFINE new == [at |-> "cleared", by |-> "solved", device |-> check[r].device]
    <3>1. r \in Pending /\ check[r].device \in Devices
      BY <1>0, <2>1 DEF Pending, CheckOK
    <3>2. new.at = "cleared" /\ new.by = "solved" /\ new.device = check[r].device /\ CheckOK(new)
      BY <3>1 DEF CheckOK, Throttle!Steps
    <3>3. check' = [check EXCEPT ![r] = new]
      BY <2>3
    <3> HIDE DEF new
    <3>4. QED BY <2>1, <3>1, <3>2, <3>3, QuietStep
  <2>4. QED BY <1>5, <2>2, <2>3 DEF Throttle!UsePicture, Throttle!Becomes, Throttle!Finish
<1>6. ASSUME NEW r \in Calls, Throttle!AskForPicture(r) \/ Throttle!RightPassword(r)  PROVE ThrottleInv'
  <2>1. /\ check' = [check EXCEPT ![r] = Throttle!Idle] /\ pictures' = pictures /\ spent' = spent
        /\ log' = log \/ log' = Append(log, Throttle!Success)
    BY <1>6 DEF Throttle!AskForPicture, Throttle!RightPassword, Throttle!Finish
  <2>2. QED BY <1>0, <2>1, QuietStep
<1>7. CASE Throttle!ResetPassword \/ Throttle!WindowMoves
  BY <1>0, <1>1, <1>7 DEF Throttle!ResetPassword, Throttle!WindowMoves
<1>8. CASE UNCHANGED Throttle!vars
  BY <1>0, <1>1, <1>8 DEF Throttle!vars
<1>9. QED BY <1>2, <1>3, <1>4, <1>5, <1>6, <1>7, <1>8, AssessBudgets, WrongPasswordBudgets DEF Throttle!Next

LEMMA ThrottleStart == ASSUME Throttle!Init PROVE ThrottleInv
<1>1. Throttle!TypeOK /\ check = [r \in Calls |-> check[r]]
  <2>1. <<>> \in Seq(Throttle!Failures \cup {Throttle!Success}) /\ 0 \in Nat
    OBVIOUS
  <2>2. QED BY <2>1 DEF Throttle!Init, Throttle!TypeOK
<1>2. /\ Throttle!SinceSuccess = {} /\ Throttle!AllFailures = {} /\ NewSince = {} /\ Pending = {} /\ Unpictured = {}
      /\ \A d \in Devices : Throttle!FailuresSince(d) = {} /\ PendingOf(d) = {}
  <2>1. DOMAIN log = {} /\ \A r \in Calls : check[r].at = "idle"
    BY DEF Throttle!Init, Throttle!Idle
  <2>2. QED BY <2>1 DEF Throttle!SinceSuccess, Throttle!AllFailures, NewSince, Pending, Unpictured,
        Throttle!FailuresSince, PendingOf
<1>3. Cardinality({}) = 0
  BY FS_EmptySet
<1>4. Budgets
  BY <1>2, <1>3, ThrottleNumbers DEF Budgets, Within
<1>5. QED BY <1>1, <1>4 DEF ThrottleInv

\* With no check under way beyond them, the budgets are the limits.
LEMMA ThrottleImplies == ASSUME ThrottleInv PROVE Throttle!LocksHold
<1>1. log \in Seq(Throttle!Failures \cup {Throttle!Success})
  BY DEF ThrottleInv, Throttle!TypeOK
<1>2. /\ IsFiniteSet(Throttle!SinceSuccess) /\ IsFiniteSet(Throttle!AllFailures) /\ IsFiniteSet(NewSince)
      /\ \A d \in Devices : IsFiniteSet(Throttle!FailuresSince(d)) /\ IsFiniteSet(PendingOf(d))
      /\ IsFiniteSet(Pending) /\ IsFiniteSet(Unpictured)
  BY <1>1, ThrottleFinite
<1>3. ASSUME NEW F, NEW P, NEW limit \in Nat, IsFiniteSet(F), IsFiniteSet(P), Within(F, P, limit)
      PROVE  Cardinality(F) <= limit + Throttle!Overlapping
  <2>1. Cardinality(F) \in Nat /\ Cardinality(P) \in Nat
    BY <1>3, FS_CardinalityType
  <2>2. Cardinality(F) + Cardinality(P) < limit + Cardinality(Calls)
    BY <1>3 DEF Within
  <2>3. Throttle!Overlapping = Cardinality(Calls) - 1 /\ Cardinality(Calls) \in Nat
    BY ThrottleNumbers, ThrottleCardinality DEF Throttle!Overlapping
  <2>4. QED BY <2>1, <2>2, <2>3
<1>4. Cardinality(Throttle!SinceSuccess) <= AccountLimit + Throttle!Overlapping
  BY <1>2, <1>3, ThrottleNumbers DEF ThrottleInv, Budgets
<1>5. \A d \in Devices : Cardinality(Throttle!FailuresSince(d)) <= DeviceLimit + Throttle!Overlapping
  BY <1>2, <1>3, ThrottleNumbers DEF ThrottleInv, Budgets
<1>6. Cardinality(Throttle!AllFailures) <= AddressLimit + Throttle!Overlapping
  BY <1>2, <1>3, ThrottleNumbers DEF ThrottleInv, Budgets
<1>7. Cardinality(NewSince) <= CaptchaAfterAccount + Throttle!Overlapping
  BY <1>2, <1>3, ThrottleNumbers DEF ThrottleInv, Budgets
<1>8. NewSince = {i \in Throttle!SinceSuccess : log[i].by = "new"}
  BY DEF NewSince
<1>9. QED BY <1>4, <1>5, <1>6, <1>7, <1>8, ThrottleCardinality, Zenon DEF Throttle!LocksHold, AddressLimit

-----------------------------------------------------------------------------
(* One account's reset codes: their limits *)

\* The cardinality the module counts with is that of the library.
LEMMA ResetCardinality == \A S : Reset!Cardinality(S) = Cardinality(S)
BY DEF Reset!Cardinality, Cardinality

\* The wrong guesses at the codes of a table since a time, one by one.
Attempts(table) == [c \in DOMAIN table |-> table[c].attempts]
Guesses(table, time) == Points(Attempts(table), Reset!Since(table, time))

IsSum(table, S, iter) ==
    iter = [s \in SUBSET S |->
              IF s = {} THEN 0 ELSE table[CHOOSE c \in s : TRUE].attempts + iter[s \ {CHOOSE c \in s : TRUE}]]

\* The sum of the module is the number of guesses.
LEMMA AttemptsCount ==
    ASSUME NEW table \in Seq(CodeRows), NEW time
    PROVE  /\ Reset!AttemptsSince(table, time) = Cardinality(Guesses(table, time))
           /\ IsFiniteSet(Guesses(table, time)) /\ Cardinality(Guesses(table, time)) \in Nat
<1> DEFINE S == Reset!Since(table, time)
           w == Attempts(table)
           it == CHOOSE iter : IsSum(table, S, iter)
<1>1. S \subseteq DOMAIN table /\ IsFiniteSet(S)
  <2>1. DOMAIN table = 1..Len(table) /\ Len(table) \in Nat
    OBVIOUS
  <2>2. IsFiniteSet(DOMAIN table)
    BY <2>1, FS_Interval
  <2>3. QED BY <2>2, FS_Subset DEF Reset!Since
<1>2. \A c \in S : w[c] = table[c].attempts /\ w[c] \in Nat
  <2>1. \A row \in CodeRows : row.attempts \in Nat
    BY DEF CodeRows
  <2>2. QED BY <1>1, <2>1 DEF Attempts
<1>3. Reset!AttemptsSince(table, time) = it[S]
  BY Zenon DEF Reset!AttemptsSince, Reset!MapThenFoldSet, IsSum
<1> HIDE DEF S, w
<1>4. ASSUME NEW iter  PROVE IsSum(table, S, iter) <=> IsFold(w, S, iter)
  <2>1. \A s \in SUBSET S : (IF s = {} THEN 0 ELSE table[CHOOSE c \in s : TRUE].attempts + iter[s \ {CHOOSE c \in s : TRUE}])
                            = (IF s = {} THEN 0 ELSE AtOne(w, s, iter))
    BY <1>2 DEF AtOne
  <2>2. QED BY <2>1 DEF IsSum, IsFold
<1>5. IsSum(table, S, it)
  <2>1. \E iter : IsFold(w, S, iter)
    BY <1>1, <1>2, FoldExists
  <2>2. \E iter : IsSum(table, S, iter)
    BY <1>4, <2>1
  <2>3. QED BY <2>2, Zenon
<1> HIDE DEF it
<1>6. it[S] = Cardinality(Points(w, S))
  BY <1>1, <1>2, <1>4, <1>5, FoldCounts
<1>7. IsFiniteSet(Points(w, S)) /\ Cardinality(Points(w, S)) \in Nat
  BY <1>1, <1>2, PointsFinite
<1>8. QED BY <1>3, <1>6, <1>7 DEF Guesses, S, w

\* The jobs that were found within the limit, the redeemers whose snapshot is, and the codes that count.
Issuing == {r \in Calls : redeemer[r].at \in {"counted", "marked"}}
Readers(time) == {r \in Calls : /\ redeemer[r].at \in {"read", "locked"}
                                /\ Cardinality(Guesses(redeemer[r].seen, time)) < DailyLimit}
Recent == Reset!Since(codes, Reset!Before(Window))

\* What the type invariant says beyond CodeShapes.
Fits(r) == redeemer[r].asked <= clock /\ redeemer[r].row <= Len(codes) /\ Len(redeemer[r].seen) <= Len(codes)
CodeBounds ==
    /\ \A c \in DOMAIN codes : codes[c].created <= MaxTime /\ codes[c].attempts <= MaxAttempts
    /\ Len(codes) <= MaxCodes /\ clock <= MaxTime
    /\ \A r \in Calls : Fits(r)

CodeBudget == Within(Recent, Issuing, CodeLimit)
GuessBudget == \A time \in Nat : time >= Reset!Before(Day) => Within(Guesses(codes, time), Readers(time), DailyLimit)

ResetInv == CodesInv /\ CodeBounds /\ CodeBudget /\ GuessBudget

LEMMA ResetNumbers ==
    /\ CodeLimit \in Nat \ {0} /\ MaxAttempts \in Nat \ {0} /\ DailyLimit \in Nat \ {0} /\ Window \in Nat /\ Day \in Nat
    /\ MaxTime \in Nat /\ MaxCodes \in Nat /\ IsFiniteSet(Calls) /\ Cardinality(Calls) \in Nat
BY LimitsAllowed, FS_CardinalityType

\* A span before the clock never moves back.
LEMMA BeforeGrows ==
    ASSUME NEW span \in Nat, clock \in Nat, clock' \in Nat, clock' >= clock
    PROVE  /\ Reset!Before(span) \in Nat /\ (Reset!Before(span))' \in Nat /\ (Reset!Before(span))' >= Reset!Before(span)
           /\ clock' = clock => (Reset!Before(span))' = Reset!Before(span)
<1> DEFINE back(t) == IF t >= span THEN t - span ELSE 0
<1>1. Reset!Before(span) = back(clock) /\ (Reset!Before(span))' = back(clock')
  BY DEF Reset!Before
<1>2. \A t, u \in Nat : u >= t => back(t) \in Nat /\ back(u) \in Nat /\ back(u) >= back(t)
  OBVIOUS
<1> HIDE DEF back
<1>3. QED BY <1>1, <1>2

\* What is counted is finite.
LEMMA ResetFinite ==
    ASSUME CodeShapes
    PROVE  IsFiniteSet(Recent) /\ IsFiniteSet(Issuing) /\ \A time \in Nat : IsFiniteSet(Readers(time)) /\ IsFiniteSet(Guesses(codes, time))
<1>1. IsFiniteSet(DOMAIN codes)
  <2>1. DOMAIN codes = 1..Len(codes) /\ Len(codes) \in Nat
    BY DEF CodeShapes
  <2>2. QED BY <2>1, FS_Interval
<1>2. IsFiniteSet(Recent)
  BY <1>1, FS_Subset DEF Recent, Reset!Since
<1>3. IsFiniteSet(Issuing) /\ \A time \in Nat : IsFiniteSet(Readers(time))
  BY FS_Subset, ResetNumbers DEF Issuing, Readers
<1>4. \A time \in Nat : IsFiniteSet(Guesses(codes, time))
  BY AttemptsCount DEF CodeShapes
<1>5. QED BY <1>2, <1>3, <1>4

\* Fewer failures and fewer calls under way.
LEMMA BudgetShrinks ==
    ASSUME NEW F, NEW P, NEW F2, NEW P2, NEW limit \in Nat,
           IsFiniteSet(F), IsFiniteSet(P), F2 \subseteq F, P2 \subseteq P, Within(F, P, limit)
    PROVE  Within(F2, P2, limit)
<1>1. /\ Cardinality(F2) <= Cardinality(F) /\ Cardinality(F2) \in Nat /\ Cardinality(F) \in Nat
      /\ Cardinality(P2) <= Cardinality(P) /\ Cardinality(P2) \in Nat /\ Cardinality(P) \in Nat
  BY Smaller, FS_CardinalityType
<1>2. QED BY <1>1, ResetNumbers DEF Within

\* Codes that were issued before, and no job let through.
LEMMA CodeBudgetKept ==
    ASSUME ResetInv, clock' \in Nat, clock' >= clock, Issuing' \subseteq Issuing, CodeShapes',
           \A c \in DOMAIN codes' : c \in DOMAIN codes /\ codes'[c].created = codes[c].created
    PROVE  CodeBudget'
<1>1. CodeShapes /\ clock \in Nat
  BY DEF ResetInv, CodesInv, CodeShapes
<1>2. Recent' \subseteq Recent
  <2>1. \A c \in DOMAIN codes : codes[c].created \in Nat
    BY <1>1, CodesAreRows
  <2>2. QED BY <1>1, <2>1, BeforeGrows, ResetNumbers DEF Recent, Reset!Since
<1>3. Within(Recent', Issuing', CodeLimit)
  BY <1>1, <1>2, ResetFinite, BudgetShrinks, ResetNumbers DEF ResetInv, CodeBudget
<1>4. QED BY <1>3 DEF CodeBudget, Within

\* No wrong guess, and no redeemer who read the table.
LEMMA GuessBudgetKept ==
    ASSUME ResetInv, clock' \in Nat, clock' >= clock, CodeShapes',
           \A time \in Nat : (Readers(time))' \subseteq Readers(time),
           \A c \in DOMAIN codes' : \/ codes'[c].attempts = 0
                                    \/ /\ c \in DOMAIN codes /\ codes'[c].created = codes[c].created
                                       /\ codes'[c].attempts = codes[c].attempts
    PROVE  GuessBudget'
<1>1. CodeShapes /\ clock \in Nat
  BY DEF ResetInv, CodesInv, CodeShapes
<1>2. ASSUME NEW time \in Nat, time >= (Reset!Before(Day))'
      PROVE  Within(Guesses(codes', time), (Readers(time))', DailyLimit)
  <2>1. time >= Reset!Before(Day)
    BY <1>1, <1>2, BeforeGrows, ResetNumbers
  <2>2. Within(Guesses(codes, time), Readers(time), DailyLimit)
    BY <2>1 DEF ResetInv, GuessBudget
  <2>3. Guesses(codes', time) \subseteq Guesses(codes, time)
    <3>1. ASSUME NEW c \in Reset!Since(codes', time), NEW i \in 1..codes'[c].attempts
          PROVE  c \in Reset!Since(codes, time) /\ i \in 1..codes[c].attempts
      <4>1. c \in DOMAIN codes' /\ codes'[c].created >= time
        BY DEF Reset!Since
      <4>2. codes'[c].attempts # 0
        OBVIOUS
      <4>3. QED BY <4>1, <4>2 DEF Reset!Since
    <3>2. \A c \in Reset!Since(codes', time) : Attempts(codes')[c] = codes'[c].attempts
      BY DEF Attempts, Reset!Since
    <3>3. \A c \in Reset!Since(codes, time) : Attempts(codes)[c] = codes[c].attempts
      BY DEF Attempts, Reset!Since
    <3>4. QED BY <3>1, <3>2, <3>3 DEF Guesses, Points
  <2>4. QED BY <1>1, <2>2, <2>3, ResetFinite, BudgetShrinks, ResetNumbers
<1>3. QED BY <1>2 DEF GuessBudget, Within

\* A call's step, and the type.
LEMMA BoundsKept ==
    ASSUME ResetInv, NEW r \in Calls, CodeShapes', clock' = clock,
           Len(codes') >= Len(codes), Len(codes') <= MaxCodes,
           \A c \in DOMAIN codes' : codes'[c].created <= MaxTime /\ codes'[c].attempts <= MaxAttempts,
           \A q \in Calls \ {r} : redeemer'[q] = redeemer[q], Fits(r)'
    PROVE  CodeBounds'
<1>1. ASSUME NEW q \in Calls \ {r}  PROVE Fits(q)'
  <2>1. redeemer[q] \in CallRows /\ Fits(q)
    BY DEF ResetInv, CodesInv, CodeShapes, CodeBounds
  <2>2. Len(codes) \in Nat /\ Len(codes') \in Nat /\ redeemer[q].row \in Nat /\ redeemer[q].seen \in Seq(CodeRows)
    BY <2>1 DEF ResetInv, CodesInv, CodeShapes, CallRows
  <2>3. Len(redeemer[q].seen) \in Nat
    BY <2>2
  <2>4. QED BY <2>1, <2>2, <2>3 DEF Fits
<1>2. QED BY <1>1 DEF ResetInv, CodeBounds, Fits

\* A call's step, and the sets it is counted in.
LEMMA IssuingShrinks ==
    ASSUME NEW r \in Calls, \A q \in Calls \ {r} : redeemer'[q] = redeemer[q],
           redeemer'[r].at \in {"counted", "marked"} => redeemer[r].at \in {"counted", "marked"}
    PROVE  Issuing' \subseteq Issuing
BY DEF Issuing

LEMMA ReadersShrink ==
    ASSUME NEW r \in Calls, \A q \in Calls \ {r} : redeemer'[q] = redeemer[q],
           redeemer'[r].at \in {"read", "locked"} =>
               redeemer[r].at \in {"read", "locked"} /\ redeemer'[r].seen = redeemer[r].seen
    PROVE  \A time \in Nat : (Readers(time))' \subseteq Readers(time)
<1>1. ASSUME NEW time \in Nat, NEW q \in (Readers(time))'  PROVE q \in Readers(time)
  <2>1. /\ q \in Calls /\ redeemer'[q].at \in {"read", "locked"}
        /\ Cardinality(Guesses(redeemer'[q].seen, time)) < DailyLimit
    BY DEF Readers, Guesses, Points, Attempts, Reset!Since
  <2>2. redeemer[q].at \in {"read", "locked"} /\ redeemer'[q].seen = redeemer[q].seen
    BY <2>1
  <2>3. QED BY <2>1, <2>2 DEF Readers
<1>2. QED BY <1>1

\* Steps that write no code, or only that it is used, and let no call through.
LEMMA QuietReset ==
    ASSUME ResetInv, CodesInv', NEW r \in Calls, clock' = clock, Len(codes') = Len(codes),
           \A c \in DOMAIN codes : codes'[c].created = codes[c].created /\ codes'[c].attempts = codes[c].attempts,
           \A q \in Calls \ {r} : redeemer'[q] = redeemer[q], Fits(r)',
           redeemer'[r].at \in {"counted", "marked"} => redeemer[r].at \in {"counted", "marked"},
           redeemer'[r].at \in {"read", "locked"} =>
               redeemer[r].at \in {"read", "locked"} /\ redeemer'[r].seen = redeemer[r].seen
    PROVE  ResetInv'
<1>1. /\ codes \in Seq(CodeRows) /\ codes' \in Seq(CodeRows) /\ CodeShapes' /\ clock \in Nat
      /\ Len(codes) \in Nat /\ Len(codes) <= MaxCodes
  BY DEF ResetInv, CodesInv, CodeShapes, CodeBounds
<1>2. DOMAIN codes' = DOMAIN codes
  BY <1>1
<1>3. CodeBudget'
  BY <1>1, <1>2, IssuingShrinks, CodeBudgetKept
<1>4. GuessBudget'
  BY <1>1, <1>2, ReadersShrink, GuessBudgetKept
<1>5. CodeBounds'
  <2>1. \A c \in DOMAIN codes' : codes'[c].created <= MaxTime /\ codes'[c].attempts <= MaxAttempts
    BY <1>2 DEF ResetInv, CodeBounds
  <2>2. Len(codes') >= Len(codes) /\ Len(codes') <= MaxCodes
    BY <1>1
  <2>3. QED BY <1>1, <2>1, <2>2, BoundsKept
<1>6. QED BY <1>3, <1>4, <1>5 DEF ResetInv

\* A call that has ended.
LEMMA IdleFits ==
    ASSUME ResetInv, CodesInv'
    PROVE  /\ Reset!Idle.at = "idle" /\ Reset!Idle.asked = 0 /\ Reset!Idle.row = 0 /\ Len(Reset!Idle.seen) = 0
           /\ 0 <= clock' /\ 0 <= Len(codes')
BY DEF Reset!Idle, CodesInv, CodeShapes

\* What is known of a call.
LEMMA ACall ==
    ASSUME ResetInv, NEW r \in Calls
    PROVE  /\ redeemer[r] \in CallRows /\ redeemer[r].at \in Reset!Steps /\ redeemer[r].asked \in Nat
           /\ redeemer[r].row \in Nat /\ redeemer[r].seen \in Seq(CodeRows) /\ Fits(r)
           /\ \A new : redeemer' = [redeemer EXCEPT ![r] = new] =>
                  redeemer'[r] = new /\ \A q \in Calls \ {r} : redeemer'[q] = redeemer[q]
BY DEF ResetInv, CodesInv, CodeShapes, CodeBounds, CallRows

LEMMA RequestCodeLimits ==
    ASSUME ResetInv, CodesInv', NEW r \in Calls, Reset!RequestCode(r)
    PROVE  ResetInv'
<1> DEFINE new == [redeemer[r] EXCEPT !.at = "queued", !.asked = clock]
<1>1. codes' = codes /\ clock' = clock /\ redeemer' = [redeemer EXCEPT ![r] = new]
  BY DEF Reset!RequestCode
<1>2. new.at = "queued" /\ new.asked = clock /\ new.row = redeemer[r].row /\ new.seen = redeemer[r].seen
  BY ACall DEF CallRows
<1> HIDE DEF new
<1>3. redeemer'[r] = new /\ \A q \in Calls \ {r} : redeemer'[q] = redeemer[q]
  BY <1>1, ACall
<1>4. Fits(r)'
  BY <1>1, <1>2, <1>3, ACall DEF Fits, ResetInv, CodesInv, CodeShapes
<1>5. QED BY <1>1, <1>2, <1>3, <1>4, QuietReset

\* A job that will be tried again.
LEMMA Retried ==
    ASSUME NEW time
    PROVE  LET again == [Reset!Idle EXCEPT !.at = "queued", !.asked = time]
           IN  again.at = "queued" /\ again.asked = time /\ again.row = 0 /\ Len(again.seen) = 0
<1> DEFINE again == [Reset!Idle EXCEPT !.at = "queued", !.asked = time]
<1>1. again.at = "queued"
  BY DEF Reset!Idle
<1>2. again.asked = time
  BY DEF Reset!Idle
<1>3. again.row = 0
  BY DEF Reset!Idle
<1>4. again.seen = <<>> /\ Len(<<>>) = 0
  BY DEF Reset!Idle
<1>5. QED BY <1>1, <1>2, <1>3, <1>4, Zenon

\* A call that fails and is retried, or ends.
LEMMA GivesUp ==
    ASSUME ResetInv, CodesInv', NEW r \in Calls, codes' = codes, clock' = clock,
           \/ redeemer' = [redeemer EXCEPT ![r] = Reset!Idle]
           \/ redeemer' = [redeemer EXCEPT ![r] = [Reset!Idle EXCEPT !.at = "queued", !.asked = redeemer[r].asked]]
    PROVE  ResetInv'
<1>1. PICK new : /\ redeemer' = [redeemer EXCEPT ![r] = new]
                 /\ \/ new = Reset!Idle
                    \/ new = [Reset!Idle EXCEPT !.at = "queued", !.asked = redeemer[r].asked]
  BY Zenon
<1>2. /\ new.at \in {"idle", "queued"} /\ new.asked \in {0, redeemer[r].asked} /\ new.row = 0 /\ Len(new.seen) = 0
  <2>1. CASE new = Reset!Idle
    BY <2>1, IdleFits
  <2>2. CASE new = [Reset!Idle EXCEPT !.at = "queued", !.asked = redeemer[r].asked]
    BY <2>2, Retried
  <2>3. QED BY <1>1, <2>1, <2>2
<1>3. redeemer'[r] = new /\ \A q \in Calls \ {r} : redeemer'[q] = redeemer[q]
  BY <1>1, ACall
<1>4. Fits(r)'
  BY <1>2, <1>3, ACall, IdleFits DEF Fits, ResetInv, CodesInv, CodeShapes
<1>5. QED BY <1>2, <1>3, <1>4, QuietReset

LEMMA MarkUsedLimits ==
    ASSUME ResetInv, CodesInv', NEW r \in Calls, Reset!MarkUsed(r)
    PROVE  ResetInv'
<1> DEFINE new == [redeemer[r] EXCEPT !.at = "marked", !.gap = (codes = <<>>)]
<1>1. /\ codes' = codes /\ clock' = clock /\ redeemer' = [redeemer EXCEPT ![r] = new]
      /\ redeemer[r].at = "counted"
  BY DEF Reset!MarkUsed, Reset!At
<1>2. new.at = "marked" /\ new.asked = redeemer[r].asked /\ new.row = redeemer[r].row /\ new.seen = redeemer[r].seen
  BY ACall DEF CallRows
<1> HIDE DEF new
<1>3. redeemer'[r] = new /\ \A q \in Calls \ {r} : redeemer'[q] = redeemer[q]
  BY <1>1, ACall
<1>4. Fits(r)'
  BY <1>1, <1>2, <1>3, ACall DEF Fits
<1>5. QED BY <1>1, <1>2, <1>3, <1>4, QuietReset

LEMMA LockCodeLimits ==
    ASSUME ResetInv, CodesInv', NEW r \in Calls, Reset!LockCode(r)
    PROVE  ResetInv'
<1> DEFINE n == IF Reset!Unused = {} THEN 0 ELSE Reset!Newest(Reset!Unused)
           new == [redeemer[r] EXCEPT !.at = "locked", !.gap = (codes = <<>>), !.row = n]
<1>1. /\ codes' = codes /\ clock' = clock /\ redeemer' = [redeemer EXCEPT ![r] = new]
      /\ redeemer[r].at = "read"
  BY DEF Reset!LockCode, Reset!Locked, Reset!At
<1>2. new.at = "locked" /\ new.asked = redeemer[r].asked /\ new.row = n /\ new.seen = redeemer[r].seen
  BY ACall DEF CallRows
<1> HIDE DEF new
<1>3. redeemer'[r] = new /\ \A q \in Calls \ {r} : redeemer'[q] = redeemer[q]
  BY <1>1, ACall
<1> HIDE DEF n
<1>4. n <= Len(codes)
  <2>1. redeemer'[r].at = "locked" /\ redeemer'[r].row = n
    BY <1>2, <1>3
  <2>2. Len(codes) \in Nat
    BY DEF ResetInv, CodesInv, CodeShapes
  <2>3. CASE n = 0
    BY <2>2, <2>3
  <2>4. CASE n # 0
    <3>1. (LocksNewest(r))'
      BY <2>1, <2>4 DEF CodesInv, NewestIsLocked
    <3>2. redeemer'[r].row = Len(codes')
      BY <3>1 DEF LocksNewest
    <3>3. QED BY <1>1, <2>1, <2>2, <3>2
  <2>5. QED BY <2>3, <2>4
<1>5. Fits(r)'
  BY <1>1, <1>2, <1>3, <1>4, ACall DEF Fits
<1>6. QED BY <1>1, <1>2, <1>3, <1>5, QuietReset

\* A reset writes used and resets of one code.
LEMMA AcceptLimits ==
    ASSUME ResetInv, CodesInv', NEW r \in Calls, Reset!Accept(r)
    PROVE  ResetInv'
<1>1. /\ clock' = clock /\ redeemer' = [redeemer EXCEPT ![r] = Reset!Idle]
      /\ \/ codes' = codes
         \/ codes' = [codes EXCEPT ![redeemer[r].row] = [codes[redeemer[r].row] EXCEPT
                         !.used = TRUE, !.resets = codes[redeemer[r].row].resets + 1]]
  BY Zenon DEF Reset!Accept, Reset!Finish
<1>2. codes \in Seq(CodeRows) /\ codes' \in Seq(CodeRows)
  BY DEF ResetInv, CodesInv, CodeShapes
<1>3. \A row \in CodeRows : \A n : /\ [row EXCEPT !.used = TRUE, !.resets = n].created = row.created
                               /\ [row EXCEPT !.used = TRUE, !.resets = n].attempts = row.attempts
  BY DEF CodeRows
<1>4. /\ Len(codes') = Len(codes)
      /\ \A c \in DOMAIN codes : codes'[c].created = codes[c].created /\ codes'[c].attempts = codes[c].attempts
  <2>1. CASE codes' = codes
    BY <2>1
  <2>2. CASE codes' # codes
    <3> DEFINE new == [codes[redeemer[r].row] EXCEPT !.used = TRUE, !.resets = codes[redeemer[r].row].resets + 1]
    <3>1. codes' = [codes EXCEPT ![redeemer[r].row] = new]
      BY <1>1, <2>2
    <3>2. redeemer[r].row \in DOMAIN codes => new.created = codes[redeemer[r].row].created
                                              /\ new.attempts = codes[redeemer[r].row].attempts
      BY <1>2, <1>3
    <3> HIDE DEF new
    <3>3. QED BY <1>2, <3>1, <3>2
  <2>3. QED BY <2>1, <2>2
<1>5. redeemer'[r] = Reset!Idle /\ \A q \in Calls \ {r} : redeemer'[q] = redeemer[q]
  BY <1>1, ACall
<1>6. Fits(r)'
  BY <1>5, IdleFits DEF Fits
<1>7. QED BY <1>1, <1>4, <1>5, <1>6, IdleFits, QuietReset

\* The count of recent codes lets a job through only below the limit.
LEMMA CountRecentLimits ==
    ASSUME ResetInv, CodesInv', NEW r \in Calls, Reset!CountRecent(r)
    PROVE  ResetInv'
<1> DEFINE from == IF redeemer[r].asked >= Window THEN redeemer[r].asked - Window ELSE 0
           new == [redeemer[r] EXCEPT !.at = "counted"]
<1>1. codes' = codes /\ clock' = clock
  BY DEF Reset!CountRecent
<1>2. CASE redeemer' = [redeemer EXCEPT ![r] = Reset!Idle]
  BY <1>1, <1>2, GivesUp, Zenon
<1>3. CASE Cardinality(Reset!Since(codes, from)) < CodeLimit /\ redeemer' = [redeemer EXCEPT ![r] = new]
  <2>1. new.at = "counted" /\ new.asked = redeemer[r].asked /\ new.row = redeemer[r].row /\ new.seen = redeemer[r].seen
    BY ACall DEF CallRows
  <2> HIDE DEF new
  <2>2. redeemer'[r] = new /\ \A q \in Calls \ {r} : redeemer'[q] = redeemer[q]
    BY <1>3, ACall
  <2>3. Fits(r)'
    BY <1>1, <2>1, <2>2, ACall DEF Fits
  <2>4. /\ codes \in Seq(CodeRows) /\ CodeShapes' /\ CodeShapes /\ clock \in Nat /\ Len(codes) \in Nat
        /\ Len(codes) <= MaxCodes /\ clock' >= clock
    BY <1>1 DEF ResetInv, CodesInv, CodeShapes, CodeBounds
  <2>5. GuessBudget'
    BY <1>1, <2>1, <2>2, <2>4, ReadersShrink, GuessBudgetKept
  <2>6. CodeBounds'
    <3>1. \A c \in DOMAIN codes' : codes'[c].created <= MaxTime /\ codes'[c].attempts <= MaxAttempts
      BY <1>1 DEF ResetInv, CodeBounds
    <3>2. Len(codes') >= Len(codes) /\ Len(codes') <= MaxCodes
      BY <1>1, <2>4
    <3>3. QED BY <1>1, <2>2, <2>3, <2>4, <3>1, <3>2, BoundsKept
  <2>7. Recent \subseteq Reset!Since(codes, from)
    <3>1. from \in Nat /\ from <= Reset!Before(Window) /\ Reset!Before(Window) \in Nat
      BY <2>4, ACall, ResetNumbers DEF Fits, Reset!Before
    <3>2. \A c \in DOMAIN codes : codes[c].created \in Nat
      BY <2>4, CodesAreRows
    <3> HIDE DEF from
    <3>3. QED BY <3>1, <3>2 DEF Recent, Reset!Since
  <2>8. IsFiniteSet(Reset!Since(codes, from))
    <3>1. DOMAIN codes = 1..Len(codes)
      BY <2>4
    <3>2. IsFiniteSet(DOMAIN codes)
      BY <2>4, <3>1, FS_Interval
    <3>3. QED BY <3>2, FS_Subset DEF Reset!Since
  <2> HIDE DEF from
  <2>9. Cardinality(Recent) < CodeLimit /\ IsFiniteSet(Recent)
    <3>1. /\ Cardinality(Recent) <= Cardinality(Reset!Since(codes, from)) /\ IsFiniteSet(Recent)
          /\ Cardinality(Recent) \in Nat /\ Cardinality(Reset!Since(codes, from)) \in Nat
      BY <2>7, <2>8, Smaller, FS_CardinalityType
    <3>2. QED BY <1>3, <3>1, ResetNumbers
  <2>10. Issuing' \subseteq Calls
    BY DEF Issuing
  <2>11. Within(Recent, Issuing', CodeLimit)
    BY <2>9, <2>10, BudgetOpen, ResetNumbers
  <2>12. Recent' = Recent
    BY <1>1 DEF Recent, Reset!Since, Reset!Before
  <2>13. CodeBudget'
    BY <2>11, <2>12 DEF CodeBudget, Within
  <2>14. QED BY <2>5, <2>6, <2>13 DEF ResetInv
<1>4. QED
  <2>1. \/ redeemer' = [redeemer EXCEPT ![r] = Reset!Idle]
        \/ /\ ~(Cardinality(Reset!Since(codes, from)) >= CodeLimit) /\ redeemer' = [redeemer EXCEPT ![r] = new]
    BY ResetCardinality, Zenon DEF Reset!CountRecent, Reset!Finish
  <2>2. Cardinality(Reset!Since(codes, from)) \in Nat
    <3>1. DOMAIN codes = 1..Len(codes) /\ Len(codes) \in Nat
      BY DEF ResetInv, CodesInv, CodeShapes
    <3>2. IsFiniteSet(DOMAIN codes)
      BY <3>1, FS_Interval
    <3>3. QED BY <3>2, FS_Subset, FS_CardinalityType DEF Reset!Since
  <2> HIDE DEF from, new
  <2>3. QED BY <1>2, <1>3, <2>1, <2>2, ResetNumbers

\* One code more, of a job that was let through.
LEMMA IssueCodeLimits ==
    ASSUME ResetInv, CodesInv', NEW r \in Calls, Reset!IssueCode(r)
    PROVE  ResetInv'
<1> DEFINE old == [c \in DOMAIN codes |-> [codes[c] EXCEPT !.used = TRUE]]
           row == [created |-> redeemer[r].asked, used |-> FALSE, attempts |-> 0, resets |-> 0]
           last == Len(codes) + 1
<1>1. /\ codes' = Append(old, row) /\ clock' = clock /\ redeemer[r].at = "marked"
      /\ Len(codes) < MaxCodes
      /\ \/ redeemer' = [redeemer EXCEPT ![r] = Reset!Idle]
         \/ redeemer' = [redeemer EXCEPT ![r] = [Reset!Idle EXCEPT !.at = "queued", !.asked = redeemer[r].asked]]
  BY Zenon DEF Reset!IssueCode, Reset!At, Reset!Finish
<1>2. /\ codes \in Seq(CodeRows) /\ codes' \in Seq(CodeRows) /\ CodeShapes /\ CodeShapes' /\ clock \in Nat
      /\ Len(codes) \in Nat /\ clock <= MaxTime /\ clock' >= clock
  BY <1>1 DEF ResetInv, CodesInv, CodeShapes, CodeBounds
<1>3. /\ Len(codes') = last /\ DOMAIN codes' = 1..last /\ DOMAIN codes = 1..Len(codes)
      /\ codes'[last] = row /\ \A c \in DOMAIN codes : codes'[c] = [codes[c] EXCEPT !.used = TRUE]
  <2>1. old \in Seq(CodeRows) /\ Len(old) = Len(codes) /\ DOMAIN old = DOMAIN codes
    <3>1. \A x \in CodeRows : [x EXCEPT !.used = TRUE] \in CodeRows
      BY DEF CodeRows
    <3>2. QED BY <1>2, <3>1
  <2>2. row \in CodeRows
    BY ACall DEF CodeRows
  <2> HIDE DEF old, row
  <2>3. /\ Len(codes') = Len(old) + 1 /\ DOMAIN old = 1..Len(old) /\ DOMAIN codes' = 1..(Len(old) + 1)
        /\ codes'[Len(old) + 1] = row /\ \A c \in DOMAIN old : codes'[c] = old[c]
    BY <1>1, <2>1, <2>2, Appended
  <2>4. QED BY <2>1, <2>3 DEF old
<1>4. /\ row.created = redeemer[r].asked /\ row.attempts = 0
  OBVIOUS
<1> HIDE DEF old, row, last
<1>5. \A c \in DOMAIN codes : codes'[c].created = codes[c].created /\ codes'[c].attempts = codes[c].attempts
  <2>1. \A x \in CodeRows : [x EXCEPT !.used = TRUE].created = x.created /\ [x EXCEPT !.used = TRUE].attempts = x.attempts
    BY DEF CodeRows
  <2>2. \A c \in DOMAIN codes : codes[c] \in CodeRows
    BY <1>2
  <2>3. QED BY <1>3, <2>1, <2>2
<1>6. \A c \in DOMAIN codes' : c \in DOMAIN codes \/ c = last
  BY <1>2, <1>3 DEF last
<1>7. /\ redeemer'[r].at \in {"idle", "queued"} /\ redeemer'[r].asked \in {0, redeemer[r].asked} /\ redeemer'[r].row = 0
      /\ Len(redeemer'[r].seen) = 0 /\ \A q \in Calls \ {r} : redeemer'[q] = redeemer[q]
  <2>1. CASE redeemer' = [redeemer EXCEPT ![r] = Reset!Idle]
    BY <2>1, IdleFits, ACall
  <2>2. CASE redeemer' = [redeemer EXCEPT ![r] = [Reset!Idle EXCEPT !.at = "queued", !.asked = redeemer[r].asked]]
    <3> DEFINE new == [Reset!Idle EXCEPT !.at = "queued", !.asked = redeemer[r].asked]
    <3>1. new.at = "queued" /\ new.asked = redeemer[r].asked /\ new.row = 0 /\ Len(new.seen) = 0
      BY Retried
    <3>2. redeemer' = [redeemer EXCEPT ![r] = new]
      BY <2>2
    <3> HIDE DEF new
    <3>3. QED BY <3>1, <3>2, ACall
  <2>3. QED BY <1>1, <2>1, <2>2
<1>8. Fits(r)'
  BY <1>2, <1>7, ACall, IdleFits, <1>1 DEF Fits
<1>9. GuessBudget'
  <2>1. \A time \in Nat : (Readers(time))' \subseteq Readers(time)
    BY <1>7, ReadersShrink
  <2>2. \A c \in DOMAIN codes' : \/ codes'[c].attempts = 0
                                 \/ /\ c \in DOMAIN codes /\ codes'[c].created = codes[c].created
                                    /\ codes'[c].attempts = codes[c].attempts
    BY <1>3, <1>4, <1>5, <1>6
  <2>3. QED BY <1>1, <1>2, <2>1, <2>2, GuessBudgetKept
<1>10. CodeBounds'
  <2>1. \A c \in DOMAIN codes' : codes'[c].created <= MaxTime /\ codes'[c].attempts <= MaxAttempts
    <3>1. redeemer[r].asked <= clock /\ redeemer[r].asked \in Nat
      BY ACall DEF Fits
    <3>2. \A c \in DOMAIN codes : codes[c].created <= MaxTime /\ codes[c].attempts <= MaxAttempts
      BY DEF ResetInv, CodeBounds
    <3>3. row.created <= MaxTime /\ row.attempts <= MaxAttempts
      BY <1>2, <1>4, <3>1, ResetNumbers
    <3>4. QED BY <1>3, <1>5, <1>6, <3>2, <3>3
  <2>2. Len(codes') >= Len(codes) /\ Len(codes') <= MaxCodes
    BY <1>1, <1>2, <1>3, ResetNumbers DEF last
  <2>3. QED BY <1>1, <1>2, <1>7, <1>8, <2>1, <2>2, BoundsKept
<1>11. CodeBudget'
  <2>1. Recent' \subseteq Recent \cup {last}
    <3>1. (Reset!Before(Window))' = Reset!Before(Window)
      BY <1>1 DEF Reset!Before
    <3>2. QED BY <1>5, <1>6, <3>1 DEF Recent, Reset!Since
  <2>2. Issuing' \subseteq Issuing \ {r} /\ r \in Issuing
    BY <1>1, <1>7 DEF Issuing
  <2>3. Within(Recent', Issuing', CodeLimit)
    BY <1>2, <2>1, <2>2, ResetFinite, BudgetSpent, ResetNumbers DEF ResetInv, CodeBudget
  <2>4. QED BY <2>3 DEF CodeBudget, Within
<1>12. QED BY <1>9, <1>10, <1>11 DEF ResetInv

\* A redeemer's snapshot is the table as it is.
LEMMA FindAccountLimits ==
    ASSUME ResetInv, CodesInv', NEW r \in Calls, Reset!FindAccount(r)
    PROVE  ResetInv'
<1> DEFINE new == [redeemer[r] EXCEPT !.at = "read", !.seen = codes]
<1>1. codes' = codes /\ clock' = clock /\ redeemer' = [redeemer EXCEPT ![r] = new]
  BY DEF Reset!FindAccount
<1>2. new.at = "read" /\ new.asked = redeemer[r].asked /\ new.row = redeemer[r].row /\ new.seen = codes
  BY ACall DEF CallRows
<1> HIDE DEF new
<1>3. redeemer'[r] = new /\ \A q \in Calls \ {r} : redeemer'[q] = redeemer[q]
  BY <1>1, ACall
<1>4. /\ codes \in Seq(CodeRows) /\ CodeShapes' /\ CodeShapes /\ clock \in Nat /\ Len(codes) \in Nat
      /\ Len(codes) <= MaxCodes /\ clock' >= clock /\ clock' \in Nat
  BY <1>1 DEF ResetInv, CodesInv, CodeShapes, CodeBounds
<1>5. Fits(r)'
  BY <1>1, <1>2, <1>3, <1>4, ACall DEF Fits
<1>6. CodeBudget'
  <2>1. Issuing' \subseteq Issuing
    BY <1>2, <1>3, IssuingShrinks
  <2>2. QED BY <1>1, <1>4, <2>1, CodeBudgetKept
<1>7. CodeBounds'
  <2>1. \A c \in DOMAIN codes' : codes'[c].created <= MaxTime /\ codes'[c].attempts <= MaxAttempts
    BY <1>1 DEF ResetInv, CodeBounds
  <2>2. Len(codes') >= Len(codes) /\ Len(codes') <= MaxCodes
    BY <1>1, <1>4
  <2>3. QED BY <1>1, <1>3, <1>4, <1>5, <2>1, <2>2, BoundsKept
<1>8. ASSUME NEW time \in Nat, time >= (Reset!Before(Day))'
      PROVE  Within(Guesses(codes', time), (Readers(time))', DailyLimit)
  <2>1. time >= Reset!Before(Day)
    BY <1>4, <1>8, BeforeGrows, ResetNumbers
  <2>2. Within(Guesses(codes, time), Readers(time), DailyLimit)
    BY <2>1 DEF ResetInv, GuessBudget
  <2>3. IsFiniteSet(Guesses(codes, time)) /\ IsFiniteSet(Readers(time)) /\ (Readers(time))' \subseteq Calls
    BY <1>4, ResetFinite DEF Readers
  <2>4. \A q \in (Readers(time))' : q # r => q \in Readers(time)
    <3>1. ASSUME NEW q \in (Readers(time))', q # r  PROVE q \in Readers(time)
      <4>1. /\ q \in Calls /\ redeemer'[q].at \in {"read", "locked"}
            /\ Cardinality(Guesses(redeemer'[q].seen, time)) < DailyLimit
        BY DEF Readers, Guesses, Points, Attempts, Reset!Since
      <4>2. redeemer'[q] = redeemer[q]
        BY <1>3, <3>1, <4>1
      <4>3. QED BY <4>1, <4>2 DEF Readers
    <3>2. QED BY <3>1
  <2>5. r \in (Readers(time))' => Cardinality(Guesses(codes, time)) < DailyLimit
    <3>1. r \in (Readers(time))' => Cardinality(Guesses(redeemer'[r].seen, time)) < DailyLimit
      BY DEF Readers, Guesses, Points, Attempts, Reset!Since
    <3>2. QED BY <1>2, <1>3, <3>1
  <2>6. CASE r \in (Readers(time))'
    <3>1. Within(Guesses(codes, time), (Readers(time))', DailyLimit)
      BY <2>3, <2>5, <2>6, BudgetOpen, ResetNumbers
    <3>2. QED BY <1>1, <3>1
  <2>7. CASE r \notin (Readers(time))'
    <3>1. (Readers(time))' \subseteq Readers(time)
      BY <2>4, <2>7
    <3>2. Within(Guesses(codes, time), (Readers(time))', DailyLimit)
      BY <2>2, <2>3, <3>1, BudgetShrinks, ResetNumbers
    <3>3. QED BY <1>1, <3>2
  <2>8. QED BY <2>6, <2>7
<1>9. GuessBudget'
  BY <1>8 DEF GuessBudget, Within
<1>10. QED BY <1>6, <1>7, <1>9 DEF ResetInv

\* One wrong guess more, of a redeemer whose snapshot was within the limit.
LEMMA CountWrongGuessLimits ==
    ASSUME ResetInv, CodesInv', NEW r \in Calls, Reset!CountWrongGuess(r)
    PROVE  ResetInv'
<1> DEFINE row == redeemer[r].row
           n == codes[row].attempts + 1
           new == [codes[row] EXCEPT !.attempts = n, !.used = (n >= MaxAttempts)]
<1>1. /\ clock' = clock /\ redeemer' = [redeemer EXCEPT ![r] = Reset!Idle] /\ redeemer[r].at = "locked" /\ row # 0
      /\ codes' = [codes EXCEPT ![row] = new] /\ codes[row].attempts < MaxAttempts
      /\ Reset!AttemptsSince(redeemer[r].seen, Reset!Before(Day)) < DailyLimit
  BY Zenon DEF Reset!CountWrongGuess, Reset!Finish, Reset!At, Reset!Live, Reset!WrongCodesToday
<1>2. /\ codes \in Seq(CodeRows) /\ codes' \in Seq(CodeRows) /\ CodeShapes' /\ CodeShapes /\ clock \in Nat
      /\ Len(codes) \in Nat /\ Len(codes) <= MaxCodes /\ clock' >= clock /\ clock' \in Nat
  BY <1>1 DEF ResetInv, CodesInv, CodeShapes, CodeBounds
<1>3. row \in DOMAIN codes
  BY <1>1 DEF ResetInv, CodesInv, NewestIsLocked, LocksNewest
<1>4. codes[row] \in CodeRows /\ codes[row].attempts \in Nat
  <2>1. codes[row] \in CodeRows
    BY <1>2, <1>3
  <2>2. \A x \in CodeRows : x.attempts \in Nat
    BY DEF CodeRows
  <2>3. QED BY <2>1, <2>2
<1>5. new.created = codes[row].created /\ new.attempts = n /\ n \in Nat /\ n <= MaxAttempts
  BY <1>1, <1>4, ResetNumbers DEF CodeRows
<1>6. redeemer'[r] = Reset!Idle /\ \A q \in Calls \ {r} : redeemer'[q] = redeemer[q]
  BY <1>1, ACall
<1>7. Fits(r)'
  BY <1>6, IdleFits DEF Fits
<1> HIDE DEF new
<1>8. /\ Len(codes') = Len(codes) /\ DOMAIN codes' = DOMAIN codes
      /\ \A c \in DOMAIN codes : c # row => codes'[c] = codes[c]
      /\ codes'[row] = new
  BY <1>1, <1>2, <1>3
<1> HIDE DEF n, row
<1>9. \A c \in DOMAIN codes' : c \in DOMAIN codes /\ codes'[c].created = codes[c].created
  BY <1>5, <1>8
<1>10. CodeBudget'
  <2>1. Issuing' \subseteq Issuing
    BY <1>6, IdleFits, IssuingShrinks
  <2>2. QED BY <1>1, <1>2, <1>9, <2>1, CodeBudgetKept
<1>11. CodeBounds'
  <2>1. \A c \in DOMAIN codes' : codes'[c].created <= MaxTime /\ codes'[c].attempts <= MaxAttempts
    BY <1>5, <1>8, <1>9 DEF ResetInv, CodeBounds
  <2>2. Len(codes') >= Len(codes) /\ Len(codes') <= MaxCodes
    BY <1>2, <1>8
  <2>3. QED BY <1>1, <1>2, <1>6, <1>7, <2>1, <2>2, BoundsKept
<1>12. ASSUME NEW time \in Nat, time >= (Reset!Before(Day))'
       PROVE  Within(Guesses(codes', time), (Readers(time))', DailyLimit)
  <2>1. time >= Reset!Before(Day) /\ Reset!Before(Day) \in Nat
    <3>1. Day \in Nat /\ clock \in Nat /\ clock' \in Nat /\ clock' >= clock
      BY <1>2, ResetNumbers
    <3>2. Reset!Before(Day) \in Nat /\ (Reset!Before(Day))' \in Nat /\ (Reset!Before(Day))' >= Reset!Before(Day)
      BY <3>1, BeforeGrows
    <3>3. QED BY <1>12, <3>2
  <2>2. Within(Guesses(codes, time), Readers(time), DailyLimit)
    BY <2>1 DEF ResetInv, GuessBudget
  <2>3. IsFiniteSet(Guesses(codes, time)) /\ IsFiniteSet(Readers(time))
    BY <1>2, ResetFinite
  <2>4. r \in Readers(time)
    <3>1. redeemer[r].seen \in Seq(CodeRows)
      BY ACall
    <3>2. Guesses(redeemer[r].seen, time) \subseteq Guesses(redeemer[r].seen, Reset!Before(Day))
      <4>1. \A c \in DOMAIN redeemer[r].seen : redeemer[r].seen[c].created \in Nat
        <5>1. \A x \in CodeRows : x.created \in Nat
          BY DEF CodeRows
        <5>2. QED BY <3>1, <5>1
      <4>2. Reset!Since(redeemer[r].seen, time) \subseteq Reset!Since(redeemer[r].seen, Reset!Before(Day))
        BY <2>1, <4>1 DEF Reset!Since
      <4>3. QED BY <4>2 DEF Guesses, Points
    <3>3. /\ IsFiniteSet(Guesses(redeemer[r].seen, Reset!Before(Day)))
          /\ Cardinality(Guesses(redeemer[r].seen, Reset!Before(Day))) < DailyLimit
          /\ Cardinality(Guesses(redeemer[r].seen, Reset!Before(Day))) \in Nat
      BY <1>1, <3>1, AttemptsCount
    <3>4. Cardinality(Guesses(redeemer[r].seen, time)) < DailyLimit
      BY <3>2, <3>3, Smaller, ResetNumbers
    <3>5. QED BY <1>1, <3>4 DEF Readers
  <2>5. (Readers(time))' \subseteq Readers(time) \ {r}
    <3>1. redeemer'[r].at = "idle"
      BY <1>6, IdleFits
    <3>2. (Readers(time))' \subseteq Readers(time)
      BY <1>6, <3>1, ReadersShrink
    <3>3. r \notin (Readers(time))'
      BY <3>1 DEF Readers
    <3>4. QED BY <3>2, <3>3
  <2>6. Guesses(codes', time) \subseteq Guesses(codes, time) \cup {<<row, n>>}
    <3>1. ASSUME NEW c \in Reset!Since(codes', time), NEW i \in 1..codes'[c].attempts
          PROVE  c \in Reset!Since(codes, time) /\ (i \in 1..codes[c].attempts \/ (c = row /\ i = n))
      <4>1. c \in DOMAIN codes' /\ codes'[c].created >= time
        BY DEF Reset!Since
      <4>2. c \in Reset!Since(codes, time)
        BY <1>9, <4>1 DEF Reset!Since
      <4>3. CASE c # row
        BY <1>8, <4>1, <4>2, <4>3
      <4>4. CASE c = row
        <5>1. i \in 1..n
          BY <1>5, <1>8, <4>4
        <5>2. QED BY <1>4, <4>2, <4>4, <5>1 DEF n
      <4>5. QED BY <4>3, <4>4
    <3>2. \A c \in Reset!Since(codes', time) : Attempts(codes')[c] = codes'[c].attempts
      BY DEF Attempts, Reset!Since
    <3>3. \A c \in Reset!Since(codes, time) : Attempts(codes)[c] = codes[c].attempts
      BY DEF Attempts, Reset!Since
    <3>4. QED BY <3>1, <3>2, <3>3 DEF Guesses, Points
  <2>7. QED BY <2>2, <2>3, <2>4, <2>5, <2>6, BudgetSpent, ResetNumbers
<1>13. GuessBudget'
  BY <1>12 DEF GuessBudget, Within
<1>14. QED BY <1>10, <1>11, <1>13 DEF ResetInv

\* Every step keeps the budgets.
LEMMA ResetStep ==
    ASSUME ResetInv, [Reset!Next]_(Reset!vars)
    PROVE  ResetInv'
<1>1. CodesInv'
  BY CodesStep DEF ResetInv
<1>2. CASE codes' = codes /\ redeemer' = redeemer /\ clock' \in Nat /\ clock' >= clock /\ clock' <= MaxTime
  <2>1. CodeShapes' /\ Issuing' \subseteq Issuing
    BY <1>1, <1>2 DEF CodesInv, Issuing
  <2>2. \A time \in Nat : (Readers(time))' \subseteq Readers(time)
    BY <1>2 DEF Readers
  <2>3. CodeBudget' /\ GuessBudget'
    BY <1>2, <2>1, <2>2, CodeBudgetKept, GuessBudgetKept
  <2>4. CodeBounds'
    <3>1. \A r \in Calls : redeemer[r].asked \in Nat /\ Fits(r) /\ clock \in Nat
      BY ACall DEF ResetInv, CodesInv, CodeShapes
    <3>2. \A r \in Calls : Fits(r)'
      BY <1>2, <3>1 DEF Fits
    <3>3. QED BY <1>2, <3>2 DEF ResetInv, CodeBounds
  <2>5. QED BY <1>1, <2>3, <2>4 DEF ResetInv
<1>3. CASE Reset!Tick
  <2>1. codes' = codes /\ redeemer' = redeemer /\ clock' = clock + 1 /\ clock < MaxTime /\ clock \in Nat
    BY <1>3 DEF Reset!Tick, ResetInv, CodesInv, CodeShapes
  <2>2. QED BY <1>2, <2>1, ResetNumbers
<1>4. ASSUME NEW r \in Calls, Reset!IssueFails(r) \/ Reset!Refuse(r)  PROVE ResetInv'
  <2>1. /\ codes' = codes /\ clock' = clock
        /\ \/ redeemer' = [redeemer EXCEPT ![r] = Reset!Idle]
           \/ redeemer' = [redeemer EXCEPT ![r] = [Reset!Idle EXCEPT !.at = "queued", !.asked = redeemer[r].asked]]
    BY <1>4, Zenon DEF Reset!IssueFails, Reset!Refuse, Reset!Finish
  <2>2. QED BY <1>1, <2>1, GivesUp, Zenon
<1>5. CASE UNCHANGED Reset!vars
  <2>1. codes' = codes /\ redeemer' = redeemer /\ clock' = clock
    BY <1>5 DEF Reset!vars
  <2>2. clock \in Nat /\ clock <= MaxTime
    BY DEF ResetInv, CodesInv, CodeShapes, CodeBounds
  <2>3. QED BY <1>2, <2>1, <2>2
<1>6. QED BY <1>1, <1>3, <1>4, <1>5, RequestCodeLimits, CountRecentLimits, MarkUsedLimits, IssueCodeLimits,
      FindAccountLimits, LockCodeLimits, AcceptLimits, CountWrongGuessLimits DEF Reset!Next

LEMMA ResetStart == ASSUME Reset!Init PROVE ResetInv
<1>1. CodesInv
  BY CodesStart
<1>2. codes = <<>> /\ clock = 0 /\ \A r \in Calls : redeemer[r] = Reset!Idle
  BY DEF Reset!Init
<1>3. CodeBounds
  <2>1. DOMAIN codes = {} /\ Len(codes) = 0
    BY <1>2
  <2>2. Reset!Idle.asked = 0 /\ Reset!Idle.row = 0 /\ Len(Reset!Idle.seen) = 0
    BY DEF Reset!Idle
  <2>3. QED BY <1>2, <2>1, <2>2, ResetNumbers DEF CodeBounds, Fits
<1>4. Issuing = {} /\ \A time \in Nat : Readers(time) = {}
  <2>1. Reset!Idle.at = "idle"
    BY DEF Reset!Idle
  <2>2. QED BY <1>2, <2>1 DEF Issuing, Readers
<1>5. Recent = {} /\ \A time \in Nat : Guesses(codes, time) = {}
  <2>1. DOMAIN codes = {}
    BY <1>2
  <2>2. QED BY <2>1 DEF Recent, Reset!Since, Guesses, Points
<1>6. CodeBudget /\ GuessBudget
  BY <1>4, <1>5, FS_EmptySet, ResetNumbers DEF CodeBudget, GuessBudget, Within
<1>7. QED BY <1>1, <1>3, <1>6 DEF ResetInv

\* With no call under way beyond them, the budgets are the limits.
LEMMA ResetImplies == ASSUME ResetInv PROVE Reset!LimitsHold
<1>1. CodeShapes /\ clock \in Nat
  BY DEF ResetInv, CodesInv, CodeShapes
<1>2. Reset!Before(Day) \in Nat
  BY <1>1, ResetNumbers DEF Reset!Before
<1>3. ASSUME NEW F, NEW P, NEW limit \in Nat, IsFiniteSet(F), IsFiniteSet(P), Within(F, P, limit)
      PROVE  Cardinality(F) <= limit + Reset!Overlapping
  <2>1. Cardinality(F) \in Nat /\ Cardinality(P) \in Nat
    BY <1>3, FS_CardinalityType
  <2>2. Cardinality(F) + Cardinality(P) < limit + Cardinality(Calls)
    BY <1>3 DEF Within
  <2>3. Reset!Overlapping = Cardinality(Calls) - 1 /\ Cardinality(Calls) \in Nat
    BY ResetNumbers, ResetCardinality DEF Reset!Overlapping
  <2>4. QED BY <2>1, <2>2, <2>3
<1>4. Cardinality(Recent) <= CodeLimit + Reset!Overlapping
  BY <1>1, <1>3, ResetFinite, ResetNumbers DEF ResetInv, CodeBudget
<1>5. Cardinality(Guesses(codes, Reset!Before(Day))) <= DailyLimit + Reset!Overlapping
  <2>1. Within(Guesses(codes, Reset!Before(Day)), Readers(Reset!Before(Day)), DailyLimit)
    BY <1>2 DEF ResetInv, GuessBudget
  <2>2. QED BY <1>1, <1>2, <1>3, <2>1, ResetFinite, ResetNumbers
<1>6. Reset!AttemptsSince(codes, Reset!Before(Day)) = Cardinality(Guesses(codes, Reset!Before(Day)))
  BY <1>1, AttemptsCount DEF CodeShapes
<1>7. Reset!CodesPerWindow
  BY <1>4, ResetCardinality, Zenon DEF Reset!CodesPerWindow, Recent
<1>8. Reset!WrongCodesPerDay
  BY <1>5, <1>6, Zenon DEF Reset!WrongCodesPerDay
<1>9. QED BY <1>7, <1>8 DEF Reset!LimitsHold

LEMMA ResetTypes == ASSUME ResetInv PROVE Reset!TypeOK
<1>1. codes \in Seq(CodeRows) /\ CodeShapes /\ clock \in Nat
  BY DEF ResetInv, CodesInv, CodeShapes
<1>2. codes \in Seq(Reset!Code)
  <2>1. ASSUME NEW c \in DOMAIN codes  PROVE codes[c] \in Reset!Code
    <3>1. codes[c] \in CodeRows /\ codes[c].created <= MaxTime /\ codes[c].attempts <= MaxAttempts
      BY <1>1 DEF ResetInv, CodeBounds
    <3>2. QED BY <3>1, ResetNumbers DEF CodeRows, Reset!Code
  <2>2. QED BY <1>1, <2>1
<1>3. ASSUME NEW r \in Calls
      PROVE  /\ redeemer[r].at \in Reset!Steps /\ redeemer[r].asked <= clock /\ redeemer[r].row \in 0..Len(codes)
             /\ Len(redeemer[r].seen) <= Len(codes)
  <2>1. Len(codes) \in Nat
    BY <1>1
  <2>2. QED BY <2>1, ACall DEF Fits
<1>4. clock \in 0..MaxTime /\ Len(codes) <= MaxCodes /\ DOMAIN redeemer = Calls
  BY <1>1, ResetNumbers DEF ResetInv, CodeBounds, CodeShapes
<1>5. \A r \in Calls : redeemer[r].gap => redeemer[r].at \in {"marked", "locked"} /\ codes = <<>>
  BY DEF ResetInv, CodesInv, GapsAreEmpty
<1>6. QED BY <1>2, <1>3, <1>4, <1>5 DEF Reset!TypeOK

-----------------------------------------------------------------------------
(* Rotation's type *)

LEMMA RotationTyped ==
    ASSUME Rotation!TypeOK, [Rotation!Next]_(Rotation!vars)
    PROVE  (Rotation!TypeOK)'
<1> USE DEF Rotation!TypeOK, Rotation!Generations
<1>0. MaxGeneration \in Nat \ {0}
  BY LimitsAllowed
<1>1. ASSUME NEW r \in Requests, Rotation!Send(r)  PROVE (Rotation!TypeOK)'
  BY <1>1 DEF Rotation!Send
<1>2. ASSUME NEW r \in Requests, Rotation!Receive(r)  PROVE (Rotation!TypeOK)'
  BY <1>2 DEF Rotation!Receive
<1>3. ASSUME NEW r \in Requests, Rotation!Lose(r)  PROVE (Rotation!TypeOK)'
  BY <1>3 DEF Rotation!Lose
<1>4. ASSUME NEW r \in Requests, Rotation!Rotate(r)  PROVE (Rotation!TypeOK)'
  <2>1. held' = held /\ outlasted' = outlasted
    BY <1>4 DEF Rotation!Rotate
  <2>2. CASE Rotation!RotateCurrent(r)
    BY <1>0, <2>1, <2>2 DEF Rotation!RotateCurrent, Rotation!Answer
  <2>3. CASE Rotation!RepeatCurrent(r)
    BY <2>1, <2>3 DEF Rotation!RepeatCurrent, Rotation!Answer
  <2>4. CASE Rotation!DetectReuse(r) \/ Rotation!Refuse(r) \/ (Rotation!Unauthorized(r) /\ UNCHANGED <<generation, grace, status>>)
    BY <2>1, <2>4 DEF Rotation!DetectReuse, Rotation!Refuse, Rotation!Unauthorized
  <2>5. QED BY <1>4, <2>2, <2>3, <2>4 DEF Rotation!Rotate
<1>5. CASE Rotation!Logout \/ Rotation!GraceEnds
  BY <1>5 DEF Rotation!Logout, Rotation!GraceEnds
<1>6. CASE UNCHANGED Rotation!vars
  BY <1>6 DEF Rotation!vars
<1>7. QED BY <1>1, <1>2, <1>3, <1>4, <1>5, <1>6 DEF Rotation!Next

LEMMA RotationTypedStart == ASSUME Rotation!Init PROVE Rotation!TypeOK
<1>1. MaxGeneration \in Nat \ {0}
  BY LimitsAllowed
<1>2. generation = 1 /\ held = 1 /\ 1 \in Rotation!Generations
  BY <1>1 DEF Rotation!Init, Rotation!Generations
<1>3. QED BY <1>2 DEF Rotation!Init, Rotation!TypeOK

-----------------------------------------------------------------------------
(* The members of a sequence that are in a set *)

IsKept(kept, s, K, n) ==
    kept = [i \in 0..n |-> IF i = 0 THEN <<>> ELSE IF s[i] \in K THEN Append(kept[i - 1], s[i]) ELSE kept[i - 1]]

LEMMA KeptExists ==
    ASSUME NEW s, NEW K, NEW n \in Nat
    PROVE  \E kept : IsKept(kept, s, K, n)
<1> DEFINE T == {k \in Nat : \E kept : IsKept(kept, s, K, k)}
           Then(i, before) == IF s[i] \in K THEN Append(before, s[i]) ELSE before
<1>1. 0 \in T
  <2> DEFINE f == [i \in 0..0 |-> <<>>]
  <2>1. f = [i \in 0..0 |-> IF i = 0 THEN <<>> ELSE Then(i, f[i - 1])]
    <3> HIDE DEF Then
    <3>1. QED OBVIOUS
  <2>2. IsKept(f, s, K, 0)
    BY <2>1 DEF IsKept
  <2>3. QED BY <2>2
<1>2. ASSUME NEW k \in T  PROVE k + 1 \in T
  <2>1. PICK f : IsKept(f, s, K, k)
    OBVIOUS
  <2> DEFINE g == [i \in 0..(k + 1) |-> IF i = 0 THEN <<>> ELSE Then(i, f[i - 1])]
  <2>2. f = [i \in 0..k |-> IF i = 0 THEN <<>> ELSE Then(i, f[i - 1])]
    BY <2>1 DEF IsKept
  <2> HIDE DEF Then
  <2>3. \A i \in 0..k : f[i] = IF i = 0 THEN <<>> ELSE Then(i, f[i - 1])
    BY <2>2
  <2>4. \A i \in 0..k : g[i] = f[i]
    BY <2>3
  <2>5. \A i \in 0..(k + 1) : i # 0 => i - 1 \in 0..k
    OBVIOUS
  <2>6. g = [i \in 0..(k + 1) |-> IF i = 0 THEN <<>> ELSE Then(i, g[i - 1])]
    BY <2>4, <2>5
  <2>7. IsKept(g, s, K, k + 1)
    BY <2>6 DEF IsKept, Then
  <2>8. QED BY <2>7
<1>3. T = Nat
  <2> HIDE DEF T
  <2>1. T \in SUBSET Nat
    BY DEF T
  <2>2. QED BY <1>1, <1>2, <2>1, SetInduction
<1>4. n \in T
  BY <1>3
<1>5. QED BY <1>4

\* One member more at the end.
LEMMA AppendedOnce ==
    ASSUME NEW S, NEW s \in Seq(S), NEW x \in S
    PROVE  /\ Append(s, x) \in Seq(S) /\ ToSet(Append(s, x)) = ToSet(s) \cup {x}
           /\ IsInjective(s) /\ x \notin ToSet(s) => IsInjective(Append(s, x))
<1> DEFINE t == Append(s, x)
<1>1. /\ t \in Seq(S) /\ Len(s) \in Nat /\ DOMAIN s = 1..Len(s) /\ DOMAIN t = 1..(Len(s) + 1) /\ t[Len(s) + 1] = x
      /\ \A i \in DOMAIN s : t[i] = s[i] /\ i \in Nat /\ i <= Len(s) /\ i \in DOMAIN t
      /\ \A i \in DOMAIN t : i \in DOMAIN s \/ i = Len(s) + 1
  OBVIOUS
<1> HIDE DEF t
<1>2. ToSet(t) = ToSet(s) \cup {x}
  BY <1>1 DEF ToSet
<1>3. ASSUME IsInjective(s), x \notin ToSet(s)  PROVE IsInjective(t)
  BY <1>1, <1>3 DEF IsInjective, ToSet
<1>4. QED BY <1>1, <1>2, <1>3 DEF t

LEMMA PutFirst ==
    ASSUME NEW S, NEW s \in Seq(S), NEW x \in S
    PROVE  /\ <<x>> \o s \in Seq(S) /\ ToSet(<<x>> \o s) = ToSet(s) \cup {x}
           /\ IsInjective(s) /\ x \notin ToSet(s) => IsInjective(<<x>> \o s)
<1> DEFINE t == <<x>> \o s
<1>1. /\ t \in Seq(S) /\ Len(s) \in Nat /\ DOMAIN s = 1..Len(s) /\ DOMAIN t = 1..(Len(s) + 1) /\ t[1] = x
      /\ \A i \in DOMAIN s : t[i + 1] = s[i] /\ i \in Nat /\ i + 1 \in DOMAIN t
      /\ \A i \in DOMAIN t : i \in Nat /\ (i = 1 \/ (i - 1 \in DOMAIN s /\ t[i] = s[i - 1]))
      /\ 1 \in DOMAIN t
  OBVIOUS
<1> HIDE DEF t
<1>2. ToSet(t) = ToSet(s) \cup {x}
  <2>1. \A i \in DOMAIN t : t[i] = x \/ \E j \in DOMAIN s : t[i] = s[j]
    BY <1>1
  <2>2. \A j \in DOMAIN s : \E i \in DOMAIN t : t[i] = s[j]
    BY <1>1
  <2>3. ToSet(t) \subseteq ToSet(s) \cup {x}
    BY <2>1 DEF ToSet
  <2>4. x \in ToSet(t)
    BY <1>1 DEF ToSet
  <2>5. ToSet(s) \subseteq ToSet(t)
    BY <2>2 DEF ToSet
  <2>6. QED BY <2>3, <2>4, <2>5
<1>3. ASSUME IsInjective(s), x \notin ToSet(s)  PROVE IsInjective(t)
  <2>1. ASSUME NEW i \in DOMAIN t, NEW j \in DOMAIN t, t[i] = t[j]  PROVE i = j
    <3>1. i \in Nat /\ j \in Nat
      BY <1>1
    <3>2. CASE i = 1 \/ j = 1
      BY <1>1, <1>3, <2>1, <3>2 DEF ToSet
    <3>3. CASE i # 1 /\ j # 1
      <4>1. i - 1 \in DOMAIN s /\ j - 1 \in DOMAIN s /\ s[i - 1] = s[j - 1]
        BY <1>1, <2>1, <3>3
      <4>2. i - 1 = j - 1
        BY <1>3, <4>1 DEF IsInjective
      <4>3. QED BY <3>1, <4>2
    <3>4. QED BY <3>2, <3>3
  <2>2. QED BY <2>1 DEF IsInjective
<1>4. QED BY <1>1, <1>2, <1>3 DEF t

\* Among keeps those of K, each as often as before.
LEMMA AmongFacts ==
    ASSUME NEW S, NEW s \in Seq(S), NEW K
    PROVE  /\ Among(s, K) \in Seq(S) /\ ToSet(Among(s, K)) = ToSet(s) \cap K
           /\ IsInjective(s) => IsInjective(Among(s, K))
<1> DEFINE kept == CHOOSE f : IsKept(f, s, K, Len(s))
           First(n) == {s[i] : i \in 1..n}
           Fine(n) == /\ kept[n] \in Seq(S) /\ ToSet(kept[n]) = First(n) \cap K
                      /\ IsInjective(s) => IsInjective(kept[n])
           T == {n \in Nat : n <= Len(s) => Fine(n)}
<1>1. Among(s, K) = kept[Len(s)]
  BY Zenon DEF Among, IsKept
<1>2. Len(s) \in Nat /\ DOMAIN s = 1..Len(s)
  OBVIOUS
<1>3. IsKept(kept, s, K, Len(s))
  BY <1>2, KeptExists, Zenon
<1> HIDE DEF kept
<1>4. \A n \in 0..Len(s) :
          kept[n] = IF n = 0 THEN <<>> ELSE IF s[n] \in K THEN Append(kept[n - 1], s[n]) ELSE kept[n - 1]
  <2>1. kept = [i \in 0..Len(s) |->
                  IF i = 0 THEN <<>> ELSE IF s[i] \in K THEN Append(kept[i - 1], s[i]) ELSE kept[i - 1]]
    BY <1>3, Zenon DEF IsKept
  <2>2. QED BY <2>1, Zenon
<1>5. 0 \in T
  <2>1. kept[0] = <<>>
    BY <1>2, <1>4
  <2>2. First(0) = {} /\ <<>> \in Seq(S) /\ ToSet(<<>>) = {} /\ IsInjective(<<>>)
    BY DEF ToSet, IsInjective
  <2> HIDE DEF First
  <2>3. Fine(0)
    BY <2>1, <2>2, Zenon
  <2>4. QED BY <2>3
<1>6. ASSUME NEW n \in T  PROVE n + 1 \in T
  <2>1. SUFFICES ASSUME n + 1 <= Len(s)  PROVE Fine(n + 1)
    OBVIOUS
  <2>2. n \in Nat /\ n + 1 \in 0..Len(s) /\ n + 1 # 0 /\ (n + 1) - 1 = n /\ n <= Len(s) /\ n + 1 \in DOMAIN s
    BY <1>2, <2>1
  <2>3. Fine(n) /\ s[n + 1] \in S
    BY <2>2
  <2>4. First(n + 1) = First(n) \cup {s[n + 1]}
    <3>1. \A i \in 1..(n + 1) : i \in 1..n \/ i = n + 1
      BY <2>2
    <3>2. 1..n \subseteq 1..(n + 1) /\ n + 1 \in 1..(n + 1)
      BY <2>2
    <3>3. QED BY <3>1, <3>2
  <2>5. IsInjective(s) => s[n + 1] \notin First(n)
    BY <1>2, <2>2 DEF IsInjective
  <2>6. kept[n + 1] = IF s[n + 1] \in K THEN Append(kept[n], s[n + 1]) ELSE kept[n]
    BY <1>4, <2>2
  <2> HIDE DEF First
  <2>7. CASE s[n + 1] \in K
    <3>1. /\ Append(kept[n], s[n + 1]) \in Seq(S)
          /\ ToSet(Append(kept[n], s[n + 1])) = ToSet(kept[n]) \cup {s[n + 1]}
          /\ IsInjective(kept[n]) /\ s[n + 1] \notin ToSet(kept[n]) => IsInjective(Append(kept[n], s[n + 1]))
      BY <2>3, AppendedOnce
    <3>2. kept[n + 1] = Append(kept[n], s[n + 1])
      BY <2>6, <2>7
    <3>3. kept[n + 1] \in Seq(S) /\ ToSet(kept[n + 1]) = ToSet(kept[n]) \cup {s[n + 1]}
      BY <3>1, <3>2
    <3>4. ToSet(kept[n + 1]) = First(n + 1) \cap K
      BY <2>3, <2>4, <2>7, <3>3
    <3>5. IsInjective(s) => IsInjective(kept[n + 1])
      BY <2>3, <2>5, <3>1, <3>2
    <3>6. QED BY <3>3, <3>4, <3>5
  <2>8. CASE s[n + 1] \notin K
    <3>1. kept[n + 1] = kept[n]
      BY <2>6, <2>8
    <3>2. First(n + 1) \cap K = First(n) \cap K
      BY <2>4, <2>8
    <3>3. QED BY <2>3, <3>1, <3>2, Zenon
  <2>9. QED BY <2>7, <2>8
<1>7. T = Nat
  <2> HIDE DEF T
  <2>1. T \in SUBSET Nat
    BY DEF T
  <2>2. QED BY <1>5, <1>6, <2>1, SetInduction
<1>8. Fine(Len(s))
  <2> HIDE DEF Fine
  <2>1. Len(s) \in T /\ Len(s) <= Len(s)
    BY <1>2, <1>7
  <2>2. QED BY <2>1
<1>9. First(Len(s)) = ToSet(s)
  BY <1>2 DEF ToSet
<1>10. QED BY <1>1, <1>8, <1>9

-----------------------------------------------------------------------------
(* One account: how many sessions are open, and what they are made of *)

Open == {s \in SessionIds : session[s] \in {"live", "expired"}}
RecentShape ==
    /\ session \in [SessionIds -> States]
    /\ recent \in Seq(SessionIds) /\ IsInjective(recent) /\ ToSet(recent) = Open
RecentInv == RecentShape /\ IsFiniteSet(Live) /\ SessionLimit

LEMMA MaxSessionsNumber == MaxSessions \in Nat /\ MaxSessions >= 1
BY SessionsAllowed

\* Fewer sessions are live.
LEMMA LiveShrinks ==
    ASSUME RecentInv, RecentShape', Live' \subseteq Live
    PROVE  RecentInv'
<1>1. /\ IsFiniteSet(Live') /\ Cardinality(Live') <= Cardinality(Live)
      /\ Cardinality(Live) \in Nat /\ Cardinality(Live') \in Nat
  BY Smaller, FS_CardinalityType DEF RecentInv
<1>2. Cardinality(Live) <= MaxSessions
  BY DEF RecentInv, SessionLimit
<1>3. Cardinality(Live') <= MaxSessions
  BY <1>1, <1>2, MaxSessionsNumber
<1>4. QED BY <1>1, <1>3 DEF RecentInv, SessionLimit

\* Every session ends.
LEMMA AllEnd ==
    ASSUME RecentInv, SignOutEverywhere
    PROVE  RecentInv'
<1>1. /\ session' \in [SessionIds -> States] /\ \A s \in SessionIds : session'[s] \notin {"live", "expired"}
  BY RevokedStates DEF SignOutEverywhere, RecentInv, RecentShape, RevokeAll
<1>2. recent' \in Seq(SessionIds) /\ IsInjective(recent') /\ ToSet(recent') = {}
  <2>1. recent' = <<>>
    BY DEF SignOutEverywhere
  <2>2. <<>> \in Seq(SessionIds) /\ IsInjective(<<>>) /\ ToSet(<<>>) = {}
    BY DEF IsInjective, ToSet
  <2>3. QED BY <2>1, <2>2
<1>3. RecentShape'
  BY <1>1, <1>2 DEF RecentShape, Open
<1>4. Live' \subseteq Live
  BY <1>1 DEF Live
<1>5. QED BY <1>3, <1>4, LiveShrinks

\* One session ends.
LEMMA OneEnds ==
    ASSUME RecentInv, NEW s \in SessionIds, session' = [session EXCEPT ![s] = "revoked"],
           recent' = Among(recent, SessionIds \ {s})
    PROVE  RecentInv'
<1>1. /\ recent' \in Seq(SessionIds) /\ IsInjective(recent') /\ ToSet(recent') = ToSet(recent) \cap (SessionIds \ {s})
  BY AmongFacts DEF RecentInv, RecentShape
<1>2. /\ session' \in [SessionIds -> States] /\ session'[s] = "revoked"
      /\ \A q \in SessionIds \ {s} : session'[q] = session[q]
  BY DEF RecentInv, RecentShape, States
<1>3. Open' = Open \ {s} /\ Live' \subseteq Live
  BY <1>2 DEF Open, Live
<1>4. ToSet(recent') = Open'
  BY <1>1, <1>3 DEF RecentInv, RecentShape, Open
<1>5. RecentShape'
  BY <1>1, <1>2, <1>4 DEF RecentShape
<1>6. QED BY <1>3, <1>5, LiveShrinks

LEMMA RefreshRecent ==
    ASSUME RecentInv, NEW s \in SessionIds, Refresh(s)
    PROVE  RecentInv'
<1>1. CASE session' = [session EXCEPT ![s] = "revoked"] /\ recent' = Among(recent, SessionIds \ {s})
  BY <1>1, OneEnds
<1>2. CASE session' = session /\ recent' = <<s>> \o Among(recent, SessionIds \ {s})
  <2> DEFINE rest == Among(recent, SessionIds \ {s})
  <2>1. /\ rest \in Seq(SessionIds) /\ IsInjective(rest) /\ ToSet(rest) = ToSet(recent) \cap (SessionIds \ {s})
    BY AmongFacts DEF RecentInv, RecentShape
  <2>2. s \in Open
    BY DEF Refresh, Open
  <2> HIDE DEF rest
  <2>3. /\ <<s>> \o rest \in Seq(SessionIds) /\ ToSet(<<s>> \o rest) = ToSet(rest) \cup {s}
        /\ IsInjective(<<s>> \o rest)
    BY <2>1, PutFirst
  <2>4. ToSet(<<s>> \o rest) = Open
    BY <2>1, <2>2, <2>3 DEF RecentInv, RecentShape, Open
  <2>5. recent' = <<s>> \o rest
    BY <1>2 DEF rest
  <2>6. Open' = Open /\ Live' = Live
    BY <1>2 DEF Open, Live
  <2>7. recent' \in Seq(SessionIds) /\ ToSet(recent') = Open' /\ IsInjective(recent')
    BY <2>3, <2>4, <2>5, <2>6
  <2>8. RecentShape'
    BY <1>2, <2>7 DEF RecentInv, RecentShape
  <2>9. QED BY <2>6, <2>8, LiveShrinks
<1>3. QED BY <1>1, <1>2 DEF Refresh

LEMMA ExpireRecent ==
    ASSUME RecentInv, NEW s \in SessionIds, Expire(s)
    PROVE  RecentInv'
<1>1. /\ session' \in [SessionIds -> States] /\ session'[s] = "expired" /\ recent' = recent
      /\ session[s] = "live" /\ \A q \in SessionIds \ {s} : session'[q] = session[q]
  BY DEF Expire, RecentInv, RecentShape, States
<1>2. Open' = Open /\ Live' \subseteq Live
  BY <1>1 DEF Open, Live
<1>3. RecentShape'
  BY <1>1, <1>2 DEF RecentInv, RecentShape
<1>4. QED BY <1>2, <1>3, LiveShrinks

\* _prune leaves fewer than MaxSessions sessions live: each is one of the first places of `recent`.
LEMMA PrunedLeavesRoom ==
    ASSUME RecentInv, NEW rows \in [SessionIds -> States],
           \A s \in SessionIds : rows[s] = "live" => session[s] = "live"
    PROVE  LET left == {s \in SessionIds : Pruned(rows)[s] = "live"}
           IN  IsFiniteSet(left) /\ Cardinality(left) < MaxSessions /\ left \subseteq Open
<1> DEFINE K == {s \in SessionIds : rows[s] = "live"}
           live == Among(recent, K)
           left == {s \in SessionIds : Pruned(rows)[s] = "live"}
<1>1. live \in Seq(SessionIds) /\ ToSet(live) = ToSet(recent) \cap K
  BY AmongFacts DEF RecentInv, RecentShape
<1>2. \A s \in left : s \in K /\ s \notin {live[i] : i \in MaxSessions..Len(live)}
  BY DEF Pruned
<1> HIDE DEF live
<1>3. K \subseteq Open /\ left \subseteq K
  BY <1>2 DEF Open
<1>4. ASSUME NEW s \in left  PROVE \E j \in 1..(MaxSessions - 1) : live[j] = s
  <2>1. s \in ToSet(live)
    BY <1>1, <1>3 DEF RecentInv, RecentShape
  <2>2. PICK j \in DOMAIN live : live[j] = s
    BY <2>1 DEF ToSet
  <2>3. j \in 1..Len(live) /\ Len(live) \in Nat
    BY <1>1
  <2>4. j \notin MaxSessions..Len(live)
    BY <1>2, <2>2
  <2>5. j \in 1..(MaxSessions - 1)
    BY <2>3, <2>4, MaxSessionsNumber
  <2>6. QED BY <2>2, <2>5
<1> HIDE DEF K, left
<1> DEFINE place == [s \in left |-> CHOOSE j \in 1..(MaxSessions - 1) : live[j] = s]
<1>5. \A s \in left : place[s] \in 1..(MaxSessions - 1) /\ live[place[s]] = s
  BY <1>4
<1>6. place \in [left -> 1..(MaxSessions - 1)] /\ \A s, q \in left : place[s] = place[q] => s = q
  BY <1>5
<1>7. IsFiniteSet(1..(MaxSessions - 1)) /\ Cardinality(1..(MaxSessions - 1)) = MaxSessions - 1
  <2>1. MaxSessions - 1 \in Nat
    BY MaxSessionsNumber
  <2>2. (IF 1 > MaxSessions - 1 THEN 0 ELSE MaxSessions - 1 - 1 + 1) = MaxSessions - 1
    BY <2>1
  <2>3. QED BY <2>1, <2>2, FS_Interval
<1> HIDE DEF place
<1>8. IsFiniteSet(left) /\ Cardinality(left) <= MaxSessions - 1 /\ Cardinality(left) \in Nat
  BY <1>6, <1>7, Injected
<1>9. Cardinality(left) < MaxSessions
  BY <1>8, MaxSessionsNumber
<1>10. left \subseteq Open
  BY <1>3
<1>11. QED BY <1>8, <1>9, <1>10 DEF left

\* open_session: one session more than _prune left.
LEMMA OpenedRecent ==
    ASSUME RecentInv, NEW new \in SessionIds, NEW password, NEW version, NEW seen,
           NEW rows \in {session, RevokeAll(session)}, OpenSession(rows, new, password, version, seen)
    PROVE  RecentInv'
<1>1. rows \in [SessionIds -> States] /\ \A s \in SessionIds : rows[s] = "live" => session[s] = "live"
  BY RevokedStates DEF RecentInv, RecentShape
<1> DEFINE left == {s \in SessionIds : Pruned(rows)[s] = "live"}
           rest == Among(recent, left)
<1>2. IsFiniteSet(left) /\ Cardinality(left) < MaxSessions /\ left \subseteq Open
  BY <1>1, PrunedLeavesRoom
<1>3. Pruned(rows) \in [SessionIds -> States] /\ \A s \in SessionIds : Pruned(rows)[s] # "expired"
  BY <1>1, PrunedStates DEF Pruned
<1>4. /\ session[new] = "none" /\ session' = [Pruned(rows) EXCEPT ![new] = "live"] /\ recent' = <<new>> \o rest
  BY DEF OpenSession
<1>5. rest \in Seq(SessionIds) /\ IsInjective(rest) /\ ToSet(rest) = ToSet(recent) \cap left
  BY AmongFacts DEF RecentInv, RecentShape
<1>6. new \notin Open
  BY <1>4 DEF Open
<1>7. /\ session' \in [SessionIds -> States] /\ session'[new] = "live"
      /\ \A s \in SessionIds \ {new} : session'[s] = Pruned(rows)[s]
  BY <1>3, <1>4 DEF States
<1>8. Live' = left \cup {new} /\ Open' = left \cup {new}
  BY <1>3, <1>7 DEF Live, Open
<1> HIDE DEF left, rest
<1>9. ToSet(rest) = left
  BY <1>2, <1>5 DEF RecentInv, RecentShape
<1>10. recent' \in Seq(SessionIds) /\ ToSet(recent') = left \cup {new} /\ IsInjective(recent')
  <2>1. new \notin ToSet(rest)
    BY <1>2, <1>6, <1>9
  <2>2. /\ <<new>> \o rest \in Seq(SessionIds) /\ ToSet(<<new>> \o rest) = ToSet(rest) \cup {new}
        /\ IsInjective(<<new>> \o rest)
    BY <1>5, <2>1, PutFirst
  <2>3. QED BY <1>4, <1>9, <2>2
<1>11. RecentShape'
  BY <1>7, <1>8, <1>10 DEF RecentShape
<1>12. IsFiniteSet(left \cup {new}) /\ Cardinality(left \cup {new}) <= MaxSessions
  <2>1. /\ IsFiniteSet(left \cup {new}) /\ Cardinality(left \cup {new}) <= Cardinality(left) + 1
        /\ Cardinality(left) \in Nat /\ Cardinality(left \cup {new}) \in Nat
    BY <1>2, OneMore
  <2>2. QED BY <1>2, <2>1, MaxSessionsNumber
<1>13. QED BY <1>8, <1>11, <1>12 DEF RecentInv, SessionLimit

\* Every step of the account keeps to the limit.
LEMMA RecentStep ==
    ASSUME RecentInv, [Next]_vars
    PROVE  RecentInv'
<1>1. CASE session' = session /\ recent' = recent
  BY <1>1 DEF RecentInv, RecentShape, Open, Live, SessionLimit
<1>2. ASSUME NEW l \in Logins, LoginChecks(l) \/ LoginFails(l) \/ ChangeChecks(l)  PROVE RecentInv'
  BY <1>1, <1>2 DEF LoginChecks, LoginFails, ChangeChecks
<1>3. ASSUME NEW l \in Logins, NEW s \in SessionIds, LoginOpens(l, s)  PROVE RecentInv'
  BY <1>3, OpenedRecent DEF LoginOpens
<1>4. ASSUME NEW l \in Logins, NEW p \in Passwords, NEW s \in SessionIds, ChangePassword(l, p, s)  PROVE RecentInv'
  BY <1>4, OpenedRecent DEF ChangePassword
<1>5. ASSUME NEW p \in Passwords, NEW s \in SessionIds, ResetPassword(p, s)  PROVE RecentInv'
  BY <1>5, OpenedRecent DEF ResetPassword
<1>6. ASSUME NEW s \in SessionIds, EndSession(s)  PROVE RecentInv'
  BY <1>6, OneEnds DEF EndSession
<1>7. ASSUME NEW p \in Passwords, SetPassword(p)  PROVE RecentInv'
  BY <1>7, AllEnd DEF SetPassword
<1>8. CASE LogoutEverywhere \/ MarkLeft
  BY <1>8, AllEnd DEF LogoutEverywhere, MarkLeft
<1>9. CASE Reactivate \/ UpdateOrganisation \/ UNCHANGED vars
  BY <1>1, <1>9 DEF Reactivate, UpdateOrganisation, vars
<1>10. QED BY <1>2, <1>3, <1>4, <1>5, <1>6, <1>7, <1>8, <1>9, RefreshRecent, ExpireRecent DEF Next

LEMMA RecentStart == ASSUME Init PROVE RecentInv
<1>1. session \in [SessionIds -> States] /\ Open = {} /\ Live = {} /\ recent = <<>>
  BY DEF Init, States, Open, Live
<1>2. <<>> \in Seq(SessionIds) /\ IsInjective(<<>>) /\ ToSet(<<>>) = {}
  BY DEF IsInjective, ToSet
<1>3. IsFiniteSet({}) /\ Cardinality({}) = 0
  BY FS_EmptySet
<1>4. QED BY <1>1, <1>2, <1>3, MaxSessionsNumber DEF RecentInv, RecentShape, SessionLimit

\* What the type invariant says of the other variables.
Reads == [kind : {"login", "change"}, password : Passwords, legacy : BOOLEAN,
          version : 0..MaxVersion, seen : 0..MaxVersion]
Users == [password : Passwords, legacy : BOOLEAN, version : 0..MaxVersion, active : BOOLEAN]
Tokens == [session : SessionIds, version : 0..MaxVersion, seen : 0..MaxVersion]
AccountBounds ==
    /\ user \in Users /\ orgActive \in BOOLEAN
    /\ access \subseteq Tokens
    /\ login \in [Logins -> {NoLogin} \cup Reads]
    /\ chosen \in Passwords /\ cuts \in 0..MaxVersion
    /\ proof \in [SessionIds -> Passwords] /\ openedAt \in [SessionIds -> 0..MaxVersion]

SignInInv == AccountInv /\ RecentInv /\ AccountBounds

LEMMA AReadIs ==
    ASSUME NEW l \in Logins, AccountBounds, login[l].kind \in {"login", "change"}
    PROVE  /\ login[l].password \in Passwords /\ login[l].version \in 0..MaxVersion /\ login[l].seen \in 0..MaxVersion
<1>1. login[l] \in {NoLogin} \cup Reads
  BY DEF AccountBounds
<1>2. login[l] # NoLogin
  BY DEF NoLogin
<1>3. login[l] \in Reads
  BY <1>1, <1>2
<1>4. QED BY <1>3 DEF Reads

LEMMA OpenBounds ==
    ASSUME AccountBounds, NEW rows, NEW new \in SessionIds, NEW password \in Passwords,
           NEW version \in 0..MaxVersion, NEW seen \in 0..MaxVersion, cuts' \in 0..MaxVersion,
           OpenSession(rows, new, password, version, seen)
    PROVE  /\ access' \subseteq Tokens /\ proof' \in [SessionIds -> Passwords]
           /\ openedAt' \in [SessionIds -> 0..MaxVersion]
<1>1. [session |-> new, version |-> version, seen |-> seen] \in Tokens
  BY DEF Tokens
<1>2. QED BY <1>1 DEF OpenSession, AccountBounds

LEMMA PasswordBounds ==
    ASSUME AccountInv, AccountBounds, NEW password \in Passwords, NewPassword(password)
    PROVE  user' \in Users /\ chosen' \in Passwords /\ cuts' \in 0..MaxVersion /\ user'.version \in 0..MaxVersion
<1>1. MaxVersion \in Nat /\ user.version = cuts /\ cuts \in 0..MaxVersion
  BY LimitsAllowed DEF AccountInv, VersionCounts, AccountBounds
<1>2. user.version + 1 \in 0..MaxVersion /\ cuts' = user.version + 1
  BY <1>1 DEF NewPassword
<1>3. user' = [user EXCEPT !.password = password, !.legacy = FALSE, !.version = user.version + 1] /\ chosen' = password
  BY DEF NewPassword
<1>4. user' \in Users
  BY <1>2, <1>3 DEF AccountBounds, Users
<1>5. QED BY <1>2, <1>3, <1>4 DEF Users

LEMMA BoundsStep ==
    ASSUME AccountInv, AccountBounds, [Next]_vars
    PROVE  AccountBounds'
<1>0. MaxVersion \in Nat /\ user.version = cuts /\ user.version \in 0..MaxVersion
  BY LimitsAllowed DEF AccountInv, VersionCounts, AccountBounds
<1>1. ASSUME NEW l \in Logins, LoginFails(l)  PROVE AccountBounds'
  BY <1>1 DEF LoginFails, AccountBounds, ghosts
<1>2. ASSUME NEW l \in Logins, LoginChecks(l) \/ ChangeChecks(l)  PROVE AccountBounds'
  <2>1. Read("login") \in Reads /\ Read("change") \in Reads
    BY DEF Read, Reads, AccountBounds, Users
  <2>2. login' = [login EXCEPT ![l] = Read("login")] \/ login' = [login EXCEPT ![l] = Read("change")]
    BY <1>2 DEF LoginChecks, ChangeChecks
  <2>3. login' \in [Logins -> {NoLogin} \cup Reads]
    BY <2>1, <2>2 DEF AccountBounds
  <2>4. QED BY <1>2, <2>3 DEF LoginChecks, ChangeChecks, AccountBounds, ghosts
<1>3. ASSUME NEW l \in Logins, NEW s \in SessionIds, LoginOpens(l, s)  PROVE AccountBounds'
  <2>1. login[l].password \in Passwords /\ login[l].version \in 0..MaxVersion /\ login[l].seen \in 0..MaxVersion
    BY <1>3, AReadIs DEF LoginOpens
  <2>2. /\ OpenSession(session, s, login[l].password, login[l].version, login[l].seen)
        /\ orgActive' = orgActive /\ chosen' = chosen /\ cuts' = cuts /\ login' = [login EXCEPT ![l] = NoLogin]
        /\ user' = user \/ user' = [user EXCEPT !.password = login[l].password, !.legacy = FALSE]
    BY <1>3 DEF LoginOpens
  <2>3. access' \subseteq Tokens /\ proof' \in [SessionIds -> Passwords] /\ openedAt' \in [SessionIds -> 0..MaxVersion]
    BY <2>1, <2>2, OpenBounds DEF AccountBounds
  <2>4. user' \in Users
    BY <2>1, <2>2 DEF AccountBounds, Users
  <2>5. login' \in [Logins -> {NoLogin} \cup Reads]
    BY <2>2 DEF AccountBounds
  <2>6. QED BY <2>2, <2>3, <2>4, <2>5 DEF AccountBounds
<1>4. ASSUME NEW l \in Logins, NEW p \in Passwords, NEW s \in SessionIds, ChangePassword(l, p, s)  PROVE AccountBounds'
  <2>1. /\ OpenSession(RevokeAll(session), s, p, user'.version, cuts') /\ NewPassword(p)
        /\ orgActive' = orgActive /\ login' = [login EXCEPT ![l] = NoLogin]
    BY <1>4 DEF ChangePassword
  <2>2. user' \in Users /\ chosen' \in Passwords /\ cuts' \in 0..MaxVersion /\ user'.version \in 0..MaxVersion
    BY <2>1, PasswordBounds
  <2>3. access' \subseteq Tokens /\ proof' \in [SessionIds -> Passwords] /\ openedAt' \in [SessionIds -> 0..MaxVersion]
    BY <2>1, <2>2, OpenBounds
  <2>4. login' \in [Logins -> {NoLogin} \cup Reads]
    BY <2>1 DEF AccountBounds
  <2>5. QED BY <2>1, <2>2, <2>3, <2>4 DEF AccountBounds
<1>5. ASSUME NEW p \in Passwords, NEW s \in SessionIds, ResetPassword(p, s)  PROVE AccountBounds'
  <2>1. /\ OpenSession(RevokeAll(session), s, p, user'.version, cuts') /\ NewPassword(p)
        /\ orgActive' = orgActive /\ login' = login
    BY <1>5 DEF ResetPassword
  <2>2. user' \in Users /\ chosen' \in Passwords /\ cuts' \in 0..MaxVersion /\ user'.version \in 0..MaxVersion
    BY <2>1, PasswordBounds
  <2>3. access' \subseteq Tokens /\ proof' \in [SessionIds -> Passwords] /\ openedAt' \in [SessionIds -> 0..MaxVersion]
    BY <2>1, <2>2, OpenBounds
  <2>4. QED BY <2>1, <2>2, <2>3 DEF AccountBounds
<1>6. ASSUME NEW s \in SessionIds, Refresh(s)  PROVE AccountBounds'
  <2>1. [session |-> s, version |-> user.version, seen |-> cuts] \in Tokens
    BY <1>0 DEF Tokens
  <2>2. access' \subseteq access \cup {[session |-> s, version |-> user.version, seen |-> cuts]}
    BY <1>6 DEF Refresh
  <2>3. QED BY <1>6, <2>1, <2>2 DEF Refresh, AccountBounds, ghosts
<1>7. ASSUME NEW s \in SessionIds, Expire(s) \/ EndSession(s)  PROVE AccountBounds'
  BY <1>7 DEF Expire, EndSession, AccountBounds, ghosts
<1>8. ASSUME NEW p \in Passwords, SetPassword(p)  PROVE AccountBounds'
  <2>1. user' \in Users /\ chosen' \in Passwords /\ cuts' \in 0..MaxVersion
    BY <1>8, PasswordBounds DEF SetPassword
  <2>2. QED BY <1>8, <2>1 DEF SetPassword, SignOutEverywhere, AccountBounds
<1>9. CASE LogoutEverywhere
  <2>1. user.version + 1 \in 0..MaxVersion /\ cuts' = user.version + 1
    BY <1>0, <1>9 DEF LogoutEverywhere
  <2>2. user' \in Users
    BY <1>9, <2>1 DEF LogoutEverywhere, AccountBounds, Users
  <2>3. QED BY <1>9, <2>1, <2>2 DEF LogoutEverywhere, SignOutEverywhere, AccountBounds
<1>10. CASE MarkLeft
  <2>1. user.version + 1 \in 0..MaxVersion /\ cuts' = user.version + 1
    BY <1>0, <1>10 DEF MarkLeft
  <2>2. user' \in Users
    BY <1>10, <2>1 DEF MarkLeft, AccountBounds, Users
  <2>3. QED BY <1>10, <2>1, <2>2 DEF MarkLeft, SignOutEverywhere, AccountBounds
<1>11. CASE Reactivate
  <2>1. user' \in Users
    BY <1>11 DEF Reactivate, AccountBounds, Users
  <2>2. QED BY <1>11, <2>1 DEF Reactivate, AccountBounds, ghosts
<1>12. CASE UpdateOrganisation \/ UNCHANGED vars
  BY <1>12 DEF UpdateOrganisation, AccountBounds, ghosts, vars
<1>13. QED BY <1>1, <1>2, <1>3, <1>4, <1>5, <1>6, <1>7, <1>8, <1>9, <1>10, <1>11, <1>12 DEF Next

LEMMA BoundsStart == ASSUME Init PROVE AccountBounds
<1>1. MaxVersion \in Nat
  BY LimitsAllowed
<1>2. user \in Users /\ user.password \in Passwords /\ 0 \in 0..MaxVersion
  <2>1. user \in [password : Passwords, legacy : BOOLEAN, version : {0}, active : {TRUE}]
    BY DEF Init
  <2>2. {0} \subseteq 0..MaxVersion /\ {TRUE} \subseteq BOOLEAN /\ 0 \in 0..MaxVersion
    BY <1>1
  <2>3. user.password \in Passwords
    BY <2>1
  <2>4. user \in Users
    BY <2>1, <2>2 DEF Users
  <2>5. QED BY <2>2, <2>3, <2>4
<1>3. QED BY <1>2 DEF Init, AccountBounds

LEMMA SignInTypes == ASSUME SignInInv PROVE TypeOK
<1>1. \A l \in Logins : login[l].kind \in {"none", "login", "change"}
  BY DEF SignInInv, AccountBounds, NoLogin, Reads
<1>2. QED BY <1>1 DEF SignInInv, AccountBounds, RecentInv, RecentShape, States, Open, Users, Tokens, TypeOK

LEMMA SignInInvariance == Spec => []SignInInv
<1>1. Init => SignInInv
  BY AccountStart, RecentStart, BoundsStart DEF SignInInv
<1>2. SignInInv /\ [Next]_vars => SignInInv'
  BY AccountStep, RecentStep, BoundsStep DEF SignInInv
<1>3. QED BY <1>1, <1>2, PTL DEF Spec

LEMMA RotationTypes == Rotation!Spec => []Rotation!TypeOK
<1>1. Rotation!Init => Rotation!TypeOK
  BY RotationTypedStart
<1>2. Rotation!TypeOK /\ [Rotation!Next]_(Rotation!vars) => (Rotation!TypeOK)'
  BY RotationTyped
<1>3. QED BY <1>1, <1>2, PTL DEF Rotation!Spec

LEMMA ResetInvariance == Reset!Spec => []ResetInv
<1>1. Reset!Init => ResetInv
  BY ResetStart
<1>2. ResetInv /\ [Reset!Next]_(Reset!vars) => ResetInv'
  BY ResetStep
<1>3. QED BY <1>1, <1>2, PTL DEF Reset!Spec

LEMMA ThrottleInvariance == Throttle!Spec => []ThrottleInv
<1>1. Throttle!Init => ThrottleInv
  BY ThrottleStart
<1>2. ThrottleInv /\ [Throttle!Next]_(Throttle!vars) => ThrottleInv'
  BY ThrottleStep
<1>3. QED BY <1>1, <1>2, PTL DEF Throttle!Spec

-----------------------------------------------------------------------------
(* The theorems *)

\* Put side by side, the four parts still move only as they do alone.
THEOREM PartsMoveAlone == SessionsSpec => Spec /\ Rotation!Spec /\ Reset!Spec /\ Throttle!Spec
<1>1. SessionsInit => Init /\ Rotation!Init /\ Reset!Init /\ Throttle!Init
  BY DEF SessionsInit
<1>2. [SessionsNext]_<<vars, rotation, reset, throttle>> =>
          [Next]_vars /\ [Rotation!Next]_(Rotation!vars) /\ [Reset!Next]_(Reset!vars) /\ [Throttle!Next]_(Throttle!vars)
  BY DEF SessionsNext, rotation, reset, throttle, Rotation!vars, Reset!vars, Throttle!vars
<1>3. QED BY <1>1, <1>2, PTL DEF SessionsSpec, Spec, Rotation!Spec, Reset!Spec, Throttle!Spec

\* auth.py: a password change, a sign-out everywhere or a departure ends every access token whose
\* holder's row was read before it and every session opened before it, for any number of logins
\* under way, sessions and passwords.
THEOREM CutIsAtOnce == SessionsSpec => []CutIsImmediate
<1>1. QED BY AccountImplies, AccountInvariance, PartsMoveAlone, PTL

\* change_password: whatever else is under way, the device that changed the password leaves the
\* step signed in with tokens that work, and with the only live session.
THEOREM ChangerIsSignedIn == SessionsSpec => ChangerStaysSignedIn
<1>1. AccountInv /\ [Next]_vars =>
        [\A l \in Logins :
            login[l].kind = "change" /\ login'[l] = NoLogin /\ cuts' # cuts /\ user.active /\ orgActive
            => \E t \in access' : Accepts(t)' /\ Live' = {t.session}]_vars
  BY ChangerStep
<1>2. QED BY <1>1, AccountInvariance, PartsMoveAlone, PTL DEF Spec, ChangerStaysSignedIn

\* rotate: within the grace period racing refreshes, retries and dropped responses of one app never
\* end its session as reused, for any number of calls in flight and of rotations.
THEOREM RacesNeverLogOut == SessionsSpec => []RacingNeverLogsOut
<1>1. Rotation!Init => RotationInv  BY RotationStart
<1>2. RotationInv /\ [Rotation!Next]_(Rotation!vars) => RotationInv'  BY RotationStep
<1>3. RotationInv => RacingNeverLogsOut
  BY DEF RotationInv, CallShapes, Excused, RacingNeverLogsOut, Rotation!RacingNeverLogsOut
<1>4. QED BY <1>1, <1>2, <1>3, PartsMoveAlone, PTL DEF Rotation!Spec

\* password_reset.py: a code that was used, burnt or replaced never works again, and a reset is
\* always on the newest one, however issuing and redeeming calls overlap, fail and are retried.
THEOREM CodesStayDead == SessionsSpec => CodesDieForGood
<1>1. Reset!Init => CodesInv  BY CodesStart
<1>2. CodesInv /\ [Reset!Next]_(Reset!vars) => CodesInv'  BY CodesStep
<1>3. CodesInv /\ [Reset!Next]_(Reset!vars) =>
        [\A c \in DOMAIN codes :
            /\ codes[c].used => codes'[c].used /\ codes'[c].resets = codes[c].resets
            /\ codes'[c].resets > codes[c].resets => c = Len(codes')]_(Reset!vars)
  BY CodesStep DEF CodesEnd
<1>4. QED BY <1>1, <1>2, <1>3, PartsMoveAlone, PTL DEF Reset!Spec, CodesDieForGood, Reset!CodesDieForGood

\* _prune, _redeem, assess and verify count before they write, in transactions that overlap: however
\* many calls there are, an account has at most MAX_SESSIONS_PER_USER sessions, and the codes, the
\* wrong guesses and the failures go beyond their limits by less than one for every call under way.
THEOREM LimitsAlwaysHold == SessionsSpec => []LimitsHold
<1>1. SignInInv => SessionLimit
  BY DEF SignInInv, RecentInv
<1>2. ResetInv => Reset!LimitsHold
  BY ResetImplies
<1>3. ThrottleInv => Throttle!LocksHold
  BY ThrottleImplies
<1>4. SessionLimit /\ Reset!LimitsHold /\ Throttle!LocksHold /\ Throttle!PicturesWorkOnce => LimitsHold
  BY DEF LimitsHold
<1>5. QED BY <1>1, <1>2, <1>3, <1>4, PartsMoveAlone, SignInInvariance, ResetInvariance, ThrottleInvariance,
      OneCheckPerPicture, PTL

\* The tables of auth.py, sessions.py, password_reset.py and login_throttle.py keep their types; in
\* SignIn's, `recent` lists exactly the open sessions, each once.
THEOREM SessionsTyped == SessionsSpec => []TypesOK
<1>1. SignInInv => TypeOK
  BY SignInTypes
<1>2. ResetInv => Reset!TypeOK
  BY ResetTypes
<1>3. ThrottleInv => Throttle!TypeOK
  BY DEF ThrottleInv
<1>4. TypeOK /\ Rotation!TypeOK /\ Reset!TypeOK /\ Throttle!TypeOK => TypesOK
  BY DEF TypesOK
<1>5. QED BY <1>1, <1>2, <1>3, <1>4, PartsMoveAlone, SignInInvariance, RotationTypes, ResetInvariance,
      ThrottleInvariance, PTL
=============================================================================
