---------------------------- MODULE LoginThrottle ----------------------------
(***************************************************************************)
(* The brute-force protection of one account, tried from one address:      *)
(* app/services/login_throttle.py and captcha.py, as login and             *)
(* change_password (auth.py) and a redeemed reset code use them.           *)
(*                                                                         *)
(* A check is four steps of their own: assess reads the attempts, verify   *)
(* uses up the picture, the password is compared, and the outcome is       *)
(* recorded.  Nothing is locked from one to the next.                      *)
(***************************************************************************)
EXTENDS Naturals, Sequences, FiniteSets

CONSTANTS Calls,
          Devices,       \* device ids, and one that stands for "no device id"
          Captchas,      \* the pictures that can be drawn
          AccountLimit, DeviceLimit, IpLimit, FloodLimit,
          CaptchaAfterAccount, CaptchaAfterIp,
          MaxLog         \* bound: no new call while the log is this long

VARIABLES log,       \* auth_login_attempts within the window, by created_at
          pictures,  \* auth_captchas
          call,      \* the checks under way
          spent      \* how many checks a picture let through, for the properties only

vars == <<log, pictures, call, spent>>

\* "old" apps cannot show a picture, "new" ones can, "change" is change_password.
Clients == {"old", "new", "change"}

\* An attempt's `by` is how it came to be checked, for the properties only.  The
\* device of a success is never read and is left out.
Success == [success |-> TRUE]
Failure(device, by) == [success |-> FALSE, device |-> device, by |-> by]
Failures == {Failure(d, by) : d \in Devices, by \in Clients \cup {"solved"}}

\* "holding": the transaction of verify has locked the picture's row.
Steps == {"idle", "arrived", "challenged", "holding", "cleared"}
Idle == [at |-> "idle"]

TypeOK ==
    /\ log \in Seq(Failures \cup {Success})
    /\ pictures \in [Captchas -> {"none", "unused", "expired", "used"}]
    /\ spent \in [Captchas -> Nat]
    /\ DOMAIN call = Calls
    /\ \A r \in Calls :
          \/ call[r] = Idle
          \/ /\ call[r].at \in Steps \ {"idle"}
             /\ call[r].by \in Clients \cup {"solved"}
             /\ call[r].device \in Devices
             /\ call[r].at = "holding" => call[r].by = "new" /\ call[r].picture \in Captchas

Init ==
    /\ log = <<>>
    /\ pictures = [c \in Captchas |-> "none"]
    /\ call = [r \in Calls |-> Idle]
    /\ spent = [c \in Captchas |-> 0]

At(r, step) == call[r].at = step
Finish(r) == call' = [call EXCEPT ![r] = Idle]
Becomes(r, step, by, device) == call' = [call EXCEPT ![r] = [at |-> step, by |-> by, device |-> device]]

\* Attempts after the last success in the window; the window slides over the oldest.
SinceSuccess == {i \in DOMAIN log : \A j \in DOMAIN log : log[j].success => j < i}
FailuresSince(device) == {i \in SinceSuccess : log[i].device = device}
AllFailures == {i \in DOMAIN log : ~log[i].success}

-----------------------------------------------------------------------------
(* assess *)

Arrive(r) ==
    /\ At(r, "idle")
    /\ Len(log) < MaxLog
    /\ \E client \in Clients, device \in Devices : Becomes(r, "arrived", client, device)
    /\ UNCHANGED <<log, pictures, spent>>

Shows(r) == call[r].by = "new"
Locked(r) ==
    \/ Cardinality(SinceSuccess) >= AccountLimit
    \/ Cardinality(FailuresSince(call[r].device)) >= DeviceLimit
    \/ Cardinality(AllFailures) >= IF Shows(r) THEN FloodLimit ELSE IpLimit

NeedsCaptcha(r) ==
    /\ Shows(r)
    /\ \/ Cardinality(SinceSuccess) >= CaptchaAfterAccount
       \/ Cardinality(AllFailures) >= CaptchaAfterIp

\* HTTP 429 while locked; otherwise the verdict says whether a picture is needed.
Assess(r) ==
    /\ At(r, "arrived")
    /\ IF Locked(r)
       THEN Finish(r)
       ELSE Becomes(r, IF NeedsCaptcha(r) THEN "challenged" ELSE "cleared", call[r].by, call[r].device)
    /\ UNCHANGED <<log, pictures, spent>>

-----------------------------------------------------------------------------
(* captcha *)

Issue(c) ==
    /\ pictures[c] = "none"
    /\ pictures' = [pictures EXCEPT ![c] = "unused"]
    /\ UNCHANGED <<log, call, spent>>

Expire(c) ==
    /\ pictures[c] = "unused"
    /\ pictures' = [pictures EXCEPT ![c] = "expired"]
    /\ UNCHANGED <<log, call, spent>>

Hold(r) ==
    \E c \in Captchas :
        call' = [call EXCEPT ![r] = [at |-> "holding", by |-> "new", device |-> call[r].device,
                                     picture |-> c, fresh |-> pictures[c] \in {"unused", "expired"}]]

\* SELECT ... FOR UPDATE of the picture the app names, whether it was used yet.
LockPicture(r) ==
    /\ At(r, "challenged")
    /\ Hold(r)
    /\ \A q \in Calls \ {r} : At(q, "holding") => call[q].picture # call'[r].picture
    /\ UNCHANGED <<log, pictures, spent>>

\* The login came without a picture: it is asked to show one (HTTP 428).
AskForPicture(r) ==
    /\ At(r, "challenged")
    /\ Finish(r)
    /\ UNCHANGED <<log, pictures, spent>>

\* A fresh picture is used up, whatever the answer; a right one in time clears
\* the call, anything else is HTTP 428.
UsePicture(r) ==
    /\ At(r, "holding")
    /\ LET c == call[r].picture IN
          \/ /\ call[r].fresh /\ pictures[c] # "expired"
             /\ Becomes(r, "cleared", "solved", call[r].device)
             /\ spent' = [spent EXCEPT ![c] = @ + 1]
             /\ pictures' = [pictures EXCEPT ![c] = "used"]
          \/ /\ Finish(r)
             /\ pictures' = [pictures EXCEPT ![c] = IF call[r].fresh THEN "used" ELSE @]
             /\ UNCHANGED spent
    /\ UNCHANGED log

-----------------------------------------------------------------------------
(* The password, and what is recorded of it.                               *)

\* A failure is a transaction of its own.
WrongPassword(r) ==
    /\ At(r, "cleared")
    /\ log' = Append(log, Failure(call[r].device, call[r].by))
    /\ Finish(r)
    /\ UNCHANGED <<pictures, spent>>

\* login records its success with the session it opens; change_password records
\* none, and neither does a login to an account that is not active.
RightPassword(r) ==
    /\ At(r, "cleared")
    /\ log' \in {log} \cup (IF call[r].by = "change" THEN {} ELSE {Append(log, Success)})
    /\ Finish(r)
    /\ UNCHANGED <<pictures, spent>>

\* A redeemed reset code counts as a success of the account.
ResetPassword ==
    /\ Len(log) < MaxLog
    /\ log' = Append(log, Success)
    /\ UNCHANGED <<pictures, call, spent>>

\* The oldest attempt leaves the window.
WindowMoves ==
    /\ log # <<>>
    /\ log' = Tail(log)
    /\ UNCHANGED <<pictures, call, spent>>

-----------------------------------------------------------------------------
Next ==
    \/ ResetPassword
    \/ WindowMoves
    \/ \E c \in Captchas : Issue(c) \/ Expire(c)
    \/ \E r \in Calls : \/ Arrive(r) \/ Assess(r) \/ AskForPicture(r) \/ LockPicture(r)
                        \/ UsePicture(r) \/ WrongPassword(r) \/ RightPassword(r)

Spec == Init /\ [][Next]_vars

-----------------------------------------------------------------------------
\* The limits of login_throttle.py's docstring hold up to the checks that are
\* under way together: none lets more than one failure each beyond the limit,
\* in whatever order they assess, solve pictures, fail and succeed.
Overlapping == Cardinality(Calls) - 1
LocksHold ==
    /\ Cardinality(SinceSuccess) <= AccountLimit + Overlapping
    /\ \A d \in Devices : Cardinality(FailuresSince(d)) <= DeviceLimit + Overlapping
    /\ Cardinality(AllFailures) <= (IF IpLimit > FloodLimit THEN IpLimit ELSE FloodLimit) + Overlapping
    \* what an app that can show a picture tried without one
    /\ Cardinality({i \in SinceSuccess : log[i].by = "new"}) <= CaptchaAfterAccount + Overlapping

\* "Each picture works once" (captcha.py, line 12): two checks never pass on one.
PicturesWorkOnce == \A c \in Captchas : spent[c] <= 1
=============================================================================
