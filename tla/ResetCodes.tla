----------------------------- MODULE ResetCodes -----------------------------
(***************************************************************************)
(* The password reset codes of one account: app/services/                  *)
(* password_reset.py.                                                      *)
(*                                                                         *)
(* Codes are issued by a background job and redeemed by requests.  Each is *)
(* a transaction: its first plain read (_find_accounts) makes the snapshot *)
(* all its later plain reads see, while SELECT ... FOR UPDATE and UPDATE   *)
(* see what is committed now and lock it.  Both lock the account's newest  *)
(* row, so they exclude each other once there is one; before, they lock    *)
(* only the gap the first row would go to, and share that.                 *)
(*                                                                         *)
(* A job may run late or twice (BackgroundJobs).  The throttle in front of *)
(* both is LoginThrottle; here calls come as they like.                    *)
(***************************************************************************)
EXTENDS Naturals, Sequences, FiniteSets, Folds

CONSTANTS Calls,
          CodeLimit,       \* RESET_MAX_CODES_PER_ACCOUNT
          MaxAttempts,     \* RESET_CODE_MAX_ATTEMPTS
          DailyLimit,      \* RESET_MAX_WRONG_CODES_PER_DAY
          Window, Ttl, Day,\* RESET_WINDOW_MINUTES, RESET_CODE_TTL_MINUTES and a day, in ticks
          MaxTime,         \* bound: the clock stops here
          MaxCodes         \* bound: no job is started once this many were issued

VARIABLES codes,   \* password_reset_codes of the account, in the order of their ids
          clock,
          call     \* the jobs and requests under way

vars == <<codes, clock, call>>

\* `resets` counts what the code was accepted for, for the properties only.
Code == [created : 0..MaxTime, used : BOOLEAN, attempts : 0..MaxAttempts, resets : Nat]

Steps == {"idle", "queued", "counted", "marked", "read", "locked"}

\* asked: the job's `now`; gap: it found no row to lock.
\* seen: a request's snapshot; row: the row it locked (0 none).
Idle == [at |-> "idle", asked |-> 0, gap |-> FALSE, seen |-> <<>>, row |-> 0]

TypeOK ==
    /\ codes \in Seq(Code)
    /\ Len(codes) <= MaxCodes
    /\ clock \in 0..MaxTime
    /\ DOMAIN call = Calls
    /\ \A r \in Calls :
          /\ call[r].at \in Steps
          /\ call[r].asked <= clock
          /\ call[r].row \in 0..Len(codes)
          /\ Len(call[r].seen) <= Len(codes)
          /\ call[r].gap => call[r].at \in {"marked", "locked"} /\ codes = <<>>

Init ==
    /\ codes = <<>>
    /\ clock = 0
    /\ call = [r \in Calls |-> Idle]

Since(table, time) == {c \in DOMAIN table : table[c].created >= time}
AttemptsSince(table, time) ==
    MapThenFoldSet(+, 0, LAMBDA c : table[c].attempts, LAMBDA S : CHOOSE c \in S : TRUE, Since(table, time))
Before(span) == IF clock >= span THEN clock - span ELSE 0

At(r, step) == call[r].at = step
HoldsRows(r) == call[r].at \in {"marked", "locked"} /\ ~call[r].gap
HoldsGap(r) == call[r].gap
RowsFree(r) == \A q \in Calls \ {r} : ~HoldsRows(q)
Finish(r) == call' = [call EXCEPT ![r] = Idle]

Tick ==
    /\ clock < MaxTime
    /\ clock' = clock + 1
    /\ UNCHANGED <<codes, call>>

-----------------------------------------------------------------------------
(* Issuing: request_code queues a job with the time of the request.        *)

RequestCode(r) ==
    /\ At(r, "idle")
    /\ Len(codes) < MaxCodes
    /\ call' = [call EXCEPT ![r].at = "queued", ![r].asked = clock]
    /\ UNCHANGED <<codes, clock>>

\* The lookup and the count of recent codes, in one snapshot; too many: ignored.
CountRecent(r) ==
    /\ At(r, "queued")
    /\ LET from == IF call[r].asked >= Window THEN call[r].asked - Window ELSE 0
       IN  IF Cardinality(Since(codes, from)) >= CodeLimit
           THEN Finish(r)
           ELSE call' = [call EXCEPT ![r].at = "counted"]
    /\ UNCHANGED <<codes, clock>>

\* UPDATE ... WHERE used_at IS NULL locks the account's rows, or the gap.
MarkUsed(r) ==
    /\ At(r, "counted")
    /\ RowsFree(r)
    /\ call' = [call EXCEPT ![r].at = "marked", ![r].gap = (codes = <<>>)]
    /\ UNCHANGED <<codes, clock>>

\* The new row and COMMIT, which shows the older codes as used.  The job is
\* done, or its process dies before it says so and it will run again.
IssueCode(r) ==
    /\ At(r, "marked")
    /\ Len(codes) < MaxCodes
    /\ \A q \in Calls \ {r} : ~HoldsGap(q)
    /\ codes' = Append([c \in DOMAIN codes |-> [codes[c] EXCEPT !.used = TRUE]],
                       [created |-> call[r].asked, used |-> FALSE, attempts |-> 0, resets |-> 0])
    /\ \/ Finish(r)
       \/ call' = [call EXCEPT ![r] = [Idle EXCEPT !.at = "queued", !.asked = call[r].asked]]
    /\ UNCHANGED clock

\* The job fails (a lost connection, or it is the victim of two jobs that wait
\* for each other's gap): everything is rolled back and the job retried.
IssueFails(r) ==
    /\ call[r].at \in {"counted", "marked"}
    /\ call' = [call EXCEPT ![r] = [Idle EXCEPT !.at = "queued", !.asked = call[r].asked]]
    /\ UNCHANGED <<codes, clock>>

-----------------------------------------------------------------------------
(* Redeeming: verify_code and reset_password share _redeem.                *)

\* The lookup of the account makes the snapshot.
FindAccount(r) ==
    /\ At(r, "idle")
    /\ call' = [call EXCEPT ![r].at = "read", ![r].seen = codes]
    /\ UNCHANGED <<codes, clock>>

\* ORDER BY created_at DESC, id DESC LIMIT 1
Newest(unused) ==
    CHOOSE c \in unused : \A d \in unused :
        codes[d].created < codes[c].created \/ (codes[d].created = codes[c].created /\ d <= c)
Unused == {c \in DOMAIN codes : ~codes[c].used}
Locked(r) ==
    call' = [call EXCEPT ![r].at = "locked", ![r].gap = (codes = <<>>),
                         ![r].row = IF Unused = {} THEN 0 ELSE Newest(Unused)]

\* Mutant: the row is read without FOR UPDATE.
ReadCode(r) ==
    /\ At(r, "read")
    /\ Locked(r)
    /\ UNCHANGED <<codes, clock>>

\* SELECT ... FOR UPDATE: the newest unused code of the account, as it is now.
LockCode(r) ==
    /\ At(r, "read")
    /\ RowsFree(r)
    /\ Locked(r)
    /\ UNCHANGED <<codes, clock>>

\* _wrong_codes_today is a plain read: it still sees the snapshot.
WrongCodesToday(r) == AttemptsSince(call[r].seen, Before(Day))

Live(r) ==
    /\ call[r].row # 0
    /\ clock < codes[call[r].row].created + Ttl
    /\ codes[call[r].row].attempts < MaxAttempts
    /\ WrongCodesToday(r) < DailyLimit

\* The right code was typed.  reset_password uses it up and sets the password
\* (SignIn!ResetPassword) in the same transaction; verify_code changes nothing.
Accept(r) ==
    /\ At(r, "locked")
    /\ Live(r)
    /\ \/ codes' = [codes EXCEPT ![call[r].row].used = TRUE, ![call[r].row].resets = @ + 1]
       \/ UNCHANGED codes
    /\ Finish(r)
    /\ UNCHANGED clock

\* Any other code was typed: the wrong guess is counted and committed; used_at is written either way.
CountWrongGuess(r) ==
    /\ At(r, "locked")
    /\ Live(r)
    /\ LET attempts == codes[call[r].row].attempts + 1
       IN  codes' = [codes EXCEPT ![call[r].row].attempts = attempts,
                                  ![call[r].row].used = (attempts >= MaxAttempts)]
    /\ Finish(r)
    /\ UNCHANGED clock

\* Nothing to compare with: only the throttle's failure is recorded.  Or the
\* transaction is rolled back by an error.
Refuse(r) ==
    /\ call[r].at \in {"read", "locked"}
    /\ Finish(r)
    /\ UNCHANGED <<codes, clock>>

-----------------------------------------------------------------------------
Next ==
    \/ Tick
    \/ \E r \in Calls :
          \/ RequestCode(r) \/ CountRecent(r) \/ MarkUsed(r) \/ IssueCode(r) \/ IssueFails(r)
          \/ FindAccount(r) \/ LockCode(r) \/ Accept(r) \/ CountWrongGuess(r) \/ Refuse(r)

Spec == Init /\ [][Next]_vars

-----------------------------------------------------------------------------
\* "Only the newest one works" (password_reset.py, line 23), once: a code that
\* was used, burnt or replaced never works again, although a wrong guess writes
\* used_at back, and a reset is always on the code issued last.
CodesDieForGood ==
    [][\A c \in DOMAIN codes :
          /\ codes[c].used => codes'[c].used /\ codes'[c].resets = codes[c].resets
          /\ codes'[c].resets > codes[c].resets => c = Len(codes')]_vars

\* The limits of the docstring are checked on what a snapshot shows, so calls
\* that overlap can pass together: never more than one each beyond the limit.
Overlapping == Cardinality(Calls) - 1
CodesPerWindow == Cardinality(Since(codes, Before(Window))) <= CodeLimit + Overlapping
WrongCodesPerDay == AttemptsSince(codes, Before(Day)) <= DailyLimit + Overlapping
LimitsHold == CodesPerWindow /\ WrongCodesPerDay
=============================================================================
