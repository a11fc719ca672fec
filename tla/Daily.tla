------------------------------- MODULE Daily -------------------------------
(***************************************************************************)
(* What is to happen once a day, or once: the clean-up (retention.py),     *)
(* which every process tries to start; the fee reminders (reminders.py),   *)
(* which cron may start twice; a member of staff checking in (hr.py).  A   *)
(* behaviour is about one of the three.                                    *)
(***************************************************************************)
EXTENDS Integers, FiniteSets

CONSTANTS Procs,         \* API processes, workers, phones
          Tasks,
          Fees, Dues,    \* fees, and the possible functions from them to due days
          RunEvery,
          Batch, MaxBatches,
          MaxNow, MaxOld,  \* bounds: the clock, the rows past their retention
          None

VARIABLES task, now,
          last, old, claims,      \* scheduled_runs; rows to delete; ghost: when a run was claimed
          due, paid, sent, told,  \* fees, fee_reminders_sent, and how often parents were told of each
          astride,                \* ghost: runs of two days have been under way at once
          row,                    \* staff_attendance of one person and day
          proc

cleanup == <<last, old, claims>>
fees == <<due, paid, sent, told, astride>>
vars == <<task, now, cleanup, fees, row, proc>>

DueSoonDays == 1
CatchUpDays == 2
Kinds == {"due_soon", "overdue"}
Idle == [at |-> "idle", now |-> 0, n |-> 0, holds |-> {}, view |-> None, items |-> {}, done |-> {}]

TypeOK ==
    /\ task \in Tasks /\ now \in 0..MaxNow
    /\ last \in {None} \cup (-RunEvery - 1)..MaxNow /\ old \in 0..MaxOld /\ \A c \in claims : c[2] \in 0..MaxNow
    /\ paid \subseteq Fees /\ sent \subseteq Fees \X Kinds /\ told \in [Fees \X Kinds -> Nat]
    /\ row \in {None} \cup [in : 0..MaxNow, out : (0..MaxNow) \cup {None}]
    /\ \A p \in Procs : proc[p].at \in {"idle", "insert", "update", "purge", "due_soon", "overdue", "remind", "in", "out"}

Init ==
    /\ task \in Tasks /\ now = 0
    /\ last = None /\ old = 0 /\ claims = {}
    /\ due \in (IF task = "reminders" THEN Dues ELSE {None})
    /\ paid = {} /\ sent = {} /\ told = [k \in Fees \X Kinds |-> 0]
    /\ astride = FALSE /\ row = None /\ proc = [p \in Procs |-> Idle]

Goes(p, s) == proc' = [proc EXCEPT ![p] = s]
Step(p, from) == proc[p].at = from

\* Time passes, and rows get old.
Tick ==
    /\ now < MaxNow /\ now' = now + 1
    /\ old' \in {o \in {old, old + 1, old + Batch} : o <= MaxOld /\ (task = "cleanup" \/ o = old)}
    /\ UNCHANGED <<task, last, claims, fees, row, proc>>

\* A process dies, a lost connection or a deadlock: rolled back.
Crash(p) == proc[p] # Idle /\ Goes(p, Idle) /\ UNCHANGED <<task, now, cleanup, fees, row>>

-----------------------------------------------------------------------------
(* run_if_due: every statement is a transaction of its own. *)

Start(p) ==
    /\ task = "cleanup" /\ Step(p, "idle") /\ Goes(p, [Idle EXCEPT !.at = "insert", !.now = now])
    /\ UNCHANGED <<task, now, cleanup, fees, row>>

\* INSERT IGNORE of a run that is overdue.
Inserted(t) == IF last = None THEN t - RunEvery - 1 ELSE last
Insert(p) ==
    /\ Step(p, "insert") /\ last' = Inserted(proc[p].now) /\ Goes(p, [proc[p] EXCEPT !.at = "update"])
    /\ UNCHANGED <<task, now, old, claims, fees, row>>

\* The conditional UPDATE: one process gets a rowcount of 1.
Claim(p) ==
    LET t == proc[p].now
        won == last < t - RunEvery IN
    /\ Step(p, "update")
    /\ last' = IF won THEN t ELSE last
    /\ claims' = IF won THEN claims \cup {<<p, t>>} ELSE claims
    /\ Goes(p, IF won THEN [proc[p] EXCEPT !.at = "purge"] ELSE Idle)
    /\ UNCHANGED <<task, now, old, fees, row>>

\* run's DELETEs, a batch each; the last is the first that is not full.
PurgeOne(p) ==
    LET removed == IF old < Batch THEN old ELSE Batch IN
    /\ Step(p, "purge")
    /\ old' = old - removed
    /\ Goes(p, IF removed < Batch \/ proc[p].n + 1 = MaxBatches THEN Idle ELSE [proc[p] EXCEPT !.n = @ + 1])
    /\ UNCHANGED <<task, now, last, claims, fees, row>>

-----------------------------------------------------------------------------
(* send_fee_reminders: one transaction *)

Locked(x, p) == \E q \in Procs \ {p} : x \in proc[q].holds
Reminding == {p \in Procs : proc[p].at \in {"due_soon", "overdue", "remind"}}

Remind(p) ==
    /\ task = "reminders" /\ Step(p, "idle") /\ Goes(p, [Idle EXCEPT !.at = "due_soon", !.now = now])
    /\ astride' = (astride \/ \E q \in Reminding : proc[q].now # now)
    /\ UNCHANGED <<task, now, cleanup, due, paid, sent, told, row>>

InRange(kind, f, today) ==
    /\ f \notin paid
    /\ IF kind = "due_soon" THEN due[f] \in today..(today + DueSoonDays)
       ELSE due[f] \in (today - CatchUpDays)..(today - 1)

\* Mutant: the fees are read without FOR UPDATE.
ReadsPlainly(p, f) == {}

\* FOR UPDATE locks the fees of the range in the order of their index; the subquery on
\* fee_reminders_sent does not lock: it sees the snapshot of the first time it is evaluated.
Locks(p, f) == {f}
Scan(p, f) ==
    LET c == proc[p]
        seen == IF c.view = None THEN sent ELSE c.view IN
    /\ c.at \in Kinds /\ f \notin c.done /\ InRange(c.at, f, c.now)
    /\ \A g \in Fees : InRange(c.at, g, c.now) /\ due[g] < due[f] => g \in c.done
    /\ Locks(p, f) # {} => ~Locked(f, p)
    /\ Goes(p, [c EXCEPT !.done = @ \cup {f}, !.holds = @ \cup Locks(p, f), !.view = seen,
                         !.items = IF <<f, c.at>> \in seen THEN @ ELSE @ \cup {<<f, c.at>>}])
    /\ UNCHANGED <<task, now, cleanup, fees, row>>

\* The query has come to its end.
ScanEnds(p) ==
    LET c == proc[p] IN
    /\ c.at \in Kinds
    /\ \A f \in Fees : InRange(c.at, f, c.now) => f \in c.done
    /\ Goes(p, [c EXCEPT !.at = IF c.at = "due_soon" THEN "overdue" ELSE "remind", !.done = {}])
    /\ UNCHANGED <<task, now, cleanup, fees, row>>

\* INSERT IGNORE, the notifications, COMMIT.
RemindCommits(p) ==
    /\ Step(p, "remind")
    /\ sent' = sent \cup proc[p].items
    /\ told' = [k \in Fees \X Kinds |-> IF k \in proc[p].items THEN told[k] + 1 ELSE told[k]]
    /\ Goes(p, Idle)
    /\ UNCHANGED <<task, now, cleanup, due, paid, astride, row>>

\* fees.py: a fee is paid; its row is locked.
Pay(f) ==
    /\ task = "reminders" /\ f \notin paid /\ \A p \in Procs : f \notin proc[p].holds
    /\ paid' = paid \cup {f}
    /\ UNCHANGED <<task, now, cleanup, due, sent, told, astride, row, proc>>

-----------------------------------------------------------------------------
(* check_in, check_out: `now` is read, then the row is locked, or the gap where it would be. *)

Clock(p, op) ==
    /\ task = "attendance" /\ Step(p, "idle")
    /\ Goes(p, [Idle EXCEPT !.at = op, !.now = now])
    /\ UNCHANGED <<task, now, cleanup, fees, row>>

\* Two gap locks go together; then each INSERT waits for the other's (Crash: a deadlock).
Taken(p) == IF row = None THEN {"gap"} ELSE {"row"}
Find(p) ==
    LET c == proc[p] IN
    /\ c.at \in {"in", "out"} /\ c.holds = {} /\ ~Locked("row", p)
    /\ Goes(p, IF (c.at = "in" /\ row # None) \/ (c.at = "out" /\ row = None) THEN Idle
               ELSE [c EXCEPT !.holds = Taken(p)])
    /\ UNCHANGED <<task, now, cleanup, fees, row>>

\* INSERT (a duplicate key is "already checked in"), or UPDATE of out_time.
Written(p) == IF row # None /\ proc[p].at = "in" THEN row
              ELSE IF proc[p].at = "in" THEN [in |-> proc[p].now, out |-> None]
              ELSE [row EXCEPT !.out = proc[p].now]
Clocked(p) ==
    /\ proc[p].at \in {"in", "out"} /\ proc[p].holds # {}
    /\ proc[p].at = "in" => ~Locked("gap", p)
    /\ row' = Written(p) /\ Goes(p, Idle)
    /\ UNCHANGED <<task, now, cleanup, fees>>

-----------------------------------------------------------------------------
Next ==
    \/ Tick
    \/ \E p \in Procs :
        \/ Crash(p) \/ Start(p) \/ Insert(p) \/ Claim(p) \/ PurgeOne(p)
        \/ Remind(p) \/ ScanEnds(p) \/ RemindCommits(p) \/ \E f \in Fees : Scan(p, f)
        \/ \E op \in {"in", "out"} : Clock(p, op)
        \/ Find(p) \/ Clocked(p)
    \/ \E f \in Fees : Pay(f)

Spec == Init /\ [][Next]_vars

-----------------------------------------------------------------------------
(* Properties *)

\* retention.py:3: whatever processes wake up together, stall between their statements or die, the
\* clean-ups that start are more than RUN_EVERY apart.
OneCleanUpADay == \A c, d \in claims : c # d => c[2] - d[2] > RunEvery \/ d[2] - c[2] > RunEvery

\* reminders.py:7: running the job twice, one after the other or at once, never tells anybody
\* twice, and what is recorded as sent was sent (unless a run of the day before is still under way).
RemindedOnce == ~astride => \A k \in Fees \X Kinds : told[k] = IF k \in sent THEN 1 ELSE 0

OncePerDay == OneCleanUpADay /\ RemindedOnce

\* hr.py:267: the first check-in of the day stays, whichever phone or tab comes second.
FirstCheckInStays == [][row # None => row' # None /\ row'.in = row.in]_row
=============================================================================
