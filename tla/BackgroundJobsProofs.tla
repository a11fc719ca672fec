------------------------ MODULE BackgroundJobsProofs ------------------------
(***************************************************************************)
(* Whatever dies, fails or is retried, a job is run by one worker at a     *)
(* time (until a run outlasts JOBS_STUCK_MINUTES), is done only once its   *)
(* handler has returned, is given up only after max_attempts tries, and no *)
(* worker waits past a new job it was told of: for any number of workers,  *)
(* jobs and mishaps.  The arguments: a job somebody works on is running    *)
(* and not stale, so that nobody can claim it (JInv); no row and no worker *)
(* knows of more attempts than there were tries (TriesInv); and from the   *)
(* hook on, a new job is in its worker's list, or its event is set, or the *)
(* worker is about to look, or its batch is full (WakeInv).                *)
(*                                                                         *)
(* Then what is for once a day, and what the calendar, the Holidays tab,   *)
(* the substitutes' screen and the coverage of a leave say of a day, for any*)
(* processes, fees, events, days and teachers.  The calendar: a day without*)
(* contest is marked by exactly the event its holiday row names, or by none.*)
(* The reminders: whoever has looked at what is sent holds a fee that every*)
(* other run of that day would have to lock before its end, so what was seen*)
(* is still so when it commits.                                            *)
(***************************************************************************)
EXTENDS MCBackgroundJobs, FiniteSetTheorems, TLAPS

Rows == [status : {"none", "pending", "running", "done", "failed", "purged"},
         attempts : Nat, payload : BOOLEAN, due : BOOLEAN, stale : BOOLEAN]
Locals == [at : {"start", "recover", "list", "claim", "read", "run", "report", "wait", "backoff", "down"},
           due : SUBSET Jobs, ran : Nat, lost : BOOLEAN,
           job : SUBSET Jobs, attempts : Nat, outcome : {"none", "ok", "error", "never"}]

\* The part of the type invariant the argument needs.
Shapes == job \in [Jobs -> Rows] /\ worker \in [Workers -> Locals]

\* A worker has one job at a time.
OneJob == \A w \in Workers : \A i, j \in worker[w].job : i = j

\* Who reports success has executed the job.
Success(w, j) == worker[w].at = "report" /\ worker[w].outcome = "ok" /\ j \in worker[w].job
SuccessIsTrue == \A w \in Workers, j \in Jobs : Success(w, j) => j \in executed

\* A job somebody works on is nobody else's to claim or to requeue.
Runs(j) == job[j].status = "running" /\ ~job[j].stale
WorkIsClaimed == \A w \in Workers, j \in Jobs \ overran : WorksOn(w, j) => Runs(j)
WorkIsAlone == \A v, w \in Workers, j \in Jobs \ overran : WorksOn(v, j) /\ WorksOn(w, j) => v = w

Dropped(j) == job[j].status = "done" \/ (job[j].status # "none" /\ ~job[j].payload)

JInv == Shapes /\ OneJob /\ SuccessIsTrue /\ WorkIsClaimed /\ WorkIsAlone /\ DoneMeansExecuted

-----------------------------------------------------------------------------

LEMMA RowChanges ==
    ASSUME NEW rec \in Rows
    PROVE  /\ [rec EXCEPT !.status = "pending"] \in Rows
           /\ [rec EXCEPT !.due = TRUE] \in Rows
           /\ [rec EXCEPT !.stale = TRUE] \in Rows
           /\ [rec EXCEPT !.status = "pending", !.attempts = 0, !.due = TRUE] \in Rows
  BY DEF Rows

\* A claim counts, and a claimed job has been tried.
LEMMA CountedIsOneAtLeast ==
    ASSUME NEW j \in Jobs, NEW n \in Nat
    PROVE  Counted(j, n) \in Nat \ {0}
  BY DEF Counted

LEMMA LocalChanges ==
    ASSUME NEW l \in Locals, NEW list \in SUBSET Jobs, NEW n \in Nat, NEW outcome \in {"ok", "error", "never"}
    PROVE  /\ [l EXCEPT !.at = "claim", !.due = list] \in Locals
           /\ [l EXCEPT !.at = "run", !.attempts = n] \in Locals
           /\ [l EXCEPT !.at = "report", !.outcome = outcome] \in Locals
           /\ [l EXCEPT !.at = "claim", !.job = {}, !.ran = l.ran + 1] \in Locals
<1>1. [l EXCEPT !.at = "claim", !.due = list] \in Locals  BY DEF Locals
<1>2. [l EXCEPT !.at = "run", !.attempts = n] \in Locals  BY DEF Locals
<1>3. [l EXCEPT !.at = "report", !.outcome = outcome] \in Locals  BY DEF Locals
<1>4. [l EXCEPT !.at = "claim", !.job = {}, !.ran = l.ran + 1] \in Locals
  <2>1. [l EXCEPT !.at = "claim", !.job = {}] \in Locals  BY DEF Locals
  <2>2. l.ran + 1 \in Nat  BY DEF Locals
  <2>3. QED BY <2>1, <2>2 DEF Locals
<1>5. QED BY <1>1, <1>2, <1>3, <1>4

\* Most steps begin no work, and leave alone what is worked on.
NothingGained ==
    /\ \A w \in Workers : worker'[w].job \subseteq worker[w].job
    /\ \A w \in Workers, j \in Jobs : WorksOn(w, j)' => WorksOn(w, j)
    /\ \A w \in Workers, j \in Jobs : Success(w, j)' => Success(w, j)
    /\ executed \subseteq executed' /\ overran \subseteq overran'
    /\ \A w \in Workers, j \in Jobs \ overran' : WorksOn(w, j) /\ Runs(j) => Runs(j)'
    /\ \A j \in Jobs : Dropped(j)' => Dropped(j)

LEMMA QuietStep ==
    ASSUME JInv, Shapes', NothingGained
    PROVE JInv'
<1>1. OneJob'  BY DEF JInv, OneJob, NothingGained
<1>2. SuccessIsTrue'  BY DEF JInv, SuccessIsTrue, NothingGained
<1>3. WorkIsClaimed'  BY DEF JInv, WorkIsClaimed, NothingGained
<1>4. WorkIsAlone'  BY DEF JInv, WorkIsAlone, NothingGained
<1>5. DoneMeansExecuted'  BY DEF JInv, DoneMeansExecuted, Dropped, NothingGained
<1>6. QED BY <1>1, <1>2, <1>3, <1>4, <1>5 DEF JInv

LEMMA EnqueueKeeps ==
    ASSUME JInv, NEW j \in Jobs, Enqueue(j)
    PROVE JInv'
<1>1. Shapes'
  BY DEF Enqueue, JInv, Shapes, Rows, Locals, Stored, NotStored, ghosts
<1>2. NothingGained
  BY DEF Enqueue, JInv, Shapes, Rows, Locals, NothingGained, WorksOn, Success, Runs, Dropped, Stored, NotStored, ghosts
<1>3. QED BY <1>1, <1>2, QuietStep

LEMMA AnnounceKeeps ==
    ASSUME JInv, NEW j \in Jobs, Announce(j)
    PROVE JInv'
<1>1. Shapes'
  BY DEF Announce, JInv, Shapes, Rows, Locals
<1>2. NothingGained
  BY DEF Announce, JInv, Shapes, Rows, Locals, NothingGained, WorksOn, Success, Runs, Dropped
<1>3. QED BY <1>1, <1>2, QuietStep

LEMMA SubmitFailsKeeps ==
    ASSUME JInv, NEW j \in Jobs, SubmitFails(j)
    PROVE JInv'
<1>1. Shapes'
  <2>1. NotStored \in Rows /\ Stored \in Rows
    BY DEF NotStored, Stored, Rows
  <2>2. job' \in [Jobs -> Rows]
    BY <2>1 DEF SubmitFails, JInv, Shapes
  <2>3. QED BY <2>2 DEF SubmitFails, JInv, Shapes
<1>2. NothingGained
  BY DEF SubmitFails, JInv, Shapes, Rows, Locals, NothingGained, WorksOn, Success, Runs, Dropped, Stored, NotStored
<1>3. QED BY <1>1, <1>2, QuietStep

LEMMA RunNowKeeps ==
    ASSUME JInv, NEW j \in Jobs, RunNow(j)
    PROVE JInv'
<1>1. Shapes'
  BY DEF RunNow, JInv, Shapes, Rows, Locals
<1>2. NothingGained
  BY DEF RunNow, JInv, Shapes, Rows, Locals, NothingGained, WorksOn, Success, Runs, Dropped
<1>3. QED BY <1>1, <1>2, QuietStep

LEMMA StartPassKeeps ==
    ASSUME JInv, NEW w \in Workers, StartPass(w)
    PROVE JInv'
<1>1. Shapes'
  BY DEF StartPass, JInv, Shapes, Rows, Locals, Starting, ghosts
<1>2. NothingGained
  BY DEF StartPass, JInv, Shapes, Rows, Locals, NothingGained, WorksOn, Success, Runs, Dropped, Starting, ghosts
<1>3. QED BY <1>1, <1>2, QuietStep

LEMMA RequeueStuckKeeps ==
    ASSUME JInv, NEW w \in Workers, RequeueStuck(w)
    PROVE JInv'
<1>1. Shapes'
  <2>1. job' \in [Jobs -> Rows]
    BY RowChanges DEF RequeueStuck, JInv, Shapes
  <2>2. worker' \in [Workers -> Locals]
    BY DEF RequeueStuck, JInv, Shapes, Locals
  <2>3. QED BY <2>1, <2>2 DEF Shapes
<1>2. NothingGained
  BY DEF RequeueStuck, JInv, Shapes, Rows, Locals, NothingGained, WorksOn, Success, Runs, Dropped, ghosts
<1>3. QED BY <1>1, <1>2, QuietStep

LEMMA ListDueKeeps ==
    ASSUME JInv, NEW w \in Workers, ListDue(w)
    PROVE JInv'
<1>1. Shapes'
  <2>1. PICK list \in SUBSET Jobs : worker' = [worker EXCEPT ![w] = [worker[w] EXCEPT !.at = "claim", !.due = list]]
    BY DEF ListDue, Due, kSubset
  <2>2. worker' \in [Workers -> Locals]
    BY <2>1, LocalChanges DEF JInv, Shapes
  <2>3. QED BY <2>2 DEF ListDue, JInv, Shapes
<1>2. NothingGained
  BY DEF ListDue, JInv, Shapes, Rows, Locals, NothingGained, WorksOn, Success, Runs, Dropped, Due, kSubset, ghosts
<1>3. QED BY <1>1, <1>2, QuietStep

LEMMA ReadJobKeeps ==
    ASSUME JInv, NEW w \in Workers, NEW j \in Jobs, ReadJob(w, j)
    PROVE JInv'
<1>1. Shapes'
  <2>1. job[j].attempts \in Nat
    BY DEF JInv, Shapes, Rows
  <2>2. worker[w] \in Locals
    BY DEF JInv, Shapes
  <2>3. /\ [worker[w] EXCEPT !.at = "claim", !.job = {}, !.ran = worker[w].ran + 1] \in Locals
        /\ [worker[w] EXCEPT !.at = "report", !.outcome = "never"] \in Locals
        /\ [worker[w] EXCEPT !.at = "run", !.attempts = job[j].attempts] \in Locals
    <3>1. {} \in SUBSET Jobs  OBVIOUS
    <3>2. QED BY <2>1, <2>2, <3>1, LocalChanges
  <2>4. worker' \in [Workers -> Locals]
    BY <2>3 DEF ReadJob, JInv, Shapes
  <2>5. QED BY <2>4 DEF ReadJob, JInv, Shapes
<1>2. NothingGained
  BY DEF ReadJob, JInv, Shapes, Rows, Locals, NothingGained, WorksOn, Success, Runs, Dropped, ghosts
<1>3. QED BY <1>1, <1>2, QuietStep

LEMMA EndPassKeeps ==
    ASSUME JInv, NEW w \in Workers, EndPass(w)
    PROVE JInv'
<1>1. Shapes'
  BY DEF EndPass, JInv, Shapes, Rows, Locals, ghosts
<1>2. NothingGained
  BY DEF EndPass, JInv, Shapes, Rows, Locals, NothingGained, WorksOn, Success, Runs, Dropped, ghosts
<1>3. QED BY <1>1, <1>2, QuietStep

LEMMA WakeUpKeeps ==
    ASSUME JInv, NEW w \in Workers, WakeUp(w)
    PROVE JInv'
<1>1. Shapes'
  BY DEF WakeUp, JInv, Shapes, Rows, Locals, ghosts
<1>2. NothingGained
  BY DEF WakeUp, JInv, Shapes, Rows, Locals, NothingGained, WorksOn, Success, Runs, Dropped, ghosts
<1>3. QED BY <1>1, <1>2, QuietStep

LEMMA StatementFailsKeeps ==
    ASSUME JInv, NEW w \in Workers, StatementFails(w)
    PROVE JInv'
<1>1. Shapes'
  BY DEF StatementFails, JInv, Shapes, Rows, Locals, Starting
<1>2. NothingGained
  BY DEF StatementFails, JInv, Shapes, Rows, Locals, NothingGained, WorksOn, Success, Runs, Dropped, Starting
<1>3. QED BY <1>1, <1>2, QuietStep

LEMMA ImportFailsKeeps ==
    ASSUME JInv, NEW w \in Workers, NEW j \in Jobs, ImportFails(w, j)
    PROVE JInv'
<1>1. Shapes'
  BY DEF ImportFails, JInv, Shapes, Rows, Locals, Starting, ghosts
<1>2. NothingGained
  BY DEF ImportFails, JInv, Shapes, Rows, Locals, NothingGained, WorksOn, Success, Runs, Dropped, Starting, ghosts
<1>3. QED BY <1>1, <1>2, QuietStep

LEMMA CrashKeeps ==
    ASSUME JInv, NEW w \in Workers, Crash(w)
    PROVE JInv'
<1>1. Shapes'
  BY DEF Crash, JInv, Shapes, Rows, Locals, Starting
<1>2. NothingGained
  BY DEF Crash, JInv, Shapes, Rows, Locals, NothingGained, WorksOn, Success, Runs, Dropped, Starting
<1>3. QED BY <1>1, <1>2, QuietStep

LEMMA RestartKeeps ==
    ASSUME JInv, NEW w \in Workers, Restart(w)
    PROVE JInv'
<1>1. Shapes'
  BY DEF Restart, JInv, Shapes, Rows, Locals, Starting, ghosts
<1>2. NothingGained
  BY DEF Restart, JInv, Shapes, Rows, Locals, NothingGained, WorksOn, Success, Runs, Dropped, Starting, ghosts
<1>3. QED BY <1>1, <1>2, QuietStep

LEMMA DelayPassesKeeps ==
    ASSUME JInv, NEW j \in Jobs, DelayPasses(j)
    PROVE JInv'
<1>1. Shapes'
  <2>1. job' \in [Jobs -> Rows]
    BY RowChanges DEF DelayPasses, JInv, Shapes
  <2>2. worker' \in [Workers -> Locals]
    BY DEF DelayPasses, JInv, Shapes, Locals
  <2>3. QED BY <2>1, <2>2 DEF Shapes
<1>2. NothingGained
  BY DEF DelayPasses, JInv, Shapes, Rows, Locals, NothingGained, WorksOn, Success, Runs, Dropped, ghosts
<1>3. QED BY <1>1, <1>2, QuietStep

LEMMA StuckTimePassesKeeps ==
    ASSUME JInv, NEW j \in Jobs, StuckTimePasses(j)
    PROVE JInv'
<1>1. Shapes'
  <2>1. job' \in [Jobs -> Rows]
    BY RowChanges DEF StuckTimePasses, JInv, Shapes
  <2>2. worker' \in [Workers -> Locals]
    BY DEF StuckTimePasses, JInv, Shapes, Locals
  <2>3. QED BY <2>1, <2>2 DEF Shapes
<1>2. NothingGained
  BY DEF StuckTimePasses, JInv, Shapes, Rows, Locals, NothingGained, WorksOn, Success, Runs, Dropped
<1>3. QED BY <1>1, <1>2, QuietStep

LEMMA RetryFailedKeeps ==
    ASSUME JInv, RetryFailed
    PROVE JInv'
<1>1. Shapes'
  <2>1. job' \in [Jobs -> Rows]
    BY RowChanges DEF RetryFailed, JInv, Shapes
  <2>2. worker' \in [Workers -> Locals]
    BY DEF RetryFailed, JInv, Shapes, Locals
  <2>3. QED BY <2>1, <2>2 DEF Shapes
<1>2. NothingGained
  BY DEF RetryFailed, JInv, Shapes, Rows, Locals, NothingGained, WorksOn, Success, Runs, Dropped
<1>3. QED BY <1>1, <1>2, QuietStep

LEMMA PurgeKeeps ==
    ASSUME JInv, NEW j \in Jobs, Purge(j)
    PROVE JInv'
<1>1. Shapes'
  BY DEF Purge, JInv, Shapes, Rows, Locals, ghosts
<1>2. NothingGained
  BY DEF Purge, JInv, Shapes, Rows, Locals, NothingGained, WorksOn, Success, Runs, Dropped, ghosts
<1>3. QED BY <1>1, <1>2, QuietStep

\* A claim begins the work: the row was pending, so nobody was at it.
LEMMA ClaimKeeps ==
    ASSUME JInv, NEW w \in Workers, NEW j \in Jobs, Claim(w, j)
    PROVE JInv'
<1>1. Shapes'
  <2>1. job' \in [Jobs -> Rows]
    <3>1. Counted(j, job[j].attempts) \in Nat
      BY CountedIsOneAtLeast DEF JInv, Shapes, Rows
    <3>2. QED BY <3>1 DEF Claim, JInv, Shapes, Rows
  <2>2. worker' \in [Workers -> Locals]
    BY DEF Claim, JInv, Shapes, Locals
  <2>3. QED BY <2>1, <2>2 DEF Shapes
<1>2. CASE job[j].status # "pending"
  <2>1. NothingGained
    BY <1>2 DEF Claim, Counted, JInv, Shapes, Rows, Locals, NothingGained, WorksOn, Success, Runs, Dropped
  <2>2. QED BY <1>1, <2>1, QuietStep
<1>3. CASE job[j].status = "pending"
  <2>1. /\ worker' = [worker EXCEPT ![w].at = "read", ![w].due = @ \ {j}, ![w].job = {j}]
        /\ job' = [job EXCEPT ![j].status = "running", ![j].stale = FALSE, ![j].attempts = Counted(j, @)]
        /\ executed' = executed /\ overran' = overran
    BY <1>3 DEF Claim
  <2>2. /\ worker'[w].at = "read" /\ worker'[w].job = {j}
        /\ \A v \in Workers \ {w} : worker'[v] = worker[v]
    BY <2>1 DEF JInv, Shapes, Locals
  <2>3. /\ Runs(j)' /\ (Dropped(j)' => Dropped(j))
        /\ \A i \in Jobs \ {j} : job'[i] = job[i]
    BY <1>3, <2>1 DEF JInv, Shapes, Rows, Runs, Dropped
  <2>4. \A v \in Workers : j \notin overran => ~WorksOn(v, j)
    BY <1>3 DEF JInv, WorkIsClaimed, Runs
  <2>5. OneJob'
    BY <2>2 DEF JInv, OneJob
  <2>6. SuccessIsTrue'
    BY <2>1, <2>2 DEF JInv, SuccessIsTrue, Success
  <2>7. WorkIsClaimed'
    <3>1. ASSUME NEW v \in Workers, NEW i \in Jobs \ overran, WorksOn(v, i)'  PROVE Runs(i)'
      <4>1. CASE i = j  BY <4>1, <2>3
      <4>2. CASE i # j
        <5>1. WorksOn(v, i)  BY <3>1, <4>2, <2>2 DEF WorksOn
        <5>2. Runs(i)  BY <5>1 DEF JInv, WorkIsClaimed
        <5>3. QED BY <5>2, <4>2, <2>3 DEF Runs
      <4>3. QED BY <4>1, <4>2
    <3>2. QED BY <3>1, <2>1 DEF WorkIsClaimed
  <2>8. WorkIsAlone'
    <3>1. ASSUME NEW u \in Workers, NEW v \in Workers, NEW i \in Jobs \ overran, WorksOn(u, i)', WorksOn(v, i)'
          PROVE u = v
      <4>1. CASE i = j
        BY <3>1, <4>1, <2>2, <2>4 DEF WorksOn
      <4>2. CASE i # j
        <5>1. WorksOn(u, i) /\ WorksOn(v, i)  BY <3>1, <4>2, <2>2 DEF WorksOn
        <5>2. QED BY <5>1 DEF JInv, WorkIsAlone
      <4>3. QED BY <4>1, <4>2
    <3>2. QED BY <3>1, <2>1 DEF WorkIsAlone
  <2>9. DoneMeansExecuted'
    BY <2>1, <2>3 DEF JInv, DoneMeansExecuted, Dropped
  <2>10. QED BY <1>1, <2>5, <2>6, <2>7, <2>8, <2>9 DEF JInv
<1>4. QED BY <1>2, <1>3

\* Success is reported of the job that was executed: the worker has no other.
LEMMA ExecuteKeeps ==
    ASSUME JInv, NEW w \in Workers, NEW j \in Jobs, Execute(w, j)
    PROVE JInv'
<1>1. Shapes'
  <2>1. PICK outcome \in {"ok", "error"} :
            worker' = [worker EXCEPT ![w] = [worker[w] EXCEPT !.at = "report", !.outcome = outcome]]
    BY DEF Execute
  <2>2. worker' \in [Workers -> Locals]
    BY <2>1, LocalChanges DEF JInv, Shapes
  <2>3. QED BY <2>2 DEF Execute, JInv, Shapes
<1>2. /\ worker[w].at = "run" /\ j \in worker[w].job /\ worker'[w].job = worker[w].job
      /\ worker'[w].at = "report" /\ (worker'[w].outcome = "ok" => j \in executed')
      /\ \A v \in Workers \ {w} : worker'[v] = worker[v]
      /\ executed \subseteq executed' /\ overran' = overran /\ job' = job
  BY DEF Execute, JInv, Shapes, Locals
<1>3. OneJob'
  BY <1>2 DEF JInv, OneJob
<1>4. SuccessIsTrue'
  BY <1>2 DEF JInv, OneJob, SuccessIsTrue, Success
<1>5. WorkIsClaimed'
  BY <1>2 DEF JInv, WorkIsClaimed, WorksOn, Runs
<1>6. WorkIsAlone'
  BY <1>2 DEF JInv, WorkIsAlone, WorksOn
<1>7. DoneMeansExecuted'
  BY <1>2 DEF JInv, DoneMeansExecuted
<1>8. QED BY <1>1, <1>3, <1>4, <1>5, <1>6, <1>7 DEF JInv

\* A report ends the work; nobody else is at the job, unless it has overrun.
LEMMA ReportKeeps ==
    ASSUME JInv, NEW w \in Workers, NEW j \in Jobs, Report(w, j)
    PROVE JInv'
<1>1. Shapes'
  BY DEF Report, Reported, JInv, Shapes, Rows, Locals
<1>2. /\ WorksOn(w, j) /\ worker'[w].at = "claim" /\ worker'[w].job = {}
      /\ \A v \in Workers \ {w} : worker'[v] = worker[v]
      /\ executed' = executed /\ overran' = overran
      /\ \A i \in Jobs \ {j} : job'[i] = job[i]
  BY DEF Report, WorksOn, JInv, Shapes, Locals, Rows, ghosts
<1>3. Dropped(j)' => Dropped(j) \/ Success(w, j)
  BY DEF Report, Reported, Dropped, Success, JInv, Shapes, Rows, Locals
<1>4. OneJob'
  BY <1>2 DEF JInv, OneJob
<1>5. SuccessIsTrue'
  BY <1>2 DEF JInv, SuccessIsTrue, Success
<1>6. WorkIsClaimed'
  BY <1>2 DEF JInv, WorkIsClaimed, WorkIsAlone, WorksOn, Runs
<1>7. WorkIsAlone'
  BY <1>2 DEF JInv, WorkIsAlone, WorksOn
<1>8. DoneMeansExecuted'
  BY <1>2, <1>3 DEF JInv, DoneMeansExecuted, SuccessIsTrue, Dropped
<1>9. QED BY <1>1, <1>4, <1>5, <1>6, <1>7, <1>8 DEF JInv

LEMMA StutterKeeps ==
    ASSUME JInv, UNCHANGED vars
    PROVE JInv'
<1>1. Shapes' /\ NothingGained
  BY DEF vars, JInv, Shapes, NothingGained, WorksOn, Success, Runs, Dropped
<1>2. QED BY <1>1, QuietStep

LEMMA StepKeeps ==
    ASSUME JInv, [Next]_vars
    PROVE JInv'
<1>1. CASE \E j \in Jobs : Enqueue(j) \/ Announce(j) \/ SubmitFails(j) \/ RunNow(j) \/ TimePasses(j) \/ Purge(j)
  BY <1>1, EnqueueKeeps, AnnounceKeeps, SubmitFailsKeeps, RunNowKeeps, DelayPassesKeeps,
     StuckTimePassesKeeps, PurgeKeeps DEF TimePasses
<1>2. ASSUME NEW w \in Workers, Step(w)  PROVE JInv'
  <2>1. CASE StartPass(w) \/ RequeueStuck(w) \/ ListDue(w) \/ EndPass(w) \/ WakeUp(w) \/ Restart(w)
    BY <2>1, StartPassKeeps, RequeueStuckKeeps, ListDueKeeps, EndPassKeeps, WakeUpKeeps, RestartKeeps
  <2>2. CASE \E j \in Jobs : Claim(w, j) \/ ReadJob(w, j) \/ ImportFails(w, j) \/ Execute(w, j) \/ Report(w, j)
    BY <2>2, ClaimKeeps, ReadJobKeeps, ImportFailsKeeps, ExecuteKeeps, ReportKeeps
  <2>3. QED BY <1>2, <2>1, <2>2 DEF Step
<1>3. CASE \E w \in Workers : StatementFails(w) \/ Crash(w)
  BY <1>3, StatementFailsKeeps, CrashKeeps
<1>4. CASE RetryFailed
  BY <1>4, RetryFailedKeeps
<1>5. CASE UNCHANGED vars
  BY <1>5, StutterKeeps
<1>6. QED BY <1>1, <1>2, <1>3, <1>4, <1>5 DEF Next

LEMMA StartKeeps == ASSUME Init PROVE JInv
<1>1. Shapes
  BY DEF Init, Shapes, Rows, Locals, NotStored, Stored, Starting
<1>2. OneJob /\ SuccessIsTrue /\ WorkIsClaimed /\ WorkIsAlone
  BY DEF Init, OneJob, SuccessIsTrue, Success, WorkIsClaimed, WorkIsAlone, WorksOn, Starting
<1>3. DoneMeansExecuted
  BY DEF Init, DoneMeansExecuted, NotStored, Stored
<1>4. QED BY <1>1, <1>2, <1>3 DEF JInv

\* The rows and the workers' locals keep to the argument above.
THEOREM Invariance == Spec => []JInv
<1>1. Init => JInv  BY StartKeeps
<1>2. JInv /\ [Next]_vars => JInv'  BY StepKeeps
<1>3. QED BY <1>1, <1>2, PTL DEF Spec

\* run_pending: one worker runs a job, for any number of them, unless a run of it outlasts
\* JOBS_STUCK_MINUTES.
THEOREM OneWorkerAtATime == Spec => []ClaimIsExclusive
<1>1. ASSUME JInv, NEW j \in Jobs \ overran  PROVE Cardinality({w \in Workers : WorksOn(w, j)}) <= 1
  <2>1. CASE \A w \in Workers : ~WorksOn(w, j)
    <3>1. {w \in Workers : WorksOn(w, j)} = {}  BY <2>1
    <3>2. QED BY <3>1, FS_EmptySet
  <2>2. ASSUME NEW v \in Workers, WorksOn(v, j)  PROVE Cardinality({w \in Workers : WorksOn(w, j)}) <= 1
    <3>1. {w \in Workers : WorksOn(w, j)} = {v}
      BY <1>1, <2>2 DEF JInv, WorkIsAlone
    <3>2. QED BY <3>1, FS_Singleton
  <2>3. QED BY <2>1, <2>2
<1>2. JInv => ClaimIsExclusive  BY <1>1 DEF ClaimIsExclusive
<1>3. QED BY <1>2, Invariance, PTL

\* _finish: a job is done, or without its payload, only after its handler has returned, through
\* every crash, retry and late report.
THEOREM DoneIsExecuted == Spec => []DoneMeansExecuted
<1>1. JInv => DoneMeansExecuted  BY DEF JInv
<1>2. QED BY <1>1, Invariance, PTL
-----------------------------------------------------------------------------
(* Counting the tries, and heeding what is announced *)

Counts == tries \in [Jobs -> Nat]

\* A row knows no more attempts than there were tries, and neither does a worker.
RowsCounted == \A j \in Jobs : job[j].attempts <= tries[j]
CountsOn(w, j) ==
    /\ worker[w].at = "run" \/ (worker[w].at = "report" /\ worker[w].outcome = "error")
    /\ j \in worker[w].job
RunsCounted == \A w \in Workers, j \in Jobs : CountsOn(w, j) => worker[w].attempts <= tries[j]

\* A job nobody has claimed yet is as it was stored; one somebody works on was claimed.
UnclaimedIsNew == \A j \in Jobs : tries[j] = 0 => job[j] \in {NotStored, Stored}
ClaimedIsStored == \A j \in Jobs : job[j].status = "none" => tries[j] = 0
WorkIsCounted == \A w \in Workers, j \in Jobs : WorksOn(w, j) => tries[j] # 0

\* Who reports that a job can never run is right, or the job has been executed.
Hopeless(w, j) == worker[w].at = "report" /\ worker[w].outcome = "never" /\ j \in worker[w].job
HopelessIsTrue == \A w \in Workers, j \in Jobs : Hopeless(w, j) => j \in Broken \cup executed

TriesInv ==
    /\ Counts /\ RowsCounted /\ RunsCounted /\ UnclaimedIsNew /\ ClaimedIsStored /\ WorkIsCounted
    /\ HopelessIsTrue /\ GivesUpLate


TriesKept ==
    /\ job' = job /\ tries' = tries /\ executed \subseteq executed'
    /\ \A w \in Workers, j \in Jobs : CountsOn(w, j)' => CountsOn(w, j) /\ worker'[w].attempts = worker[w].attempts
    /\ \A w \in Workers, j \in Jobs : (WorksOn(w, j)' => WorksOn(w, j)) /\ (Hopeless(w, j)' => Hopeless(w, j))

LEMMA QuietTries ==
    ASSUME TriesInv, TriesKept
    PROVE TriesInv'
<1>1. Counts' /\ RowsCounted' /\ UnclaimedIsNew' /\ ClaimedIsStored'
  BY DEF TriesInv, TriesKept, Counts, RowsCounted, UnclaimedIsNew, ClaimedIsStored
<1>2. RunsCounted'
  BY DEF TriesInv, TriesKept, RunsCounted
<1>3. WorkIsCounted' /\ HopelessIsTrue' /\ GivesUpLate'
  BY DEF TriesInv, TriesKept, WorkIsCounted, HopelessIsTrue, GivesUpLate
<1>4. QED BY <1>1, <1>2, <1>3 DEF TriesInv

LEMMA AnnounceTries ==
    ASSUME JInv, TriesInv, NEW j \in Jobs, Announce(j)
    PROVE TriesInv'
<1>1. TriesKept
  BY DEF Announce, JInv, Shapes, Rows, Locals, TriesKept, CountsOn, WorksOn, Hopeless
<1>2. QED BY <1>1, QuietTries

LEMMA RunNowTries ==
    ASSUME JInv, TriesInv, NEW j \in Jobs, RunNow(j)
    PROVE TriesInv'
<1>1. TriesKept
  BY DEF RunNow, JInv, Shapes, Rows, Locals, TriesKept, CountsOn, WorksOn, Hopeless
<1>2. QED BY <1>1, QuietTries

LEMMA StartPassTries ==
    ASSUME JInv, TriesInv, NEW w \in Workers, StartPass(w)
    PROVE TriesInv'
<1>1. TriesKept
  BY DEF StartPass, JInv, Shapes, Rows, Locals, TriesKept, CountsOn, WorksOn, Hopeless, Starting, ghosts
<1>2. QED BY <1>1, QuietTries

LEMMA ListDueTries ==
    ASSUME JInv, TriesInv, NEW w \in Workers, ListDue(w)
    PROVE TriesInv'
<1>1. TriesKept
  BY DEF ListDue, JInv, Shapes, Rows, Locals, TriesKept, CountsOn, WorksOn, Hopeless, Due, kSubset, ghosts
<1>2. QED BY <1>1, QuietTries

LEMMA EndPassTries ==
    ASSUME JInv, TriesInv, NEW w \in Workers, EndPass(w)
    PROVE TriesInv'
<1>1. TriesKept
  BY DEF EndPass, JInv, Shapes, Rows, Locals, TriesKept, CountsOn, WorksOn, Hopeless, ghosts
<1>2. QED BY <1>1, QuietTries

LEMMA WakeUpTries ==
    ASSUME JInv, TriesInv, NEW w \in Workers, WakeUp(w)
    PROVE TriesInv'
<1>1. TriesKept
  BY DEF WakeUp, JInv, Shapes, Rows, Locals, TriesKept, CountsOn, WorksOn, Hopeless, ghosts
<1>2. QED BY <1>1, QuietTries

LEMMA StatementFailsTries ==
    ASSUME JInv, TriesInv, NEW w \in Workers, StatementFails(w)
    PROVE TriesInv'
<1>1. TriesKept
  BY DEF StatementFails, JInv, Shapes, Rows, Locals, TriesKept, CountsOn, WorksOn, Hopeless, Starting
<1>2. QED BY <1>1, QuietTries

LEMMA ImportFailsTries ==
    ASSUME JInv, TriesInv, NEW w \in Workers, NEW j \in Jobs, ImportFails(w, j)
    PROVE TriesInv'
<1>1. TriesKept
  BY DEF ImportFails, JInv, Shapes, Rows, Locals, TriesKept, CountsOn, WorksOn, Hopeless, Starting, ghosts
<1>2. QED BY <1>1, QuietTries

LEMMA CrashTries ==
    ASSUME JInv, TriesInv, NEW w \in Workers, Crash(w)
    PROVE TriesInv'
<1>1. TriesKept
  BY DEF Crash, JInv, Shapes, Rows, Locals, TriesKept, CountsOn, WorksOn, Hopeless, Starting
<1>2. QED BY <1>1, QuietTries

LEMMA RestartTries ==
    ASSUME JInv, TriesInv, NEW w \in Workers, Restart(w)
    PROVE TriesInv'
<1>1. TriesKept
  BY DEF Restart, JInv, Shapes, Rows, Locals, TriesKept, CountsOn, WorksOn, Hopeless, Starting, ghosts
<1>2. QED BY <1>1, QuietTries

\* A new row has no attempts, and no job was given up in it.
LEMMA EnqueueTries ==
    ASSUME JInv, TriesInv, NEW j \in Jobs, Enqueue(j)
    PROVE TriesInv'
<1>1. Counts'
  BY DEF Enqueue, JInv, Shapes, Rows, Locals, TriesInv, Counts, NotStored, Stored, ghosts
<1>2. RowsCounted'
  BY DEF Enqueue, JInv, Shapes, Rows, Locals, TriesInv, Counts, RowsCounted, NotStored, Stored, ghosts
<1>3. RunsCounted'
  BY DEF Enqueue, JInv, Shapes, Rows, Locals, TriesInv, Counts, RunsCounted, CountsOn, NotStored, Stored,
     ghosts
<1>4. UnclaimedIsNew'
  BY DEF Enqueue, JInv, Shapes, Rows, Locals, TriesInv, Counts, UnclaimedIsNew, NotStored, Stored, ghosts
<1>5. ClaimedIsStored'
  BY DEF Enqueue, JInv, Shapes, Rows, Locals, TriesInv, Counts, ClaimedIsStored, NotStored, Stored, ghosts
<1>6. WorkIsCounted'
  BY DEF Enqueue, JInv, Shapes, Rows, Locals, TriesInv, Counts, WorkIsCounted, WorksOn, NotStored, Stored,
     ghosts
<1>7. HopelessIsTrue'
  BY DEF Enqueue, JInv, Shapes, Rows, Locals, TriesInv, Counts, HopelessIsTrue, Hopeless, NotStored, Stored,
     ghosts
<1>8. GivesUpLate'
  BY DEF Enqueue, JInv, Shapes, Rows, Locals, TriesInv, Counts, GivesUpLate, NotStored, Stored, ghosts
<1>9. QED BY <1>1, <1>2, <1>3, <1>4, <1>5, <1>6, <1>7, <1>8 DEF TriesInv

LEMMA SubmitFailsTries ==
    ASSUME JInv, TriesInv, NEW j \in Jobs, SubmitFails(j)
    PROVE TriesInv'
<1>1. Counts'
  BY DEF SubmitFails, JInv, Shapes, Rows, Locals, TriesInv, Counts, NotStored, Stored
<1>2. RowsCounted'
  BY DEF SubmitFails, JInv, Shapes, Rows, Locals, TriesInv, Counts, RowsCounted, NotStored, Stored
<1>3. RunsCounted'
  BY DEF SubmitFails, JInv, Shapes, Rows, Locals, TriesInv, Counts, RunsCounted, CountsOn, NotStored, Stored
<1>4. UnclaimedIsNew'
  BY DEF SubmitFails, JInv, Shapes, Rows, Locals, TriesInv, Counts, UnclaimedIsNew, NotStored, Stored
<1>5. ClaimedIsStored'
  BY DEF SubmitFails, JInv, Shapes, Rows, Locals, TriesInv, Counts, ClaimedIsStored, NotStored, Stored
<1>6. WorkIsCounted'
  BY DEF SubmitFails, JInv, Shapes, Rows, Locals, TriesInv, Counts, WorkIsCounted, WorksOn, NotStored, Stored
<1>7. HopelessIsTrue'
  BY DEF SubmitFails, JInv, Shapes, Rows, Locals, TriesInv, Counts, HopelessIsTrue, Hopeless, NotStored,
     Stored
<1>8. GivesUpLate'
  BY DEF SubmitFails, JInv, Shapes, Rows, Locals, TriesInv, Counts, GivesUpLate, NotStored, Stored
<1>9. QED BY <1>1, <1>2, <1>3, <1>4, <1>5, <1>6, <1>7, <1>8 DEF TriesInv

LEMMA RequeueStuckTries ==
    ASSUME JInv, TriesInv, NEW w \in Workers, RequeueStuck(w)
    PROVE TriesInv'
<1>1. Counts'
  BY DEF RequeueStuck, JInv, Shapes, Rows, Locals, TriesInv, Counts, ghosts
<1>2. RowsCounted'
  BY DEF RequeueStuck, JInv, Shapes, Rows, Locals, TriesInv, Counts, RowsCounted, ghosts
<1>3. RunsCounted'
  BY DEF RequeueStuck, JInv, Shapes, Rows, Locals, TriesInv, Counts, RunsCounted, CountsOn, ghosts
<1>4. UnclaimedIsNew'
  BY DEF RequeueStuck, JInv, Shapes, Rows, Locals, TriesInv, Counts, UnclaimedIsNew, ghosts, NotStored,
     Stored
<1>5. ClaimedIsStored'
  BY DEF RequeueStuck, JInv, Shapes, Rows, Locals, TriesInv, Counts, ClaimedIsStored, ghosts, NotStored,
     Stored
<1>6. WorkIsCounted'
  BY DEF RequeueStuck, JInv, Shapes, Rows, Locals, TriesInv, Counts, WorkIsCounted, WorksOn, ghosts
<1>7. HopelessIsTrue'
  BY DEF RequeueStuck, JInv, Shapes, Rows, Locals, TriesInv, Counts, HopelessIsTrue, Hopeless, ghosts
<1>8. GivesUpLate'
  BY DEF RequeueStuck, JInv, Shapes, Rows, Locals, TriesInv, Counts, GivesUpLate, ghosts
<1>9. QED BY <1>1, <1>2, <1>3, <1>4, <1>5, <1>6, <1>7, <1>8 DEF TriesInv

\* A claim counts: nobody reports on the job yet.
LEMMA ClaimTries ==
    ASSUME JInv, TriesInv, NEW w \in Workers, NEW j \in Jobs, Claim(w, j)
    PROVE TriesInv'
<1>1. Counts'
  BY DEF Claim, Counted, JInv, Shapes, TriesInv, Counts
<1>2. RowsCounted'
  BY DEF Claim, Counted, JInv, Shapes, Rows, TriesInv, Counts, RowsCounted
<1>3. RunsCounted'
  BY DEF Claim, Counted, JInv, Shapes, Locals, TriesInv, Counts, RunsCounted, CountsOn
<1>4. UnclaimedIsNew' /\ ClaimedIsStored'
  <2>1. CASE job[j].status # "pending"
    BY <2>1 DEF Claim, TriesInv, UnclaimedIsNew, ClaimedIsStored, NotStored, Stored
  <2>2. CASE job[j].status = "pending"
    <3>1. tries'[j] # 0
      BY <2>2, CountedIsOneAtLeast DEF Claim, TriesInv, Counts
    <3>2. job'[j].status = "running" /\ \A i \in Jobs \ {j} : job'[i] = job[i] /\ tries'[i] = tries[i]
      BY <2>2 DEF Claim, JInv, Shapes, Rows, TriesInv, Counts
    <3>3. QED BY <3>1, <3>2 DEF TriesInv, UnclaimedIsNew, ClaimedIsStored, NotStored, Stored
  <2>3. QED BY <2>1, <2>2
<1>5. worker'[w].at \in {"claim", "read"} /\ \A v \in Workers \ {w} : worker'[v] = worker[v]
  BY DEF Claim, Counted, JInv, Shapes, Locals
<1>6. WorkIsCounted'
  <2>1. ASSUME NEW v \in Workers, NEW i \in Jobs, WorksOn(v, i)'  PROVE tries'[i] # 0
    <3>1. CASE v # w
      BY <1>5, <2>1, <3>1 DEF Claim, Counted, TriesInv, Counts, WorkIsCounted, WorksOn
    <3>2. CASE v = w
      <4>1. job[j].status = "pending" /\ i = j
        BY <2>1, <3>2 DEF Claim, Counted, JInv, Shapes, Locals, WorksOn
      <4>2. QED BY <4>1 DEF Claim, Counted, TriesInv, Counts
    <3>3. QED BY <3>1, <3>2
  <2>2. QED BY <2>1 DEF WorkIsCounted
<1>7. HopelessIsTrue'
  BY <1>5 DEF Claim, Counted, TriesInv, HopelessIsTrue, Hopeless
<1>8. GivesUpLate'
  BY DEF Claim, Counted, JInv, Shapes, Rows, TriesInv, Counts, GivesUpLate
<1>9. QED BY <1>1, <1>2, <1>3, <1>4, <1>6, <1>7, <1>8 DEF TriesInv

\* A worker learns of the tries from the row, and gives a job up only for what it read there.
LEMMA ReadJobTries ==
    ASSUME JInv, TriesInv, NEW w \in Workers, NEW j \in Jobs, ReadJob(w, j)
    PROVE TriesInv'
<1>1. /\ job' = job /\ tries' = tries /\ executed' = executed
      /\ \A v \in Workers \ {w} : worker'[v] = worker[v]
  BY DEF ReadJob, JInv, Shapes, ghosts
<1>2. WorksOn(w, j) /\ \A i \in worker[w].job : i = j
  BY DEF ReadJob, WorksOn, JInv, OneJob
<1>3. \/ worker'[w].at = "claim" /\ worker'[w].job = {}
      \/ worker'[w].at = "report" /\ worker'[w].outcome = "never" /\ worker'[w].job = worker[w].job
         /\ (j \in Broken \/ ~job[j].payload)
      \/ worker'[w].at = "run" /\ worker'[w].attempts = job[j].attempts /\ worker'[w].job = worker[w].job
  BY DEF ReadJob, JInv, Shapes, Locals
<1>4. Counts' /\ RowsCounted' /\ UnclaimedIsNew' /\ ClaimedIsStored'
  BY <1>1 DEF TriesInv, Counts, RowsCounted, UnclaimedIsNew, ClaimedIsStored
<1>5. RunsCounted'
  BY <1>1, <1>2, <1>3 DEF TriesInv, RowsCounted, RunsCounted, CountsOn
<1>6. WorkIsCounted'
  BY <1>1, <1>2, <1>3 DEF TriesInv, WorkIsCounted, WorksOn
<1>7. HopelessIsTrue'
  <2>1. job[j].status # "none"
    BY <1>2 DEF TriesInv, WorkIsCounted, ClaimedIsStored
  <2>2. ~job[j].payload => j \in executed
    BY <2>1 DEF JInv, DoneMeansExecuted
  <2>3. QED BY <1>1, <1>2, <1>3, <2>2 DEF TriesInv, HopelessIsTrue, Hopeless
<1>8. GivesUpLate'
  BY <1>1 DEF TriesInv, GivesUpLate
<1>9. QED BY <1>4, <1>5, <1>6, <1>7, <1>8 DEF TriesInv

LEMMA ExecuteTries ==
    ASSUME JInv, TriesInv, NEW w \in Workers, NEW j \in Jobs, Execute(w, j)
    PROVE TriesInv'
<1>1. Counts'
  BY DEF Execute, JInv, Shapes, Rows, Locals, TriesInv, Counts
<1>2. RowsCounted'
  BY DEF Execute, JInv, Shapes, Rows, Locals, TriesInv, Counts, RowsCounted
<1>3. RunsCounted'
  BY DEF Execute, JInv, Shapes, Rows, Locals, TriesInv, Counts, RunsCounted, CountsOn
<1>4. UnclaimedIsNew'
  BY DEF Execute, JInv, Shapes, Rows, Locals, TriesInv, Counts, UnclaimedIsNew, NotStored, Stored
<1>5. ClaimedIsStored'
  BY DEF Execute, JInv, Shapes, Rows, Locals, TriesInv, Counts, ClaimedIsStored, NotStored, Stored
<1>6. WorkIsCounted'
  BY DEF Execute, JInv, Shapes, Rows, Locals, TriesInv, Counts, WorkIsCounted, WorksOn
<1>7. HopelessIsTrue'
  BY DEF Execute, JInv, Shapes, Rows, Locals, TriesInv, Counts, HopelessIsTrue, Hopeless
<1>8. GivesUpLate'
  BY DEF Execute, JInv, Shapes, Rows, Locals, TriesInv, Counts, GivesUpLate
<1>9. QED BY <1>1, <1>2, <1>3, <1>4, <1>5, <1>6, <1>7, <1>8 DEF TriesInv

\* A worker gives a job up after the attempts it read, which are no more than the tries.
LEMMA ReportTries ==
    ASSUME JInv, TriesInv, NEW w \in Workers, NEW j \in Jobs, Report(w, j)
    PROVE TriesInv'
<1>1. Counts'
  BY DEF Report, JInv, Shapes, Rows, Locals, TriesInv, Counts, Reported, ghosts
<1>2. RowsCounted'
  BY DEF Report, JInv, Shapes, Rows, Locals, TriesInv, Counts, RowsCounted, Reported, ghosts
<1>3. RunsCounted'
  BY DEF Report, JInv, Shapes, Rows, Locals, TriesInv, Counts, RunsCounted, CountsOn, Reported, ghosts
<1>4. UnclaimedIsNew'
  BY DEF Report, JInv, Shapes, Rows, Locals, TriesInv, Counts, UnclaimedIsNew, Reported, ghosts, NotStored,
     Stored
<1>5. ClaimedIsStored'
  BY DEF Report, JInv, Shapes, Rows, Locals, TriesInv, Counts, ClaimedIsStored, Reported, ghosts, NotStored,
     Stored
<1>6. WorkIsCounted'
  BY DEF Report, JInv, Shapes, Rows, Locals, TriesInv, Counts, WorkIsCounted, WorksOn, Reported, ghosts
<1>7. HopelessIsTrue'
  BY DEF Report, JInv, Shapes, Rows, Locals, TriesInv, Counts, HopelessIsTrue, Hopeless, Reported, ghosts
<1>8. GivesUpLate'
  BY DEF Report, JInv, Shapes, Rows, Locals, TriesInv, Counts, GivesUpLate, Reported, ghosts
<1>9. QED BY <1>1, <1>2, <1>3, <1>4, <1>5, <1>6, <1>7, <1>8 DEF TriesInv

LEMMA DelayPassesTries ==
    ASSUME JInv, TriesInv, NEW j \in Jobs, DelayPasses(j)
    PROVE TriesInv'
<1>1. Counts'
  BY DEF DelayPasses, JInv, Shapes, Rows, Locals, TriesInv, Counts, ghosts
<1>2. RowsCounted'
  BY DEF DelayPasses, JInv, Shapes, Rows, Locals, TriesInv, Counts, RowsCounted, ghosts
<1>3. RunsCounted'
  BY DEF DelayPasses, JInv, Shapes, Rows, Locals, TriesInv, Counts, RunsCounted, CountsOn, ghosts
<1>4. UnclaimedIsNew'
  BY DEF DelayPasses, JInv, Shapes, Rows, Locals, TriesInv, Counts, UnclaimedIsNew, ghosts, NotStored, Stored
<1>5. ClaimedIsStored'
  BY DEF DelayPasses, JInv, Shapes, Rows, Locals, TriesInv, Counts, ClaimedIsStored, ghosts, NotStored,
     Stored
<1>6. WorkIsCounted'
  BY DEF DelayPasses, JInv, Shapes, Rows, Locals, TriesInv, Counts, WorkIsCounted, WorksOn, ghosts
<1>7. HopelessIsTrue'
  BY DEF DelayPasses, JInv, Shapes, Rows, Locals, TriesInv, Counts, HopelessIsTrue, Hopeless, ghosts
<1>8. GivesUpLate'
  BY DEF DelayPasses, JInv, Shapes, Rows, Locals, TriesInv, Counts, GivesUpLate, ghosts
<1>9. QED BY <1>1, <1>2, <1>3, <1>4, <1>5, <1>6, <1>7, <1>8 DEF TriesInv

LEMMA StuckTimePassesTries ==
    ASSUME JInv, TriesInv, NEW j \in Jobs, StuckTimePasses(j)
    PROVE TriesInv'
<1>1. Counts'
  BY DEF StuckTimePasses, JInv, Shapes, Rows, Locals, TriesInv, Counts
<1>2. RowsCounted'
  BY DEF StuckTimePasses, JInv, Shapes, Rows, Locals, TriesInv, Counts, RowsCounted
<1>3. RunsCounted'
  BY DEF StuckTimePasses, JInv, Shapes, Rows, Locals, TriesInv, Counts, RunsCounted, CountsOn
<1>4. UnclaimedIsNew'
  BY DEF StuckTimePasses, JInv, Shapes, Rows, Locals, TriesInv, Counts, UnclaimedIsNew, NotStored, Stored
<1>5. ClaimedIsStored'
  BY DEF StuckTimePasses, JInv, Shapes, Rows, Locals, TriesInv, Counts, ClaimedIsStored, NotStored, Stored
<1>6. WorkIsCounted'
  BY DEF StuckTimePasses, JInv, Shapes, Rows, Locals, TriesInv, Counts, WorkIsCounted, WorksOn
<1>7. HopelessIsTrue'
  BY DEF StuckTimePasses, JInv, Shapes, Rows, Locals, TriesInv, Counts, HopelessIsTrue, Hopeless
<1>8. GivesUpLate'
  BY DEF StuckTimePasses, JInv, Shapes, Rows, Locals, TriesInv, Counts, GivesUpLate
<1>9. QED BY <1>1, <1>2, <1>3, <1>4, <1>5, <1>6, <1>7, <1>8 DEF TriesInv

LEMMA RetriedRows ==
    ASSUME Shapes, RetryFailed
    PROVE  /\ worker' = worker /\ tries' = tries /\ executed' = executed
           /\ \A j \in Jobs : \/ job'[j] = job[j]
                              \/ job[j].status = "failed" /\ job'[j].status = "pending" /\ job'[j].attempts = 0
<1>1. worker' = worker /\ tries' = tries /\ executed' = executed
  BY Zenon DEF RetryFailed
<1>2. ASSUME NEW j \in Jobs, job'[j] # job[j]
      PROVE job[j].status = "failed" /\ job'[j].status = "pending" /\ job'[j].attempts = 0
  <2>1. job[j].status = "failed" /\ job'[j] = [job[j] EXCEPT !.status = "pending", !.attempts = 0, !.due = TRUE]
    BY <1>2, Zenon DEF RetryFailed
  <2>2. QED BY <2>1 DEF Shapes, Rows
<1>3. QED BY <1>1, <1>2

\* The operator's command starts the count of the row again, never that of the tries.
LEMMA RetryFailedTries ==
    ASSUME JInv, TriesInv, RetryFailed
    PROVE TriesInv'
<1>1. /\ worker' = worker /\ tries' = tries /\ executed' = executed
      /\ \A j \in Jobs : \/ job'[j] = job[j]
                         \/ job[j].status = "failed" /\ job'[j].status = "pending" /\ job'[j].attempts = 0
  BY RetriedRows DEF JInv
<1>2. Counts' /\ RunsCounted' /\ WorkIsCounted' /\ HopelessIsTrue'
  BY <1>1 DEF TriesInv, Counts, RunsCounted, CountsOn, WorkIsCounted, WorksOn, HopelessIsTrue, Hopeless
<1>3. RowsCounted'
  BY <1>1 DEF TriesInv, Counts, RowsCounted
<1>4. UnclaimedIsNew' /\ ClaimedIsStored'
  BY <1>1 DEF TriesInv, UnclaimedIsNew, ClaimedIsStored, NotStored, Stored
<1>5. GivesUpLate'
  BY <1>1 DEF TriesInv, GivesUpLate
<1>6. QED BY <1>2, <1>3, <1>4, <1>5 DEF TriesInv

LEMMA PurgeTries ==
    ASSUME JInv, TriesInv, NEW j \in Jobs, Purge(j)
    PROVE TriesInv'
<1>1. Counts'
  BY DEF Purge, JInv, Shapes, Rows, Locals, TriesInv, Counts, ghosts
<1>2. RowsCounted'
  BY DEF Purge, JInv, Shapes, Rows, Locals, TriesInv, Counts, RowsCounted, ghosts
<1>3. RunsCounted'
  BY DEF Purge, JInv, Shapes, Rows, Locals, TriesInv, Counts, RunsCounted, CountsOn, ghosts
<1>4. UnclaimedIsNew'
  BY DEF Purge, JInv, Shapes, Rows, Locals, TriesInv, Counts, UnclaimedIsNew, ghosts, NotStored, Stored
<1>5. ClaimedIsStored'
  BY DEF Purge, JInv, Shapes, Rows, Locals, TriesInv, Counts, ClaimedIsStored, ghosts, NotStored, Stored
<1>6. WorkIsCounted'
  BY DEF Purge, JInv, Shapes, Rows, Locals, TriesInv, Counts, WorkIsCounted, WorksOn, ghosts
<1>7. HopelessIsTrue'
  BY DEF Purge, JInv, Shapes, Rows, Locals, TriesInv, Counts, HopelessIsTrue, Hopeless, ghosts
<1>8. GivesUpLate'
  BY DEF Purge, JInv, Shapes, Rows, Locals, TriesInv, Counts, GivesUpLate, ghosts
<1>9. QED BY <1>1, <1>2, <1>3, <1>4, <1>5, <1>6, <1>7, <1>8 DEF TriesInv

LEMMA StutterTries ==
    ASSUME TriesInv, UNCHANGED vars
    PROVE TriesInv'
<1>1. TriesKept
  BY DEF vars, TriesKept, CountsOn, WorksOn, Hopeless
<1>2. QED BY <1>1, QuietTries

LEMMA StepTries ==
    ASSUME JInv, TriesInv, [Next]_vars
    PROVE TriesInv'
<1>1. CASE \E j \in Jobs : Enqueue(j) \/ Announce(j) \/ SubmitFails(j) \/ RunNow(j) \/ TimePasses(j) \/ Purge(j)
  BY <1>1, EnqueueTries, AnnounceTries, SubmitFailsTries, RunNowTries, DelayPassesTries,
     StuckTimePassesTries, PurgeTries DEF TimePasses
<1>2. ASSUME NEW w \in Workers, Step(w)  PROVE TriesInv'
  <2>1. CASE StartPass(w) \/ RequeueStuck(w) \/ ListDue(w) \/ EndPass(w) \/ WakeUp(w) \/ Restart(w)
    BY <2>1, StartPassTries, RequeueStuckTries, ListDueTries, EndPassTries, WakeUpTries, RestartTries
  <2>2. CASE \E j \in Jobs : Claim(w, j) \/ ReadJob(w, j) \/ ImportFails(w, j) \/ Execute(w, j) \/ Report(w, j)
    BY <2>2, ClaimTries, ReadJobTries, ImportFailsTries, ExecuteTries, ReportTries
  <2>3. QED BY <1>2, <2>1, <2>2 DEF Step
<1>3. CASE \E w \in Workers : StatementFails(w) \/ Crash(w)
  BY <1>3, StatementFailsTries, CrashTries
<1>4. CASE RetryFailed
  BY <1>4, RetryFailedTries
<1>5. CASE UNCHANGED vars
  BY <1>5, StutterTries
<1>6. QED BY <1>1, <1>2, <1>3, <1>4, <1>5 DEF Next

LEMMA StartTries == ASSUME Init PROVE TriesInv
  BY DEF Init, TriesInv, Counts, RowsCounted, RunsCounted, CountsOn, UnclaimedIsNew, ClaimedIsStored,
     WorkIsCounted, WorksOn, HopelessIsTrue, Hopeless, GivesUpLate, NotStored, Stored, Starting

\* _run_job: whatever the operator retries and however late a worker reports, a job is given up
\* only after max_attempts tries, or because it can never run or has been executed.
THEOREM GivenUpLate == Spec => []GivesUpLate
<1>1. Init => TriesInv  BY StartTries
<1>2. JInv /\ TriesInv /\ [Next]_vars => TriesInv'  BY StepTries
<1>3. TriesInv => GivesUpLate  BY DEF TriesInv
<1>4. QED BY <1>1, <1>2, <1>3, Invariance, PTL DEF Spec

\* Only what is stored is announced; at any time finitely many jobs are stored.
StoredJobs == {j \in Jobs : job[j] # NotStored}
OnlyStored == hooks \cup announced \subseteq StoredJobs
FewStored == IsFiniteSet(StoredJobs)
ListsAreFinite == \A w \in Workers : IsFiniteSet(worker[w].due)

\* What a pass has done and has left; a full batch starts the next pass at once.
Busy(w) == worker[w].at \in {"read", "run", "report"}
InPass(w) == worker[w].at = "claim" \/ Busy(w)
Tally(w) == Cardinality(worker[w].due) + worker[w].ran + IF Busy(w) THEN 1 ELSE 0
Looks(w) == worker[w].at \in {"start", "recover", "list", "backoff", "down"}

\* The worker of the process that announced job j will come to look for it.
Heeds(w, j) ==
    \/ wake[w] \/ worker[w].lost \/ Looks(w)
    \/ InPass(w) /\ (j \in worker[w].due \/ Tally(w) >= Batch)
New(j) == job[j] = Stored /\ tries[j] = 0 /\ j \in announced
NewsIsHeeded == \A j \in Jobs : New(j) => Heeds(home[j], j)

Signals == wake \in [Workers -> BOOLEAN] /\ home \in [Jobs -> Workers]
WakeInv == Signals /\ OnlyStored /\ FewStored /\ ListsAreFinite /\ NewsIsHeeded


WakeKept ==
    /\ Signals' /\ home' = home /\ announced' = announced /\ hooks' \subseteq hooks
    /\ StoredJobs' = StoredJobs
    /\ \A w \in Workers : IsFiniteSet(worker'[w].due)
    /\ \A j \in Jobs : tries'[j] = 0 => tries[j] = 0
    /\ \A w \in Workers, j \in Jobs : Heeds(w, j) /\ New(j)' => Heeds(w, j)'

LEMMA QuietWake ==
    ASSUME TriesInv, WakeInv, WakeKept
    PROVE WakeInv'
<1>1. Signals' /\ OnlyStored' /\ FewStored' /\ ListsAreFinite'
  BY DEF WakeInv, WakeKept, OnlyStored, FewStored, ListsAreFinite
<1>2. ASSUME NEW j \in Jobs, New(j)'  PROVE Heeds(home[j], j)'
  <2>1. tries[j] = 0 /\ j \in announced
    BY <1>2 DEF New, WakeKept
  <2>2. job[j] # NotStored
    BY <2>1 DEF WakeInv, OnlyStored, StoredJobs
  <2>3. New(j)
    BY <2>1, <2>2 DEF New, TriesInv, UnclaimedIsNew
  <2>4. home[j] \in Workers /\ Heeds(home[j], j)
    BY <2>3 DEF WakeInv, Signals, NewsIsHeeded
  <2>5. QED BY <1>2, <2>4 DEF WakeKept
<1>3. NewsIsHeeded'
  BY <1>2 DEF NewsIsHeeded, WakeKept, Heeds, Looks, InPass, Busy, Tally
<1>4. QED BY <1>1, <1>3 DEF WakeInv

\* A row that is stored anew is not announced yet.
LEMMA AddedRow ==
    ASSUME TriesInv, WakeInv, Signals', NEW j \in Jobs, job[j] = NotStored,
           \A i \in Jobs \ {j} : job'[i] = job[i], job'[j] \in {NotStored, Stored},
           worker' = worker, wake' = wake, home' = home, announced' = announced, tries' = tries,
           hooks' = hooks \/ (job'[j] = Stored /\ hooks' = hooks \cup {j})
    PROVE WakeInv'
<1>1. j \notin announced
  BY DEF WakeInv, OnlyStored, StoredJobs
<1>2. NotStored # Stored
  BY DEF NotStored, Stored
<1>3. StoredJobs \subseteq StoredJobs' /\ StoredJobs' \subseteq StoredJobs \cup {j} /\ (job'[j] = Stored => j \in StoredJobs')
  BY <1>2 DEF StoredJobs
<1>4. OnlyStored'
  BY <1>3 DEF WakeInv, OnlyStored
<1>5. FewStored'
  BY <1>3, FS_AddElement, FS_Subset DEF WakeInv, FewStored
<1>6. ListsAreFinite'
  BY DEF WakeInv, ListsAreFinite
<1>7. NewsIsHeeded'
  BY <1>1 DEF WakeInv, NewsIsHeeded, New, Heeds, Looks, InPass, Busy, Tally
<1>8. QED BY <1>4, <1>5, <1>6, <1>7 DEF WakeInv

LEMMA EnqueueWake ==
    ASSUME JInv, TriesInv, WakeInv, NEW j \in Jobs, Enqueue(j)
    PROVE WakeInv'
<1>1. Signals'
  BY DEF Enqueue, WakeInv, Signals, ghosts
<1>2. job'[j] = Stored /\ \A i \in Jobs \ {j} : job'[i] = job[i]
  BY DEF Enqueue, JInv, Shapes
<1>3. QED BY <1>1, <1>2, AddedRow DEF Enqueue, ghosts

LEMMA SubmitFailsWake ==
    ASSUME JInv, TriesInv, WakeInv, NEW j \in Jobs, SubmitFails(j)
    PROVE WakeInv'
<1>1. Signals'
  BY DEF SubmitFails, WakeInv, Signals
<1>2. job'[j] \in {NotStored, Stored} /\ \A i \in Jobs \ {j} : job'[i] = job[i]
  BY DEF SubmitFails, JInv, Shapes
<1>3. QED BY <1>1, <1>2, AddedRow DEF SubmitFails

\* The hook sets the event, and until the worker clears it nothing is missed.
LEMMA AnnounceWake ==
    ASSUME JInv, TriesInv, WakeInv, NEW j \in Jobs, Announce(j)
    PROVE WakeInv'
<1>1. home[j] \in Workers /\ wake' = [wake EXCEPT ![home[j]] = TRUE] /\ wake'[home[j]]
  BY DEF Announce, WakeInv, Signals
<1>2. Signals'
  BY <1>1 DEF Announce, WakeInv, Signals
<1>3. OnlyStored' /\ FewStored' /\ ListsAreFinite'
  BY DEF Announce, WakeInv, OnlyStored, FewStored, StoredJobs, ListsAreFinite
<1>4. ASSUME NEW i \in Jobs, New(i)'  PROVE Heeds(home[i], i)'
  <2>1. CASE home[i] = home[j]
    BY <1>1, <2>1 DEF Announce, Heeds
  <2>2. CASE home[i] # home[j]
    <3>1. New(i) /\ home[i] \in Workers
      BY <1>4, <2>2 DEF Announce, New, WakeInv, Signals
    <3>2. wake'[home[i]] = wake[home[i]]
      BY <1>1, <2>2, <3>1 DEF WakeInv, Signals
    <3>3. QED BY <3>1, <3>2 DEF Announce, WakeInv, NewsIsHeeded, Heeds, Looks, InPass, Busy, Tally
  <2>3. QED BY <2>1, <2>2
<1>5. NewsIsHeeded'
  BY <1>4 DEF NewsIsHeeded, Announce, Heeds, Looks, InPass, Busy, Tally
<1>6. QED BY <1>2, <1>3, <1>5 DEF WakeInv

LEMMA RunNowWake ==
    ASSUME JInv, TriesInv, WakeInv, NEW j \in Jobs, RunNow(j)
    PROVE WakeInv'
<1>1. UNCHANGED <<worker, wake, hooks, home, announced, tries>>
  BY DEF RunNow
<1>2. StoredJobs' = StoredJobs
  BY DEF RunNow, JInv, Shapes, Rows, StoredJobs, NotStored
<1>3. QED BY <1>1, <1>2, QuietWake DEF WakeKept, WakeInv, Signals, ListsAreFinite, Heeds, Looks, InPass, Busy, Tally

\* The event is cleared before the table is looked at.
LEMMA StartPassWake ==
    ASSUME JInv, TriesInv, WakeInv, NEW w \in Workers, StartPass(w)
    PROVE WakeInv'
<1>1. Signals' /\ home' = home /\ announced' = announced /\ hooks' \subseteq hooks
  BY DEF StartPass, WakeInv, Signals, ghosts
<1>2. StoredJobs' = StoredJobs
  BY DEF StartPass, JInv, Shapes, Rows, StoredJobs, NotStored
<1>3. (\A v \in Workers : IsFiniteSet(worker'[v].due)) /\ \A i \in Jobs : tries'[i] = 0 => tries[i] = 0
  BY FS_EmptySet DEF StartPass, JInv, Shapes, Locals, WakeInv, ListsAreFinite, Starting, ghosts
<1>4. ASSUME NEW v \in Workers, NEW i \in Jobs, Heeds(v, i), New(i)'  PROVE Heeds(v, i)'
  BY <1>4 DEF StartPass, JInv, Shapes, Locals, WakeInv, Signals, Heeds, Looks, InPass, Busy, Tally, Starting,
     ghosts
<1>5. QED BY <1>1, <1>2, <1>3, <1>4, QuietWake DEF WakeKept

LEMMA RequeueStuckWake ==
    ASSUME JInv, TriesInv, WakeInv, NEW w \in Workers, RequeueStuck(w)
    PROVE WakeInv'
<1>1. Signals' /\ home' = home /\ announced' = announced /\ hooks' \subseteq hooks
  BY DEF RequeueStuck, WakeInv, Signals, ghosts
<1>2. StoredJobs' = StoredJobs
  BY DEF RequeueStuck, JInv, Shapes, Rows, StoredJobs, NotStored
<1>3. (\A v \in Workers : IsFiniteSet(worker'[v].due)) /\ \A i \in Jobs : tries'[i] = 0 => tries[i] = 0
  BY FS_EmptySet DEF RequeueStuck, JInv, Shapes, Locals, WakeInv, ListsAreFinite, ghosts
<1>4. ASSUME NEW v \in Workers, NEW i \in Jobs, Heeds(v, i), New(i)'  PROVE Heeds(v, i)'
  BY <1>4 DEF RequeueStuck, JInv, Shapes, Locals, Heeds, Looks, InPass, Busy, Tally, ghosts
<1>5. QED BY <1>1, <1>2, <1>3, <1>4, QuietWake DEF WakeKept

\* Every new job is listed, or the list is full.
LEMMA ListDueWake ==
    ASSUME JInv, TriesInv, WakeInv, NEW w \in Workers, ListDue(w)
    PROVE WakeInv'
<1>1. Signals' /\ home' = home /\ announced' = announced /\ hooks' \subseteq hooks
  BY DEF ListDue, WakeInv, Signals, ghosts
<1>2. StoredJobs' = StoredJobs
  BY DEF ListDue, JInv, Shapes, Rows, StoredJobs, NotStored, Due
<1>3. (\A v \in Workers : IsFiniteSet(worker'[v].due)) /\ \A i \in Jobs : tries'[i] = 0 => tries[i] = 0
  <2>1. PICK list \in SUBSET Due : worker' = [worker EXCEPT ![w].at = "claim", ![w].due = list]
    BY DEF ListDue, kSubset
  <2>2. Due \subseteq StoredJobs
    BY DEF Due, StoredJobs, NotStored
  <2>3. IsFiniteSet(list)
    BY <2>2, FS_Subset DEF WakeInv, FewStored
  <2>4. QED BY <2>1, <2>3 DEF ListDue, JInv, Shapes, Locals, WakeInv, ListsAreFinite, ghosts
<1>4. ASSUME NEW v \in Workers, NEW i \in Jobs, Heeds(v, i), New(i)'  PROVE Heeds(v, i)'
  <2>1. PICK list \in SUBSET Due : /\ list = Due \/ Cardinality(list) = Batch
                                   /\ worker' = [worker EXCEPT ![w].at = "claim", ![w].due = list]
    BY DEF ListDue, kSubset
  <2>2. worker'[w].at = "claim" /\ worker'[w].due = list /\ worker'[w].ran = worker[w].ran
    BY <2>1 DEF JInv, Shapes, Locals
  <2>3. CASE v = w
    <3>1. CASE list = Due
      <4>1. New(i)' => i \in Due
        BY DEF ListDue, New, Due, Stored, ghosts
      <4>2. QED BY <1>4, <2>2, <2>3, <3>1, <4>1 DEF Heeds, InPass
    <3>2. CASE Cardinality(list) = Batch
      <4>1. Tally(w)' >= Batch
        BY <2>2, <3>2, QueueSizes DEF Tally, Busy, JInv, Shapes, Locals
      <4>2. QED BY <2>2, <2>3, <4>1 DEF Heeds, InPass
    <3>3. QED BY <2>1, <3>1, <3>2
  <2>4. CASE v # w
    BY <1>4, <2>1, <2>4 DEF ListDue, JInv, Shapes, Heeds, Looks, InPass, Busy, Tally
  <2>5. QED BY <2>3, <2>4
<1>5. QED BY <1>1, <1>2, <1>3, <1>4, QuietWake DEF WakeKept

\* A claim that is lost is remembered; another leaves the tally as it was.
LEMMA ClaimWake ==
    ASSUME JInv, TriesInv, WakeInv, NEW w \in Workers, NEW j \in Jobs, Claim(w, j)
    PROVE WakeInv'
<1>1. Signals' /\ home' = home /\ announced' = announced /\ hooks' \subseteq hooks
  BY DEF Claim, Counted, WakeInv, Signals
<1>2. StoredJobs' = StoredJobs
  BY DEF Claim, Counted, JInv, Shapes, Rows, StoredJobs, NotStored
<1>3. (\A v \in Workers : IsFiniteSet(worker'[v].due)) /\ \A i \in Jobs : tries'[i] = 0 => tries[i] = 0
  <2>1. \A v \in Workers : worker'[v].due \in {worker[v].due, worker[v].due \ {j}}
    BY DEF Claim, Counted, JInv, Shapes, Locals
  <2>2. ASSUME NEW v \in Workers  PROVE IsFiniteSet(worker'[v].due)
    <3>1. IsFiniteSet(worker[v].due)
      BY DEF WakeInv, ListsAreFinite
    <3>2. IsFiniteSet(worker[v].due \ {j})
      BY <3>1, FS_RemoveElement
    <3>3. QED BY <2>1, <3>1, <3>2
  <2>3. QED BY <2>2 DEF Claim, Counted, TriesInv, Counts
<1>4. ASSUME NEW v \in Workers, NEW i \in Jobs, Heeds(v, i), New(i)'  PROVE Heeds(v, i)'
  <2>1. CASE v # w
    BY <1>4, <2>1 DEF Claim, Counted, JInv, Shapes, Heeds, Looks, InPass, Busy, Tally
  <2>2. CASE v = w /\ job[j].status # "pending"
    BY <2>2 DEF Claim, Counted, JInv, Shapes, Locals, Heeds
  <2>3. CASE v = w /\ job[j].status = "pending"
    <3>1. /\ worker'[w].at = "read" /\ worker'[w].due = worker[w].due \ {j} /\ worker'[w].ran = worker[w].ran
          /\ worker'[w].lost = worker[w].lost /\ wake' = wake /\ tries'[j] # 0
      BY <2>3 DEF Claim, Counted, JInv, Shapes, Locals, TriesInv, Counts
    <3>2. i # j
      BY <1>4, <3>1 DEF New, TriesInv, Counts
    <3>3. Tally(w)' = Tally(w)
      <4>1. IsFiniteSet(worker[w].due) /\ j \in worker[w].due /\ worker[w].at = "claim"
        BY DEF Claim, Counted, WakeInv, ListsAreFinite
      <4>2. Cardinality(worker[w].due \ {j}) = Cardinality(worker[w].due) - 1 /\ Cardinality(worker[w].due) \in Nat
        BY <4>1, FS_RemoveElement, FS_CardinalityType
      <4>3. worker[w].ran \in Nat
        BY DEF JInv, Shapes, Locals
      <4>4. QED BY <3>1, <4>1, <4>2, <4>3 DEF Tally, Busy
    <3>4. worker[w].at = "claim"
      BY DEF Claim
    <3>5. QED BY <1>4, <2>3, <3>1, <3>2, <3>3, <3>4 DEF Heeds, Looks, InPass, Busy
  <2>4. QED BY <2>1, <2>2, <2>3
<1>5. QED BY <1>1, <1>2, <1>3, <1>4, QuietWake DEF WakeKept

LEMMA ReadJobWake ==
    ASSUME JInv, TriesInv, WakeInv, NEW w \in Workers, NEW j \in Jobs, ReadJob(w, j)
    PROVE WakeInv'
<1>1. Signals' /\ home' = home /\ announced' = announced /\ hooks' \subseteq hooks
  BY DEF ReadJob, WakeInv, Signals, ghosts
<1>2. StoredJobs' = StoredJobs
  BY DEF ReadJob, JInv, Shapes, Rows, StoredJobs, NotStored
<1>3. (\A v \in Workers : IsFiniteSet(worker'[v].due)) /\ \A i \in Jobs : tries'[i] = 0 => tries[i] = 0
  BY FS_EmptySet DEF ReadJob, JInv, Shapes, Locals, WakeInv, ListsAreFinite, ghosts
<1>4. ASSUME NEW v \in Workers, NEW i \in Jobs, Heeds(v, i), New(i)'  PROVE Heeds(v, i)'
  <2>1. /\ worker[w].at = "read" /\ worker'[w].due = worker[w].due /\ worker'[w].lost = worker[w].lost
        /\ \/ worker'[w].at = "claim" /\ worker'[w].ran = worker[w].ran + 1
           \/ worker'[w].at \in {"run", "report"} /\ worker'[w].ran = worker[w].ran
        /\ wake' = wake /\ \A u \in Workers \ {w} : worker'[u] = worker[u]
    BY DEF ReadJob, JInv, Shapes, Locals
  <2>2. Tally(w)' = Tally(w)
    <3>1. Cardinality(worker[w].due) \in Nat
      BY FS_CardinalityType DEF WakeInv, ListsAreFinite
    <3>2. QED BY <2>1, <3>1 DEF Tally, Busy, JInv, Shapes, Locals
  <2>3. CASE v = w
    BY <1>4, <2>1, <2>2, <2>3 DEF Heeds, Looks, InPass, Busy
  <2>4. CASE v # w
    BY <1>4, <2>1, <2>4 DEF Heeds, Looks, InPass, Busy, Tally
  <2>5. QED BY <2>3, <2>4
<1>5. QED BY <1>1, <1>2, <1>3, <1>4, QuietWake DEF WakeKept

LEMMA ExecuteWake ==
    ASSUME JInv, TriesInv, WakeInv, NEW w \in Workers, NEW j \in Jobs, Execute(w, j)
    PROVE WakeInv'
<1>1. Signals' /\ home' = home /\ announced' = announced /\ hooks' \subseteq hooks
  BY DEF Execute, WakeInv, Signals
<1>2. StoredJobs' = StoredJobs
  BY DEF Execute, JInv, Shapes, Rows, StoredJobs, NotStored
<1>3. (\A v \in Workers : IsFiniteSet(worker'[v].due)) /\ \A i \in Jobs : tries'[i] = 0 => tries[i] = 0
  BY FS_EmptySet DEF Execute, JInv, Shapes, Locals, WakeInv, ListsAreFinite
<1>4. ASSUME NEW v \in Workers, NEW i \in Jobs, Heeds(v, i), New(i)'  PROVE Heeds(v, i)'
  BY <1>4 DEF Execute, JInv, Shapes, Locals, Heeds, Looks, InPass, Busy, Tally
<1>5. QED BY <1>1, <1>2, <1>3, <1>4, QuietWake DEF WakeKept

LEMMA ReportWake ==
    ASSUME JInv, TriesInv, WakeInv, NEW w \in Workers, NEW j \in Jobs, Report(w, j)
    PROVE WakeInv'
<1>1. Signals' /\ home' = home /\ announced' = announced /\ hooks' \subseteq hooks
  BY DEF Report, WakeInv, Signals, ghosts
<1>2. StoredJobs' = StoredJobs
  <2>1. job[j].status # "none"
    BY DEF Report, TriesInv, WorkIsCounted, WorksOn, ClaimedIsStored
  <2>2. job'[j].status # "none" /\ \A i \in Jobs \ {j} : job'[i] = job[i]
    BY <2>1 DEF Report, Reported, JInv, Shapes, Rows
  <2>3. QED BY <2>1, <2>2 DEF StoredJobs, NotStored
<1>3. (\A v \in Workers : IsFiniteSet(worker'[v].due)) /\ \A i \in Jobs : tries'[i] = 0 => tries[i] = 0
  BY FS_EmptySet DEF Report, JInv, Shapes, Locals, WakeInv, ListsAreFinite, ghosts
<1>4. ASSUME NEW v \in Workers, NEW i \in Jobs, Heeds(v, i), New(i)'  PROVE Heeds(v, i)'
  <2>1. /\ worker[w].at = "report" /\ worker'[w].at = "claim" /\ worker'[w].due = worker[w].due
        /\ worker'[w].ran = worker[w].ran + 1 /\ worker'[w].lost = worker[w].lost /\ wake' = wake
        /\ \A u \in Workers \ {w} : worker'[u] = worker[u]
    BY DEF Report, JInv, Shapes, Locals
  <2>2. Tally(w)' = Tally(w)
    <3>1. Cardinality(worker[w].due) \in Nat
      BY FS_CardinalityType DEF WakeInv, ListsAreFinite
    <3>2. QED BY <2>1, <3>1 DEF Tally, Busy, JInv, Shapes, Locals
  <2>3. CASE v = w
    BY <1>4, <2>1, <2>2, <2>3 DEF Heeds, Looks, InPass, Busy
  <2>4. CASE v # w
    BY <1>4, <2>1, <2>4 DEF Heeds, Looks, InPass, Busy, Tally
  <2>5. QED BY <2>3, <2>4
<1>5. QED BY <1>1, <1>2, <1>3, <1>4, QuietWake DEF WakeKept

\* Who waits had less than a full batch to do.
LEMMA EndPassWake ==
    ASSUME JInv, TriesInv, WakeInv, NEW w \in Workers, EndPass(w)
    PROVE WakeInv'
<1>1. Signals' /\ home' = home /\ announced' = announced /\ hooks' \subseteq hooks
  BY DEF EndPass, WakeInv, Signals, ghosts
<1>2. StoredJobs' = StoredJobs
  BY DEF EndPass, JInv, Shapes, Rows, StoredJobs, NotStored
<1>3. (\A v \in Workers : IsFiniteSet(worker'[v].due)) /\ \A i \in Jobs : tries'[i] = 0 => tries[i] = 0
  BY FS_EmptySet DEF EndPass, JInv, Shapes, Locals, WakeInv, ListsAreFinite, ghosts
<1>4. ASSUME NEW v \in Workers, NEW i \in Jobs, Heeds(v, i), New(i)'  PROVE Heeds(v, i)'
  <2>1. /\ worker[w].at = "claim" /\ worker[w].due = {} /\ wake' = wake /\ worker'[w].lost = worker[w].lost
        /\ worker'[w].at = IF worker[w].ran < Batch THEN "wait" ELSE "start"
        /\ \A u \in Workers \ {w} : worker'[u] = worker[u]
    BY DEF EndPass, JInv, Shapes, Locals
  <2>2. Tally(w) = worker[w].ran /\ worker[w].ran \in Nat
    BY <2>1, FS_EmptySet DEF Tally, Busy, JInv, Shapes, Locals
  <2>3. CASE v = w
    BY <1>4, <2>1, <2>2, <2>3, QueueSizes DEF Heeds, Looks, InPass, Busy
  <2>4. CASE v # w
    BY <1>4, <2>1, <2>4 DEF Heeds, Looks, InPass, Busy, Tally
  <2>5. QED BY <2>3, <2>4
<1>5. QED BY <1>1, <1>2, <1>3, <1>4, QuietWake DEF WakeKept

LEMMA WakeUpWake ==
    ASSUME JInv, TriesInv, WakeInv, NEW w \in Workers, WakeUp(w)
    PROVE WakeInv'
<1>1. Signals' /\ home' = home /\ announced' = announced /\ hooks' \subseteq hooks
  BY DEF WakeUp, WakeInv, Signals, ghosts
<1>2. StoredJobs' = StoredJobs
  BY DEF WakeUp, JInv, Shapes, Rows, StoredJobs, NotStored
<1>3. (\A v \in Workers : IsFiniteSet(worker'[v].due)) /\ \A i \in Jobs : tries'[i] = 0 => tries[i] = 0
  BY FS_EmptySet DEF WakeUp, JInv, Shapes, Locals, WakeInv, ListsAreFinite, ghosts
<1>4. ASSUME NEW v \in Workers, NEW i \in Jobs, Heeds(v, i), New(i)'  PROVE Heeds(v, i)'
  BY <1>4 DEF WakeUp, JInv, Shapes, Locals, Heeds, Looks, InPass, Busy, Tally, ghosts
<1>5. QED BY <1>1, <1>2, <1>3, <1>4, QuietWake DEF WakeKept

LEMMA StatementFailsWake ==
    ASSUME JInv, TriesInv, WakeInv, NEW w \in Workers, StatementFails(w)
    PROVE WakeInv'
<1>1. Signals' /\ home' = home /\ announced' = announced /\ hooks' \subseteq hooks
  BY DEF StatementFails, WakeInv, Signals
<1>2. StoredJobs' = StoredJobs
  BY DEF StatementFails, JInv, Shapes, Rows, StoredJobs, NotStored
<1>3. (\A v \in Workers : IsFiniteSet(worker'[v].due)) /\ \A i \in Jobs : tries'[i] = 0 => tries[i] = 0
  BY FS_EmptySet DEF StatementFails, JInv, Shapes, Locals, WakeInv, ListsAreFinite, Starting
<1>4. ASSUME NEW v \in Workers, NEW i \in Jobs, Heeds(v, i), New(i)'  PROVE Heeds(v, i)'
  BY <1>4 DEF StatementFails, JInv, Shapes, Locals, Heeds, Looks, InPass, Busy, Tally, Starting
<1>5. QED BY <1>1, <1>2, <1>3, <1>4, QuietWake DEF WakeKept

LEMMA ImportFailsWake ==
    ASSUME JInv, TriesInv, WakeInv, NEW w \in Workers, NEW j \in Jobs, ImportFails(w, j)
    PROVE WakeInv'
<1>1. Signals' /\ home' = home /\ announced' = announced /\ hooks' \subseteq hooks
  BY DEF ImportFails, WakeInv, Signals, ghosts
<1>2. StoredJobs' = StoredJobs
  BY DEF ImportFails, JInv, Shapes, Rows, StoredJobs, NotStored
<1>3. (\A v \in Workers : IsFiniteSet(worker'[v].due)) /\ \A i \in Jobs : tries'[i] = 0 => tries[i] = 0
  BY FS_EmptySet DEF ImportFails, JInv, Shapes, Locals, WakeInv, ListsAreFinite, Starting, ghosts
<1>4. ASSUME NEW v \in Workers, NEW i \in Jobs, Heeds(v, i), New(i)'  PROVE Heeds(v, i)'
  BY <1>4 DEF ImportFails, JInv, Shapes, Locals, Heeds, Looks, InPass, Busy, Tally, Starting
<1>5. QED BY <1>1, <1>2, <1>3, <1>4, QuietWake DEF WakeKept

LEMMA CrashWake ==
    ASSUME JInv, TriesInv, WakeInv, NEW w \in Workers, Crash(w)
    PROVE WakeInv'
<1>1. Signals' /\ home' = home /\ announced' = announced /\ hooks' \subseteq hooks
  BY DEF Crash, WakeInv, Signals
<1>2. StoredJobs' = StoredJobs
  BY DEF Crash, JInv, Shapes, Rows, StoredJobs, NotStored
<1>3. (\A v \in Workers : IsFiniteSet(worker'[v].due)) /\ \A i \in Jobs : tries'[i] = 0 => tries[i] = 0
  BY FS_EmptySet DEF Crash, JInv, Shapes, Locals, WakeInv, ListsAreFinite, Starting
<1>4. ASSUME NEW v \in Workers, NEW i \in Jobs, Heeds(v, i), New(i)'  PROVE Heeds(v, i)'
  BY <1>4 DEF Crash, JInv, Shapes, Locals, Heeds, Looks, InPass, Busy, Tally, Starting
<1>5. QED BY <1>1, <1>2, <1>3, <1>4, QuietWake DEF WakeKept

LEMMA RestartWake ==
    ASSUME JInv, TriesInv, WakeInv, NEW w \in Workers, Restart(w)
    PROVE WakeInv'
<1>1. Signals' /\ home' = home /\ announced' = announced /\ hooks' \subseteq hooks
  BY DEF Restart, WakeInv, Signals, ghosts
<1>2. StoredJobs' = StoredJobs
  BY DEF Restart, JInv, Shapes, Rows, StoredJobs, NotStored
<1>3. (\A v \in Workers : IsFiniteSet(worker'[v].due)) /\ \A i \in Jobs : tries'[i] = 0 => tries[i] = 0
  BY FS_EmptySet DEF Restart, JInv, Shapes, Locals, WakeInv, ListsAreFinite, Starting, ghosts
<1>4. ASSUME NEW v \in Workers, NEW i \in Jobs, Heeds(v, i), New(i)'  PROVE Heeds(v, i)'
  BY <1>4 DEF Restart, JInv, Shapes, Locals, WakeInv, Signals, Heeds, Looks, InPass, Busy, Tally, Starting,
     ghosts
<1>5. QED BY <1>1, <1>2, <1>3, <1>4, QuietWake DEF WakeKept

LEMMA DelayPassesWake ==
    ASSUME JInv, TriesInv, WakeInv, NEW j \in Jobs, DelayPasses(j)
    PROVE WakeInv'
<1>1. UNCHANGED <<worker, wake, hooks, home, announced, tries>>
  BY DEF DelayPasses, ghosts
<1>2. StoredJobs' = StoredJobs
  BY DEF DelayPasses, JInv, Shapes, Rows, StoredJobs, NotStored
<1>3. QED BY <1>1, <1>2, QuietWake DEF WakeKept, WakeInv, Signals, ListsAreFinite, Heeds, Looks, InPass, Busy, Tally

LEMMA StuckTimePassesWake ==
    ASSUME JInv, TriesInv, WakeInv, NEW j \in Jobs, StuckTimePasses(j)
    PROVE WakeInv'
<1>1. UNCHANGED <<worker, wake, hooks, home, announced, tries>>
  BY DEF StuckTimePasses
<1>2. StoredJobs' = StoredJobs
  BY DEF StuckTimePasses, JInv, Shapes, Rows, StoredJobs, NotStored
<1>3. QED BY <1>1, <1>2, QuietWake DEF WakeKept, WakeInv, Signals, ListsAreFinite, Heeds, Looks, InPass, Busy, Tally

LEMMA RetryFailedWake ==
    ASSUME JInv, TriesInv, WakeInv, RetryFailed
    PROVE WakeInv'
<1>1. UNCHANGED <<worker, wake, hooks, home, announced, tries>>
  BY Zenon DEF RetryFailed
<1>2. StoredJobs' = StoredJobs
  BY RetriedRows DEF JInv, StoredJobs, NotStored
<1>3. QED BY <1>1, <1>2, QuietWake DEF WakeKept, WakeInv, Signals, ListsAreFinite, Heeds, Looks, InPass, Busy, Tally

LEMMA PurgeWake ==
    ASSUME JInv, TriesInv, WakeInv, NEW j \in Jobs, Purge(j)
    PROVE WakeInv'
<1>1. UNCHANGED <<worker, wake, hooks, home, announced, tries>>
  BY DEF Purge, ghosts
<1>2. StoredJobs' = StoredJobs
  BY DEF Purge, JInv, Shapes, Rows, StoredJobs, NotStored
<1>3. QED BY <1>1, <1>2, QuietWake DEF WakeKept, WakeInv, Signals, ListsAreFinite, Heeds, Looks, InPass, Busy, Tally

LEMMA StutterWake ==
    ASSUME JInv, TriesInv, WakeInv, UNCHANGED vars
    PROVE WakeInv'
<1>1. WakeKept
  BY DEF vars, WakeKept, WakeInv, Signals, StoredJobs, ListsAreFinite, Heeds, Looks, InPass, Busy, Tally
<1>2. QED BY <1>1, QuietWake

LEMMA StepWake ==
    ASSUME JInv, TriesInv, WakeInv, [Next]_vars
    PROVE WakeInv'
<1>1. CASE \E j \in Jobs : Enqueue(j) \/ Announce(j) \/ SubmitFails(j) \/ RunNow(j) \/ TimePasses(j) \/ Purge(j)
  BY <1>1, EnqueueWake, AnnounceWake, SubmitFailsWake, RunNowWake, DelayPassesWake,
     StuckTimePassesWake, PurgeWake DEF TimePasses
<1>2. ASSUME NEW w \in Workers, Step(w)  PROVE WakeInv'
  <2>1. CASE StartPass(w) \/ RequeueStuck(w) \/ ListDue(w) \/ EndPass(w) \/ WakeUp(w) \/ Restart(w)
    BY <2>1, StartPassWake, RequeueStuckWake, ListDueWake, EndPassWake, WakeUpWake, RestartWake
  <2>2. CASE \E j \in Jobs : Claim(w, j) \/ ReadJob(w, j) \/ ImportFails(w, j) \/ Execute(w, j) \/ Report(w, j)
    BY <2>2, ClaimWake, ReadJobWake, ImportFailsWake, ExecuteWake, ReportWake
  <2>3. QED BY <1>2, <2>1, <2>2 DEF Step
<1>3. CASE \E w \in Workers : StatementFails(w) \/ Crash(w)
  BY <1>3, StatementFailsWake, CrashWake
<1>4. CASE RetryFailed
  BY <1>4, RetryFailedWake
<1>5. CASE UNCHANGED vars
  BY <1>5, StutterWake
<1>6. QED BY <1>1, <1>2, <1>3, <1>4, <1>5 DEF Next

LEMMA StartWake == ASSUME Init PROVE WakeInv
<1>1. Signals /\ OnlyStored /\ NewsIsHeeded
  BY DEF Init, Signals, OnlyStored, NewsIsHeeded, New
<1>2. StoredJobs = Gone
  BY QueueSizes DEF Init, StoredJobs, Stored, NotStored
<1>3. FewStored /\ ListsAreFinite
  BY <1>2, FS_EmptySet, QueueSizes DEF Init, FewStored, ListsAreFinite, Starting
<1>4. QED BY <1>1, <1>3 DEF WakeInv

\* "Woken the moment a job is committed in its own process": in no interleaving of the commit,
\* its hook, the clearing of the event and the query does a worker wait past a new job it was told
\* of, unless it lost a claim; for any number of workers and jobs, and any CLAIM_BATCH.
THEOREM NoWakeUpIsLost == Spec => []NoLostWakeUp
<1>1. ASSUME TriesInv, WakeInv  PROVE NoLostWakeUp
  <2>1. ASSUME NEW j \in Due \cap announced, tries[j] = 0, worker[home[j]].at = "wait"
        PROVE wake[home[j]] \/ worker[home[j]].lost
    <3>1. j \in Jobs /\ j \in announced /\ job[j].status = "pending"
      BY <2>1, Zenon DEF Due
    <3>2. New(j)
      BY <1>1, <2>1, <3>1 DEF New, TriesInv, UnclaimedIsNew, NotStored
    <3>3. Heeds(home[j], j)
      BY <1>1, <3>1, <3>2 DEF WakeInv, NewsIsHeeded
    <3>4. QED BY <2>1, <3>3 DEF Heeds, Looks, InPass, Busy
  <2>2. QED BY <2>1 DEF NoLostWakeUp
<1>2. Init => TriesInv /\ WakeInv  BY StartTries, StartWake
<1>3. JInv /\ TriesInv /\ WakeInv /\ [Next]_vars => TriesInv' /\ WakeInv'  BY StepTries, StepWake
<1>4. QED BY <1>1, <1>2, <1>3, Invariance, PTL DEF Spec
-----------------------------------------------------------------------------
(* The types: a pass runs at most a batch of jobs, for it lists no more than that. *)

Names ==
    /\ hooks \subseteq Jobs /\ announced \subseteq Jobs /\ executed \subseteq Jobs /\ overran \subseteq Jobs
    /\ fallback \in [Workers -> SUBSET Jobs] /\ mishaps \in 0..MaxMishaps

WithinBatch(w) ==
    /\ worker[w].ran <= Batch
    /\ worker[w].at \in {"recover", "list"} => worker[w].ran = 0
    /\ InPass(w) => Tally(w) <= Batch

BatchInv == Names /\ \A w \in Workers : WithinBatch(w)

LEMMA NamesKept ==
    ASSUME JInv, TriesInv, WakeInv, Names, [Next]_vars
    PROVE Names'
<1>1. ASSUME NEW j \in Jobs, Enqueue(j) \/ Announce(j) \/ SubmitFails(j) \/ RunNow(j)  PROVE Names'
  <2>1. home[j] \in Workers
    BY DEF WakeInv, Signals
  <2>2. CASE Enqueue(j) \/ Announce(j)
    BY <2>2 DEF Enqueue, Announce, Names, ghosts
  <2>3. CASE SubmitFails(j)
    BY <2>1, <2>3, QueueSizes DEF SubmitFails, Mishap, Names
  <2>4. CASE RunNow(j)
    BY <2>1, <2>4 DEF RunNow, Names
  <2>5. QED BY <1>1, <2>2, <2>3, <2>4
<1>2. ASSUME NEW j \in Jobs, TimePasses(j) \/ Purge(j)  PROVE Names'
  BY <1>2, QueueSizes DEF TimePasses, DelayPasses, StuckTimePasses, Purge, Mishap, Names, ghosts
<1>3. ASSUME NEW w \in Workers, Step(w)  PROVE Names'
  <2>1. ASSUME NEW j \in Jobs, Claim(w, j) \/ ReadJob(w, j) \/ ImportFails(w, j) \/ Execute(w, j) \/ Report(w, j)  PROVE Names'
    BY <2>1 DEF Claim, ReadJob, ImportFails, Execute, Report, Names, ghosts
  <2>2. CASE StartPass(w) \/ RequeueStuck(w) \/ ListDue(w) \/ EndPass(w) \/ WakeUp(w) \/ Restart(w)
    BY <2>2 DEF StartPass, RequeueStuck, ListDue, EndPass, WakeUp, Restart, Names, ghosts
  <2>3. QED BY <1>3, <2>1, <2>2 DEF Step
<1>4. ASSUME NEW w \in Workers, StatementFails(w) \/ Crash(w)  PROVE Names'
  BY <1>4, QueueSizes DEF StatementFails, Crash, Mishap, Names
<1>5. CASE RetryFailed
  <2>1. Mishap /\ UNCHANGED <<hooks, announced, executed, overran, fallback>>
    BY <1>5, Zenon DEF RetryFailed
  <2>2. QED BY <2>1, QueueSizes DEF Mishap, Names
<1>6. CASE UNCHANGED vars
  BY <1>6 DEF vars, Names
<1>7. QED BY <1>1, <1>2, <1>3, <1>4, <1>5, <1>6 DEF Next

LEMMA ListWithinBatch ==
    ASSUME JInv, WakeInv, NEW w \in Workers, WithinBatch(w), ListDue(w)
    PROVE WithinBatch(w)'
<1>1. PICK list \in SUBSET Due : /\ Cardinality(list) <= Batch
                                 /\ worker' = [worker EXCEPT ![w].at = "claim", ![w].due = list]
  <2>1. PICK list \in (IF Cardinality(Due) <= Batch THEN {Due} ELSE kSubset(Batch, Due)) :
             worker' = [worker EXCEPT ![w].at = "claim", ![w].due = list]
    BY DEF ListDue
  <2>2. list \subseteq Due /\ (Cardinality(list) <= Batch \/ Cardinality(list) = Batch)
    BY <2>1 DEF kSubset
  <2>3. Cardinality(list) <= Batch
    BY <2>2, QueueSizes
  <2>4. QED BY <2>1, <2>2, <2>3, Zenon
<1>2. Cardinality(list) \in Nat
  <2>1. Due \subseteq StoredJobs
    BY DEF Due, StoredJobs, NotStored
  <2>2. QED BY <2>1, FS_Subset, FS_CardinalityType DEF WakeInv, FewStored
<1>3. worker'[w].at = "claim" /\ worker'[w].due = list /\ worker'[w].ran = 0
  BY <1>1 DEF ListDue, WithinBatch, JInv, Shapes, Locals
<1>4. QED BY <1>1, <1>2, <1>3, QueueSizes DEF WithinBatch, Tally, InPass, Busy

LEMMA ClaimWithinBatch ==
    ASSUME JInv, WakeInv, NEW w \in Workers, NEW j \in Jobs, WithinBatch(w), Claim(w, j)
    PROVE WithinBatch(w)'
<1>1. IsFiniteSet(worker[w].due) /\ j \in worker[w].due /\ worker[w].at = "claim" /\ worker[w].ran \in Nat
  BY DEF Claim, Counted, WakeInv, ListsAreFinite, JInv, Shapes, Locals
<1>2. Cardinality(worker[w].due \ {j}) = Cardinality(worker[w].due) - 1 /\ Cardinality(worker[w].due) \in Nat
  BY <1>1, FS_RemoveElement, FS_CardinalityType
<1>3. worker'[w].at \in {"claim", "read"} /\ worker'[w].due = worker[w].due \ {j} /\ worker'[w].ran = worker[w].ran
  BY <1>1 DEF Claim, Counted, JInv, Shapes, Locals
<1>4. QED BY <1>1, <1>2, <1>3, QueueSizes DEF WithinBatch, Tally, InPass, Busy

LEMMA RunWithinBatch ==
    ASSUME JInv, WakeInv, NEW w \in Workers, NEW j \in Jobs, WithinBatch(w),
           ReadJob(w, j) \/ ImportFails(w, j) \/ Execute(w, j) \/ Report(w, j)
    PROVE WithinBatch(w)'
<1>0. CASE ImportFails(w, j)
  BY <1>0, QueueSizes DEF ImportFails, JInv, Shapes, Locals, Starting, WithinBatch, InPass, Busy
<1> SUFFICES ASSUME ReadJob(w, j) \/ Execute(w, j) \/ Report(w, j)  PROVE WithinBatch(w)'
  BY <1>0
<1>1. /\ Busy(w) /\ worker'[w].due = worker[w].due
      /\ \/ worker'[w].at = "claim" /\ worker'[w].ran = worker[w].ran + 1
         \/ worker'[w].at \in {"run", "report"} /\ worker'[w].ran = worker[w].ran
  <2>1. CASE ReadJob(w, j)
    BY <2>1 DEF ReadJob, JInv, Shapes, Locals, Busy
  <2>2. CASE Execute(w, j)
    BY <2>2 DEF Execute, JInv, Shapes, Locals, Busy
  <2>3. CASE Report(w, j)
    BY <2>3 DEF Report, JInv, Shapes, Locals, Busy
  <2>4. QED BY <2>1, <2>2, <2>3
<1>2. Cardinality(worker[w].due) \in Nat /\ worker[w].ran \in Nat
  BY FS_CardinalityType DEF WakeInv, ListsAreFinite, JInv, Shapes, Locals
<1>3. Tally(w) <= Batch
  BY <1>1 DEF WithinBatch, InPass
<1>4. QED BY <1>1, <1>2, <1>3, QueueSizes DEF WithinBatch, Tally, InPass, Busy

LEMMA BatchKept ==
    ASSUME JInv, TriesInv, WakeInv, BatchInv, [Next]_vars
    PROVE BatchInv'
<1>1. ASSUME UNCHANGED worker  PROVE \A w \in Workers : WithinBatch(w)'
  BY <1>1 DEF BatchInv, WithinBatch, InPass, Tally, Busy
<1>2. ASSUME NEW w \in Workers, WithinBatch(w)', \A v \in Workers \ {w} : worker'[v] = worker[v]
      PROVE  \A v \in Workers : WithinBatch(v)'
  <2> SUFFICES ASSUME NEW v \in Workers \ {w}  PROVE WithinBatch(v)'
    BY <1>2
  <2>1. WithinBatch(v) /\ worker'[v] = worker[v]
    BY <1>2 DEF BatchInv
  <2>2. QED BY <2>1 DEF WithinBatch, InPass, Tally, Busy
<1>3. ASSUME NEW w \in Workers, Step(w)  PROVE \A v \in Workers : WithinBatch(v)'
  <2>1. WithinBatch(w)
    BY DEF BatchInv
  <2>2. ASSUME NEW j \in Jobs, Claim(w, j) \/ ReadJob(w, j) \/ ImportFails(w, j) \/ Execute(w, j) \/ Report(w, j)
        PROVE  WithinBatch(w)' /\ \A v \in Workers \ {w} : worker'[v] = worker[v]
    <3>1. \A v \in Workers \ {w} : worker'[v] = worker[v]
      BY <2>2 DEF Claim, ReadJob, ImportFails, Execute, Report, JInv, Shapes
    <3>2. QED BY <2>1, <2>2, <3>1, ClaimWithinBatch, RunWithinBatch
  <2>3. CASE ListDue(w)
    <3>1. \A v \in Workers \ {w} : worker'[v] = worker[v]
      BY <2>3 DEF ListDue, JInv, Shapes
    <3>2. QED BY <1>2, <2>1, <2>3, <3>1, ListWithinBatch
  <2>4. CASE StartPass(w) \/ RequeueStuck(w) \/ EndPass(w) \/ WakeUp(w) \/ Restart(w)
    <3>1. \A v \in Workers \ {w} : worker'[v] = worker[v]
      BY <2>4 DEF StartPass, RequeueStuck, EndPass, WakeUp, Restart, JInv, Shapes
    <3>2. worker'[w].ran \in {0, worker[w].ran} /\ worker'[w].at \in {"recover", "list", "wait", "start"}
      BY <2>4 DEF StartPass, RequeueStuck, EndPass, WakeUp, Restart, JInv, Shapes, Locals, Starting
    <3>3. worker'[w].at \in {"recover", "list"} => worker'[w].ran = 0
      BY <2>1, <2>4 DEF StartPass, RequeueStuck, EndPass, WakeUp, Restart, JInv, Shapes, Locals, Starting, WithinBatch
    <3>4. WithinBatch(w)'
      BY <2>1, <3>2, <3>3, QueueSizes DEF WithinBatch, InPass, Busy
    <3>5. QED BY <1>2, <3>1, <3>4
  <2>5. QED BY <1>2, <1>3, <2>2, <2>3, <2>4 DEF Step
<1>4. ASSUME NEW w \in Workers, StatementFails(w) \/ Crash(w)  PROVE \A v \in Workers : WithinBatch(v)'
  <2>1. \A v \in Workers \ {w} : worker'[v] = worker[v]
    BY <1>4 DEF StatementFails, Crash, JInv, Shapes
  <2>2. worker'[w].ran = 0 /\ worker'[w].at \in {"backoff", "down"}
    BY <1>4 DEF StatementFails, Crash, JInv, Shapes, Starting
  <2>3. WithinBatch(w)'
    BY <2>2, QueueSizes DEF WithinBatch, InPass, Busy
  <2>4. QED BY <1>2, <2>1, <2>3
<1>5. ASSUME NEW j \in Jobs, Enqueue(j) \/ Announce(j) \/ SubmitFails(j) \/ RunNow(j) \/ TimePasses(j) \/ Purge(j)
      PROVE  UNCHANGED worker
  BY <1>5 DEF Enqueue, Announce, SubmitFails, RunNow, TimePasses, DelayPasses, StuckTimePasses, Purge
<1>6. ASSUME RetryFailed \/ UNCHANGED vars  PROVE UNCHANGED worker
  BY <1>6, Zenon DEF RetryFailed, vars
<1>7. \A w \in Workers : WithinBatch(w)'
  <2>1. CASE \E j \in Jobs : Enqueue(j) \/ Announce(j) \/ SubmitFails(j) \/ RunNow(j) \/ TimePasses(j) \/ Purge(j)
    BY <1>1, <1>5, <2>1
  <2>2. CASE \E w \in Workers : Step(w) \/ StatementFails(w) \/ Crash(w)
    BY <1>3, <1>4, <2>2
  <2>3. CASE RetryFailed \/ UNCHANGED vars
    BY <1>1, <1>6, <2>3
  <2>4. QED BY <2>1, <2>2, <2>3 DEF Next
<1>8. QED BY <1>7, NamesKept DEF BatchInv

LEMMA StartBatch == ASSUME Init PROVE BatchInv
BY QueueSizes DEF Init, BatchInv, Names, WithinBatch, InPass, Busy, Starting

LEMMA BatchImplies ==
    ASSUME JInv, TriesInv, WakeInv, BatchInv
    PROVE TypeOK
<1>1. ASSUME NEW w \in Workers  PROVE Cardinality(worker[w].job) <= 1 /\ worker[w].ran \in 0..Batch
  <2>1. worker[w].ran \in 0..Batch
    BY QueueSizes DEF JInv, Shapes, Locals, BatchInv, WithinBatch
  <2>2. CASE worker[w].job = {}
    BY <2>1, <2>2, FS_EmptySet
  <2>3. CASE worker[w].job # {}
    <3>1. PICK j \in worker[w].job : worker[w].job = {j}
      BY <2>3 DEF JInv, OneJob
    <3>2. QED BY <2>1, <3>1, FS_Singleton
  <2>4. QED BY <2>2, <2>3
<1>2. worker \in [Workers -> [at : {"start", "recover", "list", "claim", "read", "run", "report", "wait", "backoff", "down"},
                              due : SUBSET Jobs, ran : 0..Batch, lost : BOOLEAN,
                              job : {S \in SUBSET Jobs : Cardinality(S) <= 1},
                              attempts : Nat, outcome : {"none", "ok", "error", "never"}]]
  BY <1>1 DEF JInv, Shapes, Locals
<1>3. QED BY <1>2 DEF TypeOK, JInv, Shapes, Rows, TriesInv, Counts, WakeInv, Signals, BatchInv, Names

\* run_pending: the rows and the workers keep to their types, and a pass runs at most CLAIM_BATCH
\* jobs, one at a time.
THEOREM TypeCorrect == Spec => []TypeOK
<1>1. Init => TriesInv /\ WakeInv /\ BatchInv  BY StartTries, StartWake, StartBatch
<1>2. JInv /\ TriesInv /\ WakeInv /\ BatchInv /\ [Next]_vars => (TriesInv /\ WakeInv /\ BatchInv)'
  BY StepTries, StepWake, BatchKept
<1>3. JInv /\ TriesInv /\ WakeInv /\ BatchInv => TypeOK  BY BatchImplies
<1>4. QED BY <1>1, <1>2, <1>3, Invariance, PTL DEF Spec

-----------------------------------------------------------------------------
(* The calendar *)

Events == [title : Ids, category : {"holiday", "event"}, dates : SUBSET Days]
Holidays == [name : Ids, event : Workers \cup {None}]

\* The events that make d a holiday.
Marking(d) == {e \in Workers : event[e] # None /\ event[e].category = "holiday" /\ d \in event[e].dates}

\* The row of d is the mirror of the one event that marks it; a row by hand, or none, mirrors nothing.
Mirrors(d) ==
    IF holiday[d] = None \/ holiday[d].event = None THEN Marking(d) = {}
    ELSE Marking(d) = {holiday[d].event} /\ holiday[d].name = event[holiday[d].event].title

CalendarShapes ==
    /\ event \in [Workers -> Events \cup {None}]
    /\ holiday \in [Days -> Holidays \cup {None}]
    /\ contested \subseteq Days

CoverShapes ==
    /\ week \in Weeks /\ leave \in [Teachers -> Leaves \cup {None}]
    /\ sub \in [Dates!Requests -> {"closed", "pending", "accepted"}]

DatesInv == CalendarShapes /\ CoverShapes /\ \A d \in Days \ contested : Mirrors(d)

LEMMA NoneIsNoRow == None \notin Events /\ None \notin Holidays /\ None \notin Workers
BY CalendarAssumption DEF Events, Holidays

LEMMA DatesStart ==
    ASSUME Dates!Init
    PROVE  DatesInv
BY NoneIsNoRow DEF Dates!Init, DatesInv, CalendarShapes, CoverShapes, Mirrors, Marking

LEMMA CreateEventKeeps ==
    ASSUME DatesInv, NEW e \in Workers, NEW t \in Ids, NEW c \in {"holiday", "event"}, Dates!CreateEvent(e, t, c)
    PROVE  DatesInv'
<1> DEFINE new == [title |-> t, category |-> c, dates |-> {}]
<1>1. new \in Events /\ new # None
  BY NoneIsNoRow DEF Events
<1>2. event[e] = None /\ event' = [event EXCEPT ![e] = new] /\ UNCHANGED <<holiday, contested, week, leave, sub>>
  BY DEF Dates!CreateEvent, Dates!cover
<1>3. new.dates = {}
  OBVIOUS
<1> HIDE DEF new
<1>4. CalendarShapes' /\ CoverShapes'
  BY <1>1, <1>2 DEF DatesInv, CalendarShapes, CoverShapes
<1>5. ASSUME NEW d \in Days \ contested'  PROVE Mirrors(d)'
  <2>1. Marking(d)' = Marking(d)
    BY <1>2, <1>3 DEF Marking, DatesInv, CalendarShapes
  <2>2. Mirrors(d)
    BY <1>2 DEF DatesInv
  <2>3. holiday[d] # None /\ holiday[d].event # None => holiday[d].event \in Workers /\ holiday[d].event # e
    BY <1>2, <2>2 DEF Mirrors, Marking
  <2>4. QED BY <1>2, <2>1, <2>2, <2>3 DEF Mirrors, DatesInv, CalendarShapes
<1>6. QED BY <1>4, <1>5 DEF DatesInv

\* DELETE of the event's rows.
LEMMA ClearedDays ==
    ASSUME CalendarShapes, NEW e \in Workers
    PROVE  /\ Dates!Cleared(e) \in [Days -> Holidays \cup {None}]
           /\ \A d \in Days : Dates!Cleared(e)[d] = IF holiday[d] # None /\ holiday[d].event = e THEN None ELSE holiday[d]
BY DEF Dates!Cleared, CalendarShapes

\* The days an event's row makes holidays; and the step that clears its rows and puts those back.
Marks(r) == IF r = None \/ r.category # "holiday" THEN {} ELSE r.dates
Remirrored(e, r) ==
    /\ event' = [event EXCEPT ![e] = r] /\ holiday' \in [Days -> Holidays \cup {None}]
    /\ \A d \in Days : holiday'[d] = IF d \in Marks(r) THEN [name |-> r.title, event |-> e] ELSE Dates!Cleared(e)[d]
    /\ contested' = contested \cup {d \in Marks(r) : Dates!Cleared(e)[d] # None} /\ UNCHANGED <<week, leave, sub>>

LEMMA EventMirrored ==
    ASSUME DatesInv, NEW e \in Workers, NEW row1 \in Events \cup {None}, Remirrored(e, row1)
    PROVE  DatesInv'
<1> DEFINE marks == Marks(row1)
<1>0. /\ marks = (IF row1 = None \/ row1.category # "holiday" THEN {} ELSE row1.dates) /\ marks \subseteq Days
      /\ event' = [event EXCEPT ![e] = row1] /\ holiday' \in [Days -> Holidays \cup {None}]
      /\ contested' = contested \cup {d \in marks : Dates!Cleared(e)[d] # None} /\ UNCHANGED <<week, leave, sub>>
      /\ \A d \in Days : holiday'[d] = IF d \in marks THEN [name |-> row1.title, event |-> e] ELSE Dates!Cleared(e)[d]
  BY DEF Remirrored, Marks, Events
<1> HIDE DEF marks
<1> USE <1>0
<1>1. CalendarShapes' /\ CoverShapes'
  BY DEF DatesInv, CalendarShapes, CoverShapes
<1>2. ASSUME NEW d \in Days \ contested'  PROVE Mirrors(d)'
  <2>1. Mirrors(d) /\ holiday[d] \in Holidays \cup {None}
    BY DEF DatesInv, CalendarShapes
  <2>2. Marking(d)' = (Marking(d) \ {e}) \cup (IF d \in marks THEN {e} ELSE {})
    BY NoneIsNoRow DEF Marking, DatesInv, CalendarShapes
  <2>3. Dates!Cleared(e)[d] = IF holiday[d] # None /\ holiday[d].event = e THEN None ELSE holiday[d]
    BY ClearedDays DEF DatesInv
  <2>4. CASE d \in marks
    <3>1. Marking(d) \subseteq {e}
      BY <2>1, <2>3, <2>4 DEF Mirrors
    <3>2. Marking(d)' = {e}
      BY <2>2, <2>4, <3>1
    <3>3. holiday'[d] = [name |-> row1.title, event |-> e] /\ holiday'[d] # None /\ e # None
      <4>1. row1 \in Events
        BY <2>4
      <4>2. [name |-> row1.title, event |-> e] \in Holidays
        BY <4>1 DEF Events, Holidays
      <4>3. QED BY <2>4, <4>2, NoneIsNoRow
    <3>4. event'[e] = row1
      BY DEF DatesInv, CalendarShapes
    <3>5. QED BY <3>2, <3>3, <3>4 DEF Mirrors
  <2>5. CASE d \notin marks
    <3>1. holiday'[d] = Dates!Cleared(e)[d] /\ Marking(d)' = Marking(d) \ {e}
      BY <2>2, <2>5
    <3>2. CASE holiday[d] # None /\ holiday[d].event = e
      <4>1. Marking(d) = {e}
        BY <2>1, <3>2, NoneIsNoRow DEF Mirrors
      <4>2. QED BY <2>3, <3>1, <3>2, <4>1 DEF Mirrors
    <3>3. CASE ~(holiday[d] # None /\ holiday[d].event = e)
      <4>1. holiday'[d] = holiday[d]
        BY <2>3, <3>1, <3>3
      <4>2. CASE holiday[d] = None \/ holiday[d].event = None
        BY <2>1, <3>1, <4>1, <4>2 DEF Mirrors
      <4>3. CASE holiday[d] # None /\ holiday[d].event # None
        <5>1. holiday[d].event \in Workers \ {e}
          BY <2>1, <3>3, <4>3 DEF Holidays
        <5>2. event'[holiday[d].event] = event[holiday[d].event]
          BY <5>1 DEF DatesInv, CalendarShapes
        <5>3. QED BY <2>1, <3>1, <4>1, <4>3, <5>1, <5>2 DEF Mirrors
      <4>4. QED BY <4>2, <4>3
    <3>4. QED BY <3>2, <3>3
  <2>6. QED BY <2>4, <2>5
<1>3. QED BY <1>1, <1>2 DEF DatesInv

LEMMA UpdateEventKeeps ==
    ASSUME DatesInv, NEW e \in Workers, NEW new \in Events, Dates!UpdateEvent(e, new)
    PROVE  DatesInv'
<1>1. new # None /\ Marks(new) = IF new.category = "holiday" THEN new.dates ELSE {}
  BY NoneIsNoRow DEF Marks
<1>2. Marks(new) \subseteq Days /\ new.title \in Ids
  BY <1>1 DEF Events
<1>3. /\ event' = [event EXCEPT ![e] = new] /\ UNCHANGED <<week, leave, sub>>
      /\ holiday' = Dates!Mirrored(e, new) /\ contested' = contested \cup Dates!TakenOver(e, new)
  BY DEF Dates!UpdateEvent, Dates!cover
<1>4. Dates!TakenOver(e, new) = {d \in Marks(new) : Dates!Cleared(e)[d] # None}
  BY <1>1, <1>2 DEF Dates!TakenOver
<1>5. \A d \in Days : holiday'[d] = IF d \in Marks(new) THEN [name |-> new.title, event |-> e] ELSE Dates!Cleared(e)[d]
  BY <1>1, <1>3 DEF Dates!Mirrored
<1>6. holiday' \in [Days -> Holidays \cup {None}]
  <2>1. \A d \in Days : holiday'[d] \in Holidays \cup {None}
    BY <1>2, <1>5, ClearedDays DEF Holidays, DatesInv
  <2>2. QED BY <1>3, <2>1 DEF Dates!Mirrored
<1>7. Remirrored(e, new)
  BY <1>3, <1>4, <1>5, <1>6 DEF Remirrored
<1>8. QED BY <1>7, EventMirrored

LEMMA DeleteEventKeeps ==
    ASSUME DatesInv, NEW e \in Workers, Dates!DeleteEvent(e)
    PROVE  DatesInv'
<1>1. /\ event' = [event EXCEPT ![e] = None] /\ holiday' = Dates!Cleared(e) /\ UNCHANGED <<contested, week, leave, sub>>
  BY DEF Dates!DeleteEvent, Dates!cover
<1>2. holiday' \in [Days -> Holidays \cup {None}] /\ Marks(None) = {}
  BY <1>1, ClearedDays DEF DatesInv, Marks
<1>3. Remirrored(e, None)
  BY <1>1, <1>2 DEF Remirrored
<1>4. QED BY <1>3, EventMirrored

\* A row by hand comes or goes, or a row is edited, and its days with it: no event moves.
LEMMA RowsKeep ==
    ASSUME DatesInv, holiday' \in [Days -> Holidays \cup {None}], contested \subseteq contested', contested' \subseteq Days,
           UNCHANGED <<event, week, leave, sub>>,
           \A d \in Days \ contested' :
               \/ holiday'[d] = holiday[d]
               \/ (holiday[d] = None \/ holiday[d].event = None) /\ (holiday'[d] = None \/ holiday'[d].event = None)
    PROVE  DatesInv'
<1>1. CalendarShapes' /\ CoverShapes'
  BY DEF DatesInv, CalendarShapes, CoverShapes
<1>2. ASSUME NEW d \in Days \ contested'  PROVE Mirrors(d)'
  <2>1. Mirrors(d) /\ Marking(d)' = Marking(d)
    BY DEF DatesInv, Marking
  <2>2. QED BY <2>1 DEF Mirrors
<1>3. QED BY <1>1, <1>2 DEF DatesInv

LEMMA CreateHolidayKeeps ==
    ASSUME DatesInv, NEW d \in Days, NEW n \in Ids, Dates!CreateHoliday(d, n)
    PROVE  DatesInv'
<1> DEFINE new == [name |-> n, event |-> None]
<1>1. new \in Holidays /\ new.event = None
  BY DEF Holidays
<1>2. holiday[d] = None /\ holiday' = [holiday EXCEPT ![d] = new] /\ UNCHANGED <<event, contested, week, leave, sub>>
  BY DEF Dates!CreateHoliday, Dates!cover
<1> HIDE DEF new
<1>3. QED BY <1>1, <1>2, RowsKeep DEF DatesInv, CalendarShapes

LEMMA UpdateHolidayKeeps ==
    ASSUME DatesInv, NEW d \in Days, NEW to \in Days, NEW n \in Ids, Dates!UpdateHoliday(d, to, n)
    PROVE  DatesInv'
<1> DEFINE new == [holiday[d] EXCEPT !.name = n]
<1>1. holiday[d] \in Holidays
  BY DEF Dates!UpdateHoliday, DatesInv, CalendarShapes
<1>2. new \in Holidays /\ new.event = holiday[d].event
  BY <1>1 DEF Holidays
<1>3. /\ holiday[d] # None /\ (to # d => holiday[to] = None) /\ UNCHANGED <<event, week, leave, sub>>
      /\ contested' = IF holiday[d].event = None THEN contested ELSE contested \cup {d, to}
  BY DEF Dates!UpdateHoliday, Dates!cover, Dates!ByHand
<1>4. holiday' = [[holiday EXCEPT ![d] = None] EXCEPT ![to] = new]
  BY Zenon DEF Dates!UpdateHoliday
<1> HIDE DEF new
<1>5. holiday' \in [Days -> Holidays \cup {None}]
  BY <1>2, <1>4 DEF DatesInv, CalendarShapes
<1>6. \A c \in Days : holiday'[c] = IF c = to THEN new ELSE IF c = d THEN None ELSE holiday[c]
  BY <1>4 DEF DatesInv, CalendarShapes
<1>7. contested' \subseteq Days
  BY <1>3 DEF DatesInv, CalendarShapes
<1>8. QED BY <1>2, <1>3, <1>5, <1>6, <1>7, RowsKeep

LEMMA DeleteHolidayKeeps ==
    ASSUME DatesInv, NEW d \in Days, Dates!DeleteHoliday(d)
    PROVE  DatesInv'
<1>1. /\ holiday' = [holiday EXCEPT ![d] = None] /\ UNCHANGED <<event, week, leave, sub>>
      /\ contested' = IF holiday[d].event = None THEN contested ELSE contested \cup {d}
  BY DEF Dates!DeleteHoliday, Dates!ByHand, Dates!cover
<1>2. QED BY <1>1, RowsKeep DEF DatesInv, CalendarShapes

LEMMA CoverKeeps ==
    ASSUME DatesInv, Dates!CoverSteps
    PROVE  DatesInv'
<1>1. UNCHANGED <<event, holiday, contested, week>>
  BY DEF Dates!CoverSteps, Dates!Ask, Dates!Accept, Dates!Close, Dates!LeaveOf, Dates!calendar
<1>2. CoverShapes'
  BY DEF DatesInv, CoverShapes, Dates!CoverSteps, Dates!Ask, Dates!Accept, Dates!Close, Dates!LeaveOf
<1>3. QED BY <1>1, <1>2 DEF DatesInv, CalendarShapes, Mirrors, Marking

LEMMA DatesStep ==
    ASSUME DatesInv, [Dates!Next]_(Dates!vars)
    PROVE  DatesInv'
<1>1. CASE Dates!CalendarSteps
  BY <1>1, CreateEventKeeps, UpdateEventKeeps, DeleteEventKeeps, CreateHolidayKeeps, UpdateHolidayKeeps, DeleteHolidayKeeps
     DEF Dates!CalendarSteps, Dates!Rows, Events
<1>2. CASE UNCHANGED Dates!vars
  BY <1>2 DEF Dates!vars, DatesInv, CalendarShapes, CoverShapes, Mirrors, Marking
<1>3. QED BY <1>1, <1>2, CoverKeeps DEF Dates!Next

(* What the three screens say follows. *)

LEMMA MirrorsAgree ==
    ASSUME DatesInv
    PROVE  Dates!MirrorAgrees
<1> SUFFICES ASSUME NEW d \in Days \ contested
             PROVE  /\ d \in Dates!TabShows <=> d \in Dates!CalendarShows
                    /\ holiday[d] # None /\ holiday[d].event # None =>
                          Marking(d) = {holiday[d].event} /\ holiday[d].name = event[holiday[d].event].title
  BY DEF Dates!MirrorAgrees, Marking
<1>1. Mirrors(d) /\ d \in Days
  BY DEF DatesInv
<1>2. d \in Dates!TabShows <=> holiday[d] # None
  BY <1>1 DEF Dates!TabShows
<1>3. d \in Dates!CalendarShows <=> Marking(d) # {} \/ (holiday[d] # None /\ holiday[d].event = None)
  BY <1>1 DEF Dates!CalendarShows, Marking
<1>4. QED BY <1>1, <1>2, <1>3 DEF Mirrors

LEMMA OffersHold ==
    ASSUME DatesInv
    PROVE  Dates!OffersAreGood
<1> SUFFICES ASSUME NEW q \in Teachers, NEW d \in Days, NEW s \in Teachers \ {q},
                    Dates!SchoolDay(d), d \in week.slots[q]
             PROVE  <<s, d>> \notin Dates!BusySlots \cup Dates!CoveringThen \cup Dates!OnLeave <=> ~Dates!Busy(s, d)
  BY DEF Dates!OffersAreGood, Dates!Offered
<1>1. <<s, d>> \in Dates!OnLeave <=> leave[s] # None /\ d \in leave[s].days
  BY DEF Dates!OnLeave
<1>2. <<s, d>> \in Dates!BusySlots <=> d \in week.slots[s]
  BY DEF Dates!BusySlots, Dates!SchoolDay
<1>3. <<s, d>> \in Dates!CoveringThen <=> Dates!Covering(s, d) # {}
  BY DEF Dates!CoveringThen, Dates!Covering
<1>4. QED BY <1>1, <1>2, <1>3 DEF Dates!Busy

\* The instance's Cardinality counts as any other.
LEMMA SameCount == \A S : Dates!Cardinality(S) = Cardinality(S)
BY Zenon DEF Dates!Cardinality, Cardinality

\* A period counts once, however many were asked: periods covered are days of the accepted requests.
LEMMA CoverageHolds ==
    ASSUME DatesInv
    PROVE  Dates!CoverageAddsUp
<1> SUFFICES ASSUME NEW u \in Teachers, leave[u] # None
             PROVE  /\ Dates!Counts(u).covered + Dates!Counts(u).pending <= Dates!Counts(u).periods
                    /\ \A d \in leave[u].days : d \in week.slots[u] /\ d \notin week.sundays =>
                          (d \in Dates!Teaching(u) <=> holiday[d] = None)
                    /\ Dates!Cardinality(UNION {Dates!Accepted(u, d) : d \in leave[u].days}) >= Dates!Counts(u).covered
  BY DEF Dates!CoverageAddsUp
<1> DEFINE T == Dates!Teaching(u)
           C == {d \in T : Dates!StateOf(u, d) = "accepted"}
           P == {d \in T : Dates!StateOf(u, d) = "pending"}
           A == UNION {Dates!Accepted(u, d) : d \in leave[u].days}
<1>1. leave[u].days \subseteq Days
  BY CalendarAssumption DEF DatesInv, CoverShapes
<1>2. IsFiniteSet(T) /\ IsFiniteSet(C) /\ IsFiniteSet(P)
  <2>1. T \subseteq Days /\ C \subseteq Days /\ P \subseteq Days
    BY <1>1 DEF Dates!Teaching
  <2>2. QED BY <2>1, CalendarAssumption, FS_Subset
<1>3. IsFiniteSet(A)
  <2> DEFINE pairs == Teachers \X Days
             g == [k \in A |-> <<k[2], k[3]>>]
  <2>1. IsFiniteSet(pairs)
    BY CalendarAssumption, FS_Product
  <2>2. \A k \in A : <<k[2], k[3]>> \in pairs /\ k = <<u, k[2], k[3]>>
    BY DEF Dates!Accepted, Dates!Requests
  <2> HIDE DEF pairs, A
  <2>3. g \in Injection(A, pairs)
    BY <2>2 DEF Injection, IsInjective
  <2>4. QED BY <2>1, <2>3, FS_Injection
<1>4. /\ Dates!Counts(u).periods = Cardinality(T) /\ Dates!Counts(u).covered = Cardinality(C)
      /\ Dates!Counts(u).pending = Cardinality(P)
  BY SameCount DEF Dates!Counts
<1>5. Cardinality(C) + Cardinality(P) <= Cardinality(T)
  <2>1. C \cap P = {} /\ C \cup P \subseteq T
    OBVIOUS
  <2>2. Cardinality(C \cup P) = Cardinality(C) + Cardinality(P) - Cardinality(C \cap P) /\ IsFiniteSet(C \cup P)
    BY <1>2, FS_Union
  <2>3. Cardinality(C \cap P) = 0
    BY <2>1, FS_EmptySet
  <2>4. Cardinality(C \cup P) <= Cardinality(T)
    BY <1>2, <2>1, FS_Subset
  <2>5. Cardinality(C) \in Nat /\ Cardinality(P) \in Nat /\ Cardinality(T) \in Nat
    BY <1>2, FS_CardinalityType
  <2>6. QED BY <2>2, <2>3, <2>4, <2>5
<1>6. Cardinality(C) <= Cardinality(A)
  <2> DEFINE f == [d \in C |-> CHOOSE k : k \in Dates!Accepted(u, d)]
  <2>1. \A d \in C : f[d] \in A /\ f[d][3] = d
    <3> SUFFICES ASSUME NEW d \in C  PROVE f[d] \in A /\ f[d][3] = d
      OBVIOUS
    <3>1. Dates!Accepted(u, d) # {}
      BY DEF Dates!StateOf
    <3>2. f[d] \in Dates!Accepted(u, d)
      BY <3>1
    <3>3. d \in leave[u].days
      BY DEF Dates!Teaching
    <3>4. f[d][3] = d
      BY <3>2 DEF Dates!Accepted
    <3>5. QED BY <3>2, <3>3, <3>4
  <2>2. f \in [C -> A]
    BY <2>1
  <2>3. \A x, y \in C : f[x] = f[y] => x = y
    BY <2>1
  <2>4. f \in Injection(C, A)
    BY <2>2, <2>3 DEF Injection, IsInjective
  <2>5. QED BY <1>2, <1>3, <2>4, FS_Injection
<1>7. \A d \in leave[u].days : d \in week.slots[u] /\ d \notin week.sundays => (d \in T <=> holiday[d] = None)
  BY DEF Dates!Teaching, Dates!SchoolDay
<1>8. Dates!Cardinality(A) = Cardinality(A) /\ Cardinality(C) \in Nat /\ Cardinality(A) \in Nat
  BY SameCount, <1>2, <1>3, FS_CardinalityType
<1> HIDE DEF T, C, P, A
<1>9. QED BY <1>4, <1>5, <1>6, <1>7, <1>8 DEF T, A

-----------------------------------------------------------------------------
(* Once a day *)

RunSteps == {"due_soon", "overdue", "remind"}
Steps == {"idle", "insert", "update", "purge", "in", "out"} \cup RunSteps
Phases == [at : Steps, now : 0..MaxNow, n : Nat, holds : SUBSET (Ids \cup {"gap", "row"}),
           view : {None} \cup SUBSET (Ids \X Once!Kinds), items : SUBSET (Ids \X Once!Kinds), done : SUBSET Ids]

OnceShapes ==
    /\ task \in {"cleanup", "reminders", "attendance"} /\ now \in 0..MaxNow /\ old \in 0..MaxOld
    /\ paid \subseteq Ids /\ sent \subseteq Ids \X Once!Kinds /\ told \in [Ids \X Once!Kinds -> Nat]
    /\ row \in {None} \cup [in : 0..MaxNow, out : (0..MaxNow) \cup {None}]

\* No run was claimed after the last one, and any two were claimed a day apart.
ClaimsOk ==
    /\ last \in {None} \cup (-RunEvery - 1)..MaxNow
    /\ \A c \in claims : c[2] \in 0..MaxNow /\ last # None /\ c[2] <= last
    /\ Once!OneCleanUpADay

\* A run of the reminders: it holds the fees of the queries that have ended; and when it has seen
\* what is sent, it holds a fee that is due, and what it saw is still so.
RunOk(c) ==
    /\ c.done \subseteq c.holds
    /\ c.at # "due_soon" => \A f \in Ids : Once!InRange("due_soon", f, c.now) => f \in c.holds
    /\ c.at = "remind" => \A f \in Ids : Once!InRange("overdue", f, c.now) => f \in c.holds
    /\ c.view = None => c.items = {}
    /\ c.view # None => /\ c.items \cap c.view = {}
                        /\ \E f \in Ids \cap c.holds, k \in Once!Kinds : Once!InRange(k, f, c.now)
                        /\ ~astride => c.view = sent

Sound(c) ==
    /\ c.at = "update" => last # None
    /\ c.at = "out" /\ c.holds # {} => row # None
    /\ IF c.at \in RunSteps THEN task = "reminders" /\ RunOk(c) ELSE c.view = None /\ c.items = {}

\* Two runs hold different fees; and they are of one day, unless two days are astride.
Apart(c, d) ==
    c.at \in RunSteps /\ d.at \in RunSteps => c.holds \cap d.holds = {} /\ (~astride => c.now = d.now)

ProcsOk ==
    /\ proc \in [Workers -> Phases]
    /\ \A p \in Workers : Sound(proc[p])
    /\ \A p, q \in Workers : p # q => Apart(proc[p], proc[q])

OnceInv == OnceShapes /\ ClaimsOk /\ ProcsOk /\ Once!RemindedOnce

LEMMA NoneIsNothing ==
    /\ None \notin Int /\ None \notin SUBSET (Ids \X Once!Kinds)
    /\ None \notin [in : 0..MaxNow, out : (0..MaxNow) \cup {None}]
BY DailyAssumption DEF Once!Kinds

LEMMA IdleIsPhase == Once!Idle \in Phases
BY DailyAssumption DEF Once!Idle, Phases, Steps

LEMMA OnceStart ==
    ASSUME Once!Init
    PROVE  OnceInv
<1>1. OnceShapes
  BY DailyAssumption DEF Once!Init, OnceShapes
<1>2. ClaimsOk
  BY DEF Once!Init, ClaimsOk, Once!OneCleanUpADay
<1>3. ProcsOk
  <2>1. proc \in [Workers -> Phases] /\ \A p \in Workers : proc[p] = Once!Idle
    BY IdleIsPhase DEF Once!Init
  <2>2. Once!Idle.at = "idle" /\ Once!Idle.view = None /\ Once!Idle.items = {}
    BY DEF Once!Idle
  <2>3. QED BY <2>1, <2>2 DEF ProcsOk, Sound, Apart, RunSteps
<1>4. Once!RemindedOnce
  BY DEF Once!Init, Once!RemindedOnce
<1>5. QED BY <1>1, <1>2, <1>3, <1>4 DEF OnceInv

\* One process goes on, and what the others rely on stays.
LEMMA OneGoesOn ==
    ASSUME ProcsOk, NEW p \in Workers, NEW s \in Phases, Once!Goes(p, s), Sound(proc[p])',
           UNCHANGED <<task, due, paid, sent, astride>>, last # None => last' # None, row # None => row' # None,
           s.at \in RunSteps =>
               /\ proc[p].at \in RunSteps /\ s.now = proc[p].now
               /\ \A q \in Workers \ {p} : proc[q].at \in RunSteps => s.holds \cap proc[q].holds = {}
    PROVE  ProcsOk'
<1>1. proc' \in [Workers -> Phases] /\ proc'[p] = s /\ \A q \in Workers \ {p} : proc'[q] = proc[q]
  BY DEF Once!Goes, ProcsOk
<1>2. \A q \in Workers : Sound(proc[q])'
  <2> SUFFICES ASSUME NEW q \in Workers \ {p}  PROVE Sound(proc[q])'
    OBVIOUS
  <2>2. Sound(proc[q]) /\ proc'[q] = proc[q]
    BY <1>1 DEF ProcsOk
  <2>3. QED BY <2>2 DEF Sound, RunOk, Once!InRange
<1>3. \A q, r \in Workers : q # r => Apart(proc[q], proc[r])'
  <2> SUFFICES ASSUME NEW q \in Workers, NEW r \in Workers, q # r  PROVE Apart(proc[q], proc[r])'
    OBVIOUS
  <2>2. Apart(proc[q], proc[r]) /\ Apart(proc[r], proc[q])
    BY Zenon DEF ProcsOk
  <2>3. CASE q = p
    BY <1>1, <2>2, <2>3 DEF Apart
  <2>4. CASE r = p
    BY <1>1, <2>2, <2>4 DEF Apart
  <2>5. CASE q # p /\ r # p
    BY <1>1, <2>2, <2>5 DEF Apart
  <2>6. QED BY <2>3, <2>4, <2>5
<1>4. QED BY <1>1, <1>2, <1>3 DEF ProcsOk

\* Nothing is held or seen by a process that is idle.
LEMMA ProcessDies ==
    ASSUME OnceInv, NEW p \in Workers, Once!Crash(p)
    PROVE  OnceInv'
<1>1. Once!Goes(p, Once!Idle) /\ UNCHANGED <<task, now, last, old, claims, due, paid, sent, told, astride, row>>
  BY DEF Once!Crash, Once!cleanup, Once!fees
<1>2. Sound(proc[p])' /\ Once!Idle.at \notin RunSteps
  BY <1>1 DEF Once!Goes, Once!Idle, Sound, RunSteps, OnceInv, ProcsOk
<1>3. ProcsOk'
  BY <1>1, <1>2, IdleIsPhase, OneGoesOn DEF OnceInv
<1>4. QED BY <1>1, <1>3 DEF OnceInv, OnceShapes, ClaimsOk, Once!OneCleanUpADay, Once!RemindedOnce

LEMMA TickKeeps ==
    ASSUME OnceInv, Once!Tick
    PROVE  OnceInv'
<1>1. /\ now' = now + 1 /\ now < MaxNow /\ old' \in {old, old + 1, old + PurgeBatch} /\ old' <= MaxOld
      /\ UNCHANGED <<task, last, claims, due, paid, sent, told, astride, row, proc>>
  BY DEF Once!Tick, Once!fees
<1>2. OnceShapes'
  BY <1>1, DailyAssumption DEF OnceInv, OnceShapes
<1>3. ProcsOk'
  BY <1>1 DEF OnceInv, ProcsOk, Sound, RunOk, Apart, Once!InRange
<1>4. QED BY <1>1, <1>2, <1>3 DEF OnceInv, ClaimsOk, Once!OneCleanUpADay, Once!RemindedOnce

(* The clean-up *)

\* A process that has just read the clock.
Fresh(op) == [Once!Idle EXCEPT !.at = op, !.now = now]
LEMMA FreshFields ==
    ASSUME now \in 0..MaxNow, NEW op \in Steps
    PROVE  /\ Fresh(op) \in Phases /\ Fresh(op).at = op /\ Fresh(op).now = now /\ Fresh(op).holds = {}
           /\ Fresh(op).view = None /\ Fresh(op).items = {} /\ Fresh(op).done = {}
<1>1. Fresh(op) = [at |-> op, now |-> now, n |-> 0, holds |-> {}, view |-> None, items |-> {}, done |-> {}]
  <2>1. Fresh(op) = [[Once!Idle EXCEPT !.at = op] EXCEPT !.now = now]
    BY Zenon DEF Fresh
  <2>2. [Once!Idle EXCEPT !.at = op] = [at |-> op, now |-> 0, n |-> 0, holds |-> {}, view |-> None, items |-> {}, done |-> {}]
    BY DEF Once!Idle
  <2>3. QED BY <2>1, <2>2
<1>2. QED BY <1>1 DEF Phases

\* The process has read the clock, for the clean-up or to check in or out: it holds nothing yet.
LEMMA ClockRead ==
    ASSUME OnceInv, NEW p \in Workers, NEW op \in {"insert", "in", "out"}, Once!Goes(p, Fresh(op)),
           UNCHANGED <<task, now, last, old, claims, due, paid, sent, told, astride, row>>
    PROVE  OnceInv'
<1>1. /\ Fresh(op) \in Phases /\ Fresh(op).at = op /\ Fresh(op).holds = {} /\ Fresh(op).view = None
      /\ Fresh(op).items = {}
  BY FreshFields DEF OnceInv, OnceShapes, Steps
<1>2. proc'[p] = Fresh(op)
  BY DEF Once!Goes, OnceInv, ProcsOk
<1>3. Sound(proc[p])' /\ Fresh(op).at \notin RunSteps
  BY <1>1, <1>2 DEF Sound, RunSteps
<1>4. ProcsOk'
  BY <1>1, <1>3, OneGoesOn DEF OnceInv
<1>5. QED BY <1>4 DEF OnceInv, OnceShapes, ClaimsOk, Once!OneCleanUpADay, Once!RemindedOnce

LEMMA OnceStartKeeps ==
    ASSUME OnceInv, NEW p \in Workers, Once!Start(p)
    PROVE  OnceInv'
<1>1. Once!Goes(p, Fresh("insert")) /\ UNCHANGED <<task, now, last, old, claims, due, paid, sent, told, astride, row>>
  BY Zenon DEF Once!Start, Fresh, Once!cleanup, Once!fees
<1>2. QED BY <1>1, ClockRead

LEMMA OnceClockKeeps ==
    ASSUME OnceInv, NEW p \in Workers, NEW op \in {"in", "out"}, Once!Clock(p, op)
    PROVE  OnceInv'
<1>1. Once!Goes(p, Fresh(op)) /\ UNCHANGED <<task, now, last, old, claims, due, paid, sent, told, astride, row>>
  BY Zenon DEF Once!Clock, Fresh, Once!cleanup, Once!fees
<1>2. QED BY <1>1, ClockRead

LEMMA InsertKeeps ==
    ASSUME OnceInv, NEW p \in Workers, Once!Insert(p)
    PROVE  OnceInv'
<1> DEFINE s == [proc[p] EXCEPT !.at = "update"]
<1>1. proc[p] \in Phases /\ Sound(proc[p]) /\ proc[p].at = "insert"
  BY DEF OnceInv, ProcsOk, Once!Insert, Once!Step
<1>2. /\ Once!Goes(p, s) /\ last' = (IF last = None THEN proc[p].now - RunEvery - 1 ELSE last)
      /\ UNCHANGED <<task, now, old, claims, due, paid, sent, told, astride, row>>
  BY DEF Once!Insert, Once!Inserted, Once!fees
<1>3. s \in Phases /\ s.at = "update" /\ s.view = None /\ s.items = {}
  BY <1>1 DEF Phases, Steps, Sound, RunSteps
<1>4. proc'[p] = s
  BY <1>2 DEF Once!Goes, OnceInv, ProcsOk
<1>5. proc[p].now \in 0..MaxNow
  BY <1>1 DEF Phases
<1>6. last' \in (-RunEvery - 1)..MaxNow /\ last' # None
  BY <1>2, <1>5, DailyAssumption DEF OnceInv, ClaimsOk
<1>7. Sound(proc[p])' /\ s.at \notin RunSteps
  BY <1>3, <1>4, <1>6 DEF Sound, RunSteps
<1> HIDE DEF s
<1>8. ProcsOk'
  BY <1>2, <1>3, <1>6, <1>7, OneGoesOn DEF OnceInv
<1>9. ClaimsOk'
  BY <1>2, <1>6 DEF OnceInv, ClaimsOk, Once!OneCleanUpADay
<1>10. QED BY <1>2, <1>8, <1>9 DEF OnceInv, OnceShapes, Once!RemindedOnce

\* A process that does not hold or see anything starts over, or goes on with its purge.
LEMMA ClaimKeepsClaims ==
    ASSUME OnceInv, NEW p \in Workers, Once!Claim(p)
    PROVE  ClaimsOk' /\ (last # None => last' # None)
<1>1. proc[p] \in Phases /\ Sound(proc[p]) /\ proc[p].at = "update"
  BY DEF OnceInv, ProcsOk, Once!Claim, Once!Step
<1>2. last \in (-RunEvery - 1)..MaxNow /\ last # None /\ proc[p].now \in 0..MaxNow
  BY <1>1, NoneIsNothing DEF OnceInv, ClaimsOk, Sound, Phases
<1>3. CASE last < proc[p].now - RunEvery
  <2>1. last' = proc[p].now /\ claims' = claims \cup {<<p, proc[p].now>>}
    BY <1>3 DEF Once!Claim
  <2>2. last' \in (-RunEvery - 1)..MaxNow /\ last' # None
    BY <1>2, <2>1, DailyAssumption
  <2>3. \A c \in claims : c[2] \in 0..MaxNow /\ c[2] <= last'  /\ proc[p].now - c[2] > RunEvery
    BY <1>2, <1>3, <2>1, DailyAssumption DEF OnceInv, ClaimsOk
  <2>4. QED BY <1>2, <2>1, <2>2, <2>3, DailyAssumption DEF OnceInv, ClaimsOk, Once!OneCleanUpADay
<1>4. CASE ~(last < proc[p].now - RunEvery)
  BY <1>4 DEF Once!Claim, OnceInv, ClaimsOk, Once!OneCleanUpADay
<1>5. QED BY <1>3, <1>4

LEMMA ClaimOnceKeeps ==
    ASSUME OnceInv, NEW p \in Workers, Once!Claim(p)
    PROVE  OnceInv'
<1> DEFINE s == IF last < proc[p].now - RunEvery THEN [proc[p] EXCEPT !.at = "purge"] ELSE Once!Idle
<1>1. proc[p] \in Phases /\ Sound(proc[p]) /\ proc[p].at = "update"
  BY DEF OnceInv, ProcsOk, Once!Claim, Once!Step
<1>2. Once!Goes(p, s) /\ UNCHANGED <<task, now, old, due, paid, sent, told, astride, row>>
  BY DEF Once!Claim, Once!fees
<1>3. s \in Phases /\ s.at \in {"purge", "idle"} /\ s.view = None /\ s.items = {}
  <2>1. [proc[p] EXCEPT !.at = "purge"] \in Phases
    BY <1>1 DEF Phases, Steps
  <2>2. QED BY <1>1, <2>1, IdleIsPhase DEF Phases, Sound, RunSteps, Once!Idle
<1>4. proc'[p] = s
  BY <1>2 DEF Once!Goes, OnceInv, ProcsOk
<1> HIDE DEF s
<1>5. Sound(proc[p])' /\ s.at \notin RunSteps
  BY <1>3, <1>4 DEF Sound, RunSteps
<1>6. ProcsOk'
  BY <1>2, <1>3, <1>5, ClaimKeepsClaims, OneGoesOn DEF OnceInv
<1>7. QED BY <1>2, <1>6, ClaimKeepsClaims DEF OnceInv, OnceShapes, Once!RemindedOnce

LEMMA OncePurges ==
    ASSUME OnceInv, NEW p \in Workers, Once!PurgeOne(p)
    PROVE  OnceInv'
<1> DEFINE removed == IF old < PurgeBatch THEN old ELSE PurgeBatch
           s == IF removed < PurgeBatch \/ proc[p].n + 1 = MaxBatches THEN Once!Idle ELSE [proc[p] EXCEPT !.n = @ + 1]
<1>1. proc[p] \in Phases /\ Sound(proc[p]) /\ proc[p].at = "purge"
  BY DEF OnceInv, ProcsOk, Once!PurgeOne, Once!Step
<1>2. /\ Once!Goes(p, s) /\ old' = old - removed
      /\ UNCHANGED <<task, now, last, claims, due, paid, sent, told, astride, row>>
  BY DEF Once!PurgeOne, Once!fees
<1>3. s \in Phases /\ s.at \in {"purge", "idle"} /\ s.view = None /\ s.items = {}
  <2>1. [proc[p] EXCEPT !.n = proc[p].n + 1] \in Phases
    BY <1>1 DEF Phases
  <2>2. QED BY <1>1, <2>1, IdleIsPhase DEF Phases, Sound, RunSteps, Once!Idle
<1>4. proc'[p] = s /\ old' \in 0..MaxOld
  BY <1>2, DailyAssumption DEF Once!Goes, OnceInv, ProcsOk, OnceShapes
<1> HIDE DEF s, removed
<1>5. Sound(proc[p])' /\ s.at \notin RunSteps
  BY <1>3, <1>4 DEF Sound, RunSteps
<1>6. ProcsOk'
  BY <1>2, <1>3, <1>5, OneGoesOn DEF OnceInv
<1>7. QED BY <1>2, <1>4, <1>6 DEF OnceInv, OnceShapes, ClaimsOk, Once!OneCleanUpADay, Once!RemindedOnce

(* The reminders *)

LEMMA RemindKeeps ==
    ASSUME OnceInv, NEW p \in Workers, Once!Remind(p)
    PROVE  OnceInv'
<1> DEFINE s == Fresh("due_soon")
<1>1. /\ Once!Goes(p, s) /\ task = "reminders"
      /\ astride' = (astride \/ \E q \in Once!Reminding : proc[q].now # now)
      /\ UNCHANGED <<task, now, last, old, claims, due, paid, sent, told, row>>
  BY Zenon DEF Once!Remind, Fresh, Once!cleanup
<1>2. /\ s \in Phases /\ s.at = "due_soon" /\ s.now = now /\ s.holds = {} /\ s.view = None /\ s.items = {}
      /\ s.done = {}
  BY FreshFields DEF OnceInv, OnceShapes, Steps, RunSteps
<1> HIDE DEF s
<1>3. proc' \in [Workers -> Phases] /\ proc'[p] = s /\ \A q \in Workers \ {p} : proc'[q] = proc[q]
  BY <1>1, <1>2 DEF Once!Goes, OnceInv, ProcsOk
<1>4. astride => astride'
  BY <1>1, Zenon
<1>5. ~astride' => \A q \in Workers : proc[q].at \in RunSteps => proc[q].now = now
  BY <1>1, Zenon DEF Once!Reminding, RunSteps
<1>6. \A q \in Workers : Sound(proc[q])'
  <2>1. Sound(proc[p])'
    BY <1>1, <1>2, <1>3 DEF Sound, RunOk, RunSteps
  <2>2. ASSUME NEW q \in Workers \ {p}  PROVE Sound(proc[q])'
    <3>1. Sound(proc[q]) /\ proc'[q] = proc[q]
      BY <1>3 DEF OnceInv, ProcsOk
    <3>2. QED BY <1>1, <1>4, <3>1 DEF Sound, RunOk, Once!InRange
  <2>3. QED BY <2>1, <2>2
<1>7. ASSUME NEW q \in Workers, NEW r \in Workers, q # r  PROVE Apart(proc[q], proc[r])'
  <2>1. Apart(proc[q], proc[r])
    BY <1>7 DEF OnceInv, ProcsOk
  <2>2. CASE q = p
    BY <1>2, <1>3, <1>5, <1>7, <2>2 DEF Apart
  <2>3. CASE r = p
    BY <1>2, <1>3, <1>5, <1>7, <2>3 DEF Apart
  <2>4. CASE q # p /\ r # p
    BY <1>3, <1>4, <2>1, <2>4 DEF Apart
  <2>5. QED BY <2>2, <2>3, <2>4
<1>8. ProcsOk'
  BY <1>3, <1>6, <1>7 DEF ProcsOk
<1>9. Once!RemindedOnce'
  BY <1>1, <1>4 DEF OnceInv, Once!RemindedOnce
<1>10. QED BY <1>1, <1>8, <1>9 DEF OnceInv, OnceShapes, ClaimsOk, Once!OneCleanUpADay

\* A fee is locked and read: the first time, what is sent is seen as well.
LEMMA ScanKeeps ==
    ASSUME OnceInv, NEW p \in Workers, NEW f \in Ids, Once!Scan(p, f)
    PROVE  OnceInv'
<1> DEFINE c == proc[p]
           seen == IF c.view = None THEN sent ELSE c.view
           items == IF <<f, c.at>> \in seen THEN c.items ELSE c.items \cup {<<f, c.at>>}
           s == [at |-> c.at, now |-> c.now, n |-> c.n, holds |-> c.holds \cup {f}, view |-> seen, items |-> items,
                 done |-> c.done \cup {f}]
<1>1. c \in Phases /\ Sound(c) /\ c.at \in Once!Kinds /\ Once!InRange(c.at, f, c.now) /\ ~Once!Locked(f, p)
  BY DEF OnceInv, ProcsOk, Once!Scan, Once!Locks
<1>2. Once!Goes(p, s) /\ UNCHANGED <<task, now, last, old, claims, due, paid, sent, told, astride, row>>
  <2>1. [c EXCEPT !.done = @ \cup {f}, !.holds = @ \cup {f}, !.view = seen,
                  !.items = IF <<f, c.at>> \in seen THEN @ ELSE @ \cup {<<f, c.at>>}] = s
    <3> DEFINE a == [c EXCEPT !.done = c.done \cup {f}]
               b == [a EXCEPT !.holds = c.holds \cup {f}]
               d == [b EXCEPT !.view = seen]
               e == [d EXCEPT !.items = items]
    <3>1. a = [at |-> c.at, now |-> c.now, n |-> c.n, holds |-> c.holds, view |-> c.view, items |-> c.items,
               done |-> c.done \cup {f}]
      BY <1>1 DEF Phases
    <3> HIDE DEF a, c
    <3>2. b = [at |-> c.at, now |-> c.now, n |-> c.n, holds |-> c.holds \cup {f}, view |-> c.view, items |-> c.items,
               done |-> c.done \cup {f}]
      BY <3>1
    <3> HIDE DEF b, seen, items
    <3>3. d = [at |-> c.at, now |-> c.now, n |-> c.n, holds |-> c.holds \cup {f}, view |-> seen, items |-> c.items,
               done |-> c.done \cup {f}]
      BY <3>2
    <3> HIDE DEF d
    <3>4. e = s /\ a.holds = c.holds /\ d.items = c.items
      <4>1. a.holds = c.holds /\ d.items = c.items
        BY <3>1, <3>3
      <4>2. e = [at |-> c.at, now |-> c.now, n |-> c.n, holds |-> c.holds \cup {f}, view |-> seen, items |-> items,
                 done |-> c.done \cup {f}]
        BY <3>3
      <4>3. QED BY <4>1, <4>2, Zenon
    <3> HIDE DEF s
    <3>5. [c EXCEPT !.done = @ \cup {f}, !.holds = @ \cup {f}, !.view = seen,
                    !.items = IF <<f, c.at>> \in seen THEN @ ELSE @ \cup {<<f, c.at>>}] = e
      BY <3>4, Zenon DEF a, b, d, items
    <3>6. QED BY <3>4, <3>5
  <2>2. QED BY <2>1, Zenon DEF Once!Scan, Once!Locks, Once!cleanup, Once!fees
<1>3. s \in Phases /\ c.at \in RunSteps
  BY <1>1 DEF Phases, OnceInv, OnceShapes, Once!Kinds, RunSteps
<1>4. proc'[p] = s
  BY <1>2 DEF Once!Goes, OnceInv, ProcsOk
<1>5. RunOk(c) /\ task = "reminders"
  BY <1>1, <1>3 DEF Sound
<1>6. seen # None
  BY NoneIsNothing DEF OnceInv, OnceShapes
<1>7. items \cap seen = {} /\ (~astride => seen = sent)
  BY <1>5 DEF RunOk
<1>8. RunOk(s)
  <2>1. s.done \subseteq s.holds /\ c.holds \subseteq s.holds /\ f \in s.holds
    BY <1>5 DEF RunOk
  <2>2. s.at = c.at /\ s.now = c.now /\ s.view = seen /\ s.items = items
    OBVIOUS
  <2> HIDE DEF c, s, seen, items
  <2>3. \E g \in Ids \cap s.holds, k \in Once!Kinds : Once!InRange(k, g, s.now)
    BY <1>1, <2>1, <2>2
  <2>4. QED BY <1>5, <1>6, <1>7, <2>1, <2>2, <2>3 DEF RunOk
<1>9. Sound(proc[p])'
  <2>1. s.at = c.at
    OBVIOUS
  <2> HIDE DEF c, s
  <2>2. RunOk(proc[p])'
    BY <1>2, <1>4, <1>8 DEF RunOk, Once!InRange
  <2>3. QED BY <1>1, <1>2, <1>3, <1>4, <1>5, <2>1, <2>2 DEF Sound, RunSteps, Once!Kinds
<1>10. \A q \in Workers \ {p} : proc[q].at \in RunSteps => s.holds \cap proc[q].holds = {}
  <2> SUFFICES ASSUME NEW q \in Workers \ {p}, proc[q].at \in RunSteps  PROVE s.holds \cap proc[q].holds = {}
    OBVIOUS
  <2>1. c.holds \cap proc[q].holds = {}
    BY <1>3 DEF OnceInv, ProcsOk, Apart
  <2>2. f \notin proc[q].holds
    BY <1>1 DEF Once!Locked
  <2>3. QED BY <2>1, <2>2
<1>11. s.now = c.now
  OBVIOUS
<1> HIDE DEF s
<1>12. ProcsOk'
  BY <1>2, <1>3, <1>9, <1>10, <1>11, OneGoesOn DEF OnceInv
<1>13. QED BY <1>2, <1>12 DEF OnceInv, OnceShapes, ClaimsOk, Once!OneCleanUpADay, Once!RemindedOnce

LEMMA ScanEndKeeps ==
    ASSUME OnceInv, NEW p \in Workers, Once!ScanEnds(p)
    PROVE  OnceInv'
<1> DEFINE c == proc[p]
           next == IF c.at = "due_soon" THEN "overdue" ELSE "remind"
           s == [at |-> next, now |-> c.now, n |-> c.n, holds |-> c.holds, view |-> c.view, items |-> c.items, done |-> {}]
<1>1. /\ c \in Phases /\ Sound(c) /\ c.at \in Once!Kinds
      /\ \A f \in Ids : Once!InRange(c.at, f, c.now) => f \in c.done
  BY DEF OnceInv, ProcsOk, Once!ScanEnds
<1>2. Once!Goes(p, s) /\ UNCHANGED <<task, now, last, old, claims, due, paid, sent, told, astride, row>>
  <2>1. [c EXCEPT !.at = IF c.at = "due_soon" THEN "overdue" ELSE "remind", !.done = {}] = s
    <3> DEFINE a == [c EXCEPT !.at = next]
    <3>1. a = [at |-> next, now |-> c.now, n |-> c.n, holds |-> c.holds, view |-> c.view, items |-> c.items, done |-> c.done]
      BY <1>1 DEF Phases
    <3> HIDE DEF a, next, c
    <3>2. [a EXCEPT !.done = {}] = s
      BY <3>1
    <3>3. QED BY <3>2, Zenon DEF a, next
  <2>2. QED BY <2>1, Zenon DEF Once!ScanEnds, Once!cleanup, Once!fees
<1>3. s \in Phases /\ c.at \in RunSteps /\ s.at \in {"overdue", "remind"}
  BY <1>1 DEF Phases, Once!Kinds, RunSteps, Steps
<1>4. proc'[p] = s
  BY <1>2 DEF Once!Goes, OnceInv, ProcsOk
<1>5. RunOk(c) /\ task = "reminders"
  BY <1>1, <1>3 DEF Sound
<1>6. RunOk(s)
  <2>1. /\ s.now = c.now /\ s.holds = c.holds /\ s.view = c.view /\ s.items = c.items /\ s.done = {}
        /\ s.at = next /\ c.at \in {"due_soon", "overdue"}
    BY <1>1 DEF Once!Kinds
  <2> HIDE DEF c, s
  <2>2. CASE c.at = "due_soon"
    BY <1>1, <1>5, <2>1, <2>2 DEF RunOk
  <2>3. CASE c.at = "overdue"
    BY <1>1, <1>5, <2>1, <2>3 DEF RunOk
  <2>4. QED BY <2>1, <2>2, <2>3
<1>7. s.now = c.now /\ s.holds = c.holds
  OBVIOUS
<1>8. \A q \in Workers \ {p} : proc[q].at \in RunSteps => s.holds \cap proc[q].holds = {}
  BY <1>3, <1>7 DEF OnceInv, ProcsOk, Apart
<1> HIDE DEF s
<1>9. Sound(proc[p])'
  <2>1. RunOk(proc[p])'
    BY <1>2, <1>4, <1>6 DEF RunOk, Once!InRange
  <2>2. QED BY <1>2, <1>3, <1>4, <1>5, <2>1 DEF Sound, RunSteps
<1>10. ProcsOk'
  BY <1>2, <1>3, <1>7, <1>8, <1>9, OneGoesOn DEF OnceInv
<1>11. QED BY <1>2, <1>10 DEF OnceInv, OnceShapes, ClaimsOk, Once!OneCleanUpADay, Once!RemindedOnce

\* The run commits: nobody else of the same day has looked at what is sent, for it would hold a fee
\* that this run holds.
LEMMA RemindCommitsKeeps ==
    ASSUME OnceInv, NEW p \in Workers, Once!RemindCommits(p)
    PROVE  OnceInv'
<1> DEFINE c == proc[p]
<1>1. c \in Phases /\ Sound(c) /\ c.at = "remind" /\ c.at \in RunSteps
  BY DEF OnceInv, ProcsOk, Once!RemindCommits, Once!Step, RunSteps
<1>2. /\ sent' = sent \cup c.items
      /\ told' = [k \in Ids \X Once!Kinds |-> IF k \in c.items THEN told[k] + 1 ELSE told[k]]
      /\ Once!Goes(p, Once!Idle) /\ UNCHANGED <<task, now, last, old, claims, due, paid, astride, row>>
  BY DEF Once!RemindCommits, Once!cleanup
<1>3. RunOk(c) /\ c.items \subseteq Ids \X Once!Kinds
  BY <1>1 DEF Sound, Phases
<1>4. proc' \in [Workers -> Phases] /\ proc'[p] = Once!Idle /\ \A q \in Workers \ {p} : proc'[q] = proc[q]
  BY <1>2, IdleIsPhase DEF Once!Goes, OnceInv, ProcsOk
<1>5. Once!Idle.at = "idle" /\ Once!Idle.view = None /\ Once!Idle.items = {}
  BY DEF Once!Idle
<1>6. ASSUME NEW q \in Workers \ {p}, proc[q].at \in RunSteps, ~astride  PROVE proc[q].view = None
  <2>1. SUFFICES ASSUME proc[q].view # None  PROVE FALSE
    OBVIOUS
  <2>2. RunOk(proc[q])
    BY <1>6 DEF OnceInv, ProcsOk, Sound
  <2>3. PICK f \in Ids \cap proc[q].holds, k \in Once!Kinds : Once!InRange(k, f, proc[q].now)
    BY <2>1, <2>2 DEF RunOk
  <2>4. proc[q].now = c.now /\ c.holds \cap proc[q].holds = {}
    BY <1>1, <1>6 DEF OnceInv, ProcsOk, Apart
  <2>5. f \in c.holds
    BY <1>1, <1>3, <2>3, <2>4 DEF RunOk, Once!Kinds
  <2>6. QED BY <2>3, <2>4, <2>5
<1>7. ASSUME NEW q \in Workers  PROVE Sound(proc[q])'
  <2>1. CASE q = p
    BY <1>4, <1>5, <2>1 DEF Sound, RunSteps
  <2>2. CASE q # p /\ proc[q].at \notin RunSteps
    BY <1>2, <1>4, <2>2 DEF Sound, OnceInv, ProcsOk
  <2>3. CASE q # p /\ proc[q].at \in RunSteps
    <3>1. RunOk(proc[q]) /\ Sound(proc[q])
      BY <2>3 DEF OnceInv, ProcsOk, Sound
    <3>2. RunOk(proc[q])'
      BY <1>2, <1>4, <1>6, <2>3, <3>1 DEF RunOk, Once!InRange
    <3>3. QED BY <1>2, <1>4, <2>3, <3>1, <3>2 DEF Sound
  <2>4. QED BY <2>1, <2>2, <2>3
<1>8. ASSUME NEW q \in Workers, NEW r \in Workers, q # r  PROVE Apart(proc[q], proc[r])'
  <2>1. Apart(proc[q], proc[r])
    BY <1>8 DEF OnceInv, ProcsOk
  <2>2. QED BY <1>2, <1>4, <1>5, <1>8, <2>1 DEF Apart, RunSteps
<1>9. ProcsOk'
  BY <1>4, <1>7, <1>8 DEF ProcsOk
<1>10. Once!RemindedOnce'
  <2>1. SUFFICES ASSUME ~astride, NEW k \in Ids \X Once!Kinds  PROVE told'[k] = IF k \in sent' THEN 1 ELSE 0
    BY <1>2 DEF Once!RemindedOnce
  <2>2. told[k] = IF k \in sent THEN 1 ELSE 0
    BY <2>1 DEF OnceInv, Once!RemindedOnce
  <2>3. k \in c.items => k \notin sent
    BY <1>3, <2>1 DEF RunOk
  <2>4. QED BY <1>2, <2>2, <2>3
<1>11. OnceShapes'
  BY <1>2, <1>3 DEF OnceInv, OnceShapes
<1>12. QED BY <1>2, <1>9, <1>10, <1>11 DEF OnceInv, ClaimsOk, Once!OneCleanUpADay

\* A fee that is held cannot be paid: what a run relies on stays due.
LEMMA PayKeeps ==
    ASSUME OnceInv, NEW f \in Ids, Once!Pay(f)
    PROVE  OnceInv'
<1>1. /\ paid' = paid \cup {f} /\ \A p \in Workers : f \notin proc[p].holds
      /\ UNCHANGED <<task, now, last, old, claims, due, sent, told, astride, row, proc>>
  BY DEF Once!Pay, Once!cleanup
<1>2. \A g \in Ids, k \in Once!Kinds, t \in 0..MaxNow : Once!InRange(k, g, t)' <=> Once!InRange(k, g, t) /\ g # f
  BY <1>1 DEF Once!InRange
<1>3. ASSUME NEW p \in Workers  PROVE Sound(proc[p])'
  <2>1. Sound(proc[p]) /\ proc[p].now \in 0..MaxNow
    BY DEF OnceInv, ProcsOk, Phases
  <2>2. RunOk(proc[p]) => RunOk(proc[p])'
    BY <1>1, <1>2, <2>1 DEF RunOk, Once!Kinds
  <2>3. QED BY <1>1, <2>1, <2>2 DEF Sound
<1>4. ProcsOk'
  BY <1>1, <1>3 DEF OnceInv, ProcsOk, Apart
<1>5. QED BY <1>1, <1>4 DEF OnceInv, OnceShapes, ClaimsOk, Once!OneCleanUpADay, Once!RemindedOnce

(* Attendance *)

LEMMA FindKeeps ==
    ASSUME OnceInv, NEW p \in Workers, Once!Find(p)
    PROVE  OnceInv'
<1> DEFINE c == proc[p]
           s == IF (c.at = "in" /\ row # None) \/ (c.at = "out" /\ row = None) THEN Once!Idle
                ELSE [c EXCEPT !.holds = Once!Taken(p)]
<1>1. c \in Phases /\ Sound(c) /\ c.at \in {"in", "out"}
  BY DEF OnceInv, ProcsOk, Once!Find
<1>2. Once!Goes(p, s) /\ UNCHANGED <<task, now, last, old, claims, due, paid, sent, told, astride, row>>
  BY Zenon DEF Once!Find, Once!cleanup, Once!fees
<1>3. Once!Taken(p) \subseteq {"gap", "row"}
  BY DEF Once!Taken
<1>4. s \in Phases /\ s.view = None /\ s.items = {} /\ s.at \in {"idle", "in", "out"} /\ (s.at = "out" => row # None)
  <2>1. CASE (c.at = "in" /\ row # None) \/ (c.at = "out" /\ row = None)
    BY <2>1, IdleIsPhase DEF Once!Idle
  <2>2. CASE ~((c.at = "in" /\ row # None) \/ (c.at = "out" /\ row = None))
    BY <1>1, <1>3, <2>2 DEF Phases, Sound, RunSteps
  <2>3. QED BY <2>1, <2>2
<1>5. proc'[p] = s
  BY <1>2 DEF Once!Goes, OnceInv, ProcsOk
<1> HIDE DEF s
<1>6. Sound(proc[p])' /\ s.at \notin RunSteps
  BY <1>2, <1>4, <1>5 DEF Sound, RunSteps
<1>7. ProcsOk'
  BY <1>2, <1>4, <1>6, OneGoesOn DEF OnceInv
<1>8. QED BY <1>2, <1>7 DEF OnceInv, OnceShapes, ClaimsOk, Once!OneCleanUpADay, Once!RemindedOnce

\* Checking out writes a row that is there; checking in never over one.
LEMMA ClockedWrites ==
    ASSUME OnceInv, NEW p \in Workers, Once!Clocked(p)
    PROVE  /\ row' \in [in : 0..MaxNow, out : (0..MaxNow) \cup {None}]
           /\ row # None => row'.in = row.in
<1>1. /\ proc[p] \in Phases /\ Sound(proc[p]) /\ proc[p].at \in {"in", "out"} /\ proc[p].holds # {}
      /\ row' = Once!Written(p)
  BY DEF OnceInv, ProcsOk, Once!Clocked
<1>2. proc[p].now \in 0..MaxNow
  BY <1>1 DEF Phases
<1>3. proc[p].at = "out" => row # None
  BY <1>1 DEF Sound
<1>4. row # None => row \in [in : 0..MaxNow, out : (0..MaxNow) \cup {None}]
  BY DEF OnceInv, OnceShapes
<1>5. QED BY <1>1, <1>2, <1>3, <1>4 DEF Once!Written

LEMMA ClockedKeeps ==
    ASSUME OnceInv, NEW p \in Workers, Once!Clocked(p)
    PROVE  OnceInv'
<1>1. Once!Goes(p, Once!Idle) /\ UNCHANGED <<task, now, last, old, claims, due, paid, sent, told, astride>>
  BY DEF Once!Clocked, Once!cleanup, Once!fees
<1>2. row' # None
  BY ClockedWrites, NoneIsNothing
<1>3. Sound(proc[p])' /\ Once!Idle.at \notin RunSteps
  BY <1>1 DEF Once!Goes, Once!Idle, Sound, RunSteps, OnceInv, ProcsOk
<1>4. ProcsOk'
  BY <1>1, <1>2, <1>3, IdleIsPhase, OneGoesOn DEF OnceInv
<1>5. OnceShapes'
  BY <1>1, ClockedWrites DEF OnceInv, OnceShapes
<1>6. QED BY <1>1, <1>4, <1>5 DEF OnceInv, ClaimsOk, Once!OneCleanUpADay, Once!RemindedOnce

LEMMA OnceStep ==
    ASSUME OnceInv, [Once!Next]_(Once!vars)
    PROVE  OnceInv'
<1>1. CASE UNCHANGED Once!vars
  BY <1>1 DEF Once!vars, Once!cleanup, Once!fees, OnceInv, OnceShapes, ClaimsOk, ProcsOk, Sound, RunOk, Apart,
     Once!InRange, Once!OneCleanUpADay, Once!RemindedOnce
<1>2. CASE Once!Next
  BY <1>2, TickKeeps, ProcessDies, OnceStartKeeps, InsertKeeps, ClaimOnceKeeps, OncePurges, RemindKeeps, ScanEndKeeps,
     RemindCommitsKeeps, ScanKeeps, OnceClockKeeps, FindKeeps, ClockedKeeps, PayKeeps DEF Once!Next
<1>3. QED BY <1>1, <1>2

\* The row of the day is written only by Clocked.
LEMMA FirstStays ==
    ASSUME OnceInv, [Once!Next]_(Once!vars), row # None
    PROVE  row' # None /\ row'.in = row.in
<1>1. CASE UNCHANGED row
  BY <1>1
<1>2. CASE \E p \in Workers : Once!Clocked(p)
  BY <1>2, ClockedWrites, NoneIsNothing
<1>3. UNCHANGED row \/ \E p \in Workers : Once!Clocked(p)
  <2>1. CASE Once!Next
    <3>1. Once!Tick => UNCHANGED row
      BY Zenon DEF Once!Tick
    <3>2. \A f \in Ids : Once!Pay(f) => UNCHANGED row
      BY DEF Once!Pay
    <3>3. \A p \in Workers : Once!Crash(p) \/ Once!Start(p) \/ Once!Insert(p) \/ Once!Claim(p) \/ Once!PurgeOne(p)
                              => UNCHANGED row
      BY DEF Once!Crash, Once!Start, Once!Insert, Once!Claim, Once!PurgeOne
    <3>4. \A p \in Workers : Once!Remind(p) \/ Once!ScanEnds(p) \/ Once!RemindCommits(p) \/ Once!Find(p) => UNCHANGED row
      BY DEF Once!Remind, Once!ScanEnds, Once!RemindCommits, Once!Find
    <3>5. \A p \in Workers, f \in Ids : Once!Scan(p, f) => UNCHANGED row
      BY Zenon DEF Once!Scan
    <3>6. \A p \in Workers, op \in {"in", "out"} : Once!Clock(p, op) => UNCHANGED row
      BY DEF Once!Clock
    <3>7. QED BY <2>1, <3>1, <3>2, <3>3, <3>4, <3>5, <3>6 DEF Once!Next
  <2>2. QED BY <2>1 DEF Once!vars
<1>4. QED BY <1>1, <1>2, <1>3

-----------------------------------------------------------------------------
(* The three parts side by side *)

JobsInv == JInv /\ TriesInv /\ WakeInv /\ BatchInv

ClockInv ==
    /\ part = "jobs" => JobsInv
    /\ part = "daily" => OnceInv
    /\ part = "calendar" => DatesInv

LEMMA ClockInvariance == ClockSpec => []ClockInv
<1>1. ClockInit => ClockInv
  BY StartKeeps, StartTries, StartWake, StartBatch, OnceStart, DatesStart DEF ClockInit, ClockInv, JobsInv
<1>2. ClockInv /\ [ClockNext]_<<part, vars, once, dates>> => ClockInv'
  <2> SUFFICES ASSUME ClockInv, [ClockNext]_<<part, vars, once, dates>>
               PROVE  ClockInv'
    OBVIOUS
  <2>1. part' = part
    BY DEF ClockNext
  <2>2. CASE part = "jobs"
    <3>1. [Next]_vars /\ JobsInv
      BY <2>2 DEF ClockNext, ClockInv
    <3>2. JobsInv'
      BY <3>1, StepKeeps, StepTries, StepWake, BatchKept DEF JobsInv
    <3>3. QED BY <2>1, <2>2, <3>2 DEF ClockInv
  <2>3. CASE part = "daily"
    <3>1. [Once!Next]_(Once!vars) /\ OnceInv
      BY <2>3 DEF ClockNext, ClockInv, once, Once!vars, Once!cleanup, Once!fees
    <3>2. QED BY <2>1, <2>3, <3>1, OnceStep DEF ClockInv
  <2>4. CASE part = "calendar"
    <3>1. [Dates!Next]_(Dates!vars) /\ DatesInv
      BY <2>4 DEF ClockNext, ClockInv, dates, Dates!vars
    <3>2. QED BY <2>1, <2>4, <3>1, DatesStep DEF ClockInv
  <2>5. CASE part \notin {"jobs", "daily", "calendar"}
    BY <2>1, <2>5 DEF ClockInv
  <2>6. QED BY <2>2, <2>3, <2>4, <2>5
<1>3. QED BY <1>1, <1>2, PTL DEF ClockSpec

\* calendar.py, substitutions.py: a day one entry claimed is a holiday for the tab, for the
\* substitutes and for coverage exactly when the calendar shows it; whom the screen offers create
\* does not refuse; and a period of a leave counts once; for any number of events, days and teachers.
THEOREM RulesAlwaysAgree == ClockSpec => []RulesAgree
<1>1. ClockInv => RulesAgree
  BY MirrorsAgree, OffersHold, CoverageHolds DEF ClockInv, RulesAgree, Dates!RulesAgree
<1>2. QED BY <1>1, ClockInvariance, PTL

\* retention.py, reminders.py, hr.py: whatever processes start, stall or die, clean-ups are more than
\* RUN_EVERY apart, nobody is told of a fee twice, and the first check-in of a day stays.
THEOREM OnceADay == ClockSpec => OncePerDay
<1>1. ClockInv => (part = "daily" => Once!OncePerDay)
  BY DEF ClockInv, OnceInv, ClaimsOk, Once!OncePerDay
<1>2. ClockInv /\ [ClockNext]_<<part, vars, once, dates>> => [row # None => row' # None /\ row'.in = row.in]_row
  <2> SUFFICES ASSUME ClockInv, [ClockNext]_<<part, vars, once, dates>>, row' # row, row # None
               PROVE  row' # None /\ row'.in = row.in
    OBVIOUS
  <2>1. part = "daily" /\ Once!Next
    BY DEF ClockNext, once
  <2>2. QED BY <2>1, FirstStays DEF ClockInv
<1>3. QED BY <1>1, <1>2, ClockInvariance, PTL DEF ClockSpec, OncePerDay, Once!FirstCheckInStays

\* The rows and the processes of jobs.py, of what happens once a day and of the calendar keep to
\* their types: a pass runs at most a batch, the clock and the rows stay within their bounds, and a
\* staff member is never checked out who was not checked in.
THEOREM TypesAlwaysOK == ClockSpec => []TypesOK
<1>1. OnceInv => Once!TypeOK
  BY DEF OnceInv, OnceShapes, ClaimsOk, ProcsOk, Phases, Steps, RunSteps, Once!TypeOK
<1>2. DatesInv => Dates!TypeOK
  BY DEF DatesInv, CalendarShapes, CoverShapes, Events, Holidays, Dates!TypeOK
<1>3. ClockInv => TypesOK
  BY <1>1, <1>2, BatchImplies DEF ClockInv, JobsInv, TypesOK
<1>4. QED BY <1>3, ClockInvariance, PTL
=============================================================================
