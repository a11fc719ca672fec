--------------------------- MODULE BackgroundJobs ---------------------------
(***************************************************************************)
(* The job queue of app/services/background.py: rows of background_jobs    *)
(* committed by API requests and run by one worker loop per process.  Each *)
(* UPDATE or SELECT of a worker commits on its own, so every statement is  *)
(* an action.  Processes die and come back, statements fail, and a handler *)
(* may run for longer than JOBS_STUCK_MINUTES.  locked_by is written but   *)
(* never read, so it is left out.                                          *)
(***************************************************************************)
EXTENDS Naturals, FiniteSets, FiniteSetsExt

CONSTANTS Workers,      \* processes with a worker loop
          Jobs,         \* background_jobs.id
          Broken,       \* the jobs whose task or payload can no longer be opened
          Gone,         \* the jobs whose module can no longer be imported
          MaxAttempts,  \* max_attempts of every job
          Batch,        \* CLAIM_BATCH
          MaxMishaps    \* bound: crashes, failed statements, overlong runs and operator retries

ASSUME QueueSizes ==
    /\ Broken \subseteq Jobs /\ Gone \subseteq Jobs /\ IsFiniteSet(Gone)
    /\ MaxAttempts \in Nat \ {0} /\ Batch \in Nat \ {0} /\ MaxMishaps \in Nat

VARIABLES
    job,          \* the table
    worker,       \* each worker's program counter and locals
    wake,         \* each process's _wake event
    hooks,        \* the jobs just committed whose on_commit hook has not run yet
    fallback,     \* per process: the jobs submit() handed to its thread pool
    home,         \* ghost: the process whose request stores the job
    announced,    \* ghost: the jobs whose hook has run
    tries,        \* ghost: how often a job was claimed, operator retries included
    executed,     \* ghost: the jobs whose handler has returned without an error
    overran,      \* ghost: the jobs that ever ran for longer than JOBS_STUCK_MINUTES
    mishaps       \* how much of MaxMishaps is used

ghosts == <<home, announced, tries, executed, overran, mishaps>>
vars == <<job, worker, wake, hooks, fallback, home, announced, tries, executed, overran, mishaps>>

NotStored == [status |-> "none", attempts |-> 0, payload |-> FALSE, due |-> FALSE, stale |-> FALSE]
Stored == [status |-> "pending", attempts |-> 0, payload |-> TRUE, due |-> TRUE, stale |-> FALSE]

\* The loop's next statement; `due` is what is left of the list, `attempts` the
\* number read from the row, `lost` a claim another worker was quicker to make.
Starting == [at |-> "start", due |-> {}, ran |-> 0, lost |-> FALSE,
             job |-> {}, attempts |-> 0, outcome |-> "none"]

TypeOK ==
    /\ job \in [Jobs -> [status : {"none", "pending", "running", "done", "failed", "purged"},
                         attempts : Nat, payload : BOOLEAN,
                         due : BOOLEAN,       \* run_after <= now
                         stale : BOOLEAN]]    \* locked_at is JOBS_STUCK_MINUTES ago
    /\ worker \in [Workers -> [at : {"start", "recover", "list", "claim", "read", "run", "report",
                                     "wait", "backoff", "down"},
                               due : SUBSET Jobs, ran : 0..Batch, lost : BOOLEAN,
                               job : {S \in SUBSET Jobs : Cardinality(S) <= 1},
                               attempts : Nat, outcome : {"none", "ok", "error", "never"}]]
    /\ wake \in [Workers -> BOOLEAN]
    /\ hooks \subseteq Jobs /\ announced \subseteq Jobs
    /\ fallback \in [Workers -> SUBSET Jobs]
    /\ home \in [Jobs -> Workers]
    /\ tries \in [Jobs -> Nat]
    /\ executed \subseteq Jobs /\ overran \subseteq Jobs
    /\ mishaps \in 0..MaxMishaps

\* An earlier release has stored the jobs in Gone.
Init ==
    /\ job = [j \in Jobs |-> IF j \in Gone THEN Stored ELSE NotStored]
    /\ worker = [w \in Workers |-> Starting]
    /\ wake = [w \in Workers |-> FALSE]
    /\ hooks = {} /\ announced = {}
    /\ fallback = [w \in Workers |-> {}]
    /\ home \in [Jobs -> Workers]
    /\ tries = [j \in Jobs |-> 0]
    /\ executed = {} /\ overran = {}
    /\ mishaps = 0

Mishap == mishaps < MaxMishaps /\ mishaps' = mishaps + 1

Up(w) == worker[w].at # "down"
WorksOn(w, j) == worker[w].at \in {"read", "run", "report"} /\ j \in worker[w].job

-----------------------------------------------------------------------------
(* Storing a job *)

\* The COMMIT of a transaction that called enqueue, or submit's INSERT.
Enqueue(j) ==
    /\ job[j] = NotStored /\ Up(home[j])
    /\ job' = [job EXCEPT ![j] = Stored]
    /\ hooks' = hooks \cup {j}
    /\ UNCHANGED <<worker, wake, fallback, ghosts>>

\* The on_commit hook: _wake.set, in this process only.
Announce(j) ==
    /\ j \in hooks
    /\ hooks' = hooks \ {j}
    /\ wake' = [wake EXCEPT ![home[j]] = TRUE]
    /\ announced' = announced \cup {j}
    /\ UNCHANGED <<job, worker, fallback, home, tries, executed, overran, mishaps>>

\* submit gets an error from its INSERT, which may have been stored all the
\* same: the job goes to the thread pool of the process.
SubmitFails(j) ==
    /\ job[j] = NotStored /\ Up(home[j]) /\ j \notin fallback[home[j]] /\ j \notin executed
    /\ Mishap
    /\ \E row \in {NotStored, Stored} : job' = [job EXCEPT ![j] = row]
    /\ fallback' = [fallback EXCEPT ![home[j]] = @ \cup {j}]
    /\ UNCHANGED <<worker, wake, hooks, home, announced, tries, executed, overran>>

\* _run_now: an error is logged, and that is all.
RunNow(j) ==
    /\ j \in fallback[home[j]]
    /\ fallback' = [fallback EXCEPT ![home[j]] = @ \ {j}]
    /\ executed' \in {executed, executed \cup {j}}
    /\ UNCHANGED <<job, worker, wake, hooks, home, announced, tries, overran, mishaps>>

-----------------------------------------------------------------------------
(* One pass of the worker loop *)

\* _wake.clear(), before the table is looked at.
StartPass(w) ==
    /\ worker[w].at = "start"
    /\ wake' = [wake EXCEPT ![w] = FALSE]
    /\ worker' = [worker EXCEPT ![w] = [Starting EXCEPT !.at = "recover"]]
    /\ UNCHANGED <<job, hooks, fallback, ghosts>>

\* Mutant: a job left running by a dead process stays so.
RequeueNothing(w) ==
    /\ worker[w].at = "recover"
    /\ worker' = [worker EXCEPT ![w].at = "list"]
    /\ UNCHANGED <<job, wake, hooks, fallback, ghosts>>

\* Jobs running for longer than JOBS_STUCK_MINUTES go back to the queue.
RequeueStuck(w) ==
    /\ worker[w].at = "recover"
    /\ job' = [j \in Jobs |-> IF job[j].status = "running" /\ job[j].stale
                              THEN [job[j] EXCEPT !.status = "pending"] ELSE job[j]]
    /\ worker' = [worker EXCEPT ![w].at = "list"]
    /\ UNCHANGED <<wake, hooks, fallback, ghosts>>

Due == {j \in Jobs : job[j].status = "pending" /\ job[j].due}

\* Mutant: one job more than the batch is listed.
ListTooMany(w) ==
    /\ worker[w].at = "list"
    /\ \E list \in IF Cardinality(Due) <= Batch + 1 THEN {Due} ELSE kSubset(Batch + 1, Due) :
          worker' = [worker EXCEPT ![w].at = "claim", ![w].due = list]
    /\ UNCHANGED <<job, wake, hooks, fallback, ghosts>>

\* The first Batch due jobs; their order is left open.
ListDue(w) ==
    /\ worker[w].at = "list"
    /\ \E list \in IF Cardinality(Due) <= Batch THEN {Due} ELSE kSubset(Batch, Due) :
          worker' = [worker EXCEPT ![w].at = "claim", ![w].due = list]
    /\ UNCHANGED <<job, wake, hooks, fallback, ghosts>>

\* attempts + 1.  The jobs in Gone are claimed without end and nothing compares
\* their attempts: only the first is counted.
Counted(j, attempts) == IF j \in Gone THEN 1 ELSE attempts + 1

\* Mutant: the claim's UPDATE is not conditional on status = 'pending'.
ClaimAnyway(w, j) ==
    /\ worker[w].at = "claim" /\ j \in worker[w].due
    /\ job' = [job EXCEPT ![j].status = "running", ![j].stale = FALSE, ![j].attempts = Counted(j, @)]
    /\ tries' = [tries EXCEPT ![j] = Counted(j, @)]
    /\ worker' = [worker EXCEPT ![w].at = "read", ![w].due = @ \ {j}, ![w].job = {j}]
    /\ UNCHANGED <<wake, hooks, fallback, home, announced, executed, overran, mishaps>>

\* The UPDATE is conditional on status = 'pending': it may change no row.
Claim(w, j) ==
    /\ worker[w].at = "claim" /\ j \in worker[w].due
    /\ IF job[j].status = "pending"
       THEN /\ job' = [job EXCEPT ![j].status = "running", ![j].stale = FALSE, ![j].attempts = Counted(j, @)]
            /\ tries' = [tries EXCEPT ![j] = Counted(j, @)]
            /\ worker' = [worker EXCEPT ![w].at = "read", ![w].due = @ \ {j}, ![w].job = {j}]
       ELSE /\ worker' = [worker EXCEPT ![w].due = @ \ {j}, ![w].lost = TRUE]
            /\ UNCHANGED <<job, tries>>
    /\ UNCHANGED <<wake, hooks, fallback, home, announced, executed, overran, mishaps>>

\* _run_job reads the row it claimed.
ReadJob(w, j) ==
    /\ worker[w].at = "read" /\ j \in worker[w].job
    /\ j \in Gone => job[j].status = "purged"
    /\ worker' = [worker EXCEPT ![w] =
          IF job[j].status = "purged"
          THEN [@ EXCEPT !.at = "claim", !.job = {}, !.ran = worker[w].ran + 1]
          ELSE IF j \in Broken \/ ~job[j].payload  \* LookupError, InvalidToken, ValueError
          THEN [@ EXCEPT !.at = "report", !.outcome = "never"]
          ELSE [@ EXCEPT !.at = "run", !.attempts = job[j].attempts]]
    /\ UNCHANGED <<job, wake, hooks, fallback, ghosts>>

\* _handler imports a module that is no longer there: ModuleNotFoundError is no
\* LookupError, so the pass is over, its job stays running and is claimed again
\* once it counts as stuck.
ImportFails(w, j) ==
    /\ worker[w].at = "read" /\ j \in worker[w].job
    /\ j \in Gone /\ job[j].status # "purged"
    /\ worker' = [worker EXCEPT ![w] = [Starting EXCEPT !.at = "backoff"]]
    /\ UNCHANGED <<job, wake, hooks, fallback, ghosts>>

Execute(w, j) ==
    /\ worker[w].at = "run" /\ j \in worker[w].job
    /\ \E outcome \in {"ok", "error"} :
          /\ worker' = [worker EXCEPT ![w].at = "report", ![w].outcome = outcome]
          /\ executed' = IF outcome = "ok" THEN executed \cup {j} ELSE executed
    /\ UNCHANGED <<job, wake, hooks, fallback, home, announced, tries, overran, mishaps>>

\* Mutant: the payload is dropped when a job is given up, too.
ReportedAndDropped(row, outcome, attempts) ==
    IF row.status = "purged" THEN row
    ELSE IF outcome = "ok" THEN [row EXCEPT !.status = "done", !.payload = FALSE]
    ELSE IF outcome = "never" \/ attempts >= MaxAttempts
    THEN [row EXCEPT !.status = "failed", !.payload = FALSE]
    ELSE [row EXCEPT !.status = "pending", !.due = FALSE]

\* Mutant: given up one attempt too early.
ReportedEarly(row, outcome, attempts) ==
    IF row.status = "purged" THEN row
    ELSE IF outcome = "ok" THEN [row EXCEPT !.status = "done", !.payload = FALSE]
    ELSE IF outcome = "never" \/ attempts + 1 >= MaxAttempts THEN [row EXCEPT !.status = "failed"]
    ELSE [row EXCEPT !.status = "pending", !.due = FALSE]

\* The row after a run with this outcome.  A retry comes after a delay.
Reported(row, outcome, attempts) ==
    IF row.status = "purged" THEN row
    ELSE IF outcome = "ok" THEN [row EXCEPT !.status = "done", !.payload = FALSE]
    ELSE IF outcome = "never" \/ attempts >= MaxAttempts THEN [row EXCEPT !.status = "failed"]
    ELSE [row EXCEPT !.status = "pending", !.due = FALSE]

\* _finish, or the UPDATE for a retry: WHERE id = ..., whatever the row is now.
Report(w, j) ==
    /\ worker[w].at = "report" /\ j \in worker[w].job
    /\ job' = [job EXCEPT ![j] = Reported(@, worker[w].outcome, worker[w].attempts)]
    /\ worker' = [worker EXCEPT ![w].at = "claim", ![w].job = {}, ![w].outcome = "none",
                                ![w].attempts = 0, ![w].ran = @ + 1]
    /\ UNCHANGED <<wake, hooks, fallback, ghosts>>

\* Mutant: _wake is cleared after the table was looked at.
EndPassAndClear(w) ==
    /\ worker[w].at = "claim" /\ worker[w].due = {}
    /\ wake' = [wake EXCEPT ![w] = FALSE]
    /\ worker' = [worker EXCEPT ![w].at = IF worker[w].ran < Batch THEN "wait" ELSE "start"]
    /\ UNCHANGED <<job, hooks, fallback, ghosts>>

\* A full batch starts the next pass at once.
EndPass(w) ==
    /\ worker[w].at = "claim" /\ worker[w].due = {}
    /\ worker' = [worker EXCEPT ![w].at = IF worker[w].ran < Batch THEN "wait" ELSE "start"]
    /\ UNCHANGED <<job, wake, hooks, fallback, ghosts>>

\* _wake.wait(poll) returns, woken or after JOBS_POLL_SECONDS; so does the
\* longer wait after a database error.
WakeUp(w) ==
    /\ worker[w].at \in {"wait", "backoff"}
    /\ worker' = [worker EXCEPT ![w].at = "start"]
    /\ UNCHANGED <<job, wake, hooks, fallback, ghosts>>

-----------------------------------------------------------------------------
(* Failures, time and operators *)

\* A statement of the pass raises: the pass is over, its job stays as it is.
StatementFails(w) ==
    /\ worker[w].at \in {"recover", "list", "claim", "read", "report"}
    /\ Mishap
    /\ worker' = [worker EXCEPT ![w] = [Starting EXCEPT !.at = "backoff"]]
    /\ UNCHANGED <<job, wake, hooks, fallback, home, announced, tries, executed, overran>>

\* The process dies, or shutdown() is not given the time the handler needs.
Crash(w) ==
    /\ Up(w)
    /\ Mishap
    /\ worker' = [worker EXCEPT ![w] = [Starting EXCEPT !.at = "down"]]
    /\ hooks' = {j \in hooks : home[j] # w}
    /\ fallback' = [fallback EXCEPT ![w] = {}]
    /\ UNCHANGED <<job, wake, home, announced, tries, executed, overran>>

\* start_worker, in a new process.
Restart(w) ==
    /\ worker[w].at = "down"
    /\ worker' = [worker EXCEPT ![w] = Starting]
    /\ wake' = [wake EXCEPT ![w] = FALSE]
    /\ UNCHANGED <<job, hooks, fallback, ghosts>>

DelayPasses(j) ==
    /\ job[j].status = "pending" /\ ~job[j].due
    /\ job' = [job EXCEPT ![j].due = TRUE]
    /\ UNCHANGED <<worker, wake, hooks, fallback, ghosts>>

\* JOBS_STUCK_MINUTES after the claim: its worker is gone, or still at it.  A
\* worker that waits after an error (at most 30 seconds) has listed the due jobs
\* again before a job in Gone comes back.
StuckTimePasses(j) ==
    /\ job[j].status = "running" /\ ~job[j].stale
    /\ j \in Gone => \A w \in Workers : worker[w].at \notin {"backoff", "start", "recover", "list"}
    /\ job' = [job EXCEPT ![j].stale = TRUE]
    /\ IF \E w \in Workers : WorksOn(w, j)
       THEN Mishap /\ overran' = overran \cup {j}
       ELSE UNCHANGED <<mishaps, overran>>
    /\ UNCHANGED <<worker, wake, hooks, fallback, home, announced, tries, executed>>

\* retry_failed, the operator's command; it wakes nobody.
RetryFailed ==
    LET failed == {j \in Jobs : job[j].status = "failed" /\ job[j].payload}
    IN
    /\ failed # {}
    /\ Mishap
    /\ job' = [j \in Jobs |-> IF j \in failed
                              THEN [job[j] EXCEPT !.status = "pending", !.attempts = 0, !.due = TRUE]
                              ELSE job[j]]
    /\ UNCHANGED <<worker, wake, hooks, fallback, home, announced, tries, executed, overran>>

\* The daily clean-up (retention.py) deletes old finished rows.
Purge(j) ==
    /\ job[j].status \in {"done", "failed"}
    /\ job' = [job EXCEPT ![j].status = "purged"]
    /\ UNCHANGED <<worker, wake, hooks, fallback, ghosts>>

-----------------------------------------------------------------------------
Step(w) ==
    \/ StartPass(w) \/ RequeueStuck(w) \/ ListDue(w) \/ EndPass(w) \/ WakeUp(w) \/ Restart(w)
    \/ \E j \in Jobs : Claim(w, j) \/ ReadJob(w, j) \/ ImportFails(w, j) \/ Execute(w, j) \/ Report(w, j)

TimePasses(j) == DelayPasses(j) \/ StuckTimePasses(j)

Next ==
    \/ \E j \in Jobs : Enqueue(j) \/ Announce(j) \/ SubmitFails(j) \/ RunNow(j) \/ TimePasses(j) \/ Purge(j)
    \/ \E w \in Workers : Step(w) \/ StatementFails(w) \/ Crash(w)
    \/ RetryFailed

Spec == Init /\ [][Next]_vars

\* A worker thread keeps running, waits end by their timeouts, processes are
\* started again, and handlers return (mail and push calls have timeouts).
Fairness ==
    /\ \A w \in Workers : WF_vars(Step(w))
    /\ \A j \in Jobs : WF_vars(TimePasses(j))

FairSpec == Spec /\ Fairness

-----------------------------------------------------------------------------
(* Properties *)

\* run_pending: however workers race for the due jobs, only one of them runs a
\* job, as long as no run of it outlasts JOBS_STUCK_MINUTES.
ClaimIsExclusive ==
    \A j \in Jobs \ overran : Cardinality({w \in Workers : WorksOn(w, j)}) <= 1

\* A job counts as done, and its payload is dropped, only after its handler has
\* returned: whatever dies in between, the work is not lost.
DoneMeansExecuted ==
    \A j \in Jobs :
        job[j].status = "done" \/ (job[j].status # "none" /\ ~job[j].payload) => j \in executed

\* A job is given up only after max_attempts tries, unless it could never run
\* or has in fact been executed.
GivesUpLate ==
    \A j \in Jobs : job[j].status = "failed" => j \in Broken \cup executed \/ tries[j] >= MaxAttempts

\* "Woken the moment a job is committed in its own process": a worker does not
\* wait while a new job of its process is due and announced, unless another
\* worker was quicker to claim a job of its last list.
NoLostWakeUp ==
    \A j \in Due \cap announced :
        LET w == home[j] IN
        tries[j] = 0 /\ worker[w].at = "wait" => wake[w] \/ worker[w].lost

\* A job that was stored ends as done or failed (or is purged after that), through
\* any crash, stuck run, failed statement and retry, and beside a job that ends a
\* pass each time it comes back: one in Gone, which never ends itself.
EveryJobEnds ==
    \A j \in Jobs \ Gone : job[j].status = "pending" ~> job[j].status \in {"done", "failed", "purged"}

(* Properties the comments and documents state and the code does not keep *)

\* _finish: "a finished job's payload is no longer needed".  So a job that is
\* still to run has its payload.
QueuedJobsHavePayload == \A j \in Jobs : job[j].status = "pending" => job[j].payload
=============================================================================
