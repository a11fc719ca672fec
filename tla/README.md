# A formal model of the school backend

TLA+ modules for the parts of this FastAPI/MySQL backend whose correctness
depends on the order of events: requests that lock rows and read others without
locking, jobs claimed by several processes, connections that are lost, sessions
that must end, files that no transaction covers, revisions that die half way.
Every definition is translated from the code under `app/` and `migrations/`;
`PROJECT.json` maps each one to its lines.

    tlc -workers 2 -config MCFees.cfg MCFees.tla      # model-check
    tlapm FeesProofs.tla                              # check the proofs

## 1. The system

One Python process (or several) serves a REST API. A request gets a `Db`
(`app/db/session.py`), which borrows a connection from a bounded pool
(`app/db/pool.py`); services under `app/services/` run SQL through it, most
writes inside `with db.transaction()`. Locks are InnoDB row locks
(`SELECT ... FOR UPDATE`, writes, foreign keys); plain reads use InnoDB's
REPEATABLE READ snapshot. Work that can wait (mail, pushes) is a row in
`background_jobs`, committed with the request and run by a worker loop per
process. Uploaded files live in a file store beside the database, kept
consistent by commit and rollback hooks.

| Component | State | Operations | Talks to |
|---|---|---|---|
| Fees and claims `fees.py` | fees, transactions, fee_claims | generate, pay, delete, submit / approve / reject a claim | Db, notifications |
| Sign-in and sessions `auth.py`, `sessions.py` | users (hash, token_version, is_active), auth_sessions, tokens at the apps | login, refresh, logout, sign-out everywhere, password changes, authenticate | Db, throttle, leaving, platform |
| Background jobs `background.py` | background_jobs, wake event and thread pool per process | enqueue, submit, run_pending, retry, requeue_stuck, purge | Db, pool, notifications, mail |
| Connection pool `pool.py` | semaphore, idle list | acquire, release, close_all | Db |
| Db `session.py` | lease, depth, hooks | execute, transaction, retry on a dead connection | pool, every service |
| Uploads `storage.py`, `attachments.py`, `notices.py`, `homework.py` | rows with a path, the file store | attach, remove, delete | Db hooks |
| Leave and substitutions `hr.py`, `substitutions.py` | leave_requests, substitution_requests | apply, change, delete, review; ask, accept, decline, withdraw, cancel | timetable, calendar, users, notifications |
| People, classes, timetable, transport `leaving.py`, `users.py`, `students.py`, `classes.py`, `assignments.py`, `timetable.py`, `transport.py`, `driver_routine.py` | users, profiles, sections, slots, vehicles, shifts, riders | create, move, assign, leave, return, delete | sessions, substitutions, attendance |
| Throttle, captcha, reset codes `login_throttle.py`, `captcha.py`, `password_reset.py` | auth_login_attempts, auth_captchas, password_reset_codes | assess, verify, record; issue, redeem | auth, background |
| Boards `notices.py`, `class_announcements.py`, `announcements.py`, `homework.py`, `documents.py`, `events.py`, `lessons.py`, `attendance.py`, remarks in `students.py`; `updates.py` | one row and its recipients per post, submissions, notifications | post, change, attach, remove, delete, hand in, mark | uploads, notifications, classes |
| Calendar `calendar.py` | calendar_events, holidays | create, change, delete, set holidays by hand | substitutions, coverage |
| Exams `exams.py`, `exam_results_import.py`, `performance.py`, `student_portal.py` | exams, exam_results, exam_papers | save and import marks, change the maximum, papers, delete; report, sheet, list | uploads, classes |
| User import `user_import/` | a spreadsheet, then users and student_profiles | preview, plan again with locks, write, photos | users, uploads |
| Daily work `retention.py`, `reminders.py`, check-in in `hr.py` | scheduled_runs, fee_reminders_sent, staff_attendance | claim the clean-up, remind, check in and out | background, fees |
| Organisations, platform | organisations | switch on and off, set a user's password | sessions |
| Migrations `migrations/versions` | the schema, alembic_version | upgrade, downgrade | the whole database |
| Routes, models, core, file backends, command line | none of their own | validate, format | services |

`PROJECT.json` lists these as components, with what is modelled of each.

**What is hard here.** Two requests that interleave between a locking read, a
plain read and a write; snapshots that are stale by the time they are used;
locks taken in different orders; a connection lost before or after a statement
took effect; a process that dies between two statements; several processes
sharing one queue; files, which no transaction covers; retries (of a
refresh, a statement, a job) of something that has happened already; and one rule
written down in two places, in SQL and in Python, or for two screens. The 40
hazards in `PROJECT.json` name the lines.

**What makes it correct.** Fees: money is recorded once and is final. Sessions:
a cut ends everything that was open, and nothing honest is logged out. Jobs:
each one is run, by one worker at a time, and is never lost. Pool: it keeps to
its size and never hangs. Db: a transaction is all or nothing. Uploads: a path
leads to a file and no file is left behind. Substitutions: nobody covers two
classes at once, answers are final, and closing a leave closes its requests.
Membership: places fit those who have them, and records outlive places. Boards:
who is told of a post is who sees it. Exams: marks fit their maxima, and
everything computed from them agrees. Import: numbers stay unique and blank cells
change nothing. Daily: what is for once a day happens once. Migrations: however an
upgrade was interrupted, it ends with one schema.

## 2. Modules

| Module | Models | Lines |
|---|---|---|
| `FeeLedger` | abstract: fees and claims changed by atomic operations | what fees.py promises |
| `Fees` | fees.py, statement by statement | implements `FeeLedger` |
| `SignIn` | one account: logins, sessions, access tokens and their ends | auth.py, sessions.py |
| `RefreshRotation` | refresh-token generations of one session and the app that uses it | sessions.py |
| `ResetCodes` | the password reset codes of one account | password_reset.py |
| `LoginThrottle` | the attempts on one account from one address, and pictures | login_throttle.py, captcha.py, auth.py |
| `BackgroundJobs` | the job queue and its workers | background.py |
| `Daily` | the day's clean-up, the fee reminders, check-in | retention.py, reminders.py, hr.py |
| `Calendar` | events, the holidays that mirror them, and the three screens that use them | calendar.py, hr.py, substitutions.py |
| `ConnectionPool` | acquire and release by many threads | pool.py |
| `DbSession` | one Db, the server and lost connections | session.py |
| `Uploads` | a row with an attachment, the file store and the hooks | storage.py, notices.py, homework.py |
| `Substitutions` | leave, substitution requests and departures for one period | hr.py, substitutions.py, leaving.py |
| `Membership` | people and their places: sections, assignments, timetable, transport | leaving.py, users.py, classes.py, transport.py, ... |
| `Boards` | one post of any of ten kinds: who is told, who sees it, its files | notices.py, homework.py, attendance.py, ... |
| `Exams` | one exam: marks by form and by sheet, papers, four computed totals | exams.py, exam_results_import.py, performance.py, student_portal.py |
| `UserImport` | a spreadsheet of a section's students, planned, planned again and written | user_import/, students.py |
| `Migrations` | the 18 revisions, statement by statement | migrations/ |
| `FeesProofs` | proofs about `Fees` | |
| `SessionsProofs` | proofs about `SignIn`, `RefreshRotation`, `ResetCodes`, `LoginThrottle` | |
| `DatabaseProofs` | proofs about `ConnectionPool`, `DbSession`, `Uploads` | |
| `BackgroundJobsProofs` | proofs about `BackgroundJobs`, `Calendar`, `Daily` | |
| `SubstitutionsProofs` | proofs about `Substitutions`, `Membership` | |
| `BoardsProofs` | proofs about `Boards`, `Exams` | |
| `ImportProofs` | proofs about `UserImport` | |
| `Counting` | lemmas: induction over numbers, sizes, sums, what is iterated | |
| `MCFees`, `MCSessions`, `MCBackgroundJobs`, `MCDatabase`, `MCSubstitutions`, `MCBoards`, `MCMigrations` | instances for TLC | |

Several of the MC modules put modules side by side that meet only at an interface
narrow enough for each to carry its own abstraction of the other side: the pool
lends a connection, a transaction ends well or badly, a session has generations,
a code is redeemed, somebody is here or has left, the schema is there. The
composition explores one of them at a time. In `MCSessions` and `MCDatabase` the
others stay in their initial state; in the later ones (`MCBackgroundJobs`,
`MCSubstitutions`, `MCBoards`, `MCMigrations`) a variable `part` says which one a
behaviour is about, and the others' variables are None or empty, for their many
initial states would multiply each other. `MCSubstitutions`, `MCBackgroundJobs` and `MCBoards` take the sets of people, sections,
days, marks and rows, too, as constants, so that the theorems about their compositions hold for any. Components that share rows share a module: leaving with
substitutions in `Substitutions`, leaving with everything that has a place in
`Membership`, posts with the students who move in `Boards`.

### Conventions

*Transactions.* A request is a record with a program counter. Its locking reads
are actions of their own. Its writes are one action with its COMMIT, since
until then nobody sees them: plain reads see committed rows only, and locking
reads wait. In `Fees` a lock is held by being at a step that holds it; in
`Substitutions`, `Membership` and `Exams`, where the rows depend on data,
`call[r].holds` lists them. A
plain read takes the state at the transaction's first plain read; the actions
are cut so that this is the action in which it happens. Every call may also end
without effect (`Abort`, `Refuse`): another rule, a deadlock victim, a lost
connection.

*Ghosts.* Variables marked `ghost` record history for properties and influence
nothing.

*Exceptions.* Where a property does not hold of something the code is seen to do, the
property names the exception through a variable that records it (`overtaken`,
`astride`, `contested`, `blocked`), and section 5 says what happens then. The
property is checked of everything else.

*Mutants.* A definition whose comment begins with `Mutant:` is a plausible bug:
the definition below it with a lock, check or reset missing. No specification
uses it. Each property is tested by putting such a mutant in place of the real
definition and seeing TLC find the property violated.

### How state and actions correspond to the code

**Fees.** `feeStatus`, `claimStatus`, `claimFee` are the rows of fees and
fee_claims, `payments[f]` counts the rows of transactions that pay f. `PayLock` and
`PayFee` are pay_fee with _mark_paid, `DeleteLock`, `DeleteCheck`, `DeleteFee`
are delete_fee (the cascade waits for claims somebody holds), `Submit*`,
`Approve*`, `Reject*` the claim operations. approve_claim locks the claim and
then the fee, delete_fee the fee and then, through the cascade, its claims.
Amounts, dates and notifications are left out: no property tells them apart.

**SignIn.** A login is two actions: `LoginChecks` (row read and password
verified, outside any transaction) and `LoginOpens` (the transaction with
rehash, open_session and _prune). `ChangePassword` is likewise split from
`ChangeChecks`. `Accepts(t)` is authenticate: session live, token_version, user
and school active. `cuts` counts the events that end everything; tokens and
sessions remember the count they were made under.

**RefreshRotation.** `Rotate` is refresh under its row lock: the current
generation, the previous one within the grace period, anything else is reuse and
revokes. The app is external: it stores the token of every response and may
have several calls in flight, lost or overtaken.

**ResetCodes.** Times are ticks of `clock`; a job carries the time of its request, so a late job
inserts a code that is older than those before it. `CountRecent`, `MarkUsed` and `IssueCode` are
_issue_code: the count sees the snapshot, the UPDATE what is committed now. `FindAccount`, `LockCode` and the three
outcomes are _redeem: the row is locked and current, `WrongCodesToday` is
the snapshot's. While the account has no code there is no row to lock; the gap locks
let two jobs through and make their INSERTs wait for each other, which ends with one of them rolled back and
retried (`IssueFails`). Whether the typed code is the right one is left open. Rows are never deleted here: the
clean-up after 30 days and the one of an account that leaves (leaving.py:80) are left out.

**LoginThrottle.** `log` is what the window still shows of auth_login_attempts; `WindowMoves` drops the oldest. `Assess`,
the picture (`LockPicture`, `UsePicture`), and the password with its record are separate actions,
because nothing is locked from one to the next. Old apps, apps that show pictures, and
change_password (which never records a success) are three kinds of `Clients`. One address stands for all
callers, so its counters count every failure.

**BackgroundJobs.** Each statement of the worker loop is an action (`ListDue`,
`Claim`, `Execute`, `Report`, `RequeueStuck`, waiting). `stale` says that
locked_at is older than JOBS_STUCK_MINUTES, `due` that run_after has come;
`TimePasses` sets them. `Crash` restarts a process anywhere, `StatementFails`
fails any statement, `SubmitFails` makes submit fall back to the thread pool,
whether its INSERT took effect or not. `Broken` are the jobs whose kind or payload is
refused (`ReadJob`: they fail at once), `Gone` those that an older release has stored and
whose module is no longer there (`ImportFails`: the error ends the pass and leaves the row running).

**ConnectionPool.** `slots` is the semaphore, `idle` the number of parked
connections, `at[d]` where a Db is with its connection. A request's thread may
need a second connection while it holds one (background.submit).

**DbSession.** A call has the phases sent and executed; the connection may be
lost in either, so an answer may be lost after the effect. `Retry` is _run's
and _begin's single retry on a fresh lease.

**Uploads.** The file is put before COMMIT and removed by a rollback hook; the
old one is removed by a commit hook. `CommitWithoutAnswer` is the COMMIT whose
answer is lost. `LocksToRemove` says whether removing reads the row FOR UPDATE
(notices.py) or not (homework.py).

**Substitutions.** One period of one day: `sub` holds its requests, `leave` the
leave requests with whether their dates take in the day, `teaches` who has a
class in the period. `Wants(r)` is the set of rows the next statement of r, or
what is left of its transaction, must lock, including the shared locks that
foreign keys take (a notification's user, a request's people and leave).
`AcceptLocks`, `AcceptDecides`, `AcceptLocksOthers`, `AcceptCommits` are
accept; the calls with one lock arrive with it. The rules on Sundays, holidays, rights
and the substitute's own leave can only refuse, and so can `Abort`; `Calendar` has
the rules themselves. A leave
starts out covering the day; approved leave can be dropped until the day is
over (the code: until the leave begins, on the day or earlier).

**Membership.** `user` is users with left_on, `place` and `lastPlace` the student's section, `assigned`
teacher_assignments, `slot` one period of the timetable, `driver`, `riders`, `shiftRiders` the transport
tables, `recorded` the sections with attendance. A call is two actions, the first named for what it does
to its rows: `MarkLeftLocks`, `AssignLocks` lock them, `SlotReads`, `RideReads`, `UpdateStudentReads`, `MarkReads`
only read, and so their writes check nothing again but what the keys check. `mark_left` takes a person off
everything current in one transaction (`MarkLeft`); `Routine(d)` is the driver's list of the day. Deleting a section or a
class is refused by attendance that is counted first (`DropSectionLocks`, `DropClassLocks`) and by the RESTRICT key of
migration 0017 at the end (`DeleteRows`). One period of the day, one vehicle and one shift stand for all.

**Boards.** A behaviour is about one post of one `topic`. `Told(row)` is the recipients' SELECT of the topic's
service, `Lists(k, row)` the app's list, `Dot(k, row)` the dots of updates.py, each translated from queries of its own: of the dots,
`DocScope`, `HomeworkScope`, `NoticeScope` and `SectionScope` are the conditions of _student, joined by <=> where the code uses it and
by = (`SqlEqual`) where it does.
`PostReads` selects the recipients and stores the file, `Post` inserts and tells them; saving, attaching, removing,
adding, dropping and deleting are pairs, too, and `Locks(op)` says which of them read the row FOR UPDATE.
`Save` is update_homework and mark_attendance: those are told whose value differs from what was read. `Move`
is anything that changes a student's place meanwhile; `moved` excuses that student from the comparison.
`overtaken` says that what is saved has been written by a call that compared it with what was there before another's
change, and so told nobody, or that a file was left behind by an unlocked read.

**Exams.** `result[k, c]` is an exam_results row, with its marks, the maximum stored with it, and its grade; column
`Whole` is a mark for the exam as a whole. `SaveResults` and `ImportResults` write what a form or a file gives,
checked against the maximum that was read before. `SheetTotal`, `ReportTotal`, `ListTotal` and `Cell` are the four
computations of exam_results_import.py, performance.py and student_portal.py. Papers are read locked or not as in the
code (`PaperRow`).

**UserImport.** `Plan(i)` is the preview with the photos it stores. `Save(i)` plans again with every row locked,
compares the two plans (`Signature`) and writes; `Conflict(i)` is the refusal when they differ. `Saved(T, f)` is
the repetition of _unique_student_numbers: a greatest set of rows from which `Blocked` rows have been removed until
none is left. Forms (`OpenForm`, `SaveForm`), departures, staff edits and single photos come in between.

**Calendar.** `event` and `holiday` are the two tables; `Mirrored` is _sync_holidays. `Offered`, `Busy` and `Counts` are
the queries behind the substitutes screen, create and accept, and the coverage of a leave list. `contested` holds the days on
which two entries met.

**Daily.** A behaviour is about one task: the clean-up (`Insert`, `Claim`, `PurgeOne`; each statement its own
transaction), the reminders (`Remind`, `Scan`, `RemindCommits`; one transaction that locks the fees one by one
and has seen fee_reminders_sent in its snapshot) or checking in and out (`Find`, `Clocked`). Any process may die
between two steps.

**Migrations.** The schema is a set of facts (tables, the columns revisions add, DEFAULTs, foreign keys with their
ON DELETE rule, the unique keys that revisions replace, the plain indexes that stand in for the one MySQL makes for a foreign key). A revision is a sequence of `Statement`s; `Skipped`
is what helpers.py looks at before a statement, `Refused` what MySQL refuses, an index that a foreign key needs (`Needed`) included, `Effect` what it does. `Execute`
runs one statement, `Finish` writes the version, `Crash` comes between any two. It starts from an empty database,
one of the old SQL files, or one with migration_v8.sql applied by hand; 0001 adopts what looks like one of the latter (`Adopted`). 0003
and 0004 refuse duplicates they find in the tables (`blocked`) until somebody removes them (`CleanUp`).

## 3. Runs

| Run | Properties | Bounds |
|---|---|---|
| `fees` | `IInv`, `BooksAreExact`, `NoDeadlock`, `MoneyIsFinal`, `LedgerSpec`, `AnyRequestIsAnswered` | 3 requests, 1 fee, 2 claims |
| `sessions` | `TypesOK`, `CutIsImmediate`, `ChangerStaysSignedIn`, `RacingNeverLogsOut`, `LimitsHold`, `CodesDieForGood` | 2 logins, 3 sessions (limit 2), 2 passwords, 2 cuts; 3 refreshes, 4 generations; 2 calls: 3 codes, 2 attempts each, 1 code a window, 3 wrong codes a day; 2 devices, 1 picture, limits 1 to 3 |
| `jobs` | `TypesOK`, `ClaimIsExclusive`, `DoneMeansExecuted`, `NoLostWakeUp`; `OncePerDay`; `RulesAgree` | 2 processes, 2 jobs (one unusable), 2 attempts, batches of 1, 1 mishap; 2 fees, clock to 4, clean-up due after 1, batches of 2; 2 events, 2 days, 3 teachers, 2 open requests |
| `jobs_live` | `GivesUpLate`, `EveryJobEnds` | 2 workers, 2 jobs (one whose module is gone), 2 attempts, batches of 1, 2 mishaps |
| `database` | `IInv`, `LimitIsKept`, `EveryRequestEnds`; `TypesOK`, `AllOrNothing`; `FilesAgree` | 3 threads, pool 1 + 1; 3 statements, 3 losses; 2 requests, 3 files |
| `substitutions` | `TypesOK`, `ChecksStayTrue`, `AnswersStand`, `ClosingTakesAll`; `PlacesHold` | 2 calls in five small schools; 2 in four groups of people |
| `boards` | `TypesOK`, `BoardsHold`, `FilesAreKept`; `MarksHold` | 2 calls, ten topics, 2 students, a manager, a teacher, a driver, 3 sections in 2 classes, 3 files, 2 images, 1 move; 2 students and 2 columns in four groups, marks 0 and 2, maxima 1 and 2 |
| `migrations` | `TypesOK`, `UpgradesEndWhole`, `RulesHold`; `ImportsHold`, `BlankCellsKeep` | 18 revisions, 1 crash, 1 downgrade; 2 imports, 3 users, 4 paths, 1 edit, three schools, 67 sheets |
| `password` | violated: `OnlyTheCurrentPassword` | as `sessions` |
| `twice` | violated: `AppliedAtMostOnce` | as `database` |
| `deadlock` | violated: `NoDeadlock` of accept and withdraw | one teacher, two colleagues |
| `left` | violated: `LeftHasNoPlace` | as `substitutions`, membership only |

A property of a run over several parts is the conjunction of what it says of each; the MC module names the parts.
`LimitsHold` is `SessionLimit`, `ResetCodes!LimitsHold`, `LocksHold` and `PicturesWorkOnce`; `BooksAreExact` is
`PaidExactlyOnce`, `OneClaimUnderReview` and `ClaimsAreBacked`; `LimitIsKept` is `ConnectionLimit` and
`SlotsAreAccountedFor`; `ChecksStayTrue` is `KeysAreNeverHit` and `OnePendingLeave`, `AnswersStand` is `StatusesMoveOn`
and `FilledMeansCovered`.

**Why the bounds are enough.** *fees*: a conflict involves one fee, and claims
conflict over their fee; three requests give every pair a third to come in
between, and two claims are needed for `OneClaimUnderReview`. The proofs lift
all of it to any number. *sessions*: two logins race each other or a cut; a third
session exceeds the limit of two; the second cut shows that the first leaves
nothing behind. Generation 4 lets a call be two generations late. Two calls overlap once, which is what the bounds of
`LimitsHold` allow for; three codes exceed the window's limit of one by more than that; the clock
runs to 2, so that a window passes while the day does not; a log of three, and the two that may still come, is one
longer than each limit with its overlap. *jobs*: two workers suffice to
race for a job; with batches of one, the two jobs take two passes, which is
where wake-ups are lost; one mishap (crash, failed statement, overlong run or
operator's retry) at any moment. The liveness run allows two mishaps, so a
retry can itself be interrupted; with batches of one, a job whose module is gone takes up whole passes, and ends them.
Its `FairClockSpec` gives both jobs one home, since which process stored a job matters only to its wake-up. For the daily tasks, four days are the day a fee is due with the one before and the
two after in which a missed reminder is caught up, and four old rows are two full batches. In the calendar two days
are one that changes and one that does not, two events meet on one, and the third teacher is whom two others compete for.
*database*: pool 1 + 1 with three threads makes
a queue behind the limit, and the difference between what is kept and what is
closed; three losses cover a statement, its retry and the COMMIT; uploads
interact pairwise, and three names are what an old file and two new ones need.
*substitutions*: with every school the requests and leaves that can exist are
limited: one teacher and two colleagues, or two teachers and one colleague,
who may leave, without leaves; a leave with two colleagues; a leave, one colleague
and a departing teacher; two leaves. Users are numbers because locks are taken in id
order, so a requester between two colleagues meets both orders. The groups of
`Membership` are the people who can meet: two teachers over a section, a teacher between two
sections, a student, a driver and a bus, two principals. *boards*: one class with two sections and one with one tell
a target apart from its class; one move shows what a moving student does to the others; an album of two is
full, and a third file can replace or be refused. Marks of 0 and 2 with maxima of 1 and 2 are
zero, too much for one maximum, and full for the other. *migrations*: one crash, anywhere, shows what each prefix of statements
leaves; after a downgrade the upgrade runs again over its remains. Two students can swap numbers, a third can be
skipped and block them, and the file decides between 67 ways to fill in the cells.

CHECK_DEADLOCK is off where the system may come to rest: ids, generations, losses,
edits or mishaps are used up, or the day is over and
everybody idle. `fees` is checked for deadlock.

**Symmetry.** Requests, ids, workers, file names and students are interchangeable in safety
runs. Runs with liveness use none, nor do devices or refreshes, where it costs more than it saves. In `MCFees` the liveness property
is stated for one request, since they are alike.

### What the passing runs show

`fees`: whatever three requests do to a fee, the books are exact, a
claim never outlives its fee, no step takes money back, and nobody waits on
himself although two operations lock in opposite order: delete_fee refuses
while a claim is pending and holds the fee, so the cascade can only meet a
reviewer that will not ask for the fee. The requests implement `FeeLedger` under
the identity mapping of the tables: every step is an atomic ledger operation
or a stutter.

`sessions`: token_version and revoke_all cut off even a token handed out later
by a login that had read the row before; concurrent logins keep to the session
limit; the device that changes a password is left signed in, alone; an
honest app is never taken for a thief while its grace periods last. A reset code that was used,
burnt or replaced never works again, although each wrong guess writes used_at back to NULL: the row
lock makes that harmless. The limits on codes, wrong codes and failed logins are read before they are
acted on, so they hold up to one for each call that overlaps, and no further; a picture lets one
check through.

`jobs`, `jobs_live`: a claim is exclusive unless a run outlasts
JOBS_STUCK_MINUTES; done means executed; no wake-up is lost
(except after a lost claim, which costs a poll interval); every job ends but one whose module is
gone (section 5), and beside one; a job is given up only after all its attempts. The conditional UPDATE gives a day's clean-up to one process, whichever
stalls or dies; a parent is told once of each reminder although cron may start two runs; who
checks in first keeps the time. The calendar's holidays, the Holidays tab, the substitutes' screen, create, accept and
the coverage of a leave agree on each day, however events are renamed, moved, changed into something else or deleted.

`database`: the pool never opens more connections than it is sized for and
loses no slot when a connect fails; a request that needs two connections cannot
hang the pool, because waiting times out; a transaction is all or nothing
through lost connections; with a locking read, files and paths stay consistent.

`substitutions`: the row locks of accept make the UNIQUE keys of migration 0007 a guard
that is never needed; statuses follow the documented order; a request is filled only
when somebody covers; a user has one pending leave; closing takes along everything
that was asked before. Nobody who left is assigned, a section has one class teacher, a school one principal, the
driver's routine calls on nobody who left, and attendance is never erased with its section, not even what is
marked while the section goes.

`boards`: of all ten kinds of posts, those told are those who find it in their list and those whose app shows a dot;
parents have last heard the mark or due date that is saved; the counts of a homework add up while students move;
posts and files agree. Marks fit the maximum stored with them, no deletion erases a result, a re-imported sheet
changes nothing, and report, sheet and list show the same totals.

`migrations`: wherever an upgrade died, and after going back and forth, the schema at the head is the same, no statement is met that
the database refuses, there is always the old unique key or the new one, an index always serves each foreign key, and once 0017 is through no deletion erases
records by any chain of cascades. An import keeps every number to one student, saves as many rows as could be saved
together, shows them as unchanged the next time, and leaves alone what blank cells and missing rows leave open.

### What the other runs show

Each is a disagreement between the code and what its own comments or documents
say; the findings in `PROJECT.json` quote both.

- `password`: login checks the password on a row it read before its transaction and
  opens the session without looking again. A login under way while the password changes
  leaves a session, opened on the old password, that can be refreshed. Its access
  token is dead (the token_version is old); its refresh token is not.
- `twice`: outside a transaction, a statement whose answer is lost on a
  connection's first use has taken effect and is executed again.
- `deadlock`: two colleagues accept the same period. The one with the lower id than the
  requester holds his own row and waits for the requester's; the other holds that
  and must, to tell the first that the period is filled, get a shared lock on his row
  for the notification's foreign key.
- `left`: who gets a place on the timetable, a bus, a vehicle or a class list is read without a lock; if that person
  leaves in between, the place is written after mark_left cleared it, and stays.

### Fairness

- `Fees`: `SF(Work(r) \/ Lock(r))`. A transaction in progress executes its next
  statement; InnoDB queues lock requests in order, so a waiter whose lock becomes
  free again and again gets it in the end. Nothing makes requests arrive.
- `BackgroundJobs`: `WF(Step(w))`, the worker loop catches every exception and goes
  on, and a process that died is started again; `WF(TimePasses(j))`, delays
  and JOBS_STUCK_MINUTES elapse. A worker that an error makes wait, 30 seconds at most, has looked for due jobs again
  before a job whose module is gone counts as stuck once more (`StuckTimePasses`): JOBS_STUCK_MINUTES is longer than that.
- `ConnectionPool`: `WF(Proceed(d))`, threads run, and acquire's wait ends with
  its timeout; `SF(Usable(d))`, a thread that looks at idle connections again and again
  does not find a dead one each time: it takes a dead one out of a finite list
  each time and connects itself when the list is empty, and the others do not
  fill it with dead ones forever.
- The other modules state no liveness and assume no fairness.

## 4. Theorems

TLAPS checks them for every value of the constants, under these named assumptions:

| Assumption | Module | Says |
|---|---|---|
| `NoneIsNoRow` | `Fees` | None is no id |
| `SessionsAllowed` | `SignIn` | at least one session is allowed |
| `LimitsAllowed` | `MCSessions` | limits and periods are at least 1 (config.py: minimum=1), the bounds are numbers; finitely many calls |
| `QueueSizes` | `BackgroundJobs` | attempts and batches are at least 1; unusable jobs, and finitely many whose module is gone, are jobs |
| `DailyAssumption`, `CalendarAssumption` | `MCBackgroundJobs` | bounds are numbers; finitely many days and teachers; weeks and leaves are about these; None is no row |
| `PoolSizes`, `FiniteThreads` | `ConnectionPool` | sizes are natural numbers, threads finitely many |
| `StatementsAreWrites`, `NamesAreNames` | `MCDatabase` | no write is called BEGIN or COMMIT; NoFile is no file |
| `SchoolsAssumption`, `IdsAssumption` | `Substitutions` | who teaches is staff; users are numbers, None is no id |
| `RolesAssumption`, `PeopleAssumption`, `ClassAssumption` | `MCSubstitutions` | names of roles and of operations differ; a principal is no teacher or driver; a section has a class |
| `PostsAssumption` | `Boards` | a person has one role, a section one class; finitely many students; None and "school" are nothing else |
| `ExamAssumption` | `MCBoards` | marks are numbers, maxima above zero (models/exams.py: gt=0); a group is of the exam; None and AB are no marks, no files |
| `ImportAssumption` | `MCMigrations` | a parsed file has finitely many rows, a section and cells of the columns' types; the schools to begin with keep the keys and have no photos; None is no user, path or account |

`FilesAlwaysAgree` also assumes `LocksToRemove`, the locking read of notices.py; without it an orphan is possible
(section 5). The theorems speak of a component's own specification or, in where it is the composition's property,
of the composition that a run checks; `PartsMoveAlone` and
`DatabasePartsMoveAlone` show that every behaviour of the composition is one of each of its components.

**Fees.** None of the safety properties is inductive: a request writes on the strength of what
it read some steps earlier. `IInv` adds `LocksAreExclusive` (a row lock has one
holder) and `Knows(r)`, what the request at each step relies on: its row exists, the fee
it checked is still pending, no claim has come to be under review since it
counted them, the claim it locked still belongs to that fee. One lemma per
action shows that `IInv` is kept; the recurring argument is that whoever could
falsify `Knows(r)` would need the lock r holds. From `Invariance`
follow `TypeCorrect`, `NeverPaidTwice`, `OneReviewAtATime`, `ClaimsStayBacked`, the three together as `BooksStayExact`, and

- `DeadlockFree`: in a set of waiting requests, nobody's wait is for a fee held by
  somebody who waits for a claim whose holder waits for that fee: delete's cascade
  waits only after it found no claim open, and approve waits for the fee only with a
  pending claim in hand;
- `ImplementsLedger`: `Spec => Ledger!Spec`, every action is the ledger's operation or leaves the tables as they are;
- `MoneyStaysFinal`: from `ImplementsLedger`'s step lemma: it is shown of the ledger's five
  operations, not of the fifteen actions.

**ConnectionPool.** `ConnectionLimit` is not inductive: between taking a slot and
finding the idle list empty a thread opens a connection on what it saw.
`IInv` relates the three counts: free slots and slot holders make the limit; `idle`
connections and those in use stay below it; a second Db lives only within its
request. The lemmas `CountedAt` to `TwoDbs` say how the cardinalities change when
one Db moves. Theorems: `Invariance`, `TypeCorrect`, `NeverTooManyConnections`,
`NoSlotIsLost`, and both of these as `LimitIsAlwaysKept`.

**Sessions.** `CutIsAtOnce`: no token of before a cut is accepted after it. The token itself only knows the token_version and
the session it was made from, so `AccountInv` ties both to the count of cuts: the row's version is that count, and a token's,
or a pending login's, is the count it saw (`VersionCounts`, `TokensCount`, `ReadsCount`); whichever session is live was opened, or kept,
since the last cut (`OpenedSince`). `ChangerIsSignedIn` is the action property that the device that changes
a password keeps its session, which _prune must not take. `RacesNeverLogOut`: what an honest app holds or has sent is current, or
the previous generation within its grace period, and once the current token is under way nothing older is (`Excused`).
`CodesStayDead`: all codes but the newest are used (`OldAreUsed`), and who redeems holds the newest row, which is unused
(`NewestIsLocked`) and held by nobody else (`RowsAreHeldOnce`); so used_at goes back to NULL only where it was.

**LoginThrottle.** `OneCheckPerPicture`: a picture that let a check through is used (`SpentIsUsed`). To show that nobody
passes on it a second time one needs that what a call read of its picture is still so (`FreshIsFresh`), which needs
that nobody else holds the picture's row (`LocksAreExclusive`). `PInv` is their conjunction with the shapes of
the variables; nothing is assumed of the constants.

**The limits.** `LimitsAlwaysHold`. A limit is read before it is acted on, so what is inductive is a sum: what the log (or the
table) shows, and the calls that have already been let through and will add to it, is at most the limit and
one for each call. For the throttle the calls are counted per device and per account (`ThrottleInv`: a call that assess let
through saw fewer failures than its limit; since then each other call has added one at most); for reset codes per
window and per day, with the clock (`ResetInv`: no wrong codes were counted ahead of their day). `SessionLimit` is about
the order of the table (`RecentInv`): the live sessions are in `recent` once each, so _prune, which revokes all but the first
MAX_SESSIONS_PER_USER - 1, leaves as many. What `Among` keeps of a sequence, for every sequence, is an induction over its
length. `SessionsTyped` joins the types.

**DbSession.** `TransactionsAreWhole` (and `AllOrNothingAlways`, of the composition): `AllOrNothing` for any statements and any number of lost connections. It speaks
of the end of a transaction, so `DInv` says what holds on the way: before the block no transaction is open
but the one whose BEGIN is not yet answered (`OutsideIsClean`); within it the connection is a used one, so nothing is
retried, and as long as it lives each statement's effect is pending exactly once, and nowhere else (`InsideIsPending`); a lost connection
takes its transaction along (`LostIsUndone`).

**Uploads.** `PathsAlwaysLeadToFiles`, `FilesAlwaysAgree`: an attached path leads to a file, and with the locking read no file
is left behind. A file is deleted by a hook long after the hook was registered, so `UInv` follows it: what a request has put
is its own until it commits (`NewIsOwn`), what a hook is going to delete is attached no more (`HooksSpare`), a request that
removes or replaces knows the path that is attached because it holds the row (`HoldersKnow`, `RowLockExcludes`), and every file is
attached, or put by somebody, or some hook's (`FilesAreOwned`). `TypesAlwaysOK` joins the three parts' types.

**BackgroundJobs.** `OneWorkerAtATime` and `DoneIsExecuted`. A worker acts on a row that it read, or claimed, some steps before, so
`JInv` says what its locals still tell: a job somebody works on is running and not stale (`WorkIsClaimed`), so that neither a
claim nor RequeueStuck can hand it to another, unless a run of it has outlasted JOBS_STUCK_MINUTES (`overran`); who reports
success has executed the job (`SuccessIsTrue`), which is the only one it has (`OneJob`). All but three actions begin no work and leave alone
what is worked on (`NothingGained`), which one lemma deals with; `Claim`, `Execute` and `Report` have a proof each.

- `GivenUpLate`: neither a row nor a worker's copy of it knows of more attempts than there were tries (`RowsCounted`,
  `RunsCounted`), however often copies are stale, so a job is not given up early (`TriesInv`).
- `NoWakeUpIsLost`: while a job is new, its process's worker has its wake event set, is about to look, or
  is in a pass that lists the job or fills its batch, after which it looks again at once (`NewsIsHeeded`). This needs `Tally`, the
  size of what a pass has run, has in hand and has still on its list.
- `TypeCorrect`: that a pass runs at most a batch of jobs is the part of `TypeOK` that is no matter of
  shape; the same tally shows it (`BatchInv`).

**Clock.** `RulesAlwaysAgree`: the five places that ask whether somebody is free on a day agree. What ties them together is
that an uncontested day is marked by exactly the event its holiday row names, and by none if the row was made
by hand or is not there (`Mirrors(d)`); the coverage counts days, and agrees by an injection of the covered
days into the accepted requests. `OnceADay`: no clean-up is claimed later than the moment that
the row of scheduled_runs holds, so that the next one is more than RUN_EVERY after all of them (`ClaimsOk`). For the reminders, a run that has looked at what is sent acts on a snapshot; it holds a due fee
which every other run of that day must lock before its end, so what it saw is still so when it commits (`RunOk`, `Apart`).
Who checks in first is protected by the row: `out` holds it only when it is there. `TypesAlwaysOK` joins the
three parts' types.

**Substitutions.** `ChecksHold`: what accept found under its locks is still so when it writes, so that the
UNIQUE keys of 0007 are never hit, and a user has one pending leave. `AnswersAreFinal`, `ClosingIsWhole`: the action properties about
statuses and about closing. A call checks rows and writes them several steps later, or writes on the strength of rows it never
locked, so `CallOk(r)` says for each operation what it knows at each step, `TablesOk` what is so between transactions, and
`LocksExclude` that a row has one holder. Proving each action against each other's `CallOk` would be quadratic; instead each commit of r is shown to
be `Fenced(r)`: a row it changes is locked by nobody else, a request it opens or fills has both people unlocked by others,
and so on. One lemma shows that a fenced step keeps everybody else's `CallOk`. `TypesKept` is the type invariant.

**Membership.** `PlacesAlwaysHold`: nobody who left is assigned, a section has one class teacher and a teacher one such
section, a school one principal, a driver meets nobody who left, and attendance is never erased with its section. An assignment relies on what it read when it locked the teacher and the
section (`Relies`); who could falsify it, a departure or another assignment, needs one of the two rows, and a row
has one holder (`RowsExclude`). `TypesAlwaysOK` joins the types of both parts of the run.

**Boards.** `BoardsAlwaysHold` has two parts. Between the steps of a call: whom it will tell are those its query finds, among the
students who have not moved since (`ToldOk`), and once told, those whom the post is meant for have heard (`HeardOk`). For attendance and
homework this is an induction over saves that overlap: whoever tells nobody, because it saves the mark it read, and finds another in its place, is on record as overtaking.
The other part is about queries: for each of ten kinds, `MeantAreListed` shows that the recipients one service selects by a class,
a section or the school are those who find the post by the other's join, where a section has one class, and `DotsAreListed` that updates.py's conditions find the same rows. That `CountsAddUp`
follows from the parts of a finite set. `FilesAlwaysKept`: while a call holds the post's row it knows the files there are
(`FilesKnown`), what is on its way to one row is on its way to no other, and a post that is gone has none (`FileInv`).

**Exams.** The papers' half of `FilesAlwaysKept` is `PapersInv`: an upload that replaces a paper read it under the lock that it still holds,
or has found no row and inserts where there is none (`UploadReplaces`); a deletion knows every path, unless a paper was replaced
since (`RequestKnown`). `MarksAlwaysHold`: `MarksFit` is inductive; that no deletion erases a result is an action property; the three
totals agree because each is the number of points of a function (`Counting!SumCounts`), and where they sum over
different columns the cells of the others add nothing (`TotalsAgree`). `TypesAlwaysOK` joins the types.

**Imports.** `Saved` is a recursive function over the passes; it exists and is unique (`SavedIsLast`). A pass drops a
row or changes nothing, so as many passes as rows are enough (`SavedRows`), and since `Blocked` can only grow as fewer
rows are saved (`BlockedLess`), no set of rows that can be saved together ever loses one: `PlanSavesAllItCan`.
`SaveKeepsKeys` splits two holders of a number by who of them is saved: two saved rows with the number in their cells
are no candidates, a saved row whose number somebody keeps is blocked. From it and `PlanSavesAllItCan` follows that a
second upload saves the same rows and changes nothing (`SaveIsRepeatable`). These are lemmas about one plan; the
invariant `ImportInv` adds to the keys what the actions rely on: a call under way has stored the photos of the rows its
preview writes, which are the rows the same plan writes later (`SameWriting`); a form's student is still there; and,
unless two rows share a photo, no photo belongs to two accounts, two calls or both (`PhotosOK`), which is what makes
deleting a replaced or refused photo safe (`SavePhotos`, `ConflictPhotos`, `NewPhoto`). `BlankCellsAlwaysKeep`: only `Save` writes
accounts as a call ends, and from the second plan, not from the preview.

**Only model-checked.**

- Liveness (`AnyRequestIsAnswered`, `EveryRequestEnds`, `EveryJobEnds`): TLAPS does not handle ENABLED and fairness here.
- `Migrations`, and with it `TypesOK` of `MCMigrations`: eighteen literal lists of statements, flattened and folded by
  operators of the community modules that the provers cannot evaluate. The run `migrations` goes through all of them;
  only the numbers of crashes and downgrades are bounded.

*Induction.* The library's induction theorems take an operator as a parameter, which the installed provers cannot instantiate. `Counting`
derives from the pigeonhole principle of FunctionTheorems that a set of numbers that holds 0, and n + 1 with each n, holds
all of them (`SetInduction`): a predicate is written as a set, and the recursive functions of the models
(`Among`, the sums, what is iterated until nothing changes) are unfolded along it.

## 5. Seen while modelling, not checked by a run

*Sign-in and sessions*

- `auth.py:89`: a login's rehash of a legacy hash is an UPDATE by id; it overwrites a
  password set after the login read the row. (`SignIn!LoginOpens` has it.)
- `password_reset.py:20` and `:27` promise "at most" so many codes a window and wrong codes a day. Both counts are
  plain reads of the transaction's snapshot, so calls that overlap exceed them by one each (`ResetCodes!LimitsHold` says
  how far). login_throttle.py's limits likewise (`LocksHold`).

*Jobs, Db, the daily tasks*

- `background.py:245`: the retry UPDATE says WHERE id only. A handler that outlived
  JOBS_STUCK_MINUTES and then fails puts a job somebody else has finished back
  into the queue, without its payload; `:257` says a queued job has one. (`BackgroundJobs!QueuedJobsHavePayload` states it.)
- `background.py:100`: a job whose module was removed or renamed raises ModuleNotFoundError, which `:230` does not catch although the
  comment there says of such jobs "can never succeed: don't retry". The error ends the pass, the row stays running, and the
  job is requeued every JOBS_STUCK_MINUTES for ever (`ImportFails`; `EveryJobEnds` leaves it out). So many of them that
  the waits after errors fill JOBS_STUCK_MINUTES would keep other jobs waiting.
- `background.py:316`: a batch shortened by lost claims counts as the last one, and the
  worker waits a poll interval though jobs are due.
- `docs/OPERATIONS.md:228` says a job is retried after five delays; with max_attempts 5
  there are four retries, so the delay of two hours is never used.
- `session.py:141`: a COMMIT whose answer is lost runs the rollback hooks; if it took effect,
  the committed row's file is deleted. `PathsLeadToFiles` names the exception.
- `reminders.py:7`: two runs on either side of midnight can be under way at once, and tell a parent twice (`astride`).
- hr.py's check_in and check_out: two first check-ins of one person may meet on the gap locks, and one is
  rolled back; check_out takes the time before it waits for the row.

*Leave, substitutions, calendar*

- decline, withdraw and cancel hold the request and then notify a teacher whose row an
  accept of the same request may hold: a deadlock, ended by InnoDB with error 1213,
  which only the user import retries.
- `substitutions.py:287`: create reads people and leave without locking; if the leave is
  rejected or somebody leaves before its INSERT, the new request stays open (leaving.py:117 closes those it sees).
  `Substitutions!OpenRequestsAreAlive` states it.
- An accepted substitution stays on a day that becomes a holiday afterwards.
- `calendar.py:4` says the holidays table stays in sync with the calendar; ON DUPLICATE KEY (`calendar.py:49`) takes over the
  row of another entry, whose day is gone when the first one moves, and hr.py:43-62 edit and delete
  mirrored rows. (`Calendar!StaysInSync` states it; `contested` holds such days.)

*People, classes, import*

- `students.py:127` says "Fields left out of the request keep their current value"; a form that is saved after another form, or an import, writes
  the other fields back as it read them, and after mark_left the old section. (`UserImport!FormsKeepTheRest` states it.)
- Two rows of an import that name one photo share a path; replacing the photo of one deletes the other's file.
- "Unchanged" on a second upload is not true of rows with a photo, which is always stored anew.

*Boards and exams*

- `homework.py:176` reads the path without FOR UPDATE in remove_attachment and delete; an attach that commits
  in between leaves its file in the store for good (`overtaken`). Replacing a subject's paper while the exam or its class is deleted does the same.
- `attendance.py:96`: a call that saves the very mark it read, while another has changed it in between, tells nobody, and leaves parents with
  the value that it overwrote until the next change; due dates in homework.py likewise (`overtaken`).
- Nobody is told when an event or a launch announcement is moved.
- updates.py: a post committed after server_time was taken but created before it may show no dot; a change of attendance does not move created_at.
- A mark saved while the exam had no maximum is measured against a maximum set later, and may exceed 100 %.
- `student_portal.py:217` leaves absent subjects out of an exam's total while the report counts them as 0.

*Migrations*

- A crash in 0001 leaves a baseline that 0001 takes for an older version and refuses. A crash in 0009 between ADD COLUMN
  and DROP DEFAULT leaves the column with its DEFAULT and without a foreign key, although `0009:8` says it has no default. A crash in 0002 leaves
  the seed accounts without their forced change of password.
- 0013 drops the principal's unique key two statements before it adds the new one.
- 0002:104 and 0003:63 put plain indexes back when downgraded, as MySQL asks; they stay when upgraded again, so that such a schema
  has three indexes more than a fresh one.

## 6. Plan

Done: the components above. What is left, in this order:

1. **Proofs**: of `Migrations`, that each statement of helpers.py may be repeated after itself, and `RerunsSucceed` from it,
   once the revisions are written without a fold.
2. **FeeGeneration**: which students get which fee (fees.py:86-123) as functions against a
   reference definition.
3. **Fee screenshots and organisations' logos** as further users of the hooks of `Uploads`.
4. **The results import's file** (exam_results_import.py): matching rows to students, as functions like those of `UserImport`.
5. **Several periods in `Substitutions`**, whose one period leaves the coverage of a leave to `Calendar`.

Compositions follow `MCBoards` and `MCMigrations`: components that meet only through a narrow interface
share a run; those that share rows share a module.

## 7. Not modelled, and why

Routes, request models and read models format and validate; what they decide
reaches the modules as the set of requests (the read models that must agree with another
computation are in `Boards` and `Exams`). Mail, SMS and push providers and file
backends are pure input and output; the modules let them fail. Core helpers (hashes,
token signatures) are taken to be what they promise; the command line calls the services modelled here. Salaries, enquiries, class subjects, report cards,
videos of events and the texts of an organisation are edits of single rows without states
of their own. Amounts, texts and dates are left out wherever no property depends on them, and so is
the parsing of spreadsheets. Staff imports have no numbers to keep unique. In `Migrations`,
other plain indexes and the columns no later statement looks at are left out, and so are a downgrade after a crash and one of 0009 with
several organisations in the tables. Two upgrades at once are left out, too: `docs/OPERATIONS.md:292` asks for one place only.
The database is assumed to be InnoDB at REPEATABLE READ, and MySQL to commit every DDL statement at once; gap locks are left out except
where a module says so, and can only make a call wait or fail.
