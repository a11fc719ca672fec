-------------------------- MODULE MCBackgroundJobs --------------------------
(***************************************************************************)
(* BackgroundJobs, Daily and Calendar with two processes: what runs by the *)
(* clock, and the days it runs on.  A behaviour is one of a single part:   *)
(* while it moves, the variables of the others are None, or empty.  The    *)
(* ids of one table stand for those of another.                            *)
(***************************************************************************)
EXTENDS BackgroundJobs, TLC

CONSTANTS Parts, Ids, t1, t2, t3, d1, d2, None,
          Dues, RunEvery, PurgeBatch, MaxBatches, MaxNow, MaxOld,  \* of Daily
          Days, Teachers, Weeks, Leaves, MaxOpen                   \* of Calendar

\* The bounds are numbers, days are numbers or finitely many, and None is no row.
ASSUME DailyAssumption ==
    /\ RunEvery \in Nat /\ PurgeBatch \in Nat \ {0} /\ MaxNow \in Nat /\ MaxOld \in Nat
    /\ None \notin Int /\ \A x \in SUBSET (Ids \X {"due_soon", "overdue"}) : None # x
    /\ \A x \in [in : 0..MaxNow, out : (0..MaxNow) \cup {None}] : None # x
ASSUME CalendarAssumption ==
    /\ IsFiniteSet(Days) /\ IsFiniteSet(Teachers)
    /\ \A w \in Weeks : w.slots \in [Teachers -> SUBSET Days] /\ w.sundays \subseteq Days
    /\ \A l \in Leaves : l.days \subseteq Days
    /\ None \notin Workers /\ \A l \in Leaves : None # l
    /\ \A x \in [title : Ids, category : {"holiday", "event"}, dates : SUBSET Days] : None # x
    /\ \A x \in [name : Ids, event : Workers \cup {None}] : None # x

VARIABLES part,
          task, now, last, old, claims, due, paid, sent, told, astride, row, proc,
          event, holiday, contested, week, leave, sub

\* Two fees due on any of four days; the clean-up runs every other tick of the clock.
AnyDay == [Ids -> 0..3]
Once == INSTANCE Daily WITH
    Procs <- Workers, Tasks <- {"cleanup", "reminders", "attendance"}, Fees <- Ids, Batch <- PurgeBatch
once == <<task, now, last, old, claims, due, paid, sent, told, astride, row, proc>>

\* Teachers with both days, one day and none; everybody but one has both, and one day is a Sunday.
Slots(both, second) == [t \in {t1, t2, t3} |-> IF t \in both THEN {d1, d2} ELSE IF t \in second THEN {d2} ELSE {}]
TwoWeeks == {[slots |-> Slots({t1}, {t2}), sundays |-> {}], [slots |-> Slots({t1, t2}, {}), sundays |-> {d2}]}
TwoLeaves == {[days |-> {d1, d2}, status |-> "pending"], [days |-> {d1}, status |-> "approved"]}

Dates == INSTANCE Calendar WITH EventIds <- Workers, Titles <- Ids
dates == <<event, holiday, contested, week, leave, sub>>

NoJobs ==
    /\ job = [j \in Jobs |-> NotStored] /\ worker = [w \in Workers |-> Starting] /\ wake = [w \in Workers |-> FALSE]
    /\ hooks = {} /\ announced = {} /\ fallback = [w \in Workers |-> {}] /\ home = None
    /\ tries = [j \in Jobs |-> 0] /\ executed = {} /\ overran = {} /\ mishaps = 0
NoTask ==
    /\ task = None /\ now = None /\ last = None /\ old = None /\ claims = None /\ due = None /\ paid = None
    /\ sent = None /\ told = None /\ astride = None /\ row = None /\ proc = None
NoDates == event = None /\ holiday = None /\ contested = None /\ week = None /\ leave = None /\ sub = None

ClockInit ==
    /\ part \in Parts
    /\ IF part = "jobs" THEN Init ELSE NoJobs
    /\ IF part = "daily" THEN Once!Init ELSE NoTask
    /\ IF part = "calendar" THEN Dates!Init ELSE NoDates

ClockNext ==
    \/ part = "jobs" /\ Next /\ UNCHANGED <<part, once, dates>>
    \/ part = "daily" /\ Once!Next /\ UNCHANGED <<part, vars, dates>>
    \/ part = "calendar" /\ Dates!Next /\ UNCHANGED <<part, vars, once>>

ClockSpec == ClockInit /\ [][ClockNext]_<<part, vars, once, dates>>

\* With one job that can end, whose process it comes from makes no difference.
OneHomeInit == ClockInit /\ home = [j \in Jobs |-> CHOOSE w \in Workers : TRUE]
FairClockSpec == OneHomeInit /\ [][ClockNext]_<<part, vars, once, dates>> /\ Fairness

Symmetry == Permutations(Workers) \cup Permutations(Ids)

\* The tables and the processes of the three parts keep to their types.
TypesOK ==
    /\ part = "jobs" => TypeOK
    /\ part = "daily" => Once!TypeOK
    /\ part = "calendar" => Dates!TypeOK

\* What is for once a day happens once: the clean-up, each reminder, the check-in.
OncePerDay == [](part = "daily" => Once!OncePerDay) /\ Once!FirstCheckInStays
RulesAgree == part = "calendar" => Dates!RulesAgree
StaysInSync == part = "calendar" => Dates!StaysInSync
=============================================================================
