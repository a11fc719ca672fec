------------------------------ MODULE Calendar ------------------------------
(***************************************************************************)
(* The school calendar and what hangs on its holidays: the events a        *)
(* manager marks dates of, the holidays table that mirrors them, and whom  *)
(* the substitutes screen offers, create and accept refuse and the leave   *)
(* list counts, for one period of a few days.  Substitutions has the races *)
(* of those calls; here each is one step and the rules themselves are      *)
(* translated.                                                             *)
(***************************************************************************)
EXTENDS Naturals, FiniteSets

CONSTANTS EventIds, Titles,
          Days,
          Teachers,
          Weeks,       \* [slots, sundays]: the days (their weekdays) of each teacher's classes, and Sundays
          Leaves,      \* bound: what leaves are asked for
          MaxOpen,     \* bound: substitution_requests that are open
          None

VARIABLES event,      \* calendar_events and their dates
          holiday,    \* holidays, by date
          contested,  \* days whose row was written over by another event, or edited by hand
          week, leave,
          sub         \* substitution_requests by requester, substitute and day, while they are open

calendar == <<event, holiday, contested>>
cover == <<week, leave, sub>>
vars == <<event, holiday, contested, week, leave, sub>>

Requests == {k \in Teachers \X Teachers \X Days : k[1] # k[2]}
OpenRequests == {k \in Requests : sub[k] # "closed"}

TypeOK ==
    /\ event \in [EventIds -> [title : Titles, category : {"holiday", "event"}, dates : SUBSET Days] \cup {None}]
    /\ holiday \in [Days -> [name : Titles, event : EventIds \cup {None}] \cup {None}]
    /\ contested \subseteq Days /\ week \in Weeks
    /\ leave \in [Teachers -> Leaves \cup {None}]
    /\ sub \in [Requests -> {"closed", "pending", "accepted"}]

Init ==
    /\ event = [e \in EventIds |-> None] /\ holiday = [d \in Days |-> None] /\ contested = {}
    /\ week \in Weeks
    /\ leave = [t \in Teachers |-> None] /\ sub = [k \in Requests |-> "closed"]

-----------------------------------------------------------------------------
(* calendar.py *)

TitleTaken(t, e) == \E o \in EventIds \ {e} : event[o] # None /\ event[o].title = t

CreateEvent(e, t, c) ==
    /\ event[e] = None /\ ~TitleTaken(t, e)
    /\ event' = [event EXCEPT ![e] = [title |-> t, category |-> c, dates |-> {}]]
    /\ UNCHANGED <<holiday, contested, cover>>

\* Mutant: the rows of the days that are not marked any more stay.
NothingCleared(e) == holiday

\* _sync_holidays: DELETE the event's rows ...
Cleared(e) == [d \in Days |-> IF holiday[d] # None /\ holiday[d].event = e THEN None ELSE holiday[d]]

\* ... and INSERT ... ON DUPLICATE KEY UPDATE, which takes over a row that is there.
Mirrored(e, row) == [d \in Days |-> IF row.category = "holiday" /\ d \in row.dates
                                    THEN [name |-> row.title, event |-> e] ELSE Cleared(e)[d]]

TakenOver(e, row) == {d \in Days : row.category = "holiday" /\ d \in row.dates /\ Cleared(e)[d] # None}

UpdateEvent(e, row) ==
    /\ event[e] # None /\ ~TitleTaken(row.title, e)
    /\ event' = [event EXCEPT ![e] = row]
    /\ holiday' = Mirrored(e, row)
    /\ contested' = contested \cup TakenOver(e, row)
    /\ UNCHANGED cover

\* ON DELETE CASCADE.
DeleteEvent(e) ==
    /\ event[e] # None
    /\ event' = [event EXCEPT ![e] = None] /\ holiday' = Cleared(e)
    /\ UNCHANGED <<contested, cover>>

(* hr.py: holidays by hand; their route edits a mirrored row like any other. *)

CreateHoliday(d, n) ==
    /\ holiday[d] = None
    /\ holiday' = [holiday EXCEPT ![d] = [name |-> n, event |-> None]]
    /\ UNCHANGED <<event, contested, cover>>

ByHand(ds, row) == contested' = IF row.event = None THEN contested ELSE contested \cup ds

UpdateHoliday(d, to, n) ==
    /\ holiday[d] # None /\ (to # d => holiday[to] = None)
    /\ holiday' = [holiday EXCEPT ![d] = None, ![to] = [holiday[d] EXCEPT !.name = n]]
    /\ ByHand({d, to}, holiday[d])
    /\ UNCHANGED <<event, cover>>

DeleteHoliday(d) ==
    /\ holiday[d] # None
    /\ holiday' = [holiday EXCEPT ![d] = None]
    /\ ByHand({d}, holiday[d])
    /\ UNCHANGED <<event, cover>>

\* get_calendar_payload: the events' dates, and the holidays entered by hand.
CalendarShows == {d \in Days : \/ \E e \in EventIds : event[e] # None /\ event[e].category = "holiday" /\ d \in event[e].dates
                               \/ holiday[d] # None /\ holiday[d].event = None}

\* list_holidays: the Holidays tab.
TabShows == {d \in Days : holiday[d] # None}

-----------------------------------------------------------------------------
(* substitutions.py *)

\* create: no Sunday, no _holiday.
SchoolDay(d) == d \notin week.sundays /\ holiday[d] = None

Accepted(q, d) == {k \in Requests : k[1] = q /\ k[3] = d /\ sub[k] = "accepted"}
Covering(s, d) == {k \in Requests : k[2] = s /\ k[3] = d /\ sub[k] = "accepted"}

\* _busy_reason: three SELECTs for one teacher, one day and one period.
Busy(s, d) == \/ d \in week.slots[s]
              \/ Covering(s, d) # {}
              \/ leave[s] # None /\ d \in leave[s].days

\* availability: the same from one SELECT each for all teachers and days.
OnLeave == {x \in Teachers \X Days : leave[x[1]] # None /\ x[2] \in leave[x[1]].days}
BusySlots == {x \in Teachers \X (Days \ week.sundays) : x[2] \in week.slots[x[1]]}
CoveringThen == {<<k[2], k[3]>> : k \in {k \in Requests : sub[k] = "accepted"}}
Offered(q, d) ==
    IF SchoolDay(d) /\ d \in week.slots[q]
    THEN {s \in Teachers \ {q} : <<s, d>> \notin BusySlots \cup CoveringThen \cup OnLeave} ELSE {}

\* create: the day, q's class, the substitute, nobody covers it, not asked already.
Ask(q, s, d) ==
    /\ SchoolDay(d) /\ d \in week.slots[q] /\ ~Busy(s, d)
    /\ Accepted(q, d) = {} /\ sub[<<q, s, d>>] = "closed"
    /\ Cardinality(OpenRequests) < MaxOpen
    /\ sub' = [sub EXCEPT ![<<q, s, d>>] = "pending"]
    /\ UNCHANGED <<calendar, week, leave>>

\* accept, and _fill_others.
Accept(q, s, d) ==
    /\ sub[<<q, s, d>>] = "pending" /\ Accepted(q, d) = {} /\ ~Busy(s, d)
    /\ sub' = [k \in Requests |-> IF k = <<q, s, d>> THEN "accepted"
                                  ELSE IF k[1] = q /\ k[3] = d THEN "closed" ELSE sub[k]]
    /\ UNCHANGED <<calendar, week, leave>>

\* decline, withdraw, cancel.
Close(q, s, d) ==
    /\ sub[<<q, s, d>>] # "closed"
    /\ sub' = [sub EXCEPT ![<<q, s, d>>] = "closed"]
    /\ UNCHANGED <<calendar, week, leave>>

\* hr.py: a leave is asked for, approved, or ends with its requests outside it.
LeaveOf(t, l) ==
    /\ l # leave[t]
    /\ leave' = [leave EXCEPT ![t] = l]
    /\ sub' = [k \in Requests |-> IF k[1] = t /\ leave[t] # None /\ (l = None \/ k[3] \notin l.days) THEN "closed" ELSE sub[k]]
    /\ UNCHANGED <<calendar, week>>

\* coverage of u's leave: None for those without a period, else the periods and their requests.
Teaching(u) == {d \in leave[u].days : SchoolDay(d) /\ d \in week.slots[u]}
StateOf(u, d) ==
    IF Accepted(u, d) # {} THEN "accepted"
    ELSE IF \E k \in OpenRequests : k[1] = u /\ k[3] = d THEN "pending" ELSE "closed"
Counts(u) == [periods |-> Cardinality(Teaching(u)),
              covered |-> Cardinality({d \in Teaching(u) : StateOf(u, d) = "accepted"}),
              pending |-> Cardinality({d \in Teaching(u) : StateOf(u, d) = "pending"})]

-----------------------------------------------------------------------------
Rows == [title : Titles, category : {"holiday", "event"}, dates : SUBSET Days]

CalendarSteps ==
    \/ \E e \in EventIds :
        \/ \E t \in Titles, c \in {"holiday", "event"} : CreateEvent(e, t, c)
        \/ \E row \in Rows : UpdateEvent(e, row)
        \/ DeleteEvent(e)
    \/ \E d \in Days :
        \/ \E n \in Titles : CreateHoliday(d, n) \/ \E to \in Days : UpdateHoliday(d, to, n)
        \/ DeleteHoliday(d)

CoverSteps ==
    \/ \E k \in Requests : Ask(k[1], k[2], k[3]) \/ Accept(k[1], k[2], k[3]) \/ Close(k[1], k[2], k[3])
    \/ \E t \in Teachers, l \in Leaves \cup {None} : LeaveOf(t, l)

\* Leaves and substitutes read only whether a day is a holiday: that it is one by hand will do.
NoEvents == \A e \in EventIds : event[e] = None
NobodyAway == OpenRequests = {} /\ \A t \in Teachers : leave[t] = None

Next ==
    \/ CalendarSteps /\ (NobodyAway \/ NoEvents')
    \/ CoverSteps /\ NoEvents

Spec == Init /\ [][Next]_vars

-----------------------------------------------------------------------------
(* Properties *)

\* calendar.py:44: a day that only one entry ever claimed is a holiday in the Holidays tab, for the
\* substitutes and for coverage exactly when the calendar shows it, under the name it shows,
\* however its event is renamed, moved, made something else or deleted.
MirrorAgrees ==
    \A d \in Days \ contested :
        LET marking == {e \in EventIds : event[e] # None /\ event[e].category = "holiday" /\ d \in event[e].dates} IN
        /\ d \in TabShows <=> d \in CalendarShows
        /\ holiday[d] # None /\ holiday[d].event # None =>
                marking = {holiday[d].event} /\ holiday[d].name = event[holiday[d].event].title

\* substitutions.py:110 and 136: the screen offers those whom create, and later accept, will not
\* refuse, though one reads the rows of a teacher and the other those of everybody.
OffersAreGood ==
    \A q \in Teachers, d \in Days :
        Offered(q, d) = {s \in Teachers \ {q} : SchoolDay(d) /\ d \in week.slots[q] /\ ~Busy(s, d)}

\* substitutions.py:573: what a leave still lacks is what could still be asked for: a period counts
\* once, whatever requests were made for it, and on a day that create would take.
CoverageAddsUp ==
    \A u \in Teachers : leave[u] # None =>
        /\ Counts(u).covered + Counts(u).pending <= Counts(u).periods
        /\ \A d \in leave[u].days : d \in week.slots[u] /\ d \notin week.sundays =>
              (d \in Teaching(u) <=> holiday[d] = None)
        /\ Cardinality(UNION {Accepted(u, d) : d \in leave[u].days}) >= Counts(u).covered

RulesAgree == MirrorAgrees /\ OffersAreGood /\ CoverageAddsUp

\* calendar.py:4 says it of every day.
StaysInSync == TabShows = CalendarShows
=============================================================================
