----------------------------- MODULE Membership -----------------------------
(***************************************************************************)
(* Who belongs where: people joining, leaving and returning (leaving.py,   *)
(* users.py, students.py) against their places in sections, assignments,   *)
(* the timetable and transport (classes.py, assignments.py, timetable.py,  *)
(* school_timings.py, transport.py, driver_routine.py, attendance.py).     *)
(*                                                                         *)
(* A call is two actions: what it locks and reads, and its writes with the *)
(* COMMIT.  call[r].holds are the rows it locked FOR UPDATE.  The write    *)
(* waits for the rows its statements and their foreign keys lock.  A write *)
(* that a key refuses, and any other refusal, is Refuse.  One timetable    *)
(* period (the day's second), one vehicle and one shift stand for all;     *)
(* names, roll numbers and times are left out, and so are the rights of    *)
(* the caller, which can only refuse.                                      *)
(***************************************************************************)
EXTENDS Naturals, FiniteSets

CONSTANTS Calls, Teachers, Students, Drivers, Principals, Sections, Classes, ClassOf, Roles,
          Groups,  \* [people, sections, vehicle]: what a behaviour is about; the rest never comes
          None

VARIABLES group,     \* one of Groups
          user,      \* users: none, here, or left (left_on is set)
          sections, classes,
          place, lastPlace,   \* student_profiles: section_id, last_section_id
          assigned,  \* teacher_assignments
          slot,      \* timetable_slots: the teacher's section in the period
          periods,   \* school_timings.periods_per_day
          vehicle, shift,     \* whether there is one
          driver, riders, shiftRiders,  \* vehicles.driver_id, student_transport, transport_shift_students
          recorded,  \* sections with attendance
          call

places == <<place, lastPlace>>
transport == <<vehicle, shift, driver, riders, shiftRiders>>
tables == <<group, user, sections, classes, places, assigned, slot, periods, transport, recorded>>
vars == <<group, user, sections, classes, place, lastPlace, assigned, slot, periods,
          vehicle, shift, driver, riders, shiftRiders, recorded, call>>

People == Teachers \cup Students \cup Drivers \cup Principals
Rows == People \cup Sections \cup Classes \cup {"vehicle", "shift", "timings"}
\* Of assignments, op is the role; of timings, whether classes after one period stay or go.
Ops == {"leave", "return", "create", "update", "slot", "two", "one", "oneforced", "drive", "ride",
        "riders", "mark", "dropsection", "dropclass"} \cup Roles
Idle == [op |-> "none", who |-> None, at |-> None, holds |-> {}]

TypeOK ==
    /\ group \in Groups /\ ClassOf \in [Sections -> Classes]
    /\ user \in [People -> {"absent", "none", "here", "left"}]
    /\ classes \subseteq Classes
    /\ sections \subseteq {s \in group.sections : ClassOf[s] \in classes}
    /\ place \in [Students -> sections \cup {None}] /\ lastPlace \in [Students -> sections \cup {None}]
    /\ assigned \subseteq Teachers \X sections \X Roles
    /\ slot \in [Teachers -> sections \cup {None}] /\ periods \in 1..2
    /\ vehicle \in BOOLEAN /\ shift \in BOOLEAN /\ driver \in Drivers \cup {None}
    /\ riders \subseteq Students /\ shiftRiders \subseteq Students
    /\ ~vehicle => ~shift /\ riders = {} /\ driver = None
    /\ ~shift => shiftRiders = {}
    /\ recorded \subseteq sections
    /\ \A r \in Calls : call[r].op \in Ops \cup {"none"} /\ call[r].holds \subseteq Rows

Init ==
    /\ group \in Groups
    /\ user = [p \in People |-> IF p \notin group.people THEN "absent"
                                ELSE IF p \in Teachers \cup Drivers THEN "here" ELSE "none"]
    /\ sections = group.sections /\ classes = {ClassOf[s] : s \in sections}
    /\ place = [k \in Students |-> None] /\ lastPlace = place
    /\ assigned = {} /\ slot = [t \in Teachers |-> None] /\ periods = 2
    /\ vehicle = group.vehicle /\ shift = vehicle /\ driver = None /\ riders = {} /\ shiftRiders = {}
    /\ recorded = {}
    /\ call = [r \in Calls |-> Idle]

-----------------------------------------------------------------------------
(* Calls and their locks *)

Here(p) == user[p] = "here"
Free(r, rows) == \A o \in Calls \ {r} : call[o].holds \cap rows = {}

\* The call has locked and read what it needs; its writes come next.
Begin(r, op, who, at, locks) ==
    /\ call[r] = Idle
    /\ Free(r, locks)
    /\ call' = [call EXCEPT ![r] = [op |-> op, who |-> who, at |-> at, holds |-> locks]]
    /\ UNCHANGED tables

\* The writes of r and its COMMIT, when nobody else holds the rows they lock.
Writes(r, op, rows) ==
    /\ call[r].op = op
    /\ Free(r, rows)
    /\ call' = [call EXCEPT ![r] = Idle]

\* A rule, a key or a lost connection ends the call without effect.
Refuse(r) == /\ call[r] # Idle
             /\ call' = [call EXCEPT ![r] = Idle]
             /\ UNCHANGED tables

-----------------------------------------------------------------------------
(* People: leaving.py, users.py, students.py *)

\* The unique index on (org_id, principal_slot).
PrincipalKey(p) == p \in Principals => \A q \in Principals \ {p} : ~Here(q)

\* ensure_no_other_principal, and the same read in reactivate.
NoPrincipal(p) == PrincipalKey(p)

MarkLeftLocks(r, p) == Here(p) /\ Begin(r, "leave", p, None, {p})
MarkLeft(r) ==
    LET p == call[r].who IN
    /\ Writes(r, "leave", IF driver = p THEN {p, "vehicle"} ELSE {p})
    /\ user' = [user EXCEPT ![p] = "left"]
    /\ place' = [k \in Students |-> IF k = p THEN None ELSE place[k]]
    /\ lastPlace' = [k \in Students |-> IF k = p THEN place[k] ELSE lastPlace[k]]
    /\ riders' = riders \ {p} /\ shiftRiders' = shiftRiders \ {p}
    /\ assigned' = {a \in assigned : a[1] # p}
    /\ slot' = [t \in Teachers |-> IF t = p THEN None ELSE slot[t]]
    /\ driver' = IF driver = p THEN None ELSE driver
    /\ UNCHANGED <<group, sections, classes, periods, vehicle, shift, recorded>>

ReactivateLocks(r, p) == user[p] = "left" /\ NoPrincipal(p) /\ Begin(r, "return", p, None, {p})
\* A student goes back to the last section if it is still there.
Reactivate(r) ==
    LET p == call[r].who
        back == IF p \in Students /\ place[p] = None THEN lastPlace[p] ELSE None
    IN
    /\ Writes(r, "return", {p, back}) /\ PrincipalKey(p)
    /\ user' = [user EXCEPT ![p] = "here"]
    /\ place' = [k \in Students |-> IF k = p /\ back # None THEN back ELSE place[k]]
    /\ lastPlace' = [k \in Students |-> IF k = p /\ back # None THEN None ELSE lastPlace[k]]
    /\ UNCHANGED <<group, sections, classes, assigned, slot, periods, transport, recorded>>

\* create_staff (s = None) and create_student.
CreateReads(r, p, s) ==
    /\ user[p] = "none" /\ NoPrincipal(p)
    /\ IF p \in Students THEN s \in sections ELSE s = None
    /\ Begin(r, "create", p, s, {})
Create(r) ==
    LET p == call[r].who IN
    /\ Writes(r, "create", {p, call[r].at})
    /\ user[p] = "none" /\ PrincipalKey(p) /\ call[r].at \in sections \cup {None}
    /\ user' = [user EXCEPT ![p] = "here"]
    /\ place' = [k \in Students |-> IF k = p THEN call[r].at ELSE place[k]]
    /\ UNCHANGED <<group, sections, classes, lastPlace, assigned, slot, periods, transport, recorded>>

\* update_student reads the student without a lock and writes every column back; s is the
\* section it will write: the one read, or the one asked for.
UpdateStudentReads(r, k, s) ==
    /\ user[k] \in {"here", "left"}
    /\ s # place[k] => Here(k) /\ s \in sections
    /\ Begin(r, "update", k, s, {})
UpdateStudent(r) ==
    LET k == call[r].who IN
    /\ Writes(r, "update", {k, call[r].at})
    /\ call[r].at \in sections \cup {None}
    /\ place' = [place EXCEPT ![k] = call[r].at]
    /\ UNCHANGED <<group, user, sections, classes, lastPlace, assigned, slot, periods, transport, recorded>>

-----------------------------------------------------------------------------
(* Assignments and the timetable *)

ClassTeachers == {a \in assigned : a[3] = "class_teacher"}

AssignmentAllowed(t, s, role) ==
    /\ role = "class_teacher" => \A a \in ClassTeachers : a[1] # t /\ a[2] # s
    /\ <<t, s, role>> \notin assigned

\* create_assignment locks the teacher, then the section, and only then reads.
AssignLocks(r, t, s, role) ==
    /\ Here(t) /\ s \in sections /\ AssignmentAllowed(t, s, role)
    /\ Begin(r, role, t, s, {t, s})
Assign(r) ==
    LET t == call[r].who  s == call[r].at  role == call[r].op IN
    /\ role \in Roles /\ s \in sections /\ Writes(r, role, {t, s, ClassOf[s]})
    /\ assigned' = assigned \cup {<<t, s, role>>}
    /\ UNCHANGED <<group, user, sections, classes, places, slot, periods, transport, recorded>>

Unassign == /\ \E a \in assigned : assigned' = assigned \ {a}
            /\ UNCHANGED <<group, user, sections, classes, places, slot, periods, transport, recorded, call>>

\* upsert_slot: plain reads only.
SlotReads(r, t, s) == periods = 2 /\ Here(t) /\ s \in sections /\ Begin(r, "slot", t, s, {})
UpsertSlot(r) ==
    LET t == call[r].who  s == call[r].at IN
    /\ Writes(r, "slot", {t, s, ClassOf[s]}) /\ s \in sections
    /\ slot' = [slot EXCEPT ![t] = s]
    /\ UNCHANGED <<group, user, sections, classes, places, assigned, periods, transport, recorded>>

DeleteSlot == /\ \E t \in Teachers : slot[t] # None /\ slot' = [slot EXCEPT ![t] = None]
              /\ UNCHANGED <<group, user, sections, classes, places, assigned, periods, transport, recorded, call>>

\* save_timings with n periods: classes after them are deleted only if it has found some (force).
Beyond(n) == {t \in Teachers : slot[t] # None /\ n < 2}
TimingsLocks(r, n, force) ==
    /\ Beyond(n) # {} => force
    /\ Begin(r, IF n = 2 THEN "two" ELSE IF Beyond(n) # {} THEN "oneforced" ELSE "one", None, None, {"timings"})
SaveTimings(r) ==
    /\ \E op \in {"two", "one", "oneforced"} : Writes(r, op, {})
    /\ slot' = IF call[r].op = "oneforced" THEN [t \in Teachers |-> None] ELSE slot
    /\ periods' = IF call[r].op = "two" THEN 2 ELSE 1
    /\ UNCHANGED <<group, user, sections, classes, places, assigned, transport, recorded>>

-----------------------------------------------------------------------------
(* Transport and the driver routine *)

\* update_vehicle locks the row there is; create_vehicle has none.
VehicleRow == IF vehicle THEN {"vehicle"} ELSE {}
DriverLocks(r, d) == Here(d) /\ Begin(r, "drive", d, None, VehicleRow)
SetDriver(r) ==
    /\ Writes(r, "drive", {call[r].who, "vehicle"})
    /\ vehicle <=> "vehicle" \in call[r].holds
    /\ vehicle' = TRUE /\ driver' = call[r].who
    /\ UNCHANGED <<group, user, sections, classes, places, assigned, slot, periods, shift, riders, shiftRiders, recorded>>

DeleteVehicle ==
    /\ vehicle /\ \A o \in Calls : call[o].holds \cap {"vehicle", "shift"} = {}
    /\ vehicle' = FALSE /\ shift' = FALSE /\ driver' = None /\ riders' = {} /\ shiftRiders' = {}
    /\ UNCHANGED <<group, user, sections, classes, places, assigned, slot, periods, recorded, call>>

RideReads(r, k) == vehicle /\ Here(k) /\ Begin(r, "ride", k, None, {})
AssignStudent(r) ==
    /\ Writes(r, "ride", {call[r].who, "vehicle"}) /\ vehicle
    /\ riders' = riders \cup {call[r].who}
    /\ UNCHANGED <<group, user, sections, classes, places, assigned, slot, periods,
                   vehicle, shift, driver, shiftRiders, recorded>>
RemoveStudent ==
    /\ \E k \in riders : riders' = riders \ {k}
    /\ UNCHANGED <<group, user, sections, classes, places, assigned, slot, periods,
                   vehicle, shift, driver, shiftRiders, recorded, call>>

CreateShift ==
    /\ vehicle /\ shift' = TRUE /\ \A o \in Calls : "vehicle" \notin call[o].holds
    /\ UNCHANGED <<group, user, sections, classes, places, assigned, slot, periods,
                   vehicle, driver, riders, shiftRiders, recorded, call>>
DeleteShift ==
    /\ shift /\ \A o \in Calls : "shift" \notin call[o].holds
    /\ shift' = FALSE /\ shiftRiders' = {}
    /\ UNCHANGED <<group, user, sections, classes, places, assigned, slot, periods, vehicle, driver, riders, recorded, call>>

\* save_shift_students replaces the list.
ShiftStudentsLocks(r, K) == shift /\ (\A k \in K : Here(k)) /\ Begin(r, "riders", K, None, {"shift"})
SaveShiftStudents(r) ==
    /\ Writes(r, "riders", call[r].who \cup {"shift"}) /\ shift
    /\ shiftRiders' = call[r].who
    /\ UNCHANGED <<group, user, sections, classes, places, assigned, slot, periods, vehicle, shift, driver, riders, recorded>>

\* Mutant: without the condition on is_active.
RoutineOfAll(d) == IF driver # d THEN {} ELSE IF shift THEN shiftRiders ELSE riders

\* routine: whom a driver is to meet; a vehicle without shifts has its riders.
Routine(d) == IF driver # d THEN {} ELSE {k \in IF shift THEN shiftRiders ELSE riders : Here(k)}

-----------------------------------------------------------------------------
(* Records, sections and classes *)

MarkReads(r, k) == place[k] # None /\ Begin(r, "mark", k, place[k], {})
MarkAttendance(r) ==
    LET s == call[r].at IN
    /\ Writes(r, "mark", {call[r].who, s}) /\ s \in sections
    /\ recorded' = recorded \cup {s}
    /\ UNCHANGED <<group, user, sections, classes, places, assigned, slot, periods, transport>>

\* DELETE of sections: set-up goes with them, students lose them, records hold them.
Gone(S) ==
    /\ sections' = sections \ S
    /\ place' = [k \in Students |-> IF place[k] \in S THEN None ELSE place[k]]
    /\ lastPlace' = [k \in Students |-> IF lastPlace[k] \in S THEN None ELSE lastPlace[k]]
    /\ assigned' = {a \in assigned : a[2] \notin S}
    /\ slot' = [t \in Teachers |-> IF slot[t] \in S THEN None ELSE slot[t]]

\* ON DELETE RESTRICT of the records' foreign keys (migration 0017).
DeleteRows(S) == recorded \cap S = {} /\ Gone(S) /\ UNCHANGED recorded

\* _class_records and _refuse: what is recorded in these sections keeps them.
HasRecords(S) == recorded \cap S # {}

DropSectionLocks(r, s) ==
    s \in sections /\ ~HasRecords({s}) /\ Begin(r, "dropsection", s, None, {s, ClassOf[s]})
DeleteSection(r) ==
    /\ Writes(r, "dropsection", {})
    /\ DeleteRows({call[r].who})
    /\ UNCHANGED <<group, user, classes, periods, transport>>

SectionsOf(c) == {s \in sections : ClassOf[s] = c}

\* delete_class locks the class only, not its sections.
DropClassLocks(r, c) == c \in classes /\ ~HasRecords(SectionsOf(c)) /\ Begin(r, "dropclass", c, None, {c})
DeleteClass(r) ==
    LET c == call[r].who IN
    /\ Writes(r, "dropclass", SectionsOf(c))
    /\ DeleteRows(SectionsOf(c))
    /\ classes' = classes \ {c}
    /\ UNCHANGED <<group, user, periods, transport>>

CreateClass(c) ==
    /\ c \notin classes /\ classes' = classes \cup {c}
    /\ UNCHANGED <<group, user, sections, places, assigned, slot, periods, transport, recorded, call>>
CreateSection(s) ==
    /\ ClassOf[s] \in classes /\ s \notin sections
    /\ \A o \in Calls : ClassOf[s] \notin call[o].holds
    /\ sections' = sections \cup {s}
    /\ UNCHANGED <<group, user, classes, places, assigned, slot, periods, transport, recorded, call>>

-----------------------------------------------------------------------------

Arrive(r) ==
    \/ \E p \in People : MarkLeftLocks(r, p) \/ ReactivateLocks(r, p)
    \/ \E p \in People, s \in Sections \cup {None} : CreateReads(r, p, s)
    \/ \E k \in Students, s \in Sections \cup {None} : UpdateStudentReads(r, k, s)
    \/ \E t \in Teachers, s \in Sections, role \in Roles : AssignLocks(r, t, s, role)
    \/ \E t \in Teachers, s \in Sections : SlotReads(r, t, s)
    \/ \E n \in 1..2, force \in BOOLEAN : TimingsLocks(r, n, force)
    \/ \E d \in Drivers : DriverLocks(r, d)
    \/ \E k \in Students : RideReads(r, k) \/ MarkReads(r, k)
    \/ \E K \in SUBSET Students : ShiftStudentsLocks(r, K)
    \/ \E s \in Sections : DropSectionLocks(r, s)
    \/ \E c \in Classes : DropClassLocks(r, c)

Write(r) ==
    \/ MarkLeft(r) \/ Reactivate(r) \/ Create(r) \/ UpdateStudent(r)
    \/ Assign(r) \/ UpsertSlot(r) \/ SaveTimings(r)
    \/ SetDriver(r) \/ AssignStudent(r) \/ SaveShiftStudents(r)
    \/ MarkAttendance(r) \/ DeleteSection(r) \/ DeleteClass(r)

Next ==
    \/ \E r \in Calls : Arrive(r) \/ Write(r) \/ Refuse(r)
    \/ Unassign \/ DeleteSlot \/ DeleteVehicle \/ RemoveStudent \/ CreateShift \/ DeleteShift
    \/ \E s \in group.sections : CreateClass(ClassOf[s]) \/ CreateSection(s)

Spec == Init /\ [][Next]_vars

-----------------------------------------------------------------------------
(* Properties *)

\* leaving.py:14, assignments.py:13: nobody who left is assigned, whatever raced with the
\* leaving, and the class teacher of a section, and a teacher's section, is one.
AssignmentsStand ==
    /\ \A a \in assigned : Here(a[1])
    /\ \A a, b \in ClassTeachers : (a[1] = b[1]) = (a[2] = b[2])

\* users.py:18: "There is only one principal", though two calls may both have found none.
OnePrincipal == Cardinality({p \in Principals : Here(p)}) <= 1

\* driver_routine.py:107: a driver meets nobody at the door who left, not even a student whom a
\* racing call put back on the bus.
DriversMeetStudents == \A d \in Drivers : \A k \in Routine(d) : Here(k)

\* The three together.
PlacesHold == AssignmentsStand /\ OnePrincipal /\ DriversMeetStudents

\* classes.py:92, migration 0017: attendance is never erased with its section or class,
\* even what is marked while the section is being deleted.
RecordsSurvive == [][recorded \subseteq recorded']_vars

\* leaving.py:13: who left is off everything current: list, bus, assignments, timetable, vehicle.
\* The plain reads of timetable.py:49, transport.py:38 and :121, driver_routine.py:279 and
\* students.py:126 break it.
LeftHasNoPlace ==
    \A p \in People : user[p] = "left" =>
        /\ p \in Students => place[p] = None /\ p \notin riders \cup shiftRiders
        /\ p \in Teachers => slot[p] = None /\ \A a \in assigned : a[1] # p
        /\ p # driver
=============================================================================
