----------------------------- MODULE Migrations -----------------------------
(***************************************************************************)
(* alembic upgrade head: the 18 revisions of migrations/versions, statement *)
(* by statement.  MySQL commits every DDL statement at once, the version   *)
(* only when a revision is through, so a run that dies is repeated from    *)
(* the beginning of its revision on what it left; helpers.py makes most    *)
(* statements look before they change anything.                            *)
(*                                                                         *)
(* The schema is a set of facts: tables, the columns that revisions add,   *)
(* the DEFAULT of org_id, foreign keys with their rule, the unique keys    *)
(* that revisions replace, and the plain indexes that take over from, or   *)
(* give back, the one MySQL made for a foreign key.  Other columns, keys   *)
(* and indexes, types and seed rows are left out.                          *)
(***************************************************************************)
EXTENDS Naturals, FiniteSets, Sequences, SequencesExt

CONSTANTS MaxCrashes, MaxDowngrades

VARIABLES schema,    \* the facts
          rev,       \* alembic_version
          run,       \* the revision under way, its direction and its next statement
          new,       \* the local variable of a revision: it has just added the column
          blocked,   \* revisions that refuse what the tables hold
          failed,    \* an upgrade came to a statement the database refuses
          crashes, downgrades

vars == <<schema, rev, run, new, blocked, failed, crashes, downgrades>>

Table(t) == <<"table", t>>
Column(t, c) == <<"column", t, c>>
Default(t) == <<"default", t>>
Unique(t, cs) == <<"unique", t, cs>>
Index(t, cs) == <<"index", t, cs>>
Key(t, c, to, rule) == <<"key", t, c, to, rule>>

Rules == {"cascade", "null", "restrict"}
KeysOn(S, t, c, to) == {k \in {Key(t, c, to, rule) : rule \in Rules} : k \in S}
KeysTo(S, to) == {k \in S : k[1] = "key" /\ k[4] = to}

\* The first column of a unique key or an index, by the name it has here.
Leading(cs) ==
    CASE cs \in {"exam_student", "exam_student_subject"} -> "exam_id"
      [] cs = "section_roll" -> "section_id"
      [] cs \in {"org_username", "org_principal_slot", "org_name", "org_title", "org_date", "org_vehicle_no",
                 "org_admission_no"} -> "org_id"
      [] cs = "student_title" -> "student_id"
      [] cs = "fee_status" -> "fee_id"
      [] OTHER -> cs
\* A foreign key of f's table needs f: no other index begins with its column.
Needed(S, f) ==
    /\ \E k \in S : k[1] = "key" /\ k[2] = f[2] /\ k[3] = Leading(f[3])
    /\ \A g \in S \ {f} : g[1] \in {"unique", "index"} /\ g[2] = f[2] => Leading(g[3]) # Leading(f[3])

-----------------------------------------------------------------------------
(* Statements *)

Statement(do, t, c, to, rule, refs) ==
    [do |-> do, t |-> t, c |-> c, to |-> to, rule |-> rule, refs |-> refs]

\* CREATE TABLE IF NOT EXISTS; refs are its foreign keys and unique keys.
Create(t, refs) == Statement("create", t, "", "", "", refs)
Drop(t) == Statement("drop", t, "", "", "", {})
AddColumn(t, c) == Statement("add column", t, c, "", "", {})
DropColumn(t, c) == Statement("drop column", t, c, "", "", {})
\* ALTER TABLE t DROP COLUMN ..., DROP COLUMN ..., without a look.
DropColumns(t, cs) == Statement("drop columns", t, "", "", "", cs)
AddUnique(t, cs) == Statement("add unique", t, cs, "", "", {})
DropUnique(t, cs) == Statement("drop unique", t, cs, "", "", {})
AddIndex(t, cs) == Statement("add index", t, cs, "", "", {})
DropIndex(t, cs) == Statement("drop index", t, cs, "", "", {})
DropKeys(t, c, to) == Statement("drop keys", t, c, to, "", {})
AddKey(t, c, to, rule) == Statement("add key", t, c, to, rule, {})
AddKeyOnce(t, c, to, rule) == Statement("add key once", t, c, to, rule, {})
\* new := the table is there and has no such column; what follows depends on new.
Look(t, c) == Statement("look", t, c, "", "", {})
IfNew(s) == [s EXCEPT !.rule = "new"]
AddOrg(t) == IfNew(Statement("add org", t, "org_id", "", "", {}))
DropDefault(t) == IfNew(Statement("drop default", t, "", "", "", {}))
AddOrgKey(t) == IfNew(Statement("add org key", t, "org_id", "organisations", "", {}))
ForceSeeds == IfNew(Statement("force", "users", "", "", "", {}))

\* A foreign key of a CREATE TABLE that is gone with its target, or set NULL.
Of(c, to) == <<c, to, "cascade">>
Link(c, to) == <<c, to, "null">>
By(c) == Of(c, "users")
Org == <<"org_id", "organisations", "restrict">>

\* What the helpers' looks, IF [NOT] EXISTS and local variables skip.
Skipped(S, s) ==
    \/ s.do = "create" /\ Table(s.t) \in S
    \/ s.do = "drop" /\ Table(s.t) \notin S
    \/ s.do = "add column" /\ Column(s.t, s.c) \in S
    \/ s.do = "drop column" /\ Column(s.t, s.c) \notin S
    \/ s.do = "add unique" /\ Unique(s.t, s.c) \in S
    \/ s.do = "drop unique" /\ Unique(s.t, s.c) \notin S
    \/ s.do = "add index" /\ Index(s.t, s.c) \in S
    \/ s.do = "drop index" /\ Index(s.t, s.c) \notin S
    \/ s.do \in {"add key once", "add org key"} /\ KeysOn(S, s.t, s.c, s.to) # {}

\* What MySQL refuses; the two Needed are its error 1553.
Refused(S, s) ==
    \/ s.do = "create" /\ \E r \in s.refs : Len(r) = 3 /\ Table(r[2]) \notin S
    \/ s.do = "drop" /\ \E k \in KeysTo(S, s.t) : k[2] # s.t
    \/ s.do \in {"add column", "add unique", "add index", "add key", "add key once"} /\ Table(s.t) \notin S
    \/ s.do = "drop unique" /\ Needed(S, Unique(s.t, s.c))
    \/ s.do = "drop index" /\ Needed(S, Index(s.t, s.c))
    \/ s.do = "drop columns" /\ \E c \in s.refs : Column(s.t, c) \notin S
    \/ s.do = "drop column" /\ \E k \in S : k[1] = "key" /\ k[2] = s.t /\ k[3] = s.c
    \/ s.do \in {"add key", "add key once"} /\ Table(s.to) \notin S
    \/ s.do = "add key" /\ KeysOn(S, s.t, s.c, s.to) # {}

Effect(S, s) ==
    CASE s.do = "create" -> S \cup {Table(s.t)} \cup
             {IF Len(r) = 3 THEN Key(s.t, r[1], r[2], r[3]) ELSE Unique(s.t, r[1]) : r \in s.refs}
      [] s.do = "drop" -> {f \in S : f[2] # s.t}
      [] s.do = "add column" -> S \cup {Column(s.t, s.c)}
      [] s.do = "drop column" -> S \ {Column(s.t, s.c), Default(s.t)}
      [] s.do = "add unique" -> S \cup {Unique(s.t, s.c)}
      [] s.do = "drop unique" -> S \ {Unique(s.t, s.c)}
      [] s.do = "add index" -> S \cup {Index(s.t, s.c)}
      [] s.do = "drop index" -> S \ {Index(s.t, s.c)}
      [] s.do = "drop columns" -> S \ {Column(s.t, c) : c \in s.refs}
      [] s.do = "drop keys" -> S \ KeysOn(S, s.t, s.c, s.to)
      [] s.do \in {"add key", "add key once"} -> S \cup {Key(s.t, s.c, s.to, s.rule)}
      [] s.do = "add org" -> S \cup {Column(s.t, "org_id")} \cup (IF s.t = "audit_logs" THEN {} ELSE {Default(s.t)})
      [] s.do = "drop default" -> S \ {Default(s.t)}
      [] s.do = "add org key" -> S \cup {Key(s.t, "org_id", "organisations", "restrict")}
      [] s.do = "force" -> S \cup {Column("users", "forced")}
      [] OTHER -> S

ForEach(seq, F(_)) == FlattenSeq([i \in DOMAIN seq |-> F(seq[i])])
-----------------------------------------------------------------------------
(* The revisions *)

\* V7_STATEMENTS of 0001, as far as 0009 and 0015 replace their unique keys.
People == <<
    Create("users", {<<"username">>}), Create("classes", {<<"name">>}),
    Create("sections", {Of("class_id", "classes")}), Create("class_subjects", {Of("class_id", "classes")}),
    Create("teacher_profiles", {By("user_id")}),
    Create("teacher_assignments", {By("teacher_id"), Of("class_id", "classes"), Of("section_id", "sections")}),
    Create("student_profiles", {By("user_id"), Link("class_id", "classes"), Link("section_id", "sections")}),
    Create("homeworks", {By("student_id"), By("created_by")}),
    Create("student_remarks", {By("student_id"), By("created_by")}),
    Create("report_cards", {By("student_id"), By("created_by")})>>
Lessons == <<
    Create("lesson_plans", {By("teacher_id"), Of("class_id", "classes"), Link("section_id", "sections")}),
    Create("lesson_files", {Of("lesson_plan_id", "lesson_plans")}),
    Create("notices", {By("created_by")}), Create("enquiries", {By("created_by")}),
    Create("fees", {By("student_id")}),
    Create("transactions", {Link("student_id", "users"), Link("fee_id", "fees")}),
    Create("attendance", {By("student_id"), Of("section_id", "sections"), By("marked_by")}),
    Create("exams", {Of("class_id", "classes")}),
    Create("exam_results", {Of("exam_id", "exams"), By("student_id"), <<"exam_student">>}),
    Create("exam_papers", {Of("exam_id", "exams"), Of("class_id", "classes"), By("uploaded_by")})>>
Office == <<
    Create("fee_claims", {Of("fee_id", "fees"), By("student_id"), Link("reviewed_by", "users")}),
    Create("timetable_slots", {By("teacher_id"), Of("class_id", "classes"), Of("section_id", "sections")}),
    Create("calendar_events", {Link("created_by", "users"), <<"title">>}),
    Create("calendar_event_dates", {Of("event_id", "calendar_events")}),
    Create("holidays", {Of("event_id", "calendar_events"), By("created_by"), <<"date">>}),
    Create("leave_requests", {By("user_id"), Link("reviewed_by", "users")}),
    Create("salary_records", {By("user_id"), By("created_by")}),
    Create("staff_attendance", {By("user_id")}), Create("vehicles", {<<"vehicle_no">>}),
    Create("sms_messages", {By("created_by")})>>
Baseline == People \o Lessons \o Office

AuthUp == <<Look("users", "must_change_password"),
    AddColumn("users", "token_version"), AddColumn("users", "must_change_password"),
    AddColumn("users", "password_changed_at"), ForceSeeds,
    Create("auth_sessions", {By("user_id")}), Create("auth_login_attempts", {}), Create("audit_logs", {}),
    AddIndex("fees", "student_title"), AddIndex("fee_claims", "fee_status")>>
AuthDown == <<AddIndex("fee_claims", "fee_id"), AddIndex("fees", "student_id"),
    DropIndex("fee_claims", "fee_status"), DropIndex("fees", "student_title"),
    Drop("audit_logs"), Drop("auth_login_attempts"), Drop("auth_sessions"),
    DropColumn("users", "password_changed_at"), DropColumn("users", "must_change_password"),
    DropColumn("users", "token_version")>>

StudentKeysUp == <<AddUnique("student_profiles", "admission_no"), AddUnique("student_profiles", "section_roll")>>
StudentKeysDown == <<AddIndex("student_profiles", "section_id"),
    DropUnique("student_profiles", "section_roll"), DropUnique("student_profiles", "admission_no")>>

PrincipalUp == <<Create("password_reset_codes", {By("user_id")}), Create("auth_reset_requests", {}),
    AddColumn("users", "principal_slot"), AddUnique("users", "principal_slot")>>
PrincipalDown == <<DropUnique("users", "principal_slot"), DropColumn("users", "principal_slot"),
    Drop("auth_reset_requests"), Drop("password_reset_codes")>>

NotificationsUp == <<Create("notifications", {By("user_id")}), Create("device_tokens", {By("user_id")}),
    Create("fee_reminders_sent", {Of("fee_id", "fees")})>>
NotificationsDown == <<Drop("fee_reminders_sent"), Drop("device_tokens"), Drop("notifications")>>

TimingsUp == <<Create("school_timings", {Link("updated_by", "users")})>>
TimingsDown == <<Drop("school_timings")>>

SubstitutionsUp == <<Create("substitution_requests",
    {Link("leave_id", "leave_requests"), By("requester_id"), By("substitute_id"),
     Link("timetable_slot_id", "timetable_slots"), Of("class_id", "classes"), Of("section_id", "sections")})>>
SubstitutionsDown == <<Drop("substitution_requests")>>

HomeworkUp == <<
    Create("class_homework", {Of("class_id", "classes"), Of("section_id", "sections"), By("created_by")}),
    Create("homework_submissions", {Of("homework_id", "class_homework"), By("student_id"), Link("updated_by", "users")})>>
HomeworkDown == <<Drop("homework_submissions"), Drop("class_homework")>>

OrgTables == <<"users", "classes", "sections", "teacher_assignments", "student_profiles", "attendance",
    "fees", "fee_claims", "transactions", "lesson_plans", "notices", "enquiries", "exams",
    "timetable_slots", "calendar_events", "holidays", "leave_requests", "salary_records",
    "staff_attendance", "vehicles", "sms_messages", "school_timings", "substitution_requests",
    "class_homework", "audit_logs">>
\* The unique keys that become unique per school.
PerSchool == <<<<"users", "username", "org_username">>, <<"users", "principal_slot", "org_principal_slot">>,
    <<"classes", "name", "org_name">>, <<"calendar_events", "title", "org_title">>,
    <<"holidays", "date", "org_date">>, <<"vehicles", "vehicle_no", "org_vehicle_no">>,
    <<"student_profiles", "admission_no", "org_admission_no">>>>

\* Mutant: the old rule goes before the new one.
OldRuleFirst(u) == <<DropUnique(u[1], u[2]), AddUnique(u[1], u[3])>>
NewRuleFirst(u) == <<AddUnique(u[1], u[3]), DropUnique(u[1], u[2])>>

OrganisationsUp ==
    <<Create("organisations", {})>>
    \o ForEach(OrgTables, LAMBDA t : <<Look(t, "org_id"), AddOrg(t), DropDefault(t), AddOrgKey(t)>>)
    \o ForEach(PerSchool, NewRuleFirst) \o <<AddUnique("school_timings", "org_id")>>
OrganisationsDown ==
    ForEach(Reverse(OrgTables), LAMBDA t : <<DropKeys(t, "org_id", "organisations")>>)
    \o <<DropUnique("school_timings", "org_id")>>
    \o ForEach(Reverse(PerSchool), LAMBDA u : <<AddUnique(u[1], u[2]), DropUnique(u[1], u[3])>>)
    \o ForEach(Reverse(OrgTables), LAMBDA t : <<DropColumn(t, "org_id")>>)
    \o <<Drop("organisations")>>

Columns(t, cs) == [i \in DOMAIN cs |-> AddColumn(t, cs[i])]
NoColumns(t, cs) == [i \in DOMAIN cs |-> DropColumn(t, cs[Len(cs) + 1 - i])]
Profile == <<"logo_path", "director_name", "principal_name", "affiliation_no", "phone", "tel", "email",
    "website", "address", "session_start_month">>
Attachment == <<"attachment_path", "attachment_name", "attachment_type">>
VehicleColumns == <<"vehicle_type", "driver_id", "shift_name", "shift_start", "shift_end">>
NewTables == <<"student_transport", "event_media", "events", "message_recipients", "messages",
    "school_documents", "announcement_images", "announcements">>

PortalUp ==
    Columns("organisations", Profile) \o <<AddColumn("teacher_profiles", "designation")>>
    \o Columns("notices", Attachment) \o Columns("class_homework", Attachment)
    \o Columns("vehicles", VehicleColumns)
    \o <<AddKeyOnce("vehicles", "driver_id", "users", "null"),
         Create("announcements", {Org, Link("created_by", "users")}),
         Create("announcement_images", {Of("announcement_id", "announcements")}),
         Create("school_documents",
             {Org, Of("class_id", "classes"), Of("section_id", "sections"), Link("created_by", "users")}),
         Create("messages",
             {Org, Link("sender_id", "users"), Link("class_id", "classes"), Link("section_id", "sections")}),
         Create("message_recipients", {Of("message_id", "messages"), By("student_id")}),
         Create("events", {Org, Link("created_by", "users")}),
         Create("event_media", {Of("event_id", "events")}),
         Create("student_transport", {Org, By("student_id"), Of("vehicle_id", "vehicles")})>>
PortalDown ==
    ForEach(NewTables, LAMBDA t : <<Drop(t)>>)
    \o <<DropKeys("vehicles", "driver_id", "users")>> \o NoColumns("vehicles", VehicleColumns)
    \o NoColumns("class_homework", Attachment) \o NoColumns("notices", Attachment)
    \o <<DropColumn("teacher_profiles", "designation")>> \o NoColumns("organisations", Profile)

RoutineUp == <<Create("transport_shifts", {Org, Of("vehicle_id", "vehicles")}),
    Create("transport_shift_students", {Of("shift_id", "transport_shifts"), By("student_id")})>>
RoutineDown == <<Drop("transport_shift_students"), Drop("transport_shifts")>>

\* _set_fk of 0013 and 0017: whatever key there is, then the one with this rule.
SetKey(k, to, rule) == <<DropKeys(k[1], k[2], to), AddKey(k[1], k[2], to, rule)>>

AuthorColumns == <<<<"attendance", "marked_by">>, <<"class_homework", "created_by">>,
    <<"enquiries", "created_by">>, <<"exam_papers", "uploaded_by">>, <<"holidays", "created_by">>,
    <<"homeworks", "created_by">>, <<"lesson_plans", "teacher_id">>, <<"notices", "created_by">>,
    <<"report_cards", "created_by">>, <<"salary_records", "created_by">>,
    <<"sms_messages", "created_by">>, <<"student_remarks", "created_by">>>>
OwnerColumns == <<<<"attendance", "student_id">>, <<"exam_results", "student_id">>,
    <<"fee_claims", "student_id">>, <<"fees", "student_id">>, <<"homework_submissions", "student_id">>,
    <<"homeworks", "student_id">>, <<"leave_requests", "user_id">>, <<"report_cards", "student_id">>,
    <<"salary_records", "user_id">>, <<"staff_attendance", "user_id">>, <<"student_remarks", "student_id">>,
    <<"substitution_requests", "requester_id">>, <<"substitution_requests", "substitute_id">>,
    <<"transactions", "student_id">>>>
PrincipalSlot == <<DropUnique("users", "org_principal_slot"), DropColumn("users", "principal_slot"),
    AddColumn("users", "principal_slot"), AddUnique("users", "org_principal_slot")>>

HistoryUp ==
    <<AddColumn("users", "left_on"), AddColumn("users", "left_reason")>> \o PrincipalSlot
    \o <<AddColumn("student_profiles", "last_class_id"), AddKeyOnce("student_profiles", "last_class_id", "classes", "null"),
         AddColumn("student_profiles", "last_section_id"), AddKeyOnce("student_profiles", "last_section_id", "sections", "null")>>
    \o ForEach(AuthorColumns, LAMBDA k : SetKey(k, "users", "null"))
    \o ForEach(OwnerColumns, LAMBDA k : SetKey(k, "users", "restrict"))
HistoryDown ==
    ForEach(OwnerColumns, LAMBDA k : SetKey(k, "users", IF k[1] = "transactions" THEN "null" ELSE "cascade"))
    \o ForEach(AuthorColumns, LAMBDA k : SetKey(k, "users", "cascade"))
    \o <<DropKeys("student_profiles", "last_section_id", "sections"), DropColumn("student_profiles", "last_section_id"),
         DropKeys("student_profiles", "last_class_id", "classes"), DropColumn("student_profiles", "last_class_id")>>
    \o PrincipalSlot \o <<DropColumn("users", "left_reason"), DropColumn("users", "left_on")>>

CaptchaUp == <<AddColumn("auth_login_attempts", "device_id"), Create("auth_captchas", {})>>
CaptchaDown == <<Drop("auth_captchas"), DropColumn("auth_login_attempts", "device_id")>>

SubjectsUp == <<AddColumn("exams", "max_marks"), AddColumn("exam_results", "subject"),
    AddColumn("exam_results", "max_marks")>> \o NewRuleFirst(<<"exam_results", "exam_student", "exam_student_subject">>)
SubjectsDown == NewRuleFirst(<<"exam_results", "exam_student_subject", "exam_student">>)
    \o <<DropColumn("exam_results", "max_marks"), DropColumn("exam_results", "subject"), DropColumn("exams", "max_marks")>>

JobsUp == <<Create("background_jobs", {}), Create("scheduled_runs", {})>>
JobsDown == <<Drop("scheduled_runs"), Drop("background_jobs")>>

Protected == <<<<"attendance", "section_id", "sections">>, <<"class_homework", "class_id", "classes">>,
    <<"class_homework", "section_id", "sections">>, <<"school_documents", "class_id", "classes">>,
    <<"school_documents", "section_id", "sections">>, <<"substitution_requests", "class_id", "classes">>,
    <<"substitution_requests", "section_id", "sections">>, <<"lesson_plans", "class_id", "classes">>,
    <<"exam_results", "exam_id", "exams">>, <<"fee_claims", "fee_id", "fees">>>>
ProtectUp == ForEach(Protected, LAMBDA k : SetKey(k, k[3], "restrict"))
ProtectDown == ForEach(Protected, LAMBDA k : SetKey(k, k[3], "cascade"))

NoticesUp == <<AddColumn("notices", "audience"), AddColumn("notices", "audience_label"),
    Create("notice_classes", {Of("notice_id", "notices"), Of("class_id", "classes")}),
    Create("class_announcements", {Org, Link("created_by", "users")}),
    Create("class_announcement_sections",
        {Of("announcement_id", "class_announcements"), Of("section_id", "sections"), Of("class_id", "classes")})>>
NoticesDown == <<Drop("class_announcement_sections"), Drop("class_announcements"), Drop("notice_classes"),
    DropColumns("notices", {"audience_label", "audience"})>>

\* 0010 has plain indexes only.
Ups == <<Baseline, AuthUp, StudentKeysUp, PrincipalUp, NotificationsUp, TimingsUp, SubstitutionsUp,
    HomeworkUp, OrganisationsUp, <<>>, PortalUp, RoutineUp, HistoryUp, CaptchaUp, SubjectsUp, JobsUp,
    ProtectUp, NoticesUp>>
Downs == <<<<>>, AuthDown, StudentKeysDown, PrincipalDown, NotificationsDown, TimingsDown, SubstitutionsDown,
    HomeworkDown, OrganisationsDown, <<>>, PortalDown, RoutineDown, HistoryDown, CaptchaDown, SubjectsDown,
    JobsDown, ProtectDown, NoticesDown>>
Latest == Len(Ups)

-----------------------------------------------------------------------------
(* Runs *)

Rest(up) == [n |-> 0, up |-> up, next |-> 1]
Idle == run.n = 0
Statements == IF run.up THEN Ups[run.n] ELSE Downs[run.n]
Added(seq) == UNION {Effect({}, seq[i]) : i \in DOMAIN seq}

\* An empty database, one of the old SQL files, or one with migration_v8.sql applied by hand.
Init ==
    /\ schema \in {{}, Added(Baseline), Added(Baseline \o AuthUp)}
    /\ blocked \in SUBSET {3, 4}
    /\ rev = 0 /\ run = Rest(TRUE) /\ new = FALSE /\ failed = FALSE
    /\ crashes = 0 /\ downgrades = 0

\* 0001 adopts a database of v7; one that stopped half way is taken for an older one.
Adopted == Table("users") \in schema
TooOld == Adopted /\ Table("calendar_events") \notin schema

\* The next revision of an upgrade.  0003 and 0004 look at the data first, in the revision itself.
BeginUp ==
    /\ Idle /\ rev < Latest /\ rev + 1 \notin blocked
    /\ IF rev = 0 /\ Adopted
       THEN rev' = (IF TooOld THEN 0 ELSE 1) /\ failed' = (failed \/ TooOld) /\ UNCHANGED run
       ELSE run' = [n |-> rev + 1, up |-> TRUE, next |-> 1] /\ UNCHANGED <<rev, failed>>
    /\ UNCHANGED <<schema, new, blocked, crashes, downgrades>>

\* Somebody removes the duplicates or the second principal in the app.
CleanUp == /\ \E n \in blocked : blocked' = blocked \ {n}
           /\ UNCHANGED <<schema, rev, run, new, failed, crashes, downgrades>>

Execute ==
    /\ ~Idle /\ run.next <= Len(Statements)
    /\ LET s == Statements[run.next]
           skip == Skipped(schema, s) \/ (s.rule = "new" /\ ~new)
       IN
       /\ skip \/ ~Refused(schema, s)
       /\ schema' = IF skip THEN schema ELSE Effect(schema, s)
       /\ new' = IF s.do = "look" THEN Table(s.t) \in schema /\ Column(s.t, s.c) \notin schema ELSE new
    /\ run' = [run EXCEPT !.next = @ + 1]
    /\ UNCHANGED <<rev, blocked, failed, crashes, downgrades>>

\* A statement the database refuses ends the run.
Fail ==
    /\ ~Idle /\ run.next <= Len(Statements)
    /\ LET s == Statements[run.next] IN
       ~Skipped(schema, s) /\ ~(s.rule = "new" /\ ~new) /\ Refused(schema, s)
    /\ failed' = TRUE /\ run' = Rest(run.up)
    /\ UNCHANGED <<schema, rev, new, blocked, crashes, downgrades>>

\* The version is committed; an upgrade goes on to the head, a downgrade wherever it is to end.
Finish ==
    /\ ~Idle /\ run.next > Len(Statements)
    /\ rev' = IF run.up THEN rev + 1 ELSE rev - 1
    /\ run' = Rest(run.up)
    /\ UNCHANGED <<schema, new, blocked, failed, crashes, downgrades>>

BeginDown ==
    /\ Idle /\ downgrades < MaxDowngrades /\ rev = Latest
    /\ run' = [n |-> rev, up |-> FALSE, next |-> 1] /\ downgrades' = downgrades + 1
    /\ UNCHANGED <<schema, rev, new, blocked, failed, crashes>>
GoOnDown ==
    /\ Idle /\ ~run.up /\ rev \in 2..(Latest - 1)
    /\ run' = [n |-> rev, up |-> FALSE, next |-> 1]
    /\ UNCHANGED <<schema, rev, new, blocked, failed, crashes, downgrades>>

\* The container dies; what is committed stays.
Crash ==
    /\ ~Idle /\ run.up /\ crashes < MaxCrashes
    /\ crashes' = crashes + 1 /\ run' = Rest(TRUE) /\ new' = FALSE
    /\ UNCHANGED <<schema, rev, blocked, failed, downgrades>>

Next == BeginUp \/ CleanUp \/ Execute \/ Fail \/ Finish \/ BeginDown \/ GoOnDown \/ Crash

Spec == Init /\ [][Next]_vars

-----------------------------------------------------------------------------
(* Properties *)

TypeOK ==
    /\ \A f \in schema : f[1] \in {"table", "column", "default", "unique", "index", "key"} /\ Table(f[2]) \in schema
    /\ rev \in 0..Latest /\ run.n \in 0..Latest /\ run.next \in 1..200
    /\ new \in BOOLEAN /\ failed \in BOOLEAN /\ blocked \subseteq {3, 4}

\* The schema of a fresh database that nothing interrupted: what one statement makes and none after
\* it takes away.
Whole ==
    LET all == FlattenSeq(Ups) IN
    {f \in Added(all) : \E i \in DOMAIN all :
        f \in Effect({}, all[i]) /\ \A j \in (i + 1)..Len(all) : f \in Effect({f}, all[j])}

\* helpers.py:1, tests/test_migrations.py:57, :70: whatever database it started from and whatever
\* died on the way, and after going back and forth, the schema at the head is the same.  A crash may leave
\* one column's follow-up out (0002: the seed accounts; 0009: DEFAULT and foreign key of org_id), and
\* the plain indexes that going back to before 0002 and 0003 puts in stay (0002:104, 0003:63).
HeadIsWhole ==
    rev = Latest /\ Idle =>
        LET lost == Whole \ schema  extra == {f \in schema \ Whole : f[1] # "index"} IN
        /\ \A f \in extra : f[1] = "default"
        /\ \A f \in lost : f = Column("users", "forced") \/ (f[1] = "key" /\ f[3] = "org_id")
        /\ Cardinality({f[2] : f \in lost \cup extra}) <= crashes

\* helpers.py:1: a revision that is run again never meets a statement the database refuses, but for
\* 0001, which takes a schema it has left half done for one of an older version.
RerunsSucceed == failed => \E i \in DOMAIN Baseline : Table(Baseline[i].t) \notin schema

\* A run of revisions gets to the head, and the head is one schema.
UpgradesEndWhole == HeadIsWhole /\ RerunsSucceed

\* 0009:119 "new rule first: uniqueness holds throughout", and 0015:32 does the same: there is never a
\* moment without the old key or the new one.  (0013 does replace the principal's key by nothing for two statements.)
UniquenessHolds ==
    /\ \A i \in DOMAIN PerSchool :
        LET u == PerSchool[i] IN
        \/ Unique(u[1], u[2]) \in schema \/ Unique(u[1], u[3]) \in schema
        \/ Table(u[1]) \notin schema
        \/ u[2] = "principal_slot" /\ (rev < 4 \/ run.n \in {4, 13} \/ (rev = 12 /\ crashes > 0))
        \/ u[2] = "admission_no" /\ (rev < 3 \/ run.n = 3)
    /\ \/ Unique("exam_results", "exam_student") \in schema
       \/ Unique("exam_results", "exam_student_subject") \in schema
       \/ Table("exam_results") \notin schema

\* 0013:22, 0017: once the revision is through, no deletion of a class, section, exam, fee or account
\* erases records, by whatever chain of cascades.
Records == {"attendance", "exam_results", "fees", "fee_claims", "transactions", "salary_records",
    "staff_attendance", "leave_requests", "substitution_requests", "report_cards", "student_remarks",
    "homeworks", "class_homework", "homework_submissions", "lesson_plans", "lesson_files", "school_documents"}
\* The tables that lose rows with rows of the tables T.
Lose(S, T) == {k[2] : k \in {f \in S : f[1] = "key" /\ f[5] = "cascade" /\ f[4] \in T}}
RecordsAreProtected ==
    rev >= 17 /\ Idle =>
        LET lost[n \in 0..4] ==
                IF n = 0 THEN Lose(schema, {"classes", "sections", "exams", "fees", "users"})
                ELSE lost[n - 1] \cup Lose(schema, lost[n - 1])
        IN lost[4] \cap Records = {}

\* What the app counts on the schema for, it has: while revisions run, and at the head.
RulesHold == UniquenessHolds /\ RecordsAreProtected
=============================================================================
