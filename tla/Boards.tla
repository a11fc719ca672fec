------------------------------- MODULE Boards -------------------------------
(***************************************************************************)
(* What the school tells people: notices, class announcements, homework,   *)
(* documents, events, launch announcements, remarks, lesson plans and the  *)
(* day's attendance.  A behaviour is about one post of one kind: who is    *)
(* told of it, who finds it in a list, its files, its due date (an event's *)
(* or an announcement's last day; the mark of an attendance).              *)
(*                                                                         *)
(* Homework is two topics, for its columns have nothing to do with each    *)
(* other: "homework" with its due date and what is handed in, "worksheet"  *)
(* with its file.                                                          *)
(*                                                                         *)
(* A call reads, with the post's row locked or not, and writes; it keeps   *)
(* the rows it has written until it ends with that second step.  Texts are *)
(* left out; pushes are background jobs of the same transaction.           *)
(***************************************************************************)
EXTENDS Naturals, FiniteSets

CONSTANTS Calls, Students, Managers, Teachers, Drivers, Sections, Classes, ClassOf,
          Teaches,   \* the sections each teacher is assigned to
          Files, MaxImages,
          MaxMoves,  \* bound: how many students move
          Topics,    \* what the behaviours are about
          None

VARIABLES topic,
          post,      \* None, or its row: author, targets, due, files, and whether it is there
          place,     \* student_profiles: class and section; None for one who left
          status,    \* homework_submissions
          heard,     \* notifications: what everybody was last told
          files,     \* the file store
          moved,     \* students who moved since the post was begun
          overtaken, \* what a call has written over, unread and without a word to anybody: due, files
          call

vars == <<topic, post, place, status, heard, files, moved, overtaken, call>>

Staff == Managers \cup Teachers \cup Drivers
People == Students \cup Staff
Places == {[class |-> ClassOf[s], section |-> s] : s \in Sections}
              \cup {[class |-> c, section |-> None] : c \in Classes \cup {None}} \cup {None}
Dues == IF topic = "attendance" THEN {"present", "absent"}
        ELSE IF topic \in {"homework", "event", "announcement"} THEN {"past", "soon", "later"} ELSE {"posted"}
Idle == [op |-> "none", row |-> None, told |-> {}, was |-> None, old |-> {}, new |-> {}, holds |-> FALSE]
Single == {"notice", "class_announcement", "worksheet", "document"}
Albums == {"event", "announcement"}

\* A person has one role, a section one class; None is nothing else.
ASSUME PostsAssumption ==
    /\ Students \cap Staff = {} /\ IsFiniteSet(Students)
    /\ ClassOf \in [Sections -> Classes] /\ Teaches \in [Teachers -> SUBSET Sections]
    /\ {None, "school"} \cap (Sections \cup Classes) = {} /\ Sections \cap Classes = {}
    /\ None \notin {"present", "absent", "past", "soon", "later", "posted", "submitted", "late"}
    /\ None \notin [class : Classes \cup {None}, section : Sections \cup {None}]
    /\ None \notin [author : Staff, to : SUBSET (Sections \cup Classes \cup Students \cup {"school"}),
                   due : {"present", "absent", "past", "soon", "later", "posted"}, files : SUBSET Files, here : BOOLEAN]
    /\ MaxImages \in Nat

TypeOK ==
    /\ topic \in Topics /\ place \in [Students -> Places]
    /\ post # None => post.author \in Staff /\ post.due \in Dues /\ post.files \subseteq Files /\ post.here \in BOOLEAN
    /\ status \in [Students -> {None, "submitted", "late"}] /\ heard \in [People -> Dues \cup {None}]
    /\ files \subseteq Files /\ moved \subseteq Students /\ overtaken \subseteq {"due", "files"}
    /\ \A r \in Calls : call[r].told \subseteq People /\ call[r].old \subseteq Files /\ call[r].new \subseteq files

Init ==
    /\ topic \in Topics /\ post = None
    /\ place \in [Students -> Places \ {None}]
    /\ status = [k \in Students |-> None] /\ heard = [p \in People |-> None]
    /\ files = {} /\ moved = {} /\ overtaken = {} /\ call = [r \in Calls |-> Idle]

-----------------------------------------------------------------------------
(* Who is told, who sees *)

ClassAt(t) == IF t \in Sections THEN ClassOf[t] ELSE IF t \in Classes THEN t ELSE None
SectionAt(t) == IF t \in Sections THEN t ELSE None

\* What each kind may be aimed at.
Aims ==
    CASE topic = "notice" -> {{"school"}} \cup ((SUBSET Classes) \ {{}})
      [] topic = "class_announcement" -> (SUBSET Sections) \ {{}}
      [] topic = "document" -> {{t} : t \in {"school"} \cup Classes \cup Sections}
      [] topic \in {"homework", "worksheet", "lesson"} -> {{s} : s \in Sections}
      [] topic \in {"remark", "attendance"} -> {{k} : k \in {k \in Students : place[k] # None}}
      [] OTHER -> {{"school"}}

\* A class teacher's timetable, a teacher's syllabus.
MayShare(u, to) == \A t \in to : \E s \in Teaches[u] : t = s \/ t = ClassOf[s]

\* Teachers post to those they teach; notices, events and launch announcements are the managers'.
MayPost(u, to) ==
    \/ u \in Managers /\ topic # "lesson"
    \/ /\ u \in Teachers /\ topic \notin {"notice"} \cup Albums
       /\ IF topic \in {"remark", "attendance"}
          THEN \A k \in to : place[k] # None /\ place[k].section \in Teaches[u]
          ELSE MayShare(u, to)

\* The recipients each service selects among the active students.
NoticeTold(k, row) == "school" \in row.to \/ place[k].class \in row.to
DocumentTold(k, row) == \E t \in row.to :
    IF SectionAt(t) # None THEN place[k].section = t ELSE ClassAt(t) # None => place[k].class = t
SectionTold(k, row) == place[k].section \in row.to
EventTold(row) == row.due # "past"
RemarkTold(k, row) == k \in row.to
StudentTold(k, row) ==
    CASE topic = "notice" -> NoticeTold(k, row)
      [] topic = "document" -> DocumentTold(k, row)
      [] topic \in {"class_announcement", "homework", "worksheet"} -> SectionTold(k, row)
      [] topic = "event" -> EventTold(row)
      [] topic \in {"remark", "attendance"} -> RemarkTold(k, row)
      [] OTHER -> FALSE

\* A notice: everybody, or the managers and the teachers of its classes; never its author.
StaffTold(u, row) ==
    /\ topic = "notice" /\ u # row.author
    /\ \/ "school" \in row.to \/ u \in Managers
       \/ u \in Teachers /\ \E s \in Teaches[u] : ClassOf[s] \in row.to

Told(row) == {k \in Students : place[k] # None /\ StudentTold(k, row)} \cup {u \in Staff : StaffTold(u, row)}

\* The lists of the student app.
NoticeListed(k, row) == "school" \in row.to \/ (place[k].class # None /\ place[k].class \in row.to)
DocumentListed(k, row) == \E t \in row.to :
    ClassAt(t) = None \/ (place[k].class = ClassAt(t) /\ SectionAt(t) \in {None, place[k].section})
AnnouncementListed(k, row) == place[k].section # None /\ place[k].section \in row.to
HomeworkListed(k, row) == \E t \in row.to : place[k].section = t /\ place[k].class = ClassAt(t)
Active(row) == row.due # "past"
Listed(k, row) == k \in row.to
Lists(k, row) ==
    CASE topic = "notice" -> NoticeListed(k, row)
      [] topic = "document" -> DocumentListed(k, row)
      [] topic = "class_announcement" -> AnnouncementListed(k, row)
      [] topic \in {"homework", "worksheet"} -> HomeworkListed(k, row)
      [] topic = "announcement" -> Active(row)
      [] topic \in {"remark", "attendance"} -> Listed(k, row)
      [] OTHER -> topic = "event"

\* The staff's list of notices.
StaffLists(u, row) ==
    \/ u \in Managers \/ "school" \in row.to \/ u = row.author
    \/ u \in Teachers /\ \E s \in Teaches[u] : ClassOf[s] \in row.to

\* The red dots (updates.py).  One query per screen asks for the newest row of that screen, with
\* conditions of its own; `me` is the student's profile.  A column that may be NULL is compared by
\* <=>, with NULL equal to NULL, or by =, with which NULL is equal to nothing.
SqlEqual(x, y) == x # None /\ x = y

\* Mutant: doc_scope without the section.
DocScopeOfClass(me, t) == ClassAt(t) = None \/ ClassAt(t) = me.class

\* doc_scope, of timetables and syllabuses.
DocScope(me, t) == ClassAt(t) = None \/ (ClassAt(t) = me.class /\ (SectionAt(t) = None \/ SectionAt(t) = me.section))

\* hw_class.
HomeworkScope(me, t) == ClassAt(t) = me.class /\ SectionAt(t) = me.section

\* notices: its rows of notice_classes, if it is not for the school.
NoticeScope(me, row) == "school" \in row.to \/ \E t \in row.to : SqlEqual(ClassAt(t), me.class)

\* class_announcements, with their class_announcement_sections.
SectionScope(me, t) == SqlEqual(SectionAt(t), me.section)

\* events are found by the school, remarks and attendance by the student; for launch announcements
\* and lesson plans there is no query.
Dot(k, row) ==
    LET me == place[k] IN
    \/ topic = "document" /\ \E t \in row.to : DocScope(me, t)
    \/ topic \in {"homework", "worksheet"} /\ \E t \in row.to : HomeworkScope(me, t)
    \/ topic = "notice" /\ NoticeScope(me, row)
    \/ topic = "class_announcement" /\ \E t \in row.to : SectionScope(me, t)
    \/ topic \in {"remark", "attendance"} /\ k \in row.to
    \/ topic = "event"
StaffDot(u, row) ==
    /\ topic = "notice" /\ u # row.author
    /\ u \in Managers \/ "school" \in row.to \/ (u \in Teachers /\ \E s \in Teaches[u] : ClassOf[s] \in row.to)

-----------------------------------------------------------------------------
(* Transactions *)

Here == post # None /\ post.here
Free(r) == \A o \in Calls \ {r} : ~call[o].holds
Begin(r, c) == call[r] = Idle /\ call' = [call EXCEPT ![r] = c]
Ends(r, op) == call[r].op = op /\ Free(r) /\ call' = [call EXCEPT ![r] = Idle]

\* A check, a foreign key or a deadlock: rolled back, its file removed.
Refuse(r) ==
    /\ call[r] # Idle /\ call' = [call EXCEPT ![r] = Idle]
    /\ files' = files \ call[r].new
    /\ UNCHANGED <<topic, post, place, status, heard, moved, overtaken>>

\* homework.py locks its row in attach only, the others wherever a file is at stake.
Locks(op) == topic # "worksheet" \/ op = "attach"

\* save_upload: a new name for every file.
NewNames == Files \ files

\* A document comes with its file, a lesson plan with any number.
DocumentFiles == {{f} : f \in NewNames}
LessonFiles == SUBSET NewNames
NewFiles == IF topic = "document" THEN DocumentFiles ELSE IF topic = "lesson" THEN LessonFiles ELSE {{}}

\* notify: a row of notifications, and a push, for everybody told.
Notified(told, what) == [p \in People |-> IF p \in told THEN what ELSE heard[p]]

\* create: the recipients of its snapshot.
PostReads(r) ==
    /\ topic # "attendance" /\ post = None /\ \A o \in Calls : call[o] = Idle
    /\ \E u \in Staff, to \in Aims, due \in Dues, new \in NewFiles :
        LET row == [author |-> u, to |-> to, due |-> due, files |-> new, here |-> TRUE] IN
        /\ MayPost(u, to) /\ (topic = "homework" => due # "past")
        /\ Begin(r, [Idle EXCEPT !.op = "post", !.row = row, !.told = Told(row), !.new = new])
        /\ files' = files \cup new
    /\ moved' = {}
    /\ UNCHANGED <<topic, post, place, status, heard, overtaken>>
Post(r) ==
    /\ Ends(r, "post")
    /\ post' = call[r].row
    /\ heard' = Notified(call[r].told, call[r].row.due)
    /\ UNCHANGED <<topic, place, status, files, moved, overtaken>>

\* update_homework, and mark_attendance of one student: what was there is read without a lock.
SaveReads(r) ==
    /\ topic = "attendance" \/ (topic = "homework" /\ Here /\ \A k \in Students : status[k] = None)
    /\ \E u \in Staff, to \in (IF post = None THEN Aims ELSE {post.to}), due \in Dues :
        /\ MayPost(u, to) /\ (IF post = None THEN TRUE ELSE due # post.due => due # "past")
        /\ LET row == IF post = None THEN [author |-> u, to |-> to, due |-> due, files |-> {}, here |-> TRUE]
                      ELSE [post EXCEPT !.due = due, !.files = {}] IN
           Begin(r, [Idle EXCEPT !.op = "save", !.row = row, !.told = Told(row),
                                 !.was = IF post = None THEN None ELSE post.due])
    /\ moved' = IF post = None /\ \A o \in Calls : call[o] = Idle THEN {} ELSE moved
    /\ UNCHANGED <<topic, post, place, status, heard, files, overtaken>>

\* Those are told whose mark, or whose due date, is not what was read.
Changed(c) == c.row.due # c.was
Save(r) ==
    LET c == call[r]
        now == IF post = None THEN None ELSE post.due IN
    /\ Ends(r, "save")
    /\ IF post = None THEN post' = c.row
       ELSE post.to = c.row.to /\ post' = [post EXCEPT !.due = IF Here THEN c.row.due ELSE @]
    /\ heard' = Notified(IF Changed(c) THEN c.told ELSE {}, c.row.due)
    /\ overtaken' = IF Changed(c) THEN overtaken \ {"due"}
                    ELSE IF now = c.was THEN overtaken ELSE overtaken \cup {"due"}
    /\ UNCHANGED <<topic, place, status, files, moved>>

\* attach, and a document's new file.
Takes(r, op, old, new) == Begin(r, [Idle EXCEPT !.op = op, !.old = old, !.new = new, !.holds = Locks(op)])
AttachReads(r) ==
    /\ topic \in Single /\ Here /\ (Locks("attach") => Free(r))
    /\ \E f \in NewNames : Takes(r, "attach", post.files, {f}) /\ files' = files \cup {f}
    /\ UNCHANGED <<topic, post, place, status, heard, moved, overtaken>>
Attach(r) ==
    /\ Ends(r, "attach") /\ Here
    /\ post' = [post EXCEPT !.files = call[r].new]
    /\ files' = files \ call[r].old
    /\ UNCHANGED <<topic, place, status, heard, moved, overtaken>>

\* remove_attachment.
RemoveReads(r) ==
    /\ topic \in Single \ {"document"} /\ Here /\ (Locks("remove") => Free(r))
    /\ Takes(r, "remove", post.files, {})
    /\ UNCHANGED <<topic, post, place, status, heard, files, moved, overtaken>>
Overtaken(c) == IF Here /\ topic \in Single /\ post.files # c.old THEN {"files"} ELSE {}
Remove(r) ==
    /\ Ends(r, "remove") /\ post # None
    /\ post' = [post EXCEPT !.files = {}]
    /\ files' = files \ call[r].old
    /\ overtaken' = overtaken \cup Overtaken(call[r])
    /\ UNCHANGED <<topic, place, status, heard, moved>>

\* add_image, add_photo.
AddReads(r) ==
    /\ topic \in Albums /\ Here /\ Free(r) /\ Cardinality(post.files) < MaxImages
    /\ \E f \in NewNames : Takes(r, "add", {}, {f}) /\ files' = files \cup {f}
    /\ UNCHANGED <<topic, post, place, status, heard, moved, overtaken>>
Add(r) ==
    /\ Ends(r, "add") /\ Here
    /\ post' = [post EXCEPT !.files = @ \cup call[r].new]
    /\ UNCHANGED <<topic, place, status, heard, files, moved, overtaken>>

\* delete_image, delete_media.
DropReads(r) ==
    /\ topic \in Albums /\ Here /\ Free(r)
    /\ \E f \in post.files : Takes(r, "drop", {f}, {})
    /\ UNCHANGED <<topic, post, place, status, heard, files, moved, overtaken>>
Drop(r) ==
    /\ Ends(r, "drop") /\ Here
    /\ post' = [post EXCEPT !.files = @ \ call[r].old]
    /\ files' = files \ call[r].old
    /\ UNCHANGED <<topic, place, status, heard, moved, overtaken>>

\* delete, with all that is attached.
DeleteReads(r) ==
    /\ topic # "attendance" /\ Here /\ (Locks("delete") => Free(r))
    /\ Takes(r, "delete", post.files, {})
    /\ UNCHANGED <<topic, post, place, status, heard, files, moved, overtaken>>
Delete(r) ==
    /\ Ends(r, "delete")
    /\ post' = [post EXCEPT !.here = FALSE, !.files = {}]
    /\ files' = files \ call[r].old
    /\ overtaken' = overtaken \cup Overtaken(call[r])
    /\ UNCHANGED <<topic, place, status, heard, moved>>

\* update of an event or an announcement: nobody is told of its new dates.
Reschedule ==
    /\ topic \in Albums /\ Here /\ \A r \in Calls : ~call[r].holds
    /\ \E due \in Dues \ {post.due} : post' = [post EXCEPT !.due = due]
    /\ overtaken' = overtaken \cup {"due"}
    /\ UNCHANGED <<topic, place, status, heard, files, moved, call>>

\* save_submissions: the student is, or was when it was checked, in the section.  No call reads or
\* writes the statuses: taken between calls, after the last save, it stands for every order.
SetStatus(k) ==
    /\ topic = "homework" /\ Here /\ \A r \in Calls : call[r] = Idle
    /\ k \in moved \/ (place[k] # None /\ place[k].section \in post.to)
    /\ \E st \in {None, "submitted", "late"} \ {status[k]} : status' = [status EXCEPT ![k] = st]
    /\ UNCHANGED <<topic, post, place, heard, files, moved, overtaken, call>>

\* A student changes class, loses it, leaves, or comes back.
Move(k) ==
    /\ k \notin moved /\ Cardinality(moved) < MaxMoves
    /\ post # None \/ \E r \in Calls : call[r] # Idle
    /\ \E p \in Places \ {place[k]} : place' = [place EXCEPT ![k] = p]
    /\ moved' = moved \cup {k}
    /\ UNCHANGED <<topic, post, status, heard, files, overtaken, call>>

Next ==
    \/ \E r \in Calls :
        \/ PostReads(r) \/ SaveReads(r) \/ AttachReads(r) \/ RemoveReads(r) \/ AddReads(r) \/ DropReads(r)
        \/ Post(r) \/ Save(r) \/ Attach(r) \/ Remove(r) \/ Add(r) \/ Drop(r)
        \/ DeleteReads(r) \/ Delete(r) \/ Refuse(r)
    \/ \E k \in Students : SetStatus(k) \/ Move(k)
    \/ Reschedule

Spec == Init /\ [][Next]_vars

-----------------------------------------------------------------------------
(* homework_submissions, counted and listed *)

InSection(k) == place[k] # None /\ place[k].section \in post.to

\* count_submitted, count_late of HOMEWORK_SELECT.
Counted(st) == Cardinality({k \in Students : InSection(k) /\ status[k] = st})
Total == Cardinality({k \in Students : InSection(k)})

\* submissions: a student without a row is pending.
ListedPending == Cardinality({k \in Students : InSection(k) /\ status[k] = None})

\* pending_homework of the dashboard.
PendingAtHome(k) == HomeworkListed(k, post) /\ status[k] = None

-----------------------------------------------------------------------------
(* Properties *)

\* notices.py:7: those who are told of a post, those who find it in their list and those whose
\* app shows a dot are the same people, though the recipients, the list and updates.py are queries
\* of their own, written with other joins (authors are told nothing; launch announcements pop up;
\* nobody is told of an event that is over, or is moved).
AudienceAgrees ==
    Here => /\ \A k \in Students \ moved : place[k] # None =>
                /\ Dot(k, post) <=> Lists(k, post) /\ topic # "announcement"
                /\ ("due" \in overtaken /\ topic = "event")
                      \/ (heard[k] # None <=> Lists(k, post) /\ topic # "announcement" /\ (topic = "event" => post.due # "past"))
            /\ \A u \in Staff : topic = "notice" =>
                /\ heard[u] # None <=> StaffLists(u, post) /\ u # post.author
                /\ StaffDot(u, post) <=> StaffLists(u, post) /\ u # post.author

\* attendance.py:94: parents last heard the mark, or the due date, that is saved, however often it
\* is changed and however two teachers' calls overlap.  But a call that saves the very mark it has
\* read tells nobody, even when another has changed it in between: until the next change is told.
HeardIsSo ==
    Here /\ topic \in {"attendance", "homework"} /\ "due" \notin overtaken =>
        \A k \in Students \ moved : heard[k] \in {None, post.due}

\* homework.py:47: pending is what the list, and the students' own home screens, show as pending,
\* and never below zero, though students move with what they handed in.
CountsAddUp ==
    Here /\ topic = "homework" =>
        /\ Total = Counted("submitted") + Counted("late") + ListedPending
        /\ ListedPending = Cardinality({k \in Students : place[k] # None /\ PendingAtHome(k)})

BoardsHold == AudienceAgrees /\ HeardIsSo /\ CountsAddUp

\* session.py:11: every path leads to a file, no file is left behind (unless the unlocked read of
\* homework.py was overtaken), and a post keeps to its number of files.
BoardFilesAreKept ==
    LET kept == IF Here THEN post.files ELSE {}
        stored == UNION {call[r].new : r \in Calls} IN
    /\ kept \subseteq files
    /\ "files" \notin overtaken => files = kept \cup stored
    /\ Here => (topic \in Albums => Cardinality(post.files) <= MaxImages)
=============================================================================
