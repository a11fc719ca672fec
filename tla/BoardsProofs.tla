---------------------------- MODULE BoardsProofs ----------------------------
(***************************************************************************)
(* Proofs about Boards and Exams, as MCBoards puts them side by side.      *)
(***************************************************************************)
EXTENDS MCBoards, Counting

-----------------------------------------------------------------------------
(* Boards: what a call remembers *)

Targets == Sections \cup Classes \cup Students \cup {"school"}
AllDues == {"present", "absent", "past", "soon", "later", "posted"}
Posts == [author : Staff, to : SUBSET Targets, due : AllDues, files : SUBSET Files, here : BOOLEAN]
FileOps == {"attach", "remove", "add", "drop", "delete"}
CallRecs == [op : {"none", "post", "save"} \cup FileOps, row : Posts \cup {None}, told : SUBSET People,
             was : AllDues \cup {None}, old : SUBSET Files, new : SUBSET Files, holds : BOOLEAN]

\* A post is aimed at what its kind may be aimed at.
Aimed(t, to) ==
    /\ t = "notice" => to = {"school"} \/ to \subseteq Classes
    /\ t \in {"class_announcement", "homework", "worksheet"} => to \subseteq Sections
    /\ t = "document" => to \subseteq {"school"} \cup Classes \cup Sections

\* StudentTold and StaffTold, of a place and a topic that are given.
Meant(t, p, k, row) ==
    \/ t = "notice" /\ ("school" \in row.to \/ p.class \in row.to)
    \/ /\ t = "document"
       /\ \E a \in row.to :
            IF SectionAt(a) # None THEN p.section = a ELSE ClassAt(a) # None => p.class = a
    \/ t \in {"class_announcement", "homework", "worksheet"} /\ p.section \in row.to
    \/ t = "event" /\ row.due # "past"
    \/ t \in {"remark", "attendance"} /\ k \in row.to
Concerns(t, u, row) ==
    /\ t = "notice" /\ u # row.author
    /\ \/ "school" \in row.to \/ u \in Managers
       \/ u \in Teachers /\ \E s \in Teaches[u] : ClassOf[s] \in row.to

\* Only a launch announcement's, an event's or a lesson's due date is not one of the kind.
DuesOf(t) == IF t = "attendance" THEN {"present", "absent"}
             ELSE IF t \in {"homework", "event", "announcement"} THEN {"past", "soon", "later"} ELSE {"posted"}

\* What a call of each kind knows of the post between its two steps.
CallShape(r) ==
    LET c == call[r] IN
    /\ c = Idle \/ c.op # "none"
    /\ c.op \in ({"none", "save"} \cup FileOps) \ {"attach", "add"} => c.new = {}
    /\ c.op \notin FileOps => ~c.holds /\ c.old = {}
    /\ c.op \in FileOps => post # None /\ topic # "attendance"
    /\ c.op = "post" => topic # "attendance" /\ post = None /\ \A o \in Calls \ {r} : call[o] = Idle
    /\ c.op = "post" => c.row \in Posts /\ c.row.due \in DuesOf(topic) /\ c.row.files = c.new /\ c.row.here
    /\ c.op = "post" /\ topic \notin {"document", "lesson"} => c.new = {}
    /\ c.op = "save" => /\ topic \in {"attendance", "homework"}
                        /\ c.row \in Posts /\ c.row.due \in DuesOf(topic) /\ c.row.files = {}

Shape ==
    /\ topic \in Topics /\ place \in [Students -> Places]
    /\ post \in Posts \cup {None} /\ (post # None => post.due \in DuesOf(topic))
    /\ status \in [Students -> {None, "submitted", "late"}] /\ heard \in [People -> DuesOf(topic) \cup {None}]
    /\ files \subseteq Files /\ moved \subseteq Students /\ overtaken \subseteq {"due", "files"}
    /\ call \in [Calls -> CallRecs]
    /\ \A r \in Calls : CallShape(r)

\* Who will be told: those whom the query finds, as long as nobody moves.
ToldOk(r) ==
    LET c == call[r] IN
    /\ c.op \in {"post", "save"} =>
        /\ Aimed(topic, c.row.to)
        /\ \A k \in Students \ moved : k \in c.told <=> place[k] # None /\ Meant(topic, place[k], k, c.row)
        /\ \A u \in Staff : u \in c.told <=> Concerns(topic, u, c.row)
    /\ c.op = "save" /\ c.was # None => post # None /\ post.to = c.row.to
    /\ c.op = "save" /\ topic = "homework" => c.was # None

\* Who has been told, and of what.
HeardOk ==
    /\ post = None => \A p \in People : heard[p] = None
    /\ post # None =>
        /\ Aimed(topic, post.to)
        /\ (topic = "event" /\ "due" \in overtaken) \/
            \A k \in Students \ moved : heard[k] # None <=> place[k] # None /\ Meant(topic, place[k], k, post)
        /\ \A u \in Staff : heard[u] # None <=> Concerns(topic, u, post)
    /\ post # None /\ post.here /\ topic \in {"attendance", "homework"} /\ "due" \notin overtaken =>
        \A k \in Students \ moved : heard[k] \in {None, post.due}

AudInv == Shape /\ HeardOk /\ \A r \in Calls : ToldOk(r)

\* The row's lock: one call that attaches, adds, drops, removes or deletes knows the files there are.
FilesKnown(r) ==
    LET c == call[r] IN
    /\ c.op \in FileOps => (c.holds <=> topic # "worksheet" \/ c.op = "attach")
    /\ c.holds => post.here /\ \A o \in Calls \ {r} : ~call[o].holds
    /\ c.holds => CASE c.op = "drop" -> c.old \subseteq post.files
                    [] c.op = "add" -> /\ topic \in Albums /\ c.old = {}
                                       /\ Cardinality(post.files) < MaxImages /\ \E f \in Files : c.new = {f}
                    [] OTHER -> c.old = post.files
    /\ c.op \in {"drop", "add"} => topic \in Albums
    /\ c.op \in {"attach", "remove"} => topic \in Single
    /\ c.new \subseteq files /\ (post # None => c.new \cap post.files = {})

Kept == IF post = None THEN {} ELSE post.files

FileInv ==
    /\ \A r \in Calls : FilesKnown(r)
    /\ \A r, o \in Calls : r # o => call[r].new \cap call[o].new = {}
    /\ post # None /\ ~post.here => post.files = {}
    /\ Kept \subseteq files
    /\ "files" \notin overtaken => \A f \in files : f \in Kept \/ \E r \in Calls : f \in call[r].new
    /\ post # None /\ topic \in Albums => IsFiniteSet(post.files) /\ Cardinality(post.files) <= MaxImages
    /\ topic \in {"homework", "attendance"} => Kept = {}

-----------------------------------------------------------------------------
(* Exams: what a call knows of the papers *)

Columns == Exam!Columns
RowNames == {"exam", "class"} \cup Columns
ExamCalls == [op : {"none", "save", "import", "update", "paper", "delete", "dropclass"}, max : Maxima \cup {None},
              column : Columns \cup {None}, old : Files \cup {None}, new : Files \cup {None},
              paths : SUBSET Files, holds : SUBSET RowNames]

ExamShape ==
    /\ scope \in Groups /\ class \in BOOLEAN /\ replaced \in BOOLEAN
    /\ exam \in [max : Maxima \cup {None}] \cup {None}
    /\ result \in [Pupils \X Columns -> Exam!Results \cup {None}]
    /\ paper \in [Columns -> Files \cup {None}] /\ store \subseteq Files
    /\ request \in [Calls -> ExamCalls]
    /\ exam = None => /\ \A c \in Columns : paper[c] = None
                      /\ \A p \in Pupils \X Columns : result[p] = None

\* A paper's old file is the one there is, for whom the row is locked; a deletion knows every path,
\* unless a paper was replaced meanwhile.
RequestKnown(r) ==
    LET c == request[r]  deletes == c.op \in {"delete", "dropclass"} IN
    /\ c.op # "paper" => c.new = None
    /\ c.op = "paper" =>
        /\ c.column \in Columns /\ c.new # None
        /\ c.holds = IF c.column = Whole THEN {"exam"} ELSE IF c.old = None THEN {} ELSE {c.column}
        /\ c.holds # {} => c.old = paper[c.column]
    /\ c.op = "delete" => c.holds = {"exam"}
    /\ c.op = "dropclass" => c.holds = {"class"}
    /\ deletes /\ ~replaced => \A d \in Columns : paper[d] # None => paper[d] \in c.paths

\* No two calls hold a row, no two rows have a file; one that is on its way is nobody else's.
PapersInv ==
    /\ \A r \in Calls : RequestKnown(r)
    /\ \A r, o \in Calls : r # o => request[r].holds \cap request[o].holds = {}
    /\ \A c, d \in Columns : c # d /\ paper[c] # None => paper[c] # paper[d]
    /\ \A r, o \in Calls : r # o /\ request[r].new # None => request[r].new # request[o].new
    /\ \A r, o \in Calls : request[r].new # None => request[r].new \notin request[o].paths
    /\ \A r \in Calls, c \in Columns : request[r].new # None => request[r].new # paper[c]
    /\ \A r \in Calls : request[r].new # None => request[r].new \in store
    /\ \A c \in Columns : paper[c] # None => paper[c] \in store
    /\ ~replaced => \A f \in store : (\E c \in Columns : paper[c] = f) \/ \E r \in Calls : request[r].new = f

ExamOk == ExamShape /\ PapersInv /\ Exam!MarksFit

\* What holds of both parts, side by side.
SchoolInv == AudInv /\ FileInv /\ (part = "exams" => ExamOk)

-----------------------------------------------------------------------------
(* Boards: shapes *)

LEMMA DuesAre ==
    /\ Dues = DuesOf(topic) /\ DuesOf(topic) \subseteq AllDues
    /\ \A t : DuesOf(t) \subseteq AllDues
BY DEF Dues, DuesOf, AllDues

LEMMA NoneIsNothing == None \notin Posts /\ None \notin AllDues /\ None \notin Sections \cup Classes
BY PostsAssumption DEF Posts, Targets, AllDues

LEMMA IdleIsCall ==
    /\ Idle \in CallRecs /\ Idle.op = "none" /\ Idle.row = None /\ Idle.told = {} /\ Idle.was = None
    /\ Idle.old = {} /\ Idle.new = {} /\ ~Idle.holds
BY DEF Idle, CallRecs

\* A new record of r's call, where those of the others still fit.
LEMMA OthersKeepShape ==
    ASSUME Shape, NEW r \in Calls, NEW c \in CallRecs, call' = [call EXCEPT ![r] = c],
           topic' = topic, post # None => post' # None,
           c = Idle \/ \A o \in Calls : call[o].op # "post",
           post = None /\ post' # None => \A o \in Calls \ {r} : call[o].op # "post"
    PROVE  /\ call' \in [Calls -> CallRecs] /\ call'[r] = c
           /\ \A o \in Calls \ {r} : call'[o] = call[o] /\ CallShape(o)'
<1>1. call' \in [Calls -> CallRecs] /\ call'[r] = c /\ \A o \in Calls \ {r} : call'[o] = call[o]
  BY DEF Shape
<1>2. ASSUME NEW o \in Calls \ {r}  PROVE CallShape(o)'
  <2>1. CallShape(o) /\ call'[o] = call[o]
    BY <1>1 DEF Shape
  <2>2. call'[o].op = "post" => topic' # "attendance" /\ post' = None /\ \A q \in Calls \ {o} : call'[q] = Idle
    <3>1. SUFFICES ASSUME call[o].op = "post"  PROVE topic # "attendance" /\ post' = None /\ \A q \in Calls \ {o} : call'[q] = Idle
      BY <2>1
    <3>2. topic # "attendance" /\ post = None /\ \A q \in Calls \ {o} : call[q] = Idle
      BY <2>1, <3>1 DEF CallShape
    <3>3. c = Idle /\ post' = None
      BY <3>1, <3>2
    <3>4. QED BY <1>1, <3>2, <3>3
  <2>3. QED BY <2>1, <2>2 DEF CallShape
<1>3. QED BY <1>1, <1>2

\* A call begins that is about the post's files.
Began(r) ==
    /\ post # None /\ topic # "attendance"
    /\ \E op \in FileOps, old \in SUBSET Files, new \in SUBSET Files :
        /\ op \notin {"attach", "add"} => new = {}
        /\ call' = [call EXCEPT ![r] = [Idle EXCEPT !.op = op, !.old = old, !.new = new, !.holds = Locks(op)]]
    /\ files' \subseteq Files
    /\ UNCHANGED <<topic, post, place, status, heard, moved, overtaken>>

\* It ends, and changes nothing but the files, or deletes the post.
Ended(r) ==
    /\ post # None /\ post' \in Posts
    /\ post'.to = post.to /\ post'.due = post.due /\ post'.author = post.author /\ (post'.here => post.here)
    /\ call' = [call EXCEPT ![r] = Idle]
    /\ files' \subseteq files /\ overtaken' \in {overtaken, overtaken \cup {"files"}}
    /\ UNCHANGED <<topic, place, status, heard, moved>>

LEMMA FileBegins ==
    ASSUME Shape, NEW r \in Calls,
           AttachReads(r) \/ RemoveReads(r) \/ AddReads(r) \/ DropReads(r) \/ DeleteReads(r)
    PROVE  Began(r)
<1>1. post # None => post.files \subseteq Files
  BY DEF Shape, Posts
<1>2. files \subseteq Files
  BY DEF Shape
<1>3. CASE AttachReads(r)
  <2>1. PICK f \in NewNames : Takes(r, "attach", post.files, {f}) /\ files' = files \cup {f}
    BY <1>3 DEF AttachReads
  <2>2. {f} \in SUBSET Files /\ "attach" \in FileOps
    BY DEF NewNames, FileOps
  <2>3. QED BY <1>1, <1>2, <1>3, <2>1, <2>2 DEF AttachReads, Takes, Begin, Here, Began, Single
<1>4. CASE RemoveReads(r)
  BY <1>1, <1>2, <1>4 DEF RemoveReads, Takes, Begin, Here, Began, Single, FileOps
<1>5. CASE AddReads(r)
  <2>1. PICK f \in NewNames : Takes(r, "add", {}, {f}) /\ files' = files \cup {f}
    BY <1>5 DEF AddReads
  <2>2. {f} \in SUBSET Files /\ "add" \in FileOps
    BY DEF NewNames, FileOps
  <2>3. QED BY <1>1, <1>2, <1>5, <2>1, <2>2 DEF AddReads, Takes, Begin, Here, Began, Albums
<1>6. CASE DropReads(r)
  <2>1. PICK f \in post.files : Takes(r, "drop", {f}, {})
    BY <1>6 DEF DropReads
  <2>2. post # None /\ topic # "attendance"
    BY <1>6 DEF DropReads, Here, Albums
  <2>3. {f} \in SUBSET Files /\ {} \in SUBSET Files /\ "drop" \in FileOps
    BY <1>1, <2>2 DEF FileOps
  <2>4. QED BY <1>1, <1>2, <1>6, <2>1, <2>2, <2>3 DEF DropReads, Takes, Begin, Began
<1>7. CASE DeleteReads(r)
  BY <1>1, <1>2, <1>7 DEF DeleteReads, Takes, Begin, Here, Began, FileOps
<1>8. QED BY <1>3, <1>4, <1>5, <1>6, <1>7

LEMMA FileEnds ==
    ASSUME Shape, NEW r \in Calls, Attach(r) \/ Remove(r) \/ Add(r) \/ Drop(r) \/ Delete(r)
    PROVE  Ended(r)
<1>1. post # None => post \in Posts /\ post.files \subseteq Files
  BY DEF Shape, Posts
<1>2. call[r].new \subseteq Files /\ call[r] \in CallRecs /\ CallShape(r)
  BY DEF Shape, CallRecs
<1>3. ASSUME NEW F \in SUBSET Files, post # None
      PROVE  LET row == [post EXCEPT !.files = F] IN
             row \in Posts /\ row.to = post.to /\ row.due = post.due /\ row.author = post.author /\ row.here = post.here
  BY <1>1, <1>3 DEF Posts
<1>4. CASE Attach(r)
  BY <1>2, <1>3, <1>4 DEF Attach, Ends, Here, Ended
<1>5. CASE Remove(r)
  <2>1. overtaken' \in {overtaken, overtaken \cup {"files"}}
    BY <1>5 DEF Remove, Overtaken
  <2>2. QED BY <1>3, <1>5, <2>1 DEF Remove, Ends, Ended
<1>6. CASE Add(r)
  BY <1>1, <1>2, <1>3, <1>6 DEF Add, Ends, Here, Ended
<1>7. CASE Drop(r)
  BY <1>1, <1>2, <1>3, <1>7 DEF Drop, Ends, Here, Ended
<1>8. CASE Delete(r)
  <2>1. overtaken' \in {overtaken, overtaken \cup {"files"}}
    BY <1>8 DEF Delete, Overtaken
  <2>2. post # None
    BY <1>2, <1>8 DEF Delete, Ends, CallShape, FileOps
  <2>3. LET row == [post EXCEPT !.here = FALSE, !.files = {}] IN
        row \in Posts /\ row.to = post.to /\ row.due = post.due /\ row.author = post.author /\ ~row.here
    BY <1>1, <2>2 DEF Posts
  <2>4. QED BY <1>8, <2>1, <2>2, <2>3 DEF Delete, Ends, Ended
<1>9. QED BY <1>4, <1>5, <1>6, <1>7, <1>8

LEMMA BeganShape ==
    ASSUME Shape, NEW r \in Calls, Began(r)
    PROVE  Shape' /\ \A o \in Calls \ {r} : call'[o] = call[o]
<1>1. PICK op \in FileOps, old \in SUBSET Files, new \in SUBSET Files :
        /\ op \notin {"attach", "add"} => new = {}
        /\ call' = [call EXCEPT ![r] = [Idle EXCEPT !.op = op, !.old = old, !.new = new, !.holds = Locks(op)]]
  BY DEF Began
<1> DEFINE c == [Idle EXCEPT !.op = op, !.old = old, !.new = new, !.holds = Locks(op)]
<1>2. /\ c \in CallRecs /\ c.op = op /\ c.old = old /\ c.new = new /\ c.holds = Locks(op)
      /\ c.row = None /\ c.told = {} /\ c.was = None
  BY DEF Idle, CallRecs, FileOps, Locks
<1>3. post # None /\ topic # "attendance" /\ UNCHANGED <<topic, post>>
  BY DEF Began
<1>4. \A o \in Calls : call[o].op # "post"
  BY <1>3 DEF Shape, CallShape
<1> HIDE DEF c
<1>5. call' = [call EXCEPT ![r] = c]
  BY <1>1 DEF c
<1>6. /\ call' \in [Calls -> CallRecs] /\ call'[r] = c
      /\ \A o \in Calls \ {r} : call'[o] = call[o] /\ CallShape(o)'
  BY <1>2, <1>3, <1>4, <1>5, OthersKeepShape
<1>7. CallShape(r)'
  BY <1>1, <1>2, <1>3, <1>6 DEF CallShape, FileOps
<1>8. QED BY <1>6, <1>7 DEF Shape, Began

LEMMA EndedShape ==
    ASSUME Shape, NEW r \in Calls, Ended(r)
    PROVE  Shape' /\ call'[r] = Idle /\ \A o \in Calls \ {r} : call'[o] = call[o]
<1>1. post # None /\ post' # None /\ topic' = topic
  BY NoneIsNothing DEF Ended
<1>2. /\ call' \in [Calls -> CallRecs] /\ call'[r] = Idle
      /\ \A o \in Calls \ {r} : call'[o] = call[o] /\ CallShape(o)'
  BY <1>1, IdleIsCall, OthersKeepShape DEF Ended
<1>3. CallShape(r)'
  BY <1>2, IdleIsCall DEF CallShape, FileOps
<1>4. QED BY <1>1, <1>2, <1>3 DEF Shape, Ended

LEMMA RefuseShape ==
    ASSUME Shape, NEW r \in Calls, Refuse(r)
    PROVE  Shape' /\ call'[r] = Idle /\ \A o \in Calls \ {r} : call'[o] = call[o]
<1>1. /\ call' \in [Calls -> CallRecs] /\ call'[r] = Idle
      /\ \A o \in Calls \ {r} : call'[o] = call[o] /\ CallShape(o)'
  BY IdleIsCall, OthersKeepShape DEF Refuse
<1>2. CallShape(r)'
  BY <1>1, IdleIsCall DEF CallShape, FileOps
<1>3. QED BY <1>1, <1>2 DEF Shape, Refuse

-----------------------------------------------------------------------------
(* Boards: who is told *)

LEMMA ToldAre ==
    ASSUME NEW row
    PROVE  /\ Told(row) \subseteq People
           /\ \A k \in Students : k \in Told(row) <=> place[k] # None /\ Meant(topic, place[k], k, row)
           /\ \A u \in Staff : u \in Told(row) <=> Concerns(topic, u, row)
<1>1. \A k \in Students : StudentTold(k, row) <=> Meant(topic, place[k], k, row)
  <2> TAKE k \in Students
  <2>1. CASE topic = "notice"
    BY <2>1 DEF StudentTold, Meant, NoticeTold
  <2>2. CASE topic = "document"
    BY <2>2 DEF StudentTold, Meant, DocumentTold
  <2>3. CASE topic \in {"class_announcement", "homework", "worksheet"}
    BY <2>3 DEF StudentTold, Meant, SectionTold
  <2>4. CASE topic = "event"
    BY <2>4 DEF StudentTold, Meant, EventTold
  <2>5. CASE topic \in {"remark", "attendance"}
    BY <2>5 DEF StudentTold, Meant, RemarkTold
  <2>6. CASE topic \notin {"notice", "document", "class_announcement", "homework", "worksheet", "event", "remark", "attendance"}
    BY <2>6 DEF StudentTold, Meant
  <2>7. QED BY <2>1, <2>2, <2>3, <2>4, <2>5, <2>6
<1>2. \A u \in Staff : StaffTold(u, row) <=> Concerns(topic, u, row)
  BY DEF StaffTold, Concerns
<1>3. QED BY <1>1, <1>2, PostsAssumption DEF Told, People

\* A post is meant for those who find it in their lists: two queries, of which one knows the class
\* of a section and the other does not.
LEMMA MeantAreListed ==
    ASSUME NEW row \in Posts, Aimed(topic, row.to), NEW k \in Students, place[k] \in Places \ {None}
    PROVE  Meant(topic, place[k], k, row) <=>
               Lists(k, row) /\ topic # "announcement" /\ (topic = "event" => row.due # "past")
<1> DEFINE p == place[k]
<1>1. /\ None \notin Sections \cup Classes /\ "school" \notin Sections \cup Classes /\ Sections \cap Classes = {}
      /\ ClassOf \in [Sections -> Classes]
  BY PostsAssumption
<1>2. \/ p.section \in Sections /\ p.class = ClassOf[p.section]
      \/ p.section = None /\ p.class \in Classes \cup {None}
  BY DEF Places
<1>3. CASE topic = "notice"
  BY <1>1, <1>2, <1>3 DEF Meant, Lists, NoticeListed, Aimed
<1>4. CASE topic = "document"
  <2>1. row.to \subseteq {"school"} \cup Classes \cup Sections
    BY <1>4 DEF Aimed
  <2>2. ASSUME NEW a \in row.to
        PROVE  (IF SectionAt(a) # None THEN p.section = a ELSE ClassAt(a) # None => p.class = a)
                <=> (ClassAt(a) = None \/ (p.class = ClassAt(a) /\ SectionAt(a) \in {None, p.section}))
    <3>1. CASE a \in Sections
      BY <1>1, <1>2, <3>1 DEF SectionAt, ClassAt
    <3>2. CASE a \notin Sections
      BY <1>1, <1>2, <2>1, <3>2 DEF SectionAt, ClassAt
    <3>3. QED BY <3>1, <3>2
  <2>3. QED BY <1>4, <2>2 DEF Meant, Lists, DocumentListed
<1>5. CASE topic = "class_announcement"
  BY <1>1, <1>2, <1>5 DEF Meant, Lists, AnnouncementListed, Aimed
<1>6. CASE topic \in {"homework", "worksheet"}
  BY <1>1, <1>2, <1>6 DEF Meant, Lists, HomeworkListed, Aimed, ClassAt
<1>7. CASE topic = "event"
  BY <1>7 DEF Meant, Lists
<1>8. CASE topic = "announcement"
  BY <1>8 DEF Meant
<1>9. CASE topic \in {"remark", "attendance"}
  BY <1>9 DEF Meant, Lists, Listed
<1>10. CASE topic \notin {"notice", "document", "class_announcement", "homework", "worksheet", "event",
                          "announcement", "remark", "attendance"}
  BY <1>10 DEF Meant, Lists
<1>11. QED BY <1>3, <1>4, <1>5, <1>6, <1>7, <1>8, <1>9, <1>10

LEMMA AimsAre ==
    ASSUME NEW to \in Aims
    PROVE  to \in SUBSET Targets /\ Aimed(topic, to)
<1>1. CASE topic = "notice"
  BY <1>1 DEF Aims, Targets, Aimed
<1>2. CASE topic = "class_announcement"
  BY <1>2 DEF Aims, Targets, Aimed
<1>3. CASE topic = "document"
  BY <1>3 DEF Aims, Targets, Aimed
<1>4. CASE topic \in {"homework", "worksheet", "lesson"}
  BY <1>4 DEF Aims, Targets, Aimed
<1>5. CASE topic \in {"remark", "attendance"}
  BY <1>5 DEF Aims, Targets, Aimed
<1>6. CASE topic \notin {"notice", "document", "class_announcement", "homework", "worksheet", "lesson", "remark", "attendance"}
  BY <1>6 DEF Aims, Targets, Aimed
<1>7. QED BY <1>1, <1>2, <1>3, <1>4, <1>5, <1>6

\* For whom a post is meant is a matter of its targets, and for an event of its date.
LEMMA MeantSame ==
    ASSUME NEW t, NEW p, NEW k, NEW row, NEW other, other.to = row.to, t = "event" => other.due = row.due
    PROVE  Meant(t, p, k, other) <=> Meant(t, p, k, row)
BY DEF Meant

\* A step that tells nobody, and whose calls tell nobody.
LEMMA AudQuiet ==
    ASSUME AudInv, Shape', UNCHANGED <<topic, place, heard, moved>>, post # None <=> post' # None,
           post # None => /\ post'.to = post.to /\ post'.author = post.author
                          /\ post'.due = post.due \/ (topic \in Albums /\ "due" \in overtaken')
                          /\ post'.here => post.here,
           "due" \in overtaken => "due" \in overtaken',
           \A o \in Calls : call'[o] = call[o] \/ call'[o].op \notin {"post", "save"}
    PROVE  AudInv'
<1>1. ASSUME NEW o \in Calls  PROVE ToldOk(o)'
  <2>1. CASE call'[o].op \notin {"post", "save"}
    BY <2>1 DEF ToldOk
  <2>2. CASE call'[o] = call[o]
    BY <2>2 DEF AudInv, ToldOk
  <2>3. QED BY <1>1, <2>1, <2>2
<1>2. HeardOk'
  <2>1. post' = None => \A p \in People : heard'[p] = None
    BY DEF AudInv, HeardOk
  <2>2. ASSUME post' # None
        PROVE  /\ Aimed(topic', post'.to)
               /\ \A u \in Staff : heard'[u] # None <=> Concerns(topic', u, post')
    BY <2>2 DEF AudInv, HeardOk, Concerns
  <2>3. ASSUME post' # None, ~(topic = "event" /\ "due" \in overtaken')
        PROVE  \A k \in Students \ moved' : heard'[k] # None <=> place'[k] # None /\ Meant(topic', place'[k], k, post')
    <3>1. ~(topic = "event" /\ "due" \in overtaken)
      BY <2>3
    <3>2. \A k \in Students \ moved : heard[k] # None <=> place[k] # None /\ Meant(topic, place[k], k, post)
      BY <2>3, <3>1 DEF AudInv, HeardOk
    <3>3. post'.to = post.to /\ (topic = "event" => post'.due = post.due)
      BY <2>3
    <3>4. \A k : Meant(topic, place[k], k, post') <=> Meant(topic, place[k], k, post)
      BY <3>3, MeantSame
    <3>5. QED BY <3>2, <3>4
  <2>4. ASSUME post' # None, post'.here, topic' \in {"attendance", "homework"}, "due" \notin overtaken'
        PROVE  \A k \in Students \ moved' : heard'[k] \in {None, post'.due}
    BY <2>4 DEF AudInv, HeardOk, Albums
  <2>5. QED BY <2>1, <2>2, <2>3, <2>4 DEF HeardOk
<1>3. QED BY <1>1, <1>2 DEF AudInv

LEMMA FileStepsTellNobody ==
    ASSUME AudInv, NEW r \in Calls, Began(r) \/ Ended(r) \/ Refuse(r)
    PROVE  AudInv'
<1>1. Shape
  BY DEF AudInv
<1>2. CASE Began(r)
  <2>1. Shape' /\ \A o \in Calls \ {r} : call'[o] = call[o]
    BY <1>1, <1>2, BeganShape
  <2>2. call'[r].op \in FileOps
    <3>1. PICK op \in FileOps, old \in SUBSET Files, new \in SUBSET Files :
            call' = [call EXCEPT ![r] = [Idle EXCEPT !.op = op, !.old = old, !.new = new, !.holds = Locks(op)]]
      BY <1>2 DEF Began
    <3>2. QED BY <1>1, <3>1 DEF Idle, Shape
  <2>3. QED BY <1>2, <2>1, <2>2, AudQuiet DEF Began, FileOps
<1>3. CASE Ended(r)
  <2>1. Shape' /\ call'[r] = Idle /\ \A o \in Calls \ {r} : call'[o] = call[o]
    BY <1>1, <1>3, EndedShape
  <2>2. post # None /\ post' # None
    BY <1>3, NoneIsNothing DEF Ended
  <2>3. \A o \in Calls : call'[o] = call[o] \/ call'[o].op \notin {"post", "save"}
    BY <2>1, IdleIsCall
  <2>4. QED BY <1>3, <2>1, <2>2, <2>3, AudQuiet DEF Ended
<1>4. CASE Refuse(r)
  <2>1. Shape' /\ call'[r] = Idle /\ \A o \in Calls \ {r} : call'[o] = call[o]
    BY <1>1, <1>4, RefuseShape
  <2>2. \A o \in Calls : call'[o] = call[o] \/ call'[o].op \notin {"post", "save"}
    BY <2>1, IdleIsCall
  <2>3. QED BY <1>4, <2>1, <2>2, AudQuiet DEF Refuse
<1>5. QED BY <1>2, <1>3, <1>4

LEMMA RescheduleTellsNobody ==
    ASSUME AudInv, Reschedule
    PROVE  AudInv' /\ post' \in Posts /\ post'.files = post.files /\ post'.here = post.here
<1>1. Shape /\ post # None /\ post \in Posts
  BY DEF AudInv, Shape, Reschedule, Here
<1>2. PICK due \in Dues \ {post.due} : post' = [post EXCEPT !.due = due]
  BY DEF Reschedule
<1>3. due \in DuesOf(topic) /\ due \in AllDues
  BY DuesAre
<1>4. /\ post' \in Posts /\ post'.to = post.to /\ post'.author = post.author /\ post'.here = post.here
      /\ post'.files = post.files /\ post'.due = due /\ post' # None
  BY <1>1, <1>2, <1>3, NoneIsNothing DEF Posts
<1>5. Shape'
  <2>1. \A o \in Calls : CallShape(o)'
    BY <1>1, <1>4 DEF Shape, CallShape, Reschedule
  <2>2. QED BY <1>1, <1>3, <1>4, <2>1 DEF Shape, Reschedule
<1>6. QED BY <1>1, <1>4, <1>5, AudQuiet DEF Reschedule

LEMMA SetStatusTellsNobody ==
    ASSUME AudInv, NEW k \in Students, SetStatus(k)
    PROVE  AudInv'
<1>1. Shape'
  <2>1. \A o \in Calls : CallShape(o)'
    BY DEF AudInv, Shape, CallShape, SetStatus
  <2>2. status' \in [Students -> {None, "submitted", "late"}]
    BY DEF AudInv, Shape, SetStatus
  <2>3. QED BY <2>1, <2>2 DEF AudInv, Shape, SetStatus
<1>2. QED BY <1>1, AudQuiet DEF SetStatus

\* Who moves is excused from then on; everybody else stays where he was.
LEMMA MoveTellsNobody ==
    ASSUME AudInv, NEW k \in Students, Move(k)
    PROVE  AudInv'
<1>1. /\ UNCHANGED <<topic, post, status, heard, files, overtaken, call>>
      /\ moved' = moved \cup {k}
      /\ place' \in [Students -> Places] /\ \A i \in Students \ moved' : i \in Students \ moved /\ place'[i] = place[i]
  BY DEF AudInv, Shape, Move
<1>2. Shape'
  <2>1. \A o \in Calls : CallShape(o)'
    BY <1>1 DEF AudInv, Shape, CallShape
  <2>2. QED BY <1>1, <2>1 DEF AudInv, Shape
<1>3. ASSUME NEW o \in Calls  PROVE ToldOk(o)'
  BY <1>1 DEF AudInv, ToldOk
<1>4. HeardOk'
  BY <1>1 DEF AudInv, HeardOk
<1>5. QED BY <1>2, <1>3, <1>4 DEF AudInv

\* create: the call knows whom its query found.
LEMMA PostReadsKeeps ==
    ASSUME AudInv, NEW r \in Calls, PostReads(r)
    PROVE  AudInv' /\ post' = post /\ \A o \in Calls \ {r} : call'[o] = call[o]
<1>1. PICK u \in Staff, to \in Aims, due \in Dues, new \in NewFiles :
        LET row == [author |-> u, to |-> to, due |-> due, files |-> new, here |-> TRUE] IN
        /\ MayPost(u, to) /\ (topic = "homework" => due # "past")
        /\ Begin(r, [Idle EXCEPT !.op = "post", !.row = row, !.told = Told(row), !.new = new])
        /\ files' = files \cup new
  BY DEF PostReads
<1> DEFINE row == [author |-> u, to |-> to, due |-> due, files |-> new, here |-> TRUE]
           c == [Idle EXCEPT !.op = "post", !.row = row, !.told = Told(row), !.new = new]
<1>2. /\ topic # "attendance" /\ post = None /\ \A o \in Calls : call[o] = Idle
      /\ moved' = {} /\ UNCHANGED <<topic, post, place, status, heard, overtaken>>
  BY DEF PostReads
<1>3. new \in SUBSET Files
  BY DEF NewFiles, DocumentFiles, LessonFiles, NewNames
<1>4. row \in Posts /\ row.due \in DuesOf(topic) /\ row.files = new /\ row.here /\ Aimed(topic, row.to)
  <2>1. to \in SUBSET Targets /\ Aimed(topic, to)
    BY AimsAre
  <2>2. due \in DuesOf(topic) /\ due \in AllDues
    BY DuesAre
  <2>3. QED BY <1>3, <2>1, <2>2 DEF Posts
<1> HIDE DEF row
<1>5. /\ Told(row) \subseteq People
      /\ \A k \in Students : k \in Told(row) <=> place[k] # None /\ Meant(topic, place[k], k, row)
      /\ \A q \in Staff : q \in Told(row) <=> Concerns(topic, q, row)
  BY ToldAre
<1>6. /\ c \in CallRecs /\ c.op = "post" /\ c.row = row /\ c.told = Told(row) /\ c.new = new /\ c.old = {} /\ ~c.holds
  BY <1>3, <1>4, <1>5 DEF Idle, CallRecs
<1>7. call' = [call EXCEPT ![r] = c]
  BY <1>1 DEF Begin, row
<1> HIDE DEF c
<1>8. Shape
  BY DEF AudInv
<1>9. \A o \in Calls : call[o].op # "post"
  BY <1>2, IdleIsCall
<1>10. /\ call' \in [Calls -> CallRecs] /\ call'[r] = c
       /\ \A o \in Calls \ {r} : call'[o] = call[o] /\ CallShape(o)'
  BY <1>2, <1>6, <1>7, <1>8, <1>9, OthersKeepShape
<1>11. CallShape(r)'
  <2>1. topic \notin {"document", "lesson"} => new = {}
    BY DEF NewFiles
  <2>2. QED BY <1>2, <1>4, <1>6, <1>10, <2>1 DEF CallShape, FileOps
<1>12. Shape'
  BY <1>1, <1>2, <1>3, <1>8, <1>10, <1>11 DEF Shape
<1>13. ToldOk(r)'
  BY <1>2, <1>4, <1>5, <1>6, <1>10 DEF ToldOk
<1>14. ASSUME NEW o \in Calls \ {r}  PROVE ToldOk(o)'
  BY <1>2, <1>10, IdleIsCall DEF ToldOk
<1>15. HeardOk'
  BY <1>2 DEF AudInv, HeardOk
<1>16. QED BY <1>2, <1>10, <1>12, <1>13, <1>14, <1>15 DEF AudInv

\* notify, of everybody the snapshot gave.
LEMMA PostKeeps ==
    ASSUME AudInv, NEW r \in Calls, Post(r)
    PROVE  /\ AudInv' /\ post' = call[r].row /\ post' \in Posts /\ call'[r] = Idle
           /\ \A o \in Calls \ {r} : call'[o] = Idle /\ call[o] = Idle
<1>1. /\ Shape /\ call[r].op = "post" /\ call' = [call EXCEPT ![r] = Idle]
      /\ post' = call[r].row /\ heard' = Notified(call[r].told, call[r].row.due)
      /\ UNCHANGED <<topic, place, status, files, moved, overtaken>>
  BY DEF AudInv, Post, Ends
<1>2. /\ post = None /\ topic # "attendance" /\ (\A o \in Calls \ {r} : call[o] = Idle)
      /\ call[r].row \in Posts /\ call[r].row.due \in DuesOf(topic) /\ post' # None
      /\ call[r].told \subseteq People
  BY <1>1, NoneIsNothing DEF Shape, CallShape, CallRecs
<1>3. /\ call' \in [Calls -> CallRecs] /\ call'[r] = Idle
      /\ \A o \in Calls \ {r} : call'[o] = call[o] /\ CallShape(o)'
  BY <1>1, <1>2, IdleIsCall, OthersKeepShape
<1>4. CallShape(r)'
  BY <1>3, IdleIsCall DEF CallShape, FileOps
<1>5. /\ heard' \in [People -> DuesOf(topic) \cup {None}]
      /\ \A p \in People : heard'[p] = IF p \in call[r].told THEN call[r].row.due ELSE None
  BY <1>1, <1>2 DEF Notified, AudInv, Shape, HeardOk
<1>6. Shape'
  BY <1>1, <1>2, <1>3, <1>4, <1>5 DEF Shape
<1>7. ASSUME NEW o \in Calls  PROVE ToldOk(o)'
  BY <1>2, <1>3, IdleIsCall DEF ToldOk
<1>8. HeardOk'
  <2>1. call[r].row.due # None
    BY <1>2, DuesAre, NoneIsNothing
  <2>2. /\ Aimed(topic, call[r].row.to)
        /\ \A k \in Students \ moved : k \in call[r].told <=> place[k] # None /\ Meant(topic, place[k], k, call[r].row)
        /\ \A u \in Staff : u \in call[r].told <=> Concerns(topic, u, call[r].row)
    BY <1>1 DEF AudInv, ToldOk
  <2>3. QED BY <1>1, <1>2, <1>5, <2>1, <2>2 DEF HeardOk, People
<1>9. QED BY <1>1, <1>2, <1>3, <1>6, <1>7, <1>8 DEF AudInv

\* update_homework and mark_attendance, the first step.
LEMMA SaveReadsKeeps ==
    ASSUME AudInv, NEW r \in Calls, SaveReads(r)
    PROVE  /\ AudInv' /\ UNCHANGED <<post, files, topic, overtaken>> /\ call'[r].op = "save" /\ ~call'[r].holds
           /\ call'[r].new = {} /\ \A o \in Calls \ {r} : call'[o] = call[o]
<1>1. PICK u \in Staff, to \in (IF post = None THEN Aims ELSE {post.to}), due \in Dues :
        LET row == IF post = None THEN [author |-> u, to |-> to, due |-> due, files |-> {}, here |-> TRUE]
                   ELSE [post EXCEPT !.due = due, !.files = {}] IN
        Begin(r, [Idle EXCEPT !.op = "save", !.row = row, !.told = Told(row),
                              !.was = IF post = None THEN None ELSE post.due])
  BY DEF SaveReads
<1> DEFINE row == IF post = None THEN [author |-> u, to |-> to, due |-> due, files |-> {}, here |-> TRUE]
                  ELSE [post EXCEPT !.due = due, !.files = {}]
           was == IF post = None THEN None ELSE post.due
           c == [Idle EXCEPT !.op = "save", !.row = row, !.told = Told(row), !.was = was]
<1>2. /\ topic = "attendance" \/ (topic = "homework" /\ post # None /\ post.here)
      /\ UNCHANGED <<topic, post, place, status, heard, files, overtaken>>
      /\ (moved' = {} /\ post = None /\ \A o \in Calls : call[o] = Idle) \/ moved' = moved
  BY DEF SaveReads, Here
<1>3. due \in DuesOf(topic) /\ due \in AllDues
  BY DuesAre
<1>4. /\ row \in Posts /\ row.due \in DuesOf(topic) /\ row.files = {} /\ Aimed(topic, row.to)
      /\ post # None => row.to = post.to /\ row.here = post.here
      /\ post = None => row.here
  <2>1. CASE post = None
    <3>1. to \in SUBSET Targets /\ Aimed(topic, to)
      BY <2>1, AimsAre
    <3>2. QED BY <1>3, <2>1, <3>1 DEF Posts
  <2>2. CASE post # None
    <3>1. post \in Posts /\ Aimed(topic, post.to)
      BY <2>2 DEF AudInv, Shape, HeardOk
    <3>2. QED BY <1>3, <2>2, <3>1 DEF Posts
  <2>3. QED BY <2>1, <2>2
<1>5. was \in AllDues \cup {None} /\ (was = None <=> post = None)
  BY DuesAre, NoneIsNothing DEF AudInv, Shape
<1> HIDE DEF row, was
<1>6. /\ Told(row) \subseteq People
      /\ \A k \in Students : k \in Told(row) <=> place[k] # None /\ Meant(topic, place[k], k, row)
      /\ \A q \in Staff : q \in Told(row) <=> Concerns(topic, q, row)
  BY ToldAre
<1>7. /\ c \in CallRecs /\ c.op = "save" /\ c.row = row /\ c.told = Told(row) /\ c.was = was
      /\ c.new = {} /\ c.old = {} /\ ~c.holds
  BY <1>4, <1>5, <1>6 DEF Idle, CallRecs
<1>8. call' = [call EXCEPT ![r] = c]
  BY <1>1 DEF Begin, row, was
<1> HIDE DEF c
<1>9. Shape /\ topic \in {"attendance", "homework"}
  BY <1>2 DEF AudInv
<1>10. \A o \in Calls : call[o].op # "post"
  BY <1>2, <1>9 DEF Shape, CallShape
<1>11. /\ call' \in [Calls -> CallRecs] /\ call'[r] = c
       /\ \A o \in Calls \ {r} : call'[o] = call[o] /\ CallShape(o)'
  BY <1>2, <1>7, <1>8, <1>9, <1>10, OthersKeepShape
<1>12. CallShape(r)'
  BY <1>4, <1>7, <1>9, <1>2, <1>11 DEF CallShape, FileOps
<1>13. Shape'
  BY <1>2, <1>9, <1>11, <1>12 DEF Shape
<1>14. ToldOk(r)'
  <2>1. \A k \in Students \ moved' : k \in Told(row) <=> place[k] # None /\ Meant(topic, place[k], k, row)
    BY <1>6
  <2>2. was # None => post # None /\ post.to = row.to
    BY <1>4, <1>5
  <2>3. topic = "homework" => was # None
    BY <1>2, <1>5
  <2>4. QED BY <1>2, <1>4, <1>6, <1>7, <1>11, <2>1, <2>2, <2>3 DEF ToldOk
<1>15. ASSUME NEW o \in Calls \ {r}  PROVE ToldOk(o)'
  <2>1. CASE moved' = moved
    BY <1>2, <1>11, <2>1 DEF AudInv, ToldOk
  <2>2. CASE moved' # moved
    BY <1>2, <1>11, <2>2, IdleIsCall DEF ToldOk
  <2>3. QED BY <2>1, <2>2
<1>16. HeardOk'
  BY <1>2 DEF AudInv, HeardOk
<1>17. QED BY <1>2, <1>7, <1>11, <1>13, <1>14, <1>15, <1>16 DEF AudInv

\* The second: the row is written, and whose value is not what was read is told. If nobody is, and
\* what is there by now is not what was read, the step is on record as overtaking another.
LEMMA SaveKeeps ==
    ASSUME AudInv, NEW r \in Calls, Save(r)
    PROVE  /\ AudInv' /\ call'[r] = Idle /\ UNCHANGED <<topic, files>> /\ topic \in {"attendance", "homework"}
           /\ post' \in Posts /\ post'.files = (IF post = None THEN {} ELSE post.files)
           /\ (post # None => post'.here = post.here)
           /\ (\A o \in Calls \ {r} : call'[o] = call[o]) /\ ("files" \in overtaken' <=> "files" \in overtaken)
<1> DEFINE c == call[r]
           now == IF post = None THEN None ELSE post.due
<1>1. /\ Shape /\ c.op = "save" /\ call' = [call EXCEPT ![r] = Idle] /\ topic \in {"attendance", "homework"}
      /\ IF post = None THEN post' = c.row
         ELSE post.to = c.row.to /\ post' = [post EXCEPT !.due = IF post.here THEN c.row.due ELSE post.due]
      /\ heard' = Notified(IF Changed(c) THEN c.told ELSE {}, c.row.due)
      /\ overtaken' = IF Changed(c) THEN overtaken \ {"due"}
                      ELSE IF now = c.was THEN overtaken ELSE overtaken \cup {"due"}
      /\ UNCHANGED <<topic, place, status, files, moved>>
  BY DEF AudInv, Save, Ends, Shape, CallShape, Here
<1>2. /\ c.row \in Posts /\ c.row.due \in DuesOf(topic) /\ c.row.files = {} /\ c.told \subseteq People
      /\ c.was \in AllDues \cup {None} /\ c.row.due # None
  <2>1. c \in CallRecs /\ c.row \in Posts /\ c.row.due \in DuesOf(topic) /\ c.row.files = {}
    BY <1>1 DEF Shape, CallShape
  <2>2. QED BY <2>1, DuesAre, NoneIsNothing DEF CallRecs
<1>3. /\ post' \in Posts /\ post'.to = c.row.to /\ post'.due \in DuesOf(topic) /\ post' # None
      /\ post'.files = (IF post = None THEN {} ELSE post.files)
      /\ (post # None => post'.here = post.here /\ post'.to = post.to /\ post'.author = post.author)
      /\ (post = None => post' = c.row)
  <2>1. CASE post = None
    BY <1>1, <1>2, <2>1, NoneIsNothing
  <2>2. CASE post # None
    <3>1. post \in Posts /\ post.due \in DuesOf(topic) /\ c.row.due \in AllDues
      BY <1>1, <1>2, <2>2, DuesAre DEF Shape
    <3>2. QED BY <1>1, <1>2, <2>2, <3>1, NoneIsNothing DEF Posts
  <2>3. QED BY <2>1, <2>2
<1>4. \A o \in Calls : call[o].op # "post"
  BY <1>1, IdleIsCall DEF Shape, CallShape
<1>5. /\ call' \in [Calls -> CallRecs] /\ call'[r] = Idle
      /\ \A o \in Calls \ {r} : call'[o] = call[o] /\ CallShape(o)'
  BY <1>1, <1>3, <1>4, IdleIsCall, OthersKeepShape
<1>6. CallShape(r)'
  BY <1>5, IdleIsCall DEF CallShape, FileOps
<1>7. /\ heard' \in [People -> DuesOf(topic) \cup {None}]
      /\ \A p \in People : heard'[p] = IF Changed(c) /\ p \in c.told THEN c.row.due ELSE heard[p]
  BY <1>1, <1>2 DEF Notified, Shape
<1>8. Shape'
  <2>1. overtaken' \subseteq {"due", "files"}
    BY <1>1 DEF Shape
  <2>2. QED BY <1>1, <1>3, <1>5, <1>6, <1>7, <2>1 DEF Shape
<1>9. ASSUME NEW o \in Calls \ {r}  PROVE ToldOk(o)'
  BY <1>1, <1>3, <1>5 DEF AudInv, ToldOk
<1>10. ToldOk(r)'
  BY <1>5, IdleIsCall DEF ToldOk
<1>11. /\ Aimed(topic, c.row.to)
       /\ \A k \in Students \ moved : k \in c.told <=> place[k] # None /\ Meant(topic, place[k], k, c.row)
       /\ \A u \in Staff : u \in c.told <=> Concerns(topic, u, c.row)
       /\ (c.was # None => post # None /\ post.to = c.row.to)
  BY <1>1 DEF AudInv, ToldOk
<1>12. c.was = None => Changed(c)
  BY <1>2 DEF Changed
<1>13. \A p, k : Meant(topic, p, k, post') <=> Meant(topic, p, k, c.row)
  BY <1>1, <1>3, MeantSame
<1>14. \A u \in Staff : ~Concerns(topic, u, post') /\ ~Concerns(topic, u, c.row) /\ ~Concerns(topic, u, post)
  BY <1>1 DEF Concerns
<1>15. \A k \in Students \ moved : heard'[k] # None <=> place[k] # None /\ Meant(topic, place[k], k, post')
  <2>1. CASE post = None
    <3>1. Changed(c) /\ \A p \in People : heard[p] = None
      BY <1>11, <1>12, <2>1 DEF AudInv, HeardOk
    <3>2. QED BY <1>2, <1>7, <1>11, <1>13, <3>1 DEF People
  <2>2. CASE post # None
    <3>1. \A p, k : Meant(topic, p, k, post') <=> Meant(topic, p, k, post)
      BY <1>1, <1>3, <2>2, MeantSame
    <3>2. \A k \in Students \ moved : heard[k] # None <=> place[k] # None /\ Meant(topic, place[k], k, post)
      BY <1>1, <2>2 DEF AudInv, HeardOk
    <3>3. QED BY <1>2, <1>7, <1>11, <1>13, <3>1, <3>2 DEF People
  <2>3. QED BY <2>1, <2>2
<1>16. \A u \in Staff : heard'[u] = None
  <2>1. \A u \in Staff : heard[u] = None
    BY <1>14 DEF AudInv, HeardOk, People
  <2>2. QED BY <1>7, <1>11, <1>14, <2>1 DEF People
<1>17. ASSUME post'.here, "due" \notin overtaken', NEW k \in Students \ moved
       PROVE  heard'[k] \in {None, post'.due}
  <2>1. ~Changed(c) => now = c.was /\ "due" \notin overtaken
    BY <1>1, <1>17
  <2>2. CASE post = None
    BY <1>3, <1>7, <2>2 DEF AudInv, HeardOk, People
  <2>3. CASE post # None
    <3>1. post.here /\ post'.due = c.row.due
      <4>1. post.here /\ post \in Posts
        BY <1>1, <1>3, <1>17, <2>3 DEF Shape
      <4>2. QED BY <1>1, <2>3, <4>1 DEF Posts
    <3>3. CASE Changed(c)
      <4>1. k \in c.told => heard'[k] = c.row.due
        BY <1>7, <3>3 DEF People
      <4>2. k \notin c.told => heard'[k] = heard[k]
        BY <1>7 DEF People
      <4>3. k \notin c.told => heard[k] = None
        <5>1. heard[k] # None <=> place[k] # None /\ Meant(topic, place[k], k, post)
          BY <1>1, <2>3 DEF AudInv, HeardOk
        <5>2. Meant(topic, place[k], k, post) <=> Meant(topic, place[k], k, c.row)
          <6>1. post.to = c.row.to
            BY <1>1, <2>3
          <6>2. QED BY <1>1, <6>1, MeantSame
        <5>3. QED BY <1>11, <5>1, <5>2
      <4>4. QED BY <3>1, <4>1, <4>2, <4>3
    <3>4. CASE ~Changed(c)
      <4>1. c.row.due = c.was /\ post.due = c.was
        BY <2>1, <2>3, <3>4 DEF Changed
      <4>2. heard'[k] = heard[k]
        BY <1>7, <3>4 DEF People
      <4>3. heard[k] \in {None, c.was}
        BY <1>1, <2>1, <2>3, <3>1, <3>4, <4>1 DEF AudInv, HeardOk
      <4>4. QED BY <3>1, <4>1, <4>2, <4>3
    <3>5. QED BY <3>3, <3>4
  <2>4. QED BY <2>2, <2>3
<1>18. HeardOk'
  BY <1>1, <1>3, <1>11, <1>14, <1>15, <1>16, <1>17 DEF HeardOk
<1>19. "files" \in overtaken' <=> "files" \in overtaken
  BY <1>1
<1>20. QED BY <1>1, <1>3, <1>5, <1>8, <1>9, <1>10, <1>18, <1>19 DEF AudInv

-----------------------------------------------------------------------------

LEMMA AudStart ==
    ASSUME Init
    PROVE  AudInv
<1>1. call = [r \in Calls |-> Idle] /\ post = None /\ heard = [p \in People |-> None]
  BY DEF Init
<1>2. Shape
  <2>1. \A r \in Calls : CallShape(r)
    BY <1>1, IdleIsCall DEF CallShape, FileOps
  <2>2. QED BY <1>1, <2>1, IdleIsCall DEF Shape, Init
<1>3. QED BY <1>1, <1>2, IdleIsCall DEF AudInv, ToldOk, HeardOk

LEMMA AudStep ==
    ASSUME AudInv, [Next]_vars
    PROVE  AudInv'
<1>1. CASE UNCHANGED vars
  <2>1. AudInv' <=> AudInv
    BY <1>1 DEF vars, AudInv, Shape, CallShape, ToldOk, HeardOk
  <2>2. QED BY <2>1
<1>2. ASSUME NEW r \in Calls,
             AttachReads(r) \/ RemoveReads(r) \/ AddReads(r) \/ DropReads(r) \/ DeleteReads(r)
      PROVE  AudInv'
  BY <1>2, FileBegins, FileStepsTellNobody DEF AudInv
<1>3. ASSUME NEW r \in Calls, Attach(r) \/ Remove(r) \/ Add(r) \/ Drop(r) \/ Delete(r)
      PROVE  AudInv'
  BY <1>3, FileEnds, FileStepsTellNobody DEF AudInv
<1>4. ASSUME NEW r \in Calls, PostReads(r) \/ SaveReads(r) \/ Post(r) \/ Save(r) \/ Refuse(r)
      PROVE  AudInv'
  BY <1>4, PostReadsKeeps, SaveReadsKeeps, PostKeeps, SaveKeeps, FileStepsTellNobody
<1>5. ASSUME NEW k \in Students, SetStatus(k) \/ Move(k)  PROVE AudInv'
  BY <1>5, SetStatusTellsNobody, MoveTellsNobody
<1>6. CASE Reschedule
  BY <1>6, RescheduleTellsNobody
<1>7. QED BY <1>1, <1>2, <1>3, <1>4, <1>5, <1>6 DEF Next

\* Whoever finds a post in his list gets a dot: updates.py asks for the class and the section by
\* <=>, as documents.py does, or by =, where the other query begins with a test for None.
LEMMA DotsAreListed ==
    ASSUME NEW row \in Posts, Aimed(topic, row.to), NEW k \in Students, place[k] \in Places \ {None}
    PROVE  Dot(k, row) <=> Lists(k, row) /\ topic # "announcement"
<1> DEFINE p == place[k]
<1>1. /\ None \notin Sections \cup Classes /\ "school" \notin Sections \cup Classes /\ Sections \cap Classes = {}
      /\ ClassOf \in [Sections -> Classes]
  BY PostsAssumption
<1>2. \/ p.section \in Sections /\ p.class = ClassOf[p.section]
      \/ p.section = None /\ p.class \in Classes \cup {None}
  BY DEF Places
<1>3. CASE topic = "notice"
  <2>1. row.to \subseteq {"school"} \cup Classes
    BY <1>3 DEF Aimed
  <2>2. \A t \in row.to : t # "school" => ClassAt(t) = t
    BY <1>1, <2>1 DEF ClassAt
  <2>3. ClassAt("school") = None
    BY <1>1 DEF ClassAt
  <2>4. QED BY <1>3, <2>2, <2>3 DEF Dot, NoticeScope, SqlEqual, Lists, NoticeListed
<1>4. CASE topic = "document"
  BY <1>4 DEF Dot, DocScope, Lists, DocumentListed
<1>5. CASE topic = "class_announcement"
  <2>1. \A t \in row.to : SectionAt(t) = t
    BY <1>5 DEF Aimed, SectionAt
  <2>2. QED BY <1>5, <2>1 DEF Dot, SectionScope, SqlEqual, Lists, AnnouncementListed
<1>6. CASE topic \in {"homework", "worksheet"}
  <2>1. \A t \in row.to : SectionAt(t) = t
    BY <1>6 DEF Aimed, SectionAt
  <2>2. QED BY <1>6, <2>1 DEF Dot, HomeworkScope, Lists, HomeworkListed
<1>7. CASE topic \in {"remark", "attendance"}
  BY <1>7 DEF Dot, Lists, Listed
<1>8. CASE topic \notin {"notice", "document", "class_announcement", "homework", "worksheet", "remark", "attendance"}
  BY <1>8 DEF Dot, Lists
<1>9. QED BY <1>3, <1>4, <1>5, <1>6, <1>7, <1>8

LEMMA AudImplies ==
    ASSUME AudInv
    PROVE  AudienceAgrees /\ HeardIsSo
<1> USE DEF Here
<1>1. HeardIsSo
  BY DEF AudInv, HeardOk, HeardIsSo
<1>2. ASSUME Here, NEW k \in Students \ moved, place[k] # None
      PROVE  /\ Dot(k, post) <=> Lists(k, post) /\ topic # "announcement"
             /\ \/ "due" \in overtaken /\ topic = "event"
                \/ heard[k] # None <=> Lists(k, post) /\ topic # "announcement" /\ (topic = "event" => post.due # "past")
  <2>1. place[k] \in Places \ {None} /\ post \in Posts /\ Aimed(topic, post.to)
    BY <1>2 DEF AudInv, Shape, HeardOk
  <2>2. Meant(topic, place[k], k, post) <=>
            Lists(k, post) /\ topic # "announcement" /\ (topic = "event" => post.due # "past")
    BY <2>1, MeantAreListed
  <2>3. (topic = "event" /\ "due" \in overtaken) \/ (heard[k] # None <=> Meant(topic, place[k], k, post))
    BY <1>2 DEF AudInv, HeardOk
  <2>4. Dot(k, post) <=> Lists(k, post) /\ topic # "announcement"
    BY <2>1, DotsAreListed
  <2>5. QED BY <2>2, <2>3, <2>4
<1>3. ASSUME Here, NEW u \in Staff, topic = "notice"
      PROVE  /\ heard[u] # None <=> StaffLists(u, post) /\ u # post.author
             /\ StaffDot(u, post) <=> StaffLists(u, post) /\ u # post.author
  <2>1. heard[u] # None <=> Concerns(topic, u, post)
    BY <1>3 DEF AudInv, HeardOk
  <2>2. QED BY <1>3, <2>1 DEF Concerns, StaffLists, StaffDot
<1>4. AudienceAgrees
  BY <1>2, <1>3 DEF AudienceAgrees
<1>5. QED BY <1>1, <1>4

\* Whoever is in the section has handed in, late or not, or is pending.
LEMMA CountsImplied ==
    ASSUME AudInv
    PROVE  CountsAddUp
<1> SUFFICES ASSUME Here, topic = "homework"
             PROVE  /\ Total = Counted("submitted") + Counted("late") + ListedPending
                    /\ ListedPending = Cardinality({k \in Students : place[k] # None /\ PendingAtHome(k)})
  BY DEF CountsAddUp
<1> DEFINE In(st) == {k \in Students : InSection(k) /\ status[k] = st}
           T == {k \in Students : InSection(k)}
<1>1. IsFiniteSet(Students) /\ None # "submitted" /\ None # "late"
  BY PostsAssumption
<1>2. IsFiniteSet(In("submitted")) /\ IsFiniteSet(In("late")) /\ IsFiniteSet(In(None))
  BY <1>1, Smaller
<1>3. T = (In("submitted") \cup In("late")) \cup In(None)
  BY DEF AudInv, Shape
<1>4. In("submitted") \cap In("late") = {} /\ (In("submitted") \cup In("late")) \cap In(None) = {}
  BY <1>1
<1>5. Cardinality(T) = Cardinality(In("submitted")) + Cardinality(In("late")) + Cardinality(In(None))
  <2> HIDE DEF T, In
  <2>1. /\ IsFiniteSet(In("submitted") \cup In("late"))
        /\ Cardinality(In("submitted") \cup In("late")) = Cardinality(In("submitted")) + Cardinality(In("late"))
    BY <1>2, <1>4, Parts
  <2>2. QED BY <1>2, <1>3, <1>4, <2>1, Parts
<1>6. Total = Counted("submitted") + Counted("late") + ListedPending
  BY <1>5 DEF Total, Counted, ListedPending
<1>7. ASSUME NEW k \in Students, place[k] # None  PROVE place[k].section \in post.to <=> HomeworkListed(k, post)
  <2>1. post.to \subseteq Sections
    BY DEF AudInv, HeardOk, Here, Aimed
  <2>2. place[k] \in Places \ {None}
    BY <1>7 DEF AudInv, Shape
  <2>3. QED BY <2>1, <2>2, PostsAssumption DEF HomeworkListed, ClassAt, Places
<1>8. In(None) = {k \in Students : place[k] # None /\ PendingAtHome(k)}
  BY <1>7 DEF InSection, PendingAtHome
<1>9. ListedPending = Cardinality({k \in Students : place[k] # None /\ PendingAtHome(k)})
  BY <1>8 DEF ListedPending
<1>10. QED BY <1>6, <1>9

-----------------------------------------------------------------------------
(* Boards: files *)

\* While nobody holds the row of a post that is there, nobody else's file is on its way.
LEMMA NothingOnItsWay ==
    ASSUME Shape, FileInv, post # None, NEW o \in Calls, ~call[o].holds
    PROVE  call[o].new = {}
<1>1. call[o].op \in {"none", "post", "save"} \cup FileOps /\ CallShape(o) /\ FilesKnown(o)
  BY DEF Shape, FileInv, CallRecs
<1>2. QED BY <1>1, IdleIsCall DEF CallShape, FilesKnown, FileOps, Albums

\* What begins: the row locked or not, with a new file or none.
LEMMA FilesBegin ==
    ASSUME Shape, FileInv, NEW r \in Calls,
           AttachReads(r) \/ RemoveReads(r) \/ AddReads(r) \/ DropReads(r) \/ DeleteReads(r)
    PROVE  FileInv'
<1>1. Began(r) /\ Shape' /\ \A o \in Calls \ {r} : call'[o] = call[o]
  BY FileBegins, BeganShape
<1>2. post # None /\ post.here /\ UNCHANGED <<topic, post, overtaken>> /\ Kept' = Kept
  BY DEF AttachReads, RemoveReads, AddReads, DropReads, DeleteReads, Here, Kept
<1>3. PICK op \in FileOps, old \in SUBSET Files, new \in SUBSET Files :
        /\ Takes(r, op, old, new) /\ (Locks(op) => Free(r))
        /\ files' = files \cup new /\ new \cap files = {}
        /\ op \notin {"attach", "add"} => new = {}
        /\ op \in {"drop", "add"} => topic \in Albums
        /\ op \in {"attach", "remove"} => topic \in Single
        /\ op = "drop" => old \subseteq post.files
        /\ op = "add" => old = {} /\ Cardinality(post.files) < MaxImages /\ \E f \in Files : new = {f}
        /\ op \notin {"drop", "add"} => old = post.files
  <2>1. post.files \subseteq Files
    BY <1>2 DEF Shape, Posts
  <2>2. CASE AttachReads(r)
    <3>1. PICK f \in NewNames : Takes(r, "attach", post.files, {f}) /\ files' = files \cup {f}
      BY <2>2 DEF AttachReads
    <3>2. {f} \in SUBSET Files /\ {f} \cap files = {} /\ "attach" \in FileOps /\ topic \in Single /\ (Locks("attach") => Free(r))
      BY <2>2 DEF NewNames, FileOps, AttachReads
    <3>3. QED BY <2>1, <3>1, <3>2
  <2>3. CASE RemoveReads(r)
    <3>1. /\ Takes(r, "remove", post.files, {}) /\ (Locks("remove") => Free(r)) /\ topic \in Single /\ files' = files \cup {}
          /\ {} \in SUBSET Files /\ {} \cap files = {} /\ "remove" \in FileOps
      BY <2>3 DEF RemoveReads, FileOps
    <3>2. QED BY <2>1, <3>1
  <2>4. CASE AddReads(r)
    <3>1. PICK f \in NewNames : Takes(r, "add", {}, {f}) /\ files' = files \cup {f}
      BY <2>4 DEF AddReads
    <3>2. /\ {f} \in SUBSET Files /\ f \in Files /\ {f} \cap files = {} /\ "add" \in FileOps /\ topic \in Albums /\ Free(r)
          /\ Cardinality(post.files) < MaxImages /\ {} \in SUBSET Files
      BY <2>4 DEF NewNames, FileOps, AddReads
    <3>3. QED BY <3>1, <3>2
  <2>5. CASE DropReads(r)
    <3>1. PICK f \in post.files : Takes(r, "drop", {f}, {})
      BY <2>5 DEF DropReads
    <3>2. /\ {f} \in SUBSET Files /\ {f} \subseteq post.files /\ "drop" \in FileOps /\ topic \in Albums /\ Free(r)
          /\ files' = files \cup {} /\ {} \in SUBSET Files /\ {} \cap files = {}
      BY <2>1, <2>5 DEF FileOps, DropReads
    <3>3. QED BY <3>1, <3>2
  <2>6. CASE DeleteReads(r)
    <3>1. /\ Takes(r, "delete", post.files, {}) /\ (Locks("delete") => Free(r)) /\ files' = files \cup {}
          /\ {} \in SUBSET Files /\ {} \cap files = {} /\ "delete" \in FileOps
      BY <2>6 DEF DeleteReads, FileOps
    <3>2. QED BY <2>1, <3>1
  <2>7. QED BY <2>2, <2>3, <2>4, <2>5, <2>6
<1>4. /\ call'[r].op = op /\ call'[r].old = old /\ call'[r].new = new /\ (call'[r].holds <=> Locks(op))
      /\ call[r].new = {} /\ ~call[r].holds
  BY <1>3, IdleIsCall DEF Takes, Begin, Idle, Shape, Locks
<1>5. FilesKnown(r)'
  <2>1. Locks(op) => \A o \in Calls \ {r} : ~call'[o].holds
    BY <1>1, <1>3 DEF Free
  <2>2. new \cap post.files = {}
    BY <1>2, <1>3 DEF FileInv, Kept
  <2>3. Locks(op) <=> topic # "worksheet" \/ op = "attach"
    BY DEF Locks
  <2>4. QED BY <1>2, <1>3, <1>4, <2>1, <2>2, <2>3 DEF FilesKnown, Albums
<1>6. ASSUME NEW o \in Calls \ {r}  PROVE FilesKnown(o)'
  <2>1. FilesKnown(o) /\ call'[o] = call[o]
    BY <1>1 DEF FileInv
  <2>2. Locks(op) => ~call[o].holds
    BY <1>3 DEF Free
  <2>3. call'[o].holds => \A q \in Calls \ {o} : ~call'[q].holds
    BY <1>1, <1>4, <2>1, <2>2 DEF FilesKnown
  <2>4. call'[o].new \subseteq files'
    BY <1>3, <2>1 DEF FilesKnown
  <2>5. QED BY <1>2, <2>1, <2>3, <2>4 DEF FilesKnown
<1>7. \A q, o \in Calls : q # o => call'[q].new \cap call'[o].new = {}
  <2>1. \A o \in Calls \ {r} : call'[o].new \subseteq files
    BY <1>1 DEF FileInv, FilesKnown
  <2>2. \A o \in Calls \ {r} : call'[r].new \cap call'[o].new = {}
    BY <1>3, <1>4, <2>1
  <2>3. \A q, o \in Calls \ {r} : q # o => call'[q].new \cap call'[o].new = {}
    BY <1>1 DEF FileInv
  <2>4. QED BY <2>2, <2>3
<1>8. "files" \notin overtaken' => \A f \in files' : f \in Kept' \/ \E o \in Calls : f \in call'[o].new
  <2>1. \A o \in Calls : call[o].new \subseteq call'[o].new
    BY <1>1, <1>4
  <2>2. "files" \notin overtaken => \A f \in files : f \in Kept \/ \E o \in Calls : f \in call[o].new
    BY DEF FileInv
  <2>3. QED BY <1>2, <1>3, <1>4, <2>1, <2>2
<1>9. Kept \subseteq files'
  BY <1>3 DEF FileInv
<1>10. QED BY <1>2, <1>5, <1>6, <1>7, <1>8, <1>9 DEF FileInv

\* What ends: nobody else holds the row, so what a hook deletes is what is attached no more.
LEMMA FilesEnd ==
    ASSUME Shape, FileInv, NEW r \in Calls, Attach(r) \/ Remove(r) \/ Add(r) \/ Drop(r) \/ Delete(r)
    PROVE  FileInv'
<1>1. Ended(r) /\ call'[r] = Idle /\ (\A o \in Calls \ {r} : call'[o] = call[o]) /\ topic' = topic
  BY FileEnds, EndedShape DEF Ended
<1>2. post # None /\ post' # None /\ post \in Posts /\ post' \in Posts
  BY <1>1, NoneIsNothing DEF Ended, Shape
<1>3. ASSUME NEW o \in Calls \ {r}  PROVE ~call[o].holds /\ call[o].new = {}
  <2>1. ~call[o].holds
    BY DEF Attach, Remove, Add, Drop, Delete, Ends, Free
  <2>2. QED BY <1>2, <2>1, NothingOnItsWay
<1>4. FilesKnown(r) /\ CallShape(r)
  BY DEF FileInv, Shape
<1>5. \A o \in Calls : ~call'[o].holds /\ call'[o].new = {}
  BY <1>1, <1>3, IdleIsCall
<1>6. ASSUME NEW o \in Calls  PROVE FilesKnown(o)'
  <2>1. CASE o = r
    BY <1>1, <1>5, <2>1, IdleIsCall DEF FilesKnown, FileOps
  <2>2. CASE o # r
    <3>1. FilesKnown(o) /\ call'[o] = call[o]
      BY <1>1, <2>2 DEF FileInv
    <3>2. QED BY <1>1, <1>5, <3>1 DEF FilesKnown
  <2>3. QED BY <2>1, <2>2
<1>7. Kept = post.files /\ Kept' = post'.files
  BY <1>2 DEF Kept
<1>8. /\ post'.files \subseteq files'
      /\ "files" \notin overtaken' => files' \subseteq post'.files
      /\ ~post'.here => post'.files = {}
      /\ topic \in Albums => IsFiniteSet(post'.files) /\ Cardinality(post'.files) <= MaxImages
      /\ topic \in {"homework", "attendance"} => post'.files = {}
  <2>1. /\ post.files \subseteq files /\ call[r].new \subseteq files /\ call[r].new \cap post.files = {}
        /\ "files" \notin overtaken => \A f \in files : f \in post.files \/ f \in call[r].new
        /\ topic \in Albums => IsFiniteSet(post.files) /\ Cardinality(post.files) <= MaxImages
        /\ topic \in {"homework", "attendance"} => post.files = {}
        /\ ~post.here => post.files = {}
    BY <1>2, <1>3, <1>4, <1>7 DEF FileInv, FilesKnown
  <2>2. \A F \in SUBSET Files : [post EXCEPT !.files = F].files = F /\ [post EXCEPT !.files = F].here = post.here
    BY <1>2 DEF Posts
  <2>3. files' \subseteq Files /\ call[r].new \subseteq Files /\ post.files \subseteq Files /\ MaxImages \in Nat
    BY <1>1, <1>2, PostsAssumption DEF Ended, Shape, CallRecs, Posts
  <2>4. CASE Attach(r)
    <3>1. /\ post' = [post EXCEPT !.files = call[r].new] /\ files' = files \ call[r].old /\ overtaken' = overtaken
          /\ call[r].op = "attach" /\ post.here
      BY <2>4 DEF Attach, Ends, Here
    <3>2. post'.files = call[r].new /\ post'.here
      BY <2>2, <2>3, <3>1
    <3>3. call[r].holds /\ call[r].old = post.files /\ topic \in Single
      BY <1>4, <3>1 DEF FilesKnown, FileOps
    <3>4. QED BY <2>1, <3>1, <3>2, <3>3 DEF Single, Albums
  <2>5. CASE Add(r)
    <3>1. /\ post' = [post EXCEPT !.files = post.files \cup call[r].new] /\ files' = files /\ overtaken' = overtaken
          /\ call[r].op = "add" /\ post.here
      BY <2>5 DEF Add, Ends, Here
    <3>2. post'.files = post.files \cup call[r].new /\ post'.here
      BY <2>2, <2>3, <3>1
    <3>3. /\ topic \in Albums /\ Cardinality(post.files) < MaxImages
          /\ \E f \in Files : call[r].new = {f}
      BY <1>4, <3>1 DEF FilesKnown, FileOps, Albums
    <3>4. PICK f \in Files : call[r].new = {f}
      BY <3>3
    <3>5. /\ IsFiniteSet(post.files \cup {f}) /\ Cardinality(post.files \cup {f}) <= Cardinality(post.files) + 1
          /\ Cardinality(post.files) \in Nat /\ Cardinality(post.files \cup {f}) \in Nat
      BY <2>1, <3>3, OneMore
    <3>6. Cardinality(post.files \cup {f}) <= MaxImages
      BY <2>3, <3>3, <3>5
    <3>7. QED BY <2>1, <3>1, <3>2, <3>3, <3>4, <3>5, <3>6 DEF Albums
  <2>6. CASE Drop(r)
    <3>1. /\ post' = [post EXCEPT !.files = post.files \ call[r].old] /\ files' = files \ call[r].old /\ overtaken' = overtaken
          /\ call[r].op = "drop" /\ post.here
      BY <2>6 DEF Drop, Ends, Here
    <3>2. post'.files = post.files \ call[r].old /\ post'.here
      BY <2>2, <2>3, <3>1
    <3>3. topic \in Albums /\ call[r].new = {}
      BY <1>4, <3>1 DEF FilesKnown, CallShape, FileOps
    <3>4. /\ IsFiniteSet(post.files \ call[r].old) /\ Cardinality(post.files \ call[r].old) <= Cardinality(post.files)
          /\ Cardinality(post.files) \in Nat /\ Cardinality(post.files \ call[r].old) \in Nat
      <4>1. IsFiniteSet(post.files) /\ post.files \ call[r].old \subseteq post.files
        BY <2>1, <3>3
      <4>2. QED BY <4>1, Smaller, FS_CardinalityType
    <3>5. QED BY <2>1, <2>3, <3>1, <3>2, <3>3, <3>4 DEF Albums
  <2>7. CASE Remove(r) \/ Delete(r)
    <3>1. /\ files' = files \ call[r].old /\ overtaken' = overtaken \cup Overtaken(call[r])
          /\ call[r].op \in {"remove", "delete"}
      BY <2>7 DEF Remove, Delete, Ends
    <3>2. post'.files = {}
      <4>1. CASE Remove(r)
        BY <2>2, <4>1 DEF Remove
      <4>2. CASE Delete(r)
        BY <1>2, <4>2 DEF Delete, Posts
      <4>3. QED BY <2>7, <4>1, <4>2
    <3>3. call[r].new = {}
      BY <1>4, <3>1 DEF CallShape, FileOps
    <3>4. "files" \notin overtaken' => post.files \subseteq call[r].old
      <4>1. CASE call[r].holds
        BY <1>4, <3>1, <4>1 DEF FilesKnown
      <4>2. CASE ~call[r].holds
        <5>1. topic = "worksheet"
          BY <1>4, <3>1, <4>2 DEF FilesKnown, FileOps
        <5>2. "files" \notin overtaken' /\ post.here => post.files = call[r].old
          BY <1>2, <3>1, <5>1 DEF Overtaken, Here, Single
        <5>3. QED BY <2>1, <5>2
      <4>3. QED BY <4>1, <4>2
    <3>5. IsFiniteSet({}) /\ Cardinality({}) <= MaxImages
      BY <2>3, FS_EmptySet
    <3>6. QED BY <2>1, <3>1, <3>2, <3>3, <3>4, <3>5
  <2>8. QED BY <2>4, <2>5, <2>6, <2>7
<1>9. QED BY <1>1, <1>2, <1>5, <1>6, <1>7, <1>8 DEF FileInv

\* The file of a call that is rolled back goes; it is nobody else's.
LEMMA FilesRefused ==
    ASSUME Shape, FileInv, NEW r \in Calls, Refuse(r)
    PROVE  FileInv'
<1>1. /\ call'[r] = Idle /\ \A o \in Calls \ {r} : call'[o] = call[o]
      /\ UNCHANGED <<topic, post, overtaken>> /\ files' = files \ call[r].new /\ Kept' = Kept
  BY RefuseShape DEF Refuse, Kept
<1>2. \A o \in Calls : FilesKnown(o)
  BY DEF FileInv
<1>3. ASSUME NEW o \in Calls  PROVE FilesKnown(o)'
  <2>1. CASE o = r
    <3>1. post' # None => call'[r].new \cap post'.files = {}
      BY <1>1, <2>1, IdleIsCall
    <3>2. QED BY <1>1, <2>1, <3>1, IdleIsCall DEF FilesKnown, FileOps
  <2>2. CASE o # r
    <3>1. FilesKnown(o) /\ call'[o] = call[o]
      BY <1>1, <1>2, <2>2
    <3>2. call[o].new \cap call[r].new = {}
      BY <2>2 DEF FileInv
    <3>3. call'[o].holds => \A q \in Calls \ {o} : ~call'[q].holds
      BY <1>1, <3>1, IdleIsCall DEF FilesKnown
    <3>4. call'[o].new \subseteq files'
      BY <1>1, <3>1, <3>2 DEF FilesKnown
    <3>5. QED BY <1>1, <3>1, <3>3, <3>4 DEF FilesKnown
  <2>3. QED BY <2>1, <2>2
<1>4. \A q, o \in Calls : q # o => call'[q].new \cap call'[o].new = {}
  BY <1>1, IdleIsCall DEF FileInv
<1>5. Kept \subseteq files'
  <2>1. call[r].new \cap Kept = {}
    BY <1>2 DEF FilesKnown, Kept
  <2>2. QED BY <1>1, <2>1 DEF FileInv
<1>6. "files" \notin overtaken' => \A f \in files' : f \in Kept' \/ \E o \in Calls : f \in call'[o].new
  <2>1. "files" \notin overtaken => \A f \in files : f \in Kept \/ \E o \in Calls : f \in call[o].new
    BY DEF FileInv
  <2>2. QED BY <1>1, <2>1
<1>7. QED BY <1>1, <1>3, <1>4, <1>5, <1>6 DEF FileInv

\* create: the file, or files, come before the row.
LEMMA FilesPosted ==
    ASSUME AudInv, FileInv, NEW r \in Calls, PostReads(r) \/ Post(r)
    PROVE  FileInv'
<1>1. Shape
  BY DEF AudInv
<1>2. CASE PostReads(r)
  <2>1. /\ post' = post /\ (\A o \in Calls \ {r} : call'[o] = call[o]) /\ call'[r] \in CallRecs /\ CallShape(r)'
    BY <1>2, PostReadsKeeps DEF AudInv, Shape
  <2>2. PICK new \in NewFiles : call'[r].op = "post" /\ call'[r].new = new /\ files' = files \cup new
    <3>1. PICK u \in Staff, to \in Aims, due \in Dues, new \in NewFiles :
            LET row == [author |-> u, to |-> to, due |-> due, files |-> new, here |-> TRUE] IN
            /\ MayPost(u, to) /\ (topic = "homework" => due # "past")
            /\ Begin(r, [Idle EXCEPT !.op = "post", !.row = row, !.told = Told(row), !.new = new])
            /\ files' = files \cup new
      BY <1>2 DEF PostReads
    <3> DEFINE row == [author |-> u, to |-> to, due |-> due, files |-> new, here |-> TRUE]
    <3>2. call' = [call EXCEPT ![r] = [Idle EXCEPT !.op = "post", !.row = row, !.told = Told(row), !.new = new]]
      BY <3>1 DEF Begin
    <3> HIDE DEF row
    <3>3. QED BY <1>1, <3>1, <3>2 DEF Shape, Idle
  <2>3. new \cap files = {}
    BY DEF NewFiles, DocumentFiles, LessonFiles, NewNames
  <2>4. /\ post = None /\ topic # "attendance" /\ (\A o \in Calls : call[o] = Idle) /\ UNCHANGED <<topic, overtaken>>
        /\ ~call'[r].holds /\ Kept = {} /\ Kept' = {}
    BY <1>2, <2>1, <2>2 DEF PostReads, CallShape, FileOps, Kept
  <2>5. \A o \in Calls \ {r} : call'[o] = Idle
    BY <2>1, <2>4
  <2>6. \A o \in Calls : FilesKnown(o)'
    BY <2>1, <2>2, <2>4, <2>5, IdleIsCall DEF FilesKnown, FileOps
  <2>7. \A q, o \in Calls : q # o => call'[q].new \cap call'[o].new = {}
    BY <2>5, IdleIsCall
  <2>8. "files" \notin overtaken' => \A f \in files' : f \in Kept' \/ \E o \in Calls : f \in call'[o].new
    <3>1. "files" \notin overtaken => \A f \in files : FALSE
      BY <2>4, IdleIsCall DEF FileInv
    <3>2. QED BY <2>2, <2>4, <3>1
  <2>9. QED BY <2>1, <2>4, <2>6, <2>7, <2>8 DEF FileInv
<1>3. CASE Post(r)
  <2>1. /\ post' = call[r].row /\ post' \in Posts /\ call'[r] = Idle
        /\ \A o \in Calls \ {r} : call'[o] = Idle /\ call[o] = Idle
    BY <1>3, PostKeeps
  <2>2. call[r].op = "post" /\ UNCHANGED <<topic, files, overtaken>>
    BY <1>3 DEF Post, Ends
  <2>3. topic # "attendance" /\ post = None /\ call[r].row.files = call[r].new /\ call[r].row.here
    BY <1>1, <2>2 DEF Shape, CallShape
  <2>4. post' # None /\ post'.files = call[r].new /\ post'.here /\ Kept = {} /\ Kept' = post'.files
    BY <2>1, <2>3, NoneIsNothing DEF Kept
  <2>5. \A o \in Calls : call'[o] = Idle
    BY <2>1
  <2>6. call[r].new \subseteq files
    BY DEF FileInv, FilesKnown
  <2>7. \A o \in Calls : FilesKnown(o)'
    BY <2>5, IdleIsCall DEF FilesKnown, FileOps
  <2>8. "files" \notin overtaken => \A f \in files : f \in call[r].new
    BY <2>1, <2>4, IdleIsCall DEF FileInv
  <2>9. topic \in Albums \cup {"homework"} => call[r].new = {}
    BY <1>1, <2>2 DEF Shape, CallShape, Albums
  <2>10. IsFiniteSet({}) /\ Cardinality({}) <= MaxImages
    BY PostsAssumption, FS_EmptySet
  <2>11. QED BY <2>2, <2>3, <2>4, <2>5, <2>6, <2>7, <2>8, <2>9, <2>10, IdleIsCall DEF FileInv
<1>4. QED BY <1>2, <1>3

\* Saves, moves, new dates and what is handed in leave the files alone.
LEMMA FilesLeftAlone ==
    ASSUME AudInv, AudInv', FileInv, UNCHANGED <<topic, files>>, Kept' = Kept,
           "files" \in overtaken' <=> "files" \in overtaken,
           post # None => post' # None /\ post'.files = post.files /\ post'.here = post.here,
           post = None /\ post' # None => topic \in {"homework", "attendance"},
           \A o \in Calls : call'[o] = call[o] \/ (call'[o].op \in {"none", "save"} /\ call[o].op \in {"none", "save"})
    PROVE  FileInv'
<1>1. \A o \in Calls : /\ call'[o].new = call[o].new /\ (call'[o].op \in FileOps => call'[o] = call[o])
                       /\ (call'[o].holds => call'[o] = call[o] /\ post # None)
  BY DEF AudInv, Shape, CallShape, FileOps
<1>2. ASSUME NEW o \in Calls  PROVE FilesKnown(o)'
  <2>1. FilesKnown(o)
    BY DEF FileInv
  <2>2. CASE call'[o] = call[o]
    <3>1. call[o].holds => post'.here /\ \A q \in Calls \ {o} : ~call'[q].holds
      BY <1>1, <2>1, <2>2 DEF FilesKnown
    <3>2. post' # None => call[o].new \cap post'.files = {}
      BY <2>1 DEF FilesKnown, Kept
    <3>3. call[o].holds => post # None
      BY <1>1, <2>2
    <3>4. QED BY <2>1, <2>2, <3>1, <3>2, <3>3 DEF FilesKnown
  <2>3. CASE call'[o] # call[o]
    <3>1. /\ call'[o].op \in {"none", "save"} /\ call[o].op \in {"none", "save"}
      BY <2>3
    <3>2. call'[o].new = {} /\ ~call'[o].holds
      BY <3>1 DEF AudInv, Shape, CallShape, FileOps
    <3>3. QED BY <3>1, <3>2 DEF FilesKnown, FileOps
  <2>4. QED BY <2>2, <2>3
<1>3. \A q, o \in Calls : q # o => call'[q].new \cap call'[o].new = {}
  BY <1>1 DEF FileInv
<1>4. "files" \notin overtaken' => \A f \in files' : f \in Kept' \/ \E o \in Calls : f \in call'[o].new
  BY <1>1 DEF FileInv
<1>5. post' # None /\ ~post'.here => post'.files = {}
  BY DEF FileInv, Kept
<1>6. post' # None /\ topic' \in Albums => IsFiniteSet(post'.files) /\ Cardinality(post'.files) <= MaxImages
  BY DEF FileInv, Albums
<1>7. QED BY <1>2, <1>3, <1>4, <1>5, <1>6 DEF FileInv

LEMMA FilesStart ==
    ASSUME Init
    PROVE  FileInv
<1>1. post = None /\ files = {} /\ \A r \in Calls : call[r] = Idle
  BY DEF Init
<1>2. \A r \in Calls : FilesKnown(r)
  BY <1>1, IdleIsCall DEF FilesKnown, FileOps
<1>3. QED BY <1>1, <1>2, IdleIsCall DEF FileInv, Kept

LEMMA FilesStep ==
    ASSUME AudInv, FileInv, [Next]_vars
    PROVE  FileInv'
<1>1. Shape /\ AudInv'
  BY AudStep DEF AudInv
<1>2. CASE UNCHANGED vars
  BY <1>2 DEF vars, FileInv, FilesKnown, Kept
<1>3. ASSUME NEW r \in Calls,
             \/ AttachReads(r) \/ RemoveReads(r) \/ AddReads(r) \/ DropReads(r) \/ DeleteReads(r)
             \/ Attach(r) \/ Remove(r) \/ Add(r) \/ Drop(r) \/ Delete(r)
             \/ PostReads(r) \/ Post(r) \/ Refuse(r)
      PROVE  FileInv'
  BY <1>1, <1>3, FilesBegin, FilesEnd, FilesPosted, FilesRefused
<1>4. ASSUME NEW r \in Calls, SaveReads(r)
      PROVE  FileInv'
  <2>1. call[r].op = "none"
    BY <1>4, IdleIsCall DEF SaveReads, Begin
  <2>2. /\ UNCHANGED <<post, files, topic, overtaken>> /\ call'[r].op = "save"
        /\ \A o \in Calls \ {r} : call'[o] = call[o]
    BY <1>4, SaveReadsKeeps
  <2>3. QED BY <1>1, <2>1, <2>2, FilesLeftAlone DEF Kept
<1>5. ASSUME NEW r \in Calls, Save(r)
      PROVE  FileInv'
  <2>1. call[r].op = "save"
    BY <1>5 DEF Save, Ends
  <2>2. /\ call'[r] = Idle /\ UNCHANGED <<topic, files>> /\ topic \in {"attendance", "homework"}
        /\ post' \in Posts /\ post'.files = (IF post = None THEN {} ELSE post.files)
        /\ (post # None => post'.here = post.here)
        /\ (\A o \in Calls \ {r} : call'[o] = call[o]) /\ ("files" \in overtaken' <=> "files" \in overtaken)
    BY <1>5, SaveKeeps
  <2>3. post' # None /\ Kept' = Kept
    BY <2>2, NoneIsNothing DEF Kept
  <2>4. \A o \in Calls : call'[o] = call[o] \/ (call'[o].op \in {"none", "save"} /\ call[o].op \in {"none", "save"})
    BY <2>1, <2>2, IdleIsCall
  <2>5. QED BY <1>1, <2>2, <2>3, <2>4, FilesLeftAlone
<1>6. ASSUME NEW k \in Students, SetStatus(k) \/ Move(k)
      PROVE  FileInv'
  <2>1. UNCHANGED <<topic, post, files, overtaken, call>>
    BY <1>6 DEF SetStatus, Move
  <2>2. QED BY <1>1, <2>1, FilesLeftAlone DEF Kept
<1>7. CASE Reschedule
  <2>1. /\ post # None /\ post' # None /\ post'.files = post.files /\ post'.here = post.here
        /\ UNCHANGED <<topic, files, call>> /\ overtaken' = overtaken \cup {"due"}
    BY <1>7, RescheduleTellsNobody, NoneIsNothing DEF Reschedule, Here
  <2>2. QED BY <1>1, <2>1, FilesLeftAlone DEF Kept
<1>8. QED BY <1>2, <1>3, <1>4, <1>5, <1>6, <1>7 DEF Next

LEMMA FilesImply ==
    ASSUME Shape, FileInv
    PROVE  BoardFilesAreKept /\ TypeOK
<1>1. BoardFilesAreKept
  <2> DEFINE kept == IF Here THEN post.files ELSE {}
             stored == UNION {call[r].new : r \in Calls}
  <2>1. kept = Kept /\ kept \subseteq files
    BY DEF Here, Kept, FileInv
  <2>2. stored \subseteq files
    BY DEF FileInv, FilesKnown
  <2>3. "files" \notin overtaken => files = kept \cup stored
    BY <2>1, <2>2 DEF FileInv
  <2>4. Here => (topic \in Albums => Cardinality(post.files) <= MaxImages)
    BY DEF Here, FileInv
  <2>5. QED BY <2>1, <2>3, <2>4 DEF BoardFilesAreKept
<1>2. TypeOK
  <2>1. post # None => post.author \in Staff /\ post.due \in Dues /\ post.files \subseteq Files /\ post.here \in BOOLEAN
    BY DuesAre DEF Shape, Posts
  <2>2. \A r \in Calls : call[r].told \subseteq People /\ call[r].old \subseteq Files /\ call[r].new \subseteq files
    BY DEF Shape, CallRecs, FileInv, FilesKnown
  <2>3. QED BY <2>1, <2>2, DuesAre DEF TypeOK, Shape
<1>3. QED BY <1>1, <1>2

-----------------------------------------------------------------------------
(* Exams: shapes and marks *)

LEMMA IdleIsRequest ==
    /\ Exam!Idle \in ExamCalls /\ Exam!Idle.op = "none" /\ Exam!Idle.new = None /\ Exam!Idle.paths = {} /\ Exam!Idle.holds = {}
    /\ Exam!Idle.old = None
BY DEF Exam!Idle, ExamCalls

LEMMA ColumnsAre == Columns = Subjects \cup {Whole} /\ Exam!Columns = Columns
BY DEF Columns, Exam!Columns

\* The results are in a table of students and columns; each is a record, or None.
LEMMA ResultsAre ==
    ASSUME ExamShape
    PROVE  /\ DOMAIN result = Pupils \X Columns
           /\ \A p \in Pupils \X Columns : result[p] # None =>
                /\ result[p] \in Exam!Results /\ result[p].marks \in Marks \cup {None}
                /\ result[p].max \in Maxima \cup {None} /\ result[p].grade \in {AB, Graded, None}
<1>1. result \in [Pupils \X Columns -> Exam!Results \cup {None}]
  BY DEF ExamShape
<1>2. \A x \in Exam!Results : x.marks \in Marks \cup {None} /\ x.max \in Maxima \cup {None} /\ x.grade \in {AB, Graded, None}
  BY DEF Exam!Results, Exam!Grades
<1>3. QED BY <1>1, <1>2

LEMMA SaveResultsKeeps ==
    ASSUME ExamShape, Exam!MarksFit, NEW r \in Calls, Exam!SaveResults(r)
    PROVE  ExamShape' /\ Exam!MarksFit'
<1>1. /\ request' = [request EXCEPT ![r] = Exam!Idle] /\ exam # None
      /\ UNCHANGED <<scope, class, exam, paper, store, replaced>>
  BY DEF Exam!SaveResults, Exam!Writes
<1>2. PICK c \in scope.columns, given \in Maxima \cup {None}, K \in (SUBSET scope.students) \ {{}},
           m \in Marks \cup {None}, g \in Exam!Grades :
        LET e == [marks |-> m, max |-> IF given # None THEN given ELSE request[r].max, grade |-> g] IN
        /\ Exam!Entry(e, request[r].max, given)
        /\ result' = [p \in DOMAIN result |-> IF p[1] \in K /\ p[2] = c THEN e ELSE result[p]]
  BY DEF Exam!SaveResults
<1> DEFINE e == [marks |-> m, max |-> IF given # None THEN given ELSE request[r].max, grade |-> g]
<1>3. e \in Exam!Results
  BY DEF Exam!Results, ExamShape, ExamCalls
<1>4. Exam!Fits(e.marks, e.max)
  BY <1>2 DEF Exam!Entry
<1>5. result' = [p \in DOMAIN result |-> IF p[1] \in K /\ p[2] = c THEN e ELSE result[p]]
  BY <1>2
<1> HIDE DEF e
<1>6. DOMAIN result' = DOMAIN result /\ \A p \in DOMAIN result : result'[p] \in {e, result[p]}
  BY <1>5
<1>7. result' \in [Pupils \X Columns -> Exam!Results \cup {None}]
  BY <1>3, <1>5 DEF ExamShape
<1>8. request' \in [Calls -> ExamCalls]
  BY <1>1, IdleIsRequest DEF ExamShape
<1>9. Exam!MarksFit'
  BY <1>4, <1>6 DEF Exam!MarksFit
<1>10. QED BY <1>1, <1>7, <1>8, <1>9 DEF ExamShape

LEMMA ImportResultsKeeps ==
    ASSUME ExamShape, Exam!MarksFit, NEW r \in Calls, Exam!ImportResults(r)
    PROVE  ExamShape' /\ Exam!MarksFit'
<1>1. /\ request' = [request EXCEPT ![r] = Exam!Idle] /\ exam # None
      /\ UNCHANGED <<scope, class, paper, store, replaced>>
  BY DEF Exam!ImportResults, Exam!Writes
<1>2. PICK max \in Maxima, v \in [scope.students \X (scope.columns \ {Whole}) -> Marks \cup {AB, None}] :
        /\ \A p \in DOMAIN v : v[p] \in Marks => v[p] <= max
        /\ result' = [p \in DOMAIN result |-> IF p \in DOMAIN v THEN Exam!Imported(result[p], v[p], max) ELSE result[p]]
        /\ exam' = [max |-> IF exam.max = None THEN max ELSE exam.max]
  BY DEF Exam!ImportResults
<1>3. ASSUME NEW p \in DOMAIN result, p \in DOMAIN v, v[p] # None
      PROVE  LET x == Exam!Imported(result[p], v[p], max) IN x \in Exam!Results /\ Exam!Fits(x.marks, x.max)
  <2>1. v[p] \in Marks \cup {AB} /\ (v[p] \in Marks => v[p] <= max) /\ max # None
    BY <1>2, <1>3, ExamAssumption
  <2>2. p \in Pupils \X Columns /\ (result[p] # None => result[p].grade \in {AB, Graded, None})
    BY <1>3, ResultsAre
  <2>3. QED BY <1>3, <2>1, <2>2, ExamAssumption DEF Exam!Imported, Exam!Results, Exam!Grades, Exam!Fits
<1>4. \A p \in DOMAIN result : v[p] = None => Exam!Imported(result[p], v[p], max) = result[p]
  BY DEF Exam!Imported
<1>5. /\ DOMAIN result' = DOMAIN result
      /\ \A p \in DOMAIN result : \/ result'[p] = result[p]
                                  \/ result'[p] \in Exam!Results /\ Exam!Fits(result'[p].marks, result'[p].max)
  BY <1>2, <1>3, <1>4
<1>6. result' \in [Pupils \X Columns -> Exam!Results \cup {None}]
  BY <1>2, <1>5, ResultsAre DEF ExamShape
<1>7. exam' \in [max : Maxima \cup {None}] \cup {None} /\ exam' # None
  <2>1. exam \in [max : Maxima \cup {None}]
    BY <1>1 DEF ExamShape
  <2>2. exam' \in [max : Maxima \cup {None}]
    BY <1>2, <2>1
  <2>3. QED BY <2>2, ExamAssumption
<1>8. request' \in [Calls -> ExamCalls]
  BY <1>1, IdleIsRequest DEF ExamShape
<1>9. Exam!MarksFit'
  BY <1>5 DEF Exam!MarksFit
<1>10. QED BY <1>1, <1>6, <1>7, <1>8, <1>9 DEF ExamShape

\* Whatever leaves the results alone, or clears a table that is empty.
LEMMA MarksLeftAlone ==
    ASSUME ExamShape, Exam!MarksFit, UNCHANGED scope, class' \in BOOLEAN, replaced' \in BOOLEAN,
           result' = result, exam' = None => exam = None, exam' \in [max : Maxima \cup {None}] \cup {None},
           paper' \in [Columns -> Files \cup {None}], exam' = None => paper' = paper, store' \subseteq Files,
           request' \in [Calls -> ExamCalls]
    PROVE  ExamShape' /\ Exam!MarksFit'
<1>1. ExamShape'
  BY DEF ExamShape
<1>2. QED BY <1>1 DEF Exam!MarksFit

\* A call that begins or ends, and touches no paper.
LEMMA PapersLeftAlone ==
    ASSUME PapersInv, NEW r \in Calls, NEW c \in ExamCalls, ExamShape,
           request' = [request EXCEPT ![r] = c], UNCHANGED <<paper, store, replaced>>,
           c.new = None, request[r].new = None, RequestKnown(r)',
           \A o \in Calls \ {r} : request[o].holds \cap c.holds = {},
           \A o \in Calls \ {r} : request[o].new # None => request[o].new \notin c.paths
    PROVE  PapersInv'
<1>1. request'[r] = c /\ \A o \in Calls \ {r} : request'[o] = request[o]
  BY DEF ExamShape
<1>2. ASSUME NEW o \in Calls \ {r}  PROVE RequestKnown(o)'
  <2>1. RequestKnown(o) /\ request'[o] = request[o]
    BY <1>1 DEF PapersInv
  <2>2. QED BY <2>1 DEF RequestKnown
<1>3. \A q, o \in Calls : q # o => request'[q].holds \cap request'[o].holds = {}
  BY <1>1 DEF PapersInv
<1>4. \A q, o \in Calls : q # o /\ request'[q].new # None => request'[q].new # request'[o].new
  BY <1>1 DEF PapersInv
<1>5. \A q, o \in Calls : request'[q].new # None => request'[q].new \notin request'[o].paths
  BY <1>1 DEF PapersInv
<1>6. \A q \in Calls, d \in Columns : request'[q].new # None => request'[q].new # paper'[d]
  BY <1>1 DEF PapersInv
<1>7. \A q \in Calls : request'[q].new # None => request'[q].new \in store'
  BY <1>1 DEF PapersInv
<1>8. ~replaced' => \A f \in store' : (\E d \in Columns : paper'[d] = f) \/ \E q \in Calls : request'[q].new = f
  <2>1. \A q \in Calls : request[q].new # None => request'[q].new = request[q].new
    BY <1>1
  <2>2. \A f \in store : f # None
    BY ExamAssumption DEF ExamShape
  <2>3. QED BY <2>1, <2>2 DEF PapersInv
<1>9. QED BY <1>1, <1>2, <1>3, <1>4, <1>5, <1>6, <1>7, <1>8 DEF PapersInv

\* A step of a form, a sheet or an edit.
LEMMA FormsKeepPapers ==
    ASSUME ExamShape, PapersInv, NEW r \in Calls,
           \/ \E op \in {"save", "import", "update"} : Exam!ReadExam(r, op)
           \/ Exam!SaveResults(r) \/ Exam!ImportResults(r) \/ Exam!UpdateExam(r)
    PROVE  PapersInv' /\ request' \in [Calls -> ExamCalls]
<1>1. CASE \E op \in {"save", "import", "update"} : Exam!ReadExam(r, op)
  <2>1. PICK op \in {"save", "import", "update"} : Exam!ReadExam(r, op)
    BY <1>1
  <2> DEFINE c == [Exam!Idle EXCEPT !.op = op, !.max = exam.max, !.holds = IF op = "update" THEN {"exam"} ELSE {}]
  <2>2. /\ request[r] = Exam!Idle /\ exam # None /\ request' = [request EXCEPT ![r] = c]
        /\ Exam!Free(r, c.holds) /\ UNCHANGED <<paper, store, replaced>>
    BY <2>1 DEF Exam!ReadExam, Exam!Begin, Exam!rows
  <2>3. exam.max \in Maxima \cup {None}
    BY <2>2 DEF ExamShape
  <2>4. /\ c \in ExamCalls /\ c.op = op /\ c.new = None /\ c.paths = {}
    BY <2>3 DEF Exam!Idle, ExamCalls, RowNames
  <2>5. \A o \in Calls \ {r} : request[o].holds \cap c.holds = {}
    BY <2>2 DEF Exam!Free
  <2> HIDE DEF c
  <2>6. request' \in [Calls -> ExamCalls] /\ request'[r] = c
    BY <2>2, <2>4 DEF ExamShape
  <2>7. RequestKnown(r)'
    BY <2>4, <2>6 DEF RequestKnown
  <2>8. QED BY <2>2, <2>4, <2>5, <2>6, <2>7, IdleIsRequest, PapersLeftAlone
<1>2. CASE Exam!SaveResults(r) \/ Exam!ImportResults(r) \/ Exam!UpdateExam(r)
  <2>1. /\ request' = [request EXCEPT ![r] = Exam!Idle] /\ request[r].op \in {"save", "import", "update"}
        /\ UNCHANGED <<paper, store, replaced>>
    BY <1>2 DEF Exam!SaveResults, Exam!ImportResults, Exam!UpdateExam, Exam!Writes
  <2>2. request[r].new = None
    BY <2>1 DEF PapersInv, RequestKnown
  <2>3. request' \in [Calls -> ExamCalls] /\ request'[r] = Exam!Idle
    BY <2>1, IdleIsRequest DEF ExamShape
  <2>4. RequestKnown(r)'
    BY <2>3, IdleIsRequest DEF RequestKnown
  <2>5. QED BY <2>1, <2>2, <2>3, <2>4, IdleIsRequest, PapersLeftAlone
<1>3. QED BY <1>1, <1>2

\* delete_exam and delete_class read every path.
LEMMA DeleteReadsKeeps ==
    ASSUME ExamShape, PapersInv, NEW r \in Calls, NEW op \in {"delete", "dropclass"}, Exam!DeleteReads(r, op)
    PROVE  PapersInv' /\ request' \in [Calls -> ExamCalls]
<1> DEFINE c == [Exam!Idle EXCEPT !.op = op, !.paths = Exam!Paths, !.holds = {IF op = "delete" THEN "exam" ELSE "class"}]
<1>1. /\ request[r] = Exam!Idle /\ request' = [request EXCEPT ![r] = c]
      /\ Exam!Free(r, c.holds) /\ UNCHANGED <<paper, store, replaced>>
  BY DEF Exam!DeleteReads, Exam!Begin, Exam!rows
<1>2. Exam!Paths \subseteq Files /\ \A f : f \in Exam!Paths <=> f # None /\ \E d \in Columns : paper[d] = f
  BY ColumnsAre DEF Exam!Paths, ExamShape
<1>3. /\ c \in ExamCalls /\ c.op = op /\ c.new = None /\ c.paths = Exam!Paths
      /\ c.holds = {IF op = "delete" THEN "exam" ELSE "class"}
  BY <1>2 DEF Exam!Idle, ExamCalls, RowNames
<1>4. \A o \in Calls \ {r} : request[o].holds \cap c.holds = {}
  BY <1>1 DEF Exam!Free
<1> HIDE DEF c
<1>5. request' \in [Calls -> ExamCalls] /\ request'[r] = c
  BY <1>1, <1>3 DEF ExamShape
<1>6. RequestKnown(r)'
  BY <1>1, <1>2, <1>3, <1>5 DEF RequestKnown
<1>7. \A o \in Calls \ {r} : request[o].new # None => request[o].new \notin c.paths
  BY <1>2, <1>3 DEF PapersInv
<1>8. QED BY <1>1, <1>3, <1>4, <1>5, <1>6, <1>7, IdleIsRequest, PapersLeftAlone

\* A rollback takes its own file along, and no other.
LEMMA ExamRefuseKeeps ==
    ASSUME ExamShape, PapersInv, NEW r \in Calls, Exam!Refuse(r)
    PROVE  PapersInv' /\ request' \in [Calls -> ExamCalls] /\ store' \subseteq Files
<1>1. /\ request' = [request EXCEPT ![r] = Exam!Idle] /\ store' = store \ {request[r].new}
      /\ UNCHANGED <<scope, class, exam, result, paper, replaced>>
  BY DEF Exam!Refuse, Exam!rows
<1>2. /\ request' \in [Calls -> ExamCalls] /\ request'[r] = Exam!Idle
      /\ \A o \in Calls \ {r} : request'[o] = request[o]
  BY <1>1, IdleIsRequest DEF ExamShape
<1>3. \A o \in Calls : RequestKnown(o)'
  BY <1>1, <1>2, IdleIsRequest DEF PapersInv, RequestKnown
<1>4. \A q, o \in Calls : q # o => request'[q].holds \cap request'[o].holds = {}
  BY <1>2, IdleIsRequest DEF PapersInv
<1>5. \A q, o \in Calls : q # o /\ request'[q].new # None => request'[q].new # request'[o].new
  BY <1>2, IdleIsRequest DEF PapersInv
<1>6. \A q, o \in Calls : request'[q].new # None => request'[q].new \notin request'[o].paths
  BY <1>2, IdleIsRequest DEF PapersInv
<1>7. \A q \in Calls : request'[q].new # None => request'[q].new \in store'
  BY <1>1, <1>2, IdleIsRequest DEF PapersInv
<1>8. \A d \in Columns : paper'[d] # None => paper'[d] \in store'
  BY <1>1 DEF PapersInv
<1>9. ~replaced' => \A f \in store' : (\E d \in Columns : paper'[d] = f) \/ \E q \in Calls : request'[q].new = f
  BY <1>1, <1>2 DEF PapersInv
<1>10. QED BY <1>1, <1>2, <1>3, <1>4, <1>5, <1>6, <1>7, <1>8, <1>9, IdleIsRequest DEF PapersInv, ExamShape

\* save_upload: the new file is in the store before the row leads to it.
LEMMA PaperReadsKeeps ==
    ASSUME ExamShape, PapersInv, NEW r \in Calls, NEW col \in Columns, NEW f \in Files, Exam!PaperReads(r, col, f)
    PROVE  PapersInv' /\ request' \in [Calls -> ExamCalls] /\ store' \subseteq Files
<1> DEFINE c == [Exam!Idle EXCEPT !.op = "paper", !.column = col, !.old = paper[col], !.new = f, !.holds = Exam!PaperRow(col)]
<1>1. /\ request[r] = Exam!Idle /\ request' = [request EXCEPT ![r] = c] /\ Exam!Free(r, c.holds)
      /\ store' = store \cup {f} /\ f \notin store /\ (\A o \in Calls : f \notin request[o].paths)
      /\ UNCHANGED <<scope, class, exam, result, paper, replaced>>
  BY DEF Exam!PaperReads, Exam!Begin, Exam!NewNames, Exam!rows
<1>2. Exam!PaperRow(col) = IF col = Whole THEN {"exam"} ELSE IF paper[col] = None THEN {} ELSE {col}
  BY DEF Exam!PaperRow
<1>3. /\ c \in ExamCalls /\ c.op = "paper" /\ c.column = col /\ c.old = paper[col] /\ c.new = f /\ c.paths = {}
      /\ c.holds = Exam!PaperRow(col)
  BY <1>2 DEF Exam!Idle, ExamCalls, RowNames, ExamShape
<1>4. \A o \in Calls \ {r} : request[o].holds \cap c.holds = {}
  BY <1>1 DEF Exam!Free
<1> HIDE DEF c
<1>5. /\ request' \in [Calls -> ExamCalls] /\ request'[r] = c
      /\ \A o \in Calls \ {r} : request'[o] = request[o]
  BY <1>1, <1>3 DEF ExamShape
<1>6. f # None /\ None \notin Files
  BY ExamAssumption
<1>7. RequestKnown(r)'
  BY <1>1, <1>2, <1>3, <1>5, <1>6 DEF RequestKnown
<1>8. ASSUME NEW o \in Calls \ {r}  PROVE RequestKnown(o)'
  <2>1. RequestKnown(o) /\ request'[o] = request[o]
    BY <1>5 DEF PapersInv
  <2>2. QED BY <1>1, <2>1 DEF RequestKnown
<1>9. \A q, o \in Calls : q # o => request'[q].holds \cap request'[o].holds = {}
  BY <1>4, <1>5 DEF PapersInv
<1>10. \A o \in Calls \ {r} : request[o].new # f
  BY <1>1, <1>6 DEF PapersInv
<1>11. \A q, o \in Calls : q # o /\ request'[q].new # None => request'[q].new # request'[o].new
  BY <1>3, <1>5, <1>10 DEF PapersInv
<1>12. \A q, o \in Calls : request'[q].new # None => request'[q].new \notin request'[o].paths
  BY <1>1, <1>3, <1>5 DEF PapersInv
<1>13. \A q \in Calls, d \in Columns : request'[q].new # None => request'[q].new # paper'[d]
  BY <1>1, <1>3, <1>5, <1>6 DEF PapersInv
<1>14. \A q \in Calls : request'[q].new # None => request'[q].new \in store'
  BY <1>1, <1>3, <1>5 DEF PapersInv
<1>15. \A d \in Columns : paper'[d] # None => paper'[d] \in store'
  BY <1>1 DEF PapersInv
<1>16. ~replaced' => \A g \in store' : (\E d \in Columns : paper'[d] = g) \/ \E q \in Calls : request'[q].new = g
  <2>1. request[r].new = None /\ \A g \in store : g # None
    BY <1>1, <1>6, IdleIsRequest DEF ExamShape
  <2>2. ~replaced => \A g \in store : (\E d \in Columns : paper[d] = g) \/ \E q \in Calls \ {r} : request[q].new = g
    BY <2>1 DEF PapersInv
  <2>3. QED BY <1>1, <1>3, <1>5, <2>2
<1>17. store' \subseteq Files
  BY <1>1 DEF ExamShape
<1>18. QED BY <1>1, <1>5, <1>7, <1>8, <1>9, <1>11, <1>12, <1>13, <1>14, <1>15, <1>16, <1>17 DEF PapersInv

\* The row it has locked, or no row at all, leads to what the call has read: that file goes.
LEMMA UploadReplaces ==
    ASSUME ExamShape, PapersInv, NEW r \in Calls, Exam!UploadPaper(r)
    PROVE  LET c == request[r] IN
           /\ c.op = "paper" /\ c.column \in Columns /\ c.new # None /\ c.old = paper[c.column]
           /\ paper' = [paper EXCEPT ![c.column] = c.new] /\ store' = store \ {c.old}
           /\ request' = [request EXCEPT ![r] = Exam!Idle] /\ exam # None
           /\ replaced' = (replaced \/ \E o \in Calls \ {r} : request[o].op \in {"delete", "dropclass"})
           /\ UNCHANGED <<scope, class, exam, result>>
           /\ \A o \in Calls \ {r} : request[o].op = "paper" /\ request[o].holds # {} => request[o].column # c.column
<1> DEFINE c == request[r]
<1>1. /\ c.op = "paper" /\ paper' = [paper EXCEPT ![c.column] = c.new] /\ store' = store \ {c.old}
      /\ request' = [request EXCEPT ![r] = Exam!Idle] /\ exam # None
      /\ replaced' = (replaced \/ \E o \in Calls \ {r} : request[o].op \in {"delete", "dropclass"})
      /\ UNCHANGED <<scope, class, exam, result>>
      /\ c.column # Whole /\ c.old = None => paper[c.column] = None
      /\ c.column # Whole /\ c.old # None => Exam!Free(r, {c.column})
  BY DEF Exam!UploadPaper, Exam!Writes
<1>2. /\ c.column \in Columns /\ c.new # None
      /\ c.holds = IF c.column = Whole THEN {"exam"} ELSE IF c.old = None THEN {} ELSE {c.column}
      /\ c.holds # {} => c.old = paper[c.column]
  BY <1>1 DEF PapersInv, RequestKnown
<1>3. c.old = paper[c.column]
  BY <1>1, <1>2
<1>4. ASSUME NEW o \in Calls \ {r}, request[o].op = "paper", request[o].holds # {}, request[o].column = c.column
      PROVE  FALSE
  <2>1. /\ request[o].holds = (IF c.column = Whole THEN {"exam"} ELSE IF request[o].old = None THEN {} ELSE {c.column})
        /\ request[o].old = paper[c.column]
    BY <1>4 DEF PapersInv, RequestKnown
  <2>2. request[o].holds \cap c.holds = {}
    BY DEF PapersInv
  <2>3. QED BY <1>2, <1>3, <1>4, <2>1, <2>2
<1>5. QED BY <1>1, <1>2, <1>3, <1>4

LEMMA UploadPaperKeeps ==
    ASSUME ExamShape, PapersInv, NEW r \in Calls, Exam!UploadPaper(r)
    PROVE  /\ PapersInv' /\ request' \in [Calls -> ExamCalls] /\ store' \subseteq Files
           /\ paper' \in [Columns -> Files \cup {None}] /\ exam # None /\ replaced' \in BOOLEAN
<1> DEFINE c == request[r]
<1>1. /\ c.op = "paper" /\ c.column \in Columns /\ c.new # None /\ c.old = paper[c.column]
      /\ paper' = [paper EXCEPT ![c.column] = c.new] /\ store' = store \ {c.old}
      /\ request' = [request EXCEPT ![r] = Exam!Idle] /\ exam # None
      /\ replaced' = (replaced \/ \E o \in Calls \ {r} : request[o].op \in {"delete", "dropclass"})
      /\ UNCHANGED <<scope, class, exam, result>>
      /\ \A o \in Calls \ {r} : request[o].op = "paper" /\ request[o].holds # {} => request[o].column # c.column
  BY UploadReplaces
<1>2. /\ request' \in [Calls -> ExamCalls] /\ request'[r] = Exam!Idle
      /\ \A o \in Calls \ {r} : request'[o] = request[o]
  BY <1>1, IdleIsRequest DEF ExamShape
<1>3. /\ c.new \in store /\ c.new \in Files /\ (\A d \in Columns : c.new # paper[d])
      /\ (\A o \in Calls \ {r} : request[o].new # c.new) /\ None \notin Files
      /\ \A o \in Calls : c.new \notin request[o].paths
  BY <1>1, ExamAssumption DEF PapersInv, ExamShape
<1>4. /\ paper' \in [Columns -> Files \cup {None}] /\ paper'[c.column] = c.new
      /\ \A d \in Columns \ {c.column} : paper'[d] = paper[d]
  BY <1>1, <1>3 DEF ExamShape
<1>5. ASSUME NEW o \in Calls \ {r}  PROVE RequestKnown(o)'
  <2>1. RequestKnown(o) /\ request'[o] = request[o]
    BY <1>2 DEF PapersInv
  <2>2. request[o].op = "paper" /\ request[o].holds # {} => request[o].old = paper'[request[o].column]
    BY <1>1, <1>4, <2>1 DEF RequestKnown
  <2>3. request[o].op \in {"delete", "dropclass"} => replaced'
    BY <1>1
  <2>4. QED BY <2>1, <2>2, <2>3 DEF RequestKnown
<1>6. RequestKnown(r)'
  BY <1>2, IdleIsRequest DEF RequestKnown
<1>7. \A q, o \in Calls : q # o => request'[q].holds \cap request'[o].holds = {}
  BY <1>2, IdleIsRequest DEF PapersInv
<1>8. \A d, e \in Columns : d # e /\ paper'[d] # None => paper'[d] # paper'[e]
  BY <1>3, <1>4 DEF PapersInv
<1>9. \A q, o \in Calls : q # o /\ request'[q].new # None => request'[q].new # request'[o].new
  BY <1>2, IdleIsRequest DEF PapersInv
<1>10. \A q, o \in Calls : request'[q].new # None => request'[q].new \notin request'[o].paths
  BY <1>2, IdleIsRequest DEF PapersInv
<1>11. \A q \in Calls, d \in Columns : request'[q].new # None => request'[q].new # paper'[d]
  BY <1>2, <1>3, <1>4, IdleIsRequest DEF PapersInv
<1>12. \A q \in Calls : request'[q].new # None => request'[q].new \in store'
  BY <1>1, <1>2, IdleIsRequest DEF PapersInv
<1>13. \A d \in Columns : paper'[d] # None => paper'[d] \in store'
  BY <1>1, <1>3, <1>4 DEF PapersInv
<1>14. ~replaced' => \A f \in store' : (\E d \in Columns : paper'[d] = f) \/ \E q \in Calls : request'[q].new = f
  <2>1. SUFFICES ASSUME ~replaced, NEW f \in store, f # c.old
                 PROVE  (\E d \in Columns : paper'[d] = f) \/ \E q \in Calls : request'[q].new = f
    BY <1>1
  <2>2. CASE \E d \in Columns : paper[d] = f
    BY <1>1, <1>4, <2>1, <2>2
  <2>3. CASE \E q \in Calls : request[q].new = f
    BY <1>1, <1>2, <1>4, <2>3
  <2>4. QED BY <2>1, <2>2, <2>3 DEF PapersInv
<1>15. replaced' \in BOOLEAN /\ store' \subseteq Files
  BY <1>1 DEF ExamShape
<1>16. QED BY <1>1, <1>2, <1>4, <1>5, <1>6, <1>7, <1>8, <1>9, <1>10, <1>11, <1>12, <1>13, <1>14, <1>15 DEF PapersInv

\* A paper whose row no upload has locked, and no deletion of the exam.
LEMMA DeletePaperKeeps ==
    ASSUME ExamShape, PapersInv, Exam!DeletePaper
    PROVE  /\ PapersInv' /\ store' \subseteq Files /\ paper' \in [Columns -> Files \cup {None}] /\ exam # None
           /\ UNCHANGED <<scope, class, exam, result, replaced, request>>
<1>1. PICK c \in Subjects :
        /\ paper[c] # None /\ \A o \in Calls : request[o].holds \cap {c, "exam"} = {}
        /\ paper' = [paper EXCEPT ![c] = None]
        /\ store' = store \ {paper[c]}
  BY DEF Exam!DeletePaper
<1>2. UNCHANGED <<scope, class, exam, result, replaced, request>>
  BY DEF Exam!DeletePaper
<1>3. c \in Columns /\ c # Whole /\ None \notin Files
  BY ExamAssumption, ColumnsAre
<1>4. /\ paper' \in [Columns -> Files \cup {None}] /\ paper'[c] = None
      /\ \A d \in Columns \ {c} : paper'[d] = paper[d]
  BY <1>1, <1>3 DEF ExamShape
<1>5. ASSUME NEW o \in Calls  PROVE RequestKnown(o)'
  <2>1. RequestKnown(o) /\ request'[o] = request[o]
    BY <1>2 DEF PapersInv
  <2>2. request[o].op = "paper" /\ request[o].holds # {} => request[o].old = paper'[request[o].column]
    BY <1>1, <1>4, <2>1 DEF RequestKnown
  <2>3. \A d \in Columns : paper'[d] # None => paper[d] # None /\ paper'[d] = paper[d]
    BY <1>4
  <2>4. QED BY <1>2, <2>1, <2>2, <2>3 DEF RequestKnown
<1>6. \A d, e \in Columns : d # e /\ paper'[d] # None => paper'[d] # paper'[e]
  BY <1>4 DEF PapersInv
<1>7. \A q \in Calls, d \in Columns : request'[q].new # None => request'[q].new # paper'[d]
  BY <1>2, <1>4 DEF PapersInv
<1>8. \A q \in Calls : request'[q].new # None => request'[q].new \in store'
  BY <1>1, <1>2, <1>3 DEF PapersInv
<1>9. \A d \in Columns : paper'[d] # None => paper'[d] \in store'
  BY <1>1, <1>3, <1>4 DEF PapersInv
<1>10. ~replaced' => \A f \in store' : (\E d \in Columns : paper'[d] = f) \/ \E q \in Calls : request'[q].new = f
  BY <1>1, <1>2, <1>4 DEF PapersInv
<1>11. /\ \A q, o \in Calls : q # o => request'[q].holds \cap request'[o].holds = {}
       /\ \A q, o \in Calls : q # o /\ request'[q].new # None => request'[q].new # request'[o].new
       /\ \A q, o \in Calls : request'[q].new # None => request'[q].new \notin request'[o].paths
  BY <1>2 DEF PapersInv
<1>12. store' \subseteq Files /\ exam # None
  BY <1>1, <1>3 DEF ExamShape
<1>13. QED BY <1>2, <1>4, <1>5, <1>6, <1>7, <1>8, <1>9, <1>10, <1>11, <1>12 DEF PapersInv

\* The exam goes with its papers; what it has not read was put in their place meanwhile.
LEMMA DeleteExamKeeps ==
    ASSUME ExamShape, PapersInv, NEW r \in Calls, Exam!DeleteExam(r)
    PROVE  PapersInv' /\ ExamShape' /\ Exam!MarksFit' /\ result' = result
<1> DEFINE c == request[r]
<1>1. /\ c.op \in {"delete", "dropclass"} /\ exam # None /\ request' = [request EXCEPT ![r] = Exam!Idle]
      /\ exam' = None /\ class' = (class /\ c.op = "delete") /\ (\A p \in DOMAIN result : result[p] = None)
      /\ result' = [p \in DOMAIN result |-> None] /\ paper' = [d \in Columns |-> None]
      /\ store' = store \ c.paths /\ UNCHANGED <<scope, replaced>> /\ Exam!Free(r, {"exam"} \cup Columns)
  BY ColumnsAre DEF Exam!DeleteExam, Exam!Writes, Exam!Deletable, Exam!NoResults
<1>2. /\ request' \in [Calls -> ExamCalls] /\ request'[r] = Exam!Idle
      /\ \A o \in Calls \ {r} : request'[o] = request[o]
  BY <1>1, IdleIsRequest DEF ExamShape
<1>3. result' = result
  BY <1>1 DEF ExamShape
<1>4. \A p \in Pupils \X Columns : result[p] = None
  BY <1>1, ResultsAre
<1>5. ExamShape'
  <2>1. paper' \in [Columns -> Files \cup {None}] /\ \A d \in Columns : paper'[d] = None
    BY <1>1
  <2>2. class' \in BOOLEAN /\ store' \subseteq Files
    BY <1>1 DEF ExamShape
  <2>3. QED BY <1>1, <1>2, <1>3, <1>4, <2>1, <2>2 DEF ExamShape
<1>6. Exam!MarksFit'
  BY <1>1, <1>3 DEF Exam!MarksFit
<1>7. c.new = None /\ RequestKnown(r)
  BY <1>1 DEF PapersInv, RequestKnown
<1>8. ASSUME NEW o \in Calls \ {r}  PROVE RequestKnown(o)'
  <2>1. RequestKnown(o) /\ request'[o] = request[o]
    BY <1>2 DEF PapersInv
  <2>2. request[o].holds \cap ({"exam"} \cup Columns) = {}
    BY <1>1 DEF Exam!Free
  <2>3. request[o].op = "paper" => request[o].holds = {}
    BY <2>1, <2>2 DEF RequestKnown
  <2>4. QED BY <1>1, <2>1, <2>3 DEF RequestKnown
<1>9. RequestKnown(r)'
  BY <1>2, IdleIsRequest DEF RequestKnown
<1>10. /\ \A q, o \in Calls : q # o => request'[q].holds \cap request'[o].holds = {}
       /\ \A q, o \in Calls : q # o /\ request'[q].new # None => request'[q].new # request'[o].new
  BY <1>2, IdleIsRequest DEF PapersInv
<1>11. \A q, o \in Calls : request'[q].new # None => request'[q].new \notin request'[o].paths
  BY <1>2, IdleIsRequest DEF PapersInv
<1>12. \A q \in Calls : request'[q].new # None => request'[q].new \in store'
  BY <1>1, <1>2, IdleIsRequest DEF PapersInv
<1>13. \A q \in Calls, d \in Columns : request'[q].new # None => request'[q].new # paper'[d]
  BY <1>1
<1>14. ~replaced' => \A f \in store' : (\E d \in Columns : paper'[d] = f) \/ \E q \in Calls : request'[q].new = f
  <2>1. SUFFICES ASSUME ~replaced, NEW f \in store, f \notin c.paths
                 PROVE  \E q \in Calls : request'[q].new = f
    BY <1>1
  <2>2. f # None
    BY ExamAssumption DEF ExamShape
  <2>3. ~ \E d \in Columns : paper[d] = f
    BY <1>1, <1>7, <2>1, <2>2 DEF RequestKnown
  <2>4. PICK q \in Calls : request[q].new = f
    BY <2>1, <2>3 DEF PapersInv
  <2>5. QED BY <1>2, <1>7, <2>2, <2>4
<1>15. QED BY <1>1, <1>3, <1>5, <1>6, <1>8, <1>9, <1>10, <1>11, <1>12, <1>13, <1>14 DEF PapersInv

LEMMA ExamStart ==
    ASSUME Exam!Init
    PROVE  ExamOk
<1>1. /\ paper = [c \in Columns |-> None] /\ result = [p \in Pupils \X Columns |-> None] /\ store = {}
      /\ request = [r \in Calls |-> Exam!Idle] /\ exam \in [max : Maxima \cup {None}] /\ scope \in Groups
      /\ class = TRUE /\ replaced = FALSE
  BY ColumnsAre DEF Exam!Init
<1>2. ExamShape
  BY <1>1, IdleIsRequest, ExamAssumption DEF ExamShape
<1>3. Exam!MarksFit
  BY <1>1 DEF Exam!MarksFit
<1>4. \A r \in Calls : RequestKnown(r)
  BY <1>1, IdleIsRequest DEF RequestKnown
<1>5. PapersInv
  BY <1>1, <1>4, IdleIsRequest DEF PapersInv
<1>6. QED BY <1>2, <1>3, <1>5 DEF ExamOk

LEMMA ExamStep ==
    ASSUME ExamOk, Exam!Next
    PROVE  ExamOk'
<1>1. ExamShape /\ PapersInv /\ Exam!MarksFit
  BY DEF ExamOk
<1>2. class \in BOOLEAN /\ replaced \in BOOLEAN /\ exam \in [max : Maxima \cup {None}] \cup {None}
      /\ paper \in [Columns -> Files \cup {None}] /\ store \subseteq Files
  BY <1>1 DEF ExamShape
<1>3. ASSUME NEW r \in Calls, Exam!SaveResults(r) \/ Exam!ImportResults(r)
      PROVE  ExamOk'
  BY <1>1, <1>3, SaveResultsKeeps, ImportResultsKeeps, FormsKeepPapers DEF ExamOk
<1>4. ASSUME NEW r \in Calls, (\E op \in {"save", "import", "update"} : Exam!ReadExam(r, op)) \/ Exam!UpdateExam(r)
      PROVE  ExamOk'
  <2>1. /\ UNCHANGED <<scope, class, result, paper, store, replaced>>
        /\ exam' = exam \/ exam' \in [max : Maxima \cup {None}]
    BY <1>4 DEF Exam!ReadExam, Exam!UpdateExam, Exam!rows
  <2>2. PapersInv' /\ request' \in [Calls -> ExamCalls]
    BY <1>1, <1>4, FormsKeepPapers
  <2>3. exam' = None => exam = None
    BY <2>1, ExamAssumption
  <2>4. QED BY <1>1, <1>2, <2>1, <2>2, <2>3, MarksLeftAlone DEF ExamOk
<1>5. ASSUME NEW r \in Calls, NEW op \in {"delete", "dropclass"}, Exam!DeleteReads(r, op)
      PROVE  ExamOk'
  <2>1. UNCHANGED <<scope, class, exam, result, paper, store, replaced>>
    BY <1>5 DEF Exam!DeleteReads, Exam!rows
  <2>2. PapersInv' /\ request' \in [Calls -> ExamCalls]
    BY <1>1, <1>5, DeleteReadsKeeps
  <2>3. QED BY <1>1, <1>2, <2>1, <2>2, MarksLeftAlone DEF ExamOk
<1>6. ASSUME NEW r \in Calls, Exam!Refuse(r)
      PROVE  ExamOk'
  <2>1. UNCHANGED <<scope, class, exam, result, paper, replaced>>
    BY <1>6 DEF Exam!Refuse, Exam!rows
  <2>2. PapersInv' /\ request' \in [Calls -> ExamCalls] /\ store' \subseteq Files
    BY <1>1, <1>6, ExamRefuseKeeps
  <2>3. QED BY <1>1, <1>2, <2>1, <2>2, MarksLeftAlone DEF ExamOk
<1>7. ASSUME NEW r \in Calls, NEW c \in scope.columns, NEW f \in Files, Exam!PaperReads(r, c, f)
      PROVE  ExamOk'
  <2>1. UNCHANGED <<scope, class, exam, result, paper, replaced>>
    BY <1>7 DEF Exam!PaperReads, Exam!rows
  <2>2. c \in Columns
    BY <1>1, ExamAssumption, ColumnsAre DEF ExamShape
  <2>3. PapersInv' /\ request' \in [Calls -> ExamCalls] /\ store' \subseteq Files
    BY <1>1, <1>7, <2>2, PaperReadsKeeps
  <2>4. QED BY <1>1, <1>2, <2>1, <2>3, MarksLeftAlone DEF ExamOk
<1>8. ASSUME NEW r \in Calls, Exam!UploadPaper(r)
      PROVE  ExamOk'
  <2>1. UNCHANGED <<scope, class, exam, result>>
    BY <1>8 DEF Exam!UploadPaper
  <2>2. /\ PapersInv' /\ request' \in [Calls -> ExamCalls] /\ store' \subseteq Files
        /\ paper' \in [Columns -> Files \cup {None}] /\ exam # None /\ replaced' \in BOOLEAN
    BY <1>1, <1>8, UploadPaperKeeps
  <2>3. QED BY <1>1, <1>2, <2>1, <2>2, MarksLeftAlone DEF ExamOk
<1>9. ASSUME Exam!DeletePaper
      PROVE  ExamOk'
  <2>1. /\ PapersInv' /\ store' \subseteq Files /\ paper' \in [Columns -> Files \cup {None}] /\ exam # None
        /\ UNCHANGED <<scope, class, exam, result, replaced, request>>
    BY <1>1, <1>9, DeletePaperKeeps
  <2>2. request' \in [Calls -> ExamCalls]
    BY <1>1, <2>1 DEF ExamShape
  <2>3. QED BY <1>1, <1>2, <2>1, <2>2, MarksLeftAlone DEF ExamOk
<1>10. ASSUME NEW r \in Calls, Exam!DeleteExam(r)
       PROVE  ExamOk'
  BY <1>1, <1>10, DeleteExamKeeps DEF ExamOk
<1>11. QED BY <1>3, <1>4, <1>5, <1>6, <1>7, <1>8, <1>9, <1>10 DEF Exam!Next

LEMMA ExamImplies ==
    ASSUME ExamOk
    PROVE  Exam!PapersAreKept /\ Exam!TypeOK /\ Exam!ReuploadKeepsMarks
<1>1. ExamShape /\ PapersInv
  BY DEF ExamOk
<1>2. \A f : f \in Exam!Paths <=> f # None /\ \E d \in Columns : paper[d] = f
  BY ColumnsAre DEF Exam!Paths
<1>3. Exam!PapersAreKept
  <2> DEFINE news == {request[r].new : r \in Calls} \ {None}
  <2>1. Exam!Paths \subseteq store /\ news \subseteq store
    BY <1>1, <1>2 DEF PapersInv
  <2>2. \A f \in store : f # None
    BY <1>1, ExamAssumption DEF ExamShape
  <2>3. ~replaced => store \subseteq Exam!Paths \cup news
    BY <1>1, <1>2, <2>2 DEF PapersInv
  <2>4. QED BY <2>1, <2>3 DEF Exam!PapersAreKept
<1>4. Exam!TypeOK
  <2>1. exam # None => exam.max \in Maxima \cup {None}
    BY <1>1 DEF ExamShape
  <2>2. \A k \in Pupils, c \in Columns : result[<<k, c>>] \in Exam!Results \cup {None}
    BY <1>1 DEF ExamShape
  <2>3. \A r \in Calls : request[r].new \in store \cup {None}
    BY <1>1 DEF PapersInv
  <2>4. exam = None => \A c \in Columns : paper[c] = None /\ \A k \in Pupils : result[<<k, c>>] = None
    BY <1>1 DEF ExamShape
  <2>5. QED BY <1>1, <2>1, <2>2, <2>3, <2>4, ColumnsAre DEF Exam!TypeOK, ExamShape
<1>5. Exam!ReuploadKeepsMarks
  <2>1. SUFFICES ASSUME NEW p \in DOMAIN result, NEW max \in Maxima, result[p] # None
                 PROVE  LET again == Exam!Imported(result[p], Exam!Cell(result[p]), max) IN
                        again.marks = result[p].marks /\ Exam!Absent(again) = Exam!Absent(result[p])
    BY DEF Exam!ReuploadKeepsMarks
  <2> DEFINE x == result[p]
  <2>2. x.marks \in Marks \cup {None} /\ AB # None /\ AB \notin Marks /\ None \notin Marks
    BY <1>1, <2>1, ResultsAre, ExamAssumption
  <2>3. CASE x.marks \in Marks
    BY <2>1, <2>2, <2>3 DEF Exam!Imported, Exam!Cell, Exam!Absent
  <2>4. CASE x.marks = None /\ x.grade = AB
    BY <2>1, <2>2, <2>4 DEF Exam!Imported, Exam!Cell, Exam!Absent
  <2>5. CASE x.marks = None /\ x.grade # AB
    BY <2>1, <2>2, <2>5 DEF Exam!Imported, Exam!Cell, Exam!Absent
  <2>6. QED BY <2>2, <2>3, <2>4, <2>5
<1>6. QED BY <1>3, <1>4, <1>5

\* A form writes records, a sheet leaves a row or writes one, a deletion finds none.
LEMMA ResultsStayPut ==
    ASSUME ExamOk, Exam!Next
    PROVE  \A p \in DOMAIN result : result[p] # None => result'[p] # None
<1>1. ExamShape
  BY DEF ExamOk
<1>2. ASSUME NEW r \in Calls, Exam!SaveResults(r)
      PROVE  \A p \in DOMAIN result : result[p] # None => result'[p] # None
  <2>1. PICK c \in scope.columns, given \in Maxima \cup {None}, K \in (SUBSET scope.students) \ {{}},
             m \in Marks \cup {None}, g \in Exam!Grades :
          LET e == [marks |-> m, max |-> IF given # None THEN given ELSE request[r].max, grade |-> g] IN
          /\ Exam!Entry(e, request[r].max, given)
          /\ result' = [p \in DOMAIN result |-> IF p[1] \in K /\ p[2] = c THEN e ELSE result[p]]
    BY <1>2 DEF Exam!SaveResults
  <2> DEFINE e == [marks |-> m, max |-> IF given # None THEN given ELSE request[r].max, grade |-> g]
  <2>2. e # None
    BY <1>1, ExamAssumption DEF ExamShape, ExamCalls, Exam!Grades
  <2>3. result' = [p \in DOMAIN result |-> IF p[1] \in K /\ p[2] = c THEN e ELSE result[p]]
    BY <2>1
  <2> HIDE DEF e
  <2>4. QED BY <2>2, <2>3
<1>3. ASSUME NEW r \in Calls, Exam!ImportResults(r)
      PROVE  \A p \in DOMAIN result : result[p] # None => result'[p] # None
  <2>1. PICK max \in Maxima, v \in [scope.students \X (scope.columns \ {Whole}) -> Marks \cup {AB, None}] :
          result' = [p \in DOMAIN result |-> IF p \in DOMAIN v THEN Exam!Imported(result[p], v[p], max) ELSE result[p]]
    BY <1>3 DEF Exam!ImportResults
  <2>2. ASSUME NEW p \in DOMAIN result, result[p] # None, p \in DOMAIN v
        PROVE  Exam!Imported(result[p], v[p], max) # None
    <3>1. result[p].grade \in {AB, Graded, None} /\ v[p] \in Marks \cup {AB, None}
      BY <1>1, <2>2, ResultsAre
    <3>2. QED BY <2>2, <3>1, ExamAssumption DEF Exam!Imported
  <2>3. QED BY <2>1, <2>2
<1>4. ASSUME NEW r \in Calls, Exam!DeleteExam(r)
      PROVE  result' = result
  BY <1>4, DeleteExamKeeps DEF ExamOk
<1>5. ASSUME NEW r \in Calls,
             \/ \E op \in {"save", "import", "update"} : Exam!ReadExam(r, op)
             \/ \E c \in scope.columns, f \in Files : Exam!PaperReads(r, c, f)
             \/ \E op \in {"delete", "dropclass"} : Exam!DeleteReads(r, op)
             \/ Exam!UpdateExam(r) \/ Exam!UploadPaper(r) \/ Exam!Refuse(r)
      PROVE  result' = result
  BY <1>5 DEF Exam!ReadExam, Exam!PaperReads, Exam!DeleteReads, Exam!UpdateExam, Exam!UploadPaper, Exam!Refuse, Exam!rows
<1>6. Exam!DeletePaper => result' = result
  BY DEF Exam!DeletePaper
<1>7. QED BY <1>2, <1>3, <1>4, <1>5, <1>6 DEF Exam!Next

-----------------------------------------------------------------------------
(* Exams: totals *)

SumOf(w, S) == Exam!MapThenSumSet(LAMBDA c : w[c], S)

\* The sum over some of the places, where the others have nothing to add.
LEMMA SumsAgree ==
    ASSUME NEW S, NEW T, IsFiniteSet(T), S \subseteq T, NEW v, NEW w,
           \A c \in S : v[c] = w[c] /\ v[c] \in Nat, \A c \in T \ S : w[c] = 0
    PROVE  SumOf(v, S) = SumOf(w, T)
<1>1. SumOf(v, S) = MapThenSumSet(LAMBDA c : v[c], S)
  BY Zenon DEF SumOf, Exam!MapThenSumSet, MapThenSumSet, Exam!MapThenFoldSet, MapThenFoldSet
<1>2. SumOf(w, T) = MapThenSumSet(LAMBDA c : w[c], T)
  BY Zenon DEF SumOf, Exam!MapThenSumSet, MapThenSumSet, Exam!MapThenFoldSet, MapThenFoldSet
<1>3. IsFiniteSet(S)
  BY Smaller
<1>4. \A c \in T : w[c] \in Nat
  OBVIOUS
<1>5. Points(v, S) = Points(w, T)
  <2>1. ASSUME NEW c \in T \ S  PROVE 1..w[c] = {}
    BY <2>1
  <2>2. \A c \in S : 1..v[c] = 1..w[c]
    OBVIOUS
  <2>3. QED BY <2>1, <2>2 DEF Points
<1>6. MapThenSumSet(LAMBDA c : v[c], S) = Cardinality(Points(v, S))
  BY <1>3, SumCounts
<1>7. MapThenSumSet(LAMBDA c : w[c], T) = Cardinality(Points(w, T))
  BY <1>4, SumCounts
<1>8. QED BY <1>1, <1>2, <1>5, <1>6, <1>7

LEMMA TotalsAgree ==
    ASSUME NEW S, NEW T, IsFiniteSet(T), S \subseteq T, NEW v, NEW w,
           \A c \in S : v[c] = w[c] /\ v[c].got \in Nat /\ v[c].top \in Nat,
           \A c \in T \ S : w[c].got = 0 /\ w[c].top = 0
    PROVE  Exam!Total(v, S) = Exam!Total(w, T)
<1> DEFINE vg == [c \in S |-> v[c].got]
           vt == [c \in S |-> v[c].top]
           wg == [c \in T |-> w[c].got]
           wt == [c \in T |-> w[c].top]
<1>1. /\ \A c \in S : vg[c] = wg[c] /\ vg[c] \in Nat
      /\ \A c \in T \ S : wg[c] = 0
  OBVIOUS
<1>2. /\ \A c \in S : vt[c] = wt[c] /\ vt[c] \in Nat
      /\ \A c \in T \ S : wt[c] = 0
  OBVIOUS
<1>3. /\ Exam!Total(v, S) = [got |-> SumOf(vg, S), top |-> SumOf(vt, S)]
      /\ Exam!Total(w, T) = [got |-> SumOf(wg, T), top |-> SumOf(wt, T)]
  BY Zenon DEF Exam!Total, SumOf
<1> HIDE DEF vg, vt, wg, wt
<1>4. SumOf(vg, S) = SumOf(wg, T)
  BY <1>1, SumsAgree
<1>5. SumOf(vt, S) = SumOf(wt, T)
  BY <1>2, SumsAgree
<1>6. QED BY <1>3, <1>4, <1>5, Zenon

\* A cell adds a mark out of its maximum, or nothing.
LEMMA CellsAre ==
    ASSUME ExamOk, exam # None, NEW k \in scope.students, NEW c \in scope.columns, NEW default \in Maxima \cup {None}
    PROVE  LET x == result[<<k, c>>]
               cell == Exam!Counted(x, Exam!OwnMax(x, default)) IN
           /\ cell.got \in Nat /\ cell.top \in Nat /\ (cell.top = 0 => cell.got = 0)
           /\ x # None => x.marks \in Marks \cup {None} /\ x.max \in Maxima \cup {None}
           /\ cell.top # 0 => x # None /\ (x.marks # None \/ Exam!Absent(x))
           /\ x # None /\ (x.marks # None \/ Exam!Absent(x)) /\ Exam!OwnMax(x, default) # None => cell.top # 0
<1>1. <<k, c>> \in Pupils \X Columns
  BY ExamAssumption, ColumnsAre DEF ExamOk, ExamShape
<1> DEFINE x == result[<<k, c>>]
<1>2. x # None => x.marks \in Marks \cup {None} /\ x.max \in Maxima \cup {None}
  BY <1>1, ResultsAre DEF ExamOk
<1> HIDE DEF x
<1>3. Exam!OwnMax(x, default) \in Maxima \cup {None}
  BY <1>2 DEF Exam!OwnMax
<1>4. \A n \in Maxima : n \in Nat /\ n # 0
  BY ExamAssumption
<1>5. \A n \in Marks : n \in Nat
  BY ExamAssumption
<1> DEFINE own == Exam!OwnMax(x, default)
           cell == Exam!Counted(x, own)
<1>6. CASE x = None \/ own = None \/ (x.marks = None /\ ~Exam!Absent(x))
  <2>1. cell = [got |-> 0, top |-> 0]
    BY <1>6 DEF Exam!Counted, Exam!NothingYet
  <2>2. QED BY <1>2, <1>6, <2>1 DEF x
<1>7. CASE ~(x = None \/ own = None \/ (x.marks = None /\ ~Exam!Absent(x)))
  <2>1. cell = [got |-> IF Exam!Absent(x) THEN 0 ELSE x.marks, top |-> own]
    BY <1>7 DEF Exam!Counted
  <2>2. cell.top = own /\ cell.got = (IF Exam!Absent(x) THEN 0 ELSE x.marks)
    BY <2>1
  <2>3. own \in Nat /\ own # 0
    BY <1>3, <1>4, <1>7
  <2>4. (IF Exam!Absent(x) THEN 0 ELSE x.marks) \in Nat
    BY <1>2, <1>5, <1>7
  <2>5. QED BY <1>2, <1>7, <2>2, <2>3, <2>4 DEF x
<1>8. QED BY <1>6, <1>7

LEMMA SheetsAgree ==
    ASSUME ExamOk
    PROVE  Exam!SheetAgreesWithReport
<1> SUFFICES ASSUME exam # None, NEW k \in scope.students,
                    \A c \in scope.columns : result[<<k, c>>] # None => result[<<k, c>>].max # None,
                    \E c \in scope.columns \ {Whole} : Exam!Reported(k, c).top # 0
             PROVE  Exam!SheetTotal(k) = Exam!ReportTotal(k)
  BY DEF Exam!SheetAgreesWithReport
<1> DEFINE T == scope.columns \ {Whole}
           S == {c \in T : Exam!Reported(k, c).top # 0}
           v == [c \in scope.columns |-> Exam!Reported(k, c)]
           w == [c \in scope.columns |-> Exam!Counted(result[<<k, c>>], Exam!OwnMax(result[<<k, c>>], Exam!SubjectMax(c)))]
<1>1. IsFiniteSet(T) /\ S \subseteq T
  <2>1. IsFiniteSet(scope.columns)
    BY ExamAssumption DEF ExamOk, ExamShape
  <2>2. QED BY <2>1, Smaller
<1>2. exam.max \in Maxima \cup {None}
  BY DEF ExamOk, ExamShape
<1>3. ASSUME NEW c \in scope.columns  PROVE w[c] = v[c]
  <2>1. CASE result[<<k, c>>] = None
    BY <2>1 DEF Exam!Reported, Exam!Counted
  <2>2. CASE result[<<k, c>>] # None
    BY <2>2 DEF Exam!Reported, Exam!OwnMax
  <2>3. QED BY <2>1, <2>2
<1>4. ASSUME NEW c \in scope.columns
      PROVE  v[c].got \in Nat /\ v[c].top \in Nat /\ (v[c].top = 0 => v[c].got = 0)
  BY <1>2, CellsAre DEF Exam!Reported
<1>5. Exam!SheetTotal(k) = Exam!Total(w, T)
  BY DEF Exam!SheetTotal
<1>6. Exam!ReportTotal(k) = Exam!Total(v, S)
  BY DEF Exam!ReportTotal
<1>7. \A c \in S : v[c] = w[c] /\ v[c].got \in Nat /\ v[c].top \in Nat
  BY <1>3, <1>4
<1>8. \A c \in T \ S : w[c].got = 0 /\ w[c].top = 0
  <2>1. \A c \in T \ S : v[c].top = 0
    OBVIOUS
  <2>2. QED BY <1>3, <1>4, <2>1
<1> HIDE DEF S, T, v, w
<1>9. Exam!Total(v, S) = Exam!Total(w, T)
  BY <1>1, <1>7, <1>8, TotalsAgree
<1>10. QED BY <1>5, <1>6, <1>9

LEMMA ListsAgree ==
    ASSUME ExamOk
    PROVE  Exam!ListAgreesWithReport
<1> SUFFICES ASSUME exam # None, NEW k \in scope.students,
                    \A c \in scope.columns : result[<<k, c>>] # None =>
                        ~Exam!Absent(result[<<k, c>>]) /\ Exam!OwnMax(result[<<k, c>>], exam.max) # None
             PROVE  Exam!ListTotal(k) = Exam!ReportTotal(k)
  BY DEF Exam!ListAgreesWithReport
<1> DEFINE marked == {c \in scope.columns : result[<<k, c>>] # None /\ result[<<k, c>>].marks # None}
           shown == IF marked \subseteq {Whole} THEN marked ELSE marked \ {Whole}
           subjects == {c \in scope.columns \ {Whole} : Exam!Reported(k, c).top # 0}
           T == IF subjects = {} THEN scope.columns \cap {Whole} ELSE subjects
           v == [c \in scope.columns |-> Exam!Reported(k, c)]
<1>1. exam.max \in Maxima \cup {None}
  BY DEF ExamOk, ExamShape
<1>2. ASSUME NEW c \in scope.columns
      PROVE  /\ v[c].got \in Nat /\ v[c].top \in Nat /\ (v[c].top = 0 => v[c].got = 0)
             /\ v[c].top # 0 <=> c \in marked
  BY <1>1, CellsAre DEF Exam!Reported
<1>3. subjects = marked \ {Whole}
  BY <1>2
<1>4. shown \subseteq T /\ T \subseteq scope.columns /\ \A c \in T \ shown : c \notin marked
  BY <1>3
<1>5. IsFiniteSet(T)
  <2>1. IsFiniteSet(scope.columns)
    BY ExamAssumption DEF ExamOk, ExamShape
  <2>2. QED BY <1>4, <2>1, Smaller
<1>6. Exam!ListTotal(k) = Exam!Total(v, shown)
  BY DEF Exam!ListTotal, Exam!Reported
<1>7. Exam!ReportTotal(k) = Exam!Total(v, T)
  BY DEF Exam!ReportTotal
<1>8. \A c \in shown : v[c] = v[c] /\ v[c].got \in Nat /\ v[c].top \in Nat
  BY <1>2, <1>4
<1>9. \A c \in T \ shown : v[c].got = 0 /\ v[c].top = 0
  BY <1>2, <1>4
<1> HIDE DEF shown, T, v
<1>10. Exam!Total(v, shown) = Exam!Total(v, T)
  BY <1>4, <1>5, <1>8, <1>9, TotalsAgree
<1>11. QED BY <1>6, <1>7, <1>10

-----------------------------------------------------------------------------
(* Both parts *)

LEMMA SchoolStart ==
    ASSUME SchoolInit
    PROVE  SchoolInv
BY AudStart, FilesStart, ExamStart DEF SchoolInit, SchoolInv

LEMMA SchoolStep ==
    ASSUME SchoolInv, [SchoolNext]_<<part, vars, exams>>
    PROVE  SchoolInv'
<1>1. AudInv /\ FileInv /\ (part = "exams" => ExamOk)
  BY DEF SchoolInv
<1>2. CASE part = "boards" /\ Next /\ UNCHANGED <<part, exams>>
  BY <1>1, <1>2, AudStep, FilesStep DEF SchoolInv
<1>3. ASSUME UNCHANGED vars  PROVE AudInv' /\ FileInv'
  <2>1. [Next]_vars
    BY <1>3
  <2>2. QED BY <1>1, <2>1, AudStep, FilesStep
<1>4. CASE part = "exams" /\ Exam!Next /\ UNCHANGED <<part, vars>>
  BY <1>1, <1>3, <1>4, ExamStep DEF SchoolInv
<1>5. CASE UNCHANGED <<part, vars, exams>>
  <2>1. ExamOk' <=> ExamOk
    BY <1>5 DEF exams, ExamOk, ExamShape, PapersInv, RequestKnown, Exam!MarksFit
  <2>2. QED BY <1>1, <1>3, <1>5, <2>1 DEF SchoolInv
<1>6. QED BY <1>2, <1>3, <1>4, <1>5 DEF SchoolNext

LEMMA SchoolStays == SchoolSpec => []SchoolInv
BY SchoolStart, SchoolStep, PTL DEF SchoolSpec

\* notices.py:7, attendance.py:91, homework.py:47: those who were told of a post, those who see it
\* and those whose app shows a dot are the same people; what parents last heard is what is saved;
\* homework is counted as it is listed.  For any school, and any calls and moves under way.
THEOREM BoardsAlwaysHold == SchoolSpec => []BoardsHold
<1>1. SchoolInv => BoardsHold
  BY AudImplies, CountsImplied DEF SchoolInv, BoardsHold
<1>2. QED BY <1>1, SchoolStays, PTL

\* session.py:11, exams.py:227: every path of a post or a question paper leads to a file, and no
\* file is left behind but where an unlocked read was overtaken, or a paper replaced while its
\* exam was being deleted.
THEOREM FilesAlwaysKept == SchoolSpec => []FilesAreKept
<1>1. SchoolInv => FilesAreKept
  BY FilesImply, ExamImplies DEF SchoolInv, AudInv, FilesAreKept
<1>2. QED BY <1>1, SchoolStays, PTL

\* The rows of posts, submissions, notifications, results and papers, and the calls of their
\* services, keep to their types.
THEOREM TypesAlwaysOK == SchoolSpec => []TypesOK
<1>1. SchoolInv => TypesOK
  BY FilesImply, ExamImplies DEF SchoolInv, AudInv, TypesOK
<1>2. QED BY <1>1, SchoolStays, PTL

\* exams.py:136, exams.py:320, exam_results_import.py:143, student_portal.py:217: a mark is within
\* its maximum, the sheet, the report and the app's list agree on a total, a sheet brings back what
\* it was made from, and no deletion erases a result.
THEOREM MarksAlwaysHold == SchoolSpec => MarksHold
<1> DEFINE Agree == Exam!MarksFit /\ Exam!SheetAgreesWithReport /\ Exam!ListAgreesWithReport /\ Exam!ReuploadKeepsMarks
<1>1. SchoolInv => (part = "exams" => Agree)
  BY ExamImplies, SheetsAgree, ListsAgree DEF SchoolInv, ExamOk
<1>2. SchoolInv /\ [SchoolNext]_<<part, vars, exams>> => [\A p \in DOMAIN result : result[p] # None => result'[p] # None]_result
  <2>1. SUFFICES ASSUME SchoolInv, [SchoolNext]_<<part, vars, exams>>, result' # result
                 PROVE  \A p \in DOMAIN result : result[p] # None => result'[p] # None
    OBVIOUS
  <2>2. part = "exams" /\ Exam!Next
    BY <2>1 DEF SchoolNext, exams
  <2>3. QED BY <2>1, <2>2, ResultsStayPut DEF SchoolInv
<1>3. SchoolSpec => [](part = "exams" => Agree)
  BY <1>1, SchoolStays, PTL
<1>4. SchoolSpec => Exam!ResultsStay
  BY <1>2, SchoolStays, PTL DEF SchoolSpec, Exam!ResultsStay
<1>5. QED BY <1>3, <1>4 DEF MarksHold
=============================================================================
