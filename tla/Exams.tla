------------------------------- MODULE Exams -------------------------------
(***************************************************************************)
(* One exam, its results and question papers: exams.py, the marks sheet of *)
(* exam_results_import.py and the parents' report of performance.py.       *)
(*                                                                         *)
(* A call is two actions: what it locks and reads, and its writes with the *)
(* COMMIT; what a form or file holds is chosen at the write, which checks  *)
(* it, and a call that any rule refuses is Refuse.  A result is a record,  *)
(* or None; a sheet's cell is a mark, AB, or None where it is empty.     *)
(* Marks and maxima are small whole numbers.  Whole is the subject '' of a *)
(* mark for the whole exam, and the key of the legacy single paper.        *)
(* Publishing only decides who may read the results and is left out, as    *)
(* are remarks.  The exam is one class's, and goes with its class.         *)
(***************************************************************************)
EXTENDS Integers, FiniteSets, FiniteSetsExt

CONSTANTS Calls, Students, Subjects, Whole, Marks, Maxima, Files,
          AB, Graded,  \* the grade of an absent student, and any other
          Groups,      \* [students, columns, atOnce]: what a behaviour is about, and how many calls overlap
          None

VARIABLES scope,      \* one of Groups
          class, exam,        \* whether the class is there; the exam's row, or None
          result, paper,      \* exam_results, and exam_papers with exams.paper_path
          files,      \* the file store
          overtaken,  \* a paper was replaced while a deletion was under way
          call

rows == <<scope, class, exam, result, paper>>
vars == <<scope, class, exam, result, paper, files, overtaken, call>>

Columns == Subjects \cup {Whole}
Grades == {AB, Graded, None}
Results == [marks : Marks \cup {None}, max : Maxima \cup {None}, grade : Grades]
Idle == [op |-> "none", max |-> None, column |-> None, old |-> None, new |-> None, paths |-> {}, holds |-> {}]

TypeOK ==
    /\ scope \in Groups /\ class \in BOOLEAN /\ overtaken \in BOOLEAN
    /\ exam # None => exam.max \in Maxima \cup {None}
    /\ \A k \in Students, c \in Columns : result[<<k, c>>] \in Results \cup {None}
    /\ paper \in [Columns -> Files \cup {None}] /\ files \subseteq Files
    /\ \A r \in Calls : call[r].new \in files \cup {None}
    /\ exam = None => \A c \in Columns : paper[c] = None /\ \A k \in Students : result[<<k, c>>] = None

Init ==
    /\ scope \in Groups /\ class = TRUE /\ overtaken = FALSE
    /\ exam \in [max : Maxima \cup {None}]
    /\ result = [p \in Students \X Columns |-> None]
    /\ paper = [c \in Columns |-> None] /\ files = {}
    /\ call = [r \in Calls |-> Idle]

-----------------------------------------------------------------------------
(* Calls and their locks *)

Free(r, locks) == \A o \in Calls \ {r} : call[o].holds \cap locks = {}
Begin(r, state) ==
    /\ call[r] = Idle /\ exam # None /\ Free(r, state.holds)
    /\ Cardinality({o \in Calls : call[o] # Idle}) < scope.atOnce
    /\ call' = [call EXCEPT ![r] = state]

\* The writes of r and the COMMIT, when nobody holds the rows they lock.
Writes(r, op, locks) == call[r].op = op /\ exam # None /\ Free(r, locks) /\ call' = [call EXCEPT ![r] = Idle]

\* A rollback takes the file along that the call had stored.
Refuse(r) ==
    /\ call[r] # Idle /\ call' = [call EXCEPT ![r] = Idle]
    /\ files' = files \ {call[r].new}
    /\ UNCHANGED <<rows, overtaken>>

\* get_exam: without a lock, but for update_exam.
ReadExam(r, op) ==
    /\ Begin(r, [Idle EXCEPT !.op = op, !.max = exam.max, !.holds = IF op = "update" THEN {"exam"} ELSE {}])
    /\ UNCHANGED <<rows, files, overtaken>>

-----------------------------------------------------------------------------
(* Results *)

Fits(m, max) == max # None /\ m # None => m <= max

\* An entry of save_results: a mark or a grade, within the given maximum, else the exam's.
Entry(e, max, given) ==
    /\ e.marks # None \/ e.grade # None
    /\ Fits(e.marks, IF given # None THEN given ELSE max)

\* save_results of one column, for students K.
SaveResults(r) ==
    /\ Writes(r, "save", {"exam"})
    /\ \E c \in scope.columns, given \in Maxima \cup {None}, K \in (SUBSET scope.students) \ {{}},
          m \in Marks \cup {None}, g \in Grades :
        LET e == [marks |-> m, max |-> IF given # None THEN given ELSE call[r].max, grade |-> g] IN
        /\ Entry(e, call[r].max, given)
        /\ result' = [p \in DOMAIN result |-> IF p[1] \in K /\ p[2] = c THEN e ELSE result[p]]
    /\ UNCHANGED <<scope, class, exam, paper, files, overtaken>>

Absent(x) == x.marks = None /\ x.grade = AB

\* What an imported cell makes of a row: empty leaves it; AB sets the grade; a number clears an
\* old AB but keeps another grade.
Imported(x, v, max) ==
    IF v = None THEN x
    ELSE [marks |-> IF v = AB THEN None ELSE v,
          max |-> max,
          grade |-> IF v = AB THEN AB ELSE IF x = None \/ x.grade = AB THEN None ELSE x.grade]

\* import_results: all its cells, within the maximum of the form, or none.
ImportResults(r) ==
    /\ Writes(r, "import", {"exam"})
    /\ \E max \in Maxima, v \in [scope.students \X (scope.columns \ {Whole}) -> Marks \cup {AB, None}] :
        /\ \A p \in DOMAIN v : v[p] \in Marks => v[p] <= max
        /\ result' = [p \in DOMAIN result |-> IF p \in DOMAIN v THEN Imported(result[p], v[p], max) ELSE result[p]]
        /\ exam' = [max |-> IF exam.max = None THEN max ELSE exam.max]
    /\ UNCHANGED <<scope, class, paper, files, overtaken>>

\* update_exam.
UpdateExam(r) ==
    /\ Writes(r, "update", {"exam"})
    /\ exam' \in [max : Maxima \cup {None}]
    /\ UNCHANGED <<scope, class, result, paper, files, overtaken>>

-----------------------------------------------------------------------------
(* Question papers *)

\* Mutant: the old paper is read without FOR UPDATE.
PaperRowUnlocked(c) == {}

\* The row a new paper replaces: the exam's own (legacy), or that of the subject, if any.
PaperRow(c) == IF c = Whole THEN {"exam"} ELSE IF paper[c] = None THEN {} ELSE {c}

\* Mutant: a file may get a name that is taken.
AnyNames == Files

\* save_upload: a new name for every file.
NewNames == Files \ (files \cup UNION {call[o].paths : o \in Calls})

\* upload_subject_paper and upload_legacy_paper: the new file is in the store first, under
\* a name of its own.
PaperReads(r, c, f) ==
    /\ f \in NewNames
    /\ Begin(r, [Idle EXCEPT !.op = "paper", !.column = c, !.old = paper[c], !.new = f, !.holds = PaperRow(c)])
    /\ files' = files \cup {f}
    /\ UNCHANGED <<rows, overtaken>>
\* The INSERT locks the exam and the class (foreign keys); a row that came meanwhile is DuplicateKey.
UploadPaper(r) ==
    LET c == call[r].column  inserts == c # Whole /\ call[r].old = None IN
    /\ Writes(r, "paper", IF inserts THEN {"exam", "class"} ELSE {c})
    /\ inserts => class /\ paper[c] = None
    /\ ~inserts /\ c # Whole => paper[c] # None
    /\ paper' = [paper EXCEPT ![c] = call[r].new]
    /\ files' = files \ {call[r].old}
    /\ overtaken' = (overtaken \/ \E o \in Calls \ {r} : call[o].op \in {"delete", "dropclass"})
    /\ UNCHANGED <<scope, class, exam, result>>

DeletePaper ==
    /\ \E c \in Subjects :
        /\ paper[c] # None /\ \A o \in Calls : call[o].holds \cap {c, "exam"} = {}
        /\ paper' = [paper EXCEPT ![c] = None]
        /\ files' = files \ {paper[c]}
    /\ UNCHANGED <<scope, class, exam, result, overtaken, call>>

-----------------------------------------------------------------------------
(* Deleting: delete_exam, and delete_class for the exam of one class *)

NoResults == \A p \in DOMAIN result : result[p] = None
Paths == {paper[c] : c \in Columns} \ {None}

DeleteReads(r, op) ==
    /\ NoResults /\ (op = "dropclass" => class)
    /\ Begin(r, [Idle EXCEPT !.op = op, !.paths = Paths, !.holds = {IF op = "delete" THEN "exam" ELSE "class"}])
    /\ UNCHANGED <<rows, files, overtaken>>

\* Mutant: the foreign key before migration 0017.
Cascading == TRUE

\* exam_results.exam_id is ON DELETE RESTRICT (migration 0017).
Deletable == NoResults

DeleteExam(r) ==
    /\ Writes(r, call[r].op, {"exam"} \cup Columns) /\ call[r].op \in {"delete", "dropclass"}
    /\ Deletable
    /\ exam' = None /\ class' = (class /\ call[r].op = "delete")
    /\ result' = [p \in DOMAIN result |-> None]
    /\ paper' = [c \in Columns |-> None]
    /\ files' = files \ call[r].paths
    /\ UNCHANGED <<scope, overtaken>>

-----------------------------------------------------------------------------
(* The marks sheet, its template, and the report *)

NothingYet == [got |-> 0, top |-> 0]

\* What a row adds to the totals, its maximum being top.
Counted(x, top) ==
    IF x = None \/ top = None \/ (x.marks = None /\ ~Absent(x)) THEN NothingYet
    ELSE [got |-> IF Absent(x) THEN 0 ELSE x.marks, top |-> top]
Total(f, S) ==
    LET got == [c \in S |-> f[c].got]  top == [c \in S |-> f[c].top] IN
    [got |-> MapThenSumSet(LAMBDA c : got[c], S), top |-> MapThenSumSet(LAMBDA c : top[c], S)]

\* _subject_max: the first maximum saved for the subject, else the exam's.
SubjectMax(c) ==
    LET saved == {k \in scope.students : result[<<k, c>>] # None /\ result[<<k, c>>].max # None} IN
    IF saved = {} THEN exam.max ELSE result[CHOOSE k \in saved : TRUE, c].max
OwnMax(x, default) == IF x = None \/ x.max = None THEN default ELSE x.max

\* sheet: a student's total.
SheetTotal(k) ==
    Total([c \in scope.columns |-> Counted(result[<<k, c>>], OwnMax(result[<<k, c>>], SubjectMax(c)))],
          scope.columns \ {Whole})

\* report: a cell, and the student's total in the exam: its subjects, else the whole mark.
Reported(k, c) == Counted(result[<<k, c>>], OwnMax(result[<<k, c>>], exam.max))
ReportTotal(k) ==
    LET subjects == {c \in scope.columns \ {Whole} : Reported(k, c).top # 0} IN
    Total([c \in scope.columns |-> Reported(k, c)], IF subjects = {} THEN scope.columns \cap {Whole} ELSE subjects)

\* exams of student_portal.py: the marked subjects, else the whole mark; the absent are left out.
ListTotal(k) ==
    LET marked == {c \in scope.columns : result[<<k, c>>] # None /\ result[<<k, c>>].marks # None}
        shown == IF marked \subseteq {Whole} THEN marked ELSE marked \ {Whole}
    IN Total([c \in scope.columns |-> Counted(result[<<k, c>>], OwnMax(result[<<k, c>>], exam.max))], shown)

\* template: the cell of a saved row.
Cell(x) == IF x = None THEN None ELSE IF Absent(x) THEN AB ELSE x.marks

-----------------------------------------------------------------------------

Next ==
    \/ \E r \in Calls :
        \/ \E op \in {"save", "import", "update"} : ReadExam(r, op)
        \/ \E c \in scope.columns, f \in Files : scope.students = {} /\ PaperReads(r, c, f)
        \/ \E op \in {"delete", "dropclass"} : DeleteReads(r, op)
        \/ SaveResults(r) \/ ImportResults(r) \/ UpdateExam(r) \/ UploadPaper(r) \/ DeleteExam(r) \/ Refuse(r)
    \/ DeletePaper

Spec == Init /\ [][Next]_vars

-----------------------------------------------------------------------------
(* Properties *)

\* exams.py:320, exam_results_import.py:300: a mark is within the maximum stored with it, though
\* the exam's maximum, read unlocked, may have changed since, and marks come in two ways.
MarksFit == \A p \in DOMAIN result : result[p] # None => Fits(result[p].marks, result[p].max)

\* exam_results_import.py:143, performance.py:113: the teacher's sheet and the parents' report,
\* computed apart, agree on a student whose marks carry their maxima.
SheetAgreesWithReport ==
    exam # None => \A k \in scope.students :
        /\ \A c \in scope.columns : result[<<k, c>>] # None => result[<<k, c>>].max # None
        /\ \E c \in scope.columns \ {Whole} : Reported(k, c).top # 0
        => SheetTotal(k) = ReportTotal(k)

\* student_portal.py:217, performance.py:101: the app's list of exams and its report, computed
\* apart, show a student who was never absent the same total, if every maximum is known.
ListAgreesWithReport ==
    exam # None => \A k \in scope.students :
        (\A c \in scope.columns : result[<<k, c>>] # None =>
            ~Absent(result[<<k, c>>]) /\ OwnMax(result[<<k, c>>], exam.max) # None)
        => ListTotal(k) = ReportTotal(k)

\* exam_results_import.py:171: "a re-upload changes nothing" of the marks, or of who was absent.
ReuploadKeepsMarks ==
    \A p \in DOMAIN result, max \in Maxima : result[p] # None =>
        LET again == Imported(result[p], Cell(result[p]), max) IN
        again.marks = result[p].marks /\ Absent(again) = Absent(result[p])

\* exams.py:136, migration 0017: neither the exam's nor the class's deletion erases a result,
\* not even one saved while it is under way.
ResultsStay == [][\A p \in DOMAIN result : result[p] # None => result'[p] # None]_result

\* exams.py:227, classes.py:154: every paper's file is in the store, and the store holds no
\* other; but one put in its place while a deletion was under way is left behind.
PapersAreKept ==
    /\ Paths \subseteq files
    /\ ~overtaken => files = Paths \cup ({call[r].new : r \in Calls} \ {None})
=============================================================================
