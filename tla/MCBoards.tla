------------------------------ MODULE MCBoards ------------------------------
(***************************************************************************)
(* Boards and Exams on small instances.  A behaviour is one of a single    *)
(* part: the two share the file store's hooks and nothing else.  Boards    *)
(* stays in an initial state while Exams moves; the variables of Exams are *)
(* None, or empty, while it does not.                                      *)
(***************************************************************************)
EXTENDS Boards, TLC

CONSTANTS a1, a2, b1, ca, cb, t1, k1, k2, x1, x2, m1, m2,
          Pupils, Subjects, Whole, Marks, Maxima, AB, Graded, Groups  \* of Exams; its students are the Pupils

VARIABLES part, scope, class, exam, result, paper, store, replaced, request

\* Two classes, the first with two sections; one of them has a teacher.
SchoolClasses == (a1 :> ca) @@ (a2 :> ca) @@ (b1 :> cb)
Assignments == (t1 :> {a1})

\* Two students in one subject, one in two, one with overlapping calls and a mark for the whole
\* exam; overlapping calls about papers.
Group(students, columns, atOnce) == [students |-> students, columns |-> columns, atOnce |-> atOnce]
ExamGroups == {Group({x1, x2}, {m1}, 1), Group({x1}, {m1, m2}, 1), Group({x1}, {m1, Whole}, 2), Group({}, {m1, Whole}, 2)}

Exam == INSTANCE Exams WITH
    files <- store, overtaken <- replaced, call <- request, Students <- Pupils
exams == <<scope, class, exam, result, paper, store, replaced, request>>

\* A maximum is above zero; None, AB and the locked rows are nothing else; a group is of the exam.
ASSUME ExamAssumption ==
    /\ Marks \subseteq Nat /\ Maxima \subseteq Nat \ {0} /\ AB # None /\ {AB, None} \cap (Marks \cup Maxima \cup Files) = {}
    /\ Whole \notin Subjects /\ {"exam", "class"} \cap (Subjects \cup {Whole}) = {}
    /\ None \notin [max : Maxima \cup {None}] \cup [marks : Marks \cup {None}, max : Maxima \cup {None}, grade : {AB, Graded, None}]
    /\ \A g \in Groups : g.students \subseteq Pupils /\ g.columns \subseteq Subjects \cup {Whole} /\ IsFiniteSet(g.columns)

NoExam ==
    /\ scope = None /\ class = None /\ exam = None /\ result = <<>> /\ paper = None
    /\ store = None /\ replaced = None /\ request = None

SchoolInit ==
    /\ part \in {"boards", "exams"}
    /\ Init /\ (part = "exams" => topic = "notice" /\ place = [k \in Students |-> [class |-> None, section |-> None]])
    /\ IF part = "exams" THEN Exam!Init ELSE NoExam

SchoolNext ==
    \/ part = "boards" /\ Next /\ UNCHANGED <<part, exams>>
    \/ part = "exams" /\ Exam!Next /\ UNCHANGED <<part, vars>>

SchoolSpec == SchoolInit /\ [][SchoolNext]_<<part, vars, exams>>

Symmetry == Permutations(Calls) \cup Permutations(Files) \cup Permutations(Students)

\* The tables, the files and the calls of both parts keep to their types.
TypesOK == TypeOK /\ (part = "exams" => Exam!TypeOK)

\* A mark fits its maximum, the sheet, the report and the app's list agree on it, a sheet brings it back, and it
\* stays whatever is deleted.
MarksHold ==
    [](part = "exams" => Exam!MarksFit /\ Exam!SheetAgreesWithReport /\ Exam!ListAgreesWithReport /\ Exam!ReuploadKeepsMarks)
    /\ Exam!ResultsStay

\* The rows of posts and of exam papers agree with the file store.
FilesAreKept == BoardFilesAreKept /\ (part = "exams" => Exam!PapersAreKept)
=============================================================================
