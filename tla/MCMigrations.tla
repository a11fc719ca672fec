---------------------------- MODULE MCMigrations ----------------------------
(***************************************************************************)
(* Migrations, and UserImport on the schema they lead to, on small         *)
(* instances.  A behaviour is one of the two: the app starts when the      *)
(* schema is there.  Before it does, the variables of UserImport are None, *)
(* or no import is under way.                                              *)
(***************************************************************************)
EXTENDS Migrations, TLC

CONSTANTS Calls, Users, Paths, Numbers, Phones, MaxEdits, Uploads, Schools, None, a, b, u1, u2, u3, x, y

VARIABLES part, upload, account, files, call, form, edits

\* Two students and a new one; three students, one of them in another section; a student, a driver
\* and a new one.
Student(section, roll, adm, phone) ==
    [kind |-> "student", left |-> FALSE, section |-> section, roll |-> roll, adm |-> adm, phone |-> phone, photo |-> None]
SmallSchools == {(u1 :> Student(a, 1, None, x)) @@ (u2 :> Student(a, 2, None, x)) @@ (u3 :> None),
                 (u1 :> Student(a, 1, 1, None)) @@ (u2 :> Student(a, 2, None, x)) @@ (u3 :> Student(b, 1, 2, x)),
                 (u1 :> Student(a, 1, None, x)) @@ (u2 :> None)
                     @@ (u3 :> [Student(None, None, None, x) EXCEPT !.kind = "staff"])}

\* Three rows that swap numbers, give one twice or leave them blank, some with errors of their own;
\* a file that names a student twice; two photos.
Row(roll, adm, phone, photo) == [roll |-> roll, adm |-> adm, phone |-> phone, photo |-> photo]
Sheet(user, ok, cells) == [section |-> a, user |-> user, ok |-> ok, cells |-> cells]
Sheets == {Sheet(<<u1, u2, u3>>, ok, <<Row(r1, n1, None, None), Row(r2, None, None, None), Row(r3, n3, y, None)>>) :
                r1 \in {2, None}, n1 \in {1, None}, r2 \in {1, None}, r3 \in {1, 2}, n3 \in {1, None}, ok \in {1..3, {1, 3}}}
    \cup {Sheet(<<u1, u3, u1>>, 1..3, <<Row(2, None, None, None), Row(1, None, None, None), Row(None, 1, None, None)>>)}
    \cup {Sheet(<<u1, u2>>, 1..2, <<Row(None, None, y, photo), Row(None, None, None, "two")>>) : photo \in {"one", None}}

Import == INSTANCE UserImport

\* The columns an account keeps here, and the sections there are.
Sections == {None} \cup {f.section : f \in Uploads} \cup UNION {{T[u].section : u \in {v \in Users : T[v] # None}} : T \in Schools}
Accounts == [kind : {"student", "staff"}, left : BOOLEAN, section : Sections, roll : Numbers \cup {None},
             adm : Numbers \cup {None}, phone : Phones \cup {None}, photo : Paths \cup {None}]

\* What UserImport asks of its constants: a parsed file has finitely many rows, a section, and cells of
\* the columns' types; the tables a behaviour begins with keep the keys, and no photo is stored.
ImportAssumption ==
    /\ None \notin Users \cup Paths \cup Accounts
    /\ \A f \in Uploads :
        /\ Import!IsParsed(f) /\ IsFiniteSet(Import!Rows(f)) /\ f.section # None
        /\ \A r \in Import!Rows(f) :
            /\ f.cells[r].roll \in Numbers \cup {None} /\ f.cells[r].adm \in Numbers \cup {None}
            /\ f.cells[r].phone \in Phones \cup {None}
    /\ \A T \in Schools :
        /\ T \in [Users -> Accounts \cup {None}] /\ Import!Unique(T)
        /\ \A u \in Users : T[u] # None => T[u].photo = None
ASSUME ImportAssumption

imports == <<upload, account, files, call, form, edits>>
NoImport ==
    /\ upload = None /\ account = None /\ files = None /\ form = None /\ edits = None
    /\ call = [i \in Calls |-> Import!Idle]

StartInit ==
    /\ part \in {"migration", "import"}
    /\ Init /\ (part = "import" => schema = {} /\ blocked = {})
    /\ IF part = "import" THEN Import!Init ELSE NoImport

StartNext ==
    \/ part = "migration" /\ Next /\ UNCHANGED <<part, imports>>
    \/ part = "import" /\ Import!Next /\ UNCHANGED <<part, vars>>

StartSpec == StartInit /\ [][StartNext]_<<part, vars, imports>>

\* The schema, the run and the imports keep to their types.
TypesOK == TypeOK /\ (part = "import" => Import!TypeOK)

\* An import leaves every number to one student, saves all it can, repeated changes nothing, and
\* its photos agree with the file store.
ImportsHold ==
    part = "import" =>
        /\ Import!NumbersStayUnique /\ Import!PlanSavesAllItCan /\ Import!ReuploadIsUnchanged
        /\ Import!PhotosAreKept
BlankCellsKeep == Import!BlankCellsKeep
=============================================================================
