----------------------------- MODULE UserImport -----------------------------
(***************************************************************************)
(* Importing the students of a section from a spreadsheet (user_import).   *)
(* A file is planned without locks, its photos are stored, and in the      *)
(* saving transaction it is planned again with every row it depends on     *)
(* locked, compared with the first plan, and written: one step here.       *)
(*                                                                         *)
(* An upload has the columns cells (None is a blank cell) and ok, the rows *)
(* whose cells pass their own checks.  Headers, dates, texts and passwords *)
(* are left out; phone stands for the columns without a key of their own.  *)
(* Two plans are compared by action and changes, not by the texts of their *)
(* errors.                                                                 *)
(***************************************************************************)
EXTENDS Naturals, FiniteSets

CONSTANTS Calls, Users, Paths,
          Numbers, Phones,
          Uploads,   \* [section, user, cells, ok]: what each row says
          MaxEdits,
          Schools,   \* the tables a behaviour begins with
          None

VARIABLES upload,    \* one of Uploads: the file everybody uploads
          account,   \* users with student_profiles, or None
          files,     \* the file store
          call,      \* whether it runs, the accounts of its preview, and the photos stored for it
          form,      \* a form under way: the student it read, and the field it changes
          edits      \* edits so far, at most MaxEdits

vars == <<upload, account, files, call, form, edits>>

Keys == {"roll", "adm"}
Fields == Keys \cup {"phone"}
Idle == [runs |-> FALSE, seen |-> None, photos |-> <<>>]
Rows(f) == DOMAIN f.cells

\* CsvRow: a parsed file has every column in every row.
IsParsed(f) ==
    /\ DOMAIN f.user = Rows(f) /\ f.ok \subseteq Rows(f)
    /\ \A r \in Rows(f) : f.user[r] \in Users /\ DOMAIN f.cells[r] = Fields \cup {"photo"}

TypeOK ==
    /\ \A u \in Users : account[u] # None =>
        /\ account[u].kind \in {"student", "staff"} /\ account[u].left \in BOOLEAN
        /\ account[u].roll \in Numbers \cup {None} /\ account[u].adm \in Numbers \cup {None}
        /\ account[u].phone \in Phones \cup {None} /\ account[u].photo \in Paths \cup {None}
    /\ files \subseteq Paths
    /\ \A i \in Calls : \A n \in DOMAIN call[i].photos : call[i].photos[n] \in files
    /\ form # None => form.user \in Users /\ form.field \in Fields
    /\ upload \in Uploads /\ IsParsed(upload) /\ edits \in 0..MaxEdits

Init == upload \in Uploads /\ account \in Schools /\ files = {} /\ call = [i \in Calls |-> Idle] /\ form = None /\ edits = 0

-----------------------------------------------------------------------------
(* The plan of an upload f for the accounts T *)

\* _existing_users: the account a row names.
Existing(T, f, r) == T[f.user[r]]

\* RowPlan.final: the cell, else what the account has.
Final(T, f, r, k) ==
    IF f.cells[r][k] # None THEN f.cells[r][k] ELSE IF Existing(T, f, r) = None THEN None ELSE Existing(T, f, r)[k]

\* Rows whose value of v another row has, too.
Repeated(f, v) == {r \in Rows(f) : v[r] # None /\ \E q \in Rows(f) \ {r} : v[q] = v[r]}
Cell(f, k) == [r \in Rows(f) |-> f.cells[r][k]]

\* _decide: an existing account must be a student of this section who has not left.
Acceptable(T, f, r) ==
    LET u == Existing(T, f, r) IN u # None => u.kind = "student" /\ ~u.left /\ u.section = f.section

\* Rows without a problem of their own: names and numbers given twice flag all their rows.
Candidates(T, f) ==
    {r \in f.ok : Acceptable(T, f, r)}
        \ (Repeated(f, f.user) \cup UNION {Repeated(f, Cell(f, k)) : k \in Keys})

\* Whose number k is v: in the school, or in the section for a roll number.
Holders(T, f, k, v) ==
    {u \in Users : T[u] # None /\ v # None /\ T[u][k] = v /\ (k = "roll" => T[u].section = f.section)}

\* _check_holders: somebody keeps the number the row would end with, when the rows S are saved.
Blocked(T, f, S, r) ==
    \E k \in Keys : \E u \in Holders(T, f, k, Final(T, f, r, k)) \ {f.user[r]} :
        \A q \in S : f.user[q] = u => Final(T, f, q, k) = Final(T, f, r, k)

Pass(T, f, S) == {r \in S : ~Blocked(T, f, S, r)}

\* _unique_student_numbers: a skipped student keeps a number, which may block another row:
\* repeated until nothing changes.
Saved(T, f) ==
    LET after[n \in 0..Cardinality(Rows(f))] ==
            IF n = 0 THEN Candidates(T, f) ELSE Pass(T, f, after[n - 1])
    IN after[Cardinality(Rows(f))]

Changes(T, f, r) ==
    {k \in Fields : f.cells[r][k] # None /\ f.cells[r][k] # Existing(T, f, r)[k]}
        \cup (IF f.cells[r].photo # None THEN {"photo"} ELSE {})

\* Plan.signature.
Signature(T, f) ==
    LET saved == Saved(T, f) IN
    [r \in Rows(f) |->
        IF r \notin saved THEN <<"error", {}>>
        ELSE IF Existing(T, f, r) = None THEN <<"create", {}>>
        ELSE <<IF Changes(T, f, r) = {} THEN "unchanged" ELSE "update", Changes(T, f, r)>>]

RowOf(f, u) == CHOOSE r \in Rows(f) : f.user[r] = u
SavedUsers(T, f) == {f.user[r] : r \in Saved(T, f)}

\* apply, on the accounts W: blank cells keep what the planned account has; p are the stored photos.
Applied(T, W, f, p) ==
    LET saved == SavedUsers(T, f) IN
    [u \in Users |->
        IF u \notin saved THEN W[u]
        ELSE LET r == RowOf(f, u)  c == f.cells[r] IN
             [kind |-> "student", left |-> FALSE, section |-> f.section,
              roll |-> Final(T, f, r, "roll"), adm |-> Final(T, f, r, "adm"), phone |-> Final(T, f, r, "phone"),
              photo |-> IF c.photo # None THEN p[c.photo] ELSE IF T[u] = None THEN None ELSE T[u].photo]]

-----------------------------------------------------------------------------
(* Actions *)

PhotosOf(f, S) == {f.cells[r].photo : r \in S} \ {None}
Writing(T, f) == LET said == Signature(T, f) IN {r \in Rows(f) : said[r][1] \in {"create", "update"}}

\* Mutant: a photo may get a name that is taken.
AnyPaths == Paths

\* save_upload: a new name for every file.
NewPaths == Paths \ files

\* run_import up to its transaction: the preview, and the photos under new names.
Plan(i) ==
    /\ ~call[i].runs /\ Writing(account, upload) # {}
    /\ \E p \in [PhotosOf(upload, Writing(account, upload)) -> NewPaths] :
        /\ \A m, n \in DOMAIN p : p[m] = p[n] => m = n
        /\ call' = [call EXCEPT ![i] = [runs |-> TRUE, seen |-> account, photos |-> p]]
        /\ files' = files \cup {p[n] : n \in DOMAIN p}
    /\ UNCHANGED <<upload, account, form, edits>>

Stored(i) == {call[i].photos[n] : n \in DOMAIN call[i].photos}
Replaced(T, f) == {T[u].photo : u \in {f.user[r] : r \in {q \in Writing(T, f) : f.cells[q].photo # None}} \ {v \in Users : T[v] = None}}

\* Mutant: the first plan is written.
SavePreview(i) ==
    /\ call[i].runs
    /\ Signature(account, upload) = Signature(call[i].seen, upload)
    /\ account' = Applied(call[i].seen, account, upload, call[i].photos)
    /\ files' = files \ Replaced(account, upload)
    /\ call' = [call EXCEPT ![i] = Idle]
    /\ UNCHANGED <<upload, form, edits>>

\* The locked plan is the same: it is written, and replaced photos are deleted.
Save(i) ==
    /\ call[i].runs
    /\ Signature(account, upload) = Signature(call[i].seen, upload)
    /\ account' = Applied(account, account, upload, call[i].photos)
    /\ files' = files \ Replaced(account, upload)
    /\ call' = [call EXCEPT ![i] = Idle]
    /\ UNCHANGED <<upload, form, edits>>

\* Mutant: photos stay when nothing was saved.
ConflictOnly(i) ==
    /\ call[i].runs
    /\ call' = [call EXCEPT ![i] = Idle]
    /\ UNCHANGED <<upload, account, files, form, edits>>

\* CHANGED_WHILE_SAVING, a deadlock or a key: nothing is saved and the photos are removed.
Conflict(i) ==
    /\ call[i].runs
    /\ files' = files \ Stored(i)
    /\ call' = [call EXCEPT ![i] = Idle]
    /\ UNCHANGED <<upload, account, form, edits>>

\* Everybody else keeps the keys: update_student reads the student, and writes every field back
\* with one of them changed; mark_left is one step.
Unique(T) == \A k \in Keys, u, v \in Users :
    u # v /\ T[u] # None /\ T[v] # None /\ T[u][k] # None /\ T[u][k] = T[v][k] =>
        k = "roll" /\ (T[u].section # T[v].section \/ T[u].section = None)
OpenForm(u) ==
    /\ edits < MaxEdits /\ edits' = edits + 1 /\ form = None
    /\ account[u] # None /\ account[u].kind = "student" /\ ~account[u].left
    /\ \E k \in Fields : \E v \in IF k = "phone" THEN Phones ELSE Numbers \cup {None} :
        form' = [user |-> u, field |-> k, value |-> v, rest |-> account[u]]
    /\ UNCHANGED <<upload, account, files, call>>

Written(f) ==
    [f.rest EXCEPT ![f.field] = f.value, !.left = account[f.user].left, !.photo = account[f.user].photo]
SaveForm ==
    /\ form # None
    /\ account' = [account EXCEPT ![form.user] = Written(form)]
    /\ Unique(account')
    /\ form' = None
    /\ UNCHANGED <<upload, files, call, edits>>
RefuseForm ==
    /\ form # None /\ ~Unique([account EXCEPT ![form.user] = Written(form)])
    /\ form' = None
    /\ UNCHANGED <<upload, account, files, call, edits>>
Leave(u) ==
    /\ edits < MaxEdits /\ edits' = edits + 1
    /\ account[u] # None /\ account[u].kind = "student"
    /\ account' = [account EXCEPT ![u].left = TRUE, ![u].section = None]
    /\ UNCHANGED <<upload, files, call, form>>

\* update_staff, the row locked; upload_photo, for staff and students.
UpdateStaff(u) ==
    /\ edits < MaxEdits /\ edits' = edits + 1
    /\ account[u] # None /\ account[u].kind = "staff"
    /\ \E v \in Phones \cup {None} : account' = [account EXCEPT ![u].phone = v]
    /\ UNCHANGED <<upload, files, call, form>>
UploadPhoto(u) ==
    /\ edits < MaxEdits /\ edits' = edits + 1
    /\ account[u] # None
    /\ \E p \in NewPaths :
        /\ account' = [account EXCEPT ![u].photo = p]
        /\ files' = (files \cup {p}) \ {account[u].photo}
    /\ UNCHANGED <<upload, call, form>>

Next == \/ \E i \in Calls : Plan(i) \/ Save(i) \/ Conflict(i)
        \/ SaveForm \/ RefuseForm
        \/ \E u \in Users : OpenForm(u) \/ Leave(u) \/ UpdateStaff(u) \/ UploadPhoto(u)

Spec == Init /\ [][Next]_vars

-----------------------------------------------------------------------------
(* Properties *)

\* planner.py:341: whatever the file and whoever was skipped, an import leaves every number to
\* one student: the unique keys are never hit.
NumbersStayUnique == Unique(account)

\* planner.py:12: the repetition ends with the most rows that can be saved together, however
\* skipped rows block each other.
PlanSavesAllItCan ==
    Saved(account, upload) =
        UNION {S \in SUBSET Candidates(account, upload) : \A r \in S : ~Blocked(account, upload, S, r)}

\* service.py:15: "rows saved the first time then show as unchanged" (but for their photos),
\* though the rest of the file was skipped and the numbers moved around.
ReuploadIsUnchanged ==
    PhotosOf(upload, Rows(upload)) = {} =>
        LET again == Signature(Applied(account, account, upload, <<>>), upload) IN
        \A r \in Saved(account, upload) : again[r][1] = "unchanged"

\* service.py:13: blank cells, and users not in the file, keep what they have, even what an edit
\* wrote between the preview and the saving.
BlankCellsKeep ==
    [][\A i \in Calls : call[i].runs /\ ~call'[i].runs =>
        \A u \in Users : account[u] # None =>
            \A k \in Fields :
                (\A r \in Rows(upload) : upload.user[r] = u => upload.cells[r][k] = None)
                    => account'[u][k] = account[u][k]]_vars

\* students.py:127: "Fields left out of the request keep their current value" (the form of one
\* student races an import, or another form, that changes another field).
FormsKeepTheRest ==
    [][form # None /\ form' = None /\ account' # account =>
        \A k \in Fields \ {form.field} : account'[form.user][k] = account[form.user][k]]_vars

\* session.py:11, service.py:181: every photo path leads to a file, and no file is left behind
\* (unless two rows share a photo: they get one path, and replacing one's photo deletes it).
PhotosAreKept ==
    Repeated(upload, Cell(upload, "photo")) = {} =>
    files = {account[u].photo : u \in {v \in Users : account[v] # None /\ account[v].photo # None}}
                \cup UNION {Stored(i) : i \in Calls}
=============================================================================
