------------------------------ MODULE Uploads ------------------------------
(***************************************************************************)
(* One row with an attachment (a notice, a homework) and the file store    *)
(* beside it: app/services/storage.py with the on_commit / on_rollback     *)
(* hooks of app/db/session.py, as notices.py and homework.py use them.     *)
(*                                                                         *)
(* The file goes into the store before the transaction commits, and files  *)
(* leave the store after it ended, by hooks that run once the row lock is  *)
(* gone.  File names are random: a name in use anywhere is never reused.   *)
(***************************************************************************)
EXTENDS Naturals, FiniteSets

CONSTANTS Requests,
          Files,          \* the names the store can give
          None,           \* no file, not in Files
          LocksToRemove   \* TRUE: removing reads the row FOR UPDATE (notices.py)
                          \* FALSE: it is a plain read (homework.py)

VARIABLES exists,    \* the row is there
          attached,  \* its attachment_path
          store,     \* the files in the store
          req,       \* the requests
          mishaps    \* what went wrong so far, for the properties only

vars == <<exists, attached, store, req, mishaps>>

\* A request holds the row lock while "locked" or "saved"; in "hooks" its
\* transaction is over and it has a file to delete.
Steps == {"idle", "attaching", "locked", "saved", "removing", "deleting", "read", "hooks"}
Removals == {"removing", "deleting"}

Idle == [at |-> "idle", todo |-> "none", old |-> None, new |-> None]

TypeOK ==
    /\ exists \in BOOLEAN
    /\ attached \in Files \cup {None}
    /\ store \subseteq Files
    /\ req \in [Requests -> [at : Steps, todo : Removals \cup {"none"},
                             old : Files \cup {None}, new : Files \cup {None}]]
    /\ mishaps \subseteq {"crash", "answer", "delete"}
    /\ \A r \in Requests : /\ (req[r].new # None) = (req[r].at = "saved")
                           /\ req[r].at = "hooks" => req[r].old # None

Init ==
    /\ exists = TRUE
    /\ attached = None
    /\ store = {}
    /\ req = [r \in Requests |-> Idle]
    /\ mishaps = {}

At(r, step) == req[r].at = step
HasLock(r) ==
    \/ req[r].at \in {"locked", "saved"}
    \/ LocksToRemove /\ At(r, "read")
RowFree(r) == \A q \in Requests \ {r} : ~HasLock(q)
Finish(r) == req' = [req EXCEPT ![r] = Idle]
Fresh(f) == f \notin store /\ f # attached /\ \A r \in Requests : f \notin {req[r].old, req[r].new}

\* COMMIT or ROLLBACK is over and file is what the hook is to delete, if any.
Hooks(r, file) ==
    IF file = None THEN Finish(r) ELSE req' = [req EXCEPT ![r] = [Idle EXCEPT !.at = "hooks", !.old = file]]

Arrive(r) ==
    /\ At(r, "idle")
    /\ \E step \in {"attaching"} \cup Removals : req' = [req EXCEPT ![r].at = step]
    /\ UNCHANGED <<exists, attached, store, mishaps>>

-----------------------------------------------------------------------------
(* attach *)

\* Mutant: the row is read without FOR UPDATE.
AttachRead(r) ==
    /\ At(r, "attaching")
    /\ IF exists THEN req' = [req EXCEPT ![r].at = "locked", ![r].old = attached] ELSE Finish(r)
    /\ UNCHANGED <<exists, attached, store, mishaps>>

\* SELECT ... FOR UPDATE, and the old path read under it; no row: NotFound.
AttachLock(r) ==
    /\ At(r, "attaching")
    /\ RowFree(r)
    /\ IF exists THEN req' = [req EXCEPT ![r].at = "locked", ![r].old = attached] ELSE Finish(r)
    /\ UNCHANGED <<exists, attached, store, mishaps>>

\* save_upload puts the file and registers its removal for a rollback.
SaveUpload(r) ==
    /\ At(r, "locked")
    /\ \E f \in Files :
          /\ Fresh(f)
          /\ store' = store \cup {f}
          /\ req' = [req EXCEPT ![r].at = "saved", ![r].new = f]
    /\ UNCHANGED <<exists, attached, mishaps>>

\* The file is refused (size, type) or the store fails: nothing was put.
RefuseUpload(r) ==
    /\ At(r, "locked")
    /\ Finish(r)
    /\ UNCHANGED <<exists, attached, store, mishaps>>

\* UPDATE and COMMIT; then delete_after_commit's hook for the old file.
CommitAttach(r) ==
    /\ At(r, "saved")
    /\ attached' = req[r].new
    /\ Hooks(r, req[r].old)
    /\ UNCHANGED <<exists, store, mishaps>>

\* A statement or the COMMIT fails: ROLLBACK, then save_upload's hook.
RollBackAttach(r) ==
    /\ At(r, "saved")
    /\ Hooks(r, req[r].new)
    /\ UNCHANGED <<exists, attached, store, mishaps>>

\* COMMIT is done but its answer is lost: transaction() takes it for a failure.
CommitWithoutAnswer(r) ==
    /\ At(r, "saved")
    /\ attached' = req[r].new
    /\ Hooks(r, req[r].new)
    /\ mishaps' = mishaps \cup {"answer"}
    /\ UNCHANGED <<exists, store>>

-----------------------------------------------------------------------------
(* remove_attachment, and delete_notice / delete_homework *)

\* The path is read, with the row lock or without; no row: NotFound.
ReadPath(r) ==
    /\ req[r].at \in Removals
    /\ LocksToRemove => RowFree(r)
    /\ IF exists
       THEN req' = [req EXCEPT ![r].at = "read", ![r].todo = req[r].at, ![r].old = attached]
       ELSE Finish(r)
    /\ UNCHANGED <<exists, attached, store, mishaps>>

\* UPDATE ... SET attachment_path = NULL, or DELETE: it waits for the row lock.
CommitRemoval(r) ==
    /\ At(r, "read")
    /\ RowFree(r)
    /\ attached' = None
    /\ exists' = (exists /\ req[r].todo = "removing")
    /\ Hooks(r, req[r].old)
    /\ UNCHANGED <<store, mishaps>>

RollBackRemoval(r) ==
    /\ At(r, "read")
    /\ Finish(r)
    /\ UNCHANGED <<exists, attached, store, mishaps>>

-----------------------------------------------------------------------------
DeleteFile(r) ==
    /\ At(r, "hooks")
    /\ store' = store \ {req[r].old}
    /\ Finish(r)
    /\ UNCHANGED <<exists, attached, mishaps>>

\* delete_file logs a failure and drops it; a hook's exception ends there too.
DeleteFileFails(r) ==
    /\ At(r, "hooks")
    /\ Finish(r)
    /\ mishaps' = mishaps \cup {"delete"}
    /\ UNCHANGED <<exists, attached, store>>

\* The process dies: its open transaction is rolled back, no hook runs.
Crash(r) ==
    /\ ~At(r, "idle")
    /\ Finish(r)
    /\ mishaps' = mishaps \cup {"crash"}
    /\ UNCHANGED <<exists, attached, store>>

Attach(r) ==
    \/ AttachLock(r) \/ SaveUpload(r) \/ RefuseUpload(r)
    \/ CommitAttach(r) \/ RollBackAttach(r) \/ CommitWithoutAnswer(r)

Remove(r) == ReadPath(r) \/ CommitRemoval(r) \/ RollBackRemoval(r)

Next == \E r \in Requests :
    Arrive(r) \/ Attach(r) \/ Remove(r) \/ DeleteFile(r) \/ DeleteFileFails(r) \/ Crash(r)

Spec == Init /\ [][Next]_vars

-----------------------------------------------------------------------------
(* Properties *)

\* A path that readers can see leads to a file, through every rollback, crash,
\* failed delete and race of attach with attach or remove (save_upload before
\* the commit, delete_after_commit after it) - as long as no COMMIT loses its answer.
PathsLeadToFiles == attached # None /\ "answer" \notin mishaps => attached \in store

\* Unless a crash or a failing store or COMMIT gets in the way, every file in
\* the store is the row's or in the hands of a request that will attach or
\* delete it: racing requests leave no file behind that nothing points to.
NoOrphans ==
    mishaps = {} => \A f \in store : f = attached \/ \E r \in Requests : f \in {req[r].old, req[r].new}
=============================================================================
