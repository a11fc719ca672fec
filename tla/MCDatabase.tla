---------------------------- MODULE MCDatabase ----------------------------
(***************************************************************************)
(* ConnectionPool, DbSession and Uploads on small instances.  A Db sees of *)
(* the pool only that it lends a connection, and a file hook of the Db     *)
(* only how its transaction ended, so a behaviour here is one of the pool, *)
(* of a Db or of uploads: while one moves the others are in their initial  *)
(* states.                                                                 *)
(***************************************************************************)
EXTENDS ConnectionPool

CONSTANTS Statements, MaxLosses, Requests, Files, NoFile, LocksToRemove

\* No write is mistaken for BEGIN, COMMIT or no call, and a name of the store is a name.
ASSUME StatementsAreWrites == Statements \cap {"none", "begin", "commit"} = {}
ASSUME NamesAreNames == NoFile \notin Files

VARIABLES lease, depth, call, up, open, inServer, applied, body, outcome, losses,
          exists, attached, store, req, mishaps

Session == INSTANCE DbSession
session == <<lease, depth, call, up, open, inServer, applied, body, outcome, losses>>

Upload == INSTANCE Uploads WITH None <- NoFile
upload == <<exists, attached, store, req, mishaps>>

DatabaseInit == Init /\ Session!Init /\ Upload!Init

DatabaseNext ==
    \/ Session!Init /\ Upload!Init /\ Next /\ UNCHANGED <<session, upload>>
    \/ Init /\ Upload!Init /\ Session!Next /\ UNCHANGED <<vars, upload>>
    \/ Init /\ Session!Init /\ Upload!Next /\ UNCHANGED <<vars, session>>

\* The pool's fairness asks for nothing while all its connections are home.
DatabaseSpec == DatabaseInit /\ [][DatabaseNext]_<<vars, session, upload>> /\ Fairness

\* The Db and the uploads keep to their types.
TypesOK == Session!TypeOK /\ Upload!TypeOK

AllOrNothing == Session!AllOrNothing
AppliedAtMostOnce == Session!AppliedAtMostOnce

\* The row's path leads to a file, and no file is without a row or a request.
FilesAgree == Upload!PathsLeadToFiles /\ Upload!NoOrphans
=============================================================================
