----------------------------- MODULE DbSession -----------------------------
(***************************************************************************)
(* One request's Db (app/db/session.py) and the server at the other end:   *)
(* statements in autocommit mode, then a transaction, over connections     *)
(* that can be lost before a statement is executed or before its answer    *)
(* arrives (a read timeout looks the same).  The server rolls back what    *)
(* was open on a connection that is lost.                                  *)
(***************************************************************************)
EXTENDS Naturals, FiniteSets

CONSTANTS Statements,  \* the writes the request issues, each once
          MaxLosses    \* bound: lost connections

VARIABLES
    lease,     \* _lease: none, fresh (_used is False) or used
    depth,     \* _depth
    call,      \* the call of _run, _begin or commit in progress
    up,        \* is the leased connection alive
    open,      \* the server: effects in the connection's open transaction
    inServer,  \* the server: a transaction is open
    applied,   \* the server: how often each statement's effect is in the database
    body,      \* ghost: the statements issued in the transaction
    outcome,   \* ghost: what transaction() told its caller
    losses

vars == <<lease, depth, call, up, open, inServer, applied, body, outcome, losses>>

None == [op |-> "none", phase |-> "none"]
Ops == Statements \cup {"begin", "commit"}
Nothing == [s \in Statements |-> 0]

TypeOK ==
    /\ lease \in {"none", "fresh", "used"}
    /\ depth \in 0..1
    /\ call \in {None} \cup [op : Ops, phase : {"sent", "executed"}]
    /\ up \in BOOLEAN /\ inServer \in BOOLEAN
    /\ open \in [Statements -> Nat] /\ applied \in [Statements -> Nat]
    /\ body \subseteq Statements
    /\ outcome \in {"none", "committed", "undone", "unsure", "closed"}
    /\ losses \in Nat

Init ==
    /\ lease = "none" /\ depth = 0 /\ call = None
    /\ up = FALSE /\ inServer = FALSE
    /\ open = Nothing /\ applied = Nothing
    /\ body = {} /\ outcome = "none"
    /\ losses = 0

\* Mutant: _run retries within a transaction, too.
RetryableAnywhere == TRUE

\* A connection that is lent for the first time and nothing ran on: no
\* transaction can be open on it.
Retryable == lease = "fresh" /\ depth = 0

Started == lease' = IF lease = "none" THEN "fresh" ELSE lease
Issue(op) ==
    /\ call = None /\ outcome = "none"
    /\ call' = [op |-> op, phase |-> "sent"]
    /\ Started
    /\ up' = (lease = "none" \/ up)

-----------------------------------------------------------------------------
(* The request *)

\* one, all, execute, execute_many.
Execute(s) ==
    /\ s \notin body /\ applied[s] = 0 /\ open[s] = 0
    /\ Issue(s)
    /\ body' = IF depth = 1 THEN body \cup {s} ELSE body
    /\ UNCHANGED <<depth, open, inServer, applied, outcome, losses>>

Begin ==
    /\ depth = 0
    /\ Issue("begin")
    /\ UNCHANGED <<depth, open, inServer, applied, body, outcome, losses>>

Commit ==
    /\ depth = 1
    /\ Issue("commit")
    /\ UNCHANGED <<depth, open, inServer, applied, body, outcome, losses>>

\* The block of transaction() raises.
Rollback ==
    /\ depth = 1 /\ call = None
    /\ depth' = 0 /\ outcome' = "undone"
    /\ open' = Nothing /\ inServer' = FALSE
    /\ UNCHANGED <<lease, call, up, applied, body, losses>>

-----------------------------------------------------------------------------
(* The server and the network *)

Serve ==
    /\ call # None /\ call.phase = "sent" /\ up
    /\ call' = [call EXCEPT !.phase = "executed"]
    /\ \/ /\ call.op = "begin"
          /\ inServer' = TRUE
          /\ UNCHANGED <<open, applied>>
       \/ /\ call.op = "commit"
          /\ inServer' = FALSE
          /\ applied' = [s \in Statements |-> applied[s] + open[s]]
          /\ open' = Nothing
       \/ /\ call.op \in Statements
          /\ IF inServer THEN open' = [open EXCEPT ![call.op] = @ + 1] /\ UNCHANGED applied
                         ELSE applied' = [applied EXCEPT ![call.op] = @ + 1] /\ UNCHANGED open
          /\ UNCHANGED inServer
    /\ UNCHANGED <<lease, depth, up, body, outcome, losses>>

LoseConnection ==
    /\ up /\ losses < MaxLosses
    /\ losses' = losses + 1
    /\ up' = FALSE /\ inServer' = FALSE /\ open' = Nothing
    /\ UNCHANGED <<lease, depth, call, applied, body, outcome>>

-----------------------------------------------------------------------------
(* What the call returns *)

Answered ==
    /\ call # None /\ call.phase = "executed" /\ up
    /\ call' = None
    /\ lease' = "used"
    /\ depth' = CASE call.op = "begin" -> 1 [] call.op = "commit" -> 0 [] OTHER -> depth
    /\ outcome' = IF call.op = "commit" THEN "committed" ELSE outcome
    /\ UNCHANGED <<up, open, inServer, applied, body, losses>>

\* The connection was lost and nothing ran on it yet: _discard_lease, and the
\* same statement on another one.
Retry ==
    /\ call # None /\ ~up /\ Retryable
    /\ call' = [call EXCEPT !.phase = "sent"]
    /\ lease' = "fresh" /\ up' = TRUE
    /\ UNCHANGED <<depth, open, inServer, applied, body, outcome, losses>>

\* Mutant: _depth is counted down instead of reset.
RaiseCountingDown ==
    /\ call # None /\ ~up /\ ~Retryable
    /\ call' = None
    /\ depth' = depth - 1
    /\ outcome' = CASE depth = 0 -> "closed"
                    [] call.op = "commit" -> "unsure"
                    [] OTHER -> "undone"
    /\ UNCHANGED <<lease, up, open, inServer, applied, body, losses>>

\* Otherwise the error is raised, out of transaction() too; the connection is
\* never handed back (_broken).
Raise ==
    /\ call # None /\ ~up /\ ~Retryable
    /\ call' = None
    /\ depth' = 0
    /\ outcome' = CASE depth = 0 -> "closed"
                    [] call.op = "commit" -> "unsure"
                    [] OTHER -> "undone"
    /\ UNCHANGED <<lease, up, open, inServer, applied, body, losses>>

Next ==
    \/ \E s \in Statements : Execute(s)
    \/ Begin \/ Commit \/ Rollback \/ Serve \/ LoseConnection \/ Answered \/ Retry \/ Raise

Spec == Init /\ [][Next]_vars

-----------------------------------------------------------------------------
(* Properties *)

\* transaction(): whatever connection is lost when, and whatever is retried, the
\* statements of the block take effect together and once, or not at all; they
\* do if the caller was told so and do not if it was told they did not.
AllOrNothing ==
    /\ depth = 1 /\ call.op # "commit" => \A s \in body : applied[s] = 0
    /\ outcome = "committed" => \A s \in body : applied[s] = 1
    /\ outcome = "undone" => \A s \in body : applied[s] = 0
    /\ outcome = "unsure" => \E n \in 0..1 : \A s \in body : applied[s] = n

(* A property the comments state and the code does not keep *)

\* _run: "the statement retried once - safe because nothing ran on it yet".  So
\* no statement takes effect twice.
AppliedAtMostOnce == \A s \in Statements : applied[s] <= 1
=============================================================================
