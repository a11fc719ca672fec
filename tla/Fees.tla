------------------------------- MODULE Fees -------------------------------
(***************************************************************************)
(* app/services/fees.py as the database runs it: API requests, each in one *)
(* transaction, that lock rows with SELECT ... FOR UPDATE, read other rows *)
(* without locking, and publish their writes at COMMIT.                    *)
(*                                                                         *)
(* A request r is at a step req[r].at.  Between two steps any other        *)
(* request may run.  A request's writes are one action with its COMMIT:    *)
(* until then they are invisible to plain reads, and the row locks keep    *)
(* locking reads out.  A lock is held by being at a step that holds it.    *)
(* A plain SELECT reads committed rows as of the transaction's first plain *)
(* SELECT (InnoDB REPEATABLE READ); here it always comes after the lock.   *)
(***************************************************************************)
EXTENDS Naturals, FiniteSets

CONSTANTS Requests,  \* API requests in flight at once
          FeeIds,    \* fees.id
          ClaimIds,  \* fee_claims.id
          None

ASSUME NoneIsNoRow == None \notin FeeIds /\ None \notin ClaimIds

VARIABLES feeStatus, payments, claimStatus, claimFee,  \* the tables
          req                                          \* the requests

tables == <<feeStatus, payments, claimStatus, claimFee>>
vars == <<feeStatus, payments, claimStatus, claimFee, req>>

FeeStates == {"unused", "pending", "paid", "deleted"}
ClaimStates == {"unused", "pending", "approved", "rejected", "deleted"}

Steps == {"idle",
          "pay waits", "pay locked",
          "delete waits", "delete locked", "delete checked",
          "submit waits", "submit locked", "submit checked",
          "approve waits", "approve locked", "approve waits for fee", "approve has both",
          "reject waits", "reject locked"}

Idle == [at |-> "idle", fee |-> None, claim |-> None, open |-> FALSE]

TypeOK ==
    /\ feeStatus \in [FeeIds -> FeeStates]
    /\ payments \in [FeeIds -> Nat]
    /\ claimStatus \in [ClaimIds -> ClaimStates]
    /\ claimFee \in [ClaimIds -> FeeIds \cup {None}]
    /\ req \in [Requests -> [at : Steps, fee : FeeIds \cup {None},
                             claim : ClaimIds \cup {None}, open : BOOLEAN]]

Init ==
    /\ feeStatus = [f \in FeeIds |-> "unused"]
    /\ payments = [f \in FeeIds |-> 0]
    /\ claimStatus = [c \in ClaimIds |-> "unused"]
    /\ claimFee = [c \in ClaimIds |-> None]
    /\ req = [r \in Requests |-> Idle]

-----------------------------------------------------------------------------
(* Row locks *)

FeeLockSteps == {"pay locked", "delete locked", "delete checked",
                 "submit locked", "submit checked", "approve has both"}
ClaimLockSteps == {"approve locked", "approve waits for fee", "approve has both", "reject locked"}

HoldsFee(r, f) == req[r].at \in FeeLockSteps /\ req[r].fee = f
HoldsClaim(r, c) == req[r].at \in ClaimLockSteps /\ req[r].claim = c

FeeFree(f) == \A q \in Requests : ~HoldsFee(q, f)
ClaimFree(c) == \A q \in Requests : ~HoldsClaim(q, c)

FeeExists(f) == f \in FeeIds /\ feeStatus[f] \in {"pending", "paid"}
ClaimExists(c) == claimStatus[c] \in {"pending", "approved", "rejected"}
ClaimsOn(f, statuses) == {c \in ClaimIds : claimFee[c] = f /\ claimStatus[c] \in statuses}

At(r, step) == req[r].at = step
Goto(r, step) == req' = [req EXCEPT ![r].at = step]
Finish(r) == req' = [req EXCEPT ![r] = Idle]  \* COMMIT or ROLLBACK: every lock goes

\* Mutant: a refusal leaves its transaction, and so its locks, open.
RefuseKeepingLocks(r) == UNCHANGED req /\ UNCHANGED tables

\* A refused request: nothing was written.
Refuse(r) == Finish(r) /\ UNCHANGED tables

\* A connection or lock-wait error, or the process dying: InnoDB rolls back.
Abort(r) ==
    /\ ~At(r, "idle")
    /\ Refuse(r)

\* SELECT ... FROM fees WHERE id = ... FOR UPDATE; no row: NotFound.
LockFee(r, waiting, locked) ==
    /\ At(r, waiting)
    /\ IF FeeExists(req[r].fee)
       THEN FeeFree(req[r].fee) /\ Goto(r, locked)
       ELSE Finish(r)
    /\ UNCHANGED tables

\* delete_fee found no open claim and queues for the locks of the rejected ones.
DeleteQueues(r, c) ==
    /\ At(r, "delete checked") /\ ~req[r].open
    /\ c \in ClaimsOn(req[r].fee, {"rejected"})

\* SELECT ... FROM fee_claims WHERE id = ... FOR UPDATE; no row: NotFound.
\* Lock queues are first come, first served: a DELETE that waits goes first.
LockClaim(r, waiting, locked) ==
    /\ At(r, waiting)
    /\ IF ClaimExists(req[r].claim)
       THEN /\ ClaimFree(req[r].claim)
            /\ \A q \in Requests : ~DeleteQueues(q, req[r].claim)
            /\ Goto(r, locked)
       ELSE Finish(r)
    /\ UNCHANGED tables

-----------------------------------------------------------------------------
(* Requests arrive *)

ArriveForFee(r) ==
    /\ At(r, "idle")
    /\ \E f \in FeeIds, step \in {"pay waits", "delete waits", "submit waits"} :
          req' = [req EXCEPT ![r] = [at |-> step, fee |-> f, claim |-> None, open |-> FALSE]]
    /\ UNCHANGED tables

ArriveForClaim(r) ==
    /\ At(r, "idle")
    /\ \E c \in ClaimIds, step \in {"approve waits", "reject waits"} :
          req' = [req EXCEPT ![r] = [at |-> step, fee |-> None, claim |-> c, open |-> FALSE]]
    /\ UNCHANGED tables

\* create_fee inserts one fee, generate_class_fees one for each of several
\* students.  A single INSERT, then COMMIT: nothing to interleave with.
CreateFees(new) ==
    /\ new # {}
    /\ \A f \in new : feeStatus[f] = "unused"
    /\ feeStatus' = [f \in FeeIds |-> IF f \in new THEN "pending" ELSE feeStatus[f]]
    /\ UNCHANGED <<payments, claimStatus, claimFee, req>>

-----------------------------------------------------------------------------
(* pay_fee *)

\* Mutant: the payment row is inserted without looking whether the UPDATE changed the fee.
MarkPaidAlways(f) ==
    /\ feeStatus' = [feeStatus EXCEPT ![f] = "paid"]
    /\ payments' = [payments EXCEPT ![f] = @ + 1]

\* _mark_paid: the UPDATE is conditional on status = 'pending' and the payment
\* row is inserted only if it changed the fee.
MarkPaid(f) ==
    IF feeStatus[f] = "pending"
    THEN /\ feeStatus' = [feeStatus EXCEPT ![f] = "paid"]
         /\ payments' = [payments EXCEPT ![f] = @ + 1]
    ELSE UNCHANGED <<feeStatus, payments>>

PayLock(r) == LockFee(r, "pay waits", "pay locked")

PayFee(r) ==
    /\ At(r, "pay locked")
    /\ MarkPaid(req[r].fee)
    /\ Finish(r)
    /\ UNCHANGED <<claimStatus, claimFee>>

-----------------------------------------------------------------------------
(* delete_fee *)

DeleteLock(r) == LockFee(r, "delete waits", "delete locked")

\* Mutant: a paid fee can be deleted, too.
DeleteCheckClaimsOnly(r) ==
    /\ At(r, "delete locked")
    /\ req' = [req EXCEPT ![r].at = "delete checked",
                          ![r].open = ClaimsOn(req[r].fee, {"pending", "approved"}) # {}]
    /\ UNCHANGED tables

\* A paid fee stays; then the plain COUNT of the open claims.
DeleteCheck(r) ==
    /\ At(r, "delete locked")
    /\ IF feeStatus[req[r].fee] = "paid"
       THEN Finish(r)
       ELSE req' = [req EXCEPT ![r].at = "delete checked",
                               ![r].open = ClaimsOn(req[r].fee, {"pending", "approved"}) # {}]
    /\ UNCHANGED tables

DeleteRefused(r) ==
    /\ At(r, "delete checked")
    /\ req[r].open
    /\ Refuse(r)

\* The DELETE of the rejected claims waits for their row locks.  The foreign
\* key fee_claims.fee_id (RESTRICT) fails the DELETE of a fee with claims left.
DeleteFee(r) ==
    LET f == req[r].fee
        rejected == ClaimsOn(f, {"rejected"})
    IN
    /\ At(r, "delete checked")
    /\ ~req[r].open
    /\ \A c \in rejected : ClaimFree(c)
    /\ IF ClaimsOn(f, {"pending", "approved"}) = {}
       THEN /\ claimStatus' = [c \in ClaimIds |-> IF c \in rejected THEN "deleted" ELSE claimStatus[c]]
            /\ feeStatus' = [feeStatus EXCEPT ![f] = "deleted"]
            /\ UNCHANGED <<payments, claimFee>>
       ELSE UNCHANGED tables
    /\ Finish(r)

-----------------------------------------------------------------------------
(* submit_claim *)

SubmitLock(r) == LockFee(r, "submit waits", "submit locked")

\* Mutant: a fee that is paid meanwhile still takes a claim.
SubmitCheckClaimsOnly(r) ==
    /\ At(r, "submit locked")
    /\ req' = [req EXCEPT ![r].at = "submit checked",
                          ![r].open = ClaimsOn(req[r].fee, {"pending"}) # {}]
    /\ UNCHANGED tables

\* A paid fee takes no claim; then the plain read for a claim under review.
SubmitCheck(r) ==
    /\ At(r, "submit locked")
    /\ IF feeStatus[req[r].fee] = "paid"
       THEN Finish(r)
       ELSE req' = [req EXCEPT ![r].at = "submit checked",
                               ![r].open = ClaimsOn(req[r].fee, {"pending"}) # {}]
    /\ UNCHANGED tables

\* Refused by the check; the bound ClaimIds also ends a request that finds no id left.
SubmitRefused(r) ==
    /\ At(r, "submit checked")
    /\ req[r].open \/ \A c \in ClaimIds : claimStatus[c] # "unused"
    /\ Refuse(r)

\* The INSERT takes a fresh id.
SubmitClaim(r, c) ==
    /\ At(r, "submit checked")
    /\ ~req[r].open
    /\ claimStatus[c] = "unused"
    /\ claimStatus' = [claimStatus EXCEPT ![c] = "pending"]
    /\ claimFee' = [claimFee EXCEPT ![c] = req[r].fee]
    /\ Finish(r)
    /\ UNCHANGED <<feeStatus, payments>>

-----------------------------------------------------------------------------
(* approve_claim and reject_claim *)

ApproveLock(r) == LockClaim(r, "approve waits", "approve locked")

\* Mutant: a claim is approved whatever was decided about it before.
ApproveAnyway(r) ==
    /\ At(r, "approve locked")
    /\ req' = [req EXCEPT ![r].at = "approve waits for fee", ![r].fee = claimFee[req[r].claim]]
    /\ UNCHANGED tables

\* _lock_pending_claim: only a pending claim goes on, to lock its fee.
ApproveCheck(r) ==
    /\ At(r, "approve locked")
    /\ IF claimStatus[req[r].claim] = "pending"
       THEN req' = [req EXCEPT ![r].at = "approve waits for fee", ![r].fee = claimFee[req[r].claim]]
       ELSE Finish(r)
    /\ UNCHANGED tables

\* A fee that is gone would not stop the approval: there is just nothing to lock.
ApproveLockFee(r) ==
    /\ At(r, "approve waits for fee")
    /\ FeeFree(req[r].fee)
    /\ Goto(r, "approve has both")
    /\ UNCHANGED tables

ApproveClaim(r) ==
    /\ At(r, "approve has both")
    /\ claimStatus' = [claimStatus EXCEPT ![req[r].claim] = "approved"]
    /\ MarkPaid(req[r].fee)
    /\ Finish(r)
    /\ UNCHANGED claimFee

RejectLock(r) == LockClaim(r, "reject waits", "reject locked")

\* Mutant: a claim is rejected whatever was decided about it before.
RejectAnyway(r) ==
    /\ At(r, "reject locked")
    /\ claimStatus' = [claimStatus EXCEPT ![req[r].claim] = "rejected"]
    /\ Finish(r)
    /\ UNCHANGED <<feeStatus, payments, claimFee>>

RejectClaim(r) ==
    /\ At(r, "reject locked")
    /\ claimStatus' = IF claimStatus[req[r].claim] = "pending"
                      THEN [claimStatus EXCEPT ![req[r].claim] = "rejected"]
                      ELSE claimStatus
    /\ Finish(r)
    /\ UNCHANGED <<feeStatus, payments, claimFee>>

-----------------------------------------------------------------------------
Work(r) ==
    \/ PayFee(r)
    \/ DeleteCheck(r) \/ DeleteRefused(r) \/ DeleteFee(r)
    \/ SubmitCheck(r) \/ SubmitRefused(r) \/ (\E c \in ClaimIds : SubmitClaim(r, c))
    \/ ApproveCheck(r) \/ ApproveClaim(r)
    \/ RejectClaim(r)

Lock(r) ==
    \/ PayLock(r) \/ DeleteLock(r) \/ SubmitLock(r)
    \/ ApproveLock(r) \/ ApproveLockFee(r) \/ RejectLock(r)

Next ==
    \/ \E new \in SUBSET FeeIds : CreateFees(new)
    \/ \E r \in Requests : ArriveForFee(r) \/ ArriveForClaim(r) \/ Lock(r) \/ Work(r) \/ Abort(r)

Spec == Init /\ [][Next]_vars

\* A running transaction executes its next statement, and InnoDB grants row
\* locks in the order they were asked for, so no waiter is passed over forever.
Fairness == \A r \in Requests : SF_vars(Work(r) \/ Lock(r))

FairSpec == Spec /\ Fairness

-----------------------------------------------------------------------------
(* Properties *)

\* A fee is paid exactly when it has its one payment row: neither two double
\* clicks on pay_fee nor two reviewers nor one of each record a second payment,
\* and no payment row stays behind without its fee (_mark_paid).
PaidExactlyOnce ==
    \A f \in FeeIds : payments[f] = IF feeStatus[f] = "paid" THEN 1 ELSE 0

\* Concurrent submit_claim calls leave at most one claim of a fee under review.
OneClaimUnderReview ==
    \A c, d \in ClaimIds :
        claimStatus[c] = "pending" /\ claimStatus[d] = "pending" /\ claimFee[c] = claimFee[d] => c = d

\* A claim never outlives its fee (delete_fee against submit_claim and the
\* reviewers), and an approved one is backed by a paid fee (approve_claim).
ClaimsAreBacked ==
    \A c \in ClaimIds :
        /\ ClaimExists(c) => FeeExists(claimFee[c])
        /\ claimStatus[c] = "approved" => feeStatus[claimFee[c]] = "paid"

\* The three together: whatever clerks and parents do to a fee at once, the fees,
\* the claims and the payment rows tell the same story.
BooksAreExact == PaidExactlyOnce /\ OneClaimUnderReview /\ ClaimsAreBacked

\* r waits for a row lock that q holds or has queued for before r.
WaitsFor(r, q) ==
    \/ /\ req[r].at \in {"pay waits", "delete waits", "submit waits", "approve waits for fee"}
       /\ HoldsFee(q, req[r].fee)
    \/ /\ req[r].at \in {"approve waits", "reject waits"}
       /\ HoldsClaim(q, req[r].claim) \/ DeleteQueues(q, req[r].claim)
    \/ \E c \in ClaimIds : DeleteQueues(r, c) /\ HoldsClaim(q, c)

\* approve_claim locks the claim, then the fee; delete_fee the fee, then the
\* claims.  Still no set of requests ever waits on itself.
NoDeadlock ==
    \A S \in (SUBSET Requests) \ {{}} : \E r \in S : \A q \in S : ~WaitsFor(r, q)

\* A paid fee and an approved claim are final: no later request of any kind
\* reopens, rejects or erases them.
MoneyIsFinal ==
    [][/\ \A f \in FeeIds : feeStatus[f] = "paid" => feeStatus'[f] = "paid"
       /\ \A c \in ClaimIds : claimStatus[c] = "approved" => claimStatus'[c] = "approved"]_vars

\* The inductive invariant behind the safety properties.  A lock has one holder ...
LocksAreExclusive ==
    \A q, r \in Requests :
        /\ \A f \in FeeIds : HoldsFee(q, f) /\ HoldsFee(r, f) => q = r
        /\ \A c \in ClaimIds : HoldsClaim(q, c) /\ HoldsClaim(r, c) => q = r

FeeSteps == FeeLockSteps \cup {"pay waits", "delete waits", "submit waits", "approve waits for fee"}
ClaimSteps == ClaimLockSteps \cup {"approve waits", "reject waits"}

\* ... and what a request read under the fee's lock is still so when it writes.
Knows(r) ==
    /\ req[r].at \in FeeSteps => req[r].fee \in FeeIds
    /\ req[r].at \in ClaimSteps => req[r].claim \in ClaimIds
    /\ req[r].at \in FeeLockSteps => feeStatus[req[r].fee] \in {"pending", "paid"}
    /\ req[r].at \in {"delete checked", "submit checked"} => feeStatus[req[r].fee] = "pending"
    /\ req[r].at \in {"delete checked", "submit checked"} /\ ~req[r].open =>
          \A c \in ClaimIds : claimFee[c] = req[r].fee => claimStatus[c] # "pending"
    /\ req[r].at = "delete checked" /\ ~req[r].open =>
          \A c \in ClaimIds : claimFee[c] = req[r].fee => claimStatus[c] # "approved"
    /\ req[r].at \in {"approve waits for fee", "approve has both"} =>
          claimStatus[req[r].claim] = "pending" /\ claimFee[req[r].claim] = req[r].fee

\* Everything the requests of fees.py rely on at each of their steps.
IInv ==
    /\ TypeOK
    /\ PaidExactlyOnce
    /\ OneClaimUnderReview
    /\ ClaimsAreBacked
    /\ LocksAreExclusive
    /\ \A r \in Requests : Knows(r)

\* A request that arrives is answered: each of its waits for a lock ends, however
\* many others come for the same rows.
Answered(r) == ~At(r, "idle") ~> At(r, "idle")

\* All of the above is one ledger changed by atomic operations.
Ledger == INSTANCE FeeLedger
LedgerSpec == Ledger!Spec
=============================================================================
