----------------------------- MODULE FeeLedger -----------------------------
(***************************************************************************)
(* What app/services/fees.py promises, without its requests, locks and     *)
(* transactions: a ledger of fees and of the payment proofs ("claims")     *)
(* parents send for them, in which every operation is one atomic step that *)
(* sees all the others.  Module Fees, the detailed specification, is shown *)
(* to implement this one.                                                  *)
(***************************************************************************)
EXTENDS Naturals

CONSTANTS FeeIds,    \* the ids fees.id can take; never reused
          ClaimIds,  \* the ids fee_claims.id can take; never reused
          None       \* no row

VARIABLES feeStatus,    \* fees.status, or "unused" / "deleted" for a row that is not there
          payments,     \* per fee: its rows in transactions with status 'success'
          claimStatus,  \* fee_claims.status, or "unused" / "deleted"
          claimFee      \* fee_claims.fee_id

ledger == <<feeStatus, payments, claimStatus, claimFee>>

Init ==
    /\ feeStatus = [f \in FeeIds |-> "unused"]
    /\ payments = [f \in FeeIds |-> 0]
    /\ claimStatus = [c \in ClaimIds |-> "unused"]
    /\ claimFee = [c \in ClaimIds |-> None]

ClaimsOn(f, statuses) == {c \in ClaimIds : claimFee[c] = f /\ claimStatus[c] \in statuses}

\* A fee becomes paid and gets its one payment row.
Settle(f) ==
    /\ feeStatus[f] = "pending"
    /\ feeStatus' = [feeStatus EXCEPT ![f] = "paid"]
    /\ payments' = [payments EXCEPT ![f] = @ + 1]

Create(new) ==
    /\ \A f \in new : feeStatus[f] = "unused"
    /\ feeStatus' = [f \in FeeIds |-> IF f \in new THEN "pending" ELSE feeStatus[f]]
    /\ UNCHANGED <<payments, claimStatus, claimFee>>

Pay(f) ==
    /\ Settle(f)
    /\ UNCHANGED <<claimStatus, claimFee>>

\* Only a fee with no money and no open proof goes; its rejected proofs go with it.
Delete(f) ==
    /\ feeStatus[f] = "pending"
    /\ ClaimsOn(f, {"pending", "approved"}) = {}
    /\ feeStatus' = [feeStatus EXCEPT ![f] = "deleted"]
    /\ claimStatus' = [c \in ClaimIds |->
                         IF c \in ClaimsOn(f, {"rejected"}) THEN "deleted" ELSE claimStatus[c]]
    /\ UNCHANGED <<payments, claimFee>>

Submit(f, c) ==
    /\ feeStatus[f] = "pending"
    /\ claimStatus[c] = "unused"
    /\ ClaimsOn(f, {"pending"}) = {}
    /\ claimStatus' = [claimStatus EXCEPT ![c] = "pending"]
    /\ claimFee' = [claimFee EXCEPT ![c] = f]
    /\ UNCHANGED <<feeStatus, payments>>

\* The proof of a fee that was paid some other way meanwhile can still be
\* approved: no second payment is recorded.
Approve(c) ==
    /\ claimStatus[c] = "pending"
    /\ claimStatus' = [claimStatus EXCEPT ![c] = "approved"]
    /\ \/ Settle(claimFee[c])
       \/ feeStatus[claimFee[c]] = "paid" /\ UNCHANGED <<feeStatus, payments>>
    /\ UNCHANGED claimFee

Reject(c) ==
    /\ claimStatus[c] = "pending"
    /\ claimStatus' = [claimStatus EXCEPT ![c] = "rejected"]
    /\ UNCHANGED <<feeStatus, payments, claimFee>>

Next ==
    \/ \E new \in SUBSET FeeIds : Create(new)
    \/ \E f \in FeeIds : Pay(f) \/ Delete(f)
    \/ \E f \in FeeIds, c \in ClaimIds : Submit(f, c)
    \/ \E c \in ClaimIds : Approve(c) \/ Reject(c)

Spec == Init /\ [][Next]_ledger
=============================================================================
