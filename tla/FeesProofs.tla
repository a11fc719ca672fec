---------------------------- MODULE FeesProofs ----------------------------
(***************************************************************************)
(* Proofs about module Fees, for any number of requests, fees and claims,  *)
(* along the inductive invariant IInv of that module.                      *)
(***************************************************************************)
EXTENDS Fees, TLAPS

-----------------------------------------------------------------------------
\* What is true at the start.
LEMMA InitInv == Init => IInv
<1> SUFFICES ASSUME Init PROVE IInv
  OBVIOUS
<1> USE DEF Init
<1>1. TypeOK
  BY DEF TypeOK, Idle, Steps, FeeStates, ClaimStates
<1>2. PaidExactlyOnce /\ OneClaimUnderReview /\ ClaimsAreBacked
  BY DEF PaidExactlyOnce, OneClaimUnderReview, ClaimsAreBacked, ClaimExists
<1>3. \A r \in Requests : req[r].at = "idle"
  BY DEF Idle
<1>4. LocksAreExclusive
  BY <1>3 DEF LocksAreExclusive, HoldsFee, HoldsClaim, FeeLockSteps, ClaimLockSteps
<1>5. \A r \in Requests : Knows(r)
  BY <1>3 DEF Knows, FeeSteps, ClaimSteps, FeeLockSteps, ClaimLockSteps
<1> QED  BY <1>1, <1>2, <1>4, <1>5 DEF IInv

\* A step that leaves the tables alone and only moves one request, to a step
\* whose locks were free or already its own and whose knowledge is true,
\* preserves the invariant.
LEMMA MoveInv ==
  ASSUME IInv, UNCHANGED tables, NEW r \in Requests, NEW to,
         to \in [at : Steps, fee : FeeIds \cup {None}, claim : ClaimIds \cup {None}, open : BOOLEAN],
         req' = [req EXCEPT ![r] = to],
         Knows(r)',
         to.at \in FeeLockSteps => HoldsFee(r, to.fee) \/ FeeFree(to.fee),
         to.at \in ClaimLockSteps => HoldsClaim(r, to.claim) \/ ClaimFree(to.claim)
  PROVE  IInv'
<1>1. TypeOK'
  BY DEF IInv, TypeOK, tables
<1>2. PaidExactlyOnce' /\ OneClaimUnderReview' /\ ClaimsAreBacked'
  BY DEF IInv, PaidExactlyOnce, OneClaimUnderReview, ClaimsAreBacked, ClaimExists, FeeExists, tables
<1>3. LocksAreExclusive'
  BY DEF IInv, TypeOK, LocksAreExclusive, HoldsFee, HoldsClaim, FeeFree, ClaimFree
<1>4. \A q \in Requests : Knows(q)'
  <2> SUFFICES ASSUME NEW q \in Requests, q # r PROVE Knows(q)'
    OBVIOUS
  <2> QED  BY DEF IInv, TypeOK, Knows, tables
<1> QED  BY <1>1, <1>2, <1>3, <1>4 DEF IInv

\* The end of a request that wrote nothing.
LEMMA RefuseInv ==
  ASSUME IInv, NEW r \in Requests, Refuse(r)
  PROVE  IInv'
<1>1. /\ UNCHANGED tables
      /\ req' = [req EXCEPT ![r] = Idle]
  BY DEF Refuse, Finish
<1>2. Idle \in [at : Steps, fee : FeeIds \cup {None}, claim : ClaimIds \cup {None}, open : BOOLEAN]
  BY DEF Idle, Steps
<1>3. req'[r].at = "idle" /\ Idle.at = "idle"
  BY <1>1 DEF IInv, TypeOK, Idle
<1>4. Knows(r)'
  BY <1>3 DEF Knows, FeeSteps, ClaimSteps, FeeLockSteps, ClaimLockSteps
<1> QED
  BY <1>1, <1>2, <1>3, <1>4, MoveInv DEF FeeLockSteps, ClaimLockSteps

\* The end of a request that wrote: its locks go and it knows nothing any more.
LEMMA FinishReleases ==
  ASSUME IInv, NEW r \in Requests, Finish(r)
  PROVE  /\ req' \in [Requests -> [at : Steps, fee : FeeIds \cup {None},
                                   claim : ClaimIds \cup {None}, open : BOOLEAN]]
         /\ LocksAreExclusive'
         /\ Knows(r)'
         /\ \A q \in Requests \ {r} : req'[q] = req[q]
<1>1. /\ req' = [req EXCEPT ![r] = Idle]
      /\ Idle.at = "idle"
      /\ Idle \in [at : Steps, fee : FeeIds \cup {None}, claim : ClaimIds \cup {None}, open : BOOLEAN]
  BY DEF Finish, Idle, Steps
<1>2. req'[r].at = "idle" /\ \A q \in Requests \ {r} : req'[q] = req[q]
  BY <1>1 DEF IInv, TypeOK
<1>3. Knows(r)'
  BY <1>2 DEF Knows, FeeSteps, ClaimSteps, FeeLockSteps, ClaimLockSteps
<1>4. LocksAreExclusive'
  <2> SUFFICES ASSUME NEW p \in Requests, NEW q \in Requests
               PROVE  /\ \A f \in FeeIds : HoldsFee(p, f)' /\ HoldsFee(q, f)' => p = q
                      /\ \A c \in ClaimIds : HoldsClaim(p, c)' /\ HoldsClaim(q, c)' => p = q
    BY DEF LocksAreExclusive
  <2>1. CASE p = r \/ q = r
    BY <2>1, <1>2 DEF HoldsFee, HoldsClaim, FeeLockSteps, ClaimLockSteps
  <2>2. CASE p # r /\ q # r
    BY <2>2, <1>2 DEF IInv, LocksAreExclusive, HoldsFee, HoldsClaim
  <2> QED  BY <2>1, <2>2
<1> QED  BY <1>1, <1>2, <1>3, <1>4 DEF IInv, TypeOK

-----------------------------------------------------------------------------
(* Steps that only lock and read *)

\* A request arrives.
LEMMA ArriveInv ==
  ASSUME IInv, NEW r \in Requests, ArriveForFee(r) \/ ArriveForClaim(r)
  PROVE  IInv'
<1>1. PICK to \in [at : Steps, fee : FeeIds \cup {None}, claim : ClaimIds \cup {None}, open : BOOLEAN] :
         /\ req' = [req EXCEPT ![r] = to]
         /\ \/ /\ to.at \in {"pay waits", "delete waits", "submit waits"}
               /\ to.fee \in FeeIds
            \/ /\ to.at \in {"approve waits", "reject waits"}
               /\ to.claim \in ClaimIds
  <2>1. CASE ArriveForFee(r)
    <3>1. PICK f \in FeeIds, step \in {"pay waits", "delete waits", "submit waits"} :
             req' = [req EXCEPT ![r] = [at |-> step, fee |-> f, claim |-> None, open |-> FALSE]]
      BY <2>1 DEF ArriveForFee
    <3> DEFINE to == [at |-> step, fee |-> f, claim |-> None, open |-> FALSE]
    <3>2. to \in [at : Steps, fee : FeeIds \cup {None}, claim : ClaimIds \cup {None}, open : BOOLEAN]
      BY DEF Steps
    <3>3. to.at = step /\ to.fee = f
      OBVIOUS
    <3>4. req' = [req EXCEPT ![r] = to]
      BY <3>1
    <3>5. to.at \in {"pay waits", "delete waits", "submit waits"} /\ to.fee \in FeeIds
      BY <3>3
    <3> HIDE DEF to
    <3> QED  BY <3>2, <3>4, <3>5
  <2>2. CASE ArriveForClaim(r)
    <3>1. PICK c \in ClaimIds, step \in {"approve waits", "reject waits"} :
             req' = [req EXCEPT ![r] = [at |-> step, fee |-> None, claim |-> c, open |-> FALSE]]
      BY <2>2 DEF ArriveForClaim
    <3> DEFINE to == [at |-> step, fee |-> None, claim |-> c, open |-> FALSE]
    <3>2. to \in [at : Steps, fee : FeeIds \cup {None}, claim : ClaimIds \cup {None}, open : BOOLEAN]
      BY DEF Steps
    <3>3. to.at = step /\ to.claim = c
      OBVIOUS
    <3>4. req' = [req EXCEPT ![r] = to]
      BY <3>1
    <3>5. to.at \in {"approve waits", "reject waits"} /\ to.claim \in ClaimIds
      BY <3>3
    <3> HIDE DEF to
    <3> QED  BY <3>2, <3>4, <3>5
  <2> QED  BY <2>1, <2>2
<1>2. UNCHANGED tables
  BY DEF ArriveForFee, ArriveForClaim
<1>3. req'[r] = to
  BY <1>1 DEF IInv, TypeOK
<1>4. Knows(r)'
  BY <1>1, <1>3 DEF Knows, FeeSteps, ClaimSteps, FeeLockSteps, ClaimLockSteps
<1>5. to.at \notin FeeLockSteps /\ to.at \notin ClaimLockSteps
  BY <1>1 DEF FeeLockSteps, ClaimLockSteps
<1> QED  BY <1>1, <1>2, <1>4, <1>5, MoveInv

\* A request locks the fee it was sent for, or finds no such fee.
LEMMA LockFeeInv ==
  ASSUME IInv, NEW r \in Requests,
         PayLock(r) \/ DeleteLock(r) \/ SubmitLock(r)
  PROVE  IInv'
<1>1. PICK waiting \in {"pay waits", "delete waits", "submit waits"},
           locked \in {"pay locked", "delete locked", "submit locked"} : LockFee(r, waiting, locked)
  BY DEF PayLock, DeleteLock, SubmitLock
<1>2. CASE FeeExists(req[r].fee)
  <2> DEFINE to == [req[r] EXCEPT !.at = locked]
  <2>1. /\ UNCHANGED tables
        /\ req' = [req EXCEPT ![r] = to]
        /\ FeeFree(req[r].fee)
    BY <1>1, <1>2 DEF LockFee, Goto, IInv, TypeOK
  <2>2. /\ to \in [at : Steps, fee : FeeIds \cup {None}, claim : ClaimIds \cup {None}, open : BOOLEAN]
        /\ to.at = locked /\ to.fee = req[r].fee
        /\ req'[r] = to
    BY <2>1 DEF IInv, TypeOK, Steps
  <2>3. Knows(r)'
    BY <1>2, <2>1, <2>2 DEF Knows, FeeExists, tables, FeeSteps, ClaimSteps, FeeLockSteps, ClaimLockSteps
  <2> HIDE DEF to
  <2> QED  BY <2>1, <2>2, <2>3, MoveInv DEF ClaimLockSteps
<1>3. CASE ~FeeExists(req[r].fee)
  BY <1>1, <1>3, RefuseInv DEF LockFee, Refuse
<1> QED  BY <1>2, <1>3

\* A reviewer locks the claim, or finds no such claim.
LEMMA LockClaimInv ==
  ASSUME IInv, NEW r \in Requests, ApproveLock(r) \/ RejectLock(r)
  PROVE  IInv'
<1>1. PICK waiting \in {"approve waits", "reject waits"},
           locked \in {"approve locked", "reject locked"} : LockClaim(r, waiting, locked)
  BY DEF ApproveLock, RejectLock
<1>2. CASE ClaimExists(req[r].claim)
  <2> DEFINE to == [req[r] EXCEPT !.at = locked]
  <2>1. /\ UNCHANGED tables
        /\ req' = [req EXCEPT ![r] = to]
        /\ ClaimFree(req[r].claim)
        /\ req[r].claim \in ClaimIds
    BY <1>1, <1>2 DEF LockClaim, At, Goto, IInv, TypeOK, Knows, ClaimSteps
  <2>2. /\ to \in [at : Steps, fee : FeeIds \cup {None}, claim : ClaimIds \cup {None}, open : BOOLEAN]
        /\ to.at = locked /\ to.claim = req[r].claim
        /\ req'[r] = to
    BY <2>1 DEF IInv, TypeOK, Steps
  <2>3. Knows(r)'
    BY <2>1, <2>2 DEF Knows, FeeSteps, ClaimSteps, FeeLockSteps, ClaimLockSteps
  <2> HIDE DEF to
  <2> QED  BY <2>1, <2>2, <2>3, MoveInv DEF FeeLockSteps
<1>3. CASE ~ClaimExists(req[r].claim)
  BY <1>1, <1>3, RefuseInv DEF LockClaim, Refuse
<1> QED  BY <1>2, <1>3

\* delete_fee and submit_claim look at the locked fee and at its claims.
LEMMA CheckFeeInv ==
  ASSUME IInv, NEW r \in Requests, DeleteCheck(r) \/ SubmitCheck(r)
  PROVE  IInv'
<1>1. CASE feeStatus[req[r].fee] = "paid"
  BY <1>1, RefuseInv DEF DeleteCheck, SubmitCheck, Refuse
<1>2. CASE feeStatus[req[r].fee] # "paid"
  <2>1. PICK to : /\ req' = [req EXCEPT ![r] = to]
                  /\ to \in [at : Steps, fee : FeeIds \cup {None}, claim : ClaimIds \cup {None}, open : BOOLEAN]
                  /\ to.fee = req[r].fee
                  /\ \/ /\ DeleteCheck(r)
                        /\ to.at = "delete checked"
                        /\ to.open = (ClaimsOn(req[r].fee, {"pending", "approved"}) # {})
                     \/ /\ SubmitCheck(r)
                        /\ to.at = "submit checked"
                        /\ to.open = (ClaimsOn(req[r].fee, {"pending"}) # {})
    <3>1. CASE DeleteCheck(r)
      <4> DEFINE to == [req[r] EXCEPT !.at = "delete checked",
                                      !.open = ClaimsOn(req[r].fee, {"pending", "approved"}) # {}]
      <4> WITNESS to
      <4> QED  BY <1>2, <3>1 DEF DeleteCheck, IInv, TypeOK, Steps
    <3>2. CASE SubmitCheck(r)
      <4> DEFINE to == [req[r] EXCEPT !.at = "submit checked",
                                      !.open = ClaimsOn(req[r].fee, {"pending"}) # {}]
      <4> WITNESS to
      <4> QED  BY <1>2, <3>2 DEF SubmitCheck, IInv, TypeOK, Steps
    <3> QED  BY <3>1, <3>2
  <2>2. UNCHANGED tables /\ req[r].at \in {"delete locked", "submit locked"} /\ req'[r] = to
    BY <2>1 DEF DeleteCheck, SubmitCheck, At, IInv, TypeOK
  <2>3. HoldsFee(r, to.fee) /\ req[r].fee \in FeeIds /\ feeStatus[req[r].fee] = "pending"
    BY <2>1, <2>2, <1>2 DEF HoldsFee, FeeLockSteps, FeeSteps, IInv, Knows
  <2>4. /\ ~to.open => \A c \in ClaimIds : claimFee[c] = to.fee => claimStatus[c] # "pending"
        /\ ~to.open /\ to.at = "delete checked" =>
              \A c \in ClaimIds : claimFee[c] = to.fee => claimStatus[c] # "approved"
    BY <2>1 DEF ClaimsOn
  <2>5. Knows(r)'
    BY <2>1, <2>2, <2>3, <2>4 DEF Knows, tables, FeeSteps, ClaimSteps, FeeLockSteps, ClaimLockSteps
  <2> QED  BY <2>1, <2>2, <2>3, <2>5, MoveInv DEF ClaimLockSteps
<1> QED  BY <1>1, <1>2

\* approve_claim looks at the locked claim, then locks its fee.
LEMMA ApproveReadsInv ==
  ASSUME IInv, NEW r \in Requests, ApproveCheck(r) \/ ApproveLockFee(r)
  PROVE  IInv'
<1>1. CASE ApproveCheck(r) /\ claimStatus[req[r].claim] # "pending"
  BY <1>1, RefuseInv DEF ApproveCheck, Refuse
<1>2. CASE ApproveCheck(r) /\ claimStatus[req[r].claim] = "pending"
  <2> DEFINE to == [req[r] EXCEPT !.at = "approve waits for fee", !.fee = claimFee[req[r].claim]]
  <2>1. /\ UNCHANGED tables
        /\ req' = [req EXCEPT ![r] = to]
        /\ req[r].claim \in ClaimIds /\ HoldsClaim(r, req[r].claim)
    BY <1>2 DEF ApproveCheck, At, IInv, TypeOK, Knows, ClaimSteps, ClaimLockSteps, HoldsClaim
  <2>2. claimFee[req[r].claim] \in FeeIds
    BY <1>2, <2>1 DEF IInv, ClaimsAreBacked, ClaimExists, FeeExists
  <2>3. /\ to \in [at : Steps, fee : FeeIds \cup {None}, claim : ClaimIds \cup {None}, open : BOOLEAN]
        /\ to.at = "approve waits for fee" /\ to.claim = req[r].claim /\ to.fee = claimFee[req[r].claim]
        /\ req'[r] = to
    BY <2>1, <2>2 DEF IInv, TypeOK, Steps
  <2>4. Knows(r)'
    BY <1>2, <2>1, <2>2, <2>3 DEF Knows, tables, FeeSteps, ClaimSteps, FeeLockSteps, ClaimLockSteps
  <2> HIDE DEF to
  <2> QED  BY <2>1, <2>3, <2>4, MoveInv DEF FeeLockSteps
<1>3. CASE ApproveLockFee(r)
  <2> DEFINE to == [req[r] EXCEPT !.at = "approve has both"]
  <2>1. /\ UNCHANGED tables
        /\ req' = [req EXCEPT ![r] = to]
        /\ req[r].at = "approve waits for fee"
        /\ FeeFree(req[r].fee)
    BY <1>3 DEF ApproveLockFee, At, Goto, IInv, TypeOK
  <2>2. /\ HoldsClaim(r, req[r].claim) /\ req[r].claim \in ClaimIds /\ req[r].fee \in FeeIds
        /\ claimStatus[req[r].claim] = "pending" /\ claimFee[req[r].claim] = req[r].fee
    BY <2>1 DEF IInv, Knows, HoldsClaim, FeeSteps, ClaimSteps, FeeLockSteps, ClaimLockSteps
  <2>3. feeStatus[req[r].fee] \in {"pending", "paid"}
    BY <2>2 DEF IInv, ClaimsAreBacked, ClaimExists, FeeExists
  <2>4. /\ to \in [at : Steps, fee : FeeIds \cup {None}, claim : ClaimIds \cup {None}, open : BOOLEAN]
        /\ to.at = "approve has both" /\ to.claim = req[r].claim /\ to.fee = req[r].fee
        /\ req'[r] = to
    BY <2>1 DEF IInv, TypeOK, Steps
  <2>5. Knows(r)'
    BY <2>1, <2>2, <2>3, <2>4 DEF Knows, tables, FeeSteps, ClaimSteps, FeeLockSteps, ClaimLockSteps
  <2> HIDE DEF to
  <2> QED  BY <2>1, <2>2, <2>4, <2>5, MoveInv
<1> QED  BY <1>1, <1>2, <1>3

-----------------------------------------------------------------------------
(* Steps that write *)

\* create_fee, generate_class_fees.
LEMMA CreateInv ==
  ASSUME IInv, NEW new \in SUBSET FeeIds, CreateFees(new)
  PROVE  IInv'
<1> USE DEF CreateFees
<1>1. \A f \in FeeIds : feeStatus[f] # "unused" => feeStatus'[f] = feeStatus[f]
  OBVIOUS
<1>2. TypeOK' /\ PaidExactlyOnce'
  BY DEF IInv, TypeOK, FeeStates, PaidExactlyOnce
<1>3. OneClaimUnderReview' /\ LocksAreExclusive'
  BY DEF IInv, OneClaimUnderReview, LocksAreExclusive, HoldsFee, HoldsClaim
<1>4. ClaimsAreBacked'
  BY <1>1 DEF IInv, ClaimsAreBacked, ClaimExists, FeeExists, TypeOK
<1>5. ASSUME NEW q \in Requests PROVE Knows(q)'
  BY <1>1, <1>5 DEF IInv, Knows, FeeSteps, FeeLockSteps
<1> QED  BY <1>2, <1>3, <1>4, <1>5 DEF IInv

\* _mark_paid under the fee's lock: every claim of the fee keeps its state, and
\* no other request relies on the fee being unpaid.
LEMMA MarkPaidInv ==
  ASSUME IInv, NEW r \in Requests, req[r].fee \in FeeIds, HoldsFee(r, req[r].fee),
         feeStatus[req[r].fee] \in {"pending", "paid"}, MarkPaid(req[r].fee)
  PROVE  /\ feeStatus' \in [FeeIds -> FeeStates] /\ payments' \in [FeeIds -> Nat]
         /\ PaidExactlyOnce'
         /\ feeStatus'[req[r].fee] = "paid"
         /\ \A f \in FeeIds : f # req[r].fee => feeStatus'[f] = feeStatus[f]
         /\ \A q \in Requests \ {r} :
               req[q].at \in FeeLockSteps => feeStatus'[req[q].fee] = feeStatus[req[q].fee]
<1>1. feeStatus' \in [FeeIds -> FeeStates] /\ payments' \in [FeeIds -> Nat]
  BY DEF MarkPaid, IInv, TypeOK, FeeStates
<1>2. /\ feeStatus'[req[r].fee] = "paid"
      /\ \A f \in FeeIds : f # req[r].fee => feeStatus'[f] = feeStatus[f]
  BY DEF MarkPaid, IInv, TypeOK
<1>3. PaidExactlyOnce'
  BY DEF MarkPaid, IInv, TypeOK, PaidExactlyOnce
<1>4. ASSUME NEW q \in Requests \ {r}, req[q].at \in FeeLockSteps
      PROVE  feeStatus'[req[q].fee] = feeStatus[req[q].fee]
  <2>1. req[q].fee \in FeeIds /\ HoldsFee(q, req[q].fee)
    BY <1>4 DEF IInv, Knows, FeeSteps, HoldsFee
  <2>2. req[q].fee # req[r].fee
    BY <2>1 DEF IInv, LocksAreExclusive
  <2> QED  BY <1>2, <2>1, <2>2
<1> QED  BY <1>1, <1>2, <1>3, <1>4

\* pay_fee marks its locked fee paid and ends.
LEMMA PayFeeInv ==
  ASSUME IInv, NEW r \in Requests, PayFee(r)
  PROVE  IInv'
<1>1. /\ req[r].fee \in FeeIds /\ HoldsFee(r, req[r].fee)
      /\ feeStatus[req[r].fee] \in {"pending", "paid"}
      /\ MarkPaid(req[r].fee) /\ Finish(r) /\ UNCHANGED <<claimStatus, claimFee>>
  BY DEF PayFee, At, IInv, Knows, FeeSteps, HoldsFee, FeeLockSteps
<1>2. TypeOK' /\ LocksAreExclusive' /\ PaidExactlyOnce'
  BY <1>1, MarkPaidInv, FinishReleases DEF IInv, TypeOK
<1>3. OneClaimUnderReview' /\ ClaimsAreBacked'
  BY <1>1, MarkPaidInv DEF IInv, OneClaimUnderReview, ClaimsAreBacked, ClaimExists, FeeExists
<1>4. ASSUME NEW q \in Requests PROVE Knows(q)'
  <2>1. CASE q = r
    BY <1>1, <2>1, FinishReleases
  <2>2. CASE q # r
    <3>1. req'[q] = req[q] /\ Knows(q)
      BY <1>1, <2>2, FinishReleases DEF IInv
    <3>2. req[q].at \in FeeLockSteps => feeStatus'[req[q].fee] = feeStatus[req[q].fee]
      BY <1>1, <2>2, MarkPaidInv
    <3> QED  BY <1>1, <3>1, <3>2 DEF Knows, FeeLockSteps
  <2> QED  BY <2>1, <2>2
<1> QED  BY <1>2, <1>3, <1>4 DEF IInv

\* approve_claim approves its locked claim, marks the locked fee paid and ends.
LEMMA ApproveClaimInv ==
  ASSUME IInv, NEW r \in Requests, ApproveClaim(r)
  PROVE  IInv'
<1> DEFINE k == req[r].claim
<1>1. /\ req[r].fee \in FeeIds /\ HoldsFee(r, req[r].fee)
      /\ k \in ClaimIds /\ HoldsClaim(r, k)
      /\ feeStatus[req[r].fee] \in {"pending", "paid"}
      /\ claimStatus[k] = "pending" /\ claimFee[k] = req[r].fee
      /\ MarkPaid(req[r].fee) /\ Finish(r) /\ UNCHANGED claimFee
      /\ claimStatus' = [claimStatus EXCEPT ![k] = "approved"]
  BY DEF ApproveClaim, At, IInv, Knows, FeeSteps, ClaimSteps, HoldsFee, HoldsClaim, FeeLockSteps, ClaimLockSteps
<1> HIDE DEF k
<1>2. TypeOK' /\ LocksAreExclusive' /\ PaidExactlyOnce'
  BY <1>1, MarkPaidInv, FinishReleases DEF IInv, TypeOK, ClaimStates
<1>3. /\ claimStatus'[k] = "approved"
      /\ \A c \in ClaimIds : c # k => claimStatus'[c] = claimStatus[c]
  BY <1>1 DEF IInv, TypeOK
<1>4. OneClaimUnderReview' /\ ClaimsAreBacked'
  BY <1>1, <1>3, MarkPaidInv DEF IInv, OneClaimUnderReview, ClaimsAreBacked, ClaimExists, FeeExists
<1>5. ASSUME NEW q \in Requests PROVE Knows(q)'
  <2>1. CASE q = r
    BY <1>1, <2>1, FinishReleases
  <2>2. CASE q # r
    <3>1. req'[q] = req[q] /\ Knows(q)
      BY <1>1, <2>2, FinishReleases DEF IInv
    <3>2. req[q].at \in FeeLockSteps => req[q].fee # req[r].fee /\ feeStatus'[req[q].fee] = feeStatus[req[q].fee]
      BY <1>1, <2>2, MarkPaidInv DEF IInv, LocksAreExclusive, HoldsFee, Knows, FeeSteps
    <3>3. req[q].at \in ClaimLockSteps => req[q].claim # k
      BY <1>1, <2>2 DEF IInv, LocksAreExclusive, HoldsClaim
    <3> QED
      BY <1>1, <1>3, <3>1, <3>2, <3>3 DEF Knows, FeeSteps, ClaimSteps, FeeLockSteps, ClaimLockSteps
  <2> QED  BY <2>1, <2>2
<1> QED  BY <1>2, <1>4, <1>5 DEF IInv

\* reject_claim rejects its locked claim, if that is still pending, and ends.
LEMMA RejectClaimInv ==
  ASSUME IInv, NEW r \in Requests, RejectClaim(r)
  PROVE  IInv'
<1> DEFINE k == req[r].claim
<1>1. /\ k \in ClaimIds /\ HoldsClaim(r, k)
      /\ Finish(r) /\ UNCHANGED <<feeStatus, payments, claimFee>>
      /\ claimStatus' \in [ClaimIds -> ClaimStates]
      /\ \A c \in ClaimIds : c # k => claimStatus'[c] = claimStatus[c]
      /\ claimStatus'[k] = IF claimStatus[k] = "pending" THEN "rejected" ELSE claimStatus[k]
  BY DEF RejectClaim, At, IInv, TypeOK, ClaimStates, Knows, ClaimSteps, HoldsClaim, ClaimLockSteps
<1> HIDE DEF k
<1>2. TypeOK' /\ LocksAreExclusive' /\ PaidExactlyOnce'
  BY <1>1, FinishReleases DEF IInv, TypeOK, PaidExactlyOnce
<1>3. \A c \in ClaimIds : /\ claimStatus'[c] = "pending" => claimStatus[c] = "pending"
                          /\ claimStatus'[c] = "approved" => claimStatus[c] = "approved"
                          /\ ClaimExists(c)' => ClaimExists(c)
  BY <1>1 DEF ClaimExists
<1>4. OneClaimUnderReview' /\ ClaimsAreBacked'
  BY <1>1, <1>3 DEF IInv, OneClaimUnderReview, ClaimsAreBacked, FeeExists
<1>5. ASSUME NEW q \in Requests PROVE Knows(q)'
  <2>1. CASE q = r
    BY <1>1, <2>1, FinishReleases
  <2>2. CASE q # r
    <3>1. req'[q] = req[q] /\ Knows(q)
      BY <1>1, <2>2, FinishReleases DEF IInv
    <3>2. CASE req[q].at \in {"approve waits for fee", "approve has both"}
      <4>1. req[q].claim \in ClaimIds /\ req[q].claim # k
        BY <1>1, <2>2, <3>1, <3>2
        DEF IInv, LocksAreExclusive, HoldsClaim, Knows, ClaimSteps, ClaimLockSteps
      <4> QED  BY <1>1, <3>1, <3>2, <4>1 DEF Knows
    <3>3. CASE req[q].at \notin {"approve waits for fee", "approve has both"}
      BY <1>1, <1>3, <3>1, <3>3 DEF Knows
    <3> QED  BY <3>2, <3>3
  <2> QED  BY <2>1, <2>2
<1> QED  BY <1>2, <1>4, <1>5 DEF IInv

\* submit_claim inserts the one pending claim of its locked fee and ends.
LEMMA SubmitClaimInv ==
  ASSUME IInv, NEW r \in Requests, NEW k \in ClaimIds, SubmitClaim(r, k)
  PROVE  IInv'
<1> DEFINE f == req[r].fee
<1>1. /\ f \in FeeIds /\ HoldsFee(r, f) /\ feeStatus[f] = "pending"
      /\ \A c \in ClaimIds : claimFee[c] = f => claimStatus[c] # "pending"
      /\ claimStatus[k] = "unused"
      /\ Finish(r) /\ UNCHANGED <<feeStatus, payments>>
      /\ claimStatus' = [claimStatus EXCEPT ![k] = "pending"]
      /\ claimFee' = [claimFee EXCEPT ![k] = f]
  BY DEF SubmitClaim, At, IInv, Knows, FeeSteps, FeeLockSteps, HoldsFee
<1> HIDE DEF f
<1>2. TypeOK' /\ LocksAreExclusive' /\ PaidExactlyOnce'
  BY <1>1, FinishReleases DEF IInv, TypeOK, ClaimStates, PaidExactlyOnce
<1>3. /\ claimStatus'[k] = "pending" /\ claimFee'[k] = f
      /\ \A c \in ClaimIds : c # k => claimStatus'[c] = claimStatus[c] /\ claimFee'[c] = claimFee[c]
  BY <1>1 DEF IInv, TypeOK
<1>4. OneClaimUnderReview' /\ ClaimsAreBacked'
  BY <1>1, <1>3 DEF IInv, OneClaimUnderReview, ClaimsAreBacked, ClaimExists, FeeExists
<1>5. ASSUME NEW q \in Requests PROVE Knows(q)'
  <2>1. CASE q = r
    BY <1>1, <2>1, FinishReleases
  <2>2. CASE q # r
    <3>1. req'[q] = req[q] /\ Knows(q)
      BY <1>1, <2>2, FinishReleases DEF IInv
    <3>2. req[q].at \in {"delete checked", "submit checked"} => req[q].fee # f
      BY <1>1, <2>2 DEF IInv, LocksAreExclusive, HoldsFee, FeeLockSteps
    <3>3. req[q].at \in {"approve waits for fee", "approve has both"} => req[q].claim # k
      BY <1>1, <3>1 DEF Knows
    <3> QED
      BY <1>1, <1>3, <3>1, <3>2, <3>3 DEF Knows, ClaimSteps, ClaimLockSteps
  <2> QED  BY <2>1, <2>2
<1> QED  BY <1>2, <1>4, <1>5 DEF IInv

\* The foreign key never has to refuse delete_fee: its own check is enough.
LEMMA DeleteWrites ==
  ASSUME IInv, NEW r \in Requests, DeleteFee(r)
  PROVE  /\ req[r].fee \in FeeIds /\ HoldsFee(r, req[r].fee) /\ feeStatus[req[r].fee] = "pending"
         /\ ClaimsOn(req[r].fee, {"pending", "approved"}) = {}
         /\ \A c \in ClaimsOn(req[r].fee, {"rejected"}) : ClaimFree(c)
         /\ feeStatus' = [feeStatus EXCEPT ![req[r].fee] = "deleted"]
         /\ claimStatus' = [c \in ClaimIds |-> IF c \in ClaimsOn(req[r].fee, {"rejected"})
                                               THEN "deleted" ELSE claimStatus[c]]
         /\ Finish(r) /\ UNCHANGED <<payments, claimFee>>
<1>1. /\ req[r].at = "delete checked" /\ ~req[r].open
      /\ req[r].fee \in FeeIds /\ HoldsFee(r, req[r].fee) /\ feeStatus[req[r].fee] = "pending"
  BY DEF DeleteFee, At, IInv, Knows, FeeSteps, FeeLockSteps, HoldsFee
<1>2. ClaimsOn(req[r].fee, {"pending", "approved"}) = {}
  BY <1>1 DEF IInv, Knows, ClaimsOn
<1> QED  BY <1>1, <1>2 DEF DeleteFee

\* delete_fee takes the rejected claims and the fee away together and ends.
LEMMA DeleteFeeInv ==
  ASSUME IInv, NEW r \in Requests, DeleteFee(r)
  PROVE  IInv'
<1> DEFINE f == req[r].fee
<1>1. /\ f \in FeeIds /\ HoldsFee(r, f) /\ feeStatus[f] = "pending"
      /\ \A c \in ClaimIds : claimFee[c] = f => claimStatus[c] \notin {"pending", "approved"}
      /\ feeStatus' = [feeStatus EXCEPT ![f] = "deleted"]
      /\ claimStatus' = [c \in ClaimIds |-> IF claimFee[c] = f /\ claimStatus[c] = "rejected"
                                            THEN "deleted" ELSE claimStatus[c]]
      /\ Finish(r) /\ UNCHANGED <<payments, claimFee>>
  BY DeleteWrites DEF ClaimsOn
<1> HIDE DEF f
<1>2. TypeOK' /\ LocksAreExclusive' /\ PaidExactlyOnce'
  BY <1>1, FinishReleases DEF IInv, TypeOK, FeeStates, ClaimStates, PaidExactlyOnce
<1>3. \A c \in ClaimIds : claimStatus[c] \in {"pending", "approved"} =>
                             claimStatus'[c] = claimStatus[c] /\ claimFee[c] # f
  BY <1>1
<1>4. \A c \in ClaimIds : claimStatus'[c] \in {"pending", "approved", "rejected"} =>
                             claimStatus'[c] = claimStatus[c] /\ claimFee[c] # f
  BY <1>1 DEF IInv, TypeOK, ClaimStates
<1>5. OneClaimUnderReview' /\ ClaimsAreBacked'
  <2>1. \A g \in FeeIds : g # f => feeStatus'[g] = feeStatus[g]
    BY <1>1 DEF IInv, TypeOK
  <2> QED
    BY <1>1, <1>4, <2>1 DEF IInv, OneClaimUnderReview, ClaimsAreBacked, ClaimExists, FeeExists
<1>6. ASSUME NEW q \in Requests PROVE Knows(q)'
  <2>1. CASE q = r
    BY <1>1, <2>1, FinishReleases
  <2>2. CASE q # r
    <3>1. req'[q] = req[q] /\ Knows(q)
      BY <1>1, <2>2, FinishReleases DEF IInv
    <3>2. req[q].at \in FeeLockSteps => req[q].fee # f /\ req[q].fee \in FeeIds
      BY <1>1, <2>2, <3>1 DEF IInv, LocksAreExclusive, HoldsFee, Knows, FeeSteps
    <3>3. req[q].at \in FeeLockSteps => feeStatus'[req[q].fee] = feeStatus[req[q].fee]
      BY <1>1, <3>2 DEF IInv, TypeOK
    <3>4. \A c \in ClaimIds : claimStatus'[c] \in {"pending", "approved"} => claimStatus'[c] = claimStatus[c]
      BY <1>4
    <3>5. req[q].at \in {"approve waits for fee", "approve has both"} =>
             claimStatus'[req[q].claim] = claimStatus[req[q].claim]
      BY <1>3, <3>1 DEF Knows, ClaimSteps, ClaimLockSteps
    <3> QED
      BY <1>1, <3>1, <3>3, <3>4, <3>5 DEF Knows, FeeLockSteps
  <2> QED  BY <2>1, <2>2
<1> QED  BY <1>2, <1>5, <1>6 DEF IInv

-----------------------------------------------------------------------------
(* The invariant, and what follows from it *)

\* Every step of every request keeps the inductive invariant.
LEMMA NextInv == IInv /\ [Next]_vars => IInv'
<1> SUFFICES ASSUME IInv, [Next]_vars PROVE IInv'
  OBVIOUS
<1>1. CASE \E new \in SUBSET FeeIds : CreateFees(new)
  BY <1>1, CreateInv
<1>2. ASSUME NEW r \in Requests, ArriveForFee(r) \/ ArriveForClaim(r) PROVE IInv'
  BY <1>2, ArriveInv
<1>3. ASSUME NEW r \in Requests, Lock(r) PROVE IInv'
  BY <1>3, LockFeeInv, LockClaimInv, ApproveReadsInv DEF Lock
<1>4. ASSUME NEW r \in Requests, Work(r) PROVE IInv'
  <2>1. CASE DeleteRefused(r) \/ SubmitRefused(r)
    BY <2>1, RefuseInv DEF DeleteRefused, SubmitRefused
  <2> QED
    BY <1>4, <2>1, PayFeeInv, CheckFeeInv, DeleteFeeInv, SubmitClaimInv, ApproveReadsInv,
       ApproveClaimInv, RejectClaimInv DEF Work
<1>5. ASSUME NEW r \in Requests, Abort(r) PROVE IInv'
  BY <1>5, RefuseInv DEF Abort
<1>6. CASE UNCHANGED vars
  BY <1>6 DEF vars, IInv, TypeOK, PaidExactlyOnce, OneClaimUnderReview, ClaimsAreBacked, ClaimExists,
     FeeExists, LocksAreExclusive, HoldsFee, HoldsClaim, Knows
<1> QED  BY <1>1, <1>2, <1>3, <1>4, <1>5, <1>6 DEF Next

\* fees.py: whatever the requests and however they interleave or fail, IInv holds.
THEOREM Invariance == Spec => []IInv
  BY InitInv, NextInv, PTL DEF Spec

\* Every variable keeps its type.
THEOREM TypeCorrect == Spec => []TypeOK
  BY Invariance, PTL DEF IInv

\* A fee is never paid twice: no sequence of pay_fee and approve_claim calls, by
\* any number of clerks, records a second payment or a payment without its fee.
THEOREM NeverPaidTwice == Spec => []PaidExactlyOnce
  BY Invariance, PTL DEF IInv

\* submit_claim never leaves two claims of one fee under review.
THEOREM OneReviewAtATime == Spec => []OneClaimUnderReview
  BY Invariance, PTL DEF IInv

\* delete_fee never takes a fee from under a claim; approved claims are paid.
THEOREM ClaimsStayBacked == Spec => []ClaimsAreBacked
  BY Invariance, PTL DEF IInv

\* All three at once, as the run checks them.
THEOREM BooksStayExact == Spec => []BooksAreExact
  BY NeverPaidTwice, OneReviewAtATime, ClaimsStayBacked, PTL DEF BooksAreExact

\* A request that waits for a claim's lock in delete_fee waits for a reviewer
\* that will find the claim rejected and stop, so for one that waits for nobody.
LEMMA InvNoDeadlock == IInv => NoDeadlock
<1> SUFFICES ASSUME IInv, NEW S \in SUBSET Requests, S # {}
             PROVE  \E r \in S : \A q \in S : ~WaitsFor(r, q)
  BY DEF NoDeadlock
<1> SUFFICES ASSUME \A r \in S : \E q \in S : WaitsFor(r, q) PROVE FALSE
  OBVIOUS
<1>1. ASSUME NEW r \in S PROVE req[r].at # "delete checked"
  <2> SUFFICES ASSUME req[r].at = "delete checked" PROVE FALSE
    OBVIOUS
  <2>1. PICK q \in S, c \in ClaimsOn(req[r].fee, {"rejected"}) : HoldsClaim(q, c)
    BY DEF WaitsFor, At, DeleteQueues
  <2>2. claimStatus[req[q].claim] = "rejected" /\ req[q].at \in ClaimLockSteps
    BY <2>1 DEF ClaimsOn, HoldsClaim
  <2>3. req[q].at \in {"approve locked", "reject locked"}
    BY <2>2 DEF IInv, Knows, ClaimLockSteps
  <2> QED  BY <2>3 DEF WaitsFor, At, DeleteQueues
<1>2. ASSUME NEW r \in S PROVE req[r].at \notin FeeLockSteps
  BY <1>1, <1>2 DEF WaitsFor, At, FeeLockSteps, DeleteQueues
<1>3. ASSUME NEW r \in S PROVE req[r].at \notin {"pay waits", "delete waits", "submit waits", "approve waits for fee"}
  BY <1>1, <1>2, <1>3 DEF WaitsFor, At, HoldsFee, DeleteQueues
<1>4. ASSUME NEW r \in S PROVE req[r].at \in {"approve waits", "reject waits"}
  BY <1>1, <1>3 DEF WaitsFor, At, DeleteQueues
<1> QED
  BY <1>1, <1>4 DEF WaitsFor, At, HoldsFee, HoldsClaim, DeleteQueues, FeeLockSteps, ClaimLockSteps

\* The opposite lock orders of approve_claim and delete_fee never deadlock.
THEOREM DeadlockFree == Spec => []NoDeadlock
  BY Invariance, InvNoDeadlock, PTL

-----------------------------------------------------------------------------
(* The requests implement the ledger *)

\* The empty tables are the empty ledger.
LEMMA LedgerInit == Init => Ledger!Init
  BY DEF Init, Ledger!Init

\* Every step of a request is one step of the ledger or none: what a request
\* learnt under its locks is what the ledger's operation asks for.
LEMMA LedgerStep == IInv /\ [Next]_vars => [Ledger!Next]_(Ledger!ledger)
<1> SUFFICES ASSUME IInv, [Next]_vars PROVE Ledger!Next \/ UNCHANGED tables
  BY DEF tables, Ledger!ledger
<1>1. ASSUME NEW new \in SUBSET FeeIds, CreateFees(new) PROVE Ledger!Next
  BY <1>1 DEF CreateFees, Ledger!Next, Ledger!Create
<1>2. ASSUME NEW r \in Requests, PayFee(r) PROVE Ledger!Next \/ UNCHANGED tables
  <2>1. req[r].fee \in FeeIds
    BY <1>2 DEF PayFee, At, IInv, Knows, FeeSteps, FeeLockSteps
  <2> QED  BY <1>2, <2>1 DEF PayFee, MarkPaid, tables, Ledger!Next, Ledger!Pay, Ledger!Settle
<1>3. ASSUME NEW r \in Requests, DeleteFee(r) PROVE Ledger!Next
  <2>1. Ledger!Delete(req[r].fee)
    BY <1>3, DeleteWrites DEF ClaimsOn, Ledger!Delete, Ledger!ClaimsOn
  <2> QED  BY <1>3, <2>1, DeleteWrites DEF Ledger!Next
<1>4. ASSUME NEW r \in Requests, NEW c \in ClaimIds, SubmitClaim(r, c) PROVE Ledger!Next
  <2>1. req[r].fee \in FeeIds /\ feeStatus[req[r].fee] = "pending"
        /\ Ledger!ClaimsOn(req[r].fee, {"pending"}) = {}
    BY <1>4 DEF SubmitClaim, At, IInv, Knows, FeeSteps, FeeLockSteps, Ledger!ClaimsOn
  <2> QED  BY <1>4, <2>1 DEF SubmitClaim, Ledger!Next, Ledger!Submit
<1>5. ASSUME NEW r \in Requests, ApproveClaim(r) PROVE Ledger!Next
  <2>1. /\ req[r].claim \in ClaimIds /\ claimStatus[req[r].claim] = "pending"
        /\ claimFee[req[r].claim] = req[r].fee
        /\ feeStatus[req[r].fee] \in {"pending", "paid"}
    BY <1>5 DEF ApproveClaim, At, IInv, Knows, ClaimSteps, FeeLockSteps, ClaimLockSteps
  <2> QED  BY <1>5, <2>1 DEF ApproveClaim, MarkPaid, Ledger!Next, Ledger!Approve, Ledger!Settle
<1>6. ASSUME NEW r \in Requests, RejectClaim(r) PROVE Ledger!Next \/ UNCHANGED tables
  <2>1. req[r].claim \in ClaimIds
    BY <1>6 DEF RejectClaim, At, IInv, Knows, ClaimSteps, ClaimLockSteps
  <2> QED  BY <1>6, <2>1 DEF RejectClaim, tables, Ledger!Next, Ledger!Reject
<1>7. ASSUME NEW r \in Requests, ArriveForFee(r) \/ ArriveForClaim(r) \/ Lock(r) \/ Abort(r)
      PROVE  UNCHANGED tables
  BY <1>7 DEF ArriveForFee, ArriveForClaim, Lock, Abort, Refuse, PayLock, DeleteLock, SubmitLock,
     ApproveLock, RejectLock, ApproveLockFee, LockFee, LockClaim
<1>8. ASSUME NEW r \in Requests, Work(r) PROVE Ledger!Next \/ UNCHANGED tables
  <2>1. CASE DeleteCheck(r) \/ DeleteRefused(r) \/ SubmitCheck(r) \/ SubmitRefused(r) \/ ApproveCheck(r)
    BY <2>1 DEF DeleteCheck, DeleteRefused, SubmitCheck, SubmitRefused, ApproveCheck, Refuse
  <2> QED  BY <1>2, <1>3, <1>4, <1>5, <1>6, <1>8, <2>1 DEF Work
<1>9. CASE UNCHANGED vars
  BY <1>9 DEF vars, tables
<1> QED  BY <1>1, <1>7, <1>8, <1>9 DEF Next

\* The row-locking requests of fees.py behave like one ledger of atomic operations.
THEOREM ImplementsLedger == Spec => LedgerSpec
<1>1. Init => Ledger!Init
  BY LedgerInit
<1>2. IInv /\ [Next]_vars => [Ledger!Next]_(Ledger!ledger)
  BY LedgerStep
<1> QED  BY <1>1, <1>2, Invariance, PTL DEF Spec, LedgerSpec, Ledger!Spec

-----------------------------------------------------------------------------
\* No operation of the ledger takes a payment or an approval back.
LEMMA LedgerStepIsFinal ==
  IInv /\ [Next]_vars =>
    /\ \A f \in FeeIds : feeStatus[f] = "paid" => feeStatus'[f] = "paid"
    /\ \A c \in ClaimIds : claimStatus[c] = "approved" => claimStatus'[c] = "approved"
<1> SUFFICES ASSUME IInv, Ledger!Next \/ UNCHANGED tables
             PROVE  /\ \A f \in FeeIds : feeStatus[f] = "paid" => feeStatus'[f] = "paid"
                    /\ \A c \in ClaimIds : claimStatus[c] = "approved" => claimStatus'[c] = "approved"
  BY LedgerStep DEF tables, Ledger!ledger
<1> USE DEF IInv, TypeOK
<1>1. ASSUME NEW new \in SUBSET FeeIds, Ledger!Create(new)
      PROVE  UNCHANGED claimStatus /\ \A f \in FeeIds : feeStatus[f] = "paid" => feeStatus'[f] = "paid"
  BY <1>1 DEF Ledger!Create
<1>2. ASSUME NEW g \in FeeIds, Ledger!Pay(g)
      PROVE  UNCHANGED claimStatus /\ \A f \in FeeIds : feeStatus[f] = "paid" => feeStatus'[f] = "paid"
  BY <1>2 DEF Ledger!Pay, Ledger!Settle
<1>3. ASSUME NEW g \in FeeIds, Ledger!Delete(g)
      PROVE  /\ \A f \in FeeIds : feeStatus[f] = "paid" => feeStatus'[f] = "paid"
             /\ \A c \in ClaimIds : claimStatus[c] = "approved" => claimStatus'[c] = "approved"
  BY <1>3 DEF Ledger!Delete, Ledger!ClaimsOn
<1>4. ASSUME NEW g \in FeeIds, NEW k \in ClaimIds, Ledger!Submit(g, k)
      PROVE  /\ UNCHANGED feeStatus
             /\ \A c \in ClaimIds : claimStatus[c] = "approved" => claimStatus'[c] = "approved"
  BY <1>4 DEF Ledger!Submit
<1>5. ASSUME NEW k \in ClaimIds, Ledger!Approve(k)
      PROVE  /\ \A f \in FeeIds : feeStatus[f] = "paid" => feeStatus'[f] = "paid"
             /\ \A c \in ClaimIds : claimStatus[c] = "approved" => claimStatus'[c] = "approved"
  BY <1>5 DEF Ledger!Approve, Ledger!Settle
<1>6. ASSUME NEW k \in ClaimIds, Ledger!Reject(k)
      PROVE  /\ UNCHANGED feeStatus
             /\ \A c \in ClaimIds : claimStatus[c] = "approved" => claimStatus'[c] = "approved"
  BY <1>6 DEF Ledger!Reject
<1> QED  BY <1>1, <1>2, <1>3, <1>4, <1>5, <1>6 DEF Ledger!Next, tables

\* Once paid, a fee stays paid; once approved, a claim stays approved.
THEOREM MoneyStaysFinal == Spec => MoneyIsFinal
<1>1. IInv /\ [Next]_vars =>
        [/\ \A f \in FeeIds : feeStatus[f] = "paid" => feeStatus'[f] = "paid"
         /\ \A c \in ClaimIds : claimStatus[c] = "approved" => claimStatus'[c] = "approved"]_vars
  BY LedgerStepIsFinal
<1> QED  BY <1>1, Invariance, PTL DEF Spec, MoneyIsFinal
=============================================================================
