--------------------------- MODULE Substitutions ---------------------------
(***************************************************************************)
(* Leave requests and the substitutes for one period of one school day     *)
(* (app/services/hr.py, substitutions.py, leaving.py), as concurrent API   *)
(* calls whose transactions lock rows one after the other.                 *)
(*                                                                         *)
(* A call's writes are one action with its COMMIT.  Row locks taken before *)
(* are in call[r].holds.  A foreign key's shared lock on the row it points *)
(* to (a notification's user, a request's people and leave) is taken in    *)
(* that last action, which waits for it.  Plain reads see what is          *)
(* committed at the transaction's first one (REPEATABLE READ).  What the   *)
(* other rules say (rights, Sundays, holidays, the substitute's own leave) *)
(* can only refuse a call, and so can Abort.                               *)
(***************************************************************************)
EXTENDS Naturals, FiniteSets, FiniteSetsExt

CONSTANTS Calls,       \* API calls in flight at once
          SubIds,      \* substitution_requests.id
          LeaveIds,    \* leave_requests.id
          Users,       \* users.id of the teachers: numbers, they order the locks
          Schools,     \* [staff, teaches, subs, leaves]: the teachers, those with a
                       \* class in the period, the ids still free; others have the rest
          Departing,   \* bound: who may leave
          None

ASSUME SchoolsAssumption ==
    \A school \in Schools :
        /\ school \in [staff : SUBSET Users, teaches : SUBSET Users, subs : SUBSET SubIds, leaves : SUBSET LeaveIds]
        /\ school.teaches \subseteq school.staff

\* The ids are numbers, and NULL is none of them.
ASSUME IdsAssumption == Users \subseteq Nat /\ None \notin Users \cup LeaveIds

VARIABLES sub,      \* substitution_requests for this period
          leave,    \* leave_requests; covers: the day is in from_date..to_date
          teaches,  \* timetable_slots: who has a class in the period
          staff,    \* users with is_active
          past,     \* the day is over
          call

tables == <<sub, leave, teaches, staff>>
vars == <<sub, leave, teaches, staff, past, call>>

Open == {"pending", "accepted"}
Answers == {"decline", "withdraw", "cancel"}
LeaveOps == {"change", "drop", "approve", "reject"}

NoSub == [status |-> "none", requester |-> None, substitute |-> None, leave |-> None]
OtherSub == [NoSub EXCEPT !.status = "other"]
NoLeave == [status |-> "none", user |-> None, covers |-> FALSE]
OtherLeave == [NoLeave EXCEPT !.status = "other"]
Idle == [op |-> "none", at |-> "idle", sub |-> None, leave |-> None,
         who |-> None, whom |-> None, covers |-> FALSE, holds |-> {}]

User(u) == <<"user", u>>
Row(i) == <<"sub", i>>
Leave(l) == <<"leave", l>>
LockRows == {User(u) : u \in Users} \cup {Row(i) : i \in SubIds} \cup {Leave(l) : l \in LeaveIds}

TypeOK ==
    /\ sub \in [SubIds -> [status : {"none", "other", "declined", "cancelled", "withdrawn", "filled"} \cup Open,
                           requester : Users \cup {None}, substitute : Users \cup {None},
                           leave : LeaveIds \cup {None}]]
    /\ leave \in [LeaveIds -> [status : {"none", "other", "pending", "approved", "rejected", "cancelled", "deleted"},
                               user : Users \cup {None}, covers : BOOLEAN]]
    /\ teaches \subseteq staff /\ staff \subseteq Users
    /\ past \in BOOLEAN
    /\ call \in [Calls -> [op : {"none", "accept", "ask", "apply", "left"} \cup Answers \cup LeaveOps,
                           at : {"idle", "user", "row", "leave", "rows", "write"},
                           sub : SubIds \cup {None}, leave : LeaveIds \cup {None},
                           who : Users \cup {None}, whom : Users \cup {None},
                           covers : BOOLEAN, holds : SUBSET LockRows]]

Init ==
    /\ \E school \in Schools :
          /\ sub = [i \in SubIds |-> IF i \in school.subs THEN NoSub ELSE OtherSub]
          /\ leave = [l \in LeaveIds |-> IF l \in school.leaves THEN NoLeave ELSE OtherLeave]
          /\ staff = school.staff
          /\ teaches = school.teaches
    /\ past = FALSE
    /\ call = [r \in Calls |-> Idle]

-----------------------------------------------------------------------------
(* Rows *)

OpenSubs == {i \in SubIds : sub[i].status \in Open}

Accepted(q) == {i \in SubIds : sub[i].status = "accepted" /\ sub[i].requester = q}
Covering(s) == {i \in SubIds : sub[i].status = "accepted" /\ sub[i].substitute = s}

\* _fill_others: the other pending requests for the period of i.
Others(i) == {j \in SubIds \ {i} : sub[j].status = "pending" /\ sub[j].requester = sub[i].requester}

\* link_standalone: open requests of the user that belong to no leave yet.
Standalone(u) == {i \in OpenSubs : sub[i].requester = u /\ sub[i].leave = None}

Duplicates(q, s) == {i \in OpenSubs : sub[i].requester = q /\ sub[i].substitute = s}

\* The rules of create for q asking s, as plain reads find them.
MayAsk(q, s) ==
    /\ ~past
    /\ q \in teaches
    /\ s \in staff \ teaches /\ Covering(s) = {}  \* _busy_reason
    /\ Accepted(q) = {}
    /\ Duplicates(q, s) = {}

LeaveAllows(q, l) ==
    l # None => /\ leave[l].user = q /\ leave[l].covers
                /\ leave[l].status \in {"pending", "approved"}

\* The table with some rows' status set, and with a new row.
Closed(rows, status) == [i \in SubIds |-> IF i \in rows THEN [sub[i] EXCEPT !.status = status] ELSE sub[i]]
Asked(i, q, s, l) == [status |-> "pending", requester |-> q, substitute |-> s, leave |-> l]

-----------------------------------------------------------------------------
(* Locks *)

HeldRows(r) == {i \in SubIds : Row(i) \in call[r].holds}
TellsSubstitutes(r) == {User(sub[i].substitute) : i \in HeldRows(r)}

\* decline, withdraw and cancel: may they go on, and whom do they tell.
AnswerAllowed(op, i) ==
    \/ op = "decline" /\ sub[i].status = "pending"
    \/ op = "withdraw" /\ sub[i].status = "accepted" /\ ~past  \* _can_withdraw
    \/ op = "cancel" /\ sub[i].status \in Open

Told(r) == IF call[r].op = "cancel" THEN sub[call[r].sub].substitute ELSE sub[call[r].sub].requester

\* update_leave, delete_leave and review_leave, on the leave as it is under its lock.
LeaveOpAllowed(op, l) ==
    \/ leave[l].status = "pending"
    \/ op = "drop" /\ leave[l].status = "approved" /\ ~past  \* not_started

\* Mutant: cancel_for_leave forgets the accepted requests.
DroppedPending(r) ==
    IF call[r].op = "approve" \/ (call[r].op = "change" /\ call[r].covers) THEN {}
    ELSE {i \in SubIds : sub[i].status = "pending" /\ sub[i].leave = call[r].leave}

\* cancel_for_leave: the open requests that go with the leave.
Dropped(r) ==
    IF call[r].op = "approve" \/ (call[r].op = "change" /\ call[r].covers) THEN {}
    ELSE {i \in OpenSubs : sub[i].leave = call[r].leave}

\* mark_left, from today on.
OpenWith(u) == {i \in OpenSubs : ~past /\ u \in {sub[i].requester, sub[i].substitute}}
PendingLeaves(u) == {l \in LeaveIds : leave[l].user = u /\ leave[l].status = "pending"}

\* link_standalone: the leave's days take in the day.
Linked(r) == IF call[r].covers THEN Standalone(call[r].who) ELSE {}

\* create's INSERT, when the call asks somebody.
InsertWants(r) ==
    IF call[r].whom = None THEN {}
    ELSE {User(call[r].who), User(call[r].whom)} \cup {Row(i) : i \in Duplicates(call[r].who, call[r].whom)}

\* The rows that r's next statement, or what is left of its transaction, must lock.
Wants(r) ==
    LET c == call[r] IN
    CASE c.at = "user" -> {User(Max({c.who, c.whom}))}
      [] c.at = "row" -> {Row(c.sub)}
      [] c.at = "leave" -> {Leave(c.leave)}
      [] c.at = "rows" /\ c.op = "accept" -> {Row(i) : i \in Others(c.sub)}
      [] c.at = "rows" /\ c.op = "left" -> {Row(i) : i \in OpenWith(c.who)}
      [] c.at = "rows" /\ c.op \in LeaveOps -> {Row(i) : i \in Dropped(r)}
      [] c.at = "write" /\ c.op = "accept" -> TellsSubstitutes(r)
      [] c.at = "write" /\ c.op \in Answers -> {User(Told(r))}
      [] c.at = "write" /\ c.op = "ask" -> InsertWants(r) \cup {Leave(l) : l \in {c.leave} \ {None}}
      [] c.at = "write" /\ c.op \in {"apply", "change"} ->
            TellsSubstitutes(r) \cup InsertWants(r) \cup {Row(i) : i \in Linked(r)}
      [] c.at = "write" /\ c.op = "drop" -> TellsSubstitutes(r)
      [] c.at = "write" /\ c.op \in {"approve", "reject"} ->
            TellsSubstitutes(r) \cup {User(leave[c.leave].user)}
      [] c.at = "write" /\ c.op = "left" -> {Leave(l) : l \in PendingLeaves(c.who)}
      [] OTHER -> {}

WaitsFor(r, q) == q # r /\ Wants(r) \cap call[q].holds # {}
Free(r) == \A q \in Calls : ~WaitsFor(r, q)

At(r, op, step) == call[r].op = op /\ call[r].at = step

\* The statement gets its locks and the call goes on to `step`.
LockThen(r, step) ==
    /\ Free(r)
    /\ call' = [call EXCEPT ![r].holds = @ \cup Wants(r), ![r].at = step]
    /\ UNCHANGED <<tables, past>>

Finish(r) == call' = [call EXCEPT ![r] = Idle] /\ UNCHANGED past  \* COMMIT or ROLLBACK
Refuse(r) == Finish(r) /\ UNCHANGED tables

\* A call turns up with its first lock: while it waits for that, it holds and
\* knows nothing.  update_leave and create_request read before they lock.
Arrive(r, new) == call' = [call EXCEPT ![r] = new] /\ UNCHANGED <<tables, past>>
ArriveWith(r, row, new) ==
    /\ \A q \in Calls : row \notin call[q].holds
    /\ Arrive(r, [new EXCEPT !.holds = {row}])

\* Refused by any other rule, the victim of a deadlock, a lost connection.
Abort(r) == call[r] # Idle /\ Refuse(r)

-----------------------------------------------------------------------------
(* create_request *)

AskReads(r, q, s, l) ==
    /\ MayAsk(q, s) /\ LeaveAllows(q, l)
    /\ Arrive(r, [Idle EXCEPT !.op = "ask", !.at = "write", !.who = q, !.whom = s, !.leave = l])

\* The INSERT: a duplicate key or a leave that is gone (foreign key) refuses it.
AskInserts(r, i) ==
    LET c == call[r] IN
    /\ At(r, "ask", "write") /\ Free(r)
    /\ sub[i] = NoSub
    /\ IF Duplicates(c.who, c.whom) # {} \/ (c.leave # None /\ leave[c.leave].status = "deleted")
       THEN UNCHANGED tables
       ELSE sub' = [sub EXCEPT ![i] = Asked(i, c.who, c.whom, c.leave)] /\ UNCHANGED <<leave, teaches, staff>>
    /\ Finish(r)

-----------------------------------------------------------------------------
(* accept *)

\* _lock_users, in id order.
AcceptArrives(r, i) ==
    LET people == {sub[i].requester, sub[i].substitute} IN
    /\ sub[i].requester # None
    /\ ArriveWith(r, User(Min(people)), [Idle EXCEPT !.op = "accept", !.at = "user", !.sub = i,
                                         !.who = sub[i].requester, !.whom = sub[i].substitute])

\* Mutant: _lock_users locks only the first of the two.
AcceptLocksOne(r) ==
    /\ At(r, "accept", "user")
    /\ call' = [call EXCEPT ![r].at = "row"]
    /\ UNCHANGED <<tables, past>>

AcceptLocks(r) == At(r, "accept", "user") /\ LockThen(r, "row")

\* _load_for_update, and what the row and the plain reads after it say.  If
\* somebody else has the period the request is filled, and the caller told so.
AcceptDecides(r) ==
    LET i == call[r].sub IN
    /\ At(r, "accept", "row") /\ Free(r)
    /\ IF sub[i].status # "pending" THEN Refuse(r)
       ELSE IF Accepted(call[r].who) # {}
       THEN sub' = Closed({i}, "filled") /\ Finish(r) /\ UNCHANGED <<leave, teaches, staff>>
       ELSE IF call[r].whom \in teaches \/ Covering(call[r].whom) # {} THEN Refuse(r)
       ELSE LockThen(r, "rows")

AcceptLocksOthers(r) == At(r, "accept", "rows") /\ LockThen(r, "write")

\* The UNIQUE keys ux_sub_req_one_cover and ux_sub_req_sub_busy.
KeyHit(r) == Accepted(call[r].who) \cup Covering(call[r].whom) # {}

AcceptCommits(r) ==
    LET i == call[r].sub
        others == HeldRows(r) \ {i}
    IN
    /\ At(r, "accept", "write") /\ Free(r)
    /\ IF KeyHit(r) THEN UNCHANGED tables
       ELSE /\ sub' = [Closed(others, "filled") EXCEPT ![i].status = "accepted"]
            /\ UNCHANGED <<leave, teaches, staff>>
    /\ Finish(r)

-----------------------------------------------------------------------------
(* decline, withdraw, cancel *)

\* Mutant: the request is loaded without FOR UPDATE.
AnswerReads(r, op, i) ==
    /\ AnswerAllowed(op, i)
    /\ Arrive(r, [Idle EXCEPT !.op = op, !.at = "write", !.sub = i])

\* _load_for_update; a call that its row does not allow is refused at once.
AnswerArrives(r, op, i) ==
    /\ AnswerAllowed(op, i)
    /\ ArriveWith(r, Row(i), [Idle EXCEPT !.op = op, !.at = "write", !.sub = i])

AnswerCommits(r) ==
    /\ call[r].op \in Answers /\ Free(r)
    /\ sub' = Closed({call[r].sub}, CASE call[r].op = "decline" -> "declined"
                                      [] call[r].op = "withdraw" -> "withdrawn"
                                      [] call[r].op = "cancel" -> "cancelled")
    /\ Finish(r)
    /\ UNCHANGED <<leave, teaches, staff>>

-----------------------------------------------------------------------------
(* request_leave *)

\* The lock on the user; then no leave of theirs may be pending, and
\* create_many reads for the colleague they ask, if any.  (Somebody without a
\* class in the period has nothing to ask for.)
ApplyReads(r, u) ==
    /\ u \in teaches
    /\ PendingLeaves(u) = {}
    /\ \E s \in {None} \cup {s \in staff : MayAsk(u, s)} :
          ArriveWith(r, User(u), [Idle EXCEPT !.op = "apply", !.at = "write",
                                              !.who = u, !.whom = s, !.covers = TRUE])

\* link_standalone and create_many on `rows`, for the leave l of r's user.
StoreWith(r, rows, l) ==
    LET linked == [i \in SubIds |-> IF i \in Linked(r) THEN [rows[i] EXCEPT !.leave = l] ELSE rows[i]]
        c == call[r]
    IN  IF c.whom = None THEN sub' = linked
        ELSE \E i \in SubIds : sub[i] = NoSub /\ sub' = [linked EXCEPT ![i] = Asked(i, c.who, c.whom, l)]

DuplicateAsked(r) == call[r].whom # None /\ Duplicates(call[r].who, call[r].whom) # {}

ApplyCommits(r, l) ==
    /\ At(r, "apply", "write") /\ Free(r)
    /\ leave[l] = NoLeave
    /\ IF DuplicateAsked(r) THEN UNCHANGED tables
       ELSE /\ leave' = [leave EXCEPT ![l] = [status |-> "pending", user |-> call[r].who, covers |-> TRUE]]
            /\ StoreWith(r, sub, l)
            /\ UNCHANGED <<teaches, staff>>
    /\ Finish(r)

-----------------------------------------------------------------------------
(* update_leave, delete_leave, review_leave *)

\* update_leave reads before it locks: the leave is there; create_many's reads.
ChangeReads(r, l) ==
    /\ leave[l].status \notin {"none", "other", "deleted"}
    /\ \E covers \in BOOLEAN :
       \E s \in {None} \cup {s \in staff : covers /\ MayAsk(leave[l].user, s)} :
          Arrive(r, [Idle EXCEPT !.op = "change", !.at = "leave", !.leave = l,
                                 !.who = leave[l].user, !.whom = s, !.covers = covers])

\* SELECT ... FOR UPDATE of the leave; what its row does not allow is refused.
ChangeLocks(r) ==
    /\ At(r, "change", "leave") /\ Free(r)
    /\ IF LeaveOpAllowed("change", call[r].leave) THEN LockThen(r, "rows") ELSE Refuse(r)

LeaveOpArrives(r, op, l) ==
    /\ LeaveOpAllowed(op, l)
    /\ ArriveWith(r, Leave(l), [Idle EXCEPT !.op = op, !.at = "rows", !.leave = l])

LeaveOpLocksRows(r) == call[r].op \in LeaveOps /\ call[r].at = "rows" /\ LockThen(r, "write")

ChangeCommits(r) ==
    LET c == call[r] IN
    /\ At(r, "change", "write") /\ Free(r)
    /\ IF DuplicateAsked(r) THEN UNCHANGED tables
       ELSE /\ leave' = [leave EXCEPT ![c.leave].covers = c.covers]
            /\ StoreWith(r, Closed(HeldRows(r), "cancelled"), c.leave)
            /\ UNCHANGED <<teaches, staff>>
    /\ Finish(r)

\* A pending leave is deleted (its requests lose it), an approved one cancelled.
DropCommits(r) ==
    LET l == call[r].leave
        rows == Closed(HeldRows(r), "cancelled")
    IN
    /\ At(r, "drop", "write") /\ Free(r)
    /\ IF leave[l].status = "pending"
       THEN /\ leave' = [leave EXCEPT ![l].status = "deleted"]
            /\ sub' = [i \in SubIds |-> IF rows[i].leave = l THEN [rows[i] EXCEPT !.leave = None] ELSE rows[i]]
       ELSE /\ leave' = [leave EXCEPT ![l].status = "cancelled"]
            /\ sub' = rows
    /\ Finish(r)
    /\ UNCHANGED <<teaches, staff>>

ReviewCommits(r) ==
    LET c == call[r] IN
    /\ c.op \in {"approve", "reject"} /\ c.at = "write" /\ Free(r)
    /\ leave' = [leave EXCEPT ![c.leave].status = IF c.op = "approve" THEN "approved" ELSE "rejected"]
    /\ sub' = Closed(HeldRows(r), "cancelled")
    /\ Finish(r)
    /\ UNCHANGED <<teaches, staff>>

-----------------------------------------------------------------------------
(* mark_left *)

\* _target locks the user.
LeftArrives(r, u) ==
    /\ u \in Departing
    /\ ArriveWith(r, User(u), [Idle EXCEPT !.op = "left", !.at = "rows", !.who = u])

LeftLocksRows(r) == At(r, "left", "rows") /\ LockThen(r, "write")

\* Mutant: mark_left forgets timetable_slots.
AllPeriods(u) == teaches
OtherPeriods(u) == teaches \ {u}

\* _close_open_substitutions and the rest of mark_left.
LeftCommits(r) ==
    LET u == call[r].who
        closing(s) == IF s.requester = u THEN "cancelled"
                      ELSE IF s.status = "pending" THEN "declined" ELSE "withdrawn"
    IN
    /\ At(r, "left", "write") /\ Free(r)
    /\ sub' = [i \in SubIds |->
                 IF i \in HeldRows(r) THEN [sub[i] EXCEPT !.status = closing(sub[i])] ELSE sub[i]]
    /\ leave' = [l \in LeaveIds |->
                   IF l \in PendingLeaves(u) THEN [leave[l] EXCEPT !.status = "cancelled"] ELSE leave[l]]
    /\ teaches' = OtherPeriods(u)
    /\ staff' = staff \ {u}
    /\ Finish(r)

-----------------------------------------------------------------------------
Tick ==
    /\ ~past
    /\ past' = TRUE
    /\ UNCHANGED <<tables, call>>

Arrives(r) ==
    /\ call[r] = Idle
    /\ \/ \E q \in teaches, s \in staff \ teaches, l \in LeaveIds \cup {None} : AskReads(r, q, s, l)
       \/ \E i \in SubIds : AcceptArrives(r, i) \/ \E op \in Answers : AnswerArrives(r, op, i)
       \/ \E u \in teaches : ApplyReads(r, u)
       \/ \E l \in LeaveIds : ChangeReads(r, l) \/ \E op \in {"drop", "approve", "reject"} : LeaveOpArrives(r, op, l)
       \/ \E u \in staff : LeftArrives(r, u)

GoesOn(r) ==
    \/ \E i \in SubIds : AskInserts(r, i)
    \/ AcceptLocks(r) \/ AcceptDecides(r) \/ AcceptLocksOthers(r) \/ AcceptCommits(r)
    \/ AnswerCommits(r)
    \/ \E l \in LeaveIds : ApplyCommits(r, l)
    \/ ChangeLocks(r) \/ LeaveOpLocksRows(r)
    \/ ChangeCommits(r) \/ DropCommits(r) \/ ReviewCommits(r)
    \/ LeftLocksRows(r) \/ LeftCommits(r)
    \/ Abort(r)

Next ==
    \/ Tick
    \/ \E r \in Calls : Arrives(r) \/ GoesOn(r)

Spec == Init /\ [][Next]_vars

-----------------------------------------------------------------------------
(* Properties *)

\* The docstring's "pending -> accepted | declined | cancelled | filled;
\* accepted -> withdrawn | cancelled", whatever calls race for a request: no
\* answer is overwritten by another and nothing comes back to life.
StatusesMoveOn ==
    [][\A i \in SubIds :
          LET old == sub[i].status
              new == sub'[i].status
          IN  new # old =>
                \/ old = "none" /\ new = "pending"
                \/ old = "pending" /\ new \in {"accepted", "declined", "cancelled", "filled"}
                \/ old = "accepted" /\ new \in {"withdrawn", "cancelled"}]_vars

\* accept: with both teachers' rows locked, what it decided stays true until it
\* commits, so the UNIQUE keys (and the answers made up for them) are never needed
\* and nobody covers two classes in the period or shares one.
KeysAreNeverHit == \A r \in Calls : call[r].op = "accept" /\ call[r].at \in {"rows", "write"} => ~KeyHit(r)

\* A request is filled only because somebody does take the class: in the same
\* commit (_fill_others) or before (accept finds it taken).
FilledMeansCovered ==
    [][\A i \in SubIds : sub[i].status = "pending" /\ sub'[i].status = "filled"
          => \E j \in SubIds : sub'[j].status = "accepted" /\ sub'[j].requester = sub[i].requester]_vars

\* request_leave locks its user's row "so two quick submits can't both pass the check".
OnePendingLeave == \A u \in Users : Cardinality(PendingLeaves(u)) <= 1

\* What accept and request_leave check under the people's locks is still so when they write.
ChecksStayTrue == KeysAreNeverHit /\ OnePendingLeave

\* An answer once given stands, and "filled" is only said when it is so.
AnswersStand == StatusesMoveOn /\ FilledMeansCovered

\* When a leave is rejected, cancelled or deleted no request that belongs to it
\* stays open, and when a teacher leaves nothing from today on stays open with
\* them, whatever is accepted, asked or linked meanwhile.
ClosingTakesAll ==
    [][/\ \A l \in LeaveIds, i \in SubIds :
            leave[l].status \in {"pending", "approved"} /\ leave'[l].status \notin {"pending", "approved"}
            /\ sub'[i].status \in Open /\ ~past => l \notin {sub[i].leave, sub'[i].leave}
       /\ \A u \in staff \ staff', i \in SubIds :
            sub'[i].status \in Open /\ ~past => u \notin {sub'[i].requester, sub'[i].substitute}]_vars

(* Properties the comments state and the code does not keep *)

\* _lock_users: "Serialise accept/withdraw for the same people (always in id
\* order, so no deadlocks)": no set of such calls waits on itself.
NoDeadlock ==
    \A S \in (SUBSET {r \in Calls : call[r].op \in {"accept", "withdraw"}}) \ {{}} :
        \E r \in S : \A q \in S : ~WaitsFor(r, q)

\* _close_open_substitutions: "Someone who left can't cover a period any more,
\* and nobody needs to cover theirs"; cancel_for_leave: a leave that was deleted
\* or rejected has no open requests.
OpenRequestsAreAlive ==
    \A i \in OpenSubs :
        /\ ~past => {sub[i].requester, sub[i].substitute} \subseteq staff
        /\ sub[i].leave # None => leave[sub[i].leave].status \in {"pending", "approved"}
=============================================================================
