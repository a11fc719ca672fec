------------------------ MODULE SubstitutionsProofs ------------------------
(***************************************************************************)
(* The races for a period's substitute and for a leave, and who belongs    *)
(* where, for any number of calls, requests, leaves, people, sections and  *)
(* classes.                                                                *)
(*                                                                         *)
(* Leave and substitutions: whoever writes a row holds its lock, nobody    *)
(* else holds it, and what a call has read and still counts on can only be *)
(* changed by one who holds a lock it has itself (Fenced).  So a call's view*)
(* stays true until it commits (CallOk), and each commit leaves the tables *)
(* in order (TablesOk).                                                    *)
(*                                                                         *)
(* Places fit the people who have them, and records outlive places: a call *)
(* that assigns acts on what it read when it locked the teacher and the    *)
(* section; the teacher is here, and for a class teacher neither has       *)
(* another.  Whoever could falsify that holds one of the two rows, and a   *)
(* row has one holder; so the written assignment stands.                   *)
(***************************************************************************)
EXTENDS MCSubstitutions, FiniteSetTheorems, TLAPS

SubRecs == [status : {"none", "other", "declined", "cancelled", "withdrawn", "filled"} \cup Open,
            requester : Users \cup {None}, substitute : Users \cup {None}, leave : LeaveIds \cup {None}]
LeaveRecs == [status : {"none", "other", "pending", "approved", "rejected", "cancelled", "deleted"},
              user : Users \cup {None}, covers : BOOLEAN]
CallRecs == [op : {"none", "accept", "ask", "apply", "left"} \cup Answers \cup LeaveOps,
             at : {"idle", "user", "row", "leave", "rows", "write"},
             sub : SubIds \cup {None}, leave : LeaveIds \cup {None},
             who : Users \cup {None}, whom : Users \cup {None}, covers : BOOLEAN, holds : SUBSET LockRows]

Shapes == sub \in [SubIds -> SubRecs] /\ leave \in [LeaveIds -> LeaveRecs] /\ teaches \subseteq staff /\ staff \subseteq Users

\* A request has both its people; a leave has its user, and only requests of that user.
People(s) == s.requester # None => s.requester \in Users /\ s.substitute \in Users
RequestsHavePeople == \A i \in SubIds : People(sub[i]) /\ (sub[i].status \in Open => sub[i].requester # None)
LeavesHaveUsers == \A l \in LeaveIds : leave[l].status \notin {"none", "other"} => leave[l].user \in Users
LeaveIsOwn(s) == s.leave # None => leave[s.leave].status # "none" /\ leave[s.leave].user = s.requester
LeavesAreOwn == \A i \in SubIds : LeaveIsOwn(sub[i])
PendingAlone ==
    \A l, m \in LeaveIds :
        leave[l].status = "pending" /\ leave[m].status = "pending" /\ leave[l].user = leave[m].user => l = m

TablesOk == Shapes /\ RequestsHavePeople /\ LeavesHaveUsers /\ LeavesAreOwn /\ PendingAlone

\* The rows a call has locked are still as it found them.
Fits(op, status) ==
    /\ op \in {"accept", "decline"} => status = "pending"
    /\ op = "withdraw" => status = "accepted"
    /\ status \in Open
RowsFit(r) == \A i \in HeldRows(r) : Fits(call[r].op, sub[i].status)

AcceptOk(r) ==
    LET c == call[r] IN
    c.op = "accept" =>
        /\ c.at \in {"user", "row", "rows", "write"} /\ c.sub \in SubIds
        /\ c.who \in Users /\ c.whom \in Users
        /\ sub[c.sub].requester = c.who /\ sub[c.sub].substitute = c.whom
        /\ User(Min({c.who, c.whom})) \in c.holds
        /\ c.at # "user" => User(Max({c.who, c.whom})) \in c.holds
        /\ c.at \in {"rows", "write"} => Row(c.sub) \in c.holds /\ ~KeyHit(r)
        /\ \A i \in HeldRows(r) : sub[i].requester = c.who

AnswerOk(r) ==
    LET c == call[r] IN
    c.op \in Answers => c.at = "write" /\ c.sub \in SubIds /\ Row(c.sub) \in c.holds

AskOk(r) ==
    LET c == call[r] IN
    c.op = "ask" =>
        /\ c.at = "write" /\ c.who \in Users /\ c.whom \in Users
        /\ c.leave # None => leave[c.leave].status # "none" /\ leave[c.leave].user = c.who

ApplyOk(r) ==
    LET c == call[r] IN
    c.op = "apply" => c.at = "write" /\ c.who \in Users /\ User(c.who) \in c.holds /\ PendingLeaves(c.who) = {}

LeaveOk(r) ==
    LET c == call[r] IN
    c.op \in LeaveOps =>
        /\ c.leave \in LeaveIds /\ leave[c.leave].status \notin {"none", "other"}
        /\ c.at \in {"leave", "rows", "write"}
        /\ c.op = "change" => c.who \in Users /\ leave[c.leave].user = c.who
        /\ c.op # "change" => c.at # "leave"
        /\ c.at # "leave" => Leave(c.leave) \in c.holds
        /\ c.op \in {"drop", "reject"} /\ c.at = "write" =>
               \A i \in OpenSubs : sub[i].leave = c.leave => i \in HeldRows(r)

LeftOk(r) ==
    LET c == call[r] IN
    c.op = "left" =>
        /\ c.who \in Users /\ User(c.who) \in c.holds
        /\ c.at \in {"rows", "write"}
        /\ c.at = "write" /\ ~past => \A i \in OpenSubs : c.who \in {sub[i].requester, sub[i].substitute} => i \in HeldRows(r)

CallOk(r) ==
    /\ call[r] \in CallRecs /\ (call[r].op = "none" => call[r].holds = {})
    /\ RowsFit(r) /\ AcceptOk(r) /\ AnswerOk(r) /\ AskOk(r) /\ ApplyOk(r) /\ LeaveOk(r) /\ LeftOk(r)

\* A row is locked by one call.
LocksExclude == \A r, q \in Calls : r # q => call[r].holds \cap call[q].holds = {}

SubsInv == TablesOk /\ DOMAIN call = Calls /\ (\A r \in Calls : CallOk(r)) /\ LocksExclude /\ past \in BOOLEAN

-----------------------------------------------------------------------------
(* What a call writes is fenced off from the others *)

Unlocked(r, row) == \A q \in Calls \ {r} : row \notin call[q].holds

Fenced(r) ==
    /\ \A i \in SubIds :
          /\ sub'[i].status # sub[i].status => sub[i].status = "none" \/ Unlocked(r, Row(i))
          /\ sub[i].requester # None => sub'[i].requester = sub[i].requester /\ sub'[i].substitute = sub[i].substitute
          /\ sub'[i].status = "accepted" /\ sub[i].status # "accepted" =>
                 Unlocked(r, User(sub'[i].requester)) /\ Unlocked(r, User(sub'[i].substitute))
          /\ sub'[i].status \in Open /\ sub[i].status \notin Open =>
                 Unlocked(r, User(sub'[i].requester)) /\ Unlocked(r, User(sub'[i].substitute))
          /\ sub'[i].status \in Open /\ sub'[i].leave # None /\ ~(sub[i].status \in Open /\ sub[i].leave = sub'[i].leave) =>
                 Unlocked(r, Leave(sub'[i].leave)) \/ leave[sub'[i].leave].status = "none"
    /\ \A l \in LeaveIds :
          /\ leave[l].status \notin {"none", "other"} => leave'[l].status \notin {"none", "other"}
          /\ leave[l].status # "none" => leave'[l].status # "none" /\ leave'[l].user = leave[l].user
          /\ leave'[l].status = "pending" /\ leave[l].status # "pending" => Unlocked(r, User(leave'[l].user))

-----------------------------------------------------------------------------
(* What every step promises *)

\* How a request's status may go (the docstring's arrows).
MovesOn(old, new) ==
    \/ old = "none" /\ new = "pending"
    \/ old = "pending" /\ new \in {"accepted", "declined", "cancelled", "filled"}
    \/ old = "accepted" /\ new \in {"withdrawn", "cancelled"}

Taken(i) == \E j \in SubIds : sub'[j].status = "accepted" /\ sub'[j].requester = sub[i].requester

StatusesMove == \A i \in SubIds : sub'[i].status # sub[i].status => MovesOn(sub[i].status, sub'[i].status)
FilledIsTaken == \A i \in SubIds : sub[i].status = "pending" /\ sub'[i].status = "filled" => Taken(i)
ClosesAll ==
    /\ \A l \in LeaveIds, i \in SubIds :
         leave[l].status \in {"pending", "approved"} /\ leave'[l].status \notin {"pending", "approved"}
         /\ sub'[i].status \in Open /\ ~past => l \notin {sub[i].leave, sub'[i].leave}
    /\ \A u \in staff \ staff', i \in SubIds :
         sub'[i].status \in Open /\ ~past => u \notin {sub'[i].requester, sub'[i].substitute}

StepOk == StatusesMove /\ FilledIsTaken /\ ClosesAll

\* A step that touches no table.
LEMMA QuietStep ==
    ASSUME UNCHANGED tables
    PROVE StepOk
  BY DEF tables, StepOk, StatusesMove, FilledIsTaken, ClosesAll

LEMMA RowsDiffer ==
    /\ \A u, v : User(u) = User(v) => u = v
    /\ \A i, j : Row(i) = Row(j) => i = j
    /\ \A l, m : Leave(l) = Leave(m) => l = m
    /\ \A u, i, l : User(u) # Row(i) /\ User(u) # Leave(l) /\ Row(i) # Leave(l)
  BY DEF User, Row, Leave

\* The two people in id order are the two people.
LEMMA TwoPeople ==
    ASSUME NEW u \in Users, NEW v \in Users
    PROVE  \/ Min({u, v}) = u /\ Max({u, v}) = v
           \/ Min({u, v}) = v /\ Max({u, v}) = u
<1>1. u \in Nat /\ v \in Nat
  BY IdsAssumption
<1>2. \E x \in {u, v} : \A y \in {u, v} : x <= y
  BY <1>1
<1>3. \E x \in {u, v} : \A y \in {u, v} : x >= y
  BY <1>1
<1>4. Min({u, v}) \in {u, v} /\ \A y \in {u, v} : Min({u, v}) <= y
  BY <1>2 DEF Min
<1>5. Max({u, v}) \in {u, v} /\ \A y \in {u, v} : Max({u, v}) >= y
  BY <1>3 DEF Max
<1>6. QED BY <1>1, <1>4, <1>5

LEMMA BothLocked ==
    ASSUME NEW u \in Users, NEW v \in Users, NEW H, User(Min({u, v})) \in H, User(Max({u, v})) \in H
    PROVE User(u) \in H /\ User(v) \in H
  BY TwoPeople

LEMMA FencedQuiet ==
    ASSUME UNCHANGED tables, NEW r \in Calls
    PROVE Fenced(r)
  BY DEF tables, Fenced

LEMMA FreeIsUnlocked ==
    ASSUME NEW r \in Calls, Free(r), NEW row \in Wants(r)
    PROVE Unlocked(r, row)
  BY DEF Free, WaitsFor, Unlocked

LEMMA OwnIsUnlocked ==
    ASSUME LocksExclude, NEW r \in Calls, NEW row \in call[r].holds
    PROVE Unlocked(r, row)
  BY DEF LocksExclude, Unlocked

\* What one call writes leaves alone what every other one counts on.
LEMMA OthersKeep ==
    ASSUME SubsInv, NEW r \in Calls, Fenced(r), Shapes', NEW q \in Calls, q # r, call'[q] = call[q], past' = past
    PROVE CallOk(q)'
<1>1. HeldRows(q)' = HeldRows(q) /\ HeldRows(q) \subseteq SubIds
  BY DEF HeldRows
<1>2. CallOk(q)
  BY DEF SubsInv
<1>3. ASSUME NEW i \in HeldRows(q)  PROVE sub'[i].status = sub[i].status
  <2>1. sub[i].status \in Open /\ i \in SubIds
    BY <1>1, <1>2 DEF CallOk, RowsFit, Fits
  <2>2. ~Unlocked(r, Row(i))
    BY DEF HeldRows, Unlocked
  <2>3. QED BY <2>1, <2>2 DEF Fenced, Open
<1>4. \A row \in call[q].holds : ~Unlocked(r, row)
  BY DEF Unlocked
<1>5. RowsFit(q)'
  BY <1>1, <1>2, <1>3 DEF CallOk, RowsFit
<1>6. AcceptOk(q)'
  <2>1. SUFFICES ASSUME call[q].op = "accept"  PROVE AcceptOk(q)'
    BY DEF AcceptOk
  <2> DEFINE c == call[q]
  <2>2. /\ c.at \in {"user", "row", "rows", "write"} /\ c.sub \in SubIds
        /\ c.who \in Users /\ c.whom \in Users
        /\ sub[c.sub].requester = c.who /\ sub[c.sub].substitute = c.whom
    BY <1>2, <2>1 DEF CallOk, AcceptOk
  <2>3. sub'[c.sub].requester = c.who /\ sub'[c.sub].substitute = c.whom
    BY <2>2, IdsAssumption DEF Fenced
  <2>4. \A i \in HeldRows(q) : sub'[i].requester = c.who
    BY <1>1, <1>2, <2>1, <2>2, IdsAssumption DEF CallOk, AcceptOk, Fenced
  <2>5. ASSUME c.at \in {"rows", "write"}  PROVE ~KeyHit(q)'
    <3>1. User(c.who) \in c.holds /\ User(c.whom) \in c.holds
      BY <1>2, <2>1, <2>2, <2>5, BothLocked DEF CallOk, AcceptOk
    <3>2. ~KeyHit(q)
      BY <1>2, <2>1, <2>5 DEF CallOk, AcceptOk
    <3>3. ASSUME NEW i \in SubIds, sub'[i].status = "accepted", sub'[i].requester = c.who \/ sub'[i].substitute = c.whom
          PROVE FALSE
      <4>1. sub[i].status = "accepted"
        BY <1>4, <3>1, <3>3 DEF Fenced
      <4>2. sub'[i].requester = sub[i].requester /\ sub'[i].substitute = sub[i].substitute
        BY <4>1 DEF Fenced, SubsInv, TablesOk, RequestsHavePeople, Open
      <4>3. QED BY <3>2, <3>3, <4>1, <4>2 DEF KeyHit, Accepted, Covering
    <3>4. QED BY <3>3 DEF KeyHit, Accepted, Covering
  <2>6. QED BY <1>1, <1>2, <2>1, <2>2, <2>3, <2>4, <2>5 DEF CallOk, AcceptOk
<1>7. AnswerOk(q)'
  BY <1>2 DEF CallOk, AnswerOk
<1>8. AskOk(q)'
  <2>1. call[q].leave # None => call[q].leave \in LeaveIds
    BY <1>2 DEF CallOk, CallRecs
  <2>2. QED BY <1>2, <2>1 DEF CallOk, AskOk, Fenced
<1>9. ApplyOk(q)'
  <2>1. SUFFICES ASSUME call[q].op = "apply"  PROVE ApplyOk(q)'
    BY DEF ApplyOk
  <2>2. call[q].who \in Users /\ User(call[q].who) \in call[q].holds /\ PendingLeaves(call[q].who) = {}
    BY <1>2, <2>1 DEF CallOk, ApplyOk
  <2>3. ASSUME NEW l \in LeaveIds, leave'[l].user = call[q].who, leave'[l].status = "pending"  PROVE FALSE
    <3>1. leave[l].status = "pending"
      BY <1>4, <2>2, <2>3 DEF Fenced
    <3>2. leave'[l].user = leave[l].user
      BY <3>1 DEF Fenced
    <3>3. QED BY <2>2, <2>3, <3>1, <3>2 DEF PendingLeaves
  <2>4. PendingLeaves(call[q].who)' = {}
    BY <2>3 DEF PendingLeaves
  <2>5. QED BY <1>2, <2>1, <2>2, <2>4 DEF CallOk, ApplyOk, PendingLeaves
<1>10. LeaveOk(q)'
  <2>1. SUFFICES ASSUME call[q].op \in LeaveOps  PROVE LeaveOk(q)'
    BY DEF LeaveOk
  <2> DEFINE c == call[q]
  <2>2. c.leave \in LeaveIds /\ leave[c.leave].status \notin {"none", "other"}
    BY <1>2, <2>1 DEF CallOk, LeaveOk
  <2>3. leave'[c.leave].status \notin {"none", "other"} /\ leave'[c.leave].user = leave[c.leave].user
    BY <2>2 DEF Fenced
  <2>4. ASSUME c.op \in {"drop", "reject"}, c.at = "write", NEW i \in OpenSubs', sub'[i].leave = c.leave
        PROVE i \in HeldRows(q)
    <3>1. Leave(c.leave) \in c.holds /\ \A j \in OpenSubs : sub[j].leave = c.leave => j \in HeldRows(q)
      BY <1>2, <2>1, <2>4 DEF CallOk, LeaveOk
    <3>2. c.leave # None /\ i \in SubIds /\ sub'[i].status \in Open
      BY <2>2, <2>4, IdsAssumption DEF OpenSubs
    <3>3. sub[i].status \in Open /\ sub[i].leave = c.leave
      BY <1>4, <2>2, <2>4, <3>1, <3>2 DEF Fenced
    <3>4. QED BY <3>1, <3>2, <3>3 DEF OpenSubs
  <2>5. QED BY <1>1, <1>2, <2>1, <2>2, <2>3, <2>4 DEF CallOk, LeaveOk
<1>11. LeftOk(q)'
  <2>1. SUFFICES ASSUME call[q].op = "left"  PROVE LeftOk(q)'
    BY DEF LeftOk
  <2> DEFINE c == call[q]
  <2>2. c.who \in Users /\ User(c.who) \in c.holds
    BY <1>2, <2>1 DEF CallOk, LeftOk
  <2>3. ASSUME c.at = "write", ~past, NEW i \in OpenSubs', c.who \in {sub'[i].requester, sub'[i].substitute}
        PROVE i \in HeldRows(q)
    <3>1. i \in SubIds /\ sub'[i].status \in Open
      BY <2>3 DEF OpenSubs
    <3>2. sub[i].status \in Open
      BY <1>4, <2>2, <2>3, <3>1 DEF Fenced
    <3>3. sub'[i].requester = sub[i].requester /\ sub'[i].substitute = sub[i].substitute
      BY <3>1, <3>2 DEF Fenced, SubsInv, TablesOk, RequestsHavePeople
    <3>4. QED BY <1>2, <2>1, <2>3, <3>1, <3>2, <3>3 DEF CallOk, LeftOk, OpenSubs
  <2>4. QED BY <1>1, <1>2, <2>1, <2>2, <2>3 DEF CallOk, LeftOk
<1>12. QED BY <1>2, <1>5, <1>6, <1>7, <1>8, <1>9, <1>10, <1>11 DEF CallOk

LEMMA IdleIsOk ==
    ASSUME NEW r \in Calls
    PROVE  (call[r] = Idle => CallOk(r)) /\ (call'[r] = Idle => CallOk(r)')
<1>1. Idle \in CallRecs
  BY DEF Idle, CallRecs
<1>2. Idle.holds = {} /\ Idle.op = "none"
  BY DEF Idle
<1>3. ASSUME call[r] = Idle  PROVE CallOk(r)
  BY <1>1, <1>2, <1>3 DEF HeldRows, CallOk, RowsFit, AcceptOk, AnswerOk, AskOk, ApplyOk, LeaveOk, LeftOk,
     Answers, LeaveOps
<1>4. ASSUME call'[r] = Idle  PROVE CallOk(r)'
  BY <1>1, <1>2, <1>4 DEF HeldRows, CallOk, RowsFit, AcceptOk, AnswerOk, AskOk, ApplyOk, LeaveOk, LeftOk,
     Answers, LeaveOps
<1>5. QED BY <1>3, <1>4

\* A call that ends gives its locks back.
LEMMA CommitKeeps ==
    ASSUME SubsInv, NEW r \in Calls, Fenced(r), TablesOk', Finish(r)
    PROVE SubsInv'
<1>1. /\ call' = [call EXCEPT ![r] = Idle] /\ past' = past
      /\ call'[r] = Idle /\ \A q \in Calls \ {r} : call'[q] = call[q]
  BY DEF Finish, SubsInv
<1>2. ASSUME NEW q \in Calls  PROVE CallOk(q)'
  <2>1. CASE q = r
    BY <1>1, <2>1, IdleIsOk
  <2>2. CASE q # r
    BY <1>1, <2>2, OthersKeep DEF TablesOk
  <2>3. QED BY <2>1, <2>2
<1>3. LocksExclude'
  BY <1>1 DEF SubsInv, LocksExclude, Idle
<1>4. QED BY <1>1, <1>2, <1>3 DEF SubsInv

LEMMA RefuseKeeps ==
    ASSUME SubsInv, NEW r \in Calls, Refuse(r)
    PROVE SubsInv'
<1>1. Finish(r) /\ UNCHANGED tables
  BY DEF Refuse
<1>2. TablesOk'
  BY <1>1 DEF SubsInv, TablesOk, tables, Shapes, RequestsHavePeople, People, LeavesHaveUsers, LeavesAreOwn,
     LeaveIsOwn, PendingAlone
<1>3. QED BY <1>1, <1>2, FencedQuiet, CommitKeeps

\* A call that comes or goes on, with locks that nobody else has.
LEMMA MoveKeeps ==
    ASSUME SubsInv, NEW r \in Calls, UNCHANGED <<tables, past>>, DOMAIN call' = Calls,
           \A q \in Calls \ {r} : call'[q] = call[q], CallOk(r)', \A row \in call'[r].holds : Unlocked(r, row)
    PROVE SubsInv'
<1>1. TablesOk'
  BY DEF SubsInv, TablesOk, tables, Shapes, RequestsHavePeople, People, LeavesHaveUsers, LeavesAreOwn,
     LeaveIsOwn, PendingAlone
<1>2. UNCHANGED tables
  BY DEF tables
<1>3. ASSUME NEW q \in Calls  PROVE CallOk(q)'
  <2>1. CASE q # r
    BY <1>1, <1>2, <2>1, FencedQuiet, OthersKeep DEF TablesOk
  <2>2. QED BY <2>1
<1>4. LocksExclude'
  BY DEF SubsInv, LocksExclude, Unlocked
<1>5. QED BY <1>1, <1>3, <1>4 DEF SubsInv

-----------------------------------------------------------------------------
(* Calls that turn up *)

\* A new call holds one row or none, and nobody else holds that.
LEMMA ArriveKeeps ==
    ASSUME SubsInv, NEW r \in Calls, NEW new, Arrive(r, new), \A row \in new.holds : Unlocked(r, row), CallOk(r)'
    PROVE SubsInv' /\ StepOk
<1>1. DOMAIN call' = Calls /\ (\A q \in Calls \ {r} : call'[q] = call[q]) /\ call'[r] = new
  BY DEF SubsInv, Arrive
<1>2. QED BY <1>1, MoveKeeps, QuietStep DEF Arrive

LEMMA Arrival ==
    ASSUME SubsInv, NEW r \in Calls, NEW new, Arrive(r, new)
    PROVE call'[r] = new /\ sub' = sub /\ leave' = leave
  BY DEF SubsInv, Arrive, tables

LEMMA AskReadsKeeps ==
    ASSUME SubsInv, NEW r \in Calls, NEW q \in teaches, NEW s \in staff \ teaches, NEW l \in LeaveIds \cup {None},
           AskReads(r, q, s, l)
    PROVE SubsInv' /\ StepOk
<1> DEFINE new == [Idle EXCEPT !.op = "ask", !.at = "write", !.who = q, !.whom = s, !.leave = l]
<1>1. new.holds = {} /\ new.op = "ask" /\ new.at = "write" /\ new.who = q /\ new.whom = s /\ new.leave = l
  BY Zenon DEF Idle
<1>2. Arrive(r, new) /\ call'[r] = new /\ sub' = sub /\ leave' = leave
  BY Arrival DEF AskReads
<1>3. q \in Users /\ s \in Users
  BY DEF SubsInv, TablesOk, Shapes
<1>4. l # None => leave[l].status # "none" /\ leave[l].user = q
  BY DEF AskReads, LeaveAllows
<1>5. new \in CallRecs
  BY <1>3, Zenon DEF Idle, CallRecs
<1> HIDE DEF new
<1>6. CallOk(r)'
  BY <1>1, <1>2, <1>3, <1>4, <1>5 DEF HeldRows, CallOk, RowsFit, AcceptOk, AnswerOk, AskOk, ApplyOk, LeaveOk, LeftOk,
     Answers, LeaveOps
<1>7. QED BY <1>1, <1>2, <1>6, ArriveKeeps

LEMMA AcceptArrivesKeeps ==
    ASSUME SubsInv, NEW r \in Calls, NEW i \in SubIds, AcceptArrives(r, i)
    PROVE SubsInv' /\ StepOk
<1> DEFINE q == sub[i].requester
           s == sub[i].substitute
           row == User(Min({q, s}))
           new == [[Idle EXCEPT !.op = "accept", !.at = "user", !.sub = i, !.who = q, !.whom = s] EXCEPT !.holds = {row}]
<1>1. /\ new.holds = {row} /\ new.op = "accept" /\ new.at = "user" /\ new.sub = i
      /\ new.who = q /\ new.whom = s
  BY Zenon DEF Idle
<1>2. Arrive(r, new) /\ Unlocked(r, row)
  BY DEF AcceptArrives, ArriveWith, Unlocked
<1>3. q \in Users /\ s \in Users
  BY DEF AcceptArrives, SubsInv, TablesOk, RequestsHavePeople, People
<1>4. row \in LockRows
  BY <1>3, TwoPeople DEF LockRows
<1>5. new \in CallRecs
  BY <1>3, <1>4, Zenon DEF Idle, CallRecs
<1> HIDE DEF new
<1>6. call'[r] = new /\ sub' = sub /\ leave' = leave
  BY <1>2, Arrival
<1>7. HeldRows(r)' = {}
  BY <1>1, <1>6, RowsDiffer DEF HeldRows
<1>8. CallOk(r)'
  BY <1>1, <1>3, <1>5, <1>6, <1>7 DEF CallOk, RowsFit, AcceptOk, AnswerOk, AskOk, ApplyOk, LeaveOk, LeftOk,
     Answers, LeaveOps
<1>9. QED BY <1>1, <1>2, <1>8, ArriveKeeps

LEMMA AnswerArrivesKeeps ==
    ASSUME SubsInv, NEW r \in Calls, NEW i \in SubIds, NEW op \in Answers, AnswerArrives(r, op, i)
    PROVE SubsInv' /\ StepOk
<1> DEFINE new == [[Idle EXCEPT !.op = op, !.at = "write", !.sub = i] EXCEPT !.holds = {Row(i)}]
<1>1. new.holds = {Row(i)} /\ new.op = op /\ new.at = "write" /\ new.sub = i
  BY Zenon DEF Idle
<1>2. Arrive(r, new) /\ Unlocked(r, Row(i)) /\ AnswerAllowed(op, i)
  BY DEF AnswerArrives, ArriveWith, Unlocked
<1>3. new \in CallRecs
  BY Zenon DEF Idle, CallRecs, LockRows
<1> HIDE DEF new
<1>4. call'[r] = new /\ sub' = sub /\ leave' = leave
  BY <1>2, Arrival
<1>5. HeldRows(r)' = {i}
  BY <1>1, <1>4, RowsDiffer DEF HeldRows
<1>6. RowsFit(r)'
  BY <1>1, <1>2, <1>4, <1>5 DEF RowsFit, Fits, AnswerAllowed, Open, Answers
<1>7. CallOk(r)'
  BY <1>1, <1>3, <1>4, <1>6 DEF CallOk, AcceptOk, AnswerOk, AskOk, ApplyOk, LeaveOk, LeftOk, Answers, LeaveOps
<1>8. QED BY <1>1, <1>2, <1>7, ArriveKeeps

LEMMA ApplyReadsKeeps ==
    ASSUME SubsInv, NEW r \in Calls, NEW u \in teaches, ApplyReads(r, u)
    PROVE SubsInv' /\ StepOk
<1>1. u \in Users /\ staff \subseteq Users
  BY DEF SubsInv, TablesOk, Shapes
<1>2. PICK s \in {None} \cup staff :
        ArriveWith(r, User(u), [Idle EXCEPT !.op = "apply", !.at = "write", !.who = u, !.whom = s, !.covers = TRUE])
  BY Zenon DEF ApplyReads
<1> DEFINE new == [[Idle EXCEPT !.op = "apply", !.at = "write", !.who = u, !.whom = s, !.covers = TRUE]
                      EXCEPT !.holds = {User(u)}]
<1>3. new.holds = {User(u)} /\ new.op = "apply" /\ new.at = "write" /\ new.who = u
  BY Zenon DEF Idle
<1>4. Arrive(r, new) /\ Unlocked(r, User(u))
  BY <1>2 DEF ArriveWith, Unlocked
<1>5. new \in CallRecs
  BY <1>1, Zenon DEF Idle, CallRecs, LockRows
<1> HIDE DEF new
<1>6. call'[r] = new /\ sub' = sub /\ leave' = leave
  BY <1>4, Arrival
<1>7. HeldRows(r)' = {}
  BY <1>3, <1>6, RowsDiffer DEF HeldRows
<1>8. PendingLeaves(u) = {} /\ PendingLeaves(u)' = PendingLeaves(u)
  BY <1>6 DEF ApplyReads, PendingLeaves
<1>9. ApplyOk(r)'
  BY <1>1, <1>3, <1>6, <1>8 DEF ApplyOk, PendingLeaves
<1>10. CallOk(r)'
  BY <1>3, <1>5, <1>6, <1>7, <1>9 DEF CallOk, RowsFit, AcceptOk, AnswerOk, AskOk, LeaveOk, LeftOk, Answers, LeaveOps
<1>11. QED BY <1>3, <1>4, <1>10, ArriveKeeps

LEMMA ChangeReadsKeeps ==
    ASSUME SubsInv, NEW r \in Calls, NEW l \in LeaveIds, ChangeReads(r, l)
    PROVE SubsInv' /\ StepOk
<1>1. leave[l].user \in Users /\ staff \subseteq Users /\ leave[l].status \notin {"none", "other"}
  BY DEF ChangeReads, SubsInv, TablesOk, Shapes, LeavesHaveUsers
<1>2. PICK covers \in BOOLEAN, s \in {None} \cup staff :
        Arrive(r, [Idle EXCEPT !.op = "change", !.at = "leave", !.leave = l,
                               !.who = leave[l].user, !.whom = s, !.covers = covers])
  BY Zenon DEF ChangeReads
<1> DEFINE new == [Idle EXCEPT !.op = "change", !.at = "leave", !.leave = l,
                               !.who = leave[l].user, !.whom = s, !.covers = covers]
<1>3. new.holds = {} /\ new.op = "change" /\ new.at = "leave" /\ new.leave = l /\ new.who = leave[l].user
  BY Zenon DEF Idle
<1>4. Arrive(r, new) /\ call'[r] = new /\ sub' = sub /\ leave' = leave
  BY <1>2, Arrival
<1>5. new \in CallRecs
  BY <1>1, Zenon DEF Idle, CallRecs, LeaveOps
<1> HIDE DEF new
<1>6. CallOk(r)'
  BY <1>1, <1>3, <1>4, <1>5 DEF HeldRows, CallOk, RowsFit, AcceptOk, AnswerOk, AskOk, ApplyOk, LeaveOk, LeftOk,
     Answers, LeaveOps
<1>7. QED BY <1>3, <1>4, <1>6, ArriveKeeps

LEMMA LeaveOpArrivesKeeps ==
    ASSUME SubsInv, NEW r \in Calls, NEW l \in LeaveIds, NEW op \in {"drop", "approve", "reject"}, LeaveOpArrives(r, op, l)
    PROVE SubsInv' /\ StepOk
<1> DEFINE new == [[Idle EXCEPT !.op = op, !.at = "rows", !.leave = l] EXCEPT !.holds = {Leave(l)}]
<1>1. new.holds = {Leave(l)} /\ new.op = op /\ new.at = "rows" /\ new.leave = l
  BY Zenon DEF Idle
<1>2. Arrive(r, new) /\ Unlocked(r, Leave(l)) /\ leave[l].status \notin {"none", "other"}
  BY DEF LeaveOpArrives, LeaveOpAllowed, ArriveWith, Unlocked
<1>3. new \in CallRecs
  BY Zenon DEF Idle, CallRecs, LockRows, LeaveOps
<1> HIDE DEF new
<1>4. call'[r] = new /\ sub' = sub /\ leave' = leave
  BY <1>2, Arrival
<1>5. HeldRows(r)' = {}
  BY <1>1, <1>4, RowsDiffer DEF HeldRows
<1>6. LeaveOk(r)'
  BY <1>1, <1>2, <1>4 DEF LeaveOk
<1>7. CallOk(r)'
  BY <1>1, <1>3, <1>4, <1>5, <1>6 DEF CallOk, RowsFit, AcceptOk, AnswerOk, AskOk, ApplyOk, LeftOk, Answers
<1>8. QED BY <1>1, <1>2, <1>7, ArriveKeeps

LEMMA LeftArrivesKeeps ==
    ASSUME SubsInv, NEW r \in Calls, NEW u \in staff, LeftArrives(r, u)
    PROVE SubsInv' /\ StepOk
<1> DEFINE new == [[Idle EXCEPT !.op = "left", !.at = "rows", !.who = u] EXCEPT !.holds = {User(u)}]
<1>1. new.holds = {User(u)} /\ new.op = "left" /\ new.at = "rows" /\ new.who = u
  BY Zenon DEF Idle
<1>2. Arrive(r, new) /\ Unlocked(r, User(u))
  BY DEF LeftArrives, ArriveWith, Unlocked
<1>3. u \in Users
  BY DEF SubsInv, TablesOk, Shapes
<1>4. new \in CallRecs
  BY <1>3, Zenon DEF Idle, CallRecs, LockRows
<1> HIDE DEF new
<1>5. call'[r] = new /\ sub' = sub /\ leave' = leave
  BY <1>2, Arrival
<1>6. HeldRows(r)' = {}
  BY <1>1, <1>5, RowsDiffer DEF HeldRows
<1>7. CallOk(r)'
  BY <1>1, <1>3, <1>4, <1>5, <1>6 DEF CallOk, RowsFit, AcceptOk, AnswerOk, AskOk, ApplyOk, LeaveOk, LeftOk,
     Answers, LeaveOps
<1>8. QED BY <1>1, <1>2, <1>7, ArriveKeeps

-----------------------------------------------------------------------------
(* Calls that go on *)

\* A statement that gets its locks, which nobody else has.
LEMMA LockStep ==
    ASSUME SubsInv, NEW r \in Calls, NEW step, LockThen(r, step)
    PROVE  /\ sub' = sub /\ leave' = leave /\ UNCHANGED <<tables, past>>
           /\ DOMAIN call' = Calls /\ \A q \in Calls \ {r} : call'[q] = call[q]
           /\ call'[r].holds = call[r].holds \cup Wants(r) /\ call'[r].at = step
           /\ call'[r].op = call[r].op /\ call'[r].sub = call[r].sub /\ call'[r].leave = call[r].leave
           /\ call'[r].who = call[r].who /\ call'[r].whom = call[r].whom /\ call'[r].covers = call[r].covers
           /\ \A row \in call'[r].holds : Unlocked(r, row)
           /\ HeldRows(r)' = HeldRows(r) \cup {i \in SubIds : Row(i) \in Wants(r)}
<1>1. DOMAIN call = Calls /\ call[r] \in CallRecs /\ LocksExclude
  BY DEF SubsInv, CallOk
<1>2. call' = [call EXCEPT ![r].holds = @ \cup Wants(r), ![r].at = step]
  BY DEF LockThen
<1>3. DOMAIN call[r] = {"op", "at", "sub", "leave", "who", "whom", "covers", "holds"}
  BY <1>1 DEF CallRecs
<1>4. DOMAIN call' = Calls /\ \A q \in Calls \ {r} : call'[q] = call[q]
  BY <1>1, <1>2
<1>5. /\ call'[r].holds = call[r].holds \cup Wants(r) /\ call'[r].at = step
      /\ call'[r].op = call[r].op /\ call'[r].sub = call[r].sub /\ call'[r].leave = call[r].leave
      /\ call'[r].who = call[r].who /\ call'[r].whom = call[r].whom /\ call'[r].covers = call[r].covers
  BY <1>1, <1>2, <1>3, Zenon
<1>6. ASSUME NEW row \in call'[r].holds  PROVE Unlocked(r, row)
  BY <1>1, <1>5, FreeIsUnlocked, OwnIsUnlocked DEF LockThen
<1>7. HeldRows(r)' = HeldRows(r) \cup {i \in SubIds : Row(i) \in Wants(r)}
  BY <1>5 DEF HeldRows
<1>8. QED BY <1>4, <1>5, <1>6, <1>7 DEF LockThen, tables

\* The call is still one of its kind, if it waited for rows that are there.
LEMMA LockShapes ==
    ASSUME SubsInv, NEW r \in Calls, NEW step \in {"row", "rows", "write"}, LockThen(r, step), Wants(r) \subseteq LockRows
    PROVE  call'[r] \in CallRecs
<1>1. call[r] \in CallRecs /\ call' = [call EXCEPT ![r].holds = @ \cup Wants(r), ![r].at = step] /\ DOMAIN call = Calls
  BY DEF SubsInv, CallOk, LockThen
<1>2. call'[r] = [call[r] EXCEPT !.holds = call[r].holds \cup Wants(r), !.at = step]
  BY <1>1, Zenon
<1>3. call[r].holds \cup Wants(r) \in SUBSET LockRows /\ step \in {"idle", "user", "row", "leave", "rows", "write"}
  BY <1>1 DEF CallRecs
<1>4. QED BY <1>1, <1>2, <1>3, Zenon DEF CallRecs

LEMMA AcceptLocksKeeps ==
    ASSUME SubsInv, NEW r \in Calls, AcceptLocks(r)
    PROVE SubsInv'
<1> DEFINE c == call[r]
<1>1. c.op = "accept" /\ c.at = "user" /\ LockThen(r, "row")
  BY DEF AcceptLocks, At
<1>2. CallOk(r) /\ AcceptOk(r)
  BY DEF SubsInv, CallOk
<1>3. Wants(r) = {User(Max({c.who, c.whom}))}
  BY <1>1 DEF Wants
<1>4. c.who \in Users /\ c.whom \in Users
  BY <1>1, <1>2 DEF AcceptOk
<1>5. call'[r] \in CallRecs
  BY <1>1, <1>3, <1>4, TwoPeople, LockShapes DEF LockRows
<1>6. HeldRows(r)' = HeldRows(r)
  BY <1>1, <1>3, LockStep, RowsDiffer DEF HeldRows
<1>7. AcceptOk(r)'
  <2>1. User(Max({c.who, c.whom})) \in call'[r].holds /\ User(Min({c.who, c.whom})) \in call'[r].holds
    BY <1>1, <1>2, <1>3, LockStep DEF AcceptOk
  <2>2. call'[r].at = "row" /\ call'[r].who = c.who /\ call'[r].whom = c.whom /\ call'[r].sub = c.sub /\ sub' = sub
    BY <1>1, LockStep
  <2>3. c.sub \in SubIds /\ sub[c.sub].requester = c.who /\ sub[c.sub].substitute = c.whom
        /\ \A i \in HeldRows(r) : sub[i].requester = c.who
    BY <1>1, <1>2 DEF AcceptOk
  <2>4. QED BY <1>4, <1>6, <2>1, <2>2, <2>3 DEF AcceptOk
<1>8. RowsFit(r)'
  BY <1>1, <1>2, <1>6, LockStep DEF CallOk, RowsFit
<1>9. CallOk(r)'
  BY <1>1, <1>5, <1>7, <1>8, LockStep DEF CallOk, AnswerOk, AskOk, ApplyOk, LeaveOk, LeftOk, Answers, LeaveOps
<1>10. QED BY <1>1, <1>9, LockStep, MoveKeeps

LEMMA AcceptLocksOthersKeeps ==
    ASSUME SubsInv, NEW r \in Calls, AcceptLocksOthers(r)
    PROVE SubsInv'
<1> DEFINE c == call[r]
<1>1. c.op = "accept" /\ c.at = "rows" /\ LockThen(r, "write")
  BY DEF AcceptLocksOthers, At
<1>2. CallOk(r) /\ AcceptOk(r)
  BY DEF SubsInv, CallOk
<1>3. Wants(r) = {Row(i) : i \in Others(c.sub)} /\ Others(c.sub) \subseteq SubIds
  <2>1. Wants(r) = {Row(i) : i \in Others(c.sub)}
    BY <1>1 DEF Wants, LeaveOps
  <2>2. QED BY <2>1 DEF Others
<1>4. call'[r] \in CallRecs
  BY <1>1, <1>3, LockShapes DEF LockRows
<1>5. HeldRows(r)' = HeldRows(r) \cup Others(c.sub)
  BY <1>1, <1>3, LockStep, RowsDiffer
<1>6. \A i \in Others(c.sub) : sub[i].status = "pending" /\ sub[i].requester = c.who
  BY <1>1, <1>2 DEF AcceptOk, Others
<1>7. KeyHit(r)' = KeyHit(r)
  BY <1>1, LockStep DEF KeyHit, Accepted, Covering
<1>8. AcceptOk(r)'
  BY <1>1, <1>2, <1>5, <1>6, <1>7, LockStep DEF AcceptOk
<1>9. RowsFit(r)'
  BY <1>1, <1>2, <1>5, <1>6, LockStep DEF CallOk, RowsFit, Fits, Open
<1>10. CallOk(r)'
  BY <1>1, <1>4, <1>8, <1>9, LockStep DEF CallOk, AnswerOk, AskOk, ApplyOk, LeaveOk, LeftOk, Answers, LeaveOps
<1>11. QED BY <1>1, <1>10, LockStep, MoveKeeps

LEMMA ChangeLocksKeeps ==
    ASSUME SubsInv, NEW r \in Calls, ChangeLocks(r)
    PROVE SubsInv'
<1> DEFINE c == call[r]
<1>1. c.op = "change" /\ c.at = "leave"
  BY DEF ChangeLocks, At
<1>2. CASE Refuse(r)
  BY <1>2, RefuseKeeps
<1>3. CASE LockThen(r, "rows")
  <2>1. CallOk(r) /\ LeaveOk(r)
    BY DEF SubsInv, CallOk
  <2>2. Wants(r) = {Leave(c.leave)} /\ c.leave \in LeaveIds
    BY <1>1, <2>1 DEF Wants, LeaveOk, LeaveOps
  <2>3. call'[r] \in CallRecs
    BY <1>3, <2>2, LockShapes DEF LockRows
  <2>4. HeldRows(r)' = HeldRows(r)
    BY <1>3, <2>2, LockStep, RowsDiffer DEF HeldRows
  <2>5. LeaveOk(r)'
    BY <1>1, <1>3, <2>1, <2>2, LockStep DEF LeaveOk, LeaveOps
  <2>6. RowsFit(r)'
    BY <1>3, <2>1, <2>4, LockStep DEF CallOk, RowsFit
  <2>7. CallOk(r)'
    BY <1>1, <1>3, <2>3, <2>5, <2>6, LockStep DEF CallOk, AcceptOk, AnswerOk, AskOk, ApplyOk, LeftOk, Answers
  <2>8. QED BY <1>3, <2>7, LockStep, MoveKeeps
<1>4. QED BY <1>2, <1>3 DEF ChangeLocks

LEMMA LeaveOpLocksRowsKeeps ==
    ASSUME SubsInv, NEW r \in Calls, LeaveOpLocksRows(r)
    PROVE SubsInv'
<1> DEFINE c == call[r]
<1>1. c.op \in LeaveOps /\ c.at = "rows" /\ LockThen(r, "write")
  BY DEF LeaveOpLocksRows
<1>2. CallOk(r) /\ LeaveOk(r)
  BY DEF SubsInv, CallOk
<1>3. Wants(r) = {Row(i) : i \in Dropped(r)} /\ Dropped(r) \subseteq OpenSubs /\ OpenSubs \subseteq SubIds
  BY <1>1 DEF Wants, Dropped, OpenSubs, LeaveOps
<1>4. call'[r] \in CallRecs
  BY <1>1, <1>3, LockShapes DEF LockRows
<1>5. HeldRows(r)' = HeldRows(r) \cup Dropped(r)
  BY <1>1, <1>3, LockStep, RowsDiffer
<1>6. ASSUME c.op \in {"drop", "reject"}, NEW i \in OpenSubs, sub[i].leave = c.leave  PROVE i \in Dropped(r)
  BY <1>6 DEF Dropped
<1>7. OpenSubs' = OpenSubs
  BY <1>1, LockStep DEF OpenSubs
<1>8. LeaveOk(r)'
  BY <1>1, <1>2, <1>5, <1>6, <1>7, LockStep DEF LeaveOk
<1>9. RowsFit(r)'
  BY <1>1, <1>2, <1>3, <1>5, LockStep DEF CallOk, RowsFit, Fits, OpenSubs, LeaveOps
<1>10. CallOk(r)'
  BY <1>1, <1>4, <1>8, <1>9, LockStep DEF CallOk, AcceptOk, AnswerOk, AskOk, ApplyOk, LeftOk, Answers, LeaveOps
<1>11. QED BY <1>1, <1>10, LockStep, MoveKeeps

LEMMA LeftLocksRowsKeeps ==
    ASSUME SubsInv, NEW r \in Calls, LeftLocksRows(r)
    PROVE SubsInv'
<1> DEFINE c == call[r]
<1>1. c.op = "left" /\ c.at = "rows" /\ LockThen(r, "write")
  BY DEF LeftLocksRows, At
<1>2. CallOk(r) /\ LeftOk(r)
  BY DEF SubsInv, CallOk
<1>3. Wants(r) = {Row(i) : i \in OpenWith(c.who)} /\ OpenWith(c.who) \subseteq OpenSubs /\ OpenSubs \subseteq SubIds
  <2>1. Wants(r) = {Row(i) : i \in OpenWith(c.who)}
    BY <1>1 DEF Wants, LeaveOps
  <2>2. QED BY <2>1 DEF OpenWith, OpenSubs
<1>4. call'[r] \in CallRecs
  BY <1>1, <1>3, LockShapes DEF LockRows
<1>5. HeldRows(r)' = HeldRows(r) \cup OpenWith(c.who)
  BY <1>1, <1>3, LockStep, RowsDiffer
<1>6. OpenSubs' = OpenSubs /\ past' = past
  BY <1>1, LockStep DEF OpenSubs
<1>7. LeftOk(r)'
  BY <1>1, <1>2, <1>5, <1>6, LockStep DEF LeftOk, OpenWith
<1>8. RowsFit(r)'
  BY <1>1, <1>2, <1>3, <1>5, LockStep DEF CallOk, RowsFit, Fits, OpenSubs
<1>9. CallOk(r)'
  BY <1>1, <1>4, <1>7, <1>8, LockStep DEF CallOk, AcceptOk, AnswerOk, AskOk, ApplyOk, LeaveOk, Answers, LeaveOps
<1>10. QED BY <1>1, <1>9, LockStep, MoveKeeps

-----------------------------------------------------------------------------
(* Commits *)

SamePeople(i) == sub'[i].requester = sub[i].requester /\ sub'[i].substitute = sub[i].substitute
SameStatus(i) == sub'[i].status = sub[i].status
PeopleUnlocked(r, i) == Unlocked(r, User(sub'[i].requester)) /\ Unlocked(r, User(sub'[i].substitute))

\* The request is put with a leave of its requester that nobody else is closing.
GetsLeave(r, i) ==
    LET l == sub'[i].leave IN
    /\ l \in LeaveIds /\ leave'[l].status # "none" /\ leave'[l].user = sub'[i].requester
    /\ Unlocked(r, Leave(l)) \/ leave[l].status = "none"

Closing(r, i) ==
    /\ Unlocked(r, Row(i)) /\ SamePeople(i)
    /\ sub[i].status \in Open /\ sub'[i].status \notin Open /\ MovesOn(sub[i].status, sub'[i].status)
    /\ sub'[i].status = "filled" => Taken(i)
    /\ sub'[i].leave \in {sub[i].leave, None} \/ GetsLeave(r, i)
Accepting(r, i) ==
    /\ Unlocked(r, Row(i)) /\ SamePeople(i) /\ PeopleUnlocked(r, i)
    /\ sub[i].status = "pending" /\ sub'[i].status = "accepted" /\ sub'[i].leave = sub[i].leave
Asking(r, i) ==
    /\ sub[i] = NoSub /\ sub'[i].status = "pending" /\ sub'[i].requester \in Users /\ sub'[i].substitute \in Users
    /\ PeopleUnlocked(r, i)
    /\ sub'[i].leave = None \/ GetsLeave(r, i)
Linking(r, i) == SameStatus(i) /\ SamePeople(i) /\ (sub'[i].leave = None \/ GetsLeave(r, i))

\* What a commit may do to a request, and to a leave.
RequestStep(r, i) == sub'[i] = sub[i] \/ Closing(r, i) \/ Accepting(r, i) \/ Asking(r, i) \/ Linking(r, i)
OldLeave(l) ==
    /\ leave'[l].user = leave[l].user
    /\ leave[l].status \in {"none", "other"} \/ leave'[l].status \in {"none", "other"} => leave'[l].status = leave[l].status
    /\ leave'[l].status = "pending" => leave[l].status = "pending"
NewLeave(r, l) ==
    /\ leave[l].status = "none" /\ leave'[l].status = "pending"
    /\ leave'[l].user \in Users /\ Unlocked(r, User(leave'[l].user))

LEMMA RequestStepFenced ==
    ASSUME SubsInv, NEW r \in Calls, \A i \in SubIds : RequestStep(r, i)
    PROVE  /\ \A i \in SubIds :
                /\ sub'[i].status # sub[i].status => sub[i].status = "none" \/ Unlocked(r, Row(i))
                /\ sub[i].requester # None => sub'[i].requester = sub[i].requester /\ sub'[i].substitute = sub[i].substitute
                /\ sub'[i].status = "accepted" /\ sub[i].status # "accepted" =>
                       Unlocked(r, User(sub'[i].requester)) /\ Unlocked(r, User(sub'[i].substitute))
                /\ sub'[i].status \in Open /\ sub[i].status \notin Open =>
                       Unlocked(r, User(sub'[i].requester)) /\ Unlocked(r, User(sub'[i].substitute))
                /\ sub'[i].status \in Open /\ sub'[i].leave # None /\ ~(sub[i].status \in Open /\ sub[i].leave = sub'[i].leave) =>
                       Unlocked(r, Leave(sub'[i].leave)) \/ leave[sub'[i].leave].status = "none"
           /\ StatusesMove /\ FilledIsTaken
<1>1. SUFFICES ASSUME NEW i \in SubIds
               PROVE  /\ sub'[i].status # sub[i].status => sub[i].status = "none" \/ Unlocked(r, Row(i))
                      /\ sub[i].requester # None => sub'[i].requester = sub[i].requester /\ sub'[i].substitute = sub[i].substitute
                      /\ sub'[i].status = "accepted" /\ sub[i].status # "accepted" =>
                             Unlocked(r, User(sub'[i].requester)) /\ Unlocked(r, User(sub'[i].substitute))
                      /\ sub'[i].status \in Open /\ sub[i].status \notin Open =>
                             Unlocked(r, User(sub'[i].requester)) /\ Unlocked(r, User(sub'[i].substitute))
                      /\ sub'[i].status \in Open /\ sub'[i].leave # None
                         /\ ~(sub[i].status \in Open /\ sub[i].leave = sub'[i].leave) =>
                             Unlocked(r, Leave(sub'[i].leave)) \/ leave[sub'[i].leave].status = "none"
                      /\ sub'[i].status # sub[i].status => MovesOn(sub[i].status, sub'[i].status)
                      /\ sub[i].status = "pending" /\ sub'[i].status = "filled" => Taken(i)
  BY DEF StatusesMove, FilledIsTaken
<1>2. CASE sub'[i] = sub[i]
  BY <1>2
<1>3. CASE Closing(r, i)
  BY <1>3 DEF Closing, SamePeople, Open
<1>4. CASE Accepting(r, i)
  BY <1>4 DEF Accepting, SamePeople, PeopleUnlocked, Open, MovesOn
<1>5. CASE Asking(r, i)
  BY <1>5 DEF Asking, PeopleUnlocked, GetsLeave, Open, MovesOn, NoSub
<1>6. CASE Linking(r, i)
  BY <1>6 DEF Linking, SamePeople, SameStatus, GetsLeave
<1>7. QED BY <1>1, <1>2, <1>3, <1>4, <1>5, <1>6 DEF RequestStep

\* A commit of such steps keeps the tables and everybody's view in order.
LEMMA StepsKeep ==
    ASSUME SubsInv, NEW r \in Calls, Finish(r), Shapes', PendingAlone', ClosesAll,
           \A i \in SubIds : RequestStep(r, i), \A l \in LeaveIds : OldLeave(l) \/ NewLeave(r, l)
    PROVE SubsInv' /\ StepOk
<1>1. /\ \A l \in LeaveIds : leave[l].status # "none" => leave'[l].status # "none" /\ leave'[l].user = leave[l].user
      /\ \A l \in LeaveIds : leave[l].status \notin {"none", "other"} => leave'[l].status \notin {"none", "other"}
      /\ \A l \in LeaveIds : leave'[l].status = "pending" /\ leave[l].status # "pending" => Unlocked(r, User(leave'[l].user))
  BY DEF OldLeave, NewLeave
<1>2. Fenced(r)
  BY <1>1, RequestStepFenced DEF Fenced
<1>3. RequestsHavePeople'
  <2>1. SUFFICES ASSUME NEW i \in SubIds
                 PROVE  People(sub'[i]) /\ (sub'[i].status \in Open => sub'[i].requester # None)
    BY DEF RequestsHavePeople, People
  <2>2. People(sub[i]) /\ (sub[i].status \in Open => sub[i].requester # None)
    BY DEF SubsInv, TablesOk, RequestsHavePeople
  <2>3. CASE Asking(r, i)
    BY <2>3, IdsAssumption DEF Asking, People
  <2>4. CASE ~Asking(r, i)
    BY <2>2, <2>4 DEF RequestStep, Closing, Accepting, Linking, SamePeople, SameStatus, People, Open
  <2>5. QED BY <2>3, <2>4
<1>4. LeavesHaveUsers'
  BY DEF SubsInv, TablesOk, LeavesHaveUsers, OldLeave, NewLeave
<1>5. LeavesAreOwn'
  <2>1. SUFFICES ASSUME NEW i \in SubIds, sub'[i].leave # None
                 PROVE  leave'[sub'[i].leave].status # "none" /\ leave'[sub'[i].leave].user = sub'[i].requester
    BY DEF LeavesAreOwn, LeaveIsOwn
  <2>2. CASE GetsLeave(r, i)
    BY <2>2 DEF GetsLeave
  <2>3. CASE sub'[i].leave = sub[i].leave /\ (sub'[i] = sub[i] \/ SamePeople(i))
    <3>1. sub[i].leave \in LeaveIds /\ leave[sub[i].leave].status # "none" /\ leave[sub[i].leave].user = sub[i].requester
      BY <2>1, <2>3 DEF SubsInv, TablesOk, LeavesAreOwn, LeaveIsOwn, Shapes, SubRecs
    <3>2. QED BY <1>1, <2>3, <3>1 DEF SamePeople
  <2>4. QED BY <2>1, <2>2, <2>3 DEF RequestStep, Closing, Accepting, Asking, Linking
<1>6. TablesOk'
  BY <1>3, <1>4, <1>5 DEF TablesOk
<1>7. QED BY <1>2, <1>6, CommitKeeps, RequestStepFenced DEF StepOk

\* A commit that puts in no leave.
LEMMA OldLeavesAlone ==
    ASSUME SubsInv, \A l \in LeaveIds : OldLeave(l)
    PROVE PendingAlone'
  BY DEF SubsInv, TablesOk, PendingAlone, OldLeave

Statuses == {"none", "other", "declined", "cancelled", "withdrawn", "filled"} \cup Open
LeaveStatuses == {"none", "other", "pending", "approved", "rejected", "cancelled", "deleted"}

LEMMA StatusSet ==
    ASSUME NEW s \in SubRecs, NEW st \in Statuses
    PROVE  /\ [s EXCEPT !.status = st] \in SubRecs
           /\ [s EXCEPT !.status = st].status = st
           /\ [s EXCEPT !.status = st].requester = s.requester
           /\ [s EXCEPT !.status = st].substitute = s.substitute
           /\ [s EXCEPT !.status = st].leave = s.leave
  BY DEF SubRecs, Statuses

LEMMA LeaveSet ==
    ASSUME NEW s \in SubRecs, NEW l \in LeaveIds \cup {None}
    PROVE  /\ [s EXCEPT !.leave = l] \in SubRecs
           /\ [s EXCEPT !.leave = l].status = s.status
           /\ [s EXCEPT !.leave = l].requester = s.requester
           /\ [s EXCEPT !.leave = l].substitute = s.substitute
           /\ [s EXCEPT !.leave = l].leave = l
  BY DEF SubRecs

LEMMA ReviewSet ==
    ASSUME NEW v \in LeaveRecs, NEW st \in LeaveStatuses
    PROVE  /\ [v EXCEPT !.status = st] \in LeaveRecs
           /\ [v EXCEPT !.status = st].status = st
           /\ [v EXCEPT !.status = st].user = v.user
  BY DEF LeaveRecs, LeaveStatuses

LEMMA ClosedRows ==
    ASSUME Shapes, NEW rows, NEW st \in Statuses
    PROVE  /\ Closed(rows, st) \in [SubIds -> SubRecs]
           /\ \A i \in SubIds :
                /\ Closed(rows, st)[i].status = IF i \in rows THEN st ELSE sub[i].status
                /\ Closed(rows, st)[i].requester = sub[i].requester
                /\ Closed(rows, st)[i].substitute = sub[i].substitute
                /\ Closed(rows, st)[i].leave = sub[i].leave
                /\ i \notin rows => Closed(rows, st)[i] = sub[i]
<1>1. sub \in [SubIds -> SubRecs]
  BY DEF Shapes
<1>2. \A i \in SubIds : Closed(rows, st)[i] = IF i \in rows THEN [sub[i] EXCEPT !.status = st] ELSE sub[i]
  BY DEF Closed
<1>3. \A i \in SubIds :
        /\ [sub[i] EXCEPT !.status = st] \in SubRecs
        /\ [sub[i] EXCEPT !.status = st].status = st
        /\ [sub[i] EXCEPT !.status = st].requester = sub[i].requester
        /\ [sub[i] EXCEPT !.status = st].substitute = sub[i].substitute
        /\ [sub[i] EXCEPT !.status = st].leave = sub[i].leave
  BY <1>1, StatusSet
<1>4. Closed(rows, st) \in [SubIds -> SubRecs]
  BY <1>1, <1>3 DEF Closed
<1>5. QED BY <1>2, <1>3, <1>4

LEMMA AskedRow ==
    ASSUME NEW i, NEW q \in Users, NEW s \in Users, NEW l \in LeaveIds \cup {None}
    PROVE  /\ Asked(i, q, s, l) \in SubRecs
           /\ Asked(i, q, s, l).status = "pending" /\ Asked(i, q, s, l).requester = q
           /\ Asked(i, q, s, l).substitute = s /\ Asked(i, q, s, l).leave = l
  BY DEF Asked, SubRecs, Open

LEMMA Refused ==
    ASSUME SubsInv, NEW r \in Calls, Finish(r), UNCHANGED tables
    PROVE  SubsInv' /\ StepOk
  BY RefuseKeeps, QuietStep DEF Refuse

LEMMA HeldIsOpen ==
    ASSUME SubsInv, NEW r \in Calls, NEW i \in HeldRows(r)
    PROVE  i \in SubIds /\ sub[i].status \in Open /\ Unlocked(r, Row(i)) /\ Fits(call[r].op, sub[i].status)
  BY OwnIsUnlocked DEF SubsInv, CallOk, RowsFit, Fits, HeldRows

LEMMA SameLeaves ==
    ASSUME leave' = leave
    PROVE  \A l \in LeaveIds : OldLeave(l)
  BY DEF OldLeave

LEMMA AskInsertsKeeps ==
    ASSUME SubsInv, NEW r \in Calls, NEW i \in SubIds, AskInserts(r, i)
    PROVE SubsInv' /\ StepOk
<1> DEFINE c == call[r]
<1>1. c.op = "ask" /\ c.at = "write" /\ Free(r) /\ sub[i] = NoSub /\ Finish(r)
  BY DEF AskInserts, At
<1>2. CASE UNCHANGED tables
  BY <1>1, <1>2, Refused
<1>3. CASE sub' = [sub EXCEPT ![i] = Asked(i, c.who, c.whom, c.leave)] /\ UNCHANGED <<leave, teaches, staff>>
  <2>1. c.who \in Users /\ c.whom \in Users /\ c.leave \in LeaveIds \cup {None}
        /\ (c.leave # None => leave[c.leave].status # "none" /\ leave[c.leave].user = c.who)
    BY <1>1 DEF SubsInv, CallOk, AskOk, CallRecs
  <2>2. Wants(r) = InsertWants(r) \cup {Leave(l) : l \in {c.leave} \ {None}}
    BY <1>1 DEF Wants, Answers, LeaveOps
  <2>3. User(c.who) \in Wants(r) /\ User(c.whom) \in Wants(r) /\ (c.leave # None => Leave(c.leave) \in Wants(r))
    BY <2>1, <2>2, IdsAssumption DEF InsertWants
  <2>4. Shapes
    BY DEF SubsInv, TablesOk
  <2>5. sub' \in [SubIds -> SubRecs] /\ sub'[i] = Asked(i, c.who, c.whom, c.leave) /\ \A j \in SubIds \ {i} : sub'[j] = sub[j]
    BY <1>3, <2>1, <2>4, AskedRow DEF Shapes
  <2>6. Asking(r, i)
    BY <1>1, <1>3, <2>1, <2>3, <2>5, AskedRow, FreeIsUnlocked DEF Asking, PeopleUnlocked, GetsLeave
  <2>7. \A j \in SubIds : RequestStep(r, j)
    BY <2>5, <2>6 DEF RequestStep
  <2>8. ClosesAll /\ Shapes'
    BY <1>3, <2>4, <2>5 DEF ClosesAll, Shapes
  <2>9. (\A l \in LeaveIds : OldLeave(l)) /\ PendingAlone'
    BY <1>3, SameLeaves, OldLeavesAlone
  <2>10. QED BY <1>1, <2>7, <2>8, <2>9, StepsKeep
<1>4. QED BY <1>2, <1>3 DEF AskInserts

LEMMA AcceptDecidesKeeps ==
    ASSUME SubsInv, NEW r \in Calls, AcceptDecides(r)
    PROVE SubsInv' /\ StepOk
<1> DEFINE c == call[r]
           i == c.sub
<1>1. c.op = "accept" /\ c.at = "row" /\ Free(r)
  BY DEF AcceptDecides, At
<1>2. CallOk(r) /\ AcceptOk(r) /\ Shapes
  BY DEF SubsInv, CallOk, TablesOk
<1>3. i \in SubIds /\ sub[i].requester = c.who /\ c.who \in Users /\ c.whom \in Users
  BY <1>1, <1>2 DEF AcceptOk
<1>4. Wants(r) = {Row(i)}
  BY <1>1 DEF Wants
<1>5. CASE Refuse(r)
  BY <1>5, RefuseKeeps, QuietStep DEF Refuse
<1>6. CASE /\ sub[i].status = "pending" /\ Accepted(c.who) # {}
           /\ sub' = Closed({i}, "filled") /\ Finish(r) /\ UNCHANGED <<leave, teaches, staff>>
  <2>1. PICK j \in SubIds : sub[j].status = "accepted" /\ sub[j].requester = c.who
    BY <1>6 DEF Accepted
  <2>2. "filled" \in Statuses
    BY DEF Statuses
  <2>3. Shapes'
    BY <1>2, <1>6, <2>2, ClosedRows DEF Shapes
  <2>4. Taken(i)
    BY <1>2, <1>3, <1>6, <2>1, <2>2, ClosedRows DEF Taken
  <2>5. Closing(r, i)
    BY <1>1, <1>2, <1>3, <1>4, <1>6, <2>2, <2>4, ClosedRows, FreeIsUnlocked DEF Closing, SamePeople, Open, MovesOn
  <2>6. \A k \in SubIds : RequestStep(r, k)
    BY <1>2, <1>6, <2>2, <2>5, ClosedRows DEF RequestStep
  <2>7. ClosesAll
    BY <1>6 DEF ClosesAll
  <2>8. (\A l \in LeaveIds : OldLeave(l)) /\ PendingAlone'
    BY <1>6, SameLeaves, OldLeavesAlone
  <2>9. QED BY <1>6, <2>3, <2>6, <2>7, <2>8, StepsKeep
<1>7. CASE /\ sub[i].status = "pending" /\ Accepted(c.who) = {} /\ Covering(c.whom) = {}
           /\ LockThen(r, "rows")
  <2>1. call'[r] \in CallRecs
    BY <1>3, <1>4, <1>7, LockShapes DEF LockRows
  <2>2. HeldRows(r)' = HeldRows(r) \cup {i}
    BY <1>3, <1>4, <1>7, LockStep, RowsDiffer
  <2>3. ~KeyHit(r)'
    BY <1>7, LockStep DEF KeyHit, Accepted, Covering
  <2>4. User(Max({c.who, c.whom})) \in call'[r].holds /\ User(Min({c.who, c.whom})) \in call'[r].holds /\ Row(i) \in call'[r].holds
    BY <1>1, <1>2, <1>4, <1>7, LockStep DEF AcceptOk
  <2>5. call'[r].at = "rows" /\ call'[r].who = c.who /\ call'[r].whom = c.whom /\ call'[r].sub = c.sub /\ sub' = sub
    BY <1>7, LockStep
  <2>6. sub[i].substitute = c.whom /\ \A k \in HeldRows(r) : sub[k].requester = c.who
    BY <1>1, <1>2 DEF AcceptOk
  <2>7. AcceptOk(r)'
    BY <1>3, <2>2, <2>3, <2>4, <2>5, <2>6 DEF AcceptOk
  <2>8. RowsFit(r)'
    BY <1>1, <1>2, <1>7, <2>2, LockStep DEF CallOk, RowsFit, Fits, Open
  <2>9. CallOk(r)'
    BY <1>1, <1>7, <2>1, <2>7, <2>8, LockStep DEF CallOk, AnswerOk, AskOk, ApplyOk, LeaveOk, LeftOk, Answers, LeaveOps
  <2>10. SubsInv'
    BY <1>7, <2>9, LockStep, MoveKeeps
  <2>11. QED BY <1>7, <2>10, LockStep, QuietStep
<1>8. QED BY <1>5, <1>6, <1>7 DEF AcceptDecides

LEMMA AcceptCommitsKeeps ==
    ASSUME SubsInv, NEW r \in Calls, AcceptCommits(r)
    PROVE SubsInv' /\ StepOk
<1> DEFINE c == call[r]
           i == c.sub
           others == HeldRows(r) \ {i}
<1>1. c.op = "accept" /\ c.at = "write" /\ Free(r) /\ Finish(r)
  BY DEF AcceptCommits, At
<1>2. CallOk(r) /\ AcceptOk(r) /\ Shapes
  BY DEF SubsInv, CallOk, TablesOk
<1>3. /\ i \in SubIds /\ sub[i].requester = c.who /\ sub[i].substitute = c.whom /\ c.who \in Users /\ c.whom \in Users
      /\ Row(i) \in c.holds /\ User(c.who) \in c.holds /\ User(c.whom) \in c.holds
      /\ \A k \in HeldRows(r) : sub[k].requester = c.who
  BY <1>1, <1>2, BothLocked DEF AcceptOk
<1>4. CASE UNCHANGED tables
  BY <1>1, <1>4, Refused
<1>5. CASE sub' = [Closed(others, "filled") EXCEPT ![i].status = "accepted"] /\ UNCHANGED <<leave, teaches, staff>>
  <2>1. "filled" \in Statuses /\ "accepted" \in Statuses
    BY DEF Statuses, Open
  <2> DEFINE rows == Closed(others, "filled")
  <2>2. rows \in [SubIds -> SubRecs] /\ rows[i] = sub[i]
    BY <1>2, <1>3, <2>1, ClosedRows
  <2>3. sub' = [rows EXCEPT ![i] = [rows[i] EXCEPT !.status = "accepted"]]
    BY <1>5, Zenon
  <2>4. sub' \in [SubIds -> SubRecs]
    BY <1>3, <2>1, <2>2, <2>3, StatusSet
  <2>5. Shapes'
    BY <1>2, <1>5, <2>4 DEF Shapes
  <2>6. /\ sub'[i].status = "accepted" /\ sub'[i].requester = sub[i].requester
        /\ sub'[i].substitute = sub[i].substitute /\ sub'[i].leave = sub[i].leave
    BY <1>3, <2>1, <2>2, <2>3, StatusSet
  <2>7. i \in HeldRows(r) /\ sub[i].status = "pending"
    BY <1>1, <1>2, <1>3 DEF HeldRows, CallOk, RowsFit, Fits
  <2>8. Accepting(r, i)
    BY <1>2, <1>3, <2>6, <2>7, HeldIsOpen, OwnIsUnlocked DEF Accepting, SamePeople, PeopleUnlocked, SubsInv
  <2>9. ASSUME NEW k \in SubIds \ {i}  PROVE RequestStep(r, k)
    <3>1. sub'[k] = rows[k]
      BY <2>2, <2>3, <2>9
    <3>2. CASE k \in HeldRows(r)
      <4>1. Taken(k)
        BY <1>3, <2>6, <3>2 DEF Taken
      <4>2. sub[k].status = "pending" /\ Unlocked(r, Row(k))
        BY <1>1, <3>2, HeldIsOpen DEF Fits
      <4>3. sub'[k].status = "filled" /\ SamePeople(k) /\ sub'[k].leave = sub[k].leave
        BY <1>2, <2>1, <2>9, <3>1, <3>2, ClosedRows DEF SamePeople
      <4>4. QED BY <4>1, <4>2, <4>3 DEF RequestStep, Closing, Open, MovesOn
    <3>3. CASE k \notin HeldRows(r)
      BY <1>2, <2>1, <2>9, <3>1, <3>3, ClosedRows DEF RequestStep
    <3>4. QED BY <3>2, <3>3
  <2>10. \A k \in SubIds : RequestStep(r, k)
    BY <2>8, <2>9 DEF RequestStep
  <2>11. ClosesAll
    BY <1>5 DEF ClosesAll
  <2>12. (\A l \in LeaveIds : OldLeave(l)) /\ PendingAlone'
    BY <1>5, SameLeaves, OldLeavesAlone
  <2>13. QED BY <1>1, <2>5, <2>10, <2>11, <2>12, StepsKeep
<1>6. QED BY <1>4, <1>5 DEF AcceptCommits

LEMMA AnswerCommitsKeeps ==
    ASSUME SubsInv, NEW r \in Calls, AnswerCommits(r)
    PROVE SubsInv' /\ StepOk
<1> DEFINE c == call[r]
           i == c.sub
           st == CASE c.op = "decline" -> "declined" [] c.op = "withdraw" -> "withdrawn" [] c.op = "cancel" -> "cancelled"
<1>1. c.op \in Answers /\ sub' = Closed({i}, st) /\ Finish(r) /\ UNCHANGED <<leave, teaches, staff>>
  BY DEF AnswerCommits
<1>2. Shapes /\ i \in SubIds /\ i \in HeldRows(r)
  BY <1>1 DEF SubsInv, TablesOk, CallOk, AnswerOk, HeldRows
<1>3. Fits(c.op, sub[i].status) /\ Unlocked(r, Row(i)) /\ sub[i].status \in Open
  BY <1>2, HeldIsOpen
<1>4. MovesOn(sub[i].status, st) /\ st \in Statuses /\ st \notin Open \cup {"filled"}
  BY <1>1, <1>3 DEF Answers, Fits, Open, MovesOn, Statuses
<1> HIDE DEF st
<1>5. Closing(r, i)
  BY <1>1, <1>2, <1>3, <1>4, ClosedRows DEF Closing, SamePeople
<1>6. \A k \in SubIds : RequestStep(r, k)
  BY <1>1, <1>2, <1>4, <1>5, ClosedRows DEF RequestStep
<1>7. Shapes' /\ ClosesAll
  BY <1>1, <1>2, <1>4, ClosedRows DEF Shapes, ClosesAll
<1>8. (\A l \in LeaveIds : OldLeave(l)) /\ PendingAlone'
  BY <1>1, SameLeaves, OldLeavesAlone
<1>9. QED BY <1>1, <1>6, <1>7, <1>8, StepsKeep

\* What StoreWith makes of `rows`, row by row.
LEMMA StoredRows ==
    ASSUME NEW r \in Calls, NEW rows \in [SubIds -> SubRecs], NEW l \in LeaveIds, StoreWith(r, rows, l),
           call[r].who \in Users, call[r].whom \in Users \cup {None}
    PROVE  /\ sub' \in [SubIds -> SubRecs]
           /\ \A i \in SubIds :
                \/ sub'[i] = rows[i]
                \/ i \in Linked(r) /\ sub'[i] = [rows[i] EXCEPT !.leave = l]
                \/ call[r].whom # None /\ sub[i] = NoSub /\ sub'[i] = Asked(i, call[r].who, call[r].whom, l)
<1> DEFINE linked == [i \in SubIds |-> IF i \in Linked(r) THEN [rows[i] EXCEPT !.leave = l] ELSE rows[i]]
           asked(i) == Asked(i, call[r].who, call[r].whom, l)
<1>1. linked \in [SubIds -> SubRecs]
  BY LeaveSet
<1>2. \A i \in SubIds : linked[i] = rows[i] \/ (i \in Linked(r) /\ linked[i] = [rows[i] EXCEPT !.leave = l])
  OBVIOUS
<1> HIDE DEF linked
<1>3. CASE call[r].whom = None
  <2>1. sub' = linked
    BY <1>3 DEF StoreWith, linked
  <2>2. QED BY <1>1, <1>2, <2>1
<1>4. CASE call[r].whom # None
  <2>1. PICK j \in SubIds : sub[j] = NoSub /\ sub' = [linked EXCEPT ![j] = asked(j)]
    BY <1>4 DEF StoreWith, linked
  <2>2. asked(j) \in SubRecs
    BY <1>4, AskedRow
  <2> HIDE DEF asked
  <2>3. sub' \in [SubIds -> SubRecs] /\ sub'[j] = asked(j) /\ \A i \in SubIds \ {j} : sub'[i] = linked[i]
    BY <1>1, <2>1, <2>2
  <2>4. QED BY <1>2, <1>4, <2>1, <2>3 DEF asked
<1>5. QED BY <1>3, <1>4

\* request_leave and update_leave, for a leave of their user that nobody else is closing.
LEMMA StoredSteps ==
    ASSUME SubsInv, NEW r \in Calls, NEW H \in SUBSET HeldRows(r), NEW l \in LeaveIds,
           StoreWith(r, Closed(H, "cancelled"), l), Free(r), InsertWants(r) \subseteq Wants(r),
           call[r].who \in Users, leave'[l].status # "none", leave'[l].user = call[r].who,
           Unlocked(r, Leave(l)) \/ leave[l].status = "none"
    PROVE  sub' \in [SubIds -> SubRecs] /\ \A i \in SubIds : RequestStep(r, i)
<1> DEFINE rows == Closed(H, "cancelled")
           c == call[r]
<1>1. Shapes /\ "cancelled" \in Statuses /\ c.whom \in Users \cup {None}
  BY DEF SubsInv, TablesOk, Statuses, CallOk, CallRecs
<1>2. rows \in [SubIds -> SubRecs]
  BY <1>1, ClosedRows
<1>3. /\ sub' \in [SubIds -> SubRecs]
      /\ \A i \in SubIds :
           \/ sub'[i] = rows[i]
           \/ i \in Linked(r) /\ sub'[i] = [rows[i] EXCEPT !.leave = l]
           \/ c.whom # None /\ sub[i] = NoSub /\ sub'[i] = Asked(i, c.who, c.whom, l)
  BY <1>1, <1>2, StoredRows
<1>4. ASSUME NEW i \in SubIds  PROVE RequestStep(r, i)
  <2>1. /\ rows[i] \in SubRecs /\ rows[i].requester = sub[i].requester /\ rows[i].substitute = sub[i].substitute
        /\ rows[i].leave = sub[i].leave /\ rows[i].status = IF i \in H THEN "cancelled" ELSE sub[i].status
        /\ i \notin H => rows[i] = sub[i]
    BY <1>1, <1>2, ClosedRows
  <2> HIDE DEF rows
  <2>2. i \in H => Unlocked(r, Row(i)) /\ sub[i].status \in Open /\ MovesOn(sub[i].status, "cancelled")
    BY HeldIsOpen DEF Open, MovesOn
  <2>3. CASE sub'[i] = rows[i]
    <3>1. CASE i \in H
      BY <2>1, <2>2, <2>3, <3>1 DEF RequestStep, Closing, SamePeople, Open
    <3>2. CASE i \notin H
      BY <2>1, <2>3, <3>2 DEF RequestStep
    <3>3. QED BY <3>1, <3>2
  <2>4. CASE i \in Linked(r) /\ sub'[i] = [rows[i] EXCEPT !.leave = l]
    <3>1. sub[i].requester = c.who
      BY <2>4 DEF Linked, Standalone
    <3>2. sub'[i].status = rows[i].status /\ sub'[i].leave = l /\ SamePeople(i)
      BY <2>1, <2>4, LeaveSet DEF SamePeople
    <3>3. GetsLeave(r, i)
      BY <3>1, <3>2 DEF GetsLeave, SamePeople
    <3>4. CASE i \in H
      BY <2>1, <2>2, <3>2, <3>3, <3>4 DEF RequestStep, Closing, Open
    <3>5. CASE i \notin H
      BY <2>1, <3>2, <3>3, <3>5 DEF RequestStep, Linking, SameStatus
    <3>6. QED BY <3>4, <3>5
  <2>5. CASE c.whom # None /\ sub[i] = NoSub /\ sub'[i] = Asked(i, c.who, c.whom, l)
    <3>1. /\ sub'[i].status = "pending" /\ sub'[i].requester = c.who
          /\ sub'[i].substitute = c.whom /\ sub'[i].leave = l /\ c.whom \in Users
      BY <1>1, <2>5, AskedRow
    <3>2. Unlocked(r, User(c.who)) /\ Unlocked(r, User(c.whom))
      BY <2>5, FreeIsUnlocked DEF InsertWants
    <3>3. QED BY <2>5, <3>1, <3>2 DEF RequestStep, Asking, PeopleUnlocked, GetsLeave
  <2>6. QED BY <1>3, <2>3, <2>4, <2>5
<1>5. QED BY <1>3, <1>4

LEMMA ApplyCommitsKeeps ==
    ASSUME SubsInv, NEW r \in Calls, NEW l \in LeaveIds, ApplyCommits(r, l)
    PROVE SubsInv' /\ StepOk
<1> DEFINE c == call[r]
<1>1. c.op = "apply" /\ c.at = "write" /\ Free(r) /\ leave[l] = NoLeave /\ Finish(r)
  BY DEF ApplyCommits, At
<1>2. Shapes /\ c.who \in Users /\ User(c.who) \in c.holds /\ PendingLeaves(c.who) = {} /\ LocksExclude
  BY <1>1 DEF SubsInv, TablesOk, CallOk, ApplyOk
<1>3. CASE UNCHANGED tables
  BY <1>1, <1>3, Refused
<1>4. CASE /\ leave' = [leave EXCEPT ![l] = [status |-> "pending", user |-> c.who, covers |-> TRUE]]
           /\ StoreWith(r, sub, l) /\ UNCHANGED <<teaches, staff>>
  <2> DEFINE new == [status |-> "pending", user |-> c.who, covers |-> TRUE]
  <2>1. new \in LeaveRecs /\ new.status = "pending" /\ new.user = c.who
    BY <1>2 DEF LeaveRecs
  <2> HIDE DEF new
  <2>2. leave' \in [LeaveIds -> LeaveRecs] /\ leave'[l] = new /\ \A m \in LeaveIds \ {l} : leave'[m] = leave[m]
    BY <1>2, <1>4, <2>1 DEF Shapes, new
  <2>3. leave[l].status = "none"
    BY <1>1 DEF NoLeave
  <2>4. InsertWants(r) \subseteq Wants(r)
    BY <1>1 DEF Wants, Answers, LeaveOps
  <2>5. Closed({}, "cancelled") = sub
    BY <1>2 DEF Closed, Shapes
  <2>6. sub' \in [SubIds -> SubRecs] /\ \A i \in SubIds : RequestStep(r, i)
    BY <1>1, <1>2, <1>4, <2>1, <2>2, <2>3, <2>4, <2>5, StoredSteps
  <2>7. Shapes'
    BY <1>2, <1>4, <2>2, <2>6 DEF Shapes
  <2>8. NewLeave(r, l) /\ \A m \in LeaveIds \ {l} : OldLeave(m)
    BY <1>2, <2>1, <2>2, <2>3, OwnIsUnlocked DEF NewLeave, OldLeave
  <2>9. ClosesAll
    BY <1>4, <2>1, <2>2 DEF ClosesAll
  <2>10. PendingAlone'
    BY <1>2, <2>1, <2>2 DEF SubsInv, TablesOk, PendingAlone, PendingLeaves
  <2>11. QED BY <1>1, <2>6, <2>7, <2>8, <2>9, <2>10, StepsKeep
<1>5. QED BY <1>3, <1>4 DEF ApplyCommits

LEMMA ChangeCommitsKeeps ==
    ASSUME SubsInv, NEW r \in Calls, ChangeCommits(r)
    PROVE SubsInv' /\ StepOk
<1> DEFINE c == call[r]
           l == c.leave
<1>1. c.op = "change" /\ c.at = "write" /\ Free(r) /\ Finish(r)
  BY DEF ChangeCommits, At
<1>2. /\ Shapes /\ LocksExclude /\ l \in LeaveIds /\ leave[l].status # "none" /\ c.who \in Users
      /\ leave[l].user = c.who /\ Leave(l) \in c.holds /\ c.covers \in BOOLEAN
  BY <1>1 DEF SubsInv, TablesOk, CallOk, LeaveOk, LeaveOps, CallRecs
<1>3. CASE UNCHANGED tables
  BY <1>1, <1>3, Refused
<1>4. CASE /\ leave' = [leave EXCEPT ![l].covers = c.covers]
           /\ StoreWith(r, Closed(HeldRows(r), "cancelled"), l) /\ UNCHANGED <<teaches, staff>>
  <2>1. leave' = [leave EXCEPT ![l] = [leave[l] EXCEPT !.covers = c.covers]]
    BY <1>4, Zenon
  <2>2. /\ [leave[l] EXCEPT !.covers = c.covers] \in LeaveRecs
        /\ [leave[l] EXCEPT !.covers = c.covers].status = leave[l].status
        /\ [leave[l] EXCEPT !.covers = c.covers].user = leave[l].user
    BY <1>2 DEF Shapes, LeaveRecs
  <2>3. /\ leave' \in [LeaveIds -> LeaveRecs] /\ leave'[l].status = leave[l].status /\ leave'[l].user = leave[l].user
        /\ \A m \in LeaveIds \ {l} : leave'[m] = leave[m]
    BY <1>2, <2>1, <2>2 DEF Shapes
  <2>4. InsertWants(r) \subseteq Wants(r)
    BY <1>1 DEF Wants, Answers, LeaveOps
  <2>5. sub' \in [SubIds -> SubRecs] /\ \A i \in SubIds : RequestStep(r, i)
    BY <1>1, <1>2, <1>4, <2>3, <2>4, OwnIsUnlocked, StoredSteps
  <2>6. Shapes'
    BY <1>2, <1>4, <2>3, <2>5 DEF Shapes
  <2>7. \A m \in LeaveIds : OldLeave(m)
    BY <2>3 DEF OldLeave
  <2>8. ClosesAll
    BY <1>4, <2>3 DEF ClosesAll
  <2>9. QED BY <1>1, <2>5, <2>6, <2>7, <2>8, OldLeavesAlone, StepsKeep
<1>5. QED BY <1>3, <1>4 DEF ChangeCommits

\* cancel_for_leave on the rows it holds; a request may lose its leave.
LEMMA DroppedRows ==
    ASSUME SubsInv, NEW r \in Calls, NEW i \in SubIds, NEW row, row = Closed(HeldRows(r), "cancelled")[i],
           sub'[i] = row \/ sub'[i] = [row EXCEPT !.leave = None]
    PROVE  /\ sub'[i] \in SubRecs /\ RequestStep(r, i)
           /\ i \in HeldRows(r) => sub'[i].status \notin Open
           /\ i \notin HeldRows(r) => sub'[i].status = sub[i].status
           /\ SamePeople(i) /\ sub'[i].leave \in {sub[i].leave, None}
<1>1. /\ row \in SubRecs /\ row.status = IF i \in HeldRows(r) THEN "cancelled" ELSE sub[i].status
      /\ row.requester = sub[i].requester /\ row.substitute = sub[i].substitute /\ row.leave = sub[i].leave
      /\ i \notin HeldRows(r) => row = sub[i]
  BY ClosedRows DEF SubsInv, TablesOk, Statuses
<1>2. /\ sub'[i] \in SubRecs /\ SamePeople(i) /\ sub'[i].leave \in {sub[i].leave, None}
      /\ sub'[i].status = row.status
      /\ sub'[i] = row \/ sub'[i].leave = None
  <2>1. CASE sub'[i] = row
    BY <1>1, <2>1 DEF SamePeople
  <2>2. CASE sub'[i] = [row EXCEPT !.leave = None]
    <3>1. /\ sub'[i] \in SubRecs /\ sub'[i].status = row.status /\ sub'[i].leave = None
          /\ sub'[i].requester = row.requester /\ sub'[i].substitute = row.substitute
      BY <1>1, <2>2, LeaveSet
    <3>2. QED BY <1>1, <3>1 DEF SamePeople
  <2>3. QED BY <2>1, <2>2
<1>3. CASE i \in HeldRows(r)
  BY <1>1, <1>2, <1>3, HeldIsOpen DEF RequestStep, Closing, Open, MovesOn
<1>4. CASE i \notin HeldRows(r)
  BY <1>1, <1>2, <1>4 DEF RequestStep, Linking, SameStatus
<1>5. QED BY <1>1, <1>2, <1>3, <1>4

\* review_leave, delete_leave: the leave gets another status, and loses its
\* open requests when it is not approved.
LEMMA LeaveCloses ==
    ASSUME SubsInv, NEW r \in Calls, NEW l \in LeaveIds, NEW st \in LeaveStatuses \ {"none", "other", "pending"},
           leave[l].status \notin {"none", "other"}, leave' = [leave EXCEPT ![l].status = st],
           UNCHANGED <<teaches, staff>>, Finish(r),
           NEW rows, rows = Closed(HeldRows(r), "cancelled"), sub' \in [SubIds -> SubRecs],
           \A i \in SubIds : sub'[i] = rows[i] \/ sub'[i] = [rows[i] EXCEPT !.leave = None],
           st # "approved" => \A i \in OpenSubs : sub[i].leave = l => i \in HeldRows(r)
    PROVE  SubsInv' /\ StepOk
<1>1. Shapes
  BY DEF SubsInv, TablesOk
<1>2. leave' = [leave EXCEPT ![l] = [leave[l] EXCEPT !.status = st]]
  BY Zenon
<1>3. /\ leave' \in [LeaveIds -> LeaveRecs] /\ leave'[l].status = st /\ leave'[l].user = leave[l].user
      /\ \A m \in LeaveIds \ {l} : leave'[m] = leave[m]
  BY <1>1, <1>2, ReviewSet DEF Shapes
<1>4. Shapes'
  BY <1>1, <1>3 DEF Shapes
<1>5. \A m \in LeaveIds : OldLeave(m)
  BY <1>3 DEF OldLeave
<1>6. \A i \in SubIds : RequestStep(r, i)
  BY DroppedRows
<1>7. ClosesAll
  <2>1. ASSUME NEW i \in SubIds, sub'[i].status \in Open, leave[l].status \in {"pending", "approved"}, st # "approved",
               l \in {sub[i].leave, sub'[i].leave}
        PROVE  FALSE
    <3>1. i \notin HeldRows(r) /\ sub'[i].status = sub[i].status /\ sub'[i].leave \in {sub[i].leave, None}
      BY <2>1, DroppedRows
    <3>2. sub[i].leave = l
      BY <2>1, <3>1, IdsAssumption
    <3>3. QED BY <2>1, <3>1, <3>2 DEF OpenSubs
  <2>2. QED BY <1>3, <2>1 DEF ClosesAll
<1>8. QED BY <1>4, <1>5, <1>6, <1>7, OldLeavesAlone, StepsKeep

LEMMA ReviewCommitsKeeps ==
    ASSUME SubsInv, NEW r \in Calls, ReviewCommits(r)
    PROVE SubsInv' /\ StepOk
<1> DEFINE c == call[r]
           st == IF c.op = "approve" THEN "approved" ELSE "rejected"
<1>1. /\ c.op \in {"approve", "reject"} /\ c.at = "write" /\ Finish(r) /\ UNCHANGED <<teaches, staff>>
      /\ sub' = Closed(HeldRows(r), "cancelled")
  BY DEF ReviewCommits
<1>2. leave' = [leave EXCEPT ![c.leave].status = st]
  BY DEF ReviewCommits
<1>3. st \in LeaveStatuses \ {"none", "other", "pending"} /\ (st # "approved" => c.op = "reject")
  BY <1>1 DEF LeaveStatuses
<1> HIDE DEF st
<1>4. Shapes /\ c.leave \in LeaveIds /\ leave[c.leave].status \notin {"none", "other"}
      /\ (c.op = "reject" => \A i \in OpenSubs : sub[i].leave = c.leave => i \in HeldRows(r))
  BY <1>1 DEF SubsInv, TablesOk, CallOk, LeaveOk, LeaveOps
<1>5. sub' \in [SubIds -> SubRecs]
  <2>1. "cancelled" \in Statuses
    BY DEF Statuses
  <2>2. Closed(HeldRows(r), "cancelled") \in [SubIds -> SubRecs]
    BY <1>4, <2>1, ClosedRows
  <2>3. QED BY <1>1, <2>2
<1>6. PICK rows : rows = Closed(HeldRows(r), "cancelled")
  OBVIOUS
<1>7. \A i \in SubIds : sub'[i] = rows[i] \/ sub'[i] = [rows[i] EXCEPT !.leave = None]
  BY <1>1, <1>6
<1>8. st # "approved" => \A i \in OpenSubs : sub[i].leave = c.leave => i \in HeldRows(r)
  BY <1>3, <1>4
<1>9. QED BY <1>1, <1>2, <1>3, <1>4, <1>5, <1>6, <1>7, <1>8, LeaveCloses

LEMMA DropCommitsKeeps ==
    ASSUME SubsInv, NEW r \in Calls, DropCommits(r)
    PROVE SubsInv' /\ StepOk
<1> DEFINE c == call[r]
           l == c.leave
           rows == Closed(HeldRows(r), "cancelled")
<1>1. c.op = "drop" /\ c.at = "write" /\ Finish(r) /\ UNCHANGED <<teaches, staff>>
  BY DEF DropCommits, At
<1>2. Shapes /\ l \in LeaveIds /\ leave[l].status \notin {"none", "other"}
      /\ \A i \in OpenSubs : sub[i].leave = l => i \in HeldRows(r)
  BY <1>1 DEF SubsInv, TablesOk, CallOk, LeaveOk, LeaveOps
<1>3. rows \in [SubIds -> SubRecs]
  BY <1>2, ClosedRows DEF Statuses
<1>4. \A i \in SubIds : [rows[i] EXCEPT !.leave = None] \in SubRecs
  BY <1>3, LeaveSet
<1>5. CASE /\ leave' = [leave EXCEPT ![l].status = "deleted"]
           /\ sub' = [i \in SubIds |-> IF rows[i].leave = l THEN [rows[i] EXCEPT !.leave = None] ELSE rows[i]]
  <2> HIDE DEF rows
  <2>1. sub' \in [SubIds -> SubRecs] /\ \A i \in SubIds : sub'[i] = rows[i] \/ sub'[i] = [rows[i] EXCEPT !.leave = None]
    BY <1>3, <1>4, <1>5
  <2>2. "deleted" \in LeaveStatuses \ {"none", "other", "pending"}
    BY DEF LeaveStatuses
  <2>3. QED BY <1>1, <1>2, <1>5, <2>1, <2>2, LeaveCloses DEF rows
<1>6. CASE leave' = [leave EXCEPT ![l].status = "cancelled"] /\ sub' = rows
  <2>1. "cancelled" \in LeaveStatuses \ {"none", "other", "pending"}
    BY DEF LeaveStatuses
  <2>2. QED BY <1>1, <1>2, <1>3, <1>6, <2>1, LeaveCloses
<1>7. QED BY <1>5, <1>6 DEF DropCommits

LEMMA LeftCommitsKeeps ==
    ASSUME SubsInv, NEW r \in Calls, LeftCommits(r)
    PROVE SubsInv' /\ StepOk
<1> DEFINE u == call[r].who
           closing(s) == IF s.requester = u THEN "cancelled" ELSE IF s.status = "pending" THEN "declined" ELSE "withdrawn"
<1>1. /\ call[r].op = "left" /\ call[r].at = "write" /\ Finish(r)
      /\ teaches' = teaches \ {u} /\ staff' = staff \ {u}
  BY DEF LeftCommits, At, OtherPeriods
<1>2. /\ sub' = [i \in SubIds |-> IF i \in HeldRows(r) THEN [sub[i] EXCEPT !.status = closing(sub[i])] ELSE sub[i]]
      /\ leave' = [l \in LeaveIds |-> IF l \in PendingLeaves(u) THEN [leave[l] EXCEPT !.status = "cancelled"] ELSE leave[l]]
  BY DEF LeftCommits
<1>3. /\ Shapes /\ u \in Users
      /\ ~past => \A i \in OpenSubs : u \in {sub[i].requester, sub[i].substitute} => i \in HeldRows(r)
  BY <1>1 DEF SubsInv, TablesOk, CallOk, LeftOk
<1>4. ASSUME NEW i \in SubIds
      PROVE  /\ sub'[i] \in SubRecs /\ RequestStep(r, i) /\ SamePeople(i) /\ sub'[i].leave = sub[i].leave
             /\ i \in HeldRows(r) => sub'[i].status \notin Open
             /\ i \notin HeldRows(r) => sub'[i] = sub[i]
  <2>1. sub[i] \in SubRecs
    BY <1>3 DEF Shapes
  <2>2. CASE i \in HeldRows(r)
    <3> DEFINE st == closing(sub[i])
    <3>1. sub[i].status \in Open /\ Unlocked(r, Row(i))
      BY <2>2, HeldIsOpen
    <3>2. MovesOn(sub[i].status, st) /\ st \in Statuses /\ st \notin Open \cup {"filled"}
      BY <3>1 DEF Open, MovesOn, Statuses
    <3>3. sub'[i] = [sub[i] EXCEPT !.status = st]
      BY <1>2, <2>2
    <3> HIDE DEF st
    <3>4. sub'[i] \in SubRecs /\ sub'[i].status = st /\ SamePeople(i) /\ sub'[i].leave = sub[i].leave
      BY <2>1, <3>2, <3>3, StatusSet DEF SamePeople
    <3>5. QED BY <2>2, <3>1, <3>2, <3>4 DEF RequestStep, Closing
  <2>3. CASE i \notin HeldRows(r)
    BY <1>2, <2>1, <2>3 DEF RequestStep, SamePeople
  <2>4. QED BY <2>2, <2>3
<1>5. ASSUME NEW l \in LeaveIds
      PROVE  /\ leave'[l] \in LeaveRecs /\ leave'[l].user = leave[l].user
             /\ leave'[l].status # leave[l].status => leave[l].user = u /\ leave[l].status = "pending" /\ leave'[l].status = "cancelled"
  <2>1. leave[l] \in LeaveRecs /\ "cancelled" \in LeaveStatuses
    BY <1>3 DEF Shapes, LeaveStatuses
  <2>2. CASE l \in PendingLeaves(u)
    <3>1. leave'[l] = [leave[l] EXCEPT !.status = "cancelled"]
      BY <1>2, <2>2
    <3>2. QED BY <2>1, <2>2, <3>1, ReviewSet DEF PendingLeaves
  <2>3. CASE l \notin PendingLeaves(u)
    BY <1>2, <2>1, <2>3
  <2>4. QED BY <2>2, <2>3
<1>6. Shapes'
  BY <1>1, <1>2, <1>3, <1>4, <1>5 DEF Shapes
<1>7. \A l \in LeaveIds : OldLeave(l)
  BY <1>5 DEF OldLeave
<1>8. ClosesAll
  <2>1. ASSUME NEW i \in SubIds, sub'[i].status \in Open, ~past, u \in {sub[i].requester, sub[i].substitute}
        PROVE  FALSE
    <3>1. i \notin HeldRows(r) /\ sub'[i] = sub[i]
      BY <1>4, <2>1
    <3>2. QED BY <1>3, <2>1, <3>1 DEF OpenSubs
  <2>2. ASSUME NEW l \in LeaveIds, NEW i \in SubIds, leave[l].status \in {"pending", "approved"},
               leave'[l].status \notin {"pending", "approved"}, l \in {sub[i].leave, sub'[i].leave}
        PROVE  u = sub[i].requester
    <3>1. leave[l].user = u /\ sub[i].leave = l
      BY <1>4, <1>5, <2>2
    <3>2. QED BY <3>1, IdsAssumption DEF SubsInv, TablesOk, LeavesAreOwn, LeaveIsOwn
  <2>3. \A w \in staff \ staff' : w = u
    BY <1>1
  <2>4. \A i \in SubIds : sub'[i].requester = sub[i].requester /\ sub'[i].substitute = sub[i].substitute
    BY <1>4 DEF SamePeople
  <2>5. QED BY <2>1, <2>2, <2>3, <2>4 DEF ClosesAll
<1>9. QED BY <1>1, <1>4, <1>6, <1>7, <1>8, OldLeavesAlone, StepsKeep

-----------------------------------------------------------------------------
(* The specification *)

\* In the beginning nobody is calling and no request is there.
LEMMA Start ==
    ASSUME Init
    PROVE SubsInv
<1>1. PICK school \in Schools :
        /\ sub = [i \in SubIds |-> IF i \in school.subs THEN NoSub ELSE OtherSub]
        /\ leave = [l \in LeaveIds |-> IF l \in school.leaves THEN NoLeave ELSE OtherLeave]
        /\ staff = school.staff
        /\ teaches = school.teaches
  BY DEF Init
<1>2. school.staff \subseteq Users /\ school.teaches \subseteq school.staff
  BY <1>1, SchoolsAssumption
<1>3. /\ NoSub.requester = None /\ NoSub.leave = None /\ NoSub.status = "none" /\ NoSub \in SubRecs
      /\ OtherSub.requester = None /\ OtherSub.leave = None /\ OtherSub.status = "other" /\ OtherSub \in SubRecs
  BY DEF NoSub, OtherSub, SubRecs
<1>4. /\ NoLeave.status = "none" /\ NoLeave \in LeaveRecs
      /\ OtherLeave.status = "other" /\ OtherLeave \in LeaveRecs
  BY DEF NoLeave, OtherLeave, LeaveRecs
<1>5. \A i \in SubIds : sub[i] \in {NoSub, OtherSub}
  BY <1>1
<1>6. \A l \in LeaveIds : leave[l] \in {NoLeave, OtherLeave}
  BY <1>1
<1>7. Shapes
  <2>1. sub \in [SubIds -> SubRecs] /\ leave \in [LeaveIds -> LeaveRecs]
    BY <1>1, <1>3, <1>4
  <2>2. QED BY <1>1, <1>2, <2>1 DEF Shapes
<1>8. RequestsHavePeople /\ LeavesHaveUsers /\ LeavesAreOwn /\ PendingAlone
  <2>1. \A i \in SubIds : sub[i].requester = None /\ sub[i].leave = None /\ sub[i].status \notin Open
    BY <1>3, <1>5 DEF Open
  <2>2. \A l \in LeaveIds : leave[l].status \in {"none", "other"}
    BY <1>4, <1>6
  <2>3. QED BY <2>1, <2>2 DEF RequestsHavePeople, People, LeavesHaveUsers, LeavesAreOwn, LeaveIsOwn, PendingAlone
<1>9. DOMAIN call = Calls /\ past \in BOOLEAN /\ \A r \in Calls : call[r] = Idle
  BY DEF Init
<1>10. \A r \in Calls : CallOk(r)
  BY <1>9, IdleIsOk
<1>11. LocksExclude
  BY <1>9 DEF LocksExclude, Idle
<1>12. QED BY <1>7, <1>8, <1>9, <1>10, <1>11 DEF SubsInv, TablesOk

LEMMA NothingMoves ==
    ASSUME SubsInv, UNCHANGED tables, call' = call, past' \in {past, TRUE}
    PROVE  SubsInv' /\ StepOk
<1>1. /\ TablesOk' /\ LocksExclude' /\ DOMAIN call' = Calls
  BY DEF SubsInv, TablesOk, LocksExclude, tables, Shapes, RequestsHavePeople, People, LeavesHaveUsers, LeavesAreOwn,
     LeaveIsOwn, PendingAlone
<1>2. ASSUME NEW r \in Calls  PROVE CallOk(r)'
  <2>1. CallOk(r) /\ HeldRows(r)' = HeldRows(r) /\ OpenSubs' = OpenSubs /\ KeyHit(r)' = KeyHit(r)
        /\ (call[r].op = "apply" => PendingLeaves(call[r].who)' = PendingLeaves(call[r].who))
    BY DEF SubsInv, tables, HeldRows, OpenSubs, KeyHit, Accepted, Covering, PendingLeaves
  <2>2. RowsFit(r)' /\ AcceptOk(r)' /\ AnswerOk(r)' /\ AskOk(r)'
    BY <2>1 DEF CallOk, tables, RowsFit, AcceptOk, AnswerOk, AskOk
  <2>3. ApplyOk(r)'
    <3>1. ApplyOk(r)
      BY <2>1 DEF CallOk
    <3>2. QED BY <3>1 DEF tables, ApplyOk, PendingLeaves
  <2>4. LeaveOk(r)' /\ LeftOk(r)'
    BY <2>1 DEF CallOk, tables, LeaveOk, LeftOk
  <2>5. QED BY <2>1, <2>2, <2>3, <2>4 DEF CallOk
<1>3. QED BY <1>1, <1>2, QuietStep DEF SubsInv

LEMMA ArrivesKeeps ==
    ASSUME SubsInv, NEW r \in Calls, Arrives(r)
    PROVE  SubsInv' /\ StepOk
<1>1. CASE \E q \in teaches, s \in staff \ teaches, l \in LeaveIds \cup {None} : AskReads(r, q, s, l)
  BY <1>1, AskReadsKeeps
<1>2. CASE \E i \in SubIds : AcceptArrives(r, i)
  BY <1>2, AcceptArrivesKeeps
<1>3. CASE \E i \in SubIds, op \in Answers : AnswerArrives(r, op, i)
  BY <1>3, AnswerArrivesKeeps
<1>4. CASE \E u \in teaches : ApplyReads(r, u)
  BY <1>4, ApplyReadsKeeps
<1>5. CASE \E l \in LeaveIds : ChangeReads(r, l)
  BY <1>5, ChangeReadsKeeps
<1>6. CASE \E l \in LeaveIds, op \in {"drop", "approve", "reject"} : LeaveOpArrives(r, op, l)
  BY <1>6, LeaveOpArrivesKeeps
<1>7. CASE \E u \in staff : LeftArrives(r, u)
  BY <1>7, LeftArrivesKeeps
<1>8. QED BY <1>1, <1>2, <1>3, <1>4, <1>5, <1>6, <1>7 DEF Arrives

LEMMA GoesOnKeeps ==
    ASSUME SubsInv, NEW r \in Calls, GoesOn(r)
    PROVE  SubsInv' /\ StepOk
<1>1. CASE \E i \in SubIds : AskInserts(r, i)
  BY <1>1, AskInsertsKeeps
<1>2. CASE AcceptLocks(r)
  BY <1>2, AcceptLocksKeeps, QuietStep DEF AcceptLocks, LockThen
<1>3. CASE AcceptDecides(r)
  BY <1>3, AcceptDecidesKeeps
<1>4. CASE AcceptLocksOthers(r)
  BY <1>4, AcceptLocksOthersKeeps, QuietStep DEF AcceptLocksOthers, LockThen
<1>5. CASE AcceptCommits(r)
  BY <1>5, AcceptCommitsKeeps
<1>6. CASE AnswerCommits(r)
  BY <1>6, AnswerCommitsKeeps
<1>7. CASE \E l \in LeaveIds : ApplyCommits(r, l)
  BY <1>7, ApplyCommitsKeeps
<1>8. CASE ChangeLocks(r)
  BY <1>8, ChangeLocksKeeps, QuietStep DEF ChangeLocks, LockThen, Refuse
<1>9. CASE LeaveOpLocksRows(r)
  BY <1>9, LeaveOpLocksRowsKeeps, QuietStep DEF LeaveOpLocksRows, LockThen
<1>10. CASE ChangeCommits(r)
  BY <1>10, ChangeCommitsKeeps
<1>11. CASE DropCommits(r)
  BY <1>11, DropCommitsKeeps
<1>12. CASE ReviewCommits(r)
  BY <1>12, ReviewCommitsKeeps
<1>13. CASE LeftLocksRows(r)
  BY <1>13, LeftLocksRowsKeeps, QuietStep DEF LeftLocksRows, LockThen
<1>14. CASE LeftCommits(r)
  BY <1>14, LeftCommitsKeeps
<1>15. CASE Abort(r)
  BY <1>15, Refused DEF Abort, Refuse
<1>16. QED BY <1>1, <1>2, <1>3, <1>4, <1>5, <1>6, <1>7, <1>8, <1>9, <1>10, <1>11, <1>12, <1>13, <1>14, <1>15 DEF GoesOn

LEMMA NextKeeps ==
    ASSUME SubsInv, [Next]_vars
    PROVE  SubsInv' /\ StepOk
<1>1. CASE Next
  BY <1>1, NothingMoves, ArrivesKeeps, GoesOnKeeps DEF Next, Tick
<1>2. CASE UNCHANGED vars
  BY <1>2, NothingMoves DEF vars, tables
<1>3. QED BY <1>1, <1>2

LEMMA Invariance == Spec => []SubsInv
<1>1. Init => SubsInv
  BY Start
<1>2. SubsInv /\ [Next]_vars => SubsInv'
  BY NextKeeps
<1>3. QED BY <1>1, <1>2, PTL DEF Spec

\* substitutions.py _lock_users and hr.py request_leave: what accept checks with both teachers
\* locked, and request_leave with its user locked, is still so when they write, for any number of
\* calls, requests, leaves and teachers: the UNIQUE keys are never hit, nobody has two pending leaves.
THEOREM ChecksHold == Spec => []ChecksStayTrue
<1>1. SubsInv => KeysAreNeverHit
  BY DEF SubsInv, CallOk, AcceptOk, KeysAreNeverHit
<1>2. SubsInv => OnePendingLeave
  <2>1. SUFFICES ASSUME SubsInv, NEW u \in Users  PROVE Cardinality(PendingLeaves(u)) <= 1
    BY DEF OnePendingLeave
  <2>2. CASE PendingLeaves(u) = {}
    BY <2>2, FS_EmptySet
  <2>3. CASE PendingLeaves(u) # {}
    <3>1. PICK l : l \in PendingLeaves(u)
      BY <2>3
    <3>2. PendingLeaves(u) = {l}
      BY <2>1, <3>1 DEF SubsInv, TablesOk, PendingAlone, PendingLeaves
    <3>3. QED BY <3>2, FS_Singleton
  <2>4. QED BY <2>2, <2>3
<1>3. QED BY <1>1, <1>2, Invariance, PTL DEF ChecksStayTrue

\* substitutions.py: an answer once given stands, whatever calls race for the request, and a request
\* is only filled when somebody takes the class, in that commit or before.
THEOREM AnswersAreFinal == Spec => AnswersStand
<1>1. SubsInv /\ [Next]_vars =>
        [\A i \in SubIds :
           LET old == sub[i].status
               new == sub'[i].status
           IN  new # old =>
                 \/ old = "none" /\ new = "pending"
                 \/ old = "pending" /\ new \in {"accepted", "declined", "cancelled", "filled"}
                 \/ old = "accepted" /\ new \in {"withdrawn", "cancelled"}]_vars
  BY NextKeeps DEF StepOk, StatusesMove, MovesOn
<1>2. SubsInv /\ [Next]_vars =>
        [\A i \in SubIds : sub[i].status = "pending" /\ sub'[i].status = "filled"
           => \E j \in SubIds : sub'[j].status = "accepted" /\ sub'[j].requester = sub[i].requester]_vars
  BY NextKeeps DEF StepOk, FilledIsTaken, Taken
<1>3. QED BY <1>1, <1>2, Invariance, PTL DEF Spec, AnswersStand, StatusesMoveOn, FilledMeansCovered

\* substitutions.py cancel_for_leave and leaving.py _close_open_substitutions: when a leave is rejected,
\* cancelled or deleted, or a teacher leaves, no open request is forgotten, whatever is accepted,
\* asked or linked meanwhile.
THEOREM ClosingIsWhole == Spec => ClosingTakesAll
<1>1. SubsInv /\ [Next]_vars =>
        [/\ \A l \in LeaveIds, i \in SubIds :
              leave[l].status \in {"pending", "approved"} /\ leave'[l].status \notin {"pending", "approved"}
              /\ sub'[i].status \in Open /\ ~past => l \notin {sub[i].leave, sub'[i].leave}
         /\ \A u \in staff \ staff', i \in SubIds :
              sub'[i].status \in Open /\ ~past => u \notin {sub'[i].requester, sub'[i].substitute}]_vars
  BY NextKeeps DEF StepOk, ClosesAll
<1>2. QED BY <1>1, Invariance, PTL DEF Spec, ClosingTakesAll

LEMMA CallsStayCalls ==
    ASSUME call = [r \in Calls |-> call[r]], [Next]_vars
    PROVE  call' = [r \in Calls |-> call'[r]]
<1>1. ASSUME NEW r, NEW new, call' = [call EXCEPT ![r] = new]  PROVE call' = [q \in Calls |-> call'[q]]
  BY <1>1
<1>2. ASSUME NEW r, NEW step, LockThen(r, step)  PROVE call' = [q \in Calls |-> call'[q]]
  BY <1>2 DEF LockThen
<1>3. ASSUME NEW r \in Calls, NEW new, Arrive(r, new)  PROVE call' = [q \in Calls |-> call'[q]]
  BY <1>1, <1>3 DEF Arrive
<1>4. ASSUME NEW r \in Calls, Arrives(r)  PROVE call' = [q \in Calls |-> call'[q]]
  BY <1>3, <1>4, Zenon DEF Arrives, AskReads, AcceptArrives, AnswerArrives, ApplyReads, ChangeReads, LeaveOpArrives,
     LeftArrives, ArriveWith
<1>5. ASSUME NEW r \in Calls, Finish(r)  PROVE call' = [q \in Calls |-> call'[q]]
  BY <1>1, <1>5 DEF Finish
<1>6. ASSUME NEW r \in Calls, GoesOn(r)  PROVE Finish(r) \/ \E step : LockThen(r, step)
  BY <1>6, Zenon DEF GoesOn, AskInserts, AcceptLocks, AcceptDecides, AcceptLocksOthers, AcceptCommits, AnswerCommits,
     ApplyCommits, ChangeLocks, LeaveOpLocksRows, ChangeCommits, DropCommits, ReviewCommits, LeftLocksRows, LeftCommits,
     Abort, Refuse
<1>7. CASE UNCHANGED call
  BY <1>7
<1>8. QED BY <1>2, <1>4, <1>5, <1>6, <1>7 DEF Next, Tick, vars

\* The requests, the leaves and the calls with their locks keep to their types.
THEOREM TypesKept == Spec => []TypeOK
<1>1. Init => call = [r \in Calls |-> call[r]]
  BY DEF Init
<1>2. call = [r \in Calls |-> call[r]] /\ [Next]_vars => (call = [r \in Calls |-> call[r]])'
  BY CallsStayCalls
<1>3. SubsInv /\ call = [r \in Calls |-> call[r]] => TypeOK
  <2>1. SUFFICES ASSUME SubsInv, call = [r \in Calls |-> call[r]]  PROVE TypeOK
    OBVIOUS
  <2>2. call \in [Calls -> CallRecs]
    BY <2>1 DEF SubsInv, CallOk
  <2>3. QED BY <2>1, <2>2, Zenon DEF SubsInv, TablesOk, Shapes, TypeOK, SubRecs, LeaveRecs, CallRecs
<1>4. QED BY <1>1, <1>2, <1>3, Invariance, PTL DEF Spec

-----------------------------------------------------------------------------
(* What the tables always say *)

PeopleOk == group \in Groups /\ ClassOf \in [Sections -> Classes]
            /\ user \in [Member!People -> {"absent", "none", "here", "left"}]

PlacesOk ==
    /\ classes \subseteq Classes
    /\ sections \subseteq {s \in group.sections : ClassOf[s] \in classes}
    /\ place \in [Students -> sections \cup {None}] /\ lastPlace \in [Students -> sections \cup {None}]
    /\ assigned \subseteq Teachers \X sections \X Roles
    /\ slot \in [Teachers -> sections \cup {None}] /\ periods \in 1..2
    /\ recorded \subseteq sections

BusOk ==
    /\ vehicle \in BOOLEAN /\ shift \in BOOLEAN /\ driver \in Drivers \cup {None}
    /\ riders \subseteq Students /\ shiftRiders \subseteq Students
    /\ ~vehicle => ~shift /\ riders = {} /\ driver = None
    /\ ~shift => shiftRiders = {}

OneHere == \A p, q \in Principals : Member!Here(p) /\ Member!Here(q) => p = q

Places == PeopleOk /\ PlacesOk /\ BusOk /\ Member!AssignmentsStand /\ OneHere

(* What a call relies on until it writes *)

\* An assignment: the teacher is here, and a class teacher is to have one section, which has none.
Relies(c) ==
    c.op \in Roles =>
        /\ Member!Here(c.who)
        /\ c.op = "class_teacher" => \A a \in Member!ClassTeachers : a[1] # c.who /\ a[2] # c.at

RequestOk(c) ==
    /\ c.op \in Member!Ops \cup {"none"} /\ c.holds \subseteq Member!Rows
    /\ c.op = "leave" => c.who \in c.holds
    /\ c.op = "drive" => c.who \in Drivers
    /\ c.op = "ride" => c.who \in Students
    /\ c.op = "riders" => c.who \subseteq Students
    /\ c.op \in Roles => c.who \in Teachers /\ {c.who, c.at} \subseteq c.holds
    /\ Relies(c)

RequestsOk == request = [r \in Calls |-> request[r]] /\ \A r \in Calls : RequestOk(request[r])

\* A row has one holder.
RowsExclude == \A r, o \in Calls : r # o => request[r].holds \cap request[o].holds = {}

MemberInv == Places /\ RequestsOk /\ RowsExclude

LEMMA MemberTypes == MemberInv => Member!TypeOK
<1>1. ASSUME MemberInv  PROVE \A r \in Calls : request[r].op \in Member!Ops \cup {"none"} /\ request[r].holds \subseteq Member!Rows
  BY <1>1 DEF MemberInv, RequestsOk, RequestOk
<1>2. QED BY <1>1, Zenon DEF MemberInv, Places, PeopleOk, PlacesOk, BusOk, Member!TypeOK

-----------------------------------------------------------------------------
(* Calls that begin, and steps that take nothing a call relies on *)

LEMMA Begun ==
    ASSUME MemberInv, NEW r \in Calls, NEW op \in Member!Ops, NEW who, NEW at, NEW locks, Member!Begin(r, op, who, at, locks),
           RequestOk([op |-> op, who |-> who, at |-> at, holds |-> locks])
    PROVE  MemberInv' /\ UNCHANGED recorded
<1> DEFINE c == [op |-> op, who |-> who, at |-> at, holds |-> locks]
<1>1. request' = [request EXCEPT ![r] = c] /\ Member!Free(r, c.holds)
  BY DEF Member!Begin
<1>2. RequestOk(c)
  OBVIOUS
<1>3. UNCHANGED <<group, user, sections, classes, place, lastPlace, assigned, slot, periods,
                  vehicle, shift, driver, riders, shiftRiders, recorded>>
  BY DEF Member!Begin, Member!tables, Member!places, Member!transport
<1> HIDE DEF c
<1>4. Places'
  BY <1>3 DEF MemberInv, Places, PeopleOk, PlacesOk, BusOk, OneHere, Member!Here, Member!AssignmentsStand, Member!ClassTeachers
<1>6. request'[r] = c /\ \A o \in Calls \ {r} : request'[o] = request[o]
  BY <1>1 DEF MemberInv, RequestsOk
<1>7. \A o \in Calls : RequestOk(request'[o])
  BY <1>2, <1>6 DEF MemberInv, RequestsOk
<1>8. \A o \in Calls : RequestOk(request[o])'
  BY <1>3, <1>7 DEF RequestOk, Relies, Member!ClassTeachers, Member!Here
<1>9. request' = [o \in Calls |-> request'[o]]
  BY <1>1 DEF MemberInv, RequestsOk
<1>10. RowsExclude'
  BY <1>1, <1>6 DEF MemberInv, RowsExclude, Member!Free
<1>11. QED BY <1>3, <1>4, <1>8, <1>9, <1>10 DEF MemberInv, RequestsOk

LEMMA IdleRequest == RequestOk(Member!Idle) /\ Member!Idle.holds = {}
BY RolesAssumption DEF RequestOk, Relies, Member!Idle

\* The call is over, and what it did falsifies nothing another call relies on.
LEMMA Ended ==
    ASSUME MemberInv, Places', NEW r \in Calls, request' = [request EXCEPT ![r] = Member!Idle],
           \A o \in Calls \ {r} : Relies(request[o])'
    PROVE  MemberInv'
<1>1. request'[r] = Member!Idle /\ \A o \in Calls \ {r} : request'[o] = request[o]
  BY DEF MemberInv, RequestsOk
<1>2. RequestOk(request[r])'
  BY <1>1, RolesAssumption DEF Member!Idle, RequestOk, Relies
<1>3. \A o \in Calls \ {r} : RequestOk(request[o])'
  BY <1>1 DEF RequestOk, MemberInv, RequestsOk
<1>4. request' = [o \in Calls |-> request'[o]]
  BY DEF MemberInv, RequestsOk
<1>5. RowsExclude'
  BY <1>1, IdleRequest DEF MemberInv, RowsExclude
<1>6. QED BY <1>2, <1>3, <1>4, <1>5 DEF MemberInv, RequestsOk

\* So it is when nobody left and nobody was assigned; no call may have ended, either.
Mild == /\ \A p : Member!Here(p) => Member!Here(p)'
        /\ assigned' \subseteq assigned

LEMMA MildKeeps ==
    ASSUME MemberInv, Places', Mild,
           request' = request \/ \E r \in Calls : request' = [request EXCEPT ![r] = Member!Idle]
    PROVE  MemberInv'
<1>2. \A o \in Calls : request'[o] = request[o] => Relies(request[o])'
  <2>1. SUFFICES ASSUME NEW o \in Calls, request'[o] = request[o]  PROVE Relies(request[o])'
    OBVIOUS
  <2>2. Relies(request[o])
    BY DEF MemberInv, RequestsOk, RequestOk
  <2>3. QED BY <2>1, <2>2 DEF Relies, Mild, Member!ClassTeachers
<1>3. CASE request' = request
  <2>1. RequestsOk' /\ RowsExclude'
    BY <1>2, <1>3 DEF MemberInv, RequestsOk, RequestOk, RowsExclude
  <2>2. QED BY <2>1 DEF MemberInv
<1>4. ASSUME NEW r \in Calls, request' = [request EXCEPT ![r] = Member!Idle]
      PROVE  MemberInv'
  <2>1. \A o \in Calls \ {r} : request'[o] = request[o]
    BY <1>4 DEF MemberInv, RequestsOk
  <2>2. QED BY <1>2, <1>4, <2>1, Ended
<1>5. QED BY <1>3, <1>4

LEMMA ArriveKeepsPlaces ==
    ASSUME MemberInv, NEW r \in Calls, Member!Arrive(r)
    PROVE  MemberInv' /\ UNCHANGED recorded
<1> USE RolesAssumption DEF RequestOk, Relies, Member!Ops, Member!Rows, Member!People
<1>1. ASSUME NEW p \in Member!People, Member!MarkLeftLocks(r, p) \/ Member!ReactivateLocks(r, p)
      PROVE  MemberInv' /\ UNCHANGED recorded
  BY <1>1, Begun DEF Member!MarkLeftLocks, Member!ReactivateLocks
<1>2. ASSUME NEW p \in Member!People, NEW s \in Sections \cup {None}, Member!CreateReads(r, p, s)
      PROVE  MemberInv' /\ UNCHANGED recorded
  BY <1>2, Begun DEF Member!CreateReads
<1>3. ASSUME NEW k \in Students, NEW s \in Sections \cup {None}, Member!UpdateStudentReads(r, k, s)
      PROVE  MemberInv' /\ UNCHANGED recorded
  BY <1>3, Begun DEF Member!UpdateStudentReads
<1>4. ASSUME NEW t \in Teachers, NEW s \in Sections, NEW role \in Roles, Member!AssignLocks(r, t, s, role)
      PROVE  MemberInv' /\ UNCHANGED recorded
  BY <1>4, Begun DEF Member!AssignLocks, Member!AssignmentAllowed
<1>5. ASSUME NEW t \in Teachers, NEW s \in Sections, Member!SlotReads(r, t, s)
      PROVE  MemberInv' /\ UNCHANGED recorded
  BY <1>5, Begun DEF Member!SlotReads
<1>6. ASSUME NEW n \in 1..2, NEW force \in BOOLEAN, Member!TimingsLocks(r, n, force)
      PROVE  MemberInv' /\ UNCHANGED recorded
  BY <1>6, Begun DEF Member!TimingsLocks
<1>7. ASSUME NEW d \in Drivers, Member!DriverLocks(r, d)
      PROVE  MemberInv' /\ UNCHANGED recorded
  BY <1>7, Begun DEF Member!DriverLocks, Member!VehicleRow
<1>8. ASSUME NEW k \in Students, Member!RideReads(r, k) \/ Member!MarkReads(r, k)
      PROVE  MemberInv' /\ UNCHANGED recorded
  BY <1>8, Begun DEF Member!RideReads, Member!MarkReads
<1>9. ASSUME NEW K \in SUBSET Students, Member!ShiftStudentsLocks(r, K)
      PROVE  MemberInv' /\ UNCHANGED recorded
  BY <1>9, Begun DEF Member!ShiftStudentsLocks
<1>10. ASSUME NEW s \in Sections, Member!DropSectionLocks(r, s)
       PROVE  MemberInv' /\ UNCHANGED recorded
  <2>1. ClassOf[s] \in Classes
    BY DEF MemberInv, Places, PeopleOk
  <2>2. QED BY <1>10, <2>1, Begun DEF Member!DropSectionLocks
<1>11. ASSUME NEW c \in Classes, Member!DropClassLocks(r, c)
       PROVE  MemberInv' /\ UNCHANGED recorded
  BY <1>11, Begun DEF Member!DropClassLocks
<1>12. QED
  BY <1>1, <1>2, <1>3, <1>4, <1>5, <1>6, <1>7, <1>8, <1>9, <1>10, <1>11 DEF Member!Arrive

-----------------------------------------------------------------------------
(* Calls that write *)

LEMMA MarkLeftKeeps ==
    ASSUME MemberInv, NEW r \in Calls, Member!MarkLeft(r)
    PROVE  MemberInv' /\ UNCHANGED recorded
<1> DEFINE p == request[r].who
<1>1. /\ request' = [request EXCEPT ![r] = Member!Idle] /\ request[r].op = "leave"
      /\ user' = [user EXCEPT ![p] = "left"] /\ assigned' = {a \in assigned : a[1] # p}
      /\ driver' = (IF driver = p THEN None ELSE driver)
      /\ riders' = riders \ {p} /\ shiftRiders' = shiftRiders \ {p}
      /\ UNCHANGED <<group, sections, classes, periods, vehicle, shift, recorded>>
  BY DEF Member!MarkLeft, Member!Writes
<1>2. PeopleOk'
  BY <1>1 DEF MemberInv, Places, PeopleOk
<1>3. PlacesOk'
  <2>1. place' \in [Students -> sections \cup {None}] /\ lastPlace' \in [Students -> sections \cup {None}]
    BY DEF Member!MarkLeft, MemberInv, Places, PlacesOk
  <2>2. slot' \in [Teachers -> sections \cup {None}]
    BY DEF Member!MarkLeft, MemberInv, Places, PlacesOk
  <2>3. QED BY <1>1, <2>1, <2>2 DEF MemberInv, Places, PlacesOk
<1>4. BusOk'
  BY <1>1 DEF MemberInv, Places, BusOk
<1>5. Member!AssignmentsStand' /\ OneHere'
  BY <1>1 DEF MemberInv, Places, PeopleOk, PlacesOk, OneHere, Member!AssignmentsStand, Member!ClassTeachers, Member!Here, Member!People
<1>6. ASSUME NEW o \in Calls \ {r}  PROVE Relies(request[o])'
  <2>1. request'[o] = request[o] /\ p \notin request[o].holds
    BY <1>1 DEF MemberInv, RequestsOk, RequestOk, RowsExclude
  <2>2. request[o].op \in Roles => request[o].who # p /\ Member!Here(request[o].who)
    BY <2>1 DEF MemberInv, RequestsOk, RequestOk, Relies
  <2>3. QED BY <1>1, <2>1, <2>2 DEF MemberInv, RequestsOk, RequestOk, Relies, Member!Here, Member!ClassTeachers, Places, PeopleOk, Member!People
<1>7. QED BY <1>1, <1>2, <1>3, <1>4, <1>5, <1>6, Ended DEF Places

LEMMA AssignKeeps ==
    ASSUME MemberInv, NEW r \in Calls, Member!Assign(r)
    PROVE  MemberInv' /\ UNCHANGED recorded
<1> DEFINE t == request[r].who  s == request[r].at  role == request[r].op
<1>1. /\ request' = [request EXCEPT ![r] = Member!Idle] /\ role \in Roles /\ s \in sections
      /\ assigned' = assigned \cup {<<t, s, role>>}
      /\ UNCHANGED <<group, user, sections, classes, place, lastPlace, slot, periods, vehicle, shift, driver, riders,
                     shiftRiders, recorded>>
  BY DEF Member!Assign, Member!Writes, Member!places, Member!transport
<1>2. t \in Teachers /\ {t, s} \subseteq request[r].holds /\ Relies(request[r])
  BY <1>1 DEF MemberInv, RequestsOk, RequestOk
<1>3. PeopleOk' /\ PlacesOk' /\ BusOk' /\ OneHere'
  BY <1>1, <1>2 DEF MemberInv, Places, PeopleOk, PlacesOk, BusOk, OneHere, Member!Here
<1>4. Member!AssignmentsStand'
  BY <1>1, <1>2 DEF MemberInv, Places, Relies, Member!AssignmentsStand, Member!ClassTeachers, Member!Here
<1>5. ASSUME NEW o \in Calls \ {r}  PROVE Relies(request[o])'
  <2>1. request'[o] = request[o] /\ RequestOk(request[o]) /\ t \notin request[o].holds /\ s \notin request[o].holds
    BY <1>1, <1>2 DEF MemberInv, RequestsOk, RowsExclude
  <2>2. QED BY <1>1, <2>1 DEF RequestOk, Relies, Member!Here, Member!ClassTeachers
<1>6. QED BY <1>1, <1>3, <1>4, <1>5, Ended DEF Places

\* Writing one of the other things only adds people who may come, or takes places away.
LEMMA ReactivateKeeps ==
    ASSUME MemberInv, NEW r \in Calls, Member!Reactivate(r)
    PROVE  MemberInv' /\ UNCHANGED recorded
<1> DEFINE p == request[r].who
           back == IF p \in Students /\ place[p] = None THEN lastPlace[p] ELSE None
<1>1. /\ request' = [request EXCEPT ![r] = Member!Idle] /\ Member!PrincipalKey(p)
      /\ user' = [user EXCEPT ![p] = "here"]
      /\ place' = [k \in Students |-> IF k = p /\ back # None THEN back ELSE place[k]]
      /\ lastPlace' = [k \in Students |-> IF k = p /\ back # None THEN None ELSE lastPlace[k]]
      /\ UNCHANGED <<group, sections, classes, assigned, slot, periods, vehicle, shift, driver, riders, shiftRiders, recorded>>
  BY DEF Member!Reactivate, Member!Writes, Member!transport
<1>2. PeopleOk' /\ BusOk'
  BY <1>1 DEF MemberInv, Places, PeopleOk, BusOk
<1>3. PlacesOk'
  <2>1. back \in sections \cup {None}
    BY DEF MemberInv, Places, PlacesOk
  <2> HIDE DEF back
  <2>2. place' \in [Students -> sections \cup {None}] /\ lastPlace' \in [Students -> sections \cup {None}]
    BY <1>1, <2>1 DEF MemberInv, Places, PlacesOk
  <2>3. QED BY <1>1, <2>2 DEF MemberInv, Places, PlacesOk
<1>4. \A q \in Member!People : user'[q] = IF q = p THEN "here" ELSE user[q]
  BY <1>1 DEF MemberInv, Places, PeopleOk
<1>5. OneHere'
  BY <1>1, <1>4 DEF MemberInv, Places, OneHere, Member!Here, Member!PrincipalKey, Member!People
<1>6. Mild
  BY <1>1 DEF Mild, Member!Here, MemberInv, Places, PeopleOk
<1>7. Member!AssignmentsStand'
  BY <1>1, <1>6 DEF MemberInv, Places, Mild, Member!AssignmentsStand, Member!ClassTeachers
<1>8. QED BY <1>1, <1>2, <1>3, <1>5, <1>6, <1>7, MildKeeps DEF Places

LEMMA CreateKeeps ==
    ASSUME MemberInv, NEW r \in Calls, Member!Create(r)
    PROVE  MemberInv' /\ UNCHANGED recorded
<1> DEFINE p == request[r].who
<1>1. /\ request' = [request EXCEPT ![r] = Member!Idle] /\ Member!PrincipalKey(p)
      /\ user' = [user EXCEPT ![p] = "here"] /\ request[r].at \in sections \cup {None}
      /\ place' = [k \in Students |-> IF k = p THEN request[r].at ELSE place[k]]
      /\ UNCHANGED <<group, sections, classes, lastPlace, assigned, slot, periods, vehicle, shift, driver, riders,
                     shiftRiders, recorded>>
  BY DEF Member!Create, Member!Writes, Member!transport
<1>2. PeopleOk' /\ BusOk' /\ PlacesOk'
  BY <1>1 DEF MemberInv, Places, PeopleOk, BusOk, PlacesOk
<1>3. \A q \in Member!People : user'[q] = IF q = p THEN "here" ELSE user[q]
  BY <1>1 DEF MemberInv, Places, PeopleOk
<1>4. OneHere'
  BY <1>1, <1>3 DEF MemberInv, Places, OneHere, Member!Here, Member!PrincipalKey, Member!People
<1>5. Mild
  BY <1>1 DEF Mild, Member!Here, MemberInv, Places, PeopleOk
<1>6. Member!AssignmentsStand'
  BY <1>1, <1>5 DEF MemberInv, Places, Mild, Member!AssignmentsStand, Member!ClassTeachers
<1>7. QED BY <1>1, <1>2, <1>4, <1>5, <1>6, MildKeeps DEF Places

\* Nobody comes or goes and no assignment is written: only the places need a look.
LEMMA NobodyMoves ==
    ASSUME MemberInv, PlacesOk', BusOk', UNCHANGED <<group, user>>, assigned' \subseteq assigned,
           request' = request \/ \E r \in Calls : request' = [request EXCEPT ![r] = Member!Idle]
    PROVE  MemberInv'
<1>1. PeopleOk' /\ OneHere' /\ Member!AssignmentsStand' /\ Mild
  BY DEF MemberInv, Places, PeopleOk, OneHere, Mild, Member!AssignmentsStand, Member!ClassTeachers, Member!Here
<1>2. QED BY <1>1, MildKeeps DEF Places

LEMMA PlaceWritesKeep ==
    ASSUME MemberInv, NEW r \in Calls,
           Member!UpdateStudent(r) \/ Member!UpsertSlot(r) \/ Member!SaveTimings(r) \/ Member!MarkAttendance(r)
    PROVE  MemberInv' /\ recorded \subseteq recorded'
<1> USE DEF Member!places, Member!transport, Member!Writes
<1>1. CASE Member!UpdateStudent(r)
  <2>1. PlacesOk' /\ BusOk'
    BY <1>1 DEF Member!UpdateStudent, MemberInv, Places, PlacesOk, BusOk
  <2>2. QED BY <1>1, <2>1, NobodyMoves DEF Member!UpdateStudent
<1>2. CASE Member!UpsertSlot(r)
  <2>1. PlacesOk' /\ BusOk'
    BY <1>2 DEF Member!UpsertSlot, MemberInv, Places, PlacesOk, BusOk
  <2>2. QED BY <1>2, <2>1, NobodyMoves DEF Member!UpsertSlot
<1>3. CASE Member!SaveTimings(r)
  <2>1. PlacesOk' /\ BusOk'
    BY <1>3 DEF Member!SaveTimings, MemberInv, Places, PlacesOk, BusOk
  <2>2. QED BY <1>3, <2>1, NobodyMoves DEF Member!SaveTimings
<1>4. CASE Member!MarkAttendance(r)
  <2>1. PlacesOk' /\ BusOk'
    BY <1>4 DEF Member!MarkAttendance, MemberInv, Places, PlacesOk, BusOk
  <2>2. QED BY <1>4, <2>1, NobodyMoves DEF Member!MarkAttendance
<1>5. QED BY <1>1, <1>2, <1>3, <1>4

LEMMA BusWritesKeep ==
    ASSUME MemberInv, NEW r \in Calls, Member!SetDriver(r) \/ Member!AssignStudent(r) \/ Member!SaveShiftStudents(r)
    PROVE  MemberInv' /\ UNCHANGED recorded
<1> USE DEF Member!places, Member!Writes
<1>1. CASE Member!SetDriver(r)
  <2>1. request[r].who \in Drivers
    BY <1>1 DEF Member!SetDriver, MemberInv, RequestsOk, RequestOk
  <2>2. PlacesOk' /\ BusOk'
    BY <1>1, <2>1 DEF Member!SetDriver, MemberInv, Places, PlacesOk, BusOk
  <2>3. QED BY <1>1, <2>2, NobodyMoves DEF Member!SetDriver
<1>2. CASE Member!AssignStudent(r)
  <2>1. request[r].who \in Students
    BY <1>2 DEF Member!AssignStudent, MemberInv, RequestsOk, RequestOk
  <2>2. PlacesOk' /\ BusOk'
    BY <1>2, <2>1 DEF Member!AssignStudent, MemberInv, Places, PlacesOk, BusOk
  <2>3. QED BY <1>2, <2>2, NobodyMoves DEF Member!AssignStudent
<1>3. CASE Member!SaveShiftStudents(r)
  <2>1. request[r].who \subseteq Students
    BY <1>3 DEF Member!SaveShiftStudents, MemberInv, RequestsOk, RequestOk
  <2>2. PlacesOk' /\ BusOk'
    BY <1>3, <2>1 DEF Member!SaveShiftStudents, MemberInv, Places, PlacesOk, BusOk
  <2>3. QED BY <1>3, <2>2, NobodyMoves DEF Member!SaveShiftStudents
<1>4. QED BY <1>1, <1>2, <1>3

\* Sections go with all that points to them, and none of them has records.
LEMMA GoneKeeps ==
    ASSUME MemberInv, NEW S, Member!DeleteRows(S), UNCHANGED <<group, periods>>,
           classes' \subseteq classes, \A s \in sections' : ClassOf[s] \in classes'
    PROVE  PlacesOk' /\ assigned' \subseteq assigned /\ UNCHANGED recorded
<1>1. recorded \cap S = {} /\ sections' = sections \ S /\ assigned' = {a \in assigned : a[2] \notin S} /\ UNCHANGED recorded
  BY DEF Member!DeleteRows, Member!Gone
<1>2. place' \in [Students -> sections' \cup {None}] /\ lastPlace' \in [Students -> sections' \cup {None}]
      /\ slot' \in [Teachers -> sections' \cup {None}]
  BY <1>1 DEF Member!DeleteRows, Member!Gone, MemberInv, Places, PlacesOk
<1>3. assigned' \subseteq Teachers \X sections' \X Roles
  BY <1>1 DEF MemberInv, Places, PlacesOk
<1>4. QED BY <1>1, <1>2, <1>3 DEF MemberInv, Places, PlacesOk

LEMMA DeletesKeep ==
    ASSUME MemberInv, NEW r \in Calls, Member!DeleteSection(r) \/ Member!DeleteClass(r)
    PROVE  MemberInv' /\ UNCHANGED recorded
<1> USE DEF Member!transport, Member!Writes
<1>1. CASE Member!DeleteSection(r)
  <2>1. \A s \in sections' : ClassOf[s] \in classes'
    BY <1>1 DEF Member!DeleteSection, Member!DeleteRows, Member!Gone, MemberInv, Places, PlacesOk
  <2>2. PlacesOk' /\ assigned' \subseteq assigned /\ UNCHANGED recorded
    BY <1>1, <2>1, GoneKeeps DEF Member!DeleteSection
  <2>3. BusOk'
    BY <1>1 DEF Member!DeleteSection, MemberInv, Places, BusOk
  <2>4. QED BY <1>1, <2>2, <2>3, NobodyMoves DEF Member!DeleteSection
<1>2. CASE Member!DeleteClass(r)
  <2>1. \A s \in sections' : ClassOf[s] \in classes'
    BY <1>2 DEF Member!DeleteClass, Member!DeleteRows, Member!Gone, Member!SectionsOf, MemberInv, Places, PlacesOk
  <2>2. PlacesOk' /\ assigned' \subseteq assigned /\ UNCHANGED recorded
    BY <1>2, <2>1, GoneKeeps DEF Member!DeleteClass
  <2>3. BusOk'
    BY <1>2 DEF Member!DeleteClass, MemberInv, Places, BusOk
  <2>4. QED BY <1>2, <2>2, <2>3, NobodyMoves DEF Member!DeleteClass
<1>3. QED BY <1>1, <1>2

\* One statement, and no call.
LEMMA SingleStepsKeep ==
    ASSUME MemberInv,
           \/ Member!Unassign \/ Member!DeleteSlot \/ Member!DeleteVehicle \/ Member!RemoveStudent
           \/ Member!CreateShift \/ Member!DeleteShift
           \/ \E s \in group.sections : Member!CreateClass(ClassOf[s]) \/ Member!CreateSection(s)
    PROVE  MemberInv' /\ UNCHANGED recorded
<1> USE DEF Member!places, Member!transport
<1>1. CASE Member!Unassign
  BY <1>1, NobodyMoves DEF Member!Unassign, MemberInv, Places, PlacesOk, BusOk
<1>2. CASE Member!DeleteSlot
  BY <1>2, NobodyMoves DEF Member!DeleteSlot, MemberInv, Places, PlacesOk, BusOk
<1>3. CASE Member!DeleteVehicle
  BY <1>3, NobodyMoves DEF Member!DeleteVehicle, MemberInv, Places, PlacesOk, BusOk
<1>4. CASE Member!RemoveStudent
  BY <1>4, NobodyMoves DEF Member!RemoveStudent, MemberInv, Places, PlacesOk, BusOk
<1>5. CASE Member!CreateShift
  BY <1>5, NobodyMoves DEF Member!CreateShift, MemberInv, Places, PlacesOk, BusOk
<1>6. CASE Member!DeleteShift
  BY <1>6, NobodyMoves DEF Member!DeleteShift, MemberInv, Places, PlacesOk, BusOk
<1>7. ASSUME NEW s \in group.sections, Member!CreateClass(ClassOf[s]) \/ Member!CreateSection(s)
      PROVE  MemberInv' /\ UNCHANGED recorded
  <2>1. ClassOf[s] \in Classes
    BY ClassAssumption DEF MemberInv, Places, PeopleOk
  <2>2. CASE Member!CreateClass(ClassOf[s])
    <3>1. PlacesOk' /\ BusOk'
      BY <2>1, <2>2 DEF Member!CreateClass, MemberInv, Places, PlacesOk, BusOk
    <3>2. QED BY <2>2, <3>1, NobodyMoves DEF Member!CreateClass
  <2>3. CASE Member!CreateSection(s)
    <3>1. PlacesOk' /\ BusOk'
      BY <2>3 DEF Member!CreateSection, MemberInv, Places, PlacesOk, BusOk
    <3>2. QED BY <2>3, <3>1, NobodyMoves DEF Member!CreateSection
  <2>4. QED BY <1>7, <2>2, <2>3
<1>8. QED BY <1>1, <1>2, <1>3, <1>4, <1>5, <1>6, <1>7

LEMMA MemberStep ==
    ASSUME MemberInv, [Member!Next]_(Member!vars)
    PROVE  MemberInv' /\ recorded \subseteq recorded'
<1>1. ASSUME NEW r \in Calls, Member!Refuse(r)
      PROVE  MemberInv' /\ UNCHANGED recorded
  <2>1. PlacesOk' /\ BusOk' /\ UNCHANGED <<group, user, assigned, recorded>>
    BY <1>1 DEF Member!Refuse, Member!tables, Member!places, Member!transport, MemberInv, Places, PlacesOk, BusOk
  <2>2. QED BY <1>1, <2>1, NobodyMoves DEF Member!Refuse
<1>2. CASE Member!Next
  BY <1>1, <1>2, ArriveKeepsPlaces, MarkLeftKeeps, AssignKeeps, ReactivateKeeps, CreateKeeps, PlaceWritesKeep, BusWritesKeep,
     DeletesKeep, SingleStepsKeep DEF Member!Next, Member!Write
<1>3. CASE UNCHANGED Member!vars
  <2>1. PlacesOk' /\ BusOk' /\ UNCHANGED <<group, user, assigned, recorded, request>>
    BY <1>3 DEF Member!vars, MemberInv, Places, PlacesOk, BusOk
  <2>2. QED BY <2>1, NobodyMoves
<1>4. QED BY <1>2, <1>3

LEMMA MemberStart ==
    ASSUME Member!Init
    PROVE  MemberInv
<1>1. /\ group \in Groups /\ sections = group.sections /\ classes = {ClassOf[s] : s \in sections}
      /\ place = [k \in Students |-> None] /\ lastPlace = place /\ assigned = {} /\ slot = [t \in Teachers |-> None]
      /\ periods = 2 /\ recorded = {} /\ request = [r \in Calls |-> Member!Idle]
      /\ user = [p \in Member!People |-> IF p \notin group.people THEN "absent"
                                         ELSE IF p \in Teachers \cup Drivers THEN "here" ELSE "none"]
  BY DEF Member!Init
<1>2. PeopleOk
  BY <1>1, ClassAssumption DEF PeopleOk
<1>3. PlacesOk
  BY <1>1, ClassAssumption DEF PlacesOk
<1>4. BusOk
  BY <1>1, ClassAssumption DEF Member!Init, BusOk
<1>5. Member!AssignmentsStand
  BY <1>1 DEF Member!AssignmentsStand, Member!ClassTeachers
<1>6. OneHere
  BY <1>1, PeopleAssumption DEF OneHere, Member!Here, Member!People
<1>7. RequestsOk /\ RowsExclude
  BY <1>1, IdleRequest DEF RequestsOk, RowsExclude
<1>8. QED BY <1>2, <1>3, <1>4, <1>5, <1>6, <1>7 DEF MemberInv, Places

LEMMA SameCount == \A S : Member!Cardinality(S) = Cardinality(S)
BY Zenon DEF Member!Cardinality, Cardinality

LEMMA MemberInvImplies == MemberInv => Member!PlacesHold
<1> SUFFICES ASSUME MemberInv  PROVE Member!PlacesHold
  OBVIOUS
<1>1. Member!AssignmentsStand
  BY DEF MemberInv, Places
<1>2. Member!OnePrincipal
  <2> DEFINE here == {p \in Principals : Member!Here(p)}
  <2>1. CASE here = {}
    BY <2>1, FS_EmptySet, SameCount DEF Member!OnePrincipal
  <2>2. CASE here # {}
    <3>1. PICK p \in Principals : here = {p}
      BY <2>2 DEF MemberInv, Places, OneHere
    <3>2. Cardinality(here) = 1
      BY <3>1, FS_Singleton
    <3>3. QED BY <3>2, SameCount DEF Member!OnePrincipal
  <2>3. QED BY <2>1, <2>2
<1>3. Member!DriversMeetStudents
  BY DEF Member!DriversMeetStudents, Member!Routine
<1>4. QED BY <1>1, <1>2, <1>3 DEF Member!PlacesHold

-----------------------------------------------------------------------------
(* The theorems *)

\* The part of a behaviour never changes, and each part moves as it does alone.
LEMMA MembershipInvariance == SchoolSpec => [](part = "membership" => MemberInv)
<1>1. SchoolInit => (part = "membership" => MemberInv)
  BY MemberStart DEF SchoolInit
<1>2. (part = "membership" => MemberInv) /\ [SchoolNext]_<<part, vars, member>> => (part = "membership" => MemberInv)'
  <2> SUFFICES ASSUME part = "membership" => MemberInv, [SchoolNext]_<<part, vars, member>>, part' = "membership"
               PROVE  MemberInv'
    OBVIOUS
  <2>1. part = "membership" /\ MemberInv
    BY DEF SchoolNext
  <2>2. [Member!Next]_(Member!vars)
    BY <2>1 DEF SchoolNext, member, Member!vars
  <2>3. QED BY <2>1, <2>2, MemberStep
<1>3. QED BY <1>1, <1>2, PTL DEF SchoolSpec

\* leaving.py, assignments.py, users.py, classes.py: nobody who left is assigned, a section has one
\* class teacher and a teacher one section, the school one principal, a driver calls on nobody who
\* left, and attendance is never erased, for any number of people, sections, classes and calls.
THEOREM PlacesAlwaysHold == SchoolSpec => PlacesHold
<1>1. (part = "membership" => MemberInv) => (part = "membership" => Member!PlacesHold)
  BY MemberInvImplies
<1>2. (part = "membership" => MemberInv) /\ [SchoolNext]_<<part, vars, member>> => [recorded \subseteq recorded']_(Member!vars)
  <2> SUFFICES ASSUME part = "membership" => MemberInv, [SchoolNext]_<<part, vars, member>>
               PROVE  recorded \subseteq recorded' \/ UNCHANGED Member!vars
    OBVIOUS
  <2>1. CASE part = "membership" /\ Member!Next
    BY <2>1, MemberStep
  <2>2. CASE UNCHANGED member
    BY <2>2 DEF member, Member!vars
  <2>3. QED BY <2>1, <2>2 DEF SchoolNext
<1>3. QED BY <1>1, <1>2, MembershipInvariance, PTL DEF SchoolSpec, PlacesHold, Member!RecordsSurvive

\* Both parts keep to their types: a section, a vehicle or a shift that is gone is nobody's place,
\* no record is of a section that is not there, and calls and their locks are what they should be.
THEOREM TypesAlwaysOK == SchoolSpec => []TypesOK
<1>1. SchoolSpec => Spec
  <2>1. SchoolInit => Init
    BY DEF SchoolInit
  <2>2. [SchoolNext]_<<part, vars, member>> => [Next]_vars
    BY DEF SchoolNext
  <2>3. QED BY <2>1, <2>2, PTL DEF SchoolSpec, Spec
<1>2. TypeOK /\ (part = "membership" => MemberInv) => TypesOK
  BY MemberTypes DEF TypesOK
<1>3. QED BY <1>1, <1>2, MembershipInvariance, TypesKept, PTL
=============================================================================
