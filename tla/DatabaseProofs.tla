--------------------------- MODULE DatabaseProofs ---------------------------
(***************************************************************************)
(* What lies between the services and the database, for any threads, pool  *)
(* sizes, statements, lost connections, requests and files.                *)
(*                                                                         *)
(* The pool: who has a connection has a slot, so no slot is lost and the   *)
(* connections never exceed pool size + overflow.                          *)
(* A transaction takes effect whole and once or not at all: until COMMIT   *)
(* is executed, what the block did is in the connection's open transaction *)
(* and nowhere else, it goes when the connection does, and within a block  *)
(* the connection is a used one, so that nothing is retried.               *)
(* A row's path leads to a file: what a request put is only its own until  *)
(* it commits, and what a hook deletes is attached no more.                *)
(***************************************************************************)
EXTENDS MCDatabase, FiniteSetTheorems, TLAPS

-----------------------------------------------------------------------------
(* The pool *)

One(condition) == IF condition THEN 1 ELSE 0
\* Who has a connection has a slot, and both are finitely many, wherever the Dbs are.
LEMMA CountedAt ==
  ASSUME NEW f
  PROVE  LET connected == {d \in Dbs : f[d] \in HasConnection}
             holders == {d \in Dbs : f[d] \in HasSlot}
         IN  /\ IsFiniteSet(connected) /\ IsFiniteSet(holders)
             /\ Cardinality(connected) \in Nat /\ Cardinality(holders) \in Nat
             /\ Cardinality(connected) <= Cardinality(holders)
<1> DEFINE connected == {d \in Dbs : f[d] \in HasConnection}
           holders == {d \in Dbs : f[d] \in HasSlot}
<1>1. IsFiniteSet({"own", "submit"})
  <2>1. IsFiniteSet({"own"})
    BY FS_Singleton
  <2>2. IsFiniteSet({"own"} \cup {"submit"})
    BY <2>1, FS_AddElement
  <2>3. {"own", "submit"} = {"own"} \cup {"submit"}
    OBVIOUS
  <2>4. QED
    BY <2>2, <2>3
<1>2. IsFiniteSet(Dbs)
  BY <1>1, FiniteThreads, FS_Product DEF Dbs
<1>3. holders \in SUBSET Dbs /\ connected \in SUBSET holders
  BY DEF HasSlot
<1>4. IsFiniteSet(holders) /\ IsFiniteSet(connected)
  BY <1>2, <1>3, FS_Subset
<1>5. QED
  BY <1>3, <1>4, FS_Subset, FS_CardinalityType

\* The same for the Dbs as they are now.
LEMMA Counted ==
    /\ IsFiniteSet(Connected) /\ IsFiniteSet(Holders)
    /\ Cardinality(Connected) \in Nat /\ Cardinality(Holders) \in Nat
    /\ Cardinality(Connected) <= Cardinality(Holders)
BY CountedAt DEF Connected, Holders

\* How both counts change when one Db goes to another step.
LEMMA OneMove ==
  ASSUME TypeOK, NEW d \in Dbs, NEW step \in Steps, Goto(d, step)
  PROVE  /\ at' \in [Dbs -> Steps]
         /\ Cardinality(Connected') =
              Cardinality(Connected) - One(at[d] \in HasConnection) + One(step \in HasConnection)
         /\ Cardinality(Holders') =
              Cardinality(Holders) - One(at[d] \in HasSlot) + One(step \in HasSlot)
<1>1. at' = [at EXCEPT ![d] = step] /\ at \in [Dbs -> Steps]
  BY DEF Goto, TypeOK
<1>2. at' \in [Dbs -> Steps] /\ at'[d] = step /\ \A e \in Dbs \ {d} : at'[e] = at[e]
  BY <1>1
<1>3. Connected' = IF step \in HasConnection THEN Connected \cup {d} ELSE Connected \ {d}
  BY <1>2 DEF Connected
<1>4. Holders' = IF step \in HasSlot THEN Holders \cup {d} ELSE Holders \ {d}
  BY <1>2 DEF Holders
<1>5. (d \in Connected <=> at[d] \in HasConnection) /\ (d \in Holders <=> at[d] \in HasSlot)
  BY DEF Connected, Holders
<1>6. /\ Cardinality(Connected \cup {d}) = IF d \in Connected THEN Cardinality(Connected)
                                                           ELSE Cardinality(Connected) + 1
      /\ Cardinality(Connected \ {d}) = IF d \in Connected THEN Cardinality(Connected) - 1
                                                        ELSE Cardinality(Connected)
  BY Counted, FS_AddElement, FS_RemoveElement
<1>7. /\ Cardinality(Holders \cup {d}) = IF d \in Holders THEN Cardinality(Holders)
                                                       ELSE Cardinality(Holders) + 1
      /\ Cardinality(Holders \ {d}) = IF d \in Holders THEN Cardinality(Holders) - 1
                                                    ELSE Cardinality(Holders)
  BY Counted, FS_AddElement, FS_RemoveElement
<1>8. Cardinality(Connected) \in Nat /\ Cardinality(Holders) \in Nat
  BY Counted
<1>9. Cardinality(Connected') =
        Cardinality(Connected) - One(at[d] \in HasConnection) + One(step \in HasConnection)
  BY <1>3, <1>5, <1>6, <1>8 DEF One
<1>10. Cardinality(Holders') = Cardinality(Holders) - One(at[d] \in HasSlot) + One(step \in HasSlot)
  BY <1>4, <1>5, <1>7, <1>8 DEF One
<1>11. QED
  BY <1>2, <1>9, <1>10

\* Both of a request's Dbs are Dbs, and they differ.
LEMMA TwoDbs ==
  ASSUME NEW t \in Threads
  PROVE  Own(t) \in Dbs /\ Submit(t) \in Dbs /\ Own(t) # Submit(t)
BY DEF Own, Submit, Dbs

\* Initially nothing is borrowed and every slot is free.
LEMMA InitInv == Init => IInv
<1> SUFFICES ASSUME Init PROVE IInv
  OBVIOUS
<1>1. TypeOK
  BY PoolSizes DEF Init, TypeOK, Limit, Steps
<1>2. Holders = {} /\ Connected = {}
  BY DEF Init, Holders, Connected, HasSlot, HasConnection
<1>3. SubmitIsNested
  BY TwoDbs DEF Init, SubmitIsNested
<1>4. QED
  BY <1>1, <1>2, <1>3, FS_EmptySet, PoolSizes DEF Init, IInv, SlotsAreAccountedFor, ConnectionLimit, Limit

\* A request asks for a connection, or for the one of its submit.
LEMMA AskInv ==
  ASSUME IInv, NEW t \in Threads, Ask(t) \/ AskForSubmit(t)
  PROVE  IInv'
<1>1. at \in [Dbs -> Steps] /\ TypeOK /\ SubmitIsNested
  BY DEF IInv, TypeOK
<1>2. at' \in [Dbs -> Steps] /\ slots' = slots /\ idle' = idle
  BY <1>1, TwoDbs DEF Ask, AskForSubmit, Goto, Steps
<1>3. \A d \in Dbs : (at'[d] \in HasSlot <=> at[d] \in HasSlot)
                     /\ (at'[d] \in HasConnection <=> at[d] \in HasConnection)
  <2>1. CASE Ask(t)
    BY <2>1, <1>1, TwoDbs DEF Ask, Goto, HasSlot, HasConnection
  <2>2. CASE AskForSubmit(t)
    <3>1. at[Submit(t)] = "none" /\ at[Own(t)] = "leased"
      BY <2>2, <1>1 DEF AskForSubmit, SubmitIsNested
    <3>2. QED
      BY <2>2, <3>1, <1>1, TwoDbs DEF AskForSubmit, HasSlot, HasConnection
  <2>3. QED
    BY <2>1, <2>2
<1>4. Holders' = Holders /\ Connected' = Connected
  BY <1>3 DEF Holders, Connected
<1>5. SubmitIsNested'
  <2> SUFFICES ASSUME NEW u \in Threads, at'[Submit(u)] # "none"
               PROVE  at'[Own(u)] = "submitting"
    BY DEF SubmitIsNested
  <2>1. /\ Own(u) \in Dbs /\ Submit(u) \in Dbs /\ Own(t) \in Dbs /\ Submit(t) \in Dbs
        /\ Own(u) # Submit(t) /\ Own(t) # Submit(u) /\ Own(t) # Submit(t)
        /\ (u # t => Own(u) # Own(t) /\ Submit(u) # Submit(t))
    BY DEF Own, Submit, Dbs
  <2>2. CASE Ask(t)
    BY <2>1, <2>2, <1>1 DEF Ask, Goto, SubmitIsNested
  <2>3. CASE AskForSubmit(t)
    BY <2>1, <2>3, <1>1 DEF AskForSubmit, SubmitIsNested
  <2>4. QED
    BY <2>2, <2>3
<1>6. QED
  BY <1>2, <1>4, <1>5 DEF IInv, TypeOK, SlotsAreAccountedFor, ConnectionLimit

\* A Db's step never moves another Db; a request's own Db stays where it is
\* while its submit is under way.
LEMMA NestingKept ==
  ASSUME IInv, NEW d \in Dbs, Proceed(d)
  PROVE  SubmitIsNested'
<1> SUFFICES ASSUME NEW t \in Threads, at'[Submit(t)] # "none"
             PROVE  at'[Own(t)] = "submitting"
  BY DEF SubmitIsNested
<1>1. /\ at \in [Dbs -> Steps] /\ Own(t) \in Dbs /\ Submit(t) \in Dbs /\ Own(t) # Submit(t)
      /\ (at[Submit(t)] # "none" => at[Own(t)] = "submitting")
  BY TwoDbs DEF IInv, TypeOK, SubmitIsNested
<1>2. PICK step \in Steps : Goto(d, step)
  BY DEF Proceed, TakeSlot, TimeOut, Checkout, Usable, Unusable, Connect, ConnectFails,
         Keep, Drop, Close, GiveSlotBack, Steps
<1>3. at' = [at EXCEPT ![d] = step]
  BY <1>2 DEF Goto
<1>4. CASE d = Submit(t)
  <2>1. at[d] # "none"
    BY DEF Proceed, TakeSlot, TimeOut, Checkout, Usable, Unusable, Connect, ConnectFails,
           Keep, Drop, Close, GiveSlotBack, MayRelease
  <2>2. QED
    BY <1>1, <1>3, <1>4, <2>1
<1>5. CASE d = Own(t)
  <2>1. at[Submit(t)] # "none" /\ at[d] = "submitting"
    BY <1>1, <1>3, <1>5
  <2>2. ~MayRelease(d)
    BY <2>1, <1>5 DEF MayRelease
  <2>3. FALSE
    BY <2>1, <2>2 DEF Proceed, TakeSlot, TimeOut, Checkout, Usable, Unusable, Connect, ConnectFails,
                      Keep, Drop, Close, GiveSlotBack
  <2>4. QED
    BY <2>3
<1>6. CASE d # Submit(t) /\ d # Own(t)
  BY <1>1, <1>3, <1>6
<1>7. QED
  BY <1>4, <1>5, <1>6

\* The counts under each step of acquire and release.
LEMMA ProceedInv ==
  ASSUME IInv, NEW d \in Dbs, Proceed(d)
  PROVE  IInv'
<1>0. PICK c \in Nat, h \in Nat : c = Cardinality(Connected) /\ h = Cardinality(Holders)
  BY Counted
<1>1. /\ TypeOK /\ slots \in Nat /\ slots <= PoolSize + Overflow /\ idle \in Nat /\ idle <= PoolSize
      /\ PoolSize + Overflow \in Nat /\ PoolSize \in Nat
      /\ slots + h = PoolSize + Overflow /\ idle + c <= PoolSize + Overflow
  BY <1>0, PoolSizes DEF IInv, TypeOK, Limit, SlotsAreAccountedFor, ConnectionLimit
<1>2. c \in Nat /\ h \in Nat /\ c <= h
  BY <1>0, Counted
<1>3. ASSUME NEW step \in Steps, at' = [at EXCEPT ![d] = step]
      PROVE  /\ at' \in [Dbs -> Steps]
             /\ Cardinality(Connected') = c - One(at[d] \in HasConnection) + One(step \in HasConnection)
             /\ Cardinality(Holders') = h - One(at[d] \in HasSlot) + One(step \in HasSlot)
  BY <1>0, <1>1, <1>3, OneMove DEF Goto
<1>4. Cardinality(Connected') \in Nat /\ Cardinality(Holders') \in Nat
      /\ Cardinality(Connected') <= Cardinality(Holders')
  BY CountedAt DEF Connected, Holders
<1>5. /\ at' \in [Dbs -> Steps] /\ slots' \in 0..(PoolSize + Overflow) /\ idle' \in 0..PoolSize
      /\ slots' + Cardinality(Holders') = PoolSize + Overflow
      /\ idle' + Cardinality(Connected') <= PoolSize + Overflow
  <2>1. CASE TakeSlot(d)
    <3>1. /\ at[d] = "waiting" /\ slots > 0 /\ slots' = slots - 1 /\ idle' = idle
          /\ at' = [at EXCEPT ![d] = "admitted"]
      BY <2>1 DEF TakeSlot, Goto
    <3>2. /\ at' \in [Dbs -> Steps] /\ Cardinality(Connected') = c /\ Cardinality(Holders') = h + 1
      BY <3>1, <1>2, <1>3 DEF One, Steps, HasSlot, HasConnection
    <3>3. QED
      BY <3>1, <3>2, <1>1, <1>2
  <2>2. CASE TimeOut(d)
    <3>1. at[d] = "waiting" /\ slots' = slots /\ idle' = idle /\ at' = [at EXCEPT ![d] = "none"]
      BY <2>2 DEF TimeOut, Goto
    <3>2. /\ at' \in [Dbs -> Steps] /\ Cardinality(Connected') = c /\ Cardinality(Holders') = h
      BY <3>1, <1>2, <1>3 DEF One, Steps, HasSlot, HasConnection
    <3>3. QED
      BY <3>1, <3>2, <1>1, <1>2
  <2>3. CASE Checkout(d)
    <3>1. at[d] = "admitted" /\ slots' = slots
      BY <2>3 DEF Checkout, Goto
    <3>2. CASE idle > 0
      <4>1. idle' = idle - 1 /\ at' = [at EXCEPT ![d] = "checking"]
        BY <2>3, <3>2 DEF Checkout, Goto
      <4>2. /\ at' \in [Dbs -> Steps] /\ Cardinality(Connected') = c + 1 /\ Cardinality(Holders') = h
        BY <3>1, <4>1, <1>2, <1>3 DEF One, Steps, HasSlot, HasConnection
      <4>3. QED
        BY <3>1, <3>2, <4>1, <4>2, <1>1, <1>2
    <3>3. CASE ~(idle > 0)
      <4>1. idle' = idle /\ idle = 0 /\ at' = [at EXCEPT ![d] = "connecting"]
        BY <2>3, <3>3, <1>1 DEF Checkout, Goto
      <4>2. /\ at' \in [Dbs -> Steps] /\ Cardinality(Connected') = c + 1 /\ Cardinality(Holders') = h
        BY <3>1, <4>1, <1>2, <1>3 DEF One, Steps, HasSlot, HasConnection
      <4>3. QED  \* nothing idle: the connections are as many as slots are taken at most
        BY <3>1, <4>1, <4>2, <1>1, <1>2, <1>4
    <3>4. QED
      BY <3>2, <3>3
  <2>4. CASE Usable(d) \/ Connect(d)
    <3>1. /\ at[d] \in {"checking", "connecting"} /\ slots' = slots /\ idle' = idle
          /\ at' = [at EXCEPT ![d] = "leased"]
      BY <2>4 DEF Usable, Connect, Goto
    <3>2. /\ at' \in [Dbs -> Steps] /\ Cardinality(Connected') = c /\ Cardinality(Holders') = h
      BY <3>1, <1>2, <1>3 DEF One, Steps, HasSlot, HasConnection
    <3>3. QED
      BY <3>1, <3>2, <1>1, <1>2
  <2>5. CASE Unusable(d)
    <3>1. /\ at[d] \in {"checking", "connecting", "closing"} /\ slots' = slots /\ idle' = idle
          /\ at' = [at EXCEPT ![d] = "admitted"]
      BY <2>5 DEF Unusable, Goto
    <3>2. /\ at' \in [Dbs -> Steps] /\ Cardinality(Connected') = c - 1 /\ Cardinality(Holders') = h
      BY <3>1, <1>2, <1>3 DEF One, Steps, HasSlot, HasConnection
    <3>3. QED
      BY <3>1, <3>2, <1>1, <1>2
  <2>6. CASE ConnectFails(d) \/ Close(d)
    <3>1. /\ at[d] \in {"checking", "connecting", "closing"} /\ slots' = slots /\ idle' = idle
          /\ at' = [at EXCEPT ![d] = "stored"]
      BY <2>6 DEF ConnectFails, Close, Goto
    <3>2. /\ at' \in [Dbs -> Steps] /\ Cardinality(Connected') = c - 1 /\ Cardinality(Holders') = h
      BY <3>1, <1>2, <1>3 DEF One, Steps, HasSlot, HasConnection
    <3>3. QED
      BY <3>1, <3>2, <1>1, <1>2
  <2>7. CASE Keep(d)
    <3>1. /\ at[d] \in {"leased", "submitting"} /\ slots' = slots /\ idle < PoolSize /\ idle' = idle + 1
          /\ at' = [at EXCEPT ![d] = "stored"]
      BY <2>7 DEF Keep, MayRelease, Goto
    <3>2. /\ at' \in [Dbs -> Steps] /\ Cardinality(Connected') = c - 1 /\ Cardinality(Holders') = h
      BY <3>1, <1>2, <1>3 DEF One, Steps, HasSlot, HasConnection
    <3>3. QED
      BY <3>1, <3>2, <1>1, <1>2
  <2>8. CASE Drop(d)
    <3>1. /\ at[d] \in {"leased", "submitting"} /\ slots' = slots /\ idle' = idle /\ at' = [at EXCEPT ![d] = "closing"]
      BY <2>8 DEF Drop, MayRelease, Goto
    <3>2. /\ at' \in [Dbs -> Steps] /\ Cardinality(Connected') = c /\ Cardinality(Holders') = h
      BY <3>1, <1>2, <1>3 DEF One, Steps, HasSlot, HasConnection
    <3>3. QED
      BY <3>1, <3>2, <1>1, <1>2
  <2>9. CASE GiveSlotBack(d)
    <3>1. at[d] = "stored" /\ slots' = slots + 1 /\ idle' = idle /\ at' = [at EXCEPT ![d] = "none"]
      BY <2>9 DEF GiveSlotBack, Goto
    <3>2. /\ at' \in [Dbs -> Steps] /\ Cardinality(Connected') = c /\ Cardinality(Holders') = h - 1
      BY <3>1, <1>2, <1>3 DEF One, Steps, HasSlot, HasConnection
    <3>3. QED
      BY <3>1, <3>2, <1>1, <1>2, <1>4
  <2>10. QED
    BY <2>1, <2>2, <2>3, <2>4, <2>5, <2>6, <2>7, <2>8, <2>9 DEF Proceed
<1>6. SubmitIsNested'
  BY NestingKept
<1>7. QED
  BY <1>5, <1>6 DEF IInv, TypeOK, SlotsAreAccountedFor, ConnectionLimit, Limit

\* Every step of the pool keeps the inductive invariant.
LEMMA NextInv == IInv /\ [Next]_vars => IInv'
<1> SUFFICES ASSUME IInv, [Next]_vars PROVE IInv'
  OBVIOUS
<1>1. CASE \E t \in Threads : Ask(t) \/ AskForSubmit(t)
  BY <1>1, AskInv
<1>2. CASE \E d \in Dbs : Proceed(d)
  BY <1>2, ProceedInv
<1>3. CASE CloseAll
  <2>1. idle' = 0 /\ slots' = slots /\ at' = at /\ idle \in Nat /\ Limit \in Nat
    BY <1>3, PoolSizes DEF CloseAll, IInv, TypeOK, Limit
  <2>2. Connected' = Connected /\ Holders' = Holders
    BY <2>1 DEF Connected, Holders
  <2>3. Cardinality(Connected) \in Nat
    BY Counted
  <2>4. QED
    BY <2>1, <2>2, <2>3, PoolSizes DEF IInv, TypeOK, SubmitIsNested, SlotsAreAccountedFor, ConnectionLimit, Limit
<1>4. CASE UNCHANGED vars
  BY <1>4 DEF vars, IInv, TypeOK, SubmitIsNested, SlotsAreAccountedFor, ConnectionLimit, Connected, Holders
<1>5. QED
  BY <1>1, <1>2, <1>3, <1>4 DEF Next

\* The inductive invariant holds in every reachable state of the pool.
THEOREM Invariance == Spec => []IInv
<1>1. QED
  BY InitInv, NextInv, PTL DEF Spec

\* pool.py: the variables keep their types; the semaphore stays within its bound,
\* so BoundedSemaphore never raises, and never more than pool_size are idle.
THEOREM TypeCorrect == Spec => []TypeOK
<1>1. IInv => TypeOK
  BY DEF IInv
<1>2. QED
  BY <1>1, Invariance, PTL

\* pool.py: open connections never exceed pool size + overflow.
THEOREM NeverTooManyConnections == Spec => []ConnectionLimit
<1>1. IInv => ConnectionLimit
  BY DEF IInv
<1>2. QED
  BY <1>1, Invariance, PTL

\* pool.py: acquire and release neither lose a slot nor free one twice.
THEOREM NoSlotIsLost == Spec => []SlotsAreAccountedFor
<1>1. IInv => SlotsAreAccountedFor
  BY DEF IInv
<1>2. QED
  BY <1>1, Invariance, PTL

\* Both at once, as the run checks them.
THEOREM LimitIsAlwaysKept == Spec => []LimitIsKept
<1>1. QED
  BY NeverTooManyConnections, NoSlotIsLost, PTL DEF LimitIsKept

-----------------------------------------------------------------------------
(* A transaction *)

CommitExecuted == call = [op |-> "commit", phase |-> "executed"]
BeginExecuted == call = [op |-> "begin", phase |-> "executed"]

\* A lost connection takes its open transaction along.
LostIsUndone == ~up => ~inServer /\ open = Session!Nothing

\* Before the block no transaction is open, but the one whose BEGIN is not yet answered.
OutsideIsClean ==
    depth = 0 /\ outcome = "none" =>
        /\ body = {} /\ open = Session!Nothing
        /\ call.op # "commit"
        /\ inServer => BeginExecuted
        /\ BeginExecuted /\ up => inServer

\* Within it, each statement is pending, once, while the connection lives, until COMMIT is executed.
InsideIsPending ==
    depth = 1 =>
        /\ outcome = "none" /\ lease = "used" /\ call.op # "begin"
        /\ CommitExecuted => \A s \in body : applied[s] = 1
        /\ ~CommitExecuted =>
            /\ up => inServer
            /\ \A s \in body : applied[s] = 0
            /\ up => \A s \in body : open[s] = IF call = [op |-> s, phase |-> "sent"] THEN 0 ELSE 1

\* After the block the request issues nothing more.
EndIsFinal == outcome # "none" => call = Session!None /\ depth = 0

DInv == Session!TypeOK /\ LostIsUndone /\ OutsideIsClean /\ InsideIsPending /\ EndIsFinal /\ Session!AllOrNothing

-----------------------------------------------------------------------------

LEMMA ExecuteKeeps ==
    ASSUME DInv, NEW s \in Statements, Session!Execute(s)
    PROVE DInv'
<1>1. Session!TypeOK'
  BY DEF Session!Execute, Session!Issue, Session!Started, DInv, Session!TypeOK, Session!Ops
<1>2. LostIsUndone'
  BY DEF Session!Execute, Session!Issue, DInv, Session!TypeOK, LostIsUndone
<1>3. OutsideIsClean'
  BY StatementsAreWrites DEF Session!Execute, Session!Issue, DInv, OutsideIsClean, BeginExecuted, Session!None
<1>4. InsideIsPending'
  BY StatementsAreWrites DEF Session!Execute, Session!Issue, Session!Started, DInv, Session!TypeOK,
     InsideIsPending, CommitExecuted, Session!None
<1>5. EndIsFinal'
  BY DEF Session!Execute, Session!Issue, EndIsFinal
<1>6. Session!AllOrNothing'
  BY DEF Session!Execute, Session!Issue, DInv, Session!AllOrNothing, Session!None
<1>7. QED BY <1>1, <1>2, <1>3, <1>4, <1>5, <1>6 DEF DInv

LEMMA BeginKeeps ==
    ASSUME DInv, Session!Begin
    PROVE DInv'
<1>1. Session!TypeOK'
  BY DEF Session!Begin, Session!Issue, Session!Started, DInv, Session!TypeOK, Session!Ops
<1>2. LostIsUndone'
  BY DEF Session!Begin, Session!Issue, DInv, Session!TypeOK, LostIsUndone
<1>3. OutsideIsClean'
  BY DEF Session!Begin, Session!Issue, DInv, OutsideIsClean, BeginExecuted, Session!None
<1>4. InsideIsPending'
  BY DEF Session!Begin, InsideIsPending
<1>5. EndIsFinal'
  BY DEF Session!Begin, Session!Issue, EndIsFinal
<1>6. Session!AllOrNothing'
  BY DEF Session!Begin, Session!Issue, Session!AllOrNothing
<1>7. QED BY <1>1, <1>2, <1>3, <1>4, <1>5, <1>6 DEF DInv

LEMMA CommitKeeps ==
    ASSUME DInv, Session!Commit
    PROVE DInv'
<1>1. Session!TypeOK'
  BY DEF Session!Commit, Session!Issue, Session!Started, DInv, Session!TypeOK, Session!Ops
<1>2. LostIsUndone'
  BY DEF Session!Commit, Session!Issue, DInv, Session!TypeOK, LostIsUndone
<1>3. OutsideIsClean'
  BY DEF Session!Commit, OutsideIsClean
<1>4. InsideIsPending'
  BY StatementsAreWrites DEF Session!Commit, Session!Issue, Session!Started, DInv, Session!TypeOK, InsideIsPending,
     CommitExecuted, Session!None
<1>5. EndIsFinal'
  BY DEF Session!Commit, Session!Issue, EndIsFinal
<1>6. Session!AllOrNothing'
  BY DEF Session!Commit, Session!Issue, Session!AllOrNothing
<1>7. QED BY <1>1, <1>2, <1>3, <1>4, <1>5, <1>6 DEF DInv

LEMMA RollbackKeeps ==
    ASSUME DInv, Session!Rollback
    PROVE DInv'
<1>1. Session!TypeOK'
  <2>1. open' \in [Statements -> Nat]
    BY DEF Session!Rollback, Session!Nothing
  <2>2. up' \in BOOLEAN /\ inServer' \in BOOLEAN
    BY Zenon DEF Session!Rollback, DInv, Session!TypeOK
  <2>3. QED BY <2>1, <2>2 DEF Session!Rollback, DInv, Session!TypeOK
<1>2. LostIsUndone'
  BY DEF Session!Rollback, LostIsUndone
<1>3. OutsideIsClean'
  BY DEF Session!Rollback, OutsideIsClean
<1>4. InsideIsPending'
  BY DEF Session!Rollback, InsideIsPending
<1>5. EndIsFinal'
  BY DEF Session!Rollback, EndIsFinal
<1>6. Session!AllOrNothing'
  BY DEF Session!Rollback, DInv, Session!AllOrNothing, Session!None
<1>7. QED BY <1>1, <1>2, <1>3, <1>4, <1>5, <1>6 DEF DInv

LEMMA ServeKeeps ==
    ASSUME DInv, Session!Serve
    PROVE DInv'
<1>1. Session!TypeOK'
  <2>1. call' \in {Session!None} \cup [op : Session!Ops, phase : {"sent", "executed"}]
    BY DEF Session!Serve, DInv, Session!TypeOK, Session!Ops
  <2>2. open' \in [Statements -> Nat]
    BY DEF Session!Serve, DInv, Session!TypeOK, Session!Nothing
  <2>3. applied' \in [Statements -> Nat]
    BY DEF Session!Serve, DInv, Session!TypeOK
  <2>4. QED BY <2>1, <2>2, <2>3 DEF Session!Serve, DInv, Session!TypeOK
<1>2. LostIsUndone'
  BY DEF Session!Serve, LostIsUndone
<1>3. OutsideIsClean'
  BY StatementsAreWrites DEF Session!Serve, DInv, Session!TypeOK, OutsideIsClean, BeginExecuted
<1>4. InsideIsPending'
  BY StatementsAreWrites DEF Session!Serve, DInv, Session!TypeOK, InsideIsPending, CommitExecuted
<1>5. EndIsFinal'
  BY DEF Session!Serve, DInv, EndIsFinal
<1>6. Session!AllOrNothing'
  BY DEF Session!Serve, DInv, InsideIsPending, EndIsFinal, Session!AllOrNothing
<1>7. QED BY <1>1, <1>2, <1>3, <1>4, <1>5, <1>6 DEF DInv

LEMMA LoseConnectionKeeps ==
    ASSUME DInv, Session!LoseConnection
    PROVE DInv'
<1>1. Session!TypeOK'
  <2>1. open' \in [Statements -> Nat]
    BY DEF Session!LoseConnection, Session!Nothing
  <2>2. up' \in BOOLEAN /\ inServer' \in BOOLEAN
    BY Zenon DEF Session!LoseConnection, DInv, Session!TypeOK
  <2>3. QED BY <2>1, <2>2 DEF Session!LoseConnection, DInv, Session!TypeOK
<1>2. LostIsUndone'
  BY DEF Session!LoseConnection, LostIsUndone
<1>3. OutsideIsClean'
  BY DEF Session!LoseConnection, DInv, OutsideIsClean
<1>4. InsideIsPending'
  BY DEF Session!LoseConnection, DInv, InsideIsPending, CommitExecuted
<1>5. EndIsFinal'
  BY DEF Session!LoseConnection, DInv, EndIsFinal
<1>6. Session!AllOrNothing'
  BY DEF Session!LoseConnection, DInv, Session!AllOrNothing
<1>7. QED BY <1>1, <1>2, <1>3, <1>4, <1>5, <1>6 DEF DInv

LEMMA AnsweredKeeps ==
    ASSUME DInv, Session!Answered
    PROVE DInv'
<1>1. Session!TypeOK'
  BY DEF Session!Answered, DInv, Session!TypeOK, Session!None
<1>2. LostIsUndone'
  BY DEF Session!Answered, DInv, Session!TypeOK, LostIsUndone
<1>3. OutsideIsClean'
  BY DEF Session!Answered, DInv, Session!TypeOK, OutsideIsClean, InsideIsPending, EndIsFinal, BeginExecuted,
     Session!None, Session!Ops
<1>4. InsideIsPending'
  BY DEF Session!Answered, DInv, Session!TypeOK, OutsideIsClean, InsideIsPending, EndIsFinal, CommitExecuted,
     BeginExecuted, Session!None, Session!Ops
<1>5. EndIsFinal'
  BY DEF Session!Answered, DInv, Session!TypeOK, InsideIsPending, OutsideIsClean, EndIsFinal, Session!None
<1>6. Session!AllOrNothing'
  BY DEF Session!Answered, DInv, Session!TypeOK, OutsideIsClean, InsideIsPending, EndIsFinal, Session!AllOrNothing,
     CommitExecuted, Session!None, Session!Ops
<1>7. QED BY <1>1, <1>2, <1>3, <1>4, <1>5, <1>6 DEF DInv

LEMMA RetryKeeps ==
    ASSUME DInv, Session!Retry
    PROVE DInv'
<1>1. Session!TypeOK'
  BY DEF Session!Retry, DInv, Session!TypeOK, Session!Ops
<1>2. LostIsUndone'
  BY DEF Session!Retry, LostIsUndone
<1>3. OutsideIsClean'
  BY DEF Session!Retry, DInv, Session!TypeOK, LostIsUndone, OutsideIsClean, BeginExecuted
<1>4. InsideIsPending'
  BY DEF Session!Retry, Session!Retryable, InsideIsPending
<1>5. EndIsFinal'
  BY DEF Session!Retry, DInv, EndIsFinal
<1>6. Session!AllOrNothing'
  BY DEF Session!Retry, Session!Retryable, DInv, EndIsFinal, Session!AllOrNothing
<1>7. QED BY <1>1, <1>2, <1>3, <1>4, <1>5, <1>6 DEF DInv

LEMMA RaiseKeeps ==
    ASSUME DInv, Session!Raise
    PROVE DInv'
<1>1. Session!TypeOK'
  BY DEF Session!Raise, DInv, Session!TypeOK, Session!None
<1>2. LostIsUndone'
  BY DEF Session!Raise, DInv, LostIsUndone
<1>3. OutsideIsClean'
  BY DEF Session!Raise, OutsideIsClean
<1>4. InsideIsPending'
  BY DEF Session!Raise, InsideIsPending
<1>5. EndIsFinal'
  BY DEF Session!Raise, EndIsFinal
<1>6. Session!AllOrNothing'
  BY DEF Session!Raise, DInv, Session!TypeOK, InsideIsPending, Session!AllOrNothing, CommitExecuted,
     OutsideIsClean, EndIsFinal
<1>7. QED BY <1>1, <1>2, <1>3, <1>4, <1>5, <1>6 DEF DInv

\* Every step keeps the invariant, and so does doing nothing.
LEMMA TransactionStep ==
    ASSUME DInv, [Session!Next]_(Session!vars)
    PROVE DInv'
<1>1. CASE \E s \in Statements : Session!Execute(s)
  BY <1>1, ExecuteKeeps
<1>2. CASE Session!Begin  BY <1>2, BeginKeeps
<1>3. CASE Session!Commit  BY <1>3, CommitKeeps
<1>4. CASE Session!Rollback  BY <1>4, RollbackKeeps
<1>5. CASE Session!Serve  BY <1>5, ServeKeeps
<1>6. CASE Session!LoseConnection  BY <1>6, LoseConnectionKeeps
<1>7. CASE Session!Answered  BY <1>7, AnsweredKeeps
<1>8. CASE Session!Retry  BY <1>8, RetryKeeps
<1>9. CASE Session!Raise  BY <1>9, RaiseKeeps
<1>10. CASE UNCHANGED Session!vars
  BY <1>10 DEF Session!vars, DInv, Session!TypeOK, LostIsUndone, OutsideIsClean, InsideIsPending, EndIsFinal,
     Session!AllOrNothing, CommitExecuted, BeginExecuted
<1>11. QED BY <1>1, <1>2, <1>3, <1>4, <1>5, <1>6, <1>7, <1>8, <1>9, <1>10 DEF Session!Next

LEMMA TransactionStart == ASSUME Session!Init PROVE DInv
<1>1. Session!TypeOK
  <2>1. up \in BOOLEAN /\ inServer \in BOOLEAN  BY Zenon DEF Session!Init
  <2>2. QED BY <2>1 DEF Session!Init, Session!TypeOK, Session!Nothing
<1>2. LostIsUndone /\ OutsideIsClean  BY DEF Session!Init, LostIsUndone, OutsideIsClean, BeginExecuted, Session!None
<1>3. InsideIsPending /\ EndIsFinal /\ Session!AllOrNothing
  BY DEF Session!Init, InsideIsPending, EndIsFinal, Session!AllOrNothing
<1>4. QED BY <1>1, <1>2, <1>3 DEF DInv

\* The Db, the connection and the server keep to their types and to the argument above.
THEOREM TransactionInvariance == Session!Spec => []DInv
<1>1. Session!Init => DInv  BY TransactionStart
<1>2. DInv /\ [Session!Next]_(Session!vars) => DInv'  BY TransactionStep
<1>3. QED BY <1>1, <1>2, PTL DEF Session!Spec

\* transaction(), session.py: the statements of the block take effect together and once or not at
\* all, and the caller is told which (unless COMMIT's answer was lost), whatever connection is
\* lost when and whatever is retried.
THEOREM TransactionsAreWhole == Session!Spec => []Session!AllOrNothing
<1>1. DInv => Session!AllOrNothing  BY DEF DInv
<1>2. QED BY <1>1, TransactionInvariance, PTL

-----------------------------------------------------------------------------
(* A row and its file *)

Reqs == [at : Upload!Steps, todo : Upload!Removals \cup {"none"},
         old : Files \cup {NoFile}, new : Files \cup {NoFile}]

\* The row lock has one holder, and the path it read is the row's.
RowLockExcludes == \A q, r \in Requests : Upload!HasLock(q) /\ Upload!HasLock(r) => q = r
HoldersKnow == \A r \in Requests : Upload!HasLock(r) => req[r].old = attached

\* What a request put and did not commit is in the store and nobody else's.
NewIsOwn ==
    \A r \in Requests : req[r].at = "saved" =>
        /\ req[r].new \in store /\ req[r].new # attached /\ req[r].new # req[r].old
        /\ \A q \in Requests \ {r} : req[r].new \notin {req[q].old, req[q].new}

\* What a hook is to delete is not attached, but for a COMMIT that lost its answer.
HooksSpare == "answer" \notin mishaps => \A r \in Requests : req[r].at = "hooks" => req[r].old # attached

\* A file is attached, put for the row, or to be deleted by a hook.
Owned(f) == f = attached \/ \E r \in Requests : \/ req[r].at = "saved" /\ req[r].new = f
                                                \/ req[r].at = "hooks" /\ req[r].old = f
FilesAreOwned == LocksToRemove /\ mishaps = {} => \A f \in store : Owned(f)

Shelf == exists \in BOOLEAN /\ attached \in Files \cup {NoFile} /\ store \subseteq Files
         /\ mishaps \subseteq {"crash", "answer", "delete"}
ReqShapes ==
    /\ req \in [Requests -> Reqs]
    /\ \A r \in Requests : /\ req[r].new # NoFile <=> req[r].at = "saved"
                           /\ req[r].at = "hooks" => req[r].old # NoFile

UInv == Shelf /\ ReqShapes /\ RowLockExcludes /\ HoldersKnow /\ NewIsOwn /\ HooksSpare /\ Upload!PathsLeadToFiles /\ FilesAreOwned

-----------------------------------------------------------------------------
(* What the requests' variables become *)

OthersStay(r) == req' \in [Requests -> Reqs] /\ \A q \in Requests \ {r} : req'[q] = req[q]

LEMMA EndedRequest ==
    ASSUME req \in [Requests -> Reqs], NEW r \in Requests, Upload!Finish(r)
    PROVE  OthersStay(r) /\ req'[r].at = "idle" /\ req'[r].old = NoFile /\ req'[r].new = NoFile
<1>1. /\ Upload!Idle \in Reqs
      /\ Upload!Idle.at = "idle" /\ Upload!Idle.old = NoFile /\ Upload!Idle.new = NoFile
  BY DEF Upload!Idle, Reqs, Upload!Steps, Upload!Removals
<1>2. QED BY <1>1 DEF Upload!Finish, OthersStay

LEMMA HookedRequest ==
    ASSUME req \in [Requests -> Reqs], NEW r \in Requests, NEW file \in Files \cup {NoFile}, Upload!Hooks(r, file)
    PROVE  /\ OthersStay(r) /\ req'[r].old = file /\ req'[r].new = NoFile
           /\ req'[r].at = IF file = NoFile THEN "idle" ELSE "hooks"
<1>1. CASE file = NoFile
  BY <1>1, EndedRequest DEF Upload!Hooks
<1>2. CASE file # NoFile
  <2> DEFINE new == [Upload!Idle EXCEPT !.at = "hooks", !.old = file]
  <2>1. new.at = "hooks" /\ new.old = file /\ new.new = NoFile
    BY Zenon DEF Upload!Idle
  <2>2. new \in Reqs
    BY Zenon DEF Upload!Idle, Reqs, Upload!Steps, Upload!Removals
  <2>3. req' = [req EXCEPT ![r] = new]
    BY <1>2 DEF Upload!Hooks
  <2> HIDE DEF new
  <2>4. QED BY <1>2, <2>1, <2>2, <2>3 DEF OthersStay
<1>3. QED BY <1>1, <1>2

LEMMA MovedRequest ==
    ASSUME req \in [Requests -> Reqs], NEW r \in Requests, NEW step \in Upload!Steps, req' = [req EXCEPT ![r].at = step]
    PROVE  OthersStay(r) /\ req'[r].at = step /\ req'[r].old = req[r].old /\ req'[r].new = req[r].new
<1> DEFINE new == [req[r] EXCEPT !.at = step]
<1>1. new \in Reqs /\ new.at = step /\ new.old = req[r].old /\ new.new = req[r].new
  BY DEF Reqs
<1>2. req' = [req EXCEPT ![r] = new]
  BY Zenon
<1> HIDE DEF new
<1>3. QED BY <1>1, <1>2 DEF OthersStay

LEMMA LockedRequest ==
    ASSUME req \in [Requests -> Reqs], attached \in Files \cup {NoFile}, NEW r \in Requests,
           req' = [req EXCEPT ![r].at = "locked", ![r].old = attached]
    PROVE  OthersStay(r) /\ req'[r].at = "locked" /\ req'[r].old = attached /\ req'[r].new = req[r].new
<1> DEFINE new == [req[r] EXCEPT !.at = "locked", !.old = attached]
<1>1. DOMAIN req = Requests /\ req[r] \in Reqs
  OBVIOUS
<1>2. DOMAIN req[r] = {"at", "todo", "old", "new"}
  BY <1>1 DEF Reqs
<1>3. req'[r] = new /\ \A q \in Requests \ {r} : req'[q] = req[q]
  BY <1>1, Zenon
<1>4. new.at = "locked" /\ new.old = attached /\ new.new = req[r].new
  BY <1>2, Zenon
<1>5. new \in Reqs
  BY <1>1, Zenon DEF Reqs, Upload!Steps
<1>6. req' = [q \in Requests |-> req'[q]]
  BY <1>1
<1> HIDE DEF new
<1>7. QED BY <1>3, <1>4, <1>5, <1>6 DEF OthersStay

LEMMA ReadRequest ==
    ASSUME req \in [Requests -> Reqs], attached \in Files \cup {NoFile}, NEW r \in Requests, req[r].at \in Upload!Removals,
           req' = [req EXCEPT ![r].at = "read", ![r].todo = req[r].at, ![r].old = attached]
    PROVE  OthersStay(r) /\ req'[r].at = "read" /\ req'[r].old = attached /\ req'[r].new = req[r].new
<1> DEFINE new == [req[r] EXCEPT !.at = "read", !.todo = req[r].at, !.old = attached]
<1>1. DOMAIN req = Requests /\ req[r] \in Reqs
  OBVIOUS
<1>2. DOMAIN req[r] = {"at", "todo", "old", "new"}
  BY <1>1 DEF Reqs
<1>3. req'[r] = new /\ \A q \in Requests \ {r} : req'[q] = req[q]
  BY <1>1, Zenon
<1>4. new.at = "read" /\ new.old = attached /\ new.new = req[r].new
  BY <1>2, Zenon
<1>5. new \in Reqs
  BY <1>1, Zenon DEF Reqs, Upload!Steps
<1>6. req' = [q \in Requests |-> req'[q]]
  BY <1>1
<1> HIDE DEF new
<1>7. QED BY <1>3, <1>4, <1>5, <1>6 DEF OthersStay

LEMMA SavedRequest ==
    ASSUME req \in [Requests -> Reqs], NEW f \in Files, NEW r \in Requests,
           req' = [req EXCEPT ![r].at = "saved", ![r].new = f]
    PROVE  OthersStay(r) /\ req'[r].at = "saved" /\ req'[r].old = req[r].old /\ req'[r].new = f
<1> DEFINE new == [req[r] EXCEPT !.at = "saved", !.new = f]
<1>1. DOMAIN req = Requests /\ req[r] \in Reqs
  OBVIOUS
<1>2. DOMAIN req[r] = {"at", "todo", "old", "new"}
  BY <1>1 DEF Reqs
<1>3. req'[r] = new /\ \A q \in Requests \ {r} : req'[q] = req[q]
  BY <1>1, Zenon
<1>4. new.at = "saved" /\ new.old = req[r].old /\ new.new = f
  BY <1>2, Zenon
<1>5. new \in Reqs
  BY <1>1, Zenon DEF Reqs, Upload!Steps
<1>6. req' = [q \in Requests |-> req'[q]]
  BY <1>1
<1> HIDE DEF new
<1>7. QED BY <1>3, <1>4, <1>5, <1>6 DEF OthersStay

-----------------------------------------------------------------------------
(* Every step keeps the row and its file in order *)

\* A request that lets go of the row without a word, and had put nothing (or a mishap excuses it).
LEMMA LetGo ==
    ASSUME UInv, NEW r \in Requests, Upload!Finish(r), UNCHANGED <<exists, attached, store>>,
           mishaps' \subseteq {"crash", "answer", "delete"}, mishaps \subseteq mishaps',
           mishaps' = {} => req[r].at \notin {"saved", "hooks"}
    PROVE  UInv'
<1>1. req \in [Requests -> Reqs] /\ Shelf
  BY DEF UInv, ReqShapes
<1>2. OthersStay(r) /\ req'[r].at = "idle" /\ req'[r].old = NoFile /\ req'[r].new = NoFile
  BY <1>1, EndedRequest
<1>3. Shelf' /\ ReqShapes'
  BY <1>1, <1>2 DEF UInv, Shelf, ReqShapes, OthersStay
<1>4. RowLockExcludes' /\ HoldersKnow'
  BY <1>2 DEF UInv, RowLockExcludes, HoldersKnow, Upload!HasLock, Upload!At, OthersStay
<1>5. NewIsOwn' /\ HooksSpare'
  BY <1>1, <1>2, NamesAreNames DEF UInv, NewIsOwn, HooksSpare, OthersStay, Shelf
<1>6. Upload!PathsLeadToFiles' /\ FilesAreOwned'
  BY <1>2 DEF UInv, Upload!PathsLeadToFiles, FilesAreOwned, Owned, OthersStay
<1>7. QED BY <1>3, <1>4, <1>5, <1>6 DEF UInv

LEMMA ArriveKeeps ==
    ASSUME UInv, NEW r \in Requests, Upload!Arrive(r)
    PROVE  UInv'
<1>1. req \in [Requests -> Reqs] /\ req[r].at = "idle" /\ UNCHANGED <<exists, attached, store, mishaps>>
  BY DEF UInv, ReqShapes, Upload!Arrive, Upload!At
<1>2. PICK step \in {"attaching", "removing", "deleting"} : req' = [req EXCEPT ![r].at = step]
  BY DEF Upload!Arrive, Upload!Removals
<1>3. OthersStay(r) /\ req'[r].at = step /\ req'[r].old = req[r].old /\ req'[r].new = req[r].new
  BY <1>1, <1>2, MovedRequest DEF Upload!Steps
<1>4. Shelf' /\ ReqShapes'
  BY <1>1, <1>3 DEF UInv, Shelf, ReqShapes, OthersStay
<1>5. RowLockExcludes' /\ HoldersKnow'
  BY <1>1, <1>3 DEF UInv, RowLockExcludes, HoldersKnow, Upload!HasLock, Upload!At, OthersStay
<1>6. NewIsOwn' /\ HooksSpare'
  BY <1>1, <1>3 DEF UInv, NewIsOwn, HooksSpare, OthersStay
<1>7. Upload!PathsLeadToFiles' /\ FilesAreOwned'
  BY <1>1, <1>3 DEF UInv, Upload!PathsLeadToFiles, FilesAreOwned, Owned, OthersStay
<1>8. QED BY <1>4, <1>5, <1>6, <1>7 DEF UInv

\* A request that reads the row's path, as its only holder if it keeps the lock.
LEMMA ReaderKeeps ==
    ASSUME UInv, NEW r \in Requests, UNCHANGED <<exists, attached, store, mishaps>>, OthersStay(r),
           req[r].at \notin {"saved", "hooks"}, req'[r].at \in {"locked", "read"}, req'[r].old = attached,
           req'[r].new = req[r].new, Upload!HasLock(r)' => Upload!RowFree(r)
    PROVE  UInv'
<1>1. Shelf' /\ ReqShapes'
  BY DEF UInv, Shelf, ReqShapes, OthersStay
<1>2. \A q \in Requests \ {r} : Upload!HasLock(q)' <=> Upload!HasLock(q)
  BY DEF Upload!HasLock, Upload!At, OthersStay
<1>3. RowLockExcludes' /\ HoldersKnow'
  BY <1>2 DEF UInv, RowLockExcludes, HoldersKnow, Upload!RowFree, OthersStay
<1>4. NewIsOwn' /\ HooksSpare'
  BY DEF UInv, NewIsOwn, HooksSpare, OthersStay, ReqShapes
<1>5. Upload!PathsLeadToFiles' /\ FilesAreOwned'
  BY DEF UInv, Upload!PathsLeadToFiles, FilesAreOwned, Owned, OthersStay
<1>6. QED BY <1>1, <1>3, <1>4, <1>5 DEF UInv

LEMMA AttachLockKeeps ==
    ASSUME UInv, NEW r \in Requests, Upload!AttachLock(r)
    PROVE  UInv'
<1>1. /\ req \in [Requests -> Reqs] /\ attached \in Files \cup {NoFile} /\ req[r].at = "attaching"
      /\ Upload!RowFree(r) /\ UNCHANGED <<exists, attached, store, mishaps>>
      /\ mishaps \subseteq {"crash", "answer", "delete"}
  BY DEF UInv, ReqShapes, Shelf, Upload!AttachLock, Upload!At
<1>2. CASE req' = [req EXCEPT ![r].at = "locked", ![r].old = attached]
  <2>1. OthersStay(r) /\ req'[r].at = "locked" /\ req'[r].old = attached /\ req'[r].new = req[r].new
    BY <1>1, <1>2, LockedRequest, Zenon
  <2>2. QED BY <1>1, <2>1, ReaderKeeps
<1>3. CASE Upload!Finish(r)
  BY <1>1, <1>3, LetGo
<1>4. QED BY <1>2, <1>3 DEF Upload!AttachLock

LEMMA ReadPathKeeps ==
    ASSUME UInv, NEW r \in Requests, Upload!ReadPath(r)
    PROVE  UInv'
<1>1. /\ req \in [Requests -> Reqs] /\ attached \in Files \cup {NoFile} /\ req[r].at \in {"removing", "deleting"}
      /\ LocksToRemove => Upload!RowFree(r)
      /\ UNCHANGED <<exists, attached, store, mishaps>> /\ mishaps \subseteq {"crash", "answer", "delete"}
  BY DEF UInv, ReqShapes, Shelf, Upload!ReadPath, Upload!Removals
<1>2. CASE req' = [req EXCEPT ![r].at = "read", ![r].todo = req[r].at, ![r].old = attached]
  <2>1. OthersStay(r) /\ req'[r].at = "read" /\ req'[r].old = attached /\ req'[r].new = req[r].new
    BY <1>1, <1>2, ReadRequest, Zenon DEF Upload!Removals
  <2>2. Upload!HasLock(r)' => LocksToRemove
    BY <2>1 DEF Upload!HasLock
  <2>3. QED BY <1>1, <2>1, <2>2, ReaderKeeps
<1>3. CASE Upload!Finish(r)
  BY <1>1, <1>3, LetGo
<1>4. QED BY <1>2, <1>3 DEF Upload!ReadPath

LEMMA SaveUploadKeeps ==
    ASSUME UInv, NEW r \in Requests, Upload!SaveUpload(r)
    PROVE  UInv'
<1>1. req[r].at = "locked" /\ req \in [Requests -> Reqs] /\ UNCHANGED <<exists, attached, mishaps>>
  BY DEF UInv, ReqShapes, Upload!SaveUpload, Upload!At
<1>2. PICK f \in Files :
        /\ Upload!Fresh(f) /\ store' = store \cup {f}
        /\ req' = [req EXCEPT ![r].at = "saved", ![r].new = f]
  BY Zenon DEF Upload!SaveUpload
<1>3. OthersStay(r) /\ req'[r].at = "saved" /\ req'[r].old = req[r].old /\ req'[r].new = f
  BY <1>1, <1>2, SavedRequest, Zenon
<1>4. /\ f # attached /\ f # NoFile /\ store' = store \cup {f}
      /\ \A q \in Requests : f # req[q].old /\ f # req[q].new
  BY <1>2, NamesAreNames DEF Upload!Fresh
<1>5. Shelf' /\ ReqShapes'
  BY <1>1, <1>3, <1>4 DEF UInv, Shelf, ReqShapes, OthersStay
<1>6. RowLockExcludes' /\ HoldersKnow'
  BY <1>1, <1>3 DEF UInv, RowLockExcludes, HoldersKnow, Upload!HasLock, Upload!At, OthersStay
<1>7. NewIsOwn' /\ HooksSpare'
  BY <1>1, <1>3, <1>4 DEF UInv, NewIsOwn, HooksSpare, OthersStay
<1>8. Upload!PathsLeadToFiles' /\ FilesAreOwned'
  BY <1>1, <1>3, <1>4 DEF UInv, Upload!PathsLeadToFiles, FilesAreOwned, Owned, OthersStay
<1>9. QED BY <1>5, <1>6, <1>7, <1>8 DEF UInv

\* Who put a file knows its name.
LEMMA SavedHasNew ==
    ASSUME ReqShapes, NEW r \in Requests, req[r].at = "saved"
    PROVE  req[r].new \in Files /\ req[r].new # NoFile /\ req[r].old \in Files \cup {NoFile}
<1>1. req[r] \in Reqs /\ req[r].new # NoFile
  BY DEF ReqShapes
<1>2. QED BY <1>1 DEF Reqs

LEMMA RollBackAttachKeeps ==
    ASSUME UInv, NEW r \in Requests, Upload!RollBackAttach(r)
    PROVE  UInv'
<1>1. req[r].at = "saved" /\ req \in [Requests -> Reqs] /\ UNCHANGED <<exists, attached, store, mishaps>>
  BY DEF UInv, ReqShapes, Upload!RollBackAttach, Upload!At
<1>2. req[r].new \in Files /\ req[r].new # NoFile
  BY <1>1, SavedHasNew DEF UInv
<1>3. OthersStay(r) /\ req'[r].at = "hooks" /\ req'[r].old = req[r].new /\ req'[r].new = NoFile
  BY <1>1, <1>2, HookedRequest DEF Upload!RollBackAttach
<1>4. Shelf' /\ ReqShapes'
  BY <1>1, <1>2, <1>3 DEF UInv, Shelf, ReqShapes, OthersStay
<1>5. RowLockExcludes' /\ HoldersKnow'
  BY <1>1, <1>3 DEF UInv, RowLockExcludes, HoldersKnow, Upload!HasLock, Upload!At, OthersStay
<1>6. \A q \in Requests : req'[q].at # "saved"
  BY <1>1, <1>3 DEF UInv, RowLockExcludes, Upload!HasLock, OthersStay
<1>7. HooksSpare'
  BY <1>1, <1>3 DEF UInv, NewIsOwn, HooksSpare, OthersStay
<1>8. Upload!PathsLeadToFiles' /\ FilesAreOwned'
  BY <1>1, <1>3 DEF UInv, Upload!PathsLeadToFiles, FilesAreOwned, Owned, OthersStay
<1>9. QED BY <1>4, <1>5, <1>6, <1>7, <1>8 DEF UInv, NewIsOwn

\* COMMIT of the new path by the lock's holder; `file` goes when it is over, and it
\* may only be the new one if the COMMIT lost its answer.
LEMMA AttachedKeeps ==
    ASSUME UInv, NEW r \in Requests, req[r].at = "saved", attached' = req[r].new, NEW file \in Files \cup {NoFile},
           Upload!Hooks(r, file), UNCHANGED <<exists, store>>,
           mishaps' \subseteq {"crash", "answer", "delete"}, mishaps \subseteq mishaps',
           file = req[r].old \/ (file = req[r].new /\ "answer" \in mishaps')
    PROVE  UInv'
<1>1. req \in [Requests -> Reqs] /\ req[r].new \in Files /\ req[r].new # NoFile /\ req[r].new \in store
  BY SavedHasNew DEF UInv, ReqShapes, NewIsOwn
<1>2. /\ OthersStay(r) /\ req'[r].old = file /\ req'[r].new = NoFile
      /\ req'[r].at = IF file = NoFile THEN "idle" ELSE "hooks"
  BY <1>1, HookedRequest
<1>3. Shelf' /\ ReqShapes'
  BY <1>1, <1>2 DEF UInv, Shelf, ReqShapes, OthersStay
<1>4. Upload!HasLock(r) /\ \A q \in Requests \ {r} : ~Upload!HasLock(q)
  BY DEF UInv, RowLockExcludes, Upload!HasLock
<1>5. \A q \in Requests : ~Upload!HasLock(q)'
  BY <1>2, <1>4 DEF Upload!HasLock, Upload!At, OthersStay
<1>6. RowLockExcludes' /\ HoldersKnow'
  BY <1>5 DEF RowLockExcludes, HoldersKnow
<1>7. \A q \in Requests : req'[q].at # "saved"
  BY <1>5 DEF Upload!HasLock
<1>8. HooksSpare'
  BY <1>1, <1>2 DEF UInv, NewIsOwn, HooksSpare, OthersStay
<1>9. Upload!PathsLeadToFiles'
  BY <1>1 DEF Upload!PathsLeadToFiles
<1>10. FilesAreOwned'
  <2>1. SUFFICES ASSUME LocksToRemove, mishaps' = {}, NEW f \in store  PROVE Owned(f)'
    BY DEF FilesAreOwned
  <2>2. Owned(f) /\ file = req[r].old /\ req[r].old = attached
    BY <1>4, <2>1 DEF UInv, FilesAreOwned, HoldersKnow
  <2>3. CASE f = attached
    BY <1>2, <2>1, <2>2, <2>3, NamesAreNames DEF Owned, UInv, Shelf
  <2>4. CASE f # attached
    <3>1. PICK q \in Requests : \/ req[q].at = "saved" /\ req[q].new = f
                                \/ req[q].at = "hooks" /\ req[q].old = f
      BY <2>2, <2>4 DEF Owned
    <3>2. CASE q = r
      BY <3>1, <3>2 DEF Owned
    <3>3. CASE q # r
      BY <1>2, <3>1, <3>3 DEF Owned, OthersStay
    <3>4. QED BY <3>2, <3>3
  <2>5. QED BY <2>3, <2>4
<1>11. QED BY <1>3, <1>6, <1>7, <1>8, <1>9, <1>10 DEF UInv, NewIsOwn

LEMMA CommitAttachKeeps ==
    ASSUME UInv, NEW r \in Requests, Upload!CommitAttach(r) \/ Upload!CommitWithoutAnswer(r)
    PROVE  UInv'
<1>1. req[r] \in Reqs /\ mishaps \subseteq {"crash", "answer", "delete"}
  BY DEF UInv, ReqShapes, Shelf
<1>2. CASE Upload!CommitAttach(r)
  BY <1>1, <1>2, AttachedKeeps DEF Upload!CommitAttach, Upload!At, Reqs
<1>3. CASE Upload!CommitWithoutAnswer(r)
  <2>1. mishaps' = mishaps \cup {"answer"}
    BY <1>3 DEF Upload!CommitWithoutAnswer
  <2>2. QED BY <1>1, <1>3, <2>1, AttachedKeeps DEF Upload!CommitWithoutAnswer, Upload!At, Reqs
<1>4. QED BY <1>2, <1>3

LEMMA CommitRemovalKeeps ==
    ASSUME UInv, NEW r \in Requests, Upload!CommitRemoval(r)
    PROVE  UInv'
<1>1. /\ req[r].at = "read" /\ Upload!RowFree(r) /\ attached' = NoFile /\ UNCHANGED <<store, mishaps>>
      /\ Upload!Hooks(r, req[r].old)
  BY DEF Upload!CommitRemoval, Upload!At
<1>2. req \in [Requests -> Reqs] /\ req[r].old \in Files \cup {NoFile}
  BY DEF UInv, ReqShapes, Reqs
<1>3. /\ OthersStay(r) /\ req'[r].old = req[r].old /\ req'[r].new = NoFile
      /\ req'[r].at = IF req[r].old = NoFile THEN "idle" ELSE "hooks"
  BY <1>1, <1>2, HookedRequest
<1>4. exists' \in BOOLEAN
  BY Zenon DEF Upload!CommitRemoval, UInv, Shelf
<1>5. Shelf' /\ ReqShapes'
  BY <1>1, <1>2, <1>3, <1>4 DEF UInv, Shelf, ReqShapes, OthersStay
<1>6. \A q \in Requests : ~Upload!HasLock(q)'
  BY <1>1, <1>3 DEF Upload!RowFree, Upload!HasLock, Upload!At, OthersStay
<1>7. RowLockExcludes' /\ HoldersKnow'
  BY <1>6 DEF RowLockExcludes, HoldersKnow
<1>8. \A q \in Requests : req'[q].at # "saved"
  BY <1>6 DEF Upload!HasLock
<1>9. HooksSpare'
  <2>1. \A q \in Requests : req'[q].at = "hooks" => req'[q].old # NoFile
    BY <1>5 DEF ReqShapes
  <2>2. QED BY <1>1, <2>1 DEF HooksSpare
<1>10. Upload!PathsLeadToFiles'
  BY <1>1 DEF Upload!PathsLeadToFiles
<1>11. FilesAreOwned'
  <2>1. SUFFICES ASSUME LocksToRemove, mishaps = {}, NEW f \in store  PROVE Owned(f)'
    BY <1>1 DEF FilesAreOwned
  <2>2. Owned(f) /\ req[r].old = attached /\ f # NoFile
    BY <1>1, <2>1, NamesAreNames DEF UInv, FilesAreOwned, HoldersKnow, Upload!HasLock, Upload!At, Shelf
  <2>3. CASE f = attached
    BY <1>3, <2>2, <2>3 DEF Owned
  <2>4. CASE f # attached
    <3>1. PICK q \in Requests : \/ req[q].at = "saved" /\ req[q].new = f
                                \/ req[q].at = "hooks" /\ req[q].old = f
      BY <2>2, <2>4 DEF Owned
    <3>2. q # r
      BY <1>1, <3>1
    <3>3. QED BY <1>3, <3>1, <3>2 DEF Owned, OthersStay
  <2>5. QED BY <2>3, <2>4
<1>12. QED BY <1>5, <1>7, <1>8, <1>9, <1>10, <1>11 DEF UInv, NewIsOwn

LEMMA DeleteFileKeeps ==
    ASSUME UInv, NEW r \in Requests, Upload!DeleteFile(r)
    PROVE  UInv'
<1>1. /\ req[r].at = "hooks" /\ store' = store \ {req[r].old} /\ UNCHANGED <<exists, attached, mishaps>>
      /\ req \in [Requests -> Reqs]
  BY DEF UInv, ReqShapes, Upload!DeleteFile, Upload!At
<1>2. OthersStay(r) /\ req'[r].at = "idle" /\ req'[r].old = NoFile /\ req'[r].new = NoFile
  BY <1>1, EndedRequest DEF Upload!DeleteFile
<1>3. Shelf' /\ ReqShapes'
  BY <1>1, <1>2 DEF UInv, Shelf, ReqShapes, OthersStay
<1>4. RowLockExcludes' /\ HoldersKnow'
  BY <1>1, <1>2 DEF UInv, RowLockExcludes, HoldersKnow, Upload!HasLock, Upload!At, OthersStay
<1>5. NewIsOwn' /\ HooksSpare'
  BY <1>1, <1>2, NamesAreNames DEF UInv, NewIsOwn, HooksSpare, OthersStay, Shelf
<1>6. Upload!PathsLeadToFiles'
  BY <1>1 DEF UInv, HooksSpare, Upload!PathsLeadToFiles
<1>7. FilesAreOwned'
  BY <1>1, <1>2 DEF UInv, FilesAreOwned, Owned, OthersStay
<1>8. QED BY <1>3, <1>4, <1>5, <1>6, <1>7 DEF UInv

LEMMA UploadStep ==
    ASSUME UInv, [Upload!Next]_(Upload!vars)
    PROVE  UInv'
<1>1. ASSUME NEW r \in Requests, Upload!RefuseUpload(r) \/ Upload!RollBackRemoval(r) \/ Upload!DeleteFileFails(r) \/ Upload!Crash(r)
      PROVE  UInv'
  <2>1. mishaps \subseteq {"crash", "answer", "delete"}
    BY DEF UInv, Shelf
  <2>2. CASE Upload!RefuseUpload(r) \/ Upload!RollBackRemoval(r)
    BY <2>1, <2>2, LetGo DEF Upload!RefuseUpload, Upload!RollBackRemoval, Upload!At
  <2>3. CASE Upload!DeleteFileFails(r)
    <3>1. mishaps' = mishaps \cup {"delete"}
      BY <2>3 DEF Upload!DeleteFileFails
    <3>2. QED BY <2>1, <2>3, <3>1, LetGo DEF Upload!DeleteFileFails
  <2>4. CASE Upload!Crash(r)
    <3>1. mishaps' = mishaps \cup {"crash"}
      BY <2>4 DEF Upload!Crash
    <3>2. QED BY <2>1, <2>4, <3>1, LetGo DEF Upload!Crash
  <2>5. QED BY <1>1, <2>2, <2>3, <2>4
<1>2. CASE Upload!Next
  BY <1>1, <1>2, ArriveKeeps, AttachLockKeeps, SaveUploadKeeps, CommitAttachKeeps, RollBackAttachKeeps, ReadPathKeeps,
     CommitRemovalKeeps, DeleteFileKeeps DEF Upload!Next, Upload!Attach, Upload!Remove
<1>3. CASE UNCHANGED Upload!vars
  BY <1>3 DEF Upload!vars, UInv, Shelf, ReqShapes, RowLockExcludes, HoldersKnow, Upload!HasLock, Upload!At, NewIsOwn, HooksSpare,
     Upload!PathsLeadToFiles, FilesAreOwned, Owned
<1>4. QED BY <1>2, <1>3

LEMMA UploadStart ==
    ASSUME Upload!Init
    PROVE  UInv
<1>1. /\ Upload!Idle \in Reqs
      /\ Upload!Idle.at = "idle" /\ Upload!Idle.old = NoFile /\ Upload!Idle.new = NoFile
  BY DEF Upload!Idle, Reqs, Upload!Steps, Upload!Removals
<1>2. req = [r \in Requests |-> Upload!Idle] /\ attached = NoFile /\ store = {} /\ mishaps = {} /\ exists = TRUE
  BY DEF Upload!Init
<1>3. exists \in BOOLEAN
  BY <1>2, Zenon
<1>4. QED BY <1>1, <1>2, <1>3 DEF UInv, Shelf, ReqShapes, RowLockExcludes, HoldersKnow, Upload!HasLock, Upload!At, NewIsOwn,
     HooksSpare, Upload!PathsLeadToFiles, FilesAreOwned

-----------------------------------------------------------------------------
(* The theorems of the run *)

\* Put side by side, the pool, the Db and the uploads still move only as they do alone.
THEOREM DatabasePartsMoveAlone == DatabaseSpec => Spec /\ Session!Spec /\ Upload!Spec
<1>1. DatabaseInit => Init /\ Session!Init /\ Upload!Init
  BY DEF DatabaseInit
<1>2. [DatabaseNext]_<<vars, session, upload>> =>
          [Next]_vars /\ [Session!Next]_(Session!vars) /\ [Upload!Next]_(Upload!vars)
  BY DEF DatabaseNext, session, upload, Session!vars, Upload!vars
<1>3. QED BY <1>1, <1>2, PTL DEF DatabaseSpec, Spec, Session!Spec, Upload!Spec

LEMMA UploadInvariance == Upload!Spec => []UInv
<1>1. Upload!Init => UInv  BY UploadStart
<1>2. UInv /\ [Upload!Next]_(Upload!vars) => UInv'  BY UploadStep
<1>3. QED BY <1>1, <1>2, PTL DEF Upload!Spec

\* session.py, transaction(): a block takes effect whole and once or not at all, and its caller is
\* told which, for any statements and however many connections are lost.
THEOREM AllOrNothingAlways == DatabaseSpec => []AllOrNothing
<1>1. Session!AllOrNothing => AllOrNothing
  BY DEF AllOrNothing
<1>2. QED BY <1>1, TransactionsAreWhole, DatabasePartsMoveAlone, PTL

\* save_upload before the commit and delete_after_commit after it: a path that readers see leads to
\* a file through every rollback, crash, failed delete and race, whether or not a removal locks the
\* row, unless a COMMIT lost its answer.
THEOREM PathsAlwaysLeadToFiles == DatabaseSpec => []Upload!PathsLeadToFiles
<1>1. UInv => Upload!PathsLeadToFiles
  BY DEF UInv
<1>2. QED BY <1>1, UploadInvariance, DatabasePartsMoveAlone, PTL

\* notices.py, where a removal locks the row: without a mishap, moreover, no file is left behind
\* that neither the row nor a request points to.
THEOREM FilesAlwaysAgree ==
    ASSUME LocksToRemove
    PROVE  DatabaseSpec => []FilesAgree
<1>1. UInv => Upload!NoOrphans
  BY DEF UInv, FilesAreOwned, Owned, Upload!NoOrphans
<1>2. UInv => FilesAgree
  BY <1>1 DEF UInv, FilesAgree
<1>3. QED BY <1>2, UploadInvariance, DatabasePartsMoveAlone, PTL

\* The variables of transactions and uploads keep their types: a lease is fresh or used, depth is
\* never below zero, and a request has a new file exactly while its transaction is open.
THEOREM TypesAlwaysOK == DatabaseSpec => []TypesOK
<1>1. DInv => Session!TypeOK
  BY DEF DInv
<1>2. UInv => Upload!TypeOK
  <2>1. UInv => \A r \in Requests : (req[r].new # NoFile) = (req[r].at = "saved")
    BY Zenon DEF UInv, ReqShapes
  <2>2. UInv => /\ exists \in BOOLEAN /\ attached \in Files \cup {NoFile} /\ store \subseteq Files
                /\ mishaps \subseteq {"crash", "answer", "delete"}
    BY Zenon DEF UInv, Shelf
  <2>3. UInv => /\ req \in [Requests -> [at : Upload!Steps, todo : Upload!Removals \cup {"none"},
                                         old : Files \cup {NoFile}, new : Files \cup {NoFile}]]
                /\ \A r \in Requests : req[r].at = "hooks" => req[r].old # NoFile
    BY Zenon DEF UInv, ReqShapes, Reqs
  <2>4. QED BY <2>1, <2>2, <2>3, Zenon DEF Upload!TypeOK
<1>3. DInv /\ UInv => TypesOK
  BY <1>1, <1>2, Zenon DEF TypesOK
<1>4. QED BY <1>3, TransactionInvariance, UploadInvariance, DatabasePartsMoveAlone, PTL
=============================================================================
