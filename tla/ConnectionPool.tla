--------------------------- MODULE ConnectionPool ---------------------------
(***************************************************************************)
(* app/db/pool.py under the threads that share it.  A request's thread     *)
(* borrows one connection for its Db; while it holds it, background.submit *)
(* may borrow a second one for a Db of its own.  A slot of the semaphore   *)
(* is taken before the idle connections are looked at and given back after *)
(* the connection was put away, and other threads run in between.          *)
(***************************************************************************)
EXTENDS Integers, FiniteSets

CONSTANTS Threads,   \* request threads
          PoolSize,  \* pool_size: how many idle connections are kept
          Overflow   \* pool_max_overflow

ASSUME PoolSizes == PoolSize \in Nat /\ Overflow \in Nat
ASSUME FiniteThreads == IsFiniteSet(Threads)

VARIABLES slots,  \* the semaphore's value
          idle,   \* how many connections wait in _idle
          at      \* where each Db is with its connection

vars == <<slots, idle, at>>

Own(t) == <<t, "own">>        \* the request's Db
Submit(t) == <<t, "submit">>  \* the Db of background.submit
Dbs == Threads \X {"own", "submit"}

Limit == PoolSize + Overflow

Steps == {"none", "waiting", "admitted", "checking", "connecting", "leased", "submitting", "closing", "stored"}
HasConnection == {"checking", "connecting", "leased", "submitting", "closing"}
HasSlot == HasConnection \cup {"admitted", "stored"}

Connected == {d \in Dbs : at[d] \in HasConnection}
Holders == {d \in Dbs : at[d] \in HasSlot}

TypeOK ==
    /\ slots \in 0..Limit
    /\ idle \in 0..PoolSize
    /\ at \in [Dbs -> Steps]

Init ==
    /\ slots = Limit
    /\ idle = 0
    /\ at = [d \in Dbs |-> "none"]

Goto(d, step) == at' = [at EXCEPT ![d] = step]

-----------------------------------------------------------------------------
(* acquire *)

Ask(t) ==
    /\ at[Own(t)] = "none"
    /\ Goto(Own(t), "waiting")
    /\ UNCHANGED <<slots, idle>>

\* submit, once in a request that keeps its own connection meanwhile.
AskForSubmit(t) ==
    /\ at[Own(t)] = "leased"
    /\ at' = [at EXCEPT ![Own(t)] = "submitting", ![Submit(t)] = "waiting"]
    /\ UNCHANGED <<slots, idle>>

TakeSlot(d) ==
    /\ at[d] = "waiting" /\ slots > 0
    /\ slots' = slots - 1
    /\ Goto(d, "admitted")
    /\ UNCHANGED idle

\* Mutant: the semaphore is waited for without a timeout.
NeverTimeOut(d) == FALSE

\* pool_timeout_seconds are over: ServiceUnavailable.
TimeOut(d) ==
    /\ at[d] = "waiting"
    /\ Goto(d, "none")
    /\ UNCHANGED <<slots, idle>>

\* _checkout: the idle connection used last, else a new one.
Checkout(d) ==
    /\ at[d] = "admitted"
    /\ IF idle > 0
       THEN idle' = idle - 1 /\ Goto(d, "checking")
       ELSE Goto(d, "connecting") /\ UNCHANGED idle
    /\ UNCHANGED slots

Usable(d) ==
    /\ at[d] = "checking"
    /\ Goto(d, "leased")
    /\ UNCHANGED <<slots, idle>>

\* Too old, or the ping fails: closed, and the next one is tried.
Unusable(d) ==
    /\ at[d] = "checking"
    /\ Goto(d, "admitted")
    /\ UNCHANGED <<slots, idle>>

Connect(d) ==
    /\ at[d] = "connecting"
    /\ Goto(d, "leased")
    /\ UNCHANGED <<slots, idle>>

\* The database refuses: the slot goes back.
ConnectFails(d) ==
    /\ at[d] = "connecting"
    /\ Goto(d, "stored")
    /\ UNCHANGED <<slots, idle>>

-----------------------------------------------------------------------------
(* release *)

MayRelease(d) ==
    /\ at[d] \in {"leased", "submitting"}
    /\ \A t \in Threads : d = Own(t) => at[Submit(t)] = "none"

\* Mutant: idle connections are kept without a limit.
KeepAlways(d) ==
    /\ MayRelease(d)
    /\ idle' = idle + 1
    /\ Goto(d, "stored")
    /\ UNCHANGED slots

\* With room among the idle connections it is kept.
Keep(d) ==
    /\ MayRelease(d)
    /\ idle < PoolSize
    /\ idle' = idle + 1
    /\ Goto(d, "stored")
    /\ UNCHANGED slots

\* Mutant: the slot is given back before the connection is closed.
DropAfterSlot(d) ==
    /\ MayRelease(d)
    /\ slots' = slots + 1
    /\ Goto(d, "closing")
    /\ UNCHANGED idle

\* Discarded (broken, dead when first used), or too many are idle.
Drop(d) ==
    /\ MayRelease(d)
    /\ Goto(d, "closing")
    /\ UNCHANGED <<slots, idle>>

Close(d) ==
    /\ at[d] = "closing"
    /\ Goto(d, "stored")
    /\ UNCHANGED <<slots, idle>>

GiveSlotBack(d) ==
    /\ at[d] = "stored"
    /\ slots' = slots + 1
    /\ Goto(d, "none")
    /\ UNCHANGED idle

\* close_all, at shutdown.
CloseAll ==
    /\ idle > 0
    /\ idle' = 0
    /\ UNCHANGED <<slots, at>>

-----------------------------------------------------------------------------
Proceed(d) ==
    \/ TakeSlot(d) \/ TimeOut(d) \/ Checkout(d) \/ Usable(d) \/ Unusable(d)
    \/ Connect(d) \/ ConnectFails(d) \/ Keep(d) \/ Drop(d) \/ Close(d) \/ GiveSlotBack(d)

Next ==
    \/ \E t \in Threads : Ask(t) \/ AskForSubmit(t)
    \/ \E d \in Dbs : Proceed(d)
    \/ CloseAll

Spec == Init /\ [][Next]_vars

\* Every thread runs on (waiting for a slot ends by its timeout), and not every
\* idle connection it ever looks at is dead.
Fairness == \A d \in Dbs : WF_vars(Proceed(d)) /\ SF_vars(Usable(d))

FairSpec == Spec /\ Fairness

-----------------------------------------------------------------------------
(* Properties *)

\* OPERATIONS.md counts on pool size + overflow connections per process.  Idle
\* connections hold no slot, yet with those in use, being opened, checked or
\* closed they never exceed it, whatever the threads' order.
ConnectionLimit == idle + Cardinality(Connected) <= Limit

\* No path through acquire and release loses a slot or gives one back twice.
SlotsAreAccountedFor == slots + Cardinality(Holders) = Limit

\* The limit the database was sized for holds, and all of it stays usable.
LimitIsKept == ConnectionLimit /\ SlotsAreAccountedFor

\* Requests that hold a connection and wait for a second one (submit) can use up
\* the pool together; pool_timeout_seconds ends that, so every request ends.
EveryRequestEnds == \A t \in Threads : at[Own(t)] = "waiting" ~> at[Own(t)] = "none"

\* The Db of submit lives within a request's use of its own.
SubmitIsNested == \A t \in Threads : at[Submit(t)] # "none" => at[Own(t)] = "submitting"

\* The inductive invariant.  ConnectionLimit does not hold by itself: a thread
\* opens a connection after it saw none idle, and then the slots bound them all.
IInv ==
    /\ TypeOK
    /\ SubmitIsNested
    /\ SlotsAreAccountedFor
    /\ ConnectionLimit
=============================================================================
