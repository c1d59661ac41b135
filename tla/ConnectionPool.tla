--------------------------- MODULE ConnectionPool ---------------------------
(***************************************************************************)
(* src/src/ConnectionPool.cpp: database connections lent to callers.  The  *)
(* callers' acquire() tasks run in a thread pool of two workers; a worker  *)
(* opens more connections if none is idle, and waits up to 5 s for one; a  *)
(* scanner closes connections that have been idle for more than 30 s.      *)
(* What runs under mutex_ is one step; notify_one and notify_all come      *)
(* after the unlock.  All wait on the one condition variable cv_: a thread *)
(* whose place is "asleep" is in it, and one at "lock" is about to take    *)
(* the mutex and test what it waits for.                                   *)
(***************************************************************************)
EXTENDS Naturals, FiniteSets, Sequences

CONSTANTS Callers,   \* threads that borrow connections
          Workers,   \* threads of internal_pool_
          NoCaller,  \* a worker that serves nobody
          Conns,     \* addresses of Connection objects
          MinConn, MaxConn,
          Faults     \* "open": sqlite3_open may fail; "ping": ping may

ASSUME LimitsAssumption ==
    /\ MinConn \in Nat /\ MaxConn \in Nat /\ MinConn <= MaxConn
    /\ IsFiniteSet(Conns) /\ IsFiniteSet(Workers)
    /\ Cardinality(Conns) >= MaxConn + Cardinality(Workers)
    /\ NoCaller \notin Callers

ASSUME ThreadsAssumption ==
    /\ Callers \cap Workers = {}
    /\ {"scanner", "dtor"} \cap (Callers \cup Workers) = {}

VARIABLES idle,      \* idle_
          inUse,     \* in_use_, and the keys of borrow_time_
          returned,  \* the keys of return_time_
          total,     \* total_conn_
          stopping,  \* stopping_
          open,      \* the Connection objects there are
          queue, serving, closed,  \* internal_pool_
          at,        \* where each thread is
          has,       \* the connections each thread has in its hands
          need       \* expand's need, of each worker

vars == <<idle, inUse, returned, total, stopping, open, queue, serving, closed,
          at, has, need>>
pool == <<queue, serving, closed>>
lists == <<idle, inUse, returned, total>>

Pool == INSTANCE TaskPool WITH Tasks <- Callers, Idle <- NoCaller,
            tasks <- queue, running <- serving

Threads == Callers \cup Workers \cup {"scanner", "dtor"}

Places == [callers |-> {"none", "waiting", "holding", "ringing"},
           workers |-> {"idle", "begin", "look", "expand", "opening", "commit",
                        "bell", "lock", "asleep", "ping", "delete"},
           scanner |-> {"lock", "asleep", "exited"},
           dtor    |-> {"none", "flagged", "told", "joined", "closing", "lock",
                        "asleep", "gone"}]

TypeOK == /\ idle \subseteq Conns /\ inUse \subseteq Conns /\ returned \subseteq Conns
          /\ open \subseteq Conns
          /\ total \in 0..MaxConn
          /\ stopping \in BOOLEAN /\ closed \in BOOLEAN
          /\ queue \in Seq(Callers)
          /\ serving \in [Workers -> Callers \cup {NoCaller}]
          /\ has \in [Threads -> SUBSET Conns]
          /\ need \in [Workers -> 0..2]
          /\ DOMAIN at = Threads
          /\ \A c \in Callers : at[c] \in Places.callers
          /\ \A w \in Workers : at[w] \in Places.workers
          /\ at["scanner"] \in Places.scanner
          /\ at["dtor"] \in Places.dtor

\* The addresses that n new objects may get: any that are free, those of
\* objects that have been deleted too.
Allocations(n, free) == {new \in SUBSET free : Cardinality(new) = n}

\* The constructor: min_conn_ connections, valid or not, and the scanner.
Init == /\ idle \in Allocations(MinConn, Conns)
        /\ inUse = {}
        /\ returned = {}
        /\ total = MinConn
        /\ stopping = FALSE
        /\ open = idle
        /\ Pool!Init
        /\ at = [t \in Threads |-> IF t \in Callers THEN "none"
                                   ELSE IF t \in Workers THEN "idle"
                                   ELSE IF t = "scanner" THEN "lock" ELSE "none"]
        /\ has = [t \in Threads |-> {}]
        /\ need = [w \in Workers |-> 0]

-----------------------------------------------------------------------------

Asleep == {t \in Threads : at[t] = "asleep"}

Goes(t, place) == at' = [at EXCEPT ![t] = place]

\* Thread t notifies one of the waiters, whichever it is, and goes on.
NotifyOne(after) ==
    at' \in IF Asleep = {} THEN {after}
            ELSE {[after EXCEPT ![x] = "lock"] : x \in Asleep}

NotifyAll(after) ==
    at' = [t \in Threads |-> IF t \in Asleep THEN "lock" ELSE after[t]]

\* A condition variable may wake a thread for nothing.
WakesForNothing == /\ \E t \in Asleep : Goes(t, "lock")
                   /\ UNCHANGED <<lists, pool, stopping, open, has, need>>

-----------------------------------------------------------------------------
(* acquire() and the guard it promises.                                    *)

\* acquire: the task is submitted, and the caller waits for its future.
Acquire(c) == /\ at[c] = "none"
              /\ at["dtor"] = "none"
              /\ Pool!Submit(c)
              /\ Goes(c, "waiting")
              /\ UNCHANGED <<lists, stopping, open, has, need>>

Take(w) == /\ at[w] = "idle"
           /\ Pool!Start(w)
           /\ Goes(w, "begin")
           /\ UNCHANGED <<lists, stopping, open, has, need>>

\* The places after worker w has answered its caller with an empty guard.
Refused(w) == [at EXCEPT ![w] = "idle", ![serving[w]] = "none"]

ReturnsEmpty(w) == /\ at' = Refused(w)
                   /\ Pool!Finish(w)
                   /\ UNCHANGED <<lists, stopping, open, has, need>>

Begin(w) ==
    /\ at[w] = "begin"
    /\ \/ stopping /\ ReturnsEmpty(w)
       \/ /\ ~stopping
          /\ Goes(w, "look")
          /\ UNCHANGED <<lists, pool, stopping, open, has, need>>

\* The lock is given up between this look and expand.
Look(w) ==
    /\ at[w] = "look"
    /\ Goes(w, IF idle = {} /\ total < MaxConn THEN "expand" ELSE "lock")
    /\ UNCHANGED <<lists, pool, stopping, open, has, need>>

\* expand, first half: room for at most two is reserved.
Expand(w) ==
    LET room == IF MaxConn - total < 2 THEN MaxConn - total ELSE 2
    IN  /\ at[w] = "expand"
        /\ total' = total + room
        /\ need' = [need EXCEPT ![w] = room]
        /\ Goes(w, IF room = 0 THEN "lock" ELSE "opening")
        /\ UNCHANGED <<idle, inUse, returned, pool, stopping, open, has>>

\* The connections are opened without the lock.  A failure is retried, up to
\* five attempts in all; so any number of them may be had in the end.
Opening(w) ==
    /\ at[w] = "opening"
    /\ \E n \in IF "open" \in Faults THEN 0..need[w] ELSE {need[w]} :
          \E new \in Allocations(n, Conns \ open) :
             /\ open' = open \cup new
             /\ has' = [has EXCEPT ![w] = new]
    /\ Goes(w, "commit")
    /\ UNCHANGED <<lists, pool, stopping, need>>

\* An expand that does not give back what it could not open.
CommitAsReserved(w) ==
    /\ at[w] = "commit"
    /\ idle' = idle \cup has[w]
    /\ has' = [has EXCEPT ![w] = {}]
    /\ need' = [need EXCEPT ![w] = 0]
    /\ Goes(w, "bell")
    /\ UNCHANGED <<total, inUse, returned, pool, stopping, open>>

\* expand, second half: the reservation is settled.
Commit(w) ==
    /\ at[w] = "commit"
    /\ total' = total - need[w] + Cardinality(has[w])
    /\ idle' = idle \cup has[w]
    /\ has' = [has EXCEPT ![w] = {}]
    /\ need' = [need EXCEPT ![w] = 0]
    /\ Goes(w, "bell")
    /\ UNCHANGED <<inUse, returned, pool, stopping, open>>

\* One notification, however many connections have come.
Bell(w) == /\ at[w] = "bell"
           /\ NotifyOne([at EXCEPT ![w] = "lock"])
           /\ UNCHANGED <<lists, pool, stopping, open, has, need>>

\* Borrowing without forgetting when the connection was returned.
BorrowKeepingReturnTime(w) ==
    \E conn \in idle :
        /\ idle' = idle \ {conn}
        /\ inUse' = inUse \cup {conn}
        /\ has' = [has EXCEPT ![w] = {conn}]
        /\ Goes(w, "ping")
        /\ UNCHANGED <<total, returned, pool, stopping, open, need>>

\* One of the idle connections is borrowed.
Borrow(w) ==
    \E conn \in idle :
        /\ idle' = idle \ {conn}
        /\ returned' = returned \ {conn}
        /\ inUse' = inUse \cup {conn}
        /\ has' = [has EXCEPT ![w] = {conn}]
        /\ Goes(w, "ping")
        /\ UNCHANGED <<total, pool, stopping, open, need>>

\* The test of the wait: stop, borrow, or sleep.
Lock(w) ==
    /\ at[w] = "lock"
    /\ \/ stopping /\ ReturnsEmpty(w)
       \/ ~stopping /\ Borrow(w)
       \/ /\ ~stopping /\ idle = {}
          /\ Goes(w, "asleep")
          /\ UNCHANGED <<lists, pool, stopping, open, has, need>>

\* A wait that is not limited.
NeverTimesOut(w) == at[w] = "asleep" /\ stopping /\ ReturnsEmpty(w)

\* The 5 s are over: wait_for tests its predicate once more.
TimesOut(w) ==
    /\ at[w] = "asleep"
    /\ \/ (stopping \/ idle = {}) /\ ReturnsEmpty(w)
       \/ ~stopping /\ Borrow(w)

\* ping succeeds: the guard with the connection goes to the caller.
Hand(w) ==
    /\ at[w] = "ping"
    /\ at' = [at EXCEPT ![w] = "idle", ![serving[w]] = "holding"]
    /\ has' = [has EXCEPT ![w] = {}, ![serving[w]] = has[w]]
    /\ Pool!Finish(w)
    /\ UNCHANGED <<lists, stopping, open, need>>

\* ping fails: the connection is struck off the books, under the lock ...
PingFails(w) ==
    /\ at[w] = "ping"
    /\ "ping" \in Faults
    /\ total' = total - 1
    /\ inUse' = inUse \ has[w]
    /\ Goes(w, "delete")
    /\ UNCHANGED <<idle, returned, pool, stopping, open, has, need>>

\* ... then deleted, one waiter is notified, and the guard is empty.
Delete(w) ==
    /\ at[w] = "delete"
    /\ open' = open \ has[w]
    /\ has' = [has EXCEPT ![w] = {}]
    /\ NotifyOne(Refused(w))
    /\ Pool!Finish(w)
    /\ UNCHANGED <<lists, stopping, need>>

-----------------------------------------------------------------------------

\* The guard is destroyed: release.  A pool that is stopping deletes the
\* connection, and tells nobody.
Release(c) ==
    /\ at[c] = "holding"
    /\ at["dtor"] # "gone"
    /\ has' = [has EXCEPT ![c] = {}]
    /\ \/ /\ ~(has[c] \subseteq inUse)
          /\ Goes(c, "none")
          /\ UNCHANGED <<idle, inUse, returned, open>>
       \/ /\ has[c] \subseteq inUse /\ stopping
          /\ inUse' = inUse \ has[c]
          /\ open' = open \ has[c]
          /\ Goes(c, "none")
          /\ UNCHANGED <<idle, returned>>
       \/ /\ has[c] \subseteq inUse /\ ~stopping
          /\ inUse' = inUse \ has[c]
          /\ idle' = idle \cup has[c]
          /\ returned' = returned \cup has[c]
          /\ Goes(c, "ringing")
          /\ UNCHANGED open
    /\ UNCHANGED <<total, pool, stopping, need>>

Ring(c) == /\ at[c] = "ringing"
           /\ NotifyOne([at EXCEPT ![c] = "none"])
           /\ UNCHANGED <<lists, pool, stopping, open, has, need>>

-----------------------------------------------------------------------------
(* scanLoop.                                                               *)

ScannerLocks ==
    /\ at["scanner"] = "lock"
    /\ Goes("scanner", IF stopping THEN "exited" ELSE "asleep")
    /\ UNCHANGED <<lists, pool, stopping, open, has, need>>

\* The connections the scan may close: of those idle for more than 30 s, in
\* some order, until min_conn_ are left.
Stale == {gone \in SUBSET returned : total >= MinConn + Cardinality(gone)}

Scan == /\ at["scanner"] = "asleep"
        /\ \/ /\ stopping
              /\ Goes("scanner", "exited")
              /\ UNCHANGED <<lists, open>>
           \/ /\ ~stopping
              /\ \E gone \in Stale : /\ idle' = idle \ gone
                                     /\ returned' = returned \ gone
                                     /\ open' = open \ gone
                                     /\ total' = total - Cardinality(gone)
              /\ Goes("scanner", "lock")
              /\ UNCHANGED inUse
        /\ UNCHANGED <<pool, stopping, has, need>>

-----------------------------------------------------------------------------
(* The destructor.                                                         *)

DtorStop == /\ at["dtor"] = "none"
            /\ stopping' = TRUE
            /\ Goes("dtor", "flagged")
            /\ UNCHANGED <<lists, pool, open, has, need>>

DtorNotifyAll == /\ at["dtor"] = "flagged"
                 /\ NotifyAll([at EXCEPT !["dtor"] = "told"])
                 /\ UNCHANGED <<lists, pool, stopping, open, has, need>>

DtorJoinScanner == /\ at["dtor"] = "told"
                   /\ at["scanner"] = "exited"
                   /\ Goes("dtor", "joined")
                   /\ UNCHANGED <<lists, pool, stopping, open, has, need>>

\* internal_pool_.reset(): the thread pool closes ...
DtorClosePool == /\ at["dtor"] = "joined"
                 /\ Pool!Close
                 /\ Goes("dtor", "closing")
                 /\ UNCHANGED <<lists, stopping, open, has, need>>

\* A thread pool destroyed without waiting for its workers.
DtorDetachWorkers ==
    /\ at["dtor"] = "closing"
    /\ at' = [t \in Threads |->
                 IF t = "dtor" THEN "lock"
                 ELSE IF t \in Callers /\ \E i \in 1..Len(queue) : queue[i] = t THEN "none"
                 ELSE at[t]]
    /\ queue' = <<>>
    /\ UNCHANGED <<lists, serving, closed, stopping, open, has, need>>

\* ... joins its workers and discards the tasks nobody has started, whose
\* callers find a broken promise in their futures.
DtorJoinWorkers ==
    /\ at["dtor"] = "closing"
    /\ \A w \in Workers : serving[w] = NoCaller
    /\ at' = [t \in Threads |->
                 IF t = "dtor" THEN "lock"
                 ELSE IF t \in Callers /\ \E i \in 1..Len(queue) : queue[i] = t THEN "none"
                 ELSE at[t]]
    /\ queue' = <<>>
    /\ UNCHANGED <<lists, serving, closed, stopping, open, has, need>>

\* The idle connections are deleted, those still lent are warned of.
Drain == /\ open' = open \ idle
         /\ idle' = {}
         /\ Goes("dtor", "gone")
         /\ UNCHANGED <<inUse, returned, total, pool, stopping, has, need>>

DtorLocks ==
    /\ at["dtor"] = "lock"
    /\ \/ inUse = {} /\ Drain
       \/ /\ inUse # {}
          /\ Goes("dtor", "asleep")
          /\ UNCHANGED <<lists, pool, stopping, open, has, need>>

\* A destructor that waits until every connection is back.
DtorNeverTimesOut == at["dtor"] = "asleep" /\ inUse = {} /\ Drain

\* The 30 s are over.
DtorTimesOut == at["dtor"] = "asleep" /\ Drain

-----------------------------------------------------------------------------

WorkerStep(w) == \/ Take(w) \/ Begin(w) \/ Look(w) \/ Expand(w) \/ Opening(w)
                 \/ Commit(w) \/ Bell(w) \/ Lock(w) \/ Hand(w) \/ PingFails(w)
                 \/ Delete(w)

DtorStep == \/ DtorNotifyAll \/ DtorJoinScanner \/ DtorClosePool
            \/ DtorJoinWorkers \/ DtorLocks

Next == \/ \E c \in Callers : Acquire(c) \/ Release(c) \/ Ring(c)
        \/ \E w \in Workers : WorkerStep(w) \/ TimesOut(w)
        \/ ScannerLocks \/ Scan
        \/ DtorStop \/ DtorStep \/ DtorTimesOut
        \/ WakesForNothing

\* Threads that can go on do; the waits have deadlines, which pass however
\* often the sleeper is woken in between.  Callers need not return anything.
Spec == /\ Init
        /\ [][Next]_vars
        /\ \A w \in Workers : WF_vars(WorkerStep(w)) /\ SF_vars(TimesOut(w))
        /\ WF_vars(ScannerLocks) /\ SF_vars(Scan)
        /\ WF_vars(DtorStep) /\ SF_vars(DtorTimesOut)

-----------------------------------------------------------------------------

\* The places workers have reserved: a worker that needs two has two.
Reservations == {place \in Workers \X (1..2) : place[2] <= need[place[1]]}

\* Until the pool stops, total_conn_ is exactly the connections that are idle
\* or lent and the room reserved for those being opened: the reservation of
\* expand, its settlement, the scanner and the loss of a connection at ping
\* keep the one counter right between them.
BudgetExact ==
    ~stopping => total = Cardinality(idle) + Cardinality(inUse) + Cardinality(Reservations)

\* A connection in somebody's hands exists, is not idle and is in nobody
\* else's: neither the scanner nor the destructor deletes it under its user,
\* and an address that is used again brings back no old return time.
HeldIsAlive ==
    \A t \in Threads : /\ has[t] \subseteq open \ idle
                       /\ \A u \in Threads \ {t} : has[t] \cap has[u] = {}

\* When the destructor returns, every connection has been deleted but those
\* that are still lent, whatever workers were opening or trying just then.
NothingLeaks ==
    at["dtor"] = "gone" => open = UNION {has[c] : c \in Callers}

\* A caller that waits for its guard gets one, full or empty, or a broken
\* promise: no wakeup that goes to the wrong waiter strands it.
AcquireAnswered ==
    \A c \in Callers : at[c] = "waiting" ~> at[c] # "waiting"

\* The destructor returns, even if connections are never returned.
DtorReturns == at["dtor"] = "flagged" ~> at["dtor"] = "gone"

\* acquire gives an empty guard after 5 s if max_conn_ connections are lent
\* (main.cpp, Test 3), and while they are not, opens another.
EmptyOnlyAtMax ==
    [][\A w \in Workers : at[w] = "asleep" /\ at'[w] = "idle" /\ ~stopping
          => total = MaxConn]_vars
=============================================================================
