----------------------------- MODULE ThreadPool -----------------------------
(***************************************************************************)
(* src/src/ThreadPool.cpp: a queue behind a mutex, workers that sleep on a *)
(* condition variable, and a destructor that stops and joins them.  What   *)
(* runs under the mutex is one step; notify_one and notify_all come after  *)
(* the unlock and are steps of their own.  The condition variable is the   *)
(* set of the workers asleep in it; it may also wake a worker for nothing. *)
(***************************************************************************)
EXTENDS Naturals, Sequences, FiniteSets

CONSTANTS Tasks, Workers, Submitters,
          Idle,       \* no task
          MaxTasks    \* bound: no submission to a queue of this length

ASSUME IdleAssumption == Idle \notin Tasks
ASSUME MaxTasksAssumption == MaxTasks \in Nat
ASSUME FiniteAssumption == IsFiniteSet(Workers) /\ IsFiniteSet(Submitters)

VARIABLES tasks,      \* ThreadPool::tasks
          stopping,   \* ThreadPool::stopping
          worker,     \* where each worker is in workerLoop:
                      \*   "ready"   about to lock and test the predicate
                      \*   "asleep"  inside cv.wait
                      \*   "busy"    executing a task, without the lock
                      \*   "exited"  returned from workerLoop
          running,    \* the task each worker is executing
          notifying,  \* submitters between the unlock and notify_one
          dtor        \* "none", "flagged", "notified", "joined"

poolVars == <<tasks, stopping, worker, running, notifying, dtor>>

PoolTypeOK == /\ tasks \in Seq(Tasks)
              /\ stopping \in BOOLEAN
              /\ worker \in [Workers -> {"ready", "asleep", "busy", "exited"}]
              /\ running \in [Workers -> Tasks \cup {Idle}]
              /\ notifying \subseteq Submitters
              /\ dtor \in {"none", "flagged", "notified", "joined"}

PoolInit == /\ tasks = <<>>
            /\ stopping = FALSE
            /\ worker = [w \in Workers |-> "ready"]
            /\ running = [w \in Workers |-> Idle]
            /\ notifying = {}
            /\ dtor = "none"

Asleep == {w \in Workers : worker[w] = "asleep"}

\* A submit that tells nobody unless the queue was empty, a common attempt
\* to save wakeups.
SubmitToEmptyNotifies(s, t) ==
    /\ dtor # "joined"
    /\ s \notin notifying
    /\ ~stopping
    /\ Len(tasks) < MaxTasks
    /\ tasks' = Append(tasks, t)
    /\ notifying' = IF tasks = <<>> THEN notifying \cup {s} ELSE notifying
    /\ UNCHANGED <<stopping, worker, running, dtor>>

\* submit under the lock; a stopping pool discards the task without a word.
Submit(s, t) == /\ dtor # "joined"
                /\ s \notin notifying
                /\ ~stopping
                /\ Len(tasks) < MaxTasks
                /\ tasks' = Append(tasks, t)
                /\ notifying' = notifying \cup {s}
                /\ UNCHANGED <<stopping, worker, running, dtor>>

\* notify_one after the unlock: it wakes a sleeper if there is one.
NotifyOne(s) == /\ s \in notifying
                /\ notifying' = notifying \ {s}
                /\ \/ \E w \in Asleep : worker' = [worker EXCEPT ![w] = "ready"]
                   \/ Asleep = {} /\ UNCHANGED worker
                /\ UNCHANGED <<tasks, stopping, running, dtor>>

\* A wakeup the condition variable gives for nothing; wait's predicate is
\* what makes it harmless.
SpuriousWake(w) == /\ worker[w] = "asleep"
                   /\ worker' = [worker EXCEPT ![w] = "ready"]
                   /\ UNCHANGED <<tasks, stopping, running, notifying, dtor>>

\* The predicate is false: the worker goes (back) to sleep.
Sleep(w) == /\ worker[w] = "ready"
            /\ tasks = <<>>
            /\ ~stopping
            /\ worker' = [worker EXCEPT ![w] = "asleep"]
            /\ UNCHANGED <<tasks, stopping, running, notifying, dtor>>

\* A pop from the wrong end.
TakeNewest(w) == /\ worker[w] = "ready"
                 /\ ~stopping
                 /\ tasks # <<>>
                 /\ running' = [running EXCEPT ![w] = tasks[Len(tasks)]]
                 /\ tasks' = SubSeq(tasks, 1, Len(tasks) - 1)
                 /\ worker' = [worker EXCEPT ![w] = "busy"]
                 /\ UNCHANGED <<stopping, notifying, dtor>>

\* The worker pops a task and leaves the lock to run it.
Take(w) == /\ worker[w] = "ready"
           /\ ~stopping
           /\ tasks # <<>>
           /\ running' = [running EXCEPT ![w] = Head(tasks)]
           /\ tasks' = Tail(tasks)
           /\ worker' = [worker EXCEPT ![w] = "busy"]
           /\ UNCHANGED <<stopping, notifying, dtor>>

\* stopping is set: the worker returns, whatever is queued.
Exit(w) == /\ worker[w] = "ready"
           /\ stopping
           /\ worker' = [worker EXCEPT ![w] = "exited"]
           /\ UNCHANGED <<tasks, stopping, running, notifying, dtor>>

\* A worker loop without the catch: a task that throws ends it.
FinishUncaught(w) == /\ worker[w] = "busy"
                     /\ worker' \in {[worker EXCEPT ![w] = "ready"],
                                     [worker EXCEPT ![w] = "terminated"]}
                     /\ running' = [running EXCEPT ![w] = Idle]
                     /\ UNCHANGED <<tasks, stopping, notifying, dtor>>

\* The task returns or throws; catch(...) makes the two alike.
Finish(w) == /\ worker[w] = "busy"
             /\ worker' = [worker EXCEPT ![w] = "ready"]
             /\ running' = [running EXCEPT ![w] = Idle]
             /\ UNCHANGED <<tasks, stopping, notifying, dtor>>

\* ~ThreadPool sets stopping under the lock ...
DtorFlag == /\ dtor = "none"
            /\ stopping' = TRUE
            /\ dtor' = "flagged"
            /\ UNCHANGED <<tasks, worker, running, notifying>>

\* The destructor with one notification for all its workers.
DtorNotifyOne == /\ dtor = "flagged"
                 /\ dtor' = "notified"
                 /\ \/ \E w \in Asleep : worker' = [worker EXCEPT ![w] = "ready"]
                    \/ Asleep = {} /\ UNCHANGED worker
                 /\ UNCHANGED <<tasks, stopping, running, notifying>>

\* ... wakes every sleeper ...
DtorNotifyAll == /\ dtor = "flagged"
                 /\ dtor' = "notified"
                 /\ worker' = [w \in Workers |-> IF w \in Asleep THEN "ready"
                                                 ELSE worker[w]]
                 /\ UNCHANGED <<tasks, stopping, running, notifying>>

\* ... and joins them all.
DtorJoin == /\ dtor = "notified"
            /\ \A w \in Workers : worker[w] = "exited"
            /\ dtor' = "joined"
            /\ UNCHANGED <<tasks, stopping, worker, running, notifying>>

WorkerStep(w) == Sleep(w) \/ Take(w) \/ Exit(w) \/ Finish(w)

PoolNext == \/ \E s \in Submitters : NotifyOne(s) \/ \E t \in Tasks : Submit(s, t)
            \/ \E w \in Workers : WorkerStep(w) \/ SpuriousWake(w)
            \/ DtorFlag \/ DtorNotifyAll \/ DtorJoin

\* Threads that can run do run, and the tasks given to the pool return.
\* Nothing obliges a submitter to submit, the condition variable to wake a
\* worker for nothing, or the owner to destroy the pool.
PoolFairness == /\ \A w \in Workers : WF_poolVars(WorkerStep(w))
                /\ \A s \in Submitters : WF_poolVars(NotifyOne(s))
                /\ WF_poolVars(DtorNotifyAll)
                /\ WF_poolVars(DtorJoin)

PoolSpec == PoolInit /\ [][PoolNext]_poolVars /\ PoolFairness

-----------------------------------------------------------------------------

Ready == {w \in Workers : worker[w] = "ready"}

\* As long as some worker sleeps, every queued task has a wakeup on its way:
\* a notify_one that is still to come or a worker already woken for it.  It
\* is what notifying once per submit, even into a queue that is not empty, is
\* for: two tasks submitted in a row may run in parallel.
WakeupPerTask ==
    Asleep # {} /\ ~stopping =>
        Len(tasks) <= Cardinality(notifying) + Cardinality(Ready)

\* Once the destructor has returned, no thread is left that could touch the
\* pool or anything a task captured: workerLoop has returned in all of them.
JoinedIsQuiet ==
    dtor = "joined" => \A w \in Workers : worker[w] = "exited" /\ running[w] = Idle

\* A stopping pool starts nothing: what is queued is discarded (BUGLOG 8).
DiscardWhenStopping ==
    [][stopping => \A w \in Workers : running'[w] \in {running[w], Idle}]_poolVars

\* The destructor comes back: no worker sleeps through the stop.
DtorReturns == (dtor = "flagged") ~> (dtor = "joined")

\* The pool does what TaskPool promises; it is closed once stopping is set.
Pool == INSTANCE TaskPool WITH closed <- stopping

ImplementsTaskPool == Pool!Spec
=============================================================================
