---------------------------- MODULE QueueProofs ----------------------------
(***************************************************************************)
(* The two queues of the server, proved for any sets of items, tasks,      *)
(* workers and submitters and any bound.  The done queue (Donequeue.tla)   *)
(* is well formed, loses no wakeup, and is a FIFO channel.  The thread     *)
(* pool (ThreadPool.tla) is well formed and quiet once it is joined,       *)
(* starts nothing after the stop, leaves no task next to a sleeper, and    *)
(* does what TaskPool promises.                                            *)
(***************************************************************************)
EXTENDS Donequeue, ThreadPool, FiniteSetTheorems, SequenceTheorems, TLAPS

-----------------------------------------------------------------------------
(* The done queue.                                                         *)

\* The state of the queue keeps its type through every step of the workers,
\* the reactor and the signal handler.
THEOREM QueueTypes == Spec => []TypeOK
<1>1. Init => TypeOK
  BY EmptySeq DEF Init, TypeOK
<1>2. TypeOK /\ [Next]_vars => TypeOK'
  <2> SUFFICES ASSUME TypeOK, [Next]_vars PROVE TypeOK'
    OBVIOUS
  <2> USE DEF TypeOK
  <2>1. ASSUME NEW p \in Producers, Ring(p) PROVE TypeOK'
    BY <2>1 DEF Ring
  <2>2. ASSUME NEW p \in Producers, NEW x \in Items, Push(p, x) PROVE TypeOK'
    BY <2>2, AppendProperties DEF Push
  <2>3. CASE Nudge
    BY <2>3 DEF Nudge
  <2>4. CASE ReadBell
    BY <2>4 DEF ReadBell
  <2>5. CASE Drain
    BY <2>5, EmptySeq DEF Drain
  <2>6. CASE TakeItem
    BY <2>6, HeadTailProperties DEF TakeItem
  <2>7. CASE UNCHANGED vars
    BY <2>7 DEF vars
  <2> QED
    BY <2>1, <2>2, <2>3, <2>4, <2>5, <2>6, <2>7 DEF Next
<1> QED
  BY <1>1, <1>2, PTL DEF Spec

\* A queued item always has a wakeup on its way: the push that precedes the
\* write and the read that precedes the drain leave no gap between them.
THEOREM WakeupNeverLost == Spec => []NoLostWakeup
<1>1. Init => NoLostWakeup
  BY DEF Init, NoLostWakeup
<1>2. NoLostWakeup /\ [Next]_vars => NoLostWakeup'
  <2> SUFFICES ASSUME NoLostWakeup, [Next]_vars PROVE NoLostWakeup'
    OBVIOUS
  <2> USE DEF NoLostWakeup
  <2>1. ASSUME NEW p \in Producers, Ring(p) PROVE NoLostWakeup'
    BY <2>1 DEF Ring
  <2>2. ASSUME NEW p \in Producers, NEW x \in Items, Push(p, x) PROVE NoLostWakeup'
    BY <2>2 DEF Push
  <2>3. CASE Nudge
    BY <2>3 DEF Nudge
  <2>4. CASE ReadBell
    BY <2>4 DEF ReadBell
  <2>5. CASE Drain
    BY <2>5 DEF Drain
  <2>6. CASE TakeItem
    BY <2>6 DEF TakeItem
  <2>7. CASE UNCHANGED vars
    BY <2>7 DEF vars
  <2> QED
    BY <2>1, <2>2, <2>3, <2>4, <2>5, <2>6, <2>7 DEF Next
<1> QED
  BY <1>1, <1>2, PTL DEF Spec

\* Why a drain may replace the deque in the reactor's hand: the reactor reads
\* the eventfd only when it has gone through the last one.
HandEmptyWhenWoken == woken => hand = <<>>

LEMMA HandIsEmpty == Spec => [](TypeOK /\ HandEmptyWhenWoken)
<1>1. Init => HandEmptyWhenWoken
  BY DEF Init, HandEmptyWhenWoken
<1>2. HandEmptyWhenWoken /\ [Next]_vars => HandEmptyWhenWoken'
  BY DEF HandEmptyWhenWoken, Next, Ring, Push, Nudge, ReadBell, Drain, TakeItem, vars
<1> QED
  BY <1>1, <1>2, QueueTypes, PTL DEF Spec

\* One step of the queue is a step of the mailbox or none: a push puts at the
\* end, a turn of ondone's loop gets at the front, a drain changes nothing.
LEMMA StepSimulation ==
  ASSUME TypeOK, HandEmptyWhenWoken, [Next]_vars
  PROVE  [Channel!Next]_(hand \o queue)
<1> USE DEF TypeOK
<1>1. ASSUME NEW p \in Producers, Ring(p) PROVE UNCHANGED (hand \o queue)
  BY <1>1 DEF Ring
<1>2. ASSUME NEW p \in Producers, NEW x \in Items, Push(p, x) PROVE Channel!Put
  <2>1. hand \o Append(queue, x) = Append(hand \o queue, x)
    <3>1. /\ <<x>> \in Seq(Items)
          /\ hand \o queue \in Seq(Items)
      BY ConcatProperties
    <3>2. /\ Append(queue, x) = queue \o <<x>>
          /\ Append(hand \o queue, x) = (hand \o queue) \o <<x>>
      BY <3>1, AppendIsConcat
    <3> QED
      BY <3>1, <3>2, ConcatAssociative
  <2>2. (hand \o queue)' = Append(hand \o queue, x)
    BY <1>2, <2>1 DEF Push
  <2> QED
    BY <2>2 DEF Channel!Put
<1>3. ASSUME Nudge PROVE UNCHANGED (hand \o queue)
  BY <1>3 DEF Nudge
<1>4. ASSUME ReadBell PROVE UNCHANGED (hand \o queue)
  BY <1>4 DEF ReadBell
<1>5. ASSUME Drain PROVE UNCHANGED (hand \o queue)
  <2>1. hand = <<>> /\ hand' = queue /\ queue' = <<>>
    BY <1>5 DEF Drain, HandEmptyWhenWoken
  <2>2. <<>> \o queue = queue /\ queue \o <<>> = queue
    BY ConcatEmptySeq
  <2> QED
    BY <2>1, <2>2
<1>6. ASSUME TakeItem PROVE Channel!Get
  <2>1. hand # <<>> /\ hand' = Tail(hand) /\ queue' = queue
    BY <1>6 DEF TakeItem
  <2>2. hand = <<Head(hand)>> \o Tail(hand)
    BY <2>1
  <2>3. /\ hand \o queue # <<>>
        /\ Tail(hand \o queue) = Tail(hand) \o queue
    BY <2>1
  <2> QED
    BY <2>1, <2>3 DEF Channel!Get
<1>7. ASSUME UNCHANGED vars PROVE UNCHANGED (hand \o queue)
  BY <1>7 DEF vars
<1> QED
  BY <1>1, <1>2, <1>3, <1>4, <1>5, <1>6, <1>7 DEF Next, Channel!Next

\* Donequeue implements Mailbox but for its liveness, which TLC checks: no
\* response is lost, duplicated or overtaken on its way to the reactor.
THEOREM ChannelRefined == Spec => Channel!Init /\ [][Channel!Next]_(hand \o queue)
<1>1. Init => Channel!Init
  BY DEF Init, Channel!Init
<1>2. TypeOK /\ HandEmptyWhenWoken /\ [Next]_vars => [Channel!Next]_(hand \o queue)
  BY StepSimulation
<1> QED
  BY <1>1, <1>2, HandIsEmpty, PTL DEF Spec

-----------------------------------------------------------------------------
(* The thread pool.                                                        *)

\* PoolTypeOK says nothing of how a worker's place and its task, or the flag and
\* the destructor, belong together; the properties need both.
BusyRuns == \A w \in Workers : running[w] # Idle <=> worker[w] = "busy"

StopInv == /\ stopping <=> dtor # "none"
           /\ \A w \in Workers : worker[w] = "exited" => stopping
           /\ dtor = "joined" => \A w \in Workers : worker[w] = "exited"

PoolInv == PoolTypeOK /\ BusyRuns /\ StopInv

-----------------------------------------------------------------------------

LEMMA InitInv == PoolInit => PoolInv
BY EmptySeq, IdleAssumption DEF PoolInit, PoolInv, PoolTypeOK, BusyRuns, StopInv

\* One step per action: each moves one worker, or the destructor, or nobody.
LEMMA StepInv == PoolInv /\ [PoolNext]_poolVars => PoolInv'
<1> SUFFICES ASSUME PoolInv, [PoolNext]_poolVars PROVE PoolInv'
  OBVIOUS
<1> USE DEF PoolInv, PoolTypeOK, BusyRuns, StopInv
<1>1. ASSUME NEW s \in Submitters, NEW t \in Tasks, Submit(s, t) PROVE PoolInv'
  BY <1>1, AppendProperties DEF Submit
<1>2. ASSUME NEW s \in Submitters, NotifyOne(s) PROVE PoolInv'
  BY <1>2 DEF NotifyOne, Asleep
<1>3. ASSUME NEW w \in Workers, SpuriousWake(w) PROVE PoolInv'
  BY <1>3 DEF SpuriousWake
<1>4. ASSUME NEW w \in Workers, Sleep(w) PROVE PoolInv'
  BY <1>4 DEF Sleep
<1>5. ASSUME NEW w \in Workers, Take(w) PROVE PoolInv'
  <2>1. Head(tasks) \in Tasks /\ Tail(tasks) \in Seq(Tasks)
    BY <1>5, HeadTailProperties DEF Take
  <2> QED
    BY <1>5, <2>1, IdleAssumption DEF Take
<1>6. ASSUME NEW w \in Workers, Exit(w) PROVE PoolInv'
  BY <1>6 DEF Exit
<1>7. ASSUME NEW w \in Workers, Finish(w) PROVE PoolInv'
  BY <1>7 DEF Finish
<1>8. CASE DtorFlag
  BY <1>8 DEF DtorFlag
<1>9. CASE DtorNotifyAll
  BY <1>9 DEF DtorNotifyAll, Asleep
<1>10. CASE DtorJoin
  BY <1>10 DEF DtorJoin
<1>11. CASE UNCHANGED poolVars
  BY <1>11 DEF poolVars
<1> QED
  BY <1>1, <1>2, <1>3, <1>4, <1>5, <1>6, <1>7, <1>8, <1>9, <1>10, <1>11
     DEF PoolNext, WorkerStep

LEMMA InvAlways == PoolSpec => []PoolInv
BY InitInv, StepInv, PTL DEF PoolSpec

\* The pool's variables keep their types.
THEOREM PoolTypes == PoolSpec => []PoolTypeOK
BY InvAlways, PTL DEF PoolInv

\* When the destructor has returned every worker has left workerLoop and runs
\* nothing: no thread can touch the pool that has been destroyed.
THEOREM QuietWhenJoined == PoolSpec => []JoinedIsQuiet
<1>1. PoolInv => JoinedIsQuiet
  BY DEF PoolInv, BusyRuns, StopInv, JoinedIsQuiet
<1> QED
  BY <1>1, InvAlways, PTL

\* Once stopping is set no worker starts a task.
THEOREM NothingStartsWhenStopping == PoolSpec => DiscardWhenStopping
<1>1. PoolInv /\ [PoolNext]_poolVars =>
        [stopping => \A w \in Workers : running'[w] \in {running[w], Idle}]_poolVars
  <2> SUFFICES ASSUME PoolInv, PoolNext, stopping, NEW v \in Workers
               PROVE  running'[v] \in {running[v], Idle}
    OBVIOUS
  <2> QED
    BY DEF PoolInv, PoolTypeOK, PoolNext, Submit, NotifyOne, SpuriousWake, WorkerStep, Sleep,
           Take, Exit, Finish, DtorFlag, DtorNotifyAll, DtorJoin
<1> QED
  BY <1>1, InvAlways, PTL DEF PoolSpec, DiscardWhenStopping

\* ThreadPool implements TaskPool but for its liveness, which TLC checks:
\* tasks are started in order and once, and none after the stop.
THEOREM TaskPoolRefined == PoolSpec => Pool!Init /\ [][Pool!Next]_(Pool!vars)
<1>1. PoolInit => Pool!Init
  BY DEF PoolInit, Pool!Init
<1>2. PoolInv /\ [PoolNext]_poolVars => [Pool!Next]_(Pool!vars)
  <2> SUFFICES ASSUME PoolInv, [PoolNext]_poolVars PROVE Pool!Next \/ UNCHANGED Pool!vars
    OBVIOUS
  <2> USE DEF Pool!vars
  <2>1. ASSUME NEW s \in Submitters, NEW t \in Tasks, Submit(s, t) PROVE Pool!Submit(t)
    BY <2>1 DEF Submit, Pool!Submit
  <2>2. ASSUME NEW s \in Submitters, NotifyOne(s) PROVE UNCHANGED Pool!vars
    BY <2>2 DEF NotifyOne
  <2>3. ASSUME NEW w \in Workers, SpuriousWake(w) PROVE UNCHANGED Pool!vars
    BY <2>3 DEF SpuriousWake
  <2>4. ASSUME NEW w \in Workers, Sleep(w) PROVE UNCHANGED Pool!vars
    BY <2>4 DEF Sleep
  <2>5. ASSUME NEW w \in Workers, Take(w) PROVE Pool!Start(w)
    BY <2>5 DEF Take, Pool!Start, PoolInv, BusyRuns
  <2>6. ASSUME NEW w \in Workers, Exit(w) PROVE UNCHANGED Pool!vars
    BY <2>6 DEF Exit
  <2>7. ASSUME NEW w \in Workers, Finish(w) PROVE Pool!Finish(w)
    BY <2>7 DEF Finish, Pool!Finish, PoolInv, BusyRuns
  <2>8. ASSUME DtorFlag PROVE Pool!Close
    BY <2>8 DEF DtorFlag, Pool!Close
  <2>9. ASSUME DtorNotifyAll PROVE UNCHANGED Pool!vars
    BY <2>9 DEF DtorNotifyAll
  <2>10. ASSUME DtorJoin PROVE UNCHANGED Pool!vars
    BY <2>10 DEF DtorJoin
  <2>11. ASSUME UNCHANGED poolVars PROVE UNCHANGED Pool!vars
    BY <2>11 DEF poolVars
  <2> QED
    BY <2>1, <2>2, <2>3, <2>4, <2>5, <2>6, <2>7, <2>8, <2>9, <2>10, <2>11
       DEF PoolNext, WorkerStep, Pool!Next
<1> QED
  BY <1>1, <1>2, InvAlways, PTL DEF PoolSpec

-----------------------------------------------------------------------------

LEMMA Counts ==
  ASSUME PoolInv
  PROVE  /\ IsFiniteSet(notifying) /\ Cardinality(notifying) \in Nat
         /\ IsFiniteSet(Ready) /\ Cardinality(Ready) \in Nat
         /\ Len(tasks) \in Nat
<1>1. notifying \in SUBSET Submitters /\ Ready \in SUBSET Workers /\ tasks \in Seq(Tasks)
  BY DEF PoolInv, PoolTypeOK, Ready
<1>2. IsFiniteSet(notifying) /\ IsFiniteSet(Ready)
  BY <1>1, FS_Subset, FiniteAssumption
<1> QED
  BY <1>1, <1>2, FS_CardinalityType, LenProperties

\* A worker that becomes ready is one more.
LEMMA OneMoreReady ==
  ASSUME PoolInv, NEW w \in Workers, worker[w] # "ready",
         worker' = [worker EXCEPT ![w] = "ready"]
  PROVE  Cardinality(Ready') = Cardinality(Ready) + 1
<1>1. Ready' = Ready \cup {w} /\ w \notin Ready
  BY DEF PoolInv, PoolTypeOK, Ready
<1> QED
  BY <1>1, Counts, FS_AddElement

\* A queued task is not left waiting next to a sleeper: for each there is a
\* notify_one still to come, or a worker that has been woken.
THEOREM WakeupForEveryTask == PoolSpec => []WakeupPerTask
<1>1. PoolInit => WakeupPerTask
  BY DEF PoolInit, WakeupPerTask, Asleep
<1>2. PoolInv /\ WakeupPerTask /\ [PoolNext]_poolVars => WakeupPerTask'
  <2> SUFFICES ASSUME PoolInv, WakeupPerTask, [PoolNext]_poolVars, Asleep' # {}, ~stopping'
               PROVE  (Len(tasks) <= Cardinality(notifying) + Cardinality(Ready))'
    BY DEF WakeupPerTask
  <2> DEFINE Enough == (Len(tasks) <= Cardinality(notifying) + Cardinality(Ready))'
  <2> USE Counts
  <2>0. PoolInv'
    BY StepInv
  <2>1. ASSUME NEW s \in Submitters, NEW t \in Tasks, Submit(s, t) PROVE Enough
    <3>1. Asleep' = Asleep /\ Ready' = Ready /\ ~stopping
      BY <2>1 DEF Submit, Asleep, Ready
    <3>2. Cardinality(notifying') = Cardinality(notifying) + 1
      BY <2>1, FS_AddElement DEF Submit
    <3>3. Len(tasks') = Len(tasks) + 1
      BY <2>1, AppendProperties DEF Submit, PoolInv, PoolTypeOK
    <3> QED
      BY <3>1, <3>2, <3>3 DEF WakeupPerTask
  <2>2. ASSUME NEW s \in Submitters, NotifyOne(s) PROVE Enough
    <3>1. Cardinality(notifying') = Cardinality(notifying) - 1
      BY <2>2, FS_RemoveElement DEF NotifyOne
    <3>2. PICK w \in Asleep : worker' = [worker EXCEPT ![w] = "ready"]
      BY <2>2 DEF NotifyOne, Asleep
    <3>3. Cardinality(Ready') = Cardinality(Ready) + 1
      BY <3>2, OneMoreReady DEF Asleep
    <3>4. tasks' = tasks /\ ~stopping /\ Asleep # {}
      BY <2>2, <3>2 DEF NotifyOne
    <3> QED
      BY <3>1, <3>3, <3>4 DEF WakeupPerTask
  <2>3. ASSUME NEW w \in Workers, SpuriousWake(w) PROVE Enough
    <3>1. Cardinality(Ready') = Cardinality(Ready) + 1
      BY <2>3, OneMoreReady DEF SpuriousWake
    <3>2. tasks' = tasks /\ notifying' = notifying /\ ~stopping /\ Asleep # {}
      BY <2>3 DEF SpuriousWake, Asleep
    <3> QED
      BY <3>1, <3>2 DEF WakeupPerTask
  <2>4. ASSUME NEW w \in Workers, Sleep(w) PROVE Enough
    <3>1. Len(tasks') = 0
      BY <2>4, EmptySeq DEF Sleep
    <3>2. Cardinality(notifying') \in Nat /\ Cardinality(Ready') \in Nat
      <4>1. notifying' \in SUBSET Submitters /\ Ready' \in SUBSET Workers
        BY <2>0 DEF PoolInv, PoolTypeOK, Ready
      <4> QED
        BY <4>1, FS_Subset, FS_CardinalityType, FiniteAssumption
    <3> QED
      BY <3>1, <3>2
  <2>5. ASSUME NEW w \in Workers, Take(w) PROVE Enough
    <3>1. Ready' = Ready \ {w} /\ w \in Ready /\ Asleep' = Asleep
      BY <2>5 DEF Take, Ready, Asleep, PoolInv, PoolTypeOK
    <3>2. Cardinality(Ready') = Cardinality(Ready) - 1
      BY <3>1, FS_RemoveElement
    <3>3. Len(tasks') = Len(tasks) - 1
      BY <2>5, HeadTailProperties DEF Take, PoolInv, PoolTypeOK
    <3> QED
      BY <2>5, <3>1, <3>2, <3>3 DEF Take, WakeupPerTask
  <2>6. ASSUME NEW w \in Workers, Exit(w) PROVE Enough
    BY <2>6 DEF Exit
  <2>7. ASSUME NEW w \in Workers, Finish(w) PROVE Enough
    <3>1. Cardinality(Ready') = Cardinality(Ready) + 1
      BY <2>7, OneMoreReady DEF Finish
    <3>2. /\ tasks' = tasks /\ notifying' = notifying /\ ~stopping
          /\ Asleep' = Asleep
      BY <2>7 DEF Finish, Asleep, PoolInv, PoolTypeOK
    <3> QED
      BY <3>1, <3>2 DEF WakeupPerTask
  <2>8. CASE DtorFlag
    BY <2>8 DEF DtorFlag
  <2>9. CASE DtorNotifyAll
    BY <2>9 DEF DtorNotifyAll, Asleep, PoolInv, PoolTypeOK
  <2>10. CASE DtorJoin
    BY <2>10 DEF DtorJoin, WakeupPerTask, Asleep, Ready
  <2>11. CASE UNCHANGED poolVars
    BY <2>11 DEF poolVars, WakeupPerTask, Asleep, Ready
  <2> QED
    BY <2>1, <2>2, <2>3, <2>4, <2>5, <2>6, <2>7, <2>8, <2>9, <2>10, <2>11
       DEF PoolNext, WorkerStep
<1> QED
  BY <1>1, <1>2, InvAlways, PTL DEF PoolSpec
=============================================================================
