------------------------ MODULE ConnectionPoolProofs ------------------------
(***************************************************************************)
(* ConnectionPool.tla for any callers and workers and any limits: the      *)
(* count of connections is exact, nobody loses a connection that is in its *)
(* hands, and the destructor leaves none behind.                           *)
(***************************************************************************)
EXTENDS ConnectionPool, FiniteSetTheorems, SequenceTheorems, TLAPS

-----------------------------------------------------------------------------
(* The invariant.                                                          *)

\* Where a thread is; one that waits on cv_ is about to take the lock, and a
\* notification changes nothing here.
Where == [t \in Threads |-> IF at[t] = "asleep" THEN "lock" ELSE at[t]]

PlaceNames == Places.callers \cup Places.workers \cup Places.scanner \cup Places.dtor

Typed == /\ idle \subseteq Conns /\ inUse \subseteq Conns /\ returned \subseteq Conns
         /\ open \subseteq Conns
         /\ queue \in Seq(Callers)
         /\ serving \in [Workers -> Callers \cup {NoCaller}]
         /\ has \in [Threads -> SUBSET Conns]
         /\ need \in [Workers -> 0..2]
         /\ at \in [Threads -> PlaceNames]

\* What a worker has in its hands at its place: new connections until they are
\* idle, a borrowed one until it is handed on or deleted.
WorkerWell(w) ==
    /\ serving[w] = NoCaller <=> Where[w] = "idle"
    /\ Where[w] \notin {"opening", "commit"} => need[w] = 0
    /\ Where[w] \notin {"commit", "ping", "delete"} => has[w] = {}
    /\ Where[w] = "commit" => Cardinality(has[w]) <= need[w]
    /\ Where[w] = "ping" => \E k \in inUse : has[w] = {k}
    /\ Where[w] \in {"commit", "delete"} => has[w] \cap inUse = {}

CallerWell(c) == IF Where[c] = "holding" THEN has[c] \subseteq inUse ELSE has[c] = {}

\* Nobody else has connections.
StaffWell == /\ \A w \in Workers : WorkerWell(w)
             /\ \A c \in Callers : CallerWell(c)
             /\ has["scanner"] = {} /\ has["dtor"] = {}

\* A caller that is in the queue or served is waiting, and is so once.
ServedOnce ==
    /\ \A w \in Workers : serving[w] # NoCaller => Where[serving[w]] = "waiting"
    /\ \A v, w \in Workers : serving[v] = serving[w] /\ serving[w] # NoCaller => v = w
    /\ \A i \in 1..Len(queue) : /\ Where[queue[i]] = "waiting"
                                /\ \A w \in Workers : serving[w] # queue[i]
                                /\ \A j \in 1..Len(queue) : queue[i] = queue[j] => i = j

\* The lists are of connections there are, and everyone's hands are apart.
ListsWell == /\ idle \subseteq open
             /\ inUse \subseteq open \ idle
             /\ HeldIsAlive

\* A connection that is not idle is in somebody's hands.
Owned == \A k \in open \ idle : \E t \in Threads : k \in has[t]

\* What the destructor has behind it.
EndWell ==
    /\ Where["dtor"] # "none" => stopping
    /\ Where["dtor"] \in {"joined", "closing", "lock", "gone"} => Where["scanner"] = "exited"
    /\ Where["dtor"] \in {"lock", "gone"} =>
          queue = <<>> /\ \A w \in Workers : serving[w] = NoCaller
    /\ IF Where["dtor"] = "gone" THEN idle = {} ELSE returned \subseteq idle

\* A pool that is stopping no longer counts the connections it deletes.
Budget ==
    LET used == Cardinality(idle) + Cardinality(inUse) + Cardinality(Reservations)
    IN  /\ total \in 0..MaxConn
        /\ used <= total
        /\ ~stopping => total = used

Inv == Typed /\ StaffWell /\ ServedOnce /\ ListsWell /\ Owned /\ EndWell /\ Budget

-----------------------------------------------------------------------------
(* Threads and their places.                                               *)

LEMMA Kinds ==
  /\ "scanner" \in Threads /\ "dtor" \in Threads
  /\ \A w \in Workers : w \in Threads /\ w \notin Callers /\ w # "scanner" /\ w # "dtor"
  /\ \A c \in Callers : c \in Threads /\ c \notin Workers /\ c # "scanner" /\ c # "dtor"
  /\ \A t \in Threads : t \in Workers \/ t \in Callers \/ t = "scanner" \/ t = "dtor"
BY ThreadsAssumption DEF Threads

LEMMA Names ==
  /\ "none" \in PlaceNames /\ "waiting" \in PlaceNames /\ "holding" \in PlaceNames
  /\ "ringing" \in PlaceNames /\ "idle" \in PlaceNames /\ "begin" \in PlaceNames
  /\ "look" \in PlaceNames /\ "expand" \in PlaceNames /\ "opening" \in PlaceNames
  /\ "commit" \in PlaceNames /\ "bell" \in PlaceNames /\ "lock" \in PlaceNames
  /\ "asleep" \in PlaceNames /\ "ping" \in PlaceNames /\ "delete" \in PlaceNames
  /\ "exited" \in PlaceNames /\ "flagged" \in PlaceNames /\ "told" \in PlaceNames
  /\ "joined" \in PlaceNames /\ "closing" \in PlaceNames /\ "gone" \in PlaceNames
BY DEF PlaceNames, Places

LEMMA WhereTyped ==
  ASSUME Typed
  PROVE  /\ Where \in [Threads -> PlaceNames]
         /\ \A t \in Threads : at[t] # "asleep" => Where[t] = at[t]
         /\ \A t \in Threads : at[t] = "asleep" => Where[t] = "lock"
BY Names DEF Typed, Where

\* The place a thread goes to.
LEMMA GoesWhere ==
  ASSUME Typed, NEW t \in Threads, NEW p \in PlaceNames, Goes(t, p)
  PROVE  /\ at' \in [Threads -> PlaceNames]
         /\ Where' = [Where EXCEPT ![t] = IF p = "asleep" THEN "lock" ELSE p]
<1>1. at' \in [Threads -> PlaceNames] /\ at' = [at EXCEPT ![t] = p]
  BY DEF Typed, Goes
<1>2. \A u \in Threads : Where'[u] = [Where EXCEPT ![t] = IF p = "asleep" THEN "lock" ELSE p][u]
  BY <1>1 DEF Typed, Where
<1>3. Where' = [u \in Threads |-> Where'[u]]
  BY DEF Where
<1> QED
  BY <1>1, <1>2, <1>3 DEF Where

\* Whoever is notified, it is where it was.
LEMMA NotifyWhere ==
  ASSUME Typed, NEW after \in [Threads -> PlaceNames],
         \A x \in Threads : at[x] = "asleep" => after[x] = "asleep",
         NotifyOne(after) \/ NotifyAll(after)
  PROVE  /\ at' \in [Threads -> PlaceNames]
         /\ Where' = [u \in Threads |-> IF after[u] = "asleep" THEN "lock" ELSE after[u]]
<1>1. CASE NotifyAll(after)
  <2>1. at' = [t \in Threads |-> IF t \in Asleep THEN "lock" ELSE after[t]]
    BY <1>1 DEF NotifyAll
  <2>2. at' \in [Threads -> PlaceNames]
    BY <2>1, Names
  <2>3. \A u \in Threads : at'[u] = after[u] \/ (after[u] = "asleep" /\ at'[u] = "lock")
    BY <2>1 DEF Asleep
  <2> QED
    BY <2>2, <2>3 DEF Where
<1>2. CASE NotifyOne(after)
  <2>1. at' = after \/ \E x \in Asleep : at' = [after EXCEPT ![x] = "lock"]
    BY <1>2 DEF NotifyOne
  <2>2. at' \in [Threads -> PlaceNames]
    BY <2>1, Names DEF Asleep
  <2>3. \A u \in Threads : at'[u] = after[u] \/ (after[u] = "asleep" /\ at'[u] = "lock")
    BY <2>1 DEF Asleep
  <2> QED
    BY <2>2, <2>3 DEF Where
<1> QED
  BY <1>1, <1>2

\* A worker or a caller that has nothing to do with a step.
LEMMA WorkerStays ==
  ASSUME NEW w, WorkerWell(w), Where'[w] = Where[w], serving'[w] = serving[w],
         need'[w] = need[w], has'[w] = has[w], \A k \in has[w] : k \in inUse' <=> k \in inUse
  PROVE  WorkerWell(w)'
BY DEF WorkerWell

LEMMA CallerStays ==
  ASSUME NEW c, CallerWell(c), Where'[c] = Where[c], has'[c] = has[c],
         \A k \in has[c] : k \in inUse => k \in inUse'
  PROVE  CallerWell(c)'
BY DEF CallerWell

\* Without a change of the lists and of what is reserved the budget stays.
LEMMA BudgetStays ==
  ASSUME Budget, UNCHANGED <<idle, inUse, total, need>>, stopping => stopping'
  PROVE  Budget'
BY DEF Budget, Reservations

LEMMA ListsStay ==
  ASSUME ListsWell, Owned, UNCHANGED <<idle, inUse, open, has>>
  PROVE  ListsWell' /\ Owned'
BY DEF ListsWell, Owned, HeldIsAlive

-----------------------------------------------------------------------------
(* Steps in which a thread only goes on.                                   *)

\* Places of a worker that serves a caller and has nothing in its hands.
Empty == {"begin", "look", "expand", "bell", "lock"}

LEMMA Moves ==
  ASSUME Inv, NEW t \in Threads, NEW p \in PlaceNames,
         at' \in [Threads -> PlaceNames], Where' = [Where EXCEPT ![t] = p],
         UNCHANGED <<idle, inUse, returned, total, open, queue, serving, has, need>>,
         stopping => stopping',
         t \in Workers => Where[t] \in Empty /\ p \in Empty,
         t \in Callers => Where[t] \notin {"holding", "waiting"} /\ p # "holding",
         EndWell'
  PROVE  Inv'
<1> USE DEF Inv
<1>1. /\ Where \in [Threads -> PlaceNames]
      /\ \A u \in Threads : u # t => Where'[u] = Where[u]
      /\ Where'[t] = p
  BY WhereTyped
<1>2. Typed'
  BY DEF Typed
<1>3. \A w \in Workers : WorkerWell(w)'
  <2> TAKE w \in Workers
  <2>1. WorkerWell(w)
    BY DEF StaffWell
  <2>2. CASE w = t
    BY <1>1, <2>1, <2>2 DEF WorkerWell, Empty
  <2>3. CASE w # t
    BY <1>1, <2>1, <2>3, Kinds, WorkerStays
  <2> QED
    BY <2>2, <2>3
<1>4. \A c \in Callers : CallerWell(c)'
  <2> TAKE c \in Callers
  <2>1. CallerWell(c)
    BY DEF StaffWell
  <2>2. CASE c = t
    BY <1>1, <2>1, <2>2 DEF CallerWell
  <2>3. CASE c # t
    BY <1>1, <2>1, <2>3, Kinds, CallerStays
  <2> QED
    BY <2>2, <2>3
<1>5. StaffWell'
  BY <1>3, <1>4 DEF StaffWell
<1>6. \A c \in Callers : Where[c] = "waiting" => Where'[c] = "waiting"
  BY <1>1, Kinds
<1>7. ServedOnce'
  <2>1. \A w \in Workers : serving[w] # NoCaller => serving[w] \in Callers
    BY DEF Typed
  <2>2. \A i \in 1..Len(queue) : queue[i] \in Callers
    BY ElementOfSeq DEF Typed
  <2> QED
    BY <1>6, <2>1, <2>2 DEF ServedOnce
<1> QED
  BY <1>2, <1>5, <1>7, ListsStay, BudgetStays

\* A worker that goes on.
LEMMA WorkerMoves ==
  ASSUME Inv, NEW w \in Workers, NEW p \in PlaceNames,
         at' \in [Threads -> PlaceNames], Where' = [Where EXCEPT ![w] = p],
         UNCHANGED <<idle, inUse, returned, total, open, queue, serving, has, need, stopping>>,
         Where[w] \in Empty, p \in Empty
  PROVE  Inv'
<1>1. EndWell'
  BY Kinds, WhereTyped DEF Inv, EndWell
<1> QED
  BY <1>1, Kinds, Moves

LEMMA BellStep == ASSUME Inv, NEW w \in Workers, Bell(w) PROVE Inv'
<1> DEFINE after == [at EXCEPT ![w] = "lock"]
<1>1. after \in [Threads -> PlaceNames] /\ w \in Threads /\ at[w] = "bell"
  BY Kinds, Names DEF Inv, Typed, Bell
<1>2. \A x \in Threads : at[x] = "asleep" => after[x] = "asleep"
  BY <1>1 DEF Inv, Typed
<1>3. NotifyOne(after) /\ UNCHANGED <<idle, inUse, returned, total, open, queue, serving, has, need,
                                      stopping>>
  BY DEF Bell, lists, pool
<1>4. \A u \in Threads : after[u] = IF u = w THEN "lock" ELSE at[u]
  BY <1>1 DEF Inv, Typed
<1> HIDE DEF after
<1>5. /\ at' \in [Threads -> PlaceNames]
      /\ Where' = [u \in Threads |-> IF after[u] = "asleep" THEN "lock" ELSE after[u]]
  BY <1>1, <1>2, <1>3, NotifyWhere DEF Inv
<1>6. Where' = [Where EXCEPT ![w] = "lock"]
  BY <1>4, <1>5 DEF Where
<1>7. Where[w] \in Empty /\ "lock" \in Empty
  BY <1>1, WhereTyped DEF Empty, Inv
<1> QED
  BY <1>3, <1>5, <1>6, <1>7, Names, WorkerMoves

LEMMA RingStep == ASSUME Inv, NEW c \in Callers, Ring(c) PROVE Inv'
<1> DEFINE after == [at EXCEPT ![c] = "none"]
<1>1. after \in [Threads -> PlaceNames] /\ c \in Threads /\ at[c] = "ringing"
  BY Kinds, Names DEF Inv, Typed, Ring
<1>2. \A x \in Threads : at[x] = "asleep" => after[x] = "asleep"
  BY <1>1 DEF Inv, Typed
<1>3. NotifyOne(after) /\ UNCHANGED <<idle, inUse, returned, total, open, queue, serving, has, need,
                                      stopping>>
  BY DEF Ring, lists, pool
<1>4. \A u \in Threads : after[u] = IF u = c THEN "none" ELSE at[u]
  BY <1>1 DEF Inv, Typed
<1> HIDE DEF after
<1>5. /\ at' \in [Threads -> PlaceNames]
      /\ Where' = [u \in Threads |-> IF after[u] = "asleep" THEN "lock" ELSE after[u]]
  BY <1>1, <1>2, <1>3, NotifyWhere DEF Inv
<1>6. Where' = [Where EXCEPT ![c] = "none"]
  BY <1>4, <1>5 DEF Where
<1>7. Where[c] = "ringing"
  BY <1>1, WhereTyped DEF Inv
<1>8. EndWell'
  BY <1>3, <1>6, Kinds, WhereTyped DEF Inv, EndWell
<1> QED
  BY <1>1, <1>3, <1>5, <1>6, <1>7, <1>8, Kinds, Names, Moves

LEMMA WakeStep == ASSUME Inv, WakesForNothing PROVE Inv'
<1>1. PICK t \in Asleep : Goes(t, "lock")
  BY DEF WakesForNothing
<1>2. /\ UNCHANGED <<idle, inUse, returned, total, open, queue, serving, has, need, stopping>>
      /\ t \in Threads /\ at[t] = "asleep"
  BY DEF WakesForNothing, lists, pool, Asleep
<1>3. /\ at' \in [Threads -> PlaceNames]
      /\ Where' = [Where EXCEPT ![t] = "lock"] /\ Where[t] = "lock"
  BY <1>1, <1>2, GoesWhere, WhereTyped, Names DEF Inv
<1>4. Where' = Where
  BY <1>3, WhereTyped DEF Inv
<1>5. EndWell'
  BY <1>2, <1>4 DEF Inv, EndWell
<1>6. t \in Callers => Where[t] \notin {"holding", "waiting"} /\ "lock" # "holding"
  BY <1>3
<1> QED
  BY <1>2, <1>3, <1>5, <1>6, Names, Moves DEF Empty

-----------------------------------------------------------------------------
(* A task is submitted, taken and finished.                                *)

\* The caller that a worker serves.
LEMMA Served ==
  ASSUME Inv, NEW w \in Workers, serving[w] # NoCaller
  PROVE  /\ serving[w] \in Callers /\ serving[w] \in Threads /\ serving[w] # w
         /\ Where[serving[w]] = "waiting" /\ has[serving[w]] = {}
         /\ at[serving[w]] = "waiting"
<1>1. serving[w] \in Callers
  BY DEF Inv, Typed
<1>2. Where[serving[w]] = "waiting"
  BY DEF Inv, ServedOnce
<1>3. has[serving[w]] = {}
  BY <1>1, <1>2 DEF Inv, StaffWell, CallerWell
<1> QED
  BY <1>1, <1>2, <1>3, Kinds, WhereTyped DEF Inv

\* The places after an answer, and what they leave of the order of service.
LEMMA Answered ==
  ASSUME Inv, NEW w \in Workers, serving[w] # NoCaller, Pool!Finish(w),
         UNCHANGED <<idle, returned, stopping>>,
         Where' \in [Threads -> PlaceNames], Where'[w] = "idle",
         \A u \in Threads : u # w /\ u # serving[w] => Where'[u] = Where[u]
  PROVE  /\ serving' \in [Workers -> Callers \cup {NoCaller}]
         /\ ServedOnce' /\ EndWell'
<1>1. serving' = [serving EXCEPT ![w] = NoCaller] /\ queue' = queue
  BY DEF Pool!Finish
<1>2. serving' \in [Workers -> Callers \cup {NoCaller}]
  BY <1>1 DEF Inv, Typed
<1>3. /\ serving'[w] = NoCaller
      /\ \A v \in Workers : v # w => serving'[v] = serving[v]
  BY <1>1 DEF Inv, Typed
<1>4. /\ \A v \in Workers : serving[v] # NoCaller => serving[v] \in Callers
      /\ \A i \in 1..Len(queue) : queue[i] \in Callers
  BY ElementOfSeq DEF Inv, Typed
<1>5. \A v \in Workers : serving'[v] # NoCaller => Where'[serving'[v]] = "waiting"
  <2> TAKE v \in Workers
  <2> HAVE serving'[v] # NoCaller
  <2>1. v # w /\ serving'[v] = serving[v] /\ serving[v] \in Callers /\ serving[v] # serving[w]
    BY <1>3, <1>4 DEF Inv, ServedOnce
  <2>2. serving[v] \in Threads /\ serving[v] # w
    BY <2>1, Kinds
  <2> QED
    BY <2>1, <2>2 DEF Inv, ServedOnce
<1>6. \A i \in 1..Len(queue) : Where'[queue[i]] = "waiting"
  <2> TAKE i \in 1..Len(queue)
  <2>1. queue[i] \in Callers /\ queue[i] # serving[w] /\ Where[queue[i]] = "waiting"
    BY <1>4 DEF Inv, ServedOnce
  <2>2. queue[i] \in Threads /\ queue[i] # w
    BY <2>1, Kinds
  <2> QED
    BY <2>1, <2>2
<1>7. \A i \in 1..Len(queue) : \A v \in Workers : serving'[v] # queue[i]
  <2> TAKE i \in 1..Len(queue)
  <2> TAKE v \in Workers
  <2>1. queue[i] # NoCaller /\ serving[v] # queue[i]
    BY <1>4, LimitsAssumption DEF Inv, ServedOnce
  <2> QED
    BY <1>3, <2>1
<1>8. ServedOnce'
  BY <1>1, <1>3, <1>5, <1>6, <1>7 DEF Inv, ServedOnce
<1>9. EndWell'
  <2>1. Where'["dtor"] = Where["dtor"] /\ Where'["scanner"] = Where["scanner"]
    BY Kinds, Served
  <2>2. Where["dtor"] \notin {"lock", "gone"}
    BY DEF Inv, EndWell
  <2> QED
    BY <2>1, <2>2 DEF Inv, EndWell
<1> QED
  BY <1>2, <1>8, <1>9

LEMMA RefusedPlaces ==
  ASSUME Inv, NEW w \in Workers, serving[w] # NoCaller
  PROVE  /\ Refused(w) \in [Threads -> PlaceNames]
         /\ \A u \in Threads : Refused(w)[u] = IF u = w THEN "idle"
                                               ELSE IF u = serving[w] THEN "none" ELSE at[u]
<1>1. w \in Threads /\ serving[w] \in Threads /\ serving[w] # w
  BY Kinds, Served
<1> QED
  BY <1>1, Names DEF Refused, Inv, Typed

\* acquire answers with an empty guard.
LEMMA EmptyStep ==
  ASSUME Inv, NEW w \in Workers, Where[w] \in Empty, ReturnsEmpty(w)
  PROVE  Inv'
<1> USE DEF Inv
<1>1. /\ serving[w] # NoCaller /\ Pool!Finish(w) /\ at' = Refused(w)
      /\ UNCHANGED <<idle, inUse, returned, total, stopping, open, has, need, queue>>
      /\ serving' = [serving EXCEPT ![w] = NoCaller]
  BY DEF ReturnsEmpty, Pool!Finish, lists
<1> DEFINE c == serving[w]
<1>2. /\ c \in Callers /\ c \in Threads /\ c # w /\ w \in Threads
      /\ Where[c] = "waiting" /\ has[c] = {}
  BY <1>1, Kinds, Served
<1>3. at' \in [Threads -> PlaceNames]
  BY <1>1, RefusedPlaces
<1>4. /\ Where'[w] = "idle" /\ Where'[c] = "none"
      /\ \A u \in Threads : u # w /\ u # c => Where'[u] = Where[u]
      /\ Where' \in [Threads -> PlaceNames]
  BY <1>1, <1>2, <1>3, RefusedPlaces, Names DEF Where
<1> HIDE DEF c
<1>5. /\ serving' \in [Workers -> Callers \cup {NoCaller}]
      /\ ServedOnce' /\ EndWell'
  BY <1>1, <1>4, Answered DEF c
<1>6. \A v \in Workers : WorkerWell(v)'
  <2> TAKE v \in Workers
  <2>1. WorkerWell(v)
    BY DEF StaffWell
  <2>2. CASE v = w
    BY <1>1, <1>4, <2>1, <2>2 DEF WorkerWell, Empty, Typed
  <2>3. CASE v # w
    <3>1. Where'[v] = Where[v] /\ serving'[v] = serving[v]
      BY <1>1, <1>2, <1>4, <2>3, Kinds DEF Typed
    <3> QED
      BY <1>1, <2>1, <3>1, WorkerStays
  <2> QED
    BY <2>2, <2>3
<1>7. \A d \in Callers : CallerWell(d)'
  <2> TAKE d \in Callers
  <2>1. CallerWell(d)
    BY DEF StaffWell
  <2>2. CASE d = c
    BY <1>1, <1>2, <1>4, <2>2 DEF CallerWell
  <2>3. CASE d # c
    <3>1. Where'[d] = Where[d]
      BY <1>4, <2>3, Kinds
    <3> QED
      BY <1>1, <2>1, <3>1, CallerStays
  <2> QED
    BY <2>2, <2>3
<1>8. StaffWell'
  BY <1>1, <1>6, <1>7 DEF StaffWell
<1>9. Typed'
  BY <1>1, <1>3, <1>5 DEF Typed
<1> QED
  BY <1>1, <1>5, <1>8, <1>9, ListsStay, BudgetStays

LEMMA BeginStep == ASSUME Inv, NEW w \in Workers, Begin(w) PROVE Inv'
<1>1. Where[w] \in Empty /\ w \in Threads
  BY Kinds, WhereTyped DEF Begin, Empty, Inv
<1>2. CASE ReturnsEmpty(w)
  BY <1>1, <1>2, EmptyStep
<1>3. CASE Goes(w, "look") /\ UNCHANGED <<lists, pool, stopping, open, has, need>>
  <2>1. at' \in [Threads -> PlaceNames] /\ Where' = [Where EXCEPT ![w] = "look"]
    BY <1>1, <1>3, Names, GoesWhere DEF Inv
  <2> QED
    BY <1>1, <1>3, <2>1, Names, WorkerMoves DEF Empty, lists, pool
<1> QED
  BY <1>2, <1>3 DEF Begin

LEMMA LookStep == ASSUME Inv, NEW w \in Workers, Look(w) PROVE Inv'
<1>1. Where[w] \in Empty /\ w \in Threads
  BY Kinds, WhereTyped DEF Look, Empty, Inv
<1>2. PICK p \in {"expand", "lock"} : Goes(w, p)
  BY DEF Look
<1>3. p \in PlaceNames /\ p \in Empty /\ p # "asleep"
  BY Names DEF Empty
<1>4. at' \in [Threads -> PlaceNames] /\ Where' = [Where EXCEPT ![w] = p]
  BY <1>1, <1>2, <1>3, GoesWhere DEF Inv
<1> QED
  BY <1>1, <1>3, <1>4, WorkerMoves DEF Look, lists, pool

LEMMA AcquireStep == ASSUME Inv, NEW c \in Callers, Acquire(c) PROVE Inv'
<1> USE DEF Inv
<1>1. /\ at[c] = "none" /\ at["dtor"] = "none" /\ c \in Threads
      /\ queue' = Append(queue, c)
      /\ UNCHANGED <<idle, inUse, returned, total, stopping, open, serving, has, need>>
      /\ Goes(c, "waiting")
  BY Kinds DEF Acquire, Pool!Submit, lists
<1>2. /\ at' \in [Threads -> PlaceNames] /\ Where' = [Where EXCEPT ![c] = "waiting"]
      /\ Where[c] = "none" /\ Where["dtor"] = "none"
      /\ Where \in [Threads -> PlaceNames]
  BY <1>1, Names, Kinds, GoesWhere, WhereTyped
<1>3. \A u \in Threads : u # c => Where'[u] = Where[u]
  BY <1>2
<1>4. Where'[c] = "waiting"
  BY <1>1, <1>2
<1>5. /\ queue' \in Seq(Callers) /\ Len(queue') = Len(queue) + 1 /\ Len(queue) \in Nat
      /\ \A i \in 1..Len(queue) : queue'[i] = queue[i]
      /\ queue'[Len(queue) + 1] = c
  BY <1>1, AppendProperties, LenProperties DEF Typed
<1>6. Typed'
  BY <1>1, <1>2, <1>5 DEF Typed
<1>7. StaffWell'
  <2>1. \A w \in Workers : WorkerWell(w)'
    BY <1>1, <1>3, Kinds, WorkerStays DEF StaffWell
  <2>2. \A d \in Callers \ {c} : CallerWell(d)'
    BY <1>1, <1>3, Kinds, CallerStays DEF StaffWell
  <2>3. CallerWell(c)'
    BY <1>1, <1>2, <1>4 DEF StaffWell, CallerWell
  <2> QED
    BY <1>1, <2>1, <2>2, <2>3 DEF StaffWell
<1>8. ServedOnce'
  <2>1. /\ \A w \in Workers : serving[w] # NoCaller => serving[w] \in Threads
        /\ \A i \in 1..Len(queue) : queue[i] \in Threads
    BY ElementOfSeq, Kinds DEF Typed
  <2>2. c # NoCaller /\ \A w \in Workers : serving[w] # c
    BY <1>2, LimitsAssumption DEF ServedOnce
  <2>3. \A i \in 1..Len(queue) : queue[i] # c /\ Where'[queue[i]] = "waiting"
    BY <1>2, <1>3, <2>1 DEF ServedOnce
  <2>4. \A i \in 1..Len(queue') : i \in 1..Len(queue) \/ i = Len(queue) + 1
    BY <1>5
  <2>5. \A w \in Workers : serving[w] # NoCaller => Where'[serving[w]] = "waiting"
    BY <1>3, <2>1, <2>2 DEF ServedOnce
  <2>6. \A i \in 1..Len(queue') : /\ Where'[queue'[i]] = "waiting"
                                  /\ \A w \in Workers : serving[w] # queue'[i]
    BY <1>4, <1>5, <2>2, <2>3, <2>4 DEF ServedOnce
  <2>7. \A i, j \in 1..Len(queue') : queue'[i] = queue'[j] => i = j
    <3> SUFFICES ASSUME NEW i \in 1..Len(queue'), NEW j \in 1..Len(queue'), queue'[i] = queue'[j]
                 PROVE  i = j
      OBVIOUS
    <3>1. CASE i \in 1..Len(queue) /\ j \in 1..Len(queue)
      BY <1>5, <3>1 DEF ServedOnce
    <3>2. CASE i \in 1..Len(queue) /\ j = Len(queue) + 1
      BY <1>5, <2>3, <3>2
    <3>3. CASE i = Len(queue) + 1 /\ j \in 1..Len(queue)
      BY <1>5, <2>3, <3>3
    <3> QED
      BY <2>4, <3>1, <3>2, <3>3
  <2> QED
    BY <1>1, <2>5, <2>6, <2>7 DEF ServedOnce
<1>9. EndWell'
  BY <1>1, <1>2, <1>3, Kinds DEF EndWell
<1> QED
  BY <1>1, <1>6, <1>7, <1>8, <1>9, ListsStay, BudgetStays

LEMMA TakeStep == ASSUME Inv, NEW w \in Workers, Take(w) PROVE Inv'
<1> USE DEF Inv
<1>1. /\ at[w] = "idle" /\ w \in Threads /\ queue # <<>> /\ serving[w] = NoCaller
      /\ queue' = Tail(queue) /\ serving' = [serving EXCEPT ![w] = Head(queue)]
      /\ UNCHANGED <<idle, inUse, returned, total, stopping, open, has, need>>
      /\ Goes(w, "begin")
  BY Kinds DEF Take, Pool!Start, lists
<1>2. /\ at' \in [Threads -> PlaceNames] /\ Where' = [Where EXCEPT ![w] = "begin"]
      /\ Where[w] = "idle" /\ Where \in [Threads -> PlaceNames]
  BY <1>1, Names, GoesWhere, WhereTyped
<1>3. Where'[w] = "begin" /\ \A u \in Threads : u # w => Where'[u] = Where[u]
  BY <1>1, <1>2
<1> DEFINE c == Head(queue)
<1>4. /\ Len(queue) \in Nat /\ Len(queue) >= 1 /\ c = queue[1] /\ c \in Callers
      /\ queue' \in Seq(Callers) /\ Len(queue') = Len(queue) - 1
      /\ \A i \in 1..Len(queue') : queue'[i] = queue[i + 1]
  BY <1>1, HeadTailProperties, LenProperties, EmptySeq DEF Typed
<1> HIDE DEF c
<1>5. serving' = [serving EXCEPT ![w] = c] /\ c # NoCaller
  BY <1>1, <1>4, LimitsAssumption DEF c
<1>6. /\ serving' \in [Workers -> Callers \cup {NoCaller}]
      /\ serving'[w] = c /\ \A v \in Workers : v # w => serving'[v] = serving[v]
  BY <1>4, <1>5 DEF Typed
<1>7. Typed'
  BY <1>1, <1>2, <1>4, <1>6 DEF Typed
<1>8. StaffWell'
  <2>1. \A v \in Workers \ {w} : WorkerWell(v)'
    BY <1>1, <1>3, <1>6, Kinds, WorkerStays DEF StaffWell
  <2>2. WorkerWell(w)'
    <3>1. WorkerWell(w)
      BY DEF StaffWell
    <3> QED
      BY <1>1, <1>2, <1>3, <1>5, <1>6, <3>1 DEF WorkerWell
  <2>3. \A d \in Callers : CallerWell(d)'
    BY <1>1, <1>3, Kinds, CallerStays DEF StaffWell
  <2> QED
    BY <1>1, <2>1, <2>2, <2>3 DEF StaffWell
<1>9. ServedOnce'
  <2>1. /\ \A v \in Workers : serving[v] # NoCaller => serving[v] \in Callers
        /\ \A i \in 1..Len(queue) : queue[i] \in Callers
    BY ElementOfSeq DEF Typed
  <2>2. 1 \in 1..Len(queue) /\ \A i \in 1..Len(queue') : i + 1 \in 1..Len(queue) /\ i + 1 # 1
    BY <1>4
  <2>3. Where'[c] = "waiting" /\ \A v \in Workers : serving[v] # c
    BY <1>3, <1>4, <2>2, Kinds DEF ServedOnce
  <2>4. \A v \in Workers : serving'[v] # NoCaller => Where'[serving'[v]] = "waiting"
    <3> TAKE v \in Workers
    <3> HAVE serving'[v] # NoCaller
    <3>1. CASE v = w
      BY <1>6, <2>3, <3>1
    <3>2. CASE v # w
      <4>1. serving'[v] = serving[v] /\ serving[v] \in Callers /\ Where[serving[v]] = "waiting"
        BY <1>6, <2>1, <3>2 DEF ServedOnce
      <4> QED
        BY <1>3, <4>1, Kinds
    <3> QED
      BY <3>1, <3>2
  <2>5. \A u, v \in Workers : serving'[u] = serving'[v] /\ serving'[v] # NoCaller => u = v
    BY <1>6, <2>3 DEF ServedOnce
  <2>6. \A i \in 1..Len(queue') : /\ queue'[i] = queue[i + 1] /\ i + 1 \in 1..Len(queue)
                                  /\ queue'[i] \in Callers
    BY <1>4, <2>1, <2>2
  <2>7. \A i \in 1..Len(queue') : Where'[queue'[i]] = "waiting"
    BY <1>3, <2>6, Kinds DEF ServedOnce
  <2>8. \A i \in 1..Len(queue') : \A v \in Workers : serving'[v] # queue'[i]
    <3> TAKE i \in 1..Len(queue')
    <3>1. queue[i + 1] # c
      BY <1>4, <2>2, <2>6 DEF ServedOnce
    <3> QED
      BY <1>6, <2>6, <3>1 DEF ServedOnce
  <2>9. \A i, j \in 1..Len(queue') : queue'[i] = queue'[j] => i = j
    <3> SUFFICES ASSUME NEW i \in 1..Len(queue'), NEW j \in 1..Len(queue'), queue'[i] = queue'[j]
                 PROVE  i = j
      OBVIOUS
    <3>1. i + 1 = j + 1
      BY <2>6 DEF ServedOnce
    <3> QED
      BY <1>4, <3>1
  <2> QED
    BY <2>4, <2>5, <2>7, <2>8, <2>9 DEF ServedOnce
<1>10. EndWell'
  <2>1. Where'["dtor"] = Where["dtor"] /\ Where'["scanner"] = Where["scanner"]
    BY <1>3, Kinds
  <2>2. Where["dtor"] \notin {"lock", "gone"}
    BY <1>1 DEF EndWell
  <2> QED
    BY <1>1, <2>1, <2>2 DEF EndWell
<1> QED
  BY <1>1, <1>7, <1>8, <1>9, <1>10, ListsStay, BudgetStays

-----------------------------------------------------------------------------
(* Counting.                                                               *)

LEMMA Adds ==
  ASSUME NEW S, NEW T, IsFiniteSet(S), IsFiniteSet(T), S \cap T = {}
  PROVE  Cardinality(S \cup T) = Cardinality(S) + Cardinality(T)
<1>1. Cardinality(S \cup T) = Cardinality(S) + Cardinality(T) - Cardinality(S \cap T)
  BY FS_Union
<1>2. Cardinality(S \cap T) = 0 /\ Cardinality(S) \in Nat /\ Cardinality(T) \in Nat
  BY FS_EmptySet, FS_CardinalityType
<1> QED
  BY <1>1, <1>2

LEMMA Subtracts ==
  ASSUME NEW S, NEW T, IsFiniteSet(S), T \subseteq S
  PROVE  Cardinality(S \ T) = Cardinality(S) - Cardinality(T)
<1>1. IsFiniteSet(T) /\ IsFiniteSet(S \ T)
  BY FS_Subset
<1>2. S = (S \ T) \cup T /\ (S \ T) \cap T = {}
  OBVIOUS
<1>3. Cardinality(S) = Cardinality(S \ T) + Cardinality(T)
  BY <1>1, <1>2, Adds
<1>4. Cardinality(S \ T) \in Nat /\ Cardinality(T) \in Nat
  BY <1>1, FS_CardinalityType
<1> QED
  BY <1>3, <1>4

\* Sets of connections are finite.
LEMMA Counted ==
  ASSUME NEW S \in SUBSET Conns
  PROVE  IsFiniteSet(S) /\ Cardinality(S) \in Nat
BY LimitsAssumption, FS_Subset, FS_CardinalityType

\* The places of one worker.
PlacesOf(w, n) == {<<w, i>> : i \in 1..n}

LEMMA PlacesCounted ==
  ASSUME NEW w, NEW n \in 0..2
  PROVE  IsFiniteSet(PlacesOf(w, n)) /\ Cardinality(PlacesOf(w, n)) = n
<1>1. CASE n = 0
  <2>1. PlacesOf(w, n) = {}
    BY <1>1 DEF PlacesOf
  <2> QED
    BY <1>1, <2>1, FS_EmptySet
<1>2. CASE n = 1
  <2>1. PlacesOf(w, n) = {<<w, 1>>}
    BY <1>2 DEF PlacesOf
  <2> QED
    BY <1>2, <2>1, FS_Singleton
<1>3. CASE n = 2
  <2>1. PlacesOf(w, n) = {<<w, 1>>} \cup {<<w, 2>>} /\ {<<w, 1>>} \cap {<<w, 2>>} = {}
    BY <1>3 DEF PlacesOf
  <2> DEFINE S == {<<w, 1>>}
             T == {<<w, 2>>}
  <2>2. IsFiniteSet(S) /\ IsFiniteSet(T) /\ Cardinality(S) = 1 /\ Cardinality(T) = 1
    BY FS_Singleton
  <2>3. PlacesOf(w, n) = S \cup T /\ S \cap T = {}
    BY <2>1
  <2> HIDE DEF S, T
  <2>4. IsFiniteSet(S \cup T)
    BY <2>2, FS_Union
  <2>5. Cardinality(S \cup T) = 2
    BY <2>2, <2>3, Adds
  <2> QED
    BY <1>3, <2>2, <2>3, <2>4, <2>5
<1> QED
  BY <1>1, <1>2, <1>3

LEMMA ReservationsFinite == IsFiniteSet(Reservations) /\ Cardinality(Reservations) \in Nat
<1>1. IsFiniteSet(1..2)
  <2>1. 1..2 = {1} \cup {2}
    OBVIOUS
  <2>2. IsFiniteSet({1})
    BY FS_Singleton, Zenon
  <2>3. IsFiniteSet({1} \cup {2})
    BY <2>2, FS_AddElement, Zenon
  <2> QED
    BY <2>1, <2>3
<1>2. IsFiniteSet(Workers \X (1..2))
  BY <1>1, LimitsAssumption, FS_Product
<1>3. Reservations \subseteq Workers \X (1..2)
  BY DEF Reservations
<1> QED
  BY <1>2, <1>3, FS_Subset, FS_CardinalityType

LEMMA Reserves ==
  ASSUME Typed, NEW w \in Workers, NEW n \in 0..2, need[w] = 0, need' = [need EXCEPT ![w] = n]
  PROVE  Cardinality(Reservations') = Cardinality(Reservations) + n
<1>1. \A v \in Workers : need'[v] = IF v = w THEN n ELSE need[v]
  BY DEF Typed
<1>2. Reservations' = Reservations \cup PlacesOf(w, n)
  BY <1>1 DEF Reservations, PlacesOf
<1>3. Reservations \cap PlacesOf(w, n) = {}
  BY DEF Reservations, PlacesOf
<1> QED
  BY <1>2, <1>3, Adds, PlacesCounted, ReservationsFinite

LEMMA Settles ==
  ASSUME Typed, NEW w \in Workers, need' = [need EXCEPT ![w] = 0]
  PROVE  Cardinality(Reservations') = Cardinality(Reservations) - need[w]
<1>1. \A v \in Workers : need'[v] = IF v = w THEN 0 ELSE need[v]
  BY DEF Typed
<1>2. Reservations' = Reservations \ PlacesOf(w, need[w])
  BY <1>1 DEF Reservations, PlacesOf, Typed
<1>3. PlacesOf(w, need[w]) \subseteq Reservations
  BY DEF Reservations, PlacesOf, Typed
<1>4. need[w] \in 0..2
  BY DEF Typed
<1> QED
  BY <1>2, <1>3, <1>4, Subtracts, PlacesCounted, ReservationsFinite

-----------------------------------------------------------------------------
(* The steps of a worker that serves a caller.                             *)

\* A worker that is at work: the destructor has not come to its end.
LEMMA Working ==
  ASSUME Inv, NEW w \in Workers, Where[w] # "idle"
  PROVE  /\ serving[w] # NoCaller /\ Where["dtor"] \notin {"lock", "gone"}
         /\ returned \subseteq idle
<1>1. serving[w] # NoCaller
  BY DEF Inv, StaffWell, WorkerWell
<1> QED
  BY <1>1 DEF Inv, EndWell

\* Service and the end, when one worker goes on.
LEMMA WorkerGoes ==
  ASSUME Inv, NEW w \in Workers, NEW p \in PlaceNames, Where' = [Where EXCEPT ![w] = p],
         Where[w] # "idle", UNCHANGED <<queue, serving, stopping>>, returned' \subseteq idle'
  PROVE  /\ ServedOnce' /\ EndWell'
         /\ Where'[w] = p /\ \A u \in Threads : u # w => Where'[u] = Where[u]
<1>1. /\ Where \in [Threads -> PlaceNames] /\ w \in Threads
      /\ Where'[w] = p /\ \A u \in Threads : u # w => Where'[u] = Where[u]
  BY WhereTyped, Kinds DEF Inv
<1>2. /\ \A v \in Workers : serving[v] # NoCaller => serving[v] \in Callers
      /\ \A i \in 1..Len(queue) : queue[i] \in Callers
  BY ElementOfSeq DEF Inv, Typed
<1>3. \A c \in Callers : Where'[c] = Where[c]
  BY <1>1, Kinds
<1>4. ServedOnce'
  BY <1>2, <1>3 DEF Inv, ServedOnce
<1>5. EndWell'
  <2>1. Where'["dtor"] = Where["dtor"] /\ Where'["scanner"] = Where["scanner"]
    BY <1>1, Kinds
  <2> QED
    BY <2>1, Working DEF Inv, EndWell
<1> QED
  BY <1>1, <1>4, <1>5

LEMMA ExpandStep == ASSUME Inv, NEW w \in Workers, Expand(w) PROVE Inv'
<1> USE DEF Inv
<1> DEFINE room == IF MaxConn - total < 2 THEN MaxConn - total ELSE 2
           p == IF room = 0 THEN "lock" ELSE "opening"
<1>1. /\ at[w] = "expand" /\ total' = total + room /\ need' = [need EXCEPT ![w] = room]
      /\ Goes(w, p)
      /\ UNCHANGED <<idle, inUse, returned, stopping, open, has, queue, serving>>
  BY DEF Expand, pool
<1>2. room \in 0..2 /\ total + room \in 0..MaxConn /\ total \in Nat
  BY LimitsAssumption DEF Budget
<1>3. p \in PlaceNames /\ p # "asleep" /\ (p = "lock" => room = 0) /\ p \in {"lock", "opening"}
  BY Names
<1> HIDE DEF room, p
<1>4. /\ at' \in [Threads -> PlaceNames] /\ Where' = [Where EXCEPT ![w] = p]
      /\ Where[w] = "expand" /\ w \in Threads
  BY <1>1, <1>3, GoesWhere, WhereTyped, Kinds
<1>5. WorkerWell(w) /\ need[w] = 0 /\ has[w] = {}
  BY <1>4 DEF StaffWell, WorkerWell
<1>6. /\ ServedOnce' /\ EndWell'
      /\ Where'[w] = p /\ \A u \in Threads : u # w => Where'[u] = Where[u]
  BY <1>1, <1>3, <1>4, Working, WorkerGoes
<1>7. /\ need' \in [Workers -> 0..2] /\ need'[w] = room
      /\ \A v \in Workers : v # w => need'[v] = need[v]
  BY <1>1, <1>2 DEF Typed
<1>8. Typed'
  BY <1>1, <1>4, <1>7 DEF Typed
<1>9. StaffWell'
  <2>1. \A v \in Workers \ {w} : WorkerWell(v)'
    BY <1>1, <1>6, <1>7, Kinds, WorkerStays DEF StaffWell
  <2>2. WorkerWell(w)'
    BY <1>1, <1>3, <1>4, <1>5, <1>6, <1>7 DEF WorkerWell
  <2>3. \A d \in Callers : CallerWell(d)'
    BY <1>1, <1>6, Kinds, CallerStays DEF StaffWell
  <2> QED
    BY <1>1, <2>1, <2>2, <2>3 DEF StaffWell
<1>10. Budget'
  <2>1. Cardinality(Reservations') = Cardinality(Reservations) + room
    BY <1>1, <1>2, <1>5, Reserves
  <2>2. Cardinality(idle) \in Nat /\ Cardinality(inUse) \in Nat /\ Cardinality(Reservations) \in Nat
    BY Counted, ReservationsFinite DEF Typed
  <2> QED
    BY <1>1, <1>2, <2>1, <2>2, SMTT(30) DEF Budget
<1> QED
  BY <1>1, <1>6, <1>8, <1>9, <1>10, ListsStay

LEMMA OpeningStep == ASSUME Inv, NEW w \in Workers, Opening(w) PROVE Inv'
<1> USE DEF Inv
<1>1. PICK n \in (IF "open" \in Faults THEN 0..need[w] ELSE {need[w]}) :
        \E new \in Allocations(n, Conns \ open) : /\ open' = open \cup new
                                                  /\ has' = [has EXCEPT ![w] = new]
  BY DEF Opening
<1>2. PICK new \in Allocations(n, Conns \ open) : /\ open' = open \cup new
                                                  /\ has' = [has EXCEPT ![w] = new]
  BY <1>1
<1>3. new \subseteq Conns \ open /\ Cardinality(new) <= need[w]
  <2>1. n <= need[w]
    BY DEF Typed
  <2> QED
    BY <1>2, <2>1 DEF Allocations
<1>4. /\ at[w] = "opening" /\ Goes(w, "commit")
      /\ UNCHANGED <<idle, inUse, returned, total, stopping, need, queue, serving>>
  BY DEF Opening, lists, pool
<1>5. /\ at' \in [Threads -> PlaceNames] /\ Where' = [Where EXCEPT ![w] = "commit"]
      /\ Where[w] = "opening" /\ w \in Threads
  BY <1>4, Names, GoesWhere, WhereTyped, Kinds
<1>6. WorkerWell(w) /\ has[w] = {}
  BY <1>5 DEF StaffWell, WorkerWell
<1>7. /\ ServedOnce' /\ EndWell'
      /\ Where'[w] = "commit" /\ \A u \in Threads : u # w => Where'[u] = Where[u]
  BY <1>4, <1>5, Names, Working, WorkerGoes
<1>8. /\ has' \in [Threads -> SUBSET Conns] /\ has'[w] = new
      /\ \A u \in Threads : u # w => has'[u] = has[u]
  BY <1>2, <1>3, <1>5 DEF Typed
<1>9. Typed'
  BY <1>2, <1>3, <1>4, <1>5, <1>8 DEF Typed
<1>10. StaffWell'
  <2>1. \A v \in Workers \ {w} : WorkerWell(v)'
    BY <1>4, <1>7, <1>8, Kinds, WorkerStays DEF StaffWell
  <2>2. WorkerWell(w)'
    <3>1. new \cap inUse = {}
      BY <1>3 DEF ListsWell
    <3> QED
      BY <1>3, <1>4, <1>5, <1>6, <1>7, <1>8, <3>1 DEF WorkerWell
  <2>3. \A d \in Callers : CallerWell(d)'
    BY <1>4, <1>7, <1>8, Kinds, CallerStays DEF StaffWell
  <2> QED
    BY <1>8, <2>1, <2>2, <2>3, Kinds DEF StaffWell
<1>11. ListsWell'
  <2>1. \A u \in Threads : has[u] \subseteq open \ idle
    BY DEF ListsWell, HeldIsAlive
  <2>2. \A t \in Threads : has'[t] \subseteq open' \ idle'
    BY <1>2, <1>3, <1>4, <1>8, <2>1 DEF ListsWell
  <2>3. \A t, u \in Threads : t # u => has'[t] \cap has'[u] = {}
    <3> SUFFICES ASSUME NEW t \in Threads, NEW u \in Threads, t # u
                 PROVE  has'[t] \cap has'[u] = {}
      OBVIOUS
    <3>1. CASE t # w /\ u # w
      BY <1>8, <3>1 DEF ListsWell, HeldIsAlive
    <3>2. CASE t = w \/ u = w
      BY <1>3, <1>8, <2>1, <3>2
    <3> QED
      BY <3>1, <3>2
  <2> QED
    BY <1>2, <1>4, <2>2, <2>3 DEF ListsWell, HeldIsAlive
<1>12. Owned'
  BY <1>2, <1>4, <1>5, <1>6, <1>8 DEF Owned
<1>13. Budget'
  BY <1>4, BudgetStays
<1> QED
  BY <1>7, <1>9, <1>10, <1>11, <1>12, <1>13

LEMMA CommitStep == ASSUME Inv, NEW w \in Workers, Commit(w) PROVE Inv'
<1> USE DEF Inv
<1>1. /\ at[w] = "commit" /\ Goes(w, "bell")
      /\ total' = total - need[w] + Cardinality(has[w])
      /\ idle' = idle \cup has[w]
      /\ has' = [has EXCEPT ![w] = {}]
      /\ need' = [need EXCEPT ![w] = 0]
      /\ UNCHANGED <<inUse, returned, stopping, open, queue, serving>>
  BY DEF Commit, pool
<1>2. /\ at' \in [Threads -> PlaceNames] /\ Where' = [Where EXCEPT ![w] = "bell"]
      /\ Where[w] = "commit" /\ w \in Threads
  BY <1>1, Names, GoesWhere, WhereTyped, Kinds
<1>3. /\ WorkerWell(w) /\ has[w] \cap inUse = {} /\ Cardinality(has[w]) <= need[w]
      /\ has[w] \subseteq open \ idle
      /\ \A u \in Threads : u # w => has[u] \cap has[w] = {}
  BY <1>2 DEF StaffWell, WorkerWell, ListsWell, HeldIsAlive
<1>4. returned' \subseteq idle'
  BY <1>1, <1>2, Working
<1>5. /\ ServedOnce' /\ EndWell'
      /\ Where'[w] = "bell" /\ \A u \in Threads : u # w => Where'[u] = Where[u]
  BY <1>1, <1>2, <1>4, Names, WorkerGoes
<1>6. /\ has' \in [Threads -> SUBSET Conns] /\ has'[w] = {}
      /\ \A u \in Threads : u # w => has'[u] = has[u]
  BY <1>1, <1>2 DEF Typed
<1>7. /\ need' \in [Workers -> 0..2] /\ need'[w] = 0
      /\ \A v \in Workers : v # w => need'[v] = need[v]
  BY <1>1 DEF Typed
<1>8. has[w] \subseteq Conns
  BY <1>2 DEF Typed
<1>9. Typed'
  BY <1>1, <1>2, <1>6, <1>7, <1>8 DEF Typed
<1>10. StaffWell'
  <2>1. \A v \in Workers \ {w} : WorkerWell(v)'
    BY <1>1, <1>5, <1>6, <1>7, Kinds, WorkerStays DEF StaffWell
  <2>2. WorkerWell(w)'
    BY <1>1, <1>2, <1>3, <1>5, <1>6, <1>7 DEF WorkerWell
  <2>3. \A d \in Callers : CallerWell(d)'
    BY <1>1, <1>5, <1>6, Kinds, CallerStays DEF StaffWell
  <2> QED
    BY <1>6, <2>1, <2>2, <2>3, Kinds DEF StaffWell
<1>11. ListsWell'
  <2>1. \A t \in Threads : has'[t] \subseteq open' \ idle'
    BY <1>1, <1>3, <1>6 DEF ListsWell, HeldIsAlive
  <2>2. \A t \in Threads : \A u \in Threads \ {t} : has'[t] \cap has'[u] = {}
    BY <1>6 DEF ListsWell, HeldIsAlive
  <2> QED
    BY <1>1, <1>3, <2>1, <2>2 DEF ListsWell, HeldIsAlive
<1>12. Owned'
  BY <1>1, <1>6 DEF Owned
<1>13. Budget'
  <2>1. Cardinality(Reservations') = Cardinality(Reservations) - need[w]
    BY <1>1, Settles
  <2>2. /\ IsFiniteSet(idle) /\ IsFiniteSet(has[w])
        /\ Cardinality(idle) \in Nat /\ Cardinality(inUse) \in Nat /\ Cardinality(has[w]) \in Nat
    BY <1>8, Counted DEF Typed
  <2>3. Cardinality(idle') = Cardinality(idle) + Cardinality(has[w])
    <3>1. idle \cap has[w] = {}
      BY <1>3
    <3> QED
      BY <1>1, <2>2, <3>1, Adds
  <2>4. Cardinality(Reservations) \in Nat /\ Cardinality(Reservations') \in Int /\ need[w] \in 0..2
    BY <2>1, ReservationsFinite DEF Typed
  <2>5. Cardinality(Reservations') >= 0
    <3>1. need[w] <= Cardinality(Reservations)
      <4>1. PlacesOf(w, need[w]) \subseteq Reservations
        BY DEF PlacesOf, Reservations, Typed
      <4> QED
        BY <2>4, <4>1, PlacesCounted, ReservationsFinite, FS_Subset
    <3> QED
      BY <2>1, <2>4, <3>1
  <2>6. inUse' = inUse /\ stopping' = stopping
    BY <1>1
  <2> QED
    BY <1>1, <1>3, <2>1, <2>2, <2>3, <2>4, <2>5, <2>6, LimitsAssumption DEF Budget
<1> QED
  BY <1>5, <1>9, <1>10, <1>11, <1>12, <1>13

LEMMA BorrowStep ==
  ASSUME Inv, NEW w \in Workers, Where[w] = "lock", Borrow(w)
  PROVE  Inv'
<1> USE DEF Inv
<1>1. PICK conn \in idle :
        /\ idle' = idle \ {conn} /\ returned' = returned \ {conn}
        /\ inUse' = inUse \cup {conn} /\ has' = [has EXCEPT ![w] = {conn}]
        /\ Goes(w, "ping")
        /\ UNCHANGED <<total, stopping, open, need, queue, serving>>
  BY DEF Borrow, pool
<1>2. /\ at' \in [Threads -> PlaceNames] /\ Where' = [Where EXCEPT ![w] = "ping"] /\ w \in Threads
  BY <1>1, Names, GoesWhere, Kinds
<1>3. /\ WorkerWell(w) /\ has[w] = {} /\ conn \in open /\ conn \notin inUse /\ conn \in Conns
      /\ \A u \in Threads : conn \notin has[u]
  BY DEF StaffWell, WorkerWell, ListsWell, HeldIsAlive, Typed
<1>4. returned' \subseteq idle'
  BY <1>1, Working
<1>5. /\ ServedOnce' /\ EndWell'
      /\ Where'[w] = "ping" /\ \A u \in Threads : u # w => Where'[u] = Where[u]
  BY <1>1, <1>2, <1>4, Names, WorkerGoes
<1>6. /\ has' \in [Threads -> SUBSET Conns] /\ has'[w] = {conn}
      /\ \A u \in Threads : u # w => has'[u] = has[u]
  BY <1>1, <1>2, <1>3 DEF Typed
<1>7. Typed'
  BY <1>1, <1>2, <1>3, <1>6 DEF Typed
<1>8. StaffWell'
  <2>1. \A v \in Workers \ {w} : WorkerWell(v)'
    <3> TAKE v \in Workers \ {w}
    <3>1. v \in Threads /\ \A k \in has[v] : k \in inUse' <=> k \in inUse
      BY <1>1, <1>3, Kinds
    <3>2. WorkerWell(v)
      BY DEF StaffWell
    <3> QED
      BY <1>1, <1>5, <1>6, <3>1, <3>2, WorkerStays
  <2>2. WorkerWell(w)'
    BY <1>1, <1>3, <1>5, <1>6 DEF WorkerWell
  <2>3. \A d \in Callers : CallerWell(d)'
    <3> TAKE d \in Callers
    <3>1. CallerWell(d) /\ d \in Threads /\ d # w
      BY Kinds DEF StaffWell
    <3> QED
      BY <1>1, <1>5, <1>6, <3>1, CallerStays
  <2> QED
    BY <1>6, <2>1, <2>2, <2>3, Kinds DEF StaffWell
<1>9. ListsWell'
  <2>1. \A t \in Threads : has'[t] \subseteq open' \ idle'
    BY <1>1, <1>3, <1>6 DEF ListsWell, HeldIsAlive
  <2>2. \A t \in Threads : \A u \in Threads \ {t} : has'[t] \cap has'[u] = {}
    BY <1>3, <1>6 DEF ListsWell, HeldIsAlive
  <2> QED
    BY <1>1, <1>3, <2>1, <2>2 DEF ListsWell, HeldIsAlive
<1>10. Owned'
  BY <1>1, <1>2, <1>3, <1>6 DEF Owned
<1>11. Budget'
  <2>1. /\ IsFiniteSet(idle) /\ IsFiniteSet(inUse)
        /\ Cardinality(idle) \in Nat /\ Cardinality(inUse) \in Nat
    BY Counted DEF Typed
  <2>2. Cardinality(idle') = Cardinality(idle) - 1
    BY <1>1, <2>1, FS_RemoveElement
  <2>3. Cardinality(inUse') = Cardinality(inUse) + 1
    BY <1>1, <1>3, <2>1, FS_AddElement
  <2>4. Reservations' = Reservations /\ Cardinality(Reservations) \in Nat
    BY <1>1, ReservationsFinite DEF Reservations
  <2> QED
    BY <1>1, <2>1, <2>2, <2>3, <2>4 DEF Budget
<1> QED
  BY <1>5, <1>7, <1>8, <1>9, <1>10, <1>11

LEMMA LockStep == ASSUME Inv, NEW w \in Workers, Lock(w) \/ TimesOut(w) PROVE Inv'
<1>1. Where[w] = "lock" /\ w \in Threads /\ Where[w] \in Empty
  BY Kinds, WhereTyped DEF Lock, TimesOut, Inv, Empty
<1>2. CASE ReturnsEmpty(w)
  BY <1>1, <1>2, EmptyStep
<1>3. CASE Borrow(w)
  BY <1>1, <1>3, BorrowStep
<1>4. CASE Goes(w, "asleep") /\ UNCHANGED <<lists, pool, stopping, open, has, need>>
  <2>1. at' \in [Threads -> PlaceNames] /\ Where' = [Where EXCEPT ![w] = "lock"]
    BY <1>1, <1>4, Names, GoesWhere DEF Inv
  <2> QED
    BY <1>1, <1>4, <2>1, Names, WorkerMoves DEF lists, pool
<1> QED
  BY <1>2, <1>3, <1>4 DEF Lock, TimesOut

LEMMA PingFailsStep == ASSUME Inv, NEW w \in Workers, PingFails(w) PROVE Inv'
<1> USE DEF Inv
<1>1. /\ at[w] = "ping" /\ Goes(w, "delete")
      /\ total' = total - 1 /\ inUse' = inUse \ has[w]
      /\ UNCHANGED <<idle, returned, stopping, open, has, need, queue, serving>>
  BY DEF PingFails, pool
<1>2. /\ at' \in [Threads -> PlaceNames] /\ Where' = [Where EXCEPT ![w] = "delete"]
      /\ Where[w] = "ping" /\ w \in Threads
  BY <1>1, Names, GoesWhere, WhereTyped, Kinds
<1>3. WorkerWell(w) /\ need[w] = 0
  BY <1>2 DEF StaffWell, WorkerWell
<1>4. PICK k \in inUse : has[w] = {k}
  BY <1>2, <1>3 DEF WorkerWell
<1>5. /\ ServedOnce' /\ EndWell'
      /\ Where'[w] = "delete" /\ \A u \in Threads : u # w => Where'[u] = Where[u]
  BY <1>1, <1>2, Names, Working, WorkerGoes
<1>6. \A u \in Threads : u # w => k \notin has[u]
  BY <1>2, <1>4 DEF ListsWell, HeldIsAlive
<1>7. Typed'
  BY <1>1, <1>2 DEF Typed
<1>8. StaffWell'
  <2>1. \A v \in Workers \ {w} : WorkerWell(v)'
    <3> TAKE v \in Workers \ {w}
    <3>1. v \in Threads /\ \A j \in has[v] : j \in inUse' <=> j \in inUse
      BY <1>1, <1>4, <1>6, Kinds
    <3>2. WorkerWell(v)
      BY DEF StaffWell
    <3> QED
      BY <1>1, <1>5, <3>1, <3>2, WorkerStays
  <2>2. WorkerWell(w)'
    <3>1. has'[w] \cap inUse' = {}
      BY <1>1
    <3> QED
      BY <1>1, <1>2, <1>3, <1>5, <3>1 DEF WorkerWell
  <2>3. \A d \in Callers : CallerWell(d)'
    <3> TAKE d \in Callers
    <3>1. CallerWell(d) /\ d \in Threads /\ d # w
      BY Kinds DEF StaffWell
    <3>2. \A j \in has[d] : j \in inUse => j \in inUse'
      BY <1>1, <1>4, <1>6, <3>1
    <3> QED
      BY <1>1, <1>5, <3>1, <3>2, CallerStays
  <2> QED
    BY <1>1, <2>1, <2>2, <2>3 DEF StaffWell
<1>9. ListsWell' /\ Owned'
  BY <1>1 DEF ListsWell, HeldIsAlive, Owned
<1>10. Budget'
  <2>1. /\ IsFiniteSet(inUse) /\ Cardinality(idle) \in Nat /\ Cardinality(inUse) \in Nat
    BY Counted DEF Typed
  <2>2. Cardinality(inUse') = Cardinality(inUse) - 1
    BY <1>1, <1>4, <2>1, FS_RemoveElement
  <2>3. Cardinality(inUse') \in Nat
    BY <1>7, Counted DEF Typed
  <2>4. Reservations' = Reservations /\ Cardinality(Reservations) \in Nat
    BY <1>1, ReservationsFinite DEF Reservations
  <2> QED
    BY <1>1, <2>1, <2>2, <2>3, <2>4, LimitsAssumption DEF Budget
<1> QED
  BY <1>5, <1>7, <1>8, <1>9, <1>10

\* The guard goes to the caller.
LEMMA HandStep == ASSUME Inv, NEW w \in Workers, Hand(w) PROVE Inv'
<1> USE DEF Inv
<1> DEFINE c == serving[w]
<1>1. /\ at[w] = "ping" /\ Pool!Finish(w)
      /\ at' = [at EXCEPT ![w] = "idle", ![c] = "holding"]
      /\ has' = [has EXCEPT ![w] = {}, ![c] = has[w]]
      /\ UNCHANGED <<idle, inUse, returned, total, stopping, open, need, queue>>
      /\ serving' = [serving EXCEPT ![w] = NoCaller]
  BY DEF Hand, lists, Pool!Finish
<1>2. Where[w] = "ping" /\ w \in Threads
  BY <1>1, WhereTyped, Kinds
<1>3. serving[w] # NoCaller
  BY <1>2, Working
<1>4. /\ c \in Callers /\ c \in Threads /\ c # w
      /\ Where[c] = "waiting" /\ has[c] = {}
  BY <1>3, Served
<1>5. /\ at' \in [Threads -> PlaceNames]
      /\ at'[w] = "idle" /\ at'[c] = "holding"
      /\ \A u \in Threads : u # w /\ u # c => at'[u] = at[u]
  BY <1>1, <1>2, <1>4, Names DEF Typed
<1>6. /\ Where'[w] = "idle" /\ Where'[c] = "holding"
      /\ \A u \in Threads : u # w /\ u # c => Where'[u] = Where[u]
      /\ Where' \in [Threads -> PlaceNames]
  BY <1>2, <1>4, <1>5, Names DEF Where
<1>7. /\ has' \in [Threads -> SUBSET Conns] /\ has'[w] = {} /\ has'[c] = has[w]
      /\ \A u \in Threads : u # w /\ u # c => has'[u] = has[u]
  BY <1>1, <1>2, <1>4 DEF Typed
<1> HIDE DEF c
<1>8. /\ serving' \in [Workers -> Callers \cup {NoCaller}]
      /\ ServedOnce' /\ EndWell'
  BY <1>1, <1>3, <1>6, Answered DEF c
<1>9. WorkerWell(w) /\ need[w] = 0 /\ has[w] \subseteq inUse
  BY <1>2 DEF StaffWell, WorkerWell
<1>10. Typed'
  BY <1>1, <1>5, <1>7, <1>8 DEF Typed
<1>11. StaffWell'
  <2>1. \A v \in Workers \ {w} : WorkerWell(v)'
    <3> TAKE v \in Workers \ {w}
    <3>1. v \in Threads /\ v # c /\ WorkerWell(v)
      BY <1>4, Kinds DEF StaffWell
    <3>2. serving'[v] = serving[v]
      BY <1>1 DEF Typed
    <3> QED
      BY <1>1, <1>6, <1>7, <3>1, <3>2, WorkerStays
  <2>2. WorkerWell(w)'
    <3>1. serving'[w] = NoCaller
      BY <1>1 DEF Typed
    <3> QED
      BY <1>1, <1>6, <1>7, <1>9, <3>1 DEF WorkerWell
  <2>3. \A d \in Callers \ {c} : CallerWell(d)'
    <3> TAKE d \in Callers \ {c}
    <3>1. d \in Threads /\ d # w /\ CallerWell(d)
      BY Kinds DEF StaffWell
    <3> QED
      BY <1>1, <1>6, <1>7, <3>1, CallerStays
  <2>4. \A d \in Callers : d = c => CallerWell(d)'
    BY <1>1, <1>6, <1>7, <1>9 DEF CallerWell
  <2>5. has'["scanner"] = {} /\ has'["dtor"] = {}
    BY <1>4, <1>7, Kinds DEF StaffWell
  <2> QED
    BY <2>1, <2>2, <2>3, <2>4, <2>5 DEF StaffWell
<1>12. ListsWell'
  <2>1. \A t \in Threads : has'[t] \subseteq open' \ idle'
    <3> TAKE t \in Threads
    <3>1. has[t] \subseteq open \ idle /\ has[w] \subseteq open \ idle
      BY <1>2 DEF ListsWell, HeldIsAlive
    <3> QED
      BY <1>1, <1>7, <3>1
  <2>2. \A t \in Threads : \A u \in Threads \ {t} : has'[t] \cap has'[u] = {}
    <3> TAKE t \in Threads
    <3> TAKE u \in Threads \ {t}
    <3>1. /\ has[t] \cap has[u] = {}
          /\ t # w => has[t] \cap has[w] = {}
          /\ u # w => has[u] \cap has[w] = {}
      BY <1>2 DEF ListsWell, HeldIsAlive
    <3> QED
      BY <1>7, <3>1
  <2> QED
    BY <1>1, <2>1, <2>2 DEF ListsWell, HeldIsAlive
<1>13. Owned'
  <2> SUFFICES ASSUME NEW k \in open \ idle PROVE \E t \in Threads : k \in has'[t]
    BY <1>1 DEF Owned
  <2>1. PICK t \in Threads : k \in has[t]
    BY DEF Owned
  <2>2. CASE t = w
    BY <1>4, <1>7, <2>1, <2>2
  <2>3. CASE t # w
    BY <1>4, <1>7, <2>1, <2>3
  <2> QED
    BY <2>2, <2>3
<1>14. Budget'
  BY <1>1, BudgetStays
<1> QED
  BY <1>8, <1>10, <1>11, <1>12, <1>13, <1>14

LEMMA DeleteStep == ASSUME Inv, NEW w \in Workers, Delete(w) PROVE Inv'
<1> USE DEF Inv
<1> DEFINE c == serving[w]
           after == Refused(w)
<1>1. /\ at[w] = "delete" /\ Pool!Finish(w) /\ NotifyOne(after)
      /\ open' = open \ has[w]
      /\ has' = [has EXCEPT ![w] = {}]
      /\ UNCHANGED <<idle, inUse, returned, total, stopping, need, queue>>
      /\ serving' = [serving EXCEPT ![w] = NoCaller]
  BY DEF Delete, lists, Pool!Finish
<1>2. Where[w] = "delete" /\ w \in Threads
  BY <1>1, WhereTyped, Kinds
<1>3. serving[w] # NoCaller
  BY <1>2, Working
<1>4. /\ c \in Callers /\ c \in Threads /\ c # w /\ at[c] = "waiting"
      /\ Where[c] = "waiting" /\ has[c] = {}
  BY <1>3, Served
<1>5. /\ after \in [Threads -> PlaceNames]
      /\ \A u \in Threads : after[u] = IF u = w THEN "idle" ELSE IF u = c THEN "none" ELSE at[u]
  BY <1>3, RefusedPlaces
<1>6. \A x \in Threads : at[x] = "asleep" => after[x] = "asleep"
  BY <1>1, <1>4, <1>5
<1> HIDE DEF c, after
<1>7. /\ at' \in [Threads -> PlaceNames]
      /\ Where' = [u \in Threads |-> IF after[u] = "asleep" THEN "lock" ELSE after[u]]
  BY <1>1, <1>5, <1>6, NotifyWhere
<1>8. /\ Where'[w] = "idle" /\ Where'[c] = "none"
      /\ \A u \in Threads : u # w /\ u # c => Where'[u] = Where[u]
  BY <1>2, <1>4, <1>5, <1>7 DEF Where
<1>9. Where' \in [Threads -> PlaceNames]
  BY <1>5, <1>7, Names
<1>10. /\ serving' \in [Workers -> Callers \cup {NoCaller}]
       /\ ServedOnce' /\ EndWell'
  BY <1>1, <1>3, <1>8, <1>9, Answered DEF c
<1>11. /\ has' \in [Threads -> SUBSET Conns] /\ has'[w] = {}
       /\ \A u \in Threads : u # w => has'[u] = has[u]
  BY <1>1, <1>2 DEF Typed
<1>12. /\ WorkerWell(w) /\ need[w] = 0 /\ has[w] \cap inUse = {} /\ has[w] \cap idle = {}
       /\ \A u \in Threads : u # w => has[u] \cap has[w] = {}
  BY <1>2 DEF StaffWell, WorkerWell, ListsWell, HeldIsAlive
<1>13. Typed'
  BY <1>1, <1>7, <1>10, <1>11 DEF Typed
<1>14. StaffWell'
  <2>1. \A v \in Workers \ {w} : WorkerWell(v)'
    <3> TAKE v \in Workers \ {w}
    <3>1. v \in Threads /\ v # c /\ WorkerWell(v)
      BY <1>4, Kinds DEF StaffWell
    <3>2. serving'[v] = serving[v]
      BY <1>1 DEF Typed
    <3> QED
      BY <1>1, <1>8, <1>11, <3>1, <3>2, WorkerStays
  <2>2. WorkerWell(w)'
    <3>1. serving'[w] = NoCaller
      BY <1>1 DEF Typed
    <3> QED
      BY <1>1, <1>8, <1>11, <1>12, <3>1 DEF WorkerWell
  <2>3. \A d \in Callers \ {c} : CallerWell(d)'
    <3> TAKE d \in Callers \ {c}
    <3>1. d \in Threads /\ d # w /\ CallerWell(d)
      BY Kinds DEF StaffWell
    <3> QED
      BY <1>1, <1>8, <1>11, <3>1, CallerStays
  <2>4. \A d \in Callers : d = c => CallerWell(d)'
    BY <1>4, <1>8, <1>11 DEF CallerWell
  <2>5. has'["scanner"] = {} /\ has'["dtor"] = {}
    BY <1>11, Kinds DEF StaffWell
  <2> QED
    BY <2>1, <2>2, <2>3, <2>4, <2>5 DEF StaffWell
<1>15. ListsWell'
  <2>1. \A t \in Threads : has'[t] \subseteq open' \ idle'
    BY <1>1, <1>11, <1>12 DEF ListsWell, HeldIsAlive
  <2>2. \A t \in Threads : \A u \in Threads \ {t} : has'[t] \cap has'[u] = {}
    BY <1>11 DEF ListsWell, HeldIsAlive
  <2> QED
    BY <1>1, <1>12, <2>1, <2>2 DEF ListsWell, HeldIsAlive
<1>16. Owned'
  BY <1>1, <1>11 DEF Owned
<1>17. Budget'
  BY <1>1, BudgetStays
<1> QED
  BY <1>10, <1>13, <1>14, <1>15, <1>16, <1>17

-----------------------------------------------------------------------------
(* The callers, the scanner and the destructor.                            *)

LEMMA ReleaseStep == ASSUME Inv, NEW c \in Callers, Release(c) PROVE Inv'
<1> USE DEF Inv
<1>1. /\ at[c] = "holding" /\ at["dtor"] # "gone"
      /\ has' = [has EXCEPT ![c] = {}]
      /\ UNCHANGED <<total, stopping, need, queue, serving>>
  BY DEF Release, pool
<1>2. /\ Where[c] = "holding" /\ c \in Threads /\ Where["dtor"] # "gone"
      /\ Where \in [Threads -> PlaceNames]
  BY <1>1, WhereTyped, Kinds
<1>3. /\ has[c] \subseteq inUse /\ has[c] \subseteq open \ idle /\ has[c] \subseteq Conns
      /\ \A u \in Threads : u # c => has[u] \cap has[c] = {}
  BY <1>2 DEF StaffWell, CallerWell, ListsWell, HeldIsAlive, Typed
<1>4. PICK p \in {"none", "ringing"} : Goes(c, p)
  BY DEF Release
<1>5. p \in PlaceNames /\ p # "asleep" /\ p # "holding"
  BY Names
<1>6. at' \in [Threads -> PlaceNames] /\ Where' = [Where EXCEPT ![c] = p]
  BY <1>2, <1>4, <1>5, GoesWhere
<1>7. Where'[c] = p /\ \A u \in Threads : u # c => Where'[u] = Where[u]
  BY <1>2, <1>6
<1>8. /\ has' \in [Threads -> SUBSET Conns] /\ has'[c] = {}
      /\ \A u \in Threads : u # c => has'[u] = has[u]
  BY <1>1, <1>2 DEF Typed
<1>9. /\ inUse' = inUse \ has[c]
      /\ \/ stopping /\ open' = open \ has[c] /\ UNCHANGED <<idle, returned>>
         \/ /\ ~stopping /\ idle' = idle \cup has[c] /\ returned' = returned \cup has[c]
            /\ UNCHANGED open
  BY <1>3 DEF Release
<1>10. Typed'
  BY <1>1, <1>3, <1>6, <1>8, <1>9 DEF Typed
<1>11. StaffWell'
  <2>1. \A v \in Workers : WorkerWell(v)'
    <3> TAKE v \in Workers
    <3>1. v \in Threads /\ v # c /\ WorkerWell(v)
      BY Kinds DEF StaffWell
    <3>2. \A k \in has[v] : k \in inUse' <=> k \in inUse
      BY <1>3, <1>9, <3>1
    <3> QED
      BY <1>1, <1>7, <1>8, <3>1, <3>2, WorkerStays
  <2>2. \A d \in Callers \ {c} : CallerWell(d)'
    <3> TAKE d \in Callers \ {c}
    <3>1. d \in Threads /\ CallerWell(d)
      BY Kinds DEF StaffWell
    <3>2. \A k \in has[d] : k \in inUse => k \in inUse'
      BY <1>3, <1>9, <3>1
    <3> QED
      BY <1>7, <1>8, <3>1, <3>2, CallerStays
  <2>3. CallerWell(c)'
    BY <1>5, <1>7, <1>8 DEF CallerWell
  <2>4. has'["scanner"] = {} /\ has'["dtor"] = {}
    BY <1>8, Kinds DEF StaffWell
  <2> QED
    BY <2>1, <2>2, <2>3, <2>4 DEF StaffWell
<1>12. ServedOnce'
  <2>1. /\ \A v \in Workers : serving[v] # NoCaller => serving[v] \in Threads
        /\ \A i \in 1..Len(queue) : queue[i] \in Threads
    BY ElementOfSeq, Kinds DEF Typed
  <2>2. \A t \in Threads : Where[t] = "waiting" => Where'[t] = "waiting"
    BY <1>2, <1>7
  <2> QED
    BY <1>1, <2>1, <2>2 DEF ServedOnce
<1>13. ListsWell'
  <2>1. \A t \in Threads : has'[t] \subseteq open' \ idle'
    <3> TAKE t \in Threads
    <3>1. has[t] \subseteq open \ idle /\ (t # c => has[t] \cap has[c] = {})
      BY <1>3 DEF ListsWell, HeldIsAlive
    <3> QED
      BY <1>8, <1>9, <3>1
  <2>2. \A t \in Threads : \A u \in Threads \ {t} : has'[t] \cap has'[u] = {}
    BY <1>8 DEF ListsWell, HeldIsAlive
  <2> QED
    BY <1>3, <1>9, <2>1, <2>2 DEF ListsWell, HeldIsAlive
<1>14. Owned'
  <2> SUFFICES ASSUME NEW k \in open' \ idle' PROVE \E t \in Threads : k \in has'[t]
    BY DEF Owned
  <2>1. k \in open \ idle /\ k \notin has[c]
    BY <1>9
  <2>2. PICK t \in Threads : k \in has[t]
    BY <2>1 DEF Owned
  <2> QED
    BY <1>8, <2>1, <2>2
<1>15. EndWell'
  <2>1. Where'["dtor"] = Where["dtor"] /\ Where'["scanner"] = Where["scanner"]
    BY <1>7, Kinds
  <2>2. returned' \subseteq idle'
    BY <1>2, <1>9 DEF EndWell
  <2> QED
    BY <1>1, <1>2, <2>1, <2>2 DEF EndWell
<1>16. Budget'
  <2>1. /\ IsFiniteSet(idle) /\ IsFiniteSet(inUse) /\ IsFiniteSet(has[c])
        /\ Cardinality(idle) \in Nat /\ Cardinality(inUse) \in Nat /\ Cardinality(has[c]) \in Nat
    BY <1>3, Counted DEF Typed
  <2>2. Cardinality(inUse') = Cardinality(inUse) - Cardinality(has[c])
    BY <1>3, <1>9, <2>1, Subtracts
  <2>3. Reservations' = Reservations /\ Cardinality(Reservations) \in Nat
    BY <1>1, ReservationsFinite DEF Reservations
  <2>4. CASE stopping /\ idle' = idle
    BY <1>1, <2>1, <2>2, <2>3, <2>4 DEF Budget
  <2>5. CASE idle' = idle \cup has[c]
    <3>1. idle \cap has[c] = {}
      BY <1>3
    <3>2. Cardinality(idle') = Cardinality(idle) + Cardinality(has[c])
      BY <2>1, <2>5, <3>1, Adds
    <3> QED
      BY <1>1, <2>1, <2>2, <2>3, <3>2 DEF Budget
  <2> QED
    BY <1>9, <2>4, <2>5
<1> QED
  BY <1>10, <1>11, <1>12, <1>13, <1>14, <1>15, <1>16

LEMMA ScannerLocksStep == ASSUME Inv, ScannerLocks PROVE Inv'
<1>1. PICK p \in {"exited", "asleep"} : Goes("scanner", p)
  BY DEF ScannerLocks
<1> DEFINE q == IF p = "asleep" THEN "lock" ELSE p
<1>2. /\ UNCHANGED <<idle, inUse, returned, total, open, queue, serving, has, need, stopping>>
      /\ at["scanner"] = "lock"
  BY DEF ScannerLocks, lists, pool
<1>3. p \in PlaceNames /\ q \in PlaceNames /\ q # "holding"
  BY Names
<1>4. /\ at' \in [Threads -> PlaceNames] /\ Where' = [Where EXCEPT !["scanner"] = q]
      /\ Where["scanner"] = "lock" /\ "scanner" \in Threads
      /\ Where \in [Threads -> PlaceNames]
  BY <1>1, <1>2, <1>3, Kinds, GoesWhere, WhereTyped DEF Inv
<1> HIDE DEF q
<1>5. EndWell'
  <2>1. Where'["dtor"] = Where["dtor"]
    BY <1>4, Kinds
  <2>2. Where["dtor"] \notin {"joined", "closing", "lock", "gone"}
    BY <1>4 DEF Inv, EndWell
  <2> QED
    BY <1>2, <2>1, <2>2 DEF Inv, EndWell
<1> QED
  BY <1>2, <1>3, <1>4, <1>5, Kinds, Moves

LEMMA ScanStep == ASSUME Inv, Scan PROVE Inv'
<1> USE DEF Inv
<1>1. at["scanner"] = "asleep" /\ UNCHANGED <<stopping, has, need, queue, serving>>
  BY DEF Scan, pool
<1>2. /\ Where["scanner"] = "lock" /\ Where \in [Threads -> PlaceNames] /\ "scanner" \in Threads
      /\ Where["dtor"] \notin {"joined", "closing", "lock", "gone"}
  BY <1>1, WhereTyped, Kinds DEF EndWell
<1>3. returned \subseteq idle
  BY <1>2 DEF EndWell
<1>4. CASE Goes("scanner", "exited") /\ UNCHANGED <<lists, open>>
  <2>1. at' \in [Threads -> PlaceNames] /\ Where' = [Where EXCEPT !["scanner"] = "exited"]
    BY <1>2, <1>4, Names, GoesWhere
  <2>2. Where'["dtor"] = Where["dtor"]
    BY <1>2, <2>1, Kinds
  <2>3. UNCHANGED <<idle, inUse, returned, total, open>>
    BY <1>4 DEF lists
  <2>4. EndWell'
    BY <1>1, <1>2, <2>2, <2>3 DEF EndWell
  <2> QED
    BY <1>1, <1>2, <2>1, <2>3, <2>4, Kinds, Names, Moves
<1>5. CASE /\ ~stopping /\ Goes("scanner", "lock") /\ UNCHANGED inUse
           /\ \E gone \in Stale : /\ idle' = idle \ gone
                                  /\ returned' = returned \ gone
                                  /\ open' = open \ gone
                                  /\ total' = total - Cardinality(gone)
  <2>1. PICK gone \in Stale : /\ idle' = idle \ gone
                              /\ returned' = returned \ gone
                              /\ open' = open \ gone
                              /\ total' = total - Cardinality(gone)
    BY <1>5
  <2>2. gone \subseteq idle
    BY <1>3 DEF Stale
  <2>3. at' \in [Threads -> PlaceNames] /\ Where' = [Where EXCEPT !["scanner"] = "lock"]
    BY <1>2, <1>5, Names, GoesWhere
  <2>4. Where' = Where
    BY <1>2, <2>3
  <2>5. Typed'
    BY <1>1, <1>5, <2>1, <2>3 DEF Typed
  <2>6. StaffWell' /\ ServedOnce'
    BY <1>1, <1>5, <2>4 DEF StaffWell, WorkerWell, CallerWell, ServedOnce
  <2>7. ListsWell'
    <3>1. \A t \in Threads : has'[t] \subseteq open' \ idle'
      BY <1>1, <2>1, <2>2 DEF ListsWell, HeldIsAlive
    <3> QED
      BY <1>1, <1>5, <2>1, <2>2, <3>1 DEF ListsWell, HeldIsAlive
  <2>8. Owned'
    BY <1>1, <2>1 DEF Owned
  <2>9. EndWell'
    BY <1>1, <1>2, <1>3, <2>1, <2>4 DEF EndWell
  <2>10. Budget'
    <3>1. /\ IsFiniteSet(idle) /\ Cardinality(idle) \in Nat /\ Cardinality(inUse) \in Nat
          /\ Cardinality(gone) \in Nat /\ Cardinality(idle') \in Nat
      BY <2>2, <2>5, Counted DEF Typed
    <3>2. Cardinality(idle') = Cardinality(idle) - Cardinality(gone)
      BY <2>1, <2>2, <3>1, Subtracts
    <3>3. Reservations' = Reservations /\ Cardinality(Reservations) \in Nat
      BY <1>1, ReservationsFinite DEF Reservations
    <3> QED
      BY <1>1, <1>5, <2>1, <3>1, <3>2, <3>3, LimitsAssumption DEF Budget
  <2> QED
    BY <2>5, <2>6, <2>7, <2>8, <2>9, <2>10
<1> QED
  BY <1>4, <1>5 DEF Scan

\* The destructor goes on.
LEMMA DtorMoves ==
  ASSUME Inv, NEW p \in PlaceNames, p \notin {"none", "gone"}, Goes("dtor", p), stopping',
         Where["dtor"] # "gone",
         UNCHANGED <<idle, inUse, returned, total, open, queue, serving, has, need>>,
         p \in {"joined", "closing", "lock", "asleep"} => Where["scanner"] = "exited",
         p \in {"lock", "asleep"} => Where["dtor"] = "lock"
  PROVE  Inv'
<1> DEFINE q == IF p = "asleep" THEN "lock" ELSE p
<1>1. q \in PlaceNames /\ q \notin {"none", "gone"} /\ (q = "lock" => p \in {"lock", "asleep"})
  BY Names
<1>2. q \in {"joined", "closing", "lock"} => p \in {"joined", "closing", "lock", "asleep"}
  OBVIOUS
<1>3. /\ at' \in [Threads -> PlaceNames] /\ Where' = [Where EXCEPT !["dtor"] = q]
      /\ Where \in [Threads -> PlaceNames] /\ "dtor" \in Threads
  BY Kinds, GoesWhere, WhereTyped DEF Inv
<1> HIDE DEF q
<1>4. Where'["dtor"] = q /\ Where'["scanner"] = Where["scanner"]
  BY <1>3, Kinds
<1>5. EndWell'
  BY <1>1, <1>2, <1>4 DEF Inv, EndWell
<1> QED
  BY <1>1, <1>3, <1>5, Kinds, Moves

LEMMA DtorEarlySteps ==
  ASSUME Inv, DtorStop \/ DtorNotifyAll \/ DtorJoinScanner \/ DtorClosePool
  PROVE  Inv'
<1>0. \A t \in Threads : at[t] # "asleep" => Where[t] = at[t]
  BY WhereTyped DEF Inv
<1>1. CASE DtorStop
  <2>1. /\ Goes("dtor", "flagged") /\ stopping' /\ Where["dtor"] = "none"
        /\ UNCHANGED <<idle, inUse, returned, total, open, queue, serving, has, need>>
    BY <1>0, <1>1, Kinds DEF DtorStop, lists, pool
  <2> QED
    BY <2>1, Names, DtorMoves
<1>2. CASE DtorNotifyAll
  <2> DEFINE after == [at EXCEPT !["dtor"] = "told"]
  <2>1. /\ NotifyAll(after) /\ at["dtor"] = "flagged" /\ Where["dtor"] = "flagged"
        /\ UNCHANGED <<idle, inUse, returned, total, open, queue, serving, has, need, stopping>>
    BY <1>0, <1>2, Kinds DEF DtorNotifyAll, lists, pool
  <2>2. /\ after \in [Threads -> PlaceNames]
        /\ \A u \in Threads : after[u] = IF u = "dtor" THEN "told" ELSE at[u]
    BY Names, Kinds DEF Inv, Typed
  <2> HIDE DEF after
  <2>3. \A x \in Threads : at[x] = "asleep" => after[x] = "asleep"
    BY <2>1, <2>2
  <2>4. /\ at' \in [Threads -> PlaceNames]
        /\ Where' = [u \in Threads |-> IF after[u] = "asleep" THEN "lock" ELSE after[u]]
    BY <2>1, <2>2, <2>3, NotifyWhere DEF Inv
  <2>5. Where' = [Where EXCEPT !["dtor"] = "told"]
    BY <2>2, <2>4 DEF Where
  <2>6. EndWell'
    <3>1. Where'["dtor"] = "told" /\ Where'["scanner"] = Where["scanner"]
      BY <2>5, Kinds, WhereTyped DEF Inv
    <3> QED
      BY <2>1, <3>1 DEF Inv, EndWell
  <2> QED
    BY <2>1, <2>4, <2>5, <2>6, Kinds, Names, Moves
<1>3. CASE DtorJoinScanner
  <2>1. /\ Goes("dtor", "joined") /\ Where["dtor"] = "told" /\ Where["scanner"] = "exited"
        /\ UNCHANGED <<idle, inUse, returned, total, open, queue, serving, has, need, stopping>>
    BY <1>0, <1>3, Kinds DEF DtorJoinScanner, lists, pool
  <2>2. stopping'
    BY <2>1 DEF Inv, EndWell
  <2> QED
    BY <2>1, <2>2, Names, DtorMoves
<1>4. CASE DtorClosePool
  <2>1. /\ Goes("dtor", "closing") /\ Where["dtor"] = "joined"
        /\ UNCHANGED <<idle, inUse, returned, total, open, queue, serving, has, need, stopping>>
    BY <1>0, <1>4, Kinds DEF DtorClosePool, Pool!Close, lists
  <2>2. stopping' /\ Where["scanner"] = "exited"
    BY <2>1 DEF Inv, EndWell
  <2> QED
    BY <2>1, <2>2, Names, DtorMoves
<1> QED
  BY <1>1, <1>2, <1>3, <1>4

\* The workers are joined, and the callers in the queue have broken promises.
LEMMA JoinStep == ASSUME Inv, DtorJoinWorkers PROVE Inv'
<1> USE DEF Inv
<1>1. /\ at["dtor"] = "closing" /\ queue' = <<>>
      /\ \A w \in Workers : serving[w] = NoCaller
      /\ at' = [t \in Threads |->
                   IF t = "dtor" THEN "lock"
                   ELSE IF t \in Callers /\ \E i \in 1..Len(queue) : queue[i] = t THEN "none"
                   ELSE at[t]]
      /\ UNCHANGED <<idle, inUse, returned, total, open, serving, has, need, stopping>>
  BY DEF DtorJoinWorkers, lists
<1>2. at' \in [Threads -> PlaceNames]
  BY <1>1, Names DEF Typed
<1>3. /\ Where'["dtor"] = "lock"
      /\ \A t \in Threads \ (Callers \cup {"dtor"}) : Where'[t] = Where[t]
      /\ \A c \in Callers : Where'[c] = Where[c] \/ (Where[c] = "waiting" /\ Where'[c] = "none")
  <2>1. \A t \in Threads : Where'[t] = IF at'[t] = "asleep" THEN "lock" ELSE at'[t]
    BY DEF Where
  <2>2. \A t \in Threads : Where[t] = IF at[t] = "asleep" THEN "lock" ELSE at[t]
    BY DEF Where
  <2>3. at'["dtor"] = "lock" /\ \A t \in Threads \ (Callers \cup {"dtor"}) : at'[t] = at[t]
    BY <1>1, Kinds
  <2>4. \A c \in Callers : at'[c] = at[c] \/ (Where[c] = "waiting" /\ at'[c] = "none")
    BY <1>1, Kinds DEF ServedOnce
  <2> QED
    BY <2>1, <2>2, <2>3, <2>4, Kinds
<1>4. /\ Where["dtor"] = "closing" /\ stopping /\ Where["scanner"] = "exited" /\ returned \subseteq idle
  BY <1>1, Kinds, WhereTyped DEF EndWell
<1>5. Typed'
  BY <1>1, <1>2 DEF Typed
<1>6. StaffWell'
  <2>1. \A w \in Workers : WorkerWell(w)'
    <3> TAKE w \in Workers
    <3>1. WorkerWell(w) /\ Where'[w] = Where[w]
      BY <1>3, Kinds DEF StaffWell
    <3> QED
      BY <1>1, <3>1, WorkerStays
  <2>2. \A c \in Callers : CallerWell(c)'
    <3> TAKE c \in Callers
    <3>1. CallerWell(c)
      BY DEF StaffWell
    <3> QED
      BY <1>1, <1>3, <3>1 DEF CallerWell
  <2> QED
    BY <1>1, <2>1, <2>2 DEF StaffWell
<1>7. ServedOnce'
  BY <1>1 DEF ServedOnce
<1>8. EndWell'
  <2>1. Where'["scanner"] = "exited"
    BY <1>3, <1>4, Kinds
  <2> QED
    BY <1>1, <1>3, <1>4, <2>1 DEF EndWell
<1> QED
  BY <1>1, <1>5, <1>6, <1>7, <1>8, ListsStay, BudgetStays

LEMMA DrainStep == ASSUME Inv, Where["dtor"] = "lock", Drain PROVE Inv'
<1> USE DEF Inv
<1>1. /\ open' = open \ idle /\ idle' = {} /\ Goes("dtor", "gone")
      /\ UNCHANGED <<inUse, returned, total, stopping, has, need, queue, serving>>
  BY DEF Drain, pool
<1>2. /\ at' \in [Threads -> PlaceNames] /\ Where' = [Where EXCEPT !["dtor"] = "gone"]
      /\ Where \in [Threads -> PlaceNames]
  BY <1>1, Kinds, Names, GoesWhere, WhereTyped
<1>3. Where'["dtor"] = "gone" /\ \A u \in Threads : u # "dtor" => Where'[u] = Where[u]
  BY <1>2, Kinds
<1>4. Typed'
  BY <1>1, <1>2 DEF Typed
<1>5. StaffWell'
  <2>1. \A w \in Workers : WorkerWell(w)'
    BY <1>1, <1>3, Kinds, WorkerStays DEF StaffWell
  <2>2. \A c \in Callers : CallerWell(c)'
    BY <1>1, <1>3, Kinds, CallerStays DEF StaffWell
  <2> QED
    BY <1>1, <2>1, <2>2 DEF StaffWell
<1>6. ServedOnce' /\ EndWell'
  <2>1. queue = <<>> /\ \A w \in Workers : serving[w] = NoCaller
    BY DEF EndWell
  <2>2. Where'["scanner"] = "exited"
    BY <1>3, Kinds DEF EndWell
  <2> QED
    BY <1>1, <1>3, <2>1, <2>2 DEF ServedOnce, EndWell
<1>7. ListsWell'
  BY <1>1 DEF ListsWell, HeldIsAlive
<1>8. Owned'
  BY <1>1 DEF Owned
<1>9. Budget'
  <2>1. /\ Cardinality(idle) \in Nat /\ Cardinality(inUse) \in Nat /\ Cardinality(idle') = 0
        /\ Cardinality(Reservations) \in Nat /\ Reservations' = Reservations
    BY <1>1, Counted, FS_EmptySet, ReservationsFinite DEF Typed, Reservations
  <2>2. stopping'
    BY <1>1 DEF EndWell
  <2> QED
    BY <1>1, <2>1, <2>2, LimitsAssumption DEF Budget
<1> QED
  BY <1>4, <1>5, <1>6, <1>7, <1>8, <1>9

LEMMA DtorLateSteps == ASSUME Inv, DtorLocks \/ DtorTimesOut PROVE Inv'
<1>1. Where["dtor"] = "lock"
  BY WhereTyped, Kinds DEF DtorLocks, DtorTimesOut, Inv
<1>2. CASE Drain
  BY <1>1, <1>2, DrainStep
<1>3. CASE Goes("dtor", "asleep") /\ UNCHANGED <<lists, pool, stopping, open, has, need>>
  <2>1. stopping /\ Where["scanner"] = "exited"
    BY <1>1 DEF Inv, EndWell
  <2> QED
    BY <1>1, <1>3, <2>1, Names, DtorMoves DEF lists, pool
<1> QED
  BY <1>2, <1>3 DEF DtorLocks, DtorTimesOut

-----------------------------------------------------------------------------
(* The theorems.                                                           *)

\* The invariant holds throughout, whatever fails and whoever is notified.
THEOREM Invariance == Spec => []Inv
<1>1. Init => Inv
  <2> SUFFICES ASSUME Init PROVE Inv
    OBVIOUS
  <2>1. /\ idle \subseteq Conns /\ Cardinality(idle) = MinConn /\ inUse = {} /\ returned = {}
        /\ total = MinConn /\ ~stopping /\ open = idle /\ queue = <<>>
        /\ serving = [w \in Workers |-> NoCaller]
        /\ has = [t \in Threads |-> {}] /\ need = [w \in Workers |-> 0]
        /\ at = [t \in Threads |-> IF t \in Callers THEN "none"
                                   ELSE IF t \in Workers THEN "idle"
                                   ELSE IF t = "scanner" THEN "lock" ELSE "none"]
    BY DEF Init, Allocations, Pool!Init
  <2>2. at \in [Threads -> PlaceNames]
    BY <2>1, Names
  <2>3. Typed
    BY <2>1, <2>2 DEF Typed
  <2>4. /\ \A w \in Workers : Where[w] = "idle"
        /\ \A c \in Callers : Where[c] = "none"
        /\ Where["dtor"] = "none"
    BY <2>1, Kinds DEF Where
  <2>5. StaffWell
    BY <2>1, <2>4, Kinds DEF StaffWell, WorkerWell, CallerWell
  <2>6. ServedOnce
    BY <2>1 DEF ServedOnce
  <2>7. ListsWell /\ Owned
    BY <2>1 DEF ListsWell, Owned, HeldIsAlive
  <2>8. EndWell
    BY <2>1, <2>4 DEF EndWell
  <2>9. Budget
    <3>1. Reservations = {}
      BY <2>1 DEF Reservations
    <3>2. Cardinality(Reservations) = 0 /\ Cardinality(inUse) = 0
      BY <2>1, <3>1, FS_EmptySet
    <3> QED
      BY <2>1, <3>2, LimitsAssumption DEF Budget
  <2> QED
    BY <2>3, <2>5, <2>6, <2>7, <2>8, <2>9 DEF Inv
<1>2. Inv /\ [Next]_vars => Inv'
  <2> SUFFICES ASSUME Inv, [Next]_vars PROVE Inv'
    OBVIOUS
  <2>1. CASE \E c \in Callers : Acquire(c) \/ Release(c) \/ Ring(c)
    BY <2>1, AcquireStep, ReleaseStep, RingStep
  <2>2. CASE \E w \in Workers : WorkerStep(w) \/ TimesOut(w)
    <3>1. PICK w \in Workers : WorkerStep(w) \/ TimesOut(w)
      BY <2>2
    <3>2. CASE Take(w) \/ Begin(w) \/ Look(w) \/ Expand(w) \/ Opening(w)
      BY <3>2, TakeStep, BeginStep, LookStep, ExpandStep, OpeningStep
    <3>3. CASE Commit(w) \/ Bell(w) \/ Lock(w) \/ TimesOut(w)
      BY <3>3, CommitStep, BellStep, LockStep
    <3>4. CASE Hand(w) \/ PingFails(w) \/ Delete(w)
      BY <3>4, HandStep, PingFailsStep, DeleteStep
    <3> QED
      BY <3>1, <3>2, <3>3, <3>4 DEF WorkerStep
  <2>3. CASE ScannerLocks \/ Scan
    BY <2>3, ScannerLocksStep, ScanStep
  <2>4. CASE DtorStop \/ DtorStep \/ DtorTimesOut
    BY <2>4, DtorEarlySteps, JoinStep, DtorLateSteps DEF DtorStep
  <2>5. CASE WakesForNothing
    BY <2>5, WakeStep
  <2>6. CASE UNCHANGED vars
    <3>1. Where' = Where /\ Reservations' = Reservations
      BY <2>6 DEF vars, Where, Reservations
    <3>2. Typed' /\ StaffWell' /\ ServedOnce'
      BY <2>6, <3>1 DEF vars, Inv, Typed, StaffWell, WorkerWell, CallerWell, ServedOnce
    <3>3. ListsWell' /\ Owned' /\ EndWell' /\ Budget'
      BY <2>6, <3>1 DEF vars, Inv, ListsWell, HeldIsAlive, Owned, EndWell, Budget
    <3> QED
      BY <3>2, <3>3 DEF Inv
  <2> QED
    BY <2>1, <2>2, <2>3, <2>4, <2>5, <2>6 DEF Next
<1> QED
  BY <1>1, <1>2, PTL DEF Spec

\* Until the pool stops, total_conn_ is the number of connections that are idle
\* or lent and of the places reserved for those that are being opened.
THEOREM CountIsExact == Spec => []BudgetExact
<1>1. Inv => BudgetExact
  BY DEF Inv, Budget, BudgetExact
<1> QED
  BY <1>1, Invariance, PTL

\* total_conn_ never leaves 0..max_conn_, not even while the pool stops: the
\* subtractions of expand, acquire and scanLoop do not wrap the size_t around.
THEOREM CountIsBounded == Spec => [](total \in 0..MaxConn)
<1>1. Inv => total \in 0..MaxConn
  BY DEF Inv, Budget
<1> QED
  BY <1>1, Invariance, PTL

\* Nobody loses a connection that is in its hands, or shares it: neither the
\* scanner nor the destructor deletes it, and the allocator may use the address
\* of a deleted connection again as it likes.
THEOREM HeldStaysAlive == Spec => []HeldIsAlive
<1>1. Inv => HeldIsAlive
  BY DEF Inv, ListsWell
<1> QED
  BY <1>1, Invariance, PTL

\* When the destructor returns, the connections there are are those that are
\* still lent.
THEOREM NoneLeaks == Spec => []NothingLeaks
<1>1. Inv => NothingLeaks
  <2> SUFFICES ASSUME Inv, at["dtor"] = "gone"
               PROVE  open = UNION {has[c] : c \in Callers}
    BY DEF NothingLeaks
  <2>1. Where["dtor"] = "gone"
    BY Kinds, WhereTyped DEF Inv
  <2>2. idle = {} /\ \A w \in Workers : serving[w] = NoCaller
    BY <2>1 DEF Inv, EndWell
  <2>3. \A w \in Workers : has[w] = {}
    BY <2>2 DEF Inv, StaffWell, WorkerWell
  <2>4. has["scanner"] = {} /\ has["dtor"] = {}
    BY DEF Inv, StaffWell
  <2>5. \A k \in open : \E t \in Threads : k \in has[t]
    BY <2>2 DEF Inv, Owned
  <2>6. \A k \in open : \E c \in Callers : k \in has[c]
    BY <2>3, <2>4, <2>5, Kinds
  <2>7. \A c \in Callers : has[c] \subseteq open
    BY Kinds DEF Inv, ListsWell, HeldIsAlive
  <2> QED
    BY <2>6, <2>7
<1> QED
  BY <1>1, Invariance, PTL
=============================================================================
