-------------------------- MODULE OwnershipProofs --------------------------
(***************************************************************************)
(* What is owned, by whom, and until when.  For the reactors of            *)
(* Registry.tla, for any number of them, of descriptors, connections and   *)
(* signals: where the handler has to run for its walk over their list to   *)
(* be safe without a lock; that whatever fails in start nobody closes what *)
(* a reactor in start works with, and that what it has opened is closed    *)
(* when it is gone, but for the spare descriptor.  For the guards, cursors *)
(* and handles of SqliteHandles.tla, for any numbers of connections,       *)
(* handles, statements and variables: nothing has two owners or none, and  *)
(* handles are open exactly when needed.                                   *)
(***************************************************************************)
EXTENDS Registry, SqliteHandles, FiniteSetTheorems, SequenceTheorems, TLAPS

-----------------------------------------------------------------------------
(* The registry of reactors.                                               *)

\* Main changes the list in its first and its last phase only.  Reactors are made in
\* order, and leave the list in that order.
Listed(first, last) == [k \in 1..(last - first + 1) |-> first - 1 + k]

\* The next one is made.
LEMMA ListedMore ==
  ASSUME NEW n \in Nat \ {0}
  PROVE  Append(Listed(1, n - 1), n) = Listed(1, n)
<1> DEFINE l == Listed(1, n - 1)
<1>1. /\ l \in Seq(Int) /\ Len(l) = n - 1
      /\ \A k \in 1..(n - 1) : l[k] = k
  BY DEF Listed
<1> HIDE DEF l
<1>2. /\ Append(l, n) \in Seq(Int) /\ Append(l, n)[n] = n /\ Len(Append(l, n)) = n
      /\ \A k \in 1..(n - 1) : Append(l, n)[k] = l[k]
  <2>1. /\ Append(l, n) \in Seq(Int) /\ Len(Append(l, n)) = Len(l) + 1
        /\ \A k \in 1..Len(l) : Append(l, n)[k] = l[k]
        /\ Append(l, n)[Len(l) + 1] = n
    BY <1>1, AppendProperties, n \in Int
  <2> QED
    BY <2>1, <1>1
<1>3. Append(l, n) = [k \in 1..n |-> Append(l, n)[k]]
  BY <1>2, LenProperties
<1>4. Listed(1, n) = [k \in 1..n |-> k]
  BY DEF Listed
<1>5. \A k \in 1..n : Append(l, n)[k] = k
  <2> TAKE k \in 1..n
  <2>1. k = n \/ k \in 1..(n - 1)
    OBVIOUS
  <2> QED
    BY <2>1, <1>1, <1>2
<1>6. Append(l, n) = Listed(1, n)
  BY <1>3, <1>4, <1>5
<1> QED
  BY <1>6 DEF l

MainWell ==
    /\ phase \in {"construct", "serve", "destroy", "over"}
    /\ next \in 1..(N + 1)
    /\ state \in [Reactors -> States]
    /\ changing => next <= N /\ phase \in {"construct", "destroy"}
    /\ phase = "construct" =>
          /\ reg = Listed(1, next - 1)
          /\ \A r \in Reactors : state[r] = IF r < next THEN "made" ELSE "none"
    /\ phase = "serve" =>
          /\ next = 1 /\ reg = Listed(1, N)
          /\ \A r \in Reactors : state[r] \in InStart \cup {"returned"}
    /\ phase \in {"destroy", "over"} =>
          /\ reg = Listed(next, N)
          /\ \A r \in Reactors : state[r] = IF r < next THEN "freed" ELSE "returned"

\* A handler keeps its thread where it is, and with it main or main's join.
WalkWell ==
    /\ walk.in \in Reactors =>
          state[walk.in] \in InStart /\ walk.at \in 1..Len(reg)
    /\ walk.in = 0 /\ ~changing => walk.at \in 1..Len(reg)
    /\ walk = [in |-> walk.in, at |-> walk.at]

RegistryInv == MainWell /\ WalkWell

-----------------------------------------------------------------------------

\* Main's own steps and those of start() keep main's invariant, whatever signals
\* there are.
LEMMA MainStays ==
  ASSUME MainWell, [RegistryNext]_registryVars
  PROVE  MainWell'
<1> USE NAssumption DEF MainWell, Reactors, States, InStart
<1>1. CASE Change
  BY <1>1 DEF Change
<1>2. CASE ConstructReactor
  <2>1. next \in 1..N /\ next' = next + 1 /\ phase' = phase /\ changing' = FALSE
    BY <1>2 DEF ConstructReactor
  <2>2. reg' = Listed(1, next' - 1)
    <3>1. reg = Listed(1, next - 1) /\ reg' = Append(reg, next)
      BY <1>2 DEF ConstructReactor
    <3>2. Append(Listed(1, next - 1), next) = Listed(1, next)
      <4>1. next \in Nat \ {0}
        BY <2>1
      <4> HIDE DEF MainWell
      <4> QED
        BY <4>1, ListedMore
    <3> QED
      BY <2>1, <3>1, <3>2
  <2>3. state' = [state EXCEPT ![next] = "made"]
    BY <1>2 DEF ConstructReactor
  <2> QED
    BY <1>2, <2>1, <2>2, <2>3 DEF ConstructReactor
<1>3. CASE Serve
  <2>1. next = N + 1
    BY <1>3 DEF Serve
  <2> QED
    BY <1>3, <2>1 DEF Serve
<1>4. CASE Join
  BY <1>4 DEF Join
<1>5. CASE Destroy
  <2>1. /\ next \in 1..N /\ next' = next + 1 /\ changing' = FALSE
        /\ phase' = IF next = N THEN "over" ELSE "destroy"
    BY <1>5 DEF Destroy
  <2>2. state' = [state EXCEPT ![next] = "freed"]
    BY <1>5 DEF Destroy
  <2>3. PICK i \in DOMAIN reg : reg[i] = next /\ reg' = Erased(i)
    BY <1>5 DEF Destroy
  <2>4. i = 1 /\ Len(reg) = N - next + 1
    BY <1>5, <2>1, <2>3, SMTT(30) DEF Destroy, Listed
  <2>5. reg' = Listed(next + 1, N)
    BY <1>5, <2>1, <2>3, <2>4 DEF Destroy, Listed, Erased
  <2> QED
    BY <1>5, <2>1, <2>2, <2>5 DEF Destroy
<1>6. ASSUME NEW r \in Reactors, NEW s \in InStart \cup {"returned"},
             state[r] \in InStart, state' = [state EXCEPT ![r] = s], UNCHANGED main
      PROVE  MainWell'
  <2>1. phase = "serve"
    BY <1>6
  <2> QED
    BY <1>6, <2>1 DEF main
<1>7. ASSUME NEW r \in Reactors, StartStep(r) \/ Stop(r) \/ Return(r)
      PROVE  MainWell'
  <2>1. /\ state[r] \in InStart /\ UNCHANGED main
        /\ \E s \in InStart \cup {"returned"} : state' = [state EXCEPT ![r] = s]
    BY <1>7 DEF StartStep, CreateEpfd, CreateListen, StartOk, StartFails, Stop, Return
  <2> QED
    BY <1>6, <2>1
<1>8. ASSUME UNCHANGED <<main, state>>
      PROVE  MainWell'
  BY <1>8 DEF main
<1>9. CASE \/ OtherOpens \/ Handler \/ \E t \in Carriers : Signal(t)
           \/ \E r \in Reactors : Accept(r) \/ \E n \in Numbers : Onclose(r, n)
  BY <1>8, <1>9 DEF OtherOpens, Handler, HandlerStops, HandlerRings, Signal, Accept, Onclose, main
<1>10. CASE UNCHANGED registryVars
  BY <1>8, <1>10 DEF registryVars, main
<1> QED
  BY <1>1, <1>2, <1>3, <1>4, <1>5, <1>7, <1>9, <1>10
     DEF RegistryNext, MainStep, StopByBell, StopByEvent

\* While a handler runs in main, or in a thread main has to join, nobody changes what
\* it walks over.
LEMMA WalkStays ==
  ASSUME RegistryInv, [RegistryNext]_registryVars
  PROVE  WalkWell'
<1> USE NAssumption DEF RegistryInv, MainWell, Reactors, Free, States, InStart
<1>0. Len(reg) \in Nat
  BY DEF Listed
<1>1. CASE MainStep
  <2>1. walk' = walk /\ walk.in # 0
    BY <1>1 DEF MainStep, Change, ConstructReactor, Serve, Join, Destroy, handling
  <2>2. walk.in \notin Reactors
    BY <1>1 DEF MainStep, Change, ConstructReactor, Serve, Join, Destroy, WalkWell
  <2> QED
    BY <2>1, <2>2 DEF WalkWell
<1>2. ASSUME NEW r \in Reactors, StartStep(r) \/ Stop(r) \/ Return(r)
      PROVE  WalkWell'
  <2>1. /\ walk' = walk /\ walk.in # r /\ UNCHANGED main
        /\ \E s \in States : state' = [state EXCEPT ![r] = s]
    BY <1>2 DEF StartStep, CreateEpfd, CreateListen, StartOk, StartFails, Stop, Return, handling
  <2> QED
    BY <2>1 DEF WalkWell, main
<1>3. ASSUME NEW t \in Carriers, Signal(t)
      PROVE  WalkWell'
  <2>1. /\ UNCHANGED <<main, state>> /\ reg # <<>>
        /\ walk' = [in |-> t, at |-> 1]
        /\ t \in Reactors => state[t] \in InStart
    BY <1>3 DEF Signal
  <2>2. 1 \in 1..Len(reg)
    BY <2>1, <1>0 DEF Listed
  <2> QED
    BY <2>1, <2>2 DEF WalkWell, main
<1>4. CASE HandlerStops
  BY <1>4 DEF HandlerStops, WalkWell, main
<1>5. CASE HandlerRings
  <2>1. UNCHANGED <<main, state>> /\ walk' = AfterBell /\ walk.at <= Len(reg)
    BY <1>5 DEF HandlerRings
  <2>2. CASE walk' = NoWalk
    BY <2>2 DEF WalkWell, NoWalk
  <2>3. CASE walk' = [walk EXCEPT !.at = @ + 1] /\ walk.at < Len(reg)
    BY <1>0, <2>1, <2>3 DEF WalkWell, main
  <2> QED
    BY <2>1, <2>2, <2>3 DEF AfterBell
<1>6. ASSUME UNCHANGED <<main, state, walk>>
      PROVE  WalkWell'
  BY <1>6 DEF WalkWell, main
<1>7. CASE OtherOpens \/ \E r \in Reactors : Accept(r) \/ \E n \in Numbers : Onclose(r, n)
  BY <1>6, <1>7 DEF OtherOpens, Accept, Onclose, main, handling
<1>8. CASE UNCHANGED registryVars
  BY <1>6, <1>8 DEF registryVars, main
<1> QED
  BY <1>1, <1>2, <1>3, <1>4, <1>5, <1>7, <1>8
     DEF RegistryNext, Handler, StopByBell, StopByEvent

LEMMA RegistrySafe == RegistrySpec => []RegistryInv
<1>1. RegistryInit => RegistryInv
  BY NAssumption
     DEF RegistryInit, RegistryInv, MainWell, WalkWell, Reactors, Listed, NoWalk, States
<1>2. RegistryInv /\ [RegistryNext]_registryVars => RegistryInv'
  BY MainStays, WalkStays DEF RegistryInv
<1> QED
  BY <1>1, <1>2, PTL DEF RegistrySpec

\* Whenever signals come, and to whomever: a handler that runs in the thread of a
\* reactor, or in main when it was not about to change the list, never meets a list that
\* changes or a reactor that is freed.  Registry_race.cfg shows the others that do.
THEOREM WalkIsSafe == RegistrySpec => []HandlerSafe
<1>1. RegistryInv => HandlerSafe
  <2> SUFFICES ASSUME RegistryInv, walk.in \in Reactors \/ (walk.in = 0 /\ ~changing)
               PROVE  WholeList
    BY DEF HandlerSafe
  <2> USE NAssumption DEF RegistryInv, MainWell, WalkWell, Reactors, States, InStart
  <2>1. ~changing
    OBVIOUS
  <2>2. walk.at <= Len(reg)
    BY <2>1 DEF Listed
  <2>3. ASSUME NEW i \in DOMAIN reg
        PROVE  state[reg[i]] # "freed"
    <3>1. CASE phase = "construct"
      BY <3>1 DEF Listed
    <3>2. CASE phase = "serve"
      BY <3>2 DEF Listed
    <3>3. CASE phase \in {"destroy", "over"}
      <4>1. reg = Listed(next, N) /\ reg[i] = next - 1 + i /\ i \in 1..(N - next + 1)
        BY <3>3 DEF Listed
      <4> QED
        BY <3>3, <4>1
    <3> QED
      BY <3>1, <3>2, <3>3
  <2> QED
    BY <2>1, <2>2, <2>3 DEF WholeList
<1> QED
  BY <1>1, RegistrySafe, PTL

-----------------------------------------------------------------------------
(* The descriptors of the reactors.                                        *)

Working == InStart \cup {"made"}

\* The numbers of a reactor are different ones.
Differ(a, b) == a = b => a = NoFd
Apart(r) == /\ Differ(fds[r].done, fds[r].idle_fd) /\ Differ(fds[r].done, fds[r].epfd)
            /\ Differ(fds[r].done, fds[r].m_listen) /\ Differ(fds[r].idle_fd, fds[r].epfd)
            /\ Differ(fds[r].idle_fd, fds[r].m_listen) /\ Differ(fds[r].epfd, fds[r].m_listen)
            /\ \A n \in status[r] :
                  n \notin {fds[r].done, fds[r].idle_fd, fds[r].epfd, fds[r].m_listen}

\* What a reactor has opened it has the number of, and the other way round while it
\* works.
NoneLost(r) == \A n \in Numbers :
    table[n] = r => IF state[r] = "freed" THEN n = fds[r].idle_fd ELSE n \in Held(r)
AllOwn(r) == state[r] \in Working => Apart(r) /\ \A n \in Held(r) : table[n] = r

\* What is not opened yet, or not any more.
Stage(r) ==
    /\ state[r] = "none" => fds[r].done = NoFd /\ fds[r].idle_fd = NoFd
    /\ state[r] \in {"none", "made", "starting"} => fds[r].epfd = NoFd
    /\ state[r] \in {"none", "made", "starting", "created"} => fds[r].m_listen = NoFd
    /\ state[r] \notin {"running", "draining"} => status[r] = {}

FdsType == /\ fds \in [Reactors -> Fds]
           /\ status \in [Reactors -> SUBSET Numbers]
           /\ table \in [Numbers -> 0..(N + 1)]
FdsOf(r) == NoneLost(r) /\ AllOwn(r) /\ Stage(r)
FdsWell == FdsType /\ \A r \in Reactors : FdsOf(r)

\* A step that takes nothing from a reactor, or only what it does not work with any more.
LEMMA OthersStay ==
  ASSUME NEW q \in Reactors, FdsOf(q),
         state'[q] = state[q], fds'[q] = fds[q], status'[q] = status[q],
         \A n \in Numbers : table'[n] = q => table[n] = q,
         state[q] \in Working => \A n \in Numbers : table[n] = q => table'[n] = q,
         FdsType
  PROVE  FdsOf(q)'
<1>1. Held(q)' = Held(q)
  BY DEF Held
<1>2. NoneLost(q)'
  BY <1>1 DEF FdsOf, NoneLost
<1>3. Held(q) \subseteq Numbers
  BY DEF Held, FdsType, Fds
<1>4. AllOwn(q)'
  BY <1>1, <1>3 DEF FdsOf, AllOwn, Apart
<1>5. Stage(q)'
  BY DEF FdsOf, Stage
<1> QED
  BY <1>2, <1>4, <1>5 DEF FdsOf

\* Opening a number, for r.
LEMMA TakenWell ==
  ASSUME NEW t \in [Numbers -> 0..(N + 1)], NEW r \in 1..(N + 1),
         NEW n \in Numbers \cup {NoFd}
  PROVE  /\ Taken(t, n, r) \in [Numbers -> 0..(N + 1)]
         /\ \A k \in Numbers : Taken(t, n, r)[k] = IF k = n THEN r ELSE t[k]
BY DEF Taken

\* What is opened was free.
LEMMA LowestFree ==
  ASSUME NEW t, NEW n \in {NoFd} \cup Lowest({k \in Numbers : t[k] = 0})
  PROVE  n \in Numbers \cup {NoFd} /\ (n # NoFd => t[n] = 0)
BY DEF Lowest

\* Closing numbers.
LEMMA ReleasedWell ==
  ASSUME FdsType, NEW S
  PROVE  /\ Released(S) \in [Numbers -> 0..(N + 1)]
         /\ \A k \in Numbers, q \in Reactors :
               Released(S)[k] = q <=> table[k] = q /\ k \notin S
BY NAssumption DEF Released, Reactors, FdsType

\* The members of a reactor change.
LEMMA MembersSet ==
  ASSUME FdsType, NEW r \in Reactors, NEW d \in Fds, fds' = [fds EXCEPT ![r] = d]
  PROVE  /\ fds' \in [Reactors -> Fds] /\ fds'[r] = d
         /\ \A q \in Reactors \ {r} : fds'[q] = fds[q]
BY DEF FdsType

\* No descriptor is a number.
LEMMA NoNumber == NoFd \notin Numbers /\ Reactors = 1..N /\ Reactors \subseteq 1..(N + 1) /\ 0 \notin Reactors
BY NAssumption, NumbersAssumption DEF NoFd, Reactors

\* What a reactor in start() has opened.
OpensOne(r, n) ==
    /\ table' \in [Numbers -> 0..(N + 1)]
    /\ n \in Numbers \cup {NoFd} /\ (n # NoFd => table[n] = 0)
    /\ \A k \in Numbers : table'[k] = r <=> table[k] = r \/ k = n
    /\ \A k \in Numbers, q \in Reactors : q # r => (table'[k] = q <=> table[k] = q)

\* What a step of the reactor r leaves of the others.
OnlyOf(r) ==
    /\ \A q \in Reactors \ {r} :
          state'[q] = state[q] /\ fds'[q] = fds[q] /\ status'[q] = status[q]
    /\ \A q \in Reactors \ {r}, k \in Numbers : table'[k] = q <=> table[k] = q

LEMMA OwnStep ==
  ASSUME FdsWell, NEW r \in Reactors, OnlyOf(r), FdsType', FdsOf(r)'
  PROVE  FdsWell'
<1>1. ASSUME NEW q \in Reactors, q # r
      PROVE  FdsOf(q)'
  BY <1>1, OthersStay DEF FdsWell, OnlyOf
<1> QED
  BY <1>1 DEF FdsWell

\* start() creates epfd, then m_listen.
LEMMA CreateWell ==
  ASSUME FdsWell, MainWell, NEW r \in Reactors, CreateEpfd(r) \/ CreateListen(r)
  PROVE  FdsWell'
<1>1. FdsType /\ FdsOf(r) /\ state \in [Reactors -> States] /\ fds[r] \in Fds
  BY DEF FdsWell, MainWell, FdsType
<1>2. PICK n \in Opens : /\ table' = Taken(table, n, r) /\ status' = status
                         /\ \/ /\ state[r] = "starting" /\ state' = [state EXCEPT ![r] = "created"]
                               /\ fds' = [fds EXCEPT ![r] = [fds[r] EXCEPT !.epfd = n]]
                            \/ /\ state[r] = "created" /\ state' = [state EXCEPT ![r] = "opened"]
                               /\ fds' = [fds EXCEPT ![r] = [fds[r] EXCEPT !.m_listen = n]]
  BY DEF CreateEpfd, CreateListen
<1>3. OpensOne(r, n)
  <2>1. /\ table \in [Numbers -> 0..(N + 1)] /\ r \in 1..(N + 1)
        /\ n \in {NoFd} \cup Lowest({k \in Numbers : table[k] = 0})
        /\ table' = Taken(table, n, r)
    BY <1>1, <1>2, NoNumber DEF FdsType, Opens
  <2>2. n \in Numbers \cup {NoFd} /\ (n # NoFd => table[n] = 0)
    BY <2>1, LowestFree
  <2>3. /\ table' \in [Numbers -> 0..(N + 1)]
        /\ \A k \in Numbers : table'[k] = IF k = n THEN r ELSE table[k]
    BY <2>1, <2>2, TakenWell
  <2> QED
    BY <2>2, <2>3, NoNumber DEF OpensOne
<1>4. /\ [fds[r] EXCEPT !.epfd = n] \in Fds
      /\ [fds[r] EXCEPT !.m_listen = n] \in Fds
  BY <1>1, <1>3 DEF Fds, OpensOne
<1>5. /\ fds' \in [Reactors -> Fds]
      /\ \A q \in Reactors \ {r} : fds'[q] = fds[q]
      /\ fds'[r] = [fds[r] EXCEPT !.epfd = n] \/ fds'[r] = [fds[r] EXCEPT !.m_listen = n]
  BY <1>1, <1>2, <1>4, MembersSet
<1>6. /\ fds'[r].done = fds[r].done /\ fds'[r].idle_fd = fds[r].idle_fd
      /\ \/ /\ state[r] = "starting" /\ state'[r] = "created"
            /\ fds'[r].epfd = n /\ fds'[r].m_listen = fds[r].m_listen
         \/ /\ state[r] = "created" /\ state'[r] = "opened"
            /\ fds'[r].epfd = fds[r].epfd /\ fds'[r].m_listen = n
  BY <1>1, <1>2, <1>4, MembersSet DEF Fds
<1>7. FdsType' /\ OnlyOf(r)
  BY <1>1, <1>2, <1>3, <1>5 DEF FdsType, OpensOne, OnlyOf
<1>8. /\ state[r] = "starting" => fds[r].epfd = NoFd
      /\ fds[r].m_listen = NoFd /\ status[r] = {} /\ status'[r] = {}
  BY <1>1, <1>2, <1>6 DEF FdsOf, Stage
<1>9. Held(r)' = Held(r) \cup ({n} \ {NoFd})
  BY <1>6, <1>8 DEF Held
<1>10. /\ Apart(r) /\ \A k \in Held(r) : table[k] = r
  BY <1>1, <1>6 DEF FdsOf, AllOwn, Working, InStart
<1>11. Held(r) \subseteq Numbers /\ n \notin Held(r)
  BY <1>1, <1>3, <1>8, <1>10, NoNumber DEF Held, Fds, OpensOne
<1>12. NoneLost(r)'
  BY <1>1, <1>3, <1>6, <1>9, NoNumber DEF FdsOf, NoneLost, OpensOne
<1>13. Apart(r)'
  BY <1>6, <1>8, <1>10, <1>11 DEF Apart, Differ, Held
<1>14. \A k \in Held(r)' : table'[k] = r
  BY <1>3, <1>9, <1>10, <1>11 DEF OpensOne
<1>15. Stage(r)'
  BY <1>6, <1>8 DEF Stage
<1> QED
  BY <1>7, <1>12, <1>13, <1>14, <1>15, OwnStep DEF FdsOf, AllOwn

\* The constructor opens the eventfd and the spare descriptor.
LEMMA ConstructWell ==
  ASSUME FdsWell, MainWell, ConstructReactor
  PROVE  FdsWell'
<1>0. next \in Reactors
  BY NAssumption DEF MainWell, ConstructReactor, Reactors
<1> SUFFICES ASSUME NEW r \in Reactors, r = next PROVE FdsWell'
  BY <1>0
<1>1. /\ FdsType /\ state \in [Reactors -> States] /\ state[r] = "none"
  BY NAssumption DEF FdsWell, MainWell, ConstructReactor, Reactors
<1>2. FdsOf(r) /\ fds[r] \in Fds
  BY <1>1 DEF FdsWell, FdsType
<1>3. PICK d \in Opens :
         \E i \in {NoFd} \cup Lowest({n \in Numbers : Taken(table, d, r)[n] = 0}) :
            /\ fds' = [fds EXCEPT ![r] = [fds[r] EXCEPT !.done = d, !.idle_fd = i]]
            /\ table' = Taken(Taken(table, d, r), i, r)
  BY <1>1 DEF ConstructReactor, FdsType
<1>4. PICK i \in {NoFd} \cup Lowest({n \in Numbers : Taken(table, d, r)[n] = 0}) :
            /\ fds' = [fds EXCEPT ![r] = [fds[r] EXCEPT !.done = d, !.idle_fd = i]]
            /\ table' = Taken(Taken(table, d, r), i, r)
  BY <1>3
<1>5. state' = [state EXCEPT ![r] = "made"] /\ status' = status
  BY DEF ConstructReactor
<1> DEFINE t == Taken(table, d, r)
<1>6. /\ t \in [Numbers -> 0..(N + 1)] /\ d \in Numbers \cup {NoFd} /\ (d # NoFd => table[d] = 0)
      /\ \A k \in Numbers : t[k] = r <=> table[k] = r \/ k = d
      /\ \A k \in Numbers, q \in Reactors : q # r => (t[k] = q <=> table[k] = q)
  <2>1. d \in {NoFd} \cup Lowest({k \in Numbers : table[k] = 0}) /\ table \in [Numbers -> 0..(N + 1)]
    BY <1>1 DEF FdsType, Opens
  <2>2. d \in Numbers \cup {NoFd} /\ (d # NoFd => table[d] = 0)
    BY <2>1, LowestFree
  <2>3. /\ t \in [Numbers -> 0..(N + 1)]
        /\ \A k \in Numbers : t[k] = IF k = d THEN r ELSE table[k]
    BY <2>1, <2>2, TakenWell, NoNumber
  <2> QED
    BY <2>2, <2>3, NoNumber
<1> HIDE DEF t
<1>7. /\ table' \in [Numbers -> 0..(N + 1)] /\ i \in Numbers \cup {NoFd} /\ (i # NoFd => t[i] = 0)
      /\ \A k \in Numbers : table'[k] = r <=> t[k] = r \/ k = i
      /\ \A k \in Numbers, q \in Reactors : q # r => (table'[k] = q <=> t[k] = q)
  <2>1. /\ table' = Taken(t, i, r) /\ i \in {NoFd} \cup Lowest({n \in Numbers : t[n] = 0})
    BY <1>4 DEF t
  <2>2. i \in Numbers \cup {NoFd} /\ (i # NoFd => t[i] = 0)
    BY <2>1, LowestFree
  <2>3. /\ table' \in [Numbers -> 0..(N + 1)]
        /\ \A k \in Numbers : table'[k] = IF k = i THEN r ELSE t[k]
    BY <1>6, <2>1, <2>2, TakenWell, NoNumber
  <2> QED
    BY <2>2, <2>3, NoNumber
<1>8. [fds[r] EXCEPT !.done = d, !.idle_fd = i] \in Fds
  BY <1>2, <1>6, <1>7 DEF Fds
<1>9. /\ fds' \in [Reactors -> Fds]
      /\ \A q \in Reactors \ {r} : fds'[q] = fds[q]
      /\ fds'[r] = [fds[r] EXCEPT !.done = d, !.idle_fd = i]
  BY <1>1, <1>4, <1>8, MembersSet
<1>10. /\ fds'[r].done = d /\ fds'[r].idle_fd = i
       /\ fds'[r].epfd = NoFd /\ fds'[r].m_listen = NoFd
       /\ state'[r] = "made" /\ status[r] = {} /\ status'[r] = {} /\ Held(r) = {}
  BY <1>1, <1>2, <1>5, <1>9 DEF FdsOf, Stage, Fds, Held
<1>11. FdsType' /\ OnlyOf(r)
  <2>1. FdsType'
    BY <1>1, <1>5, <1>7, <1>9 DEF FdsType
  <2>2. \A q \in Reactors \ {r} :
           state'[q] = state[q] /\ fds'[q] = fds[q] /\ status'[q] = status[q]
    BY <1>1, <1>5, <1>9
  <2>3. \A q \in Reactors \ {r}, k \in Numbers : table'[k] = q <=> table[k] = q
    BY <1>6, <1>7
  <2> QED
    BY <2>1, <2>2, <2>3 DEF OnlyOf
<1>12. Held(r)' = {d, i} \ {NoFd} /\ (d = i => d = NoFd)
  <2>1. Held(r)' = {d, i} \ {NoFd}
    BY <1>10 DEF Held
  <2> QED
    BY <1>1, <1>6, <1>7, <2>1, NoNumber
<1>13. NoneLost(r)'
  BY <1>1, <1>2, <1>6, <1>7, <1>10, <1>12, NoNumber DEF FdsOf, NoneLost
<1>14. AllOwn(r)'
  BY <1>6, <1>7, <1>10, <1>12 DEF AllOwn, Apart, Differ
<1>15. Stage(r)'
  BY <1>10 DEF Stage
<1> QED
  BY <1>1, <1>11, <1>13, <1>14, <1>15, OwnStep DEF FdsOf

\* The destructor closes what it has the numbers of, its own or not: by then no reactor
\* works any more.
LEMMA DestroyWell ==
  ASSUME FdsWell, MainWell, Destroy
  PROVE  FdsWell'
<1>0. next \in Reactors
  BY NAssumption DEF MainWell, Destroy, Reactors
<1> SUFFICES ASSUME NEW r \in Reactors, r = next PROVE FdsWell'
  BY <1>0
<1>1. /\ state' = [state EXCEPT ![r] = "freed"]
      /\ table' = Released(Closed(r)) /\ UNCHANGED <<fds, status>>
      /\ \A q \in Reactors : state[q] \notin Working
      /\ state[r] = "returned" /\ state \in [Reactors -> States]
  BY NAssumption DEF MainWell, Destroy, Reactors, Working, InStart
<1>2. FdsType /\ FdsOf(r) /\ state'[r] = "freed"
  BY <1>1 DEF FdsWell
<1>3. /\ FdsType'
      /\ \A k \in Numbers, q \in Reactors : table'[k] = q <=> table[k] = q /\ k \notin Closed(r)
  <2>1. /\ Released(Closed(r)) \in [Numbers -> 0..(N + 1)]
        /\ \A k \in Numbers, q \in Reactors :
              Released(Closed(r))[k] = q <=> table[k] = q /\ k \notin Closed(r)
    BY <1>2, ReleasedWell
  <2> QED
    BY <1>1, <1>2, <2>1 DEF FdsType
<1>4. status[r] = {}
  BY <1>1, <1>2 DEF FdsOf, Stage
<1>5. \A n \in Numbers : table'[n] = r => n = fds[r].idle_fd
  BY <1>1, <1>2, <1>3, <1>4 DEF FdsOf, NoneLost, Held, Closed
<1>6. FdsOf(r)'
  BY <1>1, <1>2, <1>4, <1>5 DEF FdsOf, NoneLost, AllOwn, Stage, Working, InStart
<1>7. ASSUME NEW q \in Reactors, q # r
      PROVE  FdsOf(q)'
  <2>1. FdsOf(q) /\ state'[q] = state[q] /\ fds'[q] = fds[q] /\ status'[q] = status[q]
    BY <1>1, <1>7 DEF FdsWell
  <2> QED
    BY <1>1, <1>2, <1>3, <2>1, OthersStay
<1> QED
  BY <1>3, <1>6, <1>7 DEF FdsWell

\* A reactor in start() closes nothing but its own.
LEMMA CloseOwn ==
  ASSUME FdsWell, NEW r \in Reactors, state[r] \in Working,
         NEW S, S \subseteq Held(r) \cup {NoFd}, table' = Released(S)
  PROVE  /\ table' \in [Numbers -> 0..(N + 1)]
         /\ \A k \in Numbers : table'[k] = r <=> table[k] = r /\ k \notin S
         /\ \A q \in Reactors \ {r}, k \in Numbers : table'[k] = q <=> table[k] = q
<1>1. /\ table' \in [Numbers -> 0..(N + 1)]
      /\ \A k \in Numbers, q \in Reactors : table'[k] = q <=> table[k] = q /\ k \notin S
  BY ReleasedWell DEF FdsWell
<1>2. \A k \in S : k \in Numbers => table[k] = r
  BY NoNumber DEF FdsWell, FdsOf, AllOwn
<1> QED
  BY <1>1, <1>2

LEMMA FailsWell ==
  ASSUME FdsWell, MainWell, NEW r \in Reactors, StartFails(r)
  PROVE  FdsWell'
<1>1. /\ state[r] = "opened" /\ state' = [state EXCEPT ![r] = "returned"]
      /\ UNCHANGED <<fds, status>> /\ state \in [Reactors -> States]
  BY DEF StartFails, MainWell
<1>2. PICK S \in Failures(r) : table' = Released(S)
  BY DEF StartFails
<1>3. S \subseteq Held(r) \cup {NoFd}
  BY DEF Failures, Held
<1>4. /\ table' \in [Numbers -> 0..(N + 1)]
      /\ \A k \in Numbers : table'[k] = r <=> table[k] = r /\ k \notin S
      /\ \A q \in Reactors \ {r}, k \in Numbers : table'[k] = q <=> table[k] = q
  BY <1>1, <1>2, <1>3, CloseOwn DEF Working, InStart
<1>5. FdsType' /\ OnlyOf(r)
  BY <1>1, <1>4 DEF FdsWell, FdsType, OnlyOf
<1>6. FdsOf(r)'
  BY <1>1, <1>4 DEF FdsWell, FdsOf, NoneLost, AllOwn, Stage, Held, Working, InStart
<1> QED
  BY <1>5, <1>6, OwnStep

LEMMA AcceptWell ==
  ASSUME FdsWell, MainWell, NEW r \in Reactors, Accept(r)
  PROVE  FdsWell'
<1>1. /\ state[r] = "running" /\ UNCHANGED <<state, fds>> /\ FdsType /\ FdsOf(r)
  BY DEF Accept, FdsWell
<1>2. PICK n \in Opens \ {NoFd} :
         status' = [status EXCEPT ![r] = status[r] \cup {n}] /\ table' = Taken(table, n, r)
  BY DEF Accept
<1>3. OpensOne(r, n)
  <2>1. /\ table \in [Numbers -> 0..(N + 1)] /\ r \in 1..(N + 1)
        /\ n \in {NoFd} \cup Lowest({k \in Numbers : table[k] = 0})
        /\ table' = Taken(table, n, r)
    BY <1>1, <1>2, NoNumber DEF FdsType, Opens
  <2>2. n \in Numbers \cup {NoFd} /\ (n # NoFd => table[n] = 0)
    BY <2>1, LowestFree
  <2>3. /\ table' \in [Numbers -> 0..(N + 1)]
        /\ \A k \in Numbers : table'[k] = IF k = n THEN r ELSE table[k]
    BY <2>1, <2>2, TakenWell
  <2> QED
    BY <2>2, <2>3, NoNumber DEF OpensOne
<1>4. n \in Numbers /\ table[n] = 0
  BY <1>3 DEF OpensOne
<1>5. status'[r] = status[r] \cup {n} /\ \A q \in Reactors \ {r} : status'[q] = status[q]
  BY <1>1, <1>2 DEF FdsType
<1>6. FdsType' /\ OnlyOf(r)
  BY <1>1, <1>2, <1>3, <1>4, <1>5 DEF FdsType, OnlyOf, OpensOne
<1>7. Apart(r) /\ \A k \in Held(r) : table[k] = r
  BY <1>1 DEF FdsOf, AllOwn, Working, InStart
<1>8. Held(r)' = Held(r) \cup {n} /\ n \notin Held(r) /\ Held(r) \subseteq Numbers
  BY <1>1, <1>4, <1>5, <1>7, NoNumber DEF Held, FdsType, Fds
<1>9. NoneLost(r)' /\ Stage(r)'
  BY <1>1, <1>3, <1>8 DEF FdsOf, NoneLost, Stage, OpensOne
<1>10. \A k \in Held(r)' : table'[k] = r
  BY <1>3, <1>7, <1>8 DEF OpensOne
<1>11. Apart(r)'
  BY <1>1, <1>4, <1>5, <1>7, <1>8, NoNumber DEF Apart, Held
<1> QED
  BY <1>6, <1>9, <1>10, <1>11, OwnStep DEF FdsOf, AllOwn

LEMMA OncloseWell ==
  ASSUME FdsWell, MainWell, NEW r \in Reactors, NEW n \in Numbers, Onclose(r, n)
  PROVE  FdsWell'
<1>1. /\ state[r] \in {"running", "draining"} /\ UNCHANGED <<state, fds>> /\ n \in status[r]
      /\ status' = [status EXCEPT ![r] = status[r] \ {n}] /\ table' = Released({n})
      /\ FdsType /\ FdsOf(r)
  BY DEF Onclose, FdsWell
<1>2. {n} \subseteq Held(r) \cup {NoFd}
  BY <1>1 DEF Held
<1>3. /\ table' \in [Numbers -> 0..(N + 1)]
      /\ \A k \in Numbers : table'[k] = r <=> table[k] = r /\ k \notin {n}
      /\ \A q \in Reactors \ {r}, k \in Numbers : table'[k] = q <=> table[k] = q
  BY <1>1, <1>2, CloseOwn DEF Working, InStart
<1>4. status'[r] = status[r] \ {n} /\ \A q \in Reactors \ {r} : status'[q] = status[q]
  BY <1>1 DEF FdsType
<1>5. FdsType' /\ OnlyOf(r)
  BY <1>1, <1>3, <1>4 DEF FdsType, OnlyOf
<1>6. Apart(r) /\ \A k \in Held(r) : table[k] = r
  BY <1>1 DEF FdsOf, AllOwn, Working, InStart
<1>7. Held(r)' = Held(r) \ {n}
  BY <1>1, <1>4, <1>6 DEF Held, Apart
<1>8. Held(r) \subseteq Numbers
  BY <1>1 DEF Held, FdsType, Fds
<1>9. NoneLost(r)' /\ Stage(r)'
  BY <1>1, <1>3, <1>4, <1>7 DEF FdsOf, NoneLost, Stage
<1>10. \A k \in Held(r)' : table'[k] = r
  BY <1>3, <1>6, <1>7, <1>8
<1>11. Apart(r)'
  BY <1>1, <1>4, <1>6 DEF Apart
<1> QED
  BY <1>5, <1>9, <1>10, <1>11, OwnStep DEF FdsOf, AllOwn

LEMMA StopWell ==
  ASSUME FdsWell, MainWell, NEW r \in Reactors, Stop(r)
  PROVE  FdsWell'
<1>1. FdsType /\ FdsOf(r) /\ state \in [Reactors -> States] /\ fds[r] \in Fds
  BY DEF FdsWell, MainWell, FdsType
<1>2. /\ state[r] = "running" /\ state' = [state EXCEPT ![r] = "draining"] /\ status' = status
      /\ fds' = [fds EXCEPT ![r] = [fds[r] EXCEPT !.m_listen = NoFd]]
      /\ table' = Released({fds[r].m_listen})
  BY DEF Stop
<1>3. [fds[r] EXCEPT !.m_listen = NoFd] \in Fds
  BY <1>1 DEF Fds
<1>4. /\ fds' \in [Reactors -> Fds] /\ fds'[r] = [fds[r] EXCEPT !.m_listen = NoFd]
      /\ \A q \in Reactors \ {r} : fds'[q] = fds[q]
  BY <1>1, <1>2, <1>3, MembersSet
<1>5. /\ fds'[r].done = fds[r].done /\ fds'[r].idle_fd = fds[r].idle_fd
      /\ fds'[r].epfd = fds[r].epfd /\ fds'[r].m_listen = NoFd
      /\ state'[r] = "draining" /\ status'[r] = status[r]
  BY <1>1, <1>2, <1>4 DEF Fds
<1>6. {fds[r].m_listen} \subseteq Held(r) \cup {NoFd}
  BY DEF Held
<1>7. /\ table' \in [Numbers -> 0..(N + 1)]
      /\ \A k \in Numbers : table'[k] = r <=> table[k] = r /\ k \notin {fds[r].m_listen}
      /\ \A q \in Reactors \ {r}, k \in Numbers : table'[k] = q <=> table[k] = q
  BY <1>2, <1>6, CloseOwn DEF Working, InStart
<1>8. FdsType' /\ OnlyOf(r)
  BY <1>1, <1>2, <1>4, <1>7 DEF FdsType, OnlyOf
<1>9. Apart(r) /\ \A k \in Held(r) : table[k] = r
  BY <1>1, <1>2 DEF FdsOf, AllOwn, Working, InStart
<1>10. Held(r)' = Held(r) \ {fds[r].m_listen}
  BY <1>5, <1>9 DEF Held, Apart, Differ
<1>11. Held(r) \subseteq Numbers
  BY <1>1 DEF Held, FdsType, Fds
<1>12. NoneLost(r)' /\ Stage(r)'
  BY <1>1, <1>2, <1>5, <1>7, <1>10 DEF FdsOf, NoneLost, Stage
<1>13. \A k \in Held(r)' : table'[k] = r
  BY <1>7, <1>9, <1>10, <1>11
<1>14. Apart(r)'
  <2>1. NoFd \notin status[r]
    BY <1>1, NoNumber DEF FdsType
  <2> QED
    BY <1>5, <1>9, <2>1 DEF Apart, Differ
<1> QED
  BY <1>8, <1>12, <1>13, <1>14, OwnStep DEF FdsOf, AllOwn

LEMMA ReturnWell ==
  ASSUME FdsWell, MainWell, NEW r \in Reactors, Return(r)
  PROVE  FdsWell'
<1> DEFINE S == status[r] \cup {fds[r].m_listen, fds[r].epfd}
<1>1. FdsType /\ FdsOf(r) /\ state \in [Reactors -> States] /\ fds[r] \in Fds
  BY DEF FdsWell, MainWell, FdsType
<1>2. /\ state[r] = "draining" /\ state' = [state EXCEPT ![r] = "returned"]
      /\ fds' = [fds EXCEPT ![r] = [fds[r] EXCEPT !.epfd = NoFd, !.m_listen = NoFd]]
      /\ status' = [status EXCEPT ![r] = {}] /\ table' = Released(S)
  BY DEF Return
<1>3. [fds[r] EXCEPT !.epfd = NoFd, !.m_listen = NoFd] \in Fds
  BY <1>1 DEF Fds
<1>4. /\ fds' \in [Reactors -> Fds]
      /\ fds'[r] = [fds[r] EXCEPT !.epfd = NoFd, !.m_listen = NoFd]
      /\ \A q \in Reactors \ {r} : fds'[q] = fds[q]
  BY <1>1, <1>2, <1>3, MembersSet
<1>5. /\ fds'[r].done = fds[r].done /\ fds'[r].idle_fd = fds[r].idle_fd
      /\ fds'[r].epfd = NoFd /\ fds'[r].m_listen = NoFd
      /\ state'[r] = "returned" /\ status'[r] = {}
  BY <1>1, <1>2, <1>4 DEF Fds, FdsType
<1>6. S \subseteq Held(r) \cup {NoFd}
  BY DEF Held
<1>7. /\ table' \in [Numbers -> 0..(N + 1)]
      /\ \A k \in Numbers : table'[k] = r <=> table[k] = r /\ k \notin S
      /\ \A q \in Reactors \ {r}, k \in Numbers : table'[k] = q <=> table[k] = q
  BY <1>2, <1>6, CloseOwn DEF Working, InStart
<1>8. FdsType' /\ OnlyOf(r)
  BY <1>1, <1>2, <1>4, <1>7 DEF FdsType, OnlyOf
<1>9. Held(r) \subseteq Held(r)' \cup S
  BY <1>5 DEF Held
<1>10. FdsOf(r)'
  BY <1>1, <1>2, <1>5, <1>7, <1>9 DEF FdsOf, NoneLost, AllOwn, Stage, Working, InStart
<1> QED
  BY <1>8, <1>10, OwnStep

LEMMA FdsStay ==
  ASSUME MainWell, FdsWell, [RegistryNext]_registryVars
  PROVE  FdsWell'
<1>1. ASSUME UNCHANGED <<fds, status>>, FdsType',
             \A r \in Reactors : state'[r] = state[r] \/ {state[r], state'[r]} \subseteq Working,
             \A r \in Reactors : Stage(r)',
             \A r \in Reactors, n \in Numbers : table'[n] = r <=> table[n] = r
      PROVE  FdsWell'
  <2> SUFFICES ASSUME NEW r \in Reactors PROVE NoneLost(r)' /\ AllOwn(r)'
    BY <1>1 DEF FdsWell, FdsOf
  <2>1. FdsType /\ FdsOf(r)
    BY DEF FdsWell
  <2>2. Held(r)' = Held(r) /\ (Apart(r) => Apart(r)')
    BY <1>1 DEF Held, Apart
  <2>3. Held(r) \subseteq Numbers
    BY <2>1 DEF Held, FdsType, Fds
  <2> QED
    BY <1>1, <2>1, <2>2, <2>3 DEF FdsOf, NoneLost, AllOwn, Working, InStart
<1>2. ASSUME UNCHANGED <<fds, status, table, state>>
      PROVE  FdsWell'
  BY <1>1, <1>2 DEF FdsWell, FdsOf, Stage, FdsType
<1>3. CASE Change \/ Join \/ Handler \/ \E t \in Carriers : Signal(t)
  BY <1>2, <1>3 DEF Change, Join, Handler, HandlerStops, HandlerRings, Signal, descriptors
<1>4. CASE UNCHANGED registryVars
  BY <1>2, <1>4 DEF registryVars
<1>5. CASE OtherOpens
  <2>1. /\ UNCHANGED <<state, fds, status>>
        /\ \E n \in Opens \ {NoFd} : table' = Taken(table, n, N + 1)
    BY <1>5 DEF OtherOpens
  <2> PICK n \in Opens \ {NoFd} : table' = Taken(table, n, N + 1)
    BY <2>1
  <2>2. table \in [Numbers -> 0..(N + 1)] /\ N + 1 \in 1..(N + 1) /\ N + 1 \notin Reactors
    BY NAssumption DEF FdsWell, FdsType, Reactors
  <2>3. /\ table' \in [Numbers -> 0..(N + 1)]
        /\ \A r \in Reactors, k \in Numbers : table'[k] = r <=> table[k] = r
    <3>1. n \in {NoFd} \cup Lowest({k \in Numbers : table[k] = 0})
      BY DEF Opens
    <3>2. n \in Numbers /\ table[n] = 0
      BY <3>1, LowestFree
    <3>3. /\ table' \in [Numbers -> 0..(N + 1)]
          /\ \A k \in Numbers : table'[k] = IF k = n THEN N + 1 ELSE table[k]
      BY <2>2, <3>2, TakenWell
    <3> QED
      BY <2>2, <3>2, <3>3, NoNumber
  <2> QED
    BY <1>1, <2>1, <2>3 DEF FdsWell, FdsOf, FdsType, Stage
<1>6. CASE Serve
  <2>1. /\ UNCHANGED <<fds, status, table>>
        /\ \A r \in Reactors : state[r] = "made" /\ state'[r] = "starting"
    BY <1>6, NAssumption DEF Serve, MainWell, descriptors, Reactors
  <2> QED
    BY <1>1, <2>1 DEF FdsWell, FdsOf, FdsType, Stage, Working, InStart
<1>7. ASSUME NEW r \in Reactors, StartOk(r)
      PROVE  FdsWell'
  <2>1. /\ UNCHANGED <<fds, status, table>> /\ state[r] = "opened"
        /\ state' = [state EXCEPT ![r] = "running"] /\ state \in [Reactors -> States]
    BY <1>7 DEF StartOk, descriptors, MainWell
  <2>2. /\ \A q \in Reactors : state'[q] = state[q] \/ {state[q], state'[q]} \subseteq Working
        /\ \A q \in Reactors : state'[q] = IF q = r THEN "running" ELSE state[q]
    BY <2>1 DEF Working, InStart
  <2> QED
    BY <1>1, <2>1, <2>2 DEF FdsWell, FdsOf, FdsType, Stage
<1> QED
  BY <1>3, <1>4, <1>5, <1>6, <1>7, ConstructWell, DestroyWell, CreateWell, FailsWell,
     AcceptWell, OncloseWell, StopWell, ReturnWell
     DEF RegistryNext, MainStep, StartStep, StopByBell, StopByEvent

LEMMA DescriptorsSafe == RegistrySpec => [](MainWell /\ FdsWell)
<1>1. RegistryInit => MainWell
  BY NAssumption DEF RegistryInit, MainWell, Reactors, Listed, States
<1>2. RegistryInit => FdsWell
  BY NAssumption DEF RegistryInit, FdsWell, FdsType, FdsOf, NoneLost, AllOwn, Stage, Reactors,
                     Fds, Working, InStart
<1>3. MainWell /\ FdsWell /\ [RegistryNext]_registryVars => (MainWell /\ FdsWell)'
  BY MainStays, FdsStay
<1> QED
  BY <1>1, <1>2, <1>3, PTL DEF RegistrySpec

\* Whichever step of start() fails in whichever reactors, and whatever numbers they,
\* their connections and others have: a reactor that is gone leaves nothing open but
\* its spare descriptor, and whoever closes a number twice, it is none that a reactor
\* in start() works with.
THEOREM DescriptorsAreRight == RegistrySpec => []DescriptorsRight
<1>1. FdsWell => NoFdLeaks
  BY DEF FdsWell, FdsOf, NoneLost, NoFdLeaks
<1>2. FdsWell => SocketsKept
  BY DEF FdsWell, FdsOf, AllOwn, Working, SocketsKept
<1>3. FdsWell => DescriptorsRight
  BY <1>1, <1>2 DEF DescriptorsRight
<1> QED
  BY <1>3, DescriptorsSafe, PTL

-----------------------------------------------------------------------------
(* Guards, cursors and handles.                                            *)

\* The variables of f own the things of T, each one of them in one variable.
Owns(f, T) == /\ \A x \in DOMAIN f : f[x] = Null \/ f[x] \in T
              /\ \A t \in T : \E x \in DOMAIN f : f[x] = t
              /\ \A x, y \in DOMAIN f : f[x] = f[y] /\ f[x] # Null => x = y

\* An owner with nothing in it changes nothing.
LEMMA OwnEmpty ==
  ASSUME NEW f, NEW T, Owns(f, T), Null \notin T, NEW x, x \notin DOMAIN f
  PROVE  Owns(With(f, x, Null), T)
BY DEF Owns, With

\* An owner with something new in it.
LEMMA OwnNew ==
  ASSUME NEW f, NEW T, Owns(f, T), NEW x, x \notin DOMAIN f, NEW v, v \notin T, v # Null
  PROVE  Owns(With(f, x, v), T \cup {v})
BY DEF Owns, With

\* An owner goes, and what it owned with it.
LEMMA OwnGone ==
  ASSUME NEW f, NEW T, Owns(f, T), NEW x \in DOMAIN f
  PROVE  Owns(Without(f, x), T \ {f[x]})
BY DEF Owns, Without

\* The move constructors: what was owned is owned by another one.
LEMMA OwnMoved ==
  ASSUME NEW f, NEW T, Owns(f, T), Null \notin T, NEW o \in DOMAIN f, NEW x, x \notin DOMAIN f
  PROVE  Owns(With(With(f, x, f[o]), o, Null), T)
<1> DEFINE g == With(With(f, x, f[o]), o, Null)
<1>1. /\ DOMAIN g = DOMAIN f \cup {x}
      /\ g[x] = f[o] /\ g[o] = Null
      /\ \A y \in DOMAIN f \ {o} : g[y] = f[y]
  BY DEF With
<1> QED
  BY <1>1 DEF Owns

\* The move assignments: the one assigned to loses what it had.
LEMMA OwnAssigned ==
  ASSUME NEW f, NEW T, Owns(f, T), Null \notin T,
         NEW x \in DOMAIN f, NEW o \in DOMAIN f, x # o
  PROVE  Owns([f EXCEPT ![x] = f[o], ![o] = Null], T \ {f[x]})
<1> DEFINE g == [f EXCEPT ![x] = f[o], ![o] = Null]
<1>1. /\ DOMAIN g = DOMAIN f
      /\ g[x] = f[o] /\ g[o] = Null
      /\ \A y \in DOMAIN f \ {x, o} : g[y] = f[y]
  OBVIOUS
<1> HIDE DEF g
<1> QED
  BY <1>1 DEF Owns

-----------------------------------------------------------------------------
(* The invariant.                                                          *)

Types == /\ db \in [DOMAIN db -> Handles \cup {Null}]
         /\ DOMAIN db \subseteq Conns /\ idle \subseteq DOMAIN db
         /\ stmt \in [DOMAIN stmt -> handles]
         /\ DOMAIN stmt \subseteq Stmts /\ handles \subseteq Handles
         /\ DOMAIN stmt \cup handles \subseteq used

\* The connections there are have handles of their own, and these are open.
OwnHandles ==
    /\ \A c \in DOMAIN db : db[c] # Null => db[c] \in handles
    /\ \A c, d \in DOMAIN db : db[c] = db[d] /\ db[c] # Null => c = d

\* With careful users a statement belongs to a connection that is lent, and so
\* nothing keeps sqlite3_close from closing the others.
CarefulUse ==
    careful => /\ \A s \in DOMAIN stmt : \E c \in Lent : stmt[s] = db[c]
               /\ \A h \in handles : \E c \in DOMAIN db : h = db[c]

Inv == /\ Types /\ OwnHandles /\ CarefulUse
       /\ Owns(guard, Lent)
       /\ Owns(cursor, DOMAIN stmt)

-----------------------------------------------------------------------------
(* One lemma per action.                                                   *)

\* Null is no connection and no statement, wherever there are some.
LEMMA NullApart ==
  ASSUME Types
  PROVE  Null \notin Lent /\ Null \notin DOMAIN stmt /\ Null \notin handles
BY NullAssumption DEF Types, Lent

\* Connection's constructor takes a handle nobody has had.
LEMMA ConstructStep ==
  ASSUME Inv, NEW c \in Conns, Construct(c)
  PROVE  Inv'
<1> USE DEF Inv, Construct, sqlite
<1>1. Lent' = Lent
  BY DEF Lent, Types, With
<1>2. /\ DOMAIN db' = DOMAIN db \cup {c}
      /\ \A d \in DOMAIN db : db'[d] = db[d]
  BY DEF With
<1>3. CASE db' = With(db, c, Null) /\ UNCHANGED sqlite
  <2>1. db'[c] = Null
    BY <1>3 DEF With
  <2>2. db' \in [DOMAIN db' -> Handles \cup {Null}]
    BY <1>3 DEF With, Types
  <2>3. Types'
    BY <1>2, <1>3, <2>2 DEF Types
  <2>4. OwnHandles'
    BY <1>2, <1>3, <2>1 DEF OwnHandles, Types
  <2>5. CarefulUse'
    BY <1>1, <1>2, <1>3 DEF CarefulUse, Lent
  <2> QED
    BY <1>1, <1>3, <2>3, <2>4, <2>5
<1>4. ASSUME NEW h \in Handles \ used, db' = With(db, c, h), handles' = handles \cup {h},
             used' = used \cup {h}, UNCHANGED stmt
      PROVE  Inv'
  <2>1. db'[c] = h
    BY <1>4 DEF With
  <2>2. db' \in [DOMAIN db' -> Handles \cup {Null}]
    BY <1>4 DEF With, Types
  <2>3. Types'
    BY <1>2, <1>4, <2>2 DEF Types
  <2>4. OwnHandles'
    BY <1>2, <1>4, <2>1 DEF OwnHandles, Types
  <2>5. CarefulUse'
    BY <1>1, <1>2, <1>4, <2>1 DEF CarefulUse, Lent
  <2> QED
    BY <1>1, <1>4, <2>3, <2>4, <2>5
<1> QED
  BY <1>3, <1>4

\* The scanner and ~ConnectionPool: what is destroyed was idle, so that careful
\* users have no statement on it and its handle is closed.
LEMMA DestroysStep ==
  ASSUME Inv, NEW cs \in SUBSET idle, Destroys(cs), idle' = idle \ cs,
         UNCHANGED <<guard, cursor, stmt, used, careful>>
  PROVE  Inv'
<1> USE DEF Inv
<1>1. /\ DOMAIN db' = DOMAIN db \ cs
      /\ \A d \in DOMAIN db' : db'[d] = db[d]
      /\ handles' = handles \ Closes({db[c] : c \in cs})
  BY DEF Destroys
<1>2. Lent' = Lent
  BY <1>1 DEF Lent, Types
<1>3. \A s \in DOMAIN stmt : stmt[s] \in handles'
  BY <1>1 DEF Closes, Types
<1>4. Types'
  <2>1. stmt' \in [DOMAIN stmt' -> handles']
    BY <1>3 DEF Types
  <2>2. db' \in [DOMAIN db' -> Handles \cup {Null}]
    BY <1>1 DEF Types, Destroys
  <2> QED
    BY <1>1, <2>1, <2>2 DEF Types
<1>5. OwnHandles'
  <2>1. \A d \in DOMAIN db' : db[d] # Null => db[d] \notin Closes({db[c] : c \in cs})
    BY <1>1 DEF OwnHandles, Closes, Types
  <2> QED
    BY <1>1, <2>1 DEF OwnHandles
<1>6. CarefulUse'
  <2> SUFFICES ASSUME careful PROVE CarefulUse'
    BY DEF CarefulUse
  <2>1. \A s \in DOMAIN stmt' : \E c \in Lent' : stmt'[s] = db'[c]
    BY <1>1, <1>2 DEF CarefulUse, Lent
  <2>2. ASSUME NEW h \in handles' PROVE \E c \in DOMAIN db' : h = db'[c]
    <3>1. PICK c \in DOMAIN db : h = db[c]
      BY <1>1 DEF CarefulUse
    <3>2. h # Null
      BY <1>1, NullApart
    <3>3. c \notin cs
      <4> SUFFICES ASSUME c \in cs PROVE FALSE
        OBVIOUS
      <4>1. \A s \in DOMAIN stmt : stmt[s] # h
        BY <3>1, <3>2 DEF CarefulUse, OwnHandles, Lent, Types
      <4> QED
        BY <1>1, <3>1, <3>2, <4>1 DEF Closes
    <3> QED
      BY <1>1, <3>1, <3>3
  <2> QED
    BY <2>1, <2>2 DEF CarefulUse
<1> QED
  BY <1>2, <1>4, <1>5, <1>6

\* acquire.
LEMMA AcquireStep ==
  ASSUME Inv, NEW g \in Guards, Acquire(g)
  PROVE  Inv'
<1> USE DEF Inv
<1>1. PICK c \in idle \cup {Null} : guard' = With(guard, g, c) /\ idle' = idle \ {c}
  BY DEF Acquire
<1>2. g \notin DOMAIN guard /\ UNCHANGED <<db, cursor, stmt, handles, used, careful>>
  BY DEF Acquire, sqlite
<1>3. Lent \subseteq Lent' /\ Null \notin Conns
  BY <1>1, <1>2, NullAssumption DEF Lent
<1>4. Owns(guard', Lent')
  <2>1. CASE c = Null
    <3>1. Lent' = Lent
      BY <1>1, <1>2, <1>3, <2>1 DEF Lent, Types
    <3> QED
      BY <1>1, <1>2, <2>1, <3>1, OwnEmpty, NullApart
  <2>2. CASE c # Null
    <3>1. Lent' = Lent \cup {c} /\ c \notin Lent
      BY <1>1, <1>2, <2>2 DEF Lent, Types
    <3> QED
      BY <1>1, <1>2, <2>2, <3>1, OwnNew
  <2> QED
    BY <2>1, <2>2
<1>5. Types' /\ OwnHandles'
  BY <1>1, <1>2 DEF Types, OwnHandles
<1>6. CarefulUse'
  BY <1>2, <1>3 DEF CarefulUse
<1> QED
  BY <1>2, <1>4, <1>5, <1>6

\* What a guard returns is idle again, and with careful users no statement is left
\* on it.
LEMMA ReturnsStep ==
  ASSUME Inv, NEW g \in DOMAIN guard, Returnable(guard[g]), Returns(guard[g]),
         UNCHANGED <<db, cursor, stmt, handles, used, careful>>
  PROVE  Types' /\ OwnHandles' /\ CarefulUse' /\ Lent' = Lent \ {guard[g]}
<1> USE DEF Inv
<1>1. guard[g] = Null \/ guard[g] \in Lent
  BY DEF Owns
<1>2. Null \notin Lent
  BY NullApart
<1>3. idle' = idle \cup ({guard[g]} \ {Null})
  BY DEF Returns
<1>4. Lent' = Lent \ {guard[g]}
  BY <1>1, <1>2, <1>3 DEF Lent
<1>5. Types' /\ OwnHandles'
  BY <1>1, <1>3 DEF Types, OwnHandles, Lent
<1>6. CarefulUse'
  <2> SUFFICES ASSUME careful, guard[g] # Null,
                      NEW s \in DOMAIN stmt
               PROVE  stmt[s] # db[guard[g]]
    BY <1>2, <1>4 DEF CarefulUse
  <2>1. PICK k \in DOMAIN cursor : cursor[k] = s
    BY DEF Owns
  <2>2. s # Null
    BY NullApart
  <2> QED
    BY <2>1, <2>2 DEF Returnable
<1> QED
  BY <1>4, <1>5, <1>6

\* ~ConnectionGuard and its moves.
LEMMA GuardStep ==
  ASSUME Inv, NEW g \in Guards,
         GuardDtor(g) \/ \E o \in Guards : GuardMove(g, o) \/ GuardAssign(g, o)
  PROVE  Inv'
<1> USE DEF Inv
<1>1. CASE GuardDtor(g)
  <2>1. /\ g \in DOMAIN guard /\ guard' = Without(guard, g)
        /\ Returnable(guard[g]) /\ Returns(guard[g])
        /\ UNCHANGED <<db, cursor, stmt, handles, used, careful>>
    BY <1>1 DEF GuardDtor, sqlite
  <2>2. Types' /\ OwnHandles' /\ CarefulUse' /\ Lent' = Lent \ {guard[g]}
    BY <2>1, ReturnsStep
  <2>3. Owns(guard', Lent')
    BY <2>1, <2>2, OwnGone
  <2> QED
    BY <2>1, <2>2, <2>3
<1>2. ASSUME NEW o \in Guards, GuardMove(g, o) PROVE Inv'
  <2>1. /\ o \in DOMAIN guard /\ g \notin DOMAIN guard
        /\ guard' = With(With(guard, g, guard[o]), o, Null)
        /\ UNCHANGED <<db, idle, cursor, stmt, handles, used, careful>>
    BY <1>2 DEF GuardMove, sqlite
  <2>2. Lent' = Lent /\ Null \notin Lent
    BY <2>1, NullApart DEF Lent
  <2>3. Owns(guard', Lent')
    BY <2>1, <2>2, OwnMoved
  <2> QED
    BY <2>1, <2>2, <2>3 DEF Types, OwnHandles, CarefulUse
<1>3. ASSUME NEW o \in Guards, GuardAssign(g, o) PROVE Inv'
  <2>1. /\ o \in DOMAIN guard /\ g \in DOMAIN guard /\ g # o
        /\ guard' = [guard EXCEPT ![g] = guard[o], ![o] = Null]
        /\ Returnable(guard[g]) /\ Returns(guard[g])
        /\ UNCHANGED <<db, cursor, stmt, handles, used, careful>>
    BY <1>3 DEF GuardAssign, sqlite
  <2>2. Types' /\ OwnHandles' /\ CarefulUse' /\ Lent' = Lent \ {guard[g]}
    BY <2>1, ReturnsStep
  <2>3. Owns(guard, Lent) /\ Null \notin Lent
    BY NullApart
  <2>4. Owns(guard', Lent')
    BY ONLY <2>1, <2>2, <2>3, OwnAssigned
  <2> QED
    BY <2>1, <2>2, <2>4
<1> QED
  BY <1>1, <1>2, <1>3

\* query.
LEMMA QueryStep ==
  ASSUME Inv, NEW g \in Guards, NEW k \in Cursors, Query(g, k)
  PROVE  Inv'
<1> USE DEF Inv
<1>1. /\ k \notin DOMAIN cursor
      /\ UNCHANGED <<db, idle, guard, handles, careful>>
      /\ guard[g] \in Lent /\ db[guard[g]] \in handles
  BY DEF Query, Owns, OwnHandles, Lent
<1>2. Lent' = Lent
  BY <1>1 DEF Lent
<1>3. CASE cursor' = With(cursor, k, Null) /\ UNCHANGED <<stmt, used>>
  <2>1. Owns(cursor', DOMAIN stmt')
    BY <1>1, <1>3, OwnEmpty, NullApart
  <2> QED
    BY <1>1, <1>2, <1>3, <2>1 DEF Types, OwnHandles, CarefulUse
<1>4. ASSUME NEW s \in Stmts \ used, stmt' = With(stmt, s, db[guard[g]]),
             cursor' = With(cursor, k, s), used' = used \cup {s}
      PROVE  Inv'
  <2>1. /\ DOMAIN stmt' = DOMAIN stmt \cup {s} /\ stmt'[s] = db[guard[g]]
        /\ \A x \in DOMAIN stmt : stmt'[x] = stmt[x]
    BY <1>4 DEF With, Types
  <2>2. stmt' \in [DOMAIN stmt' -> handles']
    BY <1>1, <1>4 DEF With, Types
  <2>3. Types' /\ OwnHandles'
    BY <1>1, <1>4, <2>1, <2>2 DEF Types, OwnHandles
  <2>4. CarefulUse'
    BY <1>1, <1>2, <2>1 DEF CarefulUse
  <2>5. Owns(cursor', DOMAIN stmt')
    BY <1>1, <1>4, <2>1, OwnNew, NullAssumption DEF Types
  <2> QED
    BY <1>1, <1>2, <2>3, <2>4, <2>5
<1> QED
  BY <1>3, <1>4 DEF Query

\* sqlite3_finalize.
LEMMA FinalizeStep ==
  ASSUME Inv, NEW s, Finalize(s), UNCHANGED <<db, idle, handles, used, careful>>
  PROVE  Types' /\ OwnHandles' /\ CarefulUse' /\ DOMAIN stmt' = DOMAIN stmt \ {s}
<1> USE DEF Inv
<1>1. /\ DOMAIN stmt' = DOMAIN stmt \ {s}
      /\ \A x \in DOMAIN stmt' : stmt'[x] = stmt[x]
  BY DEF Finalize
<1>2. stmt' \in [DOMAIN stmt' -> handles']
  BY DEF Finalize, Types
<1> QED
  BY <1>1, <1>2 DEF Types, OwnHandles, CarefulUse, Lent

\* ~Cursor and its moves.
LEMMA CursorStep ==
  ASSUME Inv, NEW k \in Cursors,
         CursorDtor(k) \/ \E o \in Cursors : CursorMove(k, o) \/ CursorAssign(k, o)
  PROVE  Inv'
<1> USE DEF Inv
<1>1. CASE CursorDtor(k)
  <2>1. /\ k \in DOMAIN cursor /\ cursor' = Without(cursor, k) /\ Finalize(cursor[k])
        /\ UNCHANGED <<db, idle, guard, handles, used, careful>>
    BY <1>1 DEF CursorDtor
  <2>2. Types' /\ OwnHandles' /\ CarefulUse' /\ DOMAIN stmt' = DOMAIN stmt \ {cursor[k]}
    BY <2>1, FinalizeStep
  <2>3. Owns(cursor', DOMAIN stmt')
    BY <2>1, <2>2, OwnGone
  <2> QED
    BY <2>1, <2>2, <2>3 DEF Lent
<1>2. ASSUME NEW o \in Cursors, CursorMove(k, o) PROVE Inv'
  <2>1. /\ o \in DOMAIN cursor /\ k \notin DOMAIN cursor
        /\ cursor' = With(With(cursor, k, cursor[o]), o, Null)
        /\ UNCHANGED <<db, idle, guard, stmt, handles, used, careful>>
    BY <1>2 DEF CursorMove, sqlite
  <2>2. Owns(cursor', DOMAIN stmt')
    BY <2>1, OwnMoved, NullApart
  <2> QED
    BY <2>1, <2>2 DEF Types, OwnHandles, CarefulUse, Lent
<1>3. ASSUME NEW o \in Cursors, CursorAssign(k, o) PROVE Inv'
  <2>1. /\ o \in DOMAIN cursor /\ k \in DOMAIN cursor /\ k # o
        /\ cursor' = [cursor EXCEPT ![k] = cursor[o], ![o] = Null]
        /\ Finalize(cursor[k])
        /\ UNCHANGED <<db, idle, guard, handles, used, careful>>
    BY <1>3 DEF CursorAssign
  <2>2. Types' /\ OwnHandles' /\ CarefulUse' /\ DOMAIN stmt' = DOMAIN stmt \ {cursor[k]}
    BY <2>1, FinalizeStep
  <2>3. Owns(cursor, DOMAIN stmt) /\ Null \notin DOMAIN stmt
    BY NullApart
  <2>4. Owns(cursor', DOMAIN stmt \ {cursor[k]})
    <3> DEFINE T == DOMAIN stmt
    <3>1. Owns(cursor, T) /\ Null \notin T
      BY <2>3
    <3> HIDE DEF T
    <3>2. Owns(cursor', T \ {cursor[k]})
      BY ONLY <2>1, <3>1, OwnAssigned
    <3> QED
      BY <3>2 DEF T
  <2> QED
    BY ONLY Inv, <2>1, <2>2, <2>4 DEF Inv, Lent
<1> QED
  BY <1>1, <1>2, <1>3

-----------------------------------------------------------------------------

\* The invariant holds in every state.
THEOREM Invariance == Spec => []Inv
<1>1. Init => Inv
  BY DEF Init, None, Inv, Types, OwnHandles, CarefulUse, Owns, Lent
<1>2. Inv /\ [Next]_vars => Inv'
  <2> SUFFICES ASSUME Inv, [Next]_vars PROVE Inv'
    OBVIOUS
  <2>1. ASSUME NEW c \in Conns, Scan(c) PROVE Inv'
    BY <2>1, DestroysStep DEF Scan
  <2>2. CASE PoolEnds
    <3>1. Destroys(idle) /\ idle' = idle \ idle
      BY <2>2 DEF PoolEnds
    <3> QED
      BY <2>2, <3>1, DestroysStep DEF PoolEnds
  <2>3. CASE UNCHANGED vars
    BY <2>3 DEF vars, Inv, Types, OwnHandles, CarefulUse, Owns, Lent
  <2> QED
    BY <2>1, <2>2, <2>3, ConstructStep, AcquireStep, GuardStep, QueryStep, CursorStep
       DEF Next
<1> QED
  BY <1>1, <1>2, PTL DEF Spec

\* The owners of a thing, counted.
LEMMA OwnersCounted ==
  ASSUME NEW f, NEW T, Owns(f, T), NEW t, t # Null
  PROVE  Cardinality({x \in DOMAIN f : f[x] = t}) = (IF t \in T THEN 1 ELSE 0)
<1> DEFINE S == {x \in DOMAIN f : f[x] = t}
<1>1. CASE t \in T
  <2>1. PICK x \in DOMAIN f : f[x] = t
    BY <1>1 DEF Owns
  <2>2. S = {x}
    BY <2>1 DEF Owns
  <2> QED
    BY <1>1, <2>2, FS_Singleton
<1>2. CASE t \notin T
  <2>1. S = {}
    BY <1>2 DEF Owns
  <2> QED
    BY <1>2, <2>1, FS_EmptySet
<1> QED
  BY <1>1, <1>2

\* Wherever guards and cursors are moved, a connection that is lent is in exactly one
\* guard and a statement in exactly one cursor: release and sqlite3_finalize are
\* called once for each.
THEOREM OwnedOnce == Spec => []OneOwner
<1>1. Inv => OneOwner
  <2> SUFFICES ASSUME Inv PROVE LoansExact /\ StatementsOwned
    BY DEF OneOwner
  <2>1. Owns(guard, Lent) /\ Owns(cursor, DOMAIN stmt)
    BY DEF Inv
  <2>2. LoansExact
    BY <2>1, OwnersCounted, NullAssumption DEF LoansExact
  <2>3. StatementsOwned
    BY <2>1, OwnersCounted, NullAssumption DEF StatementsOwned
  <2> QED
    BY <2>2, <2>3
<1> QED
  BY <1>1, Invariance, PTL

\* A cursor can be used as long as it lives, even after its guard and its connection;
\* and if cursors are deleted before their guards, no handle stays open that no
\* connection has.
THEOREM HandlesAsNeeded == Spec => []HandlesRight
<1>1. Inv => HandlesRight
  <2> SUFFICES ASSUME Inv PROVE CursorsUsable /\ (careful => HandlesClosed)
    BY DEF HandlesRight
  <2>1. CursorsUsable
    BY DEF CursorsUsable, Inv, Types
  <2>2. ASSUME careful PROVE HandlesClosed
    BY <2>2, NullApart DEF HandlesClosed, Inv, CarefulUse, OwnHandles
  <2> QED
    BY <2>1, <2>2
<1> QED
  BY <1>1, Invariance, PTL
=============================================================================
