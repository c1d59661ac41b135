------------------------------ MODULE Registry ------------------------------
(***************************************************************************)
(* g_instance of src/src/Epoll.cpp, the list of the reactors a signal must *)
(* stop, and the descriptors of these reactors in the table all share.     *)
(* The program that runs several of them is not in the repository;         *)
(* docs/BUGLOG.md 7 describes it: the main thread constructs the reactors  *)
(* one after the other, then gives each a thread for start(), joins them   *)
(* all and destroys the objects after that.  on_signal runs in whatever    *)
(* thread the system picks, and walks the list without a lock.  Of start() *)
(* there is how it begins, with its failures, what it opens and closes,    *)
(* and how it ends; Reactor.tla has what is between.                       *)
(***************************************************************************)
EXTENDS Integers, Sequences, FiniteSets

CONSTANTS N,           \* reactors
          Numbers,     \* descriptors
          MaxConns,    \* bound: connections a reactor has at a time
          MaxOthers,   \* bound: descriptors of others, such as the logger's files
          Phases,      \* the phases of main in which a signal may come
          Carriers,    \* threads that may be picked: 0 is main, 1..N those of the
                       \* reactors, N + 1 any other, such as a worker or the logger
          MaxSignals   \* bound: signals

ASSUME NAssumption == N \in Nat \ {0} /\ Carriers \subseteq 0..(N + 1) /\ MaxSignals \in Nat
ASSUME PhasesAssumption == Phases \subseteq {"construct", "serve", "destroy"}
ASSUME NumbersAssumption == Numbers \subseteq Nat \ {0} /\ MaxConns \in Nat /\ MaxOthers \in Nat

VARIABLES phase,     \* of main: "construct", "serve", "destroy", "over"
          next,      \* the reactor it is at
          changing,  \* main is inside push_back or erase
          reg,       \* g_instance
          state,     \* of each reactor: see States
          fds,       \* its members done, idle_fd, epfd and m_listen
          status,    \* its connections
          table,     \* who has opened each number: 0 if it is free, or 1..N, or N + 1
          stopping, bell,
          walk,      \* the handler: the thread it is in and how far it is
          signals

registryVars == <<phase, next, changing, reg, state, fds, status, table, stopping, bell,
                  walk, signals>>
descriptors == <<fds, status, table>>
handling == <<stopping, bell, walk, signals>>

Reactors == 1..N
NoFd == -1
Fds == [done : Numbers \cup {NoFd}, idle_fd : Numbers \cup {NoFd},
        epfd : Numbers \cup {NoFd}, m_listen : Numbers \cup {NoFd}]
NoWalk == [in |-> N + 2, at |-> 0]
Walking == walk # NoWalk

\* start() is at epoll_create1, at create_fd, at its checks, in its loop, in the drain
\* that ends it.
InStart == {"starting", "created", "opened", "running", "draining"}
States == {"none", "made", "returned", "freed"} \cup InStart

RegistryTypeOK == /\ phase \in {"construct", "serve", "destroy", "over"}
                  /\ next \in 1..(N + 1)
                  /\ changing \in BOOLEAN
                  /\ reg \in Seq(Reactors) /\ Len(reg) <= N
                  /\ state \in [Reactors -> States]
                  /\ fds \in [Reactors -> Fds]
                  /\ status \in [Reactors -> SUBSET Numbers]
                  /\ table \in [Numbers -> 0..(N + 1)]
                  /\ stopping \subseteq Reactors /\ bell \subseteq Reactors
                  /\ walk \in [in : 0..(N + 2), at : 0..N]
                  /\ signals \in 0..MaxSignals

RegistryInit == /\ phase = "construct" /\ next = 1 /\ changing = FALSE
                /\ reg = <<>>
                /\ state = [r \in Reactors |-> "none"]
                /\ fds = [r \in Reactors |-> [done |-> NoFd, idle_fd |-> NoFd,
                                              epfd |-> NoFd, m_listen |-> NoFd]]
                /\ status = [r \in Reactors |-> {}]
                /\ table = [n \in Numbers |-> 0]
                /\ stopping = {} /\ bell = {}
                /\ walk = NoWalk
                /\ signals = 0

\* A thread goes on only when no handler runs in it.
Free(thread) == walk.in # thread

-----------------------------------------------------------------------------
(* The table of descriptors.                                               *)

\* A call that opens one fails, or returns the lowest number that is free.
Lowest(free) == {n \in free : \A k \in free : n <= k}
Opens == {NoFd} \cup Lowest({n \in Numbers : table[n] = 0})

\* The table when `owner` has opened the number n.
Taken(t, n, owner) == [k \in Numbers |-> IF k = n THEN owner ELSE t[k]]

\* The table when the numbers S have been closed, whoever had opened them.
Released(S) == [n \in Numbers |-> IF n \in S THEN 0 ELSE table[n]]

\* Others open files too.
OtherOpens == /\ Cardinality({n \in Numbers : table[n] = N + 1}) < MaxOthers
              /\ \E n \in Opens \ {NoFd} : table' = Taken(table, n, N + 1)
              /\ UNCHANGED <<phase, next, changing, reg, state, fds, status, handling>>

-----------------------------------------------------------------------------
(* The main thread.                                                        *)

\* push_back and erase take time.
Change == /\ Free(0) /\ ~changing /\ next <= N /\ phase \in {"construct", "destroy"}
          /\ changing' = TRUE
          /\ UNCHANGED <<phase, next, reg, state, descriptors, handling>>

\* Epoll(): the eventfd of done, the entry in the list, and the spare descriptor.
ConstructReactor ==
    /\ Free(0) /\ changing /\ phase = "construct"
    /\ reg' = Append(reg, next)
    /\ \E d \in Opens :
          LET t == Taken(table, d, next)
          IN  \E i \in {NoFd} \cup Lowest({n \in Numbers : t[n] = 0}) :
                 /\ fds' = [fds EXCEPT ![next] = [@ EXCEPT !.done = d, !.idle_fd = i]]
                 /\ table' = Taken(t, i, next)
    /\ state' = [state EXCEPT ![next] = "made"]
    /\ changing' = FALSE
    /\ next' = next + 1
    /\ UNCHANGED <<phase, status, handling>>

\* The threads are made.
Serve ==
    /\ Free(0) /\ phase = "construct" /\ next > N
    /\ phase' = "serve"
    /\ state' = [r \in Reactors |-> "starting"]
    /\ next' = 1
    /\ UNCHANGED <<changing, reg, descriptors, handling>>

\* One thread joined is enough to begin with the objects.
JoinFirst ==
    /\ Free(0) /\ phase = "serve"
    /\ state[1] = "returned"
    /\ phase' = "destroy"
    /\ UNCHANGED <<next, changing, reg, state, descriptors, handling>>

\* All threads are joined before the first object goes.
Join ==
    /\ Free(0) /\ phase = "serve"
    /\ \A r \in Reactors : state[r] = "returned"
    /\ phase' = "destroy"
    /\ UNCHANGED <<next, changing, reg, state, descriptors, handling>>

\* A destructor that closes epfd along with m_listen.
ClosedTogether(r) ==
    IF fds[r].m_listen = NoFd THEN {fds[r].done}
    ELSE {fds[r].m_listen, fds[r].epfd, fds[r].done}

\* ~Epoll closes what is not -1, be it closed already, and ~Donequeue the eventfd.
Closed(r) == {fds[r].m_listen, fds[r].epfd, fds[r].done} \ {NoFd}

\* The list without its element i.
Erased(i) == [k \in 1..(Len(reg) - 1) |-> IF k < i THEN reg[k] ELSE reg[k + 1]]

\* ~Epoll: the descriptors, find and erase, then the members.
Destroy ==
    /\ Free(0) /\ changing /\ phase = "destroy"
    /\ \E i \in DOMAIN reg : reg[i] = next /\ reg' = Erased(i)
    /\ state' = [state EXCEPT ![next] = "freed"]
    /\ table' = Released(Closed(next))
    /\ changing' = FALSE
    /\ next' = next + 1
    /\ phase' = IF next = N THEN "over" ELSE phase
    /\ UNCHANGED <<fds, status, handling>>

-----------------------------------------------------------------------------
(* start().                                                                *)

main == <<phase, next, changing, reg>>

CreateEpfd(r) ==
    /\ Free(r) /\ state[r] = "starting"
    /\ state' = [state EXCEPT ![r] = "created"]
    /\ \E n \in Opens : /\ fds' = [fds EXCEPT ![r].epfd = n]
                        /\ table' = Taken(table, n, r)
    /\ UNCHANGED <<main, status, handling>>

\* create_fd has closed its socket again if it returns -1.
CreateListen(r) ==
    /\ Free(r) /\ state[r] = "created"
    /\ state' = [state EXCEPT ![r] = "opened"]
    /\ \E n \in Opens : /\ fds' = [fds EXCEPT ![r].m_listen = n]
                        /\ table' = Taken(table, n, r)
    /\ UNCHANGED <<main, status, handling>>

StartOk(r) == /\ Free(r) /\ state[r] = "opened"
              /\ NoFd \notin {fds[r].done, fds[r].epfd, fds[r].m_listen}
              /\ state' = [state EXCEPT ![r] = "running"]
              /\ UNCHANGED <<main, descriptors, handling>>

\* What start closes before it returns false; it leaves the numbers in the members.
\* Without a socket or an eventfd it closes nothing; then epoll_create1 may have
\* failed, or set_nonblocking, or epoll_ctl.
Failures(r) ==
    IF NoFd \in {fds[r].m_listen, fds[r].done} THEN {{}}
    ELSE IF fds[r].epfd = NoFd THEN {{fds[r].m_listen}}
    ELSE {{fds[r].m_listen}, {fds[r].m_listen, fds[r].epfd}}

StartFails(r) ==
    /\ Free(r) /\ state[r] = "opened"
    /\ state' = [state EXCEPT ![r] = "returned"]
    /\ \E S \in Failures(r) : table' = Released(S)
    /\ UNCHANGED <<main, fds, status, handling>>

Accept(r) ==
    /\ Free(r) /\ state[r] = "running"
    /\ Cardinality(status[r]) < MaxConns
    /\ \E n \in Opens \ {NoFd} : /\ status' = [status EXCEPT ![r] = @ \cup {n}]
                                 /\ table' = Taken(table, n, r)
    /\ UNCHANGED <<main, state, fds, handling>>

Onclose(r, n) ==
    /\ Free(r) /\ state[r] \in {"running", "draining"} /\ n \in status[r]
    /\ status' = [status EXCEPT ![r] = @ \ {n}]
    /\ table' = Released({n})
    /\ UNCHANGED <<main, state, fds, handling>>

\* The listening socket is closed and its number kept in m_listen.
StopKeepingNumber(r) ==
    /\ Free(r) /\ state[r] = "running" /\ r \in stopping
    /\ state' = [state EXCEPT ![r] = "draining"]
    /\ table' = Released({fds[r].m_listen})
    /\ UNCHANGED <<main, fds, status, handling>>

\* The loop sees stopping.
Stop(r) ==
    /\ Free(r) /\ state[r] = "running" /\ r \in stopping
    /\ state' = [state EXCEPT ![r] = "draining"]
    /\ table' = Released({fds[r].m_listen})
    /\ fds' = [fds EXCEPT ![r].m_listen = NoFd]
    /\ UNCHANGED <<main, status, handling>>

\* It comes back from epoll_wait because of its bell and sees stopping.
StopByBell(r) == r \in bell /\ Stop(r)

\* It comes back because of a client, and sees stopping just the same.
StopByEvent(r) == r \notin bell /\ Stop(r)

\* The drain has ended: the connections and both descriptors are closed.
Return(r) ==
    /\ Free(r) /\ state[r] = "draining"
    /\ state' = [state EXCEPT ![r] = "returned"]
    /\ table' = Released(status[r] \cup {fds[r].m_listen, fds[r].epfd})
    /\ status' = [status EXCEPT ![r] = {}]
    /\ fds' = [fds EXCEPT ![r] = [@ EXCEPT !.epfd = NoFd, !.m_listen = NoFd]]
    /\ UNCHANGED <<main, handling>>

-----------------------------------------------------------------------------
(* on_signal.                                                              *)

\* There is a handler from the first constructor on; signals while it runs are
\* kept back, in its thread.
Signal(t) ==
    /\ signals < MaxSignals /\ ~Walking
    /\ phase \in Phases /\ reg # <<>>
    /\ t \in Reactors => state[t] \in InStart
    /\ walk' = [in |-> t, at |-> 1]
    /\ signals' = signals + 1
    /\ UNCHANGED <<main, state, descriptors, stopping, bell>>

\* stopping is set ...
HandlerStops ==
    /\ Walking /\ walk.at <= Len(reg) /\ reg[walk.at] \notin stopping
    /\ stopping' = stopping \cup {reg[walk.at]}
    /\ UNCHANGED <<main, state, descriptors, bell, walk, signals>>

\* A handler that knows one reactor only.
AfterFirst == NoWalk

\* The handler goes on to the next in the list.
AfterBell == IF walk.at < Len(reg) THEN [walk EXCEPT !.at = @ + 1] ELSE NoWalk

\* ... and the bell is rung, if there is one.
HandlerRings ==
    /\ Walking /\ walk.at <= Len(reg) /\ reg[walk.at] \in stopping
    /\ bell' = bell \cup {r \in {reg[walk.at]} : fds[r].done # NoFd}
    /\ walk' = AfterBell
    /\ UNCHANGED <<main, state, descriptors, stopping, signals>>

-----------------------------------------------------------------------------

MainStep == Change \/ ConstructReactor \/ Serve \/ Join \/ Destroy
Handler == HandlerStops \/ HandlerRings
StartStep(r) == CreateEpfd(r) \/ CreateListen(r) \/ StartOk(r) \/ StartFails(r)

RegistryNext == \/ MainStep \/ Handler \/ OtherOpens
                \/ \E r \in Reactors : \/ StartStep(r) \/ Accept(r)
                                       \/ \E n \in Numbers : Onclose(r, n)
                                       \/ StopByBell(r) \/ StopByEvent(r) \/ Return(r)
                \/ \E t \in Carriers : Signal(t)

\* Threads run; a reactor whose bell has been rung wakes up, and its drain has a
\* deadline.  Nobody has to send a signal, or a request, or open a file.
RegistrySpec ==
    /\ RegistryInit /\ [][RegistryNext]_registryVars
    /\ WF_registryVars(MainStep) /\ WF_registryVars(Handler)
    /\ \A r \in Reactors : /\ WF_registryVars(StartStep(r))
                           /\ WF_registryVars(StopByBell(r)) /\ WF_registryVars(Return(r))

-----------------------------------------------------------------------------

\* A signal that comes while the reactors serve stops every one, each by its own bell,
\* and the process ends.
AllStop == (Walking /\ phase = "serve") ~> (phase = "over")

\* So does any signal.
SignalStops == (signals > 0) ~> (phase = "over")

\* Whichever step of start fails, in whichever reactors, what a reactor has opened is
\* closed when it is gone, but for its spare descriptor, which ~Epoll forgets.
NoFdLeaks ==
    \A n \in Numbers, r \in Reactors :
        table[n] = r /\ state[r] = "freed" => n = fds[r].idle_fd

\* What a reactor has the numbers of.
Held(r) == ({fds[r].done, fds[r].idle_fd, fds[r].epfd, fds[r].m_listen} \cup status[r]) \ {NoFd}

\* A number may be closed twice, and be given to somebody else in between.  But nobody
\* closes one that a reactor in start() works with, and no two reactors work with one.
SocketsKept == \A r \in Reactors : state[r] \in InStart => \A n \in Held(r) : table[n] = r

\* Closed in the end, and not before: no descriptor of a reactor is lost or taken from it.
DescriptorsRight == NoFdLeaks /\ SocketsKept

\* What the others have opened stays open.
OthersKept == [][\A n \in Numbers : table[n] = N + 1 => table'[n] = N + 1]_registryVars

\* The list is whole while the handler walks it, and the reactor it is at is there.
WholeList == /\ ~changing
             /\ walk.at <= Len(reg)
             /\ \A i \in DOMAIN reg : state[reg[i]] # "freed"

\* A handler that runs in the thread of a reactor, or in main when it was not about to
\* change the list, walks over a whole list.
HandlerSafe == walk.in \in Reactors \/ (walk.in = 0 /\ ~changing) => WholeList

\* "The registry changes in one thread only, the race is gone" (BUGLOG 7): every walk
\* is over a whole list.
NoRace == Walking => WholeList
=============================================================================
