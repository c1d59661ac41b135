------------------------------- MODULE IdleFd -------------------------------
(***************************************************************************)
(* Epoll::onaccept when the process runs out of file descriptors.  Every   *)
(* reactor (Epoll instance) keeps a spare descriptor, idle_fd; when accept *)
(* fails with EMFILE it closes the spare, accepts one connection into the  *)
(* slot, closes it, and takes the spare back.  The table of descriptors is *)
(* shared by all reactors of the process, and each has a listening socket  *)
(* and so a backlog of its own (SO_REUSEPORT).                             *)
(***************************************************************************)
EXTENDS Naturals, FiniteSets, FiniteSetsExt

CONSTANTS Reactors,
          MaxFds,     \* descriptors left for spares and connections, more than Reactors
          MaxConn     \* bound: connections the clients attempt

VARIABLES free,       \* descriptors nobody holds
          spare,      \* reactor -> idle_fd is open
          owned,      \* reactor -> connections in its status table
          backlog,    \* reactor -> completed connections not accepted
          attempts,   \* connections attempted so far
          mutex,      \* the reactor that holds g_mutex, or Nobody
          pc,         \* reactor -> where it is in onaccept
          client      \* reactor -> the descriptor accepted under the lock is open

vars == <<free, spare, owned, backlog, attempts, mutex, pc, client>>

Nobody == "nobody"

TypeOK == /\ free \in 0..MaxFds
          /\ spare \in [Reactors -> BOOLEAN]
          /\ owned \in [Reactors -> 0..MaxFds]
          /\ backlog \in [Reactors -> 0..MaxConn]
          /\ attempts \in 0..MaxConn
          /\ mutex \in Reactors \cup {Nobody}
          /\ pc \in [Reactors -> {"wait", "accept", "lock", "release", "admit",
                                  "refuse", "reopen"}]
          /\ client \in [Reactors -> BOOLEAN]

Init == /\ free = MaxFds - Cardinality(Reactors)
        /\ spare = [r \in Reactors |-> TRUE]
        /\ owned = [r \in Reactors |-> 0]
        /\ backlog = [r \in Reactors |-> 0]
        /\ attempts = 0
        /\ mutex = Nobody
        /\ pc = [r \in Reactors |-> "wait"]
        /\ client = [r \in Reactors |-> FALSE]

Goto(r, label) == pc' = [pc EXCEPT ![r] = label]

\* A client connects; the kernel picks one of the listening sockets.
Connect(r) ==
    /\ attempts < MaxConn
    /\ attempts' = attempts + 1
    /\ backlog' = [backlog EXCEPT ![r] = @ + 1]
    /\ UNCHANGED <<free, spare, owned, mutex, pc, client>>

\* The reactor, between two events, closes a connection.
CloseConnection(r) ==
    /\ pc[r] = "wait"
    /\ owned[r] > 0
    /\ owned' = [owned EXCEPT ![r] = @ - 1]
    /\ free' = free + 1
    /\ UNCHANGED <<spare, backlog, attempts, mutex, pc, client>>

\* epoll reports the listening socket, level triggered.
EnterOnaccept(r) ==
    /\ pc[r] = "wait"
    /\ backlog[r] > 0
    /\ Goto(r, "accept")
    /\ UNCHANGED <<free, spare, owned, backlog, attempts, mutex, client>>

\* The accept of the loop: no lock is taken for it.
Accept(r) ==
    /\ pc[r] = "accept"
    /\ backlog[r] > 0
    /\ free > 0
    /\ free' = free - 1
    /\ owned' = [owned EXCEPT ![r] = @ + 1]
    /\ backlog' = [backlog EXCEPT ![r] = @ - 1]
    /\ UNCHANGED <<spare, attempts, mutex, pc, client>>

\* EAGAIN: the loop is over.
AcceptNoMore(r) ==
    /\ pc[r] = "accept"
    /\ backlog[r] = 0
    /\ free > 0
    /\ Goto(r, "wait")
    /\ UNCHANGED <<free, spare, owned, backlog, attempts, mutex, client>>

\* EMFILE, which the kernel finds before it looks at the backlog.
AcceptFails(r) ==
    /\ pc[r] = "accept"
    /\ free = 0
    /\ Goto(r, "lock")
    /\ UNCHANGED <<free, spare, owned, backlog, attempts, mutex, client>>

Lock(r) ==
    /\ pc[r] = "lock"
    /\ mutex = Nobody
    /\ mutex' = r
    /\ Goto(r, "release")
    /\ UNCHANGED <<free, spare, owned, backlog, attempts, client>>

\* close(idle_fd): no effect if the spare has been lost.
ReleaseSpare(r) ==
    /\ pc[r] = "release"
    /\ free' = IF spare[r] THEN free + 1 ELSE free
    /\ spare' = [spare EXCEPT ![r] = FALSE]
    /\ Goto(r, "admit")
    /\ UNCHANGED <<owned, backlog, attempts, mutex, client>>

\* The second accept, into the released slot if it is still there.
Admit(r) ==
    /\ pc[r] = "admit"
    /\ LET takes == free > 0 /\ backlog[r] > 0
       IN  /\ client' = [client EXCEPT ![r] = takes]
           /\ free' = IF takes THEN free - 1 ELSE free
           /\ backlog' = IF takes THEN [backlog EXCEPT ![r] = @ - 1] ELSE backlog
    /\ Goto(r, "refuse")
    /\ UNCHANGED <<spare, owned, attempts, mutex>>

\* close(client).
Refuse(r) ==
    /\ pc[r] = "refuse"
    /\ free' = IF client[r] THEN free + 1 ELSE free
    /\ client' = [client EXCEPT ![r] = FALSE]
    /\ Goto(r, "reopen")
    /\ UNCHANGED <<spare, owned, backlog, attempts, mutex>>

\* idle_fd = open("/dev/null"), and the lock is released on return.
Reopen(r) ==
    /\ pc[r] = "reopen"
    /\ spare' = [spare EXCEPT ![r] = (free > 0)]
    /\ free' = IF free > 0 THEN free - 1 ELSE 0
    /\ mutex' = Nobody
    /\ Goto(r, "wait")
    /\ UNCHANGED <<owned, backlog, attempts, client>>

Step(r) == \/ EnterOnaccept(r) \/ Accept(r) \/ AcceptNoMore(r) \/ AcceptFails(r)
           \/ Lock(r) \/ ReleaseSpare(r) \/ Admit(r) \/ Refuse(r) \/ Reopen(r)

Next == \E r \in Reactors : Connect(r) \/ CloseConnection(r) \/ Step(r)

\* Every reactor thread runs; the mutex is held for four system calls.
Spec == Init /\ [][Next]_vars /\ \A r \in Reactors : WF_vars(Step(r))

-----------------------------------------------------------------------------

\* No descriptor is lost or closed twice: what the reactors and the table of
\* the process account for adds up, at every point of the four steps.
FdsConserved ==
    free + Cardinality({r \in Reactors : spare[r]})
         + Cardinality({r \in Reactors : client[r]})
         + MapThenSumSet(LAMBDA r : owned[r], Reactors) = MaxFds

\* A reactor that waits for events holds its spare, so that the next EMFILE
\* can be answered (BUGLOG 6: "reopening is bound to succeed").
SpareKept == \A r \in Reactors : pc[r] \in {"wait", "accept"} => spare[r]

\* A full table does not make the reactor spin: what is in the backlog is
\* accepted or refused in the end, even if no connection is ever closed.
BacklogDrains == \A r \in Reactors : backlog[r] > 0 ~> backlog[r] = 0
=============================================================================
