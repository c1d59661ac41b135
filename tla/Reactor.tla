------------------------------ MODULE Reactor ------------------------------
(***************************************************************************)
(* One reactor of the server: src/src/Epoll.cpp and the connections it     *)
(* owns, src/src/net/Connection.cpp, with the pool that runs the message   *)
(* handler, the done queue that brings the responses back, the signal      *)
(* handler that stops it all, and the peers at the other end.              *)
(*                                                                         *)
(* The reactor thread executes one handler at a time, but between two of   *)
(* its steps workers, peers and the signal handler run.  A connection is   *)
(* named by its conn_id, which is never reused; its file descriptor is.    *)
(* A response is encoded as two cells, so that a send can stop inside a    *)
(* frame, and a socket accepts cells as long as the peer has left fewer    *)
(* than SndBuf of them unread.                                             *)
(***************************************************************************)
EXTENDS Integers, Sequences, FiniteSets

CONSTANTS MaxFd,     \* file descriptors 1..MaxFd can be given to connections
          MaxConn,   \* bound: connections accepted in a behaviour
          MaxReq,    \* bound: frames one peer sends
          SndBuf,    \* cells a socket holds that the peer has not read
          Workers,   \* the threads of epoll_poll
          Faults     \* which of "reset", "bad", "throw", "signal" may happen

ASSUME BoundsAssumption == /\ MaxFd \in Nat \ {0}
                           /\ MaxConn \in Nat \ {0}
                           /\ MaxReq \in Nat
                           /\ SndBuf \in Nat \ {0}
ASSUME FaultsAssumption == Faults \subseteq {"reset", "bad", "throw", "signal"}
ASSUME WorkersAssumption == IsFiniteSet(Workers)

VARIABLES
    pc,         \* where the reactor thread is in start()
    status,     \* Epoll::status: fd -> conn_id of the connection, or NoConn
    connId,     \* Epoll::conn_id, the last one given out
    listening,  \* m_listen is open; closed when start() begins to stop
    batch,      \* the events of the last epoll_wait not yet dispatched
    conn,       \* conn_id -> the net::Connection and its interest set
    sock,       \* conn_id -> the socket in the kernel, and the peer
    backlog,    \* connections the kernel has completed, not accepted
    tasks,      \* epoll_poll's queue
    running,    \* what each worker is executing
    ringing,    \* workers between the queue's push and the eventfd's write
    thrown,     \* history: the requests whose handler has thrown
    doneq,      \* Donequeue::queue
    bell,       \* done's eventfd is readable
    hand,       \* the drained deque ondone is going through
    stopping,   \* Epoll::stopping
    signal,     \* on_signal: "none", "inside" (between its two statements), "done"
    deadline    \* the 3 s after the beginning of the stop have passed

loop    == <<pc, listening, batch>>
table   == <<status, connId>>
pool    == <<tasks, running, ringing, thrown>>
mailbox == <<doneq, bell, hand>>
stop    == <<stopping, signal, deadline>>
vars    == <<pc, status, connId, listening, batch, conn, sock, backlog, tasks,
             running, ringing, thrown, doneq, bell, hand, stopping, signal, deadline>>

Fds      == 1..MaxFd
DoneFd   == 0              \* done.fd()
ListenFd == MaxFd + 1      \* m_listen
Conns    == 1..MaxConn
NoConn   == 0
Bad      == 0              \* a frame whose length field is too large
Requests == 1..MaxReq

Items == [fd : Fds, id : Conns, req : Requests]
NoItem == [fd |-> 0, id |-> 0, req |-> 0]
Cells == [id : Conns, req : Requests, part : {"head", "tail"}]

\* What net::encode makes of a response: more than one send may be needed.
Encode(item) == <<[id |-> item.id, req |-> item.req, part |-> "head"],
                  [id |-> item.id, req |-> item.req, part |-> "tail"]>>

Flags == {"IN", "OUT", "HUP"}
Events == [fd : Fds \cup {DoneFd, ListenFd}, of : Conns \cup {NoConn},
           flags : SUBSET Flags]

ConnState == [inflight : Int, out : Seq(Cells), peerClose : BOOLEAN,
              interest : SUBSET {"IN", "OUT"}]
SockState == [peer : {"none", "open", "fin", "reset", "over"},
              rcvq : Seq(Requests \cup {Bad}), sent : 0..MaxReq,
              wire : Seq(Cells), read : Nat]

TypeOK == /\ pc \in {"top", "wait", "dispatch", "accept", "drain", "items",
                     "linger", "close", "exited"}
          /\ status \in [Fds -> Conns \cup {NoConn}]
          /\ connId \in 0..MaxConn
          /\ listening \in BOOLEAN
          /\ batch \subseteq Events
          /\ conn \in [Conns -> ConnState]
          /\ sock \in [Conns -> SockState]
          /\ backlog \in Nat
          /\ tasks \in Seq(Items)
          /\ running \in [Workers -> Items \cup {NoItem}]
          /\ ringing \subseteq Workers
          /\ thrown \in Seq(Items)
          /\ doneq \in Seq(Items)
          /\ bell \in BOOLEAN
          /\ hand \in Seq(Items)
          /\ stopping \in BOOLEAN
          /\ signal \in {"none", "inside", "done"}
          /\ deadline \in BOOLEAN

\* The connection onaccept constructs, added to epoll for EPOLLIN.
Fresh == [inflight |-> 0, out |-> <<>>, peerClose |-> FALSE, interest |-> {"IN"}]

NewSock == [peer |-> "none", rcvq |-> <<>>, sent |-> 0, wire |-> <<>>, read |-> 0]

Init == /\ pc = "top"
        /\ status = [fd \in Fds |-> NoConn]
        /\ connId = 0
        /\ listening = TRUE
        /\ batch = {}
        /\ conn = [c \in Conns |-> Fresh]
        /\ sock = [c \in Conns |-> NewSock]
        /\ backlog = 0
        /\ tasks = <<>>
        /\ running = [w \in Workers |-> NoItem]
        /\ ringing = {}
        /\ thrown = <<>>
        /\ doneq = <<>>
        /\ bell = FALSE
        /\ hand = <<>>
        /\ stopping = FALSE
        /\ signal = "none"
        /\ deadline = FALSE

Live == {c \in Conns : \E fd \in Fds : status[fd] = c}

-----------------------------------------------------------------------------
(* The peers.                                                              *)

\* A client connects: the kernel completes the handshake by itself.
Connect == /\ listening
           /\ connId + backlog < MaxConn
           /\ backlog' = backlog + 1
           /\ UNCHANGED <<loop, table, conn, sock, pool, mailbox, stop>>

PeerSend(c, frame) ==
    /\ sock[c].peer = "open"
    /\ sock[c].sent < MaxReq
    /\ frame = Bad => "bad" \in Faults
    /\ sock' = [sock EXCEPT ![c].sent = @ + 1,
                            ![c].rcvq = Append(@, IF frame = Bad THEN Bad
                                                  ELSE sock[c].sent + 1)]
    /\ UNCHANGED <<loop, table, conn, backlog, pool, mailbox, stop>>

\* shutdown(SHUT_WR): the peer has said all and waits for the answers.
PeerFin(c) ==
    /\ sock[c].peer = "open"
    /\ sock' = [sock EXCEPT ![c].peer = "fin"]
    /\ UNCHANGED <<loop, table, conn, backlog, pool, mailbox, stop>>

\* The peer is gone: what it had sent and not been read is discarded.
PeerReset(c) ==
    /\ "reset" \in Faults
    /\ sock[c].peer \in {"open", "fin"}
    /\ sock' = [sock EXCEPT ![c].peer = "reset", ![c].rcvq = <<>>]
    /\ UNCHANGED <<loop, table, conn, backlog, pool, mailbox, stop>>

PeerRead(c) ==
    /\ sock[c].peer \in {"open", "fin"}
    /\ sock[c].read < Len(sock[c].wire)
    /\ sock' = [sock EXCEPT ![c].read = @ + 1]
    /\ UNCHANGED <<loop, table, conn, backlog, pool, mailbox, stop>>

Peers == \/ Connect
         \/ \E c \in Conns : \/ \E frame \in {1, Bad} : PeerSend(c, frame)
                             \/ PeerFin(c)
                             \/ PeerReset(c)
                             \/ PeerRead(c)

-----------------------------------------------------------------------------
(* The workers: ThreadPool as TaskPool.tla describes it, running the task  *)
(* that handreadable submits.                                              *)

WorkerTake(w) ==
    /\ running[w] = NoItem
    /\ tasks # <<>>
    /\ running' = [running EXCEPT ![w] = Head(tasks)]
    /\ tasks' = Tail(tasks)
    /\ UNCHANGED <<loop, table, conn, sock, backlog, ringing, thrown, mailbox, stop>>

\* A push at the end drain takes from.
WorkerPushFront(w) ==
    /\ running[w] # NoItem
    /\ w \notin ringing
    /\ doneq' = <<running[w]>> \o doneq
    /\ ringing' = ringing \cup {w}
    /\ UNCHANGED <<loop, table, conn, sock, backlog, tasks, running, thrown, bell,
                   hand, stop>>

\* The handler has returned; done->push appends under the lock ...
WorkerPush(w) ==
    /\ running[w] # NoItem
    /\ w \notin ringing
    /\ doneq' = Append(doneq, running[w])
    /\ ringing' = ringing \cup {w}
    /\ UNCHANGED <<loop, table, conn, sock, backlog, tasks, running, thrown, bell,
                   hand, stop>>

\* ... and writes the eventfd; the task is over.
WorkerRing(w) ==
    /\ w \in ringing
    /\ bell' = TRUE
    /\ ringing' = ringing \ {w}
    /\ running' = [running EXCEPT ![w] = NoItem]
    /\ UNCHANGED <<loop, table, conn, sock, backlog, tasks, thrown, doneq, hand, stop>>

\* The handler throws: workerLoop swallows the exception, nothing is pushed.
WorkerThrow(w) ==
    /\ "throw" \in Faults
    /\ running[w] # NoItem
    /\ w \notin ringing
    /\ thrown' = Append(thrown, running[w])
    /\ running' = [running EXCEPT ![w] = NoItem]
    /\ UNCHANGED <<loop, table, conn, sock, backlog, tasks, ringing, mailbox, stop>>

WorkerStep(w) == WorkerTake(w) \/ WorkerPush(w) \/ WorkerRing(w) \/ WorkerThrow(w)

-----------------------------------------------------------------------------
(* The signal handler and the clock.                                       *)

\* If it was the reactor's own thread that took the signal, an epoll_wait it
\* was blocked in returns EINTR and the loop goes on from its top.
Interrupt == \/ UNCHANGED pc
             \/ pc = "wait" /\ pc' = IF listening THEN "top" ELSE "linger"

\* The handler with its two statements swapped: ring, then set the flag.
OnSignalSwapped ==
    /\ \/ /\ signal = "none"
          /\ "signal" \in Faults
          /\ bell' = TRUE
          /\ signal' = "inside"
          /\ UNCHANGED <<pc, stopping>>
       \/ /\ signal = "inside"
          /\ stopping' = TRUE
          /\ signal' = "done"
          /\ Interrupt
          /\ UNCHANGED bell
    /\ UNCHANGED <<table, listening, batch, conn, sock, backlog, pool, doneq, hand,
                   deadline>>

\* on_signal: the flag first, then the write that wakes the reactor.
OnSignal ==
    /\ \/ /\ signal = "none"
          /\ "signal" \in Faults
          /\ stopping' = TRUE
          /\ signal' = "inside"
          /\ UNCHANGED <<pc, bell>>
       \/ /\ signal = "inside"
          /\ bell' = TRUE
          /\ signal' = "done"
          /\ Interrupt
          /\ UNCHANGED stopping
    /\ UNCHANGED <<table, listening, batch, conn, sock, backlog, pool, doneq, hand,
                   deadline>>

\* Three seconds after the listening socket was closed.
DeadlinePasses ==
    /\ ~listening
    /\ ~deadline
    /\ deadline' = TRUE
    /\ UNCHANGED <<loop, table, conn, sock, backlog, pool, mailbox, stopping, signal>>

-----------------------------------------------------------------------------
(* The connection: each handler leaves it open (Keep) or has it closed by  *)
(* its caller (Onclose); w is what has been put on its wire by then.       *)

Room(c) == IF sock[c].peer = "reset" THEN 0
           ELSE SndBuf - (Len(sock[c].wire) - sock[c].read)

\* send(): as many cells as the socket has room for; none is EAGAIN.
Sent(c, data)   == IF Len(data) <= Room(c) THEN data ELSE SubSeq(data, 1, Room(c))
Unsent(c, data) == IF Len(data) <= Room(c) THEN <<>>
                   ELSE SubSeq(data, Room(c) + 1, Len(data))

Keep(c, k, q, w) ==
    /\ conn' = [conn EXCEPT ![c] = k]
    /\ sock' = [sock EXCEPT ![c].rcvq = q, ![c].wire = w]
    /\ UNCHANGED status

\* Epoll::onclose: out of epoll, out of the table, closed; the descriptor is
\* free for the next accept.  Of what the peer reads from now on no account
\* is kept.
Onclose(fd, w) ==
    /\ conn' = [conn EXCEPT ![status[fd]] = Fresh]
    /\ sock' = [sock EXCEPT ![status[fd]].peer = "over", ![status[fd]].rcvq = <<>>,
                            ![status[fd]].wire = w, ![status[fd]].read = 0]
    /\ status' = [status EXCEPT ![fd] = NoConn]

\* A test that forgets the responses still being computed.
FinishedIgnoringInflight(k) == k.peerClose /\ k.out = <<>>

\* A test that forgets to ask whether the peer has finished.
FinishedIgnoringPeer(k) == k.out = <<>> /\ k.inflight = 0

\* A test made with the count from before the decrement.
FinishedBeforeDecrement(k) == k.peerClose /\ k.out = <<>> /\ k.inflight = 1

\* The test handreadable, handwrite and ondone share: a peer that has shut
\* down its side has got every answer.
Finished(k) == k.peerClose /\ k.out = <<>> /\ k.inflight = 0

\* The interest that leaves write events on for ever.
InterestAfterFlushStale(k) == k.interest

\* handwrite's set_event once the Outbuffer is empty.
InterestAfterFlush(k) == IF k.peerClose THEN {} ELSE {"IN"}

\* handreadable's set_event when recv has returned 0.
InterestAtEof(k) == IF k.out = <<>> THEN {} ELSE {"OUT"}

\* The tasks handreadable submits for the first n frames it has decoded.
NewTasks(fd, c, n) ==
    [i \in 1..n |-> [fd |-> fd, id |-> c, req |-> sock[c].rcvq[i]]]

\* How many frames of q can be decoded before a bad one.
GoodFrames(q) == {n \in 0..Len(q) : \A i \in 1..n : q[i] # Bad}

\* recv until there is nothing more.  Frames are submitted as they are
\* decoded; a bad one fails the chunk it arrives in, so that of the good ones
\* before it only those of earlier chunks have been submitted.
Handreadable(fd) ==
    LET c == status[fd]
        q == sock[c].rcvq
        w == sock[c].wire
        k == [conn[c] EXCEPT !.inflight = @ + Len(q),
                             !.peerClose = @ \/ sock[c].peer = "fin"]
    IN  \/ /\ sock[c].peer = "reset"
           /\ Onclose(fd, w)
           /\ UNCHANGED tasks
        \/ /\ Len(q) \notin GoodFrames(q)
           /\ \E n \in GoodFrames(q) : tasks' = tasks \o NewTasks(fd, c, n)
           /\ Onclose(fd, w)
        \/ /\ sock[c].peer # "reset"
           /\ Len(q) \in GoodFrames(q)
           /\ tasks' = tasks \o NewTasks(fd, c, Len(q))
           /\ IF Finished(k) THEN Onclose(fd, w)
              ELSE IF sock[c].peer # "fin" THEN Keep(c, k, <<>>, w)
              ELSE Keep(c, [k EXCEPT !.interest = InterestAtEof(k)], <<>>, w)

\* send until the Outbuffer is empty or the socket is full.
Handwrite(fd) ==
    LET c == status[fd]
        q == sock[c].rcvq
        w == sock[c].wire \o Sent(c, conn[c].out)
        k == [conn[c] EXCEPT !.out = Unsent(c, @)]
    IN  IF Finished(k) \/ (sock[c].peer = "reset" /\ k.out # <<>>)
        THEN Onclose(fd, w)
        ELSE IF conn[c].out = <<>> \/ k.out # <<>>
        THEN Keep(c, k, q, w)
        ELSE Keep(c, [k EXCEPT !.interest = InterestAfterFlush(k)], q, w)

\* The senddata that tried the socket first, whatever was queued (BUGLOG 9).
SenddataDirect(c, k, item) ==
    LET data == Encode(item)
    IN  [ok   |-> sock[c].peer # "reset",
         wire |-> sock[c].wire \o Sent(c, data),
         k    |-> [k EXCEPT !.out = @ \o Unsent(c, data),
                            !.interest = IF Unsent(c, data) = <<>> THEN @
                                         ELSE {"IN", "OUT"}]]

\* senddata: one direct send, and only if nothing is queued; the rest is
\* queued for handwrite.  ok is what it returns.
Senddata(c, k, item) ==
    LET data == Encode(item)
        now  == IF k.out = <<>> THEN Sent(c, data) ELSE <<>>
        rest == IF k.out = <<>> THEN Unsent(c, data) ELSE data
    IN  [ok   |-> k.out # <<>> \/ sock[c].peer # "reset",
         wire |-> sock[c].wire \o now,
         k    |-> [k EXCEPT !.out = @ \o rest,
                            !.interest = IF rest = <<>> THEN @ ELSE {"IN", "OUT"}]]

-----------------------------------------------------------------------------
(* The reactor thread.                                                     *)

\* Where start() goes when the batch is through.
Continue(b) == IF b # {} THEN "dispatch" ELSE IF listening THEN "top" ELSE "linger"

\* The readiness epoll reports, level triggered, for a registered descriptor.
ReadyFlags(c) ==
    LET s == sock[c]
    IN  {f \in Flags :
           \/ s.peer = "reset" /\ (f = "HUP" \/ f \in conn[c].interest)
           \/ f = "IN" /\ f \in conn[c].interest /\ (s.rcvq # <<>> \/ s.peer = "fin")
           \/ f = "OUT" /\ f \in conn[c].interest /\ Room(c) > 0}

Ready ==
    {e \in {[fd |-> fd, of |-> status[fd], flags |-> ReadyFlags(status[fd])] :
                fd \in {g \in Fds : status[g] # NoConn}} : e.flags # {}}
    \cup (IF bell THEN {[fd |-> DoneFd, of |-> NoConn, flags |-> {"IN"}]} ELSE {})
    \cup (IF listening /\ backlog > 0
          THEN {[fd |-> ListenFd, of |-> NoConn, flags |-> {"IN"}]} ELSE {})

\* The top of the main loop: look at stopping, then block in epoll_wait.
Top == /\ pc = "top"
       /\ ~stopping
       /\ pc' = "wait"
       /\ UNCHANGED <<table, listening, batch, conn, sock, backlog, pool, mailbox, stop>>

\* ... or close the listening socket and begin the 3 s of the stop.
BeginStop ==
    /\ pc = "top"
    /\ stopping
    /\ pc' = "linger"
    /\ listening' = FALSE
    /\ backlog' = 0
    /\ UNCHANGED <<table, batch, conn, sock, pool, mailbox, stop>>

\* The loop of the stop: until nothing is in flight or the time is over.
Linger ==
    /\ pc = "linger"
    /\ pc' = IF deadline \/ \A c \in Live : conn[c].inflight = 0
             THEN "close" ELSE "wait"
    /\ UNCHANGED <<table, listening, batch, conn, sock, backlog, pool, mailbox, stop>>

Wait == /\ pc = "wait"
        /\ Ready # {}
        /\ batch' = Ready
        /\ pc' = "dispatch"
        /\ UNCHANGED <<table, listening, conn, sock, backlog, pool, mailbox, stop>>

\* epoll_wait's 100 ms during the stop; the main loop's has no timeout.
WaitTimesOut ==
    /\ pc = "wait"
    /\ ~listening
    /\ Ready = {}
    /\ pc' = "linger"
    /\ UNCHANGED <<table, listening, batch, conn, sock, backlog, pool, mailbox, stop>>

\* ondone, first statement: read the eventfd.
OndoneRead(e) ==
    /\ e.fd = DoneFd
    /\ bell' = FALSE
    /\ pc' = "drain"
    /\ UNCHANGED <<table, conn, sock, tasks, doneq, hand>>

\* onaccept is entered.
OnacceptEnter(e) ==
    /\ e.fd = ListenFd
    /\ pc' = "accept"
    /\ UNCHANGED <<table, conn, sock, tasks, mailbox>>

\* An event of a descriptor that has meanwhile been closed.
EventOfNobody(e) ==
    /\ e.fd \in Fds
    /\ status[e.fd] = NoConn
    /\ pc' = Continue(batch \ {e})
    /\ UNCHANGED <<table, conn, sock, tasks, mailbox>>

\* addevent finds the connection by its descriptor.  Reading comes before
\* writing, hanging up before both, and a stopping reactor only writes.
EventOfConnection(e) ==
    /\ e.fd \in Fds
    /\ status[e.fd] # NoConn
    /\ pc' = Continue(batch \ {e})
    /\ UNCHANGED <<connId, mailbox>>
    /\ \/ stopping /\ "OUT" \in e.flags /\ Handwrite(e.fd) /\ UNCHANGED tasks
       \/ stopping /\ "OUT" \notin e.flags /\ UNCHANGED <<status, conn, sock, tasks>>
       \/ /\ ~stopping
          /\ "HUP" \in e.flags
          /\ Onclose(e.fd, sock[status[e.fd]].wire)
          /\ UNCHANGED tasks
       \/ ~stopping /\ "HUP" \notin e.flags /\ "IN" \in e.flags /\ Handreadable(e.fd)
       \/ ~stopping /\ e.flags = {"OUT"} /\ Handwrite(e.fd) /\ UNCHANGED tasks

\* One event of the batch.  epoll promises no order among descriptors.
Dispatch == /\ pc = "dispatch"
            /\ \E e \in batch :
                  /\ batch' = batch \ {e}
                  /\ \/ OndoneRead(e)
                     \/ OnacceptEnter(e)
                     \/ EventOfNobody(e)
                     \/ EventOfConnection(e)
            /\ UNCHANGED <<listening, backlog, running, ringing, thrown, stop>>

\* One turn of onaccept's loop: the lowest free descriptor, the next conn_id,
\* epoll_ctl ADD and the entry in status.
Accept == /\ pc = "accept"
          /\ backlog > 0
          /\ \E fd \in Fds :
                /\ status[fd] = NoConn
                /\ \A g \in Fds : g < fd => status[g] # NoConn
                /\ status' = [status EXCEPT ![fd] = connId + 1]
          /\ backlog' = backlog - 1
          /\ connId' = connId + 1
          /\ conn' = [conn EXCEPT ![connId + 1] = Fresh]
          /\ sock' = [sock EXCEPT ![connId + 1] = [NewSock EXCEPT !.peer = "open"]]
          /\ UNCHANGED <<loop, pool, mailbox, stop>>

\* EMFILE: the spare descriptor takes the connection in only to close it.
AcceptShed == /\ pc = "accept"
              /\ backlog > 0
              /\ \A fd \in Fds : status[fd] # NoConn
              /\ backlog' = backlog - 1
              /\ pc' = Continue(batch)
              /\ UNCHANGED <<table, listening, batch, conn, sock, pool, mailbox, stop>>

\* EAGAIN: onaccept returns.
AcceptNoMore == /\ pc = "accept"
                /\ backlog = 0
                /\ pc' = Continue(batch)
                /\ UNCHANGED <<table, listening, batch, conn, sock, backlog, pool,
                               mailbox, stop>>

\* ondone's drain: the queue is moved out.
OndoneDrain == /\ pc = "drain"
               /\ hand' = doneq
               /\ doneq' = <<>>
               /\ pc' = IF doneq = <<>> THEN Continue(batch) ELSE "items"
               /\ UNCHANGED <<table, listening, batch, conn, sock, backlog, pool,
                              bell, stop>>

\* An answer that is not accounted for.
AnsweredUncounted(k) == k

\* ondone's --con.inflight.
Answered(k) == [k EXCEPT !.inflight = @ - 1]

\* The check of an item against the descriptor alone.
SameFd(item) == status[item.fd] # NoConn

\* The item's connection is still there: found by descriptor, and not
\* another one that has been given the descriptor since.
SameConnection(item) == status[item.fd] = item.id

\* One turn of ondone's loop.
OndoneItem ==
    /\ pc = "items"
    /\ hand' = Tail(hand)
    /\ pc' = IF Tail(hand) = <<>> THEN Continue(batch) ELSE "items"
    /\ LET item == Head(hand)
           c == status[item.fd]
           s == Senddata(c, Answered(conn[c]), item)
       IN  \/ ~SameConnection(item) /\ UNCHANGED <<status, conn, sock>>
          \/ /\ SameConnection(item)
             /\ IF ~s.ok \/ Finished(s.k)
                THEN Onclose(item.fd, s.wire)
                ELSE Keep(c, s.k, sock[c].rcvq, s.wire)
    /\ UNCHANGED <<connId, listening, batch, backlog, pool, doneq, bell, stop>>

\* The end of start(): every connection that is left is closed.
CloseAll == /\ pc = "close"
            /\ pc' = "exited"
            /\ status' = [fd \in Fds |-> NoConn]
            /\ conn' = [c \in Conns |-> Fresh]
            /\ sock' = [c \in Conns |->
                           IF c \in Live
                           THEN [sock[c] EXCEPT !.peer = "over", !.rcvq = <<>>, !.read = 0]
                           ELSE sock[c]]
            /\ UNCHANGED <<connId, listening, batch, backlog, pool, mailbox, stop>>

ReactorStep == \/ Top \/ BeginStop \/ Linger \/ Wait \/ WaitTimesOut \/ Dispatch
               \/ Accept \/ AcceptShed \/ AcceptNoMore
               \/ OndoneDrain \/ OndoneItem \/ CloseAll

Next == \/ Peers
        \/ \E w \in Workers : WorkerStep(w)
        \/ OnSignal \/ DeadlinePasses
        \/ ReactorStep

\* The reactor thread and the workers run when they can, a signal handler that
\* has begun finishes, and time passes.  Peers owe nothing.
Fairness == /\ WF_vars(ReactorStep)
            /\ \A w \in Workers : WF_vars(WorkerStep(w))
            /\ WF_vars(signal = "inside" /\ OnSignal)
            /\ WF_vars(DeadlinePasses)

Spec == Init /\ [][Next]_vars /\ Fairness

-----------------------------------------------------------------------------
(* Safety.                                                                 *)

\* The bytes of a connection, sent or queued: what its peer will have read.
Stream(c) == sock[c].wire \o conn[c].out

\* No peer is ever sent the answer to somebody else's request, although a
\* response finds its connection by a descriptor that may have been closed
\* and given to another one while the handler ran.
OwnResponses ==
    \A c \in Conns : \A i \in 1..Len(Stream(c)) : Stream(c)[i].id = c

\* The two writers of a socket, ondone and handwrite, keep frames whole: the
\* stream of a connection is a head and its tail, and so on, and no request
\* is answered twice (BUGLOG 9).
FramesIntact ==
    \A c \in Conns :
        LET s == Stream(c)
            Whole == {i \in 1..Len(s) : i % 2 = 1}
        IN  /\ \A i \in Whole : s[i].part = "head"
            /\ \A i \in Whole : i < Len(s) => /\ s[i + 1].part = "tail"
                                             /\ s[i + 1].req = s[i].req
            /\ \A i, j \in Whole : i # j => s[i].req # s[j].req

\* The requests of a connection that are queued, being handled or handled and
\* not yet looked at by ondone.
Outstanding(c) ==
    LET Of(q) == Cardinality({i \in 1..Len(q) : q[i].id = c})
    IN  Of(tasks) + Of(doneq) + Of(hand)
            + Cardinality({w \in Workers \ ringing : running[w].id = c})

\* Those whose handler has thrown: no answer to them will ever come.
Thrown(c) == Cardinality({i \in 1..Len(thrown) : thrown[i].id = c})

\* inflight counts the requests of a connection that have been read and not been
\* answered on its stream, wherever they are: it is exactly those that are under
\* way and those whose handler has thrown (a reset discards what was not read).
InflightExact ==
    \A c \in Live :
        /\ conn[c].inflight = Outstanding(c) + Thrown(c)
        /\ sock[c].peer # "reset" =>
              conn[c].inflight + Len(Stream(c)) \div 2 = sock[c].sent - Len(sock[c].rcvq)

\* Write events are asked for exactly while something is queued (or epoll
\* would spin, or the tail of a response never leave), and read events for as
\* long as the peer may still send.
InterestMatchesOutbuffer ==
    \A c \in Live : /\ "OUT" \in conn[c].interest <=> conn[c].out # <<>>
                    /\ conn[c].peerClose \/ "IN" \in conn[c].interest

\* A half-closed connection is kept only while an answer to it is on its way:
\* nobody else would close it, its interest set is empty.  The exception is one
\* whose handler has thrown, see HalfCloseEnds.
HalfCloseNotForgotten ==
    \A c \in Live :
        conn[c].peerClose => Outstanding(c) > 0 \/ conn[c].out # <<>> \/ Thrown(c) > 0

\* The same without the exception: a handler that throws leaves the connection open
\* until the reactor stops.
HalfCloseEnds ==
    \A c \in Live : conn[c].peerClose => Outstanding(c) > 0 \/ conn[c].out # <<>>

-----------------------------------------------------------------------------
(* What a step may never do.                                               *)

\* The step closes the connection c ...
Closes(c) == c \in Live /\ c \notin Live'

\* ... because of an event that was reported for another one.
Stale(c) == \E e \in batch : /\ e \notin batch'
                             /\ e.fd \in Fds
                             /\ status[e.fd] = c
                             /\ e.of # c

HasBad(c) == \E i \in 1..Len(sock[c].rcvq) : sock[c].rcvq[i] = Bad

\* The server hangs up only on a peer that has finished, has gone or has sent
\* a bad frame, or because it stops, or by an event meant for an earlier
\* owner of the descriptor; a slow reader is never hung up on.
JustifiedClose ==
    [][\A c \in Conns : Closes(c) =>
          sock[c].peer \in {"fin", "reset"} \/ HasBad(c) \/ pc = "close" \/ Stale(c)]_vars

\* A peer that has shut down its sending side gets the answer to every request
\* it had made before the server closes the connection.
HalfCloseServed ==
    [][\A c \in Conns :
          Closes(c) /\ sock[c].peer = "fin" /\ ~HasBad(c) /\ pc # "close" /\ ~Stale(c)
          => Len(sock'[c].wire) = 2 * sock[c].sent]_vars

\* What the load generator counts on (bench_client.cpp, errors == 0): a peer
\* that keeps to the protocol and stays is not hung up on.
HealthyPeerKept ==
    [][\A c \in Conns : Closes(c) =>
          sock[c].peer \in {"fin", "reset"} \/ HasBad(c) \/ pc = "close"]_vars

\* The stop gives up on a response that is already queued only when its time
\* is over.
StopFlushes ==
    [][pc = "close" /\ ~deadline =>
          \A c \in Live : conn[c].out = <<>> \/ sock[c].peer = "reset"]_vars

-----------------------------------------------------------------------------
(* What happens in the end.                                                *)

\* The signal ends the reactor, whatever handlers and peers do.
StopEnds == stopping ~> pc = "exited"

-----------------------------------------------------------------------------
\* The queue between workers and reactor is Donequeue.tla's, with a bound no
\* behaviour reaches.
Done == INSTANCE Donequeue WITH
          Producers <- Workers, MaxItems <- MaxConn * MaxReq + 1,
          queue <- doneq, woken <- (pc = "drain")

UsesDonequeue == Done!Init /\ [][Done!Next]_(Done!vars)
=============================================================================
