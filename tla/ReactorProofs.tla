--------------------------- MODULE ReactorProofs ---------------------------
(***************************************************************************)
(* The safety of Reactor.tla for any numbers of descriptors, connections   *)
(* and requests, any send buffer and any finite set of workers: no peer is *)
(* sent another one's response, write events are asked for exactly while   *)
(* there is something to write, nobody is hung up on without a reason      *)
(* (from Inv); inflight is exact and a half-closed peer gets every answer  *)
(* and is then let go (from Booked); frames stay whole and no request is   *)
(* answered twice (from Framed); the done queue is used as Donequeue.tla   *)
(* has it (from BellWell).                                                 *)
(***************************************************************************)
EXTENDS Reactor, SequenceTheorems, FiniteSetTheorems, TLAPS

\* The cells of the responses to connection c.
Own(c) == [id : {c}, req : Requests, part : {"head", "tail"}]

\* No connection has two descriptors, and conn_ids do not run out before the
\* clients do.
Table == /\ status \in [Fds -> Conns \cup {NoConn}]
         /\ connId \in 0..MaxConn
         /\ backlog \in Nat
         /\ connId + backlog <= MaxConn
         /\ \A fd \in Fds : status[fd] <= connId
         /\ \A f, g \in Fds : status[f] # NoConn /\ status[f] = status[g] => f = g

ConnWell(k, c) == k \in ConnState /\ k.out \in Seq(Own(c))

\* A socket that is not closed has taken no more than the peer leaves room for.
SockWell(s, c) == /\ s \in SockState
                  /\ s.wire \in Seq(Own(c))
                  /\ s.peer # "over" => Len(s.wire) - s.read <= SndBuf

\* A connection in the table: its socket is open, it has seen the end of the
\* stream only if there was one, and its interest fits its Outbuffer.
LiveWell(k, s) == /\ s.peer # "over"
                  /\ k.peerClose => s.peer \in {"fin", "reset"}
                  /\ "OUT" \in k.interest <=> k.out # <<>>
                  /\ k.peerClose \/ "IN" \in k.interest

Connections == /\ conn \in [Conns -> ConnState]
               /\ sock \in [Conns -> SockState]
               /\ \A c \in Conns : ConnWell(conn[c], c) /\ SockWell(sock[c], c)
               /\ \A c \in Live : LiveWell(conn[c], sock[c])

\* An EPOLLHUP tells of a peer that is gone, even if its connection has been
\* closed since.
HangupsReal == \A e \in batch :
                  e.fd \in Fds /\ "HUP" \in e.flags =>
                      e.of \in 1..connId /\ sock[e.of].peer \in {"reset", "over"}

Rest == /\ pc \in {"top", "wait", "dispatch", "accept", "drain", "items",
                   "linger", "close", "exited"}
        /\ listening \in BOOLEAN
        /\ batch \subseteq Events
        /\ ringing \subseteq Workers
        /\ bell \in BOOLEAN
        /\ stopping \in BOOLEAN
        /\ signal \in {"none", "inside", "done"}
        /\ deadline \in BOOLEAN

\* A worker rings for a task it still has, and ondone's deque is empty but in its loop.
Queues == /\ tasks \in Seq(Items)
          /\ running \in [Workers -> Items \cup {NoItem}]
          /\ \A w \in ringing : running[w] # NoItem
          /\ thrown \in Seq(Items)
          /\ doneq \in Seq(Items)
          /\ hand \in Seq(Items)
          /\ pc = "items" <=> hand # <<>>

Inv == Table /\ Connections /\ HangupsReal /\ Rest /\ Queues

-----------------------------------------------------------------------------

\* The server starts with no connection, no event and no request.
LEMMA InitInv == Init => Inv
<1> SUFFICES ASSUME Init PROVE Inv
  OBVIOUS
<1> USE BoundsAssumption, EmptySeq DEF Init
<1>1. Table
  BY DEF Table, Conns, NoConn
<1>2. Live = {}
  BY DEF Live, Conns, NoConn
<1>3. \A c \in Conns : ConnWell(Fresh, c) /\ SockWell(NewSock, c)
  BY DEF ConnWell, SockWell, Fresh, NewSock, ConnState, SockState
<1>4. Connections
  BY <1>2, <1>3 DEF Connections, ConnWell, SockWell
<1> QED
  BY <1>1, <1>4 DEF Inv, HangupsReal, Rest, Queues

-----------------------------------------------------------------------------
(* What is sent and what is kept back.                                     *)

\* A socket has never negative room, and what fits the room fits the buffer.
LEMMA RoomBounds ==
  ASSUME Connections, NEW c \in Conns, sock[c].peer # "over"
  PROVE  /\ Room(c) \in Nat
         /\ Len(sock[c].wire) \in Nat
         /\ sock[c].read \in Nat
         /\ Len(sock[c].wire) + Room(c) - sock[c].read <= SndBuf
<1>1. sock[c].wire \in Seq(Cells) /\ sock[c].read \in Nat
  BY DEF Connections, SockState
<1>2. Len(sock[c].wire) \in Nat
  BY <1>1, LenProperties
<1>3. Len(sock[c].wire) - sock[c].read <= SndBuf
  BY DEF Connections, SockWell
<1> QED
  BY <1>1, <1>2, <1>3, BoundsAssumption, SMTT(30) DEF Room

\* A send splits the data in two, and fills no socket beyond its buffer.
LEMMA SentAndUnsent ==
  ASSUME Connections, NEW c \in Conns, sock[c].peer # "over",
         NEW S, NEW data \in Seq(S)
  PROVE  /\ Sent(c, data) \in Seq(S)
         /\ Unsent(c, data) \in Seq(S)
         /\ Len(sock[c].wire) + Len(Sent(c, data)) - sock[c].read <= SndBuf
<1>0. /\ Room(c) \in Nat
      /\ Len(sock[c].wire) \in Nat
      /\ sock[c].read \in Nat
      /\ Len(sock[c].wire) + Room(c) - sock[c].read <= SndBuf
  BY RoomBounds
<1>1. Len(data) \in Nat /\ \A i \in 1..Len(data) : data[i] \in S
  BY LenProperties, ElementOfSeq
<1>2. CASE Len(data) <= Room(c)
  BY <1>0, <1>1, <1>2, BoundsAssumption, SMTT(30) DEF Sent, Unsent
<1>3. CASE ~(Len(data) <= Room(c))
  <2>1. SubSeq(data, 1, Room(c)) \in Seq(S) /\ Len(SubSeq(data, 1, Room(c))) <= Room(c)
    BY <1>0, <1>1, <1>3, SubSeqProperties
  <2>2. SubSeq(data, Room(c) + 1, Len(data)) \in Seq(S)
    BY <1>0, <1>1, <1>3, SubSeqProperties
  <2>3. Len(SubSeq(data, 1, Room(c))) \in Nat
    BY <2>1, LenProperties
  <2> QED
    BY <1>0, <1>3, <2>1, <2>2, <2>3, BoundsAssumption DEF Sent, Unsent
<1> QED
  BY <1>2, <1>3

-----------------------------------------------------------------------------
(* What a handler does to the table: it keeps its connection or closes it. *)

\* Peers that are gone stay gone.
GoneStay == \A c \in 1..connId : sock[c].peer \in {"reset", "over"}
                                     => sock'[c].peer \in {"reset", "over"}

\* A connection's own cells are cells.
LEMMA OwnCells == ASSUME NEW c \in Conns, NEW w \in Seq(Own(c)) PROVE w \in Seq(Cells)
<1>1. Own(c) \subseteq Cells
  BY DEF Own, Cells
<1> QED
  BY <1>1, SeqMonotonic

\* Keep's change of the socket.
LEMMA SockWritten ==
  ASSUME sock \in [Conns -> SockState], NEW c \in Conns,
         NEW q \in Seq(Requests \cup {Bad}), NEW w \in Seq(Cells),
         sock' = [sock EXCEPT ![c].rcvq = q, ![c].wire = w]
  PROVE  /\ sock' \in [Conns -> SockState]
         /\ sock'[c].wire = w /\ sock'[c].peer = sock[c].peer
         /\ sock'[c].read = sock[c].read
         /\ \A d \in Conns \ {c} : sock'[d] = sock[d]
BY DEF SockState

\* Onclose's change of the socket.
LEMMA SockClosed ==
  ASSUME sock \in [Conns -> SockState], NEW c \in Conns, NEW w \in Seq(Cells),
         sock' = [sock EXCEPT ![c].peer = "over", ![c].rcvq = <<>>,
                              ![c].wire = w, ![c].read = 0]
  PROVE  /\ sock' \in [Conns -> SockState]
         /\ sock'[c].wire = w /\ sock'[c].peer = "over"
         /\ \A d \in Conns \ {c} : sock'[d] = sock[d]
<1>1. <<>> \in Seq(Requests \cup {Bad}) /\ 0 \in Nat
  BY EmptySeq
<1> DEFINE s == [sock[c] EXCEPT !.peer = "over", !.rcvq = <<>>, !.wire = w, !.read = 0]
<1>2. sock' \in [Conns -> SockState]
  <2>1. sock[c] \in SockState
    OBVIOUS
  <2>2. s \in SockState
    BY ONLY <1>1, <2>1, w \in Seq(Cells) DEF SockState
  <2>3. sock' = [sock EXCEPT ![c] = s]
    OBVIOUS
  <2> HIDE DEF s
  <2> QED
    BY ONLY <2>2, <2>3, sock \in [Conns -> SockState], c \in Conns
<1>3. sock'[c].wire = w /\ sock'[c].peer = "over"
  BY DEF SockState
<1>4. \A d \in Conns \ {c} : sock'[d] = sock[d]
  OBVIOUS
<1> QED
  BY <1>2, <1>3, <1>4

\* A handler that keeps its connection, with an interest that fits what it leaves
\* in the Outbuffer, disturbs nobody else.
LEMMA KeepWell ==
  ASSUME Table, Connections, NEW c \in Live,
         NEW k, NEW q \in Seq(Requests \cup {Bad}), NEW w \in Seq(Own(c)),
         Keep(c, k, q, w), ConnWell(k, c), LiveWell(k, sock[c]),
         Len(w) - sock[c].read <= SndBuf,
         UNCHANGED <<connId, backlog>>
  PROVE  Table' /\ Connections' /\ GoneStay /\ Live' = Live
<1>1. Table' /\ Live' = Live
  BY DEF Table, Keep, Live
<1>2. /\ c \in Conns
      /\ conn \in [Conns -> ConnState]
      /\ sock \in [Conns -> SockState]
  BY DEF Live, Connections
<1>3. /\ sock' \in [Conns -> SockState]
      /\ sock'[c].wire = w /\ sock'[c].peer = sock[c].peer
      /\ sock'[c].read = sock[c].read
      /\ \A d \in Conns \ {c} : sock'[d] = sock[d]
  <2>1. sock' = [sock EXCEPT ![c].rcvq = q, ![c].wire = w]
    BY DEF Keep
  <2> QED
    BY <1>2, <2>1, OwnCells, SockWritten
<1>4. /\ conn' \in [Conns -> ConnState]
      /\ conn'[c] = k
      /\ \A d \in Conns \ {c} : conn'[d] = conn[d]
  BY <1>2 DEF Keep, ConnWell
<1>5. ConnWell(conn'[c], c) /\ SockWell(sock'[c], c) /\ LiveWell(conn'[c], sock'[c])
  BY <1>2, <1>3, <1>4 DEF SockWell, LiveWell
<1>6. \A d \in Conns : ConnWell(conn'[d], d) /\ SockWell(sock'[d], d)
  BY <1>3, <1>4, <1>5 DEF Connections
<1>7. \A d \in Live : LiveWell(conn'[d], sock'[d])
  BY <1>3, <1>4, <1>5 DEF Connections, Live
<1>8. Connections'
  BY <1>1, <1>3, <1>4, <1>6, <1>7 DEF Connections, ConnWell, SockWell, LiveWell
<1>9. GoneStay
  <2>1. \A d \in Conns : sock'[d].peer = sock[d].peer
    BY <1>3
  <2> QED
    BY <2>1, BoundsAssumption DEF GoneStay, Table, Conns
<1> QED
  BY <1>1, <1>8, <1>9

\* Onclose takes the connection out of the table, and only that one.
LEMMA CloseWell ==
  ASSUME Table, Connections, NEW fd \in Fds, NEW c \in Conns, status[fd] = c,
         NEW w \in Seq(Own(c)),
         Onclose(fd, w),
         UNCHANGED <<connId, backlog>>
  PROVE  Table' /\ Connections' /\ GoneStay /\ Live' = Live \ {c}
<1>1. Table'
  BY DEF Table, Onclose, NoConn
<1>2. Live' = Live \ {c}
  BY DEF Table, Live, Onclose, Conns, NoConn
<1>3. conn \in [Conns -> ConnState] /\ sock \in [Conns -> SockState]
  BY DEF Connections
<1>4. /\ sock' \in [Conns -> SockState]
      /\ sock'[c].wire = w /\ sock'[c].peer = "over"
      /\ \A d \in Conns \ {c} : sock'[d] = sock[d]
  <2>1. sock' = [sock EXCEPT ![c].peer = "over", ![c].rcvq = <<>>,
                             ![c].wire = w, ![c].read = 0]
    BY DEF Onclose
  <2>2. w \in Seq(Cells) /\ c \in Conns
    BY OwnCells
  <2> QED
    BY ONLY <1>3, <2>1, <2>2, SockClosed
<1>5. ConnWell(Fresh, c)
  BY EmptySeq DEF ConnWell, Fresh, ConnState
<1>6. /\ conn' \in [Conns -> ConnState]
      /\ conn'[c] = Fresh
      /\ \A d \in Conns \ {c} : conn'[d] = conn[d]
  <2>1. conn' = [conn EXCEPT ![c] = Fresh]
    BY DEF Onclose
  <2> QED
    BY <1>3, <1>5, <2>1 DEF ConnWell
<1>7. \A d \in Conns : ConnWell(conn'[d], d) /\ SockWell(sock'[d], d)
  BY <1>4, <1>5, <1>6 DEF Connections, SockWell
<1>8. \A d \in Live' : LiveWell(conn'[d], sock'[d])
  BY <1>2, <1>4, <1>6 DEF Connections, Live
<1>9. Connections'
  BY <1>4, <1>6, <1>7, <1>8 DEF Connections, ConnWell, SockWell, LiveWell
<1>10. GoneStay
  <2>1. \A d \in Conns : sock[d].peer \in {"reset", "over"}
                            => sock'[d].peer \in {"reset", "over"}
    BY <1>4
  <2> QED
    BY <2>1, BoundsAssumption DEF GoneStay, Table, Conns
<1> QED
  BY <1>1, <1>2, <1>9, <1>10

-----------------------------------------------------------------------------
(* The handlers of a connection.                                           *)

\* What every handler of connection c guarantees: if it closes it, the peer
\* has finished, has gone or has sent a bad frame.
Handled(c) == /\ Table' /\ Connections' /\ GoneStay
              /\ \/ Live' = Live
                 \/ /\ Live' = Live \ {c}
                    /\ sock[c].peer \in {"fin", "reset"} \/ HasBad(c)

\* What handreadable submits are requests of the connection it read them from.
LEMMA TasksTyped ==
  ASSUME Connections, tasks \in Seq(Items), NEW fd \in Fds, NEW c \in Conns,
         NEW n \in GoodFrames(sock[c].rcvq)
  PROVE  tasks \o NewTasks(fd, c, n) \in Seq(Items)
<1> DEFINE q == sock[c].rcvq
<1>1. q \in Seq(Requests \cup {Bad})
  BY DEF Connections, SockState
<1>2. n \in Nat /\ \A i \in 1..n : q[i] \in Requests
  BY <1>1, LenProperties, ElementOfSeq DEF GoodFrames
<1>3. NewTasks(fd, c, n) \in [1..n -> Items]
  BY <1>2 DEF NewTasks, Items
<1>4. NewTasks(fd, c, n) \in Seq(Items)
  BY <1>2, <1>3, SeqDef
<1> QED
  BY <1>4, ConcatProperties

\* handreadable's change of inflight and peerClose.
LEMMA ConnTyped ==
  ASSUME NEW x \in ConnState, NEW n \in Int, NEW b \in BOOLEAN,
         NEW k, k = [x EXCEPT !.inflight = n, !.peerClose = b]
  PROVE  k \in ConnState
BY DEF ConnState

\* set_event changes the interest only.
LEMMA ConnWithInterest ==
  ASSUME NEW x \in ConnState, NEW i \in SUBSET {"IN", "OUT"},
         NEW k, k = [x EXCEPT !.interest = i]
  PROVE  /\ k \in ConnState
         /\ k.out = x.out /\ k.interest = i
         /\ k.peerClose <=> x.peerClose
BY DEF ConnState

\* Sending or queueing changes the Outbuffer only.
LEMMA ConnWithOut ==
  ASSUME NEW x \in ConnState, NEW o \in Seq(Cells),
         NEW k, k = [x EXCEPT !.out = o]
  PROVE  /\ k \in ConnState
         /\ k.out = o /\ k.interest = x.interest
         /\ k.peerClose <=> x.peerClose
BY DEF ConnState

\* handreadable, whichever of its returns it takes.
LEMMA HandreadableWell ==
  ASSUME Table, Connections, tasks \in Seq(Items),
         NEW fd \in Fds, NEW c \in Conns, status[fd] = c,
         Handreadable(fd), UNCHANGED <<connId, backlog>>
  PROVE  Handled(c) /\ tasks' \in Seq(Items)
<1> DEFINE q == sock[c].rcvq
           w == sock[c].wire
           k == [conn[c] EXCEPT !.inflight = @ + Len(q),
                                !.peerClose = @ \/ sock[c].peer = "fin"]
           e == [k EXCEPT !.interest = InterestAtEof(k)]
<1>1. /\ conn[c] \in ConnState /\ sock[c] \in SockState
      /\ w \in Seq(Own(c)) /\ q \in Seq(Requests \cup {Bad}) /\ Len(q) \in Nat
      /\ c \in Live
      /\ LiveWell(conn[c], sock[c]) /\ ConnWell(conn[c], c) /\ SockWell(sock[c], c)
  <2>1. c \in Live
    BY DEF Live
  <2>2. q \in Seq(Requests \cup {Bad}) /\ w \in Seq(Own(c))
    BY DEF Connections, SockWell, SockState
  <2> QED
    BY <2>1, <2>2, LenProperties DEF Connections
<1>2. /\ k \in ConnState
      /\ k.out = conn[c].out /\ k.interest = conn[c].interest
      /\ k.peerClose <=> conn[c].peerClose \/ sock[c].peer = "fin"
  <2>1. /\ k.out = conn[c].out /\ k.interest = conn[c].interest
        /\ k.peerClose <=> conn[c].peerClose \/ sock[c].peer = "fin"
    BY ONLY <1>1 DEF ConnState
  <2> DEFINE n == conn[c].inflight + Len(q)
             b == conn[c].peerClose \/ sock[c].peer = "fin"
  <2>2. conn[c] \in ConnState /\ n \in Int /\ b \in BOOLEAN
    BY ONLY <1>1 DEF ConnState
  <2>3. k = [conn[c] EXCEPT !.inflight = n, !.peerClose = b]
    OBVIOUS
  <2> HIDE DEF k, n, b
  <2>4. k \in ConnState
    BY ONLY <2>2, <2>3, ConnTyped, Zenon
  <2> QED
    BY <2>1, <2>4
<1>3. /\ e \in ConnState
      /\ e.out = k.out /\ e.interest = InterestAtEof(k)
      /\ e.peerClose <=> k.peerClose
  <2>1. InterestAtEof(k) \in SUBSET {"IN", "OUT"}
    BY DEF InterestAtEof
  <2> HIDE DEF k
  <2> QED
    BY ONLY <1>2, <2>1, ConnWithInterest, ZenonT(30)
<1> HIDE DEF k, e
<1>4. tasks' \in Seq(Items)
  BY TasksTyped, <1>1 DEF Handreadable
<1>5. \/ /\ Onclose(fd, w)
         /\ sock[c].peer \in {"fin", "reset"} \/ HasBad(c) \/ k.peerClose
      \/ Keep(c, k, <<>>, w) /\ sock[c].peer \notin {"fin", "reset"}
      \/ Keep(c, e, <<>>, w) /\ sock[c].peer = "fin"
  <2>1. Len(q) \notin GoodFrames(q) => HasBad(c)
    BY <1>1 DEF GoodFrames, HasBad
  <2> QED
    BY <2>1 DEF Handreadable, Finished, k, e
<1>6. CASE /\ Onclose(fd, w)
           /\ sock[c].peer \in {"fin", "reset"} \/ HasBad(c) \/ k.peerClose
  <2>1. sock[c].peer \in {"fin", "reset"} \/ HasBad(c)
    BY <1>1, <1>2, <1>6 DEF LiveWell
  <2> QED
    BY <1>1, <1>4, <1>6, <2>1, CloseWell DEF Handled
<1>7. CASE Keep(c, k, <<>>, w) /\ sock[c].peer \notin {"fin", "reset"}
  <2>1. ConnWell(k, c) /\ LiveWell(k, sock[c])
    BY <1>1, <1>2, <1>7 DEF ConnWell, LiveWell
  <2>2. Len(w) - sock[c].read <= SndBuf
    BY <1>1 DEF SockWell, LiveWell
  <2> QED
    BY <1>1, <1>4, <1>7, <2>1, <2>2, KeepWell, EmptySeq DEF Handled
<1>8. CASE Keep(c, e, <<>>, w) /\ sock[c].peer = "fin"
  <2>1. ConnWell(e, c) /\ LiveWell(e, sock[c])
    BY <1>1, <1>2, <1>3, <1>8 DEF ConnWell, LiveWell, InterestAtEof
  <2>2. Len(w) - sock[c].read <= SndBuf
    BY <1>1 DEF SockWell, LiveWell
  <2> QED
    BY <1>1, <1>4, <1>8, <2>1, <2>2, KeepWell, EmptySeq DEF Handled
<1> QED
  BY <1>5, <1>6, <1>7, <1>8

\* handwrite, whether it empties the Outbuffer, fills the socket or fails.
LEMMA HandwriteWell ==
  ASSUME Table, Connections,
         NEW fd \in Fds, NEW c \in Conns, status[fd] = c,
         Handwrite(fd), UNCHANGED <<connId, backlog>>
  PROVE  Handled(c)
<1> DEFINE q == sock[c].rcvq
           o == Unsent(c, conn[c].out)
           s == Sent(c, conn[c].out)
           w == sock[c].wire \o s
           k == [conn[c] EXCEPT !.out = o]
           f == [k EXCEPT !.interest = InterestAfterFlush(k)]
<1>1. /\ conn[c] \in ConnState /\ sock[c] \in SockState
      /\ sock[c].wire \in Seq(Own(c)) /\ q \in Seq(Requests \cup {Bad})
      /\ conn[c].out \in Seq(Own(c))
      /\ c \in Live
      /\ LiveWell(conn[c], sock[c])
  <2>1. c \in Live
    BY DEF Live
  <2>2. q \in Seq(Requests \cup {Bad}) /\ sock[c].wire \in Seq(Own(c))
    BY DEF Connections, SockWell, SockState
  <2> QED
    BY <2>1, <2>2 DEF Connections, ConnWell
<1>2. /\ s \in Seq(Own(c)) /\ o \in Seq(Own(c)) /\ o \in Seq(Cells)
      /\ Len(sock[c].wire) + Len(s) - sock[c].read <= SndBuf
  <2>1. sock[c].peer # "over"
    BY <1>1 DEF LiveWell
  <2> QED
    BY <1>1, <2>1, SentAndUnsent, OwnCells
<1>4. conn[c].out = <<>> => o = <<>>
  <2>1. sock[c].peer # "over"
    BY <1>1 DEF LiveWell
  <2> QED
    BY <2>1, RoomBounds DEF Unsent
<1> HIDE DEF o, s
<1>3. w \in Seq(Own(c)) /\ Len(w) - sock[c].read <= SndBuf
  <2>1. w \in Seq(Own(c)) /\ Len(w) = Len(sock[c].wire) + Len(s)
    BY <1>1, <1>2, ConcatProperties
  <2>2. Len(sock[c].wire) \in Nat /\ Len(s) \in Nat /\ sock[c].read \in Nat
    BY <1>1, <1>2, LenProperties DEF SockState
  <2> HIDE DEF w
  <2>3. Len(w) - sock[c].read <= SndBuf
    BY ONLY <1>2, <2>1, <2>2
  <2> QED
    BY <2>1, <2>3
<1>5. /\ k \in ConnState
      /\ k.out = o /\ k.interest = conn[c].interest
      /\ k.peerClose <=> conn[c].peerClose
  <2>1. k = [conn[c] EXCEPT !.out = o]
    OBVIOUS
  <2> HIDE DEF k
  <2> QED
    BY ONLY <1>1, <1>2, <2>1, ConnWithOut
<1>6. /\ f \in ConnState
      /\ f.out = k.out /\ f.interest = InterestAfterFlush(k)
      /\ f.peerClose <=> k.peerClose
  <2> DEFINE i == InterestAfterFlush(k)
  <2>1. i \in SUBSET {"IN", "OUT"}
    BY DEF InterestAfterFlush
  <2>2. f = [k EXCEPT !.interest = i]
    OBVIOUS
  <2> HIDE DEF k, f, i
  <2>3. /\ f \in ConnState
        /\ f.out = k.out /\ f.interest = i
        /\ f.peerClose <=> k.peerClose
    BY ONLY <1>5, <2>1, <2>2, ConnWithInterest
  <2> QED
    BY ONLY <2>3 DEF i
<1> HIDE DEF k, f
<1>7. \/ Onclose(fd, w) /\ (k.peerClose \/ sock[c].peer = "reset")
      \/ Keep(c, k, q, w) /\ (conn[c].out = <<>> \/ o # <<>>)
      \/ Keep(c, f, q, w) /\ o = <<>>
  BY <1>5 DEF Handwrite, Finished, k, f, o, s
<1> HIDE DEF w, q
<1>8. CASE Onclose(fd, w) /\ (k.peerClose \/ sock[c].peer = "reset")
  <2>1. sock[c].peer \in {"fin", "reset"}
    BY <1>1, <1>5, <1>8 DEF LiveWell
  <2> QED
    BY <1>1, <1>3, <1>8, <2>1, CloseWell DEF Handled
<1>9. CASE Keep(c, k, q, w) /\ (conn[c].out = <<>> \/ o # <<>>)
  <2>1. ConnWell(k, c) /\ LiveWell(k, sock[c])
    BY <1>1, <1>2, <1>4, <1>5, <1>9 DEF ConnWell, LiveWell
  <2> QED
    BY <1>1, <1>3, <1>9, <2>1, KeepWell DEF Handled
<1>10. CASE Keep(c, f, q, w) /\ o = <<>>
  <2>1. ConnWell(f, c) /\ LiveWell(f, sock[c])
    BY <1>1, <1>2, <1>5, <1>6, <1>10 DEF ConnWell, LiveWell, InterestAfterFlush
  <2> QED
    BY <1>1, <1>3, <1>10, <2>1, KeepWell DEF Handled
<1> QED
  BY <1>7, <1>8, <1>9, <1>10

\* ondone's decrement touches nothing but inflight.
LEMMA ConnAnswered ==
  ASSUME NEW x \in ConnState
  PROVE  /\ Answered(x) \in ConnState
         /\ Answered(x).out = x.out /\ Answered(x).interest = x.interest
         /\ Answered(x).peerClose <=> x.peerClose
BY DEF ConnState, Answered

\* A response carries the conn_id of its request.
LEMMA EncodeOwn ==
  ASSUME NEW item \in Items PROVE Encode(item) \in Seq(Own(item.id))
<1>1. /\ [id |-> item.id, req |-> item.req, part |-> "head"] \in Own(item.id)
      /\ [id |-> item.id, req |-> item.req, part |-> "tail"] \in Own(item.id)
  BY DEF Items, Own
<1> QED
  BY <1>1 DEF Encode

\* What is queued behind an Outbuffer, and when there is nothing.
LEMMA OutAppended ==
  ASSUME NEW S, NEW o \in Seq(S), NEW r \in Seq(S)
  PROVE  /\ o \o r \in Seq(S)
         /\ r = <<>> => o \o r = o
         /\ r # <<>> => o \o r # <<>>
<1>1. o \o r \in Seq(S) /\ Len(o \o r) = Len(o) + Len(r)
  BY ConcatProperties
<1>2. r = <<>> => o \o r = o
  BY ConcatEmptySeq
<1>3. r # <<>> => Len(r) # 0
  BY EmptySeq, LenProperties
<1>4. Len(o) \in Nat /\ Len(r) \in Nat
  BY LenProperties
<1> QED
  BY <1>1, <1>2, <1>3, <1>4, EmptySeq

\* ondone's answer to the connection the item belongs to.
LEMMA AnswerWell ==
  ASSUME Table, Connections, NEW item \in Items, NEW c \in Conns,
         status[item.fd] = c, item.id = c,
         LET s == Senddata(c, Answered(conn[c]), item)
         IN  IF ~s.ok \/ Finished(s.k)
             THEN Onclose(item.fd, s.wire)
             ELSE Keep(c, s.k, sock[c].rcvq, s.wire),
         UNCHANGED <<connId, backlog>>
  PROVE  Handled(c)
<1> DEFINE a    == Answered(conn[c])
           data == Encode(item)
           now  == IF a.out = <<>> THEN Sent(c, data) ELSE <<>>
           rest == IF a.out = <<>> THEN Unsent(c, data) ELSE data
           ok   == a.out # <<>> \/ sock[c].peer # "reset"
           o    == a.out \o rest
           i    == IF rest = <<>> THEN a.interest ELSE {"IN", "OUT"}
           w    == sock[c].wire \o now
           q    == sock[c].rcvq
           k    == [a EXCEPT !.out = o, !.interest = i]
<1>1. IF ~ok \/ Finished(k) THEN Onclose(item.fd, w) ELSE Keep(c, k, q, w)
  BY DEF Senddata
<1>2. /\ conn[c] \in ConnState /\ sock[c] \in SockState
      /\ sock[c].wire \in Seq(Own(c)) /\ q \in Seq(Requests \cup {Bad})
      /\ conn[c].out \in Seq(Own(c))
      /\ item.fd \in Fds /\ c \in Live
      /\ LiveWell(conn[c], sock[c])
  <2>1. item.fd \in Fds
    BY DEF Items
  <2>2. c \in Live
    BY <2>1 DEF Live
  <2>3. q \in Seq(Requests \cup {Bad}) /\ sock[c].wire \in Seq(Own(c))
    BY DEF Connections, SockWell, SockState
  <2> QED
    BY <2>1, <2>2, <2>3 DEF Connections, ConnWell
<1>3. /\ a \in ConnState
      /\ a.out = conn[c].out /\ a.interest = conn[c].interest
      /\ a.peerClose <=> conn[c].peerClose
  BY <1>2, ConnAnswered
<1> HIDE DEF a, q, k
<1>4. /\ now \in Seq(Own(c)) /\ rest \in Seq(Own(c))
      /\ Len(sock[c].wire) + Len(now) - sock[c].read <= SndBuf
  <2>1. data \in Seq(Own(c))
    BY EncodeOwn
  <2>2. sock[c].peer # "over"
    BY <1>2 DEF LiveWell
  <2>3. /\ Sent(c, data) \in Seq(Own(c)) /\ Unsent(c, data) \in Seq(Own(c))
        /\ Len(sock[c].wire) + Len(Sent(c, data)) - sock[c].read <= SndBuf
    BY <2>1, <2>2, SentAndUnsent
  <2>4. /\ Len(sock[c].wire) + 0 - sock[c].read <= SndBuf
    <3>1. Len(sock[c].wire) \in Nat /\ sock[c].read \in Nat
      BY <1>2, LenProperties DEF SockState
    <3>2. Len(sock[c].wire) - sock[c].read <= SndBuf
      BY <2>2 DEF Connections, SockWell
    <3> QED
      BY ONLY <3>1, <3>2, BoundsAssumption
  <2> HIDE DEF data
  <2>5. CASE a.out = <<>>
    BY <2>3, <2>5
  <2>6. CASE a.out # <<>>
    BY <2>1, <2>4, <2>6, EmptySeq
  <2> QED
    BY <2>5, <2>6
<1> HIDE DEF data, now, rest
<1>5. w \in Seq(Own(c)) /\ Len(w) - sock[c].read <= SndBuf
  <2>1. w \in Seq(Own(c)) /\ Len(w) = Len(sock[c].wire) + Len(now)
    BY <1>2, <1>4, ConcatProperties
  <2>2. Len(sock[c].wire) \in Nat /\ Len(now) \in Nat /\ sock[c].read \in Nat
    BY <1>2, <1>4, LenProperties DEF SockState
  <2> HIDE DEF w
  <2>3. Len(w) - sock[c].read <= SndBuf
    BY ONLY <1>4, <2>1, <2>2
  <2> QED
    BY <2>1, <2>3
<1>6. /\ o \in Seq(Own(c)) /\ o \in Seq(Cells)
      /\ rest = <<>> => o = conn[c].out
      /\ rest # <<>> => o # <<>>
  BY <1>2, <1>3, <1>4, OutAppended, OwnCells
<1> HIDE DEF w, o
<1>7. i \in SUBSET {"IN", "OUT"}
  BY <1>3 DEF ConnState
<1>8. /\ k \in ConnState
      /\ k.out = o /\ k.interest = i
      /\ k.peerClose <=> conn[c].peerClose
  <2> DEFINE j == [a EXCEPT !.out = o]
  <2>1. k = [j EXCEPT !.interest = i]
    BY DEF k
  <2> HIDE DEF i
  <2>2. j = [a EXCEPT !.out = o]
    OBVIOUS
  <2> HIDE DEF j
  <2>3. /\ j \in ConnState
        /\ j.out = o
        /\ j.peerClose <=> a.peerClose
    BY ONLY <1>3, <1>6, <2>2, ConnWithOut
  <2>4. /\ k \in ConnState
        /\ k.out = j.out /\ k.interest = i
        /\ k.peerClose <=> j.peerClose
    BY ONLY <1>7, <2>1, <2>3, ConnWithInterest
  <2> QED
    BY <1>3, <2>3, <2>4
<1>9. CASE ~ok \/ Finished(k)
  <2>1. sock[c].peer \in {"fin", "reset"}
    BY <1>2, <1>8, <1>9 DEF LiveWell, Finished
  <2> QED
    BY <1>1, <1>2, <1>5, <1>9, <2>1, CloseWell DEF Handled
<1>10. CASE ~(~ok \/ Finished(k))
  <2>1. ConnWell(k, c) /\ LiveWell(k, sock[c])
    BY <1>2, <1>3, <1>6, <1>8 DEF ConnWell, LiveWell
  <2> HIDE DEF ok
  <2> QED
    BY <1>1, <1>2, <1>5, <1>10, <2>1, KeepWell DEF Handled
<1> QED
  BY <1>9, <1>10

-----------------------------------------------------------------------------
(* The steps.                                                              *)

\* What holds of a step that leaves the connections alone.
LEMMA Unaffected ==
  ASSUME Inv, UNCHANGED <<status, connId, conn, sock>>,
         backlog' \in Nat, connId + backlog' <= MaxConn, batch' \subseteq batch
  PROVE  Table' /\ Connections' /\ HangupsReal' /\ Live' = Live
<1>1. Table' /\ Live' = Live
  BY DEF Inv, Table, Live
<1>2. Connections'
  BY <1>1 DEF Inv, Connections, ConnWell, SockWell, LiveWell
<1>3. HangupsReal'
  BY DEF Inv, HangupsReal
<1> QED
  BY <1>1, <1>2, <1>3

\* Hang-ups reported earlier remain true while peers that are gone stay gone.
LEMMA HangupsStay ==
  ASSUME Inv, GoneStay, batch' \subseteq batch, connId' = connId
  PROVE  HangupsReal'
BY DEF Inv, HangupsReal, GoneStay

\* Where the loop goes after a handler.
LEMMA ContinueTyped ==
  ASSUME NEW b PROVE Continue(b) \in {"dispatch", "top", "linger"}
BY DEF Continue

\* A peer that sends a frame.
LEMMA SockSent ==
  ASSUME sock \in [Conns -> SockState], NEW c \in Conns,
         PeerSend(c, 1) \/ PeerSend(c, Bad)
  PROVE  /\ sock' \in [Conns -> SockState]
         /\ sock'[c].wire = sock[c].wire /\ sock'[c].peer = sock[c].peer
         /\ sock'[c].read = sock[c].read
         /\ \A d \in Conns \ {c} : sock'[d] = sock[d]
<1>1. PICK q \in Seq(Requests \cup {Bad}), n \in 0..MaxReq :
         sock' = [sock EXCEPT ![c].sent = n, ![c].rcvq = q]
  <2>1. sock[c].sent \in 0..MaxReq /\ sock[c].rcvq \in Seq(Requests \cup {Bad})
    BY DEF SockState
  <2>2. sock[c].sent + 1 \in Requests /\ sock[c].sent + 1 \in 0..MaxReq
    BY <2>1, BoundsAssumption DEF PeerSend, Requests
  <2>3. /\ Append(sock[c].rcvq, Bad) \in Seq(Requests \cup {Bad})
        /\ Append(sock[c].rcvq, sock[c].sent + 1) \in Seq(Requests \cup {Bad})
    BY <2>1, <2>2, AppendProperties
  <2> QED
    BY <2>2, <2>3 DEF PeerSend
<1> QED
  BY ONLY <1>1, sock \in [Conns -> SockState], c \in Conns DEF SockState

\* A peer that shuts down or resets.
LEMMA SockPeerChanged ==
  ASSUME sock \in [Conns -> SockState], NEW c \in Conns, PeerFin(c) \/ PeerReset(c)
  PROVE  /\ sock' \in [Conns -> SockState]
         /\ sock'[c].wire = sock[c].wire /\ sock'[c].read = sock[c].read
         /\ sock'[c].peer \in {"fin", "reset"}
         /\ \A d \in Conns \ {c} : sock'[d] = sock[d]
<1>1. CASE PeerFin(c)
  BY <1>1 DEF PeerFin, SockState
<1>2. CASE PeerReset(c)
  BY <1>2, EmptySeq DEF PeerReset, SockState
<1> QED
  BY <1>1, <1>2

\* A peer that reads.
LEMMA SockRead ==
  ASSUME sock \in [Conns -> SockState], NEW c \in Conns, PeerRead(c)
  PROVE  /\ sock' \in [Conns -> SockState]
         /\ sock'[c].wire = sock[c].wire /\ sock'[c].peer = sock[c].peer
         /\ sock'[c].read = sock[c].read + 1
         /\ \A d \in Conns \ {c} : sock'[d] = sock[d]
<1>1. PICK n \in Nat : n = sock[c].read + 1 /\ sock' = [sock EXCEPT ![c].read = n]
  <2>1. sock[c].read + 1 \in Nat
    BY DEF SockState
  <2> QED
    BY <2>1 DEF PeerRead
<1>2. /\ sock' \in [Conns -> SockState]
      /\ sock'[c].wire = sock[c].wire /\ sock'[c].peer = sock[c].peer
      /\ sock'[c].read = n
      /\ \A d \in Conns \ {c} : sock'[d] = sock[d]
  BY ONLY <1>1, sock \in [Conns -> SockState], c \in Conns DEF SockState
<1> QED
  BY <1>1, <1>2

\* A peer's step changes its socket only, and revives nobody.
LEMMA PeerStep ==
  ASSUME Inv, NEW c \in Conns,
         sock' \in [Conns -> SockState],
         \A d \in Conns \ {c} : sock'[d] = sock[d],
         sock'[c].wire = sock[c].wire,
         sock[c].peer \in {"open", "fin"}, sock'[c].peer \in {"open", "fin", "reset"},
         sock[c].peer = "fin" => sock'[c].peer # "open",
         Len(sock'[c].wire) - sock'[c].read <= SndBuf,
         UNCHANGED <<loop, table, conn, backlog, pool, mailbox, stop>>
  PROVE  Inv' /\ Live' = Live
<1>0. UNCHANGED <<status, connId, conn, backlog, batch>>
  BY DEF loop, table
<1>1. Table' /\ Live' = Live
  BY <1>0 DEF Inv, Table, Live
<1>3. \A d \in Conns : ConnWell(conn'[d], d) /\ SockWell(sock'[d], d)
  BY <1>0 DEF Inv, Connections, SockWell
<1>4. \A d \in Live : LiveWell(conn'[d], sock'[d])
  BY <1>0 DEF Inv, Connections, Live, LiveWell
<1>5. Connections'
  BY <1>0, <1>1, <1>3, <1>4 DEF Inv, Connections, ConnWell, SockWell, LiveWell
<1>6. HangupsReal'
  <2>1. \A d \in Conns : sock[d].peer \in {"reset", "over"} => sock'[d] = sock[d]
    OBVIOUS
  <2> QED
    BY <1>0, <2>1, BoundsAssumption DEF Inv, HangupsReal, Table, Conns
<1> QED
  BY <1>1, <1>5, <1>6 DEF Inv, loop, pool, mailbox, stop, Rest, Queues

\* The peers keep the invariant and close nothing on the server's side.
LEMMA PeersStep == Inv /\ Peers => Inv' /\ Live' = Live
<1> SUFFICES ASSUME Inv, Peers PROVE Inv' /\ Live' = Live
  OBVIOUS
<1>1. ASSUME Connect PROVE Inv' /\ Live' = Live
  <2>1. Table' /\ Connections' /\ HangupsReal' /\ Live' = Live
    BY <1>1, Unaffected, BoundsAssumption DEF Inv, Table, Connect, loop, table
  <2> QED
    BY <1>1, <2>1 DEF Inv, Connect, loop, pool, mailbox, stop, Rest, Queues
<1>2. ASSUME NEW c \in Conns
      PROVE  /\ Len(sock[c].wire) \in Nat /\ sock[c].read \in Nat
             /\ sock[c].peer # "over" => Len(sock[c].wire) - sock[c].read <= SndBuf
  <2>1. sock[c] \in SockState /\ SockWell(sock[c], c)
    BY DEF Inv, Connections
  <2>2. sock[c].wire \in Seq(Cells)
    BY <2>1 DEF SockState
  <2> QED
    BY <2>1, <2>2, LenProperties DEF SockState, SockWell
<1>3. sock \in [Conns -> SockState]
  BY DEF Inv, Connections
<1>4. ASSUME NEW c \in Conns, PeerSend(c, 1) \/ PeerSend(c, Bad)
      PROVE  Inv' /\ Live' = Live
  <2>1. /\ sock' \in [Conns -> SockState]
        /\ sock'[c].wire = sock[c].wire /\ sock'[c].peer = sock[c].peer
        /\ sock'[c].read = sock[c].read
        /\ \A d \in Conns \ {c} : sock'[d] = sock[d]
    BY <1>3, <1>4, SockSent
  <2>2. /\ sock[c].peer = "open"
        /\ UNCHANGED <<loop, table, conn, backlog, pool, mailbox, stop>>
    BY <1>4 DEF PeerSend
  <2> QED
    BY <1>2, <2>1, <2>2, PeerStep
<1>5. ASSUME NEW c \in Conns, PeerFin(c) \/ PeerReset(c)
      PROVE  Inv' /\ Live' = Live
  <2>1. /\ sock' \in [Conns -> SockState]
        /\ sock'[c].wire = sock[c].wire /\ sock'[c].read = sock[c].read
        /\ sock'[c].peer \in {"fin", "reset"}
        /\ \A d \in Conns \ {c} : sock'[d] = sock[d]
    BY <1>3, <1>5, SockPeerChanged
  <2>2. /\ sock[c].peer \in {"open", "fin"}
        /\ UNCHANGED <<loop, table, conn, backlog, pool, mailbox, stop>>
    BY <1>5 DEF PeerFin, PeerReset
  <2> QED
    BY <1>2, <2>1, <2>2, PeerStep
<1>6. ASSUME NEW c \in Conns, PeerRead(c)
      PROVE  Inv' /\ Live' = Live
  <2>1. /\ sock' \in [Conns -> SockState]
        /\ sock'[c].wire = sock[c].wire /\ sock'[c].peer = sock[c].peer
        /\ sock'[c].read = sock[c].read + 1
        /\ \A d \in Conns \ {c} : sock'[d] = sock[d]
    BY <1>3, <1>6, SockRead
  <2>2. /\ sock[c].peer \in {"open", "fin"}
        /\ UNCHANGED <<loop, table, conn, backlog, pool, mailbox, stop>>
    BY <1>6 DEF PeerRead
  <2>3. Len(sock'[c].wire) - sock'[c].read <= SndBuf
    <3>1. /\ Len(sock[c].wire) \in Nat /\ sock[c].read \in Nat
          /\ Len(sock[c].wire) - sock[c].read <= SndBuf
      BY <1>2, <2>2
    <3>2. Len(sock'[c].wire) = Len(sock[c].wire)
      BY <2>1
    <3> QED
      BY ONLY <2>1, <3>1, <3>2, BoundsAssumption
  <2> QED
    BY <1>2, <2>1, <2>2, <2>3, PeerStep
<1> QED
  BY <1>1, <1>4, <1>5, <1>6 DEF Peers

\* The workers only move items.
LEMMA WorkersStep ==
  ASSUME Inv, NEW w \in Workers, WorkerStep(w) PROVE Inv' /\ Live' = Live
<1>1. UNCHANGED <<loop, table, conn, sock, backlog, stop, hand>>
  BY DEF WorkerStep, WorkerTake, WorkerPush, WorkerRing, WorkerThrow, mailbox
<1>2. Table' /\ Connections' /\ HangupsReal' /\ Live' = Live
  BY <1>1, Unaffected DEF Inv, Table, loop, table
<1>3. Queues' /\ Rest'
  <2> USE <1>1 DEF Inv, Queues, Rest, loop, stop
  <2>1. CASE WorkerTake(w)
    <3>1. Head(tasks) \in Items /\ Tail(tasks) \in Seq(Items)
      BY <2>1, HeadTailProperties DEF WorkerTake
    <3> QED
      BY <2>1, <3>1 DEF WorkerTake, mailbox
  <2>2. CASE WorkerPush(w)
    <3>1. running[w] \in Items
      BY <2>2 DEF WorkerPush
    <3>2. Append(doneq, running[w]) \in Seq(Items)
      BY <3>1, AppendProperties
    <3> QED
      BY <2>2, <3>2 DEF WorkerPush
  <2>3. CASE WorkerRing(w)
    BY <2>3 DEF WorkerRing
  <2>4. CASE WorkerThrow(w)
    <3>1. running[w] \in Items
      BY <2>4 DEF WorkerThrow
    <3>2. Append(thrown, running[w]) \in Seq(Items)
      BY <3>1, AppendProperties
    <3> QED
      BY <2>4, <3>2 DEF WorkerThrow, mailbox
  <2> QED
    BY <2>1, <2>2, <2>3, <2>4 DEF WorkerStep
<1> QED
  BY <1>2, <1>3 DEF Inv

\* The signal handler, the clock, and the steps of the reactor that touch no
\* connection.
Quiet == \/ OnSignal \/ DeadlinePasses
         \/ Top \/ BeginStop \/ Linger \/ WaitTimesOut
         \/ AcceptShed \/ AcceptNoMore \/ OndoneDrain

\* None of them disturbs a connection.
LEMMA QuietStep == Inv /\ Quiet => Inv' /\ Live' = Live
<1> SUFFICES ASSUME Inv, Quiet PROVE Inv' /\ Live' = Live
  OBVIOUS
<1>1. UNCHANGED <<status, connId, conn, sock, batch, tasks, running, ringing, thrown>>
  BY DEF Quiet, OnSignal, DeadlinePasses, Top, BeginStop, Linger, WaitTimesOut,
         AcceptShed, AcceptNoMore, OndoneDrain, loop, table, pool
<1>2. \/ backlog' = backlog
      \/ backlog' = 0
      \/ backlog > 0 /\ backlog' = backlog - 1
  BY DEF Quiet, OnSignal, DeadlinePasses, Top, BeginStop, Linger, WaitTimesOut,
         AcceptShed, AcceptNoMore, OndoneDrain
<1>3. backlog' \in Nat /\ connId + backlog' <= MaxConn
  <2>1. backlog \in Nat /\ connId \in Nat /\ connId + backlog <= MaxConn
    BY BoundsAssumption DEF Inv, Table
  <2> QED
    BY ONLY <1>2, <2>1, BoundsAssumption
<1>4. Table' /\ Connections' /\ HangupsReal' /\ Live' = Live
  BY <1>1, <1>3, Unaffected
<1>5. Queues' /\ Rest'
  <2> USE <1>1, ContinueTyped DEF Inv, Queues, Rest
  <2>1. CASE OnSignal
    BY <2>1 DEF OnSignal, Interrupt
  <2>2. CASE DeadlinePasses
    BY <2>2 DEF DeadlinePasses, loop, mailbox
  <2>3. CASE Top \/ BeginStop \/ Linger \/ WaitTimesOut
    BY <2>3 DEF Top, BeginStop, Linger, WaitTimesOut, mailbox, stop
  <2>4. CASE AcceptShed \/ AcceptNoMore
    BY <2>4 DEF AcceptShed, AcceptNoMore, mailbox, stop
  <2>5. CASE OndoneDrain
    BY <2>5, EmptySeq DEF OndoneDrain, stop
  <2> QED
    BY <2>1, <2>2, <2>3, <2>4, <2>5 DEF Quiet
<1> QED
  BY <1>4, <1>5 DEF Inv

\* epoll_wait: what it reports as hung up is.
LEMMA WaitStep == Inv /\ Wait => Inv' /\ Live' = Live
<1> SUFFICES ASSUME Inv, Wait PROVE Inv' /\ Live' = Live
  OBVIOUS
<1>1. Ready \subseteq Events
  BY BoundsAssumption DEF Inv, Table, Ready, ReadyFlags, Events, Flags, DoneFd,
     ListenFd, NoConn, Fds
<1>2. Table' /\ Live' = Live
  BY DEF Inv, Table, Wait, table, Live
<1>3. Connections'
  BY <1>2 DEF Inv, Connections, Wait, ConnWell, SockWell, LiveWell
<1>4. HangupsReal'
  <2>1. ASSUME NEW e \in Ready, e.fd \in Fds, "HUP" \in e.flags
        PROVE  e.of \in 1..connId /\ sock[e.of].peer = "reset"
    <3>1. PICK fd \in Fds : /\ status[fd] # NoConn
                            /\ e.of = status[fd]
                            /\ e.flags = ReadyFlags(status[fd])
      BY <2>1, BoundsAssumption DEF Ready, DoneFd, ListenFd, Fds
    <3>2. status[fd] \in 1..connId
      BY <3>1, BoundsAssumption DEF Inv, Table, Conns, NoConn
    <3>3. sock[status[fd]].peer = "reset"
      BY <2>1, <3>1 DEF ReadyFlags
    <3> QED
      BY <3>1, <3>2, <3>3
  <2> QED
    BY <2>1 DEF HangupsReal, Wait, table
<1>5. Queues' /\ Rest'
  BY <1>1 DEF Inv, Queues, Rest, Wait, pool, mailbox, stop
<1> QED
  BY <1>2, <1>3, <1>4, <1>5 DEF Inv

\* What onaccept puts in the table.
LEMMA NewTyped ==
  /\ [NewSock EXCEPT !.peer = "open"] \in SockState
  /\ [NewSock EXCEPT !.peer = "open"].wire = <<>>
  /\ [NewSock EXCEPT !.peer = "open"].read = 0
  /\ [NewSock EXCEPT !.peer = "open"].peer = "open"
  /\ Fresh \in ConnState /\ Fresh.out = <<>> /\ ~Fresh.peerClose
  /\ Fresh.interest = {"IN"}
<1> DEFINE s == [NewSock EXCEPT !.peer = "open"]
<1>1. s = [peer |-> "open", rcvq |-> <<>>, sent |-> 0, wire |-> <<>>, read |-> 0]
  BY DEF NewSock
<1> HIDE DEF s
<1>2. s \in SockState /\ s.wire = <<>> /\ s.read = 0 /\ s.peer = "open"
  BY <1>1, BoundsAssumption, EmptySeq DEF SockState
<1>3. /\ Fresh \in ConnState /\ Fresh.out = <<>> /\ ~Fresh.peerClose
      /\ Fresh.interest = {"IN"}
  BY EmptySeq DEF Fresh, ConnState
<1> QED
  BY <1>2, <1>3, Zenon DEF s

\* Accepting gives a new conn_id, which no earlier event or item can name.
LEMMA AcceptStep == Inv /\ Accept => Inv' /\ Live \subseteq Live'
<1> SUFFICES ASSUME Inv, Accept PROVE Inv' /\ Live \subseteq Live'
  OBVIOUS
<1> DEFINE c == connId + 1
           s == [NewSock EXCEPT !.peer = "open"]
<1>1. /\ c \in Conns /\ connId \in Nat
      /\ connId' = c /\ backlog' = backlog - 1 /\ backlog' \in Nat
      /\ connId' + backlog' <= MaxConn
  BY BoundsAssumption DEF Inv, Table, Accept, Conns
<1>2. PICK fd \in Fds : /\ status[fd] = NoConn
                        /\ status' = [status EXCEPT ![fd] = c]
  BY DEF Accept
<1>3. /\ Table'
      /\ Live' = Live \cup {c}
      /\ c \notin Live
  <2>1. status \in [Fds -> Conns \cup {NoConn}]
    BY DEF Inv, Table
  <2>2. \A g \in Fds : status[g] <= connId /\ status[g] # c
    BY <1>1, <2>1, BoundsAssumption DEF Inv, Table, Conns, NoConn
  <2>3. \A g \in Fds : status'[g] = IF g = fd THEN c ELSE status[g]
    BY <1>2, <2>1
  <2>4. status' \in [Fds -> Conns \cup {NoConn}]
    BY <1>1, <1>2, <2>1
  <2>5. c # NoConn
    BY <1>1 DEF NoConn
  <2>6. \A g \in Fds : status'[g] <= c
    BY <1>1, <2>1, <2>2, <2>3, BoundsAssumption DEF Conns, NoConn
  <2>7. \A f, g \in Fds : status'[f] # NoConn /\ status'[f] = status'[g] => f = g
    BY <2>2, <2>3 DEF Inv, Table
  <2>8. c \in 0..MaxConn
    BY <1>1, BoundsAssumption DEF Conns
  <2>9. Table'
    BY <1>1, <2>4, <2>6, <2>7, <2>8 DEF Table
  <2>10. c \notin Live
    BY <2>2 DEF Live
  <2>11. Live' = Live \cup {c}
    <3>1. \A d \in Conns : d \in Live' <=> \E g \in Fds : status'[g] = d
      BY DEF Live
    <3>2. \A d \in Conns : d \in Live <=> \E g \in Fds : status[g] = d
      BY DEF Live
    <3>3. \A d \in Conns : d # NoConn
      BY BoundsAssumption DEF Conns, NoConn
    <3>4. Live \subseteq Conns /\ Live' \subseteq Conns
      BY DEF Live
    <3> HIDE DEF c
    <3> QED
      BY ONLY <1>1, <1>2, <2>3, <3>1, <3>2, <3>3, <3>4
  <2> QED
    BY <2>9, <2>10, <2>11
<1>4. /\ s \in SockState /\ s.wire = <<>> /\ s.read = 0 /\ s.peer = "open"
      /\ Fresh \in ConnState /\ Fresh.out = <<>> /\ ~Fresh.peerClose
      /\ Fresh.interest = {"IN"}
  BY NewTyped
<1>5. ConnWell(Fresh, c) /\ SockWell(s, c) /\ LiveWell(Fresh, s)
  <2> HIDE DEF s
  <2> QED
    BY ONLY <1>4, BoundsAssumption, EmptySeq DEF ConnWell, SockWell, LiveWell
<1>6. /\ sock' = [sock EXCEPT ![c] = s]
      /\ conn' = [conn EXCEPT ![c] = Fresh]
  BY DEF Accept
<1> HIDE DEF s
<1>7. Connections'
  <2>1. conn \in [Conns -> ConnState] /\ sock \in [Conns -> SockState]
    BY DEF Inv, Connections
  <2>2. /\ conn' \in [Conns -> ConnState] /\ sock' \in [Conns -> SockState]
        /\ conn'[c] = Fresh /\ sock'[c] = s
        /\ \A d \in Conns \ {c} : conn'[d] = conn[d] /\ sock'[d] = sock[d]
    BY ONLY <1>1, <1>4, <1>6, <2>1
  <2>3. \A d \in Conns : ConnWell(conn'[d], d) /\ SockWell(sock'[d], d)
    BY <1>5, <2>2 DEF Inv, Connections
  <2>4. \A d \in Live' : LiveWell(conn'[d], sock'[d])
    BY <1>3, <1>5, <2>2 DEF Inv, Connections, Live
  <2> QED
    BY <2>2, <2>3, <2>4 DEF Connections, ConnWell, SockWell, LiveWell
<1>8. HangupsReal'
  <2>1. \A d \in 1..connId : d \in 1..connId' /\ sock'[d] = sock[d]
    <3>1. sock \in [Conns -> SockState]
      BY DEF Inv, Connections
    <3> QED
      BY <1>1, <1>6, <3>1, BoundsAssumption DEF Conns
  <2>2. batch' = batch
    BY DEF Accept, loop
  <2> QED
    BY <2>1, <2>2 DEF Inv, HangupsReal
<1>9. Queues' /\ Rest'
  BY DEF Inv, Queues, Rest, Accept, loop, pool, mailbox, stop
<1> QED
  BY <1>3, <1>7, <1>8, <1>9 DEF Inv

\* What JustifiedClose says of one step.
Justified ==
  \A c \in Conns : Closes(c) =>
     sock[c].peer \in {"fin", "reset"} \/ HasBad(c) \/ pc = "close" \/ Stale(c)

\* One turn of ondone's loop.
LEMMA ItemStep == Inv /\ OndoneItem => Inv' /\ Justified
<1> SUFFICES ASSUME Inv, OndoneItem PROVE Inv' /\ Justified
  OBVIOUS
<1> DEFINE item == Head(hand)
           c == status[item.fd]
<1>1. /\ hand \in Seq(Items) /\ hand # <<>>
      /\ item \in Items /\ Tail(hand) \in Seq(Items)
  <2>1. hand \in Seq(Items) /\ hand # <<>>
    BY DEF Inv, Queues, OndoneItem
  <2> QED
    BY <2>1, HeadTailProperties
<1>2. Queues' /\ Rest'
  BY <1>1, ContinueTyped DEF Inv, Queues, Rest, OndoneItem, pool, stop
<1> HIDE DEF item
<1>3. UNCHANGED <<connId, batch, backlog>>
  BY DEF OndoneItem
<1>4. CASE UNCHANGED <<status, conn, sock>>
  <2>1. Table' /\ Connections' /\ HangupsReal' /\ Live' = Live
    BY <1>3, <1>4, Unaffected DEF Inv, Table
  <2> QED
    BY <1>2, <2>1 DEF Inv, Justified, Closes
<1>5. CASE ~UNCHANGED <<status, conn, sock>>
  <2>1. /\ status[item.fd] = item.id
        /\ LET s == Senddata(c, Answered(conn[c]), item)
           IN  IF ~s.ok \/ Finished(s.k)
               THEN Onclose(item.fd, s.wire)
               ELSE Keep(c, s.k, sock[c].rcvq, s.wire)
    BY <1>5 DEF OndoneItem, SameConnection, item
  <2>2. c \in Conns /\ item.id = c
    BY <1>1, <2>1 DEF Items
  <2>3. Handled(c)
    <3> HIDE DEF c
    <3>1. status[item.fd] = c
      BY DEF c
    <3> QED
      BY <1>1, <1>3, <2>1, <2>2, <3>1, AnswerWell DEF Inv
  <2> HIDE DEF c
  <2>4. HangupsReal'
    BY <1>3, <2>3, HangupsStay DEF Handled
  <2>5. Justified
    BY <2>2, <2>3 DEF Handled, Justified, Closes
  <2> QED
    BY <1>2, <2>3, <2>4, <2>5 DEF Inv, Handled
<1> QED
  BY <1>4, <1>5

\* One event, handled for whoever owns the descriptor now.
LEMMA DispatchStep == Inv /\ Dispatch => Inv' /\ Justified
<1> SUFFICES ASSUME Inv, Dispatch PROVE Inv' /\ Justified
  OBVIOUS
<1>1. PICK e \in batch : /\ batch' = batch \ {e}
                         /\ \/ OndoneRead(e) \/ OnacceptEnter(e)
                            \/ EventOfNobody(e) \/ EventOfConnection(e)
  BY DEF Dispatch
<1>2. /\ UNCHANGED <<connId, listening, backlog, running, ringing, thrown, stop, doneq, hand>>
      /\ pc = "dispatch"
      /\ bell' \in BOOLEAN
      /\ pc' \in {"drain", "accept", "dispatch", "top", "linger"}
  BY <1>1, ContinueTyped DEF Inv, Rest, Dispatch, OndoneRead, OnacceptEnter,
     EventOfNobody, EventOfConnection, table, mailbox
<1>3. Rest'
  BY <1>1, <1>2 DEF Inv, Rest, stop
<1>4. ASSUME UNCHANGED <<status, conn, sock, tasks>> PROVE Inv' /\ Justified
  <2>1. Table' /\ Connections' /\ HangupsReal' /\ Live' = Live
    BY <1>1, <1>2, <1>4, Unaffected DEF Inv, Table
  <2>2. Queues'
    BY <1>2, <1>4 DEF Inv, Queues
  <2> QED
    BY <1>3, <2>1, <2>2 DEF Inv, Justified, Closes
<1>5. ASSUME NEW c \in Conns, Table', Connections', GoneStay, tasks' \in Seq(Items),
             \/ Live' = Live
             \/ /\ Live' = Live \ {c}
                /\ sock[c].peer \in {"fin", "reset"} \/ HasBad(c) \/ Stale(c)
      PROVE  Inv' /\ Justified
  <2>1. HangupsReal'
    BY <1>1, <1>2, <1>5, HangupsStay
  <2>2. Queues'
    BY <1>2, <1>5 DEF Inv, Queues
  <2>3. Justified
    BY <1>5 DEF Justified, Closes
  <2> QED
    BY <1>3, <1>5, <2>1, <2>2, <2>3 DEF Inv
<1>6. CASE OndoneRead(e) \/ OnacceptEnter(e) \/ EventOfNobody(e)
  BY <1>4, <1>6 DEF OndoneRead, OnacceptEnter, EventOfNobody, table
<1>7. CASE EventOfConnection(e)
  <2> DEFINE c == status[e.fd]
  <2>1. e.fd \in Fds /\ c \in Conns /\ tasks \in Seq(Items)
    BY <1>7 DEF Inv, Table, Queues, EventOfConnection
  <2>2. status[e.fd] = c
    OBVIOUS
  <2>3. UNCHANGED <<connId, backlog>>
    BY <1>2
  <2>4. \/ Handwrite(e.fd) /\ UNCHANGED tasks
        \/ UNCHANGED <<status, conn, sock, tasks>>
        \/ "HUP" \in e.flags /\ Onclose(e.fd, sock[c].wire) /\ UNCHANGED tasks
        \/ Handreadable(e.fd)
    BY <1>7 DEF EventOfConnection
  <2> HIDE DEF c
  <2>5. CASE Handwrite(e.fd) /\ UNCHANGED tasks
    <3>1. Handled(c)
      BY <2>1, <2>2, <2>3, <2>5, HandwriteWell DEF Inv
    <3> QED
      BY <1>5, <2>1, <2>5, <3>1 DEF Handled
  <2>6. CASE UNCHANGED <<status, conn, sock, tasks>>
    BY <1>4, <2>6
  <2>7. CASE "HUP" \in e.flags /\ Onclose(e.fd, sock[c].wire) /\ UNCHANGED tasks
    <3>1. sock[c].wire \in Seq(Own(c))
      BY <2>1 DEF Inv, Connections, SockWell
    <3>2. Table' /\ Connections' /\ GoneStay /\ Live' = Live \ {c}
      BY <2>1, <2>2, <2>3, <2>7, <3>1, CloseWell DEF Inv
    <3>3. sock[c].peer # "over"
      BY <2>1, <2>2 DEF Inv, Connections, LiveWell, Live
    <3>4. CASE e.of = c
      <4>1. sock[c].peer = "reset"
        BY <2>1, <2>7, <3>3, <3>4 DEF Inv, HangupsReal
      <4> QED
        BY <1>5, <2>1, <2>7, <3>2, <4>1
    <3>5. CASE e.of # c
      <4>1. Stale(c)
        BY <1>1, <2>1, <2>2, <3>5 DEF Stale
      <4> QED
        BY <1>5, <2>1, <2>7, <3>2, <4>1
    <3> QED
      BY <3>4, <3>5
  <2>8. CASE Handreadable(e.fd)
    <3>1. Handled(c) /\ tasks' \in Seq(Items)
      BY <2>1, <2>2, <2>3, <2>8, HandreadableWell DEF Inv
    <3> QED
      BY <1>5, <2>1, <3>1 DEF Handled
  <2> QED
    BY <2>4, <2>5, <2>6, <2>7, <2>8
<1> QED
  BY <1>1, <1>6, <1>7

\* A socket the end of start() closes.
LEMMA SockOver ==
  ASSUME NEW x \in SockState,
         NEW y, y = [x EXCEPT !.peer = "over", !.rcvq = <<>>, !.read = 0]
  PROVE  y \in SockState /\ y.wire = x.wire /\ y.peer = "over"
BY EmptySeq DEF SockState

\* The end of start() closes what is left, and says so by its pc.
LEMMA CloseAllStep == Inv /\ CloseAll => Inv' /\ Justified
<1> SUFFICES ASSUME Inv, CloseAll PROVE Inv' /\ Justified
  OBVIOUS
<1>0. status' = [fd \in Fds |-> NoConn] /\ UNCHANGED <<connId, backlog>>
  BY Zenon DEF CloseAll
<1>1. Live' = {}
  BY <1>0, BoundsAssumption DEF Live, Conns, NoConn
<1>2. Table'
  BY <1>0, BoundsAssumption DEF Inv, Table, Conns, NoConn
<1>3. ASSUME NEW d \in Conns
      PROVE  /\ sock'[d] \in SockState
             /\ sock'[d].wire = sock[d].wire
             /\ sock'[d] = sock[d] \/ sock'[d].peer = "over"
  <2>1. sock[d] \in SockState
    BY DEF Inv, Connections
  <2>2. CASE d \in Live
    <3> DEFINE x == sock[d]
               y == sock'[d]
    <3>1. x \in SockState
      BY <2>1
    <3>2. y = [x EXCEPT !.peer = "over", !.rcvq = <<>>, !.read = 0]
      BY <2>2 DEF CloseAll
    <3> HIDE DEF x, y
    <3>3. y \in SockState /\ y.wire = x.wire /\ y.peer = "over"
      BY ONLY <3>1, <3>2, SockOver
    <3> QED
      BY <3>3 DEF x, y
  <2>3. CASE d \notin Live
    BY <2>1, <2>3 DEF CloseAll
  <2> QED
    BY <2>2, <2>3
<1>4. conn' = [c \in Conns |-> Fresh] /\ sock' = [c \in Conns |-> sock'[c]]
  <2> DEFINE g[c \in Conns] ==
               IF c \in Live
               THEN [sock[c] EXCEPT !.peer = "over", !.rcvq = <<>>, !.read = 0]
               ELSE sock[c]
  <2>1. conn' = [c \in Conns |-> Fresh] /\ sock' = g
    BY DEF CloseAll
  <2>2. g = [c \in Conns |-> g[c]]
    OBVIOUS
  <2> HIDE DEF g
  <2> QED
    BY ONLY <2>1, <2>2
<1>5. Connections'
  <2>1. Fresh \in ConnState /\ Fresh.out \in Seq(Cells)
    BY EmptySeq DEF Fresh, ConnState
  <2>2. conn' \in [Conns -> ConnState]
    BY <1>4, <2>1
  <2>3. sock' \in [Conns -> SockState]
    BY <1>3, <1>4
  <2>4. \A d \in Conns : ConnWell(conn'[d], d)
    BY <1>4, <2>1, EmptySeq DEF ConnWell, Fresh
  <2>5. \A d \in Conns : SockWell(sock'[d], d)
    BY <1>3 DEF Inv, Connections, SockWell
  <2> QED
    BY <1>1, <2>2, <2>3, <2>4, <2>5 DEF Connections, ConnWell, SockWell
<1>6. HangupsReal'
  <2>1. GoneStay
    BY <1>3, BoundsAssumption DEF GoneStay, Inv, Table, Conns
  <2> QED
    BY <2>1, HangupsStay DEF CloseAll
<1>7. Queues' /\ Rest'
  BY DEF Inv, Queues, Rest, CloseAll, pool, mailbox, stop
<1>8. Justified
  BY DEF Justified, CloseAll
<1> QED
  BY <1>2, <1>5, <1>6, <1>7, <1>8 DEF Inv

-----------------------------------------------------------------------------
(* The theorems.                                                           *)

\* Every step keeps the invariant, and every close it makes has a reason.
LEMMA StepInv == Inv /\ [Next]_vars => Inv' /\ (vars' # vars => Justified)
<1> SUFFICES ASSUME Inv, [Next]_vars PROVE Inv' /\ (vars' # vars => Justified)
  OBVIOUS
<1>1. ASSUME Inv' /\ Live \subseteq Live' PROVE Inv' /\ Justified
  BY <1>1 DEF Justified, Closes
<1>2. CASE Peers
  BY <1>1, <1>2, PeersStep
<1>3. CASE \E w \in Workers : WorkerStep(w)
  BY <1>1, <1>3, WorkersStep
<1>4. CASE Quiet
  BY <1>1, <1>4, QuietStep
<1>5. CASE Wait
  BY <1>1, <1>5, WaitStep
<1>6. CASE Dispatch
  BY <1>6, DispatchStep
<1>7. CASE Accept
  BY <1>1, <1>7, AcceptStep
<1>8. CASE OndoneItem
  BY <1>8, ItemStep
<1>9. CASE CloseAll
  BY <1>9, CloseAllStep
<1>10. CASE UNCHANGED vars
  <2>1. Table' /\ Connections' /\ HangupsReal'
    BY <1>10, Unaffected DEF Inv, Table, vars
  <2> QED
    BY <1>10, <2>1 DEF Inv, Queues, Rest, vars
<1> QED
  BY <1>2, <1>3, <1>4, <1>5, <1>6, <1>7, <1>8, <1>9, <1>10
     DEF Next, ReactorStep, Quiet

\* The inductive invariant holds in every state the server can reach.
THEOREM Invariance == Spec => []Inv
BY InitInv, StepInv, PTL DEF Spec

\* Whatever the numbers of descriptors, connections, requests and workers, the
\* reactor's state has its type: in particular the events it dispatches and the
\* items it is handed are of the shapes addevent and ondone index with.
THEOREM TypeCorrect == Spec => []TypeOK
<1>1. Inv => TypeOK
  BY DEF Inv, Table, Connections, Rest, Queues, TypeOK
<1> QED
  BY <1>1, Invariance, PTL

\* No peer is ever sent, or has queued for it, another one's response, however
\* often descriptors are reused while handlers run.
THEOREM ResponsesOwn == Spec => []OwnResponses
<1>1. Inv => OwnResponses
  <2> SUFFICES ASSUME Inv, NEW c \in Conns, NEW i \in 1..Len(Stream(c))
               PROVE  Stream(c)[i].id = c
    BY DEF OwnResponses
  <2>1. sock[c].wire \in Seq(Own(c)) /\ conn[c].out \in Seq(Own(c))
    BY DEF Inv, Connections, ConnWell, SockWell
  <2>2. Stream(c) \in Seq(Own(c))
    BY <2>1, ConcatProperties DEF Stream
  <2>3. Stream(c)[i] \in Own(c)
    BY <2>2, ElementOfSeq
  <2> QED
    BY <2>3 DEF Own
<1> QED
  BY <1>1, Invariance, PTL

\* A connection's interest set always fits its Outbuffer, whichever of the four
\* places that change one or the other ran last.
THEOREM InterestMatches == Spec => []InterestMatchesOutbuffer
<1>1. Inv => InterestMatchesOutbuffer
  BY DEF Inv, Connections, LiveWell, InterestMatchesOutbuffer
<1> QED
  BY <1>1, Invariance, PTL

\* Every close has a reason: the peer has finished, is gone or broke the
\* protocol, the reactor stops, or the event was an earlier connection's.
THEOREM ClosesJustified == Spec => JustifiedClose
<1>1. Inv /\ [Next]_vars =>
        [\A c \in Conns : Closes(c) =>
           sock[c].peer \in {"fin", "reset"} \/ HasBad(c) \/ pc = "close" \/ Stale(c)]_vars
  BY StepInv DEF Justified
<1> QED
  BY <1>1, Invariance, PTL DEF Spec, JustifiedClose

-----------------------------------------------------------------------------
(* Counting in sequences.                                                  *)

\* How many elements of the sequence q are in S.
Count(q, S) == Cardinality({i \in 1..Len(q) : q[i] \in S})

\* The elements to count are a finite set of places.
LEMMA CountFinite ==
  ASSUME NEW T, NEW q \in Seq(T), NEW S
  PROVE  /\ IsFiniteSet({i \in 1..Len(q) : q[i] \in S})
         /\ Count(q, S) \in Nat
         /\ Count(q, S) <= Len(q)
<1>1. Len(q) \in Nat
  BY LenProperties
<1>2. IsFiniteSet(1..Len(q)) /\ Cardinality(1..Len(q)) = Len(q)
  BY <1>1, FS_Interval, SMTT(30)
<1>3. {i \in 1..Len(q) : q[i] \in S} \in SUBSET (1..Len(q))
  OBVIOUS
<1> QED
  BY <1>2, <1>3, FS_Subset, FS_CardinalityType DEF Count

\* Counts add up when sequences are put one behind the other.
LEMMA CountConcat ==
  ASSUME NEW T, NEW p \in Seq(T), NEW q \in Seq(T), NEW S
  PROVE  Count(p \o q, S) = Count(p, S) + Count(q, S)
<1> DEFINE m == Len(p)
           n == Len(q)
           A == {i \in 1..m : p[i] \in S}
           B == {i \in 1..n : q[i] \in S}
           C == {i \in (m + 1)..(m + n) : q[i - m] \in S}
           D == {i \in 1..Len(p \o q) : (p \o q)[i] \in S}
<1>1. m \in Nat /\ n \in Nat
  BY LenProperties
<1>2. Len(p \o q) = m + n
  BY ConcatProperties
<1>3. \A i \in 1..(m + n) : (p \o q)[i] = IF i <= m THEN p[i] ELSE q[i - m]
  BY <1>1, <1>2, ConcatProperties
<1>4. D = A \cup C /\ A \cap C = {}
  <2> DEFINE r == p \o q
  <2>1. Len(r) = m + n /\ \A i \in 1..(m + n) : r[i] = IF i <= m THEN p[i] ELSE q[i - m]
    BY <1>2, <1>3
  <2> HIDE DEF m, n, r
  <2>2. \A i : i \in 1..(m + n) <=> i \in 1..m \/ i \in (m + 1)..(m + n)
    BY <1>1
  <2>3. \A i : ~(i \in 1..m /\ i \in (m + 1)..(m + n))
    BY <1>1
  <2>4. \A i \in (m + 1)..(m + n) : ~(i <= m)
    BY <1>1
  <2>5. \A i \in 1..m : i <= m
    BY <1>1
  <2>6. D = {i \in 1..(m + n) : r[i] \in S}
    BY <2>1 DEF r
  <2> HIDE DEF D
  <2> QED
    BY ONLY <2>1, <2>2, <2>3, <2>4, <2>5, <2>6
<1>5. IsFiniteSet(A) /\ IsFiniteSet(B) /\ Cardinality(A) \in Nat /\ Cardinality(B) \in Nat
  BY CountFinite DEF Count
<1>6. ExistsBijection(B, C)
  <2> DEFINE f == [i \in B |-> i + m]
  <2> HIDE DEF m, n
  <2>1. f \in [B -> C]
    BY <1>1
  <2>2. \A i, j \in B : f[i] = f[j] => i = j
    BY <1>1
  <2>3. \A k \in C : \E i \in B : f[i] = k
    <3> TAKE k \in C
    <3>1. k - m \in B /\ f[k - m] = k
      BY <1>1
    <3> QED
      BY <3>1
  <2> HIDE DEF f, B, C
  <2> QED
    BY <2>1, <2>2, <2>3 DEF ExistsBijection, Bijection, Injection, Surjection, IsInjective
<1>7. IsFiniteSet(C) /\ Cardinality(C) = Cardinality(B)
  BY <1>5, <1>6, FS_Bijection
<1>8. Cardinality(A \cup C) = Cardinality(A) + Cardinality(C)
  <2> HIDE DEF A, B, C
  <2>1. Cardinality(A \cup C) = Cardinality(A) + Cardinality(C) - Cardinality(A \cap C)
    BY <1>5, <1>7, FS_Union
  <2>2. Cardinality(A \cap C) = 0
    BY <1>4, FS_EmptySet, Zenon
  <2> QED
    BY ONLY <1>5, <1>7, <2>1, <2>2
<1> HIDE DEF A, B, C, D
<1>9. Cardinality(D) = Cardinality(A) + Cardinality(B)
  BY <1>4, <1>7, <1>8
<1> QED
  BY <1>9 DEF A, B, D, Count

\* Nothing, and one element.
LEMMA CountOne ==
  ASSUME NEW S
  PROVE  /\ Count(<<>>, S) = 0
         /\ \A x : Count(<<x>>, S) = IF x \in S THEN 1 ELSE 0
<1>1. Count(<<>>, S) = 0
  <2>1. {i \in 1..Len(<<>>) : <<>>[i] \in S} = {}
    OBVIOUS
  <2> QED
    BY <2>1, FS_EmptySet DEF Count
<1>2. ASSUME NEW x PROVE Count(<<x>>, S) = IF x \in S THEN 1 ELSE 0
  <2> DEFINE D == {i \in 1..Len(<<x>>) : <<x>>[i] \in S}
  <2>1. x \in S => D = {1}
    OBVIOUS
  <2>2. x \notin S => D = {}
    OBVIOUS
  <2> HIDE DEF D
  <2>3. Cardinality({1}) = 1 /\ Cardinality({}) = 0
    BY FS_EmptySet, FS_Singleton, Zenon
  <2>4. Cardinality(D) = IF x \in S THEN 1 ELSE 0
    BY <2>1, <2>2, <2>3
  <2> QED
    BY <2>4 DEF D, Count
<1> QED
  BY <1>1, <1>2

\* The requests a sequence of items or a queue of frames has, and cells.
LEMMA CountItems ==
  ASSUME NEW S, NEW p \in Seq(Items)
  PROVE  /\ Count(p, S) \in Nat
         /\ \A q \in Seq(Items) : Count(p \o q, S) = Count(p, S) + Count(q, S)
         /\ \A x \in Items : Count(Append(p, x), S)
                                 = Count(p, S) + IF x \in S THEN 1 ELSE 0
         /\ p # <<>> => Count(p, S) = Count(Tail(p), S) + IF Head(p) \in S THEN 1 ELSE 0
<1>1. Count(p, S) \in Nat
  BY CountFinite
<1>2. \A q \in Seq(Items) : Count(p \o q, S) = Count(p, S) + Count(q, S)
  BY CountConcat
<1>3. ASSUME NEW x \in Items
      PROVE  Count(Append(p, x), S) = Count(p, S) + IF x \in S THEN 1 ELSE 0
  <2>1. Append(p, x) = p \o <<x>> /\ <<x>> \in Seq(Items)
    OBVIOUS
  <2>2. Count(p \o <<x>>, S) = Count(p, S) + Count(<<x>>, S)
    BY <1>2, <2>1
  <2> QED
    BY <2>1, <2>2, CountOne
<1>4. ASSUME p # <<>>
      PROVE  Count(p, S) = Count(Tail(p), S) + IF Head(p) \in S THEN 1 ELSE 0
  <2> DEFINE h == Head(p)
             t == Tail(p)
  <2>1. h \in Items /\ t \in Seq(Items) /\ p = <<h>> \o t
    BY <1>4, HeadTailProperties
  <2>2. <<h>> \in Seq(Items)
    BY <2>1
  <2> HIDE DEF h, t
  <2>3. Count(<<h>> \o t, S) = Count(<<h>>, S) + Count(t, S)
    BY <2>1, <2>2, CountConcat
  <2>4. Count(<<h>>, S) = IF h \in S THEN 1 ELSE 0
    BY CountOne
  <2>5. Count(t, S) \in Nat
    BY <2>1, CountFinite
  <2>6. Count(p, S) = Count(<<h>> \o t, S)
    BY <2>1
  <2>7. Count(p, S) = Count(t, S) + IF h \in S THEN 1 ELSE 0
    BY ONLY <2>3, <2>4, <2>5, <2>6
  <2> QED
    BY <2>7 DEF h, t
<1> QED
  BY <1>1, <1>2, <1>3, <1>4

-----------------------------------------------------------------------------
(* The requests that have been read and not been answered: queued, being   *)
(* handled, handled and not yet looked at, or lost by their handler.       *)

\* The workers that are executing a task of S and have not pushed its response.
Busy(S) == {w \in Workers \ ringing : running[w] \in S}

\* How many items of S have been submitted and not been looked at by ondone.
Held(S) == Count(tasks, S) + Count(doneq, S) + Count(hand, S) + Count(thrown, S)
               + Cardinality(Busy(S))

\* The items of a connection, and of one of its requests.
ItemsOf(c) == {x \in Items : x.id = c}
ItemsFor(c, r) == {x \in Items : x.id = c /\ x.req = r}

\* All five numbers are natural.
LEMMA HeldNat ==
  ASSUME Queues, NEW S
  PROVE  /\ Count(tasks, S) \in Nat /\ Count(doneq, S) \in Nat /\ Count(hand, S) \in Nat
         /\ Count(thrown, S) \in Nat
         /\ IsFiniteSet(Busy(S)) /\ Cardinality(Busy(S)) \in Nat
         /\ Held(S) \in Nat
<1>1. /\ Count(tasks, S) \in Nat /\ Count(doneq, S) \in Nat /\ Count(hand, S) \in Nat
      /\ Count(thrown, S) \in Nat
  BY CountItems DEF Queues
<1>2. Busy(S) \in SUBSET Workers
  BY DEF Busy
<1>3. IsFiniteSet(Busy(S)) /\ Cardinality(Busy(S)) \in Nat
  BY <1>2, WorkersAssumption, FS_Subset, FS_CardinalityType
<1> QED
  BY <1>1, <1>3 DEF Held

\* The same after a step.
LEMMA HeldNatNext ==
  ASSUME Queues', NEW S
  PROVE  Held(S)' \in Nat
<1>1. /\ Count(tasks', S) \in Nat /\ Count(doneq', S) \in Nat /\ Count(hand', S) \in Nat
      /\ Count(thrown', S) \in Nat
  BY CountItems DEF Queues
<1>2. Busy(S)' \in SUBSET Workers
  BY DEF Busy
<1>3. Cardinality(Busy(S)') \in Nat
  BY <1>2, WorkersAssumption, FS_Subset, FS_CardinalityType
<1>4. Held(S)' = Count(tasks', S) + Count(doneq', S) + Count(hand', S) + Count(thrown', S)
                     + Cardinality(Busy(S)')
  BY DEF Held
<1> QED
  BY ONLY <1>1, <1>3, <1>4

\* A larger set has no fewer.
LEMMA HeldMonotone ==
  ASSUME Queues, NEW S, NEW T, S \subseteq T
  PROVE  Held(S) <= Held(T)
<1>1. ASSUME NEW q \in Seq(Items) PROVE Count(q, S) <= Count(q, T)
  <2> DEFINE A == {i \in 1..Len(q) : q[i] \in S}
             B == {i \in 1..Len(q) : q[i] \in T}
  <2>1. A \subseteq B /\ IsFiniteSet(B)
    BY CountFinite
  <2> HIDE DEF A, B
  <2>2. Cardinality(A) <= Cardinality(B)
    BY <2>1, FS_Subset
  <2> QED
    BY <2>2 DEF Count, A, B
<1>2. Cardinality(Busy(S)) <= Cardinality(Busy(T))
  <2>1. Busy(S) \subseteq Busy(T)
    BY DEF Busy
  <2> QED
    BY <2>1, HeldNat, FS_Subset
<1>3. /\ Count(tasks, S) <= Count(tasks, T) /\ Count(doneq, S) <= Count(doneq, T)
      /\ Count(hand, S) <= Count(hand, T) /\ Count(thrown, S) <= Count(thrown, T)
  BY <1>1 DEF Queues
<1>4. /\ Count(tasks, S) \in Nat /\ Count(doneq, S) \in Nat /\ Count(hand, S) \in Nat
      /\ Count(thrown, S) \in Nat /\ Cardinality(Busy(S)) \in Nat
  BY HeldNat
<1>5. /\ Count(tasks, T) \in Nat /\ Count(doneq, T) \in Nat /\ Count(hand, T) \in Nat
      /\ Count(thrown, T) \in Nat /\ Cardinality(Busy(T)) \in Nat
  BY HeldNat
<1> QED
  BY ONLY <1>2, <1>3, <1>4, <1>5 DEF Held

\* What leaves the pool's queue is with a worker, and what leaves a worker is in the
\* done queue or lost with the exception: workers make no request more and none less.
LEMMA WorkersHold ==
  ASSUME Inv, NEW w \in Workers, WorkerStep(w), NEW S \in SUBSET Items
  PROVE  Held(S)' = Held(S)
<1>0. Queues /\ hand' = hand
  BY DEF Inv, WorkerStep, WorkerTake, WorkerPush, WorkerRing, WorkerThrow, mailbox
<1>1. /\ Count(tasks, S) \in Nat /\ Count(doneq, S) \in Nat /\ Count(hand, S) \in Nat
      /\ Count(thrown, S) \in Nat
      /\ IsFiniteSet(Busy(S)) /\ Cardinality(Busy(S)) \in Nat
  BY <1>0, HeldNat
<1>2. NoItem \notin S
  BY DEF NoItem, Items, Fds
<1>3. running \in [Workers -> Items \cup {NoItem}] /\ \A v \in ringing : running[v] # NoItem
  BY <1>0 DEF Queues
<1>4. CASE WorkerTake(w)
  <2> DEFINE one == IF Head(tasks) \in S THEN 1 ELSE 0
  <2>1. Count(tasks, S) = Count(tasks', S) + one
    BY <1>0, <1>4, CountItems DEF Queues, WorkerTake
  <2>2. Count(tasks', S) \in Nat
    <3>1. tasks' \in Seq(Items)
      BY <1>0, <1>4, HeadTailProperties DEF Queues, WorkerTake
    <3> QED
      BY <3>1, CountItems
  <2>3. w \notin Busy(S) /\ w \notin ringing
    BY <1>2, <1>3, <1>4 DEF Busy, WorkerTake
  <2>4. Busy(S)' = IF Head(tasks) \in S THEN Busy(S) \cup {w} ELSE Busy(S)
    BY <1>2, <1>3, <1>4, <2>3 DEF Busy, WorkerTake
  <2>5. Cardinality(Busy(S)') = Cardinality(Busy(S)) + one
    <3>1. Cardinality(Busy(S) \cup {w}) = Cardinality(Busy(S)) + 1
      BY <1>1, <2>3, FS_AddElement, Zenon
    <3> QED
      BY <1>1, <2>4, <3>1
  <2>6. doneq' = doneq /\ thrown' = thrown
    BY <1>4 DEF WorkerTake, mailbox
  <2> HIDE DEF one
  <2>7. Held(S)' = Count(tasks', S) + Count(doneq, S) + Count(hand, S) + Count(thrown, S)
                       + Cardinality(Busy(S)')
    BY <1>0, <2>6 DEF Held
  <2>8. one \in Nat
    BY DEF one
  <2> QED
    BY ONLY <1>1, <2>1, <2>2, <2>5, <2>7, <2>8 DEF Held
<1>5. CASE WorkerPush(w) \/ WorkerThrow(w)
  <2> DEFINE one == IF running[w] \in S THEN 1 ELSE 0
  <2>1. running[w] \in Items /\ w \notin ringing /\ tasks' = tasks
    BY <1>3, <1>5 DEF WorkerPush, WorkerThrow
  <2>2. \/ doneq' = Append(doneq, running[w]) /\ thrown' = thrown
        \/ thrown' = Append(thrown, running[w]) /\ doneq' = doneq
    BY <1>5 DEF WorkerPush, WorkerThrow, mailbox
  <2>3. Count(doneq', S) + Count(thrown', S) = Count(doneq, S) + Count(thrown, S) + one
    <3>1. CASE doneq' = Append(doneq, running[w]) /\ thrown' = thrown
      <4>1. Count(doneq', S) = Count(doneq, S) + one
        BY <1>0, <2>1, <3>1, CountItems DEF Queues
      <4>2. one \in Nat
        OBVIOUS
      <4> HIDE DEF one
      <4> QED
        BY ONLY <1>1, <3>1, <4>1, <4>2
    <3>2. CASE thrown' = Append(thrown, running[w]) /\ doneq' = doneq
      <4>1. Count(thrown', S) = Count(thrown, S) + one
        BY <1>0, <2>1, <3>2, CountItems DEF Queues
      <4>2. one \in Nat
        OBVIOUS
      <4> HIDE DEF one
      <4> QED
        BY ONLY <1>1, <3>2, <4>1, <4>2
    <3> QED
      BY <2>2, <3>1, <3>2
  <2>4. Busy(S)' = Busy(S) \ {w}
    BY <1>2, <1>3, <1>5 DEF Busy, WorkerPush, WorkerThrow
  <2>5. w \in Busy(S) <=> running[w] \in S
    BY <2>1 DEF Busy
  <2>6. Cardinality(Busy(S)') = Cardinality(Busy(S)) - one
    <3>1. Cardinality(Busy(S) \ {w}) = IF w \in Busy(S) THEN Cardinality(Busy(S)) - 1
                                      ELSE Cardinality(Busy(S))
      BY <1>1, FS_RemoveElement, Zenon
    <3> QED
      BY ONLY <1>1, <2>4, <2>5, <3>1
  <2>7. one \in Nat /\ Count(doneq', S) \in Nat /\ Count(thrown', S) \in Nat
    <3>1. /\ doneq \in Seq(Items) /\ Append(doneq, running[w]) \in Seq(Items)
          /\ thrown \in Seq(Items) /\ Append(thrown, running[w]) \in Seq(Items)
      BY <1>0, <2>1, AppendProperties DEF Queues
    <3>2. doneq' \in Seq(Items) /\ thrown' \in Seq(Items)
      BY ONLY <2>2, <3>1
    <3> QED
      BY <3>2, CountItems
  <2> HIDE DEF one
  <2>8. Held(S)' = Count(tasks, S) + Count(doneq', S) + Count(hand, S) + Count(thrown', S)
                       + Cardinality(Busy(S)')
    BY <1>0, <2>1 DEF Held
  <2> QED
    BY ONLY <1>1, <2>3, <2>6, <2>7, <2>8 DEF Held
<1>6. CASE WorkerRing(w)
  <2>1. Busy(S)' = Busy(S) /\ UNCHANGED <<tasks, doneq, thrown>>
    BY <1>2, <1>3, <1>6 DEF Busy, WorkerRing
  <2> QED
    BY <1>0, <2>1 DEF Held
<1> QED
  BY <1>4, <1>5, <1>6 DEF WorkerStep

\* A step that leaves the pool and the two queues alone.
LEMMA HeldUnchanged ==
  ASSUME UNCHANGED <<tasks, doneq, hand, running, ringing, thrown>>, NEW S
  PROVE  Held(S)' = Held(S)
BY DEF Held, Busy

\* A turn of ondone's loop takes one item.
LEMMA HeldTaken ==
  ASSUME Inv, OndoneItem, NEW S
  PROVE  /\ Held(S) = Held(S)' + (IF Head(hand) \in S THEN 1 ELSE 0)
         /\ Held(S)' \in Nat
<1> DEFINE one == IF Head(hand) \in S THEN 1 ELSE 0
<1>1. UNCHANGED <<tasks, doneq, running, ringing, thrown>> /\ hand' = Tail(hand)
  BY DEF OndoneItem, pool
<1>2. hand \in Seq(Items) /\ hand # <<>> /\ Queues
  BY DEF Inv, Queues, OndoneItem
<1>3. Count(hand, S) = Count(hand', S) + one
  BY <1>1, <1>2, CountItems
<1>4. Count(hand', S) \in Nat
  BY <1>1, <1>2, HeadTailProperties, CountItems
<1>5. Held(S)' = Count(tasks, S) + Count(doneq, S) + Count(hand', S) + Count(thrown, S)
                     + Cardinality(Busy(S))
  BY <1>1 DEF Held, Busy
<1>6. /\ Count(tasks, S) \in Nat /\ Count(doneq, S) \in Nat /\ Count(hand, S) \in Nat
      /\ Count(thrown, S) \in Nat /\ Cardinality(Busy(S)) \in Nat
  BY <1>2, HeldNat
<1>7. one \in Nat
  OBVIOUS
<1> HIDE DEF one
<1>8. Held(S) = Held(S)' + one /\ Held(S)' \in Nat
  BY ONLY <1>3, <1>4, <1>5, <1>6, <1>7 DEF Held
<1> QED
  BY <1>8 DEF one

\* handreadable's submissions.
LEMMA HeldSubmitted ==
  ASSUME Queues, NEW p \in Seq(Items), tasks' = tasks \o p,
         UNCHANGED <<doneq, hand, running, ringing, thrown>>, NEW S
  PROVE  Held(S)' = Held(S) + Count(p, S)
<1>1. Count(tasks', S) = Count(tasks, S) + Count(p, S)
  BY CountItems DEF Queues
<1>2. Held(S)' = Count(tasks', S) + Count(doneq, S) + Count(hand, S) + Count(thrown, S)
                     + Cardinality(Busy(S))
  BY DEF Held, Busy
<1>3. /\ Count(tasks, S) \in Nat /\ Count(doneq, S) \in Nat /\ Count(hand, S) \in Nat
      /\ Count(thrown, S) \in Nat /\ Cardinality(Busy(S)) \in Nat
  BY HeldNat
<1>4. Count(p, S) \in Nat
  BY CountItems
<1> QED
  BY ONLY <1>1, <1>2, <1>3, <1>4 DEF Held

\* drain moves the done queue's items to ondone.
LEMMA HeldDrained ==
  ASSUME Queues, OndoneDrain, NEW S
  PROVE  Held(S)' = Held(S)
<1>1. /\ UNCHANGED <<tasks, running, ringing, thrown>>
      /\ hand = <<>> /\ hand' = doneq /\ doneq' = <<>>
  BY DEF Queues, OndoneDrain, pool
<1>2. Count(hand', S) = Count(doneq, S) /\ Count(doneq', S) = 0 /\ Count(hand, S) = 0
  BY <1>1, CountOne
<1>3. Held(S)' = Count(tasks, S) + Count(doneq', S) + Count(hand', S) + Count(thrown, S)
                     + Cardinality(Busy(S))
  BY <1>1 DEF Held, Busy
<1>4. /\ Count(tasks, S) \in Nat /\ Count(doneq, S) \in Nat
      /\ Count(thrown, S) \in Nat /\ Cardinality(Busy(S)) \in Nat
  BY HeldNat
<1> QED
  BY ONLY <1>2, <1>3, <1>4 DEF Held

-----------------------------------------------------------------------------
(* What is put on a stream, and how it is accounted for.                   *)

\* The books of a connection in the table, of whose requests h are not answered.
Bookkept(k, s, h) ==
    /\ k.inflight = h
    /\ s.peer # "reset" =>
          k.inflight + (Len(s.wire) + Len(k.out)) \div 2 = s.sent - Len(s.rcvq)
    /\ (Len(s.wire) + Len(k.out)) % 2 = 0
    /\ k.peerClose => s.rcvq = <<>> /\ (k.inflight > 0 \/ k.out # <<>>)

\* A handler of connection c adds the cells a to its stream; if it closes it, some
\* of the stream's end may be lost.
Sends(c, a) ==
    /\ \A d \in Conns \ {c} : conn'[d] = conn[d] /\ sock'[d] = sock[d]
    /\ sock'[c].sent = sock[c].sent
    /\ \E rest \in Seq(Cells) :
          (sock[c].wire \o conn[c].out) \o a = (sock'[c].wire \o conn'[c].out) \o rest

\* A handler leaves the books of c right with h requests under way, or closes it, and
\* then a peer that has half-closed has got everything.
Accounted(c, h) ==
    \/ c \in Live' /\ Bookkept(conn'[c], sock'[c], h)
    \/ /\ c \notin Live'
       /\ \/ sock[c].peer # "fin" \/ HasBad(c) \/ Stale(c)
          \/ Len(sock'[c].wire) = 2 * sock[c].sent

\* Sequences of cells put together.
LEMMA Glue ==
  ASSUME NEW x \in Seq(Cells), NEW y \in Seq(Cells)
  PROVE  /\ x \o y \in Seq(Cells)
         /\ Len(x \o y) = Len(x) + Len(y)
         /\ Len(x) \in Nat /\ Len(y) \in Nat
         /\ x \o <<>> = x /\ <<>> \o x = x
         /\ \A z \in Seq(Cells) : (x \o y) \o z = x \o (y \o z)
         /\ <<>> \in Seq(Cells) /\ Len(<<>>) = 0
<1>1. x \o y \in Seq(Cells) /\ Len(x \o y) = Len(x) + Len(y)
  BY ConcatProperties
<1>2. x \o <<>> = x /\ <<>> \o x = x
  BY ConcatEmptySeq
<1>3. \A z \in Seq(Cells) : (x \o y) \o z = x \o (y \o z)
  BY ConcatAssociative
<1>4. Len(x) \in Nat /\ Len(y) \in Nat
  BY LenProperties
<1>5. <<>> \in Seq(Cells) /\ Len(<<>>) = 0
  BY EmptySeq
<1> QED
  BY ONLY <1>1, <1>2, <1>3, <1>4, <1>5, Zenon

\* They can be regrouped.
LEMMA Regroup ==
  ASSUME NEW x \in Seq(Cells), NEW y \in Seq(Cells), NEW z \in Seq(Cells)
  PROVE  /\ (x \o y) \o z = x \o (y \o z)
         /\ Len(x \o y) + Len(z) = Len(x) + Len(y \o z)
<1>1. /\ Len(x \o y) = Len(x) + Len(y) /\ Len(y \o z) = Len(y) + Len(z)
      /\ Len(x) \in Nat /\ Len(y) \in Nat /\ Len(z) \in Nat
  BY Glue
<1>2. (x \o y) \o z = x \o (y \o z)
  BY Glue, SMTT(30)
<1> QED
  BY ONLY <1>1, <1>2

\* What was sent and what was not are the data.
LEMMA SentThenUnsent ==
  ASSUME Connections, NEW c \in Conns, sock[c].peer # "over", NEW data \in Seq(Cells)
  PROVE  Sent(c, data) \o Unsent(c, data) = data
<1> DEFINE r == Room(c)
           x == SubSeq(data, 1, r)
           y == SubSeq(data, r + 1, Len(data))
<1>1. r \in Nat /\ Len(data) \in Nat /\ \A i \in 1..Len(data) : data[i] \in Cells
  BY RoomBounds, LenProperties, ElementOfSeq
<1>2. CASE Len(data) <= r
  BY <1>2, ConcatEmptySeq DEF Sent, Unsent
<1>3. CASE ~(Len(data) <= r)
  <2> HIDE DEF r
  <2>1. /\ x \in Seq(Cells) /\ Len(x) = r
        /\ \A i \in 1..r : x[i] = data[i]
    BY <1>1, <1>3, SubSeqProperties
  <2>2. /\ y \in Seq(Cells) /\ Len(y) = Len(data) - r
        /\ \A i \in 1..(Len(data) - r) : y[i] = data[r + i]
    <3>1. \A i \in (r + 1)..Len(data) : data[i] \in Cells
      BY <1>1
    <3>2. /\ y \in Seq(Cells)
          /\ Len(y) = IF r + 1 <= Len(data) THEN Len(data) - (r + 1) + 1 ELSE 0
          /\ \A i \in 1..(Len(data) - (r + 1) + 1) : y[i] = data[(r + 1) + i - 1]
      BY <1>1, <3>1, SubSeqProperties
    <3> HIDE DEF y
    <3>3. /\ Len(data) - (r + 1) + 1 = Len(data) - r
          /\ \A i \in 1..(Len(data) - r) : (r + 1) + i - 1 = r + i
      BY <1>1
    <3>4. Len(y) = Len(data) - r
      BY ONLY <1>1, <1>3, <3>2
    <3>5. \A i \in 1..(Len(data) - r) : y[i] = data[r + i]
      BY ONLY <3>2, <3>3, Zenon
    <3> QED
      BY <3>2, <3>4, <3>5
  <2> HIDE DEF x, y
  <2>3. /\ x \o y \in Seq(Cells) /\ Len(x \o y) = Len(x) + Len(y)
        /\ \A i \in 1..(Len(x) + Len(y)) :
              (x \o y)[i] = IF i <= Len(x) THEN x[i] ELSE y[i - Len(x)]
    BY <2>1, <2>2, ConcatProperties
  <2>4. Len(x \o y) = Len(data)
    BY ONLY <1>1, <1>3, <2>1, <2>2, <2>3
  <2>5. ASSUME NEW i \in 1..Len(data) PROVE (x \o y)[i] = data[i]
    <3>1. CASE i <= r
      BY <1>1, <1>3, <2>1, <2>2, <2>3, <3>1
    <3>2. CASE ~(i <= r)
      <4>1. i - r \in 1..(Len(data) - r) /\ r + (i - r) = i
        BY ONLY <1>1, <3>2, i \in 1..Len(data)
      <4>2. y[i - r] = data[i]
        BY <2>2, <4>1
      <4>3. (x \o y)[i] = y[i - r]
        BY ONLY <1>1, <1>3, <2>1, <2>2, <2>3, <3>2, i \in 1..Len(data)
      <4> QED
        BY <4>2, <4>3
    <3> QED
      BY <3>1, <3>2
  <2>6. x \o y = data
    <3> DEFINE z == x \o y
    <3>1. z \in Seq(Cells) /\ Len(z) = Len(data) /\ \A i \in 1..Len(z) : z[i] = data[i]
      BY <2>3, <2>4, <2>5
    <3> HIDE DEF z
    <3>2. z = data
      BY ONLY <3>1, data \in Seq(Cells), SeqEqual
    <3> QED
      BY <3>2 DEF z
  <2> QED
    BY <1>3, <2>6 DEF Sent, Unsent, r, x, y
<1> QED
  BY <1>2, <1>3

\* What Keep and Onclose leave of a connection.
LEMMA KeepEffect ==
  ASSUME Connections, NEW c \in Conns, NEW k \in ConnState,
         NEW q \in Seq(Requests \cup {Bad}), NEW w \in Seq(Cells), Keep(c, k, q, w)
  PROVE  /\ conn'[c] = k
         /\ sock'[c].wire = w /\ sock'[c].rcvq = q
         /\ sock'[c].sent = sock[c].sent /\ sock'[c].peer = sock[c].peer
         /\ \A d \in Conns \ {c} : conn'[d] = conn[d] /\ sock'[d] = sock[d]
         /\ status' = status
<1>1. sock \in [Conns -> SockState] /\ conn \in [Conns -> ConnState]
  BY DEF Connections
<1>2. /\ sock' = [sock EXCEPT ![c].rcvq = q, ![c].wire = w]
      /\ conn' = [conn EXCEPT ![c] = k] /\ status' = status
  BY DEF Keep
<1> QED
  BY ONLY <1>1, <1>2, c \in Conns DEF SockState

\* Of a connection that is closed, the account ends with what was written by then.
LEMMA CloseEffect ==
  ASSUME Connections, NEW fd \in Fds, NEW c \in Conns, status[fd] = c,
         NEW w \in Seq(Cells), Onclose(fd, w)
  PROVE  /\ conn'[c] = Fresh
         /\ sock'[c].wire = w /\ sock'[c].sent = sock[c].sent
         /\ sock'[c].rcvq = <<>>
         /\ \A d \in Conns \ {c} : conn'[d] = conn[d] /\ sock'[d] = sock[d]
<1>1. sock \in [Conns -> SockState] /\ conn \in [Conns -> ConnState]
  BY DEF Connections
<1>2. /\ sock' = [sock EXCEPT ![c].peer = "over", ![c].rcvq = <<>>,
                              ![c].wire = w, ![c].read = 0]
      /\ conn' = [conn EXCEPT ![c] = Fresh]
  BY DEF Onclose
<1> QED
  BY ONLY <1>1, <1>2, c \in Conns DEF SockState

\* A handler of c has computed the connection k, the unread frames q and the wire w,
\* having added the cells a to the stream; h requests will be under way.
Computed(c, k, q, w, a, h) ==
    /\ k \in ConnState /\ q \in Seq(Requests \cup {Bad}) /\ w \in Seq(Cells)
    /\ a \in Seq(Cells) /\ h \in Nat
    /\ (sock[c].wire \o conn[c].out) \o a = w \o k.out
    /\ k.inflight = h
    /\ sock[c].peer # "reset" =>
          k.inflight + (Len(w) + Len(k.out)) \div 2 = sock[c].sent - Len(q)
    /\ (Len(w) + Len(k.out)) % 2 = 0
    /\ k.peerClose => q = <<>>

\* Its two endings.
Ends(fd, c, k, q, w) ==
    \/ Keep(c, k, q, w) /\ ~Finished(k)
    \/ Onclose(fd, w) /\ (Finished(k) \/ sock[c].peer # "fin" \/ HasBad(c) \/ Stale(c))

\* Either way the stream and the books are right.
LEMMA Ending ==
  ASSUME Table, Connections, NEW fd \in Fds, NEW c \in Conns, status[fd] = c,
         NEW k, NEW q, NEW w, NEW a, NEW h,
         Computed(c, k, q, w, a, h), Ends(fd, c, k, q, w)
  PROVE  Sends(c, a) /\ Accounted(c, h) /\ sock'[c].rcvq \in {q, <<>>}
<1>0. /\ k \in ConnState /\ q \in Seq(Requests \cup {Bad}) /\ w \in Seq(Cells)
      /\ a \in Seq(Cells) /\ h \in Nat
      /\ (sock[c].wire \o conn[c].out) \o a = w \o k.out
      /\ k.inflight = h
      /\ sock[c].peer # "reset" =>
             k.inflight + (Len(w) + Len(k.out)) \div 2 = sock[c].sent - Len(q)
      /\ (Len(w) + Len(k.out)) % 2 = 0
      /\ k.peerClose => q = <<>>
  BY DEF Computed
<1>1. /\ k.inflight \in Int /\ k.out \in Seq(Cells) /\ sock[c].sent \in Nat
      /\ Len(w) \in Nat /\ Len(k.out) \in Nat
  BY <1>0, LenProperties, BoundsAssumption DEF ConnState, Connections, SockState
<1>2. (w \o k.out) \o <<>> = w \o k.out /\ w \o <<>> = w /\ <<>> \in Seq(Cells)
  BY <1>0, <1>1, Glue
<1>3. CASE Keep(c, k, q, w) /\ ~Finished(k)
  <2>1. /\ conn'[c] = k
        /\ sock'[c].wire = w /\ sock'[c].rcvq = q
        /\ sock'[c].sent = sock[c].sent /\ sock'[c].peer = sock[c].peer
        /\ \A d \in Conns \ {c} : conn'[d] = conn[d] /\ sock'[d] = sock[d]
        /\ status' = status
    <3>1. Keep(c, k, q, w)
      BY <1>3
    <3>2. Connections /\ c \in Conns /\ k \in ConnState /\ w \in Seq(Cells)
          /\ q \in Seq(Requests \cup {Bad})
      BY <1>0
    <3>3. /\ conn'[c] = k
          /\ sock'[c].wire = w /\ sock'[c].rcvq = q
          /\ sock'[c].sent = sock[c].sent /\ sock'[c].peer = sock[c].peer
          /\ \A d \in Conns \ {c} : conn'[d] = conn[d] /\ sock'[d] = sock[d]
          /\ status' = status
      BY ONLY <3>1, <3>2, KeepEffect, Zenon
    <3> QED
      BY <3>3
  <2>2. Sends(c, a)
    BY <1>0, <1>2, <2>1 DEF Sends
  <2>3. Bookkept(conn'[c], sock'[c], h)
    <3>1. k.peerClose => k.inflight > 0 \/ k.out # <<>>
      BY <1>0, <1>1, <1>3 DEF Finished
    <3> QED
      BY <1>0, <2>1, <3>1 DEF Bookkept
  <2>4. c \in Live'
    BY <2>1 DEF Live
  <2> QED
    BY <2>1, <2>2, <2>3, <2>4 DEF Accounted
<1>4. CASE Onclose(fd, w) /\ (Finished(k) \/ sock[c].peer # "fin" \/ HasBad(c) \/ Stale(c))
  <2>1. /\ conn'[c] = Fresh
        /\ sock'[c].wire = w /\ sock'[c].sent = sock[c].sent /\ sock'[c].rcvq = <<>>
        /\ \A d \in Conns \ {c} : conn'[d] = conn[d] /\ sock'[d] = sock[d]
    BY <1>0, <1>4, CloseEffect
  <2>2. Sends(c, a)
    <3>1. conn'[c].out = <<>>
      BY <2>1 DEF Fresh
    <3>2. (sock[c].wire \o conn[c].out) \o a = (sock'[c].wire \o conn'[c].out) \o k.out
      BY <1>0, <1>2, <2>1, <3>1
    <3> QED
      BY <1>1, <2>1, <3>2 DEF Sends
  <2>3. c \notin Live'
    <3>1. status' = [status EXCEPT ![fd] = NoConn]
      BY <1>4 DEF Onclose
    <3> QED
      BY <3>1, BoundsAssumption DEF Live, Table, Conns, NoConn
  <2>4. CASE sock[c].peer # "fin" \/ HasBad(c) \/ Stale(c)
    BY <2>1, <2>2, <2>3, <2>4 DEF Accounted
  <2>5. CASE Finished(k) /\ sock[c].peer = "fin"
    <3>1. k.out = <<>> /\ k.inflight = 0 /\ q = <<>>
      BY <1>0, <2>5 DEF Finished
    <3>2. Len(k.out) = 0 /\ Len(q) = 0
      BY <3>1
    <3>3. 0 + (Len(w) + 0) \div 2 = sock[c].sent - 0 /\ (Len(w) + 0) % 2 = 0
      BY <1>0, <2>5, <3>1, <3>2
    <3>4. Len(w) = 2 * sock[c].sent
      BY ONLY <1>1, <3>3
    <3> QED
      BY <2>1, <2>2, <2>3, <3>4 DEF Accounted
  <2> QED
    BY <1>4, <2>4, <2>5
<1> QED
  BY <1>3, <1>4 DEF Ends

\* What is known of a connection in the table when its handler begins.
LEMMA LiveTyped ==
  ASSUME Connections, NEW fd \in Fds, NEW c \in Conns, status[fd] = c
  PROVE  /\ c \in Live
         /\ conn[c] \in ConnState
         /\ conn[c].inflight \in Int
         /\ conn[c].out \in Seq(Cells) /\ sock[c].wire \in Seq(Cells)
         /\ sock[c].rcvq \in Seq(Requests \cup {Bad})
         /\ Len(sock[c].rcvq) \in Nat
         /\ Len(conn[c].out) \in Nat /\ Len(sock[c].wire) \in Nat
         /\ sock[c].sent \in Nat
         /\ sock[c].peer # "over"
         /\ conn[c].peerClose => sock[c].peer \in {"fin", "reset"}
<1>1. c \in Live
  BY DEF Live
<1>2. /\ conn[c] \in ConnState /\ conn[c].inflight \in Int
      /\ conn[c].out \in Seq(Cells) /\ sock[c].wire \in Seq(Cells)
      /\ sock[c].rcvq \in Seq(Requests \cup {Bad})
      /\ sock[c].sent \in 0..MaxReq
  BY DEF Connections, ConnState, SockState
<1>3. sock[c].sent \in Nat
  BY <1>2, BoundsAssumption
<1>4. /\ sock[c].peer # "over"
      /\ conn[c].peerClose => sock[c].peer \in {"fin", "reset"}
  BY <1>1 DEF Connections, LiveWell
<1>5. Len(sock[c].rcvq) \in Nat /\ Len(conn[c].out) \in Nat /\ Len(sock[c].wire) \in Nat
  BY <1>2, LenProperties
<1> QED
  BY <1>1, <1>2, <1>3, <1>4, <1>5

\* handwrite moves cells from the Outbuffer to the wire.
LEMMA HandwriteBooks ==
  ASSUME Table, Connections, NEW fd \in Fds, NEW c \in Conns, status[fd] = c,
         Handwrite(fd), UNCHANGED <<connId, backlog>>,
         NEW h \in Nat, Bookkept(conn[c], sock[c], h)
  PROVE  /\ Sends(c, <<>>) /\ Accounted(c, h)
         /\ sock'[c].rcvq \in {sock[c].rcvq, <<>>}
<1> DEFINE q == sock[c].rcvq
           o == Unsent(c, conn[c].out)
           s == Sent(c, conn[c].out)
           w == sock[c].wire \o s
           k == [conn[c] EXCEPT !.out = o]
           f == [k EXCEPT !.interest = InterestAfterFlush(k)]
<1>1. /\ conn[c] \in ConnState
      /\ conn[c].inflight \in Int
      /\ conn[c].out \in Seq(Cells) /\ sock[c].wire \in Seq(Cells)
      /\ q \in Seq(Requests \cup {Bad})
      /\ Len(conn[c].out) \in Nat /\ Len(sock[c].wire) \in Nat
      /\ sock[c].peer # "over"
  BY LiveTyped
<1>2. s \in Seq(Cells) /\ o \in Seq(Cells) /\ s \o o = conn[c].out
  BY <1>1, SentAndUnsent, SentThenUnsent
<1>3. /\ k \in ConnState /\ k.out = o /\ k.inflight = conn[c].inflight
      /\ k.peerClose <=> conn[c].peerClose
  <2> HIDE DEF o
  <2> QED
    BY ONLY <1>1, <1>2 DEF ConnState
<1>4. /\ f \in ConnState /\ f.out = o /\ f.inflight = conn[c].inflight
      /\ f.peerClose <=> conn[c].peerClose
  <2>1. InterestAfterFlush(k) \in SUBSET {"IN", "OUT"}
    BY DEF InterestAfterFlush
  <2> HIDE DEF k
  <2> QED
    BY ONLY <1>3, <2>1 DEF ConnState
<1>5. \/ Onclose(fd, w) /\ (Finished(k) \/ sock[c].peer # "fin" \/ HasBad(c))
      \/ Keep(c, k, q, w) /\ ~Finished(k)
      \/ Keep(c, f, q, w) /\ ~Finished(f)
  <2>1. Finished(f) <=> Finished(k)
    <3> HIDE DEF k, f
    <3> QED
      BY <1>3, <1>4 DEF Finished
  <2> QED
    BY <2>1 DEF Handwrite
<1> HIDE DEF s, o, k, f
<1>6. w \in Seq(Cells)
  BY <1>1, <1>2, Glue
<1>7. /\ (sock[c].wire \o conn[c].out) \o <<>> = w \o o
      /\ Len(w) + Len(o) = Len(sock[c].wire) + Len(conn[c].out)
  <2>1. /\ (sock[c].wire \o s) \o o = sock[c].wire \o (s \o o)
        /\ Len(sock[c].wire \o s) + Len(o) = Len(sock[c].wire) + Len(s \o o)
    BY <1>1, <1>2, Regroup, Zenon
  <2>2. sock[c].wire \o conn[c].out \in Seq(Cells)
    BY <1>1, Glue
  <2>3. (sock[c].wire \o conn[c].out) \o <<>> = sock[c].wire \o conn[c].out
    BY <2>2, Glue
  <2> QED
    BY ONLY <1>2, <2>1, <2>3, Zenon
<1> HIDE DEF w
<1>8. /\ conn[c].inflight = h
      /\ sock[c].peer # "reset" =>
             conn[c].inflight + (Len(w) + Len(o)) \div 2 = sock[c].sent - Len(q)
      /\ (Len(w) + Len(o)) % 2 = 0
      /\ conn[c].peerClose => q = <<>>
  BY <1>7 DEF Bookkept
<1>9. <<>> \in Seq(Cells)
  BY EmptySeq
<1> HIDE DEF q
<1>10. Computed(c, k, q, w, <<>>, h) /\ Computed(c, f, q, w, <<>>, h)
  BY <1>1, <1>3, <1>4, <1>6, <1>7, <1>8, <1>9 DEF Computed
<1>11. Ends(fd, c, k, q, w) \/ Ends(fd, c, f, q, w)
  BY <1>5 DEF Ends
<1>12. Sends(c, <<>>) /\ Accounted(c, h) /\ sock'[c].rcvq \in {q, <<>>}
  BY ONLY <1>10, <1>11, Ending, Table, Connections, fd \in Fds, c \in Conns, status[fd] = c,
          Zenon
<1> QED
  BY <1>12 DEF q

\* A hang-up closes the connection as it is.
LEMMA HangupBooks ==
  ASSUME Table, Connections, NEW fd \in Fds, NEW c \in Conns, status[fd] = c,
         Onclose(fd, sock[c].wire), sock[c].peer # "fin" \/ Stale(c),
         NEW h \in Nat, Bookkept(conn[c], sock[c], h)
  PROVE  /\ Sends(c, <<>>) /\ Accounted(c, h)
         /\ sock'[c].rcvq \in {sock[c].rcvq, <<>>}
<1> DEFINE k == conn[c]
           q == sock[c].rcvq
           w == sock[c].wire
<1>1. /\ k \in ConnState /\ k.out \in Seq(Cells) /\ w \in Seq(Cells)
      /\ q \in Seq(Requests \cup {Bad})
  BY LiveTyped
<1>2. (w \o k.out) \o <<>> = w \o k.out /\ <<>> \in Seq(Cells)
  <2>1. w \o k.out \in Seq(Cells)
    BY <1>1, Glue
  <2> QED
    BY <2>1, Glue
<1>3. Computed(c, k, q, w, <<>>, h)
  BY <1>1, <1>2 DEF Computed, Bookkept
<1>4. Ends(fd, c, k, q, w)
  BY DEF Ends
<1> HIDE DEF k, q, w
<1>5. Sends(c, <<>>) /\ Accounted(c, h) /\ sock'[c].rcvq \in {q, <<>>}
  BY ONLY <1>3, <1>4, Ending, Table, Connections, fd \in Fds, c \in Conns, status[fd] = c,
          Zenon
<1> QED
  BY <1>5 DEF q

\* ondone's answer puts a whole response behind what the stream already has.
LEMMA AnswerBooks ==
  ASSUME Table, Connections, NEW item \in Items, NEW c \in Conns,
         status[item.fd] = c, item.id = c,
         LET s == Senddata(c, Answered(conn[c]), item)
         IN  IF ~s.ok \/ Finished(s.k)
             THEN Onclose(item.fd, s.wire)
             ELSE Keep(c, s.k, sock[c].rcvq, s.wire),
         NEW h \in Nat, Bookkept(conn[c], sock[c], h + 1)
  PROVE  /\ Sends(c, Encode(item)) /\ Accounted(c, h)
         /\ sock'[c].rcvq \in {sock[c].rcvq, <<>>}
<1> DEFINE x    == sock[c].wire
           y    == conn[c].out
           a    == Answered(conn[c])
           data == Encode(item)
           now  == IF a.out = <<>> THEN Sent(c, data) ELSE <<>>
           rest == IF a.out = <<>> THEN Unsent(c, data) ELSE data
           ok   == a.out # <<>> \/ sock[c].peer # "reset"
           o    == a.out \o rest
           i    == IF rest = <<>> THEN a.interest ELSE {"IN", "OUT"}
           w    == x \o now
           q    == sock[c].rcvq
           k    == [a EXCEPT !.out = o, !.interest = i]
<1>1. IF ~ok \/ Finished(k) THEN Onclose(item.fd, w) ELSE Keep(c, k, q, w)
  BY DEF Senddata
<1>2. item.fd \in Fds
  BY DEF Items
<1>3. /\ conn[c] \in ConnState
      /\ conn[c].inflight \in Int
      /\ y \in Seq(Cells) /\ x \in Seq(Cells)
      /\ q \in Seq(Requests \cup {Bad})
      /\ Len(y) \in Nat /\ Len(x) \in Nat /\ Len(q) \in Nat /\ sock[c].sent \in Nat
      /\ sock[c].peer # "over"
  BY <1>2, LiveTyped
<1>4. /\ a \in ConnState /\ a.out = y /\ a.interest = conn[c].interest
      /\ a.inflight = conn[c].inflight - 1
      /\ a.peerClose <=> conn[c].peerClose
  <2>1. a.inflight = conn[c].inflight - 1
    BY ONLY <1>3 DEF ConnState, Answered
  <2> QED
    BY <1>3, <2>1, ConnAnswered
<1>5. data \in Seq(Cells) /\ Len(data) = 2
  <2>1. data \in Seq(Own(c))
    BY EncodeOwn
  <2>2. Len(data) = 2
    BY DEF Encode
  <2> QED
    BY <2>1, <2>2, OwnCells
<1>6. /\ Sent(c, data) \in Seq(Cells) /\ Unsent(c, data) \in Seq(Cells)
      /\ Sent(c, data) \o Unsent(c, data) = data
  BY <1>3, <1>5, SentAndUnsent, SentThenUnsent
<1> HIDE DEF a, data, x, y, q, k
<1>7. now \in Seq(Cells) /\ rest \in Seq(Cells)
  BY <1>5, <1>6, EmptySeq
<1>8. o \in Seq(Cells) /\ w \in Seq(Cells)
  BY <1>3, <1>4, <1>7, Glue
<1>9. (x \o y) \o data = w \o o
  <2>1. CASE y = <<>>
    <3>1. now = Sent(c, data) /\ rest = Unsent(c, data)
      BY <1>4, <2>1
    <3>2. now \o rest = data
      BY <1>6, <3>1, Zenon
    <3> HIDE DEF now, rest
    <3>3. o = rest
      BY <1>4, <1>7, <2>1, Glue
    <3>4. x \o y = x
      BY <1>3, <2>1, Glue
    <3>5. (x \o now) \o rest = x \o (now \o rest)
      BY <1>3, <1>7, Regroup, Zenon
    <3> QED
      BY ONLY <3>2, <3>3, <3>4, <3>5, Zenon
  <2>2. CASE y # <<>>
    <3>1. now = <<>> /\ rest = data
      BY <1>4, <2>2
    <3> HIDE DEF now, rest
    <3>2. w = x
      BY <1>3, <3>1, Glue
    <3>3. (x \o y) \o data = x \o (y \o data)
      BY <1>3, <1>5, Regroup, Zenon
    <3> QED
      BY ONLY <1>4, <3>1, <3>2, <3>3, Zenon
  <2> QED
    BY <2>1, <2>2
<1>10. i \in SUBSET {"IN", "OUT"}
  BY <1>4 DEF ConnState
<1> HIDE DEF now, rest, o, w, i
<1>11. /\ k \in ConnState /\ k.out = o /\ k.inflight = conn[c].inflight - 1
       /\ k.peerClose <=> conn[c].peerClose
  BY ONLY <1>4, <1>8, <1>10 DEF ConnState, k
<1>12. Len(w) + Len(o) = Len(x) + Len(y) + 2
  <2>1. Len(x \o y) = Len(x) + Len(y) /\ x \o y \in Seq(Cells)
    BY <1>3, Glue
  <2> DEFINE z == x \o y
  <2>2. z \in Seq(Cells)
    BY <2>1
  <2> HIDE DEF z
  <2>3. Len(z \o data) = Len(z) + Len(data)
    BY <1>5, <2>2, Glue
  <2>4. Len(w \o o) = Len(w) + Len(o)
    BY <1>8, Glue
  <2>5. z \o data = w \o o
    BY <1>9 DEF z
  <2>6. Len(w) + Len(o) = Len(z) + Len(data)
    BY <2>3, <2>4, <2>5, Zenon
  <2> QED
    BY <1>5, <2>1, <2>6 DEF z
<1>13. /\ k.inflight = h
       /\ sock[c].peer # "reset" =>
             k.inflight + (Len(w) + Len(o)) \div 2 = sock[c].sent - Len(q)
       /\ (Len(w) + Len(o)) % 2 = 0
       /\ k.peerClose => q = <<>>
  <2>1. /\ conn[c].inflight = h + 1
        /\ sock[c].peer # "reset" =>
              conn[c].inflight + (Len(x) + Len(y)) \div 2 = sock[c].sent - Len(q)
        /\ (Len(x) + Len(y)) % 2 = 0
        /\ conn[c].peerClose => q = <<>>
    BY DEF Bookkept, x, y, q
  <2> DEFINE l == Len(x) + Len(y)
  <2>2. l \in Nat /\ Len(w) + Len(o) = l + 2
    BY <1>3, <1>12
  <2>3. (l + 2) \div 2 = l \div 2 + 1 /\ (l % 2 = 0 => (l + 2) % 2 = 0) /\ l \div 2 \in Nat
    BY ONLY <2>2
  <2> DEFINE m == l \div 2
  <2>4. /\ sock[c].peer # "reset" => conn[c].inflight + m = sock[c].sent - Len(q)
        /\ (Len(w) + Len(o)) \div 2 = m + 1 /\ (Len(w) + Len(o)) % 2 = 0 /\ m \in Nat
    BY <2>1, <2>2, <2>3
  <2>5. k.inflight = h
    BY ONLY <1>3, <1>11, <2>1, h \in Nat
  <2>6. ASSUME sock[c].peer # "reset"
        PROVE  k.inflight + (Len(w) + Len(o)) \div 2 = sock[c].sent - Len(q)
    <3> DEFINE j == (Len(w) + Len(o)) \div 2
    <3>1. j = m + 1 /\ conn[c].inflight + m = sock[c].sent - Len(q) /\ m \in Nat
      BY <2>4, <2>6
    <3> HIDE DEF j, m
    <3>2. k.inflight + j = sock[c].sent - Len(q)
      <4>1. /\ conn[c].inflight \in Int /\ sock[c].sent \in Nat /\ Len(q) \in Nat
            /\ k.inflight = conn[c].inflight - 1
        BY <1>3, <1>11
      <4> QED
        BY ONLY <3>1, <4>1, SMTT(30)
    <3> QED
      BY <3>2 DEF j
  <2> QED
    BY <1>11, <2>1, <2>4, <2>5, <2>6
<1>14. Computed(c, k, q, w, data, h)
  BY <1>3, <1>5, <1>8, <1>9, <1>11, <1>13 DEF Computed, x, y
<1>15. Ends(item.fd, c, k, q, w)
  BY <1>1 DEF Ends
<1>16. Sends(c, data) /\ Accounted(c, h) /\ sock'[c].rcvq \in {q, <<>>}
  BY ONLY <1>2, <1>14, <1>15, Ending, Table, Connections, c \in Conns, status[item.fd] = c,
          Zenon
<1> QED
  BY <1>16 DEF data, q

\* handreadable submits some of the frames it has read, all of them unless it
\* closes the connection, and adds nothing to the stream.
LEMMA HandreadableBooks ==
  ASSUME Table, Connections, tasks \in Seq(Items),
         NEW fd \in Fds, NEW c \in Conns, status[fd] = c, Handreadable(fd),
         NEW h \in Nat, Bookkept(conn[c], sock[c], h)
  PROVE  /\ Sends(c, <<>>)
         /\ sock'[c].rcvq = <<>>
         /\ \E n \in GoodFrames(sock[c].rcvq) :
               tasks' = tasks \o NewTasks(fd, c, n) /\ Accounted(c, h + n)
<1> DEFINE q == sock[c].rcvq
           w == sock[c].wire
           k == [conn[c] EXCEPT !.inflight = @ + Len(q),
                                !.peerClose = @ \/ sock[c].peer = "fin"]
           e == [k EXCEPT !.interest = InterestAtEof(k)]
<1>1. /\ conn[c] \in ConnState
      /\ conn[c].inflight \in Int
      /\ conn[c].out \in Seq(Cells) /\ w \in Seq(Cells)
      /\ q \in Seq(Requests \cup {Bad})
      /\ Len(conn[c].out) \in Nat /\ Len(w) \in Nat /\ Len(q) \in Nat
      /\ sock[c].sent \in Nat
  BY LiveTyped
<1>2. /\ k \in ConnState /\ k.out = conn[c].out /\ k.inflight = conn[c].inflight + Len(q)
  <2>1. k.out = conn[c].out /\ k.inflight = conn[c].inflight + Len(q)
    BY ONLY <1>1 DEF ConnState
  <2> DEFINE n == conn[c].inflight + Len(q)
             b == conn[c].peerClose \/ sock[c].peer = "fin"
  <2>2. conn[c] \in ConnState /\ n \in Int /\ b \in BOOLEAN
    BY ONLY <1>1 DEF ConnState
  <2>3. k = [conn[c] EXCEPT !.inflight = n, !.peerClose = b]
    OBVIOUS
  <2> HIDE DEF k, n, b
  <2>4. k \in ConnState
    BY ONLY <2>2, <2>3, ConnTyped, Zenon
  <2> QED
    BY <2>1, <2>4
<1>3. /\ e \in ConnState /\ e.out = k.out /\ e.inflight = k.inflight
      /\ e.peerClose <=> k.peerClose
  <2>1. InterestAtEof(k) \in SUBSET {"IN", "OUT"}
    BY DEF InterestAtEof
  <2> HIDE DEF k
  <2> QED
    BY ONLY <1>2, <2>1 DEF ConnState
<1>4. Finished(e) <=> Finished(k)
  <2> HIDE DEF k, e
  <2> QED
    BY <1>3 DEF Finished
<1>5. PICK n \in GoodFrames(q) :
         /\ tasks' = tasks \o NewTasks(fd, c, n)
         /\ n = Len(q) \/ Onclose(fd, w)
         /\ \/ Onclose(fd, w) /\ (Finished(k) \/ sock[c].peer # "fin" \/ HasBad(c))
            \/ Keep(c, k, <<>>, w) /\ ~Finished(k)
            \/ Keep(c, e, <<>>, w) /\ ~Finished(e)
  <2> HIDE DEF k, e
  <2>1. CASE sock[c].peer = "reset" /\ Onclose(fd, w) /\ UNCHANGED tasks
    <3>1. 0 \in GoodFrames(q)
      BY <1>1 DEF GoodFrames
    <3>2. tasks \o NewTasks(fd, c, 0) = tasks
      <4>1. NewTasks(fd, c, 0) = <<>>
        BY DEF NewTasks
      <4> QED
        BY <4>1, ConcatEmptySeq
    <3> QED
      BY <2>1, <3>1, <3>2
  <2>2. CASE /\ Len(q) \notin GoodFrames(q)
             /\ \E n \in GoodFrames(q) : tasks' = tasks \o NewTasks(fd, c, n)
             /\ Onclose(fd, w)
    <3>1. HasBad(c)
      BY <1>1, <2>2 DEF GoodFrames, HasBad
    <3> QED
      BY <2>2, <3>1
  <2>3. CASE /\ Len(q) \in GoodFrames(q)
             /\ tasks' = tasks \o NewTasks(fd, c, Len(q))
             /\ IF Finished(k) THEN Onclose(fd, w)
                ELSE IF sock[c].peer # "fin" THEN Keep(c, k, <<>>, w)
                ELSE Keep(c, e, <<>>, w)
    BY <1>4, <2>3
  <2> QED
    BY <2>1, <2>2, <2>3 DEF Handreadable, k, e
<1>6. n \in Nat /\ n <= Len(q)
  BY <1>1 DEF GoodFrames
<1>7. w \o conn[c].out \in Seq(Cells) /\ (w \o conn[c].out) \o <<>> = w \o conn[c].out
  <2>1. w \o conn[c].out \in Seq(Cells)
    BY <1>1, Glue
  <2> QED
    BY <2>1, Glue
<1> HIDE DEF k, e
<1>8. /\ k.inflight = h + Len(q)
      /\ sock[c].peer # "reset" =>
             k.inflight + (Len(w) + Len(k.out)) \div 2 = sock[c].sent - 0
      /\ (Len(w) + Len(k.out)) % 2 = 0
  <2>1. /\ conn[c].inflight = h
        /\ sock[c].peer # "reset" =>
              conn[c].inflight + (Len(w) + Len(conn[c].out)) \div 2 = sock[c].sent - Len(q)
        /\ (Len(w) + Len(conn[c].out)) % 2 = 0
    BY DEF Bookkept
  <2> DEFINE m == (Len(w) + Len(conn[c].out)) \div 2
  <2>2. m \in Int
    BY <1>1
  <2>3. /\ conn[c].inflight = h
        /\ sock[c].peer # "reset" => conn[c].inflight + m = sock[c].sent - Len(q)
        /\ (Len(w) + Len(k.out)) % 2 = 0
        /\ (Len(w) + Len(k.out)) \div 2 = m
    BY <1>2, <2>1
  <2>4. k.inflight = h + Len(q)
    BY <1>2, <2>3
  <2>5. ASSUME sock[c].peer # "reset"
        PROVE  k.inflight + (Len(w) + Len(k.out)) \div 2 = sock[c].sent - 0
    <3>1. conn[c].inflight + m = sock[c].sent - Len(q)
      BY <2>3, <2>5
    <3>2. (Len(w) + Len(k.out)) \div 2 = m
      BY <2>3
    <3> HIDE DEF m
    <3>3. k.inflight + m = sock[c].sent - 0
      <4>1. /\ conn[c].inflight \in Int /\ sock[c].sent \in Nat /\ Len(q) \in Nat
            /\ k.inflight = conn[c].inflight + Len(q)
        BY <1>1, <1>2
      <4> DEFINE i == conn[c].inflight
                 t == sock[c].sent
                 g == Len(q)
                 j == k.inflight
      <4>2. i \in Int /\ t \in Nat /\ g \in Nat /\ j = i + g /\ i + m = t - g /\ m \in Int
        BY <2>2, <3>1, <4>1
      <4> HIDE DEF i, t, g, j
      <4>3. j + m = t - 0
        BY ONLY <4>2
      <4> QED
        BY <4>3 DEF j, t
    <3> QED
      BY ONLY <3>2, <3>3
  <2> QED
    BY <2>3, <2>4, <2>5
<1>9. <<>> \in Seq(Cells) /\ <<>> \in Seq(Requests \cup {Bad}) /\ Len(<<>>) = 0
  BY EmptySeq
<1>10. h + Len(q) \in Nat
  BY <1>1
<1>11. Computed(c, k, <<>>, w, <<>>, h + Len(q)) /\ Computed(c, e, <<>>, w, <<>>, h + Len(q))
  BY <1>1, <1>2, <1>3, <1>7, <1>8, <1>9, <1>10 DEF Computed
<1>12. Ends(fd, c, k, <<>>, w) \/ Ends(fd, c, e, <<>>, w)
  BY <1>5 DEF Ends
<1> DEFINE m == h + Len(q)
<1>13. Sends(c, <<>>) /\ Accounted(c, m) /\ sock'[c].rcvq \in {<<>>, <<>>}
  <2>1. Computed(c, k, <<>>, w, <<>>, m) /\ Computed(c, e, <<>>, w, <<>>, m)
    BY <1>11
  <2> HIDE DEF m, w
  <2> QED
    BY ONLY <1>12, <2>1, Ending, Table, Connections, fd \in Fds, c \in Conns,
            status[fd] = c, Zenon
<1>14. Accounted(c, h + n)
  <2>1. CASE n = Len(q)
    BY <1>13, <2>1
  <2>2. CASE Onclose(fd, w)
    <3>1. status' = [status EXCEPT ![fd] = NoConn]
      BY <2>2 DEF Onclose
    <3>2. c \notin Live'
      BY <3>1, BoundsAssumption DEF Live, Table, Conns, NoConn
    <3> HIDE DEF m
    <3> QED
      BY <1>13, <3>2 DEF Accounted
  <2> QED
    BY <1>5, <2>1, <2>2
<1> QED
  BY <1>5, <1>13, <1>14

\* The items of a connection that ondone will know for its own, by their descriptor.
Here(c) == {x \in ItemsOf(c) : status[x.fd] = c}

\* The books of every connection in the table are right, and none of its items has gone
\* astray; a connection that has not been accepted has no requests.
Booked == /\ \A c \in Conns : c > connId => Held(ItemsOf(c)) = 0
          /\ \A c \in Live : Bookkept(conn[c], sock[c], Held(ItemsOf(c)))
          /\ \A c \in Live : Held(ItemsOf(c) \ Here(c)) = 0

\* What HalfCloseServed says of one step.
Served ==
  \A c \in Conns :
     Closes(c) /\ sock[c].peer = "fin" /\ ~HasBad(c) /\ pc # "close" /\ ~Stale(c)
     => Len(sock'[c].wire) = 2 * sock[c].sent

\* The requests of one connection are a set of items.
LEMMA OfTyped ==
  ASSUME NEW c PROVE /\ ItemsOf(c) \in SUBSET Items
                     /\ \A r : ItemsFor(c, r) \in SUBSET Items
BY DEF ItemsOf, ItemsFor

\* While a connection is in the table and descriptors are only given back, its items
\* find it as before.
LEMMA HereKept ==
  ASSUME Inv, Inv', NEW c \in Live, c \in Live',
         \A fd \in Fds : status'[fd] \in {status[fd], NoConn}
  PROVE  Here(c)' = Here(c)
<1>1. PICK f \in Fds : status'[f] = c
  BY DEF Live
<1>2. c \in Conns /\ c # NoConn
  BY BoundsAssumption DEF Live, Conns, NoConn
<1>3. status[f] = c
  BY <1>1, <1>2
<1>4. \A g \in Fds : status[g] = c <=> g = f
  BY <1>2, <1>3 DEF Inv, Table
<1>5. \A g \in Fds : status'[g] = c <=> status[g] = c
  BY <1>1, <1>2, <1>4
<1>6. \A x \in ItemsOf(c) : x.fd \in Fds
  BY DEF ItemsOf, Items
<1>7. \A x \in ItemsOf(c) : status'[x.fd] = c <=> status[x.fd] = c
  BY <1>5, <1>6
<1>8. Here(c)' = {x \in ItemsOf(c) : status'[x.fd] = c}
  BY DEF Here, ItemsOf
<1> QED
  BY <1>7, <1>8 DEF Here

\* ... so that none goes astray if none is added.
LEMMA NoneAstray ==
  ASSUME Inv, Inv', NEW c \in Live, c \in Live', Here(c)' = Here(c),
         Held(ItemsOf(c) \ Here(c)) = 0,
         \A S \in SUBSET (ItemsOf(c) \ Here(c)) : Held(S)' <= Held(S)
  PROVE  (Held(ItemsOf(c) \ Here(c)) = 0)'
<1>1. PICK S : S = ItemsOf(c) \ Here(c)
  OBVIOUS
<1>2. (ItemsOf(c) \ Here(c))' = S
  BY <1>1 DEF ItemsOf
<1>3. Held(S)' <= 0
  <2>1. Held(S)' <= Held(S) /\ Held(S) = 0
    BY <1>1
  <2> QED
    BY <2>1
<1>4. Held(S)' \in Nat
  BY HeldNatNext DEF Inv
<1>5. Held(S)' = 0
  BY ONLY <1>3, <1>4
<1> QED
  BY ONLY <1>2, <1>5, Zenon

\* A step that leaves the connections alone and makes no request more.
Untouched == /\ UNCHANGED <<status, connId, conn, sock>>
             /\ \A S \in SUBSET Items : Held(S)' <= Held(S)
             /\ \A c \in Live : Held(ItemsOf(c))' = Held(ItemsOf(c))

\* One that makes none less either.
LEMMA AllHeld ==
  ASSUME Inv, UNCHANGED <<status, connId, conn, sock>>,
         \A S \in SUBSET Items : Held(S)' = Held(S)
  PROVE  Untouched
<1>1. \A S \in SUBSET Items : Held(S)' <= Held(S)
  BY HeldNat DEF Inv
<1>2. \A c : Held(ItemsOf(c))' = Held(ItemsOf(c))
  BY OfTyped
<1> QED
  BY <1>1, <1>2 DEF Untouched

\* The books after such a step.
LEMMA BookedIdle ==
  ASSUME Inv, Inv', Booked, Untouched
  PROVE  Booked'
<1>1. Live' = Live /\ Live \subseteq Conns /\ UNCHANGED <<status, connId, conn, sock>>
  BY DEF Untouched, Live
<1>2. ASSUME NEW c \in Conns, c > connId' PROVE Held(ItemsOf(c))' = 0
  <2>1. Held(ItemsOf(c)) = 0
    BY <1>1, <1>2 DEF Booked
  <2>2. Held(ItemsOf(c))' <= Held(ItemsOf(c))
    BY OfTyped DEF Untouched
  <2>3. Held(ItemsOf(c))' \in Nat
    BY HeldNatNext DEF Inv
  <2> QED
    BY ONLY <2>1, <2>2, <2>3
<1>3. ASSUME NEW c \in Live PROVE Bookkept(conn'[c], sock'[c], Held(ItemsOf(c))')
  BY <1>1 DEF Untouched, Booked
<1>4. ASSUME NEW c \in Live' PROVE (Held(ItemsOf(c) \ Here(c)) = 0)'
  <2>1. c \in Live /\ Held(ItemsOf(c) \ Here(c)) = 0
    BY <1>1 DEF Booked
  <2>2. Here(c)' = Here(c)
    BY <1>1 DEF Here, ItemsOf
  <2>3. \A S \in SUBSET (ItemsOf(c) \ Here(c)) : Held(S)' <= Held(S)
    BY OfTyped DEF Untouched
  <2> QED
    BY <2>1, <2>2, <2>3, NoneAstray
<1> QED
  BY <1>1, <1>2, <1>3, <1>4 DEF Booked, Bookkept

\* A handler of connection c.
LEMMA BookedHandler ==
  ASSUME Inv, Inv', Booked, NEW c \in Live, NEW a, connId' = connId,
         Live' \subseteq Live, \A fd \in Fds : status'[fd] \in {status[fd], NoConn},
         Live \ {c} \subseteq Live', Sends(c, a),
         NEW h, h = Held(ItemsOf(c))', Accounted(c, h),
         \A S \in SUBSET Items : S \cap Here(c) = {} => Held(S)' = Held(S)
  PROVE  Booked' /\ Served
<1>1. Live \subseteq Conns /\ c \in 1..connId
  BY BoundsAssumption DEF Live, Inv, Table, Conns
<1>2. ASSUME NEW d \in Conns \ {c} PROVE Held(ItemsOf(d))' = Held(ItemsOf(d))
  <2>1. ItemsOf(d) \in SUBSET Items /\ ItemsOf(d) \cap Here(c) = {}
    BY DEF ItemsOf, Here
  <2> QED
    BY <2>1
<1>3. ASSUME NEW d \in Conns, d > connId' PROVE Held(ItemsOf(d))' = 0
  <2>1. d # c
    BY <1>1, <1>3, BoundsAssumption DEF Inv, Table, Conns
  <2>2. Held(ItemsOf(d)) = 0
    BY <1>3 DEF Booked
  <2> QED
    BY <1>2, <2>1, <2>2
<1>4. ASSUME NEW d \in Live' PROVE Bookkept(conn'[d], sock'[d], Held(ItemsOf(d))')
  <2>1. CASE d = c
    BY <1>4, <2>1 DEF Accounted
  <2>2. CASE d # c
    <3>1. d \in Conns /\ d \in Live
      BY <1>1, <1>4
    <3>2. conn'[d] = conn[d] /\ sock'[d] = sock[d]
      BY <2>2, <3>1 DEF Sends
    <3>3. Bookkept(conn[d], sock[d], Held(ItemsOf(d)))
      BY <3>1 DEF Booked
    <3> QED
      BY <1>2, <2>2, <3>1, <3>2, <3>3
  <2> QED
    BY <2>1, <2>2
<1>5. ASSUME NEW d \in Live' PROVE (Held(ItemsOf(d) \ Here(d)) = 0)'
  <2>1. d \in Live /\ Held(ItemsOf(d) \ Here(d)) = 0
    BY DEF Booked
  <2>2. Here(d)' = Here(d)
    BY <2>1, HereKept
  <2>3. ASSUME NEW S \in SUBSET (ItemsOf(d) \ Here(d)) PROVE Held(S)' <= Held(S)
    <3>1. S \in SUBSET Items /\ S \cap Here(c) = {}
      BY DEF ItemsOf, Here
    <3> QED
      BY <3>1, HeldNat DEF Inv
  <2> QED
    BY <2>1, <2>2, <2>3, NoneAstray
<1>6. Booked'
  BY <1>3, <1>4, <1>5 DEF Booked, Bookkept
<1>7. Served
  BY DEF Served, Closes, Accounted
<1> QED
  BY <1>6, <1>7

\* The cell a response to request r of connection c begins with.
HeadOf(c, r) == [id |-> c, req |-> r, part |-> "head"]

\* What handreadable submits: each frame once, all for the connection it was read from,
\* by whose descriptor they go.
LEMMA NewTasksCounted ==
  ASSUME Connections, NEW fd \in Fds, NEW c \in Conns, NEW n \in GoodFrames(sock[c].rcvq),
         NEW p, p = NewTasks(fd, c, n), status[fd] = c
  PROVE  /\ p \in Seq(Items)
         /\ Count(p, ItemsOf(c)) = n
         /\ \A S : S \cap Here(c) = {} => Count(p, S) = 0
         /\ \A r \in Requests : Count(p, ItemsFor(c, r)) <= Count(sock[c].rcvq, {r})
<1> DEFINE q == sock[c].rcvq
<1>1. q \in Seq(Requests \cup {Bad})
  BY DEF Connections, SockState
<1>2. n \in Nat /\ n <= Len(q) /\ Len(q) \in Nat /\ \A i \in 1..n : q[i] \in Requests
  BY <1>1, LenProperties, ElementOfSeq DEF GoodFrames
<1>3. \A i \in 1..n : p[i] = [fd |-> fd, id |-> c, req |-> q[i]]
  BY DEF NewTasks
<1>4. p \in [1..n -> Items]
  BY <1>2 DEF NewTasks, Items
<1>5. p \in Seq(Items)
  BY <1>2, <1>4, SeqDef
<1>6. Len(p) = n
  BY <1>2, <1>4, <1>5, LenProperties
<1>7. \A i \in 1..n : p[i] \in ItemsOf(c) /\ p[i] \in Here(c)
  BY <1>3, <1>4 DEF ItemsOf, Here
<1>8. Count(p, ItemsOf(c)) = n
  <2>1. {i \in 1..Len(p) : p[i] \in ItemsOf(c)} = 1..n
    BY <1>6, <1>7
  <2>2. Cardinality(1..n) = n
    BY <1>2, FS_Interval
  <2> QED
    BY <2>1, <2>2 DEF Count
<1>9. ASSUME NEW S, S \cap Here(c) = {} PROVE Count(p, S) = 0
  <2>1. {i \in 1..Len(p) : p[i] \in S} = {}
    BY <1>6, <1>7, <1>9
  <2> QED
    BY <2>1, FS_EmptySet DEF Count
<1>10. ASSUME NEW r \in Requests PROVE Count(p, ItemsFor(c, r)) <= Count(q, {r})
  <2> DEFINE A == {i \in 1..Len(p) : p[i] \in ItemsFor(c, r)}
             B == {i \in 1..Len(q) : q[i] \in {r}}
  <2>1. A \subseteq B
    <3> SUFFICES ASSUME NEW i \in A PROVE i \in B
      OBVIOUS
    <3>1. i \in 1..n /\ p[i].req = r
      BY <1>6 DEF ItemsFor
    <3>2. q[i] = r
      <4>1. p[i] = [fd |-> fd, id |-> c, req |-> q[i]]
        BY <1>3, <3>1
      <4>2. [fd |-> fd, id |-> c, req |-> q[i]].req = q[i]
        OBVIOUS
      <4> QED
        BY ONLY <3>1, <4>1, <4>2, Zenon
    <3> QED
      BY <1>2, <3>1, <3>2
  <2>2. IsFiniteSet(B)
    BY <1>1, CountFinite
  <2> HIDE DEF A, B
  <2>3. Cardinality(A) <= Cardinality(B)
    BY <2>1, <2>2, FS_Subset
  <2> QED
    BY <2>3 DEF A, B, Count
<1> QED
  BY <1>5, <1>8, <1>9, <1>10

\* A response has one head.
LEMMA EncodeCounted ==
  ASSUME NEW item \in Items, NEW c \in Conns, NEW r \in Requests
  PROVE  Count(Encode(item), {HeadOf(c, r)}) = IF item \in ItemsFor(c, r) THEN 1 ELSE 0
<1> DEFINE h == [id |-> item.id, req |-> item.req, part |-> "head"]
           t == [id |-> item.id, req |-> item.req, part |-> "tail"]
           S == {HeadOf(c, r)}
<1>1. h \in Cells /\ t \in Cells
  BY DEF Items, Cells
<1>2. t \notin S
  BY DEF HeadOf
<1>3. h \in S <=> item \in ItemsFor(c, r)
  <2>1. h \in S <=> item.id = c /\ item.req = r
    BY DEF HeadOf
  <2> QED
    BY <2>1 DEF ItemsFor
<1>4. Encode(item) = <<h>> \o <<t>>
  BY DEF Encode
<1> HIDE DEF h, t, S
<1>5. <<h>> \in Seq(Cells) /\ <<t>> \in Seq(Cells)
  BY <1>1
<1>6. Count(<<h>> \o <<t>>, S) = Count(<<h>>, S) + Count(<<t>>, S)
  BY <1>5, CountConcat
<1>7. Count(<<h>>, S) = (IF h \in S THEN 1 ELSE 0) /\ Count(<<t>>, S) = 0
  BY <1>2, CountOne
<1>8. Count(Encode(item), S) = IF item \in ItemsFor(c, r) THEN 1 ELSE 0
  <2>1. Count(Encode(item), S) = Count(<<h>>, S) + Count(<<t>>, S)
    BY <1>4, <1>6, Zenon
  <2> QED
    BY ONLY <1>3, <1>7, <2>1
<1> QED
  BY <1>8 DEF S

\* Frames that are gone count less.
LEMMA RcvqCounted ==
  ASSUME Connections, NEW c \in Conns, NEW r, NEW q, q \in {sock[c].rcvq, <<>>}
  PROVE  /\ Count(q, {r}) \in Nat /\ Count(sock[c].rcvq, {r}) \in Nat
         /\ Count(q, {r}) <= Count(sock[c].rcvq, {r})
<1>1. sock[c].rcvq \in Seq(Requests \cup {Bad})
  BY DEF Connections, SockState
<1>2. Count(sock[c].rcvq, {r}) \in Nat
  BY <1>1, CountFinite
<1>3. Count(<<>>, {r}) = 0
  BY CountOne
<1> QED
  BY <1>2, <1>3

\* What a handler of connection c does to the requests under way and to its stream,
\* to which it adds a.
Effect(c, a) ==
    /\ Sends(c, a)
    /\ \A h : h = Held(ItemsOf(c))' => Accounted(c, h)
    /\ \A S \in SUBSET Items : S \cap Here(c) = {} => Held(S)' = Held(S)
    /\ \A r \in Requests :
          Held(ItemsFor(c, r))' + Count(sock'[c].rcvq, {r}) + Count(a, {HeadOf(c, r)})
             <= Held(ItemsFor(c, r)) + Count(sock[c].rcvq, {r})
    /\ a = <<>> \/ \E item \in ItemsOf(c) : a = Encode(item)

\* handwrite, and a hang-up.
LEMMA QuietEffect ==
  ASSUME Inv, Inv', NEW c \in Conns, Sends(c, <<>>), Accounted(c, Held(ItemsOf(c))),
         sock'[c].rcvq \in {sock[c].rcvq, <<>>},
         UNCHANGED <<tasks, doneq, hand, running, ringing, thrown>>
  PROVE  Effect(c, <<>>)
<1>1. \A S : Held(S)' = Held(S)
  BY HeldUnchanged
<1>2. \A S \in SUBSET Items : Held(S)' = Held(S)
  BY <1>1
<1>3. \A h : h = Held(ItemsOf(c))' => Accounted(c, h)
  BY <1>1
<1>4. ASSUME NEW r \in Requests
      PROVE  Held(ItemsFor(c, r))' + Count(sock'[c].rcvq, {r}) + Count(<<>>, {HeadOf(c, r)})
                <= Held(ItemsFor(c, r)) + Count(sock[c].rcvq, {r})
  <2>1. Count(<<>>, {HeadOf(c, r)}) = 0
    BY CountOne
  <2> DEFINE q == sock'[c].rcvq
  <2>2. q \in {sock[c].rcvq, <<>>}
    OBVIOUS
  <2> HIDE DEF q
  <2>3. /\ Count(q, {r}) \in Nat /\ Count(sock[c].rcvq, {r}) \in Nat
        /\ Count(q, {r}) <= Count(sock[c].rcvq, {r})
    BY <2>2, RcvqCounted DEF Inv
  <2>4. Held(ItemsFor(c, r)) \in Nat /\ Held(ItemsFor(c, r))' = Held(ItemsFor(c, r))
    BY <1>1, HeldNat DEF Inv
  <2>5. Held(ItemsFor(c, r))' + Count(q, {r}) + Count(<<>>, {HeadOf(c, r)})
           <= Held(ItemsFor(c, r)) + Count(sock[c].rcvq, {r})
    BY ONLY <2>1, <2>3, <2>4
  <2> QED
    BY <2>5 DEF q
<1> QED
  BY <1>2, <1>3, <1>4 DEF Effect

\* handreadable.
LEMMA ReadEffect ==
  ASSUME Inv, Inv', NEW fd \in Fds, NEW c \in Conns, status[fd] = c,
         Sends(c, <<>>), sock'[c].rcvq = <<>>,
         NEW n \in GoodFrames(sock[c].rcvq), tasks' = tasks \o NewTasks(fd, c, n),
         Accounted(c, Held(ItemsOf(c)) + n),
         UNCHANGED <<doneq, hand, running, ringing, thrown>>
  PROVE  Effect(c, <<>>)
<1>0. PICK p : p = NewTasks(fd, c, n)
  OBVIOUS
<1>1. /\ p \in Seq(Items)
      /\ Count(p, ItemsOf(c)) = n
      /\ \A S : S \cap Here(c) = {} => Count(p, S) = 0
      /\ \A r \in Requests : Count(p, ItemsFor(c, r)) <= Count(sock[c].rcvq, {r})
  <2>1. Connections
    BY DEF Inv
  <2>2. p \in Seq(Items)
    BY <1>0, <2>1, NewTasksCounted
  <2>3. Count(p, ItemsOf(c)) = n
    BY <1>0, <2>1, NewTasksCounted
  <2>4. ASSUME NEW S, S \cap Here(c) = {} PROVE Count(p, S) = 0
    BY <1>0, <2>1, <2>4, NewTasksCounted
  <2>5. ASSUME NEW r \in Requests PROVE Count(p, ItemsFor(c, r)) <= Count(sock[c].rcvq, {r})
    BY <1>0, <2>1, <2>5, NewTasksCounted
  <2> QED
    BY <2>2, <2>3, <2>4, <2>5
<1>2. tasks' = tasks \o p
  BY <1>0
<1>3. \A S : Held(S)' = Held(S) + Count(p, S) /\ Held(S) \in Nat
  BY <1>1, <1>2, HeldSubmitted, HeldNat DEF Inv
<1>4. \A S \in SUBSET Items : S \cap Here(c) = {} => Held(S)' = Held(S)
  BY <1>1, <1>3
<1>5. \A h : h = Held(ItemsOf(c))' => Accounted(c, h)
  <2>1. Held(ItemsOf(c))' = Held(ItemsOf(c)) + n
    BY <1>1, <1>3
  <2> QED
    BY <2>1
<1>6. ASSUME NEW r \in Requests
      PROVE  Held(ItemsFor(c, r))' + Count(sock'[c].rcvq, {r}) + Count(<<>>, {HeadOf(c, r)})
                <= Held(ItemsFor(c, r)) + Count(sock[c].rcvq, {r})
  <2>1. Count(<<>>, {HeadOf(c, r)}) = 0 /\ Count(<<>>, {r}) = 0
    BY CountOne
  <2>2. Count(sock'[c].rcvq, {r}) = 0
    BY <2>1
  <2>3. Count(sock[c].rcvq, {r}) \in Nat
    BY RcvqCounted DEF Inv
  <2>4. Count(p, ItemsFor(c, r)) \in Nat
    BY <1>1, CountItems
  <2>5. /\ Held(ItemsFor(c, r)) \in Nat
        /\ Held(ItemsFor(c, r))' = Held(ItemsFor(c, r)) + Count(p, ItemsFor(c, r))
        /\ Count(p, ItemsFor(c, r)) <= Count(sock[c].rcvq, {r})
    BY <1>1, <1>3
  <2> QED
    BY ONLY <2>1, <2>2, <2>3, <2>4, <2>5
<1> QED
  BY <1>4, <1>5, <1>6 DEF Effect

\* ondone's answer.
LEMMA AnswerEffect ==
  ASSUME Inv, Inv', OndoneItem, NEW c \in Conns, NEW item \in Items, item = Head(hand),
         item.id = c, status[item.fd] = c,
         Sends(c, Encode(item)), Accounted(c, Held(ItemsOf(c)) - 1),
         sock'[c].rcvq \in {sock[c].rcvq, <<>>}
  PROVE  Effect(c, Encode(item))
<1>1. ASSUME NEW S
      PROVE  Held(S) = Held(S)' + (IF item \in S THEN 1 ELSE 0) /\ Held(S)' \in Nat
  BY HeldTaken
<1>2. item \in ItemsOf(c) /\ item \in Here(c)
  BY DEF ItemsOf, Here
<1>3. ASSUME NEW S \in SUBSET Items, S \cap Here(c) = {} PROVE Held(S)' = Held(S)
  <2>1. item \notin S
    BY <1>2, <1>3
  <2>2. Held(S) = Held(S)' + 0 /\ Held(S)' \in Nat
    BY <1>1, <2>1
  <2> QED
    BY ONLY <2>2
<1>4. \A h : h = Held(ItemsOf(c))' => Accounted(c, h)
  <2>1. Held(ItemsOf(c))' = Held(ItemsOf(c)) - 1
    <3>1. Held(ItemsOf(c)) = Held(ItemsOf(c))' + 1 /\ Held(ItemsOf(c))' \in Nat
      BY <1>1, <1>2
    <3> QED
      BY ONLY <3>1
  <2> QED
    BY <2>1
<1>5. ASSUME NEW r \in Requests
      PROVE  Held(ItemsFor(c, r))' + Count(sock'[c].rcvq, {r})
                 + Count(Encode(item), {HeadOf(c, r)})
                <= Held(ItemsFor(c, r)) + Count(sock[c].rcvq, {r})
  <2> DEFINE one == IF item \in ItemsFor(c, r) THEN 1 ELSE 0
             q == sock'[c].rcvq
  <2>1. Count(Encode(item), {HeadOf(c, r)}) = one /\ one \in Nat
    BY EncodeCounted
  <2>2. q \in {sock[c].rcvq, <<>>}
    OBVIOUS
  <2>3. Held(ItemsFor(c, r)) = Held(ItemsFor(c, r))' + one /\ Held(ItemsFor(c, r))' \in Nat
    BY <1>1
  <2> HIDE DEF q, one
  <2>4. /\ Count(q, {r}) \in Nat /\ Count(sock[c].rcvq, {r}) \in Nat
        /\ Count(q, {r}) <= Count(sock[c].rcvq, {r})
    BY <2>2, RcvqCounted DEF Inv
  <2>5. Held(ItemsFor(c, r))' + Count(q, {r}) + Count(Encode(item), {HeadOf(c, r)})
           <= Held(ItemsFor(c, r)) + Count(sock[c].rcvq, {r})
    BY ONLY <2>1, <2>3, <2>4
  <2> QED
    BY <2>5 DEF q
<1> QED
  BY <1>2, <1>3, <1>4, <1>5 DEF Effect

\* A step that handles connection c.
Touched(c) == /\ connId' = connId
              /\ \A fd \in Fds : status'[fd] \in {status[fd], NoConn}
              /\ Live' \subseteq Live /\ Live \ {c} \subseteq Live'
              /\ \E a : Effect(c, a)

\* Descriptors are only given back by handlers, never taken.
LEMMA DescriptorsGivenBack ==
  ASSUME Inv, Dispatch \/ OndoneItem, NEW fd \in Fds
  PROVE  status'[fd] \in {status[fd], NoConn}
<1> DEFINE Back == \/ UNCHANGED status
                   \/ \E g \in Fds : status' = [status EXCEPT ![g] = NoConn]
<1>1. CASE Dispatch
  <2>1. PICK e \in batch : \/ OndoneRead(e) \/ OnacceptEnter(e)
                           \/ EventOfNobody(e) \/ EventOfConnection(e)
    BY <1>1 DEF Dispatch
  <2>2. CASE OndoneRead(e) \/ OnacceptEnter(e) \/ EventOfNobody(e)
    BY <2>2 DEF OndoneRead, OnacceptEnter, EventOfNobody, table
  <2>3. CASE EventOfConnection(e)
    <3>1. e.fd \in Fds
      BY <2>3 DEF EventOfConnection
    <3>2. \/ Handwrite(e.fd) \/ Handreadable(e.fd) \/ UNCHANGED status
          \/ \E w : Onclose(e.fd, w)
      BY <2>3 DEF EventOfConnection
    <3>3. UNCHANGED status \/ \E w : Onclose(e.fd, w)
      BY <3>2 DEF Handwrite, Handreadable, Keep
    <3>4. Back
      BY <3>1, <3>3 DEF Onclose
    <3> QED
      BY <3>4 DEF Inv, Table
  <2> QED
    BY <2>1, <2>2, <2>3
<1>2. CASE OndoneItem
  <2>1. UNCHANGED status \/ \E w : Onclose(Head(hand).fd, w)
    BY <1>2 DEF OndoneItem, Keep
  <2>2. Head(hand).fd \in Fds
    <3>1. hand \in Seq(Items) /\ hand # <<>>
      BY <1>2 DEF Inv, Queues, OndoneItem
    <3>2. Head(hand) \in Items
      BY <3>1, HeadTailProperties
    <3> QED
      BY <3>2 DEF Items
  <2>3. Back
    BY <2>1, <2>2 DEF Onclose
  <2> QED
    BY <2>3 DEF Inv, Table
<1> QED
  BY <1>1, <1>2

\* One turn of ondone's loop.
LEMMA ItemEffect ==
  ASSUME Inv, Inv', Booked, OndoneItem
  PROVE  Untouched \/ \E c \in Live : Touched(c)
<1> DEFINE item == Head(hand)
<1>0. PICK c : c = status[item.fd]
  OBVIOUS
<1>1. hand \in Seq(Items) /\ hand # <<>> /\ item \in Items
  <2>1. hand \in Seq(Items) /\ hand # <<>>
    BY DEF Inv, Queues, OndoneItem
  <2> QED
    BY <2>1, HeadTailProperties
<1>2. UNCHANGED <<connId, backlog>>
  BY DEF OndoneItem
<1>3. \A S : /\ Held(S) = Held(S)' + (IF item \in S THEN 1 ELSE 0)
             /\ Held(S)' \in Nat
  BY HeldTaken
<1>4. CASE ~SameConnection(item)
  <2>1. UNCHANGED <<status, conn, sock>>
    BY <1>4 DEF OndoneItem
  <2>2. \A S \in SUBSET Items : Held(S)' <= Held(S)
    BY <1>3
  <2>3. ASSUME NEW d \in Live PROVE Held(ItemsOf(d))' = Held(ItemsOf(d))
    <3>1. CASE item \in ItemsOf(d)
      <4>1. item \in ItemsOf(d) \ Here(d)
        BY <1>4, <3>1 DEF SameConnection, Here, ItemsOf
      <4>2. PICK S : S = ItemsOf(d) \ Here(d)
        OBVIOUS
      <4>3. Held(S) = 0 /\ item \in S
        BY <4>1, <4>2 DEF Booked
      <4>4. Held(S) = Held(S)' + 1 /\ Held(S)' \in Nat
        BY <1>3, <4>3
      <4> QED
        BY ONLY <4>3, <4>4
    <3>2. CASE item \notin ItemsOf(d)
      <4>1. Held(ItemsOf(d)) = Held(ItemsOf(d))' + 0 /\ Held(ItemsOf(d))' \in Nat
        BY <1>3, <3>2
      <4> QED
        BY ONLY <4>1
    <3> QED
      BY <3>1, <3>2
  <2> QED
    BY <1>2, <2>1, <2>2, <2>3 DEF Untouched
<1>5. CASE SameConnection(item)
  <2> HIDE DEF item
  <2>1. /\ c = item.id
        /\ LET s == Senddata(c, Answered(conn[c]), item)
           IN  IF ~s.ok \/ Finished(s.k)
               THEN Onclose(item.fd, s.wire)
               ELSE Keep(c, s.k, sock[c].rcvq, s.wire)
    BY <1>0, <1>5 DEF OndoneItem, SameConnection, item
  <2>2. c \in Conns /\ item.id = c /\ item.fd \in Fds /\ status[item.fd] = c
    BY <1>0, <1>1, <2>1 DEF Items
  <2>3. c \in Live
    BY <2>2 DEF Live
  <2>4. Handled(c)
    BY <1>1, <1>2, <2>1, <2>2, AnswerWell DEF Inv
  <2> DEFINE h == Held(ItemsOf(c)) - 1
  <2>5. h \in Nat /\ h + 1 = Held(ItemsOf(c))
    <3>1. item \in ItemsOf(c)
      BY <1>1, <2>2 DEF ItemsOf
    <3>2. Held(ItemsOf(c)) = Held(ItemsOf(c))' + 1 /\ Held(ItemsOf(c))' \in Nat
      BY <1>3, <3>1
    <3> QED
      BY ONLY <3>2
  <2>6. Bookkept(conn[c], sock[c], h + 1)
    BY <2>3, <2>5 DEF Booked
  <2> HIDE DEF h
  <2>7. /\ Sends(c, Encode(item)) /\ Accounted(c, h)
        /\ sock'[c].rcvq \in {sock[c].rcvq, <<>>}
    BY <1>1, <2>1, <2>2, <2>5, <2>6, AnswerBooks DEF Inv
  <2>8. Effect(c, Encode(item))
    BY <1>1, <2>2, <2>7, AnswerEffect DEF h, item
  <2>9. Touched(c)
    BY <1>2, <2>4, <2>8, DescriptorsGivenBack DEF Touched, Handled
  <2> QED
    BY <2>3, <2>9
<1> QED
  BY <1>4, <1>5

\* One event.
LEMMA DispatchEffect ==
  ASSUME Inv, Inv', Booked, Dispatch
  PROVE  Untouched \/ \E c \in Live : Touched(c)
<1>1. PICK e \in batch : /\ batch' = batch \ {e}
                         /\ \/ OndoneRead(e) \/ OnacceptEnter(e)
                            \/ EventOfNobody(e) \/ EventOfConnection(e)
  BY DEF Dispatch
<1>2. UNCHANGED <<connId, backlog, running, ringing, thrown, doneq, hand>>
  BY <1>1 DEF Dispatch, OndoneRead, OnacceptEnter, EventOfNobody, EventOfConnection,
     table, mailbox
<1>3. ASSUME UNCHANGED <<status, conn, sock, tasks>> PROVE Untouched
  <2>1. \A S \in SUBSET Items : Held(S)' = Held(S)
    BY <1>2, <1>3, HeldUnchanged
  <2> QED
    BY <1>2, <1>3, <2>1, AllHeld
<1>4. CASE OndoneRead(e) \/ OnacceptEnter(e) \/ EventOfNobody(e)
  BY <1>3, <1>4 DEF OndoneRead, OnacceptEnter, EventOfNobody, table
<1>5. CASE EventOfConnection(e)
  <2>0. PICK c : c = status[e.fd]
    OBVIOUS
  <2> DEFINE h == Held(ItemsOf(c))
  <2>1. e.fd \in Fds /\ c \in Conns /\ tasks \in Seq(Items)
    BY <1>5, <2>0 DEF Inv, Table, Queues, EventOfConnection
  <2>2. status[e.fd] = c
    BY <2>0
  <2>3. \/ Handwrite(e.fd) /\ UNCHANGED tasks
        \/ UNCHANGED <<status, conn, sock, tasks>>
        \/ "HUP" \in e.flags /\ Onclose(e.fd, sock[c].wire) /\ UNCHANGED tasks
        \/ Handreadable(e.fd)
    BY <1>5, <2>0 DEF EventOfConnection
  <2>4. c \in Live
    BY <2>1, <2>2 DEF Live
  <2>5. h \in Nat /\ Bookkept(conn[c], sock[c], h)
    BY <2>4, HeldNat DEF Inv, Booked
  <2>6. h = Held(ItemsOf(c))
    OBVIOUS
  <2> HIDE DEF h
  <2>7. CASE Handwrite(e.fd) /\ UNCHANGED tasks
    <3>1. Handled(c)
      BY <1>2, <2>1, <2>2, <2>7, HandwriteWell DEF Inv
    <3>2. /\ Sends(c, <<>>) /\ Accounted(c, h)
          /\ sock'[c].rcvq \in {sock[c].rcvq, <<>>}
      BY <1>2, <2>1, <2>2, <2>5, <2>7, HandwriteBooks DEF Inv
    <3>3. Effect(c, <<>>)
      BY <1>2, <2>1, <2>6, <2>7, <3>2, QuietEffect
    <3> QED
      BY <1>2, <2>4, <3>1, <3>3, DescriptorsGivenBack DEF Handled, Touched
  <2>8. CASE UNCHANGED <<status, conn, sock, tasks>>
    BY <1>3, <2>8
  <2>9. CASE "HUP" \in e.flags /\ Onclose(e.fd, sock[c].wire) /\ UNCHANGED tasks
    <3>1. sock[c].peer # "fin" \/ Stale(c)
      <4>1. CASE e.of = c
        BY <2>1, <2>9, <4>1 DEF Inv, HangupsReal
      <4>2. CASE e.of # c
        BY <1>1, <2>1, <2>2, <4>2 DEF Stale
      <4> QED
        BY <4>1, <4>2
    <3>2. Live' = Live \ {c}
      <4>1. sock[c].wire \in Seq(Own(c))
        BY <2>1 DEF Inv, Connections, SockWell
      <4> QED
        BY <1>2, <2>1, <2>2, <2>9, <4>1, CloseWell DEF Inv
    <3>3. /\ Sends(c, <<>>) /\ Accounted(c, h)
          /\ sock'[c].rcvq \in {sock[c].rcvq, <<>>}
      BY <2>1, <2>2, <2>5, <2>9, <3>1, HangupBooks DEF Inv
    <3>4. Effect(c, <<>>)
      BY <1>2, <2>1, <2>6, <2>9, <3>3, QuietEffect
    <3> QED
      BY <1>2, <2>4, <3>2, <3>4, DescriptorsGivenBack DEF Touched
  <2>10. CASE Handreadable(e.fd)
    <3>1. Handled(c)
      BY <1>2, <2>1, <2>2, <2>10, HandreadableWell DEF Inv
    <3>2. /\ Sends(c, <<>>)
          /\ sock'[c].rcvq = <<>>
          /\ \E n \in GoodFrames(sock[c].rcvq) :
                tasks' = tasks \o NewTasks(e.fd, c, n) /\ Accounted(c, h + n)
      BY <2>1, <2>2, <2>5, <2>10, HandreadableBooks DEF Inv
    <3>3. PICK n \in GoodFrames(sock[c].rcvq) :
             tasks' = tasks \o NewTasks(e.fd, c, n) /\ Accounted(c, h + n)
      BY <3>2
    <3>4. Accounted(c, Held(ItemsOf(c)) + n)
      BY <2>6, <3>3
    <3>5. Effect(c, <<>>)
      BY <1>2, <2>1, <2>2, <3>2, <3>3, <3>4, ReadEffect
    <3> QED
      BY <1>2, <2>4, <3>1, <3>5, DescriptorsGivenBack DEF Handled, Touched
  <2> QED
    BY <2>3, <2>7, <2>8, <2>9, <2>10
<1> QED
  BY <1>1, <1>4, <1>5

\* The workers, the signal handler, the clock and what the reactor does between handlers.
LEMMA QuietUntouched ==
  ASSUME Inv, (\E w \in Workers : WorkerStep(w)) \/ Quiet \/ Wait
  PROVE  Untouched
<1>1. CASE \E w \in Workers : WorkerStep(w)
  <2>1. UNCHANGED <<status, connId, conn, sock>>
    BY <1>1 DEF WorkerStep, WorkerTake, WorkerPush, WorkerRing, WorkerThrow, table
  <2> QED
    BY <1>1, <2>1, WorkersHold, AllHeld
<1>2. CASE OndoneDrain
  <2>1. UNCHANGED <<status, connId, conn, sock>>
    BY <1>2 DEF OndoneDrain, table
  <2>2. \A S \in SUBSET Items : Held(S)' = Held(S)
    BY <1>2, HeldDrained DEF Inv
  <2> QED
    BY <2>1, <2>2, AllHeld
<1>3. CASE (Quiet \/ Wait) /\ ~OndoneDrain
  <2>1. UNCHANGED <<status, connId, conn, sock, tasks, doneq, hand, running, ringing, thrown>>
    BY <1>3 DEF Quiet, OnSignal, DeadlinePasses, Top, BeginStop, Linger, Wait, WaitTimesOut,
         AcceptShed, AcceptNoMore, table, pool, mailbox
  <2>2. \A S \in SUBSET Items : Held(S)' = Held(S)
    BY <2>1, HeldUnchanged
  <2> QED
    BY <2>1, <2>2, AllHeld
<1> QED
  BY <1>1, <1>2, <1>3

\* What a peer may do to its socket: send a frame, discard what it has sent by going
\* away, or neither.
PeerDid(c) ==
    /\ \A d \in Conns \ {c} : sock'[d] = sock[d]
    /\ sock'[c].wire = sock[c].wire
    /\ sock[c].peer \in {"open", "fin"}
    /\ \/ /\ sock[c].peer = "open" /\ sock'[c].peer = "open"
          /\ sock'[c].sent = sock[c].sent + 1
          /\ \E f \in {Bad, sock[c].sent + 1} : sock'[c].rcvq = Append(sock[c].rcvq, f)
       \/ sock'[c].peer = "reset" /\ sock'[c].sent = sock[c].sent /\ sock'[c].rcvq = <<>>
       \/ sock'[c].sent = sock[c].sent /\ sock'[c].rcvq = sock[c].rcvq

\* Peers touch nothing but their sockets.
LEMMA PeersEffect ==
  ASSUME Inv, Peers
  PROVE  /\ UNCHANGED <<status, connId, conn, tasks, doneq, hand, running, ringing, thrown>>
         /\ UNCHANGED sock \/ \E c \in Conns : PeerDid(c)
<1>1. UNCHANGED <<status, connId, conn, tasks, doneq, hand, running, ringing, thrown>>
  BY DEF Peers, Connect, PeerSend, PeerFin, PeerReset, PeerRead, table, pool, mailbox
<1>2. sock \in [Conns -> SockState]
  BY DEF Inv, Connections
<1>3. CASE Connect
  BY <1>1, <1>3 DEF Connect
<1>4. ASSUME NEW c \in Conns, NEW frame \in {1, Bad}, PeerSend(c, frame) PROVE PeerDid(c)
  <2> DEFINE f == IF frame = Bad THEN Bad ELSE sock[c].sent + 1
             q == Append(sock[c].rcvq, f)
             n == sock[c].sent + 1
  <2>1. /\ sock' = [sock EXCEPT ![c].sent = n, ![c].rcvq = q]
        /\ sock[c].peer = "open"
    BY <1>4 DEF PeerSend
  <2>2. f \in {Bad, sock[c].sent + 1}
    OBVIOUS
  <2> HIDE DEF f, q, n
  <2>3. /\ sock'[c].wire = sock[c].wire /\ sock'[c].peer = sock[c].peer
        /\ sock'[c].sent = n /\ sock'[c].rcvq = q
        /\ \A d \in Conns \ {c} : sock'[d] = sock[d]
    BY ONLY <1>2, <2>1, c \in Conns DEF SockState
  <2> QED
    BY <2>1, <2>2, <2>3 DEF PeerDid, q, n
<1>5. ASSUME NEW c \in Conns, PeerFin(c) \/ PeerRead(c) PROVE PeerDid(c)
  BY <1>2, <1>5 DEF PeerFin, PeerRead, PeerDid, SockState
<1>6. ASSUME NEW c \in Conns, PeerReset(c) PROVE PeerDid(c)
  BY <1>2, <1>6 DEF PeerReset, PeerDid, SockState
<1> QED
  BY <1>1, <1>3, <1>4, <1>5, <1>6 DEF Peers

\* The books after a peer's step.
LEMMA BookedPeers ==
  ASSUME Inv, Inv', Booked, Peers
  PROVE  Booked' /\ Live' = Live
<1>1. /\ UNCHANGED <<status, connId, conn, tasks, doneq, hand, running, ringing, thrown>>
      /\ UNCHANGED sock \/ \E c \in Conns : PeerDid(c)
  BY PeersEffect
<1>2. \A S : Held(S)' = Held(S)
  BY <1>1, HeldUnchanged
<1>3. Live' = Live /\ Live \subseteq Conns
  BY <1>1 DEF Live
<1>4. \A c \in Conns : c > connId' => Held(ItemsOf(c))' = 0
  BY <1>1, <1>2 DEF Booked
<1>5. ASSUME NEW d \in Live' PROVE (Held(ItemsOf(d) \ Here(d)) = 0)'
  <2>1. d \in Live /\ Held(ItemsOf(d) \ Here(d)) = 0
    BY <1>3 DEF Booked
  <2>2. Here(d)' = Here(d)
    BY <1>1 DEF Here, ItemsOf
  <2>3. \A S \in SUBSET (ItemsOf(d) \ Here(d)) : Held(S)' <= Held(S)
    BY <1>2, HeldNat DEF Inv
  <2> QED
    BY <2>1, <2>2, <2>3, NoneAstray
<1>6. ASSUME NEW d \in Live PROVE Bookkept(conn'[d], sock'[d], Held(ItemsOf(d))')
  <2>1. Bookkept(conn[d], sock[d], Held(ItemsOf(d))) /\ d \in Conns
    BY <1>3 DEF Booked
  <2>2. Held(ItemsOf(d))' = Held(ItemsOf(d)) /\ conn'[d] = conn[d]
    BY <1>1, <1>2
  <2>3. CASE sock'[d] = sock[d]
    BY <2>1, <2>2, <2>3
  <2>4. CASE PeerDid(d)
    <3>1. /\ conn[d].inflight \in Int /\ sock[d].sent \in Nat
          /\ conn[d].out \in Seq(Cells) /\ sock[d].wire \in Seq(Cells)
          /\ sock[d].rcvq \in Seq(Requests \cup {Bad})
      <4>1. PICK fd \in Fds : status[fd] = d
        BY DEF Live
      <4> QED
        BY <2>1, <4>1, LiveTyped DEF Inv
    <3>2. sock[d].peer = "open" => ~conn[d].peerClose
      BY DEF Inv, Connections, LiveWell
    <3>3. CASE /\ sock[d].peer = "open" /\ sock'[d].peer = "open"
               /\ sock'[d].sent = sock[d].sent + 1
               /\ \E f \in {Bad, sock[d].sent + 1} : sock'[d].rcvq = Append(sock[d].rcvq, f)
      <4>1. Len(sock'[d].rcvq) = Len(sock[d].rcvq) + 1 /\ Len(sock[d].rcvq) \in Nat
        <5>1. PICK f : sock'[d].rcvq = Append(sock[d].rcvq, f)
          BY <3>3
        <5>2. Len(Append(sock[d].rcvq, f)) = Len(sock[d].rcvq) + 1
          BY <3>1
        <5> QED
          BY <3>1, <5>1, <5>2, LenProperties
      <4>2. sock'[d].sent - Len(sock'[d].rcvq) = sock[d].sent - Len(sock[d].rcvq)
        <5> DEFINE m == Len(sock[d].rcvq)
                   n == sock[d].sent
        <5>1. /\ m \in Nat /\ n \in Nat
              /\ Len(sock'[d].rcvq) = m + 1 /\ sock'[d].sent = n + 1
          BY <3>1, <3>3, <4>1
        <5> HIDE DEF m, n
        <5>2. sock'[d].sent - Len(sock'[d].rcvq) = n - m
          BY ONLY <5>1
        <5> QED
          BY <5>2 DEF m, n
      <4> QED
        BY <2>1, <2>2, <2>4, <3>2, <3>3, <4>2 DEF Bookkept, PeerDid
    <3>4. CASE /\ sock'[d].peer = "reset" /\ sock'[d].sent = sock[d].sent
               /\ sock'[d].rcvq = <<>>
      BY <2>1, <2>2, <2>4, <3>4 DEF Bookkept, PeerDid
    <3>5. CASE sock'[d].sent = sock[d].sent /\ sock'[d].rcvq = sock[d].rcvq
      BY <2>1, <2>2, <2>4, <3>5 DEF Bookkept, PeerDid
    <3> QED
      BY <2>4, <3>3, <3>4, <3>5 DEF PeerDid
  <2> QED
    BY <1>1, <2>1, <2>3, <2>4 DEF PeerDid
<1> QED
  BY <1>3, <1>4, <1>5, <1>6 DEF Booked, Bookkept

\* onaccept opens the books of a connection that has no requests yet.
LEMMA BookedAccept ==
  ASSUME Inv, Inv', Booked, Accept
  PROVE  Booked' /\ Live \subseteq Live'
<1>0. PICK c : c = connId + 1
  OBVIOUS
<1> DEFINE s == [NewSock EXCEPT !.peer = "open"]
<1>1. c \in Conns /\ connId \in Nat /\ connId' = c
  BY <1>0, BoundsAssumption DEF Inv, Table, Accept, Conns
<1>2. \A S : Held(S)' = Held(S)
  BY HeldUnchanged DEF Accept, pool, mailbox
<1>3. /\ sock' = [sock EXCEPT ![c] = s]
      /\ conn' = [conn EXCEPT ![c] = Fresh]
  BY <1>0 DEF Accept
<1>4. Live \subseteq Live' /\ Live' \subseteq Live \cup {c} /\ Live' \subseteq Conns
  BY <1>0, <1>1, BoundsAssumption DEF Live, Accept, Inv, Table, Conns, NoConn
<1>5. c \notin Live
  BY <1>0, <1>1, BoundsAssumption DEF Live, Inv, Table, Conns, NoConn
<1>6. ASSUME NEW d \in Conns, d > connId' PROVE Held(ItemsOf(d))' = 0
  BY <1>0, <1>1, <1>2, <1>6 DEF Booked, Conns
<1>7. Bookkept(Fresh, s, 0)
  <2>1. s = [peer |-> "open", rcvq |-> <<>>, sent |-> 0, wire |-> <<>>, read |-> 0]
    BY DEF NewSock
  <2>2. s.wire = <<>> /\ s.rcvq = <<>> /\ s.sent = 0
    BY <2>1
  <2>3. Fresh.inflight = 0 /\ Fresh.out = <<>> /\ ~Fresh.peerClose
    BY DEF Fresh
  <2>4. Len(s.wire) = 0 /\ Len(s.rcvq) = 0 /\ Len(Fresh.out) = 0
    BY <2>2, <2>3
  <2>5. 0 + (0 + 0) \div 2 = 0 - 0 /\ (0 + 0) % 2 = 0
    OBVIOUS
  <2> HIDE DEF s
  <2>6. /\ Fresh.inflight = 0
        /\ Fresh.inflight + (Len(s.wire) + Len(Fresh.out)) \div 2 = s.sent - Len(s.rcvq)
        /\ (Len(s.wire) + Len(Fresh.out)) % 2 = 0
    BY ONLY <2>2, <2>3, <2>4, <2>5, Zenon
  <2> QED
    BY <2>3, <2>6 DEF Bookkept
<1> HIDE DEF s
<1>8. ASSUME NEW d \in Live' PROVE Bookkept(conn'[d], sock'[d], Held(ItemsOf(d))')
  <2>1. conn \in [Conns -> ConnState] /\ sock \in [Conns -> SockState]
    BY DEF Inv, Connections
  <2>2. CASE d = c
    <3>1. Held(ItemsOf(d))' = 0
      BY <1>0, <1>1, <1>2, <2>2 DEF Booked
    <3>2. conn'[d] = Fresh /\ sock'[d] = s
      BY <1>1, <1>3, <2>1, <2>2
    <3> QED
      BY <1>7, <3>1, <3>2
  <2>3. CASE d # c
    <3>1. d \in Live /\ conn'[d] = conn[d] /\ sock'[d] = sock[d]
      BY <1>3, <1>4, <2>1, <2>3
    <3>2. Held(ItemsOf(d))' = Held(ItemsOf(d))
      BY <1>2
    <3> QED
      BY <3>1, <3>2 DEF Booked
  <2> QED
    BY <2>2, <2>3
<1>9. ASSUME NEW d \in Live' PROVE (Held(ItemsOf(d) \ Here(d)) = 0)'
  <2>1. CASE d = c
    <3>1. Held(ItemsOf(d))' = 0
      BY <1>0, <1>1, <1>2, <2>1 DEF Booked
    <3>2. PICK S : S = (ItemsOf(d) \ Here(d))'
      OBVIOUS
    <3>3. S \subseteq ItemsOf(d)
      BY <3>2 DEF ItemsOf
    <3>4. Held(S)' = Held(S) /\ Held(ItemsOf(d))' = Held(ItemsOf(d))
      BY <1>2
    <3>5. Held(S) <= Held(ItemsOf(d)) /\ Held(S) \in Nat
      BY <3>3, HeldMonotone, HeldNat DEF Inv
    <3>6. Held(S)' = 0
      BY ONLY <3>1, <3>4, <3>5
    <3> QED
      BY ONLY <3>2, <3>6, Zenon
  <2>2. CASE d # c
    <3>1. d \in Live /\ Held(ItemsOf(d) \ Here(d)) = 0
      BY <1>4, <2>2 DEF Booked
    <3>2. Here(d)' = Here(d)
      <4>1. PICK f \in Fds : status[f] = NoConn /\ status' = [status EXCEPT ![f] = c]
        BY <1>0 DEF Accept
      <4>2. d # NoConn /\ status \in [Fds -> Conns \cup {NoConn}]
        BY <1>4, BoundsAssumption DEF Inv, Table, Conns, NoConn
      <4>3. \A g \in Fds : status'[g] = d <=> status[g] = d
        BY ONLY <2>2, <4>1, <4>2
      <4>4. \A x \in ItemsOf(d) : status'[x.fd] = d <=> status[x.fd] = d
        BY <4>3 DEF ItemsOf, Items
      <4>5. Here(d)' = {x \in ItemsOf(d) : status'[x.fd] = d}
        BY DEF Here, ItemsOf
      <4> QED
        BY <4>4, <4>5 DEF Here
    <3>3. \A S \in SUBSET (ItemsOf(d) \ Here(d)) : Held(S)' <= Held(S)
      BY <1>2, HeldNat DEF Inv
    <3> QED
      BY <3>1, <3>2, <3>3, NoneAstray
  <2> QED
    BY <2>1, <2>2
<1> QED
  BY <1>4, <1>6, <1>8, <1>9 DEF Booked, Bookkept

\* The end of start() closes all books.
LEMMA BookedCloseAll ==
  ASSUME Inv, Inv', Booked, CloseAll
  PROVE  Booked' /\ Served
<1>1. Live' = {}
  <2>1. status' = [fd \in Fds |-> NoConn]
    BY Zenon DEF CloseAll
  <2> QED
    BY <2>1, BoundsAssumption DEF Live, Conns, NoConn
<1>2. \A S : Held(S)' = Held(S)
  BY HeldUnchanged DEF CloseAll, pool, mailbox
<1>3. connId' = connId /\ pc = "close"
  BY DEF CloseAll
<1> QED
  BY <1>1, <1>2, <1>3 DEF Booked, Served

\* Every step keeps the books.
LEMMA BookedStep ==
  ASSUME Inv, Inv', Booked, [Next]_vars
  PROVE  Booked' /\ Served
<1>1. ASSUME Booked', Live \subseteq Live' PROVE Booked' /\ Served
  BY <1>1 DEF Served, Closes
<1>2. ASSUME Untouched PROVE Booked' /\ Served
  <2>1. Booked'
    BY <1>2, BookedIdle
  <2>2. Live' = Live
    BY <1>2 DEF Untouched, Live
  <2> QED
    BY <1>1, <2>1, <2>2
<1>3. ASSUME NEW c \in Live, Touched(c) PROVE Booked' /\ Served
  <2>1. PICK a : Effect(c, a)
    BY <1>3 DEF Touched
  <2>2. PICK h : h = Held(ItemsOf(c))'
    OBVIOUS
  <2>3. Sends(c, a) /\ Accounted(c, h)
    BY <2>1, <2>2 DEF Effect
  <2>4. \A S \in SUBSET Items : S \cap Here(c) = {} => Held(S)' = Held(S)
    BY <2>1 DEF Effect
  <2> QED
    BY <1>3, <2>2, <2>3, <2>4, BookedHandler DEF Touched
<1>4. CASE Peers
  BY <1>1, <1>4, BookedPeers
<1>5. CASE (\E w \in Workers : WorkerStep(w)) \/ Quiet \/ Wait
  BY <1>2, <1>5, QuietUntouched
<1>6. CASE Dispatch
  BY <1>2, <1>3, <1>6, DispatchEffect
<1>7. CASE Accept
  BY <1>1, <1>7, BookedAccept
<1>8. CASE OndoneItem
  BY <1>2, <1>3, <1>8, ItemEffect
<1>9. CASE CloseAll
  BY <1>9, BookedCloseAll
<1>10. CASE UNCHANGED vars
  <2>1. UNCHANGED <<status, connId, conn, sock, tasks, doneq, hand, running, ringing, thrown>>
    BY <1>10 DEF vars
  <2>2. \A S \in SUBSET Items : Held(S)' = Held(S)
    BY <2>1, HeldUnchanged
  <2> QED
    BY <1>2, <2>1, <2>2, AllHeld
<1> QED
  BY <1>4, <1>5, <1>6, <1>7, <1>8, <1>9, <1>10 DEF Next, ReactorStep, Quiet

\* The server starts with no books open.
LEMMA BookedInit == Init => Booked
<1> SUFFICES ASSUME Init PROVE Booked
  OBVIOUS
<1>1. Live = {}
  BY BoundsAssumption DEF Init, Live, Conns, NoConn
<1>2. ASSUME NEW S \in SUBSET Items PROVE Held(S) = 0
  <2>1. /\ tasks = <<>> /\ doneq = <<>> /\ hand = <<>> /\ thrown = <<>>
        /\ running = [w \in Workers |-> NoItem]
    BY DEF Init
  <2>2. Busy(S) = {}
    BY <2>1 DEF Busy, NoItem, Items, Fds
  <2>3. Cardinality(Busy(S)) = 0
    BY <2>2, FS_EmptySet
  <2>4. Count(tasks, S) = 0 /\ Count(doneq, S) = 0 /\ Count(hand, S) = 0
        /\ Count(thrown, S) = 0
    BY <2>1, CountOne
  <2> QED
    BY ONLY <2>3, <2>4 DEF Held
<1> QED
  BY <1>1, <1>2, OfTyped DEF Booked

\* The books are right in every state the server can reach.
THEOREM BooksInvariance == Spec => [](Inv /\ Booked)
<1>1. Init => Inv /\ Booked
  BY InitInv, BookedInit
<1>2. (Inv /\ Booked) /\ [Next]_vars => (Inv /\ Booked)'
  BY StepInv, BookedStep
<1> QED
  BY <1>1, <1>2, PTL DEF Spec

\* Outstanding and Thrown count the items of a connection.
LEMMA OutstandingHeld ==
  ASSUME Queues, NEW c \in Conns
  PROVE  /\ Outstanding(c) + Thrown(c) = Held(ItemsOf(c))
         /\ Outstanding(c) \in Nat /\ Thrown(c) \in Nat
<1> DEFINE Of(q) == Cardinality({i \in 1..Len(q) : q[i].id = c})
<1>1. ASSUME NEW q \in Seq(Items) PROVE Of(q) = Count(q, ItemsOf(c))
  <2>1. \A i \in 1..Len(q) : q[i] \in Items
    BY ElementOfSeq
  <2>2. {i \in 1..Len(q) : q[i].id = c} = {i \in 1..Len(q) : q[i] \in ItemsOf(c)}
    BY <2>1 DEF ItemsOf
  <2> QED
    BY <2>2 DEF Count
<1>2. Of(tasks) = Count(tasks, ItemsOf(c)) /\ Of(doneq) = Count(doneq, ItemsOf(c))
      /\ Of(hand) = Count(hand, ItemsOf(c)) /\ Of(thrown) = Count(thrown, ItemsOf(c))
  BY <1>1 DEF Queues
<1>3. {w \in Workers \ ringing : running[w].id = c} = Busy(ItemsOf(c))
  BY DEF Queues, Busy, ItemsOf, NoItem, Conns
<1>4. Outstanding(c) = Of(tasks) + Of(doneq) + Of(hand) + Cardinality(Busy(ItemsOf(c)))
  BY <1>3 DEF Outstanding
<1>5. Thrown(c) = Of(thrown)
  BY DEF Thrown
<1>6. /\ Count(tasks, ItemsOf(c)) \in Nat /\ Count(doneq, ItemsOf(c)) \in Nat
      /\ Count(hand, ItemsOf(c)) \in Nat /\ Count(thrown, ItemsOf(c)) \in Nat
      /\ Cardinality(Busy(ItemsOf(c))) \in Nat
  BY HeldNat
<1> HIDE DEF Of
<1> QED
  BY ONLY <1>2, <1>4, <1>5, <1>6 DEF Held

\* inflight is what the server owes: it is the number of requests under way and of those
\* whose handler threw, and with the responses sent or queued it makes up the requests
\* read, so that the stop waits for nothing but what is being computed or was lost.
THEOREM InflightIsExact == Spec => []InflightExact
<1>1. Inv /\ Booked => InflightExact
  <2> SUFFICES ASSUME Inv, Booked, NEW c \in Live
               PROVE  /\ conn[c].inflight = Outstanding(c) + Thrown(c)
                      /\ sock[c].peer # "reset" =>
                            conn[c].inflight + Len(Stream(c)) \div 2
                               = sock[c].sent - Len(sock[c].rcvq)
    BY DEF InflightExact
  <2>1. c \in Conns /\ Bookkept(conn[c], sock[c], Held(ItemsOf(c)))
    BY DEF Live, Booked
  <2>2. Outstanding(c) + Thrown(c) = Held(ItemsOf(c))
    BY <2>1, OutstandingHeld DEF Inv
  <2>3. sock[c].wire \in Seq(Cells) /\ conn[c].out \in Seq(Cells)
    BY <2>1 DEF Inv, Connections, ConnState, SockState
  <2>4. Len(Stream(c)) = Len(sock[c].wire) + Len(conn[c].out)
    BY <2>3, Glue DEF Stream
  <2> QED
    BY <2>1, <2>2, <2>4 DEF Bookkept
<1> QED
  BY <1>1, BooksInvariance, PTL

\* A connection whose peer has half-closed is in the table only while an answer to it is
\* being computed, is on its way to ondone or queued for its socket, or was lost to a
\* handler that threw: but for the last, handreadable, handwrite and ondone between them
\* never leave one behind that no event would ever close.
THEOREM HalfCloseKept == Spec => []HalfCloseNotForgotten
<1>1. Inv /\ Booked => HalfCloseNotForgotten
  <2> SUFFICES ASSUME Inv, Booked, NEW c \in Live, conn[c].peerClose
               PROVE  Outstanding(c) > 0 \/ conn[c].out # <<>> \/ Thrown(c) > 0
    BY DEF HalfCloseNotForgotten
  <2>1. c \in Conns /\ Bookkept(conn[c], sock[c], Held(ItemsOf(c)))
    BY DEF Live, Booked
  <2>2. /\ Outstanding(c) + Thrown(c) = Held(ItemsOf(c))
        /\ Outstanding(c) \in Nat /\ Thrown(c) \in Nat
    BY <2>1, OutstandingHeld DEF Inv
  <2>3. Held(ItemsOf(c)) > 0 \/ conn[c].out # <<>>
    BY <2>1 DEF Bookkept
  <2> QED
    BY ONLY <2>2, <2>3
<1> QED
  BY <1>1, BooksInvariance, PTL

\* Nor is it closed before: a half-closed peer has by then been sent the answer to every
\* request it made, whichever of the three handlers closes it.
THEOREM HalfCloseAnswered == Spec => HalfCloseServed
<1>1. (Inv /\ Booked) /\ (Inv /\ Booked)' /\ [Next]_vars =>
        [\A c \in Conns :
           Closes(c) /\ sock[c].peer = "fin" /\ ~HasBad(c) /\ pc # "close" /\ ~Stale(c)
           => Len(sock'[c].wire) = 2 * sock[c].sent]_vars
  BY BookedStep DEF Served
<1> QED
  BY <1>1, BooksInvariance, PTL DEF Spec, HalfCloseServed

-----------------------------------------------------------------------------
(* Frames.                                                                 *)

\* A stream of whole frames, the last of which may be cut.
Shaped(s) == \A i \in 1..Len(s) : i % 2 = 1 =>
                /\ s[i].part = "head"
                /\ i < Len(s) => s[i + 1].part = "tail" /\ s[i + 1].req = s[i].req

\* The places where request r of c can be: under way, in the socket, on the stream.
Total(c, r) == Held(ItemsFor(c, r)) + Count(sock[c].rcvq, {r})
                 + Count(Stream(c), {HeadOf(c, r)})

\* Streams are made of frames, and a request that was sent is in one place at most.
Framed == \A c \in Conns : /\ Shaped(Stream(c))
                           /\ \A r \in Requests :
                                 Total(c, r) <= IF r <= sock[c].sent THEN 1 ELSE 0

\* What is cut off at the end does not matter.
LEMMA ShapedPrefix ==
  ASSUME NEW s \in Seq(Cells), NEW t \in Seq(Cells), Shaped(s \o t)
  PROVE  Shaped(s)
<1>1. /\ Len(s) \in Nat /\ Len(t) \in Nat /\ Len(s \o t) = Len(s) + Len(t)
      /\ \A i \in 1..(Len(s) + Len(t)) :
            (s \o t)[i] = IF i <= Len(s) THEN s[i] ELSE t[i - Len(s)]
  BY LenProperties, ConcatProperties
<1> DEFINE u == s \o t
<1>2. Shaped(u)
  OBVIOUS
<1>3. /\ Len(u) = Len(s) + Len(t) /\ \A i \in 1..Len(s) : u[i] = s[i]
  BY <1>1
<1> HIDE DEF u
<1>4. ASSUME NEW i \in 1..Len(s), i % 2 = 1
      PROVE  /\ s[i].part = "head"
             /\ i < Len(s) => s[i + 1].part = "tail" /\ s[i + 1].req = s[i].req
  <2>1. i \in 1..Len(u)
    BY ONLY <1>1, <1>3, i \in 1..Len(s)
  <2>2. u[i].part = "head" /\ u[i] = s[i]
    BY <1>2, <1>3, <1>4, <2>1 DEF Shaped
  <2>3. ASSUME i < Len(s) PROVE s[i + 1].part = "tail" /\ s[i + 1].req = s[i].req
    <3>1. i < Len(u) /\ i + 1 \in 1..Len(s)
      BY ONLY <1>1, <1>3, <2>3, i \in 1..Len(s)
    <3>2. u[i + 1].part = "tail" /\ u[i + 1].req = u[i].req
      BY <1>2, <1>4, <2>1, <3>1 DEF Shaped
    <3> QED
      BY <1>3, <2>2, <3>1, <3>2
  <2> QED
    BY <2>2, <2>3
<1> QED
  BY <1>4 DEF Shaped

\* A response behind whole frames.
LEMMA ShapedEncode ==
  ASSUME NEW s \in Seq(Cells), Len(s) % 2 = 0, Shaped(s), NEW item \in Items
  PROVE  Shaped(s \o Encode(item))
<1> DEFINE t == Encode(item)
           u == s \o t
<1>1. t \in Seq(Cells) /\ Len(t) = 2
  BY DEF Encode, Items, Cells
<1>2. t[1].part = "head" /\ t[2].part = "tail" /\ t[2].req = t[1].req
  BY DEF Encode
<1> HIDE DEF t
<1>3. /\ Len(s) \in Nat /\ Len(u) = Len(s) + 2
      /\ \A i \in 1..(Len(s) + 2) :
            u[i] = IF i <= Len(s) THEN s[i] ELSE t[i - Len(s)]
  <2>1. /\ Len(u) = Len(s) + Len(t)
        /\ \A i \in 1..(Len(s) + Len(t)) :
              u[i] = IF i <= Len(s) THEN s[i] ELSE t[i - Len(s)]
    BY <1>1, ConcatProperties
  <2>2. Len(s) \in Nat
    BY LenProperties
  <2> HIDE DEF u
  <2> QED
    BY ONLY <1>1, <2>1, <2>2, Zenon
<1> HIDE DEF u
<1> DEFINE n == Len(s)
<1>4. /\ n \in Nat /\ n % 2 = 0 /\ Len(u) = n + 2
      /\ \A i \in 1..n : u[i] = s[i]
      /\ u[n + 1] = t[1] /\ u[n + 2] = t[2]
  <2>1. n + 1 \in 1..(n + 2) /\ n + 2 \in 1..(n + 2) /\ ~(n + 1 <= n) /\ ~(n + 2 <= n)
        /\ (n + 1) - n = 1 /\ (n + 2) - n = 2
    BY <1>3
  <2>3. n \in Nat /\ n % 2 = 0 /\ Len(u) = n + 2
    BY <1>3
  <2>4. \A i \in 1..n : u[i] = s[i]
    BY <1>3
  <2>2. u[n + 1] = t[1] /\ u[n + 2] = t[2]
    BY <1>3, <2>1
  <2> QED
    BY <2>2, <2>3, <2>4
<1>5. ASSUME NEW i \in 1..Len(u), i % 2 = 1
      PROVE  /\ u[i].part = "head"
             /\ i < Len(u) => u[i + 1].part = "tail" /\ u[i + 1].req = u[i].req
  <2>1. CASE i = n + 1
    <3>1. i + 1 = n + 2
      BY <1>4, <2>1
    <3> QED
      BY <1>2, <1>4, <2>1, <3>1
  <2>2. CASE i # n + 1
    <3>1. i \in 1..n /\ i < n /\ i + 1 \in 1..n
      <4> HIDE DEF n
      <4> QED
        BY ONLY <1>4, <1>5, <2>2, i \in 1..Len(u)
    <3>2. s[i].part = "head" /\ s[i + 1].part = "tail" /\ s[i + 1].req = s[i].req
      BY <1>5, <3>1 DEF Shaped
    <3> QED
      BY <1>4, <3>1, <3>2
  <2> QED
    BY <2>1, <2>2
<1>6. Shaped(u)
  BY <1>5 DEF Shaped
<1> QED
  BY <1>6 DEF t, u

\* What is counted once at most is at one place.
LEMMA AtMostOne ==
  ASSUME NEW T, NEW q \in Seq(T), NEW S, Count(q, S) <= 1,
         NEW i \in 1..Len(q), NEW j \in 1..Len(q), q[i] \in S, q[j] \in S
  PROVE  i = j
<1> DEFINE D == {k \in 1..Len(q) : q[k] \in S}
<1>1. IsFiniteSet(D) /\ Cardinality(D) <= 1 /\ Cardinality(D) \in Nat
  BY CountFinite DEF Count
<1>2. i \in D /\ j \in D
  OBVIOUS
<1> HIDE DEF D
<1>3. Cardinality(D \ {i}) = Cardinality(D) - 1 /\ IsFiniteSet(D \ {i})
  BY <1>1, <1>2, FS_RemoveElement
<1>4. Cardinality(D \ {i}) \in Nat
  BY <1>3, FS_CardinalityType
<1>5. Cardinality(D \ {i}) = 0
  BY ONLY <1>1, <1>3, <1>4
<1>6. D \ {i} = {}
  BY <1>3, <1>5, FS_EmptySet
<1> QED
  BY <1>2, <1>6

\* The stream of a connection is made of cells, before a step and after.
LEMMA StreamTyped ==
  ASSUME Inv, Inv', NEW c \in Conns
  PROVE  /\ Stream(c) \in Seq(Cells) /\ Stream(c)' \in Seq(Cells)
         /\ sock[c].rcvq \in Seq(Requests \cup {Bad})
         /\ sock'[c].rcvq \in Seq(Requests \cup {Bad})
<1>1. /\ sock[c].wire \in Seq(Cells) /\ conn[c].out \in Seq(Cells)
      /\ sock[c].rcvq \in Seq(Requests \cup {Bad})
  BY DEF Inv, Connections, ConnState, SockState
<1>2. /\ sock'[c].wire \in Seq(Cells) /\ conn'[c].out \in Seq(Cells)
      /\ sock'[c].rcvq \in Seq(Requests \cup {Bad})
  BY DEF Inv, Connections, ConnState, SockState
<1>3. Stream(c) \in Seq(Cells)
  BY <1>1, Glue DEF Stream
<1>4. Stream(c)' \in Seq(Cells)
  BY <1>2, Glue DEF Stream
<1> QED
  BY <1>1, <1>2, <1>3, <1>4

\* The numbers Total adds up, before a step and after.
LEMMA TotalNat ==
  ASSUME Inv, Inv', NEW c \in Conns, NEW r
  PROVE  /\ Held(ItemsFor(c, r)) \in Nat /\ Held(ItemsFor(c, r))' \in Nat
         /\ Count(sock[c].rcvq, {r}) \in Nat /\ Count(sock'[c].rcvq, {r}) \in Nat
         /\ Count(Stream(c), {HeadOf(c, r)}) \in Nat
         /\ Count(Stream(c)', {HeadOf(c, r)}) \in Nat
         /\ Total(c, r) \in Nat /\ Total(c, r)' \in Nat
         /\ Total(c, r)' = Held(ItemsFor(c, r))' + Count(sock'[c].rcvq, {r})
                             + Count(Stream(c)', {HeadOf(c, r)})
<1>1. /\ Stream(c) \in Seq(Cells) /\ Stream(c)' \in Seq(Cells)
      /\ sock[c].rcvq \in Seq(Requests \cup {Bad})
      /\ sock'[c].rcvq \in Seq(Requests \cup {Bad})
  BY StreamTyped
<1>2. Held(ItemsFor(c, r)) \in Nat /\ Held(ItemsFor(c, r))' \in Nat
  BY HeldNat, HeldNatNext DEF Inv
<1>3. Count(sock[c].rcvq, {r}) \in Nat /\ Count(sock'[c].rcvq, {r}) \in Nat
  BY <1>1, CountFinite
<1>4. /\ Count(Stream(c), {HeadOf(c, r)}) \in Nat
      /\ Count(Stream(c)', {HeadOf(c, r)}) \in Nat
  BY <1>1, CountFinite
<1>5. Total(c, r)' = Held(ItemsFor(c, r))' + Count(sock'[c].rcvq, {r})
                       + Count(Stream(c)', {HeadOf(c, r)})
  BY DEF Total, HeadOf
<1>6. Total(c, r) \in Nat
  BY ONLY <1>2, <1>3, <1>4 DEF Total
<1>7. Total(c, r)' \in Nat
  BY ONLY <1>2, <1>3, <1>4, <1>5
<1> QED
  BY ONLY <1>2, <1>3, <1>4, <1>5, <1>6, <1>7, Zenon

\* A connection whose stream is whole and of whose requests no place more is known.
LEMMA FramedConn ==
  ASSUME Inv, Inv', Framed, NEW c \in Conns,
         Shaped(Stream(c)'), sock'[c].sent = sock[c].sent,
         \A r \in Requests : Total(c, r)' <= Total(c, r)
  PROVE  /\ Shaped(Stream(c)')
         /\ \A r \in Requests : Total(c, r)' <= IF r <= sock'[c].sent THEN 1 ELSE 0
<1>1. ASSUME NEW r \in Requests
      PROVE  Total(c, r)' <= IF r <= sock'[c].sent THEN 1 ELSE 0
  <2> DEFINE b == IF r <= sock[c].sent THEN 1 ELSE 0
  <2>1. Total(c, r) <= b /\ Total(c, r)' <= Total(c, r) /\ b \in Nat
    BY DEF Framed
  <2>2. Total(c, r) \in Nat /\ Total(c, r)' \in Nat
    BY TotalNat
  <2> HIDE DEF b
  <2>3. Total(c, r)' <= b
    BY ONLY <2>1, <2>2
  <2> QED
    BY <2>3 DEF b
<1> QED
  BY <1>1

\* A connection left alone while its requests under way become no more.
LEMMA FramedAlone ==
  ASSUME Inv, Inv', Framed, NEW c \in Conns, conn'[c] = conn[c], sock'[c] = sock[c],
         \A r \in Requests : Held(ItemsFor(c, r))' <= Held(ItemsFor(c, r))
  PROVE  /\ Shaped(Stream(c)')
         /\ \A r \in Requests : Total(c, r)' <= IF r <= sock'[c].sent THEN 1 ELSE 0
<1>1. Stream(c)' = Stream(c)
  BY DEF Stream
<1>2. Shaped(Stream(c)')
  BY <1>1 DEF Framed
<1>3. ASSUME NEW r \in Requests PROVE Total(c, r)' <= Total(c, r)
  <2>1. /\ Held(ItemsFor(c, r)) \in Nat /\ Held(ItemsFor(c, r))' \in Nat
        /\ Count(sock[c].rcvq, {r}) \in Nat
        /\ Count(Stream(c), {HeadOf(c, r)}) \in Nat
        /\ Total(c, r)' = Held(ItemsFor(c, r))' + Count(sock'[c].rcvq, {r})
                            + Count(Stream(c)', {HeadOf(c, r)})
    BY TotalNat
  <2>2. Total(c, r)' = Held(ItemsFor(c, r))' + Count(sock[c].rcvq, {r})
                         + Count(Stream(c), {HeadOf(c, r)})
    BY <1>1, <2>1
  <2>3. Held(ItemsFor(c, r))' <= Held(ItemsFor(c, r))
    OBVIOUS
  <2> QED
    BY ONLY <2>1, <2>2, <2>3 DEF Total
<1> QED
  BY <1>2, <1>3, FramedConn

\* A step that handles no connection.
LEMMA FramedUntouched ==
  ASSUME Inv, Inv', Framed, Untouched PROVE Framed'
<1>1. ASSUME NEW c \in Conns
      PROVE  /\ Shaped(Stream(c)')
             /\ \A r \in Requests : Total(c, r)' <= IF r <= sock'[c].sent THEN 1 ELSE 0
  <2>1. \A r \in Requests : Held(ItemsFor(c, r))' <= Held(ItemsFor(c, r))
    BY OfTyped DEF Untouched
  <2> QED
    BY <2>1, FramedAlone DEF Untouched
<1> QED
  BY <1>1 DEF Framed, Shaped, Total

\* One that handles connection c.
LEMMA FramedTouched ==
  ASSUME Inv, Inv', Booked, Framed, NEW c \in Live, Touched(c) PROVE Framed'
<1>0. c \in Conns
  BY DEF Live
<1>1. PICK a : Effect(c, a)
  BY DEF Touched
<1>2. ASSUME NEW d \in Conns, d # c
      PROVE  /\ Shaped(Stream(d)')
             /\ \A r \in Requests : Total(d, r)' <= IF r <= sock'[d].sent THEN 1 ELSE 0
  <2>1. ASSUME NEW r \in Requests PROVE Held(ItemsFor(d, r))' <= Held(ItemsFor(d, r))
    <3>1. ItemsFor(d, r) \in SUBSET Items /\ ItemsFor(d, r) \cap Here(c) = {}
      BY <1>2 DEF ItemsFor, ItemsOf, Here
    <3>2. Held(ItemsFor(d, r))' = Held(ItemsFor(d, r))
      BY <1>1, <3>1 DEF Effect
    <3>3. Held(ItemsFor(d, r)) \in Nat
      BY HeldNat DEF Inv
    <3> QED
      BY ONLY <3>2, <3>3
  <2>2. conn'[d] = conn[d] /\ sock'[d] = sock[d]
    BY <1>1, <1>2 DEF Effect, Sends
  <2> QED
    BY <2>1, <2>2, FramedAlone
<1>3. /\ Shaped(Stream(c)')
      /\ \A r \in Requests : Total(c, r)' <= IF r <= sock'[c].sent THEN 1 ELSE 0
  <2>1. Stream(c) \in Seq(Cells) /\ Stream(c)' \in Seq(Cells)
    BY <1>0, StreamTyped
  <2>2. a \in Seq(Cells)
    <3>1. CASE a = <<>>
      BY <3>1, EmptySeq
    <3>2. CASE \E item \in ItemsOf(c) : a = Encode(item)
      <4>1. PICK item \in Items : a = Encode(item)
        BY <3>2 DEF ItemsOf
      <4> QED
        BY <4>1 DEF Encode, Items, Cells
    <3> QED
      BY <1>1, <3>1, <3>2 DEF Effect
  <2>3. PICK rest \in Seq(Cells) : Stream(c) \o a = Stream(c)' \o rest
    BY <1>1 DEF Effect, Sends, Stream
  <2>4. Shaped(Stream(c) \o a)
    <3>1. Shaped(Stream(c))
      BY <1>0 DEF Framed
    <3>2. Len(Stream(c)) % 2 = 0
      <4>1. (Len(sock[c].wire) + Len(conn[c].out)) % 2 = 0
        BY DEF Booked, Bookkept
      <4>2. sock[c].wire \in Seq(Cells) /\ conn[c].out \in Seq(Cells)
        BY <1>0 DEF Inv, Connections, ConnState, SockState
      <4>3. Len(Stream(c)) = Len(sock[c].wire) + Len(conn[c].out)
        BY <4>2, Glue DEF Stream
      <4> QED
        BY <4>1, <4>3
    <3>3. CASE a = <<>>
      BY <2>1, <3>1, <3>3, Glue
    <3>4. CASE \E item \in ItemsOf(c) : a = Encode(item)
      BY <2>1, <3>1, <3>2, <3>4, ShapedEncode DEF ItemsOf
    <3> QED
      BY <1>1, <3>3, <3>4 DEF Effect
  <2>5. Shaped(Stream(c)')
    BY <2>1, <2>3, <2>4, ShapedPrefix
  <2>6. ASSUME NEW r \in Requests PROVE Total(c, r)' <= Total(c, r)
    <3> DEFINE S == {HeadOf(c, r)}
    <3>1. Count(Stream(c), S) + Count(a, S) = Count(Stream(c)', S) + Count(rest, S)
      <4> HIDE DEF S
      <4>1. Count(Stream(c) \o a, S) = Count(Stream(c), S) + Count(a, S)
        BY <2>1, <2>2, CountConcat
      <4>2. Count(Stream(c)' \o rest, S) = Count(Stream(c)', S) + Count(rest, S)
        BY <2>1, CountConcat
      <4> QED
        BY <2>3, <4>1, <4>2
    <3>2. Count(rest, S) \in Nat /\ Count(a, S) \in Nat
      BY <2>2, CountFinite
    <3>3. Held(ItemsFor(c, r))' + Count(sock'[c].rcvq, {r}) + Count(a, S)
             <= Held(ItemsFor(c, r)) + Count(sock[c].rcvq, {r})
      BY <1>1 DEF Effect
    <3>4. /\ Held(ItemsFor(c, r)) \in Nat /\ Held(ItemsFor(c, r))' \in Nat
          /\ Count(sock[c].rcvq, {r}) \in Nat /\ Count(sock'[c].rcvq, {r}) \in Nat
          /\ Count(Stream(c), S) \in Nat
          /\ Count(Stream(c)', S) \in Nat
          /\ Total(c, r)' = Held(ItemsFor(c, r))' + Count(sock'[c].rcvq, {r})
                              + Count(Stream(c)', S)
      BY <1>0, TotalNat
    <3>5. Total(c, r) = Held(ItemsFor(c, r)) + Count(sock[c].rcvq, {r}) + Count(Stream(c), S)
      BY DEF Total
    <3> HIDE DEF S
    <3> QED
      BY ONLY <3>1, <3>2, <3>3, <3>4, <3>5, SMTT(30)
  <2>7. sock'[c].sent = sock[c].sent
    BY <1>1 DEF Effect, Sends
  <2> QED
    BY <1>0, <2>5, <2>6, <2>7, FramedConn
<1>4. ASSUME NEW d \in Conns
      PROVE  /\ Shaped(Stream(d)')
             /\ \A r \in Requests : Total(d, r)' <= IF r <= sock'[d].sent THEN 1 ELSE 0
  <2>1. CASE d = c
    BY <1>3, <2>1 DEF Total, Stream
  <2> QED
    BY <1>2, <2>1
<1> QED
  BY <1>4 DEF Framed, Shaped, Total

\* What is put behind a sequence counts for itself.
LEMMA CountAppend ==
  ASSUME NEW T, NEW q \in Seq(T), NEW f \in T, NEW S
  PROVE  Count(Append(q, f), S) = Count(q, S) + IF f \in S THEN 1 ELSE 0
<1>1. Append(q, f) = q \o <<f>>
  BY AppendIsConcat, Zenon
<1>2. <<f>> \in Seq(T)
  OBVIOUS
<1>3. Count(q \o <<f>>, S) = Count(q, S) + Count(<<f>>, S)
  BY <1>2, CountConcat
<1>4. Count(<<f>>, S) = IF f \in S THEN 1 ELSE 0
  BY CountOne
<1> QED
  BY <1>1, <1>3, <1>4

\* A peer numbers its frames: the one it sends now was nowhere.
LEMMA FramedPeers ==
  ASSUME Inv, Inv', Framed, Peers PROVE Framed'
<1>1. /\ UNCHANGED <<status, connId, conn, tasks, doneq, hand, running, ringing, thrown>>
      /\ UNCHANGED sock \/ \E c \in Conns : PeerDid(c)
  BY PeersEffect
<1>2. \A S : Held(S)' = Held(S)
  BY <1>1, HeldUnchanged
<1>3. ASSUME NEW c \in Conns, sock'[c] = sock[c]
      PROVE  /\ Shaped(Stream(c)')
             /\ \A r \in Requests : Total(c, r)' <= IF r <= sock'[c].sent THEN 1 ELSE 0
  <2>1. \A r \in Requests : Held(ItemsFor(c, r))' <= Held(ItemsFor(c, r))
    BY <1>2, HeldNat DEF Inv
  <2>2. conn'[c] = conn[c]
    BY <1>1
  <2> QED
    BY <1>3, <2>1, <2>2, FramedAlone
<1>4. ASSUME NEW c \in Conns, PeerDid(c)
      PROVE  /\ Shaped(Stream(c)')
             /\ \A r \in Requests : Total(c, r)' <= IF r <= sock'[c].sent THEN 1 ELSE 0
  <2>1. Stream(c)' = Stream(c)
    BY <1>1, <1>4 DEF PeerDid, Stream
  <2>2. Shaped(Stream(c)')
    BY <2>1 DEF Framed
  <2>3. ASSUME NEW r \in Requests
        PROVE  /\ Held(ItemsFor(c, r)) \in Nat
               /\ Held(ItemsFor(c, r))' = Held(ItemsFor(c, r))
               /\ Count(sock[c].rcvq, {r}) \in Nat
               /\ Count(Stream(c)', {HeadOf(c, r)}) = Count(Stream(c), {HeadOf(c, r)})
               /\ Count(Stream(c), {HeadOf(c, r)}) \in Nat
               /\ Total(c, r)' = Held(ItemsFor(c, r))' + Count(sock'[c].rcvq, {r})
                                   + Count(Stream(c)', {HeadOf(c, r)})
    BY <1>2, <2>1, TotalNat
  <2>4. sock[c].rcvq \in Seq(Requests \cup {Bad}) /\ sock[c].sent \in 0..MaxReq
    BY DEF Inv, Connections, SockState
  <2>5. CASE /\ sock'[c].sent = sock[c].sent + 1
             /\ \E f \in {Bad, sock[c].sent + 1} : sock'[c].rcvq = Append(sock[c].rcvq, f)
    <3>1. PICK f \in {Bad, sock[c].sent + 1} : sock'[c].rcvq = Append(sock[c].rcvq, f)
      BY <2>5
    <3>2. f \in Requests \cup {Bad}
      <4>1. sock'[c].sent \in 0..MaxReq
        BY DEF Inv, Connections, SockState
      <4> QED
        BY <2>4, <2>5, <4>1, BoundsAssumption DEF Requests
    <3>3. ASSUME NEW r \in Requests
          PROVE  Total(c, r)' <= IF r <= sock'[c].sent THEN 1 ELSE 0
      <4>1. Count(sock'[c].rcvq, {r}) = Count(sock[c].rcvq, {r}) + IF f = r THEN 1 ELSE 0
        <5> DEFINE S == {r}
                   q == sock[c].rcvq
        <5>1. q \in Seq(Requests \cup {Bad}) /\ (f \in S <=> f = r)
          BY <2>4
        <5> HIDE DEF S, q
        <5>2. Count(Append(q, f), S) = Count(q, S) + IF f \in S THEN 1 ELSE 0
          BY <3>2, <5>1, CountAppend
        <5>3. Count(Append(q, f), S) = Count(q, S) + IF f = r THEN 1 ELSE 0
          BY ONLY <5>1, <5>2
        <5> QED
          BY <3>1, <5>3 DEF S, q
      <4>2. Total(c, r) <= IF r <= sock[c].sent THEN 1 ELSE 0
        BY DEF Framed
      <4>3. /\ r \in Nat /\ r # Bad /\ sock[c].sent \in Nat
            /\ f = Bad \/ f = sock[c].sent + 1
        BY <2>4, BoundsAssumption DEF Requests, Bad
      <4>4. Total(c, r)' = Total(c, r) + IF f = r THEN 1 ELSE 0
        <5> DEFINE one == IF f = r THEN 1 ELSE 0
        <5>1. Count(sock'[c].rcvq, {r}) = Count(sock[c].rcvq, {r}) + one /\ one \in Nat
          BY <4>1
        <5>2. /\ Held(ItemsFor(c, r)) \in Nat
              /\ Held(ItemsFor(c, r))' = Held(ItemsFor(c, r))
              /\ Count(sock[c].rcvq, {r}) \in Nat
              /\ Count(Stream(c)', {HeadOf(c, r)}) = Count(Stream(c), {HeadOf(c, r)})
              /\ Count(Stream(c), {HeadOf(c, r)}) \in Nat
              /\ Total(c, r)' = Held(ItemsFor(c, r))' + Count(sock'[c].rcvq, {r})
                                  + Count(Stream(c)', {HeadOf(c, r)})
          BY <2>3
        <5> HIDE DEF one
        <5>3. Total(c, r)' = Total(c, r) + one
          BY ONLY <5>1, <5>2 DEF Total
        <5> QED
          BY <5>3 DEF one
      <4>5. Total(c, r) \in Nat
        BY TotalNat
      <4>6. Total(c, r)' <= IF r <= sock[c].sent + 1 THEN 1 ELSE 0
        <5> DEFINE n == sock[c].sent
                   x == Total(c, r)
                   y == Total(c, r)'
        <5>1. /\ x <= (IF r <= n THEN 1 ELSE 0) /\ x \in Nat /\ r \in Nat /\ r # Bad
              /\ n \in Nat
              /\ f = Bad \/ f = n + 1
              /\ y = x + IF f = r THEN 1 ELSE 0
          BY <4>2, <4>3, <4>4, <4>5
        <5> HIDE DEF n, x, y
        <5>2. CASE f = r
          <6>1. r = n + 1
            BY ONLY <5>1, <5>2
          <6>2. x = 0 /\ y = 1
            BY ONLY <5>1, <5>2, <6>1
          <6> QED
            BY ONLY <5>1, <6>1, <6>2 DEF n, y
        <5>3. CASE f # r
          <6>1. y <= IF r <= n + 1 THEN 1 ELSE 0
            BY ONLY <5>1, <5>3
          <6> QED
            BY <6>1 DEF n, y
        <5> QED
          BY <5>2, <5>3
      <4> QED
        BY <2>5, <4>6
    <3> QED
      BY <2>2, <3>3
  <2>6. CASE sock'[c].sent = sock[c].sent /\ sock'[c].rcvq \in {sock[c].rcvq, <<>>}
    <3>1. ASSUME NEW r \in Requests PROVE Total(c, r)' <= Total(c, r)
      <4> DEFINE q == sock'[c].rcvq
      <4>1. q \in {sock[c].rcvq, <<>>}
        BY <2>6
      <4>2. Total(c, r)' = Held(ItemsFor(c, r)) + Count(q, {r})
                             + Count(Stream(c), {HeadOf(c, r)})
        BY <2>3
      <4> HIDE DEF q
      <4>3. Count(q, {r}) <= Count(sock[c].rcvq, {r}) /\ Count(q, {r}) \in Nat
        BY <4>1, RcvqCounted DEF Inv
      <4>4. /\ Held(ItemsFor(c, r)) \in Nat /\ Count(sock[c].rcvq, {r}) \in Nat
            /\ Count(Stream(c), {HeadOf(c, r)}) \in Nat
        BY <2>3
      <4> QED
        BY ONLY <4>2, <4>3, <4>4 DEF Total
    <3> QED
      BY <2>2, <2>6, <3>1, FramedConn
  <2> QED
    BY <1>4, <2>5, <2>6 DEF PeerDid
<1>5. ASSUME NEW c \in Conns
      PROVE  /\ Shaped(Stream(c)')
             /\ \A r \in Requests : Total(c, r)' <= IF r <= sock'[c].sent THEN 1 ELSE 0
  <2>1. sock'[c] = sock[c] \/ PeerDid(c)
    BY <1>1 DEF PeerDid
  <2> QED
    BY <1>3, <1>4, <2>1
<1> QED
  BY <1>5 DEF Framed, Shaped, Total

\* A new connection has an empty stream, and no request that could be on it.
LEMMA FramedAccept ==
  ASSUME Inv, Inv', Booked, Framed, Accept PROVE Framed'
<1>0. PICK c : c = connId + 1
  OBVIOUS
<1> DEFINE s == [NewSock EXCEPT !.peer = "open"]
<1>1. c \in Conns /\ c > connId
  BY <1>0, BoundsAssumption DEF Inv, Table, Accept, Conns
<1>2. \A S : Held(S)' = Held(S)
  BY HeldUnchanged DEF Accept, pool, mailbox
<1>3. /\ sock' = [sock EXCEPT ![c] = s]
      /\ conn' = [conn EXCEPT ![c] = Fresh]
  BY <1>0 DEF Accept
<1>4. s.wire = <<>> /\ s.rcvq = <<>>
  BY DEF NewSock
<1> HIDE DEF s
<1>5. conn \in [Conns -> ConnState] /\ sock \in [Conns -> SockState]
  BY DEF Inv, Connections
<1>6. ASSUME NEW d \in Conns
      PROVE  /\ Shaped(Stream(d)')
             /\ \A r \in Requests : Total(d, r)' <= IF r <= sock'[d].sent THEN 1 ELSE 0
  <2>1. CASE d # c
    <3>1. \A r \in Requests : Held(ItemsFor(d, r))' <= Held(ItemsFor(d, r))
      BY <1>2, HeldNat DEF Inv
    <3>2. conn'[d] = conn[d] /\ sock'[d] = sock[d]
      BY <1>3, <1>5, <2>1
    <3> QED
      BY <3>1, <3>2, FramedAlone
  <2>2. CASE d = c
    <3>1. conn'[d] = Fresh /\ sock'[d] = s
      BY <1>1, <1>3, <1>5, <2>2
    <3>2. Stream(d)' = <<>>
      BY <1>4, <3>1 DEF Stream, Fresh
    <3>3. Shaped(Stream(d)')
      BY <3>2 DEF Shaped
    <3>4. ASSUME NEW r \in Requests PROVE Total(d, r)' = 0
      <4>1. Held(ItemsFor(d, r)) <= Held(ItemsOf(d))
        <5>1. ItemsFor(d, r) \subseteq ItemsOf(d)
          BY DEF ItemsFor, ItemsOf
        <5> QED
          BY <5>1, HeldMonotone DEF Inv
      <4>2. Held(ItemsOf(d)) = 0
        BY <1>1, <2>2 DEF Booked
      <4>3. Held(ItemsFor(d, r))' = 0
        <5>1. Held(ItemsFor(d, r)) \in Nat
          BY HeldNat DEF Inv
        <5> QED
          BY <1>2, <4>1, <4>2, <5>1
      <4>4. Count(<<>>, {r}) = 0 /\ Count(<<>>, {HeadOf(d, r)}) = 0
        BY CountOne
      <4>5. Count(sock'[d].rcvq, {r}) = 0 /\ Count(Stream(d)', {HeadOf(d, r)}) = 0
        BY <1>4, <3>1, <3>2, <4>4
      <4>6. Total(d, r)' = Held(ItemsFor(d, r))' + Count(sock'[d].rcvq, {r})
                             + Count(Stream(d)', {HeadOf(d, r)})
        BY TotalNat
      <4> QED
        BY ONLY <4>3, <4>5, <4>6
    <3> QED
      BY <3>3, <3>4
  <2> QED
    BY <2>1, <2>2
<1> QED
  BY <1>6 DEF Framed, Shaped, Total

\* The end of start() cuts the streams off.
LEMMA FramedCloseAll ==
  ASSUME Inv, Inv', Framed, CloseAll PROVE Framed'
<1>1. \A S : Held(S)' = Held(S)
  BY HeldUnchanged DEF CloseAll, pool, mailbox
<1>2. ASSUME NEW c \in Conns
      PROVE  /\ conn'[c] = Fresh
             /\ sock'[c].wire = sock[c].wire /\ sock'[c].sent = sock[c].sent
             /\ sock'[c].rcvq \in {sock[c].rcvq, <<>>}
  <2>1. sock[c] \in SockState
    BY DEF Inv, Connections
  <2>2. sock'[c] = IF c \in Live
                   THEN [sock[c] EXCEPT !.peer = "over", !.rcvq = <<>>, !.read = 0]
                   ELSE sock[c]
    BY DEF CloseAll
  <2>3. conn'[c] = Fresh
    BY DEF CloseAll
  <2> QED
    BY <2>1, <2>2, <2>3 DEF SockState
<1>3. ASSUME NEW c \in Conns
      PROVE  /\ Shaped(Stream(c)')
             /\ \A r \in Requests : Total(c, r)' <= IF r <= sock'[c].sent THEN 1 ELSE 0
  <2>1. sock[c].wire \in Seq(Cells) /\ conn[c].out \in Seq(Cells)
    BY DEF Inv, Connections, ConnState, SockState
  <2>2. Stream(c)' = sock[c].wire
    <3>1. Stream(c)' = sock'[c].wire \o conn'[c].out /\ Fresh.out = <<>>
      BY DEF Stream, Fresh
    <3>2. Stream(c)' = sock[c].wire \o <<>>
      BY ONLY <1>2, <3>1, c \in Conns, Zenon
    <3> QED
      BY <2>1, <3>2, Glue
  <2>3. Shaped(Stream(c)')
    <3>1. Shaped(sock[c].wire \o conn[c].out)
      BY DEF Framed, Stream
    <3> QED
      BY <2>1, <2>2, <3>1, ShapedPrefix
  <2>4. ASSUME NEW r \in Requests PROVE Total(c, r)' <= Total(c, r)
    <3> DEFINE q == sock'[c].rcvq
               S == {HeadOf(c, r)}
    <3>1. q \in {sock[c].rcvq, <<>>}
      BY <1>2
    <3>2. /\ Held(ItemsFor(c, r)) \in Nat
          /\ Held(ItemsFor(c, r))' = Held(ItemsFor(c, r))
          /\ Total(c, r)' = Held(ItemsFor(c, r))' + Count(q, {r}) + Count(Stream(c)', S)
      BY <1>1, TotalNat
    <3>3. Total(c, r) = Held(ItemsFor(c, r)) + Count(sock[c].rcvq, {r}) + Count(Stream(c), S)
      BY DEF Total
    <3> HIDE DEF q, S
    <3>4. /\ Count(q, {r}) <= Count(sock[c].rcvq, {r})
          /\ Count(q, {r}) \in Nat /\ Count(sock[c].rcvq, {r}) \in Nat
      BY <3>1, RcvqCounted DEF Inv
    <3>5. Count(Stream(c), S) = Count(Stream(c)', S) + Count(conn[c].out, S)
      <4>1. Count(sock[c].wire \o conn[c].out, S)
               = Count(sock[c].wire, S) + Count(conn[c].out, S)
        BY <2>1, CountConcat
      <4> QED
        BY <2>2, <4>1 DEF Stream
    <3>6. Count(Stream(c)', S) \in Nat /\ Count(conn[c].out, S) \in Nat
      <4>1. Count(sock[c].wire, S) \in Nat /\ Count(conn[c].out, S) \in Nat
        BY <2>1, CountFinite
      <4> QED
        BY <2>2, <4>1
    <3> QED
      BY ONLY <3>2, <3>3, <3>4, <3>5, <3>6
  <2> QED
    BY <1>2, <2>3, <2>4, FramedConn
<1> QED
  BY <1>3 DEF Framed, Shaped, Total

\* Every step keeps the frames whole.
LEMMA FramedStep ==
  ASSUME Inv, Inv', Booked, Framed, [Next]_vars PROVE Framed'
<1>1. CASE Peers
  BY <1>1, FramedPeers
<1>2. CASE (\E w \in Workers : WorkerStep(w)) \/ Quiet \/ Wait
  BY <1>2, QuietUntouched, FramedUntouched
<1>3. CASE Dispatch
  BY <1>3, DispatchEffect, FramedUntouched, FramedTouched
<1>4. CASE Accept
  BY <1>4, FramedAccept
<1>5. CASE OndoneItem
  BY <1>5, ItemEffect, FramedUntouched, FramedTouched
<1>6. CASE CloseAll
  BY <1>6, FramedCloseAll
<1>7. CASE UNCHANGED vars
  <2>1. UNCHANGED <<status, connId, conn, sock, tasks, doneq, hand, running, ringing, thrown>>
    BY <1>7 DEF vars
  <2>2. \A S \in SUBSET Items : Held(S)' = Held(S)
    BY <2>1, HeldUnchanged
  <2>3. Untouched
    BY <2>1, <2>2, AllHeld
  <2> QED
    BY <2>3, FramedUntouched
<1> QED
  BY <1>1, <1>2, <1>3, <1>4, <1>5, <1>6, <1>7 DEF Next, ReactorStep, Quiet

\* Nothing is on a stream to begin with.
LEMMA FramedInit == Init => Framed
<1> SUFFICES ASSUME Init, NEW c \in Conns
             PROVE  /\ Shaped(Stream(c))
                    /\ \A r \in Requests :
                          Total(c, r) <= IF r <= sock[c].sent THEN 1 ELSE 0
  BY DEF Framed
<1>1. /\ sock[c].wire = <<>> /\ sock[c].rcvq = <<>> /\ conn[c].out = <<>>
      /\ tasks = <<>> /\ doneq = <<>> /\ hand = <<>> /\ thrown = <<>>
  BY DEF Init, NewSock, Fresh
<1>2. Stream(c) = <<>>
  BY <1>1 DEF Stream
<1>3. Shaped(Stream(c))
  BY <1>2 DEF Shaped
<1>4. ASSUME NEW r \in Requests PROVE Total(c, r) = 0
  <2>1. Busy(ItemsFor(c, r)) = {}
    BY DEF Init, Busy, ItemsFor, NoItem, Items, Fds
  <2>2. Cardinality(Busy(ItemsFor(c, r))) = 0
    BY <2>1, FS_EmptySet
  <2>3. \A S : Count(<<>>, S) = 0
    BY CountOne
  <2>4. /\ Count(tasks, ItemsFor(c, r)) = 0 /\ Count(doneq, ItemsFor(c, r)) = 0
        /\ Count(hand, ItemsFor(c, r)) = 0 /\ Count(thrown, ItemsFor(c, r)) = 0
        /\ Count(sock[c].rcvq, {r}) = 0 /\ Count(Stream(c), {HeadOf(c, r)}) = 0
    BY <1>1, <1>2, <2>3
  <2> QED
    BY ONLY <2>2, <2>4 DEF Total, Held
<1> QED
  BY <1>3, <1>4

\* Frames are whole in every state the server can reach.
THEOREM FramesInvariance == Spec => [](Inv /\ Framed)
<1>1. Init => Framed
  BY FramedInit
<1>2. (Inv /\ Booked) /\ (Inv /\ Booked)' /\ Framed /\ [Next]_vars => Framed'
  BY FramedStep
<1> QED
  BY <1>1, <1>2, BooksInvariance, PTL DEF Spec

\* However small a socket's buffer, and however many times ondone and handwrite take turns
\* at one stream, what a peer has been sent or will be is whole frames, each the answer to
\* another of its requests: a half-sent frame is finished before the next begins, and
\* no request is answered twice.
THEOREM FramesAreIntact == Spec => []FramesIntact
<1>1. Inv /\ Framed => FramesIntact
  <2> SUFFICES ASSUME Inv, Framed, NEW c \in Conns
               PROVE  LET s == Stream(c)
                          Whole == {i \in 1..Len(s) : i % 2 = 1}
                      IN  /\ \A i \in Whole : s[i].part = "head"
                          /\ \A i \in Whole : i < Len(s) => /\ s[i + 1].part = "tail"
                                                           /\ s[i + 1].req = s[i].req
                          /\ \A i, j \in Whole : i # j => s[i].req # s[j].req
    BY DEF FramesIntact
  <2> DEFINE s == Stream(c)
             Whole == {i \in 1..Len(s) : i % 2 = 1}
  <2>1. /\ \A i \in Whole : s[i].part = "head"
        /\ \A i \in Whole : i < Len(s) => s[i + 1].part = "tail" /\ s[i + 1].req = s[i].req
    BY DEF Framed, Shaped
  <2>2. ASSUME NEW i \in Whole, NEW j \in Whole, s[i].req = s[j].req PROVE i = j
    <3> DEFINE r == s[i].req
    <3>1. s \in Seq(Cells) /\ s \in Seq(Own(c))
      <4>1. sock[c].wire \in Seq(Own(c)) /\ conn[c].out \in Seq(Own(c))
        BY DEF Inv, Connections, ConnWell, SockWell
      <4>2. s \in Seq(Own(c))
        BY <4>1, ConcatProperties DEF Stream
      <4> QED
        BY <4>2, OwnCells
    <3>2. s[i] \in Own(c) /\ s[j] \in Own(c) /\ s[i].part = "head" /\ s[j].part = "head"
      BY <2>1, <3>1, ElementOfSeq
    <3>3. r \in Requests /\ s[i] = HeadOf(c, r) /\ s[j] = HeadOf(c, r)
      BY <2>2, <3>2 DEF Own, HeadOf
    <3>4. Count(s, {HeadOf(c, r)}) <= 1
      <4> HIDE DEF s, r
      <4>1. Total(c, r) <= 1
        <5>1. Total(c, r) <= IF r <= sock[c].sent THEN 1 ELSE 0
          BY <3>3 DEF Framed
        <5>2. (IF r <= sock[c].sent THEN 1 ELSE 0) \in {0, 1}
          OBVIOUS
        <5>3. Total(c, r) \in Nat
          <6>1. Held(ItemsFor(c, r)) \in Nat
            BY HeldNat DEF Inv
          <6>2. Count(sock[c].rcvq, {r}) \in Nat
            BY RcvqCounted DEF Inv
          <6>3. Count(Stream(c), {HeadOf(c, r)}) \in Nat
            BY <3>1, CountFinite DEF s
          <6> QED
            BY ONLY <6>1, <6>2, <6>3 DEF Total
        <5> QED
          BY ONLY <5>1, <5>2, <5>3
      <4>2. /\ Held(ItemsFor(c, r)) \in Nat /\ Count(sock[c].rcvq, {r}) \in Nat
            /\ Count(s, {HeadOf(c, r)}) \in Nat
        BY <3>1, HeldNat, RcvqCounted, CountFinite DEF Inv
      <4>3. Total(c, r) = Held(ItemsFor(c, r)) + Count(sock[c].rcvq, {r})
                            + Count(s, {HeadOf(c, r)})
        BY DEF Total, s
      <4> QED
        BY ONLY <4>1, <4>2, <4>3
    <3>5. i \in 1..Len(s) /\ j \in 1..Len(s)
      OBVIOUS
    <3>6. s[i] \in {HeadOf(c, r)} /\ s[j] \in {HeadOf(c, r)}
      BY <3>3
    <3> HIDE DEF s, r
    <3> QED
      BY <3>1, <3>4, <3>5, <3>6, AtMostOne
  <2> QED
    BY <2>1, <2>2
<1> QED
  BY <1>1, FramesInvariance, PTL

-----------------------------------------------------------------------------
(* The done queue.                                                         *)

\* What epoll reports of the eventfd.
BellEvent == [fd |-> DoneFd, of |-> NoConn, flags |-> {"IN"}]

\* The eventfd, when an event of the batch says so, is readable: nobody else reads it,
\* and it is in a batch once.
BellWell == \A e \in batch : e.fd = DoneFd => bell /\ e = BellEvent

\* Nothing but ondone takes the eventfd back.
LEMMA BellStep ==
  ASSUME Inv, BellWell, [Next]_vars PROVE BellWell'
<1> USE DEF BellWell
<1>1. CASE Peers
  <2>1. UNCHANGED <<pc, batch, bell, hand>>
    BY <1>1 DEF Peers, Connect, PeerSend, PeerFin, PeerReset, PeerRead, loop, mailbox
  <2> QED
    BY <2>1
<1>2. CASE \E w \in Workers : WorkerStep(w)
  BY <1>2 DEF WorkerStep, WorkerTake, WorkerPush, WorkerRing, WorkerThrow, loop, mailbox
<1>3. CASE OnSignal
  <2>1. /\ batch' = batch /\ hand' = hand
        /\ bell => bell'
    BY <1>3 DEF OnSignal
  <2>2. pc' = pc \/ pc = "wait"
    BY <1>3 DEF OnSignal, Interrupt
  <2> QED
    BY <2>1, <2>2
<1>4. CASE DeadlinePasses
  BY <1>4 DEF DeadlinePasses, loop, mailbox
<1>5. CASE Top \/ BeginStop \/ Linger \/ WaitTimesOut \/ AcceptShed \/ AcceptNoMore
             \/ Accept \/ CloseAll
  <2>1. pc # "items" /\ UNCHANGED <<batch, bell, hand>>
    BY <1>5 DEF Top, BeginStop, Linger, WaitTimesOut, AcceptShed, AcceptNoMore, Accept,
       CloseAll, loop, mailbox
  <2> QED
    BY <2>1
<1>6. CASE Wait
  <2>1. pc = "wait" /\ batch' = Ready /\ UNCHANGED <<bell, hand>>
    BY <1>6 DEF Wait, mailbox
  <2>2. ASSUME NEW e \in Ready, e.fd = DoneFd PROVE bell /\ e = BellEvent
    BY <2>2, BoundsAssumption DEF Ready, Fds, DoneFd, ListenFd, BellEvent
  <2> QED
    BY <2>1, <2>2
<1>7. CASE Dispatch
  <2>1. PICK e \in batch : /\ batch' = batch \ {e}
                           /\ \/ OndoneRead(e) \/ OnacceptEnter(e)
                              \/ EventOfNobody(e) \/ EventOfConnection(e)
    BY <1>7 DEF Dispatch
  <2>2. hand' = hand
    BY <1>7, <2>1 DEF Dispatch, OndoneRead, OnacceptEnter, EventOfNobody,
       EventOfConnection, mailbox
  <2>3. CASE OndoneRead(e)
    <3>1. e = BellEvent
      BY <2>3 DEF OndoneRead
    <3> QED
      BY <2>1, <2>2, <3>1
  <2>4. CASE ~OndoneRead(e)
    <3>1. bell' = bell
      BY <2>1, <2>4 DEF OnacceptEnter, EventOfNobody, EventOfConnection, mailbox
    <3> QED
      BY <2>1, <2>2, <3>1
  <2> QED
    BY <2>3, <2>4
<1>8. CASE OndoneDrain
  BY <1>8 DEF OndoneDrain
<1>9. CASE OndoneItem
  BY <1>9 DEF OndoneItem
<1>10. CASE UNCHANGED vars
  BY <1>10 DEF vars
<1> QED
  BY <1>1, <1>2, <1>3, <1>4, <1>5, <1>6, <1>7, <1>8, <1>9, <1>10 DEF Next, ReactorStep

\* What is in the done queue and in ondone's hand are answers to different requests, of
\* which there are MaxConn * MaxReq.
LEMMA FewDone ==
  ASSUME Inv, Framed
  PROVE  Len(doneq) + Len(hand) <= MaxConn * MaxReq
<1> DEFINE q == doneq \o hand
           D == 1..Len(q)
           R == Conns \X Requests
           f == [i \in D |-> <<q[i].id, q[i].req>>]
<1>1. doneq \in Seq(Items) /\ hand \in Seq(Items)
  BY DEF Inv, Queues
<1>2. /\ q \in Seq(Items) /\ Len(q) = Len(doneq) + Len(hand) /\ Len(q) \in Nat
  <2>1. q \in Seq(Items) /\ Len(q) = Len(doneq) + Len(hand)
    BY <1>1, ConcatProperties
  <2> QED
    BY <2>1, LenProperties
<1>3. ASSUME NEW c \in Conns, NEW r \in Requests PROVE Count(q, ItemsFor(c, r)) <= 1
  <2> DEFINE S == ItemsFor(c, r)
  <2>1. Total(c, r) <= IF r <= sock[c].sent THEN 1 ELSE 0
    BY DEF Framed
  <2>2. Count(tasks, S) \in Nat /\ Count(doneq, S) \in Nat /\ Count(hand, S) \in Nat
        /\ Count(thrown, S) \in Nat /\ Cardinality(Busy(S)) \in Nat
    BY HeldNat DEF Inv
  <2>3. Count(sock[c].rcvq, {r}) \in Nat
    BY RcvqCounted DEF Inv
  <2>4. Count(Stream(c), {HeadOf(c, r)}) \in Nat
    <3>1. sock[c].wire \in Seq(Cells) /\ conn[c].out \in Seq(Cells)
      BY DEF Inv, Connections, ConnState, SockState
    <3>2. Stream(c) \in Seq(Cells)
      BY <3>1, Glue DEF Stream
    <3> QED
      BY <3>2, CountFinite
  <2>5. Count(q, S) = Count(doneq, S) + Count(hand, S)
    BY <1>1, CountConcat
  <2>6. Total(c, r) = Count(tasks, S) + Count(doneq, S) + Count(hand, S)
                        + Count(thrown, S) + Cardinality(Busy(S)) + Count(sock[c].rcvq, {r})
                        + Count(Stream(c), {HeadOf(c, r)})
    BY DEF Total, Held
  <2>7. (IF r <= sock[c].sent THEN 1 ELSE 0) \in {0, 1}
    OBVIOUS
  <2> HIDE DEF q, S
  <2>8. Count(q, S) <= 1
    BY ONLY <2>1, <2>2, <2>3, <2>4, <2>5, <2>6, <2>7
  <2> QED
    BY <2>8 DEF S
<1> HIDE DEF q
<1>4. \A i \in D : q[i] \in Items
  BY <1>2, ElementOfSeq
<1>5. f \in [D -> R]
  BY <1>4 DEF Items
<1>6. ASSUME NEW i \in D, NEW j \in D, f[i] = f[j] PROVE i = j
  <2> DEFINE c == q[i].id
             r == q[i].req
  <2>1. c \in Conns /\ r \in Requests /\ q[j].id = c /\ q[j].req = r
    BY <1>4, <1>6 DEF Items
  <2>2. q[i] \in ItemsFor(c, r) /\ q[j] \in ItemsFor(c, r)
    BY <1>4, <2>1 DEF ItemsFor
  <2>3. Count(q, ItemsFor(c, r)) <= 1
    BY <1>3, <2>1
  <2> HIDE DEF c, r
  <2> QED
    BY <1>2, <2>2, <2>3, AtMostOne
<1>7. IsFiniteSet(R) /\ Cardinality(R) = MaxConn * MaxReq
  <2>1. IsFiniteSet(Conns) /\ Cardinality(Conns) = MaxConn
    BY BoundsAssumption, FS_Interval DEF Conns
  <2>2. IsFiniteSet(Requests) /\ Cardinality(Requests) = MaxReq
    BY BoundsAssumption, FS_Interval DEF Requests
  <2> QED
    BY <2>1, <2>2, FS_Product
<1>8. IsFiniteSet(D) /\ Cardinality(D) = Len(q)
  BY <1>2, FS_Interval
<1> HIDE DEF D, R, f
<1>9. f \in Injection(D, R)
  BY <1>5, <1>6 DEF Injection, IsInjective
<1>10. Cardinality(D) <= Cardinality(R)
  BY <1>7, <1>9, FS_Injection
<1> QED
  BY <1>2, <1>7, <1>8, <1>10

\* Every step of the server is one of the done queue's, or leaves it alone.
LEMMA DoneStep ==
  ASSUME Inv, BellWell, Framed, [Next]_vars
  PROVE  [Done!Next]_(Done!vars)
<1> DEFINE woken == pc = "drain"
<1>0. SUFFICES Done!Next \/ (UNCHANGED <<doneq, bell, ringing, hand>> /\ woken' = woken)
  BY DEF Done!vars
<1>1. CASE Peers
  BY <1>1 DEF Peers, Connect, PeerSend, PeerFin, PeerReset, PeerRead, loop, pool, mailbox
<1>2. ASSUME NEW w \in Workers, WorkerStep(w)
      PROVE  Done!Next \/ (UNCHANGED <<doneq, bell, ringing, hand>> /\ woken' = woken)
  <2>1. hand' = hand /\ pc' = pc
    BY <1>2 DEF WorkerStep, WorkerTake, WorkerPush, WorkerRing, WorkerThrow, loop, mailbox
  <2>2. CASE WorkerTake(w) \/ WorkerThrow(w)
    BY <2>1, <2>2 DEF WorkerTake, WorkerThrow, mailbox
  <2>3. CASE WorkerPush(w)
    <3>1. running[w] \in Items
      BY <2>3 DEF WorkerPush, Inv, Queues
    <3>2. Len(doneq) + Len(hand) < MaxConn * MaxReq + 1
      <4>1. Len(doneq) \in Nat /\ Len(hand) \in Nat
        BY LenProperties DEF Inv, Queues
      <4>2. MaxConn \in Nat /\ MaxReq \in Nat
        BY BoundsAssumption
      <4>3. PICK m \in Nat : m = MaxConn * MaxReq
        BY <4>2
      <4>4. Len(doneq) + Len(hand) <= m
        BY <4>3, FewDone
      <4>5. Len(doneq) + Len(hand) < m + 1
        BY ONLY <4>1, <4>3, <4>4
      <4> QED
        BY <4>3, <4>5
    <3>3. Done!Push(w, running[w])
      BY <2>1, <2>3, <3>2 DEF WorkerPush, Done!Push
    <3> QED
      BY <3>1, <3>3 DEF Done!Next
  <2>4. CASE WorkerRing(w)
    <3>1. Done!Ring(w)
      BY <2>1, <2>4 DEF WorkerRing, Done!Ring
    <3> QED
      BY <3>1 DEF Done!Next
  <2> QED
    BY <1>2, <2>2, <2>3, <2>4 DEF WorkerStep
<1>3. CASE OnSignal
  <2>1. /\ UNCHANGED <<doneq, ringing, hand>>
        /\ woken' = woken
    BY <1>3 DEF OnSignal, Interrupt, pool
  <2>2. bell' = bell \/ bell' = TRUE
    BY <1>3 DEF OnSignal
  <2> QED
    BY <2>1, <2>2 DEF Done!Next, Done!Nudge
<1>4. CASE \/ DeadlinePasses \/ Top \/ BeginStop \/ Linger \/ Wait \/ WaitTimesOut \/ Accept
           \/ AcceptShed \/ AcceptNoMore \/ CloseAll
  <2>1. UNCHANGED <<doneq, bell, ringing, hand>>
    BY <1>4 DEF DeadlinePasses, Top, BeginStop, Linger, Wait, WaitTimesOut, Accept,
       AcceptShed, AcceptNoMore, CloseAll, pool, mailbox
  <2>2. pc' = pc \/ (pc # "drain" /\ pc' # "drain")
    BY <1>4 DEF DeadlinePasses, Top, BeginStop, Linger, Wait, WaitTimesOut, Accept,
       AcceptShed, AcceptNoMore, CloseAll, Continue, loop
  <2> QED
    BY <2>1, <2>2
<1>5. CASE Dispatch
  <2>1. PICK e \in batch : \/ OndoneRead(e) \/ OnacceptEnter(e)
                           \/ EventOfNobody(e) \/ EventOfConnection(e)
    BY <1>5 DEF Dispatch
  <2>2. pc = "dispatch" /\ ringing' = ringing
    BY <1>5 DEF Dispatch
  <2>3. CASE OndoneRead(e)
    <3>1. bell /\ hand = <<>>
      BY <2>2, <2>3 DEF BellWell, OndoneRead, Inv, Queues
    <3>2. bell' = FALSE /\ UNCHANGED <<doneq, hand>> /\ ~woken /\ woken'
      BY <2>2, <2>3 DEF OndoneRead
    <3>3. Done!ReadBell
      BY <2>2, <3>1, <3>2 DEF Done!ReadBell
    <3> QED
      BY <3>3 DEF Done!Next
  <2>4. CASE OnacceptEnter(e) \/ EventOfNobody(e) \/ EventOfConnection(e)
    <3>1. UNCHANGED <<doneq, bell, hand>> /\ pc' # "drain"
      BY <2>4 DEF OnacceptEnter, EventOfNobody, EventOfConnection, Continue, mailbox
    <3> QED
      BY <2>2, <3>1
  <2> QED
    BY <2>1, <2>3, <2>4
<1>6. CASE OndoneDrain
  <2>1. /\ woken /\ ~woken' /\ hand' = doneq /\ doneq' = <<>>
        /\ UNCHANGED <<bell, ringing>>
    BY <1>6 DEF OndoneDrain, Continue, pool
  <2>2. Done!Drain
    BY <2>1 DEF Done!Drain
  <2> QED
    BY <2>2 DEF Done!Next
<1>7. CASE OndoneItem
  <2>1. /\ hand # <<>> /\ hand' = Tail(hand) /\ UNCHANGED <<doneq, bell, ringing>>
        /\ woken' = woken
    BY <1>7 DEF OndoneItem, Continue, Inv, Queues, pool
  <2>2. Done!TakeItem
    BY <2>1 DEF Done!TakeItem
  <2> QED
    BY <2>2 DEF Done!Next
<1>8. CASE UNCHANGED vars
  BY <1>8 DEF vars
<1> QED
  BY <1>1, <1>2, <1>3, <1>4, <1>5, <1>6, <1>7, <1>8 DEF Next, ReactorStep

\* The reactor and its workers use the done queue as Donequeue describes it: a worker rings
\* only after it has pushed, the eventfd is read only when it is readable and the last
\* deque is through, and the queue never holds more answers than there are requests.  So
\* what is proved of Donequeue holds in the server.
THEOREM DonequeueUsed == Spec => UsesDonequeue
<1>1. Init => Done!Init
  BY DEF Init, Done!Init
<1>2. Init => BellWell
  BY DEF Init, BellWell
<1>3. Inv /\ BellWell /\ [Next]_vars => BellWell'
  BY BellStep
<1>4. Inv /\ BellWell /\ Framed /\ [Next]_vars => [Done!Next]_(Done!vars)
  BY DoneStep
<1> QED
  BY <1>1, <1>2, <1>3, <1>4, FramesInvariance, PTL DEF Spec, UsesDonequeue
=============================================================================
