----------------------------- MODULE BenchClient -----------------------------
(***************************************************************************)
(* src/src/bench_client.cpp: the load generator that decides whether the   *)
(* server is right.  It opens its connections, keeps up to Depth requests  *)
(* under way on each, and gives a verdict from what comes back.            *)
(*                                                                         *)
(* A request is two cells, so that a send can end inside it; an answer is  *)
(* the number it bears and whether its payload is the one that was sent.   *)
(* The server reads and answers in any order, and does so wrongly, or      *)
(* hangs up, as far as Faults and MaxFaults allow.                         *)
(***************************************************************************)
EXTENDS Naturals, Sequences, FiniteSets, FiniteSetsExt, SequencesExt

CONSTANTS Conns,      \* the connections (-c)
          PerConn,    \* requests on each (-n)
          Depth,      \* requests under way on each (-d)
          Check,      \* payloads are compared (--check)
          Room,       \* cells of requests that fit into a socket
          Back,       \* answers that fit into it on the way back
          Faults,     \* which of "refuse", "answer", "lose", "repeat", "hangup",
                      \* "deadline" may happen
          MaxFaults   \* bound: faults of the server

ASSUME ArgsAssumption == /\ PerConn \in Nat \ {0} /\ Depth \in Nat \ {0}
                         /\ Room \in Nat \ {0} /\ Back \in Nat \ {0} /\ MaxFaults \in Nat
                         /\ Check \in BOOLEAN /\ IsFiniteSet(Conns)

VARIABLES pc,        \* where main is: "connect", "pump", "wait", "handle", "end"
          conn,      \* the Conn of each connection and what its socket holds
          batch,     \* what epoll_wait has returned and is still to be handled
          total,     \* received, extra, errors, tampered
          verdict,   \* "none", "PASS" or "FAIL"
          held,      \* the requests the server has read and not answered
          faults,    \* the faults so far
          got        \* every answer the client has taken, by connection

vars == <<pc, conn, batch, total, verdict, held, faults, got>>

Ids == 0..(PerConn - 1)
Cells == [id : Ids, last : BOOLEAN]
Answers == [id : 0..PerConn, intact : BOOLEAN]   \* PerConn: an id nobody used
Broken == [id |-> PerConn + 1, intact |-> FALSE] \* a frame the decoder does not take

\* A Conn that connects; outbuf is what it has not been able to send, up and
\* down are what its socket holds, peer is what has been heard of the server.
Fresh == [st |-> "connecting", ev |-> {"out"}, next_id |-> 0, done_cnt |-> 0,
          inflight |-> 0, pending |-> {}, outbuf |-> <<>>,
          up |-> <<>>, down |-> <<>>, peer |-> "up"]

Gone == [Fresh EXCEPT !.st = "gone", !.ev = {}]

Open == {c \in Conns : conn[c].st = "open"}

TypeOK == /\ pc \in {"connect", "pump", "wait", "handle", "end"}
          /\ \A c \in Conns :
                /\ conn[c].st \in {"connecting", "open", "gone"}
                /\ conn[c].ev \subseteq {"in", "out"}
                /\ conn[c].next_id \in 0..PerConn /\ conn[c].done_cnt \in 0..PerConn
                /\ conn[c].inflight \in 0..Depth /\ conn[c].pending \subseteq Ids
                /\ conn[c].outbuf \in Seq(Cells) /\ conn[c].up \in Seq(Cells)
                /\ conn[c].down \in Seq(Answers \cup {Broken})
                /\ conn[c].peer \in {"up", "fin", "reset"}
          /\ \A b \in batch : b.c \in Conns /\ b.e \subseteq {"in", "out", "hup"}
          /\ total \in [received : Nat, extra : Nat, errors : Nat, tampered : Nat]
          /\ verdict \in {"none", "PASS", "FAIL"}
          /\ held \in [Conns -> SUBSET Ids]
          /\ faults \in 0..(MaxFaults + 1)

Init == /\ pc = "connect"
        /\ conn = [c \in Conns |-> Fresh]
        /\ batch = {}
        /\ total = [received |-> 0, extra |-> 0, errors |-> 0, tampered |-> 0]
        /\ verdict = "none"
        /\ held = [c \in Conns |-> {}]
        /\ faults = 0
        /\ got = [c \in Conns |-> <<>>]

-----------------------------------------------------------------------------
(* The server and the network.                                             *)

Fault(kind) == kind \in Faults /\ faults < MaxFaults /\ faults' = faults + 1

\* The one deadline of a run that is not in time.
DeadlinePasses == "deadline" \in Faults /\ faults' = faults + 1

\* The connections the server has to do with.
Served(c) == conn[c].st = "open" /\ conn[c].peer = "up"

\* A request is there when its last cell is.
SrvRead(c) ==
    /\ Served(c) /\ conn[c].up # <<>>
    /\ held' = [held EXCEPT ![c] = @ \cup {x.id : x \in {y \in {Head(conn[c].up)} : y.last}}]
    /\ conn' = [conn EXCEPT ![c].up = Tail(@)]
    /\ UNCHANGED <<pc, batch, total, verdict, faults, got>>

SrvSends(c, a) == /\ Len(conn[c].down) < Back
                  /\ conn' = [conn EXCEPT ![c].down = Append(@, a)]

SrvAnswer(c) ==
    /\ Served(c)
    /\ \E id \in held[c] : /\ SrvSends(c, [id |-> id, intact |-> TRUE])
                           /\ held' = [held EXCEPT ![c] = @ \ {id}]
    /\ UNCHANGED <<pc, batch, total, verdict, faults, got>>

\* An answer that is wrong or no frame at all, missing, or given once more.
SrvMisbehaves(c) ==
    /\ Served(c)
    /\ \E id \in held[c] :
          \/ /\ Fault("answer")
             /\ \E a \in Answers \cup {Broken} : SrvSends(c, a)
             /\ held' = [held EXCEPT ![c] = @ \ {id}]
          \/ /\ Fault("lose")
             /\ held' = [held EXCEPT ![c] = @ \ {id}]
             /\ UNCHANGED conn
          \/ /\ Fault("repeat")
             /\ SrvSends(c, [id |-> id, intact |-> TRUE])
             /\ UNCHANGED held
    /\ UNCHANGED <<pc, batch, total, verdict, got>>

\* The server closes its end; if it has not read everything that is a reset.
SrvHangsUp(c) ==
    /\ Served(c)
    /\ Fault("hangup")
    /\ \E p \in {"fin", "reset"} : conn' = [conn EXCEPT ![c].peer = p]
    /\ UNCHANGED <<pc, batch, total, verdict, held, got>>

-----------------------------------------------------------------------------
(* The connections are opened.                                             *)

ConnectOk(c) ==
    /\ pc = "connect" /\ conn[c].st = "connecting"
    /\ conn' = [conn EXCEPT ![c].st = "open", ![c].ev = {"in"}]
    /\ UNCHANGED <<pc, batch, total, verdict, held, faults, got>>

\* socket, connect or SO_ERROR says no: connect_fail, and nothing more comes of it.
ConnectFails(c) ==
    /\ pc = "connect" /\ conn[c].st = "connecting"
    /\ Fault("refuse")
    /\ conn' = [conn EXCEPT ![c] = Gone]
    /\ UNCHANGED <<pc, batch, total, verdict, held, got>>

\* connected == conns.
Connected ==
    /\ pc = "connect" /\ Open = Conns
    /\ pc' = "pump"
    /\ batch' = {[c |-> c, e |-> {}] : c \in Conns}
    /\ UNCHANGED <<conn, total, verdict, held, faults, got>>

\* One that failed keeps the loop going until its 120 s are over.
ConnectDeadline ==
    /\ pc = "connect" /\ Open # Conns
    /\ DeadlinePasses
    /\ pc' = "end"
    /\ verdict' = "FAIL"
    /\ UNCHANGED <<conn, batch, total, held, got>>

-----------------------------------------------------------------------------
(* Sending.                                                                *)

\* An interest in writing that is not renewed.
SetEventsOnce(k) == [k EXCEPT !.ev = {"in"}]

SetEvents(k) ==
    [k EXCEPT !.ev = IF k.outbuf = <<>> THEN {"in"} ELSE {"in", "out"}]

\* send fails; a socket that is full is no failure.
SendFails(k) == k.peer = "reset" /\ k.outbuf # <<>>

\* flush_out, if it does not fail: the socket takes what fits.
FlushOut(k) ==
    LET n == Min({Room - Len(k.up), Len(k.outbuf)})
    IN  [k EXCEPT !.up = @ \o SubSeq(k.outbuf, 1, n),
                  !.outbuf = SubSeq(@, n + 1, Len(@))]

\* The cells of n requests from this one on.
Encode(id, n) == [i \in 1..(2 * n) |-> [id |-> id + (i - 1) \div 2, last |-> i % 2 = 0]]

\* The loop of pump_send: requests up to the window.
Fill(k) ==
    LET n == Min({PerConn - k.next_id, Depth - k.inflight})
    IN  [k EXCEPT !.next_id = @ + n,
                  !.inflight = @ + n,
                  !.pending = @ \cup (k.next_id..(k.next_id + n - 1)),
                  !.outbuf = @ \o Encode(k.next_id, n)]

PumpSend(k) == SetEvents(FlushOut(Fill(k)))

\* The first requests; if they cannot be sent that is the end.
FirstPump(b) ==
    /\ pc = "pump" /\ b \in batch
    /\ \/ /\ SendFails(Fill(conn[b.c]))
          /\ pc' = "end"
          /\ verdict' = "FAIL"
          /\ UNCHANGED <<conn, batch>>
       \/ /\ ~SendFails(Fill(conn[b.c]))
          /\ conn' = [conn EXCEPT ![b.c] = PumpSend(@)]
          /\ batch' = batch \ {b}
          /\ pc' = IF batch' = {} THEN "wait" ELSE "pump"
          /\ UNCHANGED verdict
    /\ UNCHANGED <<total, held, faults, got>>

-----------------------------------------------------------------------------
(* The event loop.  x is what a handler has made of a connection so far:   *)
(* its Conn k, the totals t, the answers it took and if it has failed.    *)

\* What epoll reports of a connection; errors are reported unasked.
Flags(k) ==
    {f \in k.ev : \/ f = "in" /\ (k.down # <<>> \/ k.peer # "up")
                  \/ f = "out" /\ (Len(k.up) < Room \/ k.peer = "reset")}
    \cup (IF k.peer = "reset" THEN {"hup"} ELSE {})

Wait ==
    /\ pc = "wait"
    /\ batch' = {[c |-> c, e |-> Flags(conn[c])] : c \in {d \in Open : Flags(conn[d]) # {}}}
    /\ batch' # {}
    /\ pc' = "handle"
    /\ UNCHANGED <<conn, total, verdict, held, faults, got>>

\* An answer that is counted whether its request is still under way or not.
TakeAnswerAgain(x, a) ==
    IF a.id \notin Ids THEN [x EXCEPT !.t.extra = @ + 1]
    ELSE [x EXCEPT !.k.pending = @ \ {a.id}, !.k.inflight = IF @ = 0 THEN 0 ELSE @ - 1,
                   !.k.done_cnt = @ + 1, !.t.received = @ + 1,
                   !.t.tampered = IF Check /\ ~a.intact THEN @ + 1 ELSE @]

\* One decoded message.
TakeAnswer(x, a) ==
    IF a.id \notin x.k.pending THEN [x EXCEPT !.t.extra = @ + 1]
    ELSE [x EXCEPT !.k.pending = @ \ {a.id}, !.k.inflight = @ - 1,
                   !.k.done_cnt = @ + 1, !.t.received = @ + 1,
                   !.t.tampered = IF Check /\ ~a.intact THEN @ + 1 ELSE @]

\* The recv loop has taken n messages.
Took(x, n) ==
    LET r == FoldLeft(TakeAnswer, [x EXCEPT !.k.down = SubSeq(@, n + 1, Len(@))],
                      SubSeq(x.k.down, 1, n))
    IN  [r EXCEPT !.took = SubSeq(x.k.down, 1, n)]

\* What recv gives ends anywhere, and after each piece the loop breaks off if the
\* connection is done.  A piece with a broken frame in it fails before its messages
\* are taken, and when nothing is left the loop meets what ends the stream: recv's 0
\* is no failure of a connection that is done, an error is.
Received(x, n) ==
    LET r == Took(x, n)
        done == r.k.done_cnt >= PerConn
        again == n = 0 \/ ~done
    IN  {[r EXCEPT !.fail = f] : f \in {f \in BOOLEAN :
            \/ ~f /\ done /\ x.k.down # <<>>
            \/ f /\ again /\ \E i \in DOMAIN r.k.down : r.k.down[i] = Broken
            \/ /\ again /\ r.k.down = <<>>
               /\ f <=> r.k.peer = "reset" \/ (r.k.peer = "fin" /\ ~done)}}

\* How many messages may be taken: none behind a broken frame.
Reads(x) == {n \in 0..Len(x.k.down) : \A i \in 1..n : x.k.down[i] # Broken}

\* EPOLLERR, EPOLLHUP and EPOLLOUT.
AfterOut(k, e) ==
    LET fail == "hup" \in e \/ ("out" \in e /\ SendFails(k))
    IN  [k |-> IF "out" \in e /\ ~fail THEN SetEvents(FlushOut(k)) ELSE k,
         t |-> total, took |-> <<>>, fail |-> fail]

\* EPOLLIN.
AfterIn(x, e) ==
    IF "in" \in e /\ ~x.fail THEN UNION {Received(x, n) : n \in Reads(x)} ELSE {x}

\* A window that is filled only at the start.
PumpedAtStart(x) == x

\* The next requests, unless the connection is done.
AfterPump(x) ==
    IF x.fail \/ x.k.done_cnt >= PerConn THEN x
    ELSE IF SendFails(Fill(x.k)) THEN [x EXCEPT !.fail = TRUE]
    ELSE [x EXCEPT !.k = PumpSend(@)]

\* The connection is closed if it has failed or is finished, else kept.
Settle(c, x) ==
    /\ total' = IF x.fail THEN [x.t EXCEPT !.errors = @ + 1] ELSE x.t
    /\ conn' = [conn EXCEPT ![c] =
                   IF x.fail \/ (x.k.done_cnt >= PerConn /\ x.k.inflight = 0 /\ x.k.outbuf = <<>>)
                   THEN Gone ELSE x.k]

Handle(b) ==
    /\ pc = "handle" /\ b \in batch
    /\ \E x \in {AfterOut(conn[b.c], b.e)} :
          \E y \in {AfterPump(z) : z \in AfterIn(x, b.e)} :
             /\ Settle(b.c, y)
             /\ got' = [got EXCEPT ![b.c] = @ \o y.took]
    /\ batch' = batch \ {b}
    /\ pc' = IF batch' = {} THEN "wait" ELSE "handle"
    /\ UNCHANGED <<verdict, held, faults>>

Expected == PerConn * Cardinality(Conns)

Passed == /\ total.received = Expected
          /\ total.extra = 0 /\ total.errors = 0 /\ total.tampered = 0
          /\ Open = {}

Ends == /\ pc = "wait"
        /\ pc' = "end"
        /\ verdict' = IF Passed THEN "PASS" ELSE "FAIL"
        /\ UNCHANGED <<conn, batch, total, held, got>>

\* No connection is left ...
Finish == Ends /\ Open = {} /\ UNCHANGED faults

\* ... or deadline_s are over.
Deadline == Ends /\ Open # {} /\ DeadlinePasses

-----------------------------------------------------------------------------

ClientStep == \/ \E c \in Conns : ConnectOk(c)
              \/ Connected \/ Wait \/ Finish
              \/ \E b \in batch : FirstPump(b) \/ Handle(b)

Next == \/ ClientStep \/ ConnectDeadline \/ Deadline
        \/ \E c \in Conns : \/ ConnectFails(c) \/ SrvRead(c) \/ SrvAnswer(c)
                            \/ SrvMisbehaves(c) \/ SrvHangsUp(c)

\* The client runs, and a server that is up reads and answers.  The deadlines are
\* as far off as one likes.
Spec == /\ Init
        /\ [][Next]_vars
        /\ WF_vars(ClientStep)
        /\ \A c \in Conns : WF_vars(SrvRead(c) \/ SrvAnswer(c))

-----------------------------------------------------------------------------

\* PASS is not given unless every request of every connection has been answered
\* exactly once, and, with --check, with its own payload: no loss is made good
\* by an answer that came twice or on a connection that failed.
PassIsTrue ==
    verdict = "PASS" =>
        \A c \in Conns : /\ \A id \in Ids :
                               Cardinality({i \in DOMAIN got[c] : got[c][i].id = id}) = 1
                         /\ \A i \in DOMAIN got[c] : got[c][i].id \in Ids
                         /\ Check => \A i \in DOMAIN got[c] : got[c][i].intact

\* The client comes to a verdict by itself, and to PASS, unless the server made a
\* mistake or a deadline passed: no order of events and no partial send costs a
\* request or a connection, and it always asks for the events it waits for.
GoodServerPasses == <>(verdict = "PASS" \/ faults > 0)
=============================================================================
