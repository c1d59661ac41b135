------------------------------- MODULE Logger -------------------------------
(***************************************************************************)
(* src/src/Logger.cpp and src/src/Trace.cpp: threads that give themselves  *)
(* trace ids and log, and a pool of one worker, TaskPool.tla, that writes. *)
(* A line is made by its caller in steps of its own: the clock, localtime, *)
(* which fills a tm all threads share, strftime, which reads it field by   *)
(* field without a lock, and WriteToFile under lock_mut.                   *)
(*                                                                         *)
(* A time has two fields, the minutes and the seconds of a clock whose     *)
(* minute has two seconds.                                                 *)
(***************************************************************************)
EXTENDS Naturals, Sequences, FiniteSets

CONSTANTS Threads,
          NoLine,     \* no line, and no trace id
          MaxTime,    \* bound: the clock stops here
          MaxBack,    \* bound: how often the clock is set back
          MaxIds,     \* bound: ids that are generated
          MaxLines    \* bound: lines that are logged

ASSUME BoundsAssumption == /\ MaxTime \in Nat \ {0} /\ MaxBack \in Nat
                           /\ MaxIds \in Nat /\ MaxLines \in Nat

VARIABLES clock,     \* the system's clock
          setbacks,  \* history: how often it has been set back
          counter,   \* Trace::counter_
          current,   \* Trace::current_id_, one per thread
          made,      \* the ids generateID has returned: the id, its maker, how
                     \* often the clock had been set back when it was read, and
                     \* the ids of this clock that were there when the call began
          tm,        \* what localtime returns a pointer to
          pc,        \* where each thread is: "idle", "gen", "time", "tm", "sec", "line"
          own,       \* what it has in its hands there
          open,      \* which of log_file_ and old_file_ the constructor has opened
          warned,    \* what has been said of them on the console
          logged,    \* the lines WriteToFile was given, in its order
          file,      \* the contents of the two
          life,      \* "up", "joining", "joined", "closed"
          tasks, running, closed   \* the pool

vars == <<clock, setbacks, counter, current, made, tm, pc, own, open, warned, logged, file,
          life, tasks, running, closed>>
time == <<clock, setbacks>>
trace == <<counter, current, made>>
pool == <<tasks, running, closed>>
written == <<open, warned, logged, file, life>>

\* A second thread in the pool.
TwoWorkers == {"w1", "w2"}

\* pool_(1).
Workers == {"w1"}

Times == 1..MaxTime
Ids == [ts : Times, ctr : Nat]
Lines == [by : Threads, n : Nat, stamp : Nat, began : Times, trace : Ids \cup {NoLine}]
ASSUME NoLineAssumption == NoLine \notin Ids \cup Lines

FileNames == {"log_file_", "old_file_"}

Pool == INSTANCE TaskPool WITH Tasks <- Lines, Idle <- NoLine

TypeOK == /\ clock \in Times /\ setbacks \in 0..MaxBack /\ counter \in Nat
          /\ current \in [Threads -> Ids \cup {NoLine}]
          /\ made \subseteq [id : Ids, by : Threads, age : 0..MaxBack, after : SUBSET Ids]
          /\ tm \in [min : Nat, sec : {0, 1}]
          /\ pc \in [Threads -> {"idle", "gen", "time", "tm", "sec", "line"}]
          /\ open \subseteq FileNames /\ warned \subseteq {"backup", "dead"}
          /\ life \in {"up", "joining", "joined", "closed"}
          /\ logged \in Seq(Lines) /\ file \in [FileNames -> Seq(Lines)]
          /\ tasks \in Seq(Lines) /\ running \in [Workers -> Lines \cup {NoLine}]

Init == /\ clock = 1
        /\ setbacks = 0
        /\ counter = 0
        /\ current = [t \in Threads |-> NoLine]
        /\ made = {}
        /\ tm = [min |-> 0, sec |-> 0]
        /\ pc = [t \in Threads |-> "idle"]
        /\ own = [t \in Threads |-> <<>>]
        /\ open \in SUBSET FileNames
        /\ warned = {}
        /\ logged = <<>>
        /\ file = [f \in FileNames |-> <<>>]
        /\ life = "up"
        /\ Pool!Init

Tick == /\ clock < MaxTime
        /\ clock' = clock + 1
        /\ UNCHANGED <<setbacks, trace, tm, pc, own, written, pool>>

\* system_clock may be set back.
SetBack == /\ setbacks < MaxBack
           /\ setbacks' = setbacks + 1
           /\ \E t \in Times : t < clock /\ clock' = t
           /\ UNCHANGED <<trace, tm, pc, own, written, pool>>

-----------------------------------------------------------------------------
(* Trace.cpp.                                                              *)

Go(t, where, what) == /\ pc' = [pc EXCEPT ![t] = where]
                      /\ own' = [own EXCEPT ![t] = what]

\* generateID reads the clock ...
GenClock(t) ==
    /\ pc[t] = "idle" /\ life = "up"
    /\ counter + Cardinality({u \in Threads : pc[u] = "gen"}) < MaxIds
    /\ Go(t, "gen", [ts |-> clock, age |-> setbacks,
                     after |-> {m.id : m \in {k \in made : k.age = setbacks}}])
    /\ UNCHANGED <<time, trace, tm, written, pool>>

\* A counter that is no atomic: of two that meet, one may be lost.
FetchAddRacy(t) ==
    \/ counter' = counter + 1
    \/ counter' = counter /\ \E u \in Threads \ {t} : pc[u] = "gen"

FetchAdd(t) == counter' = counter + 1

\* ... and takes a number.
GenAdd(t) ==
    /\ pc[t] = "gen"
    /\ FetchAdd(t)
    /\ made' = made \cup {[id |-> [ts |-> own[t].ts, ctr |-> counter], by |-> t,
                           age |-> own[t].age, after |-> own[t].after]}
    /\ Go(t, "idle", <<>>)
    /\ UNCHANGED <<time, current, tm, written, pool>>

SetID(t, id) == current' = [current EXCEPT ![t] = id]

\* setCurrentID with an id of one's own, or clearCurrentID.
SetCurrentID(t) ==
    /\ pc[t] = "idle" /\ life = "up"
    /\ \E id \in {m.id : m \in {k \in made : k.by = t}} \cup {NoLine} :
          id # current[t] /\ SetID(t, id)
    /\ UNCHANGED <<time, counter, made, tm, pc, own, written, pool>>

\* TraceID::operator<.
Less(a, b) == a.ts < b.ts \/ (a.ts = b.ts /\ a.ctr < b.ctr)

-----------------------------------------------------------------------------
(* Logger.cpp.                                                             *)

\* What localtime makes of a time.
Fields(at) == [min |-> at \div 2, sec |-> at % 2]

\* Log, Format, GetCurrentTime: time() ...
GetTime(t) ==
    /\ pc[t] = "idle" /\ life = "up"
    /\ Len(logged) + Cardinality({u \in Threads : pc[u] \notin {"idle", "gen"}}) < MaxLines
    /\ Go(t, "time", [began |-> clock])
    /\ UNCHANGED <<time, trace, tm, written, pool>>

\* ... localtime, which is atomic but whose result is everybody's ...
LocalTime(t) ==
    /\ pc[t] = "time"
    /\ tm' = Fields(own[t].began)
    /\ Go(t, "tm", own[t])
    /\ UNCHANGED <<time, trace, written, pool>>

\* ... and strftime, which comes to the seconds last.
StrftimeMinutes(t) ==
    /\ pc[t] = "tm"
    /\ Go(t, "sec", [began |-> own[t].began, min |-> tm.min])
    /\ UNCHANGED <<time, trace, tm, written, pool>>

\* With it Format has all it needs; the trace id is that of the caller.
StrftimeSeconds(t) ==
    /\ pc[t] = "sec"
    /\ Go(t, "line", [by |-> t, began |-> own[t].began, stamp |-> 2 * own[t].min + tm.sec,
                      trace |-> current[t]])
    /\ UNCHANGED <<time, trace, tm, written, pool>>

\* WriteToFile hands its line to the pool.
Submits == open # {}

\* WriteToFile under lock_mut; without a file the line is dropped.
WriteToFile(t) ==
    /\ pc[t] = "line"
    /\ LET line == [by |-> own[t].by, n |-> Len(logged) + 1, stamp |-> own[t].stamp,
                    began |-> own[t].began, trace |-> own[t].trace]
       IN  /\ logged' = Append(logged, line)
           /\ \/ Submits /\ Pool!Submit(line)
              \/ ~Submits /\ UNCHANGED pool
    /\ warned' = warned \cup (IF "log_file_" \in open THEN {}
                              ELSE IF open # {} THEN {"backup"} ELSE {"dead"})
    /\ Go(t, "idle", <<>>)
    /\ UNCHANGED <<time, trace, tm, open, file, life>>

\* The file a task of this logger writes to.
Target == IF "log_file_" \in open THEN "log_file_" ELSE "old_file_"

WorkerStart(w) ==
    /\ Pool!Start(w)
    /\ UNCHANGED <<time, trace, tm, pc, own, written>>

\* The task: the line and endl.
WorkerWrites(w) ==
    /\ file' = [file EXCEPT ![Target] = Append(@, running[w])]
    /\ Pool!Finish(w)
    /\ UNCHANGED <<time, trace, tm, pc, own, open, warned, logged, life>>

\* The process ends, with all threads but the pool's gone; ~Logger first
\* destroys pool_, the last member: it takes no more from its queue ...
DtorPool ==
    /\ life = "up"
    /\ \A t \in Threads : pc[t] = "idle"
    /\ life' = "joining"
    /\ Pool!Close
    /\ UNCHANGED <<time, trace, tm, pc, own, open, warned, logged, file>>

\* ... and joins its worker ...
DtorJoin ==
    /\ life = "joining"
    /\ \A w \in Workers : running[w] = NoLine
    /\ life' = "joined"
    /\ UNCHANGED <<time, trace, tm, pc, own, open, warned, logged, file, pool>>

\* ... then the files are closed.
DtorFiles ==
    /\ life = "joined"
    /\ life' = "closed"
    /\ UNCHANGED <<time, trace, tm, pc, own, open, warned, logged, file, pool>>

-----------------------------------------------------------------------------

Caller(t) == \/ GenClock(t) \/ GenAdd(t) \/ SetCurrentID(t)
             \/ GetTime(t) \/ LocalTime(t) \/ StrftimeMinutes(t) \/ StrftimeSeconds(t)
             \/ WriteToFile(t)

Next == \/ Tick \/ SetBack \/ DtorPool \/ DtorJoin \/ DtorFiles
        \/ \E t \in Threads : Caller(t)
        \/ \E w \in Workers : WorkerStart(w) \/ WorkerWrites(w)

Spec == Init /\ [][Next]_vars

-----------------------------------------------------------------------------

Written == file[Target]

\* The file has the lines in the order in which WriteToFile got them, each once
\* and none left out before the last: one mutex, one queue and one worker make
\* the order of the log that of the calls.
FileInOrder == Written = SubSeq(logged, 1, Len(Written))

\* A worker never holds a line to write when the files are closed: members are
\* destroyed in the right order.
NoWriteAfterClose == life = "closed" => \A w \in Workers : running[w] = NoLine

\* A line bears a trace id its own thread made, though another thread writes it.
OwnTrace ==
    \A i \in DOMAIN logged :
        logged[i].trace # NoLine =>
            \E m \in made : m.id = logged[i].trace /\ m.by = logged[i].by

\* What the log says is right: every line once, in the order of the calls, with the
\* trace id of its own thread, and none written to a file that is closed.
LinesRight == FileInOrder /\ NoWriteAfterClose /\ OwnTrace

\* No id is given out twice, whoever meets whom in generateID.
IdsUnique == \A m, k \in made : m.id = k.id => m = k

\* If one generateID returned before another was called, operator< says so too,
\* although ids take their two parts at different moments; unless the clock was set
\* back between the two.
IdsInOrder == \A m \in made : \A a \in m.after : Less(a, m.id)

\* Trace ids can be told apart and sorted by who meets in generateID however.
IdsRight == IdsUnique /\ IdsInOrder

\* What the acceptance script of docs/BUGLOG.md relies on ("whether it came up
\* is decided by the log"): what was logged is in the file when the process is
\* over.
LoggedIsKept == life = "closed" /\ open # {} => Written = logged

\* What GetCurrentTime is declared to return, the current time: no earlier than
\* the call.
StampIsCurrent == \A i \in DOMAIN logged : logged[i].stamp >= logged[i].began
=============================================================================
