---------------------------- MODULE LoggerProofs ----------------------------
(***************************************************************************)
(* Logger.tla for any threads and any bounds: what the log says is right,  *)
(* and trace ids are unique and in the order in which they were given out. *)
(***************************************************************************)
EXTENDS Logger, SequenceTheorems, TLAPS

\* The id is none, or one that this thread has made.
MadeBy(t, id) == id = NoLine \/ \E m \in made : m.id = id /\ m.by = t

\* What has been made has come before the counter, and before the clock if that has
\* not been set back since.
Earlier(m) == /\ m.id.ctr < counter /\ m.age <= setbacks
              /\ m.age = setbacks => m.id.ts <= clock

\* Time passes, or the clock is set back.
Later == /\ clock' \in Times /\ setbacks' \in 0..MaxBack
         /\ setbacks' > setbacks \/ (setbacks' = setbacks /\ clock <= clock')

-----------------------------------------------------------------------------
(* The invariant.                                                          *)

\* What a thread has in its hands.
OwnWell(t) ==
    /\ pc[t] = "gen" =>
          /\ own[t] \in [ts : Times, age : 0..MaxBack, after : SUBSET Ids]
          /\ own[t].age <= setbacks
          /\ own[t].age = setbacks => own[t].ts <= clock
          /\ \A a \in own[t].after : a.ts <= own[t].ts /\ a.ctr < counter
    /\ pc[t] \in {"time", "tm"} => own[t] \in [began : Times]
    /\ pc[t] = "sec" => own[t] \in [began : Times, min : Nat]
    /\ pc[t] = "line" =>
          /\ own[t] \in [by : {t}, began : Times, stamp : Nat, trace : Ids \cup {NoLine}]
          /\ MadeBy(t, own[t].trace)

\* Every number was taken once, and an id follows those its maker could know.
IdsWell == /\ \A m \in made : Earlier(m)
           /\ \A m, k \in made : m.id.ctr = k.id.ctr => m = k
           /\ IdsInOrder

TraceWell == /\ \A t \in Threads : MadeBy(t, current[t])
             /\ \A i \in 1..Len(logged) : MadeBy(logged[i].by, logged[i].trace)

\* The line the one worker has, if it has one.
Busy == IF running["w1"] = NoLine THEN <<>> ELSE <<running["w1"]>>

\* Every line that was submitted is in the file, with the worker or in the queue,
\* one behind the other; a logger without a file submits none.
LinesWell == Written \o (Busy \o tasks) = (IF Submits THEN logged ELSE <<>>)

\* The pool is closed before it is joined, and a joined worker has nothing.
LifeWell == /\ life # "up" => closed
            /\ life \in {"joined", "closed"} => running["w1"] = NoLine

Typed == /\ clock \in Times /\ setbacks \in 0..MaxBack /\ counter \in Nat
         /\ current \in [Threads -> Ids \cup {NoLine}]
         /\ made \subseteq [id : Ids, by : Threads, age : 0..MaxBack, after : SUBSET Ids]
         /\ tm \in [min : Nat, sec : {0, 1}]
         /\ pc \in [Threads -> {"idle", "gen", "time", "tm", "sec", "line"}]
         /\ DOMAIN own = Threads
         /\ open \subseteq FileNames
         /\ life \in {"up", "joining", "joined", "closed"}
         /\ logged \in Seq(Lines) /\ file \in [FileNames -> Seq(Lines)]
         /\ tasks \in Seq(Lines) /\ running \in [Workers -> Lines \cup {NoLine}]

CallersWell == \A t \in Threads : OwnWell(t)

Inv == Typed /\ CallersWell /\ IdsWell /\ TraceWell /\ LinesWell /\ LifeWell

-----------------------------------------------------------------------------
(* The callers.                                                            *)

\* What a thread has stays good while time passes and others make ids.
LEMMA OthersWell ==
  ASSUME Typed, NEW t \in Threads, OwnWell(t),
         Later, counter <= counter', counter' \in Nat,
         made \subseteq made', pc'[t] = pc[t], own'[t] = own[t]
  PROVE  OwnWell(t)'
<1> USE BoundsAssumption DEF Typed, OwnWell
<1>1. (pc[t] = "gen" =>
          /\ own[t] \in [ts : Times, age : 0..MaxBack, after : SUBSET Ids]
          /\ own[t].age <= setbacks
          /\ own[t].age = setbacks => own[t].ts <= clock
          /\ \A a \in own[t].after : a.ts <= own[t].ts /\ a.ctr < counter)'
  <2> SUFFICES ASSUME pc[t] = "gen"
               PROVE  /\ own[t] \in [ts : Times, age : 0..MaxBack, after : SUBSET Ids]
                      /\ own[t].age <= setbacks'
                      /\ own[t].age = setbacks' => own[t].ts <= clock'
                      /\ \A a \in own[t].after : a.ts <= own[t].ts /\ a.ctr < counter'
    OBVIOUS
  <2>1. /\ own[t].ts \in Nat /\ clock \in Nat /\ clock' \in Nat
        /\ own[t].age \in Nat /\ setbacks \in Nat /\ setbacks' \in Nat
    BY DEF Times, Later
  <2>2. \A a \in own[t].after : a.ctr \in Nat
    BY DEF Ids
  <2>3. own[t].age <= setbacks' /\ (own[t].age = setbacks' => own[t].ts <= clock')
    BY <2>1 DEF Later
  <2> QED
    BY <2>1, <2>2, <2>3
<1>2. (pc[t] = "line" => MadeBy(t, own[t].trace))'
  BY DEF MadeBy
<1> QED
  BY <1>1, <1>2

\* The thread that acts, and all others.
LEMMA CallersStay ==
  ASSUME Typed, CallersWell, NEW t \in Threads, NEW where, NEW what, Go(t, where, what),
         Later, counter <= counter', counter' \in Nat,
         made \subseteq made', OwnWell(t)'
  PROVE  CallersWell'
<1>1. \A u \in Threads \ {t} : pc'[u] = pc[u] /\ own'[u] = own[u]
  BY DEF Go, Typed
<1>2. \A u \in Threads \ {t} : OwnWell(u)'
  BY <1>1, OthersWell DEF CallersWell
<1> QED
  BY <1>2 DEF CallersWell

\* Where a thread is and what it has after Go.
LEMMA GoTyped ==
  ASSUME Typed, NEW t \in Threads,
         NEW where \in {"idle", "gen", "time", "tm", "sec", "line"}, NEW what,
         Go(t, where, what)
  PROVE  /\ pc' \in [Threads -> {"idle", "gen", "time", "tm", "sec", "line"}]
         /\ DOMAIN own' = Threads
         /\ pc'[t] = where /\ own'[t] = what
BY DEF Go, Typed

\* The ids and the lines stay as good as they are while ids are added only.
LEMMA TracesStay ==
  ASSUME TraceWell, made \subseteq made', UNCHANGED <<current, logged>>
  PROVE  TraceWell'
BY DEF TraceWell, MadeBy

LEMMA IdsStay ==
  ASSUME Typed, IdsWell, Later, UNCHANGED <<counter, made>>
  PROVE  IdsWell'
<1>1. \A m \in made : m.id.ts \in Nat /\ m.age \in Nat
  BY BoundsAssumption DEF Typed, Ids, Times
<1>2. clock \in Nat /\ clock' \in Nat /\ setbacks \in Nat /\ setbacks' \in Nat
  BY BoundsAssumption DEF Typed, Times, Later
<1>3. \A m \in made : /\ m.id.ctr < counter /\ m.age <= setbacks'
                      /\ m.age = setbacks' => m.id.ts <= clock'
  BY <1>1, <1>2 DEF IdsWell, Earlier, Later
<1> QED
  BY <1>3 DEF IdsWell, Earlier, IdsInOrder, Less

\* Nothing that the pool and the files have to do with changes.
LEMMA PoolStays ==
  ASSUME LinesWell, LifeWell, UNCHANGED <<written, pool>>
  PROVE  LinesWell' /\ LifeWell'
BY DEF LinesWell, LifeWell, written, pool, Written, Target, Busy, Submits

LEMMA TickStep == ASSUME Inv, Tick \/ SetBack PROVE Inv'
<1> USE DEF Inv, Tick, SetBack, time
<1>1. Later
  BY BoundsAssumption DEF Typed, Times, Later
<1>2. /\ counter' = counter /\ made' = made /\ current' = current /\ logged' = logged
      /\ pc' = pc /\ own' = own /\ UNCHANGED <<written, pool, tm>>
  BY DEF trace, written
<1>3. Typed'
  BY <1>1, <1>2 DEF Typed, Later, written, pool
<1>4. counter' \in Nat /\ counter <= counter'
  BY <1>2 DEF Typed
<1>5. CallersWell'
  BY <1>1, <1>2, <1>4, OthersWell DEF CallersWell
<1>6. IdsWell' /\ TraceWell'
  BY <1>1, <1>2, IdsStay, TracesStay
<1> QED
  BY <1>2, <1>3, <1>5, <1>6, PoolStays

\* generateID's two steps.
LEMMA GenClockStep == ASSUME Inv, NEW t \in Threads, GenClock(t) PROVE Inv'
<1> USE DEF Inv
<1> DEFINE what == [ts |-> clock, age |-> setbacks,
                    after |-> {m.id : m \in {k \in made : k.age = setbacks}}]
<1>1. /\ Go(t, "gen", what)
      /\ UNCHANGED <<clock, setbacks, counter, current, made, tm, logged, written, pool>>
  BY DEF GenClock, trace, written, time
<1>2. /\ clock \in Times /\ Later /\ counter \in Nat /\ counter <= counter
  BY <1>1, BoundsAssumption DEF Typed, Times, Later
<1>3. what \in [ts : Times, age : 0..MaxBack, after : SUBSET Ids]
  BY DEF Typed
<1>4. \A a \in what.after : a.ts <= what.ts /\ a.ctr < counter
  BY DEF IdsWell, Earlier
<1>5. what.age <= setbacks /\ what.ts <= clock
  BY BoundsAssumption DEF Typed, Times, Later
<1> HIDE DEF what
<1>6. /\ pc' \in [Threads -> {"idle", "gen", "time", "tm", "sec", "line"}]
      /\ DOMAIN own' = Threads
      /\ pc'[t] = "gen" /\ own'[t] = what
  BY <1>1, GoTyped
<1>7. OwnWell(t)'
  BY <1>1, <1>3, <1>4, <1>5, <1>6 DEF OwnWell
<1>8. CallersWell'
  BY <1>1, <1>2, <1>7, CallersStay
<1>9. Typed'
  BY <1>1, <1>6 DEF Typed, written, pool
<1> QED
  BY <1>1, <1>2, <1>8, <1>9, IdsStay, TracesStay, PoolStays

LEMMA GenAddStep == ASSUME Inv, NEW t \in Threads, GenAdd(t) PROVE Inv'
<1> USE DEF Inv
<1> DEFINE id == [ts |-> own[t].ts, ctr |-> counter]
           new == [id |-> id, by |-> t, age |-> own[t].age, after |-> own[t].after]
<1>1. /\ Go(t, "idle", <<>>) /\ counter' = counter + 1 /\ made' = made \cup {new}
      /\ UNCHANGED <<clock, setbacks, current, tm, logged, written, pool>>
  BY DEF GenAdd, FetchAdd, written, time
<1>2. /\ clock \in Times /\ Later /\ counter \in Nat
      /\ counter + 1 \in Nat /\ counter <= counter + 1
  BY <1>1, BoundsAssumption DEF Typed, Times, Later
<1>3. /\ own[t] \in [ts : Times, age : 0..MaxBack, after : SUBSET Ids]
      /\ own[t].age <= setbacks
      /\ own[t].age = setbacks => own[t].ts <= clock
      /\ \A a \in own[t].after : a.ts <= own[t].ts /\ a.ctr < counter
  BY DEF GenAdd, CallersWell, OwnWell, time
<1>4. id \in Ids /\ id.ts = own[t].ts /\ id.ctr = counter
  BY <1>2, <1>3 DEF Ids
<1>5. /\ new \in [id : Ids, by : Threads, age : 0..MaxBack, after : SUBSET Ids]
      /\ new.id = id /\ new.age = own[t].age /\ new.after = own[t].after
  BY <1>3, <1>4
<1> HIDE DEF new, id
<1>6. \A m \in made : /\ m.id.ctr < counter /\ m.id.ctr \in Nat /\ m.age <= setbacks
                      /\ m.age = setbacks => m.id.ts <= clock
  BY DEF IdsWell, Earlier, Typed, Ids
<1>7. IdsWell'
  <2>1. \A m \in made' : /\ m.id.ctr < counter' /\ m.age <= setbacks'
                         /\ m.age = setbacks' => m.id.ts <= clock'
    BY <1>1, <1>2, <1>3, <1>4, <1>5, <1>6
  <2>2. \A m, k \in made' : m.id.ctr = k.id.ctr => m = k
    BY <1>1, <1>2, <1>4, <1>5, <1>6 DEF IdsWell
  <2>3. \A a \in new.after : Less(a, new.id)
    <3>1. \A a \in own[t].after : a.ts \in Nat /\ own[t].ts \in Nat
      BY <1>3 DEF Ids, Times
    <3> QED
      BY <1>3, <1>4, <1>5, <3>1 DEF Less
  <2>4. IdsInOrder'
    BY <1>1, <2>3 DEF IdsWell, IdsInOrder, Less
  <2>5. (\A m \in made : Earlier(m))'
    BY <2>1 DEF Earlier
  <2> QED
    BY <2>2, <2>4, <2>5 DEF IdsWell
<1>8. /\ pc' \in [Threads -> {"idle", "gen", "time", "tm", "sec", "line"}]
      /\ DOMAIN own' = Threads
      /\ pc'[t] = "idle"
  BY <1>1, GoTyped
<1>9. CallersWell'
  <2>1. OwnWell(t)'
    BY <1>8 DEF OwnWell
  <2>2. made \subseteq made'
    BY <1>1
  <2> QED
    BY <1>1, <1>2, <2>1, <2>2, CallersStay
<1>10. Typed'
  BY <1>1, <1>2, <1>5, <1>8 DEF Typed, written, pool
<1> QED
  BY <1>1, <1>7, <1>9, <1>10, TracesStay, PoolStays

\* setCurrentID: an id the thread has made itself.
LEMMA SetStep == ASSUME Inv, NEW t \in Threads, SetCurrentID(t) PROVE Inv'
<1> USE DEF Inv
<1>1. PICK id \in {m.id : m \in {k \in made : k.by = t}} \cup {NoLine} :
          current' = [current EXCEPT ![t] = id]
  BY DEF SetCurrentID, SetID, time
<1>2. UNCHANGED <<clock, setbacks, counter, made, tm, pc, own, logged, written, pool>>
  BY DEF SetCurrentID, written, time
<1>3. id \in Ids \cup {NoLine} /\ MadeBy(t, id)
  BY <1>1 DEF MadeBy, Typed
<1>4. TraceWell'
  BY <1>1, <1>2, <1>3 DEF TraceWell, MadeBy, Typed
<1>5. Typed'
  BY <1>1, <1>2, <1>3 DEF Typed, written, pool
<1>6. /\ Later /\ counter' \in Nat /\ counter <= counter'
  BY <1>2 DEF Typed, Times, Later
<1>7. CallersWell'
  BY <1>2, <1>6, OthersWell DEF CallersWell
<1> QED
  BY <1>2, <1>4, <1>5, <1>6, <1>7, IdsStay, PoolStays

\* The steps of Format that leave all but the thread and the shared tm alone.
LEMMA FormatStep ==
  ASSUME Inv, NEW t \in Threads,
         NEW where \in {"idle", "gen", "time", "tm", "sec", "line"}, NEW what,
         Go(t, where, what), tm' \in [min : Nat, sec : {0, 1}],
         UNCHANGED <<clock, setbacks, trace, written, pool>>,
         (pc'[t] = where /\ own'[t] = what) => OwnWell(t)'
  PROVE  Inv'
<1> USE DEF Inv
<1>1. UNCHANGED <<clock, setbacks, counter, made, current, logged>>
  BY DEF trace, written
<1>2. /\ Later /\ counter' \in Nat /\ counter <= counter'
  BY <1>1 DEF Typed, Times, Later
<1>3. /\ pc' \in [Threads -> {"idle", "gen", "time", "tm", "sec", "line"}]
      /\ DOMAIN own' = Threads
      /\ pc'[t] = where /\ own'[t] = what
  BY GoTyped
<1>4. CallersWell'
  BY <1>1, <1>2, <1>3, CallersStay
<1>5. Typed'
  BY <1>1, <1>3 DEF Typed, written, pool
<1> QED
  BY <1>1, <1>2, <1>4, <1>5, IdsStay, TracesStay, PoolStays

\* A line is made: whatever of the time gets into it, its caller and its trace id
\* are the thread's.
LEMMA LineMade ==
  ASSUME Inv, NEW t \in Threads,
         GetTime(t) \/ LocalTime(t) \/ StrftimeMinutes(t) \/ StrftimeSeconds(t)
  PROVE  Inv'
<1>0. OwnWell(t) /\ clock \in Times /\ tm \in [min : Nat, sec : {0, 1}]
  BY DEF Inv, CallersWell, Typed
<1>1. CASE GetTime(t)
  <2> DEFINE what == [began |-> clock]
  <2>1. Go(t, "time", what) /\ UNCHANGED <<clock, setbacks, trace, tm, written, pool>>
    BY <1>1 DEF GetTime, time
  <2>2. what \in [began : Times]
    BY <1>0
  <2> HIDE DEF what
  <2>3. (pc'[t] = "time" /\ own'[t] = what) => OwnWell(t)'
    BY <2>2 DEF OwnWell
  <2> QED
    BY <1>0, <2>1, <2>3, FormatStep
<1>2. CASE LocalTime(t)
  <2>1. /\ Go(t, "tm", own[t]) /\ tm' = Fields(own[t].began)
        /\ UNCHANGED <<clock, setbacks, trace, written, pool>>
    BY <1>2 DEF LocalTime, time
  <2>2. own[t] \in [began : Times]
    BY <1>0, <1>2 DEF LocalTime, OwnWell, time
  <2>3. tm' \in [min : Nat, sec : {0, 1}]
    BY <2>1, <2>2 DEF Fields, Times
  <2>4. (pc'[t] = "tm" /\ own'[t] = own[t]) => OwnWell(t)'
    BY <2>2 DEF OwnWell
  <2> QED
    BY <2>1, <2>3, <2>4, FormatStep
<1>3. CASE StrftimeMinutes(t)
  <2> DEFINE what == [began |-> own[t].began, min |-> tm.min]
  <2>1. Go(t, "sec", what) /\ UNCHANGED <<clock, setbacks, trace, tm, written, pool>>
    BY <1>3 DEF StrftimeMinutes, time
  <2>2. what \in [began : Times, min : Nat]
    BY <1>0, <1>3 DEF StrftimeMinutes, OwnWell, time
  <2> HIDE DEF what
  <2>3. (pc'[t] = "sec" /\ own'[t] = what) => OwnWell(t)'
    BY <2>2 DEF OwnWell
  <2> QED
    BY <1>0, <2>1, <2>3, FormatStep
<1>4. CASE StrftimeSeconds(t)
  <2> DEFINE stamp == 2 * own[t].min + tm.sec
             what == [by |-> t, began |-> own[t].began, stamp |-> stamp,
                      trace |-> current[t]]
  <2>1. Go(t, "line", what) /\ UNCHANGED <<clock, setbacks, trace, tm, written, pool>>
    BY <1>4 DEF StrftimeSeconds, time
  <2>2. own[t] \in [began : Times, min : Nat]
    BY <1>0, <1>4 DEF StrftimeSeconds, OwnWell, time
  <2>3. stamp \in Nat
    BY <1>0, <2>2
  <2>4. current[t] \in Ids \cup {NoLine} /\ MadeBy(t, current[t])
    BY DEF Inv, Typed, TraceWell
  <2> HIDE DEF stamp
  <2>5. /\ what \in [by : {t}, began : Times, stamp : Nat, trace : Ids \cup {NoLine}]
        /\ what.trace = current[t]
    BY <2>2, <2>3, <2>4
  <2> HIDE DEF what
  <2>6. made' = made
    BY <2>1 DEF trace
  <2>7. (pc'[t] = "line" /\ own'[t] = what) => OwnWell(t)'
    BY <2>4, <2>5, <2>6 DEF OwnWell, MadeBy
  <2> QED
    BY <1>0, <2>1, <2>7, FormatStep
<1> QED
  BY <1>1, <1>2, <1>3, <1>4

-----------------------------------------------------------------------------
(* The lines.                                                              *)

\* Sequences of one element.
LEMMA One == ASSUME NEW S, NEW x \in S PROVE <<x>> \in Seq(S)
OBVIOUS

\* A line more at the end of the queue.
LEMMA Submitted ==
  ASSUME NEW a \in Seq(Lines), NEW b \in Seq(Lines), NEW c \in Seq(Lines), NEW x \in Lines
  PROVE  a \o (b \o Append(c, x)) = Append(a \o (b \o c), x)
<1>1. <<x>> \in Seq(Lines) /\ b \o c \in Seq(Lines) /\ a \o (b \o c) \in Seq(Lines)
  BY One, ConcatProperties
<1>2. Append(c, x) = c \o <<x>>
  BY AppendIsConcat
<1>3. Append(a \o (b \o c), x) = (a \o (b \o c)) \o <<x>>
  BY <1>1, AppendIsConcat
<1>4. b \o (c \o <<x>>) = (b \o c) \o <<x>>
  BY <1>1, ConcatAssociative
<1>5. a \o ((b \o c) \o <<x>>) = (a \o (b \o c)) \o <<x>>
  BY <1>1, ConcatAssociative
<1> QED
  BY <1>2, <1>3, <1>4, <1>5

\* The first of the queue goes to the worker.
LEMMA Started ==
  ASSUME NEW S, NEW a \in Seq(S), NEW c \in Seq(S), c # <<>>
  PROVE  a \o (<<Head(c)>> \o Tail(c)) = a \o (<<>> \o c)
<1>1. <<>> \o c = c
  BY ConcatEmptySeq
<1>2. <<Head(c)>> \o Tail(c) = c
  <2>1. /\ Len(c) \in Nat /\ Len(c) > 0
        /\ Head(c) = c[1] /\ Head(c) \in S /\ Tail(c) \in Seq(S)
        /\ Len(Tail(c)) = Len(c) - 1
        /\ \A i \in 1..Len(Tail(c)) : Tail(c)[i] = c[i + 1]
    BY HeadTailProperties, EmptySeq, LenProperties, ElementOfSeq
  <2>2. /\ <<Head(c)>> \in Seq(S) /\ Len(<<Head(c)>>) = 1 /\ <<Head(c)>>[1] = Head(c)
    BY <2>1, One
  <2> DEFINE h == <<Head(c)>>
             r == Tail(c)
  <2>3. /\ h \o r \in Seq(S) /\ Len(h \o r) = Len(c)
        /\ \A i \in 1..Len(c) : (h \o r)[i] = IF i <= 1 THEN h[i] ELSE r[i - 1]
    <3> HIDE DEF h, r
    <3>1. h \in Seq(S) /\ r \in Seq(S) /\ Len(h) = 1 /\ Len(r) = Len(c) - 1 /\ Len(c) \in Nat
      BY <2>1, <2>2 DEF h, r
    <3>2. /\ h \o r \in Seq(S) /\ Len(h \o r) = Len(h) + Len(r)
          /\ \A i \in 1..Len(h) + Len(r) :
                (h \o r)[i] = IF i <= Len(h) THEN h[i] ELSE r[i - Len(h)]
      BY <3>1, ConcatProperties
    <3> QED
      BY <3>1, <3>2
  <2>4. \A i \in 1..Len(c) : (h \o r)[i] = c[i]
    BY <2>1, <2>2, <2>3
  <2> QED
    BY <2>3, <2>4, SeqEqual
<1> QED
  BY <1>1, <1>2

\* What the worker has goes to the end of the file.
LEMMA Filed ==
  ASSUME NEW S, NEW a \in Seq(S), NEW c \in Seq(S), NEW x \in S
  PROVE  Append(a, x) \o (<<>> \o c) = a \o (<<x>> \o c)
<1>1. Append(a, x) = a \o <<x>> /\ <<x>> \in Seq(S) /\ <<>> \o c = c
  BY One, AppendIsConcat, ConcatEmptySeq
<1> QED
  BY <1>1, ConcatAssociative

\* The parts of LinesWell are sequences of lines.
LEMMA Parts ==
  ASSUME Typed
  PROVE  /\ Target \in FileNames /\ Written \in Seq(Lines)
         /\ Busy \in Seq(Lines) /\ tasks \in Seq(Lines)
<1>1. Target \in FileNames
  BY DEF Target, FileNames
<1>2. Written \in Seq(Lines) /\ tasks \in Seq(Lines)
  BY <1>1 DEF Written, Typed
<1>3. Busy \in Seq(Lines)
  <2>1. running["w1"] \in Lines \cup {NoLine}
    BY DEF Typed, Workers
  <2> QED
    BY <2>1, One, EmptySeq DEF Busy
<1> QED
  BY <1>1, <1>2, <1>3

\* WriteToFile: the order of the queue is the order under lock_mut.
LEMMA WriteStep == ASSUME Inv, NEW t \in Threads, WriteToFile(t) PROVE Inv'
<1> USE DEF Inv
<1> DEFINE line == [by |-> own[t].by, n |-> Len(logged) + 1, stamp |-> own[t].stamp,
                    began |-> own[t].began, trace |-> own[t].trace]
<1>1. /\ Go(t, "idle", <<>>) /\ logged' = Append(logged, line)
      /\ \/ Submits /\ Pool!Submit(line)
         \/ ~Submits /\ UNCHANGED pool
      /\ UNCHANGED <<clock, setbacks, trace, tm, open, file, life>>
  BY DEF WriteToFile, time
<1>2. /\ own[t] \in [by : {t}, began : Times, stamp : Nat, trace : Ids \cup {NoLine}]
      /\ MadeBy(t, own[t].trace)
  BY DEF WriteToFile, CallersWell, OwnWell, time
<1>3. logged \in Seq(Lines) /\ Len(logged) \in Nat
  BY LenProperties DEF Typed
<1>4. line \in Lines /\ line.by = t /\ line.trace = own[t].trace
  <2> DEFINE n == Len(logged) + 1
  <2>1. n \in Nat
    BY <1>3
  <2> HIDE DEF n
  <2> QED
    BY <1>2, <2>1 DEF Lines
<1> HIDE DEF line
<1>5. /\ logged' \in Seq(Lines) /\ Len(logged') = Len(logged) + 1
      /\ \A i \in 1..Len(logged) : logged'[i] = logged[i]
      /\ logged'[Len(logged) + 1] = line
  BY <1>1, <1>3, <1>4, AppendProperties
<1>6. /\ UNCHANGED <<made, current, counter, running>>
      /\ tasks' \in Seq(Lines)
  <2>1. CASE Submits /\ Pool!Submit(line)
    BY <1>1, <1>4, <2>1, AppendProperties DEF Pool!Submit, Typed, trace
  <2>2. CASE ~Submits /\ UNCHANGED pool
    BY <1>1, <2>2 DEF pool, Typed, trace
  <2> QED
    BY <1>1, <2>1, <2>2
<1>7. TraceWell'
  <2>1. \A i \in 1..Len(logged') : i \in 1..Len(logged) \/ i = Len(logged) + 1
    BY <1>3, <1>5
  <2>2. \A i \in 1..Len(logged') : MadeBy(logged'[i].by, logged'[i].trace)
    BY <1>2, <1>4, <1>5, <2>1 DEF TraceWell
  <2> QED
    BY <1>6, <2>2 DEF TraceWell, MadeBy
<1>8. /\ Later /\ counter' \in Nat /\ counter <= counter'
  BY <1>1, <1>6 DEF Typed, Times, Later
<1>9. /\ pc' \in [Threads -> {"idle", "gen", "time", "tm", "sec", "line"}]
      /\ DOMAIN own' = Threads
      /\ pc'[t] = "idle"
  BY <1>1, GoTyped
<1>10. CallersWell'
  <2>1. OwnWell(t)'
    BY <1>9 DEF OwnWell
  <2> QED
    BY <1>1, <1>6, <1>8, <2>1, CallersStay
<1>11. Typed'
  BY <1>1, <1>5, <1>6, <1>9 DEF Typed
<1>12. LifeWell'
  BY <1>1, <1>6 DEF LifeWell, Pool!Submit, pool
<1>13. LinesWell'
  <2>1. Written' = Written /\ Busy' = Busy /\ Submits' = Submits
    BY <1>1, <1>6 DEF Written, Target, Busy, Submits
  <2>2. CASE Submits /\ Pool!Submit(line)
    <3>1. tasks' = Append(tasks, line)
      BY <2>2 DEF Pool!Submit
    <3>2. Written \o (Busy \o tasks) = logged
      BY <2>2 DEF LinesWell
    <3>3. Written \o (Busy \o tasks') = Append(logged, line)
      <4>1. /\ Written \in Seq(Lines) /\ Busy \in Seq(Lines) /\ tasks \in Seq(Lines)
            /\ line \in Lines
        BY <1>4, Parts
      <4>2. Written \o (Busy \o Append(tasks, line)) = Append(Written \o (Busy \o tasks), line)
        BY ONLY <4>1, Submitted, Zenon
      <4> QED
        BY ONLY <4>2, <3>1, <3>2, Zenon
    <3>4. Written' \o (Busy' \o tasks') = logged' /\ Submits'
      BY <1>1, <2>1, <2>2, <3>3
    <3> QED
      BY <3>4 DEF LinesWell
  <2>3. CASE ~Submits /\ UNCHANGED pool
    BY <2>1, <2>3 DEF LinesWell, pool
  <2> QED
    BY <1>1, <2>2, <2>3
<1> QED
  BY <1>1, <1>6, <1>7, <1>8, <1>10, <1>11, <1>12, <1>13, IdsStay

\* A step of the worker or of the destructor leaves callers and ids alone.
LEMMA CallersIdle ==
  ASSUME Inv, UNCHANGED <<clock, setbacks, trace, pc, own, logged>>
  PROVE  CallersWell' /\ IdsWell' /\ TraceWell'
<1>1. UNCHANGED <<clock, setbacks, counter, made, current, pc, own, logged>>
  BY DEF trace
<1>2. /\ Later /\ counter' \in Nat /\ counter <= counter'
  BY <1>1 DEF Inv, Typed, Times, Later
<1> QED
  BY <1>1, <1>2, OthersWell, IdsStay, TracesStay DEF Inv, CallersWell

\* The worker takes the first line of the queue ...
LEMMA StartStep == ASSUME Inv, NEW w \in Workers, WorkerStart(w) PROVE Inv'
<1> USE DEF Inv
<1>1. /\ w = "w1" /\ ~closed /\ tasks # <<>> /\ running["w1"] = NoLine
      /\ running' = [running EXCEPT !["w1"] = Head(tasks)]
      /\ tasks' = Tail(tasks) /\ UNCHANGED closed
      /\ UNCHANGED <<clock, setbacks, trace, tm, pc, own, open, logged, file, life>>
  BY DEF WorkerStart, Workers, Pool!Start, written, time
<1>2. /\ tasks \in Seq(Lines) /\ Head(tasks) \in Lines /\ Tail(tasks) \in Seq(Lines)
  BY <1>1, HeadTailProperties DEF Typed
<1>3. /\ running' \in [Workers -> Lines \cup {NoLine}] /\ running'["w1"] = Head(tasks)
  BY <1>1, <1>2 DEF Typed, Workers
<1>4. Typed'
  BY <1>1, <1>2, <1>3 DEF Typed, trace
<1>5. LifeWell'
  BY <1>1 DEF LifeWell, Typed
<1>6. LinesWell'
  <2>1. Written' = Written /\ Submits' = Submits
    BY <1>1 DEF Written, Target, Submits
  <2>2. Busy = <<>> /\ Busy' = <<Head(tasks)>>
    BY <1>1, <1>2, <1>3, NoLineAssumption DEF Busy
  <2>3. Written \o (<<Head(tasks)>> \o Tail(tasks)) = Written \o (<<>> \o tasks)
    BY <1>1, <1>2, Parts, Started
  <2> QED
    BY <1>1, <2>1, <2>2, <2>3 DEF LinesWell
<1> QED
  BY <1>1, <1>4, <1>5, <1>6, CallersIdle

\* ... and writes it.
LEMMA FileStep == ASSUME Inv, NEW w \in Workers, WorkerWrites(w) PROVE Inv'
<1> USE DEF Inv
<1>1. /\ w = "w1" /\ running["w1"] # NoLine
      /\ running' = [running EXCEPT !["w1"] = NoLine]
      /\ file' = [file EXCEPT ![Target] = Append(file[Target], running["w1"])]
      /\ UNCHANGED <<tasks, closed, clock, setbacks, trace, tm, pc, own, open, logged, life>>
  BY DEF WorkerWrites, Workers, Pool!Finish, time
<1>2. /\ running["w1"] \in Lines /\ Target \in FileNames /\ Written \in Seq(Lines)
      /\ tasks \in Seq(Lines)
  BY <1>1, Parts DEF Typed, Workers
<1>3. Append(Written, running["w1"]) \in Seq(Lines)
  BY <1>2, AppendProperties
<1>4. /\ file' \in [FileNames -> Seq(Lines)] /\ file'[Target] = Append(Written, running["w1"])
      /\ running' \in [Workers -> Lines \cup {NoLine}] /\ running'["w1"] = NoLine
  BY <1>1, <1>2, <1>3 DEF Typed, Workers, Written
<1>5. Typed'
  BY <1>1, <1>4 DEF Typed, trace
<1>6. LifeWell'
  BY <1>1, <1>4 DEF LifeWell
<1>7. LinesWell'
  <2>1. Written' = Append(Written, running["w1"]) /\ Submits' = Submits
    BY <1>1, <1>4 DEF Written, Target, Submits
  <2>2. Busy = <<running["w1"]>> /\ Busy' = <<>>
    BY <1>1, <1>4 DEF Busy
  <2>3. Append(Written, running["w1"]) \o (<<>> \o tasks)
           = Written \o (<<running["w1"]>> \o tasks)
    BY <1>2, Filed
  <2> QED
    BY <1>1, <2>1, <2>2, <2>3 DEF LinesWell
<1> QED
  BY <1>1, <1>5, <1>6, <1>7, CallersIdle

\* ~Logger, member by member.
LEMMA DtorStep == ASSUME Inv, DtorPool \/ DtorJoin \/ DtorFiles PROVE Inv'
<1> USE DEF Inv
<1>1. /\ UNCHANGED <<clock, setbacks, trace, tm, pc, own, open, logged, file, tasks, running>>
      /\ life' \in {"joining", "joined", "closed"}
  BY DEF DtorPool, DtorJoin, DtorFiles, Pool!Close, pool, time
<1>2. Typed'
  BY <1>1 DEF Typed, trace
<1>3. LinesWell'
  BY <1>1 DEF LinesWell, Written, Target, Busy, Submits
<1>4. LifeWell'
  BY DEF LifeWell, DtorPool, DtorJoin, DtorFiles, Pool!Close, pool, Workers, time
<1> QED
  BY <1>1, <1>2, <1>3, <1>4, CallersIdle

-----------------------------------------------------------------------------

\* The invariant holds in every state.
THEOREM Invariance == Spec => []Inv
<1>1. Init => Inv
  <2> SUFFICES ASSUME Init PROVE Inv
    OBVIOUS
  <2>1. Typed
    BY BoundsAssumption, EmptySeq DEF Init, Typed, Times, Pool!Init, FileNames, Workers
  <2>2. CallersWell /\ IdsWell /\ TraceWell
    BY EmptySeq DEF Init, CallersWell, OwnWell, IdsWell, IdsInOrder, TraceWell, MadeBy
  <2>3. LinesWell
    <3>1. Written = <<>> /\ Busy = <<>> /\ tasks = <<>> /\ logged = <<>>
      BY DEF Init, Written, Target, FileNames, Busy, Pool!Init, Workers
    <3>2. <<>> \o (<<>> \o <<>>) = <<>>
      BY ConcatEmptySeq, EmptySeq
    <3> QED
      BY <3>1, <3>2 DEF LinesWell
  <2>4. LifeWell
    BY DEF Init, LifeWell
  <2> QED
    BY <2>1, <2>2, <2>3, <2>4 DEF Inv
<1>2. Inv /\ [Next]_vars => Inv'
  <2> SUFFICES ASSUME Inv, [Next]_vars PROVE Inv'
    OBVIOUS
  <2>1. CASE UNCHANGED vars
    <3>1. UNCHANGED <<clock, setbacks, trace, pc, own, logged, written, pool, tm>>
      BY <2>1 DEF vars, trace, written, pool
    <3>2. Typed'
      BY <2>1 DEF Inv, Typed, vars
    <3> QED
      BY <3>1, <3>2, CallersIdle, PoolStays DEF Inv
  <2> QED
    BY <2>1, TickStep, GenClockStep, GenAddStep, SetStep, LineMade, WriteStep, StartStep,
       FileStep, DtorStep
       DEF Next, Caller
<1> QED
  BY <1>1, <1>2, PTL DEF Spec

\* What the log says is right: the file holds the lines in the order of the calls of
\* WriteToFile, each once and without a gap, every line has a trace id of its own
\* thread, and the worker has nothing left to write when the files are closed.
THEOREM LogIsRight == Spec => []LinesRight
<1>1. Inv => LinesRight
  <2> SUFFICES ASSUME Inv PROVE FileInOrder /\ NoWriteAfterClose /\ OwnTrace
    BY DEF LinesRight
  <2>0. logged \in Seq(Lines) /\ Written \in Seq(Lines) /\ Busy \o tasks \in Seq(Lines)
    BY Parts, ConcatProperties DEF Inv, Typed
  <2>1. FileInOrder
    <3>1. CASE Submits
      <4>1. Written \o (Busy \o tasks) = logged
        BY <3>1 DEF Inv, LinesWell
      <4>2. SubSeq(Written \o (Busy \o tasks), 1, Len(Written)) = Written
        BY <2>0, SubSeqOfConcat1, SubSeqFull, LenProperties
      <4> QED
        BY <4>1, <4>2 DEF FileInOrder
    <3>2. CASE ~Submits
      <4>1. Written \o (Busy \o tasks) = <<>>
        BY <3>2 DEF Inv, LinesWell
      <4>2. Written = <<>>
        BY <2>0, <4>1, ConcatEqualIffEmpty, ConcatProperties, EmptySeq, LenProperties
      <4> QED
        BY <2>0, <4>2, SubSeqEmpty, EmptySeq DEF FileInOrder
    <3> QED
      BY <3>1, <3>2
  <2>2. NoWriteAfterClose
    BY DEF NoWriteAfterClose, Inv, LifeWell, Workers
  <2>3. OwnTrace
    <3>1. DOMAIN logged = 1..Len(logged)
      BY <2>0, LenProperties
    <3> QED
      BY <3>1 DEF OwnTrace, Inv, TraceWell, MadeBy
  <2> QED
    BY <2>1, <2>2, <2>3
<1> QED
  BY <1>1, Invariance, PTL

\* No trace id is given out twice, and an id that was returned before another was
\* asked for is less than it, although the clock and the counter are read at
\* different moments, unless the clock was set back between the two.
THEOREM IdsAreRight == Spec => []IdsRight
<1>1. Inv => IdsRight
  BY DEF Inv, IdsWell, IdsRight, IdsUnique
<1> QED
  BY <1>1, Invariance, PTL
=============================================================================
