-------------------------- MODULE CommitLogProofs --------------------------
(***************************************************************************)
(* CommitLog.tla for any batches, watermarks and epochs, and for files of  *)
(* any length: a replay accepts whatever has been written and finds the    *)
(* credited watermark, and the log implements DurableLog.                  *)
(***************************************************************************)
EXTENDS CommitLog, SequenceTheorems, TLAPS

-----------------------------------------------------------------------------
(* The invariants.                                                         *)

Typed == /\ file \in Seq(Records) /\ promised \in Seq(Records)
         /\ durable \in 0..Len(file)
         /\ offset \in 0..Len(file)
         /\ linked \in {"none", "cached", "durable"}
         /\ handle \in {"closed", "replay", "open", "refused"}

\* Record i follows the one before it the way the caller of append goes on.
Follows(i) ==
    IF i = 1 THEN file[i].batch_no = 1
    ELSE \/ file[i].batch_no = file[i - 1].batch_no /\ file[i].state >= file[i - 1].state
         \/ file[i].batch_no = file[i - 1].batch_no + 1 /\ file[i].state = 0

Ordered == \A i \in 1..Len(file) : Follows(i)

\* hw is the credited watermark of the first n records of s.
IsCredit(hw, s, n) ==
    /\ hw \in Nat
    /\ \A i \in 1..n : s[i].state >= 1 => s[i].candidate_hw <= hw
    /\ hw = 0 \/ \E i \in 1..n : s[i].state >= 1 /\ s[i].candidate_hw = hw

\* What the replay has made of the records before the offset.
ReplayWell ==
    handle = "replay" =>
        /\ prev = IF offset = 0 THEN NoPrev
                  ELSE [batch_no |-> file[offset].batch_no, state |-> file[offset].state]
        /\ IsCredit(reply.credit_hw, file, offset)

\* The next record goes to the end of the file.
OpenWell == handle = "open" => offset = Len(file)

\* The first records have a credited watermark, however many they are.
HasCredit == \A n \in 0..Len(file) : \E hw \in Nat : IsCredit(hw, file, n)

Inv == Typed /\ Ordered /\ HasCredit /\ ReplayWell /\ OpenWell /\ NeverRefused

\* A process that dies between the creation of the file and the sync of the
\* directory leaves an entry that a crash of the machine may take: the two
\* together lose synced records, which CommitLog_entry.cfg shows.
EntryIsSafe == ~({"crash", "kill"} \subseteq Faults)

\* The records of the last sync are on the disk, and the first ones of the file.
Kept == /\ Len(promised) <= durable
        /\ \A i \in 1..Len(promised) : promised[i] = file[i]
        /\ linked = "cached" => "kill" \in Faults

-----------------------------------------------------------------------------
(* Records and sequences of them.                                          *)

LEMMA RecordType ==
  ASSUME NEW e \in Records
  PROVE  e.batch_no \in Nat /\ e.candidate_hw \in Nat /\ e.state \in 0..2
<1>1. e.batch_no \in 1..MaxBatch /\ e.candidate_hw \in Hws /\ e.state \in 0..2
  BY DEF Records
<1>2. e.candidate_hw \in Nat
  BY <1>1, HwsAssumption
<1>3. e.batch_no \in Nat
  BY <1>1, BatchAssumption
<1> QED
  BY <1>1, <1>2, <1>3

LEMMA Elements ==
  ASSUME NEW s \in Seq(Records)
  PROVE  /\ Len(s) \in Nat
         /\ \A i \in 1..Len(s) : s[i] \in Records
         /\ \A i \in 1..Len(s) : s[i].batch_no \in Nat /\ s[i].candidate_hw \in Nat
                                   /\ s[i].state \in 0..2
<1>1. Len(s) \in Nat /\ \A i \in 1..Len(s) : s[i] \in Records
  BY LenProperties, ElementOfSeq
<1> QED
  BY <1>1, RecordType

\* The first n records.
LEMMA Prefix ==
  ASSUME NEW s \in Seq(Records), NEW n \in 0..Len(s)
  PROVE  /\ SubSeq(s, 1, n) \in Seq(Records)
         /\ Len(SubSeq(s, 1, n)) = n
         /\ \A i \in 1..n : SubSeq(s, 1, n)[i] = s[i]
<1>1. Len(s) \in Nat /\ n \in Nat /\ n <= Len(s)
  BY LenProperties
<1>2. \A i \in 1..n : s[i] \in Records
  BY <1>1, ElementOfSeq
<1> QED
  BY <1>1, <1>2, SubSeqProperties

LEMMA WholePrefix == ASSUME NEW s \in Seq(Records) PROVE SubSeq(s, 1, Len(s)) = s
<1>1. Len(s) \in 0..Len(s)
  BY LenProperties
<1>2. /\ SubSeq(s, 1, Len(s)) \in Seq(Records)
      /\ Len(SubSeq(s, 1, Len(s))) = Len(s)
      /\ \A i \in 1..Len(s) : SubSeq(s, 1, Len(s))[i] = s[i]
  BY <1>1, Prefix
<1> QED
  BY <1>2, SeqEqual

\* The watermark is the one CreditedIn takes the maximum for.
LEMMA CreditIsMax ==
  ASSUME NEW s \in Seq(Records), NEW hw, IsCredit(hw, s, Len(s))
  PROVE  CreditedIn(s) = hw
<1> DEFINE hws == {0} \cup {s[i].candidate_hw : i \in {j \in 1..Len(s) : s[j].state >= 1}}
<1>1. hws \subseteq Nat /\ hw \in hws /\ \A y \in hws : hw >= y
  BY Elements DEF IsCredit
<1>2. CreditedIn(s) = Max(hws)
  BY DEF CreditedIn
<1> HIDE DEF hws
<1>3. \A x \in hws : (\A y \in hws : x >= y) => x = hw
  BY <1>1
<1> QED
  BY <1>1, <1>2, <1>3 DEF Max

\* A shorter log has credited no more.
LEMMA CreditGrows ==
  ASSUME NEW s \in Seq(Records), NEW t \in Seq(Records),
         NEW lo, IsCredit(lo, s, Len(s)), NEW hi, IsCredit(hi, t, Len(t)),
         Len(s) <= Len(t), \A i \in 1..Len(s) : s[i] = t[i]
  PROVE  lo <= hi
<1>1. Len(s) \in Nat /\ Len(t) \in Nat
  BY Elements
<1> QED
  BY <1>1 DEF IsCredit

\* One record more.
LEMMA CreditNext ==
  ASSUME NEW s, NEW n \in Nat, NEW hw, IsCredit(hw, s, n),
         \A i \in 1..(n + 1) : s[i].candidate_hw \in Nat /\ s[i].state \in 0..2
  PROVE  IsCredit(IF s[n + 1].state >= 1 /\ hw < s[n + 1].candidate_hw
                  THEN s[n + 1].candidate_hw ELSE hw, s, n + 1)
<1> DEFINE new == IF s[n + 1].state >= 1 /\ hw < s[n + 1].candidate_hw
                  THEN s[n + 1].candidate_hw ELSE hw
<1>1. hw \in Nat /\ new \in Nat /\ hw <= new
  BY DEF IsCredit
<1>2. \A i \in 1..(n + 1) : i \in 1..n \/ i = n + 1
  OBVIOUS
<1>3. \A i \in 1..(n + 1) : s[i].state >= 1 => s[i].candidate_hw <= new
  <2> SUFFICES ASSUME NEW i \in 1..(n + 1), s[i].state >= 1
               PROVE  s[i].candidate_hw <= new
    OBVIOUS
  <2>1. CASE i \in 1..n
    <3>1. s[i].candidate_hw <= hw
      BY <2>1 DEF IsCredit
    <3>2. CASE new = hw
      BY <3>1, <3>2
    <3>3. CASE new # hw
      BY <1>1, <3>1, <3>3
    <3> QED
      BY <3>2, <3>3
  <2>2. CASE i = n + 1
    BY <1>1, <2>2
  <2> QED
    BY <1>2, <2>1, <2>2
<1>4. new = 0 \/ \E i \in 1..(n + 1) : s[i].state >= 1 /\ s[i].candidate_hw = new
  BY <1>1, <1>2 DEF IsCredit
<1> HIDE DEF new
<1> QED
  BY <1>1, <1>3, <1>4 DEF IsCredit, new

\* The watermark depends on the records only.
LEMMA CreditSame ==
  ASSUME NEW s, NEW t, NEW n, NEW hw, IsCredit(hw, s, n), \A i \in 1..n : s[i] = t[i]
  PROVE  IsCredit(hw, t, n)
BY DEF IsCredit

-----------------------------------------------------------------------------
(* The steps.                                                              *)

\* A file of which only the end has been taken is as good.
LEMMA CutWell ==
  ASSUME Inv, NEW n \in 0..Len(file), file' = SubSeq(file, 1, n)
  PROVE  file' \in Seq(Records) /\ Len(file') = n /\ Ordered' /\ HasCredit'
<1> USE DEF Inv, Typed
<1>1. /\ file' \in Seq(Records) /\ Len(file') = n
      /\ \A i \in 1..n : file'[i] = file[i]
  BY Prefix
<1>2. Len(file) \in Nat
  BY Elements
<1>3. Ordered'
  <2> SUFFICES ASSUME NEW i \in 1..n PROVE Follows(i)'
    BY <1>1 DEF Ordered
  <2>1. Follows(i) /\ file'[i] = file[i]
    BY <1>1, <1>2 DEF Ordered
  <2>2. i # 1 => file'[i - 1] = file[i - 1]
    BY <1>1, <1>2
  <2> QED
    BY <2>1, <2>2 DEF Follows
<1>4. HasCredit'
  <2> SUFFICES ASSUME NEW k \in 0..n PROVE \E hw \in Nat : IsCredit(hw, file', k)
    BY <1>1 DEF HasCredit
  <2>0. k \in 0..Len(file)
    BY <1>2
  <2>1. PICK hw \in Nat : IsCredit(hw, file, k)
    BY <2>0 DEF HasCredit
  <2>2. \A i \in 1..k : file[i] = file'[i]
    BY <1>1
  <2> QED
    BY <2>1, <2>2, CreditSame
<1> QED
  BY <1>1, <1>3, <1>4

LEMMA SameWell == ASSUME Inv, file' = file PROVE Ordered' /\ HasCredit'
BY DEF Inv, Ordered, Follows, HasCredit, IsCredit

LEMMA OpenStep == ASSUME Inv, OpenOrCreate PROVE Inv'
<1> USE DEF Inv, OpenOrCreate
<1>1. Ordered' /\ HasCredit'
  BY SameWell
<1>2. Typed'
  BY Elements DEF Typed
<1>3. CASE handle' = handle
  BY <1>1, <1>2, <1>3 DEF ReplayWell, OpenWell, NeverRefused
<1>4. CASE handle' = "replay" /\ offset' = 0 /\ prev' = NoPrev /\ reply' = NoReply
  <2>1. IsCredit(reply'.credit_hw, file', offset')
    BY <1>4 DEF IsCredit, NoReply
  <2> QED
    BY <1>1, <1>2, <1>4, <2>1 DEF ReplayWell, OpenWell, NeverRefused
<1> QED
  BY <1>3, <1>4

\* The order of the file is the order that StateSteps asks for.
LEMMA StepsOn ==
  ASSUME Inv, handle = "replay", offset < Len(file)
  PROVE  StateSteps(file[offset + 1])
<1> USE DEF Inv, Typed
<1>1. offset \in Nat /\ Len(file) \in Nat /\ offset + 1 \in 1..Len(file)
  BY Elements
<1>2. Follows(offset + 1)
  BY <1>1 DEF Ordered
<1>3. file[offset + 1].batch_no \in Nat /\ file[offset + 1].state \in 0..2
  BY <1>1, Elements
<1>4. CASE offset = 0
  BY <1>2, <1>3, <1>4 DEF Follows, ReplayWell, NoPrev, StateSteps
<1>5. CASE offset # 0
  <2>1. offset \in 1..Len(file) /\ offset + 1 # 1 /\ (offset + 1) - 1 = offset
    BY <1>1, <1>5
  <2>2. file[offset].state \in 0..2
    BY <2>1, Elements
  <2>3. prev.batch_no = file[offset].batch_no /\ prev.state = file[offset].state
    BY <1>5 DEF ReplayWell
  <2> QED
    BY <1>2, <1>3, <2>1, <2>2, <2>3 DEF Follows, StateSteps
<1> QED
  BY <1>4, <1>5

LEMMA ReplayStep == ASSUME Inv, ReplayRecord PROVE Inv'
<1> USE DEF Inv
<1> DEFINE e == file[offset + 1]
<1>1. /\ handle' = "replay" /\ offset' = offset + 1 /\ file' = file
      /\ prev' = [batch_no |-> e.batch_no, state |-> e.state]
      /\ reply'.credit_hw = Credited(e)
      /\ UNCHANGED <<durable, linked, promised>>
  BY StepsOn DEF ReplayRecord
<1>2. offset \in Nat /\ Len(file) \in Nat /\ offset + 1 <= Len(file)
  BY Elements DEF ReplayRecord, Typed
<1>3. Ordered' /\ HasCredit'
  BY <1>1, SameWell
<1>4. Typed'
  BY <1>1, <1>2 DEF Typed
<1>5. IsCredit(Credited(e), file, offset + 1)
  <2>1. IsCredit(reply.credit_hw, file, offset)
    BY DEF ReplayRecord, ReplayWell
  <2>2. \A i \in 1..(offset + 1) : file[i].candidate_hw \in Nat /\ file[i].state \in 0..2
    BY <1>2, Elements DEF Typed
  <2> QED
    BY <1>2, <2>1, <2>2, CreditNext DEF Credited
<1>6. ReplayWell'
  BY <1>1, <1>2, <1>5 DEF ReplayWell
<1> QED
  BY <1>1, <1>3, <1>4, <1>6 DEF OpenWell, NeverRefused

LEMMA EndStep == ASSUME Inv, ReplayEnd PROVE Inv'
<1>1. Ordered' /\ HasCredit'
  BY SameWell DEF ReplayEnd
<1> QED
  BY <1>1 DEF Inv, ReplayEnd, Typed, ReplayWell, OpenWell, NeverRefused

\* What a record is written behind.
LEMMA Appended ==
  ASSUME Inv, NEW e \in Records, AppendRecord(e), file' # file
  PROVE  /\ file' = Append(file, e) /\ file' \in Seq(Records) /\ Len(file') = Len(file) + 1
         /\ offset' = Len(file')
         /\ \A i \in 1..Len(file) : file'[i] = file[i]
         /\ file'[Len(file) + 1] = e
<1> USE DEF Inv, Typed
<1>1. offset = Len(file) /\ Len(file) \in Nat
  BY Elements DEF AppendRecord, OpenWell
<1>2. file' = Append(file, e) /\ offset' = offset + 1
  BY <1>1, WholePrefix DEF AppendRecord
<1> QED
  BY <1>1, <1>2, AppendProperties

LEMMA AppendStep == ASSUME Inv, NEW e \in NextRecords, AppendRecord(e) PROVE Inv'
<1> USE DEF Inv
<1>0. e \in Records /\ handle = "open" /\ UNCHANGED <<durable, linked, handle, promised>>
  BY DEF AppendRecord, NextRecords
<1>1. CASE file' = file
  <2>1. Ordered' /\ HasCredit'
    BY <1>1, SameWell
  <2>2. offset' = offset
    <3>1. CASE UNCHANGED offset
      BY <3>1
    <3>2. CASE file' = Append(SubSeq(file, 1, offset), e)
      <4>1. offset = Len(file) /\ SubSeq(file, 1, Len(file)) = file
        BY <1>0, WholePrefix DEF OpenWell, Typed
      <4>2. file' = Append(file, e)
        BY <3>2, <4>1
      <4>3. Len(file') = Len(file) + 1 /\ Len(file) \in Nat
        BY <1>0, <4>2, AppendProperties, Elements DEF Typed
      <4> QED
        BY <1>1, <4>3
    <3> QED
      BY <3>1, <3>2 DEF AppendRecord
  <2> QED
    BY <1>0, <1>1, <2>1, <2>2 DEF Typed, ReplayWell, OpenWell, NeverRefused
<1>2. CASE file' # file
  <2>1. /\ file' \in Seq(Records) /\ Len(file') = Len(file) + 1
        /\ offset' = Len(file')
        /\ \A i \in 1..Len(file) : file'[i] = file[i]
        /\ file'[Len(file) + 1] = e
    BY <1>0, <1>2, Appended
  <2>2. Len(file) \in Nat
    BY Elements DEF Typed
  <2>3. \A i \in 1..(Len(file) + 1) : i \in 1..Len(file) \/ i = Len(file) + 1
    BY <2>2
  <2>4. Typed'
    BY <1>0, <2>1, <2>2 DEF Typed
  <2>5. Ordered'
    <3> SUFFICES ASSUME NEW i \in 1..Len(file') PROVE Follows(i)'
      BY DEF Ordered
    <3>1. CASE i \in 1..Len(file)
      <4>1. Follows(i) /\ file'[i] = file[i] /\ (i # 1 => file'[i - 1] = file[i - 1])
        BY <2>1, <2>2, <3>1 DEF Ordered
      <4> QED
        BY <4>1 DEF Follows
    <3>2. CASE i = Len(file) + 1 /\ Len(file) = 0
      <4>1. file = <<>>
        BY <3>2, EmptySeq DEF Typed
      <4> QED
        BY <2>1, <3>2, <4>1 DEF Follows, NextRecords
    <3>3. CASE i = Len(file) + 1 /\ Len(file) # 0
      <4>1. file # <<>> /\ i # 1 /\ i - 1 = Len(file) /\ Len(file) \in 1..Len(file)
        BY <2>2, <3>3
      <4>2. file'[i - 1] = file[Len(file)] /\ file'[i] = e
        BY <2>1, <3>3, <4>1
      <4> QED
        BY <4>1, <4>2 DEF Follows, NextRecords
    <3> QED
      BY <2>1, <2>3, <3>1, <3>2, <3>3
  <2>6. HasCredit'
    <3> SUFFICES ASSUME NEW n \in 0..Len(file') PROVE \E hw \in Nat : IsCredit(hw, file', n)
      BY DEF HasCredit
    <3>1. \A k \in 0..Len(file) : \E hw \in Nat : IsCredit(hw, file', k)
      <4> TAKE k \in 0..Len(file)
      <4>1. PICK hw \in Nat : IsCredit(hw, file, k)
        BY DEF HasCredit
      <4>2. \A i \in 1..k : file[i] = file'[i]
        BY <2>1, <2>2
      <4> QED
        BY <4>1, <4>2, CreditSame
    <3>2. CASE n \in 0..Len(file)
      BY <3>1, <3>2
    <3>3. CASE n = Len(file) + 1
      <4>1. PICK hw \in Nat : IsCredit(hw, file', Len(file))
        BY <2>2, <3>1
      <4>2. \A i \in 1..(Len(file) + 1) : file'[i].candidate_hw \in Nat /\ file'[i].state \in 0..2
        BY <2>1, Elements
      <4> DEFINE new == IF file'[Len(file) + 1].state >= 1 /\ hw < file'[Len(file) + 1].candidate_hw
                        THEN file'[Len(file) + 1].candidate_hw ELSE hw
      <4>3. IsCredit(new, file', n)
        BY <2>2, <3>3, <4>1, <4>2, CreditNext
      <4> QED
        BY <4>3 DEF IsCredit
    <3> QED
      BY <2>1, <2>2, <3>2, <3>3
  <2> QED
    BY <1>0, <2>1, <2>4, <2>5, <2>6 DEF ReplayWell, OpenWell, NeverRefused
<1> QED
  BY <1>1, <1>2

LEMMA SyncStep == ASSUME Inv, Sync PROVE Inv'
<1>1. Ordered' /\ HasCredit'
  BY SameWell DEF Sync
<1> QED
  BY <1>1, Elements DEF Inv, Sync, Typed, ReplayWell, OpenWell, NeverRefused

LEMMA CloseStep == ASSUME Inv, Close PROVE Inv'
<1>1. Ordered' /\ HasCredit'
  BY SameWell DEF Close
<1> QED
  BY <1>1, Elements DEF Inv, Close, Typed, ReplayWell, OpenWell, NeverRefused

\* A crash leaves the first n records, none if the directory entry is gone.
LEMMA CrashCuts ==
  ASSUME Inv, Crash
  PROVE  \E n \in 0..Len(file) : file' = SubSeq(file, 1, n) /\ durable' = n
<1>1. durable \in Nat /\ Len(file) \in Nat
  BY Elements DEF Inv, Typed
<1>2. CASE file' = <<>> /\ durable' = 0
  <2>1. SubSeq(file, 1, 0) = <<>>
    BY SubSeqProperties
  <2> QED
    BY <1>1, <1>2, <2>1
<1>3. CASE \E n \in durable..Len(file) : file' = SubSeq(file, 1, n) /\ durable' = n
  BY <1>1, <1>3
<1> QED
  BY <1>2, <1>3 DEF Crash

LEMMA CrashStep == ASSUME Inv, Crash PROVE Inv'
<1>1. PICK n \in 0..Len(file) : file' = SubSeq(file, 1, n) /\ durable' = n
  BY CrashCuts
<1>2. file' \in Seq(Records) /\ Len(file') = n /\ Ordered' /\ HasCredit'
  BY <1>1, CutWell
<1>3. handle' = "closed" /\ offset' = 0 /\ promised' = promised /\ linked' \in {linked, "none"}
  BY DEF Crash
<1>4. Typed'
  BY <1>1, <1>2, <1>3, Elements DEF Inv, Typed
<1> QED
  BY <1>2, <1>3, <1>4 DEF Inv, ReplayWell, OpenWell, NeverRefused

\* The invariant holds throughout, whatever fails.
THEOREM Invariance == Spec => []Inv
<1>1. Init => Inv
  <2> SUFFICES ASSUME Init PROVE Inv
    OBVIOUS
  <2>1. Typed
    BY DEF Init, Typed
  <2>2. Len(file) = 0
    BY DEF Init
  <2>3. HasCredit
    <3>1. IsCredit(0, file, 0)
      BY DEF IsCredit
    <3> QED
      BY <2>2, <3>1 DEF HasCredit
  <2> QED
    BY <2>1, <2>2, <2>3 DEF Init, Inv, Ordered, ReplayWell, OpenWell, NeverRefused
<1>2. Inv /\ [Next]_vars => Inv'
  <2> SUFFICES ASSUME Inv, [Next]_vars PROVE Inv'
    OBVIOUS
  <2>1. CASE OpenOrCreate
    BY <2>1, OpenStep
  <2>2. CASE ReplayRecord
    BY <2>2, ReplayStep
  <2>3. CASE ReplayEnd
    BY <2>3, EndStep
  <2>4. CASE \E e \in NextRecords : AppendRecord(e)
    BY <2>4, AppendStep
  <2>5. CASE Sync
    BY <2>5, SyncStep
  <2>6. CASE Close
    BY <2>6, CloseStep
  <2>7. CASE Crash
    BY <2>7, CrashStep
  <2>8. CASE UNCHANGED vars
    BY <2>8 DEF Inv, vars, Typed, Ordered, Follows, HasCredit, IsCredit, ReplayWell, OpenWell,
                NeverRefused
  <2> QED
    BY <2>1, <2>2, <2>3, <2>4, <2>5, <2>6, <2>7, <2>8 DEF Next
<1> QED
  BY <1>1, <1>2, PTL DEF Spec

\* A log written by a caller that keeps the order of batches and states is never
\* taken for a corrupt one, wherever crashes, short writes and failed truncations
\* have cut it: open_or_create does not return false with out.corrupt.
THEOREM Accepted == Spec => []NeverRefused
BY Invariance, PTL DEF Inv

-----------------------------------------------------------------------------
(* What a sync has made durable.                                           *)

\* While the entry of the directory is safe, a crash takes no synced record.
LEMMA KeptStep ==
  ASSUME EntryIsSafe, Inv, Kept, [Next]_vars
  PROVE  Kept'
<1> USE DEF Kept
<1>0. Len(promised) \in Nat /\ Len(file) \in Nat /\ durable \in Nat
  BY Elements DEF Inv, Typed
<1>1. CASE OpenOrCreate
  BY <1>1 DEF OpenOrCreate
<1>2. CASE ReplayRecord \/ ReplayEnd \/ Close \/ UNCHANGED vars
  BY <1>2 DEF ReplayRecord, ReplayEnd, Close, vars
<1>3. CASE \E e \in NextRecords : AppendRecord(e)
  <2>1. PICK e \in NextRecords : AppendRecord(e)
    BY <1>3
  <2>2. e \in Records /\ UNCHANGED <<durable, linked, promised>>
    BY <2>1 DEF NextRecords, AppendRecord
  <2>3. CASE file' = file
    BY <2>2, <2>3
  <2>4. CASE file' # file
    <3>1. \A i \in 1..Len(file) : file'[i] = file[i]
      BY <2>1, <2>2, <2>4, Appended
    <3>2. \A i \in 1..Len(promised) : i \in 1..Len(file)
      BY <1>0 DEF Inv, Typed
    <3> QED
      BY <2>2, <3>1, <3>2
  <2> QED
    BY <2>3, <2>4
<1>4. CASE Sync
  BY <1>0, <1>4 DEF Sync
<1>5. CASE Crash
  <2>1. linked # "cached"
    BY <1>5 DEF Crash, EntryIsSafe
  <2>2. PICK n \in durable..Len(file) : file' = SubSeq(file, 1, n) /\ durable' = n
    BY <1>5, <2>1 DEF Crash
  <2>3. n \in 0..Len(file)
    BY <1>0, <2>2
  <2>4. \A i \in 1..n : file'[i] = file[i]
    BY <2>2, <2>3, Prefix DEF Inv, Typed
  <2>5. Len(promised) <= n
    BY <1>0, <2>2
  <2>6. linked' = linked /\ promised' = promised
    BY <1>5, <2>1 DEF Crash
  <2> QED
    BY <1>0, <2>2, <2>3, <2>4, <2>5, <2>6
<1> QED
  BY <1>1, <1>2, <1>3, <1>4, <1>5 DEF Next

LEMMA KeptAlways == EntryIsSafe => (Spec => []Kept)
<1> SUFFICES ASSUME EntryIsSafe PROVE Spec => []Kept
  OBVIOUS
<1>1. Init => Kept
  BY DEF Init, Kept
<1>2. Inv /\ Kept /\ [Next]_vars => Kept'
  BY KeptStep
<1> QED
  BY <1>1, <1>2, Invariance, PTL DEF Spec

\* What has been synced stays: the records of the last successful sync are the
\* first ones of the file, through crashes, short writes and reopenings.
THEOREM SyncedStays == EntryIsSafe => (Spec => []SyncedSurvives)
<1>1. Inv /\ Kept => SyncedSurvives
  <2> SUFFICES ASSUME Inv, Kept PROVE SyncedSurvives
    OBVIOUS
  <2>1. /\ promised \in Seq(Records) /\ file \in Seq(Records)
        /\ Len(promised) \in Nat /\ Len(promised) <= Len(file) /\ Len(promised) \in 0..Len(file)
    BY Elements DEF Inv, Typed, Kept
  <2> DEFINE first == SubSeq(file, 1, Len(promised))
  <2>2. /\ first \in Seq(Records) /\ Len(first) = Len(promised)
        /\ \A i \in 1..Len(promised) : first[i] = file[i]
    BY <2>1, Prefix
  <2> HIDE DEF first
  <2>3. promised = first
    BY <2>1, <2>2, SeqEqual DEF Kept
  <2>4. SubSeq(promised, 1, Len(promised)) = promised
    BY <2>1, WholePrefix
  <2> QED
    BY <2>1, <2>3, <2>4 DEF SyncedSurvives, IsPrefix, first
<1> QED
  BY <1>1, Invariance, KeptAlways, PTL

\* The credited watermark that a reopening reports is that of the records there
\* are, and not below that of any record synced before.
THEOREM CreditStays == EntryIsSafe => (Spec => CreditNotForgotten)
<1> SUFFICES ASSUME EntryIsSafe PROVE Spec => CreditNotForgotten
  OBVIOUS
<1>1. Inv /\ Kept /\ [Next]_vars =>
        [handle = "replay" /\ handle' = "open" =>
            /\ CreditedIn(promised) <= reply'.credit_hw
            /\ reply'.credit_hw = CreditedIn(file)]_vars
  <2> SUFFICES ASSUME Inv, Kept, Next, handle = "replay", handle' = "open"
               PROVE  /\ CreditedIn(promised) <= reply'.credit_hw
                      /\ reply'.credit_hw = CreditedIn(file)
    OBVIOUS
  <2>1. ReplayEnd
    BY DEF Next, OpenOrCreate, ReplayRecord, AppendRecord, Sync, Close, Crash
  <2>2. reply' = reply /\ offset = Len(file)
    BY <2>1 DEF ReplayEnd
  <2>3. IsCredit(reply.credit_hw, file, Len(file))
    BY <2>2 DEF Inv, ReplayWell
  <2>4. /\ file \in Seq(Records) /\ promised \in Seq(Records)
        /\ Len(promised) \in Nat /\ Len(promised) <= Len(file) /\ Len(promised) \in 0..Len(file)
        /\ \A i \in 1..Len(promised) : promised[i] = file[i]
    BY Elements DEF Inv, Typed, Kept
  <2>5. reply.credit_hw = CreditedIn(file)
    BY <2>3, <2>4, CreditIsMax
  <2>6. PICK lo \in Nat : IsCredit(lo, file, Len(promised))
    BY <2>4 DEF Inv, HasCredit
  <2>7. IsCredit(lo, promised, Len(promised))
    BY <2>4, <2>6, CreditSame
  <2>8. CreditedIn(promised) = lo
    BY <2>4, <2>7, CreditIsMax
  <2>9. lo <= reply.credit_hw
    BY <2>3, <2>4, <2>7, CreditGrows
  <2> QED
    BY <2>2, <2>5, <2>8, <2>9
<1> QED
  BY <1>1, Invariance, KeptAlways, PTL DEF Spec, CreditNotForgotten

\* The commit log is a DurableLog: whatever fails, records are added at the end,
\* a loss takes them from the end, and never one that a sync has covered.
THEOREM Implements == EntryIsSafe => (Spec => ImplementsDurableLog)
<1> SUFFICES ASSUME EntryIsSafe PROVE Spec => ImplementsDurableLog
  OBVIOUS
<1>1. Init => Log!Init
  BY DEF Init, Log!Init
<1>2. Inv /\ Kept /\ [Next]_vars => [Log!Add \/ Log!Sync \/ Log!Lose]_<<file, Len(promised)>>
  <2> SUFFICES ASSUME Inv, Kept, Next
               PROVE  [Log!Add \/ Log!Sync \/ Log!Lose]_<<file, Len(promised)>>
    BY DEF vars
  <2>0. /\ file \in Seq(Records) /\ promised \in Seq(Records)
        /\ Len(promised) \in Nat /\ Len(file) \in Nat /\ durable \in Nat
    BY Elements DEF Inv, Typed
  <2>1. CASE OpenOrCreate \/ ReplayRecord \/ ReplayEnd \/ Close
    BY <2>1 DEF OpenOrCreate, ReplayRecord, ReplayEnd, Close
  <2>2. CASE \E e \in NextRecords : AppendRecord(e)
    <3>1. PICK e \in NextRecords : AppendRecord(e)
      BY <2>2
    <3>2. e \in Records /\ UNCHANGED promised
      BY <3>1 DEF NextRecords, AppendRecord
    <3>3. CASE file' = file
      BY <3>2, <3>3
    <3>4. CASE file' # file
      <4>1. /\ file' = Append(file, e) /\ file' \in Seq(Records)
            /\ Len(file') = Len(file) + 1
            /\ \A i \in 1..Len(file) : file'[i] = file[i]
        BY <3>1, <3>2, <3>4, Appended
      <4>2. Len(file') - 1 = Len(file) /\ Len(file) \in 0..Len(file')
        BY <2>0, <4>1
      <4> DEFINE front == SubSeq(file', 1, Len(file))
      <4>3. /\ front \in Seq(Records) /\ Len(front) = Len(file)
            /\ \A i \in 1..Len(file) : front[i] = file'[i]
        BY <4>1, <4>2, Prefix
      <4> HIDE DEF front
      <4>4. file = front
        BY <2>0, <4>1, <4>3, SeqEqual
      <4>5. file' # <<>>
        BY <2>0, <4>1
      <4> QED
        BY <3>2, <4>1, <4>2, <4>4, <4>5 DEF Log!Add, front
    <3> QED
      BY <3>3, <3>4
  <2>3. CASE Sync
    BY <2>3 DEF Sync, Log!Sync
  <2>4. CASE Crash
    <3>1. linked # "cached"
      BY <2>4 DEF Crash, EntryIsSafe, Kept
    <3>2. PICK n \in durable..Len(file) : file' = SubSeq(file, 1, n)
      BY <2>4, <3>1 DEF Crash
    <3>3. n \in Len(promised)..Len(file)
      BY <2>0, <3>2 DEF Kept
    <3>4. UNCHANGED Len(promised)
      BY <2>4 DEF Crash
    <3> QED
      BY <3>2, <3>3, <3>4 DEF Log!Lose
  <2> QED
    BY <2>1, <2>2, <2>3, <2>4 DEF Next
<1> QED
  BY <1>1, <1>2, Invariance, KeptAlways, PTL DEF Spec, ImplementsDurableLog, Log!Spec
=============================================================================
