----------------------------- MODULE CommitLog -----------------------------
(***************************************************************************)
(* src/src/Commit_log.cpp: a file of 36-byte records, one for each step of *)
(* a batch (candidate, credited, published), written at the end, made      *)
(* durable by sync, and replayed by open_or_create, which cuts off a       *)
(* partial last record.  The file system keeps what has been synced; of    *)
(* the rest a crash of the machine keeps any prefix, cut anywhere in a     *)
(* record, and an entry of a directory only once the directory has been    *)
(* synced.  A killed process loses nothing the kernel has been given.      *)
(***************************************************************************)
EXTENDS Naturals, Sequences, SequencesExt, FiniteSetsExt

CONSTANTS MaxBatch,    \* bound: batches the caller commits
          MaxRecords,  \* bound: records in the file
          Hws,         \* values of candidate_hw
          Epochs,      \* values of epoch
          Faults       \* which of "crash", "kill", "write", "truncate" may happen

ASSUME HwsAssumption == Hws \subseteq Nat /\ Epochs \subseteq Nat
ASSUME BatchAssumption == MaxBatch \in Nat /\ MaxRecords \in Nat

VARIABLES file,      \* the whole records of the file, as the kernel has them
          torn,      \* a part of one more record follows them
          durable,   \* how many of the records are on the disk
          linked,    \* the directory entry: "none", "cached", "durable"
          handle,    \* "closed", "replay", "open", or "refused" by open_or_create
          offset,    \* Commitlog::offset, in records
          prev,      \* prev_batch_no and prev_state of the replay
          reply,     \* the Reply of the last open_or_create
          promised   \* the records of the last successful sync

vars == <<file, torn, durable, linked, handle, offset, prev, reply, promised>>

Records == [batch_no : 1..MaxBatch, candidate_hw : Hws, epoch : Epochs, state : 0..2]

NoPrev == [batch_no |-> 0, state |-> 0]

NoReply == [last_batch_no |-> 0, credit_hw |-> 0, last_epoch |-> 0, corrupt |-> FALSE]

TypeOK == /\ file \in Seq(Records)
          /\ torn \in BOOLEAN
          /\ durable \in 0..Len(file)
          /\ linked \in {"none", "cached", "durable"}
          /\ handle \in {"closed", "replay", "open", "refused"}
          /\ offset \in 0..Len(file)
          /\ prev \in [batch_no : Nat, state : 0..2]
          /\ reply \in [last_batch_no : Nat, credit_hw : Nat, last_epoch : Nat,
                        corrupt : BOOLEAN]
          /\ promised \in Seq(Records)

Init == /\ file = <<>>
        /\ torn = FALSE
        /\ durable = 0
        /\ linked = "none"
        /\ handle = "closed"
        /\ offset = 0
        /\ prev = NoPrev
        /\ reply = NoReply
        /\ promised = <<>>

-----------------------------------------------------------------------------
(* open_or_create: open or create the file, replay its records one by one, *)
(* and cut off the part of a record at its end.  The process may end in    *)
(* the middle of it.                                                       *)

\* Open or create, and sync the directory if the file is new.  "kill" is a
\* process that dies between the creation and the sync.
OpenOrCreate ==
    /\ handle = "closed"
    /\ \/ /\ linked = "none"
          /\ "kill" \in Faults
          /\ linked' = "cached"
          /\ UNCHANGED <<handle, offset, prev, reply>>
       \/ /\ linked' = IF linked = "none" THEN "durable" ELSE linked
          /\ handle' = "replay"
          /\ offset' = 0
          /\ prev' = NoPrev
          /\ reply' = NoReply
    /\ UNCHANGED <<file, torn, durable, promised>>

\* A replay in which the state of one batch is compared with the next one's.
StateStepsGlobal(e) ==
    /\ e.batch_no \in {prev.batch_no, prev.batch_no + 1}
    /\ e.state \in prev.state..2

\* A batch goes on with a state that does not fall, or the next one begins.
StateSteps(e) ==
    \/ e.batch_no = prev.batch_no /\ e.state \in prev.state..2
    \/ e.batch_no = prev.batch_no + 1 /\ e.state <= 2

\* The credited watermark taken from published records only.
CreditedWhenPublished(e) ==
    IF e.state > 1 /\ reply.credit_hw < e.candidate_hw
    THEN e.candidate_hw ELSE reply.credit_hw

\* The greatest watermark of a record that is credited or published.
Credited(e) ==
    IF e.state >= 1 /\ reply.credit_hw < e.candidate_hw
    THEN e.candidate_hw ELSE reply.credit_hw

\* A turn of the loop that finds a whole record.
ReplayRecord ==
    /\ handle = "replay"
    /\ offset < Len(file)
    /\ offset' = offset + 1
    /\ LET e == file[offset + 1]
       IN  \/ /\ StateSteps(e)
              /\ prev' = [batch_no |-> e.batch_no, state |-> e.state]
              /\ reply' = [last_batch_no |-> e.batch_no, credit_hw |-> Credited(e),
                           last_epoch |-> e.epoch, corrupt |-> FALSE]
              /\ UNCHANGED handle
           \/ /\ ~StateSteps(e)
              /\ reply' = [reply EXCEPT !.corrupt = TRUE]
              /\ handle' = "refused"
              /\ prev' = NoPrev
    /\ UNCHANGED <<file, torn, durable, linked, promised>>

\* The turn that finds none: a part of a record is cut off; whether that
\* succeeds is not looked at.
ReplayEnd ==
    /\ handle = "replay"
    /\ offset = Len(file)
    /\ handle' = "open"
    /\ prev' = NoPrev
    /\ \/ torn' = FALSE
       \/ "truncate" \in Faults /\ UNCHANGED torn
    /\ UNCHANGED <<file, durable, linked, offset, reply, promised>>

\* What the caller may write next: the batch goes on, or the next one begins
\* as a candidate.
NextRecords ==
    {e \in Records :
        IF file = <<>> THEN e.batch_no = 1
        ELSE LET last == file[Len(file)]
             IN  \/ e.batch_no = last.batch_no /\ e.state >= last.state
                 \/ e.batch_no = last.batch_no + 1 /\ e.state = 0}

\* An append that tries a second time what has succeeded.
AppendTwice(e) ==
    /\ handle = "open"
    /\ Len(file) + 1 < MaxRecords
    /\ file' = SubSeq(file, 1, offset) \o <<e, e>>
    /\ offset' = offset + 2
    /\ torn' = FALSE
    /\ UNCHANGED <<durable, linked, handle, prev, reply, promised>>

\* append: the record goes to the offset.  A pwrite that fails writes nothing;
\* a short one is cut off again, whether that succeeds is not looked at; in
\* both cases the offset stays and the next record is written over it.
AppendRecord(e) ==
    /\ handle = "open"
    /\ Len(file) < MaxRecords
    /\ \/ /\ file' = Append(SubSeq(file, 1, offset), e)
          /\ offset' = offset + 1
          /\ torn' = FALSE
       \/ /\ "write" \in Faults
          /\ \/ torn' \in {torn, FALSE}
             \/ "truncate" \in Faults /\ torn' = TRUE
          /\ UNCHANGED <<file, offset>>
    /\ UNCHANGED <<durable, linked, handle, prev, reply, promised>>

\* sync: fdatasync.
Sync == /\ handle = "open"
        /\ durable' = Len(file)
        /\ promised' = file
        /\ UNCHANGED <<file, torn, linked, handle, offset, prev, reply>>

\* The object is destroyed, or the process killed: the kernel has the file.
Close == /\ handle # "closed"
         /\ handle' = "closed"
         /\ offset' = 0
         /\ prev' = NoPrev
         /\ UNCHANGED <<file, torn, durable, linked, reply, promised>>

\* The machine goes down.
Crash == /\ "crash" \in Faults
         /\ handle' = "closed"
         /\ offset' = 0
         /\ prev' = NoPrev
         /\ \/ /\ linked = "cached"
               /\ linked' = "none"
               /\ file' = <<>>
               /\ torn' = FALSE
               /\ durable' = 0
            \/ /\ UNCHANGED linked
               /\ \E n \in durable..Len(file) :
                     /\ file' = SubSeq(file, 1, n)
                     /\ durable' = n
                     /\ torn' \in {FALSE, torn \/ n < Len(file)}
         /\ UNCHANGED <<reply, promised>>

Next == \/ OpenOrCreate
        \/ ReplayRecord
        \/ ReplayEnd
        \/ \E e \in NextRecords : AppendRecord(e)
        \/ Sync
        \/ Close
        \/ Crash

Spec == Init /\ [][Next]_vars

-----------------------------------------------------------------------------

\* The commit log is a log as its user thinks of one: no failure rewrites or
\* reorders records, repeats one, or takes a synced one.
Log == INSTANCE DurableLog WITH Entries <- Records, log <- file, stable <- Len(promised)

ImplementsDurableLog == Log!Spec

\* What has been synced stays, through crashes, failed writes and reopenings:
\* the records of the last successful sync are the beginning of the file.
SyncedSurvives == IsPrefix(promised, file)

\* A log written by a caller that keeps the order of batches and states is
\* never taken for a corrupt one, wherever a crash has cut it.
NeverRefused == handle # "refused"

CreditedIn(records) ==
    Max({0} \cup {records[i].candidate_hw :
                    i \in {j \in 1..Len(records) : records[j].state >= 1}})

\* The credited watermark a reopening reports is not below that of any record
\* synced before, and not above that of the records there are.
CreditNotForgotten ==
    [][handle = "replay" /\ handle' = "open" =>
          /\ CreditedIn(promised) <= reply'.credit_hw
          /\ reply'.credit_hw = CreditedIn(file)]_vars
=============================================================================
