----------------------------- MODULE SegmentLog -----------------------------
(***************************************************************************)
(* A segment of the partition log: the writer (src/src/Segment.cpp) that   *)
(* creates it, appends frames and syncs, and the scanner that recovers it  *)
(* after a crash (src/src/Segment_recovery.cpp).  creat writes a head with *)
(* base_offset 0.  A segment with another one has been made by others, as  *)
(* test/segment_recovery_test.cpp makes them, before it begins here: Init  *)
(* allows either.                                                          *)
(*                                                                         *)
(* The file is modelled behind its 32-byte head as a sequence of cells: a  *)
(* frame is HeadCells cells of header and len cells of payload.  A cell    *)
(* says which frame it belongs to and which of its cells it is, which is   *)
(* what the lengths and the CRC let the scanner tell.  A write or a crash  *)
(* may leave any number of the cells.  The head and the directory entry of *)
(* the file have states of their own; a crash may take them while they are *)
(* in the kernel only.                                                     *)
(***************************************************************************)
EXTENDS SegmentIndex, FiniteSetsExt

CONSTANTS Base,        \* base_offset of a segment that others have made
          Lens,        \* lengths of payloads, in cells
          MaxEpoch,    \* bound: epochs 1..MaxEpoch
          MaxCells,    \* bound: cells in the file
          MaxInterval, \* bound: values of inteval that are tried
          Faults       \* which of "creat", "write", "truncate", "cut", "pread"
                       \* may happen

ASSUME SizesAssumption ==
    /\ Base \in Nat \ {0} /\ MaxEpoch \in Nat /\ MaxCells \in Nat /\ MaxInterval \in Nat
    /\ Lens \subseteq Nat

HeadCells == 2    \* cells of a frame's header (20 bytes)

VARIABLES entry,      \* the directory entry: "none", "cached", "durable"
          head,       \* the head: "none", or creat's, "torn", "cached", "durable";
                      \* "other" is one that others have made, with Base
          file,       \* the cells behind the head, as the kernel has them
          durable,    \* how many of them are on the disk
          handle,     \* the Segment: "none", where it is in creat ("opened",
                      \* "headed", "synced"), "open", "closed"
          offset,     \* Segment::offset, in cells behind the head
          lastEpoch,  \* Segment::last_epoch
          scan,       \* the Scan_end of the last scan, until the next close
          written,    \* the frames whose append has returned true
          promised    \* the cells a sync has made durable, the file's entry being so

vars == <<entry, head, file, durable, handle, offset, lastEpoch, scan, written, promised>>

Frames == [off : Nat, len : Lens, epoch : 1..MaxEpoch]

\* The cells of a frame as append writes them.
CellsOf(f) == [i \in 1..(HeadCells + f.len) |-> [frame |-> f, at |-> i]]

Layout(frames) == FlattenSeq([i \in 1..Len(frames) |-> CellsOf(frames[i])])

NotScanned == [kind |-> "none", valid_end |-> 0, last_epoch |-> 0]

TypeOK == /\ Len(file) <= MaxCells
          /\ \A i \in 1..Len(file) : /\ file[i].frame \in Frames
                                     /\ file[i].at \in 1..(HeadCells + file[i].frame.len)
          /\ durable \in 0..Len(file)
          /\ entry \in {"none", "cached", "durable"}
          /\ head \in {"none", "torn", "cached", "durable", "other"}
          /\ handle \in {"none", "opened", "headed", "synced", "open", "closed"}
          /\ offset \in 0..Len(file)
          /\ lastEpoch \in 0..MaxEpoch
          /\ scan \in [kind : {"none", "clean", "torn_tail", "corrupt", "head_bad"},
                       valid_end : 0..Len(file), last_epoch : 0..MaxEpoch]
          /\ written \in Seq(Frames)

\* base_offset in the head; creat can only write 0.
BaseOffset == IF head = "other" THEN Base ELSE 0

Init == /\ \/ entry = "none" /\ head = "none" /\ handle = "none"
           \/ entry = "durable" /\ head = "other" /\ handle = "closed"
        /\ file = <<>>
        /\ durable = 0
        /\ offset = 0
        /\ lastEpoch = 0
        /\ scan = NotScanned
        /\ written = <<>>
        /\ promised = <<>>

-----------------------------------------------------------------------------
(* The writer.                                                             *)

Creating == handle \in {"opened", "headed", "synced"}

frames == <<file, durable, offset, lastEpoch, scan, written, promised>>

\* creat: the file is made, or if it is there nothing happens; ...
CreatOpen == /\ handle = "none"
             /\ handle' = "opened"
             /\ entry' = "cached"
             /\ written' = <<>>
             /\ UNCHANGED <<head, file, durable, offset, lastEpoch, scan, promised>>

\* ... the head is written, ...
CreatHead == /\ handle = "opened"
             /\ handle' = "headed"
             /\ head' = "cached"
             /\ UNCHANGED <<entry, frames>>

\* A creat that leaves the directory to the first sync.
CreatSyncOnly == /\ handle = "headed"
                 /\ handle' = "open"
                 /\ head' = "durable"
                 /\ UNCHANGED <<entry, frames>>

\* ... made durable, ...
CreatSync == /\ handle = "headed"
             /\ handle' = "synced"
             /\ head' = "durable"
             /\ UNCHANGED <<entry, frames>>

\* ... and the directory entry too.
CreatDir == /\ handle = "synced"
            /\ handle' = "open"
            /\ entry' = "durable"
            /\ UNCHANGED <<head, frames>>

\* One of the steps fails, or the process dies between two: the file stays as it
\* is, but for a head that is written in part and not cut off again.
CreatBroken == /\ "creat" \in Faults /\ Creating
               /\ handle' = "closed"
               /\ head' \in IF handle = "opened" THEN {"none", "torn"} ELSE {head}
               /\ UNCHANGED <<entry, frames>>

\* What pwrite leaves: the cells from the offset on replaced, the rest of a
\* longer file where it was.
Overlay(cells) ==
    SubSeq(file, 1, offset) \o cells
        \o SubSeq(file, offset + Len(cells) + 1, Len(file))

\* What a write of these cells that did not succeed leaves: nothing was
\* written, or the first n cells were and ftruncate has cut them off again;
\* nobody looks at whether ftruncate did.
Leavings(cells) ==
    {file, SubSeq(file, 1, offset)}
    \cup (IF "truncate" \in Faults
          THEN {Overlay(SubSeq(cells, 1, n)) : n \in 0..(Len(cells) - 1)} ELSE {})

\* What a caller may append.  Its offset is not looked at: test/segment_recovery_test.cpp
\* numbers frames by bytes, test/segment_test.cpp counts them.
NextFrames ==
    [off : {BaseOffset + offset, BaseOffset + Len(written)}, len : Lens, epoch : 1..MaxEpoch]

\* An append that tries a second time what has succeeded.
AppendFrameTwice(f) ==
    /\ handle = "open"
    /\ Len(file) + 2 * (HeadCells + f.len) <= MaxCells
    /\ f.epoch >= lastEpoch
    /\ file' = Overlay(CellsOf(f) \o CellsOf(f))
    /\ offset' = offset + 2 * (HeadCells + f.len)
    /\ lastEpoch' = f.epoch
    /\ written' = written \o <<f, f>>
    /\ durable' = Min({durable, offset})
    /\ UNCHANGED <<entry, head, handle, scan, promised>>

\* append: refused if the epoch falls; else header and payload are written one
\* after the other, and if either fails the offset is where it was.
AppendFrame(f) ==
    /\ handle = "open"
    /\ Len(file) + HeadCells + f.len <= MaxCells
    /\ f.epoch >= lastEpoch
    /\ \/ /\ file' = Overlay(CellsOf(f))
          /\ offset' = offset + HeadCells + f.len
          /\ lastEpoch' = f.epoch
          /\ written' = Append(written, f)
       \/ /\ "write" \in Faults
          /\ file' \in Leavings(CellsOf(f))
          /\ UNCHANGED <<offset, lastEpoch, written>>
    /\ durable' = Min({durable, offset})
    /\ UNCHANGED <<entry, head, handle, scan, promised>>

\* sysnc: fdatasync, which does nothing for the directory.
Sysnc == /\ handle = "open"
         /\ head' = IF head = "other" THEN head ELSE "durable"
         /\ durable' = Len(file)
         /\ promised' = IF entry = "durable" THEN Layout(written) ELSE promised
         /\ UNCHANGED <<entry, file, handle, offset, lastEpoch, scan, written>>

\* The writer is destroyed or its process killed: the kernel has the cells.
Close == /\ handle = "open"
         /\ handle' = "closed"
         /\ scan' = NotScanned
         /\ offset' = 0
         /\ lastEpoch' = 0
         /\ UNCHANGED <<entry, head, file, durable, written, promised>>

\* The machine goes down: of what has not been synced any prefix is there, and
\* a directory entry that has not been may be gone, the file with it.
Crash == /\ handle # "none"
         /\ scan' = NotScanned
         /\ \/ /\ entry = "cached"
               /\ entry' = "none" /\ head' = "none" /\ handle' = "none"
               /\ file' = <<>> /\ durable' = 0
            \/ /\ entry' = "durable" /\ handle' = "closed"
               /\ head' \in IF head = "cached" THEN {"none", "torn", "durable"} ELSE {head}
               /\ \E n \in durable..Len(file) :
                     /\ file' = IF head' \in {"none", "torn"} THEN <<>> ELSE SubSeq(file, 1, n)
                     /\ durable' = Len(file')
         /\ offset' = 0
         /\ lastEpoch' = 0
         /\ UNCHANGED <<written, promised>>

\* An open_append that starts at the beginning of the segment.
OpenAppendAtHead ==
    /\ handle = "closed"
    /\ scan.kind = "clean"
    /\ handle' = "open"
    /\ offset' = 0
    /\ lastEpoch' = 0
    /\ UNCHANGED <<entry, head, file, durable, scan, written, promised>>

\* open_append on a recovered segment: the head is checked, the offset is the
\* size of the file; last_epoch is not restored.
OpenAppend ==
    /\ handle = "closed"
    /\ scan.kind = "clean"
    /\ handle' = "open"
    /\ offset' = Len(file)
    /\ lastEpoch' = 0
    /\ UNCHANGED <<entry, head, file, durable, scan, written, promised>>

-----------------------------------------------------------------------------
(* The scanner.                                                            *)

Ends(kind, p, e) == [kind |-> kind, valid_end |-> p, last_epoch |-> e]

\* The header at p, if there is one: its cells are those of one frame.
HeaderAt(p) == /\ p + HeadCells <= Len(file)
               /\ \A i \in 1..HeadCells : file[p + i] = [frame |-> file[p + 1].frame, at |-> i]

\* check_frame with an epoch that has to rise.
FrameValidRising(p, prevEpoch) ==
    LET f == file[p + 1].frame
    IN  /\ f.epoch > prevEpoch
        /\ SubSeq(file, p + 1, p + HeadCells + f.len) = CellsOf(f)
        /\ f.off = Base + p

\* check_frame on a frame that is there to its last cell: the epoch has not
\* fallen, the payload is the one the CRC was made of, the offset is expected.
FrameValid(p, prevEpoch) ==
    LET f == file[p + 1].frame
    IN  /\ f.epoch >= prevEpoch
        /\ SubSeq(file, p + 1, p + HeadCells + f.len) = CellsOf(f)
        /\ f.off = Base + p

\* How segment_scanner can end once it has got to p with this last epoch.  The
\* length is looked at before the number of bytes read: at the first frame it may come
\* from a buffer nobody has written, and in a header that is cut off from this frame
\* and the one before together.  A header that is none has some length or other; a
\* failed pread counts as the end of the file and leaves the buffer as it was.
ScanEnds ==
    LET From[p \in 0..Len(file)] ==
          [e \in 0..MaxEpoch |->
            LET torn  == Ends("torn_tail", p, e)
                bad   == Ends("corrupt", p, e)
                short == IF p = 0 \/ p < Len(file) THEN {torn, bad} ELSE {torn}
                fails == IF p = 0 THEN {torn, bad} ELSE {torn}
                f     == file[p + 1].frame
                q     == p + HeadCells + f.len
            IN  (IF "pread" \in Faults THEN fails ELSE {})
                \cup
                (IF p + HeadCells > Len(file) THEN short
                 ELSE IF ~HeaderAt(p) THEN {torn, bad}
                 ELSE IF q > Len(file) THEN {torn}
                 ELSE IF ~FrameValid(p, e) THEN {bad}
                 ELSE IF q = Len(file) THEN {Ends("clean", q, f.epoch)}
                 ELSE From[q][f.epoch])]
    IN  IF BaseOffset = 0 \/ head \in {"none", "torn"} THEN {Ends("head_bad", 0, 0)}
        ELSE From[0][0]

\* The frames that are in the cells from the beginning on.
Kept(cells) ==
    LET n == Max({m \in 0..Len(written) : IsPrefix(Layout(SubSeq(written, 1, m)), cells)})
    IN  SubSeq(written, 1, n)

\* A scanner that stops behind the header of the frame it has not got.
RecoverKeepingHeader ==
    /\ handle = "closed"
    /\ scan.kind = "none"
    /\ \E end \in ScanEnds :
          LET cut == Min({end.valid_end + HeadCells, Len(file)})
          IN  /\ file' = IF end.kind = "torn_tail" THEN SubSeq(file, 1, cut) ELSE file
              /\ scan' = [end EXCEPT !.kind = IF @ = "torn_tail" THEN "clean" ELSE @]
    /\ durable' = Min({durable, Len(file')})
    /\ written' = IF scan'.kind = "clean" THEN Kept(file') ELSE written
    /\ UNCHANGED <<entry, head, handle, offset, lastEpoch, promised>>

\* The scan, and turncate_segment(vaild_end) if it ends in a torn tail, which
\* makes the segment a clean one, or if it fails ("cut") one that is taken for
\* it; a corrupt one and one with a bad head are left alone and not opened again.
Recover ==
    /\ handle = "closed"
    /\ scan.kind = "none"
    /\ \E end \in ScanEnds :
          /\ file' \in (IF end.kind = "torn_tail" THEN {SubSeq(file, 1, end.valid_end)}
                        ELSE {file}) \cup (IF "cut" \in Faults THEN {file} ELSE {})
          /\ scan' = [end EXCEPT !.kind = IF @ = "torn_tail" THEN "clean" ELSE @]
    /\ durable' = Min({durable, Len(file')})
    /\ written' = IF scan'.kind = "clean" THEN Kept(file') ELSE written
    /\ UNCHANGED <<entry, head, handle, offset, lastEpoch, promised>>

Next == \/ CreatOpen \/ CreatHead \/ CreatSync \/ CreatDir \/ CreatBroken
        \/ handle = "open" /\ \E f \in NextFrames : AppendFrame(f)
        \/ Sysnc \/ Close \/ Crash \/ OpenAppend \/ Recover

Spec == Init /\ [][Next]_vars

-----------------------------------------------------------------------------

\* What has been synced stays: neither a crash, nor a failed append, nor the
\* cut of a recovery takes a frame away that sysnc had made durable.
SyncedSurvives == IsPrefix(promised, file)

\* A segment that is open for appending is found again after a crash, or syncing
\* it would be in vain.
OpenIsFound == handle = "open" => entry = "durable"

\* Where the first n frames end.
End(n) == Len(Layout(SubSeq(written, 1, n)))

\* Their epochs do not fall, and their offsets say where they stand.
Rising(n) == \A i, j \in 1..n : i < j => written[i].epoch <= written[j].epoch
ByBytes(n) == \A i \in 1..n : written[i].off = Base + End(i - 1)

\* The scanner never stops before the end of what a sync has made durable, be it at
\* a torn tail or at corruption: the frames behind would be lost to a reader.  The
\* exceptions are a base offset of 0, and frames from the first one on that has not the
\* offset its place asks for, or an epoch below an earlier one: see HeadBadIsBad,
\* CountedReadable and EpochsMonotone.
SyncedReadable ==
    handle = "closed" /\ scan.kind # "none" /\ head = "other" =>
        \A n \in 1..Len(written) :
            End(n) <= Len(promised) /\ ByBytes(n) /\ Rising(n) => End(n) <= scan.valid_end

\* Frame n has the offset base_offset + n (test/segment_test.cpp), and so the scanner
\* finds those that are synced.
CountedReadable ==
    handle = "closed" /\ scan.kind # "none" /\ head = "other"
    /\ Rising(Len(written)) /\ (\A i \in 1..Len(written) : written[i].off = Base + i - 1)
    => scan.valid_end >= Len(promised)

\* A recovered segment holds whole frames, the first so many of those whose
\* append returned true, in order, and nothing behind them.
RecoveredWhole ==
    [][scan.kind = "none" /\ scan'.kind = "clean" => file' = Layout(written')]_vars

\* A frame whose append returned true is where a reader will look for it,
\* whatever appends failed before or since.
WrittenReadable == handle = "open" => IsPrefix(Layout(written), file)

\* Within a segment the epochs do not fall (Segment.h).
EpochsMonotone == Rising(Len(written))

\* A head is called bad only if one of its three checks fails, "head_bad (the three
\* cuts of the head fail)" in test/segment_recovery_test.cpp.
HeadBadIsBad == scan.kind = "head_bad" => head \in {"none", "torn"}

\* What a log promises its user; its entries are frames, and those a sync has
\* promised are the ones it may not lose.
Log == INSTANCE DurableLog WITH Entries <- Frames, log <- written,
                                stable <- Len(Kept(promised))

ImplementsDurableLog == Log!Spec

\* Where the frames begin, as offsets in the log, and where the last one ends.
Edges == [i \in 1..(Len(written) + 1) |-> Base + Len(Layout(SubSeq(written, 1, i - 1)))]

Idx(interval) ==
    Anchors(interval, Base, [i \in 1..Len(written) |-> Edges[i + 1] - Edges[i]])

\* The index a scan has made of a recovered segment leads a reader to any offset:
\* find_idx answers with the greatest anchor that is not above it (test/
\* segment_recovery_test.cpp), an anchor is where a frame begins, and they are dense.
IndexRight ==
    handle = "closed" /\ scan.kind = "clean" =>
        \A interval \in 1..MaxInterval :
            /\ Dense(interval, Idx(interval), Edges)
            /\ \A target \in 0..Edges[Len(Edges)] :
                  FindIdx(Idx(interval), target) = Floor(Idx(interval), target)

\* An empty segment is not a corrupt one.
EmptyNotCorrupt == scan.kind = "corrupt" => file # <<>>
=============================================================================
