---------------------------- MODULE SegmentIndex ----------------------------
(***************************************************************************)
(* The sparse index of a segment (src/src/Segment_recovery.cpp): the scan  *)
(* makes an anchor of every interval-th frame, or sooner when Stride bytes *)
(* have gone by; find_idx then looks for the anchor to start reading at.   *)
(* Offsets are uint64_t; the search keeps its candidate in an int.         *)
(***************************************************************************)
EXTENDS Integers, Sequences, SequencesExt

CONSTANTS Stride,             \* 64 KiB
          IntBits, WordBits   \* widths of int and of uint64_t

ASSUME WidthsAssumption ==
    /\ Stride \in Nat /\ IntBits \in Nat /\ WordBits \in Nat
    /\ 0 < IntBits /\ IntBits < WordBits

ToInt(x)  == ((x + 2^(IntBits - 1)) % 2^IntBits) - 2^(IntBits - 1)
ToWord(x) == x % 2^WordBits

\* A scan that counts frames only.
DueByCount(interval, st, size) == (st.times + 1) % interval = 0

\* An anchor is due at a frame of this size, header included.
Due(interval, st, size) ==
    (st.times + 1) % interval = 0 \/ st.byteSince + size >= Stride

\* What segment_scanner's locals become at a valid frame.
ScanFrame(interval, st, size) ==
    IF Due(interval, st, size)
    THEN [here |-> st.here + size, times |-> 0, byteSince |-> 0,
          idx |-> Append(st.idx, ToWord(st.here))]
    ELSE [st EXCEPT !.here = @ + size, !.times = @ + 1, !.byteSince = @ + size]

\* idx after a scan of frames of these sizes.
Anchors(interval, base, sizes) ==
    LET Scan(st, size) == ScanFrame(interval, st, size)
    IN  FoldLeft(Scan, [here |-> base, times |-> 0, byteSince |-> 0, idx |-> <<>>],
                 sizes).idx

\* find_idx.  Search is its loop, of its locals; result_idx is -1 while there is no
\* anchor, for which it answers 0.
FindIdx(idx, target) ==
    LET Search[l \in [left : 0..Len(idx), right : -1..(Len(idx) - 1), result_idx : Int]] ==
          LET medium == l.left + (l.right - l.left) \div 2
              anchor == idx[medium + 1]
          IN  IF l.left > l.right
              THEN IF l.result_idx = -1 THEN 0 ELSE ToWord(l.result_idx)
              ELSE IF target = anchor THEN anchor
              ELSE IF target > anchor
              THEN Search[[l EXCEPT !.left = medium + 1, !.result_idx = ToInt(anchor)]]
              ELSE Search[[l EXCEPT !.right = medium - 1]]
    IN  IF idx = <<>> THEN 0
        ELSE Search[[left |-> 0, right |-> Len(idx) - 1, result_idx |-> -1]]

-----------------------------------------------------------------------------
(* What the index is for.                                                  *)

\* The greatest anchor that is not above the target, or 0 if there is none.
Floor(idx, target) ==
    LET below == {i \in 1..Len(idx) : idx[i] <= target}
    IN  IF below = {} THEN 0
        ELSE idx[CHOOSE i \in below : \A j \in below : idx[j] <= idx[i]]

\* Reading from an anchor comes to any frame soon: between the edges of the frames
\* interval frames in a row, or Stride bytes of them, never go by without one.
Dense(interval, idx, edges) ==
    \A i, j \in 1..Len(edges) :
        i < j /\ (\A k \in i..(j - 1), a \in 1..Len(idx) : idx[a] # edges[k])
        => j - i < interval /\ edges[j] - edges[i] < Stride
=============================================================================
