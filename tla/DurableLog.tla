----------------------------- MODULE DurableLog -----------------------------
(***************************************************************************)
(* What a log promises its user: entries are added at the end and stay as  *)
(* they are and where they are; a sync makes those there are stable; what  *)
(* goes wrong after that takes entries from the end only, and no stable    *)
(* one.  CommitLog.tla and SegmentLog.tla are shown to implement it.       *)
(***************************************************************************)
EXTENDS Naturals, Sequences

CONSTANT Entries

VARIABLES log,     \* the entries a reader would find
          stable   \* how many of them cannot be lost

Init == log = <<>> /\ stable = 0

\* One entry more; written so that Entries need not be finite.
Add == /\ log' \in Seq(Entries)
       /\ log' # <<>>
       /\ log = SubSeq(log', 1, Len(log') - 1)
       /\ UNCHANGED stable

Sync == /\ stable' = Len(log)
        /\ UNCHANGED log

Lose == /\ \E n \in stable..Len(log) : log' = SubSeq(log, 1, n)
        /\ UNCHANGED stable

Spec == Init /\ [][Add \/ Sync \/ Lose]_<<log, stable>>
=============================================================================
