------------------------------ MODULE Mailbox ------------------------------
(***************************************************************************)
(* What the done queue promises its users: a first-in first-out channel    *)
(* from many workers to one reactor thread.  Nothing is lost, duplicated   *)
(* or reordered, and what was put is eventually taken.  Donequeue.tla is   *)
(* shown to implement this specification.                                  *)
(***************************************************************************)
EXTENDS Sequences

CONSTANT Items

VARIABLE box    \* what was put and not yet taken, oldest first

Init == box = <<>>

Put == \E x \in Items : box' = Append(box, x)

Get == box # <<>> /\ box' = Tail(box)

Next == Put \/ Get

Spec == Init /\ [][Next]_box /\ WF_box(Get)
=============================================================================
