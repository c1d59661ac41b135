----------------------------- MODULE Donequeue -----------------------------
(***************************************************************************)
(* src/src/Donequeue.cpp with the two users it has: the pool's workers     *)
(* push a finished response and then write the eventfd; the reactor, woken *)
(* by epoll because the eventfd is readable, reads it and then drains the  *)
(* queue (Epoll::ondone).  The lock covers the queue only, so a worker may *)
(* be between its push and its write, and the reactor between its read and *)
(* its drain, while the others run.  A signal handler (Epoll::on_signal)   *)
(* writes the same eventfd.                                                *)
(***************************************************************************)
EXTENDS Naturals, Sequences

CONSTANTS Items,      \* the responses, {fd, id, resp}
          Producers,  \* the threads that push: the pool's workers
          MaxItems    \* bound: no push while so many items are undelivered

ASSUME MaxItemsAssumption == MaxItems \in Nat

VARIABLES queue,    \* Donequeue::queue, behind Donequeue::mut
          bell,     \* the eventfd's counter is not zero
          ringing,  \* the producers between the push and the write
          woken,    \* the reactor has read the eventfd and not yet drained
          hand      \* the drained deque that ondone's loop is going through

vars == <<queue, bell, ringing, woken, hand>>

TypeOK == /\ queue \in Seq(Items)
          /\ bell \in BOOLEAN
          /\ ringing \subseteq Producers
          /\ woken \in BOOLEAN
          /\ hand \in Seq(Items)

Init == /\ queue = <<>>
        /\ bell = FALSE
        /\ ringing = {}
        /\ woken = FALSE
        /\ hand = <<>>

\* The locked half of push: the item enters the queue, the lock is released.
Push(p, x) == /\ p \notin ringing
              /\ Len(queue) + Len(hand) < MaxItems
              /\ queue' = Append(queue, x)
              /\ ringing' = ringing \cup {p}
              /\ UNCHANGED <<bell, woken, hand>>

\* The second half of push: the write to the eventfd, outside the lock.
Ring(p) == /\ p \in ringing
           /\ ringing' = ringing \ {p}
           /\ bell' = TRUE
           /\ UNCHANGED <<queue, woken, hand>>

\* on_signal writes the eventfd and pushes nothing.
Nudge == /\ bell' = TRUE
         /\ UNCHANGED <<queue, ringing, woken, hand>>

\* A drain that takes one item for each time the eventfd was read, although
\* two writes make it readable only once.
DrainOne == /\ woken
            /\ woken' = FALSE
            /\ IF queue = <<>> THEN UNCHANGED <<queue, hand>>
               ELSE hand' = <<Head(queue)>> /\ queue' = Tail(queue)
            /\ UNCHANGED <<bell, ringing>>

\* A drain that copies the deque instead of moving it.
DrainByCopy == /\ woken
               /\ woken' = FALSE
               /\ hand' = queue
               /\ UNCHANGED <<queue, bell, ringing>>

\* ondone's read: the eventfd, reported readable, is set back to zero.
ReadBell == /\ bell
            /\ ~woken
            /\ hand = <<>>
            /\ bell' = FALSE
            /\ woken' = TRUE
            /\ UNCHANGED <<queue, ringing, hand>>

\* drain: the whole deque is moved out under the lock.
Drain == /\ woken
         /\ woken' = FALSE
         /\ hand' = queue
         /\ queue' = <<>>
         /\ UNCHANGED <<bell, ringing>>

\* One turn of ondone's loop over the drained deque.
TakeItem == /\ hand # <<>>
            /\ hand' = Tail(hand)
            /\ UNCHANGED <<queue, bell, ringing, woken>>

Next == \/ \E p \in Producers : Ring(p) \/ \E x \in Items : Push(p, x)
        \/ Nudge
        \/ ReadBell
        \/ Drain
        \/ TakeItem

\* What the reactor does is fair because start() loops for as long as the
\* eventfd is readable (level triggered); a worker that has pushed is only a
\* write() away from being done.
Fairness == /\ WF_vars(ReadBell)
            /\ WF_vars(Drain)
            /\ WF_vars(TakeItem)
            /\ \A p \in Producers : WF_vars(Ring(p))

Spec == Init /\ [][Next]_vars /\ Fairness

-----------------------------------------------------------------------------

\* A queued item is never forgotten: as long as the queue is not empty there
\* is a wakeup on its way, because the eventfd is set, or a producer is about
\* to set it, or the reactor is about to drain.  This is what the order "read,
\* then drain" in ondone and "push, then write" in push are for.
NoLostWakeup == queue # <<>> => bell \/ ringing # {} \/ woken

\* The done queue is a FIFO channel: push puts, a turn of ondone's loop gets,
\* and everything else, drain included, moves items without losing one.
Channel == INSTANCE Mailbox WITH box <- hand \o queue

ImplementsMailbox == Channel!Spec
=============================================================================
