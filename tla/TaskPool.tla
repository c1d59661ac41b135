------------------------------ MODULE TaskPool ------------------------------
(***************************************************************************)
(* What a thread pool promises its users: tasks are started in the order   *)
(* of submission, each by exactly one worker and each once; while the pool *)
(* is open a task does not wait for ever next to an idle worker; once it   *)
(* is closed no task is started, and the queued ones are discarded.        *)
(* ThreadPool.tla is shown to implement this specification.                *)
(***************************************************************************)
EXTENDS Sequences

CONSTANTS Tasks, Workers, Idle

VARIABLES tasks,     \* submitted and not started, oldest first
          running,   \* what each worker is executing, or Idle
          closed     \* the pool starts no more tasks

vars == <<tasks, running, closed>>

Init == /\ tasks = <<>>
        /\ running = [w \in Workers |-> Idle]
        /\ closed = FALSE

Submit(t) == /\ ~closed
             /\ tasks' = Append(tasks, t)
             /\ UNCHANGED <<running, closed>>

Start(w) == /\ ~closed
            /\ tasks # <<>>
            /\ running[w] = Idle
            /\ running' = [running EXCEPT ![w] = Head(tasks)]
            /\ tasks' = Tail(tasks)
            /\ UNCHANGED closed

Finish(w) == /\ running[w] # Idle
             /\ running' = [running EXCEPT ![w] = Idle]
             /\ UNCHANGED <<tasks, closed>>

Close == /\ closed' = TRUE
         /\ UNCHANGED <<tasks, running>>

Next == \/ \E t \in Tasks : Submit(t)
        \/ Close
        \/ \E w \in Workers : Start(w) \/ Finish(w)

Spec == /\ Init
        /\ [][Next]_vars
        /\ WF_vars(\E w \in Workers : Start(w))
        /\ \A w \in Workers : WF_vars(Finish(w))
=============================================================================
