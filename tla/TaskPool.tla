------------------------------ MODULE TaskPool ------------------------------
(***************************************************************************)
(* What netforge::ThreadPool promises whoever uses it, here the server: a  *)
(* bounded queue of tasks that workers take in order, one at a time each,  *)
(* that accepts nothing once it is shut down, whose workers leave only     *)
(* when it is shut down and drained, and whose shutdown returns only when  *)
(* all of them have left.                                                  *)
(***************************************************************************)
EXTENDS Integers, Sequences

CONSTANTS Worker, Task, NoTask, Capacity

VARIABLES
    queue,      \* the tasks accepted and not taken
    closed,     \* somebody has shut the pool down
    hand,       \* the task each worker has taken and not finished
    left,       \* the workers that have ended
    drained     \* a shutdown has returned

vars == <<queue, closed, hand, left, drained>>

Init ==
    /\ queue = <<>>
    /\ closed = FALSE
    /\ hand = [w \in Worker |-> NoTask]
    /\ left = {}
    /\ drained = FALSE

Accept(k) ==
    /\ ~closed /\ Len(queue) < Capacity
    /\ queue' = Append(queue, k)
    /\ UNCHANGED <<closed, hand, left, drained>>

Close ==
    /\ closed' = TRUE
    /\ UNCHANGED <<queue, hand, left, drained>>

\* A worker has nothing to do and has not left.
Free(w) == hand[w] = NoTask /\ w \notin left

Take(w) ==
    /\ Free(w) /\ queue # <<>>
    /\ hand' = [hand EXCEPT ![w] = Head(queue)]
    /\ queue' = Tail(queue)
    /\ UNCHANGED <<closed, left, drained>>

Finish(w) ==
    /\ hand[w] # NoTask
    /\ hand' = [hand EXCEPT ![w] = NoTask]
    /\ UNCHANGED <<queue, closed, left, drained>>

Leave(w) ==
    /\ Free(w) /\ closed /\ queue = <<>>
    /\ left' = left \cup {w}
    /\ UNCHANGED <<queue, closed, hand, drained>>

ShutdownReturns ==
    /\ closed /\ left = Worker
    /\ drained' = TRUE
    /\ UNCHANGED <<queue, closed, hand, left>>

Next ==
    \/ \E k \in Task : Accept(k)
    \/ Close
    \/ \E w \in Worker : Take(w) \/ Finish(w) \/ Leave(w)
    \/ ShutdownReturns

Spec == Init /\ [][Next]_vars
=============================================================================
