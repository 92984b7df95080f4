---------------------------- MODULE MCThreadPool ----------------------------
(***************************************************************************)
(* ThreadPool for TLC.  Each task is submitted until it is accepted once,  *)
(* which bounds the submissions by the number of tasks, and a client stops *)
(* once its shutdown has returned.                                         *)
(***************************************************************************)
EXTENDS ThreadPool

CONSTANT Endless    \* the tasks whose body may go on for ever

Fresh(k) ==
    /\ \A i \in DOMAIN pushed : pushed[i] # k
    /\ \A t \in Thread : task[t] # k /\ item[t] # k

MCNext ==
    \/ OwnerStep
    \/ \E c \in Client :
         \/ \E k \in Task \cup {NoTask} : (k # NoTask => Fresh(k)) /\ Submit(c, k)
         \/ Shutdown(c)
         \/ ClientStep(c)
    \/ \E w \in Worker : Shutdown(w) \/ WorkerStep(w)
    \/ \E t \in Thread : QueueWake(t)

Stuck(w) == at[w] = "run" /\ task[w] \in Endless

\* A thread inside the pool's code is scheduled, gets the locks it asks for, and
\* the body of a task that is not endless ends.  Nothing is assumed about
\* spurious wakeups or about what clients call.
MCSpec ==
    /\ Init /\ [][MCNext]_vars
    /\ WF_vars(OwnerStep)
    /\ \A c \in Client : WF_vars(ClientStep(c))
    /\ \A w \in Worker : WF_vars(~Stuck(w) /\ WorkerStep(w))

\* An external shutdown returns, whoever else shuts the pool down, from outside
\* or from inside a task, and however many submits are blocked on a full queue,
\* unless a task never ends.
ShutdownReturns ==
    \A c \in Client :
        at[c] \in {"closing", "join", "joining"} ~>
            (at[c] = "returned" \/ \E w \in Worker : Stuck(w))

\* An accepted task is executed as long as one worker is not stuck.
AcceptedRuns ==
    \A k \in Task \ Endless :
        (\E i \in DOMAIN pushed : pushed[i] = k) ~> (runs[k] > 0 \/ \A w \in Worker : Stuck(w))

\* A submit that waits for room in the queue is answered once somebody shuts
\* the pool down, even when every worker is stuck in a task: the server's
\* accepting thread, which submits, never hangs on a pool that is closed.
ShutdownReleasesSubmit ==
    \A c \in Client : (shuttingDown /\ at[c] \in {"submit", "pushing"}) ~> at[c] = "idle"
=============================================================================
