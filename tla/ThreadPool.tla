----------------------------- MODULE ThreadPool -----------------------------
(***************************************************************************)
(* netforge::ThreadPool: workers that pop tasks from a BlockingQueue,      *)
(* callers that submit tasks and shut the pool down, and a task that may   *)
(* itself call shutdown.  The queue is the module BlockingQueue, step for  *)
(* step: pc, item, pushed and popped are its variables, at is where each   *)
(* thread is in the pool's own code.                                       *)
(***************************************************************************)
EXTENDS Integers, Sequences, FiniteSets

CONSTANTS
    Worker,     \* the threads of workers_
    Client,     \* the threads that use the pool from outside
    Owner,      \* the client whose thread constructs it
    Task,
    NoTask,     \* an empty std::function
    Capacity,   \* queue_capacity
    MaxThrows   \* how often tasks_ may run out of memory

\* The constructor throws on zero workers.
ASSUME PoolAssumption ==
    /\ IsFiniteSet(Worker) /\ Worker # {}
    /\ IsFiniteSet(Client) /\ Owner \in Client
    /\ Worker \cap Client = {}
    /\ NoTask \notin Task
    /\ Capacity \in Nat \ {0}
    /\ MaxThrows \in Nat

VARIABLES
    queue, closed, pc, item, pushed, popped, throws,   \* tasks_, see BlockingQueue
    at,             \* where each thread is in the pool's code
    task,           \* submit's argument, or the task a worker executes
    workers,        \* workers_: the threads started and not yet joined
    shuttingDown,   \* shutting_down_
    joinMutex,      \* the clients that hold join_mutex_
    submitted, completed,
    runs            \* how often each task's body has been executed

Thread == Worker \cup Client

Q == INSTANCE BlockingQueue WITH Value <- Task, NoValue <- NoTask

queueVars == <<queue, closed, pc, item, pushed, popped, throws>>
poolVars == <<at, task, workers, shuttingDown, joinMutex, submitted, completed, runs>>
vars == <<queueVars, poolVars>>

Init ==
    /\ Q!Init
    /\ at = [t \in Thread |-> IF t \in Worker THEN "unborn"
                              ELSE IF t = Owner THEN "construct" ELSE "idle"]
    /\ task = [t \in Thread |-> NoTask]
    /\ workers = {}
    /\ shuttingDown = FALSE
    /\ joinMutex = {}
    /\ submitted = 0
    /\ completed = 0
    /\ runs = [k \in Task |-> 0]

\* The pool's thread t goes on at a label of the pool's code.
Goto(t, label) == at' = [at EXCEPT ![t] = label]

-----------------------------------------------------------------------------
(* Construction *)

Spawn(w) ==
    /\ at[Owner] = "construct" /\ at[w] = "unborn"
    /\ workers' = workers \cup {w}
    /\ Goto(w, "loop")
    /\ UNCHANGED <<queueVars, task, shuttingDown, joinMutex, submitted, completed, runs>>

Constructed ==
    /\ at[Owner] = "construct" /\ workers = Worker
    /\ Goto(Owner, "idle")
    /\ UNCHANGED <<queueVars, task, workers, shuttingDown, joinMutex, submitted, completed, runs>>

\* The handler of the exception joins the started threads and forgets the close.
SpawnFailsOpen ==
    /\ at[Owner] = "construct" /\ workers # Worker
    /\ pc' = [pc EXCEPT ![Owner] = "void"]
    /\ Goto(Owner, "abort")
    /\ UNCHANGED <<queue, closed, item, pushed, popped, throws, task, workers, shuttingDown,
                   joinMutex, submitted, completed, runs>>

\* Starting a thread throws: close the queue, join what was started, rethrow.
SpawnFails ==
    /\ at[Owner] = "construct" /\ workers # Worker
    /\ Q!Close(Owner)
    /\ Goto(Owner, "abort")
    /\ UNCHANGED <<task, workers, shuttingDown, joinMutex, submitted, completed, runs>>

Abort ==
    /\ at[Owner] = "abort" /\ pc[Owner] = "void"
    /\ \A w \in workers : at[w] = "exited"
    /\ Q!Return(Owner)
    /\ workers' = {}
    /\ Goto(Owner, "threw")
    /\ UNCHANGED <<task, shuttingDown, joinMutex, submitted, completed, runs>>

\* Nobody else can use the pool before its constructor has returned.
Built == at[Owner] \notin {"construct", "abort", "threw"}

-----------------------------------------------------------------------------
(* submit *)

Submit(c, k) ==
    /\ Built /\ at[c] = "idle"
    /\ IF k = NoTask \/ shuttingDown
       THEN UNCHANGED <<at, task>>
       ELSE Goto(c, "submit") /\ task' = [task EXCEPT ![c] = k]
    /\ UNCHANGED <<queueVars, workers, shuttingDown, joinMutex, submitted, completed, runs>>

\* The count is published only once the push has succeeded.
SubmitPushUncounted(c) ==
    /\ at[c] = "submit"
    /\ Q!Push(c, task[c])
    /\ task' = [task EXCEPT ![c] = NoTask]
    /\ Goto(c, "pushing")
    /\ UNCHANGED <<workers, shuttingDown, joinMutex, submitted, completed, runs>>

SubmitPush(c) ==
    /\ at[c] = "submit"
    /\ submitted' = submitted + 1
    /\ Q!Push(c, task[c])
    /\ task' = [task EXCEPT ![c] = NoTask]
    /\ Goto(c, "pushing")
    /\ UNCHANGED <<workers, shuttingDown, joinMutex, completed, runs>>

SubmitAccepted(c) ==
    /\ at[c] = "pushing" /\ pc[c] = "true"
    /\ Q!Return(c)
    /\ Goto(c, "idle")
    /\ UNCHANGED <<task, workers, shuttingDown, joinMutex, submitted, completed, runs>>

SubmitUndone(c) ==
    /\ at[c] = "pushing" /\ pc[c] \in {"false", "threw"}
    /\ submitted' = submitted - 1
    /\ Q!Return(c)
    /\ Goto(c, "idle")
    /\ UNCHANGED <<task, workers, shuttingDown, joinMutex, completed, runs>>

-----------------------------------------------------------------------------
(* shutdown, by a client or by the task a worker executes *)

\* After the close, or at once for a caller that finds the flag set, a worker
\* returns to its task and a client goes on to join.
AfterClose(t) == IF t \in Worker THEN "run" ELSE "join"

Shutdown(t) ==
    /\ \/ t \in Client /\ Built /\ at[t] = "idle"
       \/ t \in Worker /\ at[t] = "run"
    /\ shuttingDown' = TRUE
    /\ IF shuttingDown
       THEN Goto(t, AfterClose(t)) /\ UNCHANGED queueVars
       ELSE Goto(t, "closing") /\ Q!Close(t)
    /\ UNCHANGED <<task, workers, joinMutex, submitted, completed, runs>>

\* A worker that shuts the pool down goes on to join it, itself included.
ShutdownSelfJoin(t) ==
    /\ at[t] = "closing" /\ pc[t] = "void"
    /\ Q!Return(t)
    /\ Goto(t, "join")
    /\ UNCHANGED <<task, workers, shuttingDown, joinMutex, submitted, completed, runs>>

ShutdownClosed(t) ==
    /\ at[t] = "closing" /\ pc[t] = "void"
    /\ Q!Return(t)
    /\ Goto(t, AfterClose(t))
    /\ UNCHANGED <<task, workers, shuttingDown, joinMutex, submitted, completed, runs>>

\* Only the first caller joins; a caller behind it returns at once.
JoinLockOrReturn(c) ==
    /\ at[c] = "join"
    /\ IF joinMutex = {}
       THEN joinMutex' = {c} /\ Goto(c, "joining")
       ELSE Goto(c, "returned") /\ UNCHANGED joinMutex
    /\ UNCHANGED <<queueVars, task, workers, shuttingDown, submitted, completed, runs>>

JoinLock(c) ==
    /\ at[c] = "join" /\ joinMutex = {}
    /\ joinMutex' = {c}
    /\ Goto(c, "joining")
    /\ UNCHANGED <<queueVars, task, workers, shuttingDown, submitted, completed, runs>>

\* workers_.clear() joins every thread still in the vector; the mutex is
\* released when shutdown returns.
JoinAll(c) ==
    /\ at[c] = "joining"
    /\ \A w \in workers : at[w] = "exited"
    /\ workers' = {}
    /\ joinMutex' = {}
    /\ Goto(c, "returned")
    /\ UNCHANGED <<queueVars, task, shuttingDown, submitted, completed, runs>>

-----------------------------------------------------------------------------
(* worker_loop *)

WorkerPop(w) ==
    /\ at[w] = "loop"
    /\ Q!Pop(w)
    /\ Goto(w, "popping")
    /\ UNCHANGED <<task, workers, shuttingDown, joinMutex, submitted, completed, runs>>

\* The task is executed twice.
TaskEndTwice(w) ==
    /\ at[w] = "run"
    /\ runs' = [runs EXCEPT ![task[w]] = @ + 2]
    /\ task' = [task EXCEPT ![w] = NoTask]
    /\ Goto(w, "ran")
    /\ UNCHANGED <<queueVars, workers, shuttingDown, joinMutex, submitted, completed>>

TaskStart(w) ==
    /\ at[w] = "popping" /\ pc[w] = "value"
    /\ task' = [task EXCEPT ![w] = item[w]]
    /\ Q!Return(w)
    /\ Goto(w, "run")
    /\ UNCHANGED <<workers, shuttingDown, joinMutex, submitted, completed, runs>>

\* The body returns or throws; the worker swallows the exception.
TaskEnd(w) ==
    /\ at[w] = "run"
    /\ runs' = [runs EXCEPT ![task[w]] = @ + 1]
    /\ task' = [task EXCEPT ![w] = NoTask]
    /\ Goto(w, "ran")
    /\ UNCHANGED <<queueVars, workers, shuttingDown, joinMutex, submitted, completed>>

CountCompleted(w) ==
    /\ at[w] = "ran"
    /\ completed' = completed + 1
    /\ Goto(w, "loop")
    /\ UNCHANGED <<queueVars, task, workers, shuttingDown, joinMutex, submitted, runs>>

\* A worker leaves its loop as soon as the pool is shutting down.
WorkerExitEarly(w) ==
    /\ at[w] \in {"loop", "popping"} /\ pc[w] \in {"idle", "nullopt"}
    /\ at[w] = "loop" => shuttingDown
    /\ pc' = [pc EXCEPT ![w] = "idle"]
    /\ Goto(w, "exited")
    /\ UNCHANGED <<queue, closed, item, pushed, popped, throws, task, workers, shuttingDown,
                   joinMutex, submitted, completed, runs>>

WorkerExit(w) ==
    /\ at[w] = "popping" /\ pc[w] = "nullopt"
    /\ Q!Return(w)
    /\ Goto(w, "exited")
    /\ UNCHANGED <<task, workers, shuttingDown, joinMutex, submitted, completed, runs>>

-----------------------------------------------------------------------------
QueueStep(t) == Q!Step(t) /\ UNCHANGED poolVars
QueueWake(t) == Q!SpuriousWake(t) /\ UNCHANGED poolVars

\* What a thread does by itself once it is scheduled.
OwnerStep == (\E w \in Worker : Spawn(w)) \/ Constructed \/ SpawnFails \/ Abort

ClientStep(c) ==
    \/ SubmitPush(c) \/ SubmitAccepted(c) \/ SubmitUndone(c)
    \/ ShutdownClosed(c) \/ JoinLock(c) \/ JoinAll(c)
    \/ QueueStep(c)

WorkerStep(w) ==
    \/ WorkerPop(w) \/ TaskStart(w) \/ TaskEnd(w) \/ CountCompleted(w) \/ WorkerExit(w)
    \/ ShutdownClosed(w)
    \/ QueueStep(w)

Next ==
    \/ OwnerStep
    \/ \E c \in Client :
         \/ \E k \in Task \cup {NoTask} : Submit(c, k)
         \/ Shutdown(c)
         \/ ClientStep(c)
    \/ \E w \in Worker : Shutdown(w) \/ WorkerStep(w)
    \/ \E t \in Thread : QueueWake(t)

Spec == Init /\ [][Next]_vars

-----------------------------------------------------------------------------
\* Types.  A thread inside the queue is at the pool's label that called it, and
\* only a client holds join_mutex_.
TypeOK ==
    /\ Q!TypeOK
    /\ at \in [Thread -> {"unborn", "construct", "abort", "threw", "idle", "submit", "pushing",
                          "closing", "join", "joining", "returned",
                          "loop", "popping", "run", "ran", "exited"}]
    /\ task \in [Thread -> Task \cup {NoTask}]
    /\ workers \subseteq Worker
    /\ shuttingDown \in BOOLEAN
    /\ joinMutex = {c \in Client : at[c] = "joining"}
    /\ submitted \in Nat /\ completed \in Nat
    /\ runs \in [Task -> Nat]
    /\ \A t \in Thread :
         pc[t] # "idle" => at[t] \in {"pushing", "popping", "closing", "abort"}

Occurrences(s, k) == Cardinality({i \in DOMAIN s : s[i] = k})

\* The workers that have taken task k and not finished it.
Holding(k) ==
    {w \in Worker : task[w] = k \/ (pc[w] \in {"notifyNotFull", "value"} /\ item[w] = k)}

\* Every accepted task is in exactly one place: queued, held by one worker, or
\* executed.  None is dropped by a shutdown and none is executed twice.
EveryTaskOnce ==
    /\ TypeOK
    /\ \A k \in Task :
         Occurrences(pushed, k) = Occurrences(queue, k) + Cardinality(Holding(k)) + runs[k]

\* submit counts before the queue can wake a worker, so at no instant have more
\* tasks been completed than submitted.
CompletedAtMostSubmitted == completed <= submitted

\* When shutdown has returned to any external caller, also to one that found
\* another caller joining, the accepted work is drained: every accepted task
\* was executed, every worker has ended, and what submit still has to take back
\* is all that submitted has beyond completed.
DrainedAtReturn ==
    (\E c \in Client : at[c] = "returned") =>
        /\ \A k \in Task : runs[k] = Occurrences(pushed, k)
        /\ \A w \in Worker : at[w] = "exited"
        /\ submitted - completed =
             Cardinality({c \in Client : at[c] = "pushing" /\ pc[c] \notin {"notifyNotEmpty", "true"}})

\* A worker on its way out of worker_loop, if the queue is closed and empty: not
\* asleep in pop, and with no task in hand.
Leaving(w) ==
    \/ at[w] \in {"loop", "exited"}
    \/ at[w] = "popping" /\ pc[w] \in {"pop", "nullopt"}

\* A constructor that fails does not wait for ever for the workers it had
\* started: when it comes to join them the queue is closed for good and every
\* one of them, wherever the failure found it, is on its way out.  When the
\* exception leaves the constructor no thread of the pool is left.
FailedConstructionEnds ==
    /\ at[Owner] = "abort" /\ pc[Owner] = "void" =>
           closed /\ queue = <<>> /\ \A w \in workers : Leaving(w)
    /\ at[Owner] = "threw" => \A w \in Worker : at[w] \in {"unborn", "exited"}

\* The pool uses tasks_ only as the queue allows.
UsesQueue == Q!Spec

\* What a worker has taken: at first the result of pop, then the task it runs.
Held(w) == IF pc[w] \in {"notifyNotFull", "value"} THEN item[w] ELSE task[w]
Hands == [w \in Worker |-> Held(w)]
Gone == {w \in Worker : at[w] = "exited"}
Drained == \E c \in Client : at[c] = "returned"

P == INSTANCE TaskPool WITH hand <- Hands, left <- Gone, drained <- Drained

\* The pool keeps the promise that the server builds on: tasks are taken in the
\* order submit accepted them and finished once, none is accepted after the
\* close, no worker leaves while there is or may yet be work, whoever has called
\* shutdown, and shutdown returns, also to a second caller, when all have left.
IsTaskPool == P!Spec
=============================================================================
