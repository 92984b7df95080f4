-------------------------- MODULE ThreadPoolProofs --------------------------
(***************************************************************************)
(* What ThreadPool guarantees for any number of workers, clients and tasks *)
(* and for every capacity.  The pool uses its queue only as the queue      *)
(* allows, so what BlockingQueueProofs shows of the queue holds inside the *)
(* pool and is cited here, not proved again.                               *)
(***************************************************************************)
EXTENDS ThreadPool, TLAPS

\* Where a thread may be inside each of the queue's functions.
PushCall == {"push", "waitNotFull", "notifyNotEmpty", "true", "false", "threw"}
PopCall == {"pop", "waitNotEmpty", "notifyNotFull", "value", "nullopt"}
CloseCall == {"close", "closeNotEmpty", "closeNotFull", "void"}

\* A worker is inside the queue exactly where worker_loop pops or its task shuts
\* the pool down, and has a task exactly while it executes one.
WorkerPlace(w) ==
    /\ at[w] \in {"unborn", "loop", "popping", "run", "closing", "ran", "exited"}
    /\ at[w] = "popping" => pc[w] \in PopCall
    /\ at[w] = "closing" => pc[w] \in CloseCall
    /\ at[w] \notin {"popping", "closing"} => pc[w] = "idle"
    /\ at[w] \in {"run", "closing"} => task[w] \in Task
    /\ at[w] \notin {"run", "closing"} => task[w] = NoTask
    /\ pc[w] \in {"notifyNotFull", "value"} => item[w] \in Task

\* The same for a client: it pushes in submit, closes in shutdown and in a
\* constructor that fails, and only the owner constructs.
ClientPlace(c) ==
    /\ at[c] \in {"construct", "abort", "threw", "idle", "submit", "pushing", "closing",
                  "join", "joining", "returned"}
    /\ at[c] \in {"construct", "abort", "threw"} => c = Owner
    /\ at[c] = "pushing" => pc[c] \in PushCall
    /\ at[c] \in {"closing", "abort"} => pc[c] \in CloseCall
    /\ at[c] \notin {"pushing", "closing", "abort"} => pc[c] = "idle"
    /\ at[c] = "submit" => task[c] \in Task
    /\ at[c] # "submit" => task[c] = NoTask

Places == (\A w \in Worker : WorkerPlace(w)) /\ (\A c \in Client : ClientPlace(c))

\* The life of the pool: what has been started and joined while it is built,
\* after that has failed, while it is used, and once a shutdown has returned.
\* A worker that has found the queue closed and empty leaves it so for good.
Life ==
    /\ at[Owner] \in {"construct", "abort"} => \A w \in Worker : w \in workers <=> at[w] # "unborn"
    /\ at[Owner] = "threw" => \A w \in Worker : at[w] \in {"unborn", "exited"}
    /\ Built => workers = Worker \/ \A w \in Worker : at[w] = "exited"
    /\ ~Built => \A c \in Client : c # Owner => at[c] = "idle"
    /\ (\E c \in Client : at[c] = "returned") => \A w \in Worker : at[w] = "exited"
    /\ \A w \in Worker : at[w] = "exited" \/ pc[w] = "nullopt" => closed /\ queue = <<>>

\* join_mutex_ is held by the client that joins, and there is one.
Joined ==
    /\ joinMutex = {c \in Client : at[c] = "joining"}
    /\ \A c, d \in Client : at[c] = "joining" /\ at[d] = "joining" => c = d

\* The submits that are counted and have not been accepted, and the workers that
\* have taken a task and not counted it.
Pending == {c \in Client : at[c] = "pushing" /\ pc[c] \notin {"notifyNotEmpty", "true"}}
Busy == {w \in Worker : at[w] \in {"run", "closing", "ran"} \/ pc[w] \in {"notifyNotFull", "value"}}

\* The two counters, by what has gone through the queue.
Counts ==
    /\ submitted = Len(pushed) + Cardinality(Pending)
    /\ Len(popped) = completed + Cardinality(Busy)

TasksOnce ==
    \A k \in Task :
        Occurrences(pushed, k) = Occurrences(queue, k) + Cardinality(Holding(k)) + runs[k]

\* Where a thread may be in the pool's code.
Place == {"unborn", "construct", "abort", "threw", "idle", "submit", "pushing", "closing", "join",
          "joining", "returned", "loop", "popping", "run", "ran", "exited"}

\* The pool's own variables, as functions and numbers.
PoolTyped ==
    /\ at \in [Thread -> Place] /\ task \in [Thread -> Task \cup {NoTask}]
    /\ workers \subseteq Worker /\ shuttingDown \in BOOLEAN
    /\ completed \in Nat /\ runs \in [Task -> Nat]

Shape == PoolTyped /\ Places /\ Life /\ Joined

\* The queue is well-formed and FIFO, and the pool is as described above.
IInv == Q!TypeOK /\ Q!FifoExactlyOnce /\ Shape /\ Counts /\ TasksOnce

-----------------------------------------------------------------------------
(* Where the threads are *)

\* Two labels of one function of the queue, on the same side of the step that
\* accepts or takes a value.
Alike(p, q) ==
    /\ p \in PushCall <=> q \in PushCall
    /\ p \in PopCall <=> q \in PopCall
    /\ p \in CloseCall <=> q \in CloseCall
    /\ p = "idle" <=> q = "idle"
    /\ p \in {"notifyNotEmpty", "true"} <=> q \in {"notifyNotEmpty", "true"}
    /\ p \in {"notifyNotFull", "value"} <=> q \in {"notifyNotFull", "value"}

\* A step leaves thread u where it was, unless it lets u find the queue closed
\* and empty.
Still(u) ==
    /\ at'[u] = at[u] /\ task'[u] = task[u] /\ item'[u] = item[u] /\ Alike(pc[u], pc'[u])
    /\ pc'[u] = "nullopt" => pc[u] = "nullopt" \/ (closed /\ queue = <<>>)

\* Functions of the threads.
Typed ==
    /\ pc \in [Thread -> Q!Label] /\ item \in [Thread -> Task \cup {NoTask}]
    /\ at \in [Thread -> Place] /\ task \in [Thread -> Task \cup {NoTask}]

\* A step of the queue that accepts no value and takes none moves no thread out
\* of the function it is in.
LEMMA QuietStep ==
    ASSUME Typed, NEW t \in Thread, UNCHANGED <<at, task>>,
           \/ Q!PushWait(t) \/ Q!PushRefuse(t) \/ Q!PushThrow(t) \/ Q!PushNotify(t)
           \/ Q!PopWait(t) \/ Q!PopEnd(t) \/ Q!PopNotify(t)
           \/ Q!CloseSet(t) \/ Q!CloseNotifyNotEmpty(t) \/ Q!CloseNotifyNotFull(t)
           \/ Q!SpuriousWake(t)
    PROVE  /\ UNCHANGED <<queue, item, pushed, popped>>
           /\ \A u \in Thread : Still(u)
           /\ closed => closed'
  <1> USE DEF Typed, Still, Alike, PushCall, PopCall, CloseCall, Q!Goto
  <1>1. CASE Q!PushWait(t) \/ Q!PushRefuse(t) \/ Q!PushThrow(t)
    BY <1>1 DEF Q!PushWait, Q!PushRefuse, Q!PushThrow
  <1>2. CASE Q!PushNotify(t)
    BY <1>2 DEF Q!PushNotify, Q!NotifyOne
  <1>3. CASE Q!PopWait(t) \/ Q!PopEnd(t)
    BY <1>3 DEF Q!PopWait, Q!PopEnd
  <1>4. CASE Q!PopNotify(t)
    BY <1>4 DEF Q!PopNotify, Q!NotifyOne
  <1>5. CASE Q!CloseSet(t) \/ Q!SpuriousWake(t)
    BY <1>5 DEF Q!CloseSet, Q!SpuriousWake
  <1>6. CASE Q!CloseNotifyNotEmpty(t) \/ Q!CloseNotifyNotFull(t)
    BY <1>6 DEF Q!CloseNotifyNotEmpty, Q!CloseNotifyNotFull, Q!NotifyAll
  <1>7. QED
    BY <1>1, <1>2, <1>3, <1>4, <1>5, <1>6

\* A thread that is left alone keeps its place.
LEMMA StillPlaces ==
    ASSUME NEW u, Still(u)
    PROVE  (WorkerPlace(u) => WorkerPlace(u)') /\ (ClientPlace(u) => ClientPlace(u)')
  BY Zenon DEF Still, Alike, WorkerPlace, ClientPlace

\* A step of one thread keeps all the places if it keeps that thread's.
LEMMA StepPlaces ==
    ASSUME Places, NEW t \in Thread, \A u \in Thread \ {t} : Still(u),
           t \in Worker => WorkerPlace(t)', t \in Client => ClientPlace(t)'
    PROVE  Places'
  BY StillPlaces, Zenon DEF Places, Thread

\* What the queue's callers do to it leaves the other threads alone.
LEMMA CallStill ==
    ASSUME Typed, NEW t \in Thread,
           NEW a, at' = [at EXCEPT ![t] = a],
           \/ task' = task \/ \E k : task' = [task EXCEPT ![t] = k],
           \/ item' = item \/ \E v : item' = [item EXCEPT ![t] = v],
           \/ pc' = pc \/ \E p : pc' = [pc EXCEPT ![t] = p]
    PROVE  \A u \in Thread \ {t} : Still(u)
  BY Zenon DEF Typed, Still, Alike

\* The steps of worker_loop.
LEMMA WorkerPlaces ==
    ASSUME Typed, Places, NEW w \in Worker,
           WorkerPop(w) \/ TaskStart(w) \/ TaskEnd(w) \/ CountCompleted(w) \/ WorkerExit(w)
    PROVE  (\A u \in Thread \ {w} : Still(u)) /\ Places'
  <1>0. w \in Thread /\ w \notin Client /\ WorkerPlace(w)
    BY PoolAssumption, Zenon DEF Thread, Places
  <1>1. CASE WorkerPop(w)
    <2>1. \A u \in Thread \ {w} : Still(u)
      BY <1>0, <1>1, CallStill, ZenonT(20) DEF WorkerPop, Goto, Q!Pop, Q!Goto
    <2>2. WorkerPlace(w)'
      BY <1>0, <1>1 DEF WorkerPop, Goto, Q!Pop, Q!Goto, Typed, WorkerPlace, PopCall
    <2>3. QED
      BY <1>0, <2>1, <2>2, StepPlaces
  <1>2. CASE TaskStart(w)
    <2>1. \A u \in Thread \ {w} : Still(u)
      BY <1>0, <1>2, CallStill, ZenonT(20) DEF TaskStart, Goto, Q!Return, Q!Goto
    <2>2. WorkerPlace(w)'
      BY <1>0, <1>2 DEF TaskStart, Goto, Q!Return, Q!Goto, Typed, WorkerPlace
    <2>3. QED
      BY <1>0, <2>1, <2>2, StepPlaces, Zenon
  <1>3. CASE TaskEnd(w)
    <2>1. \A u \in Thread \ {w} : Still(u)
      BY <1>0, <1>3, CallStill, ZenonT(20) DEF TaskEnd, Goto, queueVars
    <2>2. WorkerPlace(w)'
      BY <1>0, <1>3 DEF TaskEnd, Goto, queueVars, Typed, WorkerPlace
    <2>3. QED
      BY <1>0, <2>1, <2>2, StepPlaces, Zenon
  <1>4. CASE CountCompleted(w)
    <2>1. \A u \in Thread \ {w} : Still(u)
      BY <1>0, <1>4, CallStill, ZenonT(20) DEF CountCompleted, Goto, queueVars
    <2>2. WorkerPlace(w)'
      BY <1>0, <1>4 DEF CountCompleted, Goto, queueVars, Typed, WorkerPlace
    <2>3. QED
      BY <1>0, <2>1, <2>2, StepPlaces, Zenon
  <1>5. CASE WorkerExit(w)
    <2>1. \A u \in Thread \ {w} : Still(u)
      BY <1>0, <1>5, CallStill, ZenonT(20) DEF WorkerExit, Goto, Q!Return, Q!Goto
    <2>2. WorkerPlace(w)'
      BY <1>0, <1>5 DEF WorkerExit, Goto, Q!Return, Q!Goto, Typed, WorkerPlace
    <2>3. QED
      BY <1>0, <2>1, <2>2, StepPlaces, Zenon
  <1>6. QED
    BY <1>1, <1>2, <1>3, <1>4, <1>5

\* The steps of submit and of joining.
LEMMA ClientPlaces ==
    ASSUME Typed, Places, NEW c \in Client,
           \/ \E k \in Task \cup {NoTask} : Submit(c, k)
           \/ SubmitPush(c) \/ SubmitAccepted(c) \/ SubmitUndone(c) \/ JoinLock(c) \/ JoinAll(c)
    PROVE  (\A u \in Thread \ {c} : Still(u)) /\ Places'
  <1>0. c \in Thread /\ c \notin Worker /\ ClientPlace(c)
    BY PoolAssumption, Zenon DEF Thread, Places
  <1>1. ASSUME NEW k \in Task \cup {NoTask}, Submit(c, k)
        PROVE  (\A u \in Thread \ {c} : Still(u)) /\ Places'
    <2>1. CASE UNCHANGED <<at, task>>
      <3>1. \A u \in Thread : Still(u)
        BY <1>1, <2>1, Zenon DEF Submit, queueVars, Still, Alike
      <3>2. QED
        BY <1>0, <3>1, StillPlaces, StepPlaces
    <2>2. CASE k \in Task /\ Goto(c, "submit") /\ task' = [task EXCEPT ![c] = k]
      <3>1. \A u \in Thread \ {c} : Still(u)
        BY <1>0, <1>1, <2>2, CallStill, ZenonT(20) DEF Submit, Goto, queueVars
      <3>2. ClientPlace(c)'
        BY <1>0, <1>1, <2>2 DEF Submit, Goto, queueVars, Typed, ClientPlace
      <3>3. QED
        BY <1>0, <3>1, <3>2, StepPlaces
    <2>3. QED
      BY <1>1, <2>1, <2>2 DEF Submit
  <1>2. CASE SubmitPush(c)
    <2>1. \A u \in Thread \ {c} : Still(u)
      BY <1>0, <1>2, CallStill, ZenonT(20) DEF SubmitPush, Goto, Q!Push, Q!Goto
    <2>2. ClientPlace(c)'
      BY <1>0, <1>2 DEF SubmitPush, Goto, Q!Push, Q!Goto, Typed, ClientPlace, PushCall
    <2>3. QED
      BY <1>0, <2>1, <2>2, StepPlaces
  <1>3. CASE SubmitAccepted(c) \/ SubmitUndone(c)
    <2>1. \A u \in Thread \ {c} : Still(u)
      BY <1>0, <1>3, CallStill, ZenonT(20) DEF SubmitAccepted, SubmitUndone, Goto, Q!Return, Q!Goto
    <2>2. ClientPlace(c)'
      BY <1>0, <1>3 DEF SubmitAccepted, SubmitUndone, Goto, Q!Return, Q!Goto, Typed, ClientPlace
    <2>3. QED
      BY <1>0, <2>1, <2>2, StepPlaces, Zenon
  <1>4. CASE JoinLock(c) \/ JoinAll(c)
    <2>1. \A u \in Thread \ {c} : Still(u)
      BY <1>0, <1>4, CallStill, ZenonT(20) DEF JoinLock, JoinAll, Goto, queueVars
    <2>2. ClientPlace(c)'
      BY <1>0, <1>4, Zenon DEF JoinLock, JoinAll, Goto, queueVars, Typed, ClientPlace
    <2>3. QED
      BY <1>0, <2>1, <2>2, StepPlaces, Zenon
  <1>5. QED
    BY <1>1, <1>2, <1>3, <1>4, Zenon

\* The steps of shutdown up to the close.
LEMMA ShutdownPlaces ==
    ASSUME Typed, Places, NEW t \in Thread, Shutdown(t) \/ ShutdownClosed(t)
    PROVE  (\A u \in Thread \ {t} : Still(u)) /\ Places'
  <1>0. /\ t \in Worker => WorkerPlace(t) /\ t \notin Client
        /\ t \in Client => ClientPlace(t) /\ t \notin Worker
    BY PoolAssumption, Zenon DEF Thread, Places
  <1>1. CASE Shutdown(t) /\ shuttingDown
    <2>1. \A u \in Thread \ {t} : Still(u)
      BY <1>1, CallStill, Zenon DEF Shutdown, Goto, queueVars
    <2>2. t \in Worker => WorkerPlace(t)'
      BY <1>0, <1>1 DEF Shutdown, Goto, AfterClose, queueVars, Typed, WorkerPlace
    <2>3. t \in Client => ClientPlace(t)'
      BY <1>0, <1>1 DEF Shutdown, Goto, AfterClose, queueVars, Typed, ClientPlace
    <2>4. QED
      BY <2>1, <2>2, <2>3, StepPlaces
  <1>2. CASE Shutdown(t) /\ ~shuttingDown
    <2>1. \A u \in Thread \ {t} : Still(u)
      BY <1>2, CallStill, ZenonT(20) DEF Shutdown, Goto, Q!Close, Q!Goto
    <2>2. t \in Worker => WorkerPlace(t)'
      BY <1>0, <1>2 DEF Shutdown, Goto, Q!Close, Q!Goto, Typed, WorkerPlace, CloseCall
    <2>3. t \in Client => ClientPlace(t)'
      BY <1>0, <1>2 DEF Shutdown, Goto, Q!Close, Q!Goto, Typed, ClientPlace, CloseCall
    <2>4. QED
      BY <2>1, <2>2, <2>3, StepPlaces, Zenon
  <1>3. CASE ShutdownClosed(t)
    <2>1. \A u \in Thread \ {t} : Still(u)
      BY <1>3, CallStill, Zenon DEF ShutdownClosed, Goto, Q!Return, Q!Goto
    <2>2. t \in Worker => WorkerPlace(t)'
      BY <1>0, <1>3 DEF ShutdownClosed, Goto, AfterClose, Q!Return, Q!Goto, Typed, WorkerPlace
    <2>3. t \in Client => ClientPlace(t)'
      BY <1>0, <1>3 DEF ShutdownClosed, Goto, AfterClose, Q!Return, Q!Goto, Typed, ClientPlace
    <2>4. QED
      BY <2>1, <2>2, <2>3, StepPlaces, Zenon
  <1>4. QED
    BY <1>1, <1>2, <1>3

\* The steps of the constructor: starting a worker moves the worker, the others
\* move the owner.
LEMMA OwnerPlaces ==
    ASSUME Typed, Places
    PROVE  /\ \A w \in Worker : Spawn(w) => (\A u \in Thread \ {w} : Still(u)) /\ Places'
           /\ Constructed \/ SpawnFails \/ Abort => (\A u \in Thread \ {Owner} : Still(u)) /\ Places'
  <1>0. Owner \in Thread /\ Owner \notin Worker /\ ClientPlace(Owner)
    BY PoolAssumption, Zenon DEF Thread, Places
  <1>1. ASSUME NEW w \in Worker, Spawn(w)
        PROVE  (\A u \in Thread \ {w} : Still(u)) /\ Places'
    <2>0. w \in Thread /\ w \notin Client /\ WorkerPlace(w)
      BY PoolAssumption, Zenon DEF Thread, Places
    <2>1. \A u \in Thread \ {w} : Still(u)
      BY <1>1, <2>0, CallStill, ZenonT(20) DEF Spawn, Goto, queueVars
    <2>2. WorkerPlace(w)'
      BY <1>1, <2>0 DEF Spawn, Goto, queueVars, Typed, WorkerPlace
    <2>3. QED
      BY <2>0, <2>1, <2>2, StepPlaces
  <1>2. ASSUME Constructed
        PROVE  (\A u \in Thread \ {Owner} : Still(u)) /\ Places'
    <2>1. \A u \in Thread \ {Owner} : Still(u)
      BY <1>0, <1>2, CallStill, ZenonT(20) DEF Constructed, Goto, queueVars
    <2>2. ClientPlace(Owner)'
      BY <1>0, <1>2 DEF Constructed, Goto, queueVars, Typed, ClientPlace
    <2>3. QED
      BY <1>0, <2>1, <2>2, StepPlaces
  <1>3. ASSUME SpawnFails
        PROVE  (\A u \in Thread \ {Owner} : Still(u)) /\ Places'
    <2>1. \A u \in Thread \ {Owner} : Still(u)
      BY <1>0, <1>3, CallStill, ZenonT(20) DEF SpawnFails, Goto, Q!Close, Q!Goto
    <2>2. ClientPlace(Owner)'
      BY <1>0, <1>3 DEF SpawnFails, Goto, Q!Close, Q!Goto, Typed, ClientPlace, CloseCall
    <2>3. QED
      BY <1>0, <2>1, <2>2, StepPlaces, Zenon
  <1>4. ASSUME Abort
        PROVE  (\A u \in Thread \ {Owner} : Still(u)) /\ Places'
    <2>1. \A u \in Thread \ {Owner} : Still(u)
      BY <1>0, <1>4, CallStill, ZenonT(20) DEF Abort, Goto, Q!Return, Q!Goto
    <2>2. ClientPlace(Owner)'
      BY <1>0, <1>4 DEF Abort, Goto, Q!Return, Q!Goto, Typed, ClientPlace
    <2>3. QED
      BY <1>0, <2>1, <2>2, StepPlaces, Zenon
  <1>5. QED
    BY <1>1, <1>2, <1>3, <1>4

\* Only a client inside submit has a value accepted, only a worker in its loop
\* takes one.
LEMMA QueuePlaces ==
    ASSUME Typed, Places, NEW t \in Thread, UNCHANGED poolVars
    PROVE  /\ Q!PushAccept(t) => /\ t \in Client /\ at[t] = "pushing"
                                 /\ (\A u \in Thread \ {t} : Still(u)) /\ Places'
           /\ Q!PopTake(t) => /\ t \in Worker /\ at[t] = "popping"
                              /\ queue \in Seq(Task) => (\A u \in Thread \ {t} : Still(u)) /\ Places'
           /\ (\A u \in Thread : Still(u)) => Places'
  <1>0. /\ t \in Worker => WorkerPlace(t) /\ t \notin Client
        /\ t \in Client => ClientPlace(t) /\ t \notin Worker
    BY PoolAssumption, Zenon DEF Thread, Places
  <1>1. ASSUME Q!PushAccept(t)
        PROVE  t \in Client /\ at[t] = "pushing" /\ (\A u \in Thread \ {t} : Still(u)) /\ Places'
    <2>1. t \in Client /\ at[t] = "pushing"
      BY <1>0, <1>1 DEF Q!PushAccept, Thread, WorkerPlace, ClientPlace, PopCall, CloseCall
    <2>2. \A u \in Thread \ {t} : Still(u)
      BY <1>1, Zenon DEF Q!PushAccept, Q!Goto, poolVars, Typed, Still, Alike
    <2>3. ClientPlace(t)'
      BY <1>0, <1>1, <2>1 DEF Q!PushAccept, Q!Goto, poolVars, Typed, ClientPlace, PushCall
    <2>4. QED
      BY <1>0, <2>1, <2>2, <2>3, StepPlaces
  <1>2. ASSUME Q!PopTake(t)
        PROVE  /\ t \in Worker /\ at[t] = "popping"
               /\ queue \in Seq(Task) => (\A u \in Thread \ {t} : Still(u)) /\ Places'
    <2>1. t \in Worker /\ at[t] = "popping"
      BY <1>0, <1>2 DEF Q!PopTake, Thread, WorkerPlace, ClientPlace, PushCall, CloseCall
    <2>2. \A u \in Thread \ {t} : Still(u)
      BY <1>2 DEF Q!PopTake, Q!Goto, poolVars, Typed, Still, Alike
    <2>3. ASSUME queue \in Seq(Task) PROVE WorkerPlace(t)'
      <3>1. Head(queue) \in Task
        BY <1>2, <2>3 DEF Q!PopTake
      <3>2. QED
        BY <1>0, <1>2, <2>1, <3>1 DEF Q!PopTake, Q!Goto, poolVars, Typed, WorkerPlace, PopCall
    <2>4. QED
      BY <1>0, <2>1, <2>2, <2>3, StepPlaces
  <1>3. (\A u \in Thread : Still(u)) => Places'
    BY StillPlaces, Zenon DEF Places, Thread
  <1>4. QED
    BY <1>1, <1>2, <1>3

-----------------------------------------------------------------------------
(* The life of the pool *)

\* A client that is anywhere but idle, or constructing, uses a pool that is built.
LEMMA UserBuilt ==
    ASSUME Life, NEW c \in Client, at[c] \notin {"idle", "construct", "abort", "threw"}
    PROVE  Built
  BY Zenon DEF Life, Built

\* A step that starts, ends and joins no worker.
LEMMA LifeFrame ==
    ASSUME Life, workers' = workers,
           closed /\ queue = <<>> => closed' /\ queue' = <<>>,
           \A w \in Worker :
               /\ at'[w] = "unborn" <=> at[w] = "unborn"
               /\ at'[w] = "exited" <=> at[w] = "exited"
               /\ pc'[w] = "nullopt" => pc[w] = "nullopt" \/ (closed /\ queue = <<>>),
           (Built /\ Built') \/ (at'[Owner] = at[Owner] /\ \A c \in Client : at'[c] = at[c]),
           \A c \in Client : at'[c] = "returned" => at[c] = "returned"
    PROVE  Life'
  <1>1. (at[Owner] \in {"construct", "abort"} => \A w \in Worker : w \in workers <=> at[w] # "unborn")'
    BY Zenon DEF Life, Built
  <1>2. (at[Owner] = "threw" => \A w \in Worker : at[w] \in {"unborn", "exited"})'
    BY Zenon DEF Life, Built
  <1>3. (Built => workers = Worker \/ \A w \in Worker : at[w] = "exited")'
    BY Zenon DEF Life, Built
  <1>4. (~Built => \A c \in Client : c # Owner => at[c] = "idle")'
    BY Zenon DEF Life, Built
  <1>5. ((\E c \in Client : at[c] = "returned") => \A w \in Worker : at[w] = "exited")'
    BY Zenon DEF Life
  <1>6. (\A w \in Worker : at[w] = "exited" \/ pc[w] = "nullopt" => closed /\ queue = <<>>)'
    BY Zenon DEF Life
  <1>7. QED
    BY <1>1, <1>2, <1>3, <1>4, <1>5, <1>6, Zenon DEF Life

\* A step of the queue that leaves every thread where it was.
LEMMA StillLife ==
    ASSUME Life, workers' = workers, \A u \in Thread : Still(u),
           closed /\ queue = <<>> => closed' /\ queue' = <<>>
    PROVE  Life'
  <1>1. \A w \in Worker : /\ at'[w] = at[w]
                          /\ pc'[w] = "nullopt" => pc[w] = "nullopt" \/ (closed /\ queue = <<>>)
    BY Zenon DEF Still, Thread
  <1>2. at'[Owner] = at[Owner] /\ \A c \in Client : at'[c] = at[c]
    BY PoolAssumption, Zenon DEF Still, Thread
  <1>3. QED
    BY <1>1, <1>2, LifeFrame, Zenon

\* A step of one thread in the middle of its work.
LEMMA MoveLife ==
    ASSUME Life, workers' = workers, NEW t \in Thread, \A u \in Thread \ {t} : Still(u),
           closed /\ queue = <<>> => closed' /\ queue' = <<>>,
           t \in Worker => /\ at[t] \notin {"unborn", "exited"} /\ at'[t] \notin {"unborn", "exited"}
                           /\ pc'[t] # "nullopt",
           t \in Client => Built /\ at'[t] \notin {"construct", "abort", "threw", "returned"}
    PROVE  Life'
  <1>1. \A w \in Worker :
           /\ at'[w] = "unborn" <=> at[w] = "unborn"
           /\ at'[w] = "exited" <=> at[w] = "exited"
           /\ pc'[w] = "nullopt" => pc[w] = "nullopt" \/ (closed /\ queue = <<>>)
    BY Zenon DEF Still, Thread
  <1>2. \A c \in Client : at'[c] = "returned" => at[c] = "returned"
    BY Zenon DEF Still, Thread
  <1>3. (Built /\ Built') \/ (at'[Owner] = at[Owner] /\ \A c \in Client : at'[c] = at[c])
    <2>1. CASE t \in Client
      BY <2>1, PoolAssumption, Zenon DEF Still, Thread, Built
    <2>2. CASE t \notin Client
      BY <2>2, PoolAssumption, Zenon DEF Still, Thread
    <2>3. QED
      BY <2>1, <2>2, Zenon
  <1>4. QED
    BY <1>1, <1>2, <1>3, LifeFrame, Zenon

\* Starting a worker, and returning from the constructor.
LEMMA ConstructLife ==
    ASSUME Typed, Places, Life
    PROVE  /\ \A w \in Worker : Spawn(w) => Life'
           /\ Constructed => Life'
  <1>0. Owner \in Client /\ Owner \in Thread /\ Owner \notin Worker
    BY PoolAssumption DEF Thread
  <1>1. ASSUME NEW w \in Worker, Spawn(w) PROVE Life'
    <2>1. /\ at[Owner] = "construct" /\ at[w] = "unborn" /\ workers' = workers \cup {w}
          /\ at' = [at EXCEPT ![w] = "loop"] /\ pc[w] = "idle"
          /\ UNCHANGED <<queue, closed, pc>>
      BY <1>1 DEF Spawn, Goto, queueVars, Places, WorkerPlace
    <2>2. w \in Thread /\ at'[w] = "loop" /\ \A u \in Thread : u # w => at'[u] = at[u]
      BY <2>1, Zenon DEF Typed, Thread
    <2>3. at'[Owner] = "construct" /\ \A c \in Client : at'[c] = at[c]
      BY <1>0, <2>1, <2>2, PoolAssumption DEF Thread
    <2>4. \A v \in Worker : v # w => at'[v] = at[v]
      BY <2>2, Zenon DEF Thread
    <2>5. \A v \in Worker : (v \in workers <=> at[v] # "unborn")'
      BY <2>1, <2>2, <2>4, Zenon DEF Life
    <2>6. (\A v \in Worker : at[v] = "exited" \/ pc[v] = "nullopt" => closed /\ queue = <<>>)'
      BY <2>1, <2>2, <2>4, Zenon DEF Life
    <2>7. \A c \in Client : at'[c] # "returned" /\ (c # Owner => at'[c] = "idle")
      BY <2>1, <2>3, Zenon DEF Life, Built
    <2>8. QED
      BY <2>3, <2>5, <2>6, <2>7, Zenon DEF Life, Built
  <1>2. ASSUME Constructed PROVE Life'
    <2>1. /\ at[Owner] = "construct" /\ workers = Worker /\ workers' = workers
          /\ at' = [at EXCEPT ![Owner] = "idle"]
          /\ UNCHANGED <<queue, closed, pc>>
      BY <1>2, Zenon DEF Constructed, Goto, queueVars
    <2>2. at'[Owner] = "idle" /\ \A u \in Thread : u # Owner => at'[u] = at[u]
      BY <1>0, <2>1, Zenon DEF Typed
    <2>3. \A w \in Worker : at'[w] = at[w]
      BY <1>0, <2>2, Zenon DEF Thread
    <2>4. (\A w \in Worker : at[w] = "exited" \/ pc[w] = "nullopt" => closed /\ queue = <<>>)'
      BY <2>1, <2>3, Zenon DEF Life
    <2>5. \A c \in Client : at'[c] # "returned"
      BY <2>1, <2>2, Zenon DEF Life, Built, Thread
    <2>6. QED
      BY <2>1, <2>2, <2>4, <2>5, Zenon DEF Life, Built
  <1>3. QED
    BY <1>1, <1>2, Zenon

\* A constructor that fails joins what it has started.
LEMMA FailedLife ==
    ASSUME Typed, Places, Life
    PROVE  (SpawnFails => Life') /\ (Abort => Life')
  <1>0. Owner \in Client /\ Owner \in Thread /\ Owner \notin Worker
    BY PoolAssumption DEF Thread
  <1>1. ASSUME NEW a, at' = [at EXCEPT ![Owner] = a]
        PROVE  at'[Owner] = a /\ (\A w \in Worker : at'[w] = at[w])
               /\ \A c \in Client : c # Owner => at'[c] = at[c]
    BY <1>0, <1>1, Zenon DEF Typed, Thread
  <1>2. ASSUME NEW p, pc' = [pc EXCEPT ![Owner] = p]
        PROVE  \A w \in Worker : pc'[w] = pc[w]
    BY <1>0, <1>2, Zenon DEF Typed, Thread
  <1>3. ASSUME SpawnFails PROVE Life'
    <2>1. /\ at[Owner] = "construct" /\ workers' = workers /\ at' = [at EXCEPT ![Owner] = "abort"]
          /\ UNCHANGED <<queue, closed>> /\ pc' = [pc EXCEPT ![Owner] = "close"]
      BY <1>3, Zenon DEF SpawnFails, Goto, Q!Close, Q!Goto
    <2>2. /\ at'[Owner] = "abort" /\ \A w \in Worker : at'[w] = at[w] /\ pc'[w] = pc[w]
          /\ \A c \in Client : c # Owner => at'[c] = "idle"
      BY <1>1, <1>2, <2>1, Zenon DEF Life, Built
    <2>3. \A c \in Client : at'[c] # "returned"
      BY <2>2, Zenon
    <2>4. QED
      BY <2>1, <2>2, <2>3, ZenonT(40) DEF Life, Built
  <1>4. ASSUME Abort PROVE Life'
    <2>1. /\ at[Owner] = "abort" /\ at' = [at EXCEPT ![Owner] = "threw"]
          /\ \A w \in workers : at[w] = "exited"
          /\ UNCHANGED <<queue, closed>> /\ pc' = [pc EXCEPT ![Owner] = "idle"]
      BY <1>4, Zenon DEF Abort, Goto, Q!Return, Q!Goto
    <2>2. /\ at'[Owner] = "threw" /\ \A w \in Worker : at'[w] = at[w] /\ pc'[w] = pc[w]
          /\ \A c \in Client : c # Owner => at'[c] = "idle"
      BY <1>1, <1>2, <2>1, Zenon DEF Life, Built
    <2>3. \A c \in Client : at'[c] # "returned"
      BY <2>2, Zenon
    <2>4. \A w \in Worker : at[w] \in {"unborn", "exited"}
      BY <2>1, Zenon DEF Life
    <2>5. QED
      BY <2>1, <2>2, <2>3, <2>4, ZenonT(40) DEF Life, Built
  <1>5. QED
    BY <1>3, <1>4, Zenon

\* The end of a worker, and of a shutdown.
LEMMA EndLife ==
    ASSUME Typed, Places, Life
    PROVE  /\ \A w \in Worker : WorkerExit(w) => Life'
           /\ \A c \in Client : JoinAll(c) => Life'
  <1>1. ASSUME NEW w \in Worker, WorkerExit(w) PROVE Life'
    <2>1. /\ w \in Thread /\ at[w] = "popping" /\ pc[w] = "nullopt" /\ workers' = workers
          /\ at' = [at EXCEPT ![w] = "exited"] /\ pc' = [pc EXCEPT ![w] = "idle"]
          /\ UNCHANGED <<queue, closed>>
      BY <1>1, Zenon DEF WorkerExit, Goto, Q!Return, Q!Goto, Thread
    <2>2. /\ at'[w] = "exited" /\ \A c \in Client : at'[c] = at[c]
          /\ \A v \in Worker : v # w => at'[v] = at[v] /\ pc'[v] = pc[v]
      BY <2>1, PoolAssumption, Zenon DEF Typed, Thread
    <2>3. closed /\ queue = <<>> /\ closed' /\ queue' = <<>>
      BY <2>1, Zenon DEF Life
    <2>4. Built' <=> Built
      BY <2>2, PoolAssumption, Zenon DEF Built
    <2>5. ~\A v \in Worker : at[v] = "exited"
      BY <2>1
    <2>6. at[Owner] # "threw" /\ (\A c \in Client : at[c] # "returned") /\ (Built => workers = Worker)
      BY <2>1, <2>5 DEF Life
    <2>7. at[Owner] \in {"construct", "abort"} => \A v \in Worker : v \in workers <=> at'[v] # "unborn"
      BY <2>1, <2>2 DEF Life
    <2>8. at'[Owner] = at[Owner]
      BY <2>2, PoolAssumption, Zenon
    <2>9. QED
      BY <2>1, <2>2, <2>3, <2>4, <2>6, <2>7, <2>8, Zenon DEF Life
  <1>2. ASSUME NEW c \in Client, JoinAll(c) PROVE Life'
    <2>1. /\ c \in Thread /\ at[c] = "joining" /\ \A w \in workers : at[w] = "exited"
          /\ at' = [at EXCEPT ![c] = "returned"]
          /\ UNCHANGED <<queue, closed, pc>>
      BY <1>2, Zenon DEF JoinAll, Goto, queueVars, Thread
    <2>2. at'[c] = "returned" /\ \A w \in Worker : at'[w] = at[w]
      BY <2>1, PoolAssumption, Zenon DEF Typed, Thread
    <2>3. Built
      BY <2>1, UserBuilt
    <2>4. Built'
      BY <2>1, <2>2, <2>3, PoolAssumption DEF Built, Typed, Thread
    <2>5. \A w \in Worker : at'[w] = "exited"
      BY <2>1, <2>2, <2>3, Zenon DEF Life
    <2>6. QED
      BY <2>1, <2>2, <2>4, <2>5, Zenon DEF Life, Built
  <1>3. QED
    BY <1>1, <1>2, Zenon

-----------------------------------------------------------------------------
(* Every step keeps the pool in shape and uses the queue as the queue allows *)

\* The parts of the shape of a pool, for later steps to cite.
LEMMA ShapeFacts ==
    ASSUME Q!TypeOK, Shape
    PROVE  /\ Typed /\ PoolTyped /\ Places /\ Life /\ Joined
           /\ queue \in Seq(Task) /\ pushed \in Seq(Task) /\ popped \in Seq(Task)
  BY Zenon DEF Shape, PoolTyped, Typed, Q!TypeOK

\* A step that does not touch the mutex.
LEMMA JoinedKept ==
    ASSUME Joined, joinMutex' = joinMutex,
           \A c \in Client : at'[c] = "joining" <=> at[c] = "joining"
    PROVE  Joined'
  <1>1. {c \in Client : at'[c] = "joining"} = {c \in Client : at[c] = "joining"}
    OBVIOUS
  <1>2. QED
    BY <1>1, Zenon DEF Joined

\* The steps of worker_loop.
LEMMA WorkerShape ==
    ASSUME Q!TypeOK, Shape, NEW w \in Worker,
           WorkerPop(w) \/ TaskStart(w) \/ TaskEnd(w) \/ CountCompleted(w) \/ WorkerExit(w)
    PROVE  Shape' /\ [Q!Next]_Q!vars
  <1>0. Typed /\ PoolTyped /\ Places /\ Life /\ Joined
    BY ShapeFacts, Zenon
  <1>1. w \in Thread /\ w \notin Client /\ WorkerPlace(w)
    BY <1>0, PoolAssumption DEF Thread, Places
  <1>2. (\A u \in Thread \ {w} : Still(u)) /\ Places'
    BY <1>0, WorkerPlaces, Zenon
  <1>3. PoolTyped'
    <2>1. at' \in [Thread -> Place]
      <3>1. \E a \in {"popping", "run", "ran", "loop", "exited"} : at' = [at EXCEPT ![w] = a]
        BY Zenon DEF WorkerPop, TaskStart, TaskEnd, CountCompleted, WorkerExit, Goto
      <3>2. QED
        BY <1>0, <3>1, Zenon DEF PoolTyped, Place
    <2>2. task' \in [Thread -> Task \cup {NoTask}]
      <3>1. task' = task \/ \E k \in Task \cup {NoTask} : task' = [task EXCEPT ![w] = k]
        BY <1>0, <1>1, Zenon DEF WorkerPop, TaskStart, TaskEnd, CountCompleted, WorkerExit, Typed
      <3>2. QED
        BY <1>0, <3>1, Zenon DEF PoolTyped
    <2>3. workers' = workers /\ shuttingDown' = shuttingDown
      BY Zenon DEF WorkerPop, TaskStart, TaskEnd, CountCompleted, WorkerExit
    <2>4. completed' \in Nat /\ runs' \in [Task -> Nat]
      BY <1>0, <1>1 DEF WorkerPop, TaskStart, TaskEnd, CountCompleted, WorkerExit, PoolTyped
    <2>5. QED
      BY <1>0, <2>1, <2>2, <2>3, <2>4, Zenon DEF PoolTyped
  <1>4. Joined'
    <2>1. joinMutex' = joinMutex
      BY Zenon DEF WorkerPop, TaskStart, TaskEnd, CountCompleted, WorkerExit
    <2>2. \A c \in Client : at'[c] = at[c]
      BY <1>1, <1>2, Zenon DEF Still, Thread
    <2>3. QED
      BY <1>0, <2>1, <2>2, JoinedKept, Zenon
  <1>5. Life'
    <2>1. CASE WorkerExit(w)
      BY <1>0, <2>1, EndLife, Zenon
    <2>2. CASE WorkerPop(w) \/ TaskStart(w) \/ TaskEnd(w) \/ CountCompleted(w)
      <3>1. workers' = workers /\ closed' = closed /\ queue' = queue
        BY <2>2, Zenon DEF WorkerPop, TaskStart, TaskEnd, CountCompleted, Q!Pop, Q!Return, queueVars
      <3>2. at[w] \notin {"unborn", "exited"} /\ at'[w] \notin {"unborn", "exited"}
        BY <1>0, <1>1, <2>2 DEF WorkerPop, TaskStart, TaskEnd, CountCompleted, Goto, Typed
      <3>3. pc'[w] # "nullopt"
        <4>1. Q!Pop(w) \/ Q!Return(w) \/ (pc' = pc /\ at[w] \in {"run", "ran"})
          BY <2>2, Zenon DEF WorkerPop, TaskStart, TaskEnd, CountCompleted, queueVars
        <4>2. QED
          BY <1>0, <1>1, <4>1 DEF Q!Pop, Q!Return, Q!Goto, Typed, WorkerPlace
      <3>4. QED
        BY <1>0, <1>1, <1>2, <3>1, <3>2, <3>3, MoveLife, Zenon
    <2>3. QED
      BY <2>1, <2>2, Zenon
  <1>6. [Q!Next]_Q!vars
    <2>1. Q!Pop(w) \/ Q!Return(w) \/ UNCHANGED queueVars
      BY Zenon DEF WorkerPop, TaskStart, TaskEnd, CountCompleted, WorkerExit
    <2>2. QED
      BY <1>1, <2>1, Zenon DEF Q!Next, Q!vars, queueVars
  <1>7. QED
    BY <1>2, <1>3, <1>4, <1>5, <1>6, Zenon DEF Shape

\* The steps of submit and of joining.
LEMMA ClientShape ==
    ASSUME Q!TypeOK, Shape, NEW c \in Client,
           \/ \E k \in Task \cup {NoTask} : Submit(c, k)
           \/ SubmitPush(c) \/ SubmitAccepted(c) \/ SubmitUndone(c) \/ JoinLock(c) \/ JoinAll(c)
    PROVE  Shape' /\ [Q!Next]_Q!vars
  <1>0. Typed /\ PoolTyped /\ Places /\ Life /\ Joined
    BY ShapeFacts, Zenon
  <1>1. c \in Thread /\ c \notin Worker /\ ClientPlace(c)
    BY <1>0, PoolAssumption DEF Thread, Places
  <1>2. (\A u \in Thread \ {c} : Still(u)) /\ Places'
    BY <1>0, ClientPlaces, Zenon
  <1>3. PoolTyped'
    <2>1. at' \in [Thread -> Place]
      <3>1. at' = at \/ \E a \in {"submit", "pushing", "idle", "joining", "returned"} :
                            at' = [at EXCEPT ![c] = a]
        BY Zenon DEF Submit, SubmitPush, SubmitAccepted, SubmitUndone, JoinLock, JoinAll, Goto
      <3>2. QED
        BY <1>0, <3>1, Zenon DEF PoolTyped, Place
    <2>2. task' \in [Thread -> Task \cup {NoTask}]
      <3>1. task' = task \/ \E k \in Task \cup {NoTask} : task' = [task EXCEPT ![c] = k]
        BY Zenon DEF Submit, SubmitPush, SubmitAccepted, SubmitUndone, JoinLock, JoinAll
      <3>2. QED
        BY <1>0, <3>1, Zenon DEF PoolTyped
    <2>3. /\ workers' = workers \/ workers' = {}
          /\ UNCHANGED <<shuttingDown, completed, runs>>
      BY Zenon DEF Submit, SubmitPush, SubmitAccepted, SubmitUndone, JoinLock, JoinAll
    <2>4. QED
      BY <1>0, <2>1, <2>2, <2>3 DEF PoolTyped
  <1>4. Joined'
    <2>0. \A d \in Client : d # c => at'[d] = at[d]
      BY <1>2, Zenon DEF Still, Thread
    <2>1. CASE JoinLock(c)
      BY <1>0, <1>1, <2>0, <2>1 DEF JoinLock, Goto, Joined, Typed
    <2>2. CASE JoinAll(c)
      BY <1>0, <1>1, <2>0, <2>2 DEF JoinAll, Goto, Joined, Typed
    <2>3. CASE \/ \E k \in Task \cup {NoTask} : Submit(c, k)
               \/ SubmitPush(c) \/ SubmitAccepted(c) \/ SubmitUndone(c)
      <3>1. joinMutex' = joinMutex /\ at[c] # "joining"
        BY <2>3 DEF Submit, SubmitPush, SubmitAccepted, SubmitUndone
      <3>2. at' = at \/ \E a \in {"submit", "pushing", "idle"} : at' = [at EXCEPT ![c] = a]
        BY <2>3, Zenon DEF Submit, SubmitPush, SubmitAccepted, SubmitUndone, Goto
      <3>3. at'[c] # "joining"
        BY <1>0, <1>1, <3>1, <3>2 DEF Typed
      <3>4. QED
        BY <1>0, <2>0, <3>1, <3>3, JoinedKept, ZenonT(40)
    <2>4. QED
      BY <2>1, <2>2, <2>3, Zenon
  <1>5. Life'
    <2>1. CASE JoinAll(c)
      BY <1>0, <2>1, EndLife, Zenon
    <2>2. CASE \/ \E k \in Task \cup {NoTask} : Submit(c, k)
               \/ SubmitPush(c) \/ SubmitAccepted(c) \/ SubmitUndone(c) \/ JoinLock(c)
      <3>1. workers' = workers /\ closed' = closed /\ queue' = queue
        BY <2>2, Zenon DEF Submit, SubmitPush, SubmitAccepted, SubmitUndone, JoinLock, Q!Push,
           Q!Return, queueVars
      <3>2. Built
        <4>1. Built \/ at[c] \in {"submit", "pushing", "join"}
          BY <2>2, Zenon DEF Submit, SubmitPush, SubmitAccepted, SubmitUndone, JoinLock
        <4>2. QED
          BY <1>0, <4>1, UserBuilt
      <3>3. \/ at' = at /\ at[c] = "idle"
            \/ \E a \in {"submit", "pushing", "idle", "joining"} : at' = [at EXCEPT ![c] = a]
        BY <2>2, Zenon DEF Submit, SubmitPush, SubmitAccepted, SubmitUndone, JoinLock, Goto
      <3>4. at'[c] \notin {"construct", "abort", "threw", "returned"}
        BY <1>0, <1>1, <3>3 DEF Typed
      <3>5. QED
        BY <1>0, <1>1, <1>2, <3>1, <3>2, <3>4, MoveLife, Zenon
    <2>3. QED
      BY <2>1, <2>2, Zenon
  <1>6. [Q!Next]_Q!vars
    <2>1. (Q!Push(c, task[c]) /\ task[c] \in Task) \/ Q!Return(c) \/ UNCHANGED queueVars
      BY <1>1, Zenon DEF Submit, SubmitPush, SubmitAccepted, SubmitUndone, JoinLock, JoinAll, ClientPlace
    <2>2. QED
      BY <1>1, <2>1, Zenon DEF Q!Next, Q!vars, queueVars
  <1>7. QED
    BY <1>2, <1>3, <1>4, <1>5, <1>6, Zenon DEF Shape

\* The steps of shutdown up to the close.
LEMMA ShutdownShape ==
    ASSUME Q!TypeOK, Shape, NEW t \in Thread, Shutdown(t) \/ ShutdownClosed(t)
    PROVE  Shape' /\ [Q!Next]_Q!vars
  <1>0. Typed /\ PoolTyped /\ Places /\ Life /\ Joined
    BY ShapeFacts, Zenon
  <1>1. (\A u \in Thread \ {t} : Still(u)) /\ Places'
    BY <1>0, ShutdownPlaces, Zenon
  <1>2. /\ UNCHANGED <<task, workers, joinMutex, submitted, completed, runs>>
        /\ shuttingDown' \in {shuttingDown, TRUE}
        /\ Q!Close(t) \/ Q!Return(t) \/ UNCHANGED queueVars
    BY Zenon DEF Shutdown, ShutdownClosed
  <1>3. UNCHANGED <<queue, closed, pushed, popped>>
    BY <1>2, Zenon DEF Q!Close, Q!Return, queueVars
  <1>4. \E a \in {"closing", "run", "join"} : at' = [at EXCEPT ![t] = a] /\ (a = "run" => t \in Worker)
    BY Zenon DEF Shutdown, ShutdownClosed, AfterClose, Goto
  <1>5. at'[t] \in {"closing", "run", "join"}
    BY <1>0, <1>4 DEF Typed
  <1>6. PoolTyped'
    <2>1. at' \in [Thread -> Place]
      BY <1>0, <1>4, Zenon DEF PoolTyped, Place
    <2>2. QED
      BY <1>0, <1>2, <2>1, Zenon DEF PoolTyped
  <1>7. at[t] \in {"idle", "run", "closing"} /\ (t \in Client => (at[t] = "idle" /\ Built) \/ at[t] = "closing")
    BY PoolAssumption DEF Shutdown, ShutdownClosed
  <1>8. Joined'
    <2>1. \A c \in Client : c # t => at'[c] = at[c]
      BY <1>1, Zenon DEF Still, Thread
    <2>2. QED
      BY <1>0, <1>2, <1>5, <1>7, <2>1, JoinedKept
  <1>9. Life'
    <2>1. t \in Client => Built /\ at'[t] \notin {"construct", "abort", "threw", "returned"}
      BY <1>0, <1>5, <1>7, UserBuilt
    <2>2. t \in Worker => pc'[t] # "nullopt"
      <3>1. Q!Close(t) \/ Q!Return(t) \/ (pc' = pc /\ Shutdown(t))
        BY <1>2, Zenon DEF Shutdown, ShutdownClosed, queueVars
      <3>2. t \in Worker /\ Shutdown(t) => pc[t] = "idle"
        BY <1>0, PoolAssumption DEF Shutdown, Places, WorkerPlace
      <3>3. QED
        BY <1>0, <3>1, <3>2 DEF Q!Close, Q!Return, Q!Goto, Typed
    <2>3. at[t] \notin {"unborn", "exited"} /\ at'[t] \notin {"unborn", "exited"}
      BY <1>5, <1>7
    <2>4. QED
      BY <1>0, <1>1, <1>2, <1>3, <2>1, <2>2, <2>3, MoveLife, Zenon
  <1>10. [Q!Next]_Q!vars
    BY <1>2, Zenon DEF Q!Next, Q!vars, queueVars
  <1>11. QED
    BY <1>1, <1>6, <1>8, <1>9, <1>10, Zenon DEF Shape

\* The steps of the constructor.
LEMMA OwnerShape ==
    ASSUME Q!TypeOK, Shape, OwnerStep
    PROVE  Shape' /\ [Q!Next]_Q!vars
  <1>0. Typed /\ PoolTyped /\ Places /\ Life /\ Joined
    BY ShapeFacts, Zenon
  <1>1. PICK t \in Thread, a \in {"loop", "idle", "abort", "threw"} :
           /\ (\A u \in Thread \ {t} : Still(u)) /\ Places'
           /\ at' = [at EXCEPT ![t] = a] /\ at[t] \in {"unborn", "construct", "abort"}
    <2>1. CASE \E w \in Worker : Spawn(w)
      <3>1. PICK w \in Worker : Spawn(w)
        BY <2>1, Zenon
      <3>2. (\A u \in Thread \ {w} : Still(u)) /\ Places' /\ w \in Thread
        BY <1>0, <3>1, OwnerPlaces, Zenon DEF Thread
      <3>3. at' = [at EXCEPT ![w] = "loop"] /\ at[w] = "unborn"
        BY <3>1, Zenon DEF Spawn, Goto
      <3>4. QED
        BY <3>2, <3>3, Zenon
    <2>2. CASE Constructed \/ SpawnFails \/ Abort
      <3>1. (\A u \in Thread \ {Owner} : Still(u)) /\ Places' /\ Owner \in Thread
        BY <1>0, <2>2, OwnerPlaces, PoolAssumption, Zenon DEF Thread
      <3>2. /\ \E a \in {"idle", "abort", "threw"} : at' = [at EXCEPT ![Owner] = a]
            /\ at[Owner] \in {"construct", "abort"}
        BY <2>2, Zenon DEF Constructed, SpawnFails, Abort, Goto
      <3>3. QED
        BY <3>1, <3>2, Zenon
    <2>3. QED
      BY <2>1, <2>2, Zenon DEF OwnerStep
  <1>2. /\ UNCHANGED <<task, joinMutex, shuttingDown, submitted, completed, runs>>
        /\ workers' \in {workers, {}} \/ \E w \in Worker : workers' = workers \cup {w}
        /\ Q!Close(Owner) \/ Q!Return(Owner) \/ UNCHANGED queueVars
    BY Zenon DEF OwnerStep, Spawn, Constructed, SpawnFails, Abort
  <1>3. UNCHANGED <<queue, pushed, popped>>
    BY <1>2, Zenon DEF Q!Close, Q!Return, queueVars
  <1>4. PoolTyped'
    <2>1. at' \in [Thread -> Place]
      BY <1>0, <1>1, Zenon DEF PoolTyped, Place
    <2>2. workers' \subseteq Worker
      BY <1>0, <1>2 DEF PoolTyped
    <2>3. QED
      BY <1>0, <1>2, <2>1, <2>2, Zenon DEF PoolTyped
  <1>5. Joined'
    <2>1. at'[t] # "joining" /\ at[t] # "joining"
      BY <1>0, <1>1 DEF Typed
    <2>2. \A c \in Client : c # t => at'[c] = at[c]
      BY <1>1, Zenon DEF Still, Thread
    <2>3. QED
      BY <1>0, <1>2, <2>1, <2>2, JoinedKept, Zenon
  <1>6. Life'
    BY <1>0, ConstructLife, FailedLife, Zenon DEF OwnerStep
  <1>7. [Q!Next]_Q!vars
    BY <1>2, PoolAssumption, Zenon DEF Q!Next, Q!vars, queueVars, Thread
  <1>8. QED
    BY <1>1, <1>4, <1>5, <1>6, <1>7, Zenon DEF Shape

\* The steps inside the queue.
LEMMA QueueShape ==
    ASSUME Q!TypeOK, Shape, NEW t \in Thread, QueueStep(t) \/ QueueWake(t)
    PROVE  Shape' /\ [Q!Next]_Q!vars
  <1>0. Typed /\ PoolTyped /\ Places /\ Life /\ Joined /\ queue \in Seq(Task)
    BY ShapeFacts, Zenon
  <1>1. /\ UNCHANGED poolVars
        /\ UNCHANGED <<at, task, workers, shuttingDown, joinMutex, submitted, completed, runs>>
    BY Zenon DEF QueueStep, QueueWake, poolVars
  <1>2. PoolTyped'
    BY <1>0, <1>1, Zenon DEF PoolTyped
  <1>3. Joined'
    BY <1>0, <1>1, JoinedKept, Zenon
  <1>4. [Q!Next]_Q!vars
    BY Zenon DEF QueueStep, QueueWake, Q!Next
  <1>5. CASE Q!PushAccept(t)
    <2>1. t \in Client /\ at[t] = "pushing" /\ (\A u \in Thread \ {t} : Still(u)) /\ Places'
      BY <1>0, <1>1, <1>5, QueuePlaces, Zenon
    <2>2. item[t] \in Task
      BY <1>5 DEF Q!TypeOK, Q!PushAccept
    <2>3. Built /\ t \notin Worker
      BY <1>0, <2>1, UserBuilt, PoolAssumption
    <2>4. ~closed
      BY <1>5, Zenon DEF Q!PushAccept
    <2>5. Life'
      BY <1>0, <1>1, <2>1, <2>3, <2>4, MoveLife
    <2>6. QED
      BY <1>2, <1>3, <1>4, <2>1, <2>5, Zenon DEF Shape
  <1>6. CASE Q!PopTake(t)
    <2>1. t \in Worker /\ at[t] = "popping" /\ (\A u \in Thread \ {t} : Still(u)) /\ Places'
      BY <1>0, <1>1, <1>6, QueuePlaces, Zenon
    <2>2. queue # <<>> /\ pc'[t] = "notifyNotFull" /\ t \notin Client
      BY <1>0, <1>6, <2>1, PoolAssumption DEF Q!PopTake, Q!Goto, Typed
    <2>3. Life'
      BY <1>0, <1>1, <2>1, <2>2, MoveLife
    <2>4. QED
      BY <1>2, <1>3, <1>4, <2>1, <2>3, Zenon DEF Shape
  <1>7. CASE \/ Q!PushWait(t) \/ Q!PushRefuse(t) \/ Q!PushThrow(t) \/ Q!PushNotify(t)
             \/ Q!PopWait(t) \/ Q!PopEnd(t) \/ Q!PopNotify(t)
             \/ Q!CloseSet(t) \/ Q!CloseNotifyNotEmpty(t) \/ Q!CloseNotifyNotFull(t)
             \/ Q!SpuriousWake(t)
    <2>1. /\ UNCHANGED <<queue, item, pushed, popped>>
          /\ \A u \in Thread : Still(u)
          /\ closed => closed'
      BY <1>0, <1>1, <1>7, QuietStep, Zenon
    <2>2. Places'
      BY <1>0, <1>1, <2>1, QueuePlaces, Zenon
    <2>3. Life'
      BY <1>0, <1>1, <2>1, StillLife, Zenon
    <2>4. QED
      BY <1>2, <1>3, <1>4, <2>2, <2>3, Zenon DEF Shape
  <1>8. QED
    BY <1>5, <1>6, <1>7, Zenon DEF QueueStep, QueueWake, Q!Step

\* Every step keeps the pool's part of the invariant and uses the queue as the
\* queue allows.
LEMMA NextShape ==
    ASSUME Q!TypeOK, Shape, [Next]_vars
    PROVE  Shape' /\ [Q!Next]_Q!vars
  <1>1. ASSUME NEW w \in Worker, Shutdown(w) \/ WorkerStep(w)
        PROVE  Shape' /\ [Q!Next]_Q!vars
    <2>1. w \in Thread
      BY Zenon DEF Thread
    <2>2. QED
      BY <1>1, <2>1, WorkerShape, ShutdownShape, QueueShape, Zenon DEF WorkerStep
  <1>2. ASSUME NEW c \in Client,
               (\E k \in Task \cup {NoTask} : Submit(c, k)) \/ Shutdown(c) \/ ClientStep(c)
        PROVE  Shape' /\ [Q!Next]_Q!vars
    <2>1. c \in Thread
      BY Zenon DEF Thread
    <2>2. QED
      BY <1>2, <2>1, ClientShape, ShutdownShape, QueueShape, Zenon DEF ClientStep
  <1>3. CASE UNCHANGED vars
    <2>1. UNCHANGED queueVars /\ UNCHANGED poolVars
      BY <1>3, ZenonT(40) DEF vars
    <2>2. Shape'
      <3>1. UNCHANGED <<queue, closed, pc, item, at, task, workers, shuttingDown, joinMutex, completed, runs>>
        BY <2>1, Zenon DEF queueVars, poolVars
      <3>2. Places'
        BY <3>1, Zenon DEF Shape, Places, WorkerPlace, ClientPlace
      <3>3. Life'
        BY <3>1, Zenon DEF Shape, Life, Built
      <3>4. PoolTyped' /\ Joined'
        BY <3>1, Zenon DEF Shape, PoolTyped, Joined
      <3>5. QED
        BY <3>2, <3>3, <3>4, Zenon DEF Shape
    <2>3. QED
      BY <2>1, <2>2, Zenon DEF Q!vars, queueVars
  <1>4. QED
    BY <1>1, <1>2, <1>3, OwnerShape, QueueShape, Zenon DEF Next

-----------------------------------------------------------------------------
(* Counting *)

\* What the proofs use of finite sets and of counting in a sequence.  It is proved
\* under "The laws of counting" below, where FiniteSetTheorems is at hand.
OneMemberLaw(S, T, t) ==
    /\ (t \in S <=> t \in T) => T = S
    /\ t \notin S /\ t \in T => Cardinality(T) = Cardinality(S) + 1
    /\ t \in S /\ t \notin T => Cardinality(T) = Cardinality(S) - 1
    /\ Cardinality(S) \in Nat

CountingLaws ==
    /\ Cardinality({}) = 0
    /\ \A S : S \subseteq Thread => IsFiniteSet(S) /\ Cardinality(S) \in Nat
    /\ \A S, T, t : IsFiniteSet(S) /\ T \ {t} = S \ {t} => OneMemberLaw(S, T, t)
    /\ \A s \in Seq(Task), x \in Task, k \in Task :
         /\ Occurrences(s, k) \in Nat
         /\ x = k => Occurrences(Append(s, x), k) = Occurrences(s, k) + 1
         /\ x # k => Occurrences(Append(s, x), k) = Occurrences(s, k)
    /\ \A s \in Seq(Task), k \in Task :
         s # <<>> => /\ Head(s) = k => Occurrences(Tail(s), k) = Occurrences(s, k) - 1
                     /\ Head(s) # k => Occurrences(Tail(s), k) = Occurrences(s, k)

\* The sets that are counted are finite.
LEMMA CountedFinite ==
    ASSUME CountingLaws
    PROVE  /\ IsFiniteSet(Pending) /\ IsFiniteSet(Busy) /\ \A k : IsFiniteSet(Holding(k))
           /\ Cardinality(Pending) \in Nat /\ Cardinality(Busy) \in Nat
  <1>1. Pending \subseteq Thread /\ Busy \subseteq Thread /\ \A k : Holding(k) \subseteq Thread
    BY Zenon DEF Pending, Busy, Holding, Thread
  <1>2. QED
    BY <1>1, Zenon DEF CountingLaws

\* How often k occurs once x is appended.
LEMMA OccurrencesAppend ==
    ASSUME CountingLaws, NEW s \in Seq(Task), NEW x \in Task, NEW k \in Task
    PROVE  /\ Occurrences(s, k) \in Nat
           /\ x = k => Occurrences(Append(s, x), k) = Occurrences(s, k) + 1
           /\ x # k => Occurrences(Append(s, x), k) = Occurrences(s, k)
  BY Zenon DEF CountingLaws

\* How often k occurs once the head is removed.
LEMMA OccurrencesTail ==
    ASSUME CountingLaws, NEW s \in Seq(Task), s # <<>>, NEW k \in Task
    PROVE  /\ Head(s) = k => Occurrences(Tail(s), k) = Occurrences(s, k) - 1
           /\ Head(s) # k => Occurrences(Tail(s), k) = Occurrences(s, k)
  BY Zenon DEF CountingLaws

\* Sets that differ in one member at most have sizes that differ by one at most.
LEMMA OneMember ==
    ASSUME CountingLaws, NEW S, NEW T, NEW t, IsFiniteSet(S), T \ {t} = S \ {t}
    PROVE  /\ (t \in S <=> t \in T) => T = S
           /\ t \notin S /\ t \in T => Cardinality(T) = Cardinality(S) + 1
           /\ t \in S /\ t \notin T => Cardinality(T) = Cardinality(S) - 1
           /\ Cardinality(S) \in Nat
  BY Zenon DEF CountingLaws, OneMemberLaw

\* A step changes nothing of what is counted of thread u.
Calm(u) ==
    /\ u \in Pending' <=> u \in Pending
    /\ u \in Busy' <=> u \in Busy
    /\ \A k \in Task : u \in Holding(k)' <=> u \in Holding(k)

\* A thread that is not touched stays in the sets it is counted in.
LEMMA StillCalm ==
    ASSUME NEW u, Still(u)
    PROVE  Calm(u)
  BY Zenon DEF Still, Alike, Calm, Pending, Busy, Holding

\* A step that moves thread t alone, seen by the sets that are counted.
LEMMA OthersCalm ==
    ASSUME NEW t \in Thread, \A u \in Thread \ {t} : Still(u)
    PROVE  /\ Pending' \ {t} = Pending \ {t}
           /\ Busy' \ {t} = Busy \ {t}
           /\ \A k \in Task : Holding(k)' \ {t} = Holding(k) \ {t}
  <1>1. \A u \in Thread \ {t} : Calm(u)
    BY StillCalm, Zenon
  <1>2. /\ Pending \subseteq Thread /\ Busy \subseteq Thread
        /\ Pending' \subseteq Thread /\ Busy' \subseteq Thread
        /\ \A k \in Task : Holding(k) \subseteq Thread /\ Holding(k)' \subseteq Thread
    BY Zenon DEF Pending, Busy, Holding, Thread
  <1>3. QED
    BY <1>1, <1>2, Zenon DEF Calm

\* A step that moves thread t alone, by what it does to t.
LEMMA MoveCounts ==
    ASSUME CountingLaws, NEW t \in Thread, \A u \in Thread \ {t} : Still(u)
    PROVE  /\ Cardinality(Pending) \in Nat /\ Cardinality(Busy) \in Nat
           /\ \A k \in Task : Cardinality(Holding(k)) \in Nat
           /\ (t \in Pending <=> t \in Pending') => Pending' = Pending
           /\ t \notin Pending /\ t \in Pending' => Cardinality(Pending') = Cardinality(Pending) + 1
           /\ t \in Pending /\ t \notin Pending' => Cardinality(Pending') = Cardinality(Pending) - 1
           /\ (t \in Busy <=> t \in Busy') => Busy' = Busy
           /\ t \notin Busy /\ t \in Busy' => Cardinality(Busy') = Cardinality(Busy) + 1
           /\ t \in Busy /\ t \notin Busy' => Cardinality(Busy') = Cardinality(Busy) - 1
           /\ \A k \in Task :
                /\ (t \in Holding(k) <=> t \in Holding(k)') => Holding(k)' = Holding(k)
                /\ t \notin Holding(k) /\ t \in Holding(k)' =>
                     Cardinality(Holding(k)') = Cardinality(Holding(k)) + 1
                /\ t \in Holding(k) /\ t \notin Holding(k)' =>
                     Cardinality(Holding(k)') = Cardinality(Holding(k)) - 1
  <1>1. /\ Pending' \ {t} = Pending \ {t}
        /\ Busy' \ {t} = Busy \ {t}
        /\ \A k \in Task : Holding(k)' \ {t} = Holding(k) \ {t}
    BY OthersCalm, Zenon
  <1>2. IsFiniteSet(Pending) /\ IsFiniteSet(Busy) /\ \A k \in Task : IsFiniteSet(Holding(k))
    BY CountedFinite, Zenon
  <1>3. /\ Cardinality(Pending) \in Nat
        /\ (t \in Pending <=> t \in Pending') => Pending' = Pending
        /\ t \notin Pending /\ t \in Pending' => Cardinality(Pending') = Cardinality(Pending) + 1
        /\ t \in Pending /\ t \notin Pending' => Cardinality(Pending') = Cardinality(Pending) - 1
    BY <1>1, <1>2, OneMember, Zenon
  <1>4. /\ Cardinality(Busy) \in Nat
        /\ (t \in Busy <=> t \in Busy') => Busy' = Busy
        /\ t \notin Busy /\ t \in Busy' => Cardinality(Busy') = Cardinality(Busy) + 1
        /\ t \in Busy /\ t \notin Busy' => Cardinality(Busy') = Cardinality(Busy) - 1
    BY <1>1, <1>2, OneMember, Zenon
  <1>5. ASSUME NEW k \in Task
        PROVE  /\ Cardinality(Holding(k)) \in Nat
               /\ (t \in Holding(k) <=> t \in Holding(k)') => Holding(k)' = Holding(k)
               /\ t \notin Holding(k) /\ t \in Holding(k)' =>
                    Cardinality(Holding(k)') = Cardinality(Holding(k)) + 1
               /\ t \in Holding(k) /\ t \notin Holding(k)' =>
                    Cardinality(Holding(k)') = Cardinality(Holding(k)) - 1
    <2>1. IsFiniteSet(Holding(k)) /\ Holding(k)' \ {t} = Holding(k) \ {t}
      BY <1>1, <1>2, Zenon
    <2>2. QED
      BY <2>1, OneMember, Zenon
  <1>6. QED
    BY <1>3, <1>4, <1>5

\* A step that changes no count and leaves every thread calm.
LEMMA CalmCounts ==
    ASSUME CountingLaws, Counts, TasksOnce, NEW t \in Thread, \A u \in Thread \ {t} : Still(u), Calm(t),
           UNCHANGED <<queue, pushed, popped, submitted, completed, runs>>
    PROVE  Counts' /\ TasksOnce'
  <1>1. Pending' = Pending /\ Busy' = Busy /\ \A k \in Task : Holding(k)' = Holding(k)
    BY MoveCounts, Zenon DEF Calm
  <1>2. Counts'
    BY <1>1, Zenon DEF Counts
  <1>3. TasksOnce'
    BY <1>1, Zenon DEF TasksOnce, Occurrences
  <1>4. QED
    BY <1>2, <1>3, Zenon

\* A worker that picks up its result, before and after.
LEMMA Picked ==
    ASSUME Typed, NEW w \in Thread, WorkerPlace(w), TaskStart(w)
    PROVE  /\ at[w] = "popping" /\ pc[w] = "value" /\ task[w] = NoTask /\ item[w] \in Task
           /\ at'[w] = "run" /\ pc'[w] = "idle" /\ task'[w] = item[w]
  <1>1. at[w] = "popping" /\ pc[w] = "value" /\ task[w] = NoTask /\ item[w] \in Task
    BY Zenon DEF TaskStart, WorkerPlace
  <1>2. at' = [at EXCEPT ![w] = "run"] /\ pc' = [pc EXCEPT ![w] = "idle"] /\ task' = [task EXCEPT ![w] = item[w]]
    BY Zenon DEF TaskStart, Goto, Q!Return, Q!Goto
  <1>3. at'[w] = "run"
    BY <1>2, Zenon DEF Typed
  <1>4. pc'[w] = "idle"
    BY <1>2, Zenon DEF Typed
  <1>5. task'[w] = item[w]
    BY <1>2, Zenon DEF Typed
  <1>6. QED
    BY <1>1, <1>3, <1>4, <1>5, Zenon

\* The calm steps of worker_loop; a worker that picks up its result goes on
\* holding the task it took.
LEMMA WorkerCalm ==
    ASSUME Typed, NEW w \in Worker, w \notin Client, WorkerPlace(w),
           WorkerPop(w) \/ TaskStart(w) \/ WorkerExit(w)
    PROVE  Calm(w)
  <1>0. w \in Thread /\ w \notin Pending /\ w \notin Pending'
    BY Zenon DEF Thread, Pending
  <1>1. CASE WorkerPop(w)
    BY <1>0, <1>1, SMT, SMTT(30) DEF WorkerPop, Goto, Q!Pop, Q!Goto, Typed, WorkerPlace, Calm, Busy, Holding
  <1>2. CASE TaskStart(w)
    <2>1. /\ at[w] = "popping" /\ pc[w] = "value" /\ task[w] = NoTask /\ item[w] \in Task
          /\ at'[w] = "run" /\ pc'[w] = "idle" /\ task'[w] = item[w]
      BY <1>0, <1>2, Picked, Zenon
    <2>2. w \in Busy /\ w \in Busy'
      BY <2>1, Zenon DEF Busy
    <2>3. \A k \in Task : w \in Holding(k)' <=> w \in Holding(k)
      BY <2>1, PoolAssumption, Zenon DEF Holding
    <2>4. QED
      BY <1>0, <2>2, <2>3, Zenon DEF Calm
  <1>3. CASE WorkerExit(w)
    BY <1>0, <1>3 DEF WorkerExit, Goto, Q!Return, Q!Goto, Typed, WorkerPlace, Calm, Busy, Holding
  <1>4. QED
    BY <1>1, <1>2, <1>3

\* The calm steps of a client: all but those that begin and end a push.
LEMMA ClientCalm ==
    ASSUME Typed, NEW c \in Client, c \notin Worker, ClientPlace(c), at'[c] # "pushing",
           at[c] = "pushing" => pc[c] = "true"
    PROVE  Calm(c)
  BY Zenon DEF Calm, Pending, Busy, Holding

\* The calm steps of shutdown and of the constructor.
LEMMA ShutdownCalm ==
    ASSUME Typed, Places, NEW t \in Thread, Shutdown(t) \/ ShutdownClosed(t)
    PROVE  Calm(t)
  <1>1. CASE t \in Worker
    <2>1. t \notin Client /\ WorkerPlace(t)
      BY <1>1, PoolAssumption, Zenon DEF Places
    <2>2. at[t] \in {"run", "closing"} /\ pc[t] \in {"idle", "void"}
      BY <1>1, <2>1, Zenon DEF Shutdown, ShutdownClosed, WorkerPlace
    <2>3. at'[t] \in {"run", "closing"} /\ pc'[t] \in {"idle", "close"} /\ task' = task
      BY <1>1, <2>1, <2>2, SMT, SMTT(30) DEF Shutdown, ShutdownClosed, AfterClose, Goto, Q!Return, Q!Close, Q!Goto,
         Typed, WorkerPlace, queueVars
    <2>4. QED
      BY <1>1, <2>1, <2>2, <2>3, Zenon DEF Calm, Pending, Busy, Holding
  <1>2. CASE t \in Client
    <2>1. t \notin Worker /\ ClientPlace(t)
      BY <1>2, PoolAssumption, Zenon DEF Places
    <2>2. at'[t] # "pushing" /\ at[t] # "pushing"
      BY <1>2, <2>1 DEF Shutdown, ShutdownClosed, AfterClose, Goto, Typed
    <2>3. QED
      BY <1>2, <2>1, <2>2, ClientCalm, Zenon
  <1>3. QED
    BY <1>1, <1>2, Zenon DEF Thread

\* Building a pool moves no thread into or out of the sets that are counted.
LEMMA OwnerCalm ==
    ASSUME Typed, Places
    PROVE  /\ \A w \in Worker : Spawn(w) => Calm(w)
           /\ Constructed \/ SpawnFails \/ Abort => Calm(Owner)
  <1>1. ASSUME NEW w \in Worker, Spawn(w) PROVE Calm(w)
    <2>1. w \in Thread /\ w \notin Client /\ WorkerPlace(w)
      BY PoolAssumption DEF Thread, Places
    <2>2. QED
      BY <1>1, <2>1 DEF Spawn, Goto, queueVars, Typed, WorkerPlace, Calm, Pending, Busy, Holding
  <1>2. ASSUME Constructed \/ SpawnFails \/ Abort PROVE Calm(Owner)
    <2>1. Owner \in Client /\ Owner \in Thread /\ Owner \notin Worker /\ ClientPlace(Owner)
      BY PoolAssumption DEF Thread, Places
    <2>2. at'[Owner] # "pushing" /\ at[Owner] # "pushing"
      BY <1>2, <2>1 DEF Constructed, SpawnFails, Abort, Goto, Typed
    <2>3. QED
      BY <2>1, <2>2, ClientCalm
  <1>3. QED
    BY <1>1, <1>2, SMT, SMTT(30)

\* submit counts, then pushes, and takes the count back if the push fails.
LEMMA SubmitCounts ==
    ASSUME CountingLaws, Typed, Places, Counts, TasksOnce, submitted \in Nat, pushed \in Seq(Task),
           NEW c \in Client, SubmitPush(c) \/ SubmitUndone(c)
    PROVE  Counts' /\ TasksOnce'
  <1>0. c \in Thread /\ c \notin Worker /\ ClientPlace(c)
    BY PoolAssumption DEF Thread, Places
  <1>1. \A u \in Thread \ {c} : Still(u)
    BY ClientPlaces, Zenon
  <1>2. c \notin Busy /\ c \notin Busy' /\ \A k \in Task : c \notin Holding(k) /\ c \notin Holding(k)'
    BY <1>0, Zenon DEF Busy, Holding
  <1>3. UNCHANGED <<queue, pushed, popped, completed, runs>>
    BY Zenon DEF SubmitPush, SubmitUndone, Q!Push, Q!Return
  <1>4. Busy' = Busy /\ \A k \in Task : Holding(k)' = Holding(k)
    BY <1>0, <1>1, <1>2, MoveCounts, Zenon
  <1>5. TasksOnce'
    BY <1>3, <1>4, Zenon DEF TasksOnce, Occurrences
  <1>6. CASE SubmitPush(c)
    <2>1. c \notin Pending
      BY <1>0, <1>6, Zenon DEF SubmitPush, Pending
    <2>2. c \in Pending'
      BY <1>0, <1>6 DEF SubmitPush, Goto, Q!Push, Q!Goto, Typed, Pending
    <2>3. Cardinality(Pending') = Cardinality(Pending) + 1 /\ Cardinality(Pending) \in Nat
      BY <1>0, <1>1, <2>1, <2>2, MoveCounts, Zenon
    <2>4. submitted' = submitted + 1
      BY <1>6, Zenon DEF SubmitPush
    <2>5. Len(pushed) \in Nat
      OBVIOUS
    <2>6. Counts'
      BY <1>3, <1>4, <2>3, <2>4, <2>5, SMT, SMTT(30) DEF Counts
    <2>7. QED
      BY <1>5, <2>6, Zenon
  <1>7. CASE SubmitUndone(c)
    <2>1. c \in Pending
      BY <1>0, <1>7, Zenon DEF SubmitUndone, Pending
    <2>2. c \notin Pending'
      BY <1>0, <1>7 DEF SubmitUndone, Goto, Typed, Pending
    <2>3. Cardinality(Pending') = Cardinality(Pending) - 1 /\ Cardinality(Pending) \in Nat
      BY <1>0, <1>1, <2>1, <2>2, MoveCounts, Zenon
    <2>4. submitted' = submitted - 1
      BY <1>7, Zenon DEF SubmitUndone
    <2>5. Len(pushed) \in Nat
      OBVIOUS
    <2>6. Counts'
      BY <1>3, <1>4, <2>3, <2>4, <2>5, SMT, SMTT(30) DEF Counts
    <2>7. QED
      BY <1>5, <2>6, Zenon
  <1>8. QED
    BY <1>6, <1>7, Zenon

\* The push that is accepted was pending, and its task is now queued.
LEMMA AcceptCounts ==
    ASSUME CountingLaws, Typed, Places, Counts, TasksOnce, submitted \in Nat,
           queue \in Seq(Task), pushed \in Seq(Task), runs \in [Task -> Nat],
           NEW c \in Thread, Q!PushAccept(c), item[c] \in Task, UNCHANGED poolVars
    PROVE  Counts' /\ TasksOnce'
  <1>0. c \in Client /\ c \notin Worker /\ at[c] = "pushing" /\ \A u \in Thread \ {c} : Still(u)
    BY QueuePlaces, PoolAssumption, Zenon
  <1>1. c \notin Busy /\ c \notin Busy' /\ \A k \in Task : c \notin Holding(k) /\ c \notin Holding(k)'
    BY <1>0, Zenon DEF Busy, Holding
  <1>2. UNCHANGED <<popped, at, submitted, completed, runs>>
    BY Zenon DEF Q!PushAccept, poolVars
  <1>3. Busy' = Busy /\ \A k \in Task : Holding(k)' = Holding(k)
    BY <1>0, <1>1, MoveCounts, Zenon
  <1>4. c \in Pending
    BY <1>0 DEF Q!PushAccept, Pending
  <1>5. c \notin Pending'
    BY <1>0 DEF Q!PushAccept, Q!Goto, Typed, Pending
  <1>6. Cardinality(Pending') = Cardinality(Pending) - 1 /\ Cardinality(Pending) \in Nat
    BY <1>0, <1>1, <1>4, <1>5, MoveCounts, Zenon
  <1>7. Counts'
    <2>1. Len(pushed) \in Nat /\ Len(pushed') = Len(pushed) + 1
      BY DEF Q!PushAccept
    <2>2. QED
      BY <1>2, <1>3, <1>6, <2>1, SMT, SMTT(30) DEF Counts
  <1>8. TasksOnce'
    <2>1. SUFFICES ASSUME NEW k \in Task
                   PROVE  Occurrences(pushed', k) =
                             Occurrences(queue', k) + Cardinality(Holding(k)) + runs[k]
      BY <1>2, <1>3, Zenon DEF TasksOnce, Occurrences
    <2>2. Occurrences(pushed, k) = Occurrences(queue, k) + Cardinality(Holding(k)) + runs[k]
      BY Zenon DEF TasksOnce
    <2>3. queue' = Append(queue, item[c]) /\ pushed' = Append(pushed, item[c])
      BY Zenon DEF Q!PushAccept
    <2>4. Cardinality(Holding(k)) \in Nat /\ runs[k] \in Nat
      BY <1>0, MoveCounts, Zenon
    <2>5. Occurrences(queue, k) \in Nat /\ Occurrences(pushed, k) \in Nat
      BY OccurrencesAppend, Zenon
    <2>6. CASE item[c] = k
      <3>1. /\ Occurrences(queue', k) = Occurrences(queue, k) + 1
            /\ Occurrences(pushed', k) = Occurrences(pushed, k) + 1
        BY <2>3, <2>6, OccurrencesAppend, Zenon
      <3>2. QED
        BY <2>2, <2>4, <2>5, <3>1, SMT, SMTT(30)
    <2>7. CASE item[c] # k
      <3>1. /\ Occurrences(queue', k) = Occurrences(queue, k)
            /\ Occurrences(pushed', k) = Occurrences(pushed, k)
        BY <2>3, <2>7, OccurrencesAppend, Zenon
      <3>2. QED
        BY <2>2, <3>1, Zenon
    <2>8. QED
      BY <2>6, <2>7, Zenon
  <1>9. QED
    BY <1>7, <1>8, Zenon

\* The worker that takes a task is busy with it, and the task leaves the queue.
LEMMA TakeCounts ==
    ASSUME CountingLaws, Typed, Places, Counts, TasksOnce, completed \in Nat,
           queue \in Seq(Task), popped \in Seq(Task), runs \in [Task -> Nat],
           NEW w \in Thread, Q!PopTake(w), UNCHANGED poolVars
    PROVE  Counts' /\ TasksOnce'
  <1>0. w \in Worker /\ w \notin Client /\ at[w] = "popping" /\ \A u \in Thread \ {w} : Still(u)
    BY QueuePlaces, PoolAssumption, Zenon
  <1>1. WorkerPlace(w) /\ w \notin Pending /\ w \notin Pending'
    BY <1>0, Zenon DEF Places, Pending
  <1>2. UNCHANGED <<pushed, at, task, submitted, completed, runs>>
    BY Zenon DEF Q!PopTake, poolVars
  <1>3. Pending' = Pending
    BY <1>1, <1>0, MoveCounts, Zenon
  <1>4. w \notin Busy /\ \A k \in Task : w \notin Holding(k)
    BY <1>0, <1>1, PoolAssumption, Zenon DEF Q!PopTake, WorkerPlace, Busy, Holding
  <1>5. w \in Busy' /\ \A k \in Task : w \in Holding(k)' <=> Head(queue) = k
    BY <1>0, <1>1, <1>2, PoolAssumption, SMT, SMTT(30) DEF Q!PopTake, Q!Goto, Typed, WorkerPlace, Busy, Holding
  <1>6. Cardinality(Busy') = Cardinality(Busy) + 1 /\ Cardinality(Busy) \in Nat
    BY <1>0, <1>4, <1>5, MoveCounts, Zenon
  <1>7. Counts'
    <2>1. Len(popped) \in Nat /\ Len(popped') = Len(popped) + 1
      BY DEF Q!PopTake
    <2>2. QED
      BY <1>2, <1>3, <1>6, <2>1, SMT, SMTT(30) DEF Counts
  <1>8. TasksOnce'
    <2>1. SUFFICES ASSUME NEW k \in Task
                   PROVE  Occurrences(pushed, k) =
                             Occurrences(queue', k) + Cardinality(Holding(k)') + runs[k]
      BY <1>2, Zenon DEF TasksOnce, Occurrences
    <2>2. Occurrences(pushed, k) = Occurrences(queue, k) + Cardinality(Holding(k)) + runs[k]
      BY Zenon DEF TasksOnce
    <2>3. queue # <<>> /\ queue' = Tail(queue)
      BY Zenon DEF Q!PopTake
    <2>4. Cardinality(Holding(k)) \in Nat /\ runs[k] \in Nat
      BY <1>0, MoveCounts, Zenon
    <2>5. Occurrences(queue, k) \in Nat
      BY OccurrencesAppend, Zenon
    <2>6. CASE Head(queue) = k
      <3>1. Occurrences(queue', k) = Occurrences(queue, k) - 1
        BY <2>3, <2>6, OccurrencesTail, Zenon
      <3>2. Cardinality(Holding(k)') = Cardinality(Holding(k)) + 1
        BY <1>0, <1>4, <1>5, <2>6, MoveCounts, Zenon
      <3>3. QED
        BY <2>2, <2>4, <2>5, <3>1, <3>2, SMT, SMTT(30)
    <2>7. CASE Head(queue) # k
      <3>1. Occurrences(queue', k) = Occurrences(queue, k)
        BY <2>3, <2>7, OccurrencesTail, Zenon
      <3>2. Holding(k)' = Holding(k)
        BY <1>0, <1>4, <1>5, <2>7, MoveCounts, Zenon
      <3>3. QED
        BY <2>2, <3>1, <3>2, Zenon
    <2>8. QED
      BY <2>6, <2>7, Zenon
  <1>9. QED
    BY <1>7, <1>8, Zenon

\* The task that a worker ends is one execution more and one task held less.
LEMMA EndCounts ==
    ASSUME CountingLaws, Typed, Places, Counts, TasksOnce, runs \in [Task -> Nat], queue \in Seq(Task),
           NEW w \in Worker, TaskEnd(w)
    PROVE  Counts' /\ TasksOnce'
  <1>0. w \in Thread /\ w \notin Client /\ WorkerPlace(w) /\ at[w] = "run"
    BY PoolAssumption DEF Thread, Places, TaskEnd
  <1>1. (\A u \in Thread \ {w} : Still(u)) /\ w \notin Pending /\ w \notin Pending'
    BY <1>0, WorkerPlaces, Zenon DEF Pending
  <1>2. /\ UNCHANGED <<queue, pushed, popped, pc, item, submitted, completed>>
        /\ task[w] \in Task /\ pc[w] = "idle"
        /\ at'[w] = "ran" /\ task'[w] = NoTask /\ runs' = [runs EXCEPT ![task[w]] = @ + 1]
    BY <1>0 DEF TaskEnd, Goto, queueVars, WorkerPlace, Typed
  <1>3. Pending' = Pending
    BY <1>0, <1>1, MoveCounts, ZenonT(40)
  <1>4. w \in Busy /\ w \in Busy'
    BY <1>0, <1>2, Zenon DEF Busy
  <1>5. \A k \in Task : (w \in Holding(k) <=> task[w] = k) /\ w \notin Holding(k)'
    BY <1>2, PoolAssumption DEF Holding
  <1>6. Counts'
    <2>1. Busy' = Busy
      BY <1>0, <1>1, <1>4, MoveCounts, Zenon
    <2>2. QED
      BY <1>2, <1>3, <2>1, Zenon DEF Counts
  <1>7. TasksOnce'
    <2>1. SUFFICES ASSUME NEW k \in Task
                   PROVE  Occurrences(pushed, k) =
                             Occurrences(queue, k) + Cardinality(Holding(k)') + runs'[k]
      BY <1>2, Zenon DEF TasksOnce, Occurrences
    <2>2. Occurrences(pushed, k) = Occurrences(queue, k) + Cardinality(Holding(k)) + runs[k]
      BY Zenon DEF TasksOnce
    <2>3. Cardinality(Holding(k)) \in Nat /\ runs[k] \in Nat /\ Occurrences(queue, k) \in Nat
      BY <1>0, <1>1, <1>2, MoveCounts, OccurrencesAppend, Zenon
    <2>4. CASE task[w] = k
      <3>1. Cardinality(Holding(k)') = Cardinality(Holding(k)) - 1
        BY <1>0, <1>1, <1>5, <2>4, MoveCounts, Zenon
      <3>2. runs'[k] = runs[k] + 1
        BY <1>2, <2>4, Zenon
      <3>3. QED
        BY <2>2, <2>3, <3>1, <3>2, SMT, SMTT(30)
    <2>5. CASE task[w] # k
      <3>1. Holding(k)' = Holding(k)
        BY <1>0, <1>1, <1>5, <2>5, MoveCounts, Zenon
      <3>2. runs'[k] = runs[k]
        BY <1>2, <2>5, Zenon
      <3>3. QED
        BY <2>2, <3>1, <3>2, Zenon
    <2>6. QED
      BY <2>4, <2>5, Zenon
  <1>8. QED
    BY <1>6, <1>7, Zenon

\* The worker that has counted its task is busy no longer.
LEMMA CompleteCounts ==
    ASSUME CountingLaws, Typed, Places, Counts, TasksOnce, completed \in Nat, popped \in Seq(Task),
           NEW w \in Worker, CountCompleted(w)
    PROVE  Counts' /\ TasksOnce'
  <1>0. w \in Thread /\ w \notin Client /\ WorkerPlace(w) /\ at[w] = "ran"
    BY PoolAssumption DEF Thread, Places, CountCompleted
  <1>1. (\A u \in Thread \ {w} : Still(u)) /\ w \notin Pending /\ w \notin Pending'
    BY <1>0, WorkerPlaces, Zenon DEF Pending
  <1>2. /\ UNCHANGED <<queue, pushed, popped, pc, item, task, submitted, runs>>
        /\ pc[w] = "idle" /\ task[w] = NoTask /\ at'[w] = "loop" /\ completed' = completed + 1
    BY <1>0, SMT, SMTT(30) DEF CountCompleted, Goto, queueVars, WorkerPlace, Typed
  <1>3. w \in Busy /\ w \notin Busy' /\ \A k \in Task : w \notin Holding(k) /\ w \notin Holding(k)'
    BY <1>0, <1>2, PoolAssumption DEF Busy, Holding
  <1>4. Pending' = Pending /\ \A k \in Task : Holding(k)' = Holding(k)
    BY <1>0, <1>1, <1>3, MoveCounts, Zenon
  <1>5. Cardinality(Busy') = Cardinality(Busy) - 1 /\ Cardinality(Busy) \in Nat
    BY <1>0, <1>1, <1>3, MoveCounts, Zenon
  <1>6. Len(popped) \in Nat
    OBVIOUS
  <1>7. Counts'
    BY <1>2, <1>4, <1>5, <1>6, SMT, SMTT(30) DEF Counts
  <1>8. TasksOnce'
    BY <1>2, <1>4, Zenon DEF TasksOnce, Occurrences
  <1>9. QED
    BY <1>7, <1>8, Zenon

\* Every step keeps the counts.
LEMMA InvFacts ==
    ASSUME CountingLaws, IInv
    PROVE  /\ Typed /\ PoolTyped /\ Places /\ Life /\ Joined /\ Counts /\ TasksOnce
           /\ queue \in Seq(Task) /\ pushed \in Seq(Task) /\ popped \in Seq(Task)
           /\ submitted \in Nat
  <1>1. /\ Typed /\ PoolTyped /\ Places /\ Life /\ Joined /\ Counts /\ TasksOnce
        /\ queue \in Seq(Task) /\ pushed \in Seq(Task) /\ popped \in Seq(Task)
    BY ShapeFacts, Zenon DEF IInv
  <1>2. submitted \in Nat
    <2>1. Cardinality(Pending) \in Nat
      BY CountedFinite, Zenon
    <2>2. Len(pushed) \in Nat
      BY <1>1
    <2>3. QED
      BY <1>1, <2>1, <2>2 DEF Counts
  <1>3. QED
    BY <1>1, <1>2, Zenon

\* A worker hands a task from the queue to running to counted.
LEMMA WorkerCounts ==
    ASSUME CountingLaws, IInv, NEW w \in Worker,
           WorkerPop(w) \/ TaskStart(w) \/ TaskEnd(w) \/ CountCompleted(w) \/ WorkerExit(w)
    PROVE  Counts' /\ TasksOnce'
  <1>0. /\ Typed /\ PoolTyped /\ Places /\ Counts /\ TasksOnce
        /\ queue \in Seq(Task) /\ popped \in Seq(Task)
    BY InvFacts, Zenon
  <1>1. CASE WorkerPop(w) \/ TaskStart(w) \/ WorkerExit(w)
    <2>1. UNCHANGED <<queue, pushed, popped, submitted, completed, runs>>
      BY <1>1, Zenon DEF WorkerPop, TaskStart, WorkerExit, Q!Pop, Q!Return
    <2>2. w \in Thread /\ w \notin Client /\ WorkerPlace(w)
      BY <1>0, PoolAssumption DEF Thread, Places
    <2>3. (\A u \in Thread \ {w} : Still(u)) /\ Calm(w)
      BY <1>0, <1>1, <2>2, WorkerPlaces, WorkerCalm, Zenon
    <2>4. QED
      BY <1>0, <2>1, <2>2, <2>3, CalmCounts, Zenon
  <1>2. CASE TaskEnd(w)
    BY <1>0, <1>2, EndCounts, Zenon DEF PoolTyped
  <1>3. CASE CountCompleted(w)
    BY <1>0, <1>3, CompleteCounts, Zenon DEF PoolTyped
  <1>4. QED
    BY <1>1, <1>2, <1>3, Zenon

\* A caller of submit counts its task before the push, and takes it back when the
\* push is refused.
LEMMA ClientCounts ==
    ASSUME CountingLaws, IInv, NEW c \in Client,
           \/ \E k \in Task \cup {NoTask} : Submit(c, k)
           \/ SubmitPush(c) \/ SubmitAccepted(c) \/ SubmitUndone(c) \/ JoinLock(c) \/ JoinAll(c)
    PROVE  Counts' /\ TasksOnce'
  <1>0. Typed /\ Places /\ Counts /\ TasksOnce /\ pushed \in Seq(Task) /\ submitted \in Nat
    BY InvFacts, Zenon
  <1>1. CASE SubmitPush(c) \/ SubmitUndone(c)
    BY <1>0, <1>1, SubmitCounts, Zenon
  <1>2. CASE (\E k \in Task \cup {NoTask} : Submit(c, k)) \/ SubmitAccepted(c) \/ JoinLock(c) \/ JoinAll(c)
    <2>1. UNCHANGED <<queue, pushed, popped, submitted, completed, runs>>
      BY <1>2, ZenonT(40) DEF Submit, SubmitAccepted, JoinLock, JoinAll, Q!Return, queueVars
    <2>2. at[c] = "pushing" => pc[c] = "true"
      BY <1>2 DEF Submit, SubmitAccepted, JoinLock, JoinAll
    <2>3. \/ at' = at /\ at[c] = "idle"
          \/ \E a \in {"submit", "idle", "joining", "returned"} : at' = [at EXCEPT ![c] = a]
      BY <1>2, Zenon DEF Submit, SubmitAccepted, JoinLock, JoinAll, Goto
    <2>4. c \in Thread /\ c \notin Worker /\ ClientPlace(c)
      BY <1>0, PoolAssumption, SMT, SMTT(30) DEF Thread, Places
    <2>5. at'[c] # "pushing"
      BY <1>0, <2>3, <2>4 DEF Typed
    <2>6. (\A u \in Thread \ {c} : Still(u)) /\ Calm(c)
      BY <1>0, <2>2, <2>4, <2>5, ClientPlaces, ClientCalm, Zenon
    <2>7. QED
      BY <1>0, <2>1, <2>4, <2>6, CalmCounts, Zenon
  <1>3. QED
    BY <1>1, <1>2, Zenon

\* shutdown closes the queue and counts nothing.
LEMMA ShutdownCounts ==
    ASSUME CountingLaws, IInv, NEW t \in Thread, Shutdown(t) \/ ShutdownClosed(t)
    PROVE  Counts' /\ TasksOnce'
  <1>0. Typed /\ Places /\ Counts /\ TasksOnce
    BY InvFacts, Zenon
  <1>1. (\A u \in Thread \ {t} : Still(u)) /\ Calm(t)
    BY <1>0, ShutdownPlaces, ShutdownCalm, Zenon
  <1>2. UNCHANGED <<queue, pushed, popped, submitted, completed, runs>>
    BY Zenon DEF Shutdown, ShutdownClosed, Q!Close, Q!Return, queueVars
  <1>3. QED
    BY <1>0, <1>1, <1>2, CalmCounts, Zenon

\* Building a pool counts nothing.
LEMMA OwnerCounts ==
    ASSUME CountingLaws, IInv, OwnerStep
    PROVE  Counts' /\ TasksOnce'
  <1>0. Typed /\ Places /\ Counts /\ TasksOnce
    BY InvFacts, Zenon
  <1>1. PICK t \in Thread : (\A u \in Thread \ {t} : Still(u)) /\ Calm(t)
    BY <1>0, OwnerPlaces, OwnerCalm, PoolAssumption, Zenon DEF OwnerStep, Thread
  <1>2. UNCHANGED <<queue, pushed, popped, submitted, completed, runs>>
    BY Zenon DEF OwnerStep, Spawn, Constructed, SpawnFails, Abort, Q!Close, Q!Return, queueVars
  <1>3. QED
    BY <1>0, <1>1, <1>2, CalmCounts, Zenon

\* Inside the queue a task moves from the caller's hands to the queue, or from the
\* queue to a worker's.
LEMMA QueueCounts ==
    ASSUME CountingLaws, IInv, NEW t \in Thread, QueueStep(t) \/ QueueWake(t)
    PROVE  Counts' /\ TasksOnce'
  <1>0. /\ Typed /\ PoolTyped /\ Places /\ Counts /\ TasksOnce
        /\ queue \in Seq(Task) /\ pushed \in Seq(Task) /\ popped \in Seq(Task) /\ submitted \in Nat
    BY InvFacts, Zenon
  <1>1. UNCHANGED poolVars /\ UNCHANGED <<at, task, submitted, completed, runs>>
    BY Zenon DEF QueueStep, QueueWake, poolVars
  <1>2. CASE Q!PushAccept(t)
    <2>1. item[t] \in Task
      BY <1>2 DEF IInv, Q!TypeOK, Q!PushAccept
    <2>2. QED
      BY <1>0, <1>1, <1>2, <2>1, AcceptCounts, Zenon DEF PoolTyped
  <1>3. CASE Q!PopTake(t)
    BY <1>0, <1>1, <1>3, TakeCounts, Zenon DEF PoolTyped
  <1>4. CASE \/ Q!PushWait(t) \/ Q!PushRefuse(t) \/ Q!PushThrow(t) \/ Q!PushNotify(t)
             \/ Q!PopWait(t) \/ Q!PopEnd(t) \/ Q!PopNotify(t)
             \/ Q!CloseSet(t) \/ Q!CloseNotifyNotEmpty(t) \/ Q!CloseNotifyNotFull(t)
             \/ Q!SpuriousWake(t)
    <2>1. UNCHANGED <<queue, pushed, popped>> /\ \A u \in Thread : Still(u)
      BY <1>0, <1>1, <1>4, QuietStep, Zenon
    <2>2. QED
      BY <1>0, <1>1, <2>1, StillCalm, CalmCounts, Zenon
  <1>5. QED
    BY <1>2, <1>3, <1>4, Zenon DEF QueueStep, QueueWake, Q!Step

\* Every step keeps the counts, and every task in one place.
LEMMA NextCounts ==
    ASSUME CountingLaws, IInv, [Next]_vars
    PROVE  Counts' /\ TasksOnce'
  <1>1. Worker \subseteq Thread /\ Client \subseteq Thread
    BY Zenon DEF Thread
  <1>2. ASSUME NEW w \in Worker, Shutdown(w) \/ WorkerStep(w)
        PROVE  Counts' /\ TasksOnce'
    BY <1>1, <1>2, WorkerCounts, ShutdownCounts, QueueCounts, Zenon DEF WorkerStep
  <1>3. ASSUME NEW c \in Client,
               (\E k \in Task \cup {NoTask} : Submit(c, k)) \/ Shutdown(c) \/ ClientStep(c)
        PROVE  Counts' /\ TasksOnce'
    BY <1>1, <1>3, ClientCounts, ShutdownCounts, QueueCounts, Zenon DEF ClientStep
  <1>4. CASE UNCHANGED vars
    <2>1. /\ UNCHANGED <<queue, pushed, popped, pc, item>>
          /\ UNCHANGED <<at, task, submitted, completed, runs>>
      BY <1>4, Zenon DEF vars, queueVars, poolVars
    <2>2. QED
      BY <2>1, InvFacts, Zenon DEF Counts, Pending, Busy, TasksOnce, Holding, Occurrences
  <1>5. QED
    BY <1>2, <1>3, <1>4, OwnerCounts, QueueCounts, Zenon DEF Next

-----------------------------------------------------------------------------
(* What the invariant says *)

\* The invariant gives the types,
LEMMA InvTypeOK ==
    ASSUME CountingLaws, IInv
    PROVE  TypeOK
  <1>0. /\ PoolTyped /\ Places /\ Joined /\ submitted \in Nat
    BY InvFacts, Zenon
  <1>1. at \in [Thread -> Place]
    BY <1>0, Zenon DEF PoolTyped
  <1>2. \A t \in Thread : pc[t] # "idle" => at[t] \in {"pushing", "popping", "closing", "abort"}
    BY <1>0, Zenon DEF Places, WorkerPlace, ClientPlace, Thread
  <1>3. QED
    BY <1>0, <1>1, <1>2, Zenon DEF TypeOK, IInv, PoolTyped, Joined, Place

\* What has been pushed, by number.
LEMMA InvLengths ==
    ASSUME CountingLaws, IInv
    PROVE  /\ Len(popped) \in Nat /\ Len(queue) \in Nat /\ completed \in Nat
           /\ submitted = Len(popped) + Len(queue) + Cardinality(Pending)
           /\ Len(popped) = completed + Cardinality(Busy)
           /\ Cardinality(Pending) \in Nat /\ Cardinality(Busy) \in Nat
  <1>0. /\ Counts /\ PoolTyped /\ queue \in Seq(Task) /\ popped \in Seq(Task)
    BY InvFacts, Zenon
  <1>1. Cardinality(Pending) \in Nat /\ Cardinality(Busy) \in Nat
    BY CountedFinite, Zenon
  <1>2. pushed = popped \o queue
    BY Zenon DEF IInv, Q!FifoExactlyOnce
  <1>3. Len(pushed) = Len(popped) + Len(queue) /\ Len(popped) \in Nat /\ Len(queue) \in Nat
    BY <1>0, <1>2
  <1>4. QED
    BY <1>0, <1>1, <1>3, Zenon DEF Counts, PoolTyped

\* the order of the two counters,
LEMMA InvCounters ==
    ASSUME CountingLaws, IInv
    PROVE  CompletedAtMostSubmitted
  BY InvLengths DEF CompletedAtMostSubmitted

\* and, once shutdown has returned, that nothing accepted is left.
LEMMA InvDrained ==
    ASSUME CountingLaws, IInv
    PROVE  DrainedAtReturn
  <1> SUFFICES ASSUME NEW c \in Client, at[c] = "returned"
               PROVE  /\ \A k \in Task : runs[k] = Occurrences(pushed, k)
                      /\ \A w \in Worker : at[w] = "exited"
                      /\ submitted - completed = Cardinality(Pending)
    BY Zenon DEF DrainedAtReturn, Pending
  <1>0. PoolTyped /\ Places /\ Life /\ TasksOnce
    BY InvFacts, Zenon
  <1>1. \A w \in Worker : at[w] = "exited"
    BY <1>0, Zenon DEF Life
  <1>2. queue = <<>>
    <2>1. PICK w \in Worker : TRUE
      BY PoolAssumption, SMT, SMTT(30)
    <2>2. QED
      BY <1>0, <1>1, <2>1, Zenon DEF Life
  <1>3. \A w \in Worker : task[w] = NoTask /\ pc[w] = "idle"
    BY <1>0, <1>1, SMT, SMTT(30) DEF Places, WorkerPlace
  <1>4. Busy = {} /\ \A k \in Task : Holding(k) = {}
    BY <1>1, <1>3, PoolAssumption DEF Busy, Holding
  <1>5. Cardinality({}) = 0
    BY Zenon DEF CountingLaws
  <1>6. submitted - completed = Cardinality(Pending)
    <2>1. Len(queue) = 0 /\ Cardinality(Busy) = 0
      BY <1>2, <1>4, <1>5, SMT, SMTT(30)
    <2>2. QED
      BY <2>1, InvLengths
  <1>7. ASSUME NEW k \in Task PROVE runs[k] = Occurrences(pushed, k)
    <2>1. {i \in DOMAIN queue : queue[i] = k} = {}
      BY <1>2
    <2>2. Occurrences(queue, k) = 0 /\ Cardinality(Holding(k)) = 0
      BY <1>4, <1>5, <2>1, Zenon DEF Occurrences
    <2>3. Occurrences(pushed, k) = Occurrences(queue, k) + Cardinality(Holding(k)) + runs[k]
      BY <1>0, Zenon DEF TasksOnce
    <2>4. runs[k] \in Nat
      BY <1>0, Zenon DEF PoolTyped
    <2>5. QED
      BY <2>2, <2>3, <2>4, SMT, SMTT(30)
  <1>8. QED
    BY <1>1, <1>6, <1>7, Zenon

\* The invariant holds before a pool is built.
LEMMA InitPool ==
    ASSUME CountingLaws, Init
    PROVE  Shape /\ Counts /\ TasksOnce
  <1>0. /\ \A w \in Worker : at[w] = "unborn" /\ pc[w] = "idle" /\ task[w] = NoTask
        /\ \A c \in Client : at[c] = (IF c = Owner THEN "construct" ELSE "idle") /\ pc[c] = "idle"
                             /\ task[c] = NoTask
        /\ queue = <<>> /\ pushed = <<>> /\ popped = <<>>
    BY PoolAssumption DEF Init, Q!Init, Thread
  <1>1. PoolTyped
    <2>1. at \in [Thread -> Place] /\ task \in [Thread -> Task \cup {NoTask}]
      BY Zenon DEF Init, Place
    <2>2. QED
      BY <2>1, Zenon DEF Init, PoolTyped
  <1>2. Places
    BY <1>0 DEF Places, WorkerPlace, ClientPlace
  <1>3. at[Owner] = "construct" /\ \A c \in Client : at[c] \in {"construct", "idle"}
    BY <1>0, PoolAssumption
  <1>4. Life
    <2>1. workers = {}
      BY Zenon DEF Init
    <2>2. QED
      BY <1>0, <1>3, <2>1, Zenon DEF Life, Built
  <1>5. Joined
    BY <1>3 DEF Init, Joined
  <1>6. Pending = {} /\ Busy = {} /\ \A k \in Task : Holding(k) = {}
    BY <1>0, <1>3, PoolAssumption DEF Pending, Busy, Holding
  <1>7. Cardinality({}) = 0
    BY Zenon DEF CountingLaws
  <1>8. Counts
    BY <1>0, <1>6, <1>7, SMT, SMTT(30) DEF Counts, Init
  <1>9. TasksOnce
    <2>1. \A k : {i \in DOMAIN queue : queue[i] = k} = {} /\ {i \in DOMAIN pushed : pushed[i] = k} = {}
      BY <1>0
    <2>2. \A k \in Task : runs[k] = 0
      BY Zenon DEF Init
    <2>3. QED
      BY <1>6, <1>7, <2>1, <2>2, SMT, SMTT(30) DEF TasksOnce, Occurrences
  <1>10. QED
    BY <1>1, <1>2, <1>4, <1>5, <1>8, <1>9, Zenon DEF Shape

\* The queue starts well-formed.
LEMMA QueueInit ==
    ASSUME Q!Init
    PROVE  Q!TypeOK /\ Q!FifoExactlyOnce
  <1>1. Q!TypeOK
    <2>1. "idle" \in Q!Label
      BY Zenon DEF Q!Label
    <2>2. queue \in Seq(Task) /\ pushed \in Seq(Task) /\ popped \in Seq(Task) /\ Len(queue) = 0
      BY DEF Q!Init
    <2>3. /\ pc \in [Thread -> Q!Label] /\ item \in [Thread -> Task \cup {NoTask}]
          /\ \A t \in Thread : pc[t] = "idle"
      BY <2>1, Zenon DEF Q!Init
    <2>4. 0 \in 0 .. MaxThrows /\ 0 <= Capacity
      BY PoolAssumption
    <2>5. QED
      BY <2>2, <2>3, <2>4, Zenon DEF Q!Init, Q!TypeOK
  <1>2. Q!FifoExactlyOnce
    BY DEF Q!Init, Q!FifoExactlyOnce
  <1>3. QED
    BY <1>1, <1>2, Zenon

-----------------------------------------------------------------------------
(* What the pool promises *)

\* Thread t holds what it held, and neither ends nor has its shutdown return.
Keeps(t) ==
    /\ t \in Worker => Held(t)' = Held(t)
    /\ at'[t] = "exited" <=> at[t] = "exited"
    /\ at'[t] = "returned" <=> at[t] = "returned"

LEMMA StillKeeps ==
    ASSUME NEW u, Still(u)
    PROVE  Keeps(u)
  BY Zenon DEF Still, Alike, Keeps, Held

\* A step in which every thread keeps what TaskPool sees of it.
LEMMA KeptPool ==
    ASSUME \A u \in Thread : Keeps(u)
    PROVE  Hands' = Hands /\ Gone' = Gone /\ Drained' = Drained
  <1>1. \A w \in Worker : Held(w)' = Held(w) /\ (at'[w] = "exited" <=> at[w] = "exited")
    BY Zenon DEF Thread, Keeps
  <1>2. \A c \in Client : at'[c] = "returned" <=> at[c] = "returned"
    BY Zenon DEF Thread, Keeps
  <1>3. Hands' = Hands
    BY <1>1, Zenon DEF Hands
  <1>4. Gone' = Gone
    BY <1>1, Zenon DEF Gone
  <1>5. Drained' = Drained
    BY <1>2, Zenon DEF Drained
  <1>6. QED
    BY <1>3, <1>4, <1>5, Zenon

\* A step of one thread that TaskPool does not see.
LEMMA Unseen ==
    ASSUME NEW t \in Thread, \A u \in Thread \ {t} : Still(u), Keeps(t), UNCHANGED <<queue, closed>>
    PROVE  UNCHANGED P!vars
  <1>1. \A u \in Thread : Keeps(u)
    BY StillKeeps, Zenon
  <1>2. QED
    BY <1>1, KeptPool, Zenon DEF P!vars

\* The steps of worker_loop: a task that ends is finished, and a worker that ends
\* leaves a pool that is closed and drained.
LEMMA WorkerPromise ==
    ASSUME Typed, Places, Life, NEW w \in Worker,
           WorkerPop(w) \/ TaskStart(w) \/ TaskEnd(w) \/ CountCompleted(w) \/ WorkerExit(w)
    PROVE  [P!Next]_P!vars
  <1>0. w \in Thread /\ w \notin Client /\ WorkerPlace(w) /\ \A u \in Thread \ {w} : Still(u)
    BY WorkerPlaces, PoolAssumption, Zenon DEF Thread, Places
  <1>1. CASE WorkerPop(w) \/ TaskStart(w) \/ CountCompleted(w)
    <2>1. UNCHANGED <<queue, closed>>
      BY <1>1, Zenon DEF WorkerPop, TaskStart, CountCompleted, Q!Pop, Q!Return, queueVars
    <2>2. Keeps(w)
      <3>1. CASE WorkerPop(w)
        BY <1>0, <3>1, SMT, SMTT(30) DEF WorkerPop, Goto, Q!Pop, Q!Goto, Typed, WorkerPlace, Keeps, Held
      <3>2. CASE TaskStart(w)
        <4>1. /\ at[w] = "popping" /\ pc[w] = "value" /\ at'[w] = "run" /\ pc'[w] = "idle"
              /\ task'[w] = item[w]
          BY <1>0, <3>2, Picked, Zenon
        <4>2. QED
          BY <4>1, Zenon DEF Keeps, Held
      <3>3. CASE CountCompleted(w)
        BY <1>0, <3>3 DEF CountCompleted, Goto, queueVars, Typed, WorkerPlace, Keeps, Held
      <3>4. QED
        BY <1>1, <3>1, <3>2, <3>3, Zenon
    <2>3. QED
      BY <1>0, <2>1, <2>2, Unseen, Zenon
  <1>2. CASE TaskEnd(w)
    <2>1. /\ Held(w) \in Task /\ Held(w)' = NoTask
          /\ at[w] = "run" /\ at'[w] = "ran"
          /\ UNCHANGED <<queue, closed>>
      BY <1>0, <1>2 DEF TaskEnd, Goto, queueVars, Typed, WorkerPlace, Held
    <2>2. \A u \in Thread \ {w} : Keeps(u)
      BY <1>0, StillKeeps, ZenonT(40)
    <2>3. Hands' = [Hands EXCEPT ![w] = NoTask] /\ Hands[w] # NoTask
      <3>1. \A v \in Worker : v # w => Held(v)' = Held(v)
        BY <2>2, ZenonT(40) DEF Thread, Keeps
      <3>2. QED
        BY <2>1, <3>1, PoolAssumption, Zenon DEF Hands
    <2>4. Gone' = Gone /\ Drained' = Drained
      BY <1>0, <2>1, <2>2 DEF Thread, Keeps, Gone, Drained
    <2>5. P!Finish(w)
      BY <2>1, <2>3, <2>4, Zenon DEF P!Finish
    <2>6. QED
      BY <2>5, Zenon DEF P!Next
  <1>3. CASE WorkerExit(w)
    <2>1. /\ Held(w) = NoTask /\ Held(w)' = NoTask
          /\ at[w] = "popping" /\ at'[w] = "exited"
          /\ UNCHANGED <<queue, closed>>
      BY <1>0, <1>3 DEF WorkerExit, Goto, Q!Return, Q!Goto, Typed, WorkerPlace, Held
    <2>2. closed /\ queue = <<>>
      BY <1>3, Zenon DEF WorkerExit, Life
    <2>3. \A u \in Thread \ {w} : Keeps(u)
      BY <1>0, StillKeeps, Zenon
    <2>4. \A v \in Worker : Held(v)' = Held(v) /\ (v # w => (at'[v] = "exited" <=> at[v] = "exited"))
      BY <2>1, <2>3, Zenon DEF Thread, Keeps
    <2>5. Hands' = Hands /\ Hands[w] = NoTask
      BY <2>1, <2>4, ZenonT(40) DEF Hands
    <2>6. Gone' = Gone \cup {w} /\ w \notin Gone
      BY <2>1, <2>4, Zenon DEF Gone
    <2>7. Drained' = Drained
      BY <1>0, <2>3, Zenon DEF Thread, Keeps, Drained
    <2>8. P!Leave(w)
      BY <2>1, <2>2, <2>5, <2>6, <2>7, Zenon DEF P!Leave, P!Free
    <2>9. QED
      BY <2>8, Zenon DEF P!Next
  <1>4. QED
    BY <1>1, <1>2, <1>3, Zenon

\* The steps of submit that are the caller's own are not seen, and shutdown
\* returns from a pool that all workers have left.
LEMMA ClientPromise ==
    ASSUME Typed, Places, Life, NEW c \in Client,
           \/ \E k \in Task \cup {NoTask} : Submit(c, k)
           \/ SubmitPush(c) \/ SubmitAccepted(c) \/ SubmitUndone(c) \/ JoinLock(c) \/ JoinAll(c)
    PROVE  [P!Next]_P!vars
  <1>0. c \in Thread /\ c \notin Worker /\ ClientPlace(c) /\ \A u \in Thread \ {c} : Still(u)
    BY ClientPlaces, PoolAssumption, Zenon DEF Thread, Places
  <1>1. UNCHANGED <<queue, closed>>
    BY Zenon DEF Submit, SubmitPush, SubmitAccepted, SubmitUndone, JoinLock, JoinAll, Q!Push, Q!Return,
       queueVars
  <1>2. CASE \/ \E k \in Task \cup {NoTask} : Submit(c, k)
             \/ SubmitPush(c) \/ SubmitAccepted(c) \/ SubmitUndone(c) \/ JoinLock(c)
    <2>1. at[c] \in {"idle", "submit", "pushing", "join"}
      BY <1>2, Zenon DEF Submit, SubmitPush, SubmitAccepted, SubmitUndone, JoinLock
    <2>2. at' = at \/ \E a \in {"submit", "pushing", "idle", "joining"} : at' = [at EXCEPT ![c] = a]
      BY <1>2, Zenon DEF Submit, SubmitPush, SubmitAccepted, SubmitUndone, JoinLock, Goto
    <2>3. Keeps(c)
      BY <1>0, <2>1, <2>2, SMT, SMTT(30) DEF Typed, Keeps
    <2>4. QED
      BY <1>0, <1>1, <2>3, Unseen, ZenonT(40)
  <1>3. CASE JoinAll(c)
    <2>1. at[c] = "joining" /\ at'[c] = "returned" /\ \A w \in workers : at[w] = "exited"
      BY <1>0, <1>3 DEF JoinAll, Goto, Typed
    <2>2. \A w \in Worker : at[w] = "exited"
      <3>1. Built
        BY <2>1, UserBuilt, Zenon
      <3>2. QED
        BY <2>1, <3>1, ZenonT(40) DEF Life
    <2>3. closed /\ Gone = Worker
      BY <2>2, PoolAssumption DEF Life, Gone
    <2>4. Drained' = TRUE
      BY <2>1, Zenon DEF Drained
    <2>5. \A w \in Worker : Keeps(w)
      BY <1>0, StillKeeps, Zenon DEF Thread
    <2>6. Hands' = Hands
      BY <2>5, Zenon DEF Keeps, Hands
    <2>7. Gone' = Gone
      BY <2>5, Zenon DEF Keeps, Gone
    <2>8. P!ShutdownReturns
      BY <1>1, <2>3, <2>4, <2>6, <2>7, Zenon DEF P!ShutdownReturns
    <2>9. QED
      BY <2>8, Zenon DEF P!Next
  <1>4. QED
    BY <1>2, <1>3, Zenon

\* A shutdown is not seen before the queue is closed, and not after it until it
\* returns.
LEMMA ShutdownPromise ==
    ASSUME Typed, Places, NEW t \in Thread, Shutdown(t) \/ ShutdownClosed(t)
    PROVE  [P!Next]_P!vars
  <1>1. \A u \in Thread \ {t} : Still(u)
    BY ShutdownPlaces, Zenon
  <1>2. UNCHANGED <<queue, closed>>
    BY Zenon DEF Shutdown, ShutdownClosed, Q!Close, Q!Return, queueVars
  <1>3. at[t] \in {"idle", "run", "closing"} /\ at'[t] \in {"run", "join", "closing"}
    <2>1. \A l : at' = [at EXCEPT ![t] = l] => at'[t] = l
      BY Zenon DEF Typed
    <2>2. QED
      BY <2>1, Zenon DEF Shutdown, ShutdownClosed, AfterClose, Goto
  <1>4. ASSUME t \in Worker PROVE Held(t)' = Held(t)
    <2>1. WorkerPlace(t)
      BY <1>4, Zenon DEF Places
    <2>2. pc[t] \in {"idle", "void"} /\ pc'[t] \in {"idle", "close"} /\ task' = task
      BY <1>4, <2>1, SMT, SMTT(30) DEF Shutdown, ShutdownClosed, AfterClose, Goto, Q!Return, Q!Close, Q!Goto,
         Typed, WorkerPlace, queueVars
    <2>3. QED
      BY <2>2 DEF Held
  <1>5. Keeps(t)
    BY <1>3, <1>4 DEF Keeps
  <1>6. QED
    BY <1>1, <1>2, <1>5, Unseen, Zenon

\* Building a pool is not seen.
LEMMA OwnerPromise ==
    ASSUME Typed, Places, OwnerStep
    PROVE  [P!Next]_P!vars
  <1>1. UNCHANGED <<queue, closed>>
    BY Zenon DEF OwnerStep, Spawn, Constructed, SpawnFails, Abort, Q!Close, Q!Return, queueVars
  <1>2. ASSUME NEW w \in Worker, Spawn(w) PROVE UNCHANGED P!vars
    <2>1. w \in Thread /\ WorkerPlace(w) /\ \A u \in Thread \ {w} : Still(u)
      BY <1>2, OwnerPlaces, Zenon DEF Thread, Places
    <2>2. Keeps(w)
      BY <1>2, <2>1, SMT, SMTT(30) DEF Spawn, Goto, queueVars, Typed, Keeps, Held
    <2>3. QED
      BY <1>1, <2>1, <2>2, Unseen, Zenon
  <1>3. ASSUME Constructed \/ SpawnFails \/ Abort PROVE UNCHANGED P!vars
    <2>1. Owner \in Thread /\ Owner \notin Worker /\ \A u \in Thread \ {Owner} : Still(u)
      BY <1>3, OwnerPlaces, PoolAssumption, Zenon DEF Thread
    <2>2. at[Owner] \in {"construct", "abort"} /\ at'[Owner] \in {"idle", "abort", "threw"}
      BY <1>3, <2>1, SMT, SMTT(30) DEF Constructed, SpawnFails, Abort, Goto, Typed
    <2>3. Keeps(Owner)
      BY <2>1, <2>2 DEF Keeps
    <2>4. QED
      BY <1>1, <2>1, <2>3, Unseen, Zenon
  <1>4. QED
    BY <1>2, <1>3, Zenon DEF OwnerStep

\* Inside the queue a task is accepted or taken, or the pool is closed.
LEMMA QueuePromise ==
    ASSUME Q!TypeOK, Typed, Places, NEW t \in Thread, QueueStep(t) \/ QueueWake(t)
    PROVE  [P!Next]_P!vars
  <1>0. UNCHANGED poolVars /\ UNCHANGED <<at, task>> /\ queue \in Seq(Task)
    BY Zenon DEF QueueStep, QueueWake, poolVars, Q!TypeOK
  <1>1. CASE Q!PushAccept(t)
    <2>1. t \in Client /\ t \notin Worker /\ \A u \in Thread \ {t} : Still(u)
      BY <1>0, <1>1, QueuePlaces, PoolAssumption, Zenon
    <2>2. item[t] \in Task
      BY <1>1, Zenon DEF Q!TypeOK, Q!PushAccept
    <2>3. Keeps(t)
      BY <1>0, <2>1, Zenon DEF Keeps
    <2>4. \A u \in Thread : Keeps(u)
      BY <2>1, <2>3, StillKeeps, Zenon
    <2>5. P!Accept(item[t])
      BY <1>1, <2>4, KeptPool, Zenon DEF Q!PushAccept, P!Accept
    <2>6. QED
      BY <2>2, <2>5, Zenon DEF P!Next
  <1>2. CASE Q!PopTake(t)
    <2>1. t \in Worker /\ at[t] = "popping" /\ \A u \in Thread \ {t} : Still(u)
      BY <1>0, <1>2, QueuePlaces, Zenon
    <2>2. Held(t) = NoTask /\ Held(t)' = Head(queue)
      <3>1. task[t] = NoTask
        BY <2>1 DEF Places, WorkerPlace
      <3>2. QED
        BY <1>2, <3>1, SMT, SMTT(30) DEF Q!PopTake, Q!Goto, Typed, Held
    <2>3. \A v \in Worker : v # t => Held(v)' = Held(v)
      BY <2>1, StillKeeps, Zenon DEF Thread, Keeps
    <2>4. Hands' = [Hands EXCEPT ![t] = Head(queue)] /\ Hands[t] = NoTask
      BY <2>1, <2>2, <2>3, Zenon DEF Hands
    <2>5. Gone' = Gone /\ Drained' = Drained /\ t \notin Gone
      BY <1>0, <2>1 DEF Gone, Drained
    <2>6. queue # <<>> /\ queue' = Tail(queue) /\ UNCHANGED closed
      BY <1>2, Zenon DEF Q!PopTake
    <2>7. P!Take(t)
      BY <2>4, <2>5, <2>6, Zenon DEF P!Take, P!Free
    <2>8. QED
      BY <2>1, <2>7, Zenon DEF P!Next
  <1>3. CASE \/ Q!PushWait(t) \/ Q!PushRefuse(t) \/ Q!PushThrow(t) \/ Q!PushNotify(t)
             \/ Q!PopWait(t) \/ Q!PopEnd(t) \/ Q!PopNotify(t)
             \/ Q!CloseSet(t) \/ Q!CloseNotifyNotEmpty(t) \/ Q!CloseNotifyNotFull(t)
             \/ Q!SpuriousWake(t)
    <2>1. UNCHANGED queue /\ \A u \in Thread : Still(u)
      BY <1>0, <1>3, QuietStep, Zenon
    <2>2. \A u \in Thread : Keeps(u)
      BY <2>1, StillKeeps, Zenon
    <2>3. closed' = closed \/ closed' = TRUE
      BY <1>3, Zenon DEF Q!PushWait, Q!PushRefuse, Q!PushThrow, Q!PushNotify, Q!PopWait, Q!PopEnd,
         Q!PopNotify, Q!CloseSet, Q!CloseNotifyNotEmpty, Q!CloseNotifyNotFull, Q!SpuriousWake
    <2>4. UNCHANGED P!vars \/ P!Close
      BY <2>1, <2>2, <2>3, KeptPool, Zenon DEF P!vars, P!Close
    <2>5. QED
      BY <2>4, Zenon DEF P!Next
  <1>4. QED
    BY <1>1, <1>2, <1>3, Zenon DEF QueueStep, QueueWake, Q!Step

\* Every step of the pool is one that TaskPool allows, or is not seen.
LEMMA NextPromise ==
    ASSUME Q!TypeOK, Shape, [Next]_vars
    PROVE  [P!Next]_P!vars
  <1>1. Typed /\ Places /\ Life /\ Worker \subseteq Thread /\ Client \subseteq Thread
    BY ShapeFacts, Zenon DEF Shape, Thread
  <1>2. ASSUME NEW w \in Worker, Shutdown(w) \/ WorkerStep(w)
        PROVE  [P!Next]_P!vars
    BY <1>1, <1>2, WorkerPromise, ShutdownPromise, QueuePromise, Zenon DEF WorkerStep
  <1>3. ASSUME NEW c \in Client,
               (\E k \in Task \cup {NoTask} : Submit(c, k)) \/ Shutdown(c) \/ ClientStep(c)
        PROVE  [P!Next]_P!vars
    BY <1>1, <1>3, ClientPromise, ShutdownPromise, QueuePromise, Zenon DEF ClientStep
  <1>4. CASE UNCHANGED vars
    BY <1>4, Zenon DEF vars, queueVars, poolVars, P!vars, Hands, Held, Gone, Drained
  <1>5. QED
    BY <1>1, <1>2, <1>3, <1>4, OwnerPromise, QueuePromise, Zenon DEF Next

\* A pool that is being built has promised nothing yet.
LEMMA InitPromise ==
    ASSUME Init
    PROVE  P!Init
  <1>1. /\ \A w \in Worker : at[w] = "unborn" /\ pc[w] = "idle" /\ task[w] = NoTask
        /\ \A c \in Client : at[c] \in {"construct", "idle"}
        /\ queue = <<>> /\ closed = FALSE
    BY PoolAssumption, SMT, SMTT(30) DEF Init, Q!Init, Thread
  <1>2. Hands = [w \in Worker |-> NoTask]
    BY <1>1 DEF Hands, Held
  <1>3. Gone = {}
    BY <1>1 DEF Gone
  <1>4. Drained = FALSE
    BY <1>1 DEF Drained
  <1>5. QED
    BY <1>1, <1>2, <1>3, <1>4, Zenon DEF P!Init

-----------------------------------------------------------------------------
(* The laws of counting *)

INSTANCE FiniteSetTheorems

\* Threads, workers and clients are finitely many.
LEMMA ThreadsFinite == IsFiniteSet(Thread) /\ IsFiniteSet(Worker) /\ IsFiniteSet(Client)
  BY PoolAssumption, FS_Union, Zenon DEF Thread

\* One element more, one element less.
LEMMA OneMore ==
    ASSUME NEW S, IsFiniteSet(S), NEW x, NEW T
    PROVE  /\ x \notin S /\ T = S \cup {x} => Cardinality(T) = Cardinality(S) + 1
           /\ x \in S /\ T = S \ {x} => Cardinality(T) = Cardinality(S) - 1
           /\ Cardinality(S) \in Nat
  BY FS_AddElement, FS_RemoveElement, FS_CardinalityType, ZenonT(40)

\* How often k occurs once x is appended.
LEMMA AppendLaw ==
    ASSUME NEW s \in Seq(Task), NEW x \in Task, NEW k
    PROVE  /\ Occurrences(s, k) \in Nat
           /\ x = k => Occurrences(Append(s, x), k) = Occurrences(s, k) + 1
           /\ x # k => Occurrences(Append(s, x), k) = Occurrences(s, k)
  <1> DEFINE A == {i \in DOMAIN s : s[i] = k}
             B == {i \in DOMAIN Append(s, x) : Append(s, x)[i] = k}
  <1>1. IsFiniteSet(1 .. Len(s))
    BY FS_Interval
  <1>2. A \subseteq 1 .. Len(s) /\ Len(s) + 1 \notin A
    OBVIOUS
  <1>3. IsFiniteSet(A)
    BY <1>1, <1>2, FS_Subset, Zenon
  <1>4. (x = k => B = A \cup {Len(s) + 1}) /\ (x # k => B = A)
    OBVIOUS
  <1> HIDE DEF A, B
  <1>5. /\ Cardinality(A) \in Nat
        /\ x = k => Cardinality(B) = Cardinality(A) + 1
        /\ x # k => Cardinality(B) = Cardinality(A)
    BY <1>2, <1>3, <1>4, OneMore, Zenon
  <1>6. QED
    BY <1>5, Zenon DEF Occurrences, A, B

\* How often k occurs once the head is removed.
LEMMA TailLaw ==
    ASSUME NEW s \in Seq(Task), s # <<>>, NEW k
    PROVE  /\ Head(s) = k => Occurrences(Tail(s), k) = Occurrences(s, k) - 1
           /\ Head(s) # k => Occurrences(Tail(s), k) = Occurrences(s, k)
  <1> DEFINE A == {i \in DOMAIN s : s[i] = k}
             B == {i \in DOMAIN Tail(s) : Tail(s)[i] = k}
             f == [i \in A \ {1} |-> i - 1]
  <1>1. IsFiniteSet(1 .. Len(s))
    BY FS_Interval, SMT, SMTT(30)
  <1>2. A \subseteq 1 .. Len(s) /\ (Head(s) = k <=> 1 \in A)
    OBVIOUS
  <1>3. IsFiniteSet(A) /\ IsFiniteSet(A \ {1})
    BY <1>1, <1>2, FS_Subset, FS_RemoveElement, Zenon
  <1>4. \A i \in A \ {1} : i - 1 \in B
    OBVIOUS
  <1>5. \A j \in B : j + 1 \in A \ {1} /\ (j + 1) - 1 = j
    OBVIOUS
  <1>6. \A i, j \in A \ {1} : i - 1 = j - 1 => i = j
    BY <1>2, SMT, SMTT(30)
  <1> HIDE DEF A, B
  <1>7. f \in Bijection(A \ {1}, B)
    <2>1. f \in [A \ {1} -> B]
      BY <1>4, Zenon
    <2>2. \A i, j \in A \ {1} : f[i] = f[j] => i = j
      BY <1>6, Zenon
    <2>3. \A j \in B : \E i \in A \ {1} : f[i] = j
      <3>1. ASSUME NEW j \in B PROVE j + 1 \in A \ {1} /\ f[j + 1] = j
        BY <1>5, SMT, SMTT(30)
      <3>2. QED
        BY <3>1, Zenon
    <2> HIDE DEF f
    <2>4. QED
      <3>1. DOMAIN f = A \ {1}
        BY <2>1, Zenon
      <3>2. f \in Injection(A \ {1}, B)
        BY <2>1, <2>2, <3>1, Zenon DEF Injection, IsInjective
      <3>3. f \in Surjection(A \ {1}, B)
        BY <2>1, <2>3, Zenon DEF Surjection
      <3>4. QED
        BY <3>2, <3>3, Zenon DEF Bijection
  <1>8. Cardinality(B) = Cardinality(A \ {1})
    <2> HIDE DEF f
    <2>1. ExistsBijection(A \ {1}, B)
      BY <1>7, Zenon DEF ExistsBijection
    <2>2. QED
      BY <1>3, <2>1, FS_Bijection, Zenon
  <1>9. /\ 1 \in A => Cardinality(A \ {1}) = Cardinality(A) - 1
        /\ 1 \notin A => A \ {1} = A
    BY <1>3, OneMore, Zenon
  <1>10. QED
    BY <1>2, <1>8, <1>9, Zenon DEF Occurrences, A, B

\* The size of a set of which a step may change one member.
LEMMA MemberLaw ==
    ASSUME NEW S, NEW T, NEW t, IsFiniteSet(S), T \ {t} = S \ {t}
    PROVE  /\ (t \in S <=> t \in T) => T = S
           /\ t \notin S /\ t \in T => Cardinality(T) = Cardinality(S) + 1
           /\ t \in S /\ t \notin T => Cardinality(T) = Cardinality(S) - 1
           /\ Cardinality(S) \in Nat
  <1>1. /\ (t \in S <=> t \in T) => T = S
        /\ t \notin S /\ t \in T => T = S \cup {t}
        /\ t \in S /\ t \notin T => T = S \ {t}
    OBVIOUS
  <1>2. QED
    BY <1>1, OneMore, Zenon

\* The laws of counting, from the theorems about finite sets.
LEMMA LawsHold == CountingLaws
  <1>1. Cardinality({}) = 0
    BY FS_EmptySet, Zenon
  <1>2. \A S : S \subseteq Thread => IsFiniteSet(S) /\ Cardinality(S) \in Nat
    BY ThreadsFinite, FS_Subset, FS_CardinalityType, Zenon
  <1>3. \A S, T, t : IsFiniteSet(S) /\ T \ {t} = S \ {t} => OneMemberLaw(S, T, t)
    BY MemberLaw, Zenon DEF OneMemberLaw
  <1>4. QED
    BY <1>1, <1>2, <1>3, AppendLaw, TailLaw, Zenon DEF CountingLaws

-----------------------------------------------------------------------------
(* The queue inside the pool *)

QP == INSTANCE BlockingQueueProofs WITH Value <- Task, NoValue <- NoTask

\* What BlockingQueue assumes of its constants holds for the pool's.
LEMMA QueueAssumed == QP!QueueAssumption
  <1>1. QP!IsFiniteSet(Thread)
    BY ThreadsFinite, Zenon DEF IsFiniteSet, QP!IsFiniteSet
  <1>2. QED
    BY <1>1, PoolAssumption, SMT, SMTT(30) DEF QP!QueueAssumption

\* tasks_ is the queue that BlockingQueueProofs is about.
LEMMA SameQueue ==
    /\ Q!Init => QP!Init
    /\ [Q!Next]_Q!vars => [QP!Next]_QP!vars
    /\ QP!TypeOK <=> Q!TypeOK
    /\ QP!FifoExactlyOnce <=> Q!FifoExactlyOnce
  <1>1. Q!Next => QP!Next
    <2>1. ASSUME NEW t PROVE /\ \A v : Q!Push(t, v) => QP!Push(t, v)
                             /\ Q!PushWait(t) => QP!PushWait(t)
                             /\ Q!PushRefuse(t) => QP!PushRefuse(t)
                             /\ Q!PushAccept(t) => QP!PushAccept(t)
                             /\ Q!PushThrow(t) => QP!PushThrow(t)
                             /\ Q!PushNotify(t) => QP!PushNotify(t)
      BY ZenonT(40) DEF Q!Push, Q!PushWait, Q!PushRefuse, Q!PushAccept, Q!PushThrow, Q!PushNotify,
         QP!Push, QP!PushWait, QP!PushRefuse, QP!PushAccept, QP!PushThrow, QP!PushNotify,
         Q!Goto, QP!Goto, Q!NotifyOne, QP!NotifyOne
    <2>2. ASSUME NEW t PROVE /\ Q!Pop(t) => QP!Pop(t)
                             /\ Q!PopWait(t) => QP!PopWait(t)
                             /\ Q!PopEnd(t) => QP!PopEnd(t)
                             /\ Q!PopTake(t) => QP!PopTake(t)
                             /\ Q!PopNotify(t) => QP!PopNotify(t)
                             /\ Q!SpuriousWake(t) => QP!SpuriousWake(t)
      BY Zenon DEF Q!Pop, Q!PopWait, Q!PopEnd, Q!PopTake, Q!PopNotify, Q!SpuriousWake,
         QP!Pop, QP!PopWait, QP!PopEnd, QP!PopTake, QP!PopNotify, QP!SpuriousWake,
         Q!Goto, QP!Goto, Q!NotifyOne, QP!NotifyOne
    <2>3. ASSUME NEW t PROVE /\ Q!Close(t) => QP!Close(t)
                             /\ Q!CloseSet(t) => QP!CloseSet(t)
                             /\ Q!CloseNotifyNotEmpty(t) => QP!CloseNotifyNotEmpty(t)
                             /\ Q!CloseNotifyNotFull(t) => QP!CloseNotifyNotFull(t)
                             /\ Q!Return(t) => QP!Return(t)
      BY ZenonT(40) DEF Q!Close, Q!CloseSet, Q!CloseNotifyNotEmpty, Q!CloseNotifyNotFull, Q!Return,
         QP!Close, QP!CloseSet, QP!CloseNotifyNotEmpty, QP!CloseNotifyNotFull, QP!Return,
         Q!Goto, QP!Goto, Q!NotifyAll, QP!NotifyAll, Q!Returned, QP!Returned
    <2>4. QED
      BY <2>1, <2>2, <2>3, Zenon DEF Q!Next, QP!Next, Q!Step, QP!Step
  <1>2. (Q!Init => QP!Init) /\ (UNCHANGED Q!vars => UNCHANGED QP!vars)
        /\ (QP!FifoExactlyOnce <=> Q!FifoExactlyOnce)
    BY ZenonT(40) DEF QP!Init, Q!Init, QP!vars, Q!vars, QP!FifoExactlyOnce, Q!FifoExactlyOnce
  <1>3. QP!TypeOK <=> Q!TypeOK
    BY ZenonT(40) DEF QP!TypeOK, QP!Label, QP!InPush, QP!InPop, QP!InClose, QP!Returned,
       Q!TypeOK, Q!Label, Q!InPush, Q!InPop, Q!InClose, Q!Returned
  <1>4. QED
    BY <1>1, <1>2, <1>3, Zenon

\* A step that uses the queue as it may be used keeps it well-formed and FIFO.
LEMMA QueueKept ==
    ASSUME Q!TypeOK, Q!FifoExactlyOnce, [Q!Next]_Q!vars
    PROVE  Q!TypeOK' /\ Q!FifoExactlyOnce'
  <1>1. QP!TypeOK /\ QP!FifoExactlyOnce /\ [QP!Next]_QP!vars
    BY SameQueue, ZenonT(40)
  <1>2. QP!TypeOK' /\ QP!FifoExactlyOnce'
    BY <1>1, QueueAssumed, QP!NextTypeOK, QP!NextFifo, SMT, SMTT(30)
  <1>3. (QP!TypeOK <=> Q!TypeOK)' /\ (QP!FifoExactlyOnce <=> Q!FifoExactlyOnce)'
    BY SameQueue, PTL
  <1>4. QED
    BY <1>2, <1>3, SMT, SMTT(30)

-----------------------------------------------------------------------------
(* The theorems *)

\* The inductive invariant holds throughout.
THEOREM PoolInvariant == Spec => []IInv
  <1>1. Init => IInv
    <2>1. Init => Q!Init
      BY Zenon DEF Init
    <2>2. QED
      BY <2>1, InitPool, LawsHold, QueueInit, Zenon DEF IInv
  <1>2. IInv /\ [Next]_vars => IInv'
    BY LawsHold, NextShape, NextCounts, QueueKept, Zenon DEF IInv
  <1>3. QED
    BY <1>1, <1>2, PTL DEF Spec

\* The variables of ThreadPool keep their types: among them, a thread inside the
\* queue is at the label of the pool that called it, and join_mutex_ is held by
\* exactly the clients that are joining.
THEOREM PoolTypeCorrect == Spec => []TypeOK
  BY LawsHold, PoolInvariant, InvTypeOK, PTL

\* For every number of workers, clients and tasks and every capacity, an accepted
\* task is queued, held by one worker, or has been executed, and no task is
\* executed more often than it was accepted: worker_loop loses and repeats none,
\* shutdown drops none.
THEOREM EveryTaskOnceCorrect == Spec => []EveryTaskOnce
  <1>1. IInv => EveryTaskOnce
    BY LawsHold, InvTypeOK, Zenon DEF EveryTaskOnce, TasksOnce, IInv
  <1>2. QED
    BY <1>1, PoolInvariant, PTL

\* submitted_ is never behind completed_, because submit counts before it pushes
\* and a worker counts after it has taken and executed.
THEOREM CountersOrdered == Spec => []CompletedAtMostSubmitted
  BY LawsHold, PoolInvariant, InvCounters, PTL

\* When shutdown has returned to any client, every accepted task has been
\* executed, every worker has left worker_loop, and the counters differ by the
\* submits that are still to be taken back.
THEOREM DrainedAtReturnCorrect == Spec => []DrainedAtReturn
  BY LawsHold, PoolInvariant, InvDrained, PTL

\* The pool implements a client of BlockingQueue: every step of it is a step that
\* the queue allows or leaves the queue alone, so each result about the queue
\* holds of tasks_.
THEOREM PoolUsesQueue == Spec => UsesQueue
  <1>1. Init => Q!Init
    BY Zenon DEF Init
  <1>2. IInv /\ [Next]_vars => [Q!Next]_Q!vars
    BY NextShape, Zenon DEF IInv
  <1>3. QED
    BY <1>1, <1>2, PoolInvariant, PTL DEF Spec, UsesQueue, Q!Spec

\* Nothing is submitted to a pool that is not built.
Unused == ~Built => pushed = <<>>

\* Only a thread inside push adds to the queue.
LEMMA OnlyPush == [Q!Next]_Q!vars => pushed' = pushed \/ \E t \in Thread : pc[t] = "push"
  <1>1. \A t \in Thread :
          /\ \A v : Q!Push(t, v) => pushed' = pushed
          /\ Q!Pop(t) \/ Q!Close(t) \/ Q!SpuriousWake(t) \/ Q!Return(t) => pushed' = pushed
    BY Zenon DEF Q!Push, Q!Pop, Q!Close, Q!SpuriousWake, Q!Return
  <1>2. \A t \in Thread : Q!Step(t) => pushed' = pushed \/ pc[t] = "push"
    BY Zenon DEF Q!Step, Q!PushWait, Q!PushRefuse, Q!PushAccept, Q!PushThrow, Q!PushNotify, Q!PopWait,
       Q!PopEnd, Q!PopTake, Q!PopNotify, Q!CloseSet, Q!CloseNotifyNotEmpty, Q!CloseNotifyNotFull
  <1>3. UNCHANGED Q!vars => pushed' = pushed
    BY Zenon DEF Q!vars
  <1>4. QED
    BY <1>1, <1>2, <1>3, Zenon DEF Q!Next

\* A pool that has been built stays so.
LEMMA BuiltStays == ASSUME IInv, Built, [Next]_vars PROVE Built'
  <1>0. at \in [Thread -> Place] /\ Owner \in Thread
    BY PoolAssumption, Zenon DEF IInv, Shape, PoolTyped, Thread
  <1>1. ASSUME NEW t, NEW label, label \notin {"construct", "abort", "threw"}, Goto(t, label)
        PROVE  Built'
    BY <1>0, <1>1, Zenon DEF Goto, Built
  <1>2. CASE UNCHANGED at
    BY <1>2, Zenon DEF Built
  <1>3. CASE OwnerStep
    BY <1>3, Zenon DEF OwnerStep, Spawn, Constructed, SpawnFails, Abort, Built
  <1>4. ASSUME NEW t, Shutdown(t) \/ ShutdownClosed(t) PROVE Built'
    <2>1. AfterClose(t) \in {"run", "join"}
      BY Zenon DEF AfterClose
    <2>2. AfterClose(t) \notin {"construct", "abort", "threw"}
      BY <2>1, Zenon
    <2>3. QED
      BY <1>1, <1>4, <2>2, Zenon DEF Shutdown, ShutdownClosed
  <1>5. ASSUME NEW c, (\E k \in Task \cup {NoTask} : Submit(c, k)) \/ SubmitPush(c) \/ SubmitAccepted(c)
               \/ SubmitUndone(c) \/ JoinLock(c) \/ JoinAll(c)
        PROVE  Built'
    BY <1>1, <1>2, <1>5, Zenon DEF Submit, SubmitPush, SubmitAccepted, SubmitUndone, JoinLock, JoinAll
  <1>6. ASSUME NEW w, WorkerPop(w) \/ TaskStart(w) \/ TaskEnd(w) \/ CountCompleted(w) \/ WorkerExit(w)
        PROVE  Built'
    BY <1>1, <1>6, Zenon DEF WorkerPop, TaskStart, TaskEnd, CountCompleted, WorkerExit
  <1>7. ASSUME NEW t, QueueStep(t) \/ QueueWake(t) PROVE Built'
    BY <1>2, <1>7, Zenon DEF QueueStep, QueueWake, poolVars
  <1>8. CASE UNCHANGED vars
    BY <1>2, <1>8, Zenon DEF vars, poolVars
  <1>9. QED
    BY <1>3, <1>4, <1>5, <1>6, <1>7, <1>8, Zenon DEF Next, ClientStep, WorkerStep

\* While the constructor runs nobody is inside push.
LEMMA NextUnused == IInv /\ Unused /\ [Next]_vars => Unused'
  <1> SUFFICES ASSUME IInv, Unused, [Next]_vars, ~Built' PROVE pushed' = <<>>
    BY Zenon DEF Unused
  <1>1. ~Built /\ pushed = <<>>
    BY BuiltStays, Zenon DEF Unused
  <1>2. [Q!Next]_Q!vars
    BY NextShape, Zenon DEF IInv
  <1>3. Places /\ Life
    BY Zenon DEF IInv, Shape
  <1>4. ASSUME NEW t \in Thread PROVE pc[t] # "push"
    <2>1. CASE t \in Worker
      BY <1>3, <2>1, Zenon DEF Places, WorkerPlace, PopCall, CloseCall
    <2>2. CASE t \in Client
      <3>1. at[t] # "pushing"
        BY <1>1, <1>3, <2>2, Zenon DEF Life, Built
      <3>2. QED
        BY <1>3, <2>2, <3>1, Zenon DEF Places, ClientPlace, CloseCall
    <2>3. QED
      BY <2>1, <2>2, Zenon DEF Thread
  <1>5. QED
    BY <1>1, <1>2, <1>4, OnlyPush, Zenon

\* Once the constructor has closed the queue its workers are on their way out:
\* close leaves none of them asleep, and there was never a task for them.
LEMMA AbortLeaves ==
    ASSUME IInv, Unused, QP!Released, at[Owner] = "abort", pc[Owner] = "void"
    PROVE  closed /\ queue = <<>> /\ \A w \in workers : Leaving(w)
  <1>0. /\ PoolTyped /\ Places /\ Life /\ queue \in Seq(Task) /\ popped \in Seq(Task)
        /\ Owner \in Thread
    <2>1. PoolTyped /\ Places /\ Life /\ queue \in Seq(Task) /\ popped \in Seq(Task)
      BY InvFacts, LawsHold, Zenon
    <2>2. Owner \in Thread
      BY PoolAssumption, Zenon DEF Thread
    <2>3. QED
      BY <2>1, <2>2, Zenon
  <1>1. closed /\ \A w \in Thread : pc[w] # "waitNotEmpty"
    BY <1>0, Zenon DEF QP!Released
  <1>2. pushed = <<>> /\ pushed = popped \o queue
    BY Zenon DEF Unused, Built, IInv, Q!FifoExactlyOnce
  <1>3. queue = <<>> /\ Len(popped) = 0
    BY <1>0, <1>2
  <1>4. Busy = {}
    <2>1. Cardinality(Busy) = 0
      BY <1>3, InvLengths, LawsHold, SMT, SMTT(30)
    <2>2. Busy \subseteq Worker
      BY Zenon DEF Busy
    <2>3. QED
      BY <2>1, <2>2, ThreadsFinite, FS_Subset, FS_EmptySet
  <1>5. ASSUME NEW w \in workers PROVE Leaving(w)
    <2>0. w \in Worker /\ w \in Thread
      BY <1>0, <1>5, Zenon DEF PoolTyped, Thread
    <2>1. at[w] # "unborn"
      BY <1>0, <1>5, <2>0, Zenon DEF Life
    <2>2. at[w] \notin {"run", "closing", "ran"} /\ pc[w] \notin {"notifyNotFull", "value"}
      BY <1>4, <2>0, Zenon DEF Busy
    <2>3. WorkerPlace(w)
      BY <1>0, <2>0, Zenon DEF Places
    <2>4. at[w] = "popping" => pc[w] \in {"pop", "nullopt"}
      BY <1>1, <2>0, <2>2, <2>3, Zenon DEF WorkerPlace, PopCall
    <2>5. QED
      BY <2>1, <2>2, <2>3, <2>4, Zenon DEF WorkerPlace, Leaving
  <1>6. QED
    BY <1>1, <1>3, <1>5, Zenon

\* A constructor that fails half-way comes to an end: when it begins to join, the
\* queue is closed and empty and every worker it had started is on its way out of
\* worker_loop, and when it throws none is left.
THEOREM FailedConstructionCorrect == Spec => []FailedConstructionEnds
  <1>1. IInv /\ Unused /\ QP!Released => FailedConstructionEnds
    <2> SUFFICES ASSUME IInv, Unused, QP!Released PROVE FailedConstructionEnds
      BY Zenon
    <2>1. ASSUME at[Owner] = "abort", pc[Owner] = "void"
          PROVE  closed /\ queue = <<>> /\ \A w \in workers : Leaving(w)
      BY <2>1, AbortLeaves, Zenon
    <2>2. at[Owner] = "threw" => \A w \in Worker : at[w] \in {"unborn", "exited"}
      BY Zenon DEF IInv, Shape, Life
    <2>3. QED
      BY <2>1, <2>2, Zenon DEF FailedConstructionEnds
  <1>2. Init => Unused /\ QP!Released
    BY Zenon DEF Init, Q!Init, Unused, QP!Released
  <1>3. IInv /\ QP!Released /\ [Next]_vars => QP!Released'
    <2> SUFFICES ASSUME IInv, QP!Released, [Next]_vars PROVE QP!Released'
      BY Zenon
    <2>1. QP!TypeOK /\ [QP!Next]_QP!vars
      BY SameQueue, NextShape, ZenonT(40) DEF IInv
    <2>2. QED
      BY <2>1, QueueAssumed, QP!NextReleased, Zenon
  <1>4. QED
    BY <1>1, <1>2, <1>3, NextUnused, PoolInvariant, PTL DEF Spec

\* The pool implements TaskPool, for any number of workers, clients and tasks and
\* every capacity: accepted tasks are taken in order and finished once, none is
\* accepted after the close, no worker leaves before the pool is closed and
\* drained, and shutdown returns to no client before every worker has left.
THEOREM PoolKeepsPromise == Spec => IsTaskPool
  <1>1. IInv /\ [Next]_vars => [P!Next]_P!vars
    BY NextPromise, Zenon DEF IInv
  <1>2. QED
    BY <1>1, InitPromise, PoolInvariant, PTL DEF Spec, IsTaskPool, P!Spec
=============================================================================
