----------------------------- MODULE ServerProofs -----------------------------
(***************************************************************************)
(* Every descriptor of a connection has one owner and is closed once, and  *)
(* a server that is gone leaves nothing behind: for any number of          *)
(* connections, workers and addresses and any capacity of the queue.       *)
(***************************************************************************)
EXTENDS Server, FiniteSetTheorems, TLAPS

Holding == runner \in {"configure", "submit"}

Idle == {"pop", "exited"}

\* The accepting thread is the only owner of the connection it holds,
RunnerOwns ==
    Holding => /\ accepted \in Conn /\ fd[accepted] = "open"
               /\ \A i \in DOMAIN queue : queue[i] # accepted
               /\ \A w \in Worker : serving[w] # accepted

\* a place in the queue of the connection in it,
QueueOwns ==
    \A i \in DOMAIN queue :
        /\ queue[i] \in Conn /\ fd[queue[i]] = "open"
        /\ \A j \in DOMAIN queue : queue[j] = queue[i] => j = i
        /\ \A w \in Worker : serving[w] # queue[i]

\* and a worker of the connection it serves.
WorkerOwns ==
    \A w \in Worker :
        /\ serving[w] \in Conn <=> at[w] \notin Idle
        /\ serving[w] \in Conn => /\ fd[serving[w]] = "open"
                                  /\ \A u \in Worker : serving[u] = serving[w] => u = w

\* An open descriptor is with one of them.
OpenIsOwned ==
    \A c \in Conn :
        fd[c] = "open" => \/ Holding /\ accepted = c
                          \/ \E i \in DOMAIN queue : queue[i] = c
                          \/ \E w \in Worker : serving[w] = c

ClosedOnce == \A c \in Conn : closes[c] = IF fd[c] = "closed" THEN 1 ELSE 0

\* The pool is shut down only when nothing is submitted any more, and a worker
\* leaves only when there is nothing left to take.
Phases ==
    /\ main \in {"construct", "lookup", "listen"} => runner = "none" /\ ~closed
    /\ main \in {"destroy", "destroying", "exited"} => runner \in {"none", "returned"}
    /\ closed => runner \in {"none", "joining", "returned"}
    /\ runner = "none" => queue = <<>>
    /\ \A w \in Worker : at[w] = "exited" => closed /\ queue = <<>>
    /\ main = "exited" => listener # "open" /\ \A w \in Worker : at[w] = "exited"

Owned == RunnerOwns /\ QueueOwns /\ WorkerOwns /\ OpenIsOwned /\ ClosedOnce

IInv == TypeOK /\ Owned /\ Phases

-----------------------------------------------------------------------------
\* A connection that leaves the queue or enters it.
LEMMA QueueFacts ==
    ASSUME NEW S, NEW q \in Seq(S), NEW c \in S
    PROVE  /\ Append(q, c) \in Seq(S) /\ Len(Append(q, c)) = Len(q) + 1
           /\ DOMAIN Append(q, c) = DOMAIN q \cup {Len(q) + 1} /\ Len(q) + 1 \notin DOMAIN q
           /\ Append(q, c)[Len(q) + 1] = c
           /\ \A i \in DOMAIN q : Append(q, c)[i] = q[i]
           /\ q # <<>> => /\ Head(q) = q[1] /\ 1 \in DOMAIN q
                          /\ Tail(q) \in Seq(S) /\ Len(Tail(q)) = Len(q) - 1
                          /\ \A i \in DOMAIN Tail(q) : /\ i + 1 \in DOMAIN q /\ i \in Nat
                                                        /\ i + 1 # 1 /\ Tail(q)[i] = q[i + 1]
                          /\ \A j \in DOMAIN q : j = 1 \/ (/\ j - 1 \in DOMAIN Tail(q)
                                                           /\ Tail(q)[j - 1] = q[j])
<1>1. /\ Append(q, c) \in Seq(S) /\ Len(Append(q, c)) = Len(q) + 1 /\ Len(q) \in Nat
      /\ DOMAIN q = 1 .. Len(q) /\ DOMAIN Append(q, c) = 1 .. (Len(q) + 1)
  OBVIOUS
<1>2. Append(q, c)[Len(q) + 1] = c /\ \A i \in DOMAIN q : Append(q, c)[i] = q[i]
  BY <1>1
<1>3. DOMAIN Append(q, c) = DOMAIN q \cup {Len(q) + 1} /\ Len(q) + 1 \notin DOMAIN q
  BY <1>1
<1>4. ASSUME q # <<>>
      PROVE  /\ Head(q) = q[1] /\ Len(q) > 0 /\ Tail(q) \in Seq(S) /\ Len(Tail(q)) = Len(q) - 1
             /\ DOMAIN Tail(q) = 1 .. (Len(q) - 1)
             /\ \A i \in 1 .. (Len(q) - 1) : Tail(q)[i] = q[i + 1]
  BY <1>1, <1>4
<1>5. ASSUME q # <<>>, NEW i \in DOMAIN Tail(q)
      PROVE  i + 1 \in DOMAIN q /\ i \in Nat /\ i + 1 # 1 /\ Tail(q)[i] = q[i + 1]
  BY <1>1, <1>4, <1>5
<1>6. ASSUME q # <<>>, NEW j \in DOMAIN q, j # 1
      PROVE  j - 1 \in DOMAIN Tail(q) /\ Tail(q)[j - 1] = q[j]
  BY <1>1, <1>4, <1>6
<1>7. q # <<>> => 1 \in DOMAIN q
  BY <1>1, <1>4
<1> QED BY <1>1, <1>2, <1>3, <1>4, <1>5, <1>6, <1>7

\* A step that moves no descriptor.
LEMMA Quiet ==
    ASSUME TypeOK, Owned, UNCHANGED <<accepted, queue, serving, fd, closes>>, Holding' <=> Holding,
           \A w \in Worker : at'[w] \in Idle <=> at[w] \in Idle
    PROVE  Owned'
  BY DEF Owned, RunnerOwns, QueueOwns, WorkerOwns, OpenIsOwned, ClosedOnce

\* A descriptor is closed by the one who owns it.
LEMMA CloseFacts ==
    ASSUME TypeOK, Owned, NEW c \in Conn, fd[c] = "open", CloseFd(c)
    PROVE  /\ fd' \in [Conn -> {"none", "waiting", "open", "closed"}] /\ closes' \in [Conn -> Nat]
           /\ fd'[c] = "closed" /\ \A d \in Conn : d # c => fd'[d] = fd[d]
           /\ ClosedOnce'
  BY DEF TypeOK, Owned, ClosedOnce, CloseFd

\* The accepting thread closes what it holds.
LEMMA RunnerCloses ==
    ASSUME TypeOK, Owned, Holding, CloseFd(accepted), accepted' = NoConn, ~ Holding',
           UNCHANGED <<queue, at, serving>>
    PROVE  Owned'
<1>1. accepted \in Conn /\ fd[accepted] = "open"
  BY DEF Owned, RunnerOwns
<1>2. /\ fd'[accepted] = "closed" /\ \A d \in Conn : d # accepted => fd'[d] = fd[d]
      /\ ClosedOnce'
  BY <1>1, CloseFacts
<1> QED BY <1>1, <1>2 DEF Owned, RunnerOwns, QueueOwns, WorkerOwns, OpenIsOwned

\* A worker closes what it serves.
LEMMA WorkerCloses ==
    ASSUME TypeOK, Owned, NEW w \in Worker, at[w] \notin Idle, HandlerReturns(w)
    PROVE  Owned'
<1>1. /\ serving[w] \in Conn /\ fd[serving[w]] = "open"
      /\ \A u \in Worker : serving[u] = serving[w] => u = w
      /\ \A i \in DOMAIN queue : queue[i] # serving[w]
      /\ Holding => accepted # serving[w]
  BY DEF Owned, RunnerOwns, QueueOwns, WorkerOwns
<1>2. /\ fd'[serving[w]] = "closed" /\ \A d \in Conn : d # serving[w] => fd'[d] = fd[d]
      /\ ClosedOnce'
  BY <1>1, CloseFacts DEF HandlerReturns
<1>3. /\ at'[w] = "pop" /\ serving'[w] = NoConn /\ NoConn \notin Conn
      /\ \A u \in Worker : u # w => at'[u] = at[u] /\ serving'[u] = serving[u]
      /\ UNCHANGED <<runner, accepted, queue>>
  BY ServerAssumption DEF HandlerReturns, TypeOK
<1>4. RunnerOwns' /\ QueueOwns'
  BY <1>1, <1>2, <1>3 DEF Owned, RunnerOwns, QueueOwns, Holding
<1>5. WorkerOwns'
  BY <1>1, <1>2, <1>3 DEF Owned, WorkerOwns, Idle
<1>6. OpenIsOwned'
  BY <1>1, <1>2, <1>3 DEF Owned, OpenIsOwned, Holding
<1> QED BY <1>2, <1>4, <1>5, <1>6 DEF Owned

\* A worker takes the connection at the head of the queue.
LEMMA WorkerTakes ==
    ASSUME TypeOK, Owned, NEW w \in Worker, Take(w)
    PROVE  Owned'
<1> DEFINE h == Head(queue)
<1>1. /\ queue # <<>> /\ queue \in Seq(Conn) /\ queue' = Tail(queue) /\ at[w] = "pop"
      /\ at'[w] = "start" /\ serving'[w] = h
      /\ \A u \in Worker : u # w => at'[u] = at[u] /\ serving'[u] = serving[u]
      /\ UNCHANGED <<runner, accepted, fd, closes>>
  BY DEF Take, TypeOK, fdVars
<1>2. /\ h = queue[1] /\ 1 \in DOMAIN queue
      /\ \A i \in DOMAIN queue' : i + 1 \in DOMAIN queue /\ i \in Nat /\ i + 1 # 1 /\ queue'[i] = queue[i + 1]
      /\ \A j \in DOMAIN queue : j = 1 \/ (j - 1 \in DOMAIN queue' /\ queue'[j - 1] = queue[j])
  BY <1>1, QueueFacts
<1>3. /\ h \in Conn /\ fd[h] = "open" /\ \A j \in DOMAIN queue : queue[j] = h => j = 1
      /\ \A u \in Worker : serving[u] # h
      /\ serving[w] \notin Conn
  BY <1>1, <1>2 DEF Owned, QueueOwns, WorkerOwns, Idle
<1>4. \A i \in DOMAIN queue' : queue'[i] # h
  BY <1>2, <1>3
<1> HIDE DEF h
<1>5. RunnerOwns'
  <2>1. Holding => accepted # h
    BY <1>2 DEF Owned, RunnerOwns
  <2> QED BY <1>1, <1>2, <2>1 DEF Owned, RunnerOwns, Holding
<1>6. QueueOwns'
  <2> SUFFICES ASSUME NEW i \in DOMAIN queue'
               PROVE  /\ queue'[i] \in Conn /\ fd[queue'[i]] = "open"
                      /\ \A j \in DOMAIN queue' : queue'[j] = queue'[i] => j = i
                      /\ \A u \in Worker : serving'[u] # queue'[i]
    BY <1>1 DEF QueueOwns
  <2>1. /\ queue'[i] \in Conn /\ fd[queue'[i]] = "open"
        /\ \A u \in Worker : serving[u] # queue'[i]
    BY <1>2 DEF Owned, QueueOwns
  <2>2. ASSUME NEW j \in DOMAIN queue', queue'[j] = queue'[i]
        PROVE  j = i
    <3>1. j + 1 = i + 1
      BY <1>2, <2>2 DEF Owned, QueueOwns
    <3> QED BY <1>2, <3>1
  <2> QED BY <1>1, <1>4, <2>1, <2>2
<1>7. WorkerOwns'
  BY <1>1, <1>3 DEF Owned, WorkerOwns, Idle
<1>8. OpenIsOwned'
  <2> SUFFICES ASSUME NEW c \in Conn, fd[c] = "open"
               PROVE  \/ Holding /\ accepted = c
                      \/ \E i \in DOMAIN queue' : queue'[i] = c
                      \/ \E u \in Worker : serving'[u] = c
    BY <1>1 DEF OpenIsOwned, Holding
  <2>1. CASE Holding /\ accepted = c
    BY <2>1
  <2>2. ASSUME NEW j \in DOMAIN queue, queue[j] = c
        PROVE  (\E i \in DOMAIN queue' : queue'[i] = c) \/ serving'[w] = c
    BY <1>1, <1>2, <2>2, Zenon
  <2>3. ASSUME NEW u \in Worker, serving[u] = c
        PROVE  serving'[u] = c
    BY <1>1, <1>3, <2>3
  <2> QED BY <2>1, <2>2, <2>3 DEF Owned, OpenIsOwned
<1> QED BY <1>1, <1>5, <1>6, <1>7, <1>8 DEF Owned, ClosedOnce

\* The accepting thread puts its connection into the queue.
LEMMA RunnerSubmits ==
    ASSUME TypeOK, Owned, Submit
    PROVE  Owned'
<1>1. /\ Holding /\ ~ Holding' /\ queue \in Seq(Conn) /\ queue' = Append(queue, accepted)
      /\ UNCHANGED <<at, serving, fd, closes>>
  BY DEF Submit, TypeOK, Holding, fdVars
<1>2. /\ accepted \in Conn /\ fd[accepted] = "open"
      /\ \A i \in DOMAIN queue : queue[i] # accepted
      /\ \A w \in Worker : serving[w] # accepted
  BY <1>1 DEF Owned, RunnerOwns
<1>3. PICK n : /\ DOMAIN queue' = DOMAIN queue \cup {n} /\ n \notin DOMAIN queue
               /\ queue'[n] = accepted /\ \A i \in DOMAIN queue : queue'[i] = queue[i]
  BY <1>1, <1>2, QueueFacts
<1>4. QueueOwns'
  BY <1>1, <1>2, <1>3 DEF Owned, QueueOwns
<1>5. OpenIsOwned'
  BY <1>1, <1>2, <1>3 DEF Owned, OpenIsOwned
<1> QED BY <1>1, <1>4, <1>5 DEF Owned, RunnerOwns, WorkerOwns, ClosedOnce

\* A connection is accepted: nobody had its descriptor before.
LEMMA RunnerAccepts ==
    ASSUME TypeOK, Owned, NEW c \in Conn, Accept(c)
    PROVE  Owned'
<1>1. /\ ~ Holding /\ Holding' /\ accepted' = c /\ fd[c] = "waiting" /\ fd'[c] = "open"
      /\ \A d \in Conn : d # c => fd'[d] = fd[d]
      /\ UNCHANGED <<queue, at, serving, closes>>
  BY DEF Accept, TypeOK, Holding, poolVars
<1>2. /\ \A i \in DOMAIN queue : queue[i] # c
      /\ \A w \in Worker : serving[w] # c
  BY <1>1 DEF Owned, QueueOwns, WorkerOwns
<1> QED BY <1>1, <1>2 DEF Owned, RunnerOwns, QueueOwns, WorkerOwns, OpenIsOwned, ClosedOnce

\* A client that connects waits in the backlog, where nobody owns it.
LEMMA ClientConnects ==
    ASSUME TypeOK, Owned, NEW c \in Conn, Connect(c)
    PROVE  Owned'
<1>1. /\ fd[c] = "none" /\ fd'[c] = "waiting"
      /\ \A d \in Conn : d # c => fd'[d] = fd[d]
      /\ UNCHANGED <<runner, accepted, queue, at, serving, closes>>
  BY DEF Connect, TypeOK, poolVars
<1> QED BY <1>1 DEF Owned, RunnerOwns, QueueOwns, WorkerOwns, OpenIsOwned, ClosedOnce, Holding

-----------------------------------------------------------------------------
\* No step changes who owns what except by handing it on or closing it.
LEMMA OwnedStep ==
    ASSUME TypeOK, Owned, Phases, [Next]_vars
    PROVE  Owned'
<1>1. CASE Main
  <2>1. UNCHANGED <<accepted, queue, serving, at, fd, closes>> /\ (Holding' <=> Holding)
    BY <1>1 DEF Phases, Main, Construct, Lookup, TryAddress, ListenFails, StartRunner, RequestStop,
       JoinRunner, Destroy, Destroyed, poolVars, fdVars, Holding
  <2> QED BY <2>1, Quiet
<1>2. CASE Signal
  BY <1>2, Quiet DEF Signal, poolVars, fdVars, Holding
<1>3. CASE TestStop \/ NothingAccepted \/ ShareHolder \/ Shutdown \/ RunReturns
  <2>1. UNCHANGED <<accepted, queue, serving, at, fd, closes>> /\ (Holding' <=> Holding)
    BY <1>3 DEF TestStop, NothingAccepted, ShareHolder, Shutdown, RunReturns, poolVars, fdVars, Holding
  <2> QED BY <2>1, Quiet
<1>4. CASE ConfigureFails \/ SubmitThrows
  BY <1>4, RunnerCloses DEF ConfigureFails, SubmitThrows, poolVars, Holding
<1>5. CASE \E c \in Conn : Accept(c)
  BY <1>5, RunnerAccepts
<1>6. CASE Submit
  BY <1>6, RunnerSubmits
<1>7. ASSUME NEW w \in Worker, Work(w)
      PROVE  Owned'
  <2>1. CASE Take(w)
    BY <2>1, WorkerTakes
  <2>2. CASE Exit(w)
    BY <2>2, Quiet DEF Exit, TypeOK, fdVars, Holding, Idle
  <2>3. ASSUME NEW place \in {"test", "recv", "send", "refuse"}, at[w] \notin Idle, Goto(w, place)
        PROVE  Owned'
    BY <2>3, Quiet DEF Goto, TypeOK, fdVars, Holding, Idle
  <2>4. ASSUME at[w] \notin Idle, HandlerReturns(w)
        PROVE  Owned'
    BY <2>4, WorkerCloses
  <2> QED BY <1>7, <2>1, <2>2, <2>3, <2>4, SMT, SMTT(30) DEF Work, Start, HandlerTests, Receive, Send, Fail, Idle
<1>8. CASE \E c \in Conn : Connect(c)
  BY <1>8, ClientConnects
<1>9. CASE UNCHANGED vars
  BY <1>9, Quiet DEF vars, Holding
<1> QED BY <1>1, <1>2, <1>3, <1>4, <1>5, <1>6, <1>7, <1>8, <1>9 DEF Next, Runner

\* Every step keeps the types.
LEMMA TypeStep ==
    ASSUME TypeOK, Owned, [Next]_vars
    PROVE  TypeOK'
<1>1. CASE Main
  <2>1. CASE Construct \/ Lookup \/ StartRunner \/ JoinRunner
    BY <2>1 DEF TypeOK, Construct, Lookup, StartRunner, JoinRunner, poolVars, fdVars
  <2>2. CASE TryAddress \/ ListenFails \/ Destroyed
    BY <2>2, ServerAssumption DEF TypeOK, TryAddress, ListenFails, Destroyed, poolVars, fdVars
  <2>3. CASE RequestStop \/ Destroy
    BY <2>3, Zenon DEF TypeOK, RequestStop, Destroy, poolVars, fdVars
  <2> QED BY <1>1, <2>1, <2>2, <2>3 DEF Main
<1>2. CASE Signal \/ TestStop \/ NothingAccepted \/ ShareHolder \/ Shutdown \/ RunReturns
  <2>1. CASE Signal \/ Shutdown
    BY <2>1, ZenonT(60) DEF TypeOK, Signal, Shutdown, setupVars, poolVars, fdVars
  <2>2. CASE TestStop
    BY <2>2 DEF TypeOK, TestStop, setupVars, poolVars, fdVars
  <2>3. CASE NothingAccepted \/ ShareHolder \/ RunReturns
    BY <2>3 DEF TypeOK, NothingAccepted, ShareHolder, RunReturns, setupVars, poolVars, fdVars
  <2> QED BY <1>2, <2>1, <2>2, <2>3
<1>3. CASE ConfigureFails \/ SubmitThrows
  <2>1. accepted \in Conn /\ fd[accepted] = "open" /\ CloseFd(accepted)
    BY <1>3 DEF Owned, RunnerOwns, Holding, ConfigureFails, SubmitThrows
  <2>2. fd' \in [Conn -> {"none", "waiting", "open", "closed"}] /\ closes' \in [Conn -> Nat]
    BY <2>1, CloseFacts
  <2> QED BY <1>3, <2>2 DEF TypeOK, ConfigureFails, SubmitThrows, setupVars, poolVars
<1>4. CASE \E c \in Conn : Accept(c) \/ Connect(c)
  BY <1>4, SMT, SMTT(60) DEF TypeOK, Accept, Connect, setupVars, poolVars
<1>5. CASE Submit
  <2>1. accepted \in Conn /\ queue \in Seq(Conn)
    BY <1>5 DEF Owned, RunnerOwns, Holding, Submit, TypeOK
  <2>2. queue' \in Seq(Conn) /\ Len(queue') = Len(queue) + 1 /\ Len(queue) \in Nat
    BY <1>5, <2>1, QueueFacts DEF Submit
  <2> QED BY <1>5, <2>2, ServerAssumption DEF TypeOK, Submit, setupVars, fdVars
<1>6. ASSUME NEW w \in Worker, Work(w)
      PROVE  TypeOK'
  <2>1. CASE Take(w)
    <3>1. /\ Head(queue) \in Conn /\ queue' \in Seq(Conn)
          /\ Len(queue') = Len(queue) - 1 /\ Len(queue) \in Nat
      BY <2>1 DEF TypeOK, Take
    <3> QED BY <2>1, <3>1, ServerAssumption DEF TypeOK, Take, setupVars, fdVars
  <2>2. CASE Exit(w)
    BY <2>2 DEF TypeOK, Exit, setupVars, fdVars
  <2>3. ASSUME NEW place \in InHandler, Goto(w, place)
        PROVE  TypeOK'
    BY <2>3 DEF TypeOK, Goto, setupVars, fdVars
  <2>4. ASSUME at[w] \notin Idle, HandlerReturns(w)
        PROVE  TypeOK'
    <3>1. serving[w] \in Conn /\ fd[serving[w]] = "open" /\ CloseFd(serving[w])
      BY <2>4 DEF Owned, WorkerOwns, HandlerReturns
    <3>2. fd' \in [Conn -> {"none", "waiting", "open", "closed"}] /\ closes' \in [Conn -> Nat]
      BY <3>1, CloseFacts
    <3> QED BY <2>4, <3>2 DEF TypeOK, HandlerReturns, setupVars
  <2> QED BY <1>6, <2>1, <2>2, <2>3, <2>4
          DEF Work, Start, HandlerTests, Receive, Send, Fail, Idle, InHandler
<1>7. CASE UNCHANGED vars
  BY <1>7 DEF TypeOK, vars
<1> QED BY <1>1, <1>2, <1>3, <1>4, <1>5, <1>6, <1>7 DEF Next, Runner

\* Every step keeps the order of the phases.
LEMMA PhasesStep ==
    ASSUME TypeOK, Phases, [Next]_vars
    PROVE  Phases'
<1>1. CASE Main
  BY <1>1, SMT, SMTT(30) DEF TypeOK, Phases, Main, Construct, Lookup, TryAddress, ListenFails, StartRunner, RequestStop,
     JoinRunner, Destroy, Destroyed, poolVars
<1>2. CASE Signal \/ (\E c \in Conn : Connect(c)) \/ UNCHANGED vars
  BY <1>2, SMT, SMTT(60) DEF Phases, Signal, Connect, setupVars, poolVars, vars
<1>3. CASE Runner
  BY <1>3 DEF TypeOK, Phases, Runner, TestStop, NothingAccepted, Accept, ConfigureFails, ShareHolder, Submit,
     SubmitThrows, Shutdown, RunReturns, setupVars, poolVars
<1>4. ASSUME NEW w \in Worker, Work(w)
      PROVE  Phases'
  <2>1. CASE Take(w)
    BY <2>1 DEF TypeOK, Phases, Take, setupVars
  <2>2. CASE Exit(w)
    BY <2>2 DEF TypeOK, Phases, Exit, setupVars
  <2>3. ASSUME NEW place \in InHandler, at[w] \notin Idle, Goto(w, place)
        PROVE  Phases'
    BY <2>3 DEF TypeOK, Phases, Goto, setupVars, Idle, InHandler
  <2>4. ASSUME at[w] \notin Idle, HandlerReturns(w)
        PROVE  Phases'
    BY <2>4 DEF TypeOK, Phases, HandlerReturns, setupVars, Idle
  <2> QED BY <1>4, <2>1, <2>2, <2>3, <2>4, SMT, SMTT(60)
          DEF Work, Start, HandlerTests, Receive, Send, Fail, Idle, InHandler
<1> QED BY <1>1, <1>2, <1>3, <1>4, SMT, SMTT(60) DEF Next

\* The invariant holds in every state of a server.
LEMMA Inductive == Spec => []IInv
<1>1. Init => IInv
  <2> SUFFICES ASSUME Init PROVE IInv
    OBVIOUS
  <2>1. TypeOK
    <3>1. queue \in Seq(Conn) /\ Len(queue) <= Capacity /\ tried \in 0 .. Addresses
      BY ServerAssumption DEF Init
    <3>2. /\ at \in [Worker -> InHandler \cup {"pop", "start", "exited"}]
          /\ serving \in [Worker -> Conn \cup {NoConn}]
          /\ fd \in [Conn -> {"none", "waiting", "open", "closed"}]
          /\ closes \in [Conn -> Nat]
      BY DEF Init
    <3> QED BY <3>1, <3>2, Zenon DEF Init, TypeOK
  <2>2. Owned
    BY ServerAssumption DEF Init, Owned, RunnerOwns, QueueOwns, WorkerOwns, OpenIsOwned, ClosedOnce, Holding, Idle
  <2>3. Phases
    BY DEF Init, Phases
  <2> QED BY <2>1, <2>2, <2>3 DEF IInv
<1>2. IInv /\ [Next]_vars => IInv'
  BY TypeStep, OwnedStep, PhasesStep DEF IInv
<1> QED BY <1>1, <1>2, PTL DEF Spec

\* The owners that the property counts are the ones of the invariant.
LEMMA OwnersCounted ==
    ASSUME IInv, NEW c \in Conn
    PROVE  Cardinality(Owners(c)) = IF fd[c] = "open" THEN 1 ELSE 0
<1> USE DEF IInv, Owned
<1>1. CASE fd[c] # "open"
  <2>1. Owners(c) = {}
    BY <1>1 DEF Owners, RunnerOwns, QueueOwns, WorkerOwns, Holding
  <2> QED BY <1>1, <2>1, FS_EmptySet
<1>2. CASE fd[c] = "open"
  <2>1. \E o : Owners(c) = {o}
    <3>1. CASE Holding /\ accepted = c
      <4>1. Owners(c) = {"runner"}
        BY <3>1 DEF Owners, RunnerOwns, Holding
      <4> QED BY <4>1, Zenon
    <3>2. ASSUME NEW i \in DOMAIN queue, queue[i] = c
          PROVE  Owners(c) = {<<"queue", i>>}
      <4>1. /\ ~ (Holding /\ accepted = c)
            /\ {j \in DOMAIN queue : queue[j] = c} = {i}
            /\ {w \in Worker : serving[w] = c} = {}
        BY <3>2 DEF RunnerOwns, QueueOwns
      <4> QED BY <4>1 DEF Owners, Holding
    <3>3. ASSUME NEW w \in Worker, serving[w] = c
          PROVE  Owners(c) = {<<"worker", w>>}
      <4>1. /\ ~ (Holding /\ accepted = c)
            /\ {j \in DOMAIN queue : queue[j] = c} = {}
            /\ {u \in Worker : serving[u] = c} = {w}
        BY <3>3 DEF RunnerOwns, QueueOwns, WorkerOwns
      <4> QED BY <4>1 DEF Owners, Holding
    <3> QED BY <1>2, <3>1, <3>2, <3>3, Zenon DEF OpenIsOwned
  <2> QED BY <1>2, <2>1, FS_Singleton, Zenon
<1> QED BY <1>1, <1>2

\* The steps that TaskPool does not see: they leave the pool and its users as they
\* were.
LEMMA PoolUnseen ==
    ASSUME UNCHANGED <<queue, closed, serving>>, \A w \in Worker : at'[w] = "exited" <=> at[w] = "exited",
           Returned' <=> Returned
    PROVE  UNCHANGED P!vars
<1>1. Left' = Left
  BY Zenon DEF Left
<1>2. Returned' = Returned
  BY Zenon DEF Returned
<1> QED BY <1>1, <1>2, Zenon DEF P!vars

\* All the workers have left: the pool is shut down.
LEMMA AllLeft ==
    ASSUME Phases, \A w \in Worker : at[w] = "exited"
    PROVE  closed /\ Left = Worker
<1>1. closed
  BY ServerAssumption DEF Phases
<1>2. Left = Worker
  BY Zenon DEF Left
<1> QED BY <1>1, <1>2

\* What main and the accepting thread do to the pool.
LEMMA UserSteps ==
    ASSUME TypeOK, Owned, Phases, Main \/ Runner
    PROVE  [P!Next]_P!vars
<1>1. CASE \/ Construct \/ Lookup \/ TryAddress \/ ListenFails \/ StartRunner \/ RequestStop \/ JoinRunner
           \/ TestStop \/ NothingAccepted \/ (\E c \in Conn : Accept(c))
           \/ ConfigureFails \/ ShareHolder \/ SubmitThrows
  <2>1. UNCHANGED <<queue, closed, serving, at>>
    BY <1>1, Zenon DEF Construct, Lookup, TryAddress, ListenFails, StartRunner, RequestStop, JoinRunner,
       TestStop, NothingAccepted, Accept, ConfigureFails, ShareHolder, SubmitThrows, poolVars
  <2>2. Returned' <=> Returned
    <3>1. CASE Construct \/ Lookup \/ TryAddress \/ ListenFails \/ StartRunner \/ RequestStop \/ JoinRunner
      BY <3>1 DEF Construct, Lookup, TryAddress, ListenFails, StartRunner, RequestStop, JoinRunner,
         Phases, Returned
    <3>2. CASE \/ TestStop \/ NothingAccepted \/ (\E c \in Conn : Accept(c))
               \/ ConfigureFails \/ ShareHolder \/ SubmitThrows
      BY <3>2 DEF TestStop, NothingAccepted, Accept, ConfigureFails, ShareHolder, SubmitThrows,
         setupVars, Returned
    <3> QED BY <1>1, <3>1, <3>2, SMT, SMTT(30)
  <2> QED BY <2>1, <2>2, PoolUnseen, Zenon
<1>2. CASE Destroy \/ Shutdown
  <2>1. closed' = TRUE /\ UNCHANGED <<queue, serving, at>>
    BY <1>2, Zenon DEF Destroy, Shutdown
  <2>2. Returned' <=> Returned
    BY <1>2 DEF Destroy, Shutdown, setupVars, Returned
  <2>3. Returned' = Returned /\ Left' = Left
    BY <2>1, <2>2, Zenon DEF Returned, Left
  <2>4. P!Close
    BY <2>1, <2>3, Zenon DEF P!Close
  <2> QED BY <2>4, Zenon DEF P!Next
<1>3. CASE Destroyed \/ RunReturns
  <2>1. UNCHANGED <<queue, closed, serving, at>> /\ \A w \in Worker : at[w] = "exited"
    BY <1>3, Zenon DEF Destroyed, RunReturns, poolVars
  <2>2. Returned' = TRUE
    BY <1>3, Zenon DEF Destroyed, RunReturns, Returned
  <2>3. Left' = Left
    BY <2>1, Zenon DEF Left
  <2>4. P!ShutdownReturns
    BY <2>1, <2>2, <2>3, AllLeft, Zenon DEF P!ShutdownReturns
  <2> QED BY <2>4, Zenon DEF P!Next
<1>4. CASE Submit
  <2>1. ~closed /\ accepted \in Conn
    BY <1>4 DEF Submit, Phases, Owned, RunnerOwns, Holding
  <2>2. /\ Len(queue) < Capacity /\ queue' = Append(queue, accepted)
        /\ UNCHANGED <<closed, at, serving, main>>
    BY <1>4, Zenon DEF Submit, setupVars
  <2>3. Returned' <=> Returned
    BY <1>4, <2>2 DEF Submit, Returned
  <2>4. Returned' = Returned /\ Left' = Left
    BY <2>2, <2>3, Zenon DEF Returned, Left
  <2>5. P!Accept(accepted)
    BY <2>1, <2>2, <2>4, Zenon DEF P!Accept
  <2> QED BY <2>1, <2>5, Zenon DEF P!Next
<1> QED BY <1>1, <1>2, <1>3, <1>4, Zenon DEF Main, Runner

\* What a worker does to it.
LEMMA WorkerSteps ==
    ASSUME TypeOK, Owned, Phases, NEW w \in Worker, Work(w)
    PROVE  [P!Next]_P!vars
<1>1. serving[w] \in Conn \cup {NoConn} /\ (serving[w] \in Conn <=> at[w] \notin Idle)
  BY Zenon DEF TypeOK, Owned, WorkerOwns
<1>2. CASE Take(w)
  <2>1. /\ at[w] = "pop" /\ queue # <<>> /\ queue' = Tail(queue)
        /\ serving' = [serving EXCEPT ![w] = Head(queue)] /\ UNCHANGED <<closed, main, runner>>
    BY <1>2, Zenon DEF Take, setupVars
  <2>2. Left' = Left /\ w \notin Left
    BY <1>2 DEF Take, TypeOK, Left
  <2>3. Returned' = Returned
    BY <2>1, Zenon DEF Returned
  <2>4. serving[w] = NoConn
    BY <1>1, <2>1 DEF Idle
  <2>5. P!Take(w)
    BY <2>1, <2>2, <2>3, <2>4, Zenon DEF P!Take, P!Free
  <2> QED BY <2>5, Zenon DEF P!Next
<1>3. CASE Exit(w)
  <2>1. at[w] = "pop" /\ queue = <<>> /\ closed /\ UNCHANGED <<queue, closed, serving, main, runner>>
    BY <1>3, Zenon DEF Exit, setupVars
  <2>2. Left' = Left \cup {w} /\ w \notin Left
    BY <1>3 DEF Exit, TypeOK, Left
  <2>3. Returned' = Returned
    BY <2>1, Zenon DEF Returned
  <2>4. serving[w] = NoConn
    BY <1>1, <2>1 DEF Idle
  <2>5. P!Leave(w)
    BY <2>1, <2>2, <2>3, <2>4, Zenon DEF P!Leave, P!Free
  <2> QED BY <2>5, Zenon DEF P!Next
<1>4. ASSUME NEW place \in InHandler, at[w] \notin Idle, Goto(w, place)
      PROVE  UNCHANGED P!vars
  <2>1. \A u \in Worker : at'[u] = "exited" <=> at[u] = "exited"
    BY <1>4 DEF Goto, TypeOK, InHandler, Idle
  <2>2. Returned' <=> Returned
    BY <1>4, Zenon DEF Goto, setupVars, Returned
  <2> QED BY <1>4, <2>1, <2>2, PoolUnseen, Zenon DEF Goto
<1>5. ASSUME at[w] \notin Idle, HandlerReturns(w)
      PROVE  P!Finish(w)
  <2>1. serving[w] # NoConn
    BY <1>1, <1>5, ServerAssumption
  <2>2. /\ serving' = [serving EXCEPT ![w] = NoConn] /\ UNCHANGED <<queue, closed, main, runner>>
        /\ at' = [at EXCEPT ![w] = "pop"]
    BY <1>5, Zenon DEF HandlerReturns, setupVars
  <2>3. Left' = Left
    BY <1>5, <2>2 DEF TypeOK, Idle, Left
  <2>4. Returned' = Returned
    BY <2>2, Zenon DEF Returned
  <2> QED BY <2>1, <2>2, <2>3, <2>4, Zenon DEF P!Finish
<1>6. \/ Take(w) \/ Exit(w)
      \/ at[w] \notin Idle /\ (HandlerReturns(w) \/ \E place \in InHandler : Goto(w, place))
  BY DEF Work, Start, HandlerTests, Receive, Send, Fail, Idle, InHandler
<1> QED BY <1>2, <1>3, <1>4, <1>5, <1>6, Zenon DEF P!Next

\* Every open descriptor of a connection has one owner among the accepting
\* thread, the queue and the workers, and each is closed at most once, whatever
\* fails in Server::run, submit or handle_client.
THEOREM OneOwnerAlways == Spec => []OneOwner
<1>1. IInv => OneOwner
  BY OwnersCounted, SMT, SMTT(30) DEF IInv, Owned, ClosedOnce, OneOwner
<1> QED BY <1>1, Inductive, PTL

\* The values of a sequence are at most as many as its places.
LEMMA AsManyAsPlaces ==
    ASSUME NEW S, NEW q \in Seq(S)
    PROVE  /\ IsFiniteSet({q[i] : i \in DOMAIN q})
           /\ Cardinality({q[i] : i \in DOMAIN q}) <= Len(q)
<1> DEFINE T == {q[i] : i \in DOMAIN q}
<1>1. Len(q) \in Nat /\ DOMAIN q = 1 .. Len(q) /\ q = [i \in 1 .. Len(q) |-> q[i]]
  OBVIOUS
<1>2. q \in Surjection(1 .. Len(q), T)
  BY <1>1 DEF Surjection
<1>3. IsFiniteSet(1 .. Len(q)) /\ Cardinality(1 .. Len(q)) = Len(q)
  <2>1. 1 \in Int /\ Len(q) \in Int
    BY <1>1
  <2>2. /\ IsFiniteSet(1 .. Len(q))
        /\ Cardinality(1 .. Len(q)) = IF 1 > Len(q) THEN 0 ELSE Len(q) - 1 + 1
    BY <2>1, FS_Interval, Zenon
  <2>3. (IF 1 > Len(q) THEN 0 ELSE Len(q) - 1 + 1) = Len(q)
    BY <1>1
  <2> QED BY <2>2, <2>3, SMT, SMTT(30)
<1> HIDE DEF T
<1>4. IsFiniteSet(T) /\ Cardinality(T) <= Cardinality(1 .. Len(q))
  BY <1>2, <1>3, FS_Surjection, Zenon
<1>5. Cardinality(T) <= Len(q)
  BY <1>3, <1>4, Zenon
<1> QED BY <1>4, <1>5, Zenon DEF T

\* At most queue_capacity accepted connections wait in the queue, and one more in
\* the hands of the accepting thread, for any number of connections and workers.
THEOREM BacklogBoundedAlways == Spec => []BacklogBounded
<1>1. IInv => BacklogBounded
  <2> SUFFICES ASSUME IInv PROVE BacklogBounded
    OBVIOUS
  <2> DEFINE Q == {queue[i] : i \in DOMAIN queue}
  <2>1. /\ queue \in Seq(Conn) /\ Len(queue) \in Nat /\ Len(queue) <= Capacity /\ Capacity \in Nat
    BY ServerAssumption DEF IInv, TypeOK
  <2>2. IsFiniteSet(Q) /\ Cardinality(Q) <= Len(queue) /\ Cardinality(Q) \in Nat
    BY <2>1, AsManyAsPlaces, FS_CardinalityType, Zenon
  <2>3. CASE ~Holding
    <3>1. Unstarted \subseteq Q
      BY <2>3, Zenon DEF Unstarted, IInv, Owned, OpenIsOwned
    <3>2. Cardinality(Unstarted) <= Cardinality(Q) /\ Cardinality(Unstarted) \in Nat
      BY <2>2, <3>1, FS_Subset, FS_CardinalityType
    <3> HIDE DEF Q
    <3> QED BY <2>1, <2>2, <2>3, <3>2 DEF BacklogBounded, Holding
  <2>4. CASE Holding
    <3>1. Unstarted \subseteq Q \cup {accepted}
      BY <2>4, Zenon DEF Unstarted, IInv, Owned, OpenIsOwned
    <3> HIDE DEF Q
    <3>2. IsFiniteSet(Q \cup {accepted}) /\ Cardinality(Q \cup {accepted}) <= Cardinality(Q) + 1
      <4>1. /\ IsFiniteSet(Q \cup {accepted})
            /\ Cardinality(Q \cup {accepted}) =
                 IF accepted \in Q THEN Cardinality(Q) ELSE Cardinality(Q) + 1
        BY <2>2, FS_AddElement, Zenon
      <4>2. Cardinality(Q) <= Cardinality(Q) + 1 /\ Cardinality(Q) + 1 <= Cardinality(Q) + 1
        BY <2>2
      <4> QED BY <4>1, <4>2, Zenon
    <3>3. /\ Cardinality(Unstarted) <= Cardinality(Q \cup {accepted}) /\ Cardinality(Unstarted) \in Nat
          /\ Cardinality(Q \cup {accepted}) \in Nat
      BY <3>1, <3>2, FS_Subset, FS_CardinalityType
    <3> QED BY <2>1, <2>2, <2>4, <3>2, <3>3 DEF BacklogBounded, Holding
  <2> QED BY <2>3, <2>4
<1> QED BY <1>1, Inductive, PTL

\* When main has left ~Server there is no open descriptor, no queued connection
\* and no running worker.
THEOREM NothingLeftAlways == Spec => []NothingLeft
<1>1. IInv => NothingLeft
  <2> SUFFICES ASSUME IInv, main = "exited" PROVE NothingLeft
    BY DEF NothingLeft
  <2>1. runner \in {"none", "returned"} /\ listener # "open" /\ \A w \in Worker : at[w] = "exited"
    BY DEF IInv, Phases
  <2>2. queue = <<>>
    BY <2>1, ServerAssumption DEF IInv, Phases
  <2> QED BY <2>1, <2>2 DEF NothingLeft, IInv, Owned, OpenIsOwned, WorkerOwns, Holding, Idle
<1> QED BY <1>1, Inductive, PTL

\* The pool inside the server is a TaskPool, which ThreadPool is proved to be: it
\* is asked for nothing once it is shut down, each connection it accepts is
\* handled by one worker, and run and ~Server go on only when it is drained.
THEOREM ServerUsesPool == Spec => UsesPool
<1>1. Init => P!Init
  <2> SUFFICES ASSUME Init PROVE P!Init
    OBVIOUS
  <2>1. Left = {}
    BY DEF Init, Left
  <2>2. Returned = FALSE
    BY DEF Init, Returned
  <2> QED BY <2>1, <2>2, Zenon DEF Init, P!Init
<1>2. IInv /\ [Next]_vars => [P!Next]_P!vars
  <2> SUFFICES ASSUME TypeOK, Owned, Phases, [Next]_vars PROVE [P!Next]_P!vars
    BY Zenon DEF IInv
  <2>1. CASE Signal \/ (\E c \in Conn : Connect(c)) \/ UNCHANGED vars
    <3>1. UNCHANGED <<queue, closed, serving, at, main, runner>>
      BY <2>1, Zenon DEF Signal, Connect, setupVars, poolVars, vars
    <3> QED BY <3>1, PoolUnseen, Zenon DEF Returned
  <2> QED BY <2>1, UserSteps, WorkerSteps, Zenon DEF Next
<1> QED BY <1>1, <1>2, Inductive, PTL DEF Spec, UsesPool, P!Spec

\* Nothing that TaskPool lets a worker do is held up by the server, and submit
\* never meets a pool that is shut down: "ERR overloaded" is not sent.
THEOREM PoolUnhinderedAlways == Spec => []PoolUnhindered
<1>1. IInv => PoolUnhindered
  <2> SUFFICES ASSUME TypeOK, Owned, Phases PROVE PoolUnhindered
    BY Zenon DEF IInv
  <2>1. ASSUME NEW w \in Worker, P!Free(w) PROVE at[w] = "pop"
    BY <2>1, ServerAssumption DEF P!Free, Left, Owned, WorkerOwns, Idle
  <2>2. runner = "submit" => ~closed
    BY DEF Phases
  <2> QED BY <2>1, <2>2, Zenon DEF PoolUnhindered
<1> QED BY <1>1, Inductive, PTL
=============================================================================
