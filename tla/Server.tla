-------------------------------- MODULE Server --------------------------------
(***************************************************************************)
(* The life of a server process: the constructor and open_listener, the    *)
(* accepting thread in Server::run, the workers in handle_client, main     *)
(* with its signal handler, and the destructor.  What matters is who owns  *)
(* which descriptor and who waits for whom.  The pool is what ThreadPool   *)
(* shows it to be: a bounded queue that is drained before shutdown         *)
(* returns.  Clients may do anything that the results of system calls can  *)
(* express.                                                                *)
(***************************************************************************)
EXTENDS Integers, Sequences, FiniteSets

CONSTANTS
    Conn,       \* connections, each with its descriptor
    Worker,
    Capacity,   \* options_.queue_capacity
    Addresses,  \* how many addresses getaddrinfo returns
    NoConn

ASSUME ServerAssumption ==
    /\ Capacity \in Nat \ {0} /\ Addresses \in Nat
    /\ Worker # {} /\ NoConn \notin Conn

VARIABLES
    main,       \* where the main thread is
    listener,   \* listener_: none, open or closed
    tried,      \* the addresses open_listener has gone through
    runner,     \* where the accepting thread is,
    accepted,   \* and the connection it holds
    stop,       \* stop_requested_ of the server
    signal,     \* stop_requested of main, set by the signal handler
    queue,      \* connections whose task is in the pool's queue
    closed,     \* the pool is shut down
    at,         \* where each worker is,
    serving,    \* and the connection of its task
    fd,         \* the descriptor of each connection: none, waiting, open, closed
    closes      \* how often each was closed

vars == <<main, listener, tried, runner, accepted, stop, signal, queue, closed,
          at, serving, fd, closes>>

setupVars == <<main, listener, tried>>
poolVars == <<queue, closed, at, serving>>
fdVars == <<fd, closes>>

Init ==
    /\ main = "construct" /\ listener = "none" /\ tried = 0
    /\ runner = "none" /\ accepted = NoConn
    /\ stop = FALSE /\ signal = FALSE
    /\ queue = <<>> /\ closed = FALSE
    /\ at = [w \in Worker |-> "pop"] /\ serving = [w \in Worker |-> NoConn]
    /\ fd = [c \in Conn |-> "none"] /\ closes = [c \in Conn |-> 0]

\* UniqueFd::reset and the destructor.
CloseFd(c) ==
    /\ fd' = [fd EXCEPT ![c] = "closed"]
    /\ closes' = [closes EXCEPT ![c] = @ + 1]

-----------------------------------------------------------------------------
(* Construction and main.                                                  *)

\* max_payload is refused, or the log cannot be opened or recovered; otherwise
\* open_listener is called.
Construct ==
    /\ main = "construct"
    /\ main' \in {"lookup", "destroy"}
    /\ UNCHANGED <<listener, tried, runner, accepted, stop, signal, poolVars, fdVars>>

\* getaddrinfo
Lookup ==
    /\ main = "lookup"
    /\ main' \in {"listen", "destroy"}
    /\ UNCHANGED <<listener, tried, runner, accepted, stop, signal, poolVars, fdVars>>

\* One address: some call fails and its socket is closed, or it is listened to.
TryAddress ==
    /\ main = "listen" /\ listener = "none" /\ tried < Addresses
    /\ tried' = tried + 1
    /\ listener' \in {"none", "open"}
    /\ UNCHANGED <<main, runner, accepted, stop, signal, poolVars, fdVars>>

\* No address could be used, or getsockname fails and the listener is closed.
ListenFails ==
    /\ main = "listen"
    /\ \/ listener = "none" /\ tried = Addresses /\ UNCHANGED listener
       \/ listener = "open" /\ listener' = "closed"
    /\ main' = "destroy"
    /\ UNCHANGED <<tried, runner, accepted, stop, signal, poolVars, fdVars>>

\* The server is ready: main starts the accepting thread.
StartRunner ==
    /\ main = "listen" /\ listener = "open"
    /\ main' = "wait" /\ runner' = "test"
    /\ UNCHANGED <<listener, tried, accepted, stop, signal, poolVars, fdVars>>

Signal ==
    /\ main = "wait" /\ ~signal
    /\ signal' = TRUE
    /\ UNCHANGED <<setupVars, runner, accepted, stop, poolVars, fdVars>>

\* main sees the signal, or that run has returned, and calls request_stop.
RequestStop ==
    /\ main = "wait" /\ (signal \/ runner = "returned")
    /\ stop' = TRUE /\ main' = "join"
    /\ UNCHANGED <<listener, tried, runner, accepted, signal, poolVars, fdVars>>

JoinRunner ==
    /\ main = "join" /\ runner = "returned"
    /\ main' = "destroy"
    /\ UNCHANGED <<listener, tried, runner, accepted, stop, signal, poolVars, fdVars>>

\* ~Server: request_stop and pool_.shutdown,
Destroy ==
    /\ main = "destroy"
    /\ stop' = TRUE /\ closed' = TRUE /\ main' = "destroying"
    /\ UNCHANGED <<listener, tried, runner, accepted, signal, queue, at, serving, fdVars>>

\* which joins the workers, and then the members.
Destroyed ==
    /\ main = "destroying" /\ \A w \in Worker : at[w] = "exited"
    /\ main' = "exited"
    /\ listener' = IF listener = "open" THEN "closed" ELSE listener
    /\ UNCHANGED <<tried, runner, accepted, stop, signal, poolVars, fdVars>>

Main ==
    \/ Construct \/ Lookup \/ TryAddress \/ ListenFails \/ StartRunner
    \/ RequestStop \/ JoinRunner \/ Destroy \/ Destroyed

-----------------------------------------------------------------------------
(* The accepting thread.                                                   *)

\* while (!stop_requested_)
TestStop ==
    /\ runner = "test"
    /\ runner' = IF stop THEN "shutdown" ELSE "poll"
    /\ UNCHANGED <<setupVars, accepted, stop, signal, poolVars, fdVars>>

\* Nothing to accept, or accept() fails; the listener itself may fail for good.
NothingAccepted ==
    /\ runner = "poll"
    /\ runner' \in {"test", "shutdown"}
    /\ UNCHANGED <<setupVars, accepted, stop, signal, poolVars, fdVars>>

Accept(c) ==
    /\ runner = "poll" /\ fd[c] = "waiting"
    /\ fd' = [fd EXCEPT ![c] = "open"]
    /\ accepted' = c /\ runner' = "configure"
    /\ UNCHANGED <<setupVars, stop, signal, poolVars, closes>>

\* The descriptor cannot be configured: it is closed and the loop goes on.
ConfigureFails ==
    /\ runner = "configure"
    /\ CloseFd(accepted)
    /\ accepted' = NoConn /\ runner' = "test"
    /\ UNCHANGED <<setupVars, stop, signal, poolVars>>

\* The descriptor goes into the holder that thread and task share.
ShareHolder ==
    /\ runner = "configure"
    /\ runner' = "submit"
    /\ UNCHANGED <<setupVars, accepted, stop, signal, poolVars, fdVars>>

\* The pool's queue takes whatever it is given.
SubmitUnbounded ==
    /\ runner = "submit"
    /\ queue' = Append(queue, accepted)
    /\ accepted' = NoConn /\ runner' = "test"
    /\ UNCHANGED <<setupVars, stop, signal, closed, at, serving, fdVars>>

\* submit returns true; the thread's share of the holder ends.  It would return
\* false only from a pool that is shut down, which this thread does itself: the
\* answer "ERR overloaded" is never given.
Submit ==
    /\ runner = "submit" /\ Len(queue) < Capacity
    /\ queue' = Append(queue, accepted)
    /\ accepted' = NoConn /\ runner' = "test"
    /\ UNCHANGED <<setupVars, stop, signal, closed, at, serving, fdVars>>

\* The descriptor is left to nobody when an exception ends the loop.
SubmitThrowsLeak ==
    /\ runner \in {"configure", "submit"}
    /\ accepted' = NoConn /\ runner' = "shutdown"
    /\ UNCHANGED <<setupVars, stop, signal, poolVars, fdVars>>

\* make_shared or submit throws: the holder closes, the loop ends.
SubmitThrows ==
    /\ runner \in {"configure", "submit"}
    /\ CloseFd(accepted)
    /\ accepted' = NoConn /\ runner' = "shutdown"
    /\ UNCHANGED <<setupVars, stop, signal, poolVars>>

\* pool_.shutdown()
Shutdown ==
    /\ runner = "shutdown"
    /\ closed' = TRUE /\ runner' = "joining"
    /\ UNCHANGED <<setupVars, accepted, stop, signal, queue, at, serving, fdVars>>

RunReturns ==
    /\ runner = "joining" /\ \A w \in Worker : at[w] = "exited"
    /\ runner' = "returned"
    /\ UNCHANGED <<setupVars, accepted, stop, signal, poolVars, fdVars>>

Runner ==
    \/ TestStop \/ NothingAccepted \/ (\E c \in Conn : Accept(c))
    \/ ConfigureFails \/ ShareHolder \/ Submit \/ SubmitThrows
    \/ Shutdown \/ RunReturns

-----------------------------------------------------------------------------
(* The workers.                                                            *)

Take(w) ==
    /\ at[w] = "pop" /\ queue # <<>>
    /\ serving' = [serving EXCEPT ![w] = Head(queue)]
    /\ queue' = Tail(queue)
    /\ at' = [at EXCEPT ![w] = "start"]
    /\ UNCHANGED <<setupVars, runner, accepted, stop, signal, closed, fdVars>>

Exit(w) ==
    /\ at[w] = "pop" /\ queue = <<>> /\ closed
    /\ at' = [at EXCEPT ![w] = "exited"]
    /\ UNCHANGED <<setupVars, runner, accepted, stop, signal, queue, closed, serving, fdVars>>

Goto(w, place) ==
    /\ at' = [at EXCEPT ![w] = place]
    /\ UNCHANGED <<setupVars, runner, accepted, stop, signal, queue, closed, serving, fdVars>>

\* handle_client ends: its UniqueFd closes, then the task and its holder go.
HandlerReturns(w) ==
    /\ CloseFd(serving[w])
    /\ at' = [at EXCEPT ![w] = "pop"]
    /\ serving' = [serving EXCEPT ![w] = NoConn]
    /\ UNCHANGED <<setupVars, runner, accepted, stop, signal, queue, closed>>

\* The holder keeps the descriptor and closes it too.
StartCopies(w) ==
    /\ at[w] = "start"
    /\ fd[serving[w]] = "open"
    /\ closes' = [closes EXCEPT ![serving[w]] = @ + 1]
    /\ at' = [at EXCEPT ![w] = "test"]
    /\ UNCHANGED <<setupVars, runner, accepted, stop, signal, queue, closed, serving, fd>>

\* client->release(): the holder is empty from now on.
Start(w) == at[w] = "start" /\ Goto(w, "test")

\* The flag is not looked at while frames keep coming.
TestStopForgotten(w) == at[w] = "test" /\ Goto(w, "recv")

\* while (!stop_requested_)
HandlerTests(w) ==
    /\ at[w] = "test"
    /\ IF stop THEN HandlerReturns(w) ELSE Goto(w, "recv")

\* A frame arrives, or is refused as too large.
Receive(w) == at[w] = "recv" /\ (Goto(w, "send") \/ Goto(w, "refuse"))

\* The answer is sent; after a refusal this was the last one.
Send(w) ==
    \/ at[w] = "send" /\ Goto(w, "test")
    \/ at[w] = "refuse" /\ HandlerReturns(w)

\* The read or the write times out or fails, or something throws.
Fail(w) == at[w] \in {"recv", "send"} /\ HandlerReturns(w)

Work(w) ==
    Take(w) \/ Exit(w) \/ Start(w) \/ HandlerTests(w) \/ Receive(w) \/ Send(w) \/ Fail(w)

-----------------------------------------------------------------------------
\* A client connects while the listener is there.
Connect(c) ==
    /\ fd[c] = "none" /\ listener = "open"
    /\ fd' = [fd EXCEPT ![c] = "waiting"]
    /\ UNCHANGED <<setupVars, runner, accepted, stop, signal, poolVars, closes>>

Next ==
    \/ Main \/ Signal \/ Runner
    \/ \E w \in Worker : Work(w)
    \/ \E c \in Conn : Connect(c)

\* Threads are scheduled and every system call ends: the descriptors have
\* timeouts and poll() waits for at most 100 ms.
Spec ==
    /\ Init /\ [][Next]_vars
    /\ WF_vars(Main) /\ WF_vars(Runner)
    /\ \A w \in Worker : WF_vars(Work(w))

-----------------------------------------------------------------------------
InHandler == {"test", "recv", "send", "refuse"}

\* Who would close this descriptor: the accepting thread, a task that is being
\* submitted, is queued or was just taken, or a handler.
Owners(c) ==
    (IF runner \in {"configure", "submit"} /\ accepted = c THEN {"runner"} ELSE {})
    \cup {<<"queue", i>> : i \in {i \in DOMAIN queue : queue[i] = c}}
    \cup {<<"worker", w>> : w \in {w \in Worker : serving[w] = c}}

\* Types.
TypeOK ==
    /\ main \in {"construct", "lookup", "listen", "wait", "join", "destroy", "destroying", "exited"}
    /\ listener \in {"none", "open", "closed"} /\ tried \in 0 .. Addresses
    /\ runner \in {"none", "test", "poll", "configure", "submit", "shutdown", "joining", "returned"}
    /\ accepted \in Conn \cup {NoConn}
    /\ stop \in BOOLEAN /\ signal \in BOOLEAN /\ closed \in BOOLEAN
    /\ queue \in Seq(Conn) /\ Len(queue) <= Capacity
    /\ at \in [Worker -> InHandler \cup {"pop", "start", "exited"}]
    /\ serving \in [Worker -> Conn \cup {NoConn}]
    /\ fd \in [Conn -> {"none", "waiting", "open", "closed"}] /\ closes \in [Conn -> Nat]

\* "Every connection has one descriptor owner", and "close every descriptor
\* exactly once and survive failures on every syscall path": an open descriptor
\* has exactly one owner, one that is not open has none, and none was closed
\* twice.  Nobody reads from a descriptor that may belong to another connection.
OneOwner ==
    /\ TypeOK
    /\ \A c \in Conn :
         /\ Cardinality(Owners(c)) = IF fd[c] = "open" THEN 1 ELSE 0
         /\ closes[c] = IF fd[c] = "closed" THEN 1 ELSE 0

\* The connections that are accepted and that no worker has taken.
Unstarted == {c \in Conn : fd[c] = "open" /\ \A w \in Worker : serving[w] # c}

\* "Queue capacity bounds accepted-but-not-started work": however slow the
\* workers are, at most queue_capacity accepted connections wait for one, and one
\* more only while the accepting thread has it in its hands.
BacklogBounded ==
    Cardinality(Unstarted) <= Capacity + IF runner \in {"configure", "submit"} THEN 1 ELSE 0

\* A server that is gone has left no descriptor, no thread and no queued
\* connection behind, whether it was stopped, failed or was never ready.
NothingLeft ==
    main = "exited" =>
        /\ listener # "open" /\ runner \in {"none", "returned"}
        /\ queue = <<>> /\ \A w \in Worker : at[w] = "exited"
        /\ \A c \in Conn : fd[c] # "open"

Left == {w \in Worker : at[w] = "exited"}
Returned == runner = "returned" \/ main = "exited"

P == INSTANCE TaskPool
     WITH Task <- Conn, NoTask <- NoConn, hand <- serving, left <- Left, drained <- Returned

\* The server's pool is the one that ThreadPool promises: the accepting thread
\* never submits to a pool that is shut down, and run and the destructor go on
\* only when the handlers of all accepted connections have ended.
UsesPool == P!Spec

\* And the server holds the pool back nowhere: a worker that TaskPool lets take a
\* task or leave is one that Take and Exit let, and a submit under way finds the
\* pool open, so that it only ever waits for room.
PoolUnhindered ==
    /\ \A w \in Worker : P!Free(w) => at[w] = "pop"
    /\ runner = "submit" => ~closed

\* "support clean startup, cancellation, shutdown": after a signal the process
\* ends, although the accepting thread may be waiting for room in the queue, every
\* worker for its client, and clients may go on sending for ever.  Without one a
\* server whose constructor failed or whose loop broke off ends as well, unless a
\* client keeps its worker busy for ever: stop_requested_ is not set while the
\* pool waits for the handlers.
ProcessEnds ==
    /\ signal ~> main = "exited"
    /\ main = "destroy" \/ runner = "shutdown" ~>
           main = "exited" \/ []<>(\E w \in Worker : at[w] = "send")
=============================================================================
