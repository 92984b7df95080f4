-------------------------------- MODULE Bench --------------------------------
(***************************************************************************)
(* netforge-bench: every worker connects, warms up and measures its share  *)
(* of the requests; main joins the workers, puts their samples together    *)
(* and reports only if nothing failed.  A list of samples is modelled by   *)
(* its length, and a worker's ping by its result: Conversation has the     *)
(* frames behind it.                                                       *)
(***************************************************************************)
EXTENDS Integers

CONSTANTS
    RequestCount, Concurrency, Warmup,  \* the arguments
    Addresses                           \* how many addresses getaddrinfo returns

Worker == 0 .. (Concurrency - 1)

\* worker_request_count
Share(w) == RequestCount \div Concurrency + (IF w < RequestCount % Concurrency THEN 1 ELSE 0)

\* The rank of a percentile among n samples.
Rank(percent, n) ==
    LET rank == (percent * n + 99) \div 100 IN IF rank < 1 THEN 1 ELSE rank

VARIABLES
    main,       \* where main is,
    next,       \* and the worker its loop has come to
    at,         \* where each worker is
    tried,      \* addresses it has gone through
    warmed,     \* pings it has made to warm up
    samples,    \* samples it has taken
    failures,   \* the shared counter
    merged      \* samples that main has put together

vars == <<main, next, at, tried, warmed, samples, failures, merged>>

Init ==
    /\ main = "spawn" /\ next = 0 /\ failures = 0 /\ merged = 0
    /\ at = [w \in Worker |-> "none"]
    /\ tried = [w \in Worker |-> 0] /\ warmed = [w \in Worker |-> 0]
    /\ samples = [w \in Worker |-> 0]

Spawn ==
    /\ main = "spawn" /\ next < Concurrency
    /\ at' = [at EXCEPT ![next] = "connect"] /\ next' = next + 1
    /\ UNCHANGED <<main, tried, warmed, samples, failures, merged>>

\* A thread cannot be started: the exception leaves main.
SpawnThrows ==
    /\ main = "spawn" /\ next < Concurrency
    /\ main' = "aborted"
    /\ UNCHANGED <<next, at, tried, warmed, samples, failures, merged>>

-----------------------------------------------------------------------------
(* A worker.                                                               *)

Goto(w, place) ==
    /\ at' = [at EXCEPT ![w] = place]
    /\ UNCHANGED <<main, next, samples, merged>>

\* failures.fetch_add(1) and return.
Fail(w) ==
    /\ Goto(w, "failed")
    /\ failures' = failures + 1
    /\ UNCHANGED <<tried, warmed>>

\* connect_to: one address, which cannot be used or is connected to.
TryAddress(w) ==
    /\ at[w] = "connect" /\ tried[w] < Addresses
    /\ \/ Goto(w, "warmup") /\ UNCHANGED tried
       \/ Goto(w, "connect") /\ tried' = [tried EXCEPT ![w] = @ + 1]
    /\ UNCHANGED <<warmed, failures>>

\* getaddrinfo fails, or no address is left.
NotConnected(w) ==
    /\ at[w] = "connect" /\ tried[w] \in {0, Addresses}
    /\ Fail(w)

WarmUp(w) ==
    /\ at[w] = "warmup" /\ warmed[w] < Warmup
    /\ warmed' = [warmed EXCEPT ![w] = @ + 1]
    /\ UNCHANGED <<main, next, at, tried, samples, failures, merged>>

StartMeasuring(w) ==
    /\ at[w] = "warmup" /\ warmed[w] = Warmup
    /\ Goto(w, "measure")
    /\ UNCHANGED <<tried, warmed, failures>>

Measure(w) ==
    /\ at[w] = "measure" /\ samples[w] < Share(w)
    /\ samples' = [samples EXCEPT ![w] = @ + 1]
    /\ UNCHANGED <<main, next, at, tried, warmed, failures, merged>>

\* The answer is not PONG, or does not come.
PingFails(w) ==
    /\ \/ at[w] = "warmup" /\ warmed[w] < Warmup
       \/ at[w] = "measure" /\ samples[w] < Share(w)
    /\ Fail(w)

Finish(w) ==
    /\ at[w] = "measure" /\ samples[w] = Share(w)
    /\ Goto(w, "done")
    /\ UNCHANGED <<tried, warmed, failures>>

Work(w) ==
    /\ main # "aborted"
    /\ \/ TryAddress(w) \/ NotConnected(w) \/ WarmUp(w) \/ StartMeasuring(w)
       \/ Measure(w) \/ PingFails(w) \/ Finish(w)

-----------------------------------------------------------------------------
\* workers.clear() joins them.
Join ==
    /\ main = "spawn" /\ next = Concurrency
    /\ \A w \in Worker : at[w] \in {"done", "failed"}
    /\ main' = "merge" /\ next' = 0
    /\ UNCHANGED <<at, tried, warmed, samples, failures, merged>>

Merge ==
    /\ main = "merge" /\ next < Concurrency
    /\ merged' = merged + samples[next] /\ next' = next + 1
    /\ UNCHANGED <<main, at, tried, warmed, samples, failures>>

Verdict ==
    /\ main = "merge" /\ next = Concurrency
    /\ main' = IF failures # 0 \/ merged # RequestCount THEN "failed" ELSE "report"
    /\ UNCHANGED <<next, at, tried, warmed, samples, failures, merged>>

Next ==
    \/ Spawn \/ SpawnThrows \/ Join \/ Merge \/ Verdict
    \/ \E w \in Worker : Work(w)

Spec == Init /\ [][Next]_vars

-----------------------------------------------------------------------------
\* A report is about exactly the requests that were asked for, every worker having
\* made its share of them, and it is refused only if some worker failed: the
\* count of samples never decides by itself.
ReportIsComplete ==
    /\ main = "report" => /\ merged = RequestCount
                          /\ \A w \in Worker : samples[w] = Share(w)
    /\ main = "failed" => \E w \in Worker : at[w] = "failed"

\* The requests of the workers before w.
Offset(w) ==
    w * (RequestCount \div Concurrency)
        + (IF w < RequestCount % Concurrency THEN w ELSE RequestCount % Concurrency)

\* A worker that is done has taken its share, a failure is counted, and without
\* one main has put together the shares up to the worker it has come to.
IInv ==
    /\ main \in {"spawn", "merge", "failed", "report", "aborted"}
    /\ next \in 0 .. Concurrency
    /\ at \in [Worker -> {"none", "connect", "warmup", "measure", "done", "failed"}]
    /\ samples \in [Worker -> Nat] /\ failures \in Nat /\ merged \in Nat
    /\ \A w \in Worker : at[w] = "done" => samples[w] = Share(w)
    /\ failures # 0 <=> \E w \in Worker : at[w] = "failed"
    /\ main \in {"merge", "failed", "report"} => \A w \in Worker : at[w] \in {"done", "failed"}
    /\ main = "spawn" => merged = 0 /\ \A w \in Worker : w >= next => at[w] = "none"
    /\ main = "merge" /\ failures = 0 => merged = Offset(next)
    /\ ReportIsComplete

=============================================================================
