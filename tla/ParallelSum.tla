------------------------------ MODULE ParallelSum ------------------------------
(***************************************************************************)
(* parallel_sum of the parallelism lab: the items are divided among        *)
(* threads, each thread adds up its range, and the caller adds up what the *)
(* threads left behind.  A sum modulo 2^64 depends only on how often each  *)
(* item was added, so a sum is modelled by these counts.                   *)
(***************************************************************************)
EXTENDS Integers

CONSTANTS
    ItemCount, ThreadCount,
    Modulus     \* 2^64: the products of the partition are computed in 64 bits

WorkersToUse == IF ItemCount < ThreadCount THEN ItemCount ELSE ThreadCount

Worker == 0 .. (WorkersToUse - 1)

\* begin of a worker's range; its end is the begin of the next one.
Begin(worker) == ((ItemCount * worker) % Modulus) \div WorkersToUse
End(worker) == Begin(worker + 1)

VARIABLES
    main,       \* where the caller is
    next,       \* the worker its loop has come to
    running,    \* the threads that were started and have not ended
    partials,   \* how often each worker has added each item
    total       \* how often each item is in the total

vars == <<main, next, running, partials, total>>

\* The sum of the first n items, and of a worker's range.
First(n) == [v \in Nat |-> IF v < n THEN 1 ELSE 0]
RangeOf(w) == [v \in Nat |-> IF Begin(w) <= v /\ v < End(w) THEN 1 ELSE 0]
Nothing == First(0)

Init ==
    /\ main = "start" /\ next = 0 /\ running = {}
    /\ partials = [w \in Worker |-> Nothing] /\ total = Nothing

\* No thread at all is an error, no item is a sum of nothing.
Start ==
    /\ main = "start"
    /\ main' = IF ThreadCount = 0 THEN "throw" ELSE IF ItemCount = 0 THEN "return" ELSE "spawn"
    /\ UNCHANGED <<next, running, partials, total>>

Spawn ==
    /\ main = "spawn" /\ next < WorkersToUse
    /\ running' = running \cup {next} /\ next' = next + 1
    /\ UNCHANGED <<main, partials, total>>

\* A thread cannot be started: those that were are joined by their destructors.
SpawnFails ==
    /\ main = "spawn" /\ next < WorkersToUse
    /\ main' = "unwind"
    /\ UNCHANGED <<next, running, partials, total>>

Unwind ==
    /\ main = "unwind" /\ running = {}
    /\ main' = "throw"
    /\ UNCHANGED <<next, running, partials, total>>

\* partials[worker] = sum_range(begin, end), and the thread ends.
SumRange(w) ==
    /\ w \in running
    /\ partials' = [partials EXCEPT ![w] = RangeOf(w)]
    /\ running' = running \ {w}
    /\ UNCHANGED <<main, next, total>>

Join ==
    /\ main = "spawn" /\ next = WorkersToUse /\ running = {}
    /\ main' = "add" /\ next' = 0
    /\ UNCHANGED <<running, partials, total>>

Add ==
    /\ main = "add" /\ next < WorkersToUse
    /\ total' = [v \in Nat |-> total[v] + partials[next][v]]
    /\ next' = next + 1
    /\ UNCHANGED <<main, running, partials>>

Return ==
    /\ main = "add" /\ next = WorkersToUse
    /\ main' = "return"
    /\ UNCHANGED <<next, running, partials, total>>

Next ==
    \/ Start \/ Spawn \/ SpawnFails \/ Unwind \/ Join \/ Add \/ Return
    \/ \E w \in Worker : SumRange(w)

Spec == Init /\ [][Next]_vars

-----------------------------------------------------------------------------
\* "Partition [0, item_count) into at most thread_count non-overlapping ranges":
\* what parallel_sum returns has every item in it, once, whatever the number of
\* threads and the order in which they end; and no thread is left behind.
EachItemOnce ==
    main = "return" =>
        running = {} /\ total = First(ItemCount)

\* A worker's partial sum is its range as soon as it has ended; the total is that
\* of the ranges up to the one the caller's loop has come to.
IInv ==
    /\ main \in {"start", "spawn", "unwind", "add", "return", "throw"}
    /\ next \in 0 .. WorkersToUse /\ running \subseteq Worker
    /\ main = "start" => next = 0
    /\ main \in {"spawn", "unwind", "add"} => ItemCount # 0 /\ ThreadCount # 0
    /\ partials \in [Worker -> [Nat -> Nat]]
    /\ main \in {"start", "add", "return", "throw"} => running = {}
    /\ main = "spawn" => \A w \in Worker :
                            w < next /\ w \notin running => partials[w] = RangeOf(w)
    /\ main = "add" => \A w \in Worker : partials[w] = RangeOf(w)
    /\ main \in {"start", "spawn"} => total = Nothing
    /\ main = "add" => total = First(Begin(next))
    /\ EachItemOnce

=============================================================================
