------------------------------ MODULE PoolStats ------------------------------
(***************************************************************************)
(* A STATS request: the task a worker executes reads the pool's counters,  *)
(* submitted first and completed second, while the pool goes on.           *)
(***************************************************************************)
EXTENDS ThreadPool

VARIABLE stats      \* what each worker has read of the two counters

StatsInit == Init /\ stats = [w \in Worker |-> <<>>]

ReadSubmitted(w) ==
    /\ at[w] = "run" /\ stats[w] = <<>>
    /\ stats' = [stats EXCEPT ![w] = <<submitted>>]
    /\ UNCHANGED vars

ReadCompleted(w) ==
    /\ Len(stats[w]) = 1
    /\ stats' = [stats EXCEPT ![w] = Append(@, completed)]
    /\ UNCHANGED vars

\* A worker between the two reads is inside its task.
PoolGoesOn ==
    /\ Next
    /\ \A w \in Worker : Len(stats[w]) = 1 => at'[w] = "run"
    /\ UNCHANGED stats

StatsNext == PoolGoesOn \/ \E w \in Worker : ReadSubmitted(w) \/ ReadCompleted(w)

\* submit's comment: the count is published before the push, "otherwise a
\* concurrent STATS read can transiently observe completed > submitted".  No
\* STATS answer shows more completed than submitted tasks.
StatsNeverAhead == \A w \in Worker : Len(stats[w]) = 2 => stats[w][2] <= stats[w][1]
=============================================================================
