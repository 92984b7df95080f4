----------------------------- MODULE MCPoolStats -----------------------------
(* PoolStats for TLC: one client, each task submitted at most once. *)
EXTENDS PoolStats

NotAgain ==
    \A c \in Client : task'[c] # task[c] /\ task'[c] # NoTask =>
        /\ \A i \in DOMAIN pushed : pushed[i] # task'[c]
        /\ \A t \in Thread : item[t] # task'[c]

MCStatsSpec == StatsInit /\ [][StatsNext /\ NotAgain]_<<vars, stats>>
=============================================================================
