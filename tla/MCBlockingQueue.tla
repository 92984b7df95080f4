-------------------------- MODULE MCBlockingQueue --------------------------
(***************************************************************************)
(* BlockingQueue for TLC: every thread may push, pop or close; each value  *)
(* is in flight once, which bounds the pushes, the ones that throw         *)
(* included, by the number of values.                                      *)
(* The queue does not look at values, so a push may as well take any one   *)
(* that is left.                                                           *)
(***************************************************************************)
EXTENDS BlockingQueue

Fresh ==
    {v \in Value : /\ \A i \in DOMAIN pushed : pushed[i] # v
                   /\ \A t \in Thread : item[t] # v}

MCNext ==
    \E t \in Thread :
        \/ Cardinality(Fresh) > throws /\ Push(t, CHOOSE v \in Fresh : TRUE)
        \/ Pop(t)
        \/ ~closed /\ Close(t)
        \/ Step(t)
        \/ SpuriousWake(t)
        \/ Return(t)

\* A thread inside a call is eventually scheduled and gets the mutex.  Nothing
\* is assumed about spurious wakeups or about callers calling again.
MCSpec == Init /\ [][MCNext]_vars /\ \A t \in Thread : WF_vars(Step(t))

\* Consumers do not stay in pop for ever beside values that nobody takes, nor
\* producers in push beside room in an open queue, as long as no exception has
\* lost a notification.
CallsProgress ==
    /\ []<>(queue = <<>> \/ \A t \in Thread : pc[t] \notin {"pop", "waitNotEmpty"})
    /\ []<>(\/ throws > 0 \/ closed \/ Len(queue) >= Capacity
            \/ \A t \in Thread : pc[t] \notin {"push", "waitNotFull"})

\* close() ends every call in progress, however many threads wait on either
\* condition variable.
CloseReleases ==
    \A t \in Thread :
        (closed /\ pc[t] \in InPush \cup InPop \cup InClose) ~> pc[t] \in Returned

\* The lesson on this queue: producers wait for "closed || size < capacity".  A
\* producer that sleeps although there is room is woken, or the room is taken.
ProducersWaitForRoom ==
    \A t \in Thread :
        (pc[t] = "waitNotFull" /\ ~closed /\ Len(queue) < Capacity)
        ~> (pc[t] # "waitNotFull" \/ closed \/ Len(queue) >= Capacity)
=============================================================================
