------------------------ MODULE BlockingQueueProofs ------------------------
(***************************************************************************)
(* What BlockingQueue guarantees for every number of threads, every set of *)
(* values and every capacity.                                              *)
(***************************************************************************)
EXTENDS BlockingQueue, FiniteSetTheorems, TLAPS

\* The constructor's postcondition has the right types and an empty queue.
LEMMA InitTypeOK == Init => TypeOK
  <1> SUFFICES ASSUME Init PROVE TypeOK
    OBVIOUS
  <1>1. queue \in Seq(Value) /\ Len(queue) <= Capacity
    BY QueueAssumption DEF Init
  <1>2. pc \in [Thread -> {"idle"}] /\ item \in [Thread -> {NoValue}]
    BY DEF Init
  <1>3. throws \in 0 .. MaxThrows
    BY QueueAssumption, SMT, SMTT(30) DEF Init
  <1>4. QED
    BY <1>1, <1>2, <1>3, Zenon DEF Init, TypeOK, Label

\* Every step of push, pop and close keeps the types and the capacity bound.
LEMMA NextTypeOK == TypeOK /\ [Next]_vars => TypeOK'
  <1> SUFFICES ASSUME TypeOK, [Next]_vars PROVE TypeOK'
    OBVIOUS
  <1> USE QueueAssumption DEF TypeOK, Label, InPush, InPop, InClose, Returned, Goto
  <1>1. CASE UNCHANGED vars
    BY <1>1 DEF vars
  <1>2. ASSUME NEW t \in Thread, NEW v \in Value, Push(t, v) PROVE TypeOK'
    BY <1>2 DEF Push
  <1>3. ASSUME NEW t \in Thread, PushAccept(t) PROVE TypeOK'
    <2>1. item[t] \in Value
      BY <1>3 DEF PushAccept
    <2>2. /\ queue' \in Seq(Value) /\ Len(queue') = Len(queue) + 1
          /\ pushed' \in Seq(Value)
      BY <1>3, <2>1 DEF PushAccept
    <2>3. QED
      BY <1>3, <2>2 DEF PushAccept
  <1>4. ASSUME NEW t \in Thread, PopTake(t) PROVE TypeOK'
    <2>1. /\ Head(queue) \in Value
          /\ queue' \in Seq(Value) /\ Len(queue') = Len(queue) - 1
      BY <1>4 DEF PopTake
    <2>2. popped' \in Seq(Value)
      BY <1>4, <2>1 DEF PopTake
    <2>3. QED
      BY <1>4, <2>1, <2>2 DEF PopTake
  <1>5. ASSUME NEW t \in Thread, PushWait(t) \/ PushRefuse(t) PROVE TypeOK'
    BY <1>5 DEF PushWait, PushRefuse
  <1>6. ASSUME NEW t \in Thread, PushNotify(t) PROVE TypeOK'
    <2>1. /\ pc' \in [Thread -> Label]
          /\ \A u \in Thread : pc'[u] \in {"push", "waitNotFull"} => pc[u] \in {"push", "waitNotFull"}
      BY <1>6, Zenon DEF PushNotify, NotifyOne
    <2>2. QED
      BY <1>6, <2>1, Zenon DEF PushNotify
  <1>7. ASSUME NEW t \in Thread, Pop(t) \/ PopWait(t) \/ PopEnd(t) PROVE TypeOK'
    BY <1>7, SMT, SMTT(60) DEF Pop, PopWait, PopEnd
  <1>8. ASSUME NEW t \in Thread, PopNotify(t) PROVE TypeOK'
    <2>1. /\ pc' \in [Thread -> Label]
          /\ \A u \in Thread : pc'[u] \in {"push", "waitNotFull"} => pc[u] \in {"push", "waitNotFull"}
      BY <1>8, Zenon DEF PopNotify, NotifyOne
    <2>2. QED
      BY <1>8, <2>1, Zenon DEF PopNotify
  <1>9. ASSUME NEW t \in Thread, Close(t) \/ CloseSet(t) PROVE TypeOK'
    BY <1>9, Zenon DEF Close, CloseSet
  <1>10. ASSUME NEW t \in Thread, CloseNotifyNotEmpty(t) \/ CloseNotifyNotFull(t) PROVE TypeOK'
    BY <1>10 DEF CloseNotifyNotEmpty, CloseNotifyNotFull, NotifyAll
  <1>11. ASSUME NEW t \in Thread, SpuriousWake(t) \/ Return(t) PROVE TypeOK'
    BY <1>11, ZenonT(60) DEF SpuriousWake, Return
  <1>12. ASSUME NEW t \in Thread, PushThrow(t) PROVE TypeOK'
    <2>1. throws' \in 0 .. MaxThrows
      BY <1>12 DEF PushThrow
    <2>2. QED
      BY <1>12, <2>1 DEF PushThrow
  <1>13. QED
    BY <1>1, <1>2, <1>3, <1>4, <1>5, <1>6, <1>7, <1>8, <1>9, <1>10, <1>11, <1>12 DEF Next, Step

\* Threads, capacity and values of any size: the queue never holds more than
\* capacity_ values, and every thread is at a point of push, pop or close.
THEOREM TypeCorrect == Spec => []TypeOK
  BY InitTypeOK, NextTypeOK, PTL DEF Spec

\* Appending to the queue appends to everything popped and queued.
LEMMA AppendBehind ==
    ASSUME NEW e \in Value, queue \in Seq(Value), popped \in Seq(Value)
    PROVE  Append(popped \o queue, e) = popped \o Append(queue, e)
  BY SMT, SMTT(30)

\* A step of the queue appends to pushed and queue together, or moves the head
\* of queue to popped, or leaves all three alone.
LEMMA NextFifo == TypeOK /\ FifoExactlyOnce /\ [Next]_vars => FifoExactlyOnce'
  <1> SUFFICES ASSUME TypeOK, FifoExactlyOnce, [Next]_vars PROVE FifoExactlyOnce'
    OBVIOUS
  <1> USE DEF FifoExactlyOnce
  <1>1. ASSUME NEW t \in Thread, PushAccept(t) PROVE FifoExactlyOnce'
    <2>1. item[t] \in Value /\ queue \in Seq(Value) /\ popped \in Seq(Value)
      BY <1>1 DEF PushAccept, TypeOK
    <2>2. Append(popped \o queue, item[t]) = popped \o Append(queue, item[t])
      BY <2>1, AppendBehind, Zenon
    <2>3. QED
      BY <1>1, <2>1, <2>2 DEF PushAccept
  <1>2. ASSUME NEW t \in Thread, PopTake(t) PROVE FifoExactlyOnce'
    <2>1. queue \in Seq(Value) /\ popped \in Seq(Value) /\ queue # <<>>
      BY <1>2 DEF PopTake, TypeOK
    <2>2. popped \o queue = Append(popped, Head(queue)) \o Tail(queue)
      BY <2>1, SMT, SMTT(30)
    <2>3. QED
      BY <1>2, <2>2 DEF PopTake
  <1>3. CASE UNCHANGED <<queue, pushed, popped>>
    BY <1>3
  <1>4. ASSUME NEW t \in Thread,
               \/ \E v \in Value : Push(t, v)
               \/ PushWait(t) \/ PushRefuse(t) \/ PushThrow(t) \/ PushNotify(t)
        PROVE  UNCHANGED <<queue, pushed, popped>>
    BY <1>4, Zenon DEF Push, PushWait, PushRefuse, PushThrow, PushNotify
  <1>5. ASSUME NEW t \in Thread, Pop(t) \/ PopWait(t) \/ PopEnd(t) \/ PopNotify(t)
        PROVE  UNCHANGED <<queue, pushed, popped>>
    BY <1>5, Zenon DEF Pop, PopWait, PopEnd, PopNotify
  <1>6. ASSUME NEW t \in Thread,
               \/ Close(t) \/ CloseSet(t) \/ CloseNotifyNotEmpty(t) \/ CloseNotifyNotFull(t)
               \/ SpuriousWake(t) \/ Return(t)
        PROVE  UNCHANGED <<queue, pushed, popped>>
    BY <1>6, Zenon DEF Close, CloseSet, CloseNotifyNotEmpty, CloseNotifyNotFull, SpuriousWake, Return
  <1>7. CASE UNCHANGED vars
    BY <1>3, <1>7, Zenon DEF vars
  <1>8. CASE Next
    <2>1. PICK t \in Thread : \/ \E v \in Value : Push(t, v)
                              \/ Pop(t) \/ Close(t) \/ Step(t) \/ SpuriousWake(t) \/ Return(t)
      BY <1>8, Zenon DEF Next
    <2>2. CASE Step(t)
      BY <1>1, <1>2, <1>3, <1>4, <1>5, <1>6, <2>2, Zenon DEF Step
    <2>3. QED
      BY <1>3, <1>4, <1>5, <1>6, <2>1, <2>2, Zenon
  <1>9. QED
    BY <1>7, <1>8, Zenon

\* Nothing accepted by push is lost, duplicated or reordered before pop gives it
\* out, for any number of producers and consumers.
THEOREM FifoCorrect == Spec => []FifoExactlyOnce
  <1>1. Init => FifoExactlyOnce
    BY DEF Init, FifoExactlyOnce
  <1>2. QED
    BY <1>1, TypeCorrect, NextFifo, PTL DEF Spec

-----------------------------------------------------------------------------
(* Counting threads *)

\* Sets of threads are finite, so their sizes are natural numbers.
LEMMA ThreadsFinite ==
    \A S \in SUBSET Thread : IsFiniteSet(S) /\ Cardinality(S) \in Nat /\ (Cardinality(S) = 0 <=> S = {})
  BY QueueAssumption, FS_Subset, FS_CardinalityType, FS_EmptySet

\* A set that loses nobody does not shrink; one that also gains somebody grows;
\* one that loses only somebody shrinks by one at most.
LEMMA CountChange ==
    ASSUME NEW A, NEW B, IsFiniteSet(A), IsFiniteSet(B)
    PROVE  /\ A \subseteq B => Cardinality(A) <= Cardinality(B)
           /\ \A t \in B : A \subseteq B /\ t \notin A => Cardinality(A) + 1 <= Cardinality(B)
           /\ \A t \in A : A \ {t} \subseteq B => Cardinality(A) - 1 <= Cardinality(B)
           /\ \A t \in A : \A w \in B : A \ {t} \subseteq B /\ w \notin A => Cardinality(A) <= Cardinality(B)
  <1>1. Cardinality(A) \in Nat /\ Cardinality(B) \in Nat
    BY FS_CardinalityType
  <1>2. ASSUME NEW S, IsFiniteSet(S), S \subseteq B PROVE Cardinality(S) \in Nat /\ Cardinality(S) <= Cardinality(B)
    BY <1>2, FS_Subset, FS_CardinalityType
  <1>3. ASSUME NEW t \in B, A \subseteq B, t \notin A PROVE Cardinality(A) + 1 <= Cardinality(B)
    <2>1. IsFiniteSet(A \cup {t}) /\ Cardinality(A \cup {t}) = Cardinality(A) + 1
      BY <1>3, FS_AddElement
    <2>2. A \cup {t} \subseteq B
      BY <1>3
    <2>3. QED
      BY <2>1, <2>2, <1>2
  <1>4. ASSUME NEW t \in A PROVE IsFiniteSet(A \ {t}) /\ Cardinality(A \ {t}) = Cardinality(A) - 1
    BY FS_RemoveElement
  <1>5. ASSUME NEW t \in A, NEW w \in B, A \ {t} \subseteq B, w \notin A
        PROVE  Cardinality(A) <= Cardinality(B)
    <2> DEFINE R == A \ {t}
    <2>1. IsFiniteSet(R) /\ Cardinality(R) = Cardinality(A) - 1 /\ w \notin R
      BY <1>4, <1>5
    <2>2. R \cup {w} \subseteq B
      BY <1>5
    <2> HIDE DEF R
    <2>3. IsFiniteSet(R \cup {w}) /\ Cardinality(R \cup {w}) = Cardinality(R) + 1
      BY <2>1, FS_AddElement
    <2>4. QED
      BY <2>1, <2>2, <2>3, <1>1, <1>2
  <1>6. QED
    BY <1>1, <1>2, <1>3, <1>4, <1>5

-----------------------------------------------------------------------------
(* No lost wakeup *)

\* NoLostConsumerWakeup and NoLostProducerWakeup without counts of sleepers, one per condition variable.
NotEmptyHalf ==
    (\E w \in Thread : pc[w] = "waitNotEmpty") =>
        /\ ~closed => Len(queue) <= Count({"notifyNotEmpty", "pop"})
        /\ closed => \E c \in Thread : pc[c] = "closeNotEmpty"

NotFullHalf ==
    (\E w \in Thread : pc[w] = "waitNotFull") =>
        /\ ~closed => Capacity - Len(queue) <= Count({"notifyNotFull", "push"}) + throws
        /\ closed => \E c \in Thread : pc[c] \in {"closeNotEmpty", "closeNotFull"}

\* No step leaves a consumer asleep on not_empty_ beside a value nobody will
\* wake it for.
LEMMA NextNotEmpty == TypeOK /\ NotEmptyHalf /\ [Next]_vars => NotEmptyHalf'
  <1> SUFFICES ASSUME TypeOK, NotEmptyHalf, [Next]_vars PROVE NotEmptyHalf'
    OBVIOUS
  <1> DEFINE A == At({"notifyNotEmpty", "pop"})
  <1>0. /\ IsFiniteSet(A) /\ IsFiniteSet(A')
        /\ Count({"notifyNotEmpty", "pop"}) = Cardinality(A)
        /\ Count({"notifyNotEmpty", "pop"})' = Cardinality(A')
        /\ Cardinality(A) \in Nat /\ Cardinality(A') \in Nat
        /\ Len(queue) \in Nat
        /\ pc \in [Thread -> Label]
    <2>1. A \in SUBSET Thread /\ A' \in SUBSET Thread
      BY DEF At
    <2>2. pc \in [Thread -> Label] /\ Len(queue) \in Nat
      BY DEF TypeOK
    <2>3. QED
      BY <2>1, <2>2, ThreadsFinite DEF Count
  <1>1. ASSUME NEW t \in Thread, PushAccept(t) PROVE NotEmptyHalf'
    <2>1. t \in A' /\ A \subseteq A' /\ t \notin A
      BY <1>0, <1>1 DEF At, PushAccept, Goto
    <2>2. Cardinality(A) + 1 <= Cardinality(A')
      BY <1>0, <2>1, CountChange
    <2>3. QED
      BY <1>0, <1>1, <2>2 DEF NotEmptyHalf, PushAccept, Goto, TypeOK
  <1>2. ASSUME NEW t \in Thread, PushNotify(t) PROVE NotEmptyHalf'
    <2>1. ASSUME NEW w \in Thread, pc[w] = "waitNotEmpty",
                 pc' = [pc EXCEPT ![w] = "pop", ![t] = "true"]
          PROVE  NotEmptyHalf'
      <3>1. t \in A /\ w \in A' /\ A \ {t} \subseteq A' /\ w \notin A
        BY <1>0, <1>2, <2>1 DEF At, PushNotify
      <3>2. Cardinality(A) <= Cardinality(A')
        BY <1>0, <3>1, CountChange
      <3>3. QED
        BY <1>0, <1>2, <2>1, <3>2 DEF NotEmptyHalf, PushNotify
    <2>2. CASE (\A w \in Thread : pc[w] # "waitNotEmpty") /\ Goto(t, "true")
      BY <1>0, <2>2 DEF NotEmptyHalf, Goto
    <2>3. QED
      BY <1>2, <2>1, <2>2 DEF PushNotify, NotifyOne
  <1>3. ASSUME NEW t \in Thread, PopTake(t) PROVE NotEmptyHalf'
    <2>1. t \in A /\ A \ {t} \subseteq A'
      BY <1>0, <1>3 DEF At, PopTake, Goto
    <2>2. Cardinality(A) - 1 <= Cardinality(A')
      BY <1>0, <2>1, CountChange
    <2>3. Len(queue') = Len(queue) - 1
      BY <1>3 DEF PopTake, TypeOK
    <2>4. QED
      BY <1>0, <1>3, <2>2, <2>3 DEF NotEmptyHalf, PopTake, Goto
  <1>4. ASSUME NEW t \in Thread, PopWait(t) PROVE NotEmptyHalf'
    BY <1>0, <1>4 DEF NotEmptyHalf, PopWait
  <1>5. ASSUME NEW t \in Thread, CloseSet(t) PROVE NotEmptyHalf'
    BY <1>0, <1>5 DEF NotEmptyHalf, CloseSet, Goto
  <1>6. ASSUME NEW t \in Thread, CloseNotifyNotEmpty(t) PROVE NotEmptyHalf'
    BY <1>0, <1>6 DEF NotEmptyHalf, CloseNotifyNotEmpty, NotifyAll
  \* The other steps put nobody to sleep on not_empty_ and take nobody away
  \* from those who answer for the queued values.
  <1>7. ASSUME UNCHANGED <<queue, closed>>,
               ~closed => A \subseteq A',
               \A u \in Thread : pc'[u] = "waitNotEmpty" => pc[u] = "waitNotEmpty",
               \A u \in Thread : pc[u] = "closeNotEmpty" => pc'[u] = "closeNotEmpty"
        PROVE  NotEmptyHalf'
    <2>1. ~closed => Cardinality(A) <= Cardinality(A')
      BY <1>0, <1>7, CountChange, SMT, SMTT(60)
    <2>2. QED
      BY <1>0, <1>7, <2>1 DEF NotEmptyHalf
  <1>8. ASSUME NEW t \in Thread,
               \/ \E v \in Value : Push(t, v)
               \/ PushWait(t) \/ PushRefuse(t) \/ PushThrow(t)
               \/ Pop(t) \/ PopEnd(t) \/ Close(t) \/ SpuriousWake(t) \/ Return(t)
        PROVE  NotEmptyHalf'
    BY <1>0, <1>7, <1>8 DEF At, Push, PushWait, PushRefuse, PushThrow, Pop, PopEnd, Close,
       SpuriousWake, Return, Returned, Goto
  <1>9. ASSUME NEW t \in Thread, PopNotify(t) PROVE NotEmptyHalf'
    BY <1>0, <1>7, <1>9 DEF At, PopNotify, NotifyOne, Goto
  <1>10. ASSUME NEW t \in Thread, CloseNotifyNotFull(t) PROVE NotEmptyHalf'
    BY <1>0, <1>7, <1>10 DEF At, CloseNotifyNotFull, NotifyAll
  <1>11. CASE UNCHANGED vars
    BY <1>0, <1>7, <1>11 DEF At, vars
  <1>12. QED
    BY <1>1, <1>2, <1>3, <1>4, <1>5, <1>6, <1>8, <1>9, <1>10, <1>11, SMT, SMTT(60) DEF Next, Step

\* No step leaves a producer asleep on not_full_ beside a free place nobody
\* will wake it for.
LEMMA NextNotFull == TypeOK /\ NotFullHalf /\ [Next]_vars => NotFullHalf'
  <1> SUFFICES ASSUME TypeOK, NotFullHalf, [Next]_vars PROVE NotFullHalf'
    OBVIOUS
  <1> DEFINE A == At({"notifyNotFull", "push"})
  <1>0. /\ IsFiniteSet(A) /\ IsFiniteSet(A')
        /\ Count({"notifyNotFull", "push"}) = Cardinality(A)
        /\ Count({"notifyNotFull", "push"})' = Cardinality(A')
        /\ Cardinality(A) \in Nat /\ Cardinality(A') \in Nat
        /\ Len(queue) \in Nat
        /\ pc \in [Thread -> Label]
        /\ Capacity \in Nat
        /\ throws \in Nat
    <2>1. A \in SUBSET Thread /\ A' \in SUBSET Thread
      BY DEF At
    <2>2. pc \in [Thread -> Label] /\ Len(queue) \in Nat /\ throws \in Nat
      BY QueueAssumption DEF TypeOK
    <2>3. QED
      BY <2>1, <2>2, ThreadsFinite, QueueAssumption DEF Count
  <1>1. ASSUME NEW t \in Thread, PopTake(t) PROVE NotFullHalf'
    <2>1. t \in A' /\ A \subseteq A' /\ t \notin A
      BY <1>0, <1>1 DEF At, PopTake, Goto
    <2>2. Cardinality(A) + 1 <= Cardinality(A')
      BY <1>0, <2>1, CountChange
    <2>3. QED
      BY <1>0, <1>1, <2>2, SMT, SMTT(60) DEF NotFullHalf, PopTake, Goto, TypeOK
  <1>2. ASSUME NEW t \in Thread, PopNotify(t) PROVE NotFullHalf'
    <2>1. ASSUME NEW w \in Thread, pc[w] = "waitNotFull",
                 pc' = [pc EXCEPT ![w] = "push", ![t] = "value"]
          PROVE  NotFullHalf'
      <3>1. t \in A /\ w \in A' /\ A \ {t} \subseteq A' /\ w \notin A
        BY <1>0, <1>2, <2>1 DEF At, PopNotify
      <3>2. Cardinality(A) <= Cardinality(A')
        BY <1>0, <3>1, CountChange
      <3>3. QED
        BY <1>0, <1>2, <2>1, <3>2 DEF NotFullHalf, PopNotify
    <2>2. CASE (\A w \in Thread : pc[w] # "waitNotFull") /\ Goto(t, "value")
      BY <1>0, <2>2 DEF NotFullHalf, Goto
    <2>3. QED
      BY <1>2, <2>1, <2>2 DEF PopNotify, NotifyOne
  <1>3. ASSUME NEW t \in Thread, PushAccept(t) PROVE NotFullHalf'
    <2>1. t \in A /\ A \ {t} \subseteq A'
      BY <1>0, <1>3 DEF At, PushAccept, Goto
    <2>2. Cardinality(A) - 1 <= Cardinality(A')
      BY <1>0, <2>1, CountChange
    <2>3. Len(queue') = Len(queue) + 1
      BY <1>3 DEF PushAccept, TypeOK
    <2>4. QED
      BY <1>0, <1>3, <2>2, <2>3, SMT, SMTT(60) DEF NotFullHalf, PushAccept, Goto
  <1>4. ASSUME NEW t \in Thread, PushWait(t) PROVE NotFullHalf'
    BY <1>0, <1>4 DEF NotFullHalf, PushWait
  <1>5. ASSUME NEW t \in Thread, CloseSet(t) PROVE NotFullHalf'
    BY <1>0, <1>5 DEF NotFullHalf, CloseSet, Goto
  <1>6. ASSUME NEW t \in Thread, CloseNotifyNotFull(t) PROVE NotFullHalf'
    BY <1>0, <1>6 DEF NotFullHalf, CloseNotifyNotFull, NotifyAll
  \* The other steps put nobody to sleep on not_full_ and take nobody away
  \* from those who answer for the free places.
  <1>7. ASSUME UNCHANGED <<queue, closed, throws>>,
               ~closed => A \subseteq A',
               \A u \in Thread : pc'[u] = "waitNotFull" => pc[u] = "waitNotFull",
               \A u \in Thread : pc[u] \in {"closeNotEmpty", "closeNotFull"} => pc'[u] \in {"closeNotEmpty", "closeNotFull"}
        PROVE  NotFullHalf'
    <2>1. ~closed => Cardinality(A) <= Cardinality(A')
      BY <1>0, <1>7, CountChange, SMT, SMTT(60)
    <2>2. QED
      BY <1>0, <1>7, <2>1 DEF NotFullHalf
  <1>8. ASSUME NEW t \in Thread,
               \/ \E v \in Value : Push(t, v)
               \/ PopWait(t) \/ PushRefuse(t)
               \/ Pop(t) \/ PopEnd(t) \/ Close(t) \/ SpuriousWake(t) \/ Return(t)
        PROVE  NotFullHalf'
    BY <1>0, <1>7, <1>8 DEF At, Push, PopWait, PushRefuse, Pop, PopEnd, Close,
       SpuriousWake, Return, Returned, Goto
  <1>9. ASSUME NEW t \in Thread, PushNotify(t) PROVE NotFullHalf'
    BY <1>0, <1>7, <1>9 DEF At, PushNotify, NotifyOne, Goto
  <1>10. ASSUME NEW t \in Thread, CloseNotifyNotEmpty(t) PROVE NotFullHalf'
    BY <1>0, <1>7, <1>10 DEF At, CloseNotifyNotEmpty, NotifyAll
  <1>11. CASE UNCHANGED vars
    BY <1>0, <1>7, <1>11 DEF At, vars
  \* An exception takes its producer away and is counted in its place.
  <1>12. ASSUME NEW t \in Thread, PushThrow(t) PROVE NotFullHalf'
    <2>1. t \in A /\ A \ {t} \subseteq A'
      BY <1>0, <1>12 DEF At, PushThrow, Goto
    <2>2. Cardinality(A) - 1 <= Cardinality(A')
      BY <1>0, <2>1, CountChange
    <2>3. QED
      BY <1>0, <1>12, <2>2 DEF NotFullHalf, PushThrow, Goto
  <1>13. QED
    BY <1>1, <1>2, <1>3, <1>4, <1>5, <1>6, <1>8, <1>9, <1>10, <1>11, <1>12, SMT, SMTT(60) DEF Next, Step

\* A set of threads has a positive size when some thread is in it.
LEMMA CountPositive ==
    \A L : Count(L) \in Nat /\ (Count(L) > 0 <=> \E t \in Thread : pc[t] \in L)
  <1>1. \A L : At(L) \in SUBSET Thread
    BY DEF At
  <1>2. QED
    BY <1>1, ThreadsFinite DEF Count, At

\* Threads, values and capacity of any size: notifying outside the lock never
\* leaves a consumer asleep beside a queued value, or in a closed queue, without
\* a notification still to come or an awake consumer to take its place.
THEOREM ConsumerWakeupCorrect == Spec => []NoLostConsumerWakeup
  <1>1. Init => NotEmptyHalf
    BY DEF Init, NotEmptyHalf
  <1>2. NotEmptyHalf => NoLostConsumerWakeup
    BY CountPositive DEF NotEmptyHalf, NoLostConsumerWakeup
  <1>3. QED
    BY <1>1, <1>2, TypeCorrect, NextNotEmpty, PTL DEF Spec

\* The same for producers and free places: a notification is lost only to an
\* exception of queue_.push, and each exception loses at most one.
THEOREM ProducerWakeupCorrect == Spec => []NoLostProducerWakeup
  <1>1. Init => NotFullHalf
    BY DEF Init, NotFullHalf
  <1>2. NotFullHalf => NoLostProducerWakeup
    BY CountPositive DEF NotFullHalf, NoLostProducerWakeup
  <1>3. QED
    BY <1>1, <1>2, TypeCorrect, NextNotFull, PTL DEF Spec

\* Once close has notified the waiters of a condition variable nobody waits on it.
Released ==
    \A t \in Thread :
        /\ pc[t] \in {"closeNotEmpty", "closeNotFull", "void"} => closed
        /\ pc[t] \in {"closeNotFull", "void"} => \A w \in Thread : pc[w] # "waitNotEmpty"
        /\ pc[t] = "void" => \A w \in Thread : pc[w] # "waitNotFull"

\* A closed queue lets nobody begin to wait.
LEMMA NextReleased == TypeOK /\ Released /\ [Next]_vars => Released'
  <1> SUFFICES ASSUME TypeOK, Released, [Next]_vars PROVE Released'
    BY Zenon
  <1>0. pc \in [Thread -> Label]
    BY Zenon DEF TypeOK
  <1>1. CASE UNCHANGED <<pc, closed>>
    BY <1>1, Zenon DEF Released
  <1>2. ASSUME NEW t \in Thread, NEW next, Goto(t, next), closed' = closed,
               next \notin {"closeNotEmpty", "closeNotFull", "void"},
               next \in {"waitNotEmpty", "waitNotFull"} => ~closed
        PROVE  Released'
    BY <1>0, <1>2, Zenon DEF Released, Goto
  <1>3. ASSUME NEW t \in Thread, NEW waiting, NEW awake \in {"push", "pop"},
               NEW next \in {"true", "value"}, NotifyOne(t, waiting, awake, next), closed' = closed
        PROVE  Released'
    <2>1. \A u \in Thread : pc'[u] = pc[u] \/ pc'[u] \in {"push", "pop", "true", "value"}
      BY <1>0, <1>3 DEF NotifyOne, Goto
    <2>2. QED
      BY <1>3, <2>1 DEF Released
  <1>4. ASSUME NEW t \in Thread, CloseSet(t) PROVE Released'
    BY <1>0, <1>4, Zenon DEF CloseSet, Goto, Released
  <1>5. ASSUME NEW t \in Thread, CloseNotifyNotEmpty(t) PROVE Released'
    <2>1. /\ closed' = closed /\ closed
          /\ \A u \in Thread : /\ pc'[u] # "waitNotEmpty"
                               /\ pc'[u] = "waitNotFull" => pc[u] = "waitNotFull"
                               /\ pc'[u] = "void" => pc[u] = "void"
      BY <1>5, Zenon DEF CloseNotifyNotEmpty, NotifyAll, Released
    <2>2. QED
      BY <2>1, Zenon DEF Released
  <1>6. ASSUME NEW t \in Thread, CloseNotifyNotFull(t) PROVE Released'
    <2>1. /\ closed' = closed /\ closed
          /\ \A u \in Thread : /\ pc'[u] # "waitNotFull"
                               /\ pc[u] # "waitNotEmpty" /\ pc'[u] # "waitNotEmpty"
      BY <1>6, Zenon DEF CloseNotifyNotFull, NotifyAll, Released
    <2>2. QED
      BY <2>1, Zenon DEF Released
  <1>7. ASSUME NEW t \in Thread, (\E v \in Value : Push(t, v)) \/ Pop(t) \/ Close(t) \/ Return(t)
        PROVE  Released'
    BY <1>2, <1>7, Zenon DEF Push, Pop, Close, Return
  <1>8. ASSUME NEW t \in Thread, PushWait(t) \/ PushRefuse(t) \/ PushAccept(t) \/ PushThrow(t)
        PROVE  Released'
    BY <1>2, <1>8, Zenon DEF PushWait, PushRefuse, PushAccept, PushThrow
  <1>9. ASSUME NEW t \in Thread, PopWait(t) \/ PopEnd(t) \/ PopTake(t) \/ SpuriousWake(t)
        PROVE  Released'
    BY <1>2, <1>9, Zenon DEF PopWait, PopEnd, PopTake, SpuriousWake
  <1>10. ASSUME NEW t \in Thread, PushNotify(t) \/ PopNotify(t) PROVE Released'
    BY <1>3, <1>10, Zenon DEF PushNotify, PopNotify
  <1>11. QED
    BY <1>1, <1>4, <1>5, <1>6, <1>7, <1>8, <1>9, <1>10, Zenon DEF Next, Step, vars

\* When close returns the queue is closed and no thread sleeps in push or in pop,
\* however many there were when it was called.
THEOREM CloseLeavesNoSleeper == Spec => []Released
  <1>1. Init => Released
    BY Zenon DEF Init, Released
  <1>2. QED
    BY <1>1, TypeCorrect, NextReleased, PTL DEF Spec

-----------------------------------------------------------------------------
(* Refinement *)

\* The next value to pop is the one the channel gives, and the room of the queue
\* is the room of the channel.
LEMMA HeadIsNext ==
    ASSUME TypeOK, FifoExactlyOnce
    PROVE  /\ Len(pushed) - Len(popped) = Len(queue)
           /\ queue # <<>> => /\ Len(popped) < Len(pushed)
                             /\ Head(queue) = pushed[Len(popped) + 1]
  <1>1. popped \in Seq(Value) /\ queue \in Seq(Value)
    BY DEF TypeOK
  <1>2. /\ Len(popped \o queue) = Len(popped) + Len(queue)
        /\ Len(popped) \in Nat /\ Len(queue) \in Nat
    BY <1>1
  <1>3. ASSUME queue # <<>>
        PROVE  Len(queue) > 0 /\ Head(queue) = (popped \o queue)[Len(popped) + 1]
    BY <1>1, <1>3
  <1>4. QED
    BY <1>2, <1>3 DEF FifoExactlyOnce

\* Each step of the queue is a step of the channel or leaves it unchanged.
LEMMA StepRefines ==
    TypeOK /\ FifoExactlyOnce /\ [Next]_vars => [Channel!Next]_Channel!vars
  <1> SUFFICES ASSUME TypeOK, FifoExactlyOnce, [Next]_vars
               PROVE  [Channel!Next]_Channel!vars
    OBVIOUS
  <1>0. pc \in [Thread -> Label] /\ item \in [Thread -> Value \cup {NoValue}]
    BY DEF TypeOK
  <1>1. ASSUME NEW t \in Thread, NEW v \in Value, Push(t, v) PROVE Channel!CallPush(t, v)
    BY <1>0, <1>1, Zenon DEF Push, Goto, Phase, Channel!CallPush, Channel!Becomes
  <1>2. ASSUME NEW t \in Thread, PushAccept(t) PROVE Channel!Accept(t)
    BY <1>0, <1>2, HeadIsNext, ZenonT(60) DEF PushAccept, Goto, Phase, Channel!Accept, Channel!Becomes
  <1>3. ASSUME NEW t \in Thread, PushRefuse(t) PROVE Channel!Refuse(t)
    BY <1>0, <1>3, Zenon DEF PushRefuse, Goto, Phase, Channel!Refuse, Channel!Becomes
  <1>4. ASSUME NEW t \in Thread, PushThrow(t) PROVE Channel!Fail(t)
    BY <1>0, <1>4, Zenon DEF PushThrow, Goto, Phase, Channel!Fail, Channel!Becomes
  <1>5. ASSUME NEW t \in Thread, Pop(t) PROVE Channel!CallPop(t)
    BY <1>0, <1>5, Zenon DEF Pop, Goto, Phase, Channel!CallPop, Channel!Becomes
  <1>6. ASSUME NEW t \in Thread, PopTake(t) PROVE Channel!Give(t)
    <2>1. Len(popped') = Len(popped) + 1
      BY <1>6 DEF PopTake, TypeOK
    <2>2. QED
      BY <1>0, <1>6, <2>1, HeadIsNext, ZenonT(60) DEF PopTake, Goto, Phase, Channel!Give, Channel!Becomes
  <1>7. ASSUME NEW t \in Thread, PopEnd(t) PROVE Channel!End(t)
    <2>1. Len(pushed) \in Nat /\ Len(popped) \in Nat /\ queue = <<>>
      BY <1>7 DEF PopEnd, TypeOK
    <2>2. Len(popped) = Len(pushed)
      BY <2>1, HeadIsNext
    <2>3. QED
      BY <1>0, <1>7, <2>2, Zenon DEF PopEnd, Goto, Phase, Channel!End, Channel!Becomes
  <1>8. ASSUME NEW t \in Thread, Close(t) PROVE Channel!CallClose(t)
    BY <1>0, <1>8, Zenon DEF Close, Goto, Phase, Channel!CallClose, Channel!Becomes
  <1>9. ASSUME NEW t \in Thread, CloseSet(t) PROVE Channel!Shut(t)
    BY <1>0, <1>9, Zenon DEF CloseSet, Goto, Phase, Channel!Shut, Channel!Becomes
  <1>10. ASSUME NEW t \in Thread, Return(t) PROVE Channel!Return(t)
    BY <1>0, <1>10, Zenon DEF Return, Returned, Goto, Phase, Channel!Return
  \* Waits, wakeups and notifications move threads inside a phase.
  <1>11. ASSUME UNCHANGED <<pushed, popped, closed, item>>,
                pc' \in [Thread -> Label],
                \A u \in Thread : Phase(pc'[u]) = Phase(pc[u])
         PROVE  UNCHANGED Channel!vars
    BY <1>11 DEF Channel!vars
  <1>12. ASSUME NEW t \in Thread, PushWait(t) \/ PopWait(t) \/ SpuriousWake(t)
         PROVE  UNCHANGED Channel!vars
    BY <1>0, <1>11, <1>12 DEF PushWait, PopWait, SpuriousWake, Goto, Phase, Label, InPush, InPop
  <1>13. ASSUME NEW t \in Thread, PushNotify(t) \/ PopNotify(t) PROVE UNCHANGED Channel!vars
    BY <1>0, <1>11, <1>13 DEF PushNotify, PopNotify, NotifyOne, Goto, Phase, Label, InPush, InPop, Returned
  <1>14. ASSUME NEW t \in Thread, CloseNotifyNotEmpty(t) \/ CloseNotifyNotFull(t)
         PROVE  UNCHANGED Channel!vars
    BY <1>0, <1>11, <1>14 DEF CloseNotifyNotEmpty, CloseNotifyNotFull, NotifyAll, Phase, Label,
       InPush, InPop, InClose, Returned
  <1>15. CASE UNCHANGED vars
    BY <1>15 DEF vars, Channel!vars
  <1>16. ASSUME NEW t \in Thread, Step(t) PROVE [Channel!Next]_Channel!vars
    BY <1>2, <1>3, <1>4, <1>6, <1>7, <1>9, <1>12, <1>13, <1>14, <1>16, Zenon DEF Step, Channel!Next
  <1>17. ASSUME NEW t \in Thread,
                \/ \E v \in Value : Push(t, v)
                \/ Pop(t) \/ Close(t) \/ SpuriousWake(t) \/ Return(t)
         PROVE  [Channel!Next]_Channel!vars
    BY <1>1, <1>5, <1>8, <1>10, <1>12, <1>17, Zenon DEF Channel!Next
  <1>18. QED
    BY <1>15, <1>16, <1>17, Zenon DEF Next

\* BlockingQueue implements BoundedChannel: whatever the interleaving of locked
\* sections, waits and notifications, callers see a bounded FIFO channel whose
\* operations are atomic.
THEOREM QueueRefinesChannel == Spec => IsBoundedChannel
  <1>1. Init => Channel!Init
    BY DEF Init, Phase, Channel!Init
  <1>2. QED
    BY <1>1, StepRefines, TypeCorrect, FifoCorrect, PTL DEF Spec, IsBoundedChannel, Channel!Spec
=============================================================================
