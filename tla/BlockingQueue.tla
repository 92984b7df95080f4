--------------------------- MODULE BlockingQueue ---------------------------
(***************************************************************************)
(* netforge::BlockingQueue<T>: a bounded FIFO guarded by one mutex and two *)
(* condition variables.  Between two steps of a thread any other thread    *)
(* may run.  A step is what one thread does while it holds mutex_ (the     *)
(* predicate, the change and the release, or the release-and-wait of       *)
(* condition_variable::wait), or one notification made after the unlock.   *)
(*                                                                         *)
(* pushed, popped and throws are history variables: every value the queue  *)
(* ever took and gave, in the order of the locked sections, and how often  *)
(* it ran out of memory.                                                   *)
(***************************************************************************)
EXTENDS Integers, Sequences, FiniteSets

CONSTANTS
    Thread,     \* the threads that share the queue
    Value,      \* the values they push
    Capacity,   \* capacity_
    NoValue,    \* no value in hand (std::nullopt)
    MaxThrows   \* how often queue_.push may run out of memory

\* The constructor throws on a zero capacity.
ASSUME QueueAssumption ==
    /\ IsFiniteSet(Thread)
    /\ Capacity \in Nat \ {0}
    /\ NoValue \notin Value
    /\ MaxThrows \in Nat

VARIABLES
    queue,      \* queue_
    closed,     \* closed_
    pc,         \* where each thread is inside push, pop or close
    item,       \* push's argument, or the value pop took
    pushed, popped,
    throws      \* how many exceptions have left push

vars == <<queue, closed, pc, item, pushed, popped, throws>>

InPush == {"push", "waitNotFull", "notifyNotEmpty"}
InPop == {"pop", "waitNotEmpty", "notifyNotFull"}
InClose == {"close", "closeNotEmpty", "closeNotFull"}
Returned == {"true", "false", "threw", "value", "nullopt", "void"}
Label == {"idle"} \cup InPush \cup InPop \cup InClose \cup Returned

Init ==
    /\ queue = <<>>
    /\ closed = FALSE
    /\ pc = [t \in Thread |-> "idle"]
    /\ item = [t \in Thread |-> NoValue]
    /\ pushed = <<>>
    /\ popped = <<>>
    /\ throws = 0

Goto(t, label) == pc' = [pc EXCEPT ![t] = label]

\* condition_variable::notify_one: one thread of the wait set, if there is
\* one, goes back to competing for the mutex and evaluates its predicate again.
NotifyOne(t, waiting, awake, next) ==
    \/ \E w \in Thread :
         /\ pc[w] = waiting
         /\ pc' = [pc EXCEPT ![w] = awake, ![t] = next]
    \/ /\ \A w \in Thread : pc[w] # waiting
       /\ Goto(t, next)

\* condition_variable::notify_all.
NotifyAll(t, waiting, awake, next) ==
    pc' = [w \in Thread |-> IF w = t THEN next
                            ELSE IF pc[w] = waiting THEN awake ELSE pc[w]]

-----------------------------------------------------------------------------
(* push *)

Push(t, v) ==
    /\ pc[t] = "idle"
    /\ Goto(t, "push")
    /\ item' = [item EXCEPT ![t] = v]
    /\ UNCHANGED <<queue, closed, pushed, popped, throws>>

PushWait(t) ==
    /\ pc[t] = "push"
    /\ ~closed /\ Len(queue) >= Capacity
    /\ Goto(t, "waitNotFull")
    /\ UNCHANGED <<queue, closed, item, pushed, popped, throws>>

PushRefuse(t) ==
    /\ pc[t] = "push"
    /\ closed
    /\ Goto(t, "false")
    /\ UNCHANGED <<queue, closed, item, pushed, popped, throws>>

PushAccept(t) ==
    /\ pc[t] = "push"
    /\ ~closed /\ Len(queue) < Capacity
    /\ queue' = Append(queue, item[t])
    /\ pushed' = Append(pushed, item[t])
    /\ Goto(t, "notifyNotEmpty")
    /\ UNCHANGED <<closed, item, popped, throws>>

\* queue_.push allocates: std::bad_alloc leaves the queue as it was, and the
\* unique_lock releases the mutex while the exception leaves push.
PushThrow(t) ==
    /\ throws < MaxThrows
    /\ pc[t] = "push"
    /\ ~closed /\ Len(queue) < Capacity
    /\ Goto(t, "threw")
    /\ throws' = throws + 1
    /\ UNCHANGED <<queue, closed, item, pushed, popped>>

\* push returns without notifying not_empty_.
PushNotifyNobody(t) ==
    /\ pc[t] = "notifyNotEmpty"
    /\ Goto(t, "true")
    /\ UNCHANGED <<queue, closed, item, pushed, popped, throws>>

PushNotify(t) ==
    /\ pc[t] = "notifyNotEmpty"
    /\ NotifyOne(t, "waitNotEmpty", "pop", "true")
    /\ UNCHANGED <<queue, closed, item, pushed, popped, throws>>

-----------------------------------------------------------------------------
(* pop *)

Pop(t) ==
    /\ pc[t] = "idle"
    /\ Goto(t, "pop")
    /\ UNCHANGED <<queue, closed, item, pushed, popped, throws>>

PopWait(t) ==
    /\ pc[t] = "pop"
    /\ ~closed /\ queue = <<>>
    /\ Goto(t, "waitNotEmpty")
    /\ UNCHANGED <<queue, closed, item, pushed, popped, throws>>

\* A closed queue ends at once, whatever it still holds.
PopEndUndrained(t) ==
    /\ pc[t] = "pop"
    /\ closed
    /\ Goto(t, "nullopt")
    /\ UNCHANGED <<queue, closed, item, pushed, popped, throws>>

PopEnd(t) ==
    /\ pc[t] = "pop"
    /\ closed /\ queue = <<>>
    /\ Goto(t, "nullopt")
    /\ UNCHANGED <<queue, closed, item, pushed, popped, throws>>

\* The front is copied out and never removed.
PopTakeNoRemove(t) ==
    /\ pc[t] = "pop"
    /\ queue # <<>>
    /\ item' = [item EXCEPT ![t] = Head(queue)]
    /\ popped' = Append(popped, Head(queue))
    /\ Goto(t, "notifyNotFull")
    /\ UNCHANGED <<queue, closed, pushed, throws>>

\* pop returns without notifying not_full_.
PopTakeSilent(t) ==
    /\ pc[t] = "pop"
    /\ queue # <<>>
    /\ item' = [item EXCEPT ![t] = Head(queue)]
    /\ queue' = Tail(queue)
    /\ popped' = Append(popped, Head(queue))
    /\ Goto(t, "value")
    /\ UNCHANGED <<closed, pushed, throws>>

PopTake(t) ==
    /\ pc[t] = "pop"
    /\ queue # <<>>
    /\ item' = [item EXCEPT ![t] = Head(queue)]
    /\ queue' = Tail(queue)
    /\ popped' = Append(popped, Head(queue))
    /\ Goto(t, "notifyNotFull")
    /\ UNCHANGED <<closed, pushed, throws>>

PopNotify(t) ==
    /\ pc[t] = "notifyNotFull"
    /\ NotifyOne(t, "waitNotFull", "push", "value")
    /\ UNCHANGED <<queue, closed, item, pushed, popped, throws>>

-----------------------------------------------------------------------------
(* close *)

Close(t) ==
    /\ pc[t] = "idle"
    /\ Goto(t, "close")
    /\ UNCHANGED <<queue, closed, item, pushed, popped, throws>>

CloseSet(t) ==
    /\ pc[t] = "close"
    /\ closed' = TRUE
    /\ Goto(t, "closeNotEmpty")
    /\ UNCHANGED <<queue, item, pushed, popped, throws>>

\* close wakes one consumer instead of all of them.
CloseNotifyOneNotEmpty(t) ==
    /\ pc[t] = "closeNotEmpty"
    /\ NotifyOne(t, "waitNotEmpty", "pop", "closeNotFull")
    /\ UNCHANGED <<queue, closed, item, pushed, popped, throws>>

CloseNotifyNotEmpty(t) ==
    /\ pc[t] = "closeNotEmpty"
    /\ NotifyAll(t, "waitNotEmpty", "pop", "closeNotFull")
    /\ UNCHANGED <<queue, closed, item, pushed, popped, throws>>

\* close does not wake the producers.
CloseForgetsNotFull(t) ==
    /\ pc[t] = "closeNotFull"
    /\ Goto(t, "void")
    /\ UNCHANGED <<queue, closed, item, pushed, popped, throws>>

CloseNotifyNotFull(t) ==
    /\ pc[t] = "closeNotFull"
    /\ NotifyAll(t, "waitNotFull", "push", "void")
    /\ UNCHANGED <<queue, closed, item, pushed, popped, throws>>

-----------------------------------------------------------------------------
\* A wait may end without a notification; the predicate is tested again.
SpuriousWake(t) ==
    /\ \/ pc[t] = "waitNotFull" /\ Goto(t, "push")
       \/ pc[t] = "waitNotEmpty" /\ Goto(t, "pop")
    /\ UNCHANGED <<queue, closed, item, pushed, popped, throws>>

\* The caller picks up the result and may call again.
Return(t) ==
    /\ pc[t] \in Returned
    /\ Goto(t, "idle")
    /\ item' = [item EXCEPT ![t] = NoValue]
    /\ UNCHANGED <<queue, closed, pushed, popped, throws>>

\* What a thread inside a call does by itself, once it is scheduled and gets
\* the mutex.
Step(t) ==
    \/ PushWait(t) \/ PushRefuse(t) \/ PushAccept(t) \/ PushThrow(t)
    \/ PushNotify(t)
    \/ PopWait(t) \/ PopEnd(t) \/ PopTake(t) \/ PopNotify(t)
    \/ CloseSet(t) \/ CloseNotifyNotEmpty(t) \/ CloseNotifyNotFull(t)

Next ==
    \E t \in Thread :
        \/ \E v \in Value : Push(t, v)
        \/ Pop(t)
        \/ Close(t)
        \/ Step(t)
        \/ SpuriousWake(t)
        \/ Return(t)

Spec == Init /\ [][Next]_vars

-----------------------------------------------------------------------------
At(labels) == {t \in Thread : pc[t] \in labels}

Count(labels) == Cardinality(At(labels))

\* Types, with the bound the constructor asks for: push never lets queue_ grow
\* beyond capacity_.
TypeOK ==
    /\ queue \in Seq(Value)
    /\ Len(queue) <= Capacity
    /\ closed \in BOOLEAN
    /\ pc \in [Thread -> Label]
    /\ item \in [Thread -> Value \cup {NoValue}]
    /\ pushed \in Seq(Value)
    /\ popped \in Seq(Value)
    /\ throws \in 0 .. MaxThrows
    /\ \A t \in Thread : pc[t] \in {"push", "waitNotFull"} => item[t] \in Value

\* What pop gave out, followed by what is still queued, is what push accepted:
\* nothing is lost, duplicated or reordered between any push and any pop.
FifoExactlyOnce == pushed = popped \o queue

\* Notifying after the unlock loses no consumer's wakeup.  While a consumer
\* sleeps on not_empty_, every queued value is matched by a push that has still
\* to notify or by a consumer that is already awake; after close() a sleeper
\* has a closer that will still wake it.
NoLostConsumerWakeup ==
    Count({"waitNotEmpty"}) > 0 =>
        /\ ~closed => Len(queue) <= Count({"notifyNotEmpty", "pop"})
        /\ closed => Count({"closeNotEmpty"}) > 0

\* The same for producers, free places and not_full_, but for exceptions: a
\* queue_.push that throws loses the one notification its producer was woken by,
\* and no more.
NoLostProducerWakeup ==
    Count({"waitNotFull"}) > 0 =>
        /\ ~closed => Capacity - Len(queue) <= Count({"notifyNotFull", "push"}) + throws
        /\ closed => Count({"closeNotEmpty", "closeNotFull"}) > 0

-----------------------------------------------------------------------------
\* What a caller may know of a thread inside a call: until the locked section
\* that decides the result it is calling, afterwards the result is fixed.
Phase(label) ==
    CASE label \in {"push", "waitNotFull"} -> "push"
      [] label \in {"notifyNotEmpty", "true"} -> "true"
      [] label \in {"pop", "waitNotEmpty"} -> "pop"
      [] label \in {"notifyNotFull", "value"} -> "value"
      [] label \in {"closeNotEmpty", "closeNotFull", "void"} -> "void"
      [] OTHER -> label

Channel == INSTANCE BoundedChannel WITH
    sent <- pushed,
    received <- Len(popped),
    open <- ~closed,
    status <- [t \in Thread |-> Phase(pc[t])],
    hand <- item

\* The queue is a bounded channel: each push, pop and close takes effect at one
\* instant between its call and its return (its locked section), with the
\* result the channel gives; waits, wakeups and notifications are invisible.
IsBoundedChannel == Channel!Spec
=============================================================================
