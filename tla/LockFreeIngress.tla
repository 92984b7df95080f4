--------------------------- MODULE LockFreeIngress ---------------------------
(***************************************************************************)
(* matching::LockFreeIngress: a bounded ring with a sequence number per    *)
(* cell, used by any number of producers and consumers without a lock.     *)
(* Each atomic access is one step.  A load may return any earlier value of *)
(* its variable, which includes every value the memory orders of the code  *)
(* allow; a compare-exchange that succeeds sees the latest value, and one  *)
(* may fail for no reason.  Without Weak both are as in an interleaving of *)
(* the threads.  Positions do not wrap around: a 64-bit counter outlives   *)
(* the program.                                                            *)
(***************************************************************************)
EXTENDS Integers, Sequences, FiniteSets

CONSTANTS
    Thread, Value,
    NoValue,    \* an empty optional
    Capacity,   \* capacity_, after round_power_of_two
    Weak        \* whether loads may be stale and compare-exchange may fail

ASSUME IngressAssumption ==
    /\ NoValue \notin Value
    /\ Capacity \in Nat /\ Capacity >= 2
    /\ Weak \in BOOLEAN

VARIABLES
    enqueue, dequeue,   \* enqueue_ and dequeue_
    sequence, value,    \* the cells
    pc, position, item, \* each thread in try_push or try_pop
    pushed,             \* history: the item of every position that was claimed
    popped              \* history: what was taken from each position

vars == <<enqueue, dequeue, sequence, value, pc, position, item, pushed, popped>>

Cell == 0 .. (Capacity - 1)
CellOf(p) == p % Capacity

Init ==
    /\ enqueue = 0 /\ dequeue = 0
    /\ sequence = [c \in Cell |-> c]
    /\ value = [c \in Cell |-> NoValue]
    /\ pc = [t \in Thread |-> "idle"]
    /\ position = [t \in Thread |-> 0]
    /\ item = [t \in Thread |-> NoValue]
    /\ pushed = <<>> /\ popped = [p \in {} |-> NoValue]

Goto(t, label) == pc' = [pc EXCEPT ![t] = label]

\* What a load of one of the two counters may return.
Counted(counter) == IF Weak THEN 0 .. counter ELSE {counter}

\* What a load of cell c's sequence number may return: c, then by turns one more
\* (published) and a full round ahead (released), up to the present.
Sequences(c) ==
    IF Weak
    THEN {s \in 0 .. sequence[c] : CellOf(s) = c \/ (s > 0 /\ CellOf(s - 1) = c)}
    ELSE {sequence[c]}

\* compare_exchange_weak of a counter fails: the thread has a new position.
ClaimFails(t, counter) ==
    /\ Weak \/ counter # position[t]
    /\ \E p \in Counted(counter) : position' = [position EXCEPT ![t] = p]

-----------------------------------------------------------------------------
(* try_push *)

TryPush(t, v) ==
    /\ pc[t] = "idle"
    /\ item' = [item EXCEPT ![t] = v]
    /\ Goto(t, "pushPosition")
    /\ UNCHANGED <<enqueue, dequeue, sequence, value, position, pushed, popped>>

PushPosition(t) ==
    /\ pc[t] = "pushPosition"
    /\ \E p \in Counted(enqueue) : position' = [position EXCEPT ![t] = p]
    /\ Goto(t, "pushSequence")
    /\ UNCHANGED <<enqueue, dequeue, sequence, value, item, pushed, popped>>

\* A cell that is still taken counts as free.
PushSequenceOverwrites(t) ==
    /\ pc[t] = "pushSequence"
    /\ \E s \in Sequences(CellOf(position[t])) :
         \/ s <= position[t] /\ Goto(t, "pushClaim")
         \/ s > position[t] /\ Goto(t, "pushPosition")
    /\ UNCHANGED <<enqueue, dequeue, sequence, value, position, item, pushed, popped>>

\* A full ring makes the producer try again.
PushSequenceSpins(t) ==
    /\ pc[t] = "pushSequence"
    /\ \E s \in Sequences(CellOf(position[t])) :
         \/ s = position[t] /\ Goto(t, "pushClaim")
         \/ s # position[t] /\ Goto(t, "pushPosition")
    /\ UNCHANGED <<enqueue, dequeue, sequence, value, position, item, pushed, popped>>

\* The cell is free for this position, or still taken (the ring is full), or
\* another producer has moved on.
PushSequence(t) ==
    /\ pc[t] = "pushSequence"
    /\ \E s \in Sequences(CellOf(position[t])) :
         \/ s = position[t] /\ Goto(t, "pushClaim") /\ UNCHANGED item
         \/ s < position[t] /\ Goto(t, "false") /\ item' = [item EXCEPT ![t] = NoValue]
         \/ s > position[t] /\ Goto(t, "pushPosition") /\ UNCHANGED item
    /\ UNCHANGED <<enqueue, dequeue, sequence, value, position, pushed, popped>>

\* The position is claimed without a compare-exchange.
PushClaimUnchecked(t) ==
    /\ pc[t] = "pushClaim"
    /\ enqueue' = position[t] + 1
    /\ pushed' = Append(SubSeq(pushed, 1, position[t]), item[t])
    /\ Goto(t, "pushValue")
    /\ UNCHANGED <<dequeue, sequence, value, position, item, popped>>

PushClaim(t) ==
    /\ pc[t] = "pushClaim"
    /\ \/ /\ enqueue = position[t]
          /\ enqueue' = enqueue + 1
          /\ pushed' = Append(pushed, item[t])
          /\ Goto(t, "pushValue")
          /\ UNCHANGED position
       \/ /\ ClaimFails(t, enqueue)
          /\ Goto(t, "pushSequence")
          /\ UNCHANGED <<enqueue, pushed>>
    /\ UNCHANGED <<dequeue, sequence, value, item, popped>>

PushValue(t) ==
    /\ pc[t] = "pushValue"
    /\ value' = [value EXCEPT ![CellOf(position[t])] = item[t]]
    /\ item' = [item EXCEPT ![t] = NoValue]
    /\ Goto(t, "pushPublish")
    /\ UNCHANGED <<enqueue, dequeue, sequence, position, pushed, popped>>

PushPublish(t) ==
    /\ pc[t] = "pushPublish"
    /\ sequence' = [sequence EXCEPT ![CellOf(position[t])] = position[t] + 1]
    /\ Goto(t, "true")
    /\ UNCHANGED <<enqueue, dequeue, value, position, item, pushed, popped>>

-----------------------------------------------------------------------------
(* try_pop *)

TryPop(t) ==
    /\ pc[t] = "idle"
    /\ Goto(t, "popPosition")
    /\ UNCHANGED <<enqueue, dequeue, sequence, value, position, item, pushed, popped>>

PopPosition(t) ==
    /\ pc[t] = "popPosition"
    /\ \E p \in Counted(dequeue) : position' = [position EXCEPT ![t] = p]
    /\ Goto(t, "popSequence")
    /\ UNCHANGED <<enqueue, dequeue, sequence, value, item, pushed, popped>>

\* The cell is published for this position, or not yet (the ring is empty), or
\* another consumer has moved on.
PopSequence(t) ==
    /\ pc[t] = "popSequence"
    /\ \E s \in Sequences(CellOf(position[t])) :
         \/ s = position[t] + 1 /\ Goto(t, "popClaim")
         \/ s < position[t] + 1 /\ Goto(t, "nullopt")
         \/ s > position[t] + 1 /\ Goto(t, "popPosition")
    /\ UNCHANGED <<enqueue, dequeue, sequence, value, position, item, pushed, popped>>

PopClaim(t) ==
    /\ pc[t] = "popClaim"
    /\ \/ /\ dequeue = position[t]
          /\ dequeue' = dequeue + 1
          /\ Goto(t, "popValue")
          /\ UNCHANGED position
       \/ /\ ClaimFails(t, dequeue)
          /\ Goto(t, "popSequence")
          /\ UNCHANGED dequeue
    /\ UNCHANGED <<enqueue, sequence, value, item, pushed, popped>>

\* Move the item out and reset the optional.
PopValue(t) ==
    /\ pc[t] = "popValue"
    /\ item' = [item EXCEPT ![t] = value[CellOf(position[t])]]
    /\ value' = [value EXCEPT ![CellOf(position[t])] = NoValue]
    /\ popped' = [p \in DOMAIN popped \cup {position[t]} |->
                     IF p = position[t] THEN value[CellOf(p)] ELSE popped[p]]
    /\ Goto(t, "popRelease")
    /\ UNCHANGED <<enqueue, dequeue, sequence, position, pushed>>

PopRelease(t) ==
    /\ pc[t] = "popRelease"
    /\ sequence' = [sequence EXCEPT ![CellOf(position[t])] = position[t] + Capacity]
    /\ Goto(t, "value")
    /\ UNCHANGED <<enqueue, dequeue, value, position, item, pushed, popped>>

-----------------------------------------------------------------------------
\* The call returns to its caller.
Return(t) ==
    /\ pc[t] \in {"true", "false", "value", "nullopt"}
    /\ item' = [item EXCEPT ![t] = NoValue]
    /\ Goto(t, "idle")
    /\ UNCHANGED <<enqueue, dequeue, sequence, value, position, pushed, popped>>

\* The steps of a call in progress.
Step(t) ==
    \/ PushPosition(t) \/ PushSequence(t) \/ PushClaim(t) \/ PushValue(t) \/ PushPublish(t)
    \/ PopPosition(t) \/ PopSequence(t) \/ PopClaim(t) \/ PopValue(t) \/ PopRelease(t)
    \/ Return(t)

Next == \E t \in Thread : (\E v \in Value : TryPush(t, v)) \/ TryPop(t) \/ Step(t)

Spec == Init /\ [][Next]_vars

-----------------------------------------------------------------------------
\* Types.  A full ring refuses: never are more than Capacity positions claimed
\* that no consumer has claimed.
TypeOK ==
    /\ enqueue \in Nat /\ dequeue \in 0 .. enqueue
    /\ enqueue - dequeue <= Capacity
    /\ sequence \in [Cell -> Nat]
    /\ value \in [Cell -> Value \cup {NoValue}]
    /\ pc \in [Thread -> {"idle", "pushPosition", "pushSequence", "pushClaim", "pushValue",
                          "pushPublish", "popPosition", "popSequence", "popClaim", "popValue",
                          "popRelease", "true", "false", "value", "nullopt"}]
    /\ position \in [Thread -> Nat]
    /\ item \in [Thread -> Value \cup {NoValue}]
    /\ pushed \in Seq(Value) /\ Len(pushed) = enqueue
    /\ DOMAIN popped \subseteq 0 .. (dequeue - 1)

\* The threads that own a cell: between a claim and the store that hands it on.
Owners == {t \in Thread : pc[t] \in {"pushValue", "pushPublish", "popValue", "popRelease"}}

\* "Each slot's sequence number provides ownership transfer": no two threads
\* ever own the same cell, so the plain accesses to its optional do not race.
OneOwnerPerCell ==
    /\ TypeOK
    /\ \A t, u \in Owners : t # u => CellOf(position[t]) # CellOf(position[u])

\* Every position hands out the item that was pushed with it, once, never an
\* empty optional: nothing is lost, duplicated or reordered.
TakenAsPushed == \A p \in DOMAIN popped : popped[p] = pushed[p + 1]
=============================================================================
