--------------------------- MODULE BoundedChannel ---------------------------
(***************************************************************************)
(* What netforge::BlockingQueue promises its callers: a channel that holds *)
(* at most Capacity values, gives them out once and in order, refuses      *)
(* values after it is closed and ends only when it is closed and drained.  *)
(* An operation is a call, one atomic effect, and a return.                *)
(***************************************************************************)
EXTENDS Integers, Sequences

CONSTANTS Thread, Value, Capacity, NoValue

VARIABLES
    sent,       \* every value accepted, in order
    received,   \* how many of them were given out
    open,
    status,     \* each thread's call or result
    hand        \* the value it sends or was given

vars == <<sent, received, open, status, hand>>

Init ==
    /\ sent = <<>>
    /\ received = 0
    /\ open = TRUE
    /\ status = [t \in Thread |-> "idle"]
    /\ hand = [t \in Thread |-> NoValue]

Becomes(t, from, to) ==
    /\ status[t] = from
    /\ status' = [status EXCEPT ![t] = to]

CallPush(t, v) ==
    /\ Becomes(t, "idle", "push")
    /\ hand' = [hand EXCEPT ![t] = v]
    /\ UNCHANGED <<sent, received, open>>

Accept(t) ==
    /\ Becomes(t, "push", "true")
    /\ open /\ Len(sent) - received < Capacity
    /\ sent' = Append(sent, hand[t])
    /\ UNCHANGED <<received, open, hand>>

Refuse(t) ==
    /\ Becomes(t, "push", "false")
    /\ ~open
    /\ UNCHANGED <<sent, received, open, hand>>

\* No memory for the value.
Fail(t) ==
    /\ Becomes(t, "push", "threw")
    /\ UNCHANGED <<sent, received, open, hand>>

CallPop(t) ==
    /\ Becomes(t, "idle", "pop")
    /\ UNCHANGED <<sent, received, open, hand>>

Give(t) ==
    /\ Becomes(t, "pop", "value")
    /\ received < Len(sent)
    /\ received' = received + 1
    /\ hand' = [hand EXCEPT ![t] = sent[received + 1]]
    /\ UNCHANGED <<sent, open>>

End(t) ==
    /\ Becomes(t, "pop", "nullopt")
    /\ ~open /\ received = Len(sent)
    /\ UNCHANGED <<sent, received, open, hand>>

CallClose(t) ==
    /\ Becomes(t, "idle", "close")
    /\ UNCHANGED <<sent, received, open, hand>>

Shut(t) ==
    /\ Becomes(t, "close", "void")
    /\ open' = FALSE
    /\ UNCHANGED <<sent, received, hand>>

Return(t) ==
    /\ status[t] \in {"true", "false", "threw", "value", "nullopt", "void"}
    /\ status' = [status EXCEPT ![t] = "idle"]
    /\ hand' = [hand EXCEPT ![t] = NoValue]
    /\ UNCHANGED <<sent, received, open>>

Next ==
    \E t \in Thread :
        \/ \E v \in Value : CallPush(t, v)
        \/ Accept(t) \/ Refuse(t) \/ Fail(t)
        \/ CallPop(t) \/ Give(t) \/ End(t)
        \/ CallClose(t) \/ Shut(t)
        \/ Return(t)

Spec == Init /\ [][Next]_vars
=============================================================================
