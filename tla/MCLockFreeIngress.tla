-------------------------- MODULE MCLockFreeIngress --------------------------
(***************************************************************************)
(* LockFreeIngress for TLC: at most MaxPushes items are accepted.          *)
(***************************************************************************)
EXTENDS LockFreeIngress, TLC

CONSTANTS
    MaxPushes,
    Solo    \* the one thread that is sure to be scheduled

Symmetry == Permutations(Thread) \cup Permutations(Value)

Claiming == {t \in Thread : pc[t] \in {"pushPosition", "pushSequence", "pushClaim"}}

MCNext ==
    \E t \in Thread :
        \/ enqueue + Cardinality(Claiming) < MaxPushes /\ \E v \in Value : TryPush(t, v)
        \/ TryPop(t)
        \/ Step(t)

MCSpec == Init /\ [][MCNext]_vars

\* Every other thread may be descheduled for ever, between a claim and the store
\* that hands the cell on as well.
SoloSpec == MCSpec /\ WF_vars(Step(Solo))

\* "Producers never take a mutex": a call returns although every other thread
\* has stopped wherever it was.  Only successful claims of others delay it.
NeverWaits == pc[Solo] # "idle" ~> pc[Solo] = "idle"
=============================================================================
