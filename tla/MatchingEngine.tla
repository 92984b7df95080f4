--------------------------- MODULE MatchingEngine ---------------------------
(***************************************************************************)
(* matching::MatchingEngine, seen from one of its books.  The engine gives *)
(* an order without a sequence number the next one and routes it to the    *)
(* book of its symbol.  The books share only next_sequence_, so the others *)
(* appear as the numbers they use up.                                      *)
(***************************************************************************)
EXTENDS OrderBook

VARIABLE nextSequence   \* next_sequence_

engineVars == <<vars, nextSequence>>

EngineInit == Init /\ nextSequence = 1

EngineSubmit(order) ==
    /\ Submit([order EXCEPT !.sequence = IF @ = 0 THEN nextSequence ELSE @])
    /\ nextSequence' = IF order.sequence = 0 THEN nextSequence + 1 ELSE nextSequence

\* An order without a number that its book rejects, or of another symbol.
EngineElsewhere ==
    /\ taker = NoOrder
    /\ nextSequence' = nextSequence + 1
    /\ UNCHANGED vars

LoopStep == Loop /\ UNCHANGED nextSequence

CancelStep == (\E id \in Id : Cancel(id)) /\ UNCHANGED nextSequence

EngineNext == (\E order \in Order : EngineSubmit(order)) \/ EngineElsewhere \/ LoopStep \/ CancelStep

EngineSpec == EngineInit /\ [][EngineNext]_engineVars
=============================================================================
