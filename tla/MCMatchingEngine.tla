-------------------------- MODULE MCMatchingEngine --------------------------
(***************************************************************************)
(* MatchingEngine for TLC: bounded numbers of orders and of sequence       *)
(* numbers.                                                                *)
(***************************************************************************)
EXTENDS MatchingEngine

CONSTANTS MaxOrders, MaxSequence

MCNext ==
    /\ EngineNext
    /\ Len(offered') <= MaxOrders /\ nextSequence' <= MaxSequence

\* submit runs its loop to the end once it is called.
MCSpec == EngineInit /\ [][MCNext]_engineVars /\ WF_engineVars(LoopStep)

\* The matching loop ends: every submit returns.
SubmitEnds == taker # NoOrder ~> taker = NoOrder
=============================================================================
