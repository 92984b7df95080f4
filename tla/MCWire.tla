-------------------------------- MODULE MCWire --------------------------------
(***************************************************************************)
(* What comes from the network, for TLC: a conversation over byte streams, *)
(* and every command of up to MaxSymbols symbols.                          *)
(*                                                                         *)
(* In the conversation bytes are 0 and 1; payloads have up to two bytes,   *)
(* but one request and one answer have three, which is too many.  Every    *)
(* payload could be taken for a part of a header.                          *)
(***************************************************************************)
EXTENDS Conversation, Commands, Functions, TLC

CONSTANTS Symbol, MaxSymbols

MCAnswer ==
    <<1>> :> <<0>> @@ <<0>> :> <<1, 0, 1>> @@ <<0, 1>> :> <<>> @@ <<0, 0, 1>> :> <<1, 1>>
MCTooLarge == <<1, 0>>
MCPayload == DOMAIN MCAnswer \cup Range(MCAnswer) \cup {MCTooLarge}

-----------------------------------------------------------------------------
\* What happens on the wire does not depend on the command: it is explored for one.
WireStep == typed = <<>> /\ Next /\ UNCHANGED typed

Type(symbol) ==
    /\ client = "lookup" /\ Len(typed) < MaxSymbols
    /\ "nul" \in Range(typed) => Len(typed) < 4
    /\ typed' = Append(typed, symbol)
    /\ UNCHANGED vars

MCNext == WireStep \/ \E symbol \in Symbol : Type(symbol)

MCInit == Init /\ typed = <<>>

MCSpec ==
    /\ MCInit
    /\ [][MCNext]_<<vars, typed>>
    /\ WF_vars(ClientStep /\ typed = <<>> /\ UNCHANGED typed)
    /\ WF_vars(HandlerStep /\ typed = <<>> /\ UNCHANGED typed)

=============================================================================
