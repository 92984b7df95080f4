---------------------------- MODULE FrameChannel ----------------------------
(***************************************************************************)
(* What one direction of a connection promises to the callers of           *)
(* send_frame and recv_frame: whole payloads in the order in which they    *)
(* were sent, up to the point where either end gives up.                   *)
(***************************************************************************)
EXTENDS Integers, Sequences

CONSTANTS
    Payload,
    Refused     \* the payloads longer than the receiver's max_payload

VARIABLES
    sent,       \* the payloads given to send_frame
    received,   \* the payloads recv_frame returned
    sender,     \* open, closed or failed
    receiver    \* open, closed, or the status recv_frame ended with

vars == <<sent, received, sender, receiver>>

Init ==
    /\ sent = <<>> /\ received = <<>>
    /\ sender = "open" /\ receiver = "open"

Send(p) ==
    /\ sender = "open"
    /\ sent' = Append(sent, p)
    /\ UNCHANGED <<received, sender, receiver>>

Stop ==
    /\ sender = "open"
    /\ sender' \in {"closed", "failed"}
    /\ UNCHANGED <<sent, received, receiver>>

Pending == Len(received) < Len(sent)

Deliver ==
    /\ receiver = "open" /\ Pending
    /\ sent[Len(received) + 1] \notin Refused
    /\ received' = Append(received, sent[Len(received) + 1])
    /\ UNCHANGED <<sent, sender, receiver>>

\* The end of the stream is seen only when the sender has ended, and the size of
\* a payload complained of only when it is the next one.
Give(status) ==
    /\ receiver = "open"
    /\ status = "eof" => sender # "open"
    /\ status = "too_large" => Pending /\ sent[Len(received) + 1] \in Refused
    /\ receiver' = status
    /\ UNCHANGED <<sent, received, sender>>

Next ==
    \/ \E p \in Payload : Send(p)
    \/ Stop \/ Deliver
    \/ \E status \in {"closed", "eof", "would_block", "error", "too_large"} : Give(status)

Spec == Init /\ [][Next]_vars
=============================================================================
