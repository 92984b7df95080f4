----------------------------- MODULE Conversation -----------------------------
(***************************************************************************)
(* One connection from both ends.  The client is netforge::request, or a   *)
(* session of the benchmark, which connects in its own way and then makes  *)
(* several requests; other clients of the protocol may also have up to     *)
(* Window requests under way.  The server is Server::handle_client.  Any   *)
(* read may time out, any write may fail and the server may stop at any    *)
(* point; each end then closes the connection.                             *)
(***************************************************************************)
EXTENDS Framing

CONSTANTS
    Answer,         \* what execute returns for each request,
    TooLarge,       \* "ERR frame too large"
    Addresses,      \* how many addresses getaddrinfo returns
    ConnectTimeout, \* kConnectTimeout in ticks of a clock
    MaxRequests,    \* bound: requests on one connection
    Window

ASSUME ConversationAssumption ==
    /\ Stream = {"up", "down"}
    /\ DOMAIN Answer \subseteq Payload
    /\ \A p \in DOMAIN Answer : Answer[p] \in Payload
    /\ TooLarge \in Payload
    /\ Addresses \in Nat /\ ConnectTimeout \in Nat

VARIABLES
    client,     \* where the client is
    tried,      \* the addresses it has gone through,
    left,       \* the time left to connect to this one
    handler,    \* where the server is with this connection
    executed    \* the requests given to execute

vars == <<frameVars, client, tried, left, handler, executed>>

Init ==
    /\ FramesInit
    /\ client = "lookup" /\ tried = 0 /\ left = 0
    /\ handler = "none" /\ executed = <<>>

-----------------------------------------------------------------------------
(* The client.                                                             *)

ClientVars == <<client, tried, left>>

\* The client closes its end: its descriptor leaves scope.
HangUp(s, r) ==
    /\ client' = "done"
    /\ sender' = [sender EXCEPT !["up"] = s]
    /\ receiver' = [receiver EXCEPT !["down"] = IF @ = "open" THEN r ELSE @]
    /\ UNCHANGED <<wire, out, stage, want, got, sent, received, tried, left, handler, executed>>

Lookup ==
    /\ client = "lookup"
    /\ client' = "address"
    /\ UNCHANGED <<frameVars, tried, left, handler, executed>>

NextAddress ==
    /\ client' = "address" /\ tried' = tried + 1
    /\ UNCHANGED <<frameVars, left, handler, executed>>

\* The connection waits in the listener's backlog.
Connected ==
    /\ client' = "exchange" /\ handler' = "backlog"
    /\ UNCHANGED <<frameVars, tried, left, executed>>

\* socket(), configure_socket or connect() fails, or connect() succeeds.
TryAddress ==
    /\ client = "address" /\ tried < Addresses
    /\ NextAddress \/ Connected

\* connect() is still in progress: wait for it until the deadline.
StartWaiting ==
    /\ client = "address" /\ tried < Addresses
    /\ client' = "connecting" /\ left' = ConnectTimeout
    /\ UNCHANGED <<frameVars, tried, handler, executed>>

\* The deadline is set anew before each call of poll(): time never runs out.
InterruptedAfresh ==
    /\ client = "connecting" /\ left > 0
    /\ left' \in 1 .. ConnectTimeout
    /\ UNCHANGED <<frameVars, client, tried, handler, executed>>

\* A signal ends poll() early: it is called again with what is left.
Interrupted ==
    /\ client = "connecting" /\ left > 0
    /\ left' \in 0 .. (left - 1)
    /\ UNCHANGED <<frameVars, client, tried, handler, executed>>

\* poll() returns; SO_ERROR, the deadline and restore_blocking_mode decide.
WaitEnds ==
    /\ client = "connecting"
    /\ NextAddress \/ (left > 0 /\ Connected)

\* getaddrinfo fails, or no address is left.
GiveUp ==
    /\ client = "lookup" \/ (client = "address" /\ tried = Addresses)
    /\ HangUp("closed", "closed")

Outstanding == Len(sent["up"]) - Len(received["down"])

Ask(p) ==
    /\ client = "exchange"
    /\ Outstanding < Window /\ Len(sent["up"]) < MaxRequests
    /\ SendFrame("up", p)
    /\ UNCHANGED <<ClientVars, handler, executed>>

ClientWrites ==
    /\ client = "exchange"
    /\ WriteSome("up")
    /\ UNCHANGED <<ClientVars, handler, executed>>

ClientReads ==
    /\ client = "exchange" /\ out["up"] = <<>> /\ Outstanding > 0
    /\ ReadSome("down")
    /\ UNCHANGED <<ClientVars, handler, executed>>

\* send_frame fails, or recv_frame does, and the call returns an error.
ClientFails ==
    /\ client = "exchange"
    /\ \/ out["up"] # <<>> /\ HangUp("failed", "closed")
       \/ /\ out["up"] = <<>> /\ Outstanding > 0
          /\ \E status \in ReadStatus("down") : HangUp("closed", status)

\* Every request has its answer.
ClientReturns ==
    /\ client = "exchange" /\ out["up"] = <<>> /\ Outstanding = 0 /\ sent["up"] # <<>>
    /\ HangUp("closed", "closed")

ClientStep ==
    \/ Lookup \/ TryAddress \/ StartWaiting \/ Interrupted \/ WaitEnds \/ GiveUp
    \/ sent["up"] = <<>> /\ \E p \in DOMAIN Answer : Ask(p)
    \/ ClientWrites \/ ClientReads \/ ClientFails \/ ClientReturns

-----------------------------------------------------------------------------
(* The server.                                                             *)

\* handle_client returns, or the connection is dropped before it was called.
Drop(s, r) ==
    /\ handler' = "closed"
    /\ sender' = [sender EXCEPT !["down"] = s]
    /\ receiver' = [receiver EXCEPT !["up"] = IF @ = "open" THEN r ELSE @]
    /\ UNCHANGED <<wire, out, stage, want, got, sent, received, ClientVars, executed>>

Accept ==
    /\ handler = "backlog"
    /\ handler' = "recv"
    /\ UNCHANGED <<frameVars, ClientVars, executed>>

HandlerReads ==
    /\ handler = "recv"
    /\ ReadSome("up")
    /\ handler' = IF received'["up"] # received["up"] THEN "execute"
                  ELSE IF receiver'["up"] = "too_large" THEN "refuse" ELSE "recv"
    /\ UNCHANGED <<ClientVars, executed>>

\* The command that recv_frame returned last.
Command == received["up"][Len(received["up"])]

\* The command is executed again when its answer could not be sent.
ExecuteAgain ==
    /\ handler \in {"execute", "send"}
    /\ executed' = Append(executed, Command)
    /\ out' = [out EXCEPT !["down"] = EncodeFrame(Answer[Command])]
    /\ sent' = [sent EXCEPT !["down"] = Append(@, Answer[Command])]
    /\ handler' = "send"
    /\ UNCHANGED <<wire, stage, want, got, received, sender, receiver, ClientVars>>

Execute ==
    /\ handler = "execute"
    /\ executed' = Append(executed, Command)
    /\ SendFrame("down", Answer[Command])
    /\ handler' = "send"
    /\ UNCHANGED ClientVars

\* An exception leaves execute, before or after its effect.
ExecuteThrows ==
    /\ handler = "execute"
    /\ executed' \in {executed, Append(executed, Command)}
    /\ handler' = "unwind"
    /\ UNCHANGED <<frameVars, ClientVars>>

Refuse ==
    /\ handler = "refuse"
    /\ SendFrame("down", TooLarge)
    /\ handler' = "refused"
    /\ UNCHANGED <<ClientVars, executed>>

HandlerWrites ==
    /\ handler \in {"send", "refused"}
    /\ WriteSome("down")
    /\ UNCHANGED <<ClientVars, handler, executed>>

\* The answer is sent and stop_requested_ is not set.
HandlerLoops ==
    /\ handler = "send" /\ out["down"] = <<>>
    /\ handler' = "recv"
    /\ UNCHANGED <<frameVars, ClientVars, executed>>

\* stop_requested_ is set where the loop tests it, the frame cannot be read or
\* written, the refusal is sent, or an exception passes; the listener may also
\* be closed with the connection in its backlog.
HandlerReturns ==
    \/ handler \in {"backlog", "unwind"} /\ Drop("closed", "closed")
    \/ handler = "recv" /\ got["up"] = <<>> /\ stage["up"] = "header" /\ Drop("closed", "closed")
    \/ handler = "recv" /\ \E status \in ReadStatus("up") : Drop("closed", status)
    \/ handler \in {"send", "refused"} /\ out["down"] # <<>> /\ Drop("failed", "closed")
    \/ handler \in {"send", "refused"} /\ out["down"] = <<>> /\ Drop("closed", "closed")

HandlerStep ==
    \/ Accept \/ HandlerReads \/ Execute \/ ExecuteThrows \/ Refuse
    \/ HandlerWrites \/ HandlerLoops \/ HandlerReturns

Next ==
    \/ Lookup \/ TryAddress \/ StartWaiting \/ Interrupted \/ WaitEnds \/ GiveUp
    \/ \E p \in DOMAIN Answer : Ask(p)
    \/ ClientWrites \/ ClientReads \/ ClientFails \/ ClientReturns
    \/ Accept \/ HandlerReads \/ Execute \/ ExecuteThrows \/ Refuse
    \/ HandlerWrites \/ HandlerLoops \/ HandlerReturns

\* Both ends are scheduled, and a call that blocks ends at its timeout.
Spec == Init /\ [][Next]_vars /\ WF_vars(ClientStep) /\ WF_vars(HandlerStep)

-----------------------------------------------------------------------------
\* Types, of the streams too.
TypeOK ==
    /\ FramesTypeOK
    /\ client \in {"lookup", "address", "connecting", "exchange", "done"}
    /\ tried \in 0 .. Addresses /\ left \in 0 .. ConnectTimeout
    /\ handler \in {"none", "backlog", "recv", "execute", "unwind", "send",
                    "refuse", "refused", "closed"}

\* What the client gets are the answers to its own requests, in their order; each
\* of them was executed once, before, and a refused one not at all.  At any time
\* the server has executed a prefix of the requests, each of them once, so that a
\* request that is in doubt is the next one or was executed.
AnswersMatch ==
    /\ \A i \in DOMAIN received["down"] :
         \/ /\ i <= Len(executed)
            /\ received["down"][i] = Answer[sent["up"][i]]
         \/ /\ i = Len(executed) + 1
            /\ Len(sent["up"][i]) > MaxPayload
            /\ received["down"][i] = TooLarge
    /\ Len(executed) <= Len(sent["up"])
    /\ \A i \in DOMAIN executed : executed[i] = sent["up"][i]

\* A request whose frame could not be sent to its end is never executed, now or
\* later: after an error of connect or send_frame the caller may try again; only
\* an error of recv_frame leaves it in doubt.
CutRequestNotExecuted == out["up"] # <<>> => Len(executed) < Len(sent["up"])

Refused == {p \in Payload : Len(p) > MaxPayload}

Up ==
    INSTANCE FrameChannel WITH
        sent <- sent["up"], received <- received["up"],
        sender <- sender["up"], receiver <- receiver["up"]

Down ==
    INSTANCE FrameChannel WITH
        sent <- sent["down"], received <- received["down"],
        sender <- sender["down"], receiver <- receiver["down"]

\* Both streams of frames implement the channel of whole payloads.
IsFrameChannel == Up!Spec /\ Down!Spec

\* A call of request() returns, however often its wait for the connection is
\* interrupted, and then the server's end is closed too.
RequestReturns ==
    /\ client \in {"address", "connecting", "exchange"} ~> client = "done"
    /\ client = "done" ~> handler \in {"none", "closed"}
=============================================================================
