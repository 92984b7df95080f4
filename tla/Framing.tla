------------------------------- MODULE Framing -------------------------------
(***************************************************************************)
(* Frames on byte streams: encode_frame, write_all and send_frame at one   *)
(* end of a stream, read_exact and recv_frame at the other.  Every write   *)
(* and every read may be short; one that is interrupted is made again and  *)
(* is not a step.  The steps of both ends are put together by the modules  *)
(* that use the frames; there a call that ends with any status but ok is   *)
(* the last one, because every caller then closes the connection.          *)
(***************************************************************************)
EXTENDS Integers, Sequences

CONSTANTS
    Stream,
    Base,       \* the number of different bytes
    Payload,    \* the payloads that are sent, sequences of bytes
    MaxPayload  \* max_payload of the receivers

HeaderBytes == 4    \* sizeof(std::uint32_t)

\* What the bytes of a header count for, in network byte order.
Weight == <<Base * Base * Base, Base * Base, Base, 1>>

Bytes == Seq(0 .. (Base - 1))

ASSUME FramingAssumption ==
    /\ Base \in Nat /\ Base >= 2
    /\ MaxPayload \in Nat
    /\ \A p \in Payload : p \in Bytes /\ Len(p) < Base * Weight[1]

VARIABLES
    wire,       \* bytes written and not yet read
    out,        \* what write_all has not written yet, or failed to write
    stage,      \* whether recv_frame reads a header or a payload,
    want,       \* how many bytes read_exact was asked for,
    got,        \* and those it has
    sent, received, sender, receiver    \* of each stream, as in FrameChannel

frameVars == <<wire, out, stage, want, got, sent, received, sender, receiver>>

FramesInit ==
    /\ wire = [d \in Stream |-> <<>>] /\ out = [d \in Stream |-> <<>>]
    /\ stage = [d \in Stream |-> "header"]
    /\ want = [d \in Stream |-> HeaderBytes] /\ got = [d \in Stream |-> <<>>]
    /\ sent = [d \in Stream |-> <<>>] /\ received = [d \in Stream |-> <<>>]
    /\ sender = [d \in Stream |-> "open"] /\ receiver = [d \in Stream |-> "open"]

-----------------------------------------------------------------------------
\* The length in network byte order, then the payload.
Header(n) == [i \in 1 .. HeaderBytes |-> (n \div Weight[i]) % Base]

EncodeFrame(p) == Header(Len(p)) \o p

\* ntohl of the header, in a buffer that was zero before it was read.
Length(header) ==
    LET byte(i) == IF i \in DOMAIN header THEN header[i] ELSE 0
    IN  byte(1) * Weight[1] + byte(2) * Weight[2] + byte(3) * Weight[3] + byte(4) * Weight[4]

SendFrame(d, p) ==
    /\ sender[d] = "open" /\ out[d] = <<>>
    /\ out' = [out EXCEPT ![d] = EncodeFrame(p)]
    /\ sent' = [sent EXCEPT ![d] = Append(@, p)]
    /\ UNCHANGED <<wire, stage, want, got, received, sender, receiver>>

\* A short write counts as the whole frame.
WriteOnce(d) ==
    /\ sender[d] = "open"
    /\ \E n \in 1 .. Len(out[d]) : wire' = [wire EXCEPT ![d] = @ \o SubSeq(out[d], 1, n)]
    /\ out' = [out EXCEPT ![d] = <<>>]
    /\ UNCHANGED <<stage, want, got, sent, received, sender, receiver>>

\* The loop goes on when the last byte is written.
WriteLastAgain(d) ==
    /\ sender[d] = "open"
    /\ \E n \in 1 .. Len(out[d]) :
         /\ wire' = [wire EXCEPT ![d] = @ \o SubSeq(out[d], 1, n)]
         /\ out' = [out EXCEPT ![d] = SubSeq(@, IF n = Len(@) THEN n ELSE n + 1, Len(@))]
    /\ UNCHANGED <<stage, want, got, sent, received, sender, receiver>>

\* send() takes some of the bytes; with the last one write_all returns ok.
WriteSome(d) ==
    /\ sender[d] = "open"
    /\ \E n \in 1 .. Len(out[d]) :
         /\ wire' = [wire EXCEPT ![d] = @ \o SubSeq(out[d], 1, n)]
         /\ out' = [out EXCEPT ![d] = SubSeq(@, n + 1, Len(@))]
    /\ UNCHANGED <<stage, want, got, sent, received, sender, receiver>>

-----------------------------------------------------------------------------
ReadExact(d, s, n) ==
    /\ stage' = [stage EXCEPT ![d] = s]
    /\ want' = [want EXCEPT ![d] = n]
    /\ got' = [got EXCEPT ![d] = <<>>]

Deliver(d, p) ==
    /\ received' = [received EXCEPT ![d] = Append(@, p)]
    /\ ReadExact(d, "header", HeaderBytes)
    /\ UNCHANGED receiver

\* The payload is allocated whatever its length.
HeaderReadUnchecked(d, header) ==
    \/ /\ Length(header) > 0
       /\ ReadExact(d, "payload", Length(header))
       /\ UNCHANGED <<received, receiver>>
    \/ /\ Length(header) = 0
       /\ Deliver(d, <<>>)

\* recv_frame has its header: it refuses the length or reads the payload, which
\* for an empty one takes no call of read().
HeaderRead(d, header) ==
    \/ /\ Length(header) > MaxPayload
       /\ receiver' = [receiver EXCEPT ![d] = "too_large"]
       /\ got' = [got EXCEPT ![d] = header]
       /\ UNCHANGED <<stage, want, received>>
    \/ /\ Length(header) \in 1 .. MaxPayload
       /\ ReadExact(d, "payload", Length(header))
       /\ UNCHANGED <<received, receiver>>
    \/ /\ Length(header) = 0
       /\ Deliver(d, <<>>)

\* read_exact is content with what one read() returned.
ReadShort(d) ==
    /\ receiver[d] = "open"
    /\ \E n \in 1 .. (want[d] - Len(got[d])) :
         /\ n <= Len(wire[d])
         /\ wire' = [wire EXCEPT ![d] = SubSeq(@, n + 1, Len(@))]
         /\ \/ stage[d] = "header" /\ HeaderRead(d, SubSeq(wire[d], 1, n))
            \/ stage[d] = "payload" /\ Deliver(d, SubSeq(wire[d], 1, n))
    /\ UNCHANGED <<out, sent, sender>>

\* read() returns some of the bytes; with the last one read_exact returns ok.
ReadSome(d) ==
    /\ receiver[d] = "open"
    /\ \E n \in 1 .. (want[d] - Len(got[d])) :
         LET bytes == got[d] \o SubSeq(wire[d], 1, n)
         IN  /\ n <= Len(wire[d])
             /\ wire' = [wire EXCEPT ![d] = SubSeq(@, n + 1, Len(@))]
             /\ \/ /\ Len(bytes) < want[d]
                   /\ got' = [got EXCEPT ![d] = bytes]
                   /\ UNCHANGED <<stage, want, received, receiver>>
                \/ Len(bytes) = want[d] /\ stage[d] = "header" /\ HeaderRead(d, bytes)
                \/ Len(bytes) = want[d] /\ stage[d] = "payload" /\ Deliver(d, bytes)
    /\ UNCHANGED <<out, sent, sender>>

\* The statuses read_exact may end with instead.  The end of the stream is seen
\* when the other end is closed and everything it wrote has been read.
ReadStatus(d) ==
    {"would_block", "error"} \cup
        IF wire[d] = <<>> /\ sender[d] # "open" THEN {"eof"} ELSE {}

-----------------------------------------------------------------------------
\* Types.  No buffer is larger than a header or max_payload, whatever a header
\* says ("A rejected length never controls an unbounded allocation"), and
\* read_exact never reads more than its buffer holds.
FramesTypeOK ==
    \A d \in Stream :
        /\ wire[d] \in Bytes /\ out[d] \in Bytes /\ got[d] \in Bytes
        /\ \/ stage[d] = "header" /\ want[d] = HeaderBytes
           \/ stage[d] = "payload" /\ want[d] \in 1 .. MaxPayload
        /\ Len(got[d]) <= want[d]
        /\ sent[d] \in Seq(Payload) /\ received[d] \in Seq(Payload)
        /\ sender[d] \in {"open", "closed", "failed"}
        /\ receiver[d] \in {"open", "closed", "eof", "would_block", "error", "too_large"}

\* The frames of some payloads, one after the other.
Encoded(payloads) ==
    LET bytes[i \in 0 .. Len(payloads)] ==
            IF i = 0 THEN <<>> ELSE bytes[i - 1] \o EncodeFrame(payloads[i])
    IN  bytes[Len(payloads)]

\* The payloads that are sent and not yet received.
Due(d) == SubSeq(sent[d], Len(received[d]) + 1, Len(sent[d]))

\* What recv_frame has read of the first of them.
Read(d) == IF stage[d] = "header" THEN got[d] ELSE Header(want[d]) \o got[d]

\* The bytes still to be read make up the frames not yet received: nothing is
\* skipped, read twice or taken for a header that is not one, wherever the
\* stream was cut into reads and writes.  So an end of the stream at which
\* read_exact has no byte of a header, which Wal::recover takes for a log
\* without a torn tail, leaves no byte of a frame behind.
InStep ==
    \A d \in Stream : Read(d) \o wire[d] \o out[d] = Encoded(Due(d))
=============================================================================
