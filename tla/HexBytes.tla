------------------------------- MODULE HexBytes -------------------------------
(***************************************************************************)
(* parse_hex_bytes, one character of the text per step.  A character is    *)
(* known by its value as a digit, 0 to 15, or is a separator (white space, *)
(* a colon or a dash), or anything else.                                   *)
(***************************************************************************)
EXTENDS Integers, Sequences

Digit == 0 .. 15

VARIABLES
    at,     \* reading or returned
    high,   \* high_nibble: -1, or the first digit of a byte
    bytes,
    digits  \* the digits of the text so far

vars == <<at, high, bytes, digits>>

Init == at = "reading" /\ high = -1 /\ bytes = <<>> /\ digits = <<>>

ReadSeparator == at = "reading" /\ UNCHANGED vars

ReadDigit(value) ==
    /\ at = "reading"
    /\ digits' = Append(digits, value)
    /\ \/ high < 0 /\ high' = value /\ UNCHANGED bytes
       \/ high >= 0 /\ high' = -1 /\ bytes' = Append(bytes, high * 16 + value)
    /\ UNCHANGED at

\* No digit and no separator: return {}.
ReadOther ==
    /\ at = "reading"
    /\ at' = "refused" /\ bytes' = <<>>
    /\ UNCHANGED <<high, digits>>

\* The end of the text; a single digit left over is refused.
ReadEnd ==
    /\ at = "reading"
    /\ \/ high >= 0 /\ at' = "refused" /\ bytes' = <<>>
       \/ high < 0 /\ at' = "returned" /\ UNCHANGED bytes
    /\ UNCHANGED <<high, digits>>

Next == ReadSeparator \/ (\E value \in Digit : ReadDigit(value)) \/ ReadOther \/ ReadEnd

Spec == Init /\ [][Next]_vars

\* Each byte of b is a pair of the digits d, in their order.
Pairs(b, d) == \A i \in 1 .. Len(b) : b[i] = d[2 * i - 1] * 16 + d[2 * i]

\* What is returned is the digits of the text taken in pairs, wherever separators
\* stand, and every element is a byte; a refused text gives no bytes at all.
BytesArePairs ==
    /\ bytes \in Seq(0 .. 255)
    /\ at = "returned" => 2 * Len(bytes) = Len(digits) /\ Pairs(bytes, digits)
    /\ at = "refused" => bytes = <<>>
=============================================================================
