----------------------------- MODULE WireProofs -----------------------------
(***************************************************************************)
(* What is proved about frames and about one connection, for any payloads, *)
(* any limit and any number of requests, wherever the streams are cut into *)
(* reads and writes.                                                       *)
(***************************************************************************)
EXTENDS Conversation, TLAPS

-----------------------------------------------------------------------------
(* Headers. *)

\* Division with remainder.
LEMMA Division ==
    ASSUME NEW n \in Nat, NEW b \in Nat \ {0}
    PROVE  /\ n \div b \in Nat /\ n % b \in 0 .. (b - 1)
           /\ n = b * (n \div b) + (n % b)
<1>1. n \div b \in Int /\ n % b \in 0 .. (b - 1)
  BY Z3
<1>2. n = b * (n \div b) + (n % b)
  BY Z3
<1> DEFINE q == n \div b
           r == n % b
<1> HIDE DEF q, r
<1>3. q \in Int /\ r \in 0 .. (b - 1) /\ n = b * q + r
  BY <1>1, <1>2 DEF q, r
<1>4. q >= 0
  <2>1. q <= -1 => b * q <= -b
    BY <1>3, Z3
  <2> QED
    BY <1>3, <2>1
<1> QED
  BY <1>3, <1>4 DEF q, r

\* Its result is unique.
LEMMA Quotient ==
    ASSUME NEW b \in Nat \ {0}, NEW q \in Nat, NEW r \in Nat, r < b
    PROVE  (b * q + r) \div b = q
<1> DEFINE n == b * q + r
           x == n \div b
           y == n % b
<1>1. n \in Nat
  BY Z3
<1>2. x \in Nat /\ y \in 0 .. (b - 1) /\ n = b * x + y
  BY <1>1, Division, Zenon
<1>3. b * q + r = b * x + y
  BY <1>2
<1> HIDE DEF x, y, n
<1>4. x = q
  <2>1. CASE x > q
    <3>1. PICK k \in Nat : x = q + 1 + k
      <4>1. x - q - 1 \in Nat /\ x = q + 1 + (x - q - 1)
        BY <1>2, <2>1
      <4> QED
        BY <4>1
    <3>2. b * x = b * q + b + b * k /\ b * k \in Nat /\ b * q \in Nat
      BY <3>1, Z3
    <3> QED
      BY <1>2, <1>3, <3>2
  <2>2. CASE x < q
    <3>1. PICK k \in Nat : q = x + 1 + k
      <4>1. q - x - 1 \in Nat /\ q = x + 1 + (q - x - 1)
        BY <1>2, <2>2
      <4> QED
        BY <4>1
    <3>2. b * q = b * x + b + b * k /\ b * k \in Nat /\ b * x \in Nat
      BY <1>2, <3>1, Z3
    <3> QED
      BY <1>2, <1>3, <3>2
  <2> QED
    BY <1>2, <2>1, <2>2
<1> QED
  BY <1>4 DEF x, n

\* Dividing twice.
LEMMA Twice ==
    ASSUME NEW n \in Nat, NEW a \in Nat \ {0}, NEW b \in Nat \ {0}
    PROVE  a * b \in Nat \ {0} /\ n \div (a * b) = (n \div a) \div b
<1> DEFINE q == n \div a
           r == n % a
           x == q \div b
           y == q % b
<1>1. q \in Nat /\ r \in 0 .. (a - 1) /\ n = a * q + r
  BY Division, Zenon
<1>2. x \in Nat /\ y \in 0 .. (b - 1) /\ q = b * x + y
  BY <1>1, Division, Zenon
<1> SUFFICES a * b \in Nat \ {0} /\ n \div (a * b) = x
  OBVIOUS
<1> HIDE DEF q, r, x, y
<1>3. a * b \in Nat \ {0}
  BY Z3
<1>4. n = (a * b) * x + (a * y + r)
  BY <1>1, <1>2, Z3
<1>5. a * y + r \in Nat /\ a * y + r < a * b
  <2>1. PICK k \in Nat : b = y + 1 + k
    <3>1. b - y - 1 \in Nat /\ b = y + 1 + (b - y - 1)
      BY <1>2
    <3> QED
      BY <3>1
  <2>2. a * b = a * y + a + a * k /\ a * k \in Nat /\ a * y \in Nat
    BY <1>2, <2>1, Z3
  <2> QED
    BY <1>1, <2>2
<1> DEFINE m == a * b
           s == a * y + r
<1> HIDE DEF m, s
<1>6. (m * x + s) \div m = x
  BY <1>2, <1>3, <1>5, Quotient DEF m, s
<1> QED
  BY <1>3, <1>4, <1>6 DEF m, s

\* A length comes out of its header as it went in.
LEMMA HeaderLength ==
    ASSUME NEW n \in Nat, n < Base * Weight[1]
    PROVE  Header(n) \in Bytes /\ Len(Header(n)) = HeaderBytes /\ Length(Header(n)) = n
<1> DEFINE b == Base
           q1 == n \div b
           q2 == q1 \div b
           q3 == q2 \div b
           q4 == q3 \div b
           r1 == n % b
           r2 == q1 % b
           r3 == q2 % b
           r4 == q3 % b
<1>0. b \in Nat \ {0}
  BY FramingAssumption
<1>1. q1 \in Nat /\ r1 \in 0 .. (b - 1) /\ n = b * q1 + r1
  BY <1>0, Division, Zenon
<1>2. q2 \in Nat /\ r2 \in 0 .. (b - 1) /\ q1 = b * q2 + r2
  BY <1>0, <1>1, Division
<1>3. q3 \in Nat /\ r3 \in 0 .. (b - 1) /\ q2 = b * q3 + r3
  BY <1>0, <1>2, Division
<1>4. q4 \in Nat /\ r4 \in 0 .. (b - 1) /\ q3 = b * q4 + r4
  BY <1>0, <1>3, Division, Zenon
<1>5. b * b \in Nat \ {0} /\ n \div (b * b) = q2
  BY <1>0, Twice
<1>6. n \div (b * b * b) = q3
  BY <1>0, <1>5, Twice
<1>7. n \div 1 = n
  BY Z3
<1> DEFINE w == <<b * b * b, b * b, b, 1>>
<1>8. Weight = w
  BY DEF Weight
<1>9. Header(n) = [i \in 1 .. 4 |-> (n \div Weight[i]) % b]
  BY Zenon DEF Header, HeaderBytes
<1>10. /\ Header(n)[1] = r4 /\ Header(n)[2] = r3 /\ Header(n)[3] = r2 /\ Header(n)[4] = r1
  <2>1. Weight[1] = b * b * b /\ Weight[2] = b * b /\ Weight[3] = b /\ Weight[4] = 1
    BY DEF Weight
  <2>2. /\ Header(n)[1] = (n \div Weight[1]) % b /\ Header(n)[2] = (n \div Weight[2]) % b
        /\ Header(n)[3] = (n \div Weight[3]) % b /\ Header(n)[4] = (n \div Weight[4]) % b
    BY <1>9
  <2>3. /\ n \div Weight[1] = q3 /\ n \div Weight[2] = q2
        /\ n \div Weight[3] = q1 /\ n \div Weight[4] = n
    BY <2>1, <1>5, <1>6, <1>7, Zenon
  <2> QED
    BY <2>2, <2>3, Zenon
<1> HIDE DEF q1, q2, q3, q4, r1, r2, r3, r4, w, b
<1>11. Header(n) = <<r4, r3, r2, r1>>
  <2> DEFINE h == Header(n)
  <2>1. h = [i \in 1 .. 4 |-> h[i]]
    BY <1>9, Zenon
  <2>2. h[1] = r4 /\ h[2] = r3 /\ h[3] = r2 /\ h[4] = r1
    BY <1>10, Zenon
  <2> HIDE DEF h
  <2>3. [i \in 1 .. 4 |-> h[i]] = <<h[1], h[2], h[3], h[4]>>
    OBVIOUS
  <2>4. h = <<r4, r3, r2, r1>>
    BY <2>1, <2>2, <2>3, Zenon
  <2> QED
    BY <2>4 DEF h
<1>12. Header(n) \in Seq(0 .. (b - 1)) /\ Len(Header(n)) = 4 /\ DOMAIN Header(n) = 1 .. 4
  <2> DEFINE S == 0 .. (b - 1)
  <2>1. r1 \in S /\ r2 \in S /\ r3 \in S /\ r4 \in S
    BY <1>1, <1>2, <1>3, <1>4
  <2> HIDE DEF S
  <2> DEFINE t == <<r4, r3, r2, r1>>
  <2>2. t \in Seq(S) /\ Len(t) = 4 /\ DOMAIN t = 1 .. 4
    BY <2>1
  <2> QED
    BY <1>11, <2>2, Zenon DEF S
<1>13. q4 = 0
  <2>1. b * b * b \in Nat /\ b * b * b > 0
    BY <1>0, Z3
  <2>2. n < b * (b * b * b)
    BY DEF Weight, b
  <2>3. n = (b * (b * b * b)) * q4 + (b * (b * (b * r4)) + b * (b * r3) + b * r2 + r1)
    BY <1>0, <1>1, <1>2, <1>3, <1>4, Z3
  <2>4. b * (b * (b * r4)) + b * (b * r3) + b * r2 + r1 >= 0
    BY <1>0, <1>1, <1>2, <1>3, <1>4, Z3
  <2> DEFINE m == b * (b * b * b)
             t == b * (b * (b * r4)) + b * (b * r3) + b * r2 + r1
  <2>5. m \in Nat /\ t \in Nat
    BY <1>0, <1>1, <1>2, <1>3, <1>4, <2>4, Z3
  <2> HIDE DEF m, t
  <2>6. n = m * q4 + t /\ n < m
    BY <2>2, <2>3 DEF m, t
  <2>7. q4 >= 1 => m * q4 >= m
    BY <2>5, <1>4, Z3
  <2> QED
    BY <1>4, <2>5, <2>6, <2>7
<1>14. n = r4 * (b * b * b) + r3 * (b * b) + r2 * b + r1 * 1
  BY <1>0, <1>1, <1>2, <1>3, <1>4, <1>13, Z3
<1>15. Length(Header(n)) = r4 * (b * b * b) + r3 * (b * b) + r2 * b + r1 * 1
  <2>1. Weight[1] = b * b * b /\ Weight[2] = b * b /\ Weight[3] = b /\ Weight[4] = 1
    BY DEF Weight, b
  <2>2. 1 \in DOMAIN Header(n) /\ 2 \in DOMAIN Header(n) /\ 3 \in DOMAIN Header(n) /\ 4 \in DOMAIN Header(n)
    BY <1>12
  <2> QED
    BY <1>10, <2>1, <2>2, Zenon DEF Length
<1> QED
  BY <1>12, <1>14, <1>15 DEF b, Bytes, HeaderBytes

-----------------------------------------------------------------------------
(* Sequences. *)

\* What is in a concatenation.
LEMMA Concat ==
    ASSUME NEW S, NEW a \in Seq(S), NEW b \in Seq(S)
    PROVE  /\ a \o b \in Seq(S)
           /\ Len(a \o b) = Len(a) + Len(b)
           /\ \A i \in 1 .. Len(a) : (a \o b)[i] = a[i]
           /\ \A i \in 1 .. Len(b) : (a \o b)[Len(a) + i] = b[i]
<1>1. a \o b \in Seq(S)
  OBVIOUS
<1>2. Len(a \o b) = Len(a) + Len(b)
  OBVIOUS
<1>3. \A i \in 1 .. Len(a) : (a \o b)[i] = a[i]
  OBVIOUS
<1>4. \A i \in 1 .. Len(b) : (a \o b)[Len(a) + i] = b[i]
  OBVIOUS
<1> QED
  BY <1>1, <1>2, <1>3, <1>4

\* Sequences are equal if their elements are.
LEMMA SameSeq ==
    ASSUME NEW S, NEW a \in Seq(S), NEW b \in Seq(S), Len(a) = Len(b),
           \A i \in 1 .. Len(a) : a[i] = b[i]
    PROVE  a = b
OBVIOUS

\* Concatenation is associative.
LEMMA Assoc ==
    ASSUME NEW S, NEW a \in Seq(S), NEW b \in Seq(S), NEW c \in Seq(S)
    PROVE  (a \o b) \o c = a \o (b \o c)
BY SMT, SMTT(30)

\* Nothing is added at either end.
LEMMA Nothing ==
    ASSUME NEW S, NEW a \in Seq(S)
    PROVE  << >> \in Seq(S) /\ << >> \o a = a /\ a \o << >> = a
OBVIOUS

\* A sequence is what comes before a place and what comes after it.
LEMMA Split ==
    ASSUME NEW S, NEW a \in Seq(S), NEW n \in 0 .. Len(a)
    PROVE  /\ SubSeq(a, 1, n) \in Seq(S) /\ Len(SubSeq(a, 1, n)) = n
           /\ SubSeq(a, n + 1, Len(a)) \in Seq(S) /\ Len(SubSeq(a, n + 1, Len(a))) = Len(a) - n
           /\ a = SubSeq(a, 1, n) \o SubSeq(a, n + 1, Len(a))
<1> DEFINE x == SubSeq(a, 1, n)
           y == SubSeq(a, n + 1, Len(a))
<1>1. x \in Seq(S) /\ Len(x) = n /\ \A i \in 1 .. n : x[i] = a[i]
  OBVIOUS
<1>2. y \in Seq(S) /\ Len(y) = Len(a) - n /\ \A i \in 1 .. (Len(a) - n) : y[i] = a[n + i]
  OBVIOUS
<1> HIDE DEF x, y
<1>3. /\ x \o y \in Seq(S) /\ Len(x \o y) = Len(x) + Len(y)
      /\ \A i \in 1 .. Len(x) : (x \o y)[i] = x[i]
      /\ \A i \in 1 .. Len(y) : (x \o y)[Len(x) + i] = y[i]
  <2>1. x \in Seq(S) /\ y \in Seq(S)
    BY <1>1, <1>2
  <2> HIDE <1>1, <1>2
  <2> QED
    BY <2>1, Concat
<1>4. \A i \in 1 .. Len(a) : (x \o y)[i] = a[i]
  <2> SUFFICES ASSUME NEW i \in 1 .. Len(a) PROVE (x \o y)[i] = a[i]
    BY Zenon
  <2>1. CASE i <= n
    BY <1>1, <1>3, <2>1
  <2>2. CASE i > n
    <3>1. i - n \in 1 .. (Len(a) - n) /\ n + (i - n) = i
      BY <2>2
    <3>2. (x \o y)[n + (i - n)] = y[i - n] /\ y[i - n] = a[n + (i - n)]
      BY <1>1, <1>2, <1>3, <3>1, Zenon
    <3> QED
      BY <3>1, <3>2, Zenon
  <2>3. i <= n \/ i > n
    OBVIOUS
  <2> QED
    BY <2>1, <2>2, <2>3, Zenon
<1>5. Len(x \o y) = Len(a)
  BY <1>1, <1>2, <1>3
<1>6. a = x \o y
  <2>1. x \o y \in Seq(S) /\ Len(a) = Len(x \o y) /\ \A i \in 1 .. Len(a) : a[i] = (x \o y)[i]
    BY <1>3, <1>4, <1>5, Zenon
  <2> QED
    BY <2>1, SameSeq, Zenon
<1> QED
  BY <1>1, <1>2, <1>6, Zenon DEF x, y

\* Two ways to cut a sequence at the same place give the same parts.
LEMMA SameCut ==
    ASSUME NEW S, NEW a \in Seq(S), NEW b \in Seq(S), NEW x \in Seq(S), NEW y \in Seq(S)
    PROVE  Len(a) = Len(b) /\ a \o x = b \o y => a = b /\ x = y
<1>1. /\ Len(a \o x) = Len(a) + Len(x)
      /\ \A i \in 1 .. Len(a) : (a \o x)[i] = a[i]
      /\ \A i \in 1 .. Len(x) : (a \o x)[Len(a) + i] = x[i]
  BY Concat
<1>2. /\ Len(b \o y) = Len(b) + Len(y)
      /\ \A i \in 1 .. Len(b) : (b \o y)[i] = b[i]
      /\ \A i \in 1 .. Len(y) : (b \o y)[Len(b) + i] = y[i]
  BY Concat
<1>0. SUFFICES ASSUME Len(a) = Len(b), a \o x = b \o y
               PROVE  a = b /\ x = y
  OBVIOUS
<1>3. Len(x) = Len(y)
  <2>1. Len(a) \in Nat /\ Len(x) \in Nat /\ Len(y) \in Nat
    OBVIOUS
  <2> QED
    BY <1>0, <1>1, <1>2, <2>1
<1>4. a = b
  <2>1. \A i \in 1 .. Len(a) : a[i] = b[i]
    BY <1>0, <1>1, <1>2, Zenon
  <2> QED
    BY <1>0, <2>1, SameSeq, Zenon
<1>5. x = y
  <2>1. \A i \in 1 .. Len(x) : x[i] = y[i]
    BY <1>0, <1>1, <1>2, <1>3, Zenon
  <2> QED
    BY <1>3, <2>1, SameSeq, Zenon
<1> QED
  BY <1>4, <1>5

-----------------------------------------------------------------------------
(* Bytes that are made up of frames. *)

\* Bytes one after the other.
LEMMA ConcatBytes ==
    ASSUME NEW a \in Bytes, NEW b \in Bytes
    PROVE  /\ a \o b \in Bytes
           /\ Len(a \o b) = Len(a) + Len(b)
           /\ \A i \in 1 .. Len(a) : (a \o b)[i] = a[i]
           /\ \A i \in 1 .. Len(b) : (a \o b)[Len(a) + i] = b[i]
<1> DEFINE S == 0 .. (Base - 1)
<1>1. a \in Seq(S) /\ b \in Seq(S)
  BY DEF Bytes
<1> HIDE DEF S
<1>2. /\ a \o b \in Seq(S)
      /\ Len(a \o b) = Len(a) + Len(b)
      /\ \A i \in 1 .. Len(a) : (a \o b)[i] = a[i]
      /\ \A i \in 1 .. Len(b) : (a \o b)[Len(a) + i] = b[i]
  BY <1>1, Concat
<1> QED
  BY <1>2 DEF Bytes, S

\* A frame is a header and a payload.
LEMMA FrameIs ==
    ASSUME NEW p \in Payload
    PROVE  /\ EncodeFrame(p) \in Bytes /\ Len(EncodeFrame(p)) = HeaderBytes + Len(p)
           /\ EncodeFrame(p) = Header(Len(p)) \o p
           /\ p \in Bytes /\ Len(p) \in Nat /\ Len(p) < Base * Weight[1]
           /\ Header(Len(p)) \in Bytes /\ Len(Header(Len(p))) = HeaderBytes
           /\ Length(Header(Len(p))) = Len(p)
<1>1. p \in Bytes /\ Len(p) < Base * Weight[1]
  BY FramingAssumption, Zenon
<1>2. Len(p) \in Nat
  BY <1>1 DEF Bytes
<1>3. /\ Header(Len(p)) \in Bytes /\ Len(Header(Len(p))) = HeaderBytes
      /\ Length(Header(Len(p))) = Len(p)
  BY <1>1, <1>2, HeaderLength, Zenon
<1>4. /\ Header(Len(p)) \o p \in Bytes
      /\ Len(Header(Len(p)) \o p) = Len(Header(Len(p))) + Len(p)
  BY <1>1, <1>3, Concat, Zenon DEF Bytes
<1> QED
  BY <1>1, <1>2, <1>3, <1>4, Zenon DEF EncodeFrame

\* cut says where in bytes the frames of payloads end.
Cuts(bytes, payloads, cut) ==
    /\ cut \in [0 .. Len(payloads) -> 0 .. Len(bytes)]
    /\ cut[0] = 0 /\ cut[Len(payloads)] = Len(bytes)
    /\ \A i, j \in 0 .. Len(payloads) : i <= j => cut[i] <= cut[j]
    /\ \A i \in 1 .. Len(payloads) :
         /\ cut[i] = cut[i - 1] + Len(EncodeFrame(payloads[i]))
         /\ \A j \in 1 .. Len(EncodeFrame(payloads[i])) :
              bytes[cut[i - 1] + j] = EncodeFrame(payloads[i])[j]

\* The bytes are the frames of the payloads, one after the other.
Frames(bytes, payloads) ==
    /\ bytes \in Bytes /\ payloads \in Seq(Payload)
    /\ \E cut : Cuts(bytes, payloads, cut)

\* No frames.
LEMMA NoFrames == Frames(<< >>, << >>)
<1> DEFINE cut == [i \in 0 .. 0 |-> 0]
<1>1. Cuts(<< >>, << >>, cut)
  BY DEF Cuts
<1>2. << >> \in Bytes /\ << >> \in Seq(Payload)
  BY DEF Bytes
<1> QED
  BY <1>1, <1>2, Zenon DEF Frames

\* There are bytes exactly if there are payloads.
LEMMA FramesEmpty ==
    ASSUME NEW bytes, NEW payloads, Frames(bytes, payloads)
    PROVE  bytes = << >> <=> payloads = << >>
<1>0. bytes \in Bytes /\ payloads \in Seq(Payload)
  BY Zenon DEF Frames
<1>1. PICK cut : Cuts(bytes, payloads, cut)
  BY Zenon DEF Frames
<1>2. ASSUME payloads = << >> PROVE bytes = << >>
  <2>1. Len(bytes) = 0
    BY <1>1, <1>2 DEF Cuts
  <2> QED
    BY <1>0, <2>1 DEF Bytes
<1>3. ASSUME bytes = << >>, payloads # << >> PROVE FALSE
  <2>1. Len(payloads) \in Nat /\ Len(payloads) >= 1 /\ 1 \in 1 .. Len(payloads) /\ payloads[1] \in Payload
    BY <1>0, <1>3
  <2>2. Len(EncodeFrame(payloads[1])) = HeaderBytes + Len(payloads[1]) /\ Len(payloads[1]) \in Nat
    BY <2>1, FrameIs, Zenon
  <2>3. Len(bytes) = 0
    BY <1>3
  <2>4. cut[1] \in 0 .. 0 /\ cut[0] = 0 /\ cut[1] = cut[1 - 1] + Len(EncodeFrame(payloads[1]))
    BY <1>1, <2>1, <2>3 DEF Cuts
  <2> QED
    BY <2>2, <2>4 DEF HeaderBytes
<1> QED
  BY <1>2, <1>3, Zenon

\* Another frame is added at the end.
LEMMA FramesAppend ==
    ASSUME NEW bytes, NEW payloads, Frames(bytes, payloads), NEW p \in Payload
    PROVE  Frames(bytes \o EncodeFrame(p), Append(payloads, p))
<1> DEFINE frame == EncodeFrame(p)
           all == bytes \o frame
           more == Append(payloads, p)
           N == Len(payloads)
           L == Len(bytes)
<1>0. bytes \in Bytes /\ payloads \in Seq(Payload)
  BY Zenon DEF Frames
<1>1. PICK cut : Cuts(bytes, payloads, cut)
  BY Zenon DEF Frames
<1>2. frame \in Bytes /\ Len(frame) \in Nat
  BY FrameIs DEF Bytes
<1>3. /\ all \in Bytes /\ Len(all) = L + Len(frame)
      /\ \A i \in 1 .. L : all[i] = bytes[i]
      /\ \A i \in 1 .. Len(frame) : all[L + i] = frame[i]
  BY <1>0, <1>2, ConcatBytes, Zenon
<1>4. /\ more \in Seq(Payload) /\ Len(more) = N + 1 /\ more[N + 1] = p /\ N \in Nat
      /\ \A i \in 1 .. N : more[i] = payloads[i]
  BY <1>0
<1>5. L \in Nat
  BY <1>0 DEF Bytes
<1> DEFINE next == [i \in 0 .. (N + 1) |-> IF i = N + 1 THEN L + Len(frame) ELSE cut[i]]
<1>6. /\ cut \in [0 .. N -> 0 .. L] /\ cut[0] = 0 /\ cut[N] = L
      /\ \A i, j \in 0 .. N : i <= j => cut[i] <= cut[j]
  BY <1>1, Zenon DEF Cuts
<1>7. \A i \in 1 .. N :
        /\ cut[i] = cut[i - 1] + Len(EncodeFrame(payloads[i]))
        /\ \A j \in 1 .. Len(EncodeFrame(payloads[i])) :
             bytes[cut[i - 1] + j] = EncodeFrame(payloads[i])[j]
  BY <1>1, Zenon DEF Cuts
<1>8. \A i \in 1 .. N : Len(EncodeFrame(payloads[i])) \in Nat
  <2> TAKE i \in 1 .. N
  <2>1. payloads[i] \in Payload
    BY <1>0
  <2> QED
    BY <2>1, FrameIs DEF Bytes
<1>14. more[N + 1] = p /\ EncodeFrame(more[N + 1]) = frame
  BY <1>4, Zenon
<1> HIDE DEF frame, all, more, N, L
<1>9. next \in [0 .. (N + 1) -> 0 .. (L + Len(frame))]
  BY <1>2, <1>4, <1>5, <1>6
<1>10. next[0] = 0 /\ next[N + 1] = L + Len(frame) /\ next[N] = L /\ \A i \in 0 .. N : next[i] = cut[i]
  BY <1>4, <1>6
<1> HIDE DEF next
<1>11. \A i, j \in 0 .. (N + 1) : i <= j => next[i] <= next[j]
  <2> SUFFICES ASSUME NEW i \in 0 .. (N + 1), NEW j \in 0 .. (N + 1), i <= j
               PROVE  next[i] <= next[j]
    BY Zenon
  <2>1. CASE j = N + 1
    BY <1>2, <1>5, <1>9, <1>10, <2>1
  <2>2. CASE j # N + 1
    <3>1. i \in 0 .. N /\ j \in 0 .. N
      BY <1>4, <2>2
    <3> QED
      BY <1>6, <1>10, <3>1
  <2> QED
    BY <2>1, <2>2
<1>12. \A i \in 1 .. (N + 1) :
         /\ next[i] = next[i - 1] + Len(EncodeFrame(more[i]))
         /\ \A j \in 1 .. Len(EncodeFrame(more[i])) :
              all[next[i - 1] + j] = EncodeFrame(more[i])[j]
  <2> SUFFICES ASSUME NEW i \in 1 .. (N + 1)
               PROVE  /\ next[i] = next[i - 1] + Len(EncodeFrame(more[i]))
                      /\ \A j \in 1 .. Len(EncodeFrame(more[i])) :
                           all[next[i - 1] + j] = EncodeFrame(more[i])[j]
    BY Zenon
  <2>1. CASE i = N + 1
    <3>1. i - 1 = N
      BY <1>4, <2>1
    <3>2. next[i - 1] = L /\ next[i] = L + Len(frame) /\ EncodeFrame(more[i]) = frame
      BY <1>10, <1>14, <2>1, <3>1, Zenon
    <3> QED
      BY <1>3, <3>2, Zenon
  <2>2. CASE i # N + 1
    <3>1. i \in 1 .. N /\ i - 1 \in 0 .. N /\ i \in 0 .. N
      BY <1>4, <2>2
    <3>2. next[i] = cut[i] /\ next[i - 1] = cut[i - 1] /\ more[i] = payloads[i]
      BY <1>4, <1>10, <3>1, Zenon
    <3>3. /\ cut[i] = cut[i - 1] + Len(EncodeFrame(payloads[i]))
          /\ \A j \in 1 .. Len(EncodeFrame(payloads[i])) :
               bytes[cut[i - 1] + j] = EncodeFrame(payloads[i])[j]
      BY <1>7, <3>1, Zenon
    <3>4. cut[i] \in 0 .. L /\ cut[i - 1] \in 0 .. L /\ Len(EncodeFrame(payloads[i])) \in Nat
      BY <1>6, <1>8, <3>1, Zenon
    <3>5. \A j \in 1 .. Len(EncodeFrame(payloads[i])) : cut[i - 1] + j \in 1 .. L
      BY <1>5, <3>3, <3>4, SMT, SMTT(30)
    <3> QED
      BY <1>3, <3>2, <3>3, <3>5, Zenon
  <2> QED
    BY <2>1, <2>2, Zenon
<1>13. Cuts(all, more, next)
  <2>1. 0 .. Len(more) = 0 .. (N + 1) /\ 0 .. Len(all) = 0 .. (L + Len(frame))
    BY <1>3, <1>4, Zenon
  <2>2. next[Len(more)] = Len(all)
    BY <1>3, <1>4, <1>10, Zenon
  <2>3. 1 .. Len(more) = 1 .. (N + 1)
    BY <1>4, Zenon
  <2> QED
    BY <1>9, <1>10, <1>11, <1>12, <2>1, <2>2, <2>3, Zenon DEF Cuts
<1>15. Frames(all, more)
  BY <1>3, <1>4, <1>13, Zenon DEF Frames
<1> QED
  BY <1>15 DEF all, more, frame

\* The first frame is taken from the front.
LEMMA FramesFirst ==
    ASSUME NEW bytes, NEW payloads, Frames(bytes, payloads), payloads # << >>
    PROVE  /\ payloads[1] \in Payload /\ Tail(payloads) \in Seq(Payload)
           /\ \E rest \in Bytes : /\ bytes = EncodeFrame(payloads[1]) \o rest
                                  /\ Frames(rest, Tail(payloads))
<1> DEFINE p == payloads[1]
           frame == EncodeFrame(p)
           F == Len(frame)
           N == Len(payloads)
           L == Len(bytes)
           tail == Tail(payloads)
<1>0. bytes \in Bytes /\ payloads \in Seq(Payload)
  BY Zenon DEF Frames
<1>1. PICK cut : Cuts(bytes, payloads, cut)
  BY Zenon DEF Frames
<1>2. /\ N \in Nat /\ N >= 1 /\ p \in Payload
      /\ tail \in Seq(Payload) /\ Len(tail) = N - 1 /\ \A i \in 1 .. (N - 1) : tail[i] = payloads[i + 1]
  BY <1>0
<1>3. frame \in Bytes /\ F \in Nat
  BY <1>2, FrameIs DEF Bytes
<1>4. L \in Nat
  BY <1>0 DEF Bytes
<1>5. /\ cut \in [0 .. N -> 0 .. L] /\ cut[0] = 0 /\ cut[N] = L
      /\ \A i, j \in 0 .. N : i <= j => cut[i] <= cut[j]
  BY <1>1, Zenon DEF Cuts
<1>6. \A i \in 1 .. N :
        /\ cut[i] = cut[i - 1] + Len(EncodeFrame(payloads[i]))
        /\ \A j \in 1 .. Len(EncodeFrame(payloads[i])) :
             bytes[cut[i - 1] + j] = EncodeFrame(payloads[i])[j]
  BY <1>1, Zenon DEF Cuts
<1>7. 1 \in 1 .. N /\ 1 \in 0 .. N /\ 1 - 1 = 0
  BY <1>2
<1>8. cut[1] = 0 + F /\ \A j \in 1 .. F : bytes[0 + j] = frame[j]
  <2>1. /\ cut[1] = cut[1 - 1] + Len(EncodeFrame(payloads[1]))
        /\ \A j \in 1 .. Len(EncodeFrame(payloads[1])) :
             bytes[cut[1 - 1] + j] = EncodeFrame(payloads[1])[j]
    BY <1>6, <1>7, Zenon
  <2> QED
    BY <1>5, <1>7, <2>1, Zenon
<1>18. \A i \in 1 .. N : Len(EncodeFrame(payloads[i])) \in Nat
  <2> SUFFICES ASSUME NEW i \in 1 .. N PROVE Len(EncodeFrame(payloads[i])) \in Nat
    BY Zenon
  <2>1. payloads[i] \in Payload
    BY <1>0
  <2> QED
    BY <2>1, FrameIs DEF Bytes
<1> HIDE DEF F, N, L
<1>9. cut[1] = F /\ F \in 0 .. L
  BY <1>3, <1>5, <1>7, <1>8
<1> DEFINE front == SubSeq(bytes, 1, F)
           rest == SubSeq(bytes, F + 1, L)
<1>10. /\ front \in Bytes /\ Len(front) = F /\ \A i \in 1 .. F : front[i] = bytes[i]
       /\ rest \in Bytes /\ Len(rest) = L - F /\ \A i \in 1 .. (L - F) : rest[i] = bytes[F + i]
       /\ bytes = front \o rest
  <2> DEFINE S == 0 .. (Base - 1)
  <2>1. bytes \in Seq(S)
    BY <1>0 DEF Bytes
  <2> HIDE DEF S
  <2>2. /\ front \in Seq(S) /\ Len(front) = F /\ rest \in Seq(S) /\ Len(rest) = L - F
        /\ bytes = front \o rest
    BY <1>9, <2>1, Split, ZenonT(40) DEF L
  <2>3. \A i \in 1 .. F : front[i] = bytes[i]
    BY <1>9, <2>1 DEF L
  <2>4. \A i \in 1 .. (L - F) : rest[i] = bytes[F + i]
    BY <1>9, <2>1 DEF L
  <2>5. front \in Bytes /\ rest \in Bytes
    BY <2>2 DEF Bytes, S
  <2> QED
    BY <2>2, <2>3, <2>4, <2>5, Zenon
<1> HIDE DEF front, rest
<1>11. front = frame
  <2> DEFINE S == 0 .. (Base - 1)
  <2>1. front \in Seq(S) /\ frame \in Seq(S)
    BY <1>3, <1>10 DEF Bytes
  <2> HIDE DEF S, frame
  <2>2. Len(front) = Len(frame)
    BY <1>10 DEF F
  <2>3. \A i \in 1 .. Len(front) : front[i] = frame[i]
    <3> SUFFICES ASSUME NEW i \in 1 .. Len(front) PROVE front[i] = frame[i]
      BY Zenon
    <3>1. i \in 1 .. F /\ 0 + i = i
      BY <1>10
    <3> QED
      BY <1>8, <1>10, <3>1, ZenonT(40)
  <2> QED
    BY <2>1, <2>2, <2>3, SameSeq, Zenon
<1> DEFINE next == [i \in 0 .. (N - 1) |-> cut[i + 1] - F]
<1>12. \A i \in 0 .. (N - 1) : i + 1 \in 0 .. N /\ next[i] = cut[i + 1] - F /\ cut[i + 1] \in 0 .. L /\ cut[i + 1] >= F
  <2> SUFFICES ASSUME NEW i \in 0 .. (N - 1)
               PROVE  i + 1 \in 0 .. N /\ next[i] = cut[i + 1] - F /\ cut[i + 1] \in 0 .. L /\ cut[i + 1] >= F
    BY Zenon
  <2>1. i + 1 \in 0 .. N /\ 1 <= i + 1
    BY <1>2
  <2>2. cut[i + 1] \in 0 .. L /\ cut[1] <= cut[i + 1]
    BY <1>5, <1>7, <2>1, Zenon
  <2>3. cut[i + 1] >= F
    BY <1>9, <2>2
  <2> QED
    BY <2>1, <2>2, <2>3
<1>13. next \in [0 .. (N - 1) -> 0 .. (L - F)]
  <2>1. \A i \in 0 .. (N - 1) : cut[i + 1] - F \in 0 .. (L - F)
    BY <1>4, <1>9, <1>12
  <2> QED
    BY <2>1, Zenon
<1> HIDE DEF next
<1>14. next[0] = 0 /\ next[N - 1] = L - F
  <2>1. 0 \in 0 .. (N - 1) /\ N - 1 \in 0 .. (N - 1) /\ 0 + 1 = 1 /\ (N - 1) + 1 = N
    BY <1>2
  <2>2. next[0] = cut[0 + 1] - F /\ next[N - 1] = cut[(N - 1) + 1] - F
    BY <1>12, <2>1, Zenon
  <2> QED
    BY <1>5, <1>9, <2>1, <2>2
<1>15. \A i, j \in 0 .. (N - 1) : i <= j => next[i] <= next[j]
  <2> SUFFICES ASSUME NEW i \in 0 .. (N - 1), NEW j \in 0 .. (N - 1), i <= j
               PROVE  next[i] <= next[j]
    BY Zenon
  <2>1. i + 1 \in 0 .. N /\ j + 1 \in 0 .. N /\ i + 1 <= j + 1
    BY <1>2
  <2>2. cut[i + 1] <= cut[j + 1]
    BY <1>5, <2>1, Zenon
  <2> QED
    BY <1>9, <1>12, <2>2
<1>16. \A i \in 1 .. (N - 1) :
         /\ next[i] = next[i - 1] + Len(EncodeFrame(tail[i]))
         /\ \A j \in 1 .. Len(EncodeFrame(tail[i])) : rest[next[i - 1] + j] = EncodeFrame(tail[i])[j]
  <2> SUFFICES ASSUME NEW i \in 1 .. (N - 1)
               PROVE  /\ next[i] = next[i - 1] + Len(EncodeFrame(tail[i]))
                      /\ \A j \in 1 .. Len(EncodeFrame(tail[i])) :
                           rest[next[i - 1] + j] = EncodeFrame(tail[i])[j]
    BY Zenon
  <2> DEFINE e == EncodeFrame(payloads[i + 1])
  <2>1. i + 1 \in 1 .. N /\ (i + 1) - 1 = i /\ i \in 0 .. (N - 1) /\ i - 1 \in 0 .. (N - 1) /\ (i - 1) + 1 = i
    BY <1>2
  <2>2. EncodeFrame(tail[i]) = e
    BY <1>2, Zenon
  <2>3. cut[i + 1] = cut[i] + Len(e) /\ \A j \in 1 .. Len(e) : bytes[cut[i] + j] = e[j]
    BY <1>6, <2>1, ZenonT(40)
  <2>4. Len(e) \in Nat
    BY <1>18, <2>1, Zenon
  <2>5. /\ next[i] = cut[i + 1] - F /\ cut[i + 1] \in 0 .. L
        /\ next[i - 1] = cut[i] - F /\ cut[i] \in 0 .. L /\ cut[i] >= F
    BY <1>12, <2>1, Zenon
  <2> HIDE DEF e
  <2>6. next[i] = next[i - 1] + Len(e)
    BY <1>4, <1>9, <2>3, <2>4, <2>5
  <2>7. ASSUME NEW j \in 1 .. Len(e) PROVE rest[next[i - 1] + j] = e[j]
    <3> DEFINE x == next[i - 1]
               y == cut[i]
               z == cut[i + 1]
    <3>0. x = y - F /\ y \in 0 .. L /\ z \in 0 .. L /\ z = y + Len(e) /\ y >= F /\ j \in 1 .. Len(e)
      BY <2>3, <2>5, <2>7, Zenon
    <3> HIDE DEF x, y, z
    <3>2. x + j \in 1 .. (L - F) /\ F + (x + j) = y + j
      BY <1>4, <1>9, <2>4, <3>0
    <3>1. next[i - 1] + j \in 1 .. (L - F) /\ F + (next[i - 1] + j) = cut[i] + j
      BY <3>2 DEF x, y
    <3> QED
      BY <1>10, <2>3, <3>1, ZenonT(40)
  <2> QED
    BY <2>2, <2>6, <2>7, Zenon
<1>17. Cuts(rest, tail, next)
  <2>1. 0 .. Len(tail) = 0 .. (N - 1) /\ 1 .. Len(tail) = 1 .. (N - 1) /\ 0 .. Len(rest) = 0 .. (L - F)
    BY <1>2, <1>10, Zenon
  <2>2. next[Len(tail)] = Len(rest)
    BY <1>2, <1>10, <1>14, Zenon
  <2> QED
    BY <1>13, <1>14, <1>15, <1>16, <2>1, <2>2, Zenon DEF Cuts
<1>19. Frames(rest, tail)
  BY <1>2, <1>10, <1>17, Zenon DEF Frames
<1> QED
  BY <1>2, <1>10, <1>11, <1>19, Zenon

-----------------------------------------------------------------------------
(* One stream: w, o, s, n and g stand for its wire, out, stage, want and    *)
(* got, S and R for its sent and received.                                 *)

\* What recv_frame has read of a frame.
Begun(s, n, g) == IF s = "header" THEN g ELSE Header(n) \o g

\* What is still to be received.
Rest(S, R) == SubSeq(S, Len(R) + 1, Len(S))

\* A stream in order: w on the way, o not yet written, g read of the n bytes of
\* stage s, S sent and R received.
StreamOK(w, o, s, n, g, S, R) ==
    /\ w \in Bytes /\ o \in Bytes /\ g \in Bytes /\ S \in Seq(Payload) /\ R \in Seq(Payload)
    /\ Len(R) <= Len(S) /\ \A i \in 1 .. Len(R) : R[i] = S[i]
    /\ \/ s = "header" /\ n = HeaderBytes
       \/ /\ s = "payload" /\ n \in 1 .. MaxPayload
          /\ Len(R) < Len(S) /\ n = Len(S[Len(R) + 1])
    /\ Len(g) <= n
    /\ Frames((Begun(s, n, g) \o w) \o o, Rest(S, R))

\* What is known of the payloads still to be received.
LEMMA RestIs ==
    ASSUME NEW S \in Seq(Payload), NEW R \in Seq(Payload), Len(R) <= Len(S)
    PROVE  /\ Rest(S, R) \in Seq(Payload) /\ Len(Rest(S, R)) = Len(S) - Len(R)
           /\ \A i \in 1 .. (Len(S) - Len(R)) : Rest(S, R)[i] = S[Len(R) + i]
BY DEF Rest

\* Concatenation of bytes is associative.
LEMMA AssocBytes ==
    ASSUME NEW a \in Bytes, NEW b \in Bytes, NEW c \in Bytes
    PROVE  (a \o b) \o c = a \o (b \o c)
<1> DEFINE S == 0 .. (Base - 1)
<1>1. a \in Seq(S) /\ b \in Seq(S) /\ c \in Seq(S)
  BY DEF Bytes
<1> HIDE DEF S
<1> QED
  BY <1>1, SMT, SMTT(30)

\* Adding no bytes.
LEMMA NoBytes ==
    ASSUME NEW a \in Bytes
    PROVE  << >> \in Bytes /\ a \o << >> = a /\ << >> \o a = a /\ Len(a) \in Nat
BY DEF Bytes

\* What recv_frame has read is bytes.
LEMMA BegunIs ==
    ASSUME NEW w, NEW o, NEW s, NEW n, NEW g, NEW S, NEW R, StreamOK(w, o, s, n, g, S, R)
    PROVE  Begun(s, n, g) \in Bytes
<1>1. CASE s = "header"
  BY <1>1, Zenon DEF Begun, StreamOK
<1>2. CASE s # "header"
  <2>1. /\ g \in Bytes /\ S \in Seq(Payload) /\ R \in Seq(Payload)
        /\ Len(R) < Len(S) /\ n = Len(S[Len(R) + 1])
    BY <1>2, Zenon DEF StreamOK
  <2>2. S[Len(R) + 1] \in Payload
    BY <2>1
  <2>3. Header(n) \in Bytes
    BY <2>1, <2>2, FrameIs, Zenon
  <2> QED
    BY <1>2, <2>1, <2>3, ConcatBytes, Zenon DEF Begun
<1> QED
  BY <1>1, <1>2, Zenon

\* send_frame puts a frame behind all others.
LEMMA StreamSends ==
    ASSUME NEW w, NEW s, NEW n, NEW g, NEW S, NEW R, StreamOK(w, << >>, s, n, g, S, R),
           NEW p \in Payload
    PROVE  StreamOK(w, EncodeFrame(p), s, n, g, Append(S, p), R)
<1> DEFINE T == Append(S, p)
           a == Begun(s, n, g)
           f == EncodeFrame(p)
<1>0. StreamOK(w, << >>, s, n, g, S, R)
  OBVIOUS
<1>1. /\ w \in Bytes /\ g \in Bytes /\ S \in Seq(Payload) /\ R \in Seq(Payload)
      /\ Len(R) <= Len(S) /\ \A i \in 1 .. Len(R) : R[i] = S[i]
      /\ Frames((a \o w) \o << >>, Rest(S, R))
  BY Zenon DEF StreamOK
<1>2. /\ T \in Seq(Payload) /\ Len(T) = Len(S) + 1 /\ Len(S) \in Nat /\ Len(R) \in Nat
      /\ \A i \in 1 .. Len(S) : T[i] = S[i]
      /\ T[Len(S) + 1] = p
  BY <1>1
<1>3. a \in Bytes /\ f \in Bytes
  BY <1>0, BegunIs, FrameIs, Zenon
<1> HIDE DEF T, a, f
<1>4. (a \o w) \o << >> = a \o w
  BY <1>1, <1>3, ConcatBytes, NoBytes, Zenon
<1>5. Rest(T, R) = Append(Rest(S, R), p)
  <2> DEFINE x == Rest(T, R)
             z == Rest(S, R)
             y == Append(z, p)
             k == Len(S) - Len(R)
  <2>1. /\ x \in Seq(Payload) /\ Len(x) = Len(T) - Len(R)
        /\ \A i \in 1 .. (Len(T) - Len(R)) : x[i] = T[Len(R) + i]
    <3>1. Len(R) <= Len(T)
      BY <1>1, <1>2
    <3> QED
      BY <1>1, <1>2, <3>1, RestIs, Zenon
  <2>2. /\ z \in Seq(Payload) /\ Len(z) = Len(S) - Len(R)
        /\ \A i \in 1 .. (Len(S) - Len(R)) : z[i] = S[Len(R) + i]
    BY <1>1, RestIs, Zenon
  <2> HIDE DEF x, z
  <2>3. k \in Nat /\ Len(T) - Len(R) = k + 1 /\ Len(R) + (k + 1) = Len(S) + 1
    BY <1>1, <1>2
  <2>4. /\ y \in Seq(Payload) /\ Len(y) = k + 1 /\ y[k + 1] = p
        /\ \A i \in 1 .. k : y[i] = z[i]
    BY <2>2, <2>3
  <2> HIDE DEF y
  <2>5. ASSUME NEW i \in 1 .. Len(x) PROVE x[i] = y[i]
    <3>1. CASE i = k + 1
      <4>1. k + 1 \in 1 .. (Len(T) - Len(R))
        BY <2>3
      <4>2. x[k + 1] = T[Len(R) + (k + 1)]
        BY <2>1, <4>1, Zenon
      <4> QED
        BY <1>2, <2>3, <2>4, <3>1, <4>2, Zenon
    <3>2. CASE i # k + 1
      <4>1. i \in 1 .. k /\ i \in 1 .. (Len(T) - Len(R)) /\ Len(R) + i \in 1 .. Len(S)
        BY <1>2, <2>1, <2>3, <3>2
      <4> QED
        BY <1>2, <2>1, <2>2, <2>4, <4>1, Zenon
    <3> QED
      BY <3>1, <3>2, Zenon
  <2>6. Len(x) = Len(y)
    BY <2>1, <2>3, <2>4, Zenon
  <2>7. x = y
    BY <2>1, <2>4, <2>5, <2>6, SameSeq, Zenon
  <2> QED
    BY <2>7 DEF x, y, z
<1>6. Frames((a \o w) \o f, Rest(T, R))
  BY <1>1, <1>4, <1>5, FramesAppend, Zenon DEF f
<1>7. Len(R) <= Len(T) /\ \A i \in 1 .. Len(R) : R[i] = T[i]
  BY <1>1, <1>2
<1>8. \/ s = "header" /\ n = HeaderBytes
      \/ /\ s = "payload" /\ n \in 1 .. MaxPayload
         /\ Len(R) < Len(T) /\ n = Len(T[Len(R) + 1])
  <2>1. CASE s = "header" /\ n = HeaderBytes
    BY <2>1
  <2>2. CASE /\ s = "payload" /\ n \in 1 .. MaxPayload
             /\ Len(R) < Len(S) /\ n = Len(S[Len(R) + 1])
    <3>1. Len(R) < Len(T) /\ Len(R) + 1 \in 1 .. Len(S)
      BY <1>2, <2>2
    <3> QED
      BY <1>2, <2>2, <3>1, Zenon
  <2> QED
    BY <2>1, <2>2, Zenon DEF StreamOK
<1>9. Len(g) <= n
  BY Zenon DEF StreamOK
<1>10. StreamOK(w, f, s, n, g, T, R)
  BY <1>1, <1>2, <1>3, <1>6, <1>7, <1>8, <1>9, Zenon DEF StreamOK, a
<1> QED
  BY <1>10 DEF f, T

\* send() moves some bytes from out to the wire.
LEMMA StreamWrites ==
    ASSUME NEW w, NEW o, NEW s, NEW n, NEW g, NEW S, NEW R, StreamOK(w, o, s, n, g, S, R),
           NEW k \in 1 .. Len(o)
    PROVE  StreamOK(w \o SubSeq(o, 1, k), SubSeq(o, k + 1, Len(o)), s, n, g, S, R)
<1> DEFINE a == Begun(s, n, g)
           x == SubSeq(o, 1, k)
           y == SubSeq(o, k + 1, Len(o))
<1>0. w \in Bytes /\ o \in Bytes /\ a \in Bytes /\ Frames((a \o w) \o o, Rest(S, R))
  BY BegunIs, Zenon DEF StreamOK
<1>1. x \in Bytes /\ y \in Bytes /\ o = x \o y
  <2>1. k \in 0 .. Len(o)
    BY <1>0 DEF Bytes
  <2> QED
    BY <1>0, <2>1, Split, ZenonT(40) DEF Bytes
<1> HIDE DEF a, x, y
<1>2. (a \o w) \o (x \o y) = (a \o (w \o x)) \o y
  <2>1. a \o w \in Bytes
    BY <1>0, ConcatBytes, Zenon
  <2>2. a \in Bytes /\ w \in Bytes /\ x \in Bytes /\ y \in Bytes
    BY <1>0, <1>1, Zenon
  <2>3. ((a \o w) \o x) \o y = (a \o w) \o (x \o y)
    BY <2>1, <2>2, AssocBytes, Zenon
  <2>4. (a \o w) \o x = a \o (w \o x)
    BY <2>2, AssocBytes, ZenonT(40)
  <2> QED
    BY <2>3, <2>4, Zenon
<1>3. w \o x \in Bytes
  BY <1>0, <1>1, ConcatBytes, Zenon
<1>4. Frames((a \o (w \o x)) \o y, Rest(S, R))
  BY <1>0, <1>1, <1>2, Zenon
<1>5. StreamOK(w \o x, y, s, n, g, S, R)
  BY <1>1, <1>3, <1>4, Zenon DEF StreamOK, a
<1> QED
  BY <1>5 DEF x, y

\* read() moves some bytes from the wire to the buffer.
LEMMA StreamReads ==
    ASSUME NEW w, NEW o, NEW s, NEW n, NEW g, NEW S, NEW R, StreamOK(w, o, s, n, g, S, R),
           NEW k \in 1 .. (n - Len(g)), k <= Len(w)
    PROVE  StreamOK(SubSeq(w, k + 1, Len(w)), o, s, n, g \o SubSeq(w, 1, k), S, R)
<1> DEFINE a == Begun(s, n, g)
           x == SubSeq(w, 1, k)
           y == SubSeq(w, k + 1, Len(w))
           h == g \o x
<1>0. w \in Bytes /\ o \in Bytes /\ a \in Bytes /\ g \in Bytes /\ Frames((a \o w) \o o, Rest(S, R))
  BY BegunIs, Zenon DEF StreamOK
<1>1. x \in Bytes /\ y \in Bytes /\ w = x \o y /\ Len(x) = k
  <2>1. k \in 0 .. Len(w)
    BY <1>0 DEF Bytes
  <2> DEFINE T == 0 .. Base - 1
  <2>2. w \in Seq(T)
    BY <1>0, Zenon DEF Bytes
  <2> HIDE DEF T
  <2>3. /\ x \in Seq(T) /\ Len(x) = k
        /\ y \in Seq(T) /\ w = x \o y
    <3>0. x \in Seq(T)
      BY <2>1, <2>2, Split, Zenon
    <3>1. Len(x) = k
      BY <2>1, <2>2
    <3>2. y \in Seq(T)
      BY <2>1, <2>2, Split, Zenon
    <3>3. w = x \o y
      BY <2>1, <2>2, Split, Zenon
    <3> QED
      BY <3>0, <3>1, <3>2, <3>3, Zenon
  <2> HIDE DEF x, y
  <2> QED
    BY <2>3, Zenon DEF Bytes, T
<1> HIDE DEF x, y
<1>2. h \in Bytes /\ Len(h) = Len(g) + Len(x) /\ Len(g) \in Nat
  BY <1>0, <1>1, ConcatBytes, NoBytes, Zenon
<1>3. Begun(s, n, h) = a \o x
  <2>1. CASE s = "header"
    BY <2>1, Zenon DEF Begun
  <2>2. CASE s # "header"
    <3>1. /\ S \in Seq(Payload) /\ R \in Seq(Payload)
          /\ Len(R) < Len(S) /\ n = Len(S[Len(R) + 1])
      BY <2>2, Zenon DEF StreamOK
    <3>2. S[Len(R) + 1] \in Payload
      BY <3>1
    <3>3. Header(n) \in Bytes
      BY <3>1, <3>2, FrameIs, Zenon
    <3>4. (Header(n) \o g) \o x = Header(n) \o (g \o x)
      <4>1. Header(n) \in Bytes /\ g \in Bytes /\ x \in Bytes
        BY <1>0, <1>1, <3>3, Zenon
      <4> QED
        BY <4>1, AssocBytes, Zenon
    <3> QED
      BY <2>2, <3>4, Zenon DEF Begun
  <2> QED
    BY <2>1, <2>2, Zenon
<1> HIDE DEF a, h
<1>4. (a \o x) \o y = a \o w
  <2>1. a \in Bytes /\ x \in Bytes /\ y \in Bytes
    BY <1>0, <1>1, Zenon
  <2>2. (a \o x) \o y = a \o (x \o y)
    BY <2>1, AssocBytes, Zenon
  <2> QED
    BY <1>1, <2>2, Zenon
<1>5. Frames((Begun(s, n, h) \o y) \o o, Rest(S, R))
  BY <1>0, <1>3, <1>4, Zenon
<1>6. Len(h) <= n
  <2>1. n \in Nat
    <3>1. n = HeaderBytes \/ n \in 1 .. MaxPayload
      BY Zenon DEF StreamOK
    <3> QED
      BY <3>1, FramingAssumption DEF HeaderBytes
  <2> QED
    BY <1>1, <1>2, <2>1
<1>7. StreamOK(y, o, s, n, h, S, R)
  BY <1>1, <1>2, <1>5, <1>6, Zenon DEF StreamOK
<1> QED
  BY <1>7 DEF h, x, y

\* Two ways to cut bytes at the same place give the same parts.
LEMMA SameCutBytes ==
    ASSUME NEW a \in Bytes, NEW b \in Bytes, NEW x \in Bytes, NEW y \in Bytes
    PROVE  Len(a) = Len(b) /\ a \o x = b \o y => a = b /\ x = y
BY SameCut, Zenon DEF Bytes

\* The first payload still to be received, and those behind it.
LEMMA RestFirst ==
    ASSUME NEW S \in Seq(Payload), NEW R \in Seq(Payload), Len(R) < Len(S)
    PROVE  /\ Rest(S, R) # << >> /\ Rest(S, R)[1] = S[Len(R) + 1] /\ S[Len(R) + 1] \in Payload
           /\ Append(R, S[Len(R) + 1]) \in Seq(Payload)
           /\ Tail(Rest(S, R)) = Rest(S, Append(R, S[Len(R) + 1]))
<1> DEFINE p == S[Len(R) + 1]
           Q == Append(R, p)
           x == Rest(S, R)
           y == Rest(S, Q)
           t == Tail(x)
<1>0. Len(S) \in Nat /\ Len(R) \in Nat /\ p \in Payload
  OBVIOUS
<1>1. Q \in Seq(Payload) /\ Len(Q) = Len(R) + 1
  BY <1>0
<1>2. /\ x \in Seq(Payload) /\ Len(x) = Len(S) - Len(R)
      /\ \A i \in 1 .. (Len(S) - Len(R)) : x[i] = S[Len(R) + i]
  BY <1>0, RestIs
<1> HIDE DEF Q
<1>3. /\ y \in Seq(Payload) /\ Len(y) = Len(S) - Len(Q)
      /\ \A i \in 1 .. (Len(S) - Len(Q)) : y[i] = S[Len(Q) + i]
  <2>1. Len(Q) <= Len(S)
    BY <1>0, <1>1
  <2> QED
    BY <1>1, <2>1, RestIs, Zenon
<1> HIDE DEF x, y, p
<1>4. x # << >> /\ x[1] = S[Len(R) + 1]
  BY <1>0, <1>2
<1>5. /\ t \in Seq(Payload) /\ Len(t) = Len(x) - 1
      /\ \A i \in 1 .. (Len(x) - 1) : t[i] = x[i + 1]
  BY <1>2, <1>4
<1> HIDE DEF t
<1>6. Len(t) = Len(y)
  BY <1>0, <1>1, <1>2, <1>3, <1>5
<1>7. ASSUME NEW i \in 1 .. Len(t) PROVE t[i] = y[i]
  <2>1. /\ i \in 1 .. (Len(x) - 1) /\ i + 1 \in 1 .. (Len(S) - Len(R)) /\ i \in 1 .. (Len(S) - Len(Q))
        /\ Len(R) + (i + 1) = Len(Q) + i
    BY <1>0, <1>1, <1>2, <1>5
  <2>2. t[i] = x[i + 1] /\ x[i + 1] = S[Len(R) + (i + 1)] /\ y[i] = S[Len(Q) + i]
    BY <1>2, <1>3, <1>5, <2>1, Zenon
  <2> QED
    BY <2>1, <2>2, Zenon
<1>8. t = y
  BY <1>3, <1>5, <1>6, <1>7, SameSeq, Zenon
<1> QED
  BY <1>0, <1>1, <1>4, <1>8 DEF t, x, y, Q, p

\* recv_frame returns the next payload.
LEMMA StreamDelivers ==
    ASSUME NEW w \in Bytes, NEW o \in Bytes, NEW S \in Seq(Payload), NEW R \in Seq(Payload),
           Len(R) < Len(S), \A i \in 1 .. Len(R) : R[i] = S[i],
           Frames(w \o o, Tail(Rest(S, R)))
    PROVE  StreamOK(w, o, "header", HeaderBytes, << >>, S, Append(R, S[Len(R) + 1]))
<1> DEFINE Q == Append(R, S[Len(R) + 1])
<1>1. Q \in Seq(Payload) /\ Tail(Rest(S, R)) = Rest(S, Q) /\ S[Len(R) + 1] \in Payload
  BY RestFirst, Zenon
<1>2. /\ Len(S) \in Nat /\ Len(R) \in Nat /\ Len(Q) = Len(R) + 1
      /\ \A i \in 1 .. Len(R) : Q[i] = R[i]
      /\ Q[Len(R) + 1] = S[Len(R) + 1]
  BY <1>1
<1> HIDE DEF Q
<1>3. Len(Q) <= Len(S)
  BY <1>2
<1>4. \A i \in 1 .. Len(Q) : Q[i] = S[i]
  <2> SUFFICES ASSUME NEW i \in 1 .. Len(Q) PROVE Q[i] = S[i]
    BY Zenon
  <2>1. i \in 1 .. Len(R) \/ i = Len(R) + 1
    BY <1>2
  <2> QED
    BY <1>2, <2>1, Zenon
<1>5. (Begun("header", HeaderBytes, << >>) \o w) \o o = w \o o
  <2>1. << >> \o w = w
    BY NoBytes, Zenon
  <2> QED
    BY <2>1, Zenon DEF Begun
<1>6. << >> \in Bytes /\ Len(<< >>) <= HeaderBytes
  BY DEF Bytes, HeaderBytes
<1>7. StreamOK(w, o, "header", HeaderBytes, << >>, S, Q)
  BY <1>1, <1>3, <1>4, <1>5, <1>6, Zenon DEF StreamOK
<1> QED
  BY <1>7 DEF Q

\* recv_frame has the header of the next payload.
LEMMA StreamHeader ==
    ASSUME NEW w, NEW o, NEW g, NEW S, NEW R,
           StreamOK(w, o, "header", HeaderBytes, g, S, R), Len(g) = HeaderBytes
    PROVE  /\ Len(R) < Len(S) /\ Length(g) = Len(S[Len(R) + 1]) /\ S[Len(R) + 1] \in Payload
           /\ Length(g) \in 1 .. MaxPayload =>
                StreamOK(w, o, "payload", Length(g), << >>, S, R)
           /\ Length(g) = 0 => /\ S[Len(R) + 1] = << >>
                               /\ StreamOK(w, o, "header", HeaderBytes, << >>, S, Append(R, << >>))
<1> DEFINE p == S[Len(R) + 1]
           a == EncodeFrame(p)
           b == Header(Len(p))
<1>1. /\ w \in Bytes /\ o \in Bytes /\ g \in Bytes /\ S \in Seq(Payload) /\ R \in Seq(Payload)
      /\ Len(R) <= Len(S) /\ (\A i \in 1 .. Len(R) : R[i] = S[i])
      /\ Frames((g \o w) \o o, Rest(S, R))
  BY Zenon DEF StreamOK, Begun
<1>2. w \o o \in Bytes /\ (g \o w) \o o = g \o (w \o o)
  <2>1. w \in Bytes /\ o \in Bytes /\ g \in Bytes
    BY <1>1, Zenon
  <2> QED
    BY <2>1, AssocBytes, ConcatBytes, ZenonT(40)
<1>3. Frames(g \o (w \o o), Rest(S, R))
  BY <1>1, <1>2, Zenon
<1>4. Rest(S, R) # << >>
  <2>1. Len(g \o (w \o o)) = Len(g) + Len(w \o o) /\ Len(w \o o) \in Nat
    BY <1>1, <1>2, ConcatBytes, NoBytes, Zenon
  <2>2. Len(g \o (w \o o)) # 0
    BY <2>1 DEF HeaderBytes
  <2>3. g \o (w \o o) # << >>
    BY <2>2
  <2> QED
    BY <1>3, <2>3, FramesEmpty, Zenon
<1>5. Len(R) < Len(S)
  <2>1. Len(Rest(S, R)) = Len(S) - Len(R) /\ Rest(S, R) \in Seq(Payload)
    BY <1>1, RestIs, Zenon
  <2>2. Len(Rest(S, R)) # 0
    BY <1>4, <2>1
  <2>3. Len(S) \in Nat /\ Len(R) \in Nat
    BY <1>1
  <2> QED
    BY <1>1, <2>1, <2>2, <2>3
<1>6. Rest(S, R)[1] = p /\ p \in Payload
  BY <1>1, <1>5, RestFirst, Zenon
<1>7. PICK rest \in Bytes : g \o (w \o o) = a \o rest /\ Frames(rest, Tail(Rest(S, R)))
  BY <1>3, <1>4, <1>6, FramesFirst, Zenon
<1>8. /\ p \in Bytes /\ b \in Bytes /\ a = b \o p
      /\ Len(b) = HeaderBytes /\ Length(b) = Len(p) /\ Len(p) \in Nat
  BY <1>6, FrameIs, Zenon
<1> HIDE DEF p, a, b
<1>9. g = b /\ w \o o = p \o rest
  <2>1. b \in Bytes /\ p \in Bytes /\ rest \in Bytes
    BY <1>7, <1>8, Zenon
  <2>2. (b \o p) \o rest = b \o (p \o rest)
    BY <2>1, AssocBytes, Zenon
  <2>3. g \o (w \o o) = b \o (p \o rest) /\ Len(g) = Len(b)
    BY <1>7, <1>8, <2>2, Zenon
  <2>4. p \o rest \in Bytes
    BY <2>1, ConcatBytes, Zenon
  <2> DEFINE x == w \o o
             y == p \o rest
  <2>5. g \in Bytes /\ x \in Bytes /\ b \in Bytes /\ y \in Bytes
    BY <1>1, <1>2, <2>1, <2>4, Zenon
  <2>6. g \o x = b \o y /\ Len(g) = Len(b)
    BY <2>3, Zenon
  <2> HIDE DEF x, y
  <2>7. g = b /\ x = y
    BY <2>5, <2>6, SameCutBytes, Zenon
  <2> QED
    BY <2>7 DEF x, y
<1>10. Length(g) = Len(p)
  BY <1>8, <1>9, Zenon
<1>11. ASSUME Length(g) \in 1 .. MaxPayload
       PROVE  StreamOK(w, o, "payload", Length(g), << >>, S, R)
  <2>1. Begun("payload", Length(g), << >>) = g
    <3>1. b \o << >> = b
      BY <1>8, NoBytes, Zenon
    <3> QED
      BY <1>9, <1>10, <3>1, Zenon DEF Begun, b
  <2>2. << >> \in Bytes /\ Len(<< >>) <= Length(g)
    BY <1>11 DEF Bytes
  <2>3. Length(g) = Len(S[Len(R) + 1])
    BY <1>10 DEF p
  <2> QED
    BY <1>1, <1>5, <1>11, <2>1, <2>2, <2>3, Zenon DEF StreamOK
<1>12. ASSUME Length(g) = 0
       PROVE  p = << >> /\ StreamOK(w, o, "header", HeaderBytes, << >>, S, Append(R, << >>))
  <2>1. p = << >>
    <3>1. Len(p) = 0
      BY <1>10, <1>12, Zenon
    <3> QED
      BY <1>8, <3>1 DEF Bytes
  <2>2. w \o o = rest
    <3>1. << >> \o rest = rest
      BY <1>7, NoBytes, Zenon
    <3> QED
      BY <1>9, <2>1, <3>1, Zenon
  <2>3. Frames(w \o o, Tail(Rest(S, R)))
    BY <1>7, <2>2, Zenon
  <2>4. StreamOK(w, o, "header", HeaderBytes, << >>, S, Append(R, S[Len(R) + 1]))
    BY <1>1, <1>5, <2>3, StreamDelivers, Zenon
  <2> QED
    BY <2>1, <2>4, Zenon DEF p
<1> QED
  BY <1>5, <1>6, <1>10, <1>11, <1>12, Zenon DEF p

\* recv_frame has the next payload.
LEMMA StreamPayload ==
    ASSUME NEW w, NEW o, NEW n, NEW g, NEW S, NEW R,
           StreamOK(w, o, "payload", n, g, S, R), Len(g) = n
    PROVE  /\ Len(R) < Len(S) /\ g = S[Len(R) + 1] /\ Len(g) \in 1 .. MaxPayload
           /\ StreamOK(w, o, "header", HeaderBytes, << >>, S, Append(R, g))
<1> DEFINE p == S[Len(R) + 1]
           a == EncodeFrame(p)
           b == Header(Len(p))
<1>1. /\ w \in Bytes /\ o \in Bytes /\ g \in Bytes /\ S \in Seq(Payload) /\ R \in Seq(Payload)
      /\ Len(R) < Len(S) /\ (\A i \in 1 .. Len(R) : R[i] = S[i])
      /\ n \in 1 .. MaxPayload /\ n = Len(p)
      /\ Frames(((Header(n) \o g) \o w) \o o, Rest(S, R))
  BY Zenon DEF StreamOK, Begun
<1>2. Rest(S, R) # << >> /\ Rest(S, R)[1] = p /\ p \in Payload
  BY <1>1, RestFirst, Zenon
<1>3. PICK rest \in Bytes : /\ ((Header(n) \o g) \o w) \o o = a \o rest
                            /\ Frames(rest, Tail(Rest(S, R)))
  BY <1>1, <1>2, FramesFirst, Zenon
<1>4. p \in Bytes /\ b \in Bytes /\ a = b \o p
  BY <1>2, FrameIs, Zenon
<1>5. Header(n) = b
  BY <1>1, Zenon
<1> HIDE DEF p, a, b
<1>6. w \o o \in Bytes /\ g \o (w \o o) \in Bytes /\ ((b \o g) \o w) \o o = b \o (g \o (w \o o))
  <2>1. b \in Bytes /\ g \in Bytes /\ w \in Bytes /\ o \in Bytes
    BY <1>1, <1>4, Zenon
  <2>2. b \o g \in Bytes /\ w \o o \in Bytes
    BY <2>1, ConcatBytes, Zenon
  <2> DEFINE x == b \o g
             y == w \o o
  <2>3. ((b \o g) \o w) \o o = (b \o g) \o (w \o o)
    <3>1. x \in Bytes /\ w \in Bytes /\ o \in Bytes
      BY <2>1, <2>2, Zenon
    <3> HIDE DEF x
    <3>2. (x \o w) \o o = x \o (w \o o)
      BY <3>1, AssocBytes, ZenonT(40)
    <3> QED
      BY <3>2 DEF x
  <2>4. (b \o g) \o (w \o o) = b \o (g \o (w \o o))
    <3>1. b \in Bytes /\ g \in Bytes /\ y \in Bytes
      BY <2>1, <2>2, Zenon
    <3> HIDE DEF y
    <3>2. (b \o g) \o y = b \o (g \o y)
      BY <3>1, AssocBytes, ZenonT(40)
    <3> QED
      BY <3>2 DEF y
  <2>5. g \o (w \o o) \in Bytes
    BY <2>1, <2>2, ConcatBytes, Zenon
  <2> QED
    BY <2>2, <2>3, <2>4, <2>5, Zenon
<1>7. p \o rest \in Bytes /\ (b \o p) \o rest = b \o (p \o rest)
  <2>1. b \in Bytes /\ p \in Bytes /\ rest \in Bytes
    BY <1>3, <1>4, Zenon
  <2>2. (b \o p) \o rest = b \o (p \o rest)
    BY <2>1, AssocBytes, Zenon
  <2>3. p \o rest \in Bytes
    BY <2>1, ConcatBytes, Zenon
  <2> QED
    BY <2>2, <2>3
<1>8. g \o (w \o o) = p \o rest
  <2>1. b \o (g \o (w \o o)) = b \o (p \o rest)
    BY <1>3, <1>4, <1>5, <1>6, <1>7, Zenon
  <2>2. b \in Bytes /\ g \o (w \o o) \in Bytes /\ p \o rest \in Bytes
    BY <1>4, <1>6, <1>7, Zenon
  <2> QED
    BY <2>1, <2>2, SameCutBytes, Zenon
<1>9. g = p /\ w \o o = rest
  <2>1. g \in Bytes /\ p \in Bytes /\ w \o o \in Bytes /\ rest \in Bytes /\ Len(g) = Len(p)
    BY <1>1, <1>3, <1>4, <1>6, Zenon
  <2> QED
    BY <1>8, <2>1, SameCutBytes, Zenon
<1>10. Frames(w \o o, Tail(Rest(S, R)))
  BY <1>3, <1>9, Zenon
<1>11. StreamOK(w, o, "header", HeaderBytes, << >>, S, Append(R, S[Len(R) + 1]))
  BY <1>1, <1>10, StreamDelivers, Zenon
<1> QED
  BY <1>1, <1>9, <1>11, Zenon DEF p

-----------------------------------------------------------------------------
(* The steps of a stream. *)

\* What may have become of a receiver.
Status == {"open", "closed", "eof", "would_block", "error", "too_large"}

\* The types of the variables, as functions on the streams.
Shape ==
    /\ wire \in [Stream -> Bytes] /\ out \in [Stream -> Bytes] /\ got \in [Stream -> Bytes]
    /\ stage \in [Stream -> {"header", "payload"}] /\ want \in [Stream -> Nat]
    /\ sent \in [Stream -> Seq(Payload)] /\ received \in [Stream -> Seq(Payload)]
    /\ sender \in [Stream -> {"open", "closed", "failed"}] /\ receiver \in [Stream -> Status]

\* A refusal is about the next payload.
RefusalOK(d) ==
    receiver[d] = "too_large" =>
        Len(received[d]) < Len(sent[d]) /\ Len(sent[d][Len(received[d]) + 1]) > MaxPayload

\* Stream d is in order.
InOrder(d) == StreamOK(wire[d], out[d], stage[d], want[d], got[d], sent[d], received[d])

\* Every stream is in order.
Streams == Shape /\ \A d \in Stream : InOrder(d) /\ RefusalOK(d)

\* A stream that a step leaves alone.
Alone(d) ==
    /\ wire'[d] = wire[d] /\ out'[d] = out[d] /\ stage'[d] = stage[d] /\ want'[d] = want[d]
    /\ got'[d] = got[d] /\ sent'[d] = sent[d] /\ received'[d] = received[d]
    /\ receiver'[d] = receiver[d]

\* It is enough to look at the stream that a step is about.
LEMMA OneStream ==
    ASSUME Streams, Shape', NEW d, InOrder(d)', RefusalOK(d)', \A e \in Stream \ {d} : Alone(e)
    PROVE  Streams'
<1>1. ASSUME NEW e \in Stream, e # d PROVE InOrder(e)' /\ RefusalOK(e)'
  <2>1. Alone(e) /\ InOrder(e) /\ RefusalOK(e)
    BY <1>1, Zenon DEF Streams
  <2> QED
    BY <2>1, Zenon DEF Alone, InOrder, RefusalOK
<1> QED
  BY <1>1, Zenon DEF Streams

\* send_frame.
LEMMA SendStep ==
    ASSUME Streams, NEW d \in Stream, NEW p \in Payload, SendFrame(d, p)
    PROVE  /\ Streams'
           /\ sent'[d] = Append(sent[d], p) /\ Len(sent'[d]) = Len(sent[d]) + 1
           /\ sent'[d][Len(sent[d]) + 1] = p /\ Len(sent[d]) \in Nat
           /\ \A i \in 1 .. Len(sent[d]) : sent'[d][i] = sent[d][i]
           /\ \A e \in Stream \ {d} : sent'[e] = sent[e]
           /\ UNCHANGED <<received, sender, receiver>> /\ sender[d] = "open"
<1>0. Shape /\ InOrder(d) /\ RefusalOK(d)
  BY Zenon DEF Streams
<1>1. /\ out' = [out EXCEPT ![d] = EncodeFrame(p)]
      /\ sent' = [sent EXCEPT ![d] = Append(@, p)]
      /\ UNCHANGED <<wire, stage, want, got, received, sender, receiver>>
      /\ out[d] = << >> /\ sender[d] = "open"
  BY Zenon DEF SendFrame
<1>2. EncodeFrame(p) \in Bytes
  BY FrameIs, Zenon
<1>3. sent[d] \in Seq(Payload) /\ Append(sent[d], p) \in Seq(Payload)
  BY <1>0 DEF Shape
<1>4. Shape'
  BY <1>0, <1>1, <1>2, <1>3 DEF Shape
<1>5. out'[d] = EncodeFrame(p) /\ sent'[d] = Append(sent[d], p)
  BY <1>0, <1>1 DEF Shape
<1>6. \A e \in Stream \ {d} : out'[e] = out[e] /\ sent'[e] = sent[e]
  BY <1>0, <1>1 DEF Shape
<1>7. /\ Len(sent'[d]) = Len(sent[d]) + 1 /\ sent'[d][Len(sent[d]) + 1] = p /\ Len(sent[d]) \in Nat
      /\ \A i \in 1 .. Len(sent[d]) : sent'[d][i] = sent[d][i]
  BY <1>3, <1>5
<1>8. InOrder(d)'
  <2>1. StreamOK(wire[d], << >>, stage[d], want[d], got[d], sent[d], received[d])
    BY <1>0, <1>1, Zenon DEF InOrder
  <2>2. StreamOK(wire[d], EncodeFrame(p), stage[d], want[d], got[d], Append(sent[d], p), received[d])
    BY <2>1, StreamSends, Zenon
  <2> QED
    BY <1>1, <1>5, <2>2, Zenon DEF InOrder
<1>9. RefusalOK(d)'
  <2> SUFFICES ASSUME receiver'[d] = "too_large"
               PROVE  /\ Len(received[d]) < Len(sent'[d])
                      /\ Len(sent'[d][Len(received[d]) + 1]) > MaxPayload
    BY <1>1, Zenon DEF RefusalOK
  <2>1. Len(received[d]) < Len(sent[d]) /\ Len(sent[d][Len(received[d]) + 1]) > MaxPayload
    BY <1>0, <1>1, Zenon DEF RefusalOK
  <2>2. Len(received[d]) \in Nat
    BY <1>0 DEF Shape
  <2>3. Len(received[d]) + 1 \in 1 .. Len(sent[d]) /\ Len(received[d]) < Len(sent[d]) + 1
    BY <1>7, <2>1, <2>2
  <2> QED
    BY <1>7, <2>1, <2>3, Zenon
<1>10. \A e \in Stream \ {d} : Alone(e)
  BY <1>1, <1>6, Zenon DEF Alone
<1>11. Streams'
  BY <1>4, <1>8, <1>9, <1>10, OneStream, Zenon
<1> QED
  BY <1>1, <1>5, <1>6, <1>7, <1>11, Zenon

\* write_all writes.
LEMMA WriteStep ==
    ASSUME Streams, NEW d \in Stream, WriteSome(d)
    PROVE  Streams' /\ UNCHANGED <<sent, received, sender, receiver>>
<1>0. Shape /\ InOrder(d) /\ RefusalOK(d)
  BY Zenon DEF Streams
<1>1. PICK n \in 1 .. Len(out[d]) :
         /\ wire' = [wire EXCEPT ![d] = @ \o SubSeq(out[d], 1, n)]
         /\ out' = [out EXCEPT ![d] = SubSeq(@, n + 1, Len(@))]
  BY Zenon DEF WriteSome
<1>2. UNCHANGED <<stage, want, got, sent, received, sender, receiver>>
  BY Zenon DEF WriteSome
<1> DEFINE w == wire[d] \o SubSeq(out[d], 1, n)
           o == SubSeq(out[d], n + 1, Len(out[d]))
<1>3. StreamOK(w, o, stage[d], want[d], got[d], sent[d], received[d])
  BY <1>0, StreamWrites, Zenon DEF InOrder
<1>4. w \in Bytes /\ o \in Bytes
  BY <1>3, Zenon DEF StreamOK
<1>5. wire' = [wire EXCEPT ![d] = w] /\ out' = [out EXCEPT ![d] = o]
  BY <1>1, Zenon
<1> HIDE DEF w, o
<1>6. Shape'
  BY <1>0, <1>2, <1>4, <1>5 DEF Shape
<1>7. /\ wire'[d] = w /\ out'[d] = o
      /\ \A e \in Stream \ {d} : wire'[e] = wire[e] /\ out'[e] = out[e]
  BY <1>0, <1>5 DEF Shape
<1>8. InOrder(d)' /\ RefusalOK(d)'
  BY <1>0, <1>2, <1>3, <1>7, Zenon DEF InOrder, RefusalOK
<1>9. \A e \in Stream \ {d} : Alone(e)
  BY <1>2, <1>7, Zenon DEF Alone
<1> QED
  BY <1>2, <1>6, <1>8, <1>9, OneStream, Zenon

\* recv_frame returns the next payload of d.
NextDelivered(d) ==
    /\ Len(received[d]) < Len(sent[d]) /\ Len(sent[d][Len(received[d]) + 1]) <= MaxPayload
    /\ received' = [received EXCEPT ![d] = Append(@, sent[d][Len(received[d]) + 1])]
    /\ receiver' = receiver

\* recv_frame refuses the next payload of d.
NextRefused(d) ==
    /\ Len(received[d]) < Len(sent[d]) /\ Len(sent[d][Len(received[d]) + 1]) > MaxPayload
    /\ receiver' = [receiver EXCEPT ![d] = "too_large"]
    /\ received' = received

\* A step of recv_frame on d that leaves these bytes, this stage and these
\* payloads keeps the streams in order.
LEMMA ReadEffect ==
    ASSUME Streams, NEW d \in Stream, receiver[d] = "open",
           NEW w, NEW s, NEW n, NEW g, NEW R,
           StreamOK(w, out[d], s, n, g, sent[d], R),
           wire' = [wire EXCEPT ![d] = w], stage' = [stage EXCEPT ![d] = s],
           want' = [want EXCEPT ![d] = n], got' = [got EXCEPT ![d] = g],
           received' = [received EXCEPT ![d] = R],
           UNCHANGED <<out, sent, sender>>,
           receiver' = receiver \/ (R = received[d] /\ NextRefused(d))
    PROVE  Streams'
<1>0. Shape
  BY Zenon DEF Streams
<1>1. /\ w \in Bytes /\ g \in Bytes /\ R \in Seq(Payload)
      /\ s \in {"header", "payload"}
  BY Zenon DEF StreamOK
<1>2. n \in Nat
  <2>1. n = HeaderBytes \/ n \in 1 .. MaxPayload
    BY Zenon DEF StreamOK
  <2> QED
    <3>1. HeaderBytes \in Nat
      BY DEF HeaderBytes
    <3>2. \A m \in 1 .. MaxPayload : m \in Nat
      OBVIOUS
    <3> QED
      BY <2>1, <3>1, <3>2, Zenon
<1>3. receiver' \in [Stream -> Status]
  BY <1>0, Zenon DEF Shape, NextRefused, Status
<1>4. Shape'
  BY <1>0, <1>1, <1>2, <1>3 DEF Shape
<1>5. wire'[d] = w /\ stage'[d] = s /\ want'[d] = n /\ got'[d] = g /\ received'[d] = R
  BY <1>0 DEF Shape
<1>6. \A e \in Stream \ {d} : /\ wire'[e] = wire[e] /\ stage'[e] = stage[e] /\ want'[e] = want[e]
                              /\ got'[e] = got[e] /\ received'[e] = received[e]
  BY <1>0 DEF Shape
<1>7. \A e \in Stream \ {d} : receiver'[e] = receiver[e]
  BY <1>0 DEF Shape, NextRefused
<1>8. InOrder(d)'
  BY <1>5, Zenon DEF InOrder
<1>9. RefusalOK(d)'
  <2>1. CASE receiver' = receiver
    BY <2>1, Zenon DEF RefusalOK
  <2>2. CASE R = received[d] /\ NextRefused(d)
    BY <1>5, <2>2, Zenon DEF RefusalOK, NextRefused
  <2> QED
    BY <2>1, <2>2, Zenon
<1>10. \A e \in Stream \ {d} : Alone(e)
  BY <1>6, <1>7, Zenon DEF Alone
<1> QED
  BY <1>4, <1>8, <1>9, <1>10, OneStream, Zenon

\* A function that is given the value it has.
LEMMA SameValue ==
    ASSUME NEW S, NEW T, NEW f \in [S -> T], NEW d \in S
    PROVE  [f EXCEPT ![d] = f[d]] = f
OBVIOUS

\* recv_frame reads.
LEMMA ReadStep ==
    ASSUME Streams, NEW d \in Stream, ReadSome(d)
    PROVE  /\ Streams' /\ UNCHANGED <<out, sent, sender>> /\ receiver[d] = "open"
           /\ \/ UNCHANGED <<received, receiver>>
              \/ NextDelivered(d)
              \/ NextRefused(d)
<1>0. Shape /\ InOrder(d) /\ receiver[d] = "open" /\ UNCHANGED <<out, sent, sender>>
  BY Zenon DEF Streams, ReadSome
<1>1. PICK n \in 1 .. (want[d] - Len(got[d])) :
         LET bytes == got[d] \o SubSeq(wire[d], 1, n)
         IN  /\ n <= Len(wire[d])
             /\ wire' = [wire EXCEPT ![d] = SubSeq(@, n + 1, Len(@))]
             /\ \/ /\ Len(bytes) < want[d]
                   /\ got' = [got EXCEPT ![d] = bytes]
                   /\ UNCHANGED <<stage, want, received, receiver>>
                \/ Len(bytes) = want[d] /\ stage[d] = "header" /\ HeaderRead(d, bytes)
                \/ Len(bytes) = want[d] /\ stage[d] = "payload" /\ Deliver(d, bytes)
  BY Zenon DEF ReadSome
<1> DEFINE g == got[d] \o SubSeq(wire[d], 1, n)
           w == SubSeq(wire[d], n + 1, Len(wire[d]))
           S == sent[d]
           R == received[d]
           o == out[d]
<1>2. /\ wire' = [wire EXCEPT ![d] = w]
      /\ \/ /\ Len(g) < want[d]
            /\ got' = [got EXCEPT ![d] = g]
            /\ UNCHANGED <<stage, want, received, receiver>>
         \/ Len(g) = want[d] /\ stage[d] = "header" /\ HeaderRead(d, g)
         \/ Len(g) = want[d] /\ stage[d] = "payload" /\ Deliver(d, g)
  BY <1>1, Zenon
<1>3. StreamOK(w, o, stage[d], want[d], g, S, R)
  BY <1>0, <1>1, StreamReads, Zenon DEF InOrder
<1> HIDE DEF g, w
<1>4. /\ [stage EXCEPT ![d] = stage[d]] = stage /\ [want EXCEPT ![d] = want[d]] = want
      /\ [received EXCEPT ![d] = received[d]] = received
  BY <1>0, SameValue, Zenon DEF Shape
<1>5. CASE /\ got' = [got EXCEPT ![d] = g]
           /\ UNCHANGED <<stage, want, received, receiver>>
  <2>1. Streams'
    BY <1>0, <1>2, <1>3, <1>4, <1>5, ReadEffect, ZenonT(40)
  <2> QED
    BY <1>0, <1>5, <2>1, Zenon
<1>6. CASE Len(g) = want[d] /\ stage[d] = "header" /\ HeaderRead(d, g)
  <2>0. want[d] = HeaderBytes
    BY <1>3, <1>6, Zenon DEF StreamOK
  <2>1. /\ Len(R) < Len(S) /\ Length(g) = Len(S[Len(R) + 1])
        /\ Length(g) \in 1 .. MaxPayload => StreamOK(w, o, "payload", Length(g), << >>, S, R)
        /\ Length(g) = 0 => /\ S[Len(R) + 1] = << >>
                            /\ StreamOK(w, o, "header", HeaderBytes, << >>, S, Append(R, << >>))
    <3>1. StreamOK(w, o, "header", HeaderBytes, g, S, R) /\ Len(g) = HeaderBytes
      BY <1>3, <1>6, <2>0, Zenon
    <3> HIDE DEF o, S, R
    <3>2. Len(R) < Len(S)
      BY <3>1, StreamHeader, Zenon
    <3>5. Length(g) = Len(S[Len(R) + 1])
      BY <3>1, StreamHeader
    <3>3. Length(g) \in 1 .. MaxPayload => StreamOK(w, o, "payload", Length(g), << >>, S, R)
      BY <3>1, StreamHeader, Zenon
    <3>4. Length(g) = 0 => /\ S[Len(R) + 1] = << >>
                           /\ StreamOK(w, o, "header", HeaderBytes, << >>, S, Append(R, << >>))
      BY <3>1, StreamHeader, Zenon
    <3> QED
      BY <3>2, <3>3, <3>4, <3>5, Zenon
  <2>2. CASE /\ Length(g) > MaxPayload
             /\ receiver' = [receiver EXCEPT ![d] = "too_large"]
             /\ got' = [got EXCEPT ![d] = g]
             /\ UNCHANGED <<stage, want, received>>
    <3>1. NextRefused(d)
      BY <2>1, <2>2, Zenon DEF NextRefused
    <3>2. Streams'
      BY <1>0, <1>2, <1>3, <1>4, <2>2, <3>1, ReadEffect, ZenonT(40)
    <3> QED
      BY <1>0, <3>1, <3>2, Zenon
  <2>3. CASE /\ Length(g) \in 1 .. MaxPayload
             /\ ReadExact(d, "payload", Length(g))
             /\ UNCHANGED <<received, receiver>>
    <3>1. /\ stage' = [stage EXCEPT ![d] = "payload"] /\ want' = [want EXCEPT ![d] = Length(g)]
          /\ got' = [got EXCEPT ![d] = << >>]
      BY <2>3, Zenon DEF ReadExact
    <3>2. StreamOK(w, o, "payload", Length(g), << >>, S, R)
      BY <2>1, <2>3, Zenon
    <3>3. Streams'
      BY <1>0, <1>2, <1>4, <2>3, <3>1, <3>2, ReadEffect, Zenon
    <3> QED
      BY <1>0, <2>3, <3>3, Zenon
  <2>4. CASE Length(g) = 0 /\ Deliver(d, << >>)
    <3>1. /\ stage' = [stage EXCEPT ![d] = "header"] /\ want' = [want EXCEPT ![d] = HeaderBytes]
          /\ got' = [got EXCEPT ![d] = << >>] /\ receiver' = receiver
          /\ received' = [received EXCEPT ![d] = Append(R, << >>)]
      BY <2>4, Zenon DEF Deliver, ReadExact
    <3>2. StreamOK(w, o, "header", HeaderBytes, << >>, S, Append(R, << >>)) /\ S[Len(R) + 1] = << >>
      BY <2>1, <2>4, Zenon
    <3>3. Streams'
      BY <1>0, <1>2, <3>1, <3>2, ReadEffect, Zenon
    <3>4. 0 <= MaxPayload
      BY FramingAssumption
    <3>5. NextDelivered(d)
      BY <2>1, <2>4, <3>1, <3>2, <3>4, Zenon DEF NextDelivered
    <3> QED
      BY <1>0, <3>3, <3>5, Zenon
  <2> QED
    BY <1>6, <2>2, <2>3, <2>4, Zenon DEF HeaderRead
<1>7. CASE Len(g) = want[d] /\ stage[d] = "payload" /\ Deliver(d, g)
  <2>1. /\ stage' = [stage EXCEPT ![d] = "header"] /\ want' = [want EXCEPT ![d] = HeaderBytes]
        /\ got' = [got EXCEPT ![d] = << >>] /\ receiver' = receiver
        /\ received' = [received EXCEPT ![d] = Append(R, g)]
    BY <1>7, Zenon DEF Deliver, ReadExact
  <2>2. /\ Len(R) < Len(S) /\ g = S[Len(R) + 1] /\ Len(g) \in 1 .. MaxPayload
        /\ StreamOK(w, o, "header", HeaderBytes, << >>, S, Append(R, g))
    <3>1. StreamOK(w, o, "payload", want[d], g, S, R) /\ Len(g) = want[d]
      BY <1>3, <1>7, Zenon
    <3> HIDE DEF o, S, R
    <3> QED
      BY <3>1, StreamPayload
  <2>3. Streams'
    BY <1>0, <1>2, <2>1, <2>2, ReadEffect, Zenon
  <2>4. Len(g) <= MaxPayload
    BY <2>2
  <2>5. NextDelivered(d)
    BY <2>1, <2>2, <2>4, Zenon DEF NextDelivered
  <2> QED
    BY <1>0, <2>3, <2>5, Zenon
<1> QED
  BY <1>2, <1>5, <1>6, <1>7, Zenon

\* Closing either end changes nothing on the way.
LEMMA CloseStep ==
    ASSUME Streams, Shape', UNCHANGED <<wire, out, stage, want, got, sent, received>>,
           \A d \in Stream : receiver'[d] = "too_large" => receiver[d] = "too_large"
    PROVE  Streams'
<1>1. ASSUME NEW d \in Stream PROVE InOrder(d)' /\ RefusalOK(d)'
  <2>1. InOrder(d) /\ RefusalOK(d)
    BY <1>1, Zenon DEF Streams
  <2> QED
    BY <1>1, <2>1, Zenon DEF InOrder, RefusalOK
<1> QED
  BY <1>1, Zenon DEF Streams

-----------------------------------------------------------------------------
(* The two ends of a connection. *)

\* Where the ends are, and what has become of the streams there.
Ends ==
    /\ client \in {"lookup", "address", "connecting", "exchange", "done"}
    /\ handler \in {"none", "backlog", "recv", "execute", "unwind", "send",
                    "refuse", "refused", "closed"}
    /\ tried \in 0 .. Addresses /\ left \in 0 .. ConnectTimeout
    /\ client = "connecting" => tried < Addresses
    /\ client \in {"lookup", "address", "connecting"} => handler = "none"
    /\ client # "done" => sender["up"] = "open" /\ receiver["down"] \in {"open", "too_large"}
    /\ handler # "closed" => sender["down"] = "open"
    /\ handler \in {"none", "backlog", "recv", "execute", "unwind", "send"} =>
         receiver["up"] = "open"
    /\ handler \in {"refuse", "refused"} => receiver["up"] = "too_large"

\* The i-th answer is that to the i-th request, which was executed, or it is the
\* refusal of the last one, which was not.
AnswerOK(i) ==
    \/ i <= Len(executed) /\ sent["down"][i] = Answer[received["up"][i]]
    \/ /\ i = Len(executed) + 1 /\ Len(executed) = Len(received["up"])
       /\ receiver["up"] = "too_large" /\ sent["down"][i] = TooLarge

\* What was executed and answered, by where the handler is.
Served ==
    /\ executed \in Seq(Payload) /\ Len(executed) <= Len(received["up"])
    /\ \A i \in 1 .. Len(executed) : executed[i] = received["up"][i]
    /\ \A i \in 1 .. Len(sent["up"]) : sent["up"][i] \in DOMAIN Answer
    /\ handler \in {"none", "backlog", "recv", "send", "refuse", "refused"} =>
         Len(executed) = Len(received["up"])
    /\ handler = "execute" => Len(executed) + 1 = Len(received["up"])
    /\ handler \in {"none", "backlog", "recv", "send", "refuse"} =>
         Len(sent["down"]) = Len(received["up"])
    /\ handler \in {"execute", "unwind"} => Len(sent["down"]) + 1 = Len(received["up"])
    /\ \A i \in 1 .. Len(sent["down"]) : AnswerOK(i)

\* The inductive invariant.
IInv == Streams /\ Ends /\ Served

\* There is one stream each way.
LEMMA TwoStreams ==
    /\ Stream = {"up", "down"} /\ "up" \in Stream /\ "down" \in Stream
    /\ "down" \in Stream \ {"up"} /\ "up" \in Stream \ {"down"}
BY ConversationAssumption

\* What Served is about does not change.
LEMMA ServedSame ==
    ASSUME Served, handler' = handler, executed' = executed,
           received'["up"] = received["up"], receiver'["up"] = receiver["up"],
           sent'["up"] = sent["up"], sent'["down"] = sent["down"]
    PROVE  Served'
BY Zenon DEF Served, AnswerOK

\* What a step may do to a stream as its callers see it: nothing, or one step of
\* FrameChannel.
ChannelStep(d) ==
    \/ /\ sent'[d] = sent[d] /\ received'[d] = received[d]
       /\ sender'[d] = sender[d] /\ receiver'[d] = receiver[d]
    \/ /\ sender[d] = "open" /\ \E p \in Payload : sent'[d] = Append(sent[d], p)
       /\ received'[d] = received[d] /\ sender'[d] = sender[d] /\ receiver'[d] = receiver[d]
    \/ /\ sender[d] = "open" /\ sender'[d] \in {"closed", "failed"}
       /\ sent'[d] = sent[d] /\ received'[d] = received[d] /\ receiver'[d] = receiver[d]
    \/ /\ receiver[d] = "open" /\ Len(received[d]) < Len(sent[d])
       /\ sent[d][Len(received[d]) + 1] \notin Refused
       /\ received'[d] = Append(received[d], sent[d][Len(received[d]) + 1])
       /\ sent'[d] = sent[d] /\ sender'[d] = sender[d] /\ receiver'[d] = receiver[d]
    \/ /\ receiver[d] = "open"
       /\ receiver'[d] \in {"closed", "eof", "would_block", "error", "too_large"}
       /\ receiver'[d] = "eof" => sender[d] # "open"
       /\ receiver'[d] = "too_large" => /\ Len(received[d]) < Len(sent[d])
                                       /\ sent[d][Len(received[d]) + 1] \in Refused
       /\ sent'[d] = sent[d] /\ received'[d] = received[d] /\ sender'[d] = sender[d]

\* A step that the callers of a stream do not see.
LEMMA NoChannelStep ==
    ASSUME NEW d, UNCHANGED <<sent, received, sender, receiver>>
    PROVE  ChannelStep(d)
BY Zenon DEF ChannelStep

\* A step of the client before it is connected.
LEMMA ConnectStep ==
    ASSUME IInv, Lookup \/ TryAddress \/ StartWaiting \/ Interrupted \/ WaitEnds
    PROVE  IInv' /\ \A d \in Stream : ChannelStep(d)
<1>0. Streams /\ Ends /\ Served
  BY DEF IInv
<1>1. UNCHANGED frameVars /\ UNCHANGED executed
  BY Zenon DEF Lookup, TryAddress, StartWaiting, Interrupted, WaitEnds, NextAddress, Connected
<1>2. /\ wire' = wire /\ out' = out /\ stage' = stage /\ want' = want /\ got' = got
      /\ sent' = sent /\ received' = received /\ sender' = sender /\ receiver' = receiver
  BY <1>1 DEF frameVars
<1>3. Streams'
  BY <1>0, <1>2, Zenon DEF Streams, Shape, InOrder, RefusalOK
<1>4. handler' = handler \/ (handler = "none" /\ handler' = "backlog")
  BY <1>0, Zenon DEF Lookup, TryAddress, StartWaiting, Interrupted, WaitEnds, NextAddress, Connected, Ends
<1>5. Served'
  BY <1>0, <1>1, <1>2, <1>4 DEF Served, AnswerOK
<1>6. Ends'
  <2>1. Addresses \in Nat /\ ConnectTimeout \in Nat
    BY ConversationAssumption
  <2>2. CASE Lookup
    BY <1>0, <1>2, <2>1, <2>2 DEF Ends, Lookup
  <2>3. CASE (client = "address" \/ client = "connecting") /\ tried < Addresses /\ NextAddress
    BY <1>0, <1>2, <2>1, <2>3 DEF Ends, NextAddress
  <2>4. CASE (client = "address" \/ client = "connecting") /\ Connected
    BY <1>0, <1>2, <2>1, <2>4, SMT, SMTT(30) DEF Ends, Connected
  <2>5. CASE StartWaiting
    BY <1>0, <1>2, <2>1, <2>5, SMT, SMTT(30) DEF Ends, StartWaiting
  <2>6. CASE Interrupted
    BY <1>0, <1>2, <2>1, <2>6 DEF Ends, Interrupted
  <2>7. CASE TryAddress
    BY <2>3, <2>4, <2>7, Zenon DEF TryAddress
  <2>8. CASE WaitEnds
    BY <1>0, <2>3, <2>4, <2>8, Zenon DEF WaitEnds, Ends
  <2> QED
    BY <2>2, <2>5, <2>6, <2>7, <2>8, Zenon
<1> QED
  BY <1>2, <1>3, <1>5, <1>6, NoChannelStep, Zenon DEF IInv

\* The client closes its end.
LEMMA HangUpStep ==
    ASSUME IInv, client # "done", NEW s \in {"closed", "failed"},
           NEW r \in {"closed", "eof", "would_block", "error"}, HangUp(s, r),
           r = "eof" => sender["down"] # "open"
    PROVE  IInv' /\ \A d \in Stream : ChannelStep(d)
<1>0. Streams /\ Ends /\ Served /\ Shape
  BY Zenon DEF IInv, Streams
<1>1. /\ client' = "done"
      /\ sender' = [sender EXCEPT !["up"] = s]
      /\ receiver' = [receiver EXCEPT !["down"] = IF @ = "open" THEN r ELSE @]
      /\ wire' = wire /\ out' = out /\ stage' = stage /\ want' = want /\ got' = got
      /\ sent' = sent /\ received' = received /\ tried' = tried /\ left' = left
      /\ handler' = handler /\ executed' = executed
  BY DEF HangUp
<1>2. /\ sender'["up"] = s /\ sender'["down"] = sender["down"]
      /\ receiver'["down"] = (IF receiver["down"] = "open" THEN r ELSE receiver["down"])
      /\ receiver'["up"] = receiver["up"]
  BY <1>0, <1>1, TwoStreams DEF Shape
<1>3. Shape'
  <2>1. sender' \in [Stream -> {"open", "closed", "failed"}]
    BY <1>0, <1>1, Zenon DEF Shape
  <2>2. receiver' \in [Stream -> Status]
    BY <1>0, <1>1, TwoStreams DEF Shape, Status
  <2> QED
    BY <1>0, <1>1, <2>1, <2>2, Zenon DEF Shape
<1>4. Streams'
  <2>1. \A d \in Stream : receiver'[d] = "too_large" => receiver[d] = "too_large"
    BY <1>2, TwoStreams
  <2> QED
    BY <1>0, <1>1, <1>3, <2>1, CloseStep, Zenon
<1>5. Served'
  BY <1>0, <1>1, <1>2, ServedSame, Zenon
<1>6. Ends'
  BY <1>0, <1>1, <1>2 DEF Ends
<1>7. ChannelStep("up")
  BY <1>0, <1>1, <1>2, Zenon DEF Ends, ChannelStep
<1>8. ChannelStep("down")
  BY <1>1, <1>2 DEF ChannelStep
<1> QED
  BY <1>4, <1>5, <1>6, <1>7, <1>8, TwoStreams, Zenon DEF IInv

\* request() or the benchmark sends a request.
LEMMA AskStep ==
    ASSUME IInv, NEW p \in DOMAIN Answer, Ask(p)
    PROVE  IInv' /\ \A d \in Stream : ChannelStep(d)
<1>0. Streams /\ Ends /\ Served /\ Shape /\ p \in Payload
  BY ConversationAssumption, Zenon DEF IInv, Streams
<1>1. /\ SendFrame("up", p) /\ client' = client /\ tried' = tried /\ left' = left
      /\ handler' = handler /\ executed' = executed
  BY DEF Ask, ClientVars
<1>2. /\ Streams' /\ sender["up"] = "open"
      /\ sent' = [sent EXCEPT !["up"] = Append(sent["up"], p)]
      /\ received' = received /\ sender' = sender /\ receiver' = receiver
  BY <1>0, <1>1, SendStep, TwoStreams, Zenon DEF SendFrame
<1>3. sent'["up"] = Append(sent["up"], p) /\ sent'["down"] = sent["down"]
  BY <1>0, <1>2, TwoStreams DEF Shape
<1>4. \A i \in 1 .. Len(sent'["up"]) : sent'["up"][i] \in DOMAIN Answer
  <2>1. sent["up"] \in Seq(Payload)
    BY <1>0, TwoStreams, Zenon DEF Shape
  <2>2. \A i \in 1 .. Len(sent["up"]) : sent["up"][i] \in DOMAIN Answer
    BY <1>0, Zenon DEF Served
  <2> QED
    BY <1>0, <1>3, <2>1, <2>2
<1>5. Served'
  BY <1>0, <1>1, <1>2, <1>3, <1>4, Zenon DEF Served, AnswerOK
<1>6. Ends'
  BY <1>0, <1>1, <1>2, Zenon DEF Ends
<1>7. ChannelStep("up") /\ ChannelStep("down")
  BY <1>0, <1>2, <1>3, Zenon DEF ChannelStep
<1> QED
  BY <1>2, <1>5, <1>6, <1>7, TwoStreams, Zenon DEF IInv

\* Either end writes.
LEMMA WritesStep ==
    ASSUME IInv, ClientWrites \/ HandlerWrites
    PROVE  IInv' /\ \A d \in Stream : ChannelStep(d)
<1>0. Streams /\ Ends /\ Served
  BY Zenon DEF IInv
<1>1. /\ client' = client /\ tried' = tried /\ left' = left
      /\ handler' = handler /\ executed' = executed
      /\ WriteSome("up") \/ WriteSome("down")
  BY DEF ClientWrites, HandlerWrites, ClientVars
<1>2. Streams' /\ UNCHANGED <<sent, received, sender, receiver>>
  BY <1>0, <1>1, WriteStep, TwoStreams, Zenon
<1>3. Served'
  BY <1>0, <1>1, <1>2, ServedSame, Zenon
<1>4. Ends'
  BY <1>0, <1>1, <1>2, Zenon DEF Ends
<1> QED
  BY <1>2, <1>3, <1>4, NoChannelStep, Zenon DEF IInv

\* What a read does to a stream, as its callers see it.
LEMMA ReadChannel ==
    ASSUME Shape, NEW d \in Stream, receiver[d] = "open", UNCHANGED <<sent, sender>>,
           \/ UNCHANGED <<received, receiver>>
           \/ NextDelivered(d)
           \/ NextRefused(d)
    PROVE  \A e \in Stream : ChannelStep(e)
<1>1. CASE UNCHANGED <<received, receiver>>
  BY <1>1, NoChannelStep, Zenon
<1> DEFINE p == sent[d][Len(received[d]) + 1]
<1>0. Len(received[d]) < Len(sent[d]) => p \in Payload
  <2>1. sent[d] \in Seq(Payload) /\ received[d] \in Seq(Payload)
    BY Zenon DEF Shape
  <2> QED
    BY <2>1
<1>2. CASE NextDelivered(d)
  <2>1. Len(received[d]) < Len(sent[d]) /\ Len(p) <= MaxPayload /\ receiver' = receiver
    BY <1>2, Zenon DEF NextDelivered
  <2>2. received' = [received EXCEPT ![d] = Append(received[d], p)]
    BY <1>2, Zenon DEF NextDelivered
  <2>3. p \notin Refused
    <3>1. \A q \in Payload : Len(q) <= MaxPayload => ~(Len(q) > MaxPayload)
      BY FramingAssumption DEF Bytes
    <3> QED
      BY <1>0, <2>1, <3>1, Zenon DEF Refused
  <2>4. /\ received'[d] = Append(received[d], p)
        /\ \A e \in Stream : e # d => received'[e] = received[e]
    BY <2>2 DEF Shape
  <2> QED
    BY <2>1, <2>3, <2>4, Zenon DEF ChannelStep
<1>3. CASE NextRefused(d)
  <2>1. Len(received[d]) < Len(sent[d]) /\ Len(p) > MaxPayload /\ received' = received
    BY <1>3, Zenon DEF NextRefused
  <2>2. receiver' = [receiver EXCEPT ![d] = "too_large"]
    BY <1>3, Zenon DEF NextRefused
  <2>3. p \in Refused
    BY <1>0, <2>1, Zenon DEF Refused
  <2>4. /\ receiver'[d] = "too_large"
        /\ \A e \in Stream : e # d => receiver'[e] = receiver[e]
    BY <2>2 DEF Shape
  <2> QED
    BY <2>1, <2>3, <2>4, Zenon DEF ChannelStep
<1> QED
  BY <1>1, <1>2, <1>3, Zenon

\* The client reads.
LEMMA ClientReadsStep ==
    ASSUME IInv, ClientReads
    PROVE  IInv' /\ \A d \in Stream : ChannelStep(d)
<1>0. Streams /\ Ends /\ Served /\ Shape
  BY Zenon DEF IInv, Streams
<1>1. /\ client' = client /\ tried' = tried /\ left' = left
      /\ handler' = handler /\ executed' = executed
      /\ ReadSome("down")
  BY DEF ClientReads, ClientVars
<1>2. /\ Streams' /\ UNCHANGED <<out, sent, sender>> /\ receiver["down"] = "open"
      /\ \/ UNCHANGED <<received, receiver>>
         \/ NextDelivered("down")
         \/ NextRefused("down")
  BY <1>0, <1>1, ReadStep, TwoStreams, Zenon
<1>3. \A d \in Stream : ChannelStep(d)
  BY <1>0, <1>2, ReadChannel, TwoStreams, Zenon
<1>4. received'["up"] = received["up"] /\ receiver'["up"] = receiver["up"]
  BY <1>0, <1>2, TwoStreams DEF Shape, NextDelivered, NextRefused
<1>5. receiver'["down"] \in {"open", "too_large"}
  BY <1>0, <1>2, TwoStreams DEF Shape, NextDelivered, NextRefused
<1>6. Served'
  BY <1>0, <1>1, <1>2, <1>4, ServedSame, Zenon
<1>7. Ends'
  BY <1>0, <1>1, <1>2, <1>4, <1>5, Zenon DEF Ends
<1> QED
  BY <1>2, <1>3, <1>6, <1>7, Zenon DEF IInv

\* The client gives up, fails or returns.
LEMMA ClientEndsStep ==
    ASSUME IInv, GiveUp \/ ClientFails \/ ClientReturns
    PROVE  IInv' /\ \A d \in Stream : ChannelStep(d)
<1>1. client # "done"
  BY DEF GiveUp, ClientFails, ClientReturns
<1>2. PICK s \in {"closed", "failed"}, r \in {"closed", "eof", "would_block", "error"} :
         HangUp(s, r) /\ (r = "eof" => sender["down"] # "open")
  BY DEF GiveUp, ClientFails, ClientReturns, ReadStatus
<1> QED
  BY <1>1, <1>2, HangUpStep, Zenon

\* handle_client closes its end.
LEMMA DropStep ==
    ASSUME IInv, handler # "closed", NEW s \in {"closed", "failed"},
           NEW r \in {"closed", "eof", "would_block", "error"}, Drop(s, r),
           handler # "none", r = "eof" => sender["up"] # "open"
    PROVE  IInv' /\ \A d \in Stream : ChannelStep(d)
<1>0. Streams /\ Ends /\ Served /\ Shape
  BY Zenon DEF IInv, Streams
<1>1. /\ handler' = "closed"
      /\ sender' = [sender EXCEPT !["down"] = s]
      /\ receiver' = [receiver EXCEPT !["up"] = IF @ = "open" THEN r ELSE @]
      /\ wire' = wire /\ out' = out /\ stage' = stage /\ want' = want /\ got' = got
      /\ sent' = sent /\ received' = received /\ tried' = tried /\ left' = left
      /\ client' = client /\ executed' = executed
  BY DEF Drop, ClientVars
<1>2. /\ sender'["down"] = s /\ sender'["up"] = sender["up"]
      /\ receiver'["up"] = (IF receiver["up"] = "open" THEN r ELSE receiver["up"])
      /\ receiver'["down"] = receiver["down"]
  BY <1>0, <1>1, TwoStreams DEF Shape
<1>3. Shape'
  <2>1. sender' \in [Stream -> {"open", "closed", "failed"}]
    BY <1>0, <1>1, Zenon DEF Shape
  <2>2. receiver' \in [Stream -> Status]
    BY <1>0, <1>1, TwoStreams DEF Shape, Status
  <2> QED
    BY <1>0, <1>1, <2>1, <2>2, Zenon DEF Shape
<1>4. Streams'
  <2>1. \A d \in Stream : receiver'[d] = "too_large" => receiver[d] = "too_large"
    BY <1>2, TwoStreams, SMT, SMTT(30)
  <2> QED
    BY <1>0, <1>1, <1>3, <2>1, CloseStep, Zenon
<1>5. Served'
  <2>1. receiver["up"] = "too_large" => receiver'["up"] = "too_large"
    BY <1>2
  <2>2. \A i \in 1 .. Len(sent["down"]) : AnswerOK(i)'
    BY <1>0, <1>1, <2>1, Zenon DEF Served, AnswerOK
  <2> QED
    BY <1>0, <1>1, <2>2 DEF Served
<1>6. Ends'
  BY <1>0, <1>1, <1>2 DEF Ends
<1>7. ChannelStep("down")
  BY <1>0, <1>1, <1>2, Zenon DEF Ends, ChannelStep
<1>8. ChannelStep("up")
  BY <1>1, <1>2 DEF ChannelStep
<1> QED
  BY <1>4, <1>5, <1>6, <1>7, <1>8, TwoStreams, Zenon DEF IInv

\* handle_client returns.
LEMMA HandlerReturnsStep ==
    ASSUME IInv, HandlerReturns
    PROVE  IInv' /\ \A d \in Stream : ChannelStep(d)
<1>1. handler # "closed" /\ handler # "none"
  BY DEF HandlerReturns
<1>2. PICK s \in {"closed", "failed"}, r \in {"closed", "eof", "would_block", "error"} :
         Drop(s, r) /\ (r = "eof" => sender["up"] # "open")
  BY DEF HandlerReturns, ReadStatus
<1> QED
  BY <1>1, <1>2, DropStep, Zenon

\* The connection is taken from the backlog, or the loop starts again.
LEMMA LoopStep ==
    ASSUME IInv, Accept \/ HandlerLoops
    PROVE  IInv' /\ \A d \in Stream : ChannelStep(d)
<1>0. Streams /\ Ends /\ Served
  BY Zenon DEF IInv
<1>1. /\ client' = client /\ tried' = tried /\ left' = left /\ executed' = executed
      /\ handler \in {"backlog", "send"} /\ handler' = "recv"
  BY DEF Accept, HandlerLoops, ClientVars
<1>2. /\ wire' = wire /\ out' = out /\ stage' = stage /\ want' = want /\ got' = got
      /\ sent' = sent /\ received' = received /\ sender' = sender /\ receiver' = receiver
  BY DEF Accept, HandlerLoops, frameVars
<1>3. Streams'
  BY <1>0, <1>2, Zenon DEF Streams, Shape, InOrder, RefusalOK
<1>4. Served'
  <2>1. \A i : AnswerOK(i)' <=> AnswerOK(i)
    BY <1>1, <1>2, Zenon DEF AnswerOK
  <2> QED
    BY <1>0, <1>1, <1>2, <2>1, Zenon DEF Served
<1>5. Ends'
  BY <1>0, <1>1, <1>2, Zenon DEF Ends
<1> QED
  BY <1>2, <1>3, <1>4, <1>5, NoChannelStep, Zenon DEF IInv

\* handle_client reads.
LEMMA HandlerReadsStep ==
    ASSUME IInv, HandlerReads
    PROVE  IInv' /\ \A d \in Stream : ChannelStep(d)
<1>0. Streams /\ Ends /\ Served /\ Shape
  BY Zenon DEF IInv, Streams
<1>1. /\ client' = client /\ tried' = tried /\ left' = left
      /\ handler = "recv" /\ executed' = executed
      /\ ReadSome("up")
      /\ handler' = IF received'["up"] # received["up"] THEN "execute"
                    ELSE IF receiver'["up"] = "too_large" THEN "refuse" ELSE "recv"
  BY DEF HandlerReads, ClientVars
<1>2. /\ Streams' /\ UNCHANGED <<out, sent, sender>> /\ receiver["up"] = "open"
      /\ \/ UNCHANGED <<received, receiver>>
         \/ NextDelivered("up")
         \/ NextRefused("up")
  BY <1>0, <1>1, ReadStep, TwoStreams, Zenon
<1>3. \A d \in Stream : ChannelStep(d)
  BY <1>0, <1>2, ReadChannel, TwoStreams, Zenon
<1>4. received'["down"] = received["down"] /\ receiver'["down"] = receiver["down"]
  BY <1>0, <1>2, TwoStreams DEF Shape, NextDelivered, NextRefused
<1> DEFINE R == received["up"]
           p == sent["up"][Len(R) + 1]
<1>5. R \in Seq(Payload)
  BY <1>0, TwoStreams, Zenon DEF Shape
<1>6. \/ handler' = "recv" /\ received'["up"] = R /\ receiver'["up"] = "open"
      \/ handler' = "execute" /\ received'["up"] = Append(R, p) /\ receiver'["up"] = "open"
      \/ handler' = "refuse" /\ received'["up"] = R /\ receiver'["up"] = "too_large"
  <2>1. CASE UNCHANGED <<received, receiver>>
    BY <1>1, <1>2, <2>1
  <2>2. CASE NextDelivered("up")
    <3>1. received'["up"] = Append(R, p) /\ receiver' = receiver
      BY <1>0, <2>2, TwoStreams DEF Shape, NextDelivered
    <3>2. Append(R, p) # R
      <4>1. Len(Append(R, p)) = Len(R) + 1 /\ Len(R) \in Nat
        BY <1>5
      <4> QED
        BY <4>1
    <3> QED
      BY <1>1, <1>2, <3>1, <3>2, Zenon
  <2>3. CASE NextRefused("up")
    <3>1. received' = received /\ receiver'["up"] = "too_large"
      BY <1>0, <2>3, TwoStreams DEF Shape, NextRefused
    <3> QED
      BY <1>1, <3>1, Zenon
  <2> QED
    BY <1>2, <2>1, <2>2, <2>3, Zenon
<1>7. /\ Len(executed) = Len(R) /\ Len(sent["down"]) = Len(R) /\ executed \in Seq(Payload)
      /\ \A i \in 1 .. Len(executed) : executed[i] = R[i]
      /\ \A i \in 1 .. Len(sent["up"]) : sent["up"][i] \in DOMAIN Answer
      /\ \A i \in 1 .. Len(sent["down"]) : sent["down"][i] = Answer[R[i]]
  <2>1. /\ Len(executed) = Len(R) /\ Len(sent["down"]) = Len(R) /\ executed \in Seq(Payload)
        /\ \A i \in 1 .. Len(executed) : executed[i] = R[i]
        /\ \A i \in 1 .. Len(sent["up"]) : sent["up"][i] \in DOMAIN Answer
    BY <1>0, <1>1 DEF Served
  <2>2. \A i \in 1 .. Len(sent["down"]) : sent["down"][i] = Answer[R[i]]
    BY <1>0, <1>2, Zenon DEF Served, AnswerOK
  <2> QED
    BY <2>1, <2>2, Zenon
<1>8. Served'
  <2>1. CASE received'["up"] = R
    <3>0. handler' \in {"recv", "refuse"}
      BY <1>6, <2>1, <1>1, SMT, SMTT(30)
    <3>1. \A i \in 1 .. Len(sent["down"]) : AnswerOK(i)'
      BY <1>1, <1>2, <1>5, <1>7, <2>1, SMT, SMTT(30) DEF AnswerOK
    <3> QED
      BY <1>1, <1>2, <1>5, <1>7, <2>1, <3>0, <3>1, SMT, SMTT(30) DEF Served
  <2>2. CASE handler' = "execute" /\ received'["up"] = Append(R, p)
    <3> DEFINE Q == received'["up"]
    <3>1. /\ Len(Q) = Len(R) + 1 /\ Len(R) \in Nat
          /\ \A i \in 1 .. Len(R) : Q[i] = R[i]
      BY <1>5, <2>2
    <3> HIDE DEF Q, R
    <3>2. \A i \in 1 .. Len(sent["down"]) : i <= Len(executed) /\ sent["down"][i] = Answer[Q[i]]
      BY <1>7, <3>1
    <3>3. \A i \in 1 .. Len(sent'["down"]) : AnswerOK(i)'
      BY <1>1, <1>2, <3>2, Zenon DEF AnswerOK, Q
    <3>4. \A i \in 1 .. Len(executed) : executed[i] = Q[i]
      BY <1>7, <3>1
    <3>5. Len(executed) <= Len(Q) /\ Len(executed) + 1 = Len(Q) /\ Len(sent["down"]) + 1 = Len(Q)
      BY <1>7, <3>1, SMT, SMTT(30)
    <3> QED
      BY <1>1, <1>2, <1>7, <2>2, <3>3, <3>4, <3>5, Zenon DEF Served, Q
  <2> QED
    BY <1>6, <2>1, <2>2, Zenon
<1>9. Ends'
  BY <1>0, <1>1, <1>2, <1>4, <1>6, Zenon DEF Ends
<1> QED
  BY <1>2, <1>3, <1>8, <1>9, Zenon DEF IInv

\* What was received on a stream was sent on it.
LEMMA ReceivedWasSent ==
    ASSUME Streams, NEW d \in Stream
    PROVE  /\ sent[d] \in Seq(Payload) /\ received[d] \in Seq(Payload)
           /\ Len(sent[d]) \in Nat /\ Len(received[d]) \in Nat
           /\ Len(received[d]) <= Len(sent[d])
           /\ \A i \in 1 .. Len(received[d]) : received[d][i] = sent[d][i]
<1>1. /\ sent[d] \in Seq(Payload) /\ received[d] \in Seq(Payload)
      /\ Len(received[d]) <= Len(sent[d])
      /\ \A i \in 1 .. Len(received[d]) : received[d][i] = sent[d][i]
  BY Zenon DEF Streams, InOrder, StreamOK
<1> QED
  BY <1>1

\* The command that is about to be executed, and what was done before it.
LEMMA CommandIs ==
    ASSUME IInv, handler = "execute"
    PROVE  /\ Command \in DOMAIN Answer /\ Command \in Payload /\ Answer[Command] \in Payload
           /\ receiver["up"] = "open" /\ executed \in Seq(Payload) /\ Len(executed) \in Nat
           /\ Len(received["up"]) = Len(executed) + 1 /\ Len(sent["down"]) = Len(executed)
           /\ Command = received["up"][Len(executed) + 1]
           /\ \A i \in 1 .. Len(executed) : executed[i] = received["up"][i]
           /\ \A i \in 1 .. Len(executed) : sent["down"][i] = Answer[received["up"][i]]
           /\ \A i \in 1 .. Len(sent["up"]) : sent["up"][i] \in DOMAIN Answer
<1>0. Streams /\ Ends /\ Served
  BY Zenon DEF IInv
<1>1. /\ Len(received["up"]) \in Nat /\ Len(sent["up"]) \in Nat
      /\ Len(received["up"]) <= Len(sent["up"])
      /\ \A i \in 1 .. Len(received["up"]) : received["up"][i] = sent["up"][i]
  BY <1>0, ReceivedWasSent, TwoStreams, Zenon
<1>2. receiver["up"] = "open"
  BY <1>0 DEF Ends
<1>3. /\ executed \in Seq(Payload) /\ Len(executed) + 1 = Len(received["up"])
      /\ Len(sent["down"]) + 1 = Len(received["up"])
      /\ \A i \in 1 .. Len(executed) : executed[i] = received["up"][i]
      /\ \A i \in 1 .. Len(sent["up"]) : sent["up"][i] \in DOMAIN Answer
      /\ \A i \in 1 .. Len(sent["down"]) : AnswerOK(i)
  BY <1>0 DEF Served
<1>4. sent["down"] \in Seq(Payload)
  BY <1>0, ReceivedWasSent, TwoStreams, Zenon
<1>5. Len(executed) \in Nat /\ Len(sent["down"]) = Len(executed)
  BY <1>3, <1>4
<1>6. \A i \in 1 .. Len(executed) : sent["down"][i] = Answer[received["up"][i]]
  BY <1>2, <1>3, <1>5, Zenon DEF AnswerOK
<1>7. Command = received["up"][Len(executed) + 1]
  BY <1>3, Zenon DEF Command
<1>8. Command \in DOMAIN Answer
  <2>1. Len(received["up"]) \in 1 .. Len(received["up"]) /\ Len(received["up"]) \in 1 .. Len(sent["up"])
    BY <1>1, <1>3, <1>5
  <2> QED
    BY <1>1, <1>3, <2>1, Zenon DEF Command
<1>9. Command \in Payload /\ Answer[Command] \in Payload
  BY <1>8, ConversationAssumption, Zenon
<1> QED
  BY <1>1, <1>2, <1>3, <1>5, <1>6, <1>7, <1>8, <1>9, Zenon

\* The requests executed are a prefix of those received after one more of them.
LEMMA OneMoreExecuted ==
    ASSUME IInv, handler = "execute"
    PROVE  LET e == Append(executed, Command)
           IN  /\ e \in Seq(Payload) /\ Len(e) = Len(executed) + 1
               /\ \A i \in 1 .. Len(e) : e[i] = received["up"][i]
<1>1. /\ Command \in Payload /\ executed \in Seq(Payload) /\ Len(executed) \in Nat
      /\ Command = received["up"][Len(executed) + 1]
      /\ \A i \in 1 .. Len(executed) : executed[i] = received["up"][i]
  BY CommandIs, Zenon
<1> HIDE DEF IInv
<1> QED
  BY <1>1

\* handle_client executes the command and starts to answer.
LEMMA ExecuteStep ==
    ASSUME IInv, Execute
    PROVE  IInv' /\ \A d \in Stream : ChannelStep(d)
<1>0. Streams /\ Ends /\ Served /\ handler = "execute"
  BY Zenon DEF IInv, Execute
<1> DEFINE a == Answer[Command]
           e == Append(executed, Command)
<1>1. /\ SendFrame("down", a) /\ client' = client /\ tried' = tried /\ left' = left
      /\ handler' = "send" /\ executed' = e
  BY DEF Execute, ClientVars
<1>2. /\ a \in Payload /\ receiver["up"] = "open" /\ Len(executed) \in Nat
      /\ Len(received["up"]) = Len(executed) + 1 /\ Len(sent["down"]) = Len(executed)
      /\ a = Answer[received["up"][Len(executed) + 1]]
      /\ \A i \in 1 .. Len(executed) : sent["down"][i] = Answer[received["up"][i]]
      /\ \A i \in 1 .. Len(sent["up"]) : sent["up"][i] \in DOMAIN Answer
  BY <1>0, CommandIs, Zenon
<1>3. /\ e \in Seq(Payload) /\ Len(e) = Len(executed) + 1
      /\ \A i \in 1 .. Len(e) : e[i] = received["up"][i]
  BY <1>0, OneMoreExecuted, Zenon
<1> HIDE DEF a, e
<1>4. /\ Streams' /\ sender["down"] = "open"
      /\ sent'["down"] = Append(sent["down"], a) /\ Len(sent'["down"]) = Len(sent["down"]) + 1
      /\ sent'["down"][Len(sent["down"]) + 1] = a
      /\ \A i \in 1 .. Len(sent["down"]) : sent'["down"][i] = sent["down"][i]
      /\ sent'["up"] = sent["up"]
      /\ received' = received /\ sender' = sender /\ receiver' = receiver
  BY <1>0, <1>1, <1>2, SendStep, TwoStreams, ZenonT(40)
<1>5. \A i \in 1 .. Len(sent'["down"]) : i <= Len(e) /\ sent'["down"][i] = Answer[received["up"][i]]
  <2>1. /\ Len(executed) \in Nat /\ Len(e) = Len(executed) + 1
        /\ Len(sent["down"]) = Len(executed) /\ Len(sent'["down"]) = Len(executed) + 1
    BY <1>2, <1>3, <1>4, Zenon
  <2>2. \A i \in 1 .. Len(e) : (i \in 1 .. Len(executed) \/ i = Len(executed) + 1) /\ i <= Len(e)
    BY <2>1
  <2>3. \A i \in 1 .. Len(executed) : sent'["down"][i] = Answer[received["up"][i]]
    BY <1>2, <1>4, <2>1, Zenon
  <2>4. sent'["down"][Len(executed) + 1] = Answer[received["up"][Len(executed) + 1]]
    BY <1>2, <1>4, <2>1, Zenon
  <2> QED
    BY <2>1, <2>2, <2>3, <2>4, Zenon
<1>6. \A i \in 1 .. Len(sent'["down"]) : AnswerOK(i)'
  BY <1>1, <1>4, <1>5, Zenon DEF AnswerOK
<1>7. Len(e) <= Len(received["up"]) /\ Len(e) = Len(received["up"]) /\ Len(sent'["down"]) = Len(received["up"])
  <2>1. /\ Len(executed) \in Nat /\ Len(e) = Len(executed) + 1
        /\ Len(received["up"]) = Len(e) /\ Len(sent'["down"]) = Len(e)
    BY <1>2, <1>3, <1>4, Zenon
  <2>2. Len(e) <= Len(e)
    BY <2>1
  <2> QED
    BY <2>1, <2>2, Zenon
<1>8. Served'
  BY <1>1, <1>2, <1>3, <1>4, <1>6, <1>7, Zenon DEF Served
<1>9. Ends'
  BY <1>0, <1>1, <1>4, Zenon DEF Ends
<1>10. ChannelStep("up") /\ ChannelStep("down")
  BY <1>2, <1>4, Zenon DEF ChannelStep
<1> QED
  BY <1>4, <1>8, <1>9, <1>10, TwoStreams, Zenon DEF IInv

\* execute throws.
LEMMA ThrowStep ==
    ASSUME IInv, ExecuteThrows
    PROVE  IInv' /\ \A d \in Stream : ChannelStep(d)
<1>0. Streams /\ Ends /\ Served /\ handler = "execute"
  BY Zenon DEF IInv, ExecuteThrows
<1> DEFINE e == Append(executed, Command)
<1>1. /\ client' = client /\ tried' = tried /\ left' = left
      /\ handler' = "unwind" /\ (executed' = executed \/ executed' = e)
  BY DEF ExecuteThrows, ClientVars
<1>2. /\ wire' = wire /\ out' = out /\ stage' = stage /\ want' = want /\ got' = got
      /\ sent' = sent /\ received' = received /\ sender' = sender /\ receiver' = receiver
  BY DEF ExecuteThrows, frameVars
<1>3. /\ e \in Seq(Payload) /\ Len(e) = Len(executed) + 1
      /\ \A i \in 1 .. Len(e) : e[i] = received["up"][i]
  BY <1>0, OneMoreExecuted, Zenon
<1>4. /\ receiver["up"] = "open" /\ Len(executed) \in Nat /\ executed \in Seq(Payload)
      /\ Len(received["up"]) = Len(executed) + 1 /\ Len(sent["down"]) = Len(executed)
      /\ \A i \in 1 .. Len(executed) : executed[i] = received["up"][i]
      /\ \A i \in 1 .. Len(executed) : sent["down"][i] = Answer[received["up"][i]]
      /\ \A i \in 1 .. Len(sent["up"]) : sent["up"][i] \in DOMAIN Answer
  BY <1>0, CommandIs, Zenon
<1> HIDE DEF e
<1>5. /\ executed' \in Seq(Payload) /\ Len(executed') <= Len(received["up"])
      /\ Len(executed) <= Len(executed')
      /\ \A i \in 1 .. Len(executed') : executed'[i] = received["up"][i]
  <2>1. Len(executed) <= Len(executed) + 1 /\ Len(executed) + 1 <= Len(executed) + 1
        /\ Len(executed) <= Len(executed)
    BY <1>4
  <2> QED
    BY <1>1, <1>3, <1>4, <2>1, Zenon
<1>6. \A i \in 1 .. Len(sent["down"]) : i <= Len(executed') /\ sent["down"][i] = Answer[received["up"][i]]
  <2>1. Len(executed') \in Nat /\ Len(executed) \in Nat
    BY <1>4, <1>5
  <2>2. \A i \in 1 .. Len(executed) : i <= Len(executed')
    BY <1>5, <2>1
  <2> QED
    BY <1>4, <2>2, Zenon
<1>7. \A i \in 1 .. Len(sent'["down"]) : AnswerOK(i)'
  BY <1>2, <1>6, Zenon DEF AnswerOK
<1>8. Served'
  BY <1>1, <1>2, <1>4, <1>5, <1>7, Zenon DEF Served
<1>9. Ends'
  BY <1>0, <1>1, <1>2, Zenon DEF Ends
<1>10. Streams'
  BY <1>0, <1>2, Zenon DEF Streams, Shape, InOrder, RefusalOK
<1> QED
  BY <1>2, <1>8, <1>9, <1>10, NoChannelStep, Zenon DEF IInv

\* handle_client answers that the frame is too large.
LEMMA RefuseStep ==
    ASSUME IInv, Refuse
    PROVE  IInv' /\ \A d \in Stream : ChannelStep(d)
<1>0. Streams /\ Ends /\ Served /\ handler = "refuse" /\ TooLarge \in Payload
  BY ConversationAssumption, Zenon DEF IInv, Refuse
<1>1. /\ SendFrame("down", TooLarge) /\ client' = client /\ tried' = tried /\ left' = left
      /\ handler' = "refused" /\ executed' = executed
  BY DEF Refuse, ClientVars
<1>2. /\ receiver["up"] = "too_large" /\ executed \in Seq(Payload)
      /\ Len(executed) = Len(received["up"]) /\ Len(sent["down"]) = Len(received["up"])
      /\ \A i \in 1 .. Len(executed) : executed[i] = received["up"][i]
      /\ \A i \in 1 .. Len(sent["up"]) : sent["up"][i] \in DOMAIN Answer
      /\ \A i \in 1 .. Len(sent["down"]) : AnswerOK(i)
  BY <1>0 DEF Served, Ends
<1>3. /\ Streams' /\ sender["down"] = "open"
      /\ sent'["down"] = Append(sent["down"], TooLarge)
      /\ Len(sent'["down"]) = Len(sent["down"]) + 1
      /\ sent'["down"][Len(sent["down"]) + 1] = TooLarge
      /\ \A i \in 1 .. Len(sent["down"]) : sent'["down"][i] = sent["down"][i]
      /\ sent'["up"] = sent["up"]
      /\ received' = received /\ sender' = sender /\ receiver' = receiver
  BY <1>0, <1>1, SendStep, TwoStreams, Zenon
<1>4. Len(executed) \in Nat
  BY <1>2, SMT, SMTT(30)
<1>5. \A i \in 1 .. Len(sent'["down"]) : i \in 1 .. Len(sent["down"]) \/ i = Len(executed) + 1
  BY <1>2, <1>3, <1>4
<1>6. \A i \in 1 .. Len(sent'["down"]) : AnswerOK(i)'
  BY <1>1, <1>2, <1>3, <1>5, ZenonT(40) DEF AnswerOK
<1>7. Len(executed) <= Len(received["up"])
  BY <1>2, <1>4
<1>8. Served'
  BY <1>1, <1>2, <1>3, <1>6, <1>7 DEF Served
<1>9. Ends'
  BY <1>0, <1>1, <1>3 DEF Ends
<1>10. ChannelStep("up") /\ ChannelStep("down")
  BY <1>0, <1>3, Zenon DEF ChannelStep
<1> QED
  BY <1>3, <1>8, <1>9, <1>10, TwoStreams, Zenon DEF IInv

\* The first state.
LEMMA FirstState ==
    ASSUME Init
    PROVE  IInv
<1>0. /\ wire = [d \in Stream |-> << >>] /\ out = [d \in Stream |-> << >>]
      /\ stage = [d \in Stream |-> "header"]
      /\ want = [d \in Stream |-> HeaderBytes] /\ got = [d \in Stream |-> << >>]
      /\ sent = [d \in Stream |-> << >>] /\ received = [d \in Stream |-> << >>]
      /\ sender = [d \in Stream |-> "open"] /\ receiver = [d \in Stream |-> "open"]
      /\ client = "lookup" /\ tried = 0 /\ left = 0 /\ handler = "none" /\ executed = << >>
  BY DEF Init, FramesInit
<1>1. << >> \in Bytes /\ << >> \in Seq(Payload)
  BY DEF Bytes
<1>2. Shape
  BY <1>0, <1>1, SMT, SMTT(30) DEF Shape, Status, HeaderBytes
<1>3. ASSUME NEW d \in Stream PROVE InOrder(d) /\ RefusalOK(d)
  <2>1. /\ wire[d] = << >> /\ out[d] = << >> /\ stage[d] = "header" /\ want[d] = HeaderBytes
        /\ got[d] = << >> /\ sent[d] = << >> /\ received[d] = << >> /\ receiver[d] = "open"
    BY <1>0, <1>3, Zenon
  <2>2. StreamOK(<< >>, << >>, "header", HeaderBytes, << >>, << >>, << >>)
    <3>1. Begun("header", HeaderBytes, << >>) = << >> /\ Rest(<< >>, << >>) = << >>
      BY DEF Begun, Rest
    <3>2. (<< >> \o << >>) \o << >> = << >>
      OBVIOUS
    <3>3. Frames((Begun("header", HeaderBytes, << >>) \o << >>) \o << >>, Rest(<< >>, << >>))
      BY <3>1, <3>2, NoFrames, Zenon
    <3>4. Len(<< >>) <= Len(<< >>) /\ Len(<< >>) <= HeaderBytes /\ 1 .. Len(<< >>) = {}
      BY DEF HeaderBytes
    <3> QED
      BY <1>1, <3>3, <3>4, Zenon DEF StreamOK
  <2> QED
    BY <2>1, <2>2 DEF InOrder, RefusalOK
<1>4. Streams
  BY <1>2, <1>3, Zenon DEF Streams
<1>5. Ends
  BY <1>0, TwoStreams, ConversationAssumption, SMT, SMTT(30) DEF Ends
<1>6. Served
  <2>1. sent["up"] = << >> /\ sent["down"] = << >> /\ received["up"] = << >>
    BY <1>0, TwoStreams, Zenon
  <2> QED
    BY <1>0, <1>1, <2>1 DEF Served
<1> QED
  BY <1>4, <1>5, <1>6, Zenon DEF IInv

\* Every step keeps the invariant and is a step of the channel of each stream,
\* or none.
LEMMA EveryStep ==
    ASSUME IInv, [Next]_vars
    PROVE  IInv' /\ \A d \in Stream : ChannelStep(d)
<1>1. CASE UNCHANGED vars
  <2>1. /\ wire' = wire /\ out' = out /\ stage' = stage /\ want' = want /\ got' = got
        /\ sent' = sent /\ received' = received /\ sender' = sender /\ receiver' = receiver
        /\ client' = client /\ tried' = tried /\ left' = left
        /\ handler' = handler /\ executed' = executed
    BY <1>1 DEF vars, frameVars
  <2>2. Streams /\ Ends /\ Served
    BY Zenon DEF IInv
  <2>3. Streams'
    BY <2>1, <2>2, Zenon DEF Streams, Shape, InOrder, RefusalOK
  <2>4. Ends'
    BY <2>1, <2>2, Zenon DEF Ends
  <2>5. Served'
    BY <2>1, <2>2, ServedSame, Zenon
  <2> QED
    BY <2>1, <2>3, <2>4, <2>5, NoChannelStep, Zenon DEF IInv
<1>2. CASE Lookup \/ TryAddress \/ StartWaiting \/ Interrupted \/ WaitEnds
  BY <1>2, ConnectStep, Zenon
<1>3. CASE \E p \in DOMAIN Answer : Ask(p)
  BY <1>3, AskStep, Zenon
<1>4. CASE ClientWrites \/ HandlerWrites
  BY <1>4, WritesStep, Zenon
<1>5. CASE ClientReads
  BY <1>5, ClientReadsStep, Zenon
<1>6. CASE GiveUp \/ ClientFails \/ ClientReturns
  BY <1>6, ClientEndsStep, ZenonT(40)
<1>7. CASE Accept \/ HandlerLoops
  BY <1>7, LoopStep, Zenon
<1>8. CASE HandlerReads
  BY <1>8, HandlerReadsStep, Zenon
<1>9. CASE Execute
  BY <1>9, ExecuteStep, Zenon
<1>10. CASE ExecuteThrows
  BY <1>10, ThrowStep, Zenon
<1>11. CASE Refuse
  BY <1>11, RefuseStep, Zenon
<1>12. CASE HandlerReturns
  BY <1>12, HandlerReturnsStep, Zenon
<1> QED
  BY <1>1, <1>2, <1>3, <1>4, <1>5, <1>6, <1>7, <1>8, <1>9, <1>10, <1>11, <1>12, Zenon DEF Next

\* The streams, the ends of the connection and what was executed and answered
\* agree in every reachable state.
THEOREM WireInvariant == Spec => []IInv
<1>1. Init => IInv
  BY FirstState, Zenon
<1>2. IInv /\ [Next]_vars => IInv'
  BY EveryStep, Zenon
<1> QED
  BY <1>1, <1>2, PTL DEF Spec

-----------------------------------------------------------------------------
\* Buffers keep within a header or max_payload, and the ends of the connection
\* within their states.
THEOREM WireTypeCorrect == Spec => []TypeOK
<1>1. IInv => TypeOK
  <2> SUFFICES ASSUME IInv PROVE TypeOK
    OBVIOUS
  <2>1. Streams /\ Ends /\ Shape
    BY Zenon DEF IInv, Streams
  <2>2. ASSUME NEW d \in Stream
        PROVE  /\ wire[d] \in Bytes /\ out[d] \in Bytes /\ got[d] \in Bytes
               /\ \/ stage[d] = "header" /\ want[d] = HeaderBytes
                  \/ stage[d] = "payload" /\ want[d] \in 1 .. MaxPayload
               /\ Len(got[d]) <= want[d]
               /\ sent[d] \in Seq(Payload) /\ received[d] \in Seq(Payload)
    BY <2>1, <2>2, Zenon DEF Streams, InOrder, StreamOK
  <2>3. ASSUME NEW d \in Stream
        PROVE  sender[d] \in {"open", "closed", "failed"} /\ receiver[d] \in Status
    BY <2>1, <2>3, Zenon DEF Shape
  <2>4. FramesTypeOK
    BY <2>2, <2>3, Zenon DEF FramesTypeOK, Status
  <2> QED
    BY <2>1, <2>4, Zenon DEF TypeOK, Ends
<1> QED
  BY <1>1, WireInvariant, PTL

\* A client gets the answers to its own requests in their order, each request
\* executed once and before its answer, and a refused one not at all.
THEOREM AnswersMatchCorrect == Spec => []AnswersMatch
<1>1. IInv => AnswersMatch
  <2> SUFFICES ASSUME IInv PROVE AnswersMatch
    OBVIOUS
  <2>1. Streams /\ Served
    BY Zenon DEF IInv
  <2> DEFINE S == sent["up"]
             R == received["up"]
             T == sent["down"]
             Q == received["down"]
  <2>2. /\ S \in Seq(Payload) /\ R \in Seq(Payload) /\ Len(R) <= Len(S)
        /\ Len(R) \in Nat /\ Len(S) \in Nat
        /\ \A i \in 1 .. Len(R) : R[i] = S[i]
    BY <2>1, ReceivedWasSent, TwoStreams, Zenon
  <2>3. /\ T \in Seq(Payload) /\ Q \in Seq(Payload) /\ Len(Q) <= Len(T)
        /\ Len(Q) \in Nat /\ Len(T) \in Nat
        /\ \A i \in 1 .. Len(Q) : Q[i] = T[i]
    BY <2>1, ReceivedWasSent, TwoStreams, Zenon
  <2>4. /\ executed \in Seq(Payload) /\ Len(executed) <= Len(R)
        /\ \A i \in 1 .. Len(executed) : executed[i] = R[i]
        /\ \A i \in 1 .. Len(T) : AnswerOK(i)
    BY <2>1, Zenon DEF Served
  <2>5. receiver["up"] = "too_large" => Len(S[Len(R) + 1]) > MaxPayload
    BY <2>1, TwoStreams, Zenon DEF Streams, RefusalOK
  <2>6. ASSUME NEW i \in 1 .. Len(Q)
        PROVE  \/ i <= Len(executed) /\ Q[i] = Answer[S[i]]
               \/ i = Len(executed) + 1 /\ Len(S[i]) > MaxPayload /\ Q[i] = TooLarge
    <3>1. i \in 1 .. Len(T) /\ Q[i] = T[i]
      BY <2>3, <2>6
    <3>2. AnswerOK(i)
      BY <2>4, <3>1, Zenon
    <3>3. CASE i <= Len(executed) /\ T[i] = Answer[R[i]]
      <4>1. i \in 1 .. Len(R)
        BY <2>2, <2>4, <3>1, <3>3
      <4> QED
        BY <2>2, <3>1, <3>3, <4>1, Zenon
    <3>4. CASE /\ i = Len(executed) + 1 /\ Len(executed) = Len(R)
               /\ receiver["up"] = "too_large" /\ T[i] = TooLarge
      BY <2>5, <3>1, <3>4, Zenon
    <3> QED
      BY <3>2, <3>3, <3>4, Zenon DEF AnswerOK
  <2>7. DOMAIN Q = 1 .. Len(Q) /\ DOMAIN executed = 1 .. Len(executed)
    BY <2>3, <2>4
  <2>8. Len(executed) <= Len(S) /\ \A i \in 1 .. Len(executed) : executed[i] = S[i]
    BY <2>2, <2>4, SMT, SMTT(30)
  <2> QED
    BY <2>6, <2>7, <2>8, Zenon DEF AnswersMatch
<1> QED
  BY <1>1, WireInvariant, PTL

\* A request whose frame was cut short is never executed.
THEOREM CutRequestCorrect == Spec => []CutRequestNotExecuted
<1>1. IInv => CutRequestNotExecuted
  <2> SUFFICES ASSUME IInv, out["up"] # << >> PROVE Len(executed) < Len(sent["up"])
    BY Zenon DEF CutRequestNotExecuted
  <2> DEFINE S == sent["up"]
             R == received["up"]
             b == Begun(stage["up"], want["up"], got["up"]) \o wire["up"]
  <2>1. Streams /\ Served
    BY Zenon DEF IInv
  <2>2. StreamOK(wire["up"], out["up"], stage["up"], want["up"], got["up"], S, R)
    BY <2>1, TwoStreams, Zenon DEF Streams, InOrder
  <2>3. /\ S \in Seq(Payload) /\ R \in Seq(Payload) /\ Len(R) <= Len(S)
        /\ Len(S) \in Nat /\ Len(R) \in Nat
    BY <2>1, ReceivedWasSent, TwoStreams, Zenon
  <2>4. Frames(b \o out["up"], Rest(S, R))
    BY <2>2, Zenon DEF StreamOK
  <2>5. b \in Bytes /\ out["up"] \in Bytes
    <3>1. /\ wire["up"] \in Bytes /\ out["up"] \in Bytes
          /\ Begun(stage["up"], want["up"], got["up"]) \in Bytes
      BY <2>2, BegunIs, Zenon DEF StreamOK
    <3> QED
      BY <3>1, ConcatBytes, Zenon
  <2> HIDE DEF b
  <2>6. b \o out["up"] # << >>
    <3>1. Len(b \o out["up"]) = Len(b) + Len(out["up"])
      BY <2>5, ConcatBytes, Zenon
    <3>2. Len(b) \in Nat /\ Len(out["up"]) \in Nat /\ Len(out["up"]) # 0 /\ Len(<< >>) = 0
      BY <2>5 DEF Bytes
    <3> QED
      BY <3>1, <3>2
  <2>7. Rest(S, R) # << >>
    BY <2>4, <2>6, FramesEmpty, Zenon
  <2>8. Rest(S, R) \in Seq(Payload) /\ Len(Rest(S, R)) = Len(S) - Len(R)
    BY <2>3, RestIs, Zenon
  <2>9. Len(R) < Len(S)
    <3>1. \A q \in Seq(Payload) : q # << >> => Len(q) # 0
      OBVIOUS
    <3>2. Len(Rest(S, R)) # 0
      BY <2>7, <2>8, <3>1, Zenon
    <3> HIDE DEF S, R
    <3> QED
      BY <2>3, <2>8, <3>2
  <2>10. Len(executed) <= Len(R) /\ executed \in Seq(Payload)
    BY <2>1, Zenon DEF Served
  <2> QED
    BY <2>3, <2>9, <2>10
<1> QED
  BY <1>1, WireInvariant, PTL

\* What the callers of the stream up see of a step is a step of FrameChannel, or
\* nothing.
LEMMA UpStep ==
    ASSUME ChannelStep("up")
    PROVE  [Up!Next]_(Up!vars)
<1>1. CASE /\ sent'["up"] = sent["up"] /\ received'["up"] = received["up"]
           /\ sender'["up"] = sender["up"] /\ receiver'["up"] = receiver["up"]
  <2>1. UNCHANGED Up!vars
    BY <1>1, Zenon DEF Up!vars
  <2> QED
    BY <2>1, Zenon
<1>2. CASE /\ sender["up"] = "open" /\ \E p \in Payload : sent'["up"] = Append(sent["up"], p)
           /\ received'["up"] = received["up"]
           /\ sender'["up"] = sender["up"] /\ receiver'["up"] = receiver["up"]
  <2>1. \E p \in Payload : Up!Send(p)
    BY <1>2, Zenon DEF Up!Send
  <2> QED
    BY <2>1, Zenon DEF Up!Next
<1>3. CASE /\ sender["up"] = "open" /\ sender'["up"] \in {"closed", "failed"}
           /\ sent'["up"] = sent["up"] /\ received'["up"] = received["up"]
           /\ receiver'["up"] = receiver["up"]
  <2>1. Up!Stop
    BY <1>3, Zenon DEF Up!Stop
  <2> QED
    BY <2>1, Zenon DEF Up!Next
<1>4. CASE /\ receiver["up"] = "open" /\ Len(received["up"]) < Len(sent["up"])
           /\ sent["up"][Len(received["up"]) + 1] \notin Refused
           /\ received'["up"] = Append(received["up"], sent["up"][Len(received["up"]) + 1])
           /\ sent'["up"] = sent["up"] /\ sender'["up"] = sender["up"]
           /\ receiver'["up"] = receiver["up"]
  <2>1. Up!Deliver
    BY <1>4, Zenon DEF Up!Deliver, Up!Pending
  <2> QED
    BY <2>1, Zenon DEF Up!Next
<1>5. CASE /\ receiver["up"] = "open"
           /\ receiver'["up"] \in {"closed", "eof", "would_block", "error", "too_large"}
           /\ receiver'["up"] = "eof" => sender["up"] # "open"
           /\ receiver'["up"] = "too_large" => /\ Len(received["up"]) < Len(sent["up"])
                                              /\ sent["up"][Len(received["up"]) + 1] \in Refused
           /\ sent'["up"] = sent["up"] /\ received'["up"] = received["up"]
           /\ sender'["up"] = sender["up"]
  <2>1. Up!Give(receiver'["up"])
    BY <1>5, Zenon DEF Up!Give, Up!Pending
  <2>2. \E status \in {"closed", "eof", "would_block", "error", "too_large"} : Up!Give(status)
    BY <1>5, <2>1, Zenon
  <2> QED
    BY <2>2, Zenon DEF Up!Next
<1> QED
  BY <1>1, <1>2, <1>3, <1>4, <1>5, Zenon DEF ChannelStep

\* What the callers of the stream down see of a step is a step of FrameChannel, or
\* nothing.
LEMMA DownStep ==
    ASSUME ChannelStep("down")
    PROVE  [Down!Next]_(Down!vars)
<1>1. CASE /\ sent'["down"] = sent["down"] /\ received'["down"] = received["down"]
           /\ sender'["down"] = sender["down"] /\ receiver'["down"] = receiver["down"]
  <2>1. UNCHANGED Down!vars
    BY <1>1, Zenon DEF Down!vars
  <2> QED
    BY <2>1, Zenon
<1>2. CASE /\ sender["down"] = "open" /\ \E p \in Payload : sent'["down"] = Append(sent["down"], p)
           /\ received'["down"] = received["down"]
           /\ sender'["down"] = sender["down"] /\ receiver'["down"] = receiver["down"]
  <2>1. \E p \in Payload : Down!Send(p)
    BY <1>2, Zenon DEF Down!Send
  <2> QED
    BY <2>1, Zenon DEF Down!Next
<1>3. CASE /\ sender["down"] = "open" /\ sender'["down"] \in {"closed", "failed"}
           /\ sent'["down"] = sent["down"] /\ received'["down"] = received["down"]
           /\ receiver'["down"] = receiver["down"]
  <2>1. Down!Stop
    BY <1>3, Zenon DEF Down!Stop
  <2> QED
    BY <2>1, Zenon DEF Down!Next
<1>4. CASE /\ receiver["down"] = "open" /\ Len(received["down"]) < Len(sent["down"])
           /\ sent["down"][Len(received["down"]) + 1] \notin Refused
           /\ received'["down"] = Append(received["down"], sent["down"][Len(received["down"]) + 1])
           /\ sent'["down"] = sent["down"] /\ sender'["down"] = sender["down"]
           /\ receiver'["down"] = receiver["down"]
  <2>1. Down!Deliver
    BY <1>4, Zenon DEF Down!Deliver, Down!Pending
  <2> QED
    BY <2>1, Zenon DEF Down!Next
<1>5. CASE /\ receiver["down"] = "open"
           /\ receiver'["down"] \in {"closed", "eof", "would_block", "error", "too_large"}
           /\ receiver'["down"] = "eof" => sender["down"] # "open"
           /\ receiver'["down"] = "too_large" => /\ Len(received["down"]) < Len(sent["down"])
                                              /\ sent["down"][Len(received["down"]) + 1] \in Refused
           /\ sent'["down"] = sent["down"] /\ received'["down"] = received["down"]
           /\ sender'["down"] = sender["down"]
  <2>1. Down!Give(receiver'["down"])
    BY <1>5, Zenon DEF Down!Give, Down!Pending
  <2>2. \E status \in {"closed", "eof", "would_block", "error", "too_large"} : Down!Give(status)
    BY <1>5, <2>1, Zenon
  <2> QED
    BY <2>2, Zenon DEF Down!Next
<1> QED
  BY <1>1, <1>2, <1>3, <1>4, <1>5, Zenon DEF ChannelStep

\* Each stream of frames, cut into reads and writes in whatever way, implements
\* the channel of whole payloads.
THEOREM FrameChannelCorrect == Spec => IsFrameChannel
<1>1. Init => Up!Init /\ Down!Init
  BY TwoStreams DEF Init, FramesInit, Up!Init, Down!Init
<1>2. IInv /\ [Next]_vars => [Up!Next]_(Up!vars) /\ [Down!Next]_(Down!vars)
  <2> SUFFICES ASSUME IInv, [Next]_vars
               PROVE  [Up!Next]_(Up!vars) /\ [Down!Next]_(Down!vars)
    OBVIOUS
  <2>1. ChannelStep("up") /\ ChannelStep("down")
    BY EveryStep, TwoStreams, ZenonT(40)
  <2>2. [Up!Next]_(Up!vars)
    BY <2>1, UpStep, Zenon
  <2>3. [Down!Next]_(Down!vars)
    BY <2>1, DownStep, Zenon
  <2> QED
    BY <2>2, <2>3, Zenon
<1>3. Spec => Up!Spec /\ Down!Spec
  BY <1>1, <1>2, WireInvariant, PTL DEF Spec, Up!Spec, Down!Spec
<1> QED
  BY <1>3, PTL DEF IsFrameChannel

-----------------------------------------------------------------------------
(* The bytes in closed form.                                               *)

\* A set of natural numbers that is not empty has a least member.  It is proved
\* at the end (LeastHolds), and a hypothesis until then.
LeastNumber == \A T \in SUBSET Nat : T # {} => \E n \in T : \A m \in T : n <= m

\* f computes the frames of the payloads one after the other, as Encoded does.
Computes(f, payloads) ==
    f = [i \in 0 .. Len(payloads) |->
            IF i = 0 THEN << >> ELSE f[i - 1] \o EncodeFrame(payloads[i])]

\* Encoded is the last value of such a function, if there is one.
LEMMA EncodedComputes ==
    ASSUME NEW f, NEW payloads, Computes(f, payloads)
    PROVE  \E g : Computes(g, payloads) /\ Encoded(payloads) = g[Len(payloads)]
<1>1. Computes(CHOOSE g : Computes(g, payloads), payloads)
  BY Zenon
<1>2. Encoded(payloads) = (CHOOSE g : Computes(g, payloads))[Len(payloads)]
  BY Zenon DEF Encoded, Computes
<1> QED
  BY <1>1, <1>2, Zenon

\* Only one function does.
LEMMA ComputesOnce ==
    ASSUME LeastNumber, NEW f, NEW g, NEW payloads, Len(payloads) \in Nat,
           Computes(f, payloads), Computes(g, payloads)
    PROVE  g[Len(payloads)] = f[Len(payloads)]
<1> DEFINE n == Len(payloads)
           T == {i \in 0 .. n : g[i] # f[i]}
<1>1. \A i \in 0 .. n : /\ f[i] = IF i = 0 THEN << >> ELSE f[i - 1] \o EncodeFrame(payloads[i])
                        /\ g[i] = IF i = 0 THEN << >> ELSE g[i - 1] \o EncodeFrame(payloads[i])
  BY Zenon DEF Computes
<1>0. n \in Nat
  OBVIOUS
<1> HIDE DEF n
<1>2. T = {}
  <2> SUFFICES ASSUME T # {} PROVE FALSE
    OBVIOUS
  <2>1. T \in SUBSET Nat
    BY <1>0
  <2>2. PICK i \in T : \A m \in T : i <= m
    BY <2>1, Zenon DEF LeastNumber
  <2>3. i \in 0 .. n /\ g[i] # f[i]
    BY <2>2
  <2>4. i # 0
    BY <1>1, <2>3, Zenon
  <2>5. i - 1 \in 0 .. n /\ ~(i <= i - 1)
    BY <1>0, <2>3, <2>4
  <2>6. g[i - 1] = f[i - 1]
    BY <2>2, <2>5, Zenon
  <2> QED
    BY <1>1, <2>3, <2>4, <2>6, Zenon
<1>3. n \in 0 .. n
  BY <1>0
<1> QED
  BY <1>2, <1>3, Zenon DEF n

\* The first k bytes.
LEMMA FrontIs ==
    ASSUME NEW bytes \in Bytes, NEW k \in 0 .. Len(bytes)
    PROVE  /\ SubSeq(bytes, 1, k) \in Bytes /\ Len(SubSeq(bytes, 1, k)) = k
           /\ \A j \in 1 .. k : SubSeq(bytes, 1, k)[j] = bytes[j]
<1> DEFINE B == 0 .. (Base - 1)
<1>1. bytes \in Seq(B)
  BY DEF Bytes
<1> HIDE DEF B
<1>2. /\ SubSeq(bytes, 1, k) \in Seq(B) /\ Len(SubSeq(bytes, 1, k)) = k
      /\ \A j \in 1 .. k : SubSeq(bytes, 1, k)[j] = bytes[j]
  BY <1>1
<1> QED
  BY <1>2, Zenon DEF B, Bytes

\* Bytes that can be cut into the frames of some payloads are their encoding.
LEMMA FramesAreEncoded ==
    ASSUME LeastNumber, NEW bytes, NEW payloads, Frames(bytes, payloads)
    PROVE  bytes = Encoded(payloads)
<1>0. bytes \in Bytes /\ payloads \in Seq(Payload)
  BY Zenon DEF Frames
<1>1. PICK cut : Cuts(bytes, payloads, cut)
  BY Zenon DEF Frames
<1> DEFINE n == Len(payloads)
           B == 0 .. (Base - 1)
           f == [i \in 0 .. n |-> SubSeq(bytes, 1, cut[i])]
<1>2. n \in Nat /\ Len(bytes) \in Nat
  BY <1>0 DEF Bytes
<1>3. /\ \A i \in 0 .. n : cut[i] \in 0 .. Len(bytes)
      /\ cut[0] = 0 /\ cut[n] = Len(bytes)
  BY <1>1, Zenon DEF Cuts
<1>4. \A i \in 0 .. n : /\ SubSeq(bytes, 1, cut[i]) \in Bytes
                        /\ Len(SubSeq(bytes, 1, cut[i])) = cut[i]
                        /\ \A j \in 1 .. cut[i] : SubSeq(bytes, 1, cut[i])[j] = bytes[j]
  BY <1>0, <1>3, FrontIs, Zenon
<1>5. ASSUME NEW i \in 1 .. n
      PROVE  SubSeq(bytes, 1, cut[i]) = SubSeq(bytes, 1, cut[i - 1]) \o EncodeFrame(payloads[i])
  <2> DEFINE a == SubSeq(bytes, 1, cut[i - 1])
             e == EncodeFrame(payloads[i])
             s == SubSeq(bytes, 1, cut[i])
  <2>1. i \in 0 .. n /\ i - 1 \in 0 .. n
    BY <1>2, <1>5
  <2>2. payloads[i] \in Payload
    BY <1>0, <1>5
  <2>3. e \in Bytes
    BY <2>2, FrameIs, Zenon
  <2>4. cut[i] = cut[i - 1] + Len(e) /\ \A j \in 1 .. Len(e) : bytes[cut[i - 1] + j] = e[j]
    BY <1>1, <1>5, Zenon DEF Cuts
  <2>5. /\ a \in Bytes /\ Len(a) = cut[i - 1] /\ \A j \in 1 .. cut[i - 1] : a[j] = bytes[j]
        /\ s \in Bytes /\ Len(s) = cut[i] /\ \A j \in 1 .. cut[i] : s[j] = bytes[j]
        /\ cut[i] \in 0 .. Len(bytes) /\ cut[i - 1] \in 0 .. Len(bytes)
    BY <1>3, <1>4, <2>1, Zenon
  <2> HIDE DEF a, e, s
  <2>6. Len(e) \in Nat
    BY <2>3 DEF Bytes
  <2>7. /\ a \o e \in Bytes /\ Len(a \o e) = Len(a) + Len(e)
        /\ \A j \in 1 .. Len(a) : (a \o e)[j] = a[j]
        /\ \A j \in 1 .. Len(e) : (a \o e)[Len(a) + j] = e[j]
    BY <2>3, <2>5, ConcatBytes, Zenon
  <2>8. ASSUME NEW j \in 1 .. Len(s) PROVE s[j] = (a \o e)[j]
    <3>1. CASE j \in 1 .. Len(a)
      BY <2>5, <2>7, <2>8, <3>1, Zenon
    <3>2. CASE j \notin 1 .. Len(a)
      <4>1. j - Len(a) \in 1 .. Len(e) /\ Len(a) + (j - Len(a)) = j
        BY <2>4, <2>5, <2>6, <2>8, <3>2
      <4>2. (a \o e)[j] = e[j - Len(a)]
        BY <2>7, <4>1, ZenonT(40)
      <4>3. bytes[j] = e[j - Len(a)]
        <5>1. bytes[cut[i - 1] + (j - Len(a))] = e[j - Len(a)]
          BY <2>4, <4>1, ZenonT(40)
        <5> QED
          BY <2>5, <4>1, <5>1, ZenonT(40)
      <4>4. s[j] = bytes[j]
        BY <2>5, <2>8, ZenonT(40)
      <4> QED
        BY <4>2, <4>3, <4>4, Zenon
    <3> QED
      BY <3>1, <3>2, Zenon
  <2>9. Len(s) = Len(a \o e)
    BY <2>4, <2>5, <2>7, Zenon
  <2>10. s = a \o e
    <3>1. s \in Seq(B) /\ a \o e \in Seq(B)
      BY <2>5, <2>7, Zenon DEF Bytes
    <3> QED
      BY <2>8, <2>9, <3>1, SameSeq, Zenon
  <2> QED
    BY <2>10, Zenon DEF s, a, e
<1>6. Computes(f, payloads)
  <2>1. SubSeq(bytes, 1, cut[0]) = << >>
    BY <1>0, <1>3
  <2>2. ASSUME NEW i \in 0 .. n
        PROVE  SubSeq(bytes, 1, cut[i]) = IF i = 0 THEN << >> ELSE f[i - 1] \o EncodeFrame(payloads[i])
    <3>1. CASE i = 0
      BY <2>1, <3>1
    <3>2. CASE i # 0
      <4>1. i \in 1 .. n /\ i - 1 \in 0 .. n
        BY <1>2, <2>2, <3>2
      <4>2. f[i - 1] = SubSeq(bytes, 1, cut[i - 1])
        BY <4>1, Zenon
      <4> QED
        BY <1>5, <3>2, <4>1, <4>2, Zenon
    <3> QED
      BY <3>1, <3>2, Zenon
  <2> QED
    BY <2>2, Zenon DEF Computes
<1>7. PICK g : Computes(g, payloads) /\ Encoded(payloads) = g[n]
  BY <1>6, EncodedComputes, Zenon
<1>8. g[n] = f[n]
  BY <1>2, <1>6, <1>7, ComputesOnce, Zenon
<1>9. n \in 0 .. n
  BY <1>2
<1>10. f[n] = SubSeq(bytes, 1, Len(bytes))
  BY <1>3, <1>9, Zenon
<1>11. SubSeq(bytes, 1, Len(bytes)) = bytes
  BY <1>0 DEF Bytes
<1> QED
  BY <1>7, <1>8, <1>10, <1>11, Zenon

-----------------------------------------------------------------------------
(* The theorems that need least numbers.                                   *)

INSTANCE WellFoundedInduction

\* Every set of natural numbers that is not empty has a least element.
LEMMA LeastHolds == LeastNumber
<1> SUFFICES ASSUME NEW T \in SUBSET Nat, T # {}
             PROVE  \E n \in T : \A m \in T : n <= m
  BY Zenon DEF LeastNumber
<1> DEFINE R == {ss \in Nat \X Nat : ss[1] < ss[2]}
<1>1. IsWellFoundedOn(R, Nat)
  BY NatLessThanWellFounded, Zenon DEF OpToRel
<1>2. \A x, y \in Nat : x < y => <<x, y>> \in R
  OBVIOUS
<1> HIDE DEF R
<1>3. PICK x \in T : \A y \in T : ~(<<y, x>> \in R)
  BY <1>1, WFMin, Zenon
<1>4. \A y \in T : ~(y < x)
  BY <1>2, <1>3, Zenon
<1> QED
  BY <1>4, SMT, SMTT(30)

\* The bytes that are read, on the way and not yet written are the frames of the
\* payloads that are sent and not yet received, on every stream at any time.
THEOREM InStepCorrect == Spec => []InStep
<1>1. IInv => InStep
  <2> SUFFICES ASSUME IInv, NEW d \in Stream
               PROVE  Read(d) \o wire[d] \o out[d] = Encoded(Due(d))
    BY Zenon DEF InStep
  <2>1. InOrder(d)
    BY Zenon DEF IInv, Streams
  <2>2. Frames((Begun(stage[d], want[d], got[d]) \o wire[d]) \o out[d], Rest(sent[d], received[d]))
    BY <2>1, Zenon DEF InOrder, StreamOK
  <2>3. Begun(stage[d], want[d], got[d]) = Read(d) /\ Rest(sent[d], received[d]) = Due(d)
    BY Zenon DEF Begun, Read, Rest, Due
  <2> QED
    BY <2>2, <2>3, FramesAreEncoded, LeastHolds, ZenonT(40)
<1> QED
  BY <1>1, WireInvariant, PTL
====
