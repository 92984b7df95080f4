--------------------------- MODULE CommandsProofs ---------------------------
(***************************************************************************)
(* parse_command accepts the sentences of the grammar and gives each its   *)
(* one meaning, and what it stores can be read again from the log and sent *)
(* back: for payloads of any length with any symbols, and for any limits.  *)
(*                                                                         *)
(* A part of a text is known by the places where it begins and ends, so    *)
(* that what trim and split_once give is a part of the payload again, and  *)
(* the grammar can be compared with them place by place.                   *)
(***************************************************************************)
EXTENDS Commands, TLAPS

-----------------------------------------------------------------------------
(* Parts of a text, and what trim and split_once give of them.             *)

\* A set of numbers that is not empty has a least element.  This is proved at the
\* end (LeastHolds), and a hypothesis until then.
LeastNumber == \A T \in SUBSET Nat : T # {} => \E n \in T : \A m \in T : n <= m

\* The first and the last of some places.
LEMMA Ends ==
    ASSUME LeastNumber, NEW n \in Nat, NEW K \in SUBSET (1 .. n), K # {}
    PROVE  /\ First(K) \in K /\ \A j \in K : First(K) <= j
           /\ Final(K) \in K /\ \A j \in K : j <= Final(K)
<1>1. \E i \in K : \A j \in K : i <= j
  <2>1. K \in SUBSET Nat
    OBVIOUS
  <2> QED BY <2>1, Zenon DEF LeastNumber
<1>2. \E i \in K : \A j \in K : j <= i
  <2> DEFINE T == {m \in 0 .. n : n - m \in K}
  <2>1. PICK x : x \in K
    OBVIOUS
  <2>2. x \in 1 .. n /\ n - x \in 0 .. n /\ n - (n - x) = x
    BY <2>1
  <2>3. n - x \in T
    BY <2>1, <2>2
  <2>4. T \in SUBSET Nat
    OBVIOUS
  <2>5. PICK m \in T : \A k \in T : m <= k
    BY <2>3, <2>4, Zenon DEF LeastNumber
  <2>6. ASSUME NEW j \in K PROVE j <= n - m
    <3>1. j \in 1 .. n /\ n - j \in 0 .. n /\ n - (n - j) = j
      OBVIOUS
    <3>2. n - j \in T
      BY <3>1
    <3>3. m <= n - j /\ m \in 0 .. n
      BY <3>2, <2>5
    <3> QED BY <3>1, <3>3
  <2> QED BY <2>5, <2>6
<1>3. First(K) \in K /\ \A j \in K : First(K) <= j
  BY <1>1, Zenon DEF First
<1>4. Final(K) \in K /\ \A j \in K : j <= Final(K)
  BY <1>2, Zenon DEF Final
<1> QED BY <1>3, <1>4, Zenon

\* A part of a text.
LEMMA View ==
    ASSUME NEW S, NEW text \in Seq(S), NEW i \in 1 .. (Len(text) + 1), NEW j \in (i - 1) .. Len(text)
    PROVE  /\ SubSeq(text, i, j) \in Seq(S) /\ Len(SubSeq(text, i, j)) = j - i + 1
           /\ DOMAIN SubSeq(text, i, j) = 1 .. (j - i + 1)
           /\ \A k \in 1 .. (j - i + 1) : SubSeq(text, i, j)[k] = text[i + k - 1]
<1>1. Len(text) \in Nat /\ i \in Int /\ j \in Int
  OBVIOUS
<1>2. SubSeq(text, i, j) \in Seq(S)
  BY <1>1
<1>3. Len(SubSeq(text, i, j)) = j - i + 1
  BY <1>1
<1>4. \A k \in 1 .. (j - i + 1) : SubSeq(text, i, j)[k] = text[i + k - 1]
  BY <1>1
<1> QED BY <1>2, <1>3, <1>4

\* The length of a text is a number.
LEMMA LenNat == ASSUME NEW S, NEW a \in Seq(S) PROVE Len(a) \in Nat
OBVIOUS

\* Texts of one length with the same symbols are the same.
LEMMA SameSeq ==
    ASSUME NEW S, NEW a \in Seq(S), NEW b \in Seq(S), Len(a) = Len(b),
           \A k \in 1 .. Len(a) : a[k] = b[k]
    PROVE  a = b
OBVIOUS

\* A part of a part is a part.
LEMMA ViewOfView ==
    ASSUME NEW S, NEW text \in Seq(S), NEW i \in 1 .. (Len(text) + 1), NEW j \in (i - 1) .. Len(text),
           NEW p \in 1 .. (j - i + 2), NEW q \in (p - 1) .. (j - i + 1)
    PROVE  SubSeq(SubSeq(text, i, j), p, q) = SubSeq(text, i + p - 1, i + q - 1)
<1> DEFINE v == SubSeq(text, i, j)
           a == SubSeq(v, p, q)
           b == SubSeq(text, i + p - 1, i + q - 1)
<1>0. Len(text) \in Nat /\ i \in Int /\ j \in Int /\ p \in Int /\ q \in Int
  OBVIOUS
<1>1. v \in Seq(S) /\ Len(v) = j - i + 1 /\ \A k \in 1 .. (j - i + 1) : v[k] = text[i + k - 1]
  BY View
<1>2. /\ i + p - 1 \in 1 .. (Len(text) + 1) /\ i + q - 1 \in (i + p - 1 - 1) .. Len(text)
      /\ (i + q - 1) - (i + p - 1) + 1 = q - p + 1
  BY <1>0
<1>3. b \in Seq(S) /\ Len(b) = q - p + 1 /\ \A k \in 1 .. (q - p + 1) : b[k] = text[i + p - 1 + k - 1]
  BY <1>2, View
<1> HIDE DEF v
<1>4. p \in 1 .. (Len(v) + 1) /\ q \in (p - 1) .. Len(v)
  BY <1>0, <1>1
<1>5. a \in Seq(S) /\ Len(a) = q - p + 1 /\ \A k \in 1 .. (q - p + 1) : a[k] = v[p + k - 1]
  BY <1>1, <1>4, View
<1> HIDE DEF a, b
<1>6. ASSUME NEW k \in 1 .. (q - p + 1) PROVE a[k] = b[k]
  <2>1. a[k] = v[p + k - 1] /\ b[k] = text[i + p - 1 + k - 1]
    BY <1>3, <1>5, Zenon
  <2>2. p + k - 1 \in 1 .. (j - i + 1) /\ i + (p + k - 1) - 1 = i + p - 1 + k - 1
    BY <1>0
  <2>3. v[p + k - 1] = text[i + (p + k - 1) - 1]
    BY <2>2, <1>1, Zenon
  <2> QED BY <2>1, <2>2, <2>3
<1>7. a = b
  BY <1>3, <1>5, <1>6, SameSeq
<1> QED BY <1>7 DEF a, b, v

\* The whole text is a part of itself.
LEMMA WholeView ==
    ASSUME NEW S, NEW text \in Seq(S)
    PROVE  SubSeq(text, 1, Len(text)) = text
OBVIOUS

\* Symbols l to r of a part p to q of a text are what is left of it without the
\* white space around it.
Core(text, p, q, l, r) ==
    /\ p <= l /\ l <= r /\ r <= q
    /\ text[l] \notin Space /\ text[r] \notin Space
    /\ Blank(text, p, l - 1) /\ Blank(text, r + 1, q)

\* trim: nothing is left of white space,
LEMMA TrimBlank ==
    ASSUME NEW S, NEW text \in Seq(S), NEW p \in 1 .. (Len(text) + 1), NEW q \in (p - 1) .. Len(text),
           Blank(text, p, q)
    PROVE  Trim(SubSeq(text, p, q)) = <<>>
<1> DEFINE v == SubSeq(text, p, q)
           kept == {k \in DOMAIN v : v[k] \notin Space}
<1>1. DOMAIN v = 1 .. (q - p + 1) /\ \A k \in 1 .. (q - p + 1) : v[k] = text[p + k - 1]
  BY View
<1>2. ASSUME NEW k \in DOMAIN v PROVE v[k] \in Space
  <2>1. k \in 1 .. (q - p + 1) /\ v[k] = text[p + k - 1]
    BY <1>1
  <2>2. p + k - 1 \in p .. q
    BY <2>1
  <2> QED BY <2>1, <2>2, Zenon DEF Blank
<1>3. kept = {}
  BY <1>2, Zenon
<1> HIDE DEF v
<1>4. Trim(v) = <<>>
  BY <1>3, Zenon DEF Trim
<1> QED BY <1>4 DEF v

\* and otherwise what lies between the first and the last symbol that is none.
LEMMA TrimCore ==
    ASSUME LeastNumber,
           NEW S, NEW text \in Seq(S), NEW p \in 1 .. (Len(text) + 1), NEW q \in (p - 1) .. Len(text),
           NEW l \in Int, NEW r \in Int, Core(text, p, q, l, r)
    PROVE  Trim(SubSeq(text, p, q)) = SubSeq(text, l, r)
<1> DEFINE v == SubSeq(text, p, q)
           kept == {k \in DOMAIN v : v[k] \notin Space}
           n == q - p + 1
<1>0. Len(text) \in Nat /\ p \in Int /\ q \in Int /\ n \in Nat
  OBVIOUS
<1>1. DOMAIN v = 1 .. n /\ \A k \in 1 .. n : v[k] = text[p + k - 1]
  BY View
<1>2. p <= l /\ l <= r /\ r <= q /\ text[l] \notin Space /\ text[r] \notin Space
  BY Zenon DEF Core
<1>3. l - p + 1 \in 1 .. n /\ p + (l - p + 1) - 1 = l /\ r - p + 1 \in 1 .. n /\ p + (r - p + 1) - 1 = r
  BY <1>0, <1>2
<1> HIDE DEF v, n
<1>4. v[l - p + 1] = text[l] /\ v[r - p + 1] = text[r]
  BY <1>1, <1>3
<1>5. l - p + 1 \in kept /\ r - p + 1 \in kept
  BY <1>1, <1>2, <1>3, <1>4
<1>6. ASSUME NEW k \in kept PROVE l - p + 1 <= k /\ k <= r - p + 1
  <2>1. k \in 1 .. n /\ v[k] = text[p + k - 1] /\ v[k] \notin Space
    BY <1>1
  <2>2. ~ (p + k - 1 \in p .. (l - 1)) /\ ~ (p + k - 1 \in (r + 1) .. q)
    BY <2>1, Zenon DEF Core, Blank
  <2>3. k \in Int /\ 1 <= k /\ k <= q - p + 1
    BY <2>1 DEF n
  <2> QED BY <1>0, <1>2, <2>2, <2>3
<1>7. kept \in SUBSET (1 .. n) /\ kept # {}
  BY <1>1, <1>5, SMT, SMTT(20)
<1> HIDE DEF kept
<1>8. /\ First(kept) \in kept /\ \A j \in kept : First(kept) <= j
      /\ Final(kept) \in kept /\ \A j \in kept : j <= Final(kept)
  BY <1>0, <1>7, Ends, Zenon
<1>9. First(kept) = l - p + 1 /\ Final(kept) = r - p + 1
  <2>1. First(kept) \in Int /\ Final(kept) \in Int
    <3>1. First(kept) \in 1 .. n /\ Final(kept) \in 1 .. n
      BY <1>7, <1>8, Zenon
    <3> QED BY <3>1
  <2>2. First(kept) <= l - p + 1 /\ l - p + 1 <= First(kept)
    BY <1>5, <1>6, <1>8
  <2>3. Final(kept) <= r - p + 1 /\ r - p + 1 <= Final(kept)
    BY <1>5, <1>6, <1>8
  <2> QED BY <1>0, <2>1, <2>2, <2>3
<1>10. Trim(v) = SubSeq(v, First(kept), Final(kept))
  BY <1>7, Zenon DEF Trim, kept
<1>11. SubSeq(v, l - p + 1, r - p + 1) = SubSeq(text, l, r)
  <2>1. l - p + 1 \in 1 .. (q - p + 2) /\ r - p + 1 \in (l - p + 1 - 1) .. (q - p + 1)
    BY <1>0, <1>2, <1>3 DEF n
  <2>2. SubSeq(v, l - p + 1, r - p + 1) = SubSeq(text, p + (l - p + 1) - 1, p + (r - p + 1) - 1)
    BY <2>1, ViewOfView DEF v
  <2> QED BY <1>3, <2>2
<1> QED BY <1>9, <1>10, <1>11, Zenon DEF v

\* A part that is not all white space has such a core.
LEMMA HasCore ==
    ASSUME LeastNumber,
           NEW S, NEW text \in Seq(S), NEW p \in 1 .. (Len(text) + 1), NEW q \in (p - 1) .. Len(text),
           ~ Blank(text, p, q)
    PROVE  \E l, r \in p .. q : Core(text, p, q, l, r)
<1> DEFINE kept == {k \in p .. q : text[k] \notin Space}
<1>1. kept # {}
  BY Zenon DEF Blank
<1>2. Len(text) \in Nat /\ kept \in SUBSET (1 .. Len(text))
  OBVIOUS
<1> HIDE DEF kept
<1>3. /\ First(kept) \in kept /\ \A j \in kept : First(kept) <= j
      /\ Final(kept) \in kept /\ \A j \in kept : j <= Final(kept)
  BY <1>1, <1>2, Ends, Zenon
<1> DEFINE l == First(kept)
           r == Final(kept)
<1>4. l \in p .. q /\ text[l] \notin Space /\ r \in p .. q /\ text[r] \notin Space /\ l <= r
  BY <1>3 DEF kept
<1> HIDE DEF l, r
<1>5. ASSUME NEW k \in p .. q, text[k] \notin Space PROVE l <= k /\ k <= r
  BY <1>3, <1>5 DEF kept, l, r
<1>6. Blank(text, p, l - 1)
  <2>1. ASSUME NEW k \in p .. (l - 1) PROVE text[k] \in Space
    <3>1. k \in p .. q /\ ~ (l <= k)
      BY <1>4
    <3> QED BY <3>1, <1>5, Zenon
  <2> QED BY <2>1, Zenon DEF Blank
<1>7. Blank(text, r + 1, q)
  <2>1. ASSUME NEW k \in (r + 1) .. q PROVE text[k] \in Space
    <3>1. k \in p .. q /\ ~ (k <= r)
      BY <1>4
    <3> QED BY <3>1, <1>5, Zenon
  <2> QED BY <2>1, Zenon DEF Blank
<1>8. p <= l /\ l <= r /\ r <= q
  BY <1>4
<1>9. Core(text, p, q, l, r)
  BY <1>4, <1>6, <1>7, <1>8, Zenon DEF Core
<1> QED BY <1>4, <1>9, Zenon

\* split_once: of nothing, of a part without a separator, and of one whose first
\* separator is at m and whose rest begins at n.
LEMMA SplitEmpty == SplitOnce(<<>>).first = <<>> /\ SplitOnce(<<>>).rest = <<>>
<1>1. DOMAIN <<>> = {}
  OBVIOUS
<1>2. Trim(<<>>) = <<>>
  BY <1>1, Zenon DEF Trim
<1>3. SplitOnce(<<>>) = [first |-> <<>>, rest |-> <<>>]
  BY <1>1, <1>2, Zenon DEF SplitOnce
<1> QED BY <1>3

\* A part without a separator is not split.
LEMMA SplitNone ==
    ASSUME LeastNumber,
           NEW S, NEW text \in Seq(S), NEW p \in 1 .. (Len(text) + 1), NEW q \in (p - 1) .. Len(text),
           NEW l \in Int, NEW r \in Int, Core(text, p, q, l, r),
           \A k \in l .. r : text[k] \notin Separator
    PROVE  /\ SplitOnce(SubSeq(text, p, q)).first = SubSeq(text, l, r)
           /\ SplitOnce(SubSeq(text, p, q)).rest = <<>>
<1> DEFINE t == SubSeq(text, l, r)
           ends == {k \in DOMAIN t : t[k] \in Separator}
           v == SubSeq(text, p, q)
<1>1. Trim(v) = t
  BY TrimCore
<1>2. Len(text) \in Nat /\ p <= l /\ l <= r /\ r <= q
  BY DEF Core
<1>3. l \in 1 .. (Len(text) + 1) /\ r \in (l - 1) .. Len(text)
  BY <1>2
<1>4. DOMAIN t = 1 .. (r - l + 1) /\ \A k \in 1 .. (r - l + 1) : t[k] = text[l + k - 1]
  BY <1>3, View
<1> HIDE DEF t, v
<1>5. ASSUME NEW k \in DOMAIN t PROVE t[k] \notin Separator
  <2>1. k \in 1 .. (r - l + 1) /\ t[k] = text[l + k - 1]
    BY <1>4
  <2>2. l + k - 1 \in l .. r
    BY <2>1
  <2> QED BY <2>1, <2>2
<1>6. ends = {}
  BY <1>5, Zenon
<1>7. SplitOnce(v) = [first |-> t, rest |-> <<>>]
  BY <1>1, <1>6, Zenon DEF SplitOnce
<1> QED BY <1>7 DEF t, v

\* Symbols m to n - 1 are the gap after the first part, which begins at l.
Cut(S, text, p, q, l, m, n, r) ==
    /\ text \in Seq(S) /\ p \in 1 .. (Len(text) + 1) /\ q \in (p - 1) .. Len(text)
    /\ l \in Int /\ r \in Int /\ Core(text, p, q, l, r)
    /\ m \in l .. r /\ text[m] \in Separator /\ \A k \in l .. (m - 1) : text[k] \notin Separator
    /\ n \in Int /\ Core(text, m + 1, r, n, r)

\* How split_once splits it.
CutGives(text, p, q, l, m, n, r) ==
    /\ SplitOnce(SubSeq(text, p, q)).first = SubSeq(text, l, m - 1)
    /\ SplitOnce(SubSeq(text, p, q)).rest = SubSeq(text, n, r)

\* A part with one is split there.
LEMMA SplitSome ==
    ASSUME LeastNumber, NEW S, NEW text, NEW p, NEW q, NEW l, NEW m, NEW n, NEW r,
           Cut(S, text, p, q, l, m, n, r)
    PROVE  CutGives(text, p, q, l, m, n, r)
<1>a. text \in Seq(S) /\ p \in 1 .. (Len(text) + 1) /\ q \in (p - 1) .. Len(text)
  BY Zenon DEF Cut
<1>b. l \in Int /\ r \in Int /\ Core(text, p, q, l, r)
  BY Zenon DEF Cut
<1>c. /\ m \in l .. r /\ text[m] \in Separator /\ \A k \in l .. (m - 1) : text[k] \notin Separator
      /\ n \in Int /\ Core(text, m + 1, r, n, r)
  BY Zenon DEF Cut
<1>0. m \in Int
  BY <1>b, <1>c
<1> SUFFICES ASSUME text \in Seq(S), p \in 1 .. (Len(text) + 1), q \in (p - 1) .. Len(text),
                    l \in Int, r \in Int, m \in Int, n \in Int, m \in l .. r
             PROVE  CutGives(text, p, q, l, m, n, r)
  BY <1>a, <1>b, <1>c, <1>0, Zenon
<1> DEFINE t == SubSeq(text, l, r)
           ends == {k \in DOMAIN t : t[k] \in Separator}
           v == SubSeq(text, p, q)
           e == m - l + 1
<1>1. Trim(v) = t
  BY <1>b, TrimCore
<1>2. Len(text) \in Nat /\ p <= l /\ l <= r /\ r <= q
  BY <1>b DEF Core
<1>3. l \in 1 .. (Len(text) + 1) /\ r \in (l - 1) .. Len(text)
  BY <1>2
<1>4. /\ DOMAIN t = 1 .. (r - l + 1) /\ Len(t) = r - l + 1
      /\ \A k \in 1 .. (r - l + 1) : t[k] = text[l + k - 1]
  BY <1>3, View
<1>5. e \in 1 .. (r - l + 1) /\ l + e - 1 = m
  BY <1>2
<1>6. /\ SubSeq(t, 1, e - 1) = SubSeq(text, l, m - 1)
      /\ SubSeq(t, e + 1, Len(t)) = SubSeq(text, m + 1, r)
  <2>1. 1 \in 1 .. (r - l + 2) /\ e - 1 \in (1 - 1) .. (r - l + 1)
    BY <1>2, <1>5
  <2>2. e + 1 \in 1 .. (r - l + 2) /\ Len(t) \in (e + 1 - 1) .. (r - l + 1)
    BY <1>2, <1>4, <1>5
  <2>3. SubSeq(t, 1, e - 1) = SubSeq(text, l + 1 - 1, l + (e - 1) - 1)
    BY <1>3, <2>1, ViewOfView
  <2>4. SubSeq(t, e + 1, Len(t)) = SubSeq(text, l + (e + 1) - 1, l + Len(t) - 1)
    BY <1>3, <2>2, ViewOfView
  <2>5. /\ l + 1 - 1 = l /\ l + (e - 1) - 1 = m - 1
        /\ l + (e + 1) - 1 = m + 1 /\ l + Len(t) - 1 = r
    BY <1>4
  <2> QED BY <2>3, <2>4, <2>5
<1> HIDE DEF t, v
<1>7. First(ends) = e
  <2>1. e \in ends
    <3>1. t[e] = text[m]
      BY <1>4, <1>5
    <3> QED BY <3>1, <1>c, <1>4, <1>5
  <2>2. ASSUME NEW k \in ends PROVE e <= k
    <3>1. k \in 1 .. (r - l + 1) /\ t[k] = text[l + k - 1] /\ t[k] \in Separator
      BY <1>4
    <3>2. ~ (l + k - 1 \in l .. (m - 1))
      BY <1>c, <3>1, SMT, SMTT(30)
    <3>3. m \in Int /\ k \in Int /\ 1 <= k
      BY <1>c, <3>1
    <3> QED BY <3>2, <3>3
  <2>3. ends \in SUBSET (1 .. (r - l + 1)) /\ r - l + 1 \in Nat
    BY <1>2, <1>4
  <2> HIDE DEF ends, e
  <2>4. First(ends) \in ends /\ \A j \in ends : First(ends) <= j
    BY <2>1, <2>3, Ends, Zenon
  <2>5. First(ends) <= e /\ e <= First(ends)
    BY <2>1, <2>2, <2>4
  <2>6. First(ends) \in Int /\ e \in Int
    <3>1. First(ends) \in 1 .. (r - l + 1)
      BY <2>3, <2>4, Zenon
    <3> QED BY <3>1, <1>5
  <2> QED BY <2>5, <2>6
<1>8. ends # {}
  BY <1>c, <1>4, <1>5, Zenon
<1>9. SplitOnce(v) = [first |-> SubSeq(t, 1, e - 1), rest |-> Trim(SubSeq(t, e + 1, Len(t)))]
  <2> HIDE DEF e
  <2> QED BY <1>1, <1>7, <1>8, Zenon DEF SplitOnce
<1>10. Trim(SubSeq(text, m + 1, r)) = SubSeq(text, n, r)
  <2> DEFINE x == m + 1
  <2>1. x \in 1 .. (Len(text) + 1) /\ r \in (x - 1) .. Len(text)
    BY <1>2
  <2>2. Core(text, x, r, n, r)
    BY <1>c
  <2> HIDE DEF x, e, ends
  <2>3. Trim(SubSeq(text, x, r)) = SubSeq(text, n, r)
    BY <2>1, <2>2, TrimCore
  <2> QED BY <2>3 DEF x
<1>11. SplitOnce(v) = [first |-> SubSeq(text, l, m - 1), rest |-> SubSeq(text, n, r)]
  BY <1>6, <1>9, <1>10, Zenon
<1> HIDE DEF ends, e
<1>12. SplitOnce(v).first = SubSeq(text, l, m - 1) /\ SplitOnce(v).rest = SubSeq(text, n, r)
  BY <1>11
<1> QED BY <1>12, Zenon DEF v, CutGives

-----------------------------------------------------------------------------
(* parse_command, by what split_once gives.                                *)

\* parse_command rejects NUL.
Legal(text) == \A i \in DOMAIN text : text[i] # "nul"

\* A verb that takes no arguments,
LEMMA ParseAlone ==
    ASSUME NEW text, NEW w \in {"PING", "STATS"}, Legal(text),
           SplitOnce(text).first = <<w>>, SplitOnce(text).rest = <<>>
    PROVE  ParseCommand(text) = [verb |-> w]
<1>1. <<w>> \in {<<"PING">>, <<"STATS">>} /\ <<w>> \notin {<<"GET">>, <<"DEL">>} /\ <<w>> # <<"SET">>
  OBVIOUS
<1> QED BY <1>1 DEF ParseCommand, Legal

\* one that takes a key,
LEMMA ParseKey ==
    ASSUME NEW text, NEW w \in {"GET", "DEL"}, NEW key, NEW arguments, Legal(text), ValidKey(key),
           SplitOnce(text).first = <<w>>, SplitOnce(text).rest = arguments,
           SplitOnce(arguments).first = key, SplitOnce(arguments).rest = <<>>
    PROVE  ParseCommand(text) = [verb |-> w, key |-> key]
<1>1. <<w>> \in {<<"GET">>, <<"DEL">>} /\ <<w>> \notin {<<"PING">>, <<"STATS">>} /\ <<w>> # <<"SET">>
  OBVIOUS
<1> QED BY <1>1 DEF ParseCommand, Legal

\* and SET.
LEMMA ParseValue ==
    ASSUME NEW text, NEW key, NEW value, NEW arguments, Legal(text), ValidKey(key), value # <<>>,
           SplitOnce(text).first = <<"SET">>, SplitOnce(text).rest = arguments,
           SplitOnce(arguments).first = key, SplitOnce(arguments).rest = value
    PROVE  ParseCommand(text) = [verb |-> "SET", key |-> key, value |-> value]
<1>1. <<"SET">> \notin {<<"PING">>, <<"STATS">>} /\ <<"SET">> \notin {<<"GET">>, <<"DEL">>}
  BY SMT, SMTT(30)
<1> QED BY <1>1 DEF ParseCommand, Legal

\* There is no other way to get a command.
LEMMA ParseCases ==
    ASSUME NEW text, ParseCommand(text) # NoCommand
    PROVE  LET verb == SplitOnce(text).first
               arguments == SplitOnce(text).rest
               key == SplitOnce(arguments).first
               rest == SplitOnce(arguments).rest
           IN  /\ Legal(text)
               /\ \/ \E w \in {"PING", "STATS"} :
                        verb = <<w>> /\ arguments = <<>> /\ ParseCommand(text) = [verb |-> w]
                  \/ \E w \in {"GET", "DEL"} :
                        /\ verb = <<w>> /\ ValidKey(key) /\ rest = <<>>
                        /\ ParseCommand(text) = [verb |-> w, key |-> key]
                  \/ /\ verb = <<"SET">> /\ ValidKey(key) /\ rest # <<>>
                     /\ ParseCommand(text) = [verb |-> "SET", key |-> key, value |-> rest]
  BY DEF ParseCommand, Legal

-----------------------------------------------------------------------------
(* Every sentence of the grammar is read as its command.                   *)

\* What the kinds of symbols have to do with each other.
LEMMA Symbols ==
    ASSUME NEW x
    PROVE  /\ x \in Word => x \in KeyPart
           /\ x \in KeyPart => x \notin Space /\ x # "nul"
           /\ x \in Separator => x \in Space
           /\ x \in Space => x # "nul"
  BY Zenon DEF Word, KeyPart, Space, Separator

\* What is known of the size of texts; it is proved at the end.
SizeKnown ==
    /\ Size(<<>>) = 0
    /\ Size(<<"SET">>) = 3 /\ Size(<<"DEL">>) = 3 /\ Size(<<"VALUE">>) = 5 /\ Size(<<" ">>) = 1
    /\ \A S : \A text \in Seq(S) : Size(text) \in Nat /\ Len(text) <= Size(text)
    /\ \A S : \A s, t \in Seq(S) : Size(s \o t) = Size(s) + Size(t)

\* One symbol of a text.
LEMMA OneSymbol ==
    ASSUME NEW S, NEW text \in Seq(S), NEW i \in DOMAIN text
    PROVE  SubSeq(text, i, i) = <<text[i]>>
<1>1. i \in 1 .. (Len(text) + 1) /\ i \in (i - 1) .. Len(text) /\ i - i + 1 = 1 /\ i + 1 - 1 = i
  OBVIOUS
<1> DEFINE v == SubSeq(text, i, i)
<1>2. /\ v \in Seq(S) /\ Len(v) = i - i + 1
      /\ \A k \in 1 .. (i - i + 1) : v[k] = text[i + k - 1]
  BY <1>1, View, ZenonT(60)
<1>3. <<text[i]>> \in Seq(S) /\ Len(<<text[i]>>) = 1 /\ <<text[i]>>[1] = text[i]
  OBVIOUS
<1> HIDE DEF v
<1>4. Len(v) = 1 /\ v[1] = text[i]
  BY <1>1, <1>2
<1>5. v = <<text[i]>>
  BY <1>2, <1>3, <1>4
<1> QED BY <1>5 DEF v

\* PING and STATS.
LEMMA ReadAlone ==
    ASSUME LeastNumber, NEW S, NEW text \in Seq(S), NEW i \in DOMAIN text, VerbAt(text, i),
           text[i] \in {"PING", "STATS"}, Blank(text, i + 1, Len(text))
    PROVE  ParseCommand(text) = [verb |-> text[i]]
<1>0. i \in 1 .. Len(text) /\ Len(text) \in Nat
  OBVIOUS
<1>1. text[i] \notin Space /\ text[i] # "nul"
  BY Symbols, Zenon DEF VerbAt
<1>2. Core(text, 1, Len(text), i, i)
  BY <1>0, <1>1 DEF Core, VerbAt
<1>3. \A k \in i .. i : text[k] \notin Separator
  <2>1. text[i] \notin Separator
    BY <1>1, Symbols, Zenon
  <2> QED BY <1>0, <2>1
<1>4. SplitOnce(text).first = <<text[i]>> /\ SplitOnce(text).rest = <<>>
  <2>1. 1 \in 1 .. (Len(text) + 1) /\ Len(text) \in (1 - 1) .. Len(text)
    BY <1>0
  <2>2. /\ SplitOnce(SubSeq(text, 1, Len(text))).first = SubSeq(text, i, i)
        /\ SplitOnce(SubSeq(text, 1, Len(text))).rest = <<>>
    BY <1>0, <1>2, <1>3, <2>1, SplitNone
  <2> QED BY <2>2, OneSymbol, WholeView, Zenon
<1>5. Legal(text)
  <2>1. ASSUME NEW k \in DOMAIN text PROVE text[k] # "nul"
    <3>1. k \in 1 .. (i - 1) \/ k = i \/ k \in (i + 1) .. Len(text)
      BY <1>0
    <3>2. k = i \/ text[k] \in Space
      BY <3>1, Zenon DEF VerbAt, Blank
    <3> QED BY <1>1, <3>2, Symbols, Zenon
  <2> QED BY <2>1, Zenon DEF Legal
<1> QED BY <1>4, <1>5, ParseAlone

\* The key of a verb at i: how the text is split at both.
LEMMA SplitVerb ==
    ASSUME LeastNumber, NEW S, NEW text \in Seq(S), NEW i \in DOMAIN text, VerbAt(text, i),
           NEW a \in DOMAIN text, Gap(text, i + 1, a - 1), text[a] \notin Space,
           NEW r \in DOMAIN text, a <= r, text[r] \notin Space, Blank(text, r + 1, Len(text))
    PROVE  /\ SplitOnce(text).first = <<text[i]>>
           /\ SplitOnce(text).rest = SubSeq(text, a, r)
<1>0. i \in 1 .. Len(text) /\ a \in 1 .. Len(text) /\ r \in 1 .. Len(text) /\ Len(text) \in Nat
  OBVIOUS
<1>1. /\ i + 1 <= a - 1 /\ text[i + 1] \in Separator /\ Blank(text, i + 1, a - 1)
      /\ text[i] \notin Space /\ Blank(text, 1, i - 1)
  BY Symbols, Zenon DEF VerbAt, Gap
<1>2. Core(text, 1, Len(text), i, r)
  <2>1. 1 <= i /\ i <= r /\ r <= Len(text)
    BY <1>0, <1>1
  <2> QED BY <1>1, <2>1, Zenon DEF Core
<1>3. i + 1 \in i .. r /\ i + 1 - 1 = i
  BY <1>0, <1>1
<1>4. \A k \in i .. (i + 1 - 1) : text[k] \notin Separator
  <2>1. text[i] \notin Separator
    BY <1>1, Symbols, Zenon
  <2> QED BY <1>0, <2>1
<1>5. Core(text, i + 1 + 1, r, a, r)
  <2>1. i + 1 + 1 <= a /\ a <= r /\ r <= r
    BY <1>0, <1>1, SMT, SMTT(30)
  <2>2. ASSUME NEW k \in (i + 1 + 1) .. (a - 1) PROVE text[k] \in Space
    <3>1. k \in (i + 1) .. (a - 1)
      BY <1>0
    <3> QED BY <1>1, <3>1, Zenon DEF Blank
  <2>3. Blank(text, i + 1 + 1, a - 1)
    BY <2>2, Zenon DEF Blank
  <2>4. (r + 1) .. r = {}
    BY <1>0
  <2>5. Blank(text, r + 1, r)
    BY <2>4, Zenon DEF Blank
  <2> QED BY <2>1, <2>3, <2>5, Zenon DEF Core
<1>6. 1 \in 1 .. (Len(text) + 1) /\ Len(text) \in (1 - 1) .. Len(text) /\ i \in Int /\ r \in Int /\ a \in Int
  BY <1>0
<1> DEFINE m == i + 1
<1>7. /\ m \in i .. r /\ text[m] \in Separator /\ \A k \in i .. (m - 1) : text[k] \notin Separator
      /\ Core(text, m + 1, r, a, r)
  <2>1. m \in i .. r
    BY <1>0, <1>1, SMT, SMTT(30)
  <2>2. text[m] \in Separator /\ Core(text, m + 1, r, a, r)
    BY <1>1, <1>5
  <2>3. \A k \in i .. (m - 1) : text[k] \notin Separator
    BY <1>4
  <2> QED BY <2>1, <2>2, <2>3, Zenon
<1> HIDE DEF m
<1>8. Cut(S, text, 1, Len(text), i, m, a, r)
  BY <1>2, <1>6, <1>7, Zenon DEF Cut
<1>9. /\ SplitOnce(SubSeq(text, 1, Len(text))).first = SubSeq(text, i, m - 1)
      /\ SplitOnce(SubSeq(text, 1, Len(text))).rest = SubSeq(text, a, r)
  <2>1. CutGives(text, 1, Len(text), i, m, a, r)
    BY <1>8, SplitSome
  <2> QED BY <2>1, Zenon DEF CutGives
<1>10. m - 1 = i
  BY <1>0 DEF m
<1> QED BY <1>9, <1>10, OneSymbol, WholeView, Zenon

\* The symbols that the grammar wants of a key are those that valid_key wants.
LEMMA KeyFacts ==
    ASSUME SizeKnown, NEW S, NEW text \in Seq(S), NEW i, NEW a \in DOMAIN text, NEW b \in DOMAIN text,
           KeyAt(text, i, a, b)
    PROVE  /\ Gap(text, i + 1, a - 1) /\ a <= b
           /\ text[a] \notin Space /\ text[b] \notin Space
           /\ \A k \in a .. b : text[k] \notin Separator /\ text[k] # "nul"
           /\ ValidKey(SubSeq(text, a, b))
<1>1. /\ Gap(text, i + 1, a - 1) /\ a <= b /\ \A k \in a .. b : text[k] \in KeyPart
      /\ Size(SubSeq(text, a, b)) <= MaxKey
  BY Zenon DEF KeyAt
<1>2. \A k \in a .. b : text[k] \notin Space /\ text[k] \notin Separator /\ text[k] # "nul"
  BY <1>1, Symbols, Zenon
<1>3. a \in a .. b /\ b \in a .. b
  BY <1>1
<1>4. a \in 1 .. (Len(text) + 1) /\ b \in (a - 1) .. Len(text)
  BY <1>1
<1> DEFINE v == SubSeq(text, a, b)
<1>5. /\ v \in Seq(S) /\ Len(v) = b - a + 1 /\ DOMAIN v = 1 .. (b - a + 1)
      /\ \A k \in 1 .. (b - a + 1) : v[k] = text[a + k - 1]
  BY <1>4, View
<1> HIDE DEF v
<1>6. Size(v) \in 1 .. MaxKey
  <2>1. Size(v) \in Nat /\ Len(v) <= Size(v)
    BY <1>5, Zenon DEF SizeKnown
  <2>2. Size(v) <= MaxKey
    BY <1>1 DEF v
  <2> QED BY <1>1, <1>5, <2>1, <2>2, CommandsAssumption
<1>7. ASSUME NEW k \in DOMAIN v PROVE v[k] \in KeyPart
  <2>1. k \in 1 .. (b - a + 1) /\ v[k] = text[a + k - 1]
    BY <1>5
  <2>2. a + k - 1 \in a .. b
    BY <2>1
  <2> QED BY <1>1, <2>1, <2>2
<1>8. ValidKey(v)
  BY <1>6, <1>7, Zenon DEF ValidKey
<1> QED BY <1>1, <1>2, <1>3, <1>8, Zenon DEF v

\* A text whose symbols are those of a verb, of white space, of a key and of what
\* follows it has no NUL when the rest has none.
LEMMA LegalText ==
    ASSUME SizeKnown, NEW S, NEW text \in Seq(S), NEW i \in DOMAIN text, NEW a \in DOMAIN text,
           NEW b \in DOMAIN text, VerbAt(text, i), KeyAt(text, i, a, b),
           \A k \in (b + 1) .. Len(text) : text[k] # "nul"
    PROVE  Legal(text)
<1>1. ASSUME NEW k \in DOMAIN text PROVE text[k] # "nul"
  <2>1. \/ k \in 1 .. (i - 1) \/ k = i \/ k \in (i + 1) .. (a - 1)
        \/ k \in a .. b \/ k \in (b + 1) .. Len(text)
    OBVIOUS
  <2>2. k \in 1 .. (i - 1) \/ k \in (i + 1) .. (a - 1) => text[k] \in Space
    BY KeyFacts, Zenon DEF VerbAt, Gap, Blank
  <2>3. text[i] \in Word
    BY Zenon DEF VerbAt
  <2>4. k \in a .. b => text[k] # "nul"
    BY KeyFacts, Zenon
  <2> QED BY <2>1, <2>2, <2>3, <2>4, Symbols, Zenon
<1> QED BY <1>1, Zenon DEF Legal

\* GET and DEL.
LEMMA ReadKey ==
    ASSUME LeastNumber, SizeKnown, NEW S, NEW text \in Seq(S), NEW i \in DOMAIN text,
           VerbAt(text, i), text[i] \in {"GET", "DEL"},
           NEW a \in DOMAIN text, NEW b \in DOMAIN text, KeyAt(text, i, a, b),
           Blank(text, b + 1, Len(text))
    PROVE  ParseCommand(text) = [verb |-> text[i], key |-> SubSeq(text, a, b)]
<1>0. a \in 1 .. Len(text) /\ b \in 1 .. Len(text) /\ Len(text) \in Nat
  OBVIOUS
<1>1. /\ Gap(text, i + 1, a - 1) /\ a <= b /\ text[a] \notin Space /\ text[b] \notin Space
      /\ ValidKey(SubSeq(text, a, b))
  BY KeyFacts, Zenon
<1>2. SplitOnce(text).first = <<text[i]>> /\ SplitOnce(text).rest = SubSeq(text, a, b)
  BY <1>1, SplitVerb
<1>3. Core(text, a, b, a, b)
  <2>1. a .. (a - 1) = {} /\ (b + 1) .. b = {} /\ a <= a /\ b <= b
    BY <1>0
  <2> QED BY <1>1, <2>1, Zenon DEF Core, Blank
<1>4. a \in 1 .. (Len(text) + 1) /\ b \in (a - 1) .. Len(text) /\ a \in Int /\ b \in Int
  BY <1>0, <1>1
<1>5. \A k \in a .. b : text[k] \notin Separator
  BY KeyFacts, Zenon
<1>6. /\ SplitOnce(SubSeq(text, a, b)).first = SubSeq(text, a, b)
      /\ SplitOnce(SubSeq(text, a, b)).rest = <<>>
  BY <1>3, <1>4, <1>5, SplitNone, Zenon
<1>7. Legal(text)
  <2>1. \A k \in (b + 1) .. Len(text) : text[k] # "nul"
    BY Symbols, Zenon DEF Blank
  <2> QED BY <2>1, LegalText, Zenon
<1> DEFINE v == SubSeq(text, a, b)
<1> HIDE DEF v
<1>8. /\ SplitOnce(text).rest = v /\ SplitOnce(v).first = v /\ SplitOnce(v).rest = <<>>
      /\ ValidKey(v)
  BY <1>1, <1>2, <1>6, Zenon DEF v
<1>9. ParseCommand(text) = [verb |-> text[i], key |-> v]
  BY <1>2, <1>7, <1>8, ParseKey
<1> QED BY <1>9 DEF v

\* SET.
LEMMA ReadValue ==
    ASSUME LeastNumber, SizeKnown, NEW S, NEW text \in Seq(S), NEW i \in DOMAIN text,
           VerbAt(text, i), text[i] = "SET",
           NEW a \in DOMAIN text, NEW b \in DOMAIN text, KeyAt(text, i, a, b),
           NEW d \in DOMAIN text, NEW e \in DOMAIN text, ValueAt(text, b, d, e)
    PROVE  ParseCommand(text) =
             [verb |-> "SET", key |-> SubSeq(text, a, b), value |-> SubSeq(text, d, e)]
<1>0. /\ a \in 1 .. Len(text) /\ b \in 1 .. Len(text) /\ Len(text) \in Nat
      /\ d \in 1 .. Len(text) /\ e \in 1 .. Len(text)
  OBVIOUS
<1>1. /\ Gap(text, i + 1, a - 1) /\ a <= b /\ text[a] \notin Space /\ text[b] \notin Space
      /\ ValidKey(SubSeq(text, a, b))
  BY KeyFacts, Zenon
<1>2. /\ b + 1 <= d - 1 /\ text[b + 1] \in Separator /\ Blank(text, b + 1, d - 1)
      /\ d <= e /\ text[d] \notin Space /\ text[e] \notin Space
      /\ \A k \in d .. e : text[k] # "nul"
      /\ Blank(text, e + 1, Len(text))
  BY Zenon DEF ValueAt, Gap
<1>3. SplitOnce(text).first = <<text[i]>> /\ SplitOnce(text).rest = SubSeq(text, a, e)
  <2>1. a <= e
    BY <1>0, <1>1, <1>2, SMT, SMTT(30)
  <2> QED BY <1>1, <1>2, <2>1, SplitVerb
<1> DEFINE m == b + 1
<1>4. Cut(S, text, a, e, a, m, d, e)
  <2>1. /\ a \in 1 .. (Len(text) + 1) /\ e \in (a - 1) .. Len(text) /\ a \in Int /\ e \in Int
        /\ m \in a .. e /\ d \in Int
    BY <1>0, <1>1, <1>2, SMT, SMTT(20)
  <2>2. a .. (a - 1) = {} /\ (e + 1) .. e = {} /\ a <= a /\ e <= e /\ a <= e
    BY <1>0, <1>1, <1>2, SMT, SMTT(20)
  <2>3. Core(text, a, e, a, e)
    BY <1>1, <1>2, <2>2, Zenon DEF Core, Blank
  <2>4. text[m] \in Separator
    BY <1>2
  <2>5. \A k \in a .. (m - 1) : text[k] \notin Separator
    <3>1. m - 1 = b
      BY <1>0
    <3> QED BY <3>1, KeyFacts, Zenon
  <2>6. m + 1 <= d /\ \A k \in (m + 1) .. (d - 1) : k \in (b + 1) .. (d - 1)
    BY <1>0, <1>2, SMT, SMTT(30)
  <2> HIDE DEF m
  <2>7. Core(text, m + 1, e, d, e)
    BY <1>2, <2>2, <2>6, Zenon DEF Core, Blank
  <2> QED BY <2>1, <2>3, <2>4, <2>5, <2>7, Zenon DEF Cut
<1>5. m - 1 = b
  BY <1>0
<1> HIDE DEF m
<1> DEFINE v == SubSeq(text, a, e)
           key == SubSeq(text, a, b)
           value == SubSeq(text, d, e)
<1>6. SplitOnce(v).first = key /\ SplitOnce(v).rest = value
  BY <1>4, <1>5, SplitSome DEF CutGives
<1>7. value # <<>>
  <2>1. d \in 1 .. (Len(text) + 1) /\ e \in (d - 1) .. Len(text) /\ e - d + 1 # 0
    BY <1>0, <1>2, SMT, SMTT(20)
  <2>2. Len(value) # 0
    BY <2>1, View, SMT, SMTT(30)
  <2> HIDE DEF value
  <2> QED BY <2>2
<1>8. Legal(text)
  <2>1. ASSUME NEW k \in (b + 1) .. Len(text) PROVE text[k] # "nul"
    <3>1. k \in (b + 1) .. (d - 1) \/ k \in d .. e \/ k \in (e + 1) .. Len(text)
      BY <1>0, <1>2, SMT, SMTT(30)
    <3> QED BY <1>2, <3>1, Symbols, Zenon DEF Blank
  <2> QED BY <2>1, LegalText, Zenon
<1>9. SplitOnce(text).rest = v /\ ValidKey(key) /\ SplitOnce(text).first = <<"SET">>
  BY <1>1, <1>3
<1> HIDE DEF v, key, value
<1>10. ParseCommand(text) = [verb |-> "SET", key |-> key, value |-> value]
  BY <1>6, <1>7, <1>8, <1>9, ParseValue
<1> QED BY <1>10 DEF key, value

-----------------------------------------------------------------------------
(* Every text that is read as a command is a sentence for it.              *)

\* White space has no first part.
LEMMA SplitBlank ==
    ASSUME NEW S, NEW text \in Seq(S), Blank(text, 1, Len(text))
    PROVE  SplitOnce(text).first = <<>>
<1>1. 1 \in 1 .. (Len(text) + 1) /\ Len(text) \in (1 - 1) .. Len(text)
  OBVIOUS
<1>2. Trim(SubSeq(text, 1, Len(text))) = <<>>
  BY <1>1, TrimBlank
<1>3. Trim(text) = <<>>
  BY <1>2, WholeView, Zenon
<1>4. DOMAIN <<>> = {}
  OBVIOUS
<1>5. SplitOnce(text) = [first |-> <<>>, rest |-> <<>>]
  BY <1>3, <1>4, Zenon DEF SplitOnce
<1> QED BY <1>5

\* A separator in a part: the part is cut at the first one.
LEMMA HasCut ==
    ASSUME LeastNumber,
           NEW S, NEW text \in Seq(S), NEW p \in 1 .. (Len(text) + 1), NEW q \in (p - 1) .. Len(text),
           NEW l \in Int, NEW r \in Int, Core(text, p, q, l, r),
           ~ \A k \in l .. r : text[k] \notin Separator
    PROVE  \E m, n \in (l + 1) .. r : m < n /\ m < r /\ Cut(S, text, p, q, l, m, n, r)
<1> DEFINE T == {k \in l .. r : text[k] \in Separator}
<1>0. /\ Len(text) \in Nat /\ p <= l /\ l <= r /\ r <= q
      /\ text[l] \notin Space /\ text[r] \notin Space
  BY DEF Core
<1>1. T # {} /\ T \in SUBSET Nat
  BY <1>0
<1>2. PICK m \in T : \A k \in T : m <= k
  BY <1>1, Zenon DEF LeastNumber
<1>3. m \in l .. r /\ text[m] \in Separator /\ text[m] \in Space
  BY Symbols
<1>4. l + 1 <= m /\ m + 1 <= r
  <2>1. m # l /\ m # r
    BY <1>0, <1>3
  <2> QED BY <1>0, <1>3, <2>1
<1>5. ASSUME NEW k \in l .. (m - 1) PROVE text[k] \notin Separator
  <2>1. k \in l .. r /\ ~ (m <= k)
    BY <1>0, <1>3
  <2> QED BY <1>2, <2>1
<1> DEFINE x == m + 1
<1>6. x \in 1 .. (Len(text) + 1) /\ r \in (x - 1) .. Len(text) /\ r \in x .. r
  BY <1>0, <1>3, <1>4
<1> HIDE DEF T, x
<1>7. ~ Blank(text, x, r)
  BY <1>0, <1>6, Zenon DEF Blank
<1>8. PICK n, s \in x .. r : Core(text, x, r, n, s)
  BY <1>6, <1>7, HasCore
<1>9. s = r
  <2>1. s <= r /\ Blank(text, s + 1, r)
    BY <1>8, Zenon DEF Core
  <2>2. ~ (r \in (s + 1) .. r)
    BY <1>0, <2>1, Zenon DEF Blank
  <2>3. x \in Int
    BY <1>3 DEF x
  <2> QED BY <2>1, <2>2, <2>3
<1>10. Cut(S, text, p, q, l, m, n, r)
  <2>1. n \in Int /\ Core(text, m + 1, r, n, r)
    BY <1>3, <1>8, <1>9 DEF x
  <2> QED BY <1>3, <1>5, <2>1, Zenon DEF Cut
<1>11. m \in (l + 1) .. r /\ n \in (l + 1) .. r /\ m < n /\ m < r
  BY <1>0, <1>3, <1>4, <1>8 DEF x
<1> QED BY <1>10, <1>11, Zenon

\* A part that is one given symbol.
LEMMA PartIsOne ==
    ASSUME NEW S, NEW text \in Seq(S), NEW i \in DOMAIN text, NEW j \in (i - 1) .. Len(text), NEW w,
           SubSeq(text, i, j) = <<w>>
    PROVE  j = i /\ text[i] = w
<1>1. i \in 1 .. (Len(text) + 1) /\ i \in Int /\ j \in Int
  OBVIOUS
<1>2. Len(SubSeq(text, i, j)) = j - i + 1
  BY <1>1, View, Zenon
<1>3. Len(<<w>>) = 1
  OBVIOUS
<1>4. j = i
  BY <1>1, <1>2, <1>3
<1>5. <<w>> = <<text[i]>>
  BY <1>4, OneSymbol
<1> QED BY <1>4, <1>5

\* What ValidKey says of a part.
LEMMA KeyPartAt ==
    ASSUME NEW S, NEW text \in Seq(S), NEW a \in DOMAIN text, NEW b \in DOMAIN text, a <= b,
           ValidKey(SubSeq(text, a, b)), NEW i, Gap(text, i + 1, a - 1)
    PROVE  KeyAt(text, i, a, b)
<1>1. a \in 1 .. (Len(text) + 1) /\ b \in (a - 1) .. Len(text)
  OBVIOUS
<1> DEFINE v == SubSeq(text, a, b)
<1>2. DOMAIN v = 1 .. (b - a + 1) /\ \A k \in 1 .. (b - a + 1) : v[k] = text[a + k - 1]
  BY <1>1, View
<1>3. Size(v) \in 1 .. MaxKey /\ \A k \in DOMAIN v : v[k] \in KeyPart
  BY Zenon DEF ValidKey
<1>4. Size(v) <= MaxKey
  BY <1>3, CommandsAssumption
<1> HIDE DEF v
<1>5. ASSUME NEW k \in a .. b PROVE text[k] \in KeyPart
  <2>1. k - a + 1 \in 1 .. (b - a + 1) /\ a + (k - a + 1) - 1 = k
    BY <1>1
  <2>2. v[k - a + 1] = text[a + (k - a + 1) - 1]
    BY <1>2, <2>1, Zenon
  <2> QED BY <1>2, <1>3, <2>1, <2>2
<1> QED BY <1>4, <1>5, Zenon DEF KeyAt, v

\* Where the parts lie in a text that is a sentence for command c.
Means(text, c) ==
    \E i \in DOMAIN text :
        /\ VerbAt(text, i)
        /\ \/ /\ text[i] \in {"PING", "STATS"} /\ Blank(text, i + 1, Len(text))
              /\ c = [verb |-> text[i]]
           \/ \E a, b \in DOMAIN text :
                /\ KeyAt(text, i, a, b)
                /\ text[i] \in {"GET", "DEL"} /\ Blank(text, b + 1, Len(text))
                /\ c = [verb |-> text[i], key |-> SubSeq(text, a, b)]
           \/ \E a, b, d, e \in DOMAIN text :
                /\ KeyAt(text, i, a, b)
                /\ text[i] = "SET" /\ ValueAt(text, b, d, e)
                /\ c = [verb |-> "SET", key |-> SubSeq(text, a, b), value |-> SubSeq(text, d, e)]

\* The text has a verb at l and ends at r, and is cut into them at m and n.
LEMMA UnderstoodArguments ==
    ASSUME LeastNumber, SizeKnown, NEW S, NEW text \in Seq(S), ParseCommand(text) # NoCommand,
           NEW l \in DOMAIN text, NEW r \in DOMAIN text, Core(text, 1, Len(text), l, r),
           NEW m, NEW n, m \in (l + 1) .. r, n \in (l + 1) .. r, m < n, m < r,
           Cut(S, text, 1, Len(text), l, m, n, r)
    PROVE  Means(text, ParseCommand(text))
<1> DEFINE c == ParseCommand(text)
           v == SubSeq(text, n, r)
           key == SplitOnce(v).first
           rest == SplitOnce(v).rest
<1>0. /\ l \in 1 .. Len(text) /\ r \in 1 .. Len(text) /\ Len(text) \in Nat
      /\ m \in Int /\ n \in Int /\ n \in DOMAIN text /\ n <= r
  OBVIOUS
<1>1. SplitOnce(text).first = SubSeq(text, l, m - 1) /\ SplitOnce(text).rest = v
  <2>1. /\ SplitOnce(SubSeq(text, 1, Len(text))).first = SubSeq(text, l, m - 1)
        /\ SplitOnce(SubSeq(text, 1, Len(text))).rest = SubSeq(text, n, r)
    <3>1. CutGives(text, 1, Len(text), l, m, n, r)
      BY SplitSome
    <3> QED BY <3>1, Zenon DEF CutGives
  <2> QED BY <2>1, WholeView, Zenon
<1>2. v # <<>>
  <2>1. n \in 1 .. (Len(text) + 1) /\ r \in (n - 1) .. Len(text) /\ r - n + 1 # 0
    BY <1>0
  <2>2. Len(v) # 0
    BY <2>1, View
  <2> HIDE DEF v
  <2> QED BY <2>2
<1>3. /\ Legal(text)
      /\ \/ \E w \in {"GET", "DEL"} :
              /\ SplitOnce(text).first = <<w>> /\ ValidKey(key) /\ rest = <<>>
              /\ c = [verb |-> w, key |-> key]
         \/ /\ SplitOnce(text).first = <<"SET">> /\ ValidKey(key) /\ rest # <<>>
            /\ c = [verb |-> "SET", key |-> key, value |-> rest]
  <2> HIDE DEF v
  <2> QED BY <1>1, <1>2, ParseCases, Zenon
<1>4. PICK w \in {"GET", "DEL", "SET"} :
         /\ SplitOnce(text).first = <<w>> /\ ValidKey(key)
         /\ \/ w \in {"GET", "DEL"} /\ rest = <<>> /\ c = [verb |-> w, key |-> key]
            \/ w = "SET" /\ rest # <<>> /\ c = [verb |-> "SET", key |-> key, value |-> rest]
  BY <1>3, Zenon
<1>5. m - 1 = l /\ text[l] = w
  <2> DEFINE h == m - 1
  <2>1. h \in (l - 1) .. Len(text)
    BY <1>0
  <2>3. SubSeq(text, l, h) = <<w>>
    BY <1>1, <1>4, Zenon
  <2> HIDE DEF h
  <2>2. h = l /\ text[l] = w
    BY <2>1, <2>3, PartIsOne, SMT, SMTT(30)
  <2> QED BY <2>2 DEF h
<1>6. VerbAt(text, l)
  <2>1. w \in Word
    BY Zenon DEF Word
  <2> QED BY <1>5, <2>1, Zenon DEF VerbAt, Core
<1>7. /\ text[m] \in Separator /\ Core(text, m + 1, r, n, r)
  BY Zenon DEF Cut
<1>8. /\ text[n] \notin Space /\ text[r] \notin Space /\ Blank(text, m + 1, n - 1)
      /\ Blank(text, r + 1, Len(text))
  BY <1>7, Zenon DEF Core
<1>9. Gap(text, l + 1, n - 1)
  <2>1. m = l + 1
    BY <1>0, <1>5
  <2>2. text[m] \in Space
    BY <1>7, Symbols, Zenon
  <2>3. ASSUME NEW k \in m .. (n - 1) PROVE text[k] \in Space
    <3>1. k = m \/ k \in (m + 1) .. (n - 1)
      BY <1>0
    <3> QED BY <1>8, <2>2, <3>1, Zenon DEF Blank
  <2>4. m <= n - 1
    BY <1>0
  <2>5. Gap(text, m, n - 1)
    BY <1>7, <2>3, <2>4, Zenon DEF Gap, Blank
  <2> QED BY <2>1, <2>5
<1>10. Core(text, n, r, n, r)
  <2>1. n .. (n - 1) = {} /\ (r + 1) .. r = {} /\ n <= n /\ r <= r
    BY <1>0
  <2> QED BY <1>0, <1>8, <2>1, Zenon DEF Core, Blank
<1>11. n \in 1 .. (Len(text) + 1) /\ r \in (n - 1) .. Len(text) /\ n \in Int /\ r \in Int
  BY <1>0
<1> HIDE DEF c
<1>12. CASE \A k \in n .. r : text[k] \notin Separator
  <2>1. key = v /\ rest = <<>>
    BY <1>10, <1>11, <1>12, SplitNone, SMT, SMTT(30)
  <2>2. KeyAt(text, l, n, r)
    <3>1. ValidKey(SubSeq(text, n, r))
      BY <1>4, <2>1
    <3> QED BY <1>0, <1>9, <3>1, KeyPartAt
  <2> HIDE DEF key, rest
  <2>3. w \in {"GET", "DEL"} /\ c = [verb |-> w, key |-> SubSeq(text, n, r)]
    BY <1>4, <2>1, Zenon
  <2> QED BY <1>0, <1>5, <1>6, <1>8, <2>2, <2>3, Zenon DEF Means, c
<1>13. CASE ~ \A k \in n .. r : text[k] \notin Separator
  <2>1. PICK x, y \in (n + 1) .. r : x < y /\ x < r /\ Cut(S, text, n, r, n, x, y, r)
    BY <1>10, <1>11, <1>13, HasCut, SMT, SMTT(30)
  <2> DEFINE b == x - 1
  <2>2. b \in DOMAIN text /\ y \in DOMAIN text /\ n <= b /\ b + 1 = x /\ x <= y - 1 /\ y <= r
    BY <1>0, <2>1
  <2>3. key = SubSeq(text, n, b) /\ rest = SubSeq(text, y, r)
    <3>1. Cut(S, text, n, r, n, x, y, r)
      BY <2>1
    <3>2. /\ SplitOnce(SubSeq(text, n, r)).first = SubSeq(text, n, x - 1)
          /\ SplitOnce(SubSeq(text, n, r)).rest = SubSeq(text, y, r)
      <4>1. CutGives(text, n, r, n, x, y, r)
        BY <3>1, SplitSome
      <4> QED BY <4>1, Zenon DEF CutGives
    <3> QED BY <3>2
  <2> HIDE DEF key, rest, b
  <2>4. KeyAt(text, l, n, b)
    <3>1. ValidKey(SubSeq(text, n, b))
      BY <1>4, <2>3
    <3> QED BY <1>0, <1>9, <2>2, <3>1, KeyPartAt, SMT, SMTT(20)
  <2>5. rest # <<>>
    <3>1. y \in 1 .. (Len(text) + 1) /\ r \in (y - 1) .. Len(text) /\ r - y + 1 # 0
      BY <1>0, <2>2, SMT, SMTT(30)
    <3>2. Len(SubSeq(text, y, r)) # 0
      BY <3>1, View
    <3>3. Len(rest) # 0
      BY <2>3, <3>2
    <3> QED BY <3>3
  <2>6. w = "SET" /\ c = [verb |-> "SET", key |-> SubSeq(text, n, b), value |-> SubSeq(text, y, r)]
    BY <1>4, <2>3, <2>5, Zenon
  <2>7. /\ text[x] \in Separator /\ Core(text, x + 1, r, y, r)
    BY <2>1, Zenon DEF Cut
  <2>8. text[y] \notin Space /\ Blank(text, x + 1, y - 1)
    BY <2>7, Zenon DEF Core
  <2>9. Gap(text, b + 1, y - 1)
    <3>1. text[x] \in Space
      BY <2>7, Symbols, Zenon
    <3>2. ASSUME NEW k \in x .. (y - 1) PROVE text[k] \in Space
      <4>1. k = x \/ k \in (x + 1) .. (y - 1)
        BY <1>0, <2>1
      <4> QED BY <2>8, <3>1, <4>1, Zenon DEF Blank
    <3>3. Gap(text, x, y - 1)
      BY <2>2, <2>7, <3>2, Zenon DEF Gap, Blank
    <3> QED BY <2>2, <3>3
  <2>10. \A k \in y .. r : text[k] # "nul"
    <3>1. \A k \in y .. r : k \in DOMAIN text
      BY <1>0, <2>2, SMT, SMTT(40)
    <3> QED BY <1>3, <3>1, Zenon DEF Legal
  <2>11. ValueAt(text, b, y, r)
    BY <1>8, <2>2, <2>8, <2>9, <2>10, Zenon DEF ValueAt
  <2> QED BY <1>0, <1>5, <1>6, <2>2, <2>4, <2>6, <2>11, Zenon DEF Means, c
<1> QED BY <1>12, <1>13, Zenon

\* A text that the parser accepts is a sentence for the command it gives.
LEMMA Understood ==
    ASSUME LeastNumber, SizeKnown, NEW S, NEW text \in Seq(S), ParseCommand(text) # NoCommand
    PROVE  Means(text, ParseCommand(text))
<1> DEFINE c == ParseCommand(text)
           p == 1
           q == Len(text)
<1>0. q \in Nat /\ p \in 1 .. (Len(text) + 1) /\ q \in (p - 1) .. Len(text) /\ p .. q = DOMAIN text
  OBVIOUS
<1>1. SplitOnce(text).first # <<>>
  <2>1. \A w : <<w>> # <<>>
    OBVIOUS
  <2>2. \E w : SplitOnce(text).first = <<w>>
    BY ParseCases, Zenon
  <2> QED BY <2>1, <2>2, Zenon
<1>2. ~ Blank(text, 1, Len(text))
  BY <1>1, SplitBlank
<1>3. PICK l, r \in DOMAIN text : Core(text, p, q, l, r)
  <2>1. ~ Blank(text, p, q)
    BY <1>2
  <2> HIDE DEF p, q
  <2> QED BY <1>0, <2>1, HasCore, Zenon
<1>4. l \in Int /\ r \in Int /\ l <= r /\ r <= Len(text)
  BY <1>3 DEF Core
<1>5. CASE ~ \A k \in l .. r : text[k] \notin Separator
  <2>1. \E m, n \in (l + 1) .. r : m < n /\ m < r /\ Cut(S, text, p, q, l, m, n, r)
    <3> HIDE DEF p, q
    <3> QED BY <1>0, <1>3, <1>4, <1>5, HasCut, SMT, SMTT(30)
  <2> QED BY <1>3, <2>1, UnderstoodArguments
<1>6. CASE \A k \in l .. r : text[k] \notin Separator
  <2>1. SplitOnce(SubSeq(text, p, q)).first = SubSeq(text, l, r) /\ SplitOnce(SubSeq(text, p, q)).rest = <<>>
    <3> HIDE DEF p, q
    <3> QED BY <1>0, <1>3, <1>4, <1>6, SplitNone, SMT, SMTT(30)
  <2>2. SplitOnce(text).first = SubSeq(text, l, r) /\ SplitOnce(text).rest = <<>>
    BY <2>1, WholeView, Zenon
  <2>3. ~ ValidKey(SplitOnce(<<>>).first)
    <3>1. Size(<<>>) = 0
      BY Zenon DEF SizeKnown
    <3>2. Size(<<>>) \notin 1 .. MaxKey
      BY <3>1, CommandsAssumption
    <3> QED BY <3>2, SplitEmpty, Zenon DEF ValidKey
  <2>4. PICK w \in {"PING", "STATS"} : SplitOnce(text).first = <<w>> /\ c = [verb |-> w]
    BY <2>2, <2>3, ParseCases, Zenon
  <2>5. r \in (l - 1) .. Len(text) /\ SubSeq(text, l, r) = <<w>>
    BY <1>3, <1>4, <2>2, <2>4
  <2>6. r = l /\ text[l] = w
    BY <1>3, <2>5, PartIsOne
  <2>7. VerbAt(text, l) /\ Blank(text, l + 1, Len(text))
    <3>1. w \in Word
      BY Zenon DEF Word
    <3> QED BY <1>3, <2>6, <3>1, Zenon DEF VerbAt, Core
  <2> QED BY <1>3, <2>4, <2>6, <2>7, Zenon DEF Means
<1> QED BY <1>5, <1>6, Zenon

\* The grammar says the same as Means.
LEMMA MeaningsAre ==
    ASSUME NEW text, NEW c
    PROVE  c \in Meanings(text) <=> Means(text, c)
<1>1. ASSUME NEW i PROVE
        c \in Alone(text, i) <=>
            text[i] \in {"PING", "STATS"} /\ Blank(text, i + 1, Len(text)) /\ c = [verb |-> text[i]]
  BY Zenon DEF Alone
<1>2. ASSUME NEW i PROVE
        c \in WithKey(text, i) <=>
            \E a, b \in DOMAIN text :
                /\ KeyAt(text, i, a, b)
                /\ text[i] \in {"GET", "DEL"} /\ Blank(text, b + 1, Len(text))
                /\ c = [verb |-> text[i], key |-> SubSeq(text, a, b)]
  <2>1. ASSUME NEW a \in DOMAIN text, NEW b \in DOMAIN text, KeyAt(text, i, a, b),
               text[i] \in {"GET", "DEL"}, Blank(text, b + 1, Len(text)),
               c = [verb |-> text[i], key |-> SubSeq(text, a, b)]
        PROVE  c \in WithKey(text, i)
    <3>1. <<a, b>> \in Keys(text, i) /\ <<a, b>>[1] = a /\ <<a, b>>[2] = b
      BY <2>1 DEF Keys, Places
    <3> QED BY <2>1, <3>1, Zenon DEF WithKey
  <2>2. ASSUME c \in WithKey(text, i)
        PROVE  \E a, b \in DOMAIN text :
                /\ KeyAt(text, i, a, b)
                /\ text[i] \in {"GET", "DEL"} /\ Blank(text, b + 1, Len(text))
                /\ c = [verb |-> text[i], key |-> SubSeq(text, a, b)]
    <3>1. PICK p \in Keys(text, i) :
             /\ text[i] \in {"GET", "DEL"} /\ Blank(text, p[2] + 1, Len(text))
             /\ c = [verb |-> text[i], key |-> SubSeq(text, p[1], p[2])]
      BY <2>2, Zenon DEF WithKey
    <3>2. p[1] \in DOMAIN text /\ p[2] \in DOMAIN text /\ KeyAt(text, i, p[1], p[2])
      BY <3>1 DEF Keys, Places
    <3> QED BY <3>1, <3>2, Zenon
  <2> QED BY <2>1, <2>2, Zenon
<1>3. ASSUME NEW i PROVE
        c \in WithValue(text, i) <=>
            \E a, b, d, e \in DOMAIN text :
                /\ KeyAt(text, i, a, b)
                /\ text[i] = "SET" /\ ValueAt(text, b, d, e)
                /\ c = [verb |-> "SET", key |-> SubSeq(text, a, b), value |-> SubSeq(text, d, e)]
  <2>1. ASSUME NEW a \in DOMAIN text, NEW b \in DOMAIN text, NEW d \in DOMAIN text,
               NEW e \in DOMAIN text, KeyAt(text, i, a, b), text[i] = "SET", ValueAt(text, b, d, e),
               c = [verb |-> "SET", key |-> SubSeq(text, a, b), value |-> SubSeq(text, d, e)]
        PROVE  c \in WithValue(text, i)
    <3>1. <<a, b>> \in Keys(text, i) /\ <<a, b>>[1] = a /\ <<a, b>>[2] = b
      BY <2>1 DEF Keys, Places
    <3>2. <<d, e>> \in Values(text, b) /\ <<d, e>>[1] = d /\ <<d, e>>[2] = e
      BY <2>1 DEF Values, Places
    <3>3. PICK p \in Keys(text, i) : p[1] = a /\ p[2] = b
      BY <3>1, Zenon
    <3>4. PICK q \in Values(text, p[2]) : q[1] = d /\ q[2] = e
      BY <3>2, <3>3, Zenon
    <3>5. c = [verb |-> "SET", key |-> SubSeq(text, p[1], p[2]), value |-> SubSeq(text, q[1], q[2])]
      BY <2>1, <3>3, <3>4
    <3>6. p \in {x \in Keys(text, i) : text[i] = "SET"}
      BY <2>1, Zenon
    <3> DEFINE F(x) == {[verb |-> "SET", key |-> SubSeq(text, x[1], x[2]),
                         value |-> SubSeq(text, y[1], y[2])] : y \in Values(text, x[2])}
    <3>7. c \in F(p)
      BY <3>5, Zenon
    <3>8. WithValue(text, i) = UNION {F(x) : x \in {x \in Keys(text, i) : text[i] = "SET"}}
      BY DEF WithValue
    <3> HIDE DEF F
    <3> QED BY <3>6, <3>7, <3>8, Zenon
  <2>2. ASSUME c \in WithValue(text, i)
        PROVE  \E a, b, d, e \in DOMAIN text :
                /\ KeyAt(text, i, a, b)
                /\ text[i] = "SET" /\ ValueAt(text, b, d, e)
                /\ c = [verb |-> "SET", key |-> SubSeq(text, a, b), value |-> SubSeq(text, d, e)]
    <3>1. PICK p \in Keys(text, i) : text[i] = "SET" /\ \E q \in Values(text, p[2]) :
             c = [verb |-> "SET", key |-> SubSeq(text, p[1], p[2]),
                  value |-> SubSeq(text, q[1], q[2])]
      BY <2>2, Zenon DEF WithValue
    <3>2. PICK q \in Values(text, p[2]) :
             c = [verb |-> "SET", key |-> SubSeq(text, p[1], p[2]),
                  value |-> SubSeq(text, q[1], q[2])]
      BY <3>1, Zenon
    <3>3. p[1] \in DOMAIN text /\ p[2] \in DOMAIN text /\ KeyAt(text, i, p[1], p[2])
      BY <3>1 DEF Keys, Places
    <3>4. q[1] \in DOMAIN text /\ q[2] \in DOMAIN text /\ ValueAt(text, p[2], q[1], q[2])
      BY <3>2 DEF Values, Places
    <3> QED BY <3>1, <3>2, <3>3, <3>4, Zenon
  <2> QED BY <2>1, <2>2, Zenon
<1>4. c \in Meanings(text) <=>
        \E i \in DOMAIN text : /\ VerbAt(text, i)
                               /\ \/ c \in Alone(text, i) \/ c \in WithKey(text, i)
                                  \/ c \in WithValue(text, i)
  BY ZenonT(40) DEF Meanings
<1> QED BY <1>1, <1>2, <1>3, <1>4, Zenon DEF Means

\* The parser gives the one meaning of a text that has any.
LEMMA MeansOne ==
    ASSUME LeastNumber, SizeKnown, NEW S, NEW text \in Seq(S), NEW c, Means(text, c)
    PROVE  c = ParseCommand(text) /\ c # NoCommand
<1>1. PICK i \in DOMAIN text :
        /\ VerbAt(text, i)
        /\ \/ /\ text[i] \in {"PING", "STATS"} /\ Blank(text, i + 1, Len(text))
              /\ c = [verb |-> text[i]]
           \/ \E a, b \in DOMAIN text :
                /\ KeyAt(text, i, a, b)
                /\ text[i] \in {"GET", "DEL"} /\ Blank(text, b + 1, Len(text))
                /\ c = [verb |-> text[i], key |-> SubSeq(text, a, b)]
           \/ \E a, b, d, e \in DOMAIN text :
                /\ KeyAt(text, i, a, b)
                /\ text[i] = "SET" /\ ValueAt(text, b, d, e)
                /\ c = [verb |-> "SET", key |-> SubSeq(text, a, b), value |-> SubSeq(text, d, e)]
  BY Zenon DEF Means
<1>0. VerbAt(text, i)
  BY <1>1, Zenon
<1>2. c = ParseCommand(text)
  <2>1. CASE /\ text[i] \in {"PING", "STATS"} /\ Blank(text, i + 1, Len(text))
             /\ c = [verb |-> text[i]]
    BY <1>0, <2>1, ReadAlone
  <2>2. ASSUME NEW a \in DOMAIN text, NEW b \in DOMAIN text, KeyAt(text, i, a, b),
               text[i] \in {"GET", "DEL"}, Blank(text, b + 1, Len(text)),
               c = [verb |-> text[i], key |-> SubSeq(text, a, b)]
        PROVE  c = ParseCommand(text)
    <3>1. ParseCommand(text) = [verb |-> text[i], key |-> SubSeq(text, a, b)]
      BY <1>0, <2>2, ReadKey
    <3> QED BY <2>2, <3>1, Zenon
  <2>3. ASSUME NEW a \in DOMAIN text, NEW b \in DOMAIN text, NEW d \in DOMAIN text,
               NEW e \in DOMAIN text, KeyAt(text, i, a, b), text[i] = "SET", ValueAt(text, b, d, e),
               c = [verb |-> "SET", key |-> SubSeq(text, a, b), value |-> SubSeq(text, d, e)]
        PROVE  c = ParseCommand(text)
    <3>1. ParseCommand(text) =
            [verb |-> "SET", key |-> SubSeq(text, a, b), value |-> SubSeq(text, d, e)]
      BY <1>0, <2>3, ReadValue, SMT, SMTT(30)
    <3> QED BY <2>3, <3>1, Zenon
  <2> QED BY <1>1, <2>1, <2>2, <2>3, Zenon
<1>3. c.verb # "error"
  BY <1>1
<1> QED BY <1>2, <1>3 DEF NoCommand

-----------------------------------------------------------------------------
(* Records.                                                                *)

\* Two texts together.
LEMMA Concat ==
    ASSUME NEW S, NEW a \in Seq(S), NEW b \in Seq(S)
    PROVE  /\ a \o b \in Seq(S)
           /\ Len(a \o b) = Len(a) + Len(b)
           /\ \A i \in 1 .. Len(a) : (a \o b)[i] = a[i]
           /\ \A i \in 1 .. Len(b) : (a \o b)[Len(a) + i] = b[i]
<1>1. a \o b \in Seq(S)
  OBVIOUS
<1>2. Len(a \o b) = Len(a) + Len(b)
  OBVIOUS
<1>3. \A i \in 1 .. Len(a) : (a \o b)[i] = a[i]
  OBVIOUS
<1>4. \A i \in 1 .. Len(b) : (a \o b)[Len(a) + i] = b[i]
  OBVIOUS
<1> QED BY <1>1, <1>2, <1>3, <1>4

\* The front of a record, a word and a key, and what follows it.
Joined(t, w, key, rest) == t = (<<w, " ">> \o key) \o rest

\* What that looks like.
Shaped(S, t, w, key, rest) ==
    /\ t \in Seq(S) /\ Len(t) = 2 + Len(key) + Len(rest)
    /\ t[1] = w /\ t[2] = " "
    /\ \A k \in 1 .. Len(key) : t[2 + k] = key[k]
    /\ \A k \in 1 .. Len(rest) : t[2 + Len(key) + k] = rest[k]
    /\ Size(t) = Size(<<w>>) + 1 + Size(key) + Size(rest)

\* What is where in a record, and how long it is.
LEMMA RecordShape ==
    ASSUME SizeKnown, NEW S, NEW w \in S, Separator \subseteq S, NEW key \in Seq(S), NEW rest \in Seq(S), NEW t,
           Joined(t, w, key, rest)
    PROVE  Shaped(S, t, w, key, rest)
<1>0. PICK x \in S : x = " "
  BY Zenon DEF Separator
<1> DEFINE h == <<w, x>>
           f == h \o key
<1>1. h \in Seq(S) /\ Len(h) = 2 /\ h[1] = w /\ h[2] = x
  OBVIOUS
<1>2. <<w>> \in Seq(S) /\ <<x>> \in Seq(S) /\ h = <<w>> \o <<x>>
  OBVIOUS
<1>3. Size(<<w>> \o <<x>>) = Size(<<w>>) + Size(<<x>>)
  BY <1>2, Zenon DEF SizeKnown
<1>18. Size(<<x>>) = 1
  BY <1>0, Zenon DEF SizeKnown
<1>4. Size(h) = Size(<<w>>) + 1
  BY <1>2, <1>3, <1>18, Zenon
<1> HIDE DEF h
<1>19. /\ f \in Seq(S) /\ Len(f) = Len(h) + Len(key)
       /\ \A k \in 1 .. Len(h) : f[k] = h[k]
       /\ \A k \in 1 .. Len(key) : f[Len(h) + k] = key[k]
  <2>1. h \in Seq(S)
    BY <1>1
  <2> QED BY <2>1, Concat
<1>5. f \in Seq(S) /\ Len(f) = 2 + Len(key)
  BY <1>1, <1>19
<1>15. /\ \A k \in 1 .. 2 : f[k] = h[k]
       /\ \A k \in 1 .. Len(key) : f[2 + k] = key[k]
  BY <1>1, <1>19
<1>6. Size(f) = Size(h) + Size(key)
  BY <1>1, Zenon DEF SizeKnown
<1> HIDE DEF f
<1>7. t = f \o rest
  BY <1>0, Zenon DEF f, h, Joined
<1>8. t \in Seq(S) /\ Len(t) = Len(f) + Len(rest)
  BY <1>5, <1>7, Concat, Zenon
<1>16. /\ \A k \in 1 .. Len(f) : t[k] = f[k]
      /\ \A k \in 1 .. Len(rest) : t[Len(f) + k] = rest[k]
  BY <1>5, <1>7, Concat, SMT, SMTT(30)
<1>9. Size(t) = Size(f) + Size(rest)
  BY <1>5, <1>7, Zenon DEF SizeKnown
<1>10. Size(t) = Size(<<w>>) + 1 + Size(key) + Size(rest)
  BY <1>4, <1>6, <1>9
<1>11. Len(key) \in Nat /\ Len(rest) \in Nat
  OBVIOUS
<1>12. t[1] = w /\ t[2] = x
  <2>1. 1 \in 1 .. 2 /\ 2 \in 1 .. 2 /\ 1 \in 1 .. Len(f) /\ 2 \in 1 .. Len(f)
    BY <1>5, <1>11
  <2>2. f[1] = w /\ f[2] = x
    BY <1>1, <1>15, <2>1
  <2> QED BY <1>16, <2>1, <2>2
<1>13. ASSUME NEW k \in 1 .. Len(key) PROVE t[2 + k] = key[k]
  <2>1. 2 + k \in 1 .. Len(f)
    BY <1>5, <1>11
  <2> QED BY <1>15, <1>16, <2>1, Zenon
<1>14. ASSUME NEW k \in 1 .. Len(rest) PROVE t[2 + Len(key) + k] = rest[k]
  BY <1>5, <1>16
<1>17. t \in Seq(S) /\ Len(t) = 2 + Len(key) + Len(rest)
  BY <1>5, <1>8, <1>11
<1> QED BY <1>0, <1>10, <1>12, <1>13, <1>14, <1>17, Zenon DEF Shaped

\* A text begins with a word, a separator and a key.
Begins(t, w, key) ==
    /\ Len(t) >= 2 + Len(key) /\ t[1] = w /\ t[2] = " "
    /\ \A k \in 1 .. Len(key) : t[2 + k] = key[k]

\* and the grammar finds them there.
KeyRead(t, key, b) ==
    /\ 1 \in DOMAIN t /\ 3 \in DOMAIN t /\ b \in DOMAIN t
    /\ VerbAt(t, 1) /\ KeyAt(t, 1, 3, b) /\ SubSeq(t, 3, b) = key

\* Its word and its key are where the grammar wants them.
LEMMA RecordKey ==
    ASSUME NEW S, NEW w \in Word, NEW key \in Seq(S), ValidKey(key), SizeKnown,
           NEW t \in Seq(S), Begins(t, w, key)
    PROVE  KeyRead(t, key, 2 + Len(key))
<1>1. Size(key) \in 1 .. MaxKey /\ \A k \in DOMAIN key : key[k] \in KeyPart
  BY Zenon DEF ValidKey
<1>2. Len(key) \in Nat /\ Len(key) # 0
  <2>1. Size(<<>>) = 0
    BY Zenon DEF SizeKnown
  <2>2. Size(<<>>) \notin 1 .. MaxKey
    BY <2>1, CommandsAssumption
  <2>3. key # <<>>
    BY <1>1, <2>2
  <2> QED BY <2>3
<1> DEFINE b == 2 + Len(key)
           v == SubSeq(t, 3, b)
<1>3. /\ 1 \in DOMAIN t /\ 3 \in DOMAIN t /\ b \in DOMAIN t /\ 3 <= b
      /\ 3 \in 1 .. (Len(t) + 1) /\ b \in (3 - 1) .. Len(t) /\ b - 3 + 1 = Len(key)
  <2>1. Len(t) \in Nat /\ Len(t) >= 2 + Len(key)
    BY Zenon, LenNat DEF Begins
  <2> QED BY <1>2, <2>1
<1>4. /\ v \in Seq(S) /\ Len(v) = b - 3 + 1
      /\ \A k \in 1 .. (b - 3 + 1) : v[k] = t[3 + k - 1]
  BY <1>3, View, SMT, SMTT(30)
<1> HIDE DEF v
<1>5. ASSUME NEW k \in 1 .. Len(v) PROVE v[k] = key[k]
  <2>1. k \in 1 .. Len(key) /\ 3 + k - 1 = 2 + k /\ k \in 1 .. (b - 3 + 1)
    BY <1>2, <1>3, <1>4
  <2> QED BY <1>4, <2>1, Zenon DEF Begins
<1>6. v = key
  BY <1>3, <1>4, <1>5, SameSeq, SMT, SMTT(30)
<1>7. VerbAt(t, 1)
  <2>1. 1 .. (1 - 1) = {}
    OBVIOUS
  <2> QED BY <2>1, Zenon DEF VerbAt, Blank, Begins
<1>8. Gap(t, 1 + 1, 3 - 1)
  <2>1. " " \in Separator /\ " " \in Space
    BY Zenon DEF Separator, Space
  <2>4. t[2] \in Separator /\ t[2] \in Space
    BY <2>1, Zenon DEF Begins
  <2>2. 2 <= 2 /\ t[2] \in Separator /\ \A k \in 2 .. 2 : t[k] \in Space
    BY <2>4
  <2>3. Gap(t, 2, 2)
    BY <2>2, Zenon DEF Gap, Blank
  <2> QED BY <2>3
<1>9. ValidKey(SubSeq(t, 3, b))
  BY <1>6, Zenon DEF v
<1>10. KeyAt(t, 1, 3, b)
  BY <1>3, <1>8, <1>9, KeyPartAt
<1> QED BY <1>3, <1>6, <1>7, <1>10, Zenon DEF v, KeyRead

\* The words of records.
IsDel(w) == w = "DEL"
IsSet(w) == w = "SET"
JoinedValue(t, w, key, value) == Joined(t, w, key, <<" ">> \o value)

\* A record of DEL is read as it was meant,
LEMMA ReplayDel ==
    ASSUME LeastNumber, SizeKnown, NEW S, Separator \subseteq S, NEW w \in S, IsDel(w),
           NEW key \in Seq(S), ValidKey(key), NEW t, Joined(t, w, key, <<>>)
    PROVE  /\ ParseCommand(t) = [verb |-> "DEL", key |-> key]
           /\ Size(t) = 4 + Size(key)
<1>0. <<>> \in Seq(S) /\ Len(<<>>) = 0
  OBVIOUS
<1>1. /\ t \in Seq(S) /\ Len(t) = 2 + Len(key) + Len(<<>>)
      /\ t[1] = w /\ t[2] = " "
      /\ \A k \in 1 .. Len(key) : t[2 + k] = key[k]
      /\ Size(t) = Size(<<w>>) + 1 + Size(key) + Size(<<>>)
  <2>1. Shaped(S, t, w, key, <<>>)
    BY <1>0, RecordShape, Zenon
  <2> QED BY <2>1, Zenon DEF Shaped
<1>2. Len(t) = 2 + Len(key) /\ Len(key) \in Nat /\ Len(t) >= 2 + Len(key)
  <2>1. Len(key) \in Nat
    BY LenNat, Zenon
  <2>2. Len(t) = 2 + Len(key) + Len(<<>>)
    BY <1>1, Zenon
  <2> QED BY <1>0, <2>1, <2>2
<1>3. Size(t) = 4 + Size(key)
  <2>1. Size(<<w>>) = 3 /\ Size(<<>>) = 0 /\ Size(key) \in Nat
    BY Zenon DEF SizeKnown, IsDel
  <2>2. Size(t) = Size(<<w>>) + 1 + Size(key) + Size(<<>>)
    BY <1>1, Zenon
  <2> QED BY <2>1, <2>2
<1>4. Begins(t, w, key)
  BY <1>1, <1>2, Zenon DEF Begins
<1>5. w \in Word /\ w \in {"GET", "DEL"}
  BY Zenon DEF Word, IsDel
<1> DEFINE b == 2 + Len(key)
<1>6. /\ 1 \in DOMAIN t /\ 3 \in DOMAIN t /\ b \in DOMAIN t
      /\ VerbAt(t, 1) /\ KeyAt(t, 1, 3, b) /\ SubSeq(t, 3, b) = key
  <2>1. t \in Seq(S)
    BY <1>1, Zenon
  <2>2. KeyRead(t, key, 2 + Len(key))
    BY <1>4, <1>5, <2>1, RecordKey
  <2> QED BY <2>2, Zenon DEF KeyRead
<1>7. Blank(t, b + 1, Len(t))
  <2>1. (b + 1) .. Len(t) = {}
    BY <1>2
  <2> QED BY <2>1, Zenon DEF Blank
<1>8. t[1] \in {"GET", "DEL"}
  BY <1>1, <1>5, Zenon
<1> HIDE DEF b
<1>10. t[1] = "DEL" /\ t \in Seq(S)
  BY <1>1, Zenon DEF IsDel
<1> DEFINE c == [verb |-> "DEL", key |-> key]
<1>9. Means(t, c)
  <2>1. c = [verb |-> t[1], key |-> SubSeq(t, 3, b)]
    BY <1>6, <1>10, Zenon
  <2> HIDE DEF c
  <2> QED BY <1>6, <1>7, <1>8, <2>1, Zenon DEF Means
<1> HIDE DEF c
<1>12. c = ParseCommand(t)
  BY <1>9, <1>10, MeansOne
<1>11. ParseCommand(t) = [verb |-> "DEL", key |-> key]
  BY <1>12 DEF c
<1> QED BY <1>3, <1>11, Zenon

\* What may be stored: nothing but white space is trimmed from it, and it has no NUL.
Storable(value) ==
    /\ Len(value) # 0 /\ value[1] \notin Space /\ value[Len(value)] \notin Space
    /\ \A k \in 1 .. Len(value) : value[k] # "nul"

\* and so is a record of SET.
LEMMA ReplaySet ==
    ASSUME LeastNumber, SizeKnown, NEW S, Separator \subseteq S, NEW w \in S, IsSet(w),
           NEW key \in Seq(S), ValidKey(key), NEW value \in Seq(S), Storable(value),
           NEW t, JoinedValue(t, w, key, value)
    PROVE  /\ ParseCommand(t) = [verb |-> "SET", key |-> key, value |-> value]
           /\ Size(t) = 5 + Size(key) + Size(value)
<1>a. PICK x \in S : x = " "
  BY Zenon DEF Separator
<1> DEFINE rest == <<x>> \o value
<1>b. <<x>> \in Seq(S) /\ Len(<<x>>) = 1 /\ <<x>>[1] = x
  OBVIOUS
<1>c. /\ rest \in Seq(S) /\ Len(rest) = Len(<<x>>) + Len(value)
      /\ \A k \in 1 .. Len(<<x>>) : rest[k] = <<x>>[k]
      /\ \A k \in 1 .. Len(value) : rest[Len(<<x>>) + k] = value[k]
  <2>1. <<x>> \in Seq(S)
    BY <1>b
  <2> QED BY <2>1, Concat
<1>d. Joined(t, w, key, rest)
  BY <1>a, Zenon DEF JoinedValue
<1>e. Size(rest) = 1 + Size(value)
  <2>1. Size(rest) = Size(<<x>>) + Size(value)
    BY <1>b, Zenon DEF SizeKnown
  <2>2. Size(<<x>>) = 1
    BY <1>a, Zenon DEF SizeKnown
  <2> QED BY <2>1, <2>2, Zenon
<1> HIDE DEF rest
<1>0. /\ rest \in Seq(S) /\ Len(rest) = 1 + Len(value) /\ rest[1] = x
      /\ \A k \in 1 .. Len(value) : rest[1 + k] = value[k]
  BY <1>b, <1>c
<1>1. /\ t \in Seq(S) /\ Len(t) = 2 + Len(key) + Len(rest)
      /\ t[1] = w /\ t[2] = " "
      /\ \A k \in 1 .. Len(key) : t[2 + k] = key[k]
      /\ \A k \in 1 .. Len(rest) : t[2 + Len(key) + k] = rest[k]
      /\ Size(t) = Size(<<w>>) + 1 + Size(key) + Size(rest)
  <2>1. rest \in Seq(S)
    BY <1>0
  <2>2. Shaped(S, t, w, key, rest)
    BY <1>d, <2>1, RecordShape
  <2> QED BY <2>2, Zenon DEF Shaped
<1>2. /\ Len(key) \in Nat /\ Len(value) \in Nat /\ Len(value) # 0
      /\ Len(t) = 3 + Len(key) + Len(value) /\ Len(t) >= 2 + Len(key)
  <2>1. Len(key) \in Nat /\ Len(value) \in Nat /\ Len(value) # 0
    BY LenNat, Zenon DEF Storable
  <2>2. Len(rest) = 1 + Len(value) /\ Len(t) = 2 + Len(key) + Len(rest)
    BY <1>0, <1>1, Zenon
  <2> QED BY <2>1, <2>2
<1>3. Size(t) = 5 + Size(key) + Size(value)
  <2>1. Size(<<w>>) = 3 /\ Size(key) \in Nat /\ Size(value) \in Nat
    BY Zenon DEF SizeKnown, IsSet
  <2>2. Size(t) = Size(<<w>>) + 1 + Size(key) + Size(rest)
    BY <1>1, Zenon
  <2> QED BY <1>e, <2>1, <2>2
<1>4. Begins(t, w, key)
  BY <1>1, <1>2, Zenon DEF Begins
<1>5. w \in Word
  BY Zenon DEF Word, IsSet
<1> DEFINE b == 2 + Len(key)
           d == b + 2
           e == Len(t)
<1>6. /\ 1 \in DOMAIN t /\ 3 \in DOMAIN t /\ b \in DOMAIN t
      /\ VerbAt(t, 1) /\ KeyAt(t, 1, 3, b) /\ SubSeq(t, 3, b) = key
  <2>1. t \in Seq(S)
    BY <1>1, Zenon
  <2>2. KeyRead(t, key, 2 + Len(key))
    BY <1>4, <1>5, <2>1, RecordKey
  <2> QED BY <2>2, Zenon DEF KeyRead
<1>7. /\ b \in Int /\ d \in Int /\ e \in Int /\ d <= e /\ b + 1 = d - 1 /\ d \in 1 .. (e + 1)
      /\ d \in 1 .. e /\ e \in 1 .. e /\ e \in (d - 1) .. e /\ e - d + 1 = Len(value)
  BY <1>2
<1>8. t[b + 1] = x /\ \A k \in 1 .. Len(value) : t[d + k - 1] = value[k]
  <2>1. 1 \in 1 .. Len(rest) /\ 2 + Len(key) + 1 = b + 1
    BY <1>0, <1>2
  <2>2. t[b + 1] = x
    BY <1>0, <1>1, <2>1, Zenon
  <2>3. ASSUME NEW k \in 1 .. Len(value) PROVE t[d + k - 1] = value[k]
    <3>1. 1 + k \in 1 .. Len(rest) /\ 2 + Len(key) + (1 + k) = d + k - 1
      BY <1>0, <1>2
    <3>2. t[2 + Len(key) + (1 + k)] = rest[1 + k]
      BY <1>1, <3>1, Zenon
    <3>3. rest[1 + k] = value[k]
      BY <1>0, Zenon
    <3> QED BY <3>1, <3>2, <3>3
  <2> QED BY <2>2, <2>3, Zenon
<1> HIDE DEF b, d
<1>9. d \in DOMAIN t /\ e \in DOMAIN t
  <2>1. t \in Seq(S)
    BY <1>1, Zenon
  <2> QED BY <1>7, <2>1
<1>10. SubSeq(t, d, e) = value
  <2> DEFINE v == SubSeq(t, d, e)
  <2>0. t \in Seq(S)
    BY <1>1, Zenon
  <2>1. v \in Seq(S) /\ Len(v) = e - d + 1 /\ \A k \in 1 .. (e - d + 1) : v[k] = t[d + k - 1]
    BY <1>7, <2>0, View
  <2> HIDE DEF v
  <2>2. \A k \in 1 .. Len(v) : v[k] = value[k]
    BY <1>7, <1>8, <2>1
  <2>3. v = value
    BY <1>7, <2>1, <2>2, SameSeq, SMT, SMTT(30)
  <2> QED BY <2>3 DEF v
<1>11. t[d] = value[1] /\ t[e] = value[Len(value)]
  <2>1. 1 \in 1 .. Len(value) /\ d + 1 - 1 = d /\ Len(value) \in 1 .. Len(value) /\ d + Len(value) - 1 = e
    BY <1>2, <1>7
  <2>2. t[d + 1 - 1] = value[1] /\ t[d + Len(value) - 1] = value[Len(value)]
    BY <1>8, <2>1, Zenon
  <2> QED BY <2>1, <2>2
<1>12. ASSUME NEW k \in d .. e PROVE t[k] # "nul"
  <2>1. k - d + 1 \in 1 .. Len(value) /\ d + (k - d + 1) - 1 = k
    BY <1>7
  <2>2. t[d + (k - d + 1) - 1] = value[k - d + 1]
    BY <1>8, <2>1, Zenon
  <2>3. value[k - d + 1] # "nul"
    BY <2>1, Zenon DEF Storable
  <2> QED BY <2>1, <2>2, <2>3
<1>13. Gap(t, b + 1, d - 1)
  <2>1. x \in Separator /\ x \in Space
    BY <1>a, Zenon DEF Separator, Space
  <2>2. \A k \in (b + 1) .. (d - 1) : k = b + 1
    BY <1>7
  <2>3. b + 1 <= d - 1
    BY <1>7
  <2>4. t[b + 1] = x
    BY <1>8, Zenon
  <2>5. \A k \in (b + 1) .. (d - 1) : t[k] \in Space
    BY <2>1, <2>2, <2>4, Zenon
  <2> QED BY <2>1, <2>3, <2>4, <2>5, Zenon DEF Gap, Blank
<1>14. Blank(t, e + 1, Len(t))
  <2>1. (e + 1) .. Len(t) = {}
    BY <1>7
  <2> QED BY <2>1, Zenon DEF Blank
<1> HIDE DEF e
<1>15. ValueAt(t, b, d, e)
  <2>1. d <= e
    BY <1>7, Zenon
  <2>2. t[d] \notin Space /\ t[e] \notin Space
    BY <1>11, Zenon DEF Storable
  <2> QED BY <1>12, <1>13, <1>14, <2>1, <2>2, Zenon DEF ValueAt
<1>16. t[1] = "SET" /\ t \in Seq(S)
  BY <1>1, Zenon DEF IsSet
<1> DEFINE c == [verb |-> "SET", key |-> key, value |-> value]
<1>18. Means(t, c)
  <2>1. c = [verb |-> "SET", key |-> SubSeq(t, 3, b), value |-> SubSeq(t, d, e)]
    BY <1>6, <1>10, Zenon
  <2> HIDE DEF c
  <2> QED BY <1>6, <1>9, <1>15, <1>16, <2>1, Zenon DEF Means
<1> HIDE DEF c
<1>19. c = ParseCommand(t)
  BY <1>16, <1>18, MeansOne
<1>17. ParseCommand(t) = [verb |-> "SET", key |-> key, value |-> value]
  BY <1>19 DEF c
<1> QED BY <1>3, <1>17, Zenon

-----------------------------------------------------------------------------
(* A record is no longer than the request that it records.                 *)

\* From p to r, with the second of two parts from q1.
Splits(text, p, q, q1, r) ==
    /\ p \in 1 .. (Len(text) + 1)
    /\ q \in (p - 1) .. Len(text)
    /\ r \in q .. Len(text)
    /\ q1 = q + 1

\* The characters of a part.
Part(text, p, q) == Size(SubSeq(text, p, q))

\* Its characters are those of the two.
Adds(text, p, q, q1, r) ==
    /\ Part(text, p, r) = Part(text, p, q) + Part(text, q1, r)
    /\ Part(text, p, q) \in Nat
    /\ Part(text, p, q) >= q - p + 1
    /\ Part(text, q1, r) \in Nat

\* The size of a part is that of its two parts.
LEMMA SizeParts ==
    ASSUME SizeKnown, NEW S, NEW text \in Seq(S), NEW p, NEW q, NEW q1, NEW r,
           Splits(text, p, q, q1, r)
    PROVE  Adds(text, p, q, q1, r)
<1>a. p \in 1 .. (Len(text) + 1) /\ q \in (p - 1) .. Len(text) /\ r \in q .. Len(text) /\ q1 = q + 1
  BY Zenon DEF Splits
<1> DEFINE x == SubSeq(text, p, q)
           y == SubSeq(text, q1, r)
           z == SubSeq(text, p, r)
<1>0. Len(text) \in Nat /\ p \in Int /\ q \in Int /\ r \in Int
  BY <1>a, LenNat
<1>1. /\ r \in (p - 1) .. Len(text) /\ q1 \in 1 .. (Len(text) + 1) /\ r \in (q1 - 1) .. Len(text)
      /\ r - q1 + 1 = r - q /\ (q - p + 1) + (r - q) = r - p + 1
  BY <1>a, <1>0
<1>2. x \in Seq(S) /\ Len(x) = q - p + 1 /\ \A k \in 1 .. (q - p + 1) : x[k] = text[p + k - 1]
  BY <1>a, View
<1>3. y \in Seq(S) /\ Len(y) = r - q1 + 1 /\ \A k \in 1 .. (r - q1 + 1) : y[k] = text[q1 + k - 1]
  BY <1>1, View
<1>4. z \in Seq(S) /\ Len(z) = r - p + 1 /\ \A k \in 1 .. (r - p + 1) : z[k] = text[p + k - 1]
  <2>1. p \in 1 .. (Len(text) + 1) /\ r \in (p - 1) .. Len(text)
    BY <1>a, <1>1, Zenon
  <2> QED BY <2>1, View, SMT, SMTT(30)
<1> HIDE DEF x, y, z
<1>5. /\ x \o y \in Seq(S) /\ Len(x \o y) = Len(x) + Len(y)
      /\ \A k \in 1 .. Len(x) : (x \o y)[k] = x[k]
      /\ \A k \in 1 .. Len(y) : (x \o y)[Len(x) + k] = y[k]
  <2>1. x \in Seq(S) /\ y \in Seq(S)
    BY <1>2, <1>3, Zenon
  <2> QED BY <2>1, Concat
<1> DEFINE xy == x \o y
<1> HIDE DEF xy
<1>6. Len(xy) = r - p + 1 /\ xy \in Seq(S)
  BY <1>1, <1>2, <1>3, <1>5 DEF xy
<1>7. ASSUME NEW k \in 1 .. (r - p + 1) PROVE xy[k] = z[k]
  <2>1. CASE k <= q - p + 1
    <3>1. k \in 1 .. Len(x) /\ k \in 1 .. (q - p + 1)
      BY <1>0, <1>2, <2>1
    <3>2. xy[k] = x[k] /\ x[k] = text[p + k - 1] /\ z[k] = text[p + k - 1]
      BY <1>2, <1>4, <1>5, <3>1, Zenon DEF xy
    <3> QED BY <3>2
  <2>2. CASE ~ (k <= q - p + 1)
    <3> DEFINE j == k - (q - p + 1)
    <3>1. j \in 1 .. Len(y) /\ Len(x) + j = k /\ q1 + j - 1 = p + k - 1 /\ j \in 1 .. (r - q1 + 1)
      BY <1>a, <1>0, <1>1, <1>2, <1>3, <2>2
    <3> HIDE DEF j
    <3>2. xy[Len(x) + j] = y[j] /\ y[j] = text[q1 + j - 1] /\ z[k] = text[p + k - 1]
      BY <1>3, <1>4, <1>5, <3>1, Zenon DEF xy
    <3> QED BY <3>1, <3>2
  <2> QED BY <2>1, <2>2
<1>8. xy = z
  BY <1>4, <1>6, <1>7, SameSeq
<1>9. Size(x \o y) = Size(x) + Size(y) /\ Size(x) \in Nat /\ Size(y) \in Nat /\ Len(x) <= Size(x)
  BY <1>2, <1>3, Zenon DEF SizeKnown
<1>10. Size(x) >= q - p + 1
  BY <1>0, <1>2, <1>9
<1> QED BY <1>8, <1>9, <1>10, Zenon DEF xy, x, y, z, Part, Adds

\* The size of a text up to the end of its key.
LEMMA SizeToKey ==
    ASSUME SizeKnown, NEW S, NEW text \in Seq(S), NEW i \in DOMAIN text,
           text[i] \in {"SET", "DEL"}, NEW a \in DOMAIN text, NEW b \in DOMAIN text,
           i + 1 <= a - 1, a <= b
    PROVE  /\ Size(text) >= 4 + Size(SubSeq(text, a, b)) + Size(SubSeq(text, b + 1, Len(text)))
           /\ Size(SubSeq(text, a, b)) \in Nat /\ Size(SubSeq(text, a, b)) >= 1
           /\ Size(SubSeq(text, b + 1, Len(text))) \in Nat
<1> DEFINE L == Len(text)
           i0 == i - 1
           i1 == i + 1
           a0 == a - 1
           b1 == b + 1
<1>0. L \in Nat /\ i \in 1 .. L /\ a \in 1 .. L /\ b \in 1 .. L
  OBVIOUS
<1>1. /\ Splits(text, 1, i0, i, L) /\ Splits(text, i, i, i1, L)
      /\ Splits(text, i1, a0, a, L) /\ Splits(text, a, b, b1, L)
  BY <1>0 DEF Splits
<1>2. a0 - i1 + 1 >= 1 /\ b - a + 1 >= 1 /\ a0 - i1 + 1 \in Int /\ b - a + 1 \in Int
  BY <1>0, SMT, SMTT(30)
<1> HIDE DEF i0, i1, a0, b1, L
<1>3. /\ Adds(text, 1, i0, i, L) /\ Adds(text, i, i, i1, L)
      /\ Adds(text, i1, a0, a, L) /\ Adds(text, a, b, b1, L)
  BY <1>1, SizeParts, Zenon
<1>4. /\ Part(text, 1, L) = Part(text, 1, i0) + Part(text, i, L) /\ Part(text, 1, i0) \in Nat
      /\ Part(text, i, L) = Part(text, i, i) + Part(text, i1, L)
      /\ Part(text, i1, L) = Part(text, i1, a0) + Part(text, a, L)
      /\ Part(text, i1, a0) \in Nat /\ Part(text, i1, a0) >= a0 - i1 + 1
      /\ Part(text, a, L) = Part(text, a, b) + Part(text, b1, L)
      /\ Part(text, a, b) \in Nat /\ Part(text, b1, L) \in Nat
      /\ Part(text, a, b) >= b - a + 1
  BY <1>3, Zenon DEF Adds
<1>5. Part(text, i, i) = 3
  <2>1. SubSeq(text, i, i) = <<text[i]>>
    BY OneSymbol, Zenon
  <2>2. text[i] = "SET" \/ text[i] = "DEL"
    OBVIOUS
  <2> QED BY <2>1, <2>2, Zenon DEF SizeKnown, Part
<1>6. Part(text, 1, L) = Size(text)
  BY WholeView, Zenon DEF Part, L
<1> DEFINE A == Part(text, a, b)
           B == Part(text, b1, L)
           C == Part(text, i1, a0)
           D == Part(text, 1, i0)
<1>7. /\ Size(text) = D + (3 + (C + (A + B))) /\ A \in Nat /\ B \in Nat /\ C \in Nat /\ D \in Nat
      /\ C >= a0 - i1 + 1 /\ A >= b - a + 1
  BY <1>4, <1>5, <1>6, Zenon
<1> HIDE DEF A, B, C, D
<1>8. Size(text) >= 4 + A + B /\ A >= 1 /\ A \in Nat /\ B \in Nat
  BY <1>2, <1>7
<1> QED BY <1>8, Zenon DEF Part, L, b1, A, B

-----------------------------------------------------------------------------
(* The theorems, from the two facts LeastNumber and SizeKnown.             *)

\* StoredCanBeReplayedAndRead and ParserMatchesGrammar for a text.
Stored(text) ==
    LET c == ParseCommand(text)
    IN  Size(text) <= MaxText /\ c.verb \in {"SET", "DEL"} =>
            /\ Size(Record(c)) <= MaxText
            /\ ParseCommand(Record(c)) = c
            /\ c.verb = "SET" => Size(ValueAnswer(c.value)) <= MaxText

Matched(text) == Meanings(text) = {ParseCommand(text)} \ {NoCommand}

\* The parser and the grammar agree on a text.
LEMMA GrammarIsMatched ==
    ASSUME LeastNumber, SizeKnown, NEW S, NEW text \in Seq(S)
    PROVE  Matched(text)
<1>1. ASSUME NEW c, Means(text, c) PROVE c = ParseCommand(text) /\ c # NoCommand
  BY <1>1, MeansOne, Zenon
<1>2. ASSUME NEW c, c = ParseCommand(text), c # NoCommand PROVE Means(text, c)
  BY <1>2, Understood, Zenon
<1> DEFINE p == ParseCommand(text)
<1> HIDE DEF p
<1>3. ASSUME NEW c PROVE c \in Meanings(text) <=> c \in {p} \ {NoCommand}
  <2>1. c \in Meanings(text) <=> Means(text, c)
    BY MeaningsAre, Zenon
  <2> QED BY <1>1, <1>2, <2>1, Zenon DEF p
<1> DEFINE M == Meanings(text)
<1> HIDE DEF M
<1>4. M = {p} \ {NoCommand}
  BY <1>3, Zenon DEF M
<1> QED BY <1>4, Zenon DEF M, p, Matched

\* A part of a text is a text.
LEMMA PartIsText ==
    ASSUME NEW S, NEW text \in Seq(S), NEW a \in DOMAIN text, NEW b \in DOMAIN text, a <= b
    PROVE  /\ SubSeq(text, a, b) \in Seq(S) /\ Len(SubSeq(text, a, b)) = b - a + 1
           /\ \A k \in 1 .. (b - a + 1) : SubSeq(text, a, b)[k] = text[a + k - 1]
<1>1. a \in 1 .. (Len(text) + 1) /\ b \in (a - 1) .. Len(text)
  OBVIOUS
<1> QED BY <1>1, View

\* What the grammar takes for a value.
LEMMA ValueIsStorable ==
    ASSUME NEW S, NEW text \in Seq(S), NEW b \in DOMAIN text, NEW d \in DOMAIN text,
           NEW e \in DOMAIN text, ValueAt(text, b, d, e)
    PROVE  Storable(SubSeq(text, d, e)) /\ b + 1 <= d - 1 /\ d <= e
<1>1. /\ b + 1 <= d - 1 /\ d <= e /\ text[d] \notin Space /\ text[e] \notin Space
      /\ \A k \in d .. e : text[k] # "nul"
  BY Zenon DEF ValueAt, Gap
<1> DEFINE v == SubSeq(text, d, e)
           n == e - d + 1
<1>2. Len(v) = n /\ \A k \in 1 .. n : v[k] = text[d + k - 1]
  BY <1>1, PartIsText, SMT, SMTT(30)
<1> HIDE DEF v
<1>3. n # 0 /\ 1 \in 1 .. n /\ n \in 1 .. n /\ d + 1 - 1 = d /\ d + n - 1 = e
  BY <1>1
<1>4. \A k \in 1 .. n : d + k - 1 \in d .. e
  BY <1>1
<1> HIDE DEF n
<1>5. v[1] = text[d + 1 - 1] /\ v[n] = text[d + n - 1]
  BY <1>2, <1>3, Zenon
<1>6. v[1] \notin Space /\ v[n] \notin Space
  BY <1>1, <1>3, <1>5
<1>7. \A k \in 1 .. n : v[k] # "nul"
  BY <1>1, <1>2, <1>4, Zenon
<1>8. Storable(v)
  BY <1>2, <1>3, <1>6, <1>7, Zenon DEF Storable
<1> QED BY <1>1, <1>8, Zenon DEF v

\* The text t is no longer than another.
Fits(t, text) == Size(t) \in Nat /\ Size(t) <= Size(text)

\* t is the record of DEL, or of SET, with the parts that the text has there.
DelOf(t, text, i, a, b) ==
    /\ i \in DOMAIN text /\ IsDel(text[i])
    /\ a \in DOMAIN text /\ b \in DOMAIN text /\ KeyAt(text, i, a, b)
    /\ Joined(t, text[i], SubSeq(text, a, b), <<>>)

SetOf(t, text, i, a, b, d, e) ==
    /\ i \in DOMAIN text /\ IsSet(text[i])
    /\ a \in DOMAIN text /\ b \in DOMAIN text /\ KeyAt(text, i, a, b)
    /\ d \in DOMAIN text /\ e \in DOMAIN text /\ ValueAt(text, b, d, e)
    /\ JoinedValue(t, text[i], SubSeq(text, a, b), SubSeq(text, d, e))

\* It is read as the command c, and is no longer than the text.
Kept(t, text, c) == ParseCommand(t) = c /\ Fits(t, text)

\* The record of a DEL that the text asks for,
LEMMA StoredDel ==
    ASSUME LeastNumber, SizeKnown, NEW S, Separator \subseteq S, NEW text \in Seq(S),
           NEW i, NEW a, NEW b, NEW t, DelOf(t, text, i, a, b)
    PROVE  Kept(t, text, [verb |-> "DEL", key |-> SubSeq(text, a, b)])
<1>a. i \in DOMAIN text /\ a \in DOMAIN text /\ b \in DOMAIN text
  BY Zenon DEF DelOf
<1> DEFINE key == SubSeq(text, a, b)
<1>b. IsDel(text[i]) /\ KeyAt(text, i, a, b) /\ Joined(t, text[i], key, <<>>)
  BY Zenon DEF DelOf
<1>1. ValidKey(key) /\ a <= b /\ Gap(text, i + 1, a - 1)
  BY <1>a, <1>b, KeyFacts, Zenon
<1>2. i + 1 <= a - 1
  BY <1>1, Zenon DEF Gap
<1>3. key \in Seq(S) /\ text[i] \in S
  BY <1>a, <1>1, PartIsText
<1>4. ParseCommand(t) = [verb |-> "DEL", key |-> key] /\ Size(t) = 4 + Size(key)
  BY <1>b, <1>1, <1>3, ReplayDel, Zenon
<1>5. text[i] \in {"SET", "DEL"}
  BY <1>b, Zenon DEF IsDel
<1> DEFINE z == Size(SubSeq(text, b + 1, Len(text)))
           y == Size(SubSeq(text, a, b))
<1>6. Size(text) >= 4 + y + z /\ y \in Nat /\ z \in Nat
  BY <1>a, <1>1, <1>2, <1>5, SizeToKey, Zenon
<1> HIDE DEF z, y
<1>7. Size(t) = 4 + y
  BY <1>4, Zenon DEF y
<1>8. Size(text) \in Nat
  BY Zenon DEF SizeKnown
<1>9. Size(t) <= Size(text) /\ Size(t) \in Nat
  BY <1>6, <1>7, <1>8
<1> QED BY <1>4, <1>9, Zenon DEF Kept, Fits

\* The word of an answer.
HasValue(S) == "VALUE" \in S

\* A record of SET is made of these parts.
SetRecord(S, t, w, key, value) ==
    /\ w \in S /\ IsSet(w)
    /\ key \in Seq(S) /\ ValidKey(key)
    /\ value \in Seq(S) /\ Storable(value)
    /\ JoinedValue(t, w, key, value)

\* It is read as them.
SetRead(t, key, value) ==
    /\ ParseCommand(t) = [verb |-> "SET", key |-> key, value |-> value]
    /\ Size(t) = 5 + Size(key) + Size(value)

\* The record of SET again, with its parts in one place.
LEMMA SetIsRead ==
    ASSUME LeastNumber, SizeKnown, NEW S, Separator \subseteq S, NEW t, NEW w, NEW key, NEW value,
           SetRecord(S, t, w, key, value)
    PROVE  SetRead(t, key, value)
<1>1. /\ w \in S /\ IsSet(w) /\ key \in Seq(S) /\ ValidKey(key)
      /\ value \in Seq(S) /\ Storable(value) /\ JoinedValue(t, w, key, value)
  BY Zenon DEF SetRecord
<1>2. /\ ParseCommand(t) = [verb |-> "SET", key |-> key, value |-> value]
      /\ Size(t) = 5 + Size(key) + Size(value)
  BY <1>1, ReplaySet
<1> QED BY <1>2, Zenon DEF SetRead

\* The arithmetic of the next lemma.
LEMMA ValueBounds ==
    ASSUME NEW L \in Nat, NEW b \in 1 .. L, NEW d \in 1 .. L, NEW e \in 1 .. L, b + 1 <= d - 1, d <= e
    PROVE  /\ b + 1 \in 1 .. (L + 1) /\ d - 1 \in ((b + 1) - 1) .. L /\ L \in (d - 1) .. L
           /\ d = (d - 1) + 1
           /\ d \in 1 .. (L + 1) /\ e \in (d - 1) .. L /\ L \in e .. L
           /\ ((d - 1) - (b + 1)) + 1 >= 1 /\ ((d - 1) - (b + 1)) + 1 \in Int
OBVIOUS

\* Where the gap before a value and the value end.
LEMMA ValueSplits ==
    ASSUME NEW S, NEW text \in Seq(S), NEW b \in DOMAIN text, NEW d \in DOMAIN text,
           NEW e \in DOMAIN text, b + 1 <= d - 1, d <= e
    PROVE  /\ Splits(text, b + 1, d - 1, d, Len(text)) /\ Splits(text, d, e, e + 1, Len(text))
           /\ (d - 1) - (b + 1) + 1 >= 1 /\ (d - 1) - (b + 1) + 1 \in Int
<1> DEFINE L == Len(text)
<1>1. L \in Nat /\ b \in 1 .. L /\ d \in 1 .. L /\ e \in 1 .. L
  OBVIOUS
<1>2. /\ b + 1 \in 1 .. (L + 1) /\ d - 1 \in ((b + 1) - 1) .. L /\ L \in (d - 1) .. L
      /\ d = (d - 1) + 1
      /\ d \in 1 .. (L + 1) /\ e \in (d - 1) .. L /\ L \in e .. L
      /\ ((d - 1) - (b + 1)) + 1 >= 1 /\ ((d - 1) - (b + 1)) + 1 \in Int
  BY <1>1, ValueBounds, Zenon
<1>3. Splits(text, b + 1, d - 1, d, Len(text))
  BY <1>2, Zenon DEF Splits
<1>4. Splits(text, d, e, e + 1, Len(text))
  BY <1>2, Zenon DEF Splits
<1> QED BY <1>2, <1>3, <1>4, Zenon

\* and of a SET, with the answer to GET.
LEMMA StoredSet ==
    ASSUME LeastNumber, SizeKnown, NEW S, Separator \subseteq S, HasValue(S), NEW text \in Seq(S),
           NEW i, NEW a, NEW b, NEW d, NEW e, NEW t, SetOf(t, text, i, a, b, d, e)
    PROVE  /\ Kept(t, text, [verb |-> "SET", key |-> SubSeq(text, a, b),
                             value |-> SubSeq(text, d, e)])
           /\ Fits(ValueAnswer(SubSeq(text, d, e)), text)
<1>a. /\ i \in DOMAIN text /\ a \in DOMAIN text /\ b \in DOMAIN text
      /\ d \in DOMAIN text /\ e \in DOMAIN text
  BY Zenon DEF SetOf
<1> DEFINE key == SubSeq(text, a, b)
           value == SubSeq(text, d, e)
<1>b. /\ IsSet(text[i]) /\ KeyAt(text, i, a, b) /\ ValueAt(text, b, d, e)
      /\ JoinedValue(t, text[i], key, value)
  BY Zenon DEF SetOf
<1>1. ValidKey(key) /\ a <= b /\ Gap(text, i + 1, a - 1)
  BY <1>a, <1>b, KeyFacts, Zenon
<1>2. i + 1 <= a - 1
  BY <1>1, Zenon DEF Gap
<1>3. key \in Seq(S) /\ text[i] \in S
  BY <1>a, <1>1, PartIsText, SMT, SMTT(30)
<1>4. Storable(value) /\ b + 1 <= d - 1 /\ d <= e
  BY <1>a, <1>b, ValueIsStorable, Zenon
<1>5. value \in Seq(S)
  BY <1>a, <1>4, PartIsText
<1>6. /\ ParseCommand(t) = [verb |-> "SET", key |-> key, value |-> value]
      /\ Size(t) = 5 + Size(key) + Size(value)
  <2>1. ValidKey(key) /\ key \in Seq(S) /\ value \in Seq(S) /\ Storable(value) /\ text[i] \in S
    BY <1>1, <1>3, <1>4, <1>5, Zenon
  <2>2. SetRecord(S, t, text[i], key, value)
    BY <1>b, <2>1, Zenon DEF SetRecord
  <2>3. SetRead(t, key, value)
    BY <2>2, SetIsRead, Zenon
  <2> QED BY <2>3, Zenon DEF SetRead
<1>7. text[i] \in {"SET", "DEL"}
  BY <1>b, Zenon DEF IsSet
<1> DEFINE L == Len(text)
           b1 == b + 1
           d0 == d - 1
           e1 == e + 1
           z == Part(text, b1, L)
           y == Part(text, a, b)
<1>8. Size(text) >= 4 + y + z /\ y \in Nat /\ z \in Nat /\ y >= 1
  BY <1>a, <1>1, <1>2, <1>7, SizeToKey, Zenon DEF Part
<1>10. Splits(text, b1, d0, d, L) /\ Splits(text, d, e, e1, L) /\ d0 - b1 + 1 >= 1 /\ d0 - b1 + 1 \in Int
  BY <1>a, <1>4, ValueSplits, Zenon
<1> HIDE DEF b1, d0, e1, L
<1>11. Adds(text, b1, d0, d, L) /\ Adds(text, d, e, e1, L)
  BY <1>10, SizeParts, Zenon
<1> DEFINE v == Part(text, d, e)
           g == Part(text, b1, d0)
           h == Part(text, e1, L)
<1>12. /\ z = g + (v + h) /\ g \in Nat /\ v \in Nat /\ h \in Nat /\ g >= d0 - b1 + 1
  BY <1>11, Zenon DEF Adds
<1> HIDE DEF z, y, v, g, h
<1>13. Size(text) \in Nat
  BY Zenon DEF SizeKnown
<1>14. Size(text) >= 5 + y + v /\ Size(text) >= 6 + v
  BY <1>8, <1>10, <1>12, <1>13
<1>15. Size(key) = y /\ Size(value) = v
  BY Zenon DEF y, v, Part
<1>16. Size(ValueAnswer(value)) = 6 + v
  <2>1. PICK x \in S : x = " "
    BY Zenon DEF Separator
  <2>2. PICK u \in S : u = "VALUE"
    BY Zenon DEF HasValue
  <2>3. <<u>> \in Seq(S) /\ <<x>> \in Seq(S) /\ <<u, x>> = <<u>> \o <<x>> /\ <<u, x>> \in Seq(S)
    OBVIOUS
  <2>4. /\ Size(<<u>> \o <<x>>) = Size(<<u>>) + Size(<<x>>)
        /\ Size(<<u, x>> \o value) = Size(<<u, x>>) + Size(value)
    BY <1>5, <2>3, Zenon DEF SizeKnown
  <2>5. Size(<<u>>) = 5 /\ Size(<<x>>) = 1
    BY <2>1, <2>2, Zenon DEF SizeKnown
  <2>6. Size(<<u, x>> \o value) = (5 + 1) + v
    BY <1>15, <2>3, <2>4, <2>5, Zenon
  <2>7. ValueAnswer(value) = <<u, x>> \o value
    BY <2>1, <2>2, Zenon DEF ValueAnswer
  <2>8. v \in Nat
    BY <1>12
  <2>9. (5 + 1) + v = 6 + v
    BY <2>8
  <2> QED BY <2>6, <2>7, <2>9, Zenon
<1>17. Size(t) = 5 + y + v
  BY <1>6, <1>15, Zenon
<1>18. /\ Size(t) <= Size(text) /\ Size(ValueAnswer(value)) <= Size(text)
       /\ Size(t) \in Nat /\ Size(ValueAnswer(value)) \in Nat
  BY <1>8, <1>12, <1>13, <1>14, <1>16, <1>17
<1> QED BY <1>6, <1>18, Zenon DEF Kept, Fits

\* What a text with a verb at i may stand for.
Understanding(text, c, i) ==
    \/ c = [verb |-> text[i]] /\ text[i] \in {"PING", "STATS"}
    \/ \E a, b \in DOMAIN text :
          /\ KeyAt(text, i, a, b) /\ text[i] \in {"GET", "DEL"}
          /\ c = [verb |-> text[i], key |-> SubSeq(text, a, b)]
    \/ \E a, b, d, e \in DOMAIN text :
          /\ KeyAt(text, i, a, b) /\ text[i] = "SET" /\ ValueAt(text, b, d, e)
          /\ c = [verb |-> "SET", key |-> SubSeq(text, a, b), value |-> SubSeq(text, d, e)]

\* What a text stores is recorded and answered in no more characters than it has.
LEMMA RecordedFits ==
    ASSUME LeastNumber, SizeKnown, NEW S, Separator \subseteq S, HasValue(S), NEW text \in Seq(S)
    PROVE  Stored(text)
<1> DEFINE c == ParseCommand(text)
<1> HIDE DEF c
<1>0. SUFFICES ASSUME Size(text) <= MaxText, c.verb \in {"SET", "DEL"}
               PROVE  /\ Size(Record(c)) <= MaxText
                      /\ ParseCommand(Record(c)) = c
                      /\ c.verb = "SET" => Size(ValueAnswer(c.value)) <= MaxText
  BY Zenon DEF Stored, c
<1>1. c # NoCommand
  BY <1>0 DEF NoCommand
<1>2. Means(text, c)
  BY <1>1, Understood, Zenon DEF c
<1>3. PICK i \in DOMAIN text : Understanding(text, c, i)
  BY <1>2, Zenon DEF Means, Understanding
<1>4. ASSUME NEW t, Fits(t, text) PROVE Size(t) <= MaxText
  <2>1. Size(text) \in Nat
    BY Zenon DEF SizeKnown
  <2>2. Size(t) \in Nat /\ Size(t) <= Size(text)
    BY <1>4, Zenon DEF Fits
  <2> QED BY <1>0, <2>1, <2>2, CommandsAssumption
<1>5. CASE c = [verb |-> text[i]] /\ text[i] \in {"PING", "STATS"}
  <2>1. c.verb \in {"PING", "STATS"}
    BY <1>5
  <2> QED BY <1>0, <2>1
<1>6. ASSUME NEW a \in DOMAIN text, NEW b \in DOMAIN text,
             KeyAt(text, i, a, b), text[i] \in {"GET", "DEL"},
             c = [verb |-> text[i], key |-> SubSeq(text, a, b)]
      PROVE  /\ Size(Record(c)) <= MaxText
             /\ ParseCommand(Record(c)) = c
             /\ c.verb = "SET" => Size(ValueAnswer(c.value)) <= MaxText
  <2> DEFINE w == text[i]
             key == SubSeq(text, a, b)
  <2> HIDE DEF w, key
  <2>1. c.verb = w /\ c.key = key /\ w = "DEL" /\ c.verb # "SET"
    <3>1. c = [verb |-> w, key |-> key] /\ w \in {"GET", "DEL"}
      BY <1>6, Zenon DEF w, key
    <3> QED BY <1>0, <3>1
  <2>2. Joined(Record(c), text[i], key, <<>>)
    BY <2>1, Zenon DEF Record, Joined, w
  <2>3. DelOf(Record(c), text, i, a, b)
    BY <1>6, <2>1, <2>2, Zenon DEF IsDel, DelOf, w, key
  <2>4. Kept(Record(c), text, [verb |-> "DEL", key |-> SubSeq(text, a, b)])
    BY <2>3, StoredDel, Zenon
  <2>5. c = [verb |-> "DEL", key |-> SubSeq(text, a, b)]
    BY <1>6, <2>1, Zenon DEF w
  <2>6. Kept(Record(c), text, c)
    BY <2>4, <2>5
  <2> QED BY <1>4, <2>1, <2>6, Zenon DEF Kept
<1>7. ASSUME NEW a \in DOMAIN text, NEW b \in DOMAIN text,
             NEW d \in DOMAIN text, NEW e \in DOMAIN text,
             KeyAt(text, i, a, b), text[i] = "SET", ValueAt(text, b, d, e),
             c = [verb |-> "SET", key |-> SubSeq(text, a, b), value |-> SubSeq(text, d, e)]
      PROVE  /\ Size(Record(c)) <= MaxText
             /\ ParseCommand(Record(c)) = c
             /\ c.verb = "SET" => Size(ValueAnswer(c.value)) <= MaxText
  <2> DEFINE w == text[i]
             key == SubSeq(text, a, b)
             value == SubSeq(text, d, e)
  <2> HIDE DEF w, key, value
  <2>1. c.verb = "SET" /\ c.verb = w /\ c.key = key /\ c.value = value
    <3>1. c = [verb |-> "SET", key |-> key, value |-> value] /\ w = "SET"
      BY <1>7, Zenon DEF w, key, value
    <3> QED BY <3>1
  <2>2. JoinedValue(Record(c), text[i], key, value)
    BY <2>1, Zenon DEF Record, Joined, JoinedValue, w
  <2>3. SetOf(Record(c), text, i, a, b, d, e)
    BY <1>7, <2>2, Zenon DEF IsSet, SetOf, key, value
  <2>4. /\ Kept(Record(c), text, [verb |-> "SET", key |-> SubSeq(text, a, b),
                                  value |-> SubSeq(text, d, e)])
        /\ Fits(ValueAnswer(SubSeq(text, d, e)), text)
    BY <2>3, StoredSet, Zenon
  <2>5. Kept(Record(c), text, c)
    BY <1>7, <2>4
  <2>6. Fits(ValueAnswer(c.value), text)
    BY <2>1, <2>4, Zenon DEF value
  <2> QED BY <1>4, <2>5, <2>6, Zenon DEF Kept
<1> QED BY <1>3, <1>5, <1>6, <1>7, Zenon DEF Understanding

-----------------------------------------------------------------------------
(* The sizes of texts, and the theorems without hypotheses.                *)

INSTANCE FiniteSetTheorems
INSTANCE WellFoundedInduction

\* Every set of natural numbers that is not empty has a least element.
LEMMA LeastHolds == LeastNumber
<1> SUFFICES ASSUME NEW T \in SUBSET Nat, T # {}
             PROVE  \E n \in T : \A m \in T : n <= m
  BY Zenon DEF LeastNumber
<1> DEFINE R == {ss \in Nat \X Nat : ss[1] < ss[2]}
<1>1. IsWellFoundedOn(R, Nat)
  BY NatLessThanWellFounded, Zenon DEF OpToRel
<1>2. \A x, y \in Nat : x < y => <<x, y>> \in R
  OBVIOUS
<1> HIDE DEF R
<1>3. PICK x \in T : \A y \in T : ~(<<y, x>> \in R)
  BY <1>1, WFMin, Zenon
<1>4. \A y \in T : ~(y < x)
  BY <1>2, <1>3, Zenon
<1> QED
  BY <1>4

\* The number of some symbols in a text, and in two texts together.
LEMMA CountLaws ==
    ASSUME NEW S, NEW s \in Seq(S), NEW t \in Seq(S), NEW Y
    PROVE  /\ Count(s, Y) \in Nat /\ Count(t, Y) \in Nat
           /\ Count(s \o t, Y) = Count(s, Y) + Count(t, Y)
<1> DEFINE n == Len(s)
           A == {i \in DOMAIN s : s[i] \in Y}
           B == {i \in DOMAIN t : t[i] \in Y}
           D == {i \in DOMAIN (s \o t) : (s \o t)[i] \in Y}
           E == {i \in D : i > n}
           f == [i \in B |-> i + n]
<1>0. n \in Nat /\ Len(t) \in Nat
  OBVIOUS
<1>1. A \subseteq 1 .. n /\ B \subseteq 1 .. Len(t)
  OBVIOUS
<1>2. IsFiniteSet(1 .. n) /\ IsFiniteSet(1 .. Len(t))
  BY <1>0, FS_Interval, SMT, SMTT(30)
<1>3. IsFiniteSet(A) /\ IsFiniteSet(B)
  <2> HIDE DEF A, B
  <2> QED BY <1>1, <1>2, FS_Subset, ZenonT(40)
<1>4. /\ Len(s \o t) = n + Len(t) /\ s \o t \in Seq(S)
      /\ \A i \in 1 .. n : (s \o t)[i] = s[i]
      /\ \A i \in 1 .. Len(t) : (s \o t)[n + i] = t[i]
  BY Concat
<1> DEFINE u == s \o t
<1> HIDE DEF u
<1>5. DOMAIN u = 1 .. (n + Len(t)) /\ DOMAIN s = 1 .. n /\ DOMAIN t = 1 .. Len(t)
  BY <1>0, <1>4, SMT, SMTT(30) DEF u
<1>6. D = A \cup E
  <2>1. ASSUME NEW i \in D PROVE i \in A \/ i \in E
    <3>1. i \in 1 .. (n + Len(t)) /\ u[i] \in Y
      BY <1>5, Zenon DEF u
    <3>2. CASE i > n
      BY <3>2
    <3>3. CASE ~ (i > n)
      <4>1. i \in 1 .. n
        BY <1>0, <3>1, <3>3, SMT, SMTT(30)
      <4> QED BY <1>4, <1>5, <3>1, <4>1, ZenonT(40) DEF u
    <3> QED BY <3>2, <3>3, SMT, SMTT(30)
  <2>2. ASSUME NEW i \in A PROVE i \in D
    <3>1. i \in 1 .. n /\ s[i] \in Y
      BY <1>5, Zenon
    <3>2. i \in 1 .. (n + Len(t))
      BY <1>0, <3>1, SMT, SMTT(30)
    <3> QED BY <1>4, <1>5, <3>1, <3>2, ZenonT(40) DEF u
  <2> HIDE DEF D, A
  <2> QED BY <2>1, <2>2, SMT, SMTT(30)
<1>7. A \cap E = {}
  <2>1. ASSUME NEW i \in A, i \in E PROVE FALSE
    <3>1. i \in 1 .. n /\ i > n
      BY <1>5, <2>1, Zenon
    <3> QED BY <1>0, <3>1, SMT, SMTT(30)
  <2> HIDE DEF A, E
  <2> QED BY <2>1, Zenon
<1>8. ASSUME NEW i \in B PROVE i + n \in E
  <2>1. i \in 1 .. Len(t) /\ t[i] \in Y
    BY <1>5, Zenon
  <2>2. n + i \in 1 .. (n + Len(t)) /\ n + i > n /\ i + n = n + i
    BY <1>0, <2>1, SMT, SMTT(30)
  <2>3. n + i \in E
    BY <1>4, <1>5, <2>1, <2>2, ZenonT(40) DEF u
  <2> HIDE DEF E
  <2> QED BY <2>2, <2>3, SMT, SMTT(30)
<1>9. ASSUME NEW i \in E PROVE i - n \in B /\ (i - n) + n = i
  <2>1. i \in 1 .. (n + Len(t)) /\ u[i] \in Y /\ i > n
    BY <1>5, Zenon DEF u
  <2>2. i - n \in 1 .. Len(t) /\ n + (i - n) = i /\ (i - n) + n = i
    BY <1>0, <2>1, SMT, SMTT(30)
  <2>3. u[n + (i - n)] = t[i - n]
    BY <1>4, <2>2, ZenonT(40) DEF u
  <2>4. t[i - n] \in Y
    BY <2>1, <2>2, <2>3, SMT, SMTT(30)
  <2> QED BY <1>5, <2>2, <2>4, ZenonT(40)
<1>10. \A i, j \in B : i + n = j + n => i = j
  BY <1>0, <1>1, SMT, SMTT(30)
<1> HIDE DEF A, B, D, E, n
<1>11. f \in Bijection(B, E)
  <2>1. f \in [B -> E]
    BY <1>8, Zenon
  <2>2. \A i, j \in B : f[i] = f[j] => i = j
    BY <1>10, Zenon
  <2>3. \A j \in E : \E i \in B : f[i] = j
    <3>1. ASSUME NEW j \in E PROVE j - n \in B /\ f[j - n] = j
      BY <1>9
    <3> QED BY <3>1, Zenon
  <2> HIDE DEF f
  <2>4. DOMAIN f = B
    BY <2>1, Zenon
  <2>5. f \in Injection(B, E)
    BY <2>1, <2>2, <2>4, ZenonT(40) DEF Injection, IsInjective
  <2>6. f \in Surjection(B, E)
    BY <2>1, <2>3, Zenon DEF Surjection
  <2> QED BY <2>5, <2>6, Zenon DEF Bijection
<1> HIDE DEF f
<1>12. Cardinality(E) = Cardinality(B) /\ IsFiniteSet(E)
  <2>1. ExistsBijection(B, E)
    BY <1>11, Zenon DEF ExistsBijection
  <2> QED BY <1>3, <2>1, FS_Bijection, Zenon
<1>13. Cardinality(A) \in Nat /\ Cardinality(B) \in Nat
  BY <1>3, FS_CardinalityType, Zenon
<1>14. Cardinality(D) = Cardinality(A) + Cardinality(E)
  <2>1. /\ Cardinality(A \cup E) = Cardinality(A) + Cardinality(E) - Cardinality(A \cap E)
    BY <1>3, <1>12, FS_Union, ZenonT(40)
  <2>2. Cardinality(A \cap E) = 0
    BY <1>7, FS_EmptySet, Zenon
  <2>3. Cardinality(D) = Cardinality(A) + Cardinality(E) - 0
    BY <1>6, <2>1, <2>2, ZenonT(40)
  <2> QED BY <1>12, <1>13, <2>3, SMT, SMTT(30)
<1>15. Count(s, Y) = Cardinality(A) /\ Count(t, Y) = Cardinality(B) /\ Count(s \o t, Y) = Cardinality(D)
  BY Zenon DEF Count, A, B, D
<1> QED BY <1>12, <1>13, <1>14, <1>15, ZenonT(40)

\* The number of some symbols in no text and in one symbol.
LEMMA CountOne ==
    ASSUME NEW x, NEW Y
    PROVE  /\ Count(<<>>, Y) = 0
           /\ x \in Y => Count(<<x>>, Y) = 1
           /\ x \notin Y => Count(<<x>>, Y) = 0
<1>1. DOMAIN <<>> = {} /\ DOMAIN <<x>> = {1} /\ <<x>>[1] = x
  OBVIOUS
<1>2. {i \in DOMAIN <<>> : <<>>[i] \in Y} = {}
  BY <1>1, Zenon
<1>3. x \in Y => {i \in DOMAIN <<x>> : <<x>>[i] \in Y} = {1}
  BY <1>1
<1>4. x \notin Y => {i \in DOMAIN <<x>> : <<x>>[i] \in Y} = {}
  BY <1>1
<1>5. Cardinality({}) = 0 /\ Cardinality({1}) = 1
  BY FS_EmptySet, FS_Singleton, Zenon
<1> QED BY <1>2, <1>3, <1>4, <1>5, ZenonT(40) DEF Count

\* What is known of the sizes of texts.
LEMMA SizeHolds == SizeKnown
<1>1. Size(<<>>) = 0
  <2>1. Size(<<>>) = 0 + 2 * 0 + 0 + 2 * 0 + 4 * 0
    <3>1. Len(<<>>) = 0
      OBVIOUS
    <3> QED BY <3>1, CountOne, Zenon DEF Size
  <2>2. 0 + 2 * 0 + 0 + 2 * 0 + 4 * 0 = 0
    OBVIOUS
  <2> QED BY <2>1, <2>2, Zenon
<1>2. Len(<<"SET">>) = 1 /\ Len(<<"DEL">>) = 1 /\ Len(<<"VALUE">>) = 1 /\ Len(<<" ">>) = 1
  OBVIOUS
<1>3. Size(<<"SET">>) = 3
  <2>1. "SET" \in Word /\ "SET" \notin {"PING"} /\ "SET" \notin {"STATS"} /\ "SET" \notin {"VALUE"}
    BY DEF Word
  <2>2. /\ Count(<<"SET">>, Word) = 1 /\ Count(<<"SET">>, {"PING"}) = 0
        /\ Count(<<"SET">>, {"STATS"}) = 0 /\ Count(<<"SET">>, {"VALUE"}) = 0
    BY <2>1, CountOne, ZenonT(40)
  <2> QED BY <1>2, <2>2, SMT, SMTT(30) DEF Size
<1>4. Size(<<"DEL">>) = 3
  <2>1. "DEL" \in Word /\ "DEL" \notin {"PING"} /\ "DEL" \notin {"STATS"} /\ "DEL" \notin {"VALUE"}
    BY DEF Word
  <2>2. /\ Count(<<"DEL">>, Word) = 1 /\ Count(<<"DEL">>, {"PING"}) = 0
        /\ Count(<<"DEL">>, {"STATS"}) = 0 /\ Count(<<"DEL">>, {"VALUE"}) = 0
    BY <2>1, CountOne, ZenonT(40)
  <2> QED BY <1>2, <2>2, SMT, SMTT(30) DEF Size
<1>5. Size(<<"VALUE">>) = 5
  <2>1. "VALUE" \notin Word /\ "VALUE" \notin {"PING"} /\ "VALUE" \notin {"STATS"} /\ "VALUE" \in {"VALUE"}
    BY DEF Word
  <2>2. /\ Count(<<"VALUE">>, Word) = 0 /\ Count(<<"VALUE">>, {"PING"}) = 0
        /\ Count(<<"VALUE">>, {"STATS"}) = 0 /\ Count(<<"VALUE">>, {"VALUE"}) = 1
    BY <2>1, CountOne, Zenon
  <2> QED BY <1>2, <2>2, SMT, SMTT(30) DEF Size
<1>6. Size(<<" ">>) = 1
  <2>1. " " \notin Word /\ " " \notin {"PING"} /\ " " \notin {"STATS"} /\ " " \notin {"VALUE"}
    BY DEF Word
  <2>2. /\ Count(<<" ">>, Word) = 0 /\ Count(<<" ">>, {"PING"}) = 0
        /\ Count(<<" ">>, {"STATS"}) = 0 /\ Count(<<" ">>, {"VALUE"}) = 0
    BY <2>1, CountOne, Zenon
  <2>3. Size(<<" ">>) = 1 + 2 * 0 + 0 + 2 * 0 + 4 * 0
    BY <1>2, <2>2, Zenon DEF Size
  <2>4. 1 + 2 * 0 + 0 + 2 * 0 + 4 * 0 = 1
    OBVIOUS
  <2> QED BY <2>3, <2>4, Zenon
<1>7. ASSUME NEW S, NEW text \in Seq(S) PROVE Size(text) \in Nat /\ Len(text) <= Size(text)
  <2>1. \A Y : Count(text, Y) \in Nat
    BY CountLaws, Zenon
  <2>2. /\ Count(text, Word) \in Nat /\ Count(text, {"PING"}) \in Nat
        /\ Count(text, {"STATS"}) \in Nat /\ Count(text, {"VALUE"}) \in Nat /\ Len(text) \in Nat
    BY <2>1, LenNat, Zenon
  <2> QED BY <2>2, SMT, SMTT(30) DEF Size
<1>8. ASSUME NEW S, NEW s \in Seq(S), NEW t \in Seq(S) PROVE Size(s \o t) = Size(s) + Size(t)
  <2>1. \A Y : /\ Count(s, Y) \in Nat /\ Count(t, Y) \in Nat
               /\ Count(s \o t, Y) = Count(s, Y) + Count(t, Y)
    BY CountLaws, Zenon
  <2> DEFINE A == Word
             B == {"PING"}
             C == {"STATS"}
             D == {"VALUE"}
             u == s \o t
  <2>2. Len(u) = Len(s) + Len(t) /\ Len(s) \in Nat /\ Len(t) \in Nat
    BY Concat, LenNat, SMT, SMTT(30)
  <2>3. /\ Size(u) = Len(u) + 2 * Count(u, A) + Count(u, B) + 2 * Count(u, C) + 4 * Count(u, D)
        /\ Size(s) = Len(s) + 2 * Count(s, A) + Count(s, B) + 2 * Count(s, C) + 4 * Count(s, D)
        /\ Size(t) = Len(t) + 2 * Count(t, A) + Count(t, B) + 2 * Count(t, C) + 4 * Count(t, D)
    BY Zenon DEF Size
  <2> HIDE DEF A, B, C, D
  <2>4. /\ Count(u, A) = Count(s, A) + Count(t, A) /\ Count(s, A) \in Nat /\ Count(t, A) \in Nat
        /\ Count(u, B) = Count(s, B) + Count(t, B) /\ Count(s, B) \in Nat /\ Count(t, B) \in Nat
        /\ Count(u, C) = Count(s, C) + Count(t, C) /\ Count(s, C) \in Nat /\ Count(t, C) \in Nat
        /\ Count(u, D) = Count(s, D) + Count(t, D) /\ Count(s, D) \in Nat /\ Count(t, D) \in Nat
    BY <2>1, Zenon
  <2> HIDE DEF u
  <2>a. Size(u) = (Len(s) + Len(t)) + 2 * (Count(s, A) + Count(t, A)) + (Count(s, B) + Count(t, B))
                    + 2 * (Count(s, C) + Count(t, C)) + 4 * (Count(s, D) + Count(t, D))
    BY <2>2, <2>3, <2>4, ZenonT(40)
  <2> DEFINE l == Len(s)
             m == Len(t)
             a == Count(s, A)
             b == Count(s, B)
             c == Count(s, C)
             d == Count(s, D)
             e == Count(t, A)
             f == Count(t, B)
             g == Count(t, C)
             h == Count(t, D)
  <2>b. /\ Size(u) = (l + m) + 2 * (a + e) + (b + f) + 2 * (c + g) + 4 * (d + h)
        /\ Size(s) = l + 2 * a + b + 2 * c + 4 * d
        /\ Size(t) = m + 2 * e + f + 2 * g + 4 * h
    BY <2>a, <2>3, Zenon
  <2>c. /\ l \in Nat /\ a \in Nat /\ b \in Nat /\ c \in Nat /\ d \in Nat
        /\ m \in Nat /\ e \in Nat /\ f \in Nat /\ g \in Nat /\ h \in Nat
    BY <2>2, <2>4, ZenonT(40)
  <2> HIDE DEF l, m, a, b, c, d, e, f, g, h
  <2>5. Size(u) = Size(s) + Size(t)
    BY <2>b, <2>c, SMT, SMTT(30)
  <2> QED BY <2>5, Zenon DEF u
<1> QED BY <1>1, <1>3, <1>4, <1>5, <1>6, <1>7, <1>8, ZenonT(40) DEF SizeKnown

\* parse_command accepts the sentences of the grammar and nothing else, with the
\* meaning that the grammar gives them, whatever the length of the payload and the
\* symbols in it.
THEOREM ParserCorrect ==
    ASSUME NEW S, typed \in Seq(S)
    PROVE  ParserMatchesGrammar
<1>1. Matched(typed)
  BY GrammarIsMatched, LeastHolds, SizeHolds, Zenon
<1> QED BY <1>1, Zenon DEF Matched, ParserMatchesGrammar

\* What a request of any length stores fits the log, is read again as the command
\* that stored it, and fits an answer.
THEOREM StoredCorrect ==
    ASSUME NEW S, typed \in Seq(S)
    PROVE  StoredCanBeReplayedAndRead
<1> DEFINE T == S \cup Separator \cup {"VALUE"}
<1>1. S \subseteq T /\ Separator \subseteq T /\ HasValue(T)
  BY Zenon DEF HasValue
<1> HIDE DEF T
<1>2. typed \in Seq(T)
  BY <1>1
<1>3. Stored(typed)
  BY <1>1, <1>2, RecordedFits, LeastHolds, SizeHolds, ZenonT(40)
<1> QED BY <1>3, Zenon DEF Stored, StoredCanBeReplayedAndRead
=============================================================================
