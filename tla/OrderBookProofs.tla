-------------------------- MODULE OrderBookProofs --------------------------
(***************************************************************************)
(* What is proved about the order book and the engine's numbering, for any *)
(* ids, prices and quantities and any number of orders.                    *)
(***************************************************************************)
EXTENDS MatchingEngine, TLAPS

-----------------------------------------------------------------------------
(* Sequences. *)

\* What is in a concatenation.
LEMMA Concat ==
    ASSUME NEW S, NEW a \in Seq(S), NEW b \in Seq(S)
    PROVE  /\ a \o b \in Seq(S)
           /\ Len(a \o b) = Len(a) + Len(b)
           /\ \A i \in 1 .. Len(a) : (a \o b)[i] = a[i]
           /\ \A i \in 1 .. Len(b) : (a \o b)[Len(a) + i] = b[i]
<1>1. a \o b \in Seq(S)
  OBVIOUS
<1>2. Len(a \o b) = Len(a) + Len(b)
  OBVIOUS
<1>3. \A i \in 1 .. Len(a) : (a \o b)[i] = a[i]
  OBVIOUS
<1>4. \A i \in 1 .. Len(b) : (a \o b)[Len(a) + i] = b[i]
  OBVIOUS
<1> QED
  BY <1>1, <1>2, <1>3, <1>4

\* Erasing an element moves the later ones up by one place.
LEMMA Erased ==
    ASSUME NEW S, NEW s \in Seq(S), NEW k \in 1 .. Len(s)
    PROVE  /\ RemoveAt(s, k) \in Seq(S)
           /\ Len(RemoveAt(s, k)) = Len(s) - 1
           /\ \A i \in 1 .. k - 1 : RemoveAt(s, k)[i] = s[i]
           /\ \A i \in k .. Len(s) - 1 : RemoveAt(s, k)[i] = s[i + 1]
<1> DEFINE a == SubSeq(s, 1, k - 1)
           b == SubSeq(s, k + 1, Len(s))
           r == RemoveAt(s, k)
<1>1. a \in Seq(S) /\ Len(a) = k - 1 /\ \A i \in 1 .. k - 1 : a[i] = s[i]
  OBVIOUS
<1>2. b \in Seq(S) /\ Len(b) = Len(s) - k /\ \A i \in 1 .. Len(s) - k : b[i] = s[i + k]
  OBVIOUS
<1>3. r = a \o b
  BY DEF RemoveAt
<1> HIDE DEF a, b, r
<1>4. /\ r \in Seq(S)
      /\ Len(r) = Len(a) + Len(b)
      /\ \A i \in 1 .. Len(a) : r[i] = a[i]
      /\ \A i \in 1 .. Len(b) : r[Len(a) + i] = b[i]
  <2>1. /\ a \o b \in Seq(S)
        /\ Len(a \o b) = Len(a) + Len(b)
        /\ \A i \in 1 .. Len(a) : (a \o b)[i] = a[i]
        /\ \A i \in 1 .. Len(b) : (a \o b)[Len(a) + i] = b[i]
    <3>1. a \in Seq(S) /\ b \in Seq(S)
      BY <1>1, <1>2
    <3> HIDE <1>1, <1>2
    <3> QED
      BY <3>1, Concat
  <2> QED
    BY <1>3, <2>1, Zenon
<1>5. \A i \in k .. Len(s) - 1 : r[i] = s[i + 1]
  <2> TAKE i \in k .. Len(s) - 1
  <2>1. i - (k - 1) \in 1 .. Len(b) /\ Len(a) + (i - (k - 1)) = i
    BY <1>1, <1>2
  <2>2. r[i] = b[i - (k - 1)]
    BY <1>4, <2>1, Zenon
  <2>3. b[i - (k - 1)] = s[(i - (k - 1)) + k]
    BY <1>2, <2>1
  <2>4. (i - (k - 1)) + k = i + 1
    OBVIOUS
  <2> QED
    BY <2>2, <2>3, <2>4
<1>6. \A i \in 1 .. k - 1 : r[i] = s[i]
  BY <1>1, <1>4
<1>7. Len(r) = Len(s) - 1
  BY <1>1, <1>2, <1>4
<1> QED
  BY <1>4, <1>5, <1>6, <1>7 DEF r

\* One element is replaced.
LEMMA Updated ==
    ASSUME NEW f \in Seq(Nat), NEW a \in 1 .. Len(f), NEW v \in Nat
    PROVE  /\ [f EXCEPT ![a] = v] \in Seq(Nat)
           /\ Len([f EXCEPT ![a] = v]) = Len(f)
           /\ \A i \in 1 .. Len(f) : [f EXCEPT ![a] = v][i] = IF i = a THEN v ELSE f[i]
OBVIOUS

-----------------------------------------------------------------------------
(* Levels.  An entry is an order as the book has it. *)

Entry ==
    [id : Id, side : Side, price : Price, quantity : Nat, sequence : Nat,
     tif : {"GTC", "IOC"}, arrival : Nat]

\* The orders of one side at one price, first come first.
Queue(l, s, p) ==
    /\ l \in Seq(Entry)
    /\ \A i \in 1 .. Len(l) : l[i].side = s /\ l[i].price = p
    /\ \A i, j \in 1 .. Len(l) : i < j => l[i].arrival < l[j].arrival

\* The members of a sequence.
LEMMA InRange ==
    ASSUME NEW l \in Seq(Entry)
    PROVE  \A o : o \in Range(l) <=> \E i \in 1 .. Len(l) : o = l[i]
<1>1. DOMAIN l = 1 .. Len(l)
  OBVIOUS
<1> QED
  BY <1>1, Zenon DEF Range

\* Orders of a queue that arrived together are one order.
LEMMA QueueDistinct ==
    ASSUME NEW l, NEW s, NEW p, Queue(l, s, p), NEW i \in 1 .. Len(l), NEW j \in 1 .. Len(l), i # j
    PROVE  l[i] # l[j]
<1>1. l[i] \in Entry /\ l[j] \in Entry
  BY DEF Queue
<1>2. l[i].arrival \in Nat /\ l[j].arrival \in Nat
  BY <1>1 DEF Entry
<1>3. i < j \/ j < i
  OBVIOUS
<1>4. l[i].arrival < l[j].arrival \/ l[j].arrival < l[i].arrival
  BY <1>3 DEF Queue
<1> QED
  BY <1>2, <1>4

\* Erasing an order leaves a queue of the others.
LEMMA QueueErased ==
    ASSUME NEW l, NEW s, NEW p, Queue(l, s, p), NEW k \in 1 .. Len(l)
    PROVE  /\ Queue(RemoveAt(l, k), s, p)
           /\ Range(RemoveAt(l, k)) = Range(l) \ {l[k]}
<1> DEFINE r == RemoveAt(l, k)
           Old(i) == IF i < k THEN i ELSE i + 1
<1>0. l \in Seq(Entry)
  BY DEF Queue
<1>1. /\ r \in Seq(Entry) /\ Len(r) = Len(l) - 1
      /\ \A i \in 1 .. k - 1 : r[i] = l[i]
      /\ \A i \in k .. Len(l) - 1 : r[i] = l[i + 1]
  BY <1>0, Erased, Zenon
<1> HIDE DEF r
<1>2. \A i \in 1 .. Len(r) : Old(i) \in 1 .. Len(l) /\ Old(i) # k /\ r[i] = l[Old(i)]
  BY <1>0, <1>1
<1>3. \A i, j \in 1 .. Len(r) : i < j => Old(i) < Old(j)
  BY <1>0, <1>1
<1>4. \A m \in 1 .. Len(l) : m # k => \E i \in 1 .. Len(r) : Old(i) = m
  <2> TAKE m \in 1 .. Len(l)
  <2> HAVE m # k
  <2>1. CASE m < k
    <3>1. m \in 1 .. Len(r) /\ Old(m) = m
      BY <1>0, <1>1, <2>1
    <3> QED
      BY <3>1, Zenon
  <2>2. CASE m > k
    <3>1. m - 1 \in 1 .. Len(r) /\ Old(m - 1) = m
      BY <1>0, <1>1, <2>2
    <3> QED
      BY <3>1, Zenon
  <2> QED
    BY <2>1, <2>2
<1> HIDE DEF Old
<1>5. Queue(r, s, p)
  <2>1. \A i \in 1 .. Len(r) : r[i].side = s /\ r[i].price = p
    BY <1>2, Zenon DEF Queue
  <2>2. \A i, j \in 1 .. Len(r) : i < j => r[i].arrival < r[j].arrival
    BY <1>2, <1>3, Zenon DEF Queue
  <2> QED
    BY <1>1, <2>1, <2>2, Zenon DEF Queue
<1>6. \A o : o \in Range(r) <=> o \in Range(l) \ {l[k]}
  <2> TAKE o
  <2>1. ASSUME o \in Range(r) PROVE o \in Range(l) /\ o # l[k]
    <3>1. PICK i \in 1 .. Len(r) : o = r[i]
      BY <1>1, <2>1, InRange
    <3>2. l[Old(i)] # l[k] /\ o = l[Old(i)] /\ Old(i) \in 1 .. Len(l)
      <4>1. Old(i) \in 1 .. Len(l) /\ Old(i) # k /\ r[i] = l[Old(i)]
        BY <1>2, Zenon
      <4>2. l[Old(i)] # l[k]
        BY <4>1, QueueDistinct
      <4> QED
        BY <3>1, <4>1, <4>2, Zenon
    <3> QED
      BY <1>0, <3>2, InRange, Zenon
  <2>2. ASSUME o \in Range(l), o # l[k] PROVE o \in Range(r)
    <3>1. PICK m \in 1 .. Len(l) : o = l[m]
      BY <1>0, <2>2, InRange, Zenon
    <3>2. m # k
      BY <2>2, <3>1, Zenon
    <3>3. PICK i \in 1 .. Len(r) : Old(i) = m
      BY <1>4, <3>2, Zenon
    <3>4. o = r[i]
      BY <1>2, <3>1, <3>3, Zenon
    <3> QED
      BY <1>1, <3>4, InRange, Zenon
  <2> QED
    BY <2>1, <2>2, Zenon
<1>7. Range(r) = Range(l) \ {l[k]}
  BY <1>6
<1> QED
  BY <1>5, <1>7 DEF r

\* The first order leaves when it is used up.
LEMMA QueueTail ==
    ASSUME NEW l, NEW s, NEW p, Queue(l, s, p), l # << >>
    PROVE  /\ Queue(Tail(l), s, p)
           /\ Range(Tail(l)) = Range(l) \ {l[1]}
<1>1. l \in Seq(Entry) /\ 1 \in 1 .. Len(l)
  BY DEF Queue
<1>2. RemoveAt(l, 1) = Tail(l)
  <2> DEFINE r == RemoveAt(l, 1)
  <2>1. /\ r \in Seq(Entry) /\ Len(r) = Len(l) - 1
        /\ \A i \in 1 .. Len(l) - 1 : r[i] = l[i + 1]
    BY <1>1, Erased
  <2>2. /\ Tail(l) \in Seq(Entry) /\ Len(Tail(l)) = Len(l) - 1
        /\ \A i \in 1 .. Len(l) - 1 : Tail(l)[i] = l[i + 1]
    BY <1>1
  <2> HIDE DEF r
  <2>3. r = Tail(l)
    BY <2>1, <2>2
  <2> QED
    BY <2>3 DEF r
<1>3. Queue(RemoveAt(l, 1), s, p) /\ Range(RemoveAt(l, 1)) = Range(l) \ {l[1]}
  BY <1>1, QueueErased
<1> QED
  BY <1>2, <1>3, Zenon

\* A new order goes behind the others.
LEMMA QueueAppend ==
    ASSUME NEW l, NEW s, NEW p, Queue(l, s, p), NEW e \in Entry, e.side = s, e.price = p,
           \A o \in Range(l) : o.arrival < e.arrival
    PROVE  /\ Queue(Append(l, e), s, p)
           /\ Range(Append(l, e)) = Range(l) \cup {e}
<1> DEFINE a == Append(l, e)
<1>0. l \in Seq(Entry) /\ \A i \in 1 .. Len(l) : l[i].side = s /\ l[i].price = p
  BY DEF Queue
<1>1. /\ a \in Seq(Entry) /\ Len(a) = Len(l) + 1
      /\ \A i \in 1 .. Len(l) : a[i] = l[i]
      /\ a[Len(l) + 1] = e
  BY <1>0
<1> HIDE DEF a
<1>2. \A i \in 1 .. Len(l) : l[i].arrival < e.arrival
  BY <1>0, InRange, Zenon
<1>3. \A i \in 1 .. Len(a) : a[i].side = s /\ a[i].price = p
  BY <1>0, <1>1
<1>4. \A i, j \in 1 .. Len(a) : i < j => a[i].arrival < a[j].arrival
  <2> TAKE i, j \in 1 .. Len(a)
  <2> HAVE i < j
  <2>1. i \in 1 .. Len(l) /\ (j \in 1 .. Len(l) \/ j = Len(l) + 1)
    BY <1>0, <1>1, SMT, SMTT(30)
  <2> QED
    BY <1>1, <1>2, <2>1 DEF Queue
<1>5. Queue(a, s, p)
  BY <1>1, <1>3, <1>4, Zenon DEF Queue
<1>6. \A i \in 1 .. Len(a) : i \in 1 .. Len(l) \/ i = Len(l) + 1
  BY <1>0, <1>1
<1>7. (\A i \in 1 .. Len(l) : i \in 1 .. Len(a)) /\ Len(l) + 1 \in 1 .. Len(a)
  BY <1>0, <1>1
<1>8. \A o : o \in Range(a) <=> o \in Range(l) \cup {e}
  <2> TAKE o
  <2>1. ASSUME o \in Range(a) PROVE o \in Range(l) \cup {e}
    <3>1. PICK i \in 1 .. Len(a) : o = a[i]
      BY <1>1, <2>1, InRange
    <3> QED
      BY <1>0, <1>1, <1>6, <3>1, InRange, Zenon
  <2>2. ASSUME o \in Range(l) PROVE o \in Range(a)
    <3>1. PICK i \in 1 .. Len(l) : o = l[i]
      BY <1>0, <2>2, InRange
    <3> QED
      BY <1>1, <1>7, <3>1, InRange, Zenon
  <2>3. e \in Range(a)
    BY <1>1, <1>7, InRange, Zenon
  <2> QED
    BY <2>1, <2>2, <2>3, Zenon
<1>9. Range(a) = Range(l) \cup {e}
  BY <1>8
<1> QED
  BY <1>5, <1>9 DEF a

\* The first order of a queue has traded, and something is left of it.
LEMMA QueueReduced ==
    ASSUME NEW l, NEW s, NEW p, Queue(l, s, p), l # << >>, NEW n \in Nat,
           n <= l[1].quantity
    PROVE  LET e == [l[1] EXCEPT !.quantity = @ - n]
               r == [l EXCEPT ![1].quantity = @ - n]
           IN  /\ Queue(r, s, p) /\ e \in Entry /\ r # << >>
               /\ Range(r) = (Range(l) \ {l[1]}) \cup {e}
<1> DEFINE e == [l[1] EXCEPT !.quantity = @ - n]
           r == [l EXCEPT ![1].quantity = @ - n]
<1>0. l \in Seq(Entry) /\ 1 \in 1 .. Len(l)
  BY DEF Queue
<1>1. l[1] \in Entry
  BY <1>0
<1>2. e \in Entry /\ e.side = l[1].side /\ e.price = l[1].price /\ e.arrival = l[1].arrival
  BY <1>1 DEF Entry
<1>3. r = [l EXCEPT ![1] = e]
  BY <1>0
<1> HIDE DEF e, r
<1>4. /\ r \in Seq(Entry) /\ Len(r) = Len(l)
      /\ r[1] = e /\ \A i \in 1 .. Len(l) : i # 1 => r[i] = l[i]
  BY <1>0, <1>2, <1>3
<1>5. \A i \in 1 .. Len(l) : r[i].side = l[i].side /\ r[i].price = l[i].price /\ r[i].arrival = l[i].arrival
  BY <1>2, <1>4, Zenon
<1>6. Queue(r, s, p)
  BY <1>4, <1>5, Zenon DEF Queue
<1>7. \A o : o \in Range(r) <=> o \in (Range(l) \ {l[1]}) \cup {e}
  <2> TAKE o
  <2>1. ASSUME o \in Range(r) PROVE o \in (Range(l) \ {l[1]}) \cup {e}
    <3>1. PICK i \in 1 .. Len(l) : o = r[i]
      BY <1>4, <2>1, InRange
    <3>2. CASE i = 1
      BY <1>4, <3>1, <3>2, Zenon
    <3>3. CASE i # 1
      <4>1. l[i] # l[1]
        BY <1>0, <3>3, QueueDistinct
      <4>2. o = l[i]
        BY <1>4, <3>1, <3>3, Zenon
      <4> QED
        BY <1>0, <4>1, <4>2, InRange, Zenon
    <3> QED
      BY <3>2, <3>3, Zenon
  <2>2. ASSUME o \in Range(l), o # l[1] PROVE o \in Range(r)
    <3>1. PICK i \in 1 .. Len(l) : o = l[i]
      BY <1>0, <2>2, InRange
    <3>2. o = r[i] /\ i \in 1 .. Len(r)
      BY <1>4, <2>2, <3>1, Zenon
    <3> QED
      BY <1>4, <3>2, InRange, Zenon
  <2>3. e \in Range(r)
    <3>1. 1 \in 1 .. Len(r) /\ e = r[1]
      BY <1>0, <1>4, Zenon
    <3> QED
      BY <1>4, <3>1, InRange, Zenon
  <2> QED
    BY <2>1, <2>2, <2>3, Zenon
<1>8. Range(r) = (Range(l) \ {l[1]}) \cup {e}
  BY <1>7
<1>9. r # << >>
  BY <1>0, <1>4
<1> QED
  BY <1>2, <1>6, <1>8, <1>9, Zenon DEF e, r

-----------------------------------------------------------------------------
(* The two sides of the book. *)

\* One side: finitely many levels, so that one of them is the best, none of them
\* empty, and each a queue of orders with its own side and price.
SideOK(f, s) ==
    /\ DOMAIN f \subseteq Price
    /\ \E m \in Price \cup {0} : \A p \in DOMAIN f : p <= m
    /\ \A p \in DOMAIN f : Queue(f[p], s, p) /\ f[p] # << >>

BookOK == DOMAIN book = Side /\ \A s \in Side : SideOK(book[s], s)

\* The orders of a side are those of its levels.
LEMMA InOrders ==
    ASSUME NEW f
    PROVE  \A o : o \in Orders(f) <=> \E p \in DOMAIN f : o \in Range(f[p])
BY Zenon DEF Orders

\* An order of a side has its side and lies at its price.
LEMMA OrderPlaced ==
    ASSUME NEW f, NEW s, SideOK(f, s), NEW o \in Orders(f)
    PROVE  /\ o \in Entry /\ o.side = s
           /\ o.price \in DOMAIN f /\ o \in Range(f[o.price])
<1>1. PICK p \in DOMAIN f : o \in Range(f[p])
  BY InOrders, Zenon
<1>2. Queue(f[p], s, p)
  BY Zenon DEF SideOK
<1>3. f[p] \in Seq(Entry)
  BY <1>2, Zenon DEF Queue
<1>4. PICK i \in 1 .. Len(f[p]) : o = f[p][i]
  BY <1>1, <1>3, InRange
<1>5. o \in Entry
  BY <1>3, <1>4
<1>6. o.side = s /\ o.price = p
  BY <1>2, <1>4, Zenon DEF Queue
<1> QED
  BY <1>1, <1>5, <1>6, Zenon

\* Replacing a level by a queue, or by nothing.
LEMMA SetLevelOK ==
    ASSUME NEW f, NEW s, SideOK(f, s), NEW p \in Price, NEW l, Queue(l, s, p)
    PROVE  LET g == SetLevel(f, p, l)
           IN  /\ SideOK(g, s)
               /\ \A q \in Price : q \in DOMAIN g <=> IF q = p THEN l # << >> ELSE q \in DOMAIN f
               /\ \A o : o \in Orders(g) <=>
                           \/ o \in Orders(f) /\ o.price # p
                           \/ o \in Range(l)
<1> DEFINE g == SetLevel(f, p, l)
<1>1. CASE l = << >>
  <2>1. DOMAIN g = DOMAIN f \ {p} /\ \A q \in DOMAIN g : g[q] = f[q]
    BY <1>1, Zenon DEF SetLevel, Restrict
  <2> HIDE DEF g
  <2>2. SideOK(g, s)
    BY <2>1, Zenon DEF SideOK
  <2>3. \A o : o \notin Range(l)
    <3>1. l \in Seq(Entry)
      BY Zenon DEF Queue
    <3>2. Len(l) = 0
      BY <1>1
    <3>3. \A i \in 1 .. Len(l) : FALSE
      BY <3>2
    <3> QED
      BY <3>1, <3>3, InRange, Zenon
  <2>4. ASSUME NEW o, o \in Orders(g) PROVE o \in Orders(f) /\ o.price # p
    <3>1. PICK q \in DOMAIN g : o \in Range(g[q])
      BY <2>4, InOrders, Zenon
    <3>2. o.price \in DOMAIN g
      BY <2>2, <2>4, OrderPlaced, Zenon
    <3> QED
      BY <2>1, <3>1, <3>2, InOrders, Zenon
  <2>5. ASSUME NEW o, o \in Orders(f), o.price # p PROVE o \in Orders(g)
    <3>1. o.price \in DOMAIN f /\ o \in Range(f[o.price])
      BY <2>5, OrderPlaced, Zenon
    <3> QED
      BY <2>1, <2>5, <3>1, InOrders, Zenon
  <2>6. \A q \in Price : q \in DOMAIN g <=> IF q = p THEN l # << >> ELSE q \in DOMAIN f
    BY <1>1, <2>1
  <2> QED
    BY <2>2, <2>3, <2>4, <2>5, <2>6, Zenon DEF g
<1>2. CASE l # << >>
  <2>1. /\ DOMAIN g = DOMAIN f \cup {p}
        /\ g[p] = l /\ \A q \in DOMAIN f : q # p => g[q] = f[q]
    BY <1>2, Zenon DEF SetLevel
  <2> HIDE DEF g
  <2>2. SideOK(g, s)
    <3>1. PICK m \in Price \cup {0} : \A q \in DOMAIN f : q <= m
      BY Zenon DEF SideOK
    <3>2. DOMAIN f \subseteq Price
      BY Zenon DEF SideOK
    <3>3. \E n \in Price \cup {0} : \A q \in DOMAIN g : q <= n
      <4>1. CASE p <= m
        BY <2>1, <3>1, <4>1
      <4>2. CASE ~(p <= m)
        <5>1. Price \subseteq Nat /\ m \in Nat /\ p \in Nat /\ m <= p
          BY <4>2, BookAssumption
        <5>2. \A q \in DOMAIN f : q \in Nat /\ q <= m
          BY <3>1, <3>2, <5>1, Zenon
        <5>3. \A q \in DOMAIN f : q <= p
          BY <5>1, <5>2
        <5>4. \A q \in DOMAIN g : q <= p
          BY <2>1, <5>1, <5>3
        <5> QED
          BY <5>4, Zenon
      <4> QED
        BY <4>1, <4>2, Zenon
    <3>4. \A q \in DOMAIN g : Queue(g[q], s, q) /\ g[q] # << >>
      BY <1>2, <2>1, Zenon DEF SideOK
    <3> QED
      BY <2>1, <3>2, <3>3, <3>4, Zenon DEF SideOK
  <2>4. ASSUME NEW o, o \in Orders(g) PROVE o \in Range(l) \/ (o \in Orders(f) /\ o.price # p)
    <3>1. o.price \in DOMAIN g /\ o \in Range(g[o.price])
      BY <2>2, <2>4, OrderPlaced, Zenon
    <3> QED
      BY <2>1, <3>1, InOrders, Zenon
  <2>5. ASSUME NEW o, o \in Orders(f), o.price # p PROVE o \in Orders(g)
    <3>1. o.price \in DOMAIN f /\ o \in Range(f[o.price])
      BY <2>5, OrderPlaced, Zenon
    <3> QED
      BY <2>1, <2>5, <3>1, InOrders, Zenon
  <2>6. ASSUME NEW o, o \in Range(l) PROVE o \in Orders(g)
    BY <2>1, <2>6, InOrders, Zenon
  <2>7. \A q \in Price : q \in DOMAIN g <=> IF q = p THEN l # << >> ELSE q \in DOMAIN f
    BY <1>2, <2>1
  <2> QED
    BY <2>2, <2>4, <2>5, <2>6, <2>7, Zenon DEF g
<1> QED
  BY <1>1, <1>2, Zenon

\* The resting orders are those of the two sides.
LEMMA InResting ==
    \A o : o \in Resting <=> \E s \in Side : o \in Orders(book[s])
BY Zenon DEF Resting

\* What is known of a resting order.
LEMMA RestingPlaced ==
    ASSUME BookOK, NEW o \in Resting
    PROVE  /\ o \in Entry /\ o.side \in Side
           /\ o.price \in DOMAIN book[o.side] /\ o \in Range(book[o.side][o.price])
<1>1. PICK s \in Side : o \in Orders(book[s])
  BY InResting, Zenon
<1>2. SideOK(book[s], s)
  BY Zenon DEF BookOK
<1>3. o \in Entry /\ o.side = s /\ o.price \in DOMAIN book[s] /\ o \in Range(book[s][o.price])
  BY <1>1, <1>2, OrderPlaced
<1> QED
  BY <1>3, Zenon

\* The orders at a level are those that rest with its side and price.
LEMMA AtLevel ==
    ASSUME BookOK, NEW s \in Side, NEW p \in DOMAIN book[s]
    PROVE  \A o : o \in Range(book[s][p]) <=> o \in Resting /\ o.side = s /\ o.price = p
<1>1. SideOK(book[s], s)
  BY Zenon DEF BookOK
<1>2. Queue(book[s][p], s, p) /\ book[s][p] \in Seq(Entry)
  BY <1>1, Zenon DEF SideOK, Queue
<1> TAKE o
<1>3. ASSUME o \in Range(book[s][p]) PROVE o \in Resting /\ o.side = s /\ o.price = p
  <2>1. o \in Orders(book[s])
    BY <1>3, InOrders, Zenon
  <2>2. PICK i \in 1 .. Len(book[s][p]) : o = book[s][p][i]
    BY <1>2, <1>3, InRange
  <2> QED
    BY <1>2, <2>1, <2>2, InResting, Zenon DEF Queue
<1>4. ASSUME o \in Resting, o.side = s, o.price = p PROVE o \in Range(book[s][p])
  BY <1>4, RestingPlaced, Zenon
<1> QED
  BY <1>3, <1>4, Zenon

\* A step that replaces one level of the book.
LEMMA ReplaceLevel ==
    ASSUME BookOK, NEW s \in Side, NEW p \in Price, NEW l, Queue(l, s, p),
           book' = [book EXCEPT ![s] = SetLevel(@, p, l)]
    PROVE  /\ BookOK'
           /\ \A t \in Side : \A q \in Price :
                q \in DOMAIN book'[t] <=> IF t = s /\ q = p THEN l # << >> ELSE q \in DOMAIN book[t]
           /\ \A o : o \in Resting' <=>
                       \/ o \in Resting /\ ~(o.side = s /\ o.price = p)
                       \/ o \in Range(l)
<1> DEFINE g == SetLevel(book[s], p, l)
<1>0. DOMAIN book = Side /\ \A t \in Side : SideOK(book[t], t)
  BY Zenon DEF BookOK
<1>1. DOMAIN book' = Side /\ book'[s] = g /\ \A t \in Side : t # s => book'[t] = book[t]
  BY <1>0
<1>2. /\ SideOK(g, s)
      /\ \A q \in Price : q \in DOMAIN g <=> IF q = p THEN l # << >> ELSE q \in DOMAIN book[s]
      /\ \A o : o \in Orders(g) <=>
                  \/ o \in Orders(book[s]) /\ o.price # p
                  \/ o \in Range(l)
  BY <1>0, SetLevelOK
<1> HIDE DEF g
<1>3. \A t \in Side : SideOK(book'[t], t)
  BY <1>0, <1>1, <1>2, Zenon
<1>4. BookOK'
  BY <1>1, <1>3, Zenon DEF BookOK
<1>5. \A t \in Side : \A q \in Price :
         q \in DOMAIN book'[t] <=> IF t = s /\ q = p THEN l # << >> ELSE q \in DOMAIN book[t]
  BY <1>1, <1>2
<1>6. \A o : o \in Resting' <=> \E t \in Side : o \in Orders(book'[t])
  BY Zenon DEF Resting
<1>7. \A o : \A t \in Side : o \in Orders(book[t]) => o.side = t
  BY <1>0, OrderPlaced
<1>8. ASSUME NEW o, o \in Resting'
      PROVE  (o \in Resting /\ ~(o.side = s /\ o.price = p)) \/ o \in Range(l)
  <2>1. PICK t \in Side : o \in Orders(book'[t])
    BY <1>6, <1>8, Zenon
  <2>2. CASE t = s
    BY <1>1, <1>2, <2>1, <2>2, InResting, Zenon
  <2>3. CASE t # s
    BY <1>1, <1>7, <2>1, <2>3, InResting, Zenon
  <2> QED
    BY <2>2, <2>3, Zenon
<1>9. ASSUME NEW o, o \in Resting, ~(o.side = s /\ o.price = p) PROVE o \in Resting'
  <2>1. PICK t \in Side : o \in Orders(book[t])
    BY <1>9, InResting, Zenon
  <2>2. CASE t = s
    <3>1. o \in Orders(g)
      BY <1>2, <1>7, <1>9, <2>1, <2>2, Zenon
    <3> QED
      BY <1>1, <1>6, <3>1, Zenon
  <2>3. CASE t # s
    BY <1>1, <1>6, <2>1, <2>3, Zenon
  <2> QED
    BY <2>2, <2>3, Zenon
<1>10. ASSUME NEW o, o \in Range(l) PROVE o \in Resting'
  BY <1>1, <1>2, <1>6, <1>10, Zenon
<1> QED
  BY <1>4, <1>5, <1>8, <1>9, <1>10, Zenon

-----------------------------------------------------------------------------
(* The best level. *)

\* Every set of natural numbers that is not empty has a least member.  It is
\* proved at the end (LeastHolds), and a hypothesis until then.
LeastNumber == \A T \in SUBSET Nat : T # {} => \E n \in T : \A m \in T : n <= m

\* A side with levels has a best one.
LEMMA BestExists ==
    ASSUME LeastNumber, NEW f, NEW s \in Side, SideOK(f, s), DOMAIN f # {}
    PROVE  \E p \in DOMAIN f : \A q \in DOMAIN f : q # p => Better(s, p, q)
<1>0. Price \subseteq Nat /\ DOMAIN f \subseteq Nat
  BY BookAssumption, SMT, SMTT(30) DEF SideOK
<1>1. CASE s = "sell"
  <2>1. PICK p \in DOMAIN f : \A q \in DOMAIN f : p <= q
    BY <1>0, Zenon DEF LeastNumber
  <2>2. \A q \in DOMAIN f : q # p => p < q
    BY <1>0, <2>1
  <2> QED
    BY <1>1, <2>2 DEF Better
<1>2. CASE s = "buy"
  <2> DEFINE T == {n \in Nat : \A q \in DOMAIN f : q <= n}
  <2>1. T \in SUBSET Nat /\ T # {}
    <3>1. PICK m \in Price \cup {0} : \A p \in DOMAIN f : p <= m
      BY Zenon DEF SideOK
    <3>2. m \in Nat
      BY <1>0
    <3> QED
      BY <3>1, <3>2
  <2>2. PICK n \in T : \A m \in T : n <= m
    BY <2>1, Zenon DEF LeastNumber
  <2>3. n \in DOMAIN f
    <3> SUFFICES ASSUME n \notin DOMAIN f PROVE FALSE
      BY Zenon
    <3>1. PICK q \in DOMAIN f : TRUE
      OBVIOUS
    <3>2. \A r \in DOMAIN f : r \in Nat /\ r <= n /\ r # n
      BY <1>0, <2>2
    <3>3. n - 1 \in Nat /\ \A r \in DOMAIN f : r <= n - 1
      BY <2>2, <3>1, <3>2
    <3>4. n - 1 \in T
      BY <3>3
    <3> QED
      BY <2>2, <3>4
  <2>4. \A q \in DOMAIN f : q # n => n > q
    BY <1>0, <2>2
  <2> QED
    BY <1>2, <2>3, <2>4 DEF Better
<1> QED
  BY <1>1, <1>2 DEF Side

\* begin() of a side that is not empty is its best level.
LEMMA BestIs ==
    ASSUME LeastNumber, BookOK, NEW s \in Side, DOMAIN book[s] # {}
    PROVE  Best(s) \in DOMAIN book[s] /\ \A q \in DOMAIN book[s] : q # Best(s) => Better(s, Best(s), q)
<1>1. SideOK(book[s], s)
  BY Zenon DEF BookOK
<1>2. \E p \in DOMAIN book[s] : \A q \in DOMAIN book[s] : q # p => Better(s, p, q)
  BY <1>1, BestExists
<1> QED
  BY <1>2, Zenon DEF Best

-----------------------------------------------------------------------------
(* The invariant. *)

\* The orders that may still trade: those that rest and the one in submit.
Present == Resting \cup ({taker} \ {NoOrder})

\* No bid reaches an ask, also while an order is in the loop.
Uncrossed == \A b \in DOMAIN book["buy"] : \A a \in DOMAIN book["sell"] : b < a

Histories ==
    /\ offered \in Seq(Nat) /\ filled \in Seq(Nat) /\ gone \in Seq(Nat)
    /\ Len(filled) = Len(offered) /\ Len(gone) = Len(offered)

\* The order in submit is the last that came, and its id is free.
TakerOK ==
    taker # NoOrder =>
        /\ taker \in Entry /\ taker.id \notin DOMAIN live
        /\ taker.arrival = Len(offered) /\ Len(offered) > 0
        /\ \A o \in Resting : o.arrival < taker.arrival

\* live_orders_ and the book say the same, and ids and arrivals are unique.
Index ==
    /\ DOMAIN live \subseteq Id
    /\ \A o \in Resting :
         /\ o.quantity > 0 /\ o.arrival \in 1 .. Len(offered)
         /\ o.id \in DOMAIN live /\ live[o.id] = o.side
    /\ \A id \in DOMAIN live : \E o \in Resting : o.id = id
    /\ \A o, u \in Resting : o.id = u.id \/ o.arrival = u.arrival => o = u

\* An order that may still trade has lost only what it traded, and any other
\* has traded, or given up, all that it offered.
Balance ==
    /\ \A o \in Present :
         gone[o.arrival] = 0 /\ offered[o.arrival] = filled[o.arrival] + o.quantity
    /\ \A n \in 1 .. Len(offered) :
         offered[n] = filled[n] + gone[n] \/ \E o \in Present : o.arrival = n

IInv == BookOK /\ Uncrossed /\ Histories /\ TakerOK /\ Index /\ Balance

\* What submit of a book is called with: the engine's numbers are natural.
Arriving ==
    [id : Id, side : Side, price : Price, quantity : Quantity, sequence : Nat,
     tif : {"GTC", "IOC"}]

\* The value that stands for "no order" is not an order.
LEMMA NoOrderIsNone == NoOrder \notin Entry
<1>1. Price \subseteq Nat
  BY BookAssumption
<1>2. Entry \subseteq [id : Id, side : Side, price : Nat, quantity : Nat, sequence : Nat,
                       tif : {"GTC", "IOC"}, arrival : Nat]
  BY <1>1, Zenon DEF Entry
<1> QED
  BY <1>2, BookAssumption, Zenon

\* An order may still trade if it rests or is the one in submit.
LEMMA InPresent ==
    \A o : o \in Present <=> o \in Resting \/ (o = taker /\ taker # NoOrder)
BY Zenon DEF Present

\* What is known of an order that may still trade.
LEMMA PresentTyped ==
    ASSUME BookOK, TakerOK, Index, Histories, NEW o \in Present
    PROVE  o \in Entry /\ o.arrival \in 1 .. Len(offered)
<1>1. CASE o \in Resting
  BY <1>1, RestingPlaced DEF Index
<1>2. CASE o = taker /\ taker # NoOrder
  <2>1. Len(offered) \in Nat
    BY DEF Histories
  <2> QED
    BY <1>2, <2>1 DEF TakerOK
<1> QED
  BY <1>1, <1>2, InPresent, Zenon

\* Two orders that may still trade did not arrive together.
LEMMA PresentDistinct ==
    ASSUME BookOK, TakerOK, Index, Histories, NEW o \in Present, NEW u \in Present,
           o.arrival = u.arrival
    PROVE  o = u
<1>1. \A v \in Resting : taker # NoOrder => v.arrival # taker.arrival
  <2> SUFFICES ASSUME NEW v \in Resting, taker # NoOrder PROVE v.arrival # taker.arrival
    BY Zenon
  <2>1. v.arrival \in Nat /\ taker.arrival \in Nat /\ v.arrival < taker.arrival
    BY RestingPlaced DEF TakerOK, Entry
  <2> QED
    BY <2>1
<1>2. o \in Resting \/ (o = taker /\ taker # NoOrder)
  BY InPresent, Zenon
<1>3. u \in Resting \/ (u = taker /\ taker # NoOrder)
  BY InPresent, Zenon
<1>4. CASE o \in Resting /\ u \in Resting
  BY <1>4, Zenon DEF Index
<1> QED
  BY <1>1, <1>2, <1>3, <1>4, Zenon

-----------------------------------------------------------------------------
(* What the steps do to the book. *)

\* There are two sides.
LEMMA OppositeSide ==
    ASSUME NEW s \in Side
    PROVE  Opposite(s) \in Side /\ Opposite(s) # s /\ \A t \in Side : t # s => t = Opposite(s)
BY DEF Side, Opposite

\* The first order of the best level has priority over the rest of its side.
First(maker) ==
    \A o \in Resting : o.side = maker.side /\ o # maker =>
        \/ Better(maker.side, maker.price, o.price)
        \/ maker.price = o.price /\ maker.arrival < o.arrival

\* The taker trades with the maker.
Trade(maker, traded) ==
    /\ taker # NoOrder
    /\ maker \in Resting /\ maker.side = Opposite(taker.side)
    /\ traded \in Nat /\ traded > 0 /\ traded <= taker.quantity /\ traded <= maker.quantity
    /\ Crosses(taker, maker.price) /\ First(maker)
    /\ fills' = Append(fills, [taker |-> taker.id, maker |-> maker.arrival,
                               price |-> maker.price, quantity |-> traded])
    /\ taker' = [taker EXCEPT !.quantity = @ - traded]
    /\ \A t \in Side : DOMAIN book'[t] \subseteq DOMAIN book[t]
    /\ \A o : o \in Resting' <=>
                \/ o \in Resting /\ o # maker
                \/ traded # maker.quantity /\ o = [maker EXCEPT !.quantity = @ - traded]
    /\ live' = IF traded = maker.quantity
               THEN Restrict(live, DOMAIN live \ {maker.id}) ELSE live
    /\ filled' = [n \in DOMAIN filled |->
                    IF n \in {taker.arrival, maker.arrival} THEN filled[n] + traded ELSE filled[n]]
    /\ UNCHANGED <<offered, gone>>

\* The first order of a level has priority.
LEMMA HeadIsFirst ==
    ASSUME LeastNumber, BookOK, NEW s \in Side, DOMAIN book[s] # {}
    PROVE  LET l == book[s][Best(s)]
           IN  /\ Queue(l, s, Best(s)) /\ l # << >>
               /\ l[1] \in Resting /\ l[1].side = s /\ l[1].price = Best(s)
               /\ First(l[1])
<1> DEFINE p == Best(s)
           l == book[s][p]
<1>1. p \in DOMAIN book[s] /\ \A q \in DOMAIN book[s] : q # p => Better(s, p, q)
  BY BestIs
<1> HIDE DEF p
<1>2. Queue(l, s, p) /\ l # << >>
  BY <1>1, Zenon DEF BookOK, SideOK
<1>3. l \in Seq(Entry)
  BY <1>2, Zenon DEF Queue
<1>4. 1 \in 1 .. Len(l)
  BY <1>2, <1>3
<1>5. l[1] \in Range(l)
  BY <1>3, <1>4, InRange, Zenon
<1>6. \A o : o \in Range(l) <=> o \in Resting /\ o.side = s /\ o.price = p
  BY <1>1, AtLevel
<1>7. l[1] \in Resting /\ l[1].side = s /\ l[1].price = p
  BY <1>5, <1>6, Zenon
<1>8. ASSUME NEW o \in Resting, o.side = s, o # l[1], o.price = p
      PROVE  l[1].arrival < o.arrival
  <2>1. PICK i \in 1 .. Len(l) : o = l[i]
    <3>1. o \in Range(l)
      BY <1>6, <1>8, Zenon
    <3> QED
      BY <1>3, <3>1, InRange
  <2>2. 1 < i
    BY <1>8, <2>1
  <2> QED
    BY <1>2, <1>4, <2>1, <2>2, Zenon DEF Queue
<1>9. ASSUME NEW o \in Resting, o.side = s, o.price # p
      PROVE  Better(s, p, o.price)
  BY <1>1, <1>9, RestingPlaced, Zenon
<1>10. First(l[1])
  BY <1>7, <1>8, <1>9, Zenon DEF First
<1> QED
  BY <1>2, <1>7, <1>10, Zenon DEF p

\* The indices of a level.
LEMMA IndicesAre ==
    ASSUME NEW l \in Seq(Entry)
    PROVE  DOMAIN l = 1 .. Len(l)
OBVIOUS

\* The first order of a level is at index 1.
LEMMA HeadIsAtOne ==
    ASSUME NEW l \in Seq(Entry), l # << >>
    PROVE  Head(l) = l[1]
OBVIOUS

\* What is traded is the lesser of two quantities, neither of them 0.
LEMMA TradesTheLesser ==
    ASSUME NEW m \in Entry, m.quantity > 0, taker \in Entry, taker.quantity > 0
    PROVE  /\ TradeQuantity(m) \in Nat /\ TradeQuantity(m) > 0
           /\ TradeQuantity(m) <= taker.quantity /\ TradeQuantity(m) <= m.quantity
<1>1. taker.quantity \in Nat /\ m.quantity \in Nat
  BY DEF Entry
<1> QED
  BY <1>1 DEF TradeQuantity

\* One iteration of the matching loop.
LEMMA MatchTrades ==
    ASSUME LeastNumber, IInv, Match
    PROVE  BookOK' /\ \E maker \in Resting : \E traded \in Nat : Trade(maker, traded)
<1> DEFINE s == Opposite(taker.side)
           p == Best(s)
           l == book[s][p]
           maker == l[1]
           traded == TradeQuantity(maker)
           left == [maker EXCEPT !.quantity = @ - traded]
           new == Traded(l, traded)
<1>1. taker # NoOrder /\ taker \in Entry /\ taker.quantity > 0 /\ taker.side \in Side
  BY DEF IInv, TakerOK, Match, Matching, Entry
<1>2. s \in Side /\ s # taker.side
  BY <1>1, OppositeSide, Zenon
<1>3. DOMAIN book[s] # {} /\ Crosses(taker, p)
  BY Zenon DEF Match, Matching
<1>4. BookOK
  BY Zenon DEF IInv
<1>5. /\ Queue(l, s, p) /\ l # << >>
      /\ maker \in Resting /\ maker.side = s /\ maker.price = p
      /\ First(maker)
  BY <1>2, <1>3, <1>4, HeadIsFirst
<1>6. p \in DOMAIN book[s] /\ p \in Price
  <2>1. p \in DOMAIN book[s]
    BY <1>2, <1>3, <1>4, BestIs, SMT, SMTT(30)
  <2> QED
    BY <1>2, <1>4, <2>1, Zenon DEF BookOK, SideOK
<1>7. Head(l) = maker
  <2>1. l \in Seq(Entry)
    BY <1>5, Zenon DEF Queue
  <2> QED
    BY <1>5, <2>1, HeadIsAtOne, Zenon
<1>8. /\ fills' = Append(fills, [taker |-> taker.id, maker |-> maker.arrival,
                                 price |-> maker.price, quantity |-> traded])
      /\ taker' = [taker EXCEPT !.quantity = @ - traded]
      /\ book' = [book EXCEPT ![s] = SetLevel(@, p, new)]
      /\ live' = IF traded = maker.quantity
                 THEN Restrict(live, DOMAIN live \ {maker.id}) ELSE live
      /\ filled' = [n \in DOMAIN filled |->
                    IF n \in {taker.arrival, maker.arrival} THEN filled[n] + traded ELSE filled[n]]
      /\ UNCHANGED <<offered, gone>>
  <2>1. book' = [book EXCEPT ![s] = SetLevel(@, p, new)]
    BY <1>4, <1>7, ZenonT(40) DEF Match, BookOK
  <2> QED
    BY <1>7, <2>1, Zenon DEF Match
<1>9. maker \in Entry /\ maker.quantity > 0
  BY <1>4, <1>5, RestingPlaced, Zenon DEF IInv, Index
<1>10. traded \in Nat /\ traded > 0 /\ traded <= taker.quantity /\ traded <= maker.quantity
  BY <1>1, <1>9, TradesTheLesser, Zenon
<1>11. /\ Queue(new, s, p)
       /\ \A o : o \in Range(new) <=>
                   \/ o \in Range(l) /\ o # maker
                   \/ traded # maker.quantity /\ o = left
  <2>1. CASE traded = maker.quantity
    <3>1. new = Tail(l)
      BY <1>7, <2>1, Zenon DEF Traded
    <3>2. Queue(Tail(l), s, p) /\ Range(Tail(l)) = Range(l) \ {maker}
      BY <1>5, QueueTail, Zenon
    <3> HIDE DEF l, new, traded, left
    <3> QED
      BY <2>1, <3>1, <3>2
  <2>2. CASE traded # maker.quantity
    <3>1. new = [l EXCEPT ![1].quantity = @ - traded]
      BY <1>7, <2>2, Zenon DEF Traded
    <3>2. Queue(new, s, p) /\ Range(new) = (Range(l) \ {maker}) \cup {left}
      <4>1. \A n \in Nat : n <= maker.quantity =>
               LET e == [maker EXCEPT !.quantity = @ - n]
                   r == [l EXCEPT ![1].quantity = @ - n]
               IN  Queue(r, s, p) /\ Range(r) = (Range(l) \ {maker}) \cup {e}
        <5> HIDE DEF s, p
        <5> QED
          BY <1>5, QueueReduced, Zenon
      <4> HIDE DEF traded, maker, l
      <4> QED
        BY <1>10, <3>1, <4>1, Zenon DEF left
    <3> HIDE DEF l, new, traded, left
    <3> QED
      BY <2>2, <3>2
  <2> QED
    BY <2>1, <2>2, Zenon
<1>12. \A o : o \in Range(l) <=> o \in Resting /\ o.side = s /\ o.price = p
  BY <1>2, <1>4, <1>6, AtLevel
<1> HIDE DEF new
<1>13. /\ BookOK'
       /\ \A t \in Side : \A q \in Price :
            q \in DOMAIN book'[t] <=> IF t = s /\ q = p THEN new # << >> ELSE q \in DOMAIN book[t]
       /\ \A o : o \in Resting' <=>
                   \/ o \in Resting /\ ~(o.side = s /\ o.price = p)
                   \/ o \in Range(new)
  BY <1>2, <1>4, <1>6, <1>8, <1>11, ReplaceLevel, Zenon
<1>14. \A t \in Side : DOMAIN book'[t] \subseteq DOMAIN book[t]
  <2>1. \A t \in Side : DOMAIN book'[t] \subseteq Price
    BY <1>13, Zenon DEF BookOK, SideOK
  <2> HIDE DEF s, p
  <2> QED
    BY <1>6, <1>13, <2>1
<1> HIDE DEF s, p, l, maker, traded, left
<1>15. \A o : o \in Resting' <=>
                \/ o \in Resting /\ o # maker
                \/ traded # maker.quantity /\ o = left
  BY <1>5, <1>11, <1>12, <1>13, Zenon
<1>16. Trade(maker, traded)
  BY <1>1, <1>3, <1>5, <1>8, <1>10, <1>14, <1>15, Zenon DEF Trade, left, s
<1> QED
  BY <1>5, <1>10, <1>13, <1>16, ZenonT(40)

\* The taker goes behind the orders of its level.
LEMMA RestAdds ==
    ASSUME LeastNumber, IInv, Rest
    PROVE  /\ BookOK' /\ Uncrossed'
           /\ \A o : o \in Resting' <=> o \in Resting \/ o = taker
<1> DEFINE s == taker.side
           p == taker.price
           l == Level(s, p)
<1>1. /\ taker # NoOrder /\ taker \in Entry /\ s \in Side /\ p \in Price
      /\ \A o \in Resting : o.arrival < taker.arrival
  BY DEF IInv, TakerOK, Rest, Entry
<1>2. BookOK
  BY DEF IInv
<1>3. /\ Queue(l, s, p)
      /\ \A o : o \in Range(l) <=> o \in Resting /\ o.side = s /\ o.price = p
  <2>1. CASE p \in DOMAIN book[s]
    <3>1. l = book[s][p]
      BY <2>1, Zenon DEF Level
    <3>2. Queue(book[s][p], s, p)
      BY <1>1, <1>2, <2>1, Zenon DEF BookOK, SideOK
    <3>3. \A o : o \in Range(book[s][p]) <=> o \in Resting /\ o.side = s /\ o.price = p
      BY <1>1, <1>2, <2>1, AtLevel
    <3> HIDE DEF s, p, l
    <3> QED
      BY <3>1, <3>2, <3>3, Zenon
  <2>2. CASE p \notin DOMAIN book[s]
    <3>1. l = << >>
      BY <2>2, Zenon DEF Level
    <3>2. Queue(l, s, p) /\ l \in Seq(Entry)
      BY <3>1 DEF Queue
    <3>3. \A i \in 1 .. Len(l) : FALSE
      BY <3>1
    <3> HIDE DEF l
    <3>4. \A o : o \notin Range(l)
      BY <3>2, <3>3, InRange, Zenon
    <3>5. \A o \in Resting : ~(o.side = s /\ o.price = p)
      BY <1>2, <2>2, RestingPlaced, Zenon
    <3> QED
      BY <3>2, <3>4, <3>5, Zenon
  <2> QED
    BY <2>1, <2>2, Zenon
<1>4. book' = [book EXCEPT ![s] = SetLevel(@, p, Append(l, taker))]
  BY DEF Rest
<1>5. Append(l, taker) # << >>
  <2>1. l \in Seq(Entry)
    BY <1>3, Zenon DEF Queue
  <2> HIDE DEF l
  <2> QED
    BY <1>1, <2>1
<1> DEFINE new == Append(l, taker)
<1>6. Queue(new, s, p) /\ Range(new) = Range(l) \cup {taker}
  BY <1>1, <1>3, QueueAppend
<1> HIDE DEF new
<1>7. /\ BookOK'
      /\ \A t \in Side : \A q \in Price :
           q \in DOMAIN book'[t] <=> IF t = s /\ q = p THEN new # << >> ELSE q \in DOMAIN book[t]
      /\ \A o : o \in Resting' <=>
                  \/ o \in Resting /\ ~(o.side = s /\ o.price = p)
                  \/ o \in Range(new)
  BY <1>1, <1>2, <1>4, <1>6, ReplaceLevel, Zenon DEF new
<1> HIDE DEF l
<1>8. \A o : o \in Resting' <=> o \in Resting \/ o = taker
  <2> HIDE DEF s, p
  <2> QED
    BY <1>3, <1>6, <1>7, Zenon
<1>9. Uncrossed'
  <2> DEFINE other == Opposite(s)
  <2>1. other \in Side /\ other # s /\ \A t \in Side : t # s => t = other
    BY <1>1, OppositeSide
  <2>2. \A q \in DOMAIN book[other] : ~Crosses(taker, q)
    <3> SUFFICES ASSUME NEW q \in DOMAIN book[other] PROVE ~Crosses(taker, q)
      OBVIOUS
    <3>1. taker.quantity > 0 /\ ~Crosses(taker, Best(other))
      BY DEF Rest, Matching
    <3>2. /\ Best(other) \in DOMAIN book[other]
          /\ q # Best(other) => Better(other, Best(other), q)
      BY <1>2, <2>1, BestIs
    <3>3. DOMAIN book[other] \subseteq Nat /\ p \in Nat
      BY <1>1, <1>2, <2>1, BookAssumption, Zenon DEF BookOK, SideOK
    <3> DEFINE b == Best(other)
    <3>4. b \in Nat /\ q \in Nat /\ (q # b => Better(other, b, q)) /\ ~Crosses(taker, b)
      BY <3>1, <3>2, <3>3
    <3> HIDE DEF b
    <3> QED
      BY <1>1, <3>3, <3>4 DEF Crosses, Better, Opposite, Side
  <2>3. \A t \in Side : DOMAIN book'[t] \subseteq Price /\ DOMAIN book[t] \subseteq Price
    BY <1>2, <1>7, Zenon DEF BookOK, SideOK
  <2>4. \A q \in DOMAIN book'[s] : q \in DOMAIN book[s] \/ q = p
    BY <1>1, <1>7, <2>3, Zenon
  <2>5. \A q \in DOMAIN book'[other] : q \in DOMAIN book[other]
    BY <1>1, <1>7, <2>1, <2>3, Zenon
  <2>6. Price \subseteq Nat /\ p \in Nat /\ DOMAIN book[other] \subseteq Nat
    BY <1>1, <2>1, <2>3, BookAssumption, Zenon
  <2>7. Uncrossed
    BY DEF IInv
  <2>8. CASE s = "buy"
    <3>1. other = "sell"
      BY <2>8 DEF Opposite
    <3>2. \A a \in DOMAIN book["sell"] : p < a
      BY <2>2, <2>6, <2>8, <3>1 DEF Crosses
    <3> QED
      BY <2>4, <2>5, <2>7, <2>8, <3>1, <3>2, Zenon DEF Uncrossed
  <2>9. CASE s = "sell"
    <3>1. other = "buy"
      BY <2>9 DEF Opposite
    <3>2. \A b \in DOMAIN book["buy"] : b < p
      BY <2>2, <2>6, <2>9, <3>1 DEF Crosses
    <3> QED
      BY <2>4, <2>5, <2>7, <2>9, <3>1, <3>2, Zenon DEF Uncrossed
  <2> QED
    BY <1>1, <2>8, <2>9 DEF Side
<1> QED
  BY <1>7, <1>8, <1>9, Zenon

\* An order that is cancelled leaves the book.
Leave(o) ==
    /\ taker = NoOrder /\ UNCHANGED <<taker, fills, offered, filled>>
    /\ \A t \in Side : DOMAIN book'[t] \subseteq DOMAIN book[t]
    /\ \A u : u \in Resting' <=> u \in Resting /\ u # o
    /\ live' = Restrict(live, DOMAIN live \ {o.id})
    /\ gone' = [gone EXCEPT ![o.arrival] = o.quantity]

\* cancel takes exactly one order out of the book.
LEMMA CancelLeaves ==
    ASSUME IInv, NEW id \in Id, Cancel(id)
    PROVE  BookOK' /\ \E o \in Resting : Leave(o)
<1> DEFINE s == live[id]
<1>1. BookOK /\ id \in DOMAIN live
  BY Zenon DEF IInv, Cancel
<1>2. s \in Side
  <2>1. PICK o \in Resting : o.id = id
    BY <1>1, Zenon DEF IInv, Index
  <2> QED
    BY <1>1, <2>1, RestingPlaced, Zenon DEF IInv, Index
<1>3. PICK p \in DOMAIN book[s] : \E i \in DOMAIN book[s][p] :
         /\ book[s][p][i].id = id
         /\ book' = [book EXCEPT ![s] = SetLevel(@, p, RemoveAt(book[s][p], i))]
         /\ gone' = [gone EXCEPT ![book[s][p][i].arrival] = book[s][p][i].quantity]
  BY Zenon DEF Cancel
<1> DEFINE l == book[s][p]
<1>4. PICK i \in DOMAIN l :
         /\ l[i].id = id
         /\ book' = [book EXCEPT ![s] = SetLevel(@, p, RemoveAt(l, i))]
         /\ gone' = [gone EXCEPT ![l[i].arrival] = l[i].quantity]
  BY <1>3, Zenon
<1> DEFINE o == l[i]
           new == RemoveAt(l, i)
<1>5. Queue(l, s, p) /\ p \in Price
  BY <1>1, <1>2, Zenon DEF BookOK, SideOK
<1>6. i \in 1 .. Len(l)
  <2>1. l \in Seq(Entry)
    BY <1>5, Zenon DEF Queue
  <2> QED
    BY <2>1, IndicesAre, Zenon
<1>7. \A u : u \in Range(l) <=> u \in Resting /\ u.side = s /\ u.price = p
  BY <1>1, <1>2, AtLevel, SMT, SMTT(30)
<1>8. Queue(new, s, p) /\ Range(new) = Range(l) \ {o}
  BY <1>5, <1>6, QueueErased
<1> HIDE DEF s, new
<1>9. /\ BookOK'
      /\ \A t \in Side : \A q \in Price :
           q \in DOMAIN book'[t] <=> IF t = s /\ q = p THEN new # << >> ELSE q \in DOMAIN book[t]
      /\ \A u : u \in Resting' <=>
                  \/ u \in Resting /\ ~(u.side = s /\ u.price = p)
                  \/ u \in Range(new)
  BY <1>1, <1>2, <1>4, <1>5, <1>8, ReplaceLevel, Zenon DEF new
<1>10. o \in Range(l)
  BY <1>5, <1>6, InRange, Zenon DEF Queue
<1> HIDE DEF l, o
<1>11. \A u : u \in Resting' <=> u \in Resting /\ u # o
  BY <1>7, <1>8, <1>9, <1>10, Zenon
<1>12. \A t \in Side : DOMAIN book'[t] \subseteq DOMAIN book[t]
  <2>1. \A t \in Side : DOMAIN book'[t] \subseteq Price
    BY <1>9, Zenon DEF BookOK, SideOK
  <2> QED
    BY <1>9, <2>1
<1>13. live' = Restrict(live, DOMAIN live \ {o.id}) /\ gone' = [gone EXCEPT ![o.arrival] = o.quantity]
  BY <1>4, Zenon DEF o, Cancel
<1>14. taker = NoOrder /\ UNCHANGED <<taker, fills, offered, filled>>
  BY Zenon DEF Cancel
<1>15. Leave(o)
  BY <1>11, <1>12, <1>13, <1>14, Zenon DEF Leave
<1>16. o \in Resting
  BY <1>7, <1>10, Zenon
<1> QED
  BY <1>9, <1>15, <1>16, Zenon

-----------------------------------------------------------------------------
(* The steps keep the invariant. *)

\* submit starts: the order that comes in is the last to arrive and its id is free.
LEMMA SubmitKeeps ==
    ASSUME IInv, NEW order \in Arriving, Submit(order)
    PROVE  IInv'
<1>0. /\ BookOK /\ Uncrossed /\ Histories /\ TakerOK /\ Index /\ Balance
      /\ taker = NoOrder /\ UNCHANGED <<book, live>>
      /\ order.id \notin DOMAIN live
  BY DEF IInv, Submit
<1>1. BookOK' /\ Uncrossed' /\ Resting' = Resting /\ live' = live
  BY <1>0 DEF BookOK, Uncrossed, Resting
<1> DEFINE n == Len(offered) + 1
<1>a. order.quantity \in Nat
  <2>1. order.quantity \in Quantity
    BY DEF Arriving
  <2> QED
    BY <2>1, BookAssumption, Zenon
<1>2. /\ taker' \in Entry /\ taker'.id = order.id /\ taker'.quantity = order.quantity
      /\ taker'.arrival = n
  <2>1. taker' = [id |-> order.id, side |-> order.side, price |-> order.price,
                  quantity |-> order.quantity, sequence |-> order.sequence,
                  tif |-> order.tif, arrival |-> n]
    BY DEF Submit
  <2>2. n \in Nat
    BY <1>0 DEF Histories
  <2> HIDE DEF n
  <2> QED
    BY <1>a, <2>1, <2>2 DEF Arriving, Entry
<1>3. /\ Histories' /\ Len(offered) \in Nat /\ Len(offered') = n
      /\ \A i \in 1 .. Len(offered) :
           offered'[i] = offered[i] /\ filled'[i] = filled[i] /\ gone'[i] = gone[i]
      /\ offered'[n] = order.quantity /\ filled'[n] = 0 /\ gone'[n] = 0
  <2>1. /\ offered \in Seq(Nat) /\ filled \in Seq(Nat) /\ gone \in Seq(Nat)
        /\ Len(filled) = Len(offered) /\ Len(gone) = Len(offered)
    BY <1>0, Zenon DEF Histories
  <2>2. /\ offered' \in Seq(Nat) /\ Len(offered) \in Nat /\ Len(offered') = n
        /\ \A i \in 1 .. Len(offered) : offered'[i] = offered[i]
        /\ offered'[n] = order.quantity
    <3>1. offered' = Append(offered, order.quantity)
      BY Zenon DEF Submit
    <3> QED
      BY <1>a, <2>1, <3>1
  <2>3. /\ filled' \in Seq(Nat) /\ Len(filled') = n
        /\ \A i \in 1 .. Len(offered) : filled'[i] = filled[i]
        /\ filled'[n] = 0
    <3>1. filled' = Append(filled, 0)
      BY Zenon DEF Submit
    <3> QED
      BY <2>1, <3>1
  <2>4. /\ gone' \in Seq(Nat) /\ Len(gone') = n
        /\ \A i \in 1 .. Len(offered) : gone'[i] = gone[i]
        /\ gone'[n] = 0
    <3>1. gone' = Append(gone, 0)
      BY Zenon DEF Submit
    <3> QED
      BY <2>1, <3>1
  <2> QED
    BY <2>1, <2>2, <2>3, <2>4, Zenon DEF Histories
<1> HIDE DEF n
<1>4. \A o \in Resting : o \in Entry /\ o.arrival \in 1 .. Len(offered)
  BY <1>0, RestingPlaced, Zenon DEF Index
<1>5. TakerOK'
  <2>1. n = Len(offered) + 1
    BY DEF n
  <2>2. \A o \in Resting : o.arrival < n
    BY <1>3, <1>4, <2>1
  <2>3. n > 0
    BY <1>3, <2>1
  <2> QED
    BY <1>0, <1>1, <1>2, <1>3, <2>2, <2>3, Zenon DEF TakerOK
<1>6. \A i : i \in 1 .. n <=> i \in 1 .. Len(offered) \/ i = n
  BY <1>3 DEF n
<1>7. Index'
  <2>1. \A o \in Resting : o.arrival \in 1 .. n
    BY <1>4, <1>6, Zenon
  <2>2. \A o, u \in Resting : o.id = u.id \/ o.arrival = u.arrival => o = u
    BY <1>0, Zenon DEF Index
  <2>3. /\ DOMAIN live \subseteq Id
        /\ \A o \in Resting : o.quantity > 0 /\ o.id \in DOMAIN live /\ live[o.id] = o.side
        /\ \A id \in DOMAIN live : \E o \in Resting : o.id = id
    BY <1>0, Zenon DEF Index
  <2> QED
    BY <1>1, <1>3, <2>1, <2>2, <2>3 DEF Index
<1>8. \A o : o \in Present' <=> o \in Present \/ o = taker'
  <2>1. taker' # NoOrder
    BY <1>2, NoOrderIsNone, Zenon
  <2> QED
    BY <1>0, <1>1, <2>1, Zenon DEF Present
<1>9. Balance'
  <2>1. ASSUME NEW o \in Present'
        PROVE  gone'[o.arrival] = 0 /\ offered'[o.arrival] = filled'[o.arrival] + o.quantity
    <3>1. CASE o = taker'
      <4>1. order.quantity = 0 + order.quantity
        BY <1>a
      <4> QED
        BY <1>2, <1>3, <3>1, <4>1, Zenon
    <3>2. CASE o \in Present
      <4>1. o \in Resting
        BY <1>0, <3>2, Zenon DEF Present
      <4> QED
        BY <1>0, <1>3, <1>4, <3>2, <4>1, Zenon DEF Balance
    <3> QED
      BY <1>8, <3>1, <3>2, Zenon
  <2>2. ASSUME NEW i \in 1 .. n
        PROVE  offered'[i] = filled'[i] + gone'[i] \/ \E o \in Present' : o.arrival = i
    BY <1>0, <1>2, <1>3, <1>6, <1>8, Zenon DEF Balance
  <2> QED
    BY <1>3, <2>1, <2>2, Zenon DEF Balance
<1> QED
  BY <1>1, <1>3, <1>5, <1>7, <1>9, Zenon DEF IInv

\* What a trade does to the accounts.
LEMMA TradeFills ==
    ASSUME IInv, NEW maker \in Resting, NEW traded \in Nat, Trade(maker, traded)
    PROVE  /\ Histories' /\ Len(offered') = Len(offered)
           /\ maker.arrival \in 1 .. Len(offered) /\ taker.arrival \in 1 .. Len(offered)
           /\ maker.arrival # taker.arrival
           /\ \A i \in 1 .. Len(offered) :
                filled'[i] = IF i = taker.arrival \/ i = maker.arrival THEN filled[i] + traded ELSE filled[i]
<1>1. maker.arrival \in 1 .. Len(offered) /\ taker.arrival \in 1 .. Len(offered) /\ maker.arrival # taker.arrival
  <2>1. maker.arrival \in 1 .. Len(offered) /\ maker.arrival < taker.arrival
    BY Zenon DEF IInv, Index, TakerOK, Trade
  <2>2. taker.arrival = Len(offered) /\ Len(offered) > 0 /\ Len(offered) \in Nat
    BY DEF IInv, TakerOK, Histories, Trade
  <2> QED
    BY <2>1, <2>2
<1> DEFINE a == taker.arrival
           b == maker.arrival
<1>2. /\ offered \in Seq(Nat) /\ filled \in Seq(Nat) /\ gone \in Seq(Nat)
      /\ Len(filled) = Len(offered) /\ Len(gone) = Len(offered)
      /\ offered' = offered /\ gone' = gone
      /\ filled' = [n \in DOMAIN filled |-> IF n \in {a, b} THEN filled[n] + traded ELSE filled[n]]
  BY DEF IInv, Histories, Trade
<1> HIDE DEF a, b
<1>3. a \in 1 .. Len(filled) /\ b \in 1 .. Len(filled) /\ a # b
  BY <1>1, <1>2 DEF a, b
<1>4. /\ filled' \in Seq(Nat) /\ Len(filled') = Len(filled)
      /\ \A i \in 1 .. Len(filled) :
           filled'[i] = IF i = a \/ i = b THEN filled[i] + traded ELSE filled[i]
  <2>0. /\ filled \in Seq(Nat)
        /\ filled' = [n \in DOMAIN filled |-> IF n \in {a, b} THEN filled[n] + traded ELSE filled[n]]
    BY <1>2, Zenon
  <2>1. DOMAIN filled = 1 .. Len(filled) /\ \A i \in 1 .. Len(filled) : filled[i] \in Nat
    BY <2>0, SMT, SMTT(30)
  <2> QED
    BY <2>0, <2>1, SMT, SMTT(60)
<1>5. Histories'
  BY <1>2, <1>4, Zenon DEF Histories
<1> QED
  BY <1>1, <1>2, <1>4, <1>5, Zenon DEF a, b

\* A trade takes the same from taker and maker, and a maker that is used up leaves
\* book and index together.
LEMMA TradeKeeps ==
    ASSUME IInv, BookOK', NEW maker \in Resting, NEW traded \in Nat, Trade(maker, traded)
    PROVE  IInv'
<1> DEFINE left == [maker EXCEPT !.quantity = @ - traded]
           full == traded = maker.quantity
<1>0. BookOK /\ Uncrossed /\ Histories /\ TakerOK /\ Index /\ Balance
  BY DEF IInv
<1>1. /\ Histories' /\ Len(offered') = Len(offered)
      /\ maker.arrival \in 1 .. Len(offered) /\ taker.arrival \in 1 .. Len(offered)
      /\ maker.arrival # taker.arrival
      /\ \A i \in 1 .. Len(offered) :
           filled'[i] = IF i = taker.arrival \/ i = maker.arrival THEN filled[i] + traded ELSE filled[i]
  BY TradeFills
<1>2. /\ taker # NoOrder /\ taker \in Entry /\ taker.id \notin DOMAIN live
      /\ taker.arrival = Len(offered) /\ Len(offered) > 0
      /\ \A o \in Resting : o.arrival < taker.arrival
  BY <1>0, Zenon DEF TakerOK, Trade
<1>3. maker \in Entry /\ maker.quantity > 0 /\ maker.id \in DOMAIN live /\ live[maker.id] = maker.side
  BY <1>0, RestingPlaced DEF Index
<1>4. /\ traded > 0 /\ traded <= taker.quantity /\ traded <= maker.quantity
      /\ taker' = [taker EXCEPT !.quantity = @ - traded]
      /\ offered' = offered /\ gone' = gone
      /\ live' = IF full THEN Restrict(live, DOMAIN live \ {maker.id}) ELSE live
      /\ \A o : o \in Resting' <=> (o \in Resting /\ o # maker) \/ (~full /\ o = left)
  BY Zenon DEF Trade
<1>5. /\ left \in Entry /\ left.quantity = maker.quantity - traded
      /\ left.id = maker.id /\ left.side = maker.side /\ left.price = maker.price
      /\ left.arrival = maker.arrival
      /\ ~full => left.quantity > 0
  BY <1>3, <1>4 DEF Entry
<1>6. /\ taker' \in Entry /\ taker'.quantity = taker.quantity - traded
      /\ taker'.id = taker.id /\ taker'.arrival = taker.arrival
  BY <1>2, <1>4 DEF Entry
<1>7. /\ DOMAIN live' = IF full THEN DOMAIN live \ {maker.id} ELSE DOMAIN live
      /\ \A i \in DOMAIN live' : live'[i] = live[i]
  BY <1>4 DEF Restrict
<1> HIDE DEF left, full
<1>8. Uncrossed'
  BY <1>0, Zenon DEF Uncrossed, Trade, Side
<1>9. TakerOK'
  <2>1. \A o \in Resting' : o.arrival < taker'.arrival
    BY <1>2, <1>4, <1>5, <1>6, Zenon
  <2>2. taker'.id \notin DOMAIN live'
    BY <1>2, <1>6, <1>7
  <2> QED
    BY <1>1, <1>2, <1>6, <2>1, <2>2, Zenon DEF TakerOK
<1>10. Index'
  <2>1. DOMAIN live' \subseteq Id
    BY <1>0, <1>7 DEF Index
  <2>2. ASSUME NEW o \in Resting'
        PROVE  /\ o.quantity > 0 /\ o.arrival \in 1 .. Len(offered)
               /\ o.id \in DOMAIN live' /\ live'[o.id] = o.side
    <3>1. CASE o \in Resting /\ o # maker
      <4>1. /\ o.quantity > 0 /\ o.arrival \in 1 .. Len(offered)
            /\ o.id \in DOMAIN live /\ live[o.id] = o.side /\ o.id # maker.id
        BY <1>0, <3>1, Zenon DEF Index
      <4> QED
        BY <1>7, <4>1
    <3>2. CASE ~full /\ o = left
      BY <1>1, <1>3, <1>5, <1>7, <3>2
    <3> QED
      BY <1>4, <3>1, <3>2, Zenon
  <2>3. ASSUME NEW id \in DOMAIN live' PROVE \E o \in Resting' : o.id = id
    <3>1. id \in DOMAIN live
      BY <1>7, <2>3
    <3>2. PICK o \in Resting : o.id = id
      BY <1>0, <3>1, Zenon DEF Index
    <3>3. CASE o # maker
      BY <1>4, <3>2, <3>3, Zenon
    <3>4. CASE o = maker
      <4>1. ~full
        BY <1>7, <2>3, <3>2, <3>4
      <4> QED
        BY <1>4, <1>5, <3>2, <3>4, <4>1, Zenon
    <3> QED
      BY <3>3, <3>4, Zenon
  <2>4. ASSUME NEW o \in Resting', NEW u \in Resting', o.id = u.id \/ o.arrival = u.arrival
        PROVE  o = u
    <3>1. ASSUME NEW v \in Resting, v # maker PROVE v.id # maker.id /\ v.arrival # maker.arrival
      BY <1>0, <3>1, Zenon DEF Index
    <3>2. CASE o \in Resting /\ o # maker /\ u \in Resting /\ u # maker
      BY <1>0, <2>4, <3>2, Zenon DEF Index
    <3>3. (o \in Resting /\ o # maker) \/ o = left
      BY <1>4, Zenon
    <3>4. (u \in Resting /\ u # maker) \/ u = left
      BY <1>4, Zenon
    <3>5. CASE o \in Resting /\ o # maker /\ u = left
      BY <1>5, <2>4, <3>1, <3>5, Zenon
    <3>6. CASE u \in Resting /\ u # maker /\ o = left
      BY <1>5, <2>4, <3>1, <3>6
    <3> QED
      BY <3>2, <3>3, <3>4, <3>5, <3>6, Zenon
  <2> QED
    BY <1>1, <2>1, <2>2, <2>3, <2>4, Zenon DEF Index
<1>11. Balance'
  <2>1. taker' # NoOrder
    BY <1>6, NoOrderIsNone, Zenon
  <2>2. \A o : o \in Present' <=> o \in Resting' \/ o = taker'
    BY <2>1, Zenon DEF Present
  <2>3. taker \in Present /\ maker \in Present /\ \A o \in Resting : o \in Present
    BY <1>2, Zenon DEF Present
  <2>4. \A i \in 1 .. Len(offered) : offered[i] \in Nat /\ filled[i] \in Nat /\ gone[i] \in Nat
    BY <1>0, SMT, SMTT(30) DEF Histories
  <2>5. ASSUME NEW o \in Present'
        PROVE  gone'[o.arrival] = 0 /\ offered'[o.arrival] = filled'[o.arrival] + o.quantity
    <3>1. CASE o \in Resting /\ o # maker
      <4>1. o.arrival \in 1 .. Len(offered) /\ o.arrival # maker.arrival /\ o.arrival # taker.arrival
        BY <1>0, <1>2, <2>3, <3>1, PresentDistinct DEF Index
      <4>2. gone[o.arrival] = 0 /\ offered[o.arrival] = filled[o.arrival] + o.quantity
        BY <1>0, <2>3, <3>1, Zenon DEF Balance
      <4>3. filled'[o.arrival] = filled[o.arrival]
        BY <1>1, <4>1
      <4> QED
        BY <1>4, <4>2, <4>3, Zenon
    <3>2. CASE o = left
      <4>1. gone[maker.arrival] = 0 /\ offered[maker.arrival] = filled[maker.arrival] + maker.quantity
        BY <1>0, <2>3, Zenon DEF Balance
      <4>2. filled'[maker.arrival] = filled[maker.arrival] + traded
        BY <1>1
      <4>3. maker.quantity \in Nat /\ filled[maker.arrival] \in Nat
        BY <1>1, <1>3, <2>4 DEF Entry
      <4>4. o.arrival = maker.arrival /\ o.quantity = maker.quantity - traded
        BY <1>5, <3>2, Zenon
      <4>5. filled[maker.arrival] + maker.quantity
              = (filled[maker.arrival] + traded) + (maker.quantity - traded)
        BY <4>3
      <4> QED
        BY <1>4, <4>1, <4>2, <4>4, <4>5, Zenon
    <3>3. CASE o = taker'
      <4>1. gone[taker.arrival] = 0 /\ offered[taker.arrival] = filled[taker.arrival] + taker.quantity
        BY <1>0, <2>3, Zenon DEF Balance
      <4>2. filled'[taker.arrival] = filled[taker.arrival] + traded
        BY <1>1
      <4>3. taker.quantity \in Nat /\ filled[taker.arrival] \in Nat
        BY <1>1, <1>2, <2>4 DEF Entry
      <4>4. o.arrival = taker.arrival /\ o.quantity = taker.quantity - traded
        BY <1>6, <3>3, Zenon
      <4>5. filled[taker.arrival] + taker.quantity
              = (filled[taker.arrival] + traded) + (taker.quantity - traded)
        BY <4>3
      <4> QED
        BY <1>4, <4>1, <4>2, <4>4, <4>5, Zenon
    <3> QED
      BY <1>4, <2>2, <3>1, <3>2, <3>3, Zenon
  <2>6. ASSUME NEW i \in 1 .. Len(offered)
        PROVE  offered'[i] = filled'[i] + gone'[i] \/ \E o \in Present' : o.arrival = i
    <3>1. CASE i = taker.arrival
      BY <1>6, <2>2, <3>1, Zenon
    <3>2. CASE i = maker.arrival
      <4>1. CASE ~full
        <5>1. left \in Present' /\ left.arrival = i
          BY <1>4, <1>5, <2>2, <3>2, <4>1, Zenon
        <5> QED
          BY <5>1, Zenon
      <4>2. CASE full
        <5>1. gone[i] = 0 /\ offered[i] = filled[i] + traded
          BY <1>0, <2>3, <3>2, <4>2, Zenon DEF Balance, full
        <5>2. filled'[i] = filled[i] + traded
          BY <1>1, <3>2
        <5>3. filled[i] + traded = (filled[i] + traded) + 0
          BY <2>4
        <5> QED
          BY <1>4, <5>1, <5>2, <5>3, Zenon
      <4> QED
        BY <4>1, <4>2, Zenon
    <3>3. CASE i # taker.arrival /\ i # maker.arrival
      <4>1. filled'[i] = filled[i]
        BY <1>1, <3>3
      <4>2. CASE offered[i] = filled[i] + gone[i]
        BY <1>4, <4>1, <4>2, Zenon
      <4>3. CASE \E o \in Present : o.arrival = i
        <5>1. PICK o \in Present : o.arrival = i
          BY <4>3, Zenon
        <5>2. o \in Resting /\ o # maker
          BY <3>3, <5>1, InPresent, Zenon
        <5>3. o \in Present'
          BY <1>4, <2>2, <5>2, Zenon
        <5> QED
          BY <5>1, <5>3, Zenon
      <4> QED
        BY <1>0, <4>2, <4>3, Zenon DEF Balance
    <3> QED
      BY <3>1, <3>2, <3>3, Zenon
  <2> QED
    BY <1>1, <2>5, <2>6, Zenon DEF Balance
<1> QED
  BY <1>1, <1>8, <1>9, <1>10, <1>11, Zenon DEF IInv

\* An order gives up what is left of it: cancelled, or discarded.
LEMMA GoneKeeps ==
    ASSUME IInv, NEW o \in Present, UNCHANGED <<offered, filled>>,
           gone' = [gone EXCEPT ![o.arrival] = o.quantity],
           \A u : u \in Present' <=> u \in Present /\ u # o
    PROVE  Histories' /\ Balance'
<1>0. BookOK /\ Histories /\ TakerOK /\ Index /\ Balance
  BY DEF IInv
<1>1. o \in Entry /\ o.arrival \in 1 .. Len(offered)
  BY <1>0, PresentTyped
<1> DEFINE a == o.arrival
           q == o.quantity
<1>2. /\ offered \in Seq(Nat) /\ filled \in Seq(Nat) /\ gone \in Seq(Nat)
      /\ Len(filled) = Len(offered) /\ Len(gone) = Len(offered)
      /\ offered' = offered /\ filled' = filled
  BY <1>0 DEF Histories
<1>3. a \in 1 .. Len(gone) /\ q \in Nat
  BY <1>1, <1>2 DEF Entry
<1>4. gone' = [gone EXCEPT ![a] = q]
  OBVIOUS
<1> HIDE DEF a, q
<1>5. /\ gone' \in Seq(Nat) /\ Len(gone') = Len(gone) /\ gone'[a] = q
      /\ \A i \in 1 .. Len(gone) : i # a => gone'[i] = gone[i]
  <2>1. /\ [gone EXCEPT ![a] = q] \in Seq(Nat)
        /\ Len([gone EXCEPT ![a] = q]) = Len(gone)
        /\ \A i \in 1 .. Len(gone) : [gone EXCEPT ![a] = q][i] = IF i = a THEN q ELSE gone[i]
    BY <1>2, <1>3, Updated, SMT, SMTT(30)
  <2>2. /\ gone' \in Seq(Nat) /\ Len(gone') = Len(gone)
        /\ \A i \in 1 .. Len(gone) : gone'[i] = IF i = a THEN q ELSE gone[i]
    BY <1>4, <2>1, Zenon
  <2> QED
    BY <1>3, <2>2, Zenon
<1>6. Histories'
  BY <1>2, <1>5, Zenon DEF Histories
<1>7. ASSUME NEW u \in Present'
      PROVE  gone'[u.arrival] = 0 /\ offered'[u.arrival] = filled'[u.arrival] + u.quantity
  <2>1. u \in Present /\ u # o
    BY Zenon
  <2>2. u.arrival # a
    BY <1>0, <2>1, PresentDistinct DEF a
  <2>3. u.arrival \in 1 .. Len(gone)
    BY <1>0, <1>2, <2>1, PresentTyped
  <2> QED
    BY <1>0, <1>2, <1>5, <2>1, <2>2, <2>3, Zenon DEF Balance
<1>8. ASSUME NEW i \in 1 .. Len(offered)
      PROVE  offered'[i] = filled'[i] + gone'[i] \/ \E u \in Present' : u.arrival = i
  <2>1. CASE i = a
    <3>1. offered[a] = filled[a] + q
      BY <1>0, Zenon DEF Balance, a, q
    <3> QED
      BY <1>2, <1>5, <2>1, <3>1, Zenon
  <2>2. CASE i # a
    <3>1. gone'[i] = gone[i]
      BY <1>2, <1>5, <2>2
    <3>2. ASSUME NEW u \in Present, u.arrival = i PROVE u \in Present'
      BY <2>2, <3>2, Zenon DEF a
    <3> QED
      BY <1>0, <1>2, <3>1, <3>2, Zenon DEF Balance
  <2> QED
    BY <2>1, <2>2, Zenon
<1> QED
  BY <1>2, <1>6, <1>7, <1>8, Zenon DEF Balance

\* What rests does not cross: the loop is over, so the best opposite level is out of
\* reach, and every other one too.
LEMMA RestKeeps ==
    ASSUME LeastNumber, IInv, Rest
    PROVE  IInv'
<1>0. Histories /\ TakerOK /\ Index /\ Balance /\ BookOK
  BY DEF IInv
<1>1. /\ BookOK' /\ Uncrossed'
      /\ \A o : o \in Resting' <=> o \in Resting \/ o = taker
  BY RestAdds
<1>2. /\ taker # NoOrder /\ taker.quantity > 0 /\ taker' = NoOrder
      /\ offered' = offered /\ filled' = filled /\ gone' = gone
      /\ live' = [i \in DOMAIN live \cup {taker.id} |-> IF i = taker.id THEN taker.side ELSE live[i]]
  BY Zenon DEF Rest
<1>3. /\ taker \in Entry /\ taker.id \notin DOMAIN live
      /\ taker.arrival = Len(offered) /\ Len(offered) > 0
      /\ \A o \in Resting : o.arrival < taker.arrival
  BY <1>0, <1>2, Zenon DEF TakerOK
<1>4. \A o : o \in Present' <=> o \in Present
  BY <1>1, <1>2, Zenon DEF Present
<1>5. Histories' /\ Balance'
  BY <1>0, <1>2, <1>4, Zenon DEF Histories, Balance
<1>6. TakerOK'
  BY <1>2, Zenon DEF TakerOK
<1>7. Index'
  <2>1. /\ DOMAIN live' = DOMAIN live \cup {taker.id} /\ live'[taker.id] = taker.side
        /\ \A i \in DOMAIN live : live'[i] = live[i]
    BY <1>2, <1>3
  <2>2. taker.id \in Id
    BY <1>3 DEF Entry
  <2>3. DOMAIN live' \subseteq Id
    BY <1>0, <2>1, <2>2, Zenon DEF Index
  <2>4. taker.arrival \in 1 .. Len(offered)
    BY <1>0, <1>3 DEF Histories
  <2>5. ASSUME NEW o \in Resting'
        PROVE  /\ o.quantity > 0 /\ o.arrival \in 1 .. Len(offered)
               /\ o.id \in DOMAIN live' /\ live'[o.id] = o.side
    <3>1. CASE o = taker
      BY <1>2, <2>1, <2>4, <3>1, Zenon
    <3>2. CASE o \in Resting
      BY <1>0, <2>1, <3>2, Zenon DEF Index
    <3> QED
      BY <1>1, <3>1, <3>2, Zenon
  <2>6. ASSUME NEW id \in DOMAIN live' PROVE \E o \in Resting' : o.id = id
    BY <1>0, <1>1, <2>1, Zenon DEF Index
  <2>7. \A o, u \in Resting' : o.id = u.id \/ o.arrival = u.arrival => o = u
    <3>1. \A o \in Resting : o.id # taker.id
      BY <1>0, <1>3, Zenon DEF Index
    <3>2. \A o \in Resting : o.arrival # taker.arrival
      <4> TAKE o \in Resting
      <4>1. o.arrival \in Nat /\ taker.arrival \in Nat /\ o.arrival < taker.arrival
        BY <1>0, <1>3 DEF Index, Entry
      <4> QED
        BY <4>1
    <3> TAKE o, u \in Resting'
    <3>3. o \in Resting \/ o = taker
      BY <1>1, Zenon
    <3>4. u \in Resting \/ u = taker
      BY <1>1, Zenon
    <3>5. CASE o \in Resting /\ u \in Resting
      BY <1>0, <3>5, Zenon DEF Index
    <3> QED
      BY <3>1, <3>2, <3>3, <3>4, <3>5, Zenon
  <2> QED
    BY <1>2, <2>3, <2>5, <2>6, <2>7, Zenon DEF Index
<1> QED
  BY <1>1, <1>5, <1>6, <1>7, Zenon DEF IInv

\* What is discarded is gone.
LEMMA DiscardKeeps ==
    ASSUME IInv, Discard
    PROVE  IInv'
<1>0. Histories /\ TakerOK /\ Index /\ Balance /\ BookOK /\ Uncrossed
  BY DEF IInv
<1>1. /\ taker # NoOrder /\ taker' = NoOrder
      /\ book' = book /\ live' = live /\ offered' = offered /\ filled' = filled
      /\ gone' = [gone EXCEPT ![taker.arrival] = taker.quantity]
  BY Zenon DEF Discard
<1>2. BookOK' /\ Uncrossed' /\ Resting' = Resting
  BY <1>0, <1>1 DEF BookOK, Uncrossed, Resting
<1>3. taker \in Present /\ \A o \in Resting : o # taker
  <2>1. taker \in Present
    BY <1>1, Zenon DEF Present
  <2>2. \A o \in Resting : o # taker
    <3> TAKE o \in Resting
    <3>1. o.arrival \in Nat /\ taker.arrival \in Nat /\ o.arrival < taker.arrival
      BY <1>0, <1>1 DEF Index, TakerOK, Entry
    <3> QED
      BY <3>1
  <2> QED
    BY <2>1, <2>2
<1>4. \A o : o \in Present' <=> o \in Present /\ o # taker
  BY <1>1, <1>2, <1>3, Zenon DEF Present
<1>5. Histories' /\ Balance'
  BY <1>1, <1>3, <1>4, GoneKeeps, Zenon
<1>6. TakerOK'
  BY <1>1, Zenon DEF TakerOK
<1>7. Index'
  BY <1>0, <1>1, <1>2, Zenon DEF Index
<1> QED
  BY <1>2, <1>5, <1>6, <1>7, Zenon DEF IInv

\* A cancelled order leaves book and index together, and what it had left is gone.
LEMMA CancelKeeps ==
    ASSUME IInv, NEW id \in Id, Cancel(id)
    PROVE  IInv'
<1>0. Histories /\ TakerOK /\ Index /\ Balance /\ BookOK /\ Uncrossed
  BY DEF IInv
<1>1. BookOK' /\ \E o \in Resting : Leave(o)
  BY CancelLeaves
<1>2. PICK o \in Resting : Leave(o)
  BY <1>1, Zenon
<1>3. /\ taker = NoOrder /\ taker' = NoOrder /\ offered' = offered /\ filled' = filled
      /\ \A t \in Side : DOMAIN book'[t] \subseteq DOMAIN book[t]
      /\ \A u : u \in Resting' <=> u \in Resting /\ u # o
      /\ live' = Restrict(live, DOMAIN live \ {o.id})
      /\ gone' = [gone EXCEPT ![o.arrival] = o.quantity]
  BY <1>2, Zenon DEF Leave
<1>4. DOMAIN live' = DOMAIN live \ {o.id} /\ \A i \in DOMAIN live' : live'[i] = live[i]
  BY <1>3 DEF Restrict
<1>5. Uncrossed'
  BY <1>0, <1>3, Zenon DEF Uncrossed, Side
<1>6. o \in Present /\ \A u : u \in Present' <=> u \in Present /\ u # o
  BY <1>3, Zenon DEF Present
<1>7. Histories' /\ Balance'
  BY <1>3, <1>6, GoneKeeps, Zenon
<1>8. TakerOK'
  BY <1>3, Zenon DEF TakerOK
<1>9. Index'
  <2>1. \A u \in Resting : u # o => u.id # o.id
    BY <1>0, Zenon DEF Index
  <2>2. DOMAIN live' \subseteq Id
    BY <1>0, <1>4 DEF Index
  <2>3. ASSUME NEW u \in Resting'
        PROVE  /\ u.quantity > 0 /\ u.arrival \in 1 .. Len(offered)
               /\ u.id \in DOMAIN live' /\ live'[u.id] = u.side
    <3>1. u \in Resting /\ u # o /\ u.id # o.id
      BY <1>3, <2>1, Zenon
    <3>2. /\ u.quantity > 0 /\ u.arrival \in 1 .. Len(offered)
          /\ u.id \in DOMAIN live /\ live[u.id] = u.side
      BY <1>0, <3>1, Zenon DEF Index
    <3> QED
      BY <1>4, <3>1, <3>2
  <2>4. ASSUME NEW i \in DOMAIN live' PROVE \E u \in Resting' : u.id = i
    <3>1. i \in DOMAIN live /\ i # o.id
      BY <1>4
    <3>2. PICK u \in Resting : u.id = i
      BY <1>0, <3>1, Zenon DEF Index
    <3> QED
      BY <1>3, <3>1, <3>2, Zenon
  <2>5. \A u, v \in Resting' : u.id = v.id \/ u.arrival = v.arrival => u = v
    BY <1>0, <1>3, Zenon DEF Index
  <2> QED
    BY <1>3, <2>2, <2>3, <2>4, <2>5, Zenon DEF Index
<1> QED
  BY <1>1, <1>5, <1>7, <1>8, <1>9, Zenon DEF IInv

-----------------------------------------------------------------------------
(* What the invariant says. *)

\* The invariant gives the types,
LEMMA InvTypeOK ==
    ASSUME IInv
    PROVE  TypeOK
<1>0. Histories /\ TakerOK /\ Index /\ BookOK
  BY DEF IInv
<1>1. DOMAIN offered = 1 .. Len(offered)
  BY <1>0 DEF Histories
<1>2. ASSUME NEW o \in Present
      PROVE  /\ o.id \in Id /\ o.side \in Side /\ o.price \in Price /\ o.quantity \in Nat
             /\ o.arrival \in DOMAIN offered
  <2>1. o \in Entry /\ o.arrival \in 1 .. Len(offered)
    BY <1>0, PresentTyped
  <2> QED
    BY <1>1, <2>1 DEF Entry
<1>3. /\ DOMAIN book = Side
      /\ \A s \in Side : DOMAIN book[s] \subseteq Price
      /\ \A s \in Side : \A p \in DOMAIN book[s] : book[s][p] # << >>
  BY <1>0, Zenon DEF BookOK, SideOK
<1> QED
  BY <1>0, <1>2, <1>3, Zenon DEF TypeOK, Present, Histories, Index

\* the exact index,
LEMMA InvIndex ==
    ASSUME IInv
    PROVE  IndexIsExact
<1>0. Index /\ BookOK
  BY DEF IInv
<1>1. TypeOK
  BY InvTypeOK
<1>2. \A s \in Side : \A p \in DOMAIN book[s] :
         \A o : o \in Range(book[s][p]) <=> o \in Resting /\ o.side = s /\ o.price = p
  BY <1>0, AtLevel
<1>3. \A s \in Side : \A p \in DOMAIN book[s] : \A o \in Range(book[s][p]) :
        /\ o.side = s /\ o.price = p
        /\ o.id \in DOMAIN live /\ live[o.id] = s
  <2> TAKE s \in Side
  <2> TAKE p \in DOMAIN book[s]
  <2> TAKE o \in Range(book[s][p])
  <2>1. o \in Resting /\ o.side = s /\ o.price = p
    BY <1>2
  <2> QED
    BY <1>0, <2>1, Zenon DEF Index
<1>4. ASSUME NEW id \in DOMAIN live
      PROVE  \E p \in DOMAIN book[live[id]] : \E i \in DOMAIN book[live[id]][p] :
                /\ book[live[id]][p][i].id = id
                /\ \A q \in DOMAIN book[live[id]] : \A j \in DOMAIN book[live[id]][q] :
                     book[live[id]][q][j].id = id => q = p /\ j = i
  <2>1. PICK o \in Resting : o.id = id
    BY <1>0, Zenon DEF Index
  <2> DEFINE s == live[id]
             p == o.price
  <2>2. s = o.side /\ s \in Side /\ p \in DOMAIN book[s] /\ o \in Range(book[s][p])
    BY <1>0, <2>1, RestingPlaced, Zenon DEF Index
  <2> HIDE DEF s, p
  <2>3. \A q \in DOMAIN book[s] : /\ Queue(book[s][q], s, q)
                                  /\ book[s][q] \in Seq(Entry)
                                  /\ DOMAIN book[s][q] = 1 .. Len(book[s][q])
    <3> TAKE q \in DOMAIN book[s]
    <3>1. Queue(book[s][q], s, q)
      BY <1>0, <2>2, Zenon DEF BookOK, SideOK
    <3>2. book[s][q] \in Seq(Entry)
      BY <3>1, Zenon DEF Queue
    <3> QED
      BY <3>1, <3>2
  <2>4. PICK i \in DOMAIN book[s][p] : o = book[s][p][i]
    <3>1. \E i \in 1 .. Len(book[s][p]) : o = book[s][p][i]
      BY <2>2, <2>3, InRange, Zenon
    <3> QED
      BY <2>2, <2>3, <3>1, Zenon
  <2>5. ASSUME NEW q \in DOMAIN book[s], NEW j \in DOMAIN book[s][q], book[s][q][j].id = id
        PROVE  q = p /\ j = i
    <3>1. j \in 1 .. Len(book[s][q]) /\ book[s][q][j] \in Range(book[s][q])
      BY <2>3, <2>5, InRange
    <3>2. book[s][q][j] \in Resting /\ book[s][q][j].price = q
      <4>1. s \in Side
        BY <2>2, Zenon
      <4>2. \A u : u \in Range(book[s][q]) <=> u \in Resting /\ u.side = s /\ u.price = q
        BY <1>2, <4>1, Zenon
      <4> QED
        BY <3>1, <4>2, Zenon
    <3>3. book[s][q][j] = o
      <4>1. \A u \in Resting : u.id = o.id => u = o
        BY <1>0, Zenon DEF Index
      <4> QED
        BY <2>1, <2>5, <3>2, <4>1
    <3>4. q = p
      BY <3>2, <3>3, Zenon DEF p
    <3>5. j = i
      BY <2>3, <2>4, <3>1, <3>3, <3>4, QueueDistinct
    <3> QED
      BY <3>4, <3>5
  <2>6. book[s][p][i].id = id
    BY <2>1, <2>4, Zenon
  <2> QED
    BY <2>2, <2>5, <2>6, Zenon DEF s
<1> QED
  BY <1>1, <1>3, <1>4, Zenon DEF IndexIsExact

\* and the conservation of quantities.
LEMMA InvConserved ==
    ASSUME IInv
    PROVE  QuantityConserved
<1>0. Histories /\ TakerOK /\ Index /\ Balance /\ BookOK
  BY DEF IInv
<1>1. DOMAIN offered = 1 .. Len(offered)
  BY <1>0 DEF Histories
<1>2. ASSUME NEW n \in 1 .. Len(offered)
      PROVE  \E q \in 0 .. offered[n] :
                /\ offered[n] = filled[n] + gone[n] + q
                /\ \A o \in Present : o.arrival = n => o.quantity = q
                /\ q > 0 => \E o \in Present : o.arrival = n
  <2>1. offered[n] \in Nat /\ filled[n] \in Nat /\ gone[n] \in Nat
    BY <1>0, SMT, SMTT(30) DEF Histories
  <2>2. CASE \E o \in Present : o.arrival = n
    <3>1. PICK o \in Present : o.arrival = n
      BY <2>2, Zenon
    <3>2. o.quantity \in Nat
      BY <1>0, PresentTyped DEF Entry
    <3>3. gone[n] = 0 /\ offered[n] = filled[n] + o.quantity
      BY <1>0, <3>1, Zenon DEF Balance
    <3>4. \A u \in Present : u.arrival = n => u.quantity = o.quantity
      BY <1>0, <3>1, PresentDistinct
    <3>5. o.quantity \in 0 .. offered[n] /\ offered[n] = filled[n] + gone[n] + o.quantity
      BY <2>1, <3>2, <3>3
    <3> QED
      BY <3>1, <3>4, <3>5, Zenon
  <2>3. CASE ~\E o \in Present : o.arrival = n
    <3>1. offered[n] = filled[n] + gone[n]
      BY <1>0, <2>3, Zenon DEF Balance
    <3>2. 0 \in 0 .. offered[n] /\ offered[n] = filled[n] + gone[n] + 0 /\ ~(0 > 0)
      BY <2>1, <3>1
    <3> QED
      BY <2>3, <3>2, Zenon
  <2> QED
    BY <2>2, <2>3, Zenon
<1> QED
  BY <1>1, <1>2, Zenon DEF QuantityConserved, Present

-----------------------------------------------------------------------------
(* The steps of the book and of the engine. *)

\* The invariant holds in an empty book.
LEMMA InitKeeps == ASSUME Init PROVE IInv
<1>1. /\ book = [s \in Side |-> << >>] /\ live = << >> /\ taker = NoOrder
      /\ offered = << >> /\ filled = << >> /\ gone = << >>
  BY Zenon DEF Init
<1>2. DOMAIN book = Side /\ \A s \in Side : book[s] = << >>
  BY <1>1
<1>3. \A s \in Side : DOMAIN book[s] = {}
  BY <1>2
<1>4. BookOK /\ Uncrossed
  BY <1>2, <1>3 DEF BookOK, SideOK, Uncrossed, Side
<1>5. \A o : o \notin Resting
  BY <1>3, InResting, InOrders, Zenon
<1>6. \A o : o \notin Present
  BY <1>1, <1>5, Zenon DEF Present
<1>7. Histories /\ Len(offered) = 0
  BY <1>1 DEF Histories
<1>8. DOMAIN live = {}
  BY <1>1
<1>9. \A n \in 1 .. Len(offered) : FALSE
  BY <1>7
<1> QED
  BY <1>1, <1>4, <1>5, <1>6, <1>7, <1>8, <1>9, Zenon DEF IInv, TakerOK, Index, Balance

\* An iteration of the loop, and its end, keep the invariant.
LEMMA LoopKeeps == ASSUME LeastNumber, IInv, Loop PROVE IInv'
<1>1. CASE Match
  <2>1. BookOK' /\ \E maker \in Resting : \E traded \in Nat : Trade(maker, traded)
    BY <1>1, MatchTrades
  <2>2. PICK maker \in Resting : \E traded \in Nat : Trade(maker, traded)
    BY <2>1, Zenon
  <2>3. PICK traded \in Nat : Trade(maker, traded)
    BY <2>2, Zenon
  <2> QED
    BY <2>1, <2>3, TradeKeeps
<1>2. CASE Rest
  BY <1>2, RestKeeps
<1>3. CASE Discard
  BY <1>3, DiscardKeeps
<1> QED
  BY <1>1, <1>2, <1>3, Zenon DEF Loop

\* A step of something else changes nothing here.
LEMMA StutterKeeps == ASSUME IInv, UNCHANGED vars PROVE IInv' /\ Present' = Present
<1>1. /\ book' = book /\ live' = live /\ taker' = taker
      /\ offered' = offered /\ filled' = filled /\ gone' = gone
  BY DEF vars
<1>2. Resting' = Resting
  BY <1>1 DEF Resting
<1>3. Present' = Present
  BY <1>1, <1>2 DEF Present
<1>4. BookOK' /\ Uncrossed'
  BY <1>1 DEF IInv, BookOK, Uncrossed
<1>5. Histories' /\ TakerOK' /\ Index'
  BY <1>1, <1>2 DEF IInv, Histories, TakerOK, Index
<1>6. Balance'
  BY <1>1, <1>3 DEF IInv, Balance
<1> QED
  BY <1>3, <1>4, <1>5, <1>6, Zenon DEF IInv

\* Every step of a book keeps the invariant.
LEMMA NextKeeps == ASSUME LeastNumber, IInv, [Next]_vars PROVE IInv'
<1>1. CASE \E order \in Order : Submit(order)
  <2>1. PICK order \in Order : Submit(order)
    BY <1>1, Zenon
  <2>2. order \in Arriving
    BY BookAssumption, Zenon DEF Order, Arriving
  <2> QED
    BY <2>1, <2>2, SubmitKeeps
<1>2. CASE Loop
  BY <1>2, LoopKeeps
<1>3. CASE \E id \in Id : Cancel(id)
  BY <1>3, CancelKeeps
<1>4. CASE UNCHANGED vars
  BY <1>4, StutterKeeps
<1> QED
  BY <1>1, <1>2, <1>3, <1>4, Zenon DEF Next

\* Every step of the engine keeps it, whoever has numbered the orders.
LEMMA EngineKeeps ==
    ASSUME LeastNumber, IInv, nextSequence \in Nat, [EngineNext]_engineVars
    PROVE  IInv' /\ nextSequence' \in Nat
<1>1. CASE \E order \in Order : EngineSubmit(order)
  <2>1. PICK order \in Order : EngineSubmit(order)
    BY <1>1, Zenon
  <2> DEFINE numbered == [order EXCEPT !.sequence = IF @ = 0 THEN nextSequence ELSE @]
  <2>2. Submit(numbered)
    BY <2>1, Zenon DEF EngineSubmit
  <2>3. numbered \in Arriving
    BY BookAssumption DEF Order, Arriving
  <2>4. nextSequence' \in Nat
    BY <2>1 DEF EngineSubmit
  <2> HIDE DEF numbered
  <2> QED
    BY <2>2, <2>3, <2>4, SubmitKeeps, Zenon
<1>2. CASE EngineElsewhere
  <2>1. UNCHANGED vars /\ nextSequence' = nextSequence + 1
    BY <1>2, Zenon DEF EngineElsewhere
  <2>2. nextSequence' \in Nat
    BY <2>1
  <2> QED
    BY <2>1, <2>2, StutterKeeps, Zenon
<1>3. CASE LoopStep
  BY <1>3, LoopKeeps, Zenon DEF LoopStep
<1>4. CASE CancelStep
  <2>1. PICK id \in Id : Cancel(id)
    BY <1>4, Zenon DEF CancelStep
  <2> QED
    BY <1>4, <2>1, CancelKeeps, Zenon DEF CancelStep
<1>5. CASE UNCHANGED engineVars
  <2>1. UNCHANGED vars /\ UNCHANGED nextSequence
    BY <1>5 DEF engineVars
  <2> QED
    BY <2>1, StutterKeeps, Zenon
<1> QED
  BY <1>1, <1>2, <1>3, <1>4, <1>5, Zenon DEF EngineNext

-----------------------------------------------------------------------------
(* Priority. *)

\* The fills that submit returns.
FillsTyped == fills \in Seq([taker : Id, maker : Nat, price : Price, quantity : Nat])

\* A trade is recorded at the end of the fills.
LEMMA TradeIsRecorded ==
    ASSUME IInv, FillsTyped, NEW maker \in Resting, NEW traded \in Nat, Trade(maker, traded)
    PROVE  /\ FillsTyped'
           /\ fills'[Len(fills')].maker = maker.arrival
           /\ fills'[Len(fills')].price = maker.price
<1> DEFINE r == [taker |-> taker.id, maker |-> maker.arrival,
                 price |-> maker.price, quantity |-> traded]
           Fill == [taker : Id, maker : Nat, price : Price, quantity : Nat]
<1>1. taker \in Entry /\ maker \in Entry
  BY RestingPlaced DEF IInv, TakerOK, Trade
<1>2. r \in Fill /\ r.maker = maker.arrival /\ r.price = maker.price
  BY <1>1 DEF Entry
<1>3. fills' = Append(fills, r)
  BY Zenon DEF Trade
<1>4. fills \in Seq(Fill)
  BY DEF FillsTyped
<1> HIDE DEF r, Fill
<1>5. fills' \in Seq(Fill) /\ fills'[Len(fills')] = r
  BY <1>2, <1>3, <1>4
<1> QED
  BY <1>2, <1>5, Zenon DEF FillsTyped, Fill

\* Only a trade adds to the fills.
LEMMA OtherStepsAddNothing ==
    ASSUME FillsTyped,
           fills' = << >> \/ fills' = fills
    PROVE  FillsTyped' /\ ~(Len(fills') > Len(fills))
<1> DEFINE Fill == [taker : Id, maker : Nat, price : Price, quantity : Nat]
<1>1. fills \in Seq(Fill)
  BY DEF FillsTyped
<1> HIDE DEF Fill
<1>2. Len(fills) \in Nat /\ Len(<< >>) = 0 /\ << >> \in Seq(Fill)
  BY <1>1
<1>3. CASE fills' = << >>
  <2>1. ~(0 > Len(fills))
    BY <1>2
  <2> QED
    BY <1>2, <1>3, <2>1, Zenon DEF FillsTyped, Fill
<1>4. CASE fills' = fills
  <2>1. ~(Len(fills) > Len(fills))
    BY <1>2
  <2> QED
    BY <1>4, <2>1, Zenon DEF FillsTyped
<1> QED
  BY <1>3, <1>4, Zenon

\* The steps of a book or of the engine are trades, or add nothing.
LEMMA TradeOrNothing ==
    ASSUME LeastNumber, IInv, [Next]_vars \/ [EngineNext]_engineVars
    PROVE  \/ \E maker \in Resting : \E traded \in Nat : Trade(maker, traded)
           \/ fills' = << >> \/ fills' = fills
<1>1. CASE Match
  BY <1>1, MatchTrades
<1>2. CASE Rest \/ Discard \/ \E id \in Id : Cancel(id)
  BY <1>2, Zenon DEF Rest, Discard, Cancel
<1>3. CASE \E order : Submit(order)
  BY <1>3, Zenon DEF Submit
<1>4. CASE UNCHANGED vars
  BY <1>4 DEF vars
<1>5. CASE \E order \in Order : EngineSubmit(order)
  BY <1>3, <1>5, Zenon DEF EngineSubmit
<1>6. CASE UNCHANGED engineVars \/ EngineElsewhere
  BY <1>4, <1>6 DEF engineVars, EngineElsewhere
<1>7. CASE Next
  BY <1>1, <1>2, <1>3, <1>7, Zenon DEF Next, Loop
<1>8. CASE EngineNext
  BY <1>1, <1>2, <1>5, <1>6, <1>8, Zenon DEF EngineNext, LoopStep, CancelStep, Loop
<1> QED
  BY <1>4, <1>6, <1>7, <1>8, Zenon

\* So the fills keep their type.
LEMMA FillsKeep ==
    ASSUME LeastNumber, IInv, FillsTyped, [Next]_vars \/ [EngineNext]_engineVars
    PROVE  FillsTyped'
BY TradeOrNothing, TradeIsRecorded, OtherStepsAddNothing, Zenon

\* A trade is with the first order of the best level of the other side.
LEMMA StepHasPriority ==
    ASSUME LeastNumber, IInv, FillsTyped, [Next]_vars \/ [EngineNext]_engineVars
    PROVE  FillHasPriority
<1> SUFFICES ASSUME Len(fills') > Len(fills)
             PROVE  FillHasPriority
  BY Zenon DEF FillHasPriority
<1>1. PICK maker \in Resting : \E traded \in Nat : Trade(maker, traded)
  BY TradeOrNothing, OtherStepsAddNothing, Zenon
<1>2. PICK traded \in Nat : Trade(maker, traded)
  BY <1>1, Zenon
<1>3. fills'[Len(fills')].maker = maker.arrival /\ fills'[Len(fills')].price = maker.price
  BY <1>2, TradeIsRecorded
<1>4. maker.side = Opposite(taker.side) /\ Crosses(taker, maker.price) /\ First(maker)
  BY <1>2, Zenon DEF Trade
<1>5. taker.side \in Side
  BY <1>2 DEF IInv, TakerOK, Trade, Entry
<1>6. \A o \in Resting : o.side # taker.side <=> o.side = maker.side
  BY <1>4, <1>5, OppositeSide, RestingPlaced DEF IInv
<1>7. maker.side # taker.side
  BY <1>4, <1>5, OppositeSide
<1>8. \A o \in {o \in Resting : o.side # taker.side} \ {maker} :
         \/ Better(maker.side, maker.price, o.price)
         \/ maker.price = o.price /\ maker.arrival < o.arrival
  BY <1>4, <1>6, Zenon DEF First
<1>9. maker \in {o \in Resting : o.side # taker.side}
  BY <1>7
<1> QED
  BY <1>3, <1>4, <1>8, <1>9, Zenon DEF FillHasPriority

-----------------------------------------------------------------------------
(* The natural numbers are well-ordered. *)

INSTANCE WellFoundedInduction

\* Every set of natural numbers that is not empty has a least element.
LEMMA LeastHolds == LeastNumber
<1> SUFFICES ASSUME NEW T \in SUBSET Nat, T # {}
             PROVE  \E n \in T : \A m \in T : n <= m
  BY Zenon DEF LeastNumber
<1> DEFINE R == {ss \in Nat \X Nat : ss[1] < ss[2]}
<1>1. IsWellFoundedOn(R, Nat)
  BY NatLessThanWellFounded, Zenon DEF OpToRel
<1>2. \A x, y \in Nat : x < y => <<x, y>> \in R
  OBVIOUS
<1> HIDE DEF R
<1>3. PICK x \in T : \A y \in T : ~(<<y, x>> \in R)
  BY <1>1, WFMin, Zenon
<1>4. \A y \in T : ~(y < x)
  BY <1>2, <1>3, Zenon
<1> QED
  BY <1>4

-----------------------------------------------------------------------------
(* The theorems. *)

\* The invariant holds in every state of a book.
THEOREM BookInvariant == Spec => [](IInv /\ FillsTyped)
<1>1. Init => IInv /\ FillsTyped
  <2>1. ASSUME Init PROVE FillsTyped
    BY <2>1 DEF Init, FillsTyped
  <2> QED
    BY <2>1, InitKeeps
<1>2. IInv /\ FillsTyped /\ [Next]_vars => (IInv /\ FillsTyped)'
  BY LeastHolds, NextKeeps, FillsKeep
<1> QED
  BY <1>1, <1>2, PTL DEF Spec

\* The same for a book that is reached through the engine, with numbers of the
\* engine and of the callers in any mixture.
THEOREM EngineInvariant == EngineSpec => [](IInv /\ FillsTyped /\ nextSequence \in Nat)
<1>1. EngineInit => IInv /\ FillsTyped /\ nextSequence \in Nat
  <2> SUFFICES ASSUME EngineInit PROVE IInv /\ FillsTyped /\ nextSequence \in Nat
    OBVIOUS
  <2>1. Init /\ nextSequence = 1
    BY Zenon DEF EngineInit
  <2>2. FillsTyped
    BY <2>1 DEF Init, FillsTyped
  <2>3. IInv
    BY <2>1, InitKeeps
  <2> QED
    BY <2>1, <2>2, <2>3
<1>2. IInv /\ FillsTyped /\ nextSequence \in Nat /\ [EngineNext]_engineVars
        => (IInv /\ FillsTyped /\ nextSequence \in Nat)'
  BY LeastHolds, EngineKeeps, FillsKeep
<1> QED
  BY <1>1, <1>2, PTL DEF EngineSpec

\* live_orders_ indexes exactly the resting orders, at every moment of submit and
\* cancel, for a book by itself and behind the engine.
THEOREM IndexCorrect == (Spec => []IndexIsExact) /\ (EngineSpec => []IndexIsExact)
<1>1. IInv => IndexIsExact
  BY InvIndex
<1>2. Spec => []IndexIsExact
  BY <1>1, BookInvariant, PTL
<1>3. EngineSpec => []IndexIsExact
  BY <1>1, EngineInvariant, PTL
<1> QED
  BY <1>2, <1>3

\* Between two calls no resting bid reaches a resting ask.
THEOREM NotCrossedCorrect == (Spec => []NotCrossed) /\ (EngineSpec => []NotCrossed)
<1>1. IInv => NotCrossed
  BY Zenon DEF IInv, Uncrossed, NotCrossed
<1>2. Spec => []NotCrossed
  BY <1>1, BookInvariant, PTL
<1>3. EngineSpec => []NotCrossed
  BY <1>1, EngineInvariant, PTL
<1> QED
  BY <1>2, <1>3

\* What an order offered is what it traded, gave up and still has.
THEOREM ConservationCorrect == (Spec => []QuantityConserved) /\ (EngineSpec => []QuantityConserved)
<1>1. IInv => QuantityConserved
  BY InvConserved
<1>2. Spec => []QuantityConserved
  BY <1>1, BookInvariant, PTL
<1>3. EngineSpec => []QuantityConserved
  BY <1>1, EngineInvariant, PTL
<1> QED
  BY <1>2, <1>3

\* Every fill is with the order that has price-time priority, where time is the
\* order of arrival whatever numbers the callers give.
THEOREM PriorityCorrect == (Spec => PriceTimePriority) /\ (EngineSpec => PriceTimePriority)
<1>1. IInv /\ FillsTyped /\ [Next]_vars => FillHasPriority
  BY LeastHolds, StepHasPriority
<1>2. IInv /\ FillsTyped /\ [EngineNext]_engineVars => FillHasPriority
  BY LeastHolds, StepHasPriority
<1>3. Spec => PriceTimePriority
  BY <1>1, BookInvariant, PTL DEF Spec, PriceTimePriority
<1>4. EngineSpec => PriceTimePriority
  BY <1>2, EngineInvariant, PTL DEF EngineSpec, PriceTimePriority
<1> QED
  BY <1>3, <1>4
=============================================================================
