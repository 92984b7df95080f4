------------------------------ MODULE LabProofs ------------------------------
(***************************************************************************)
(* What is guaranteed of the parts that work alone.  The lock-free ring    *)
(* hands every cell from owner to owner and every item out as it was       *)
(* pushed: for any number of threads and any capacity of at least two,     *)
(* with loads as stale as the memory orders allow.  For inputs of every    *)
(* size, the packet decoder stays inside the packet and takes its answer   *)
(* from the datagram, a text of hexadecimal digits is read as its pairs of *)
(* digits, parallel_sum adds every item once, and a report of              *)
(* netforge-bench is about all the requests that were asked for.           *)
(***************************************************************************)
EXTENDS LockFreeIngress, TLAPS

(* The lock-free ring *)

Pushing == {"pushValue", "pushPublish"}
Popping == {"popValue", "popRelease"}

\* The cell waits for position sequence[c], whose predecessor in the cell has been
\* claimed by a consumer.
Free(c) ==
    /\ CellOf(sequence[c]) = c
    /\ sequence[c] < enqueue + Capacity
    /\ sequence[c] >= Capacity => sequence[c] - Capacity < dequeue

\* The cell holds, or held until a moment ago, the item of the position before
\* sequence[c].
Full(c) ==
    /\ sequence[c] > 0 /\ CellOf(sequence[c] - 1) = c
    /\ sequence[c] - 1 < enqueue

Rings == \A c \in Cell : Free(c) \/ Full(c)

\* What was seen before a claim may be old, but sequence numbers only grow.
Claims ==
    \A t \in Thread :
        /\ pc[t] = "pushClaim" => position[t] <= sequence[CellOf(position[t])]
        /\ pc[t] = "popClaim" => position[t] + 1 <= sequence[CellOf(position[t])]

\* While a thread owns a cell, the number in it tells which position it is for.
Owning ==
    \A t \in Thread :
        /\ pc[t] \in Pushing => /\ position[t] < enqueue
                                /\ sequence[CellOf(position[t])] = position[t]
        /\ pc[t] \in Popping => /\ position[t] < dequeue
                                /\ sequence[CellOf(position[t])] = position[t] + 1

\* No position is claimed twice.
Apart ==
    \A t, u \in Thread :
        t # u => /\ pc[t] \in Pushing /\ pc[u] \in Pushing => position[t] # position[u]
                 /\ pc[t] \in Popping /\ pc[u] \in Popping => position[t] # position[u]

\* The item of a position on its way from the producer into the cell and out.
Carried ==
    \A t \in Thread :
        /\ pc[t] \in {"pushPosition", "pushSequence", "pushClaim"} => item[t] \in Value
        /\ pc[t] = "pushValue" => item[t] = pushed[position[t] + 1]
        /\ pc[t] = "pushPublish" => value[CellOf(position[t])] = pushed[position[t] + 1]
        /\ pc[t] = "popValue" => position[t] \notin DOMAIN popped

Stored ==
    \A p \in Nat :
        sequence[CellOf(p)] = p + 1 /\ p \notin DOMAIN popped => value[CellOf(p)] = pushed[p + 1]

IInv == TypeOK /\ Rings /\ Claims /\ Owning /\ Apart /\ Carried /\ Stored /\ TakenAsPushed

-----------------------------------------------------------------------------
(* Positions and cells.                                                    *)

\* A position has a cell.
LEMMA CellInRange == \A p \in Nat : CellOf(p) \in Cell
  BY IngressAssumption, Z3 DEF CellOf, Cell

\* In the first round the position is the cell.
LEMMA CellOfFirstRound == \A c \in Cell : c \in Nat /\ CellOf(c) = c
  BY IngressAssumption, Z3 DEF CellOf, Cell

\* Multiples of C that are less than C apart are equal.
LEMMA Multiples ==
    ASSUME NEW C \in Int, C > 0, NEW a \in Int, NEW b \in Int,
           C * a < C * b + C, C * b < C * a + C
    PROVE  a = b
<1>1. ASSUME b >= a + 1 PROVE FALSE
  <2>1. C * b >= C * (a + 1) /\ C * (a + 1) = C * a + C
    BY <1>1, Z3
  <2> QED BY <2>1
<1>2. ASSUME a >= b + 1 PROVE FALSE
  <2>1. C * a >= C * (b + 1) /\ C * (b + 1) = C * b + C
    BY <1>2, Z3
  <2> QED BY <2>1
<1> QED BY <1>1, <1>2

\* A position is a number of rounds and a cell.
LEMMA Division ==
    \A p \in Nat : /\ p = Capacity * (p \div Capacity) + CellOf(p)
                   /\ p \div Capacity \in Int /\ Capacity * (p \div Capacity) \in Int
                   /\ CellOf(p) \in 0 .. (Capacity - 1)
  BY IngressAssumption, Z3 DEF CellOf

\* Two positions of one cell are a full round apart.
LEMMA CellRound ==
    ASSUME NEW p \in Nat, NEW q \in Nat, p <= q, q < p + Capacity, CellOf(p) = CellOf(q)
    PROVE  p = q
<1> DEFINE a == p \div Capacity
           b == q \div Capacity
<1>1. /\ p = Capacity * a + CellOf(p) /\ a \in Int /\ Capacity * a \in Int
      /\ q = Capacity * b + CellOf(q) /\ b \in Int /\ Capacity * b \in Int
      /\ CellOf(p) \in Int
  BY Division, IngressAssumption
<1> HIDE DEF a, b
<1>2. Capacity \in Int /\ Capacity > 0
  BY IngressAssumption
<1>3. Capacity * a < Capacity * b + Capacity /\ Capacity * b < Capacity * a + Capacity
  BY <1>1, <1>2
<1>4. a = b
  BY <1>1, <1>2, <1>3, Multiples
<1> QED BY <1>1, <1>4

\* Consecutive positions have different cells.
LEMMA CellNext == \A p \in Nat : CellOf(p) # CellOf(p + 1)
  BY CellRound, IngressAssumption

\* A round later the cell is the same.
LEMMA CellAgain == \A p \in Nat : p + Capacity \in Nat /\ CellOf(p + Capacity) = CellOf(p)
<1> SUFFICES ASSUME NEW p \in Nat PROVE p + Capacity \in Nat /\ CellOf(p + Capacity) = CellOf(p)
  OBVIOUS
<1> DEFINE d == p \div Capacity
           a == d + 1
           b == (p + Capacity) \div Capacity
<1>1. p + Capacity \in Nat
  BY IngressAssumption
<1>2. p = Capacity * d + CellOf(p) /\ d \in Int /\ Capacity * d \in Int
  BY Division
<1>3. p + Capacity = Capacity * b + CellOf(p + Capacity) /\ b \in Int /\ Capacity * b \in Int
  BY <1>1, Division
<1>4. CellOf(p) \in 0 .. (Capacity - 1) /\ CellOf(p + Capacity) \in 0 .. (Capacity - 1)
  BY <1>1, Division
<1> HIDE DEF d, b
<1>5. Capacity * a = Capacity * d + Capacity /\ a \in Int
  BY <1>2, IngressAssumption, Z3
<1> HIDE DEF a
<1>6. p + Capacity = Capacity * a + CellOf(p)
  BY <1>2, <1>4, <1>5, IngressAssumption
<1>7. /\ Capacity \in Int /\ Capacity > 0 /\ Capacity * a \in Int
      /\ Capacity * a < Capacity * b + Capacity /\ Capacity * b < Capacity * a + Capacity
  BY <1>2, <1>3, <1>6, <1>4, <1>5, IngressAssumption
<1>8. a = b
  BY <1>3, <1>7, <1>5, Multiples
<1> QED BY <1>1, <1>3, <1>6, <1>4, <1>7, <1>8

-----------------------------------------------------------------------------
(* Who owns what.                                                          *)

\* Two owners have different cells.
LEMMA OneOwner ==
    ASSUME TypeOK, Owning, Apart
    PROVE  \A t, u \in Owners : t # u => CellOf(position[t]) # CellOf(position[u])
<1> SUFFICES ASSUME NEW t \in Owners, NEW u \in Owners, t # u,
                    CellOf(position[t]) = CellOf(position[u])
             PROVE  FALSE
  OBVIOUS
<1>1. /\ t \in Thread /\ u \in Thread /\ position[t] \in Nat /\ position[u] \in Nat
      /\ pc[t] \in Pushing \/ pc[t] \in Popping
      /\ pc[u] \in Pushing \/ pc[u] \in Popping
  BY DEF Owners, TypeOK, Pushing, Popping
<1>2. CASE (pc[t] \in Pushing /\ pc[u] \in Pushing) \/ (pc[t] \in Popping /\ pc[u] \in Popping)
  BY <1>1, <1>2 DEF Owning, Apart
<1>3. CASE pc[t] \in Pushing /\ pc[u] \in Popping
  <2>1. position[t] = position[u] + 1
    BY <1>1, <1>3 DEF Owning
  <2> QED BY <1>1, <2>1, CellNext
<1>4. CASE pc[t] \in Popping /\ pc[u] \in Pushing
  <2>1. position[u] = position[t] + 1
    BY <1>1, <1>4 DEF Owning
  <2> QED BY <1>1, <2>1, CellNext
<1> QED BY <1>1, <1>2, <1>3, <1>4

\* A producer that claims the next position finds the cell free, whatever it had
\* read.
LEMMA PushFindsFree ==
    ASSUME TypeOK, Rings, enqueue <= sequence[CellOf(enqueue)]
    PROVE  sequence[CellOf(enqueue)] = enqueue /\ enqueue - dequeue < Capacity
<1> DEFINE c == CellOf(enqueue)
<1>1. c \in Cell /\ enqueue \in Nat /\ dequeue \in Nat /\ sequence[c] \in Nat
  BY CellInRange DEF TypeOK
<1>2. ASSUME Full(c) PROVE FALSE
  <2>1. sequence[c] - 1 \in Nat /\ sequence[c] = enqueue /\ (sequence[c] - 1) + 1 = enqueue
    BY <1>1, <1>2 DEF Full
  <2> QED BY <1>2, <2>1, CellNext DEF Full
<1>3. Free(c)
  BY <1>1, <1>2 DEF Rings
<1>4. sequence[c] = enqueue
  BY <1>1, <1>3, CellRound DEF Free
<1> QED BY <1>1, <1>3, <1>4, IngressAssumption DEF Free

\* A consumer that claims the next position finds it published.
LEMMA PopFindsFull ==
    ASSUME TypeOK, Rings, dequeue + 1 <= sequence[CellOf(dequeue)]
    PROVE  sequence[CellOf(dequeue)] = dequeue + 1 /\ dequeue < enqueue
<1> DEFINE c == CellOf(dequeue)
<1>1. /\ c \in Cell /\ enqueue \in Nat /\ dequeue \in Nat /\ sequence[c] \in Nat
      /\ enqueue <= dequeue + Capacity /\ Capacity \in Nat
  BY CellInRange, IngressAssumption DEF TypeOK
<1>2. ASSUME Free(c) PROVE FALSE
  <2>1. sequence[c] >= dequeue + Capacity
    BY <1>1, <1>2, CellRound DEF Free
  <2> QED BY <1>1, <1>2, <2>1 DEF Free
<1>3. Full(c)
  BY <1>1, <1>2 DEF Rings
<1>4. sequence[c] - 1 \in Nat /\ dequeue <= sequence[c] - 1 /\ sequence[c] - 1 < dequeue + Capacity
  BY <1>1, <1>3 DEF Full
<1>5. dequeue = sequence[c] - 1
  BY <1>1, <1>3, <1>4, CellRound DEF Full
<1> QED BY <1>1, <1>3, <1>5 DEF Full

-----------------------------------------------------------------------------
(* The steps.                                                              *)

shared == <<enqueue, dequeue, sequence, value, pushed, popped>>

\* A step of a thread that owns nothing before and after it.
LEMMA Elsewhere ==
    ASSUME IInv, NEW t \in Thread, UNCHANGED shared, TypeOK',
           \A u \in Thread : u # t => pc'[u] = pc[u] /\ position'[u] = position[u] /\ item'[u] = item[u],
           pc'[t] \notin Pushing \cup Popping,
           pc'[t] = "pushClaim" => position'[t] <= sequence[CellOf(position'[t])],
           pc'[t] = "popClaim" => position'[t] + 1 <= sequence[CellOf(position'[t])],
           pc'[t] \in {"pushPosition", "pushSequence", "pushClaim"} => item'[t] \in Value
    PROVE  IInv'
<1>1. Rings' /\ Stored' /\ TakenAsPushed'
  BY DEF IInv, shared, Rings, Free, Full, Stored, TakenAsPushed
<1>2. Claims'
  BY DEF IInv, shared, Claims
<1>3. Owning' /\ Apart'
  BY DEF IInv, shared, Owning, Apart
<1>4. Carried'
  BY DEF IInv, shared, Carried, Pushing, Popping
<1> QED BY <1>1, <1>2, <1>3, <1>4 DEF IInv

\* No load returns more than the present value.
LEMMA LoadsPast ==
    /\ \A n \in Nat : Counted(n) \subseteq Nat
    /\ TypeOK => \A c \in Cell : \A s \in Sequences(c) : s \in Nat /\ s <= sequence[c]
  BY DEF Counted, Sequences, TypeOK

\* Only a claimed position is published.
LEMMA PublishedIsClaimed ==
    ASSUME TypeOK, Rings, NEW p \in Nat, sequence[CellOf(p)] = p + 1
    PROVE  p < enqueue
<1>1. CellOf(p) \in Cell /\ CellOf(p + 1) # CellOf(p)
  BY CellInRange, CellNext
<1>2. Full(CellOf(p))
  BY <1>1 DEF Rings, Free
<1> QED BY <1>2 DEF Full

\* A producer claims a position that is free.
LEMMA PushClaimStep ==
    ASSUME IInv, NEW t \in Thread, pc[t] = "pushClaim", enqueue = position[t],
           enqueue' = enqueue + 1, pushed' = Append(pushed, item[t]), Goto(t, "pushValue"),
           UNCHANGED <<position, dequeue, sequence, value, item, popped>>
    PROVE  IInv'
<1> USE DEF IInv
<1>1. /\ enqueue \in Nat /\ dequeue \in 0 .. enqueue /\ item[t] \in Value
      /\ pushed \in Seq(Value) /\ Len(pushed) = enqueue
      /\ pc'[t] = "pushValue" /\ \A u \in Thread : u # t => pc'[u] = pc[u]
  BY DEF TypeOK, Carried, Goto
<1>2. sequence[CellOf(enqueue)] = enqueue /\ enqueue - dequeue < Capacity
  BY PushFindsFree DEF Claims
<1>3. /\ pushed' \in Seq(Value) /\ Len(pushed') = enqueue'
      /\ pushed'[enqueue + 1] = item[t]
      /\ \A p \in Nat : p < enqueue => pushed'[p + 1] = pushed[p + 1]
  BY <1>1
<1>4. TypeOK'
  BY <1>1, <1>2, <1>3, IngressAssumption DEF TypeOK, Goto
<1>5. Rings'
  <2> SUFFICES ASSUME NEW c \in Cell PROVE (Free(c) \/ Full(c))'
    BY DEF Rings, Cell
  <2>1. sequence[c] \in Nat
    BY DEF TypeOK
  <2> QED BY <1>1, <2>1, IngressAssumption, SMT, SMTT(60) DEF Rings, Free, Full
<1>6. Claims'
  BY <1>1 DEF Claims
<1>7. Owning'
  BY <1>1, <1>2, SMT, SMTT(60) DEF Owning, TypeOK, Popping
<1>8. Apart'
  BY <1>1 DEF Apart, Owning, TypeOK, Popping, Pushing
<1>9. Carried'
  <2>1. \A u \in Thread : pc[u] \in Pushing => position[u] \in Nat /\ position[u] < enqueue
    BY DEF Owning, TypeOK
  <2> QED BY <1>1, <1>3, <2>1, SMT, SMTT(60) DEF Carried, Pushing
<1>10. Stored'
  BY <1>3, PublishedIsClaimed, Zenon DEF Stored
<1>11. TakenAsPushed'
  <2>1. \A p \in DOMAIN popped : p \in Nat /\ p < enqueue
    BY <1>1 DEF TypeOK
  <2> QED BY <1>3, <2>1, Zenon DEF TakenAsPushed
<1> QED BY <1>4, <1>5, <1>6, <1>7, <1>8, <1>9, <1>10, <1>11

\* A consumer claims a position that is full.
LEMMA PopClaimStep ==
    ASSUME IInv, NEW t \in Thread, pc[t] = "popClaim", dequeue = position[t],
           dequeue' = dequeue + 1, Goto(t, "popValue"),
           UNCHANGED <<position, enqueue, sequence, value, item, pushed, popped>>
    PROVE  IInv'
<1> USE DEF IInv
<1>1. /\ enqueue \in Nat /\ dequeue \in 0 .. enqueue
      /\ pc'[t] = "popValue" /\ \A u \in Thread : u # t => pc'[u] = pc[u]
  BY DEF TypeOK, Goto
<1>2. sequence[CellOf(dequeue)] = dequeue + 1 /\ dequeue < enqueue
  BY PopFindsFull DEF Claims
<1>3. dequeue \notin DOMAIN popped
  BY <1>1 DEF TypeOK
<1>4. TypeOK'
  BY <1>1, <1>2, IngressAssumption, SMT, SMTT(60) DEF TypeOK, Goto
<1>5. Rings'
  <2> SUFFICES ASSUME NEW c \in Cell PROVE (Free(c) \/ Full(c))'
    BY DEF Rings, Cell
  <2>1. sequence[c] \in Nat
    BY DEF TypeOK
  <2> QED BY <1>1, <2>1, IngressAssumption DEF Rings, Free, Full
<1>6. Claims'
  BY <1>1 DEF Claims
<1>7. Owning'
  BY <1>1, <1>2 DEF Owning, TypeOK, Pushing
<1>8. Apart'
  BY <1>1 DEF Apart, Owning, TypeOK, Popping, Pushing
<1>9. Carried'
  BY <1>1, <1>3 DEF Carried
<1> QED BY <1>4, <1>5, <1>6, <1>7, <1>8, <1>9 DEF Stored, TakenAsPushed

\* What the store into a cell needs to know of the others.
LEMMA Alone ==
    ASSUME IInv, NEW t \in Thread, pc[t] \in Pushing \cup Popping
    PROVE  /\ position[t] \in Nat /\ CellOf(position[t]) \in Cell
           /\ \A u \in Thread : u # t /\ pc[u] \in Pushing \cup Popping =>
                  CellOf(position[u]) # CellOf(position[t])
  BY CellInRange, OneOwner, Zenon DEF IInv, TypeOK, Owners, Pushing, Popping

\* A producer writes the value of its cell.
LEMMA PushValueStep ==
    ASSUME IInv, NEW t \in Thread, PushValue(t)
    PROVE  IInv'
<1> USE DEF IInv
<1> DEFINE c == CellOf(position[t])
<1>1. /\ pc[t] = "pushValue" /\ pc'[t] = "pushPublish"
      /\ \A u \in Thread : u # t => pc'[u] = pc[u] /\ item'[u] = item[u]
      /\ UNCHANGED <<enqueue, dequeue, sequence, position, pushed, popped>>
  BY DEF PushValue, TypeOK, Goto
<1>2. /\ position[t] \in Nat /\ c \in Cell
      /\ \A u \in Thread : u # t /\ pc[u] \in Pushing \cup Popping => CellOf(position[u]) # c
  BY <1>1, Alone DEF Pushing
<1>3. TypeOK'
  BY <1>2 DEF TypeOK, PushValue, Goto
<1>4. value'[c] = pushed[position[t] + 1] /\ \A d \in Cell : d # c => value'[d] = value[d]
  BY <1>1, <1>2 DEF TypeOK, PushValue, Carried
<1>5. Rings' /\ TakenAsPushed'
  BY <1>1 DEF Rings, Free, Full, TakenAsPushed
<1>6. Claims' /\ Owning' /\ Apart'
  BY <1>1, SMT, SMTT(30) DEF Claims, Owning, Apart, Pushing, Popping
<1>7. Carried'
  <2>1. \A u \in Thread : CellOf(position[u]) \in Cell
    BY CellInRange DEF TypeOK
  <2> QED BY <1>1, <1>2, <1>4, <2>1 DEF Carried, Pushing
<1>8. Stored'
  <2>1. ASSUME NEW p \in Nat, sequence[CellOf(p)] = p + 1
        PROVE  CellOf(p) \in Cell /\ CellOf(p) # c
    BY <1>1, <1>2, <2>1, CellInRange, CellNext DEF Owning, Pushing
  <2> QED BY <1>1, <1>4, <2>1 DEF Stored
<1> QED BY <1>3, <1>5, <1>6, <1>7, <1>8

\* A producer publishes its cell.
LEMMA PushPublishStep ==
    ASSUME IInv, NEW t \in Thread, PushPublish(t)
    PROVE  IInv'
<1> USE DEF IInv
<1> DEFINE c == CellOf(position[t])
<1>1. /\ pc[t] = "pushPublish" /\ pc'[t] = "true"
      /\ \A u \in Thread : u # t => pc'[u] = pc[u]
      /\ UNCHANGED <<enqueue, dequeue, value, position, item, pushed, popped>>
  BY DEF PushPublish, TypeOK, Goto
<1>2. /\ position[t] \in Nat /\ c \in Cell
      /\ \A u \in Thread : u # t /\ pc[u] \in Pushing \cup Popping => CellOf(position[u]) # c
  BY <1>1, Alone DEF Pushing
<1>3. TypeOK'
  BY <1>2, SMT, SMTT(60) DEF TypeOK, PushPublish, Goto
<1>4. /\ sequence[c] = position[t] /\ position[t] < enqueue /\ sequence'[c] = position[t] + 1
      /\ \A d \in Cell : d # c => sequence'[d] = sequence[d]
      /\ \A d \in Cell : sequence[d] \in Nat /\ sequence'[d] \in Nat /\ sequence[d] <= sequence'[d]
  BY <1>1, <1>2 DEF TypeOK, PushPublish, Owning, Pushing
<1>5. Rings'
  BY <1>1, <1>2, <1>4 DEF Rings, Free, Full
<1>6. \A u \in Thread : position[u] \in Nat /\ CellOf(position[u]) \in Cell
  BY CellInRange DEF TypeOK
<1>7. Claims'
  BY <1>1, <1>4, <1>6 DEF Claims
<1>8. Owning' /\ Apart'
  BY <1>1, <1>2, <1>4, <1>6 DEF Owning, Apart, Pushing, Popping
<1>9. Carried' /\ TakenAsPushed'
  BY <1>1, SMT, SMTT(60) DEF Carried, TakenAsPushed
<1>10. Stored'
  <2>1. \A p \in Nat : CellOf(p) \in Cell
    BY CellInRange
  <2>2. ASSUME NEW p \in Nat, sequence'[c] = p + 1 PROVE p = position[t]
    BY <1>2, <1>4, <2>2
  <2>3. value[c] = pushed[position[t] + 1]
    BY <1>1, Zenon DEF Carried
  <2>4. ASSUME NEW p \in Nat, sequence'[CellOf(p)] = p + 1, p \notin DOMAIN popped
        PROVE  value[CellOf(p)] = pushed[p + 1]
    <3>1. CASE CellOf(p) = c
      BY <2>2, <2>3, <2>4, <3>1, Zenon
    <3>2. CASE CellOf(p) # c
      BY <1>4, <2>1, <2>4, <3>2, Zenon DEF Stored
    <3> QED BY <3>1, <3>2, Zenon
  <2> QED BY <1>1, <2>4, Zenon DEF Stored
<1> QED BY <1>3, <1>5, <1>7, <1>8, <1>9, <1>10

\* A consumer reads the value of its cell.
LEMMA PopValueStep ==
    ASSUME IInv, NEW t \in Thread, PopValue(t)
    PROVE  IInv'
<1> USE DEF IInv
<1> DEFINE c == CellOf(position[t])
<1>1. /\ pc[t] = "popValue" /\ pc'[t] = "popRelease"
      /\ \A u \in Thread : u # t => pc'[u] = pc[u] /\ item'[u] = item[u]
      /\ UNCHANGED <<enqueue, dequeue, sequence, position, pushed>>
  BY DEF PopValue, TypeOK, Goto
<1>2. /\ position[t] \in Nat /\ c \in Cell
      /\ \A u \in Thread : u # t /\ pc[u] \in Pushing \cup Popping => CellOf(position[u]) # c
  BY <1>1, Alone DEF Popping
<1>3. /\ DOMAIN popped' = DOMAIN popped \cup {position[t]} /\ popped'[position[t]] = value[c]
      /\ \A p \in DOMAIN popped : p # position[t] => popped'[p] = popped[p]
      /\ \A d \in Cell : d # c => value'[d] = value[d]
  BY SMT, SMTT(60) DEF PopValue, TypeOK
<1>4. position[t] < dequeue /\ sequence[c] = position[t] + 1 /\ position[t] \notin DOMAIN popped
  <2>1. position[t] < dequeue /\ sequence[c] = position[t] + 1
    BY <1>1, Zenon DEF Owning, Popping
  <2>2. position[t] \notin DOMAIN popped
    BY <1>1, Zenon DEF Carried
  <2> QED BY <2>1, <2>2, Zenon
<1>5. TypeOK'
  BY <1>2, <1>3, <1>4 DEF TypeOK, PopValue, Goto
<1>6. Rings' /\ Claims' /\ Owning' /\ Apart'
  BY <1>1, SMT, SMTT(60) DEF Rings, Free, Full, Claims, Owning, Apart, Pushing, Popping
<1>7. Carried'
  <2>1. \A u \in Thread : CellOf(position[u]) \in Cell
    BY CellInRange DEF TypeOK
  <2>2. ASSUME NEW u \in Thread, u # t, pc[u] \in {"pushPublish", "popValue"}
        PROVE  CellOf(position[u]) # c /\ position[u] # position[t]
    BY <1>2, <2>2, Zenon DEF Pushing, Popping
  <2>3. ASSUME NEW u \in Thread, u # t, pc[u] = "pushPublish"
        PROVE  value'[CellOf(position[u])] = value[CellOf(position[u])]
    BY <1>3, <2>1, <2>2, <2>3, Zenon
  <2>4. ASSUME NEW u \in Thread, u # t, pc[u] = "popValue", position[u] \notin DOMAIN popped
        PROVE  position[u] \notin DOMAIN popped'
    <3>1. DOMAIN popped' = DOMAIN popped \cup {position[t]}
      BY <1>3, Zenon
    <3>2. position[u] # position[t]
      BY <2>2, <2>4, Zenon
    <3> QED BY <2>4, <3>1, <3>2, Zenon
  <2> QED BY <1>1, <2>3, <2>4, Zenon DEF Carried
<1>8. Stored'
  <2>1. \A p \in Nat : CellOf(p) \in Cell
    BY CellInRange
  <2>2. ASSUME NEW p \in Nat, sequence[c] = p + 1 PROVE p = position[t]
    BY <1>2, <1>4, <2>2
  <2>3. ASSUME NEW p \in Nat, sequence[CellOf(p)] = p + 1, p \notin DOMAIN popped'
        PROVE  value'[CellOf(p)] = pushed[p + 1]
    <3>1. DOMAIN popped' = DOMAIN popped \cup {position[t]}
      BY <1>3, Zenon
    <3>2. p # position[t] /\ p \notin DOMAIN popped
      BY <2>3, <3>1, Zenon
    <3>3. CellOf(p) # c
      BY <2>2, <2>3, <3>2, Zenon
    <3>4. value'[CellOf(p)] = value[CellOf(p)]
      BY <1>3, <2>1, <3>3, Zenon
    <3> QED BY <2>3, <3>2, <3>4, Zenon DEF Stored
  <2> QED BY <1>1, <2>3, Zenon DEF Stored
<1>9. TakenAsPushed'
  <2>1. value[c] = pushed[position[t] + 1]
    BY <1>2, <1>4, Zenon DEF Stored
  <2> QED BY <1>1, <1>3, <2>1, Zenon DEF TakenAsPushed
<1> QED BY <1>5, <1>6, <1>7, <1>8, <1>9

\* A consumer frees its cell for the next round.
LEMMA PopReleaseStep ==
    ASSUME IInv, NEW t \in Thread, PopRelease(t)
    PROVE  IInv'
<1> USE DEF IInv
<1> DEFINE c == CellOf(position[t])
<1>1. /\ pc[t] = "popRelease" /\ pc'[t] = "value"
      /\ \A u \in Thread : u # t => pc'[u] = pc[u]
      /\ UNCHANGED <<enqueue, dequeue, value, position, item, pushed, popped>>
  BY DEF PopRelease, TypeOK, Goto
<1>2. /\ position[t] \in Nat /\ c \in Cell
      /\ \A u \in Thread : u # t /\ pc[u] \in Pushing \cup Popping => CellOf(position[u]) # c
  BY <1>1, Alone DEF Popping
<1>3. TypeOK'
  BY <1>2, CellAgain, ZenonT(60) DEF TypeOK, PopRelease, Goto
<1>4. /\ sequence[c] = position[t] + 1 /\ position[t] < dequeue /\ dequeue \in Nat
      /\ dequeue <= enqueue /\ enqueue \in Nat /\ sequence'[c] = position[t] + Capacity
      /\ \A d \in Cell : d # c => sequence'[d] = sequence[d]
  BY <1>1, <1>2 DEF TypeOK, PopRelease, Owning, Popping
<1>5. \A d \in Cell : sequence[d] \in Nat /\ sequence'[d] \in Nat /\ sequence[d] <= sequence'[d]
  <2>1. sequence[c] <= sequence'[c] /\ sequence'[c] \in Nat
    BY <1>2, <1>4, IngressAssumption
  <2>2. \A d \in Cell : sequence[d] \in Nat
    BY DEF TypeOK
  <2> QED BY <1>4, <2>1, <2>2
<1>6. Rings'
  <2>1. Free(c)'
    BY <1>1, <1>2, <1>4, CellAgain, IngressAssumption DEF Free
  <2> QED BY <1>1, <1>4, <2>1 DEF Rings, Free, Full
<1>7. \A u \in Thread : position[u] \in Nat /\ CellOf(position[u]) \in Cell
  BY CellInRange DEF TypeOK
<1>8. Claims'
  BY <1>1, <1>5, <1>7 DEF Claims
<1>9. Owning' /\ Apart'
  BY <1>1, <1>2, <1>4, <1>7 DEF Owning, Apart, Pushing, Popping
<1>10. Carried' /\ TakenAsPushed'
  BY <1>1 DEF Carried, TakenAsPushed
<1>11. Stored'
  <2>1. \A p \in Nat : CellOf(p) \in Cell /\ CellOf(p) # CellOf(p + 1)
    BY CellInRange, CellNext
  <2>2. CellOf(position[t] + Capacity) = c
    BY <1>2, CellAgain
  <2> QED BY <1>1, <1>4, <2>1, <2>2 DEF Stored
<1> QED BY <1>3, <1>6, <1>8, <1>9, <1>10, <1>11

-----------------------------------------------------------------------------
\* The steps that only look: of a thread that owns nothing before and after.
LEMMA LookingStep ==
    ASSUME IInv, NEW t \in Thread,
           \/ \E v \in Value : TryPush(t, v)
           \/ PushPosition(t) \/ PushSequence(t) \/ TryPop(t) \/ PopPosition(t) \/ PopSequence(t)
           \/ Return(t)
    PROVE  IInv'
<1>1. /\ \A n \in Nat : Counted(n) \subseteq Nat
      /\ CellOf(position[t]) \in Cell /\ position[t] \in Nat
      /\ \A s \in Sequences(CellOf(position[t])) :
            s \in Nat /\ s <= sequence[CellOf(position[t])]
      /\ sequence[CellOf(position[t])] \in Nat
  BY LoadsPast, CellInRange, Zenon DEF IInv, TypeOK
<1>2. CASE (\E v \in Value : TryPush(t, v)) \/ TryPop(t) \/ Return(t)
  <2>1. TypeOK'
    BY <1>2, Zenon DEF IInv, TypeOK, TryPush, TryPop, Return, Goto
  <2>2. /\ UNCHANGED shared
        /\ \A u \in Thread : u # t => pc'[u] = pc[u] /\ position'[u] = position[u] /\ item'[u] = item[u]
    BY <1>2 DEF IInv, TypeOK, TryPush, TryPop, Return, Goto, shared
  <2>3. /\ pc'[t] \in {"pushPosition", "popPosition", "idle"}
        /\ pc'[t] = "pushPosition" => item'[t] \in Value
    BY <1>2 DEF IInv, TypeOK, TryPush, TryPop, Return, Goto
  <2> QED BY <2>1, <2>2, <2>3, Elsewhere DEF Pushing, Popping
<1>3. CASE PushPosition(t) \/ PopPosition(t)
  <2>1. TypeOK'
    <3>1. Counted(enqueue) \subseteq Nat /\ Counted(dequeue) \subseteq Nat
      BY <1>1 DEF IInv, TypeOK
    <3>2. position' \in [Thread -> Nat]
      BY <1>3, <3>1, SMT, SMTT(60) DEF IInv, TypeOK, PushPosition, PopPosition
    <3> QED BY <1>3, <3>2, Zenon DEF IInv, TypeOK, PushPosition, PopPosition, Goto
  <2>2. pc'[t] = "pushSequence" => item'[t] \in Value
    BY <1>3, SMT, SMTT(60) DEF IInv, TypeOK, Carried, PushPosition, PopPosition, Goto
  <2> QED BY <1>3, <2>1, <2>2, Elsewhere, ZenonT(60)
          DEF IInv, TypeOK, PushPosition, PopPosition, Goto, shared, Pushing, Popping
<1>4. CASE PushSequence(t)
  <2>1. TypeOK'
    BY <1>4, ZenonT(60) DEF IInv, TypeOK, PushSequence, Goto
  <2>2. /\ pc'[t] \in {"pushClaim", "false", "pushPosition"}
        /\ pc'[t] # "false" => item'[t] \in Value
        /\ pc'[t] = "pushClaim" => position[t] <= sequence[CellOf(position[t])]
    BY <1>1, <1>4 DEF IInv, TypeOK, Carried, PushSequence, Goto
  <2> QED BY <1>4, <2>1, <2>2, Elsewhere, ZenonT(60)
          DEF IInv, TypeOK, PushSequence, Goto, shared, Pushing, Popping
<1>5. CASE PopSequence(t)
  <2>1. TypeOK'
    BY <1>5, Zenon DEF IInv, TypeOK, PopSequence, Goto
  <2>2. /\ pc'[t] \in {"popClaim", "nullopt", "popPosition"}
        /\ pc'[t] = "popClaim" => position[t] + 1 <= sequence[CellOf(position[t])]
    BY <1>1, <1>5 DEF IInv, TypeOK, PopSequence, Goto
  <2> QED BY <1>5, <2>1, <2>2, Elsewhere, ZenonT(60)
          DEF IInv, TypeOK, PopSequence, Goto, shared, Pushing, Popping
<1> QED BY <1>2, <1>3, <1>4, <1>5

\* A claim that fails leaves the thread with another position.
LEMMA ClaimFailsStep ==
    ASSUME IInv, NEW t \in Thread, NEW n \in Nat, ClaimFails(t, n),
           NEW label \in {"pushSequence", "popSequence"}, Goto(t, label),
           label = "pushSequence" => item[t] \in Value,
           UNCHANGED <<enqueue, dequeue, sequence, value, item, pushed, popped>>
    PROVE  IInv'
<1>1. position' \in [Thread -> Nat] /\ \A u \in Thread : u # t => position'[u] = position[u]
  BY LoadsPast DEF IInv, TypeOK, ClaimFails
<1>2. pc'[t] = label /\ \A u \in Thread : u # t => pc'[u] = pc[u]
  BY DEF IInv, TypeOK, Goto
<1>3. TypeOK'
  BY <1>1, Zenon DEF IInv, TypeOK, Goto
<1> QED BY <1>1, <1>2, <1>3, Elsewhere DEF shared, Pushing, Popping

\* A compare-exchange of try_push, whether it succeeds or not.
LEMMA PushClaimAnyStep ==
    ASSUME IInv, NEW t \in Thread, PushClaim(t)
    PROVE  IInv'
<1>1. enqueue \in Nat /\ pc[t] = "pushClaim" /\ item[t] \in Value
  BY DEF IInv, TypeOK, Carried, PushClaim
<1>2. CASE ClaimFails(t, enqueue) /\ Goto(t, "pushSequence") /\ UNCHANGED <<enqueue, pushed>>
  BY <1>1, <1>2, ClaimFailsStep, SMT, SMTT(30) DEF PushClaim
<1> QED BY <1>1, <1>2, PushClaimStep DEF PushClaim

\* A compare-exchange of try_pop, whether it succeeds or not.
LEMMA PopClaimAnyStep ==
    ASSUME IInv, NEW t \in Thread, PopClaim(t)
    PROVE  IInv'
<1>1. dequeue \in Nat /\ pc[t] = "popClaim"
  BY SMT, SMTT(60) DEF IInv, TypeOK, PopClaim
<1>2. CASE ClaimFails(t, dequeue) /\ Goto(t, "popSequence") /\ UNCHANGED dequeue
  BY <1>1, <1>2, ClaimFailsStep DEF PopClaim
<1> QED BY <1>1, <1>2, PopClaimStep DEF PopClaim

\* The invariant holds in every state of a ring.
LEMMA Inductive == Spec => []IInv
<1>1. Init => IInv
  <2> SUFFICES ASSUME Init PROVE IInv
    OBVIOUS
  <2>1. TypeOK
    BY IngressAssumption DEF Init, TypeOK, Cell
  <2>2. Rings
    BY CellOfFirstRound, IngressAssumption DEF Init, Rings, Free, Cell
  <2>3. Claims /\ Owning /\ Apart /\ Carried /\ TakenAsPushed
    BY DEF Init, Claims, Owning, Apart, Carried, TakenAsPushed, Pushing, Popping
  <2>4. Stored
    BY CellInRange, CellOfFirstRound, CellNext DEF Init, Stored
  <2> QED BY <2>1, <2>2, <2>3, <2>4 DEF IInv
<1>2. IInv /\ [Next]_vars => IInv'
  <2> SUFFICES ASSUME IInv, [Next]_vars PROVE IInv'
    BY SMT, SMTT(60)
  <2>1. CASE UNCHANGED vars
    BY <2>1, Zenon DEF vars, IInv, TypeOK, Rings, Free, Full, Claims, Owning, Apart, Carried, Stored, TakenAsPushed
  <2> QED BY <2>1, LookingStep, PushClaimAnyStep, PopClaimAnyStep, PushValueStep,
          PushPublishStep, PopValueStep, PopReleaseStep
          DEF Next, Step
<1> QED BY <1>1, <1>2, PTL DEF Spec

\* No two threads ever own a cell of the ring, and no more than Capacity items
\* are in it: the plain accesses of try_push and try_pop to a cell do not race.
THEOREM OneOwnerPerCellAlways == Spec => []OneOwnerPerCell
<1>1. IInv => OneOwnerPerCell
  BY OneOwner DEF IInv, OneOwnerPerCell
<1> QED BY <1>1, Inductive, PTL

\* try_pop hands out, for each position, the item that try_push accepted there.
THEOREM TakenAsPushedAlways == Spec => []TakenAsPushed
<1>1. IInv => TakenAsPushed
  BY DEF IInv
<1> QED BY <1>1, Inductive, PTL

-----------------------------------------------------------------------------
(* The packet decoder *)

CONSTANTS ItemCount, ThreadCount, Modulus,              \* parallel_sum
          RequestCount, Concurrency, Warmup, Addresses  \* netforge-bench

\* Each theorem is about one of the parts: a variable two of them name is the one
\* of the part that the theorem is about.
VARIABLES at, high, bytes, digits,                                          \* hex
          main, next, running, partials, total, tried, warmed, samples, failures, merged

INSTANCE Packet
Hex == INSTANCE HexBytes
Sum == INSTANCE ParallelSum
Load == INSTANCE Bench

\* A byte is a number below 256.
LEMMA ByteIs == \A b : b \in Byte <=> b \in Nat /\ b < 256
<1>1. \A n \in Nat : \A b : b \in 0 .. n <=> b \in Nat /\ b < n + 1
  OBVIOUS
<1>2. 255 \in Nat
  OBVIOUS
<1>3. \A b : b \in Byte <=> b \in Nat /\ b < 255 + 1
  BY <1>1, <1>2, Zenon DEF Byte
<1> QED BY <1>3

\* Bytes and what is computed from them are numbers in their range.
LEMMA PacketTypes ==
    ASSUME NEW p \in Packets
    PROVE  /\ p.size \in Nat
           /\ \A i \in Nat : p.byte[i] \in Nat /\ p.byte[i] < 256
           /\ \A i \in Nat : ReadU16(p, i) \in Nat /\ ReadU16(p, i) < 65536
<1>1. p.size \in Nat /\ p.byte \in [Nat -> Byte]
  BY Zenon DEF Packets
<1>2. ASSUME NEW i \in Nat PROVE p.byte[i] \in Nat /\ p.byte[i] < 256
  BY <1>1, ByteIs, Zenon
<1>3. ASSUME NEW i \in Nat PROVE ReadU16(p, i) \in Nat /\ ReadU16(p, i) < 65536
  <2>1. /\ p.byte[i] \in Nat /\ p.byte[i] < 256
        /\ p.byte[i + 1] \in Nat /\ p.byte[i + 1] < 256
    BY <1>2
  <2> QED BY <2>1 DEF ReadU16
<1> QED BY <1>1, <1>2, <1>3

\* Where the headers may lie.
LEMMA OffsetTypes ==
    ASSUME NEW p \in Packets
    PROVE  /\ IpOffset(p) \in {14, 18}
           /\ IpHeaderLength(p) \in Nat /\ IpHeaderLength(p) <= 60
           /\ TcpOffset(p) \in Nat /\ TcpOffset(p) = IpOffset(p) + IpHeaderLength(p)
           /\ TotalLength(p) \in Nat
           /\ TcpHeaderLength(p) \in Nat /\ TcpHeaderLength(p) <= 60
<1>1. IpOffset(p) \in {14, 18}
  BY Zenon DEF IpOffset
<1>2. IpHeaderLength(p) \in Nat /\ IpHeaderLength(p) <= 60
  BY <1>1, PacketTypes DEF IpHeaderLength
<1>3. TcpOffset(p) \in Nat /\ TcpOffset(p) = IpOffset(p) + IpHeaderLength(p)
  BY <1>1, <1>2 DEF TcpOffset
<1>4. TotalLength(p) \in Nat
  BY <1>1, PacketTypes DEF TotalLength
<1>5. TcpHeaderLength(p) \in Nat /\ TcpHeaderLength(p) <= 60
  <2>1. TcpOffset(p) + 12 \in Nat
    BY <1>3
  <2>2. p.byte[TcpOffset(p) + 12] \in Nat /\ p.byte[TcpOffset(p) + 12] < 256
    BY <2>1, PacketTypes
  <2> QED BY <2>2 DEF TcpHeaderLength
<1> QED BY <1>1, <1>2, <1>3, <1>4, <1>5, Zenon

\* What the decoder knows when it comes to a check.
LEMMA Known ==
    ASSUME NEW p \in Packets, NEW i \in 1 .. 11, Reaches(p, i)
    PROVE  /\ i > 1 => p.size >= 14
           /\ i > 2 => (Tagged(p) => p.size >= 18)
           /\ i > 4 => p.size >= IpOffset(p) + 20
           /\ i > 6 => IpHeaderLength(p) >= 20
           /\ i > 7 => TotalLength(p) >= IpHeaderLength(p) + 20 /\ p.size >= End(p)
           /\ i > 10 => /\ TcpHeaderLength(p) >= 20
                        /\ TcpOffset(p) + TcpHeaderLength(p) <= End(p)
<1>1. ASSUME i > 1 PROVE p.size >= 14
  BY <1>1, PacketTypes, 1 \in Checks DEF Reaches, Checks, Fails
<1>2. ASSUME i > 2, Tagged(p) PROVE p.size >= 18
  BY <1>2, PacketTypes, 2 \in Checks DEF Reaches, Checks, Fails
<1>4. ASSUME i > 4 PROVE p.size >= IpOffset(p) + 20
  BY <1>4, PacketTypes, OffsetTypes, 4 \in Checks DEF Reaches, Checks, Fails
<1>6. ASSUME i > 6 PROVE IpHeaderLength(p) >= 20
  BY <1>6, PacketTypes, OffsetTypes, 6 \in Checks DEF Reaches, Checks, Fails
<1>7. ASSUME i > 7 PROVE TotalLength(p) >= IpHeaderLength(p) + 20 /\ p.size >= End(p)
  BY <1>7, PacketTypes, OffsetTypes, 7 \in Checks DEF Reaches, Checks, Fails, End
<1>10. ASSUME i > 10
       PROVE  TcpHeaderLength(p) >= 20 /\ TcpOffset(p) + TcpHeaderLength(p) <= End(p)
  BY <1>10, PacketTypes, OffsetTypes, 10 \in Checks DEF Reaches, Checks, Fails, End
<1> QED BY <1>1, <1>2, <1>4, <1>6, <1>7, <1>10

\* No check and no field reads outside the packet: packet[i] is always defined,
\* whatever the lengths in the headers say.
THEOREM ReadsInside ==
    ASSUME NEW p \in Packets, NEW i \in 1 .. 11, Reaches(p, i)
    PROVE  Reads(p, i) \subseteq 0 .. (p.size - 1)
<1> USE DEF Reads, Two, Four
<1>0. p.size \in Nat
  BY PacketTypes
<1>2. CASE i = 2
  BY <1>0, <1>2, Known
<1>3. CASE i = 3
  BY <1>0, <1>3, Known
<1>5. CASE i \in {5, 7, 8, 9}
  <2>1. p.size >= IpOffset(p) + 20 /\ IpOffset(p) \in {14, 18}
    BY <1>5, Known, OffsetTypes
  <2> QED BY <1>0, <1>5, <2>1
<1>10. CASE i \in {10, 11}
  <2>1. /\ IpOffset(p) \in {14, 18} /\ TcpOffset(p) \in Nat
        /\ p.size >= IpOffset(p) + 20 /\ p.size >= TcpOffset(p) + 20
    BY <1>0, <1>10, Known, OffsetTypes, SMT, SMTT(30) DEF End
  <2> QED BY <1>0, <1>10, <2>1
<1> QED BY <1>0, <1>2, <1>3, <1>5, <1>10

\* The headers of an accepted packet lie one behind the other inside the
\* datagram, and the datagram inside the packet.
THEOREM HeadersNested ==
    ASSUME NEW p \in Packets, Accepts(p)
    PROVE  /\ IpOffset(p) + 20 <= TcpOffset(p)
           /\ TcpOffset(p) + 20 <= TcpOffset(p) + TcpHeaderLength(p)
           /\ TcpOffset(p) + TcpHeaderLength(p) <= End(p)
           /\ End(p) <= p.size
<1>1. /\ IpHeaderLength(p) >= 20 /\ TcpHeaderLength(p) >= 20 /\ p.size >= End(p)
      /\ TcpOffset(p) + TcpHeaderLength(p) <= End(p)
  <2>1. 11 \in 1 .. 11 /\ 11 > 6 /\ 11 > 7 /\ 11 > 10
    OBVIOUS
  <2> QED BY <2>1, Known, Zenon DEF Accepts
<1>2. /\ IpOffset(p) \in Nat /\ IpHeaderLength(p) \in Nat /\ TotalLength(p) \in Nat
      /\ TcpOffset(p) = IpOffset(p) + IpHeaderLength(p)
      /\ TcpHeaderLength(p) \in Nat /\ p.size \in Nat
  BY OffsetTypes, PacketTypes
<1> QED BY <1>1, <1>2 DEF End

\* Padding does not matter: what comes behind the datagram, be it Ethernet
\* padding or other memory, changes neither the verdict nor any field.
THEOREM PaddingIgnored ==
    ASSUME NEW p \in Packets, NEW q \in Packets, Accepts(p),
           \A k \in 0 .. (End(p) - 1) : q.byte[k] = p.byte[k], q.size >= End(p)
    PROVE  Accepts(q) /\ Summary(q) = Summary(p)
<1>1. /\ IpOffset(p) \in {14, 18} /\ IpOffset(p) + 20 <= TcpOffset(p)
      /\ TcpOffset(p) \in Nat /\ End(p) \in Nat /\ TcpOffset(p) + 20 <= End(p)
  BY HeadersNested, OffsetTypes DEF End
<1>2. \A k \in Nat : k < End(p) => q.byte[k] = p.byte[k]
  BY <1>1
<1>3. \A k \in Nat : k + 1 < End(p) => ReadU16(q, k) = ReadU16(p, k)
  BY <1>1, <1>2 DEF ReadU16
<1>4. Tagged(q) = Tagged(p) /\ IpOffset(q) = IpOffset(p)
  BY <1>1, <1>3 DEF Tagged, IpOffset
<1>5. /\ EtherType(q) = EtherType(p) /\ Version(q) = Version(p)
      /\ IpHeaderLength(q) = IpHeaderLength(p) /\ TotalLength(q) = TotalLength(p)
      /\ Protocol(q) = Protocol(p) /\ Fragment(q) = Fragment(p)
  <2>1. EtherType(q) = EtherType(p)
    BY <1>1, <1>3, <1>4, SMT, SMTT(30) DEF EtherType
  <2>2. Version(q) = Version(p) /\ IpHeaderLength(q) = IpHeaderLength(p)
    BY <1>1, <1>2, <1>4, SMT, SMTT(30) DEF Version, IpHeaderLength
  <2>3. TotalLength(q) = TotalLength(p) /\ Fragment(q) = Fragment(p)
    BY <1>1, <1>3, <1>4, SMT, SMTT(30) DEF TotalLength, Fragment
  <2>4. Protocol(q) = Protocol(p)
    BY <1>1, <1>2, <1>4 DEF Protocol
  <2> QED BY <2>1, <2>2, <2>3, <2>4, Zenon
<1>6. TcpOffset(q) = TcpOffset(p) /\ End(q) = End(p)
  BY <1>4, <1>5, Zenon DEF TcpOffset, End
<1>7. TcpHeaderLength(q) = TcpHeaderLength(p)
  BY <1>1, <1>2, <1>6, SMT, SMTT(30) DEF TcpHeaderLength
<1>8. Accepts(q)
  <2> SUFFICES ASSUME NEW j \in Checks PROVE ~ Fails(q, j)
    BY Zenon DEF Accepts, Reaches
  <2>1. ~ Fails(p, j)
    BY DEF Accepts, Reaches, Checks
  <2>2. q.size \in Nat /\ p.size \in Nat /\ IpHeaderLength(p) \in Nat /\ TotalLength(p) \in Nat
    BY PacketTypes, OffsetTypes, SMT, SMTT(30)
  <2>3. IpOffset(p) + IpHeaderLength(p) <= End(p) /\ End(p) = IpOffset(p) + TotalLength(p)
    BY <1>1, <2>2, SMT, SMTT(30) DEF End, TcpOffset
  <2>4. q.size >= 54 /\ q.size >= IpOffset(p) + 20
    BY <1>1, <2>2
  <2>5. CASE j = 6
    BY <1>1, <1>4, <1>5, <2>1, <2>2, <2>3, <2>5, SMT, SMTT(30) DEF Fails
  <2>6. CASE j = 7
    BY <1>1, <1>4, <1>5, <2>1, <2>2, <2>3, <2>6, SMT, SMTT(30) DEF Fails
  <2>7. CASE j = 10
    BY <1>4, <1>5, <1>6, <1>7, <2>1, <2>7 DEF Fails
  <2>8. CASE j = 1 \/ j = 2
    <3>1. CASE j = 1 BY <2>2, <2>4, <3>1 DEF Fails
    <3>2. CASE j = 2 BY <2>2, <2>4, <3>2 DEF Fails
    <3> QED BY <2>8, <3>1, <3>2, Zenon
  <2>9. CASE j = 3
    BY <1>5, <2>1, <2>9 DEF Fails
  <2>10. CASE j = 4
    BY <1>4, <2>2, <2>4, <2>10, <1>1 DEF Fails
  <2>11. CASE j = 5
    BY <1>5, <2>1, <2>11 DEF Fails
  <2>12. CASE j = 8
    BY <1>5, <2>1, <2>12 DEF Fails
  <2>13. CASE j = 9
    BY <1>5, <2>1, <2>13 DEF Fails
  <2> QED BY <2>5, <2>6, <2>7, <2>8, <2>9, <2>10, <2>11, <2>12, <2>13, SMT, SMTT(30) DEF Checks
<1>9. Summary(q) = Summary(p)
  <2>1. /\ \A i \in 0 .. 3 : q.byte[IpOffset(p) + 12 + i] = p.byte[IpOffset(p) + 12 + i]
        /\ \A i \in 0 .. 3 : q.byte[IpOffset(p) + 16 + i] = p.byte[IpOffset(p) + 16 + i]
    BY <1>1, <1>2, SMT, SMTT(30)
  <2>2. /\ ReadU16(q, TcpOffset(p)) = ReadU16(p, TcpOffset(p))
        /\ ReadU16(q, TcpOffset(p) + 2) = ReadU16(p, TcpOffset(p) + 2)
        /\ q.byte[TcpOffset(p) + 13] = p.byte[TcpOffset(p) + 13]
    BY <1>1, <1>2, <1>3, SMT, SMTT(30)
  <2> QED BY <1>4, <1>6, <2>1, <2>2, Zenon DEF Summary
<1> QED BY <1>8, <1>9, Zenon

\* A packet that was cut is not accepted: any beginning of an accepted packet that
\* does not hold the whole datagram is refused.
THEOREM CutRefused ==
    ASSUME NEW p \in Packets, NEW q \in Packets, Accepts(p),
           q.size < End(p), \A k \in 0 .. (q.size - 1) : q.byte[k] = p.byte[k]
    PROVE  ~ Accepts(q)
<1> SUFFICES ASSUME Accepts(q) PROVE FALSE
  BY Zenon
<1>1. /\ q.size \in Nat /\ q.size >= End(q) /\ End(q) \in Nat
      /\ IpOffset(q) \in {14, 18} /\ End(q) >= IpOffset(q) + 40
  <2>1. /\ IpOffset(q) + 20 <= TcpOffset(q) /\ End(q) <= q.size
        /\ TcpOffset(q) + 20 <= TcpOffset(q) + TcpHeaderLength(q)
        /\ TcpOffset(q) + TcpHeaderLength(q) <= End(q)
    BY HeadersNested, Zenon
  <2>2. /\ IpOffset(q) \in {14, 18} /\ TotalLength(q) \in Nat
        /\ TcpOffset(q) \in Nat /\ TcpHeaderLength(q) \in Nat
    BY OffsetTypes, Zenon
  <2>3. q.size \in Nat
    BY Zenon DEF Packets
  <2>4. End(q) \in Nat
    BY <2>2 DEF End
  <2>5. End(q) >= IpOffset(q) + 40
    BY <2>1, <2>2, <2>4
  <2>6. q.size >= End(q)
    BY <2>1, <2>3, <2>4
  <2> QED BY <2>2, <2>3, <2>4, <2>5, <2>6, Zenon
<1>2. \A k \in Nat : k + 1 < q.size => ReadU16(q, k) = ReadU16(p, k)
  BY <1>1 DEF ReadU16
<1>3. IpOffset(q) = IpOffset(p)
  BY <1>1, <1>2, SMT, SMTT(30) DEF IpOffset, Tagged
<1>4. TotalLength(q) = TotalLength(p)
  BY <1>1, <1>2, <1>3 DEF TotalLength
<1> QED BY <1>1, <1>3, <1>4, OffsetTypes DEF End

-----------------------------------------------------------------------------
(* parse_hex_bytes *)

\* While the text is read the last digit may wait for its partner.
HexInv ==
    /\ at \in {"reading", "returned", "refused"}
    /\ high \in -1 .. 15 /\ digits \in Seq(Hex!Digit) /\ bytes \in Seq(Byte)
    /\ at = "reading" =>
         /\ high < 0 => Len(digits) = 2 * Len(bytes)
         /\ high >= 0 => Len(digits) = 2 * Len(bytes) + 1 /\ high = digits[Len(digits)]
         /\ Hex!Pairs(bytes, digits)
    /\ at = "returned" => Len(digits) = 2 * Len(bytes) /\ Hex!Pairs(bytes, digits)
    /\ at = "refused" => bytes = <<>>

\* A digit that waits for its partner changes no pair; the partner adds one.
LEMMA PairsAppend ==
    ASSUME NEW b \in Seq(Byte), NEW d \in Seq(Hex!Digit), NEW digit \in Hex!Digit, Hex!Pairs(b, d)
    PROVE  /\ Len(d) = 2 * Len(b) => Hex!Pairs(b, Append(d, digit))
           /\ Len(d) = 2 * Len(b) + 1 =>
                Hex!Pairs(Append(b, d[Len(d)] * 16 + digit), Append(d, digit))
<1> DEFINE e == Append(d, digit)
           byte == d[Len(d)] * 16 + digit
           c == Append(b, byte)
<1>1. /\ e \in Seq(Hex!Digit) /\ Len(e) = Len(d) + 1 /\ e[Len(d) + 1] = digit
      /\ \A k \in 1 .. Len(d) : e[k] = d[k]
  OBVIOUS
<1>2. Len(b) \in Nat /\ Len(d) \in Nat
  OBVIOUS
<1>3. Len(c) = Len(b) + 1 /\ c[Len(b) + 1] = byte /\ \A k \in 1 .. Len(b) : c[k] = b[k]
  OBVIOUS
<1> HIDE DEF e, c
<1>4. ASSUME Len(d) >= 2 * Len(b), NEW i \in 1 .. Len(b)
      PROVE  b[i] = e[2 * i - 1] * 16 + e[2 * i]
  <2>1. 2 * i \in 1 .. Len(d) /\ 2 * i - 1 \in 1 .. Len(d)
    BY <1>2, <1>4
  <2>2. b[i] = d[2 * i - 1] * 16 + d[2 * i]
    BY Zenon DEF Hex!Pairs
  <2>3. e[2 * i - 1] = d[2 * i - 1] /\ e[2 * i] = d[2 * i]
    BY <1>1, <2>1, Zenon
  <2> QED BY <2>2, <2>3, Zenon
<1>5. ASSUME Len(d) = 2 * Len(b) PROVE Hex!Pairs(b, e)
  BY <1>2, <1>4, <1>5, SMT, SMTT(30) DEF Hex!Pairs
<1>6. ASSUME Len(d) = 2 * Len(b) + 1, NEW i \in 1 .. Len(c)
      PROVE  c[i] = e[2 * i - 1] * 16 + e[2 * i]
  <2>1. CASE i \in 1 .. Len(b)
    BY <1>2, <1>3, <1>4, <1>6, <2>1, SMT, SMTT(30)
  <2>2. CASE i = Len(b) + 1
    <3>1. 2 * i - 1 = Len(d) /\ 2 * i = Len(d) + 1 /\ Len(d) \in 1 .. Len(d)
      BY <1>2, <1>6, <2>2, SMT, SMTT(30)
    <3>2. e[2 * i - 1] = d[Len(d)] /\ e[2 * i] = digit
      BY <1>1, <3>1, Zenon
    <3> QED BY <1>3, <2>2, <3>2, Zenon
  <2> QED BY <1>2, <1>3, <2>1, <2>2, SMT, SMTT(30)
<1>7. ASSUME Len(d) = 2 * Len(b) + 1 PROVE Hex!Pairs(c, e)
  BY <1>6, <1>7, Zenon DEF Hex!Pairs
<1> QED BY <1>5, <1>7, Zenon DEF e, c

\* parse_hex_bytes pairs the digits of every text.
THEOREM HexBytesCorrect == Hex!Spec => []Hex!BytesArePairs
<1>1. Hex!Init => HexInv
  BY DEF Hex!Init, HexInv, Hex!Pairs
<1>2. HexInv /\ [Hex!Next]_Hex!vars => HexInv'
  <2> SUFFICES ASSUME HexInv, [Hex!Next]_Hex!vars PROVE HexInv'
    BY Zenon
  <2>0. /\ high \in -1 .. 15 /\ digits \in Seq(Hex!Digit) /\ bytes \in Seq(Byte)
        /\ at = "reading" /\ high < 0 => Len(digits) = 2 * Len(bytes)
        /\ at = "reading" /\ high >= 0 => Len(digits) = 2 * Len(bytes) + 1
    BY Zenon DEF HexInv
  <2>1. CASE Hex!ReadSeparator \/ UNCHANGED Hex!vars
    <3>1. at' = at /\ high' = high /\ bytes' = bytes /\ digits' = digits
      BY <2>1, Zenon DEF Hex!ReadSeparator, Hex!vars
    <3> QED BY <3>1, Zenon DEF HexInv
  <2>2. ASSUME NEW digit \in Hex!Digit, Hex!ReadDigit(digit) PROVE HexInv'
    <3>1. /\ at = "reading" /\ at' = "reading" /\ digits' = Append(digits, digit)
          /\ digit \in 0 .. 15
      BY <2>2, Zenon DEF Hex!ReadDigit, Hex!Digit
    <3>2. digits' \in Seq(Hex!Digit) /\ Len(digits') = Len(digits) + 1 /\ digits'[Len(digits')] = digit
      BY <2>0, <3>1
    <3>3. CASE high < 0 /\ high' = digit /\ UNCHANGED bytes
      <4>1. Hex!Pairs(bytes', digits')
        BY <2>0, <3>1, <3>3, PairsAppend, ZenonT(40) DEF HexInv
      <4>2. high' \in -1 .. 15 /\ ~ (high' < 0)
        BY <3>1, <3>3
      <4>3. Len(digits') = 2 * Len(bytes') + 1
        <5>1. Len(digits) = 2 * Len(bytes) /\ bytes' = bytes
          BY <2>0, <3>1, <3>3, Zenon
        <5> QED BY <3>2, <5>1, Zenon
      <4> QED BY <2>0, <3>1, <3>2, <3>3, <4>1, <4>2, <4>3, Zenon DEF HexInv
    <3>4. CASE high >= 0 /\ high' = -1 /\ bytes' = Append(bytes, high * 16 + digit)
      <4>1. Hex!Pairs(bytes', digits')
        BY <2>0, <3>1, <3>4, PairsAppend, ZenonT(40) DEF HexInv
      <4>2. high * 16 + digit \in Byte
        <5>1. high * 16 + digit \in Nat /\ high * 16 + digit < 256
          BY <2>0, <3>1, <3>4
        <5> QED BY <5>1, ByteIs, Zenon
      <4>3. bytes' \in Seq(Byte) /\ Len(bytes') = Len(bytes) + 1 /\ Len(bytes) \in Nat
        BY <2>0, <3>4, <4>2
      <4>4. high' \in -1 .. 15 /\ high' < 0 /\ ~ (high' >= 0)
        BY <3>4
      <4>5. Len(digits') = 2 * Len(bytes')
        <5>1. Len(digits) = 2 * Len(bytes) + 1
          BY <2>0, <3>1, <3>4, Zenon
        <5> QED BY <3>2, <4>3, <5>1
      <4> QED BY <3>1, <3>2, <4>1, <4>3, <4>4, <4>5, Zenon DEF HexInv
    <3> QED BY <2>2, <3>3, <3>4, Zenon DEF Hex!ReadDigit
  <2>3. CASE Hex!ReadOther
    BY <2>3 DEF Hex!ReadOther, HexInv
  <2>4. CASE Hex!ReadEnd
    <3>1. CASE high >= 0 /\ at' = "refused" /\ bytes' = <<>>
      BY <2>4, <3>1 DEF Hex!ReadEnd, HexInv
    <3>2. CASE high < 0 /\ at' = "returned" /\ UNCHANGED bytes
      <4>1. at = "reading" /\ high' = high /\ bytes' = bytes /\ digits' = digits
        BY <2>4, <3>2, Zenon DEF Hex!ReadEnd
      <4> QED BY <3>2, <4>1, Zenon DEF HexInv
    <3> QED BY <2>4, <3>1, <3>2, Zenon DEF Hex!ReadEnd
  <2> QED BY <2>1, <2>2, <2>3, <2>4, Zenon DEF Hex!Next
<1>3. HexInv => Hex!BytesArePairs
  BY Zenon DEF HexInv, Hex!BytesArePairs, Byte
<1> QED BY <1>1, <1>2, <1>3, PTL DEF Hex!Spec
-----------------------------------------------------------------------------
(* parallel_sum *)

\* The quotient of natural numbers.
LEMMA Quotient ==
    ASSUME NEW a \in Nat, NEW k \in Nat, k > 0
    PROVE  a \div k \in Nat /\ (a \div k) * k <= a /\ a < (a \div k) * k + k
  BY Z3

\* A larger number has no smaller quotient.
LEMMA QuotientMonotone ==
    ASSUME NEW a \in Nat, NEW b \in Nat, NEW k \in Nat, k > 0, a <= b
    PROVE  a \div k <= b \div k
  BY Z3

\* Without wrap-around the ranges begin at 0, end at ItemCount, and each begins
\* where the one before it ends: no item is left out and none is in two ranges.
THEOREM PartitionExact ==
    ASSUME ItemCount \in Nat \ {0}, ThreadCount \in Nat \ {0}, Modulus \in Nat,
           ItemCount * ThreadCount < Modulus
    PROVE  /\ Sum!WorkersToUse \in Nat \ {0}
           /\ Sum!Begin(0) = 0 /\ Sum!Begin(Sum!WorkersToUse) = ItemCount
           /\ \A w \in Sum!Worker : /\ Sum!Begin(w) \in Nat /\ Sum!End(w) \in Nat
                                /\ Sum!Begin(w) < Sum!End(w)
<1> DEFINE K == Sum!WorkersToUse
<1>1. K \in Nat \ {0} /\ K <= ThreadCount /\ K <= ItemCount
  BY DEF Sum!WorkersToUse
<1>2. ASSUME NEW w \in 0 .. K
      PROVE  ItemCount * w \in Nat /\ Sum!Begin(w) = (ItemCount * w) \div K
  <2>1. ItemCount * w \in Nat /\ ItemCount * w <= ItemCount * ThreadCount
    BY <1>1, Z3
  <2> HIDE DEF K
  <2>2. ItemCount * w < Modulus
    BY <2>1, ItemCount * ThreadCount \in Nat
  <2>3. (ItemCount * w) % Modulus = ItemCount * w
    BY <2>1, <2>2, SMT, SMTT(30)
  <2> QED BY <2>1, <2>3, Zenon DEF Sum!Begin, K
<1>3. Sum!Begin(0) = 0
  <2>1. Sum!Begin(0) = (ItemCount * 0) \div K
    BY <1>1, <1>2
  <2> HIDE DEF K
  <2> QED BY <1>1, <2>1, SMT, SMTT(30)
<1>4. Sum!Begin(K) = ItemCount
  <2>1. Sum!Begin(K) = (ItemCount * K) \div K
    BY <1>1, <1>2, SMT, SMTT(30)
  <2> HIDE DEF K
  <2> QED BY <1>1, <2>1, Z3
<1>5. ASSUME NEW w \in Sum!Worker
      PROVE  Sum!Begin(w) \in Nat /\ Sum!End(w) \in Nat /\ Sum!Begin(w) < Sum!End(w)
  <2>1. w \in 0 .. K /\ w + 1 \in 0 .. K
    BY <1>1 DEF Sum!Worker
  <2>2. /\ Sum!Begin(w) = (ItemCount * w) \div K /\ Sum!End(w) = (ItemCount * (w + 1)) \div K
        /\ ItemCount * w \in Nat /\ ItemCount * (w + 1) \in Nat
    BY <1>2, <2>1, Zenon DEF Sum!End
  <2> HIDE DEF K
  <2>3. ItemCount * (w + 1) = ItemCount * w + ItemCount
    BY <2>1, Z3
  <2>4. ItemCount * w + K <= ItemCount * (w + 1)
    BY <1>1, <2>2, <2>3, SMT, SMTT(30)
  <2>5. (ItemCount * w + K) \div K = (ItemCount * w) \div K + 1
    BY <1>1, <2>2, Z3
  <2>6. (ItemCount * w + K) \div K <= (ItemCount * (w + 1)) \div K
    BY <1>1, <2>2, <2>4, QuotientMonotone, SMT, SMTT(30)
  <2> QED BY <1>1, <2>2, <2>5, <2>6, Quotient, SMT, SMTT(30)
<1> QED BY <1>1, <1>3, <1>4, <1>5, Zenon

\* parallel_sum adds every item once, for all numbers of items and threads whose
\* product does not wrap around.
THEOREM ParallelSumCorrect ==
    ASSUME ItemCount \in Nat, ThreadCount \in Nat, Modulus \in Nat,
           ItemCount * ThreadCount < Modulus
    PROVE  Sum!Spec => []Sum!EachItemOnce
<1>0. Sum!WorkersToUse \in Nat
  BY Zenon DEF Sum!WorkersToUse
<1>1. Sum!Init => Sum!IInv
  <2>1. Sum!Nothing \in [Nat -> Nat]
    BY Zenon DEF Sum!Nothing, Sum!First
  <2> QED BY <1>0, <2>1 DEF Sum!Init, Sum!IInv, Sum!EachItemOnce
<1>2. Sum!IInv /\ [Sum!Next]_Sum!vars => Sum!IInv'
  <2> SUFFICES ASSUME Sum!IInv, [Sum!Next]_Sum!vars PROVE Sum!IInv'
    BY Zenon
  <2> USE DEF Sum!IInv, Sum!EachItemOnce
  <2>1. CASE Sum!Start
    <3>1. main = "start" /\ UNCHANGED <<next, running, partials, total>>
      BY <2>1, Zenon DEF Sum!Start
    <3>2. CASE ThreadCount # 0 /\ ItemCount # 0
      <4>1. main' = "spawn"
        BY <2>1, <3>2, Zenon DEF Sum!Start
      <4>2. \A w \in Sum!Worker : ~ (w < next')
        BY <1>0, <3>1 DEF Sum!Worker
      <4> QED BY <3>1, <3>2, <4>1, <4>2, Zenon
    <3>3. CASE ThreadCount = 0
      BY <2>1, <3>1, <3>3, Zenon DEF Sum!Start
    <3>4. CASE ThreadCount # 0 /\ ItemCount = 0
      BY <2>1, <3>1, <3>4, Zenon DEF Sum!Start, Sum!Nothing
    <3> QED BY <3>2, <3>3, <3>4, Zenon
  <2>2. CASE Sum!Spawn
    <3>1. /\ main = "spawn" /\ next' = next + 1 /\ next' \in 0 .. Sum!WorkersToUse
          /\ running' = running \cup {next} /\ next \in Sum!Worker
          /\ UNCHANGED <<main, partials, total>>
      BY <1>0, <2>2, SMT, SMTT(30) DEF Sum!Spawn, Sum!Worker
    <3>2. \A w \in Sum!Worker : w < next' /\ w \notin running' => w < next /\ w \notin running
      BY <1>0, <3>1 DEF Sum!Worker
    <3> QED BY <3>1, <3>2, Zenon
  <2>3. CASE Sum!SpawnFails
    BY <2>3, Zenon DEF Sum!SpawnFails
  <2>4. CASE Sum!Unwind
    BY <2>4, Zenon DEF Sum!Unwind
  <2>5. CASE \E w \in Sum!Worker : Sum!SumRange(w)
    <3>1. PICK w \in Sum!Worker : Sum!SumRange(w)
      BY <2>5, Zenon
    <3>2. Sum!RangeOf(w) \in [Nat -> Nat]
      BY ZenonT(40) DEF Sum!RangeOf
    <3> QED BY <3>1, <3>2, Zenon DEF Sum!SumRange
  <2>6. CASE Sum!Join
    <3>1. /\ main' = "add" /\ next' = 0 /\ running' = {} /\ UNCHANGED <<partials, total>>
          /\ main = "spawn" /\ next = Sum!WorkersToUse /\ running = {}
      BY <2>6, Zenon DEF Sum!Join
    <3>2. total' = Sum!First(Sum!Begin(next'))
      BY <3>1, PartitionExact, Zenon DEF Sum!Nothing
    <3>3. \A w \in Sum!Worker : partials[w] = Sum!RangeOf(w)
      BY <1>0, <3>1 DEF Sum!Worker
    <3> QED BY <1>0, <3>1, <3>2, <3>3, SMT, SMTT(30)
  <2>7. CASE Sum!Add
    <3>1. /\ main = "add" /\ next \in Sum!Worker /\ next' = next + 1
          /\ total' = [v \in Nat |-> total[v] + partials[next][v]]
          /\ running = {} /\ UNCHANGED <<main, running, partials>>
      BY <1>0, <2>7, SMT, SMTT(30) DEF Sum!Add, Sum!Worker
    <3>2. Sum!Begin(next) \in Nat /\ Sum!Begin(next') \in Nat /\ Sum!Begin(next) < Sum!Begin(next')
      BY <3>1, PartitionExact, Zenon DEF Sum!End
    <3>3. total = Sum!First(Sum!Begin(next)) /\ partials[next] = Sum!RangeOf(next)
      BY <3>1, Zenon
    <3>4. ASSUME NEW v \in Nat
          PROVE  total[v] + partials[next][v] = IF v < Sum!Begin(next') THEN 1 ELSE 0
      <4>1. total[v] = IF v < Sum!Begin(next) THEN 1 ELSE 0
        BY <3>3, Zenon DEF Sum!First
      <4>2. partials[next][v] = IF Sum!Begin(next) <= v /\ v < Sum!Begin(next') THEN 1 ELSE 0
        BY <3>1, <3>3, Zenon DEF Sum!End, Sum!RangeOf
      <4> QED BY <3>2, <4>1, <4>2, SMT, SMTT(30)
    <3>5. total' = Sum!First(Sum!Begin(next'))
      BY <3>1, <3>4, Zenon DEF Sum!First
    <3>6. next' \in 0 .. Sum!WorkersToUse
      BY <1>0, <3>1 DEF Sum!Worker
    <3> QED BY <3>1, <3>5, <3>6, Zenon
  <2>8. CASE Sum!Return
    <3>1. /\ main = "add" /\ next = Sum!WorkersToUse /\ main' = "return" /\ running = {}
          /\ UNCHANGED <<next, running, partials, total>>
      BY <2>8, Zenon DEF Sum!Return
    <3>2. Sum!Begin(next) = ItemCount
      BY <3>1, PartitionExact, Zenon
    <3> QED BY <3>1, <3>2, Zenon
  <2>9. CASE UNCHANGED Sum!vars
    BY <2>9, Zenon DEF Sum!vars
  <2> QED BY <2>1, <2>2, <2>3, <2>4, <2>5, <2>6, <2>7, <2>8, <2>9, ZenonT(40) DEF Sum!Next
<1>3. Sum!IInv => Sum!EachItemOnce
  BY Zenon DEF Sum!IInv
<1> QED BY <1>1, <1>2, <1>3, PTL DEF Sum!Spec
-----------------------------------------------------------------------------
(* netforge-bench *)

\* The shares add up: the workers before worker 0 have nothing, each worker adds
\* its share, and all of them together have the requests that were asked for.
THEOREM SharesAddUp ==
    ASSUME RequestCount \in Nat, Concurrency \in Nat \ {0}
    PROVE  /\ Load!Offset(0) = 0 /\ Load!Offset(Concurrency) = RequestCount
           /\ \A w \in Load!Worker : /\ Load!Share(w) \in Nat /\ Load!Offset(w) \in Nat
                                /\ Load!Offset(w + 1) = Load!Offset(w) + Load!Share(w)
<1> DEFINE Q == RequestCount \div Concurrency
           R == RequestCount % Concurrency
<1>1. Q \in Nat /\ R \in 0 .. (Concurrency - 1) /\ RequestCount = Q * Concurrency + R
  BY Z3
<1> HIDE DEF Q, R
<1>2. Load!Offset(0) = 0
  BY <1>1 DEF Load!Offset, Q, R
<1>3. Load!Offset(Concurrency) = Concurrency * Q + R
  BY <1>1 DEF Load!Offset, Q, R
<1>4. Concurrency * Q = Q * Concurrency
  BY <1>1
<1>5. ASSUME NEW w \in Load!Worker
      PROVE  /\ Load!Share(w) \in Nat /\ Load!Offset(w) \in Nat
             /\ Load!Offset(w + 1) = Load!Offset(w) + Load!Share(w)
  <2>1. /\ w \in Nat /\ w * Q \in Nat /\ (w + 1) * Q = w * Q + Q
    BY <1>1, Z3 DEF Load!Worker
  <2>2. Load!Share(w) = Q + (IF w < R THEN 1 ELSE 0)
    BY Zenon DEF Load!Share, Q, R
  <2>3. /\ Load!Offset(w) = w * Q + (IF w < R THEN w ELSE R)
        /\ Load!Offset(w + 1) = (w + 1) * Q + (IF w + 1 < R THEN w + 1 ELSE R)
    BY Zenon DEF Load!Offset, Q, R
  <2> QED BY <1>1, <2>1, <2>2, <2>3, SMT, SMTT(30)
<1> QED BY <1>1, <1>2, <1>3, <1>4, <1>5, Zenon

\* percentile() stays inside its samples and takes the smallest sample that at
\* least the given part of the samples does not exceed.
THEOREM PercentileRank ==
    ASSUME NEW percent \in 1 .. 100, NEW n \in Nat \ {0}
    PROVE  /\ Load!Rank(percent, n) \in 1 .. n
           /\ percent * n <= 100 * Load!Rank(percent, n)
           /\ 100 * (Load!Rank(percent, n) - 1) < percent * n
<1>1. percent * n \in Nat /\ percent * n >= 1 /\ percent * n <= 100 * n
  BY Z3
<1> DEFINE m == percent * n
<1>2. m \in Nat /\ m >= 1 /\ m <= 100 * n
  BY <1>1, Zenon
<1>3. Load!Rank(percent, n) = IF (m + 99) \div 100 < 1 THEN 1 ELSE (m + 99) \div 100
  BY Zenon DEF Load!Rank
<1> HIDE DEF m
<1>4. (m + 99) \div 100 \in 1 .. n /\ m <= 100 * ((m + 99) \div 100)
        /\ 100 * ((m + 99) \div 100 - 1) < m
  BY <1>2
<1>5. Load!Rank(percent, n) = (m + 99) \div 100
  BY <1>3, <1>4
<1> QED BY <1>4, <1>5, Zenon DEF m

\* The report is complete, for every number of workers, requests and addresses.
THEOREM BenchCorrect ==
    ASSUME RequestCount \in Nat, Concurrency \in Nat \ {0}
    PROVE  Load!Spec => []Load!ReportIsComplete
<1>1. Load!Init => Load!IInv
  <2> SUFFICES ASSUME Load!Init PROVE Load!IInv
    BY Zenon
  <2>1. next \in 0 .. Concurrency /\ failures \in Nat /\ merged \in Nat /\ samples \in [Load!Worker -> Nat]
    BY DEF Load!Init
  <2> QED BY <2>1, Zenon DEF Load!Init, Load!IInv, Load!ReportIsComplete
<1>2. Load!IInv /\ [Load!Next]_Load!vars => Load!IInv'
  <2> SUFFICES ASSUME Load!IInv, [Load!Next]_Load!vars PROVE Load!IInv'
    BY Zenon
  <2>0. /\ next \in 0 .. Concurrency /\ failures \in Nat /\ merged \in Nat
        /\ samples \in [Load!Worker -> Nat]
        /\ main = "spawn" => \A w \in Load!Worker : w >= next => at[w] = "none"
    BY Zenon DEF Load!IInv
  <2>1. CASE Load!Spawn
    <3>1. /\ main = "spawn" /\ next < Concurrency /\ next' = next + 1
          /\ at' = [at EXCEPT ![next] = "connect"]
          /\ UNCHANGED <<main, samples, failures, merged>>
      BY <2>1, Zenon DEF Load!Spawn
    <3>2. next \in Load!Worker /\ next' \in 0 .. Concurrency
      BY <2>0, <3>1 DEF Load!Worker
    <3>3. at[next] = "none"
      BY <2>0, <3>1, <3>2
    <3>4. /\ at' \in [Load!Worker -> {"none", "connect", "warmup", "measure", "done", "failed"}]
          /\ at'[next] = "connect" /\ \A w \in Load!Worker : w # next => at'[w] = at[w]
      BY <3>1, <3>2, Zenon DEF Load!IInv
    <3>5. \A w \in Load!Worker : w >= next' => w >= next /\ w # next
      BY <2>0, <3>1 DEF Load!Worker
    <3>6. \A w \in Load!Worker : w >= next' => at'[w] = "none"
      BY <2>0, <3>1, <3>4, <3>5, Zenon
    <3> QED BY <3>1, <3>2, <3>3, <3>4, <3>6, Zenon DEF Load!IInv, Load!ReportIsComplete
  <2>2. CASE Load!SpawnThrows
    BY <2>2, Zenon DEF Load!SpawnThrows, Load!IInv, Load!ReportIsComplete
  <2>3. ASSUME NEW w \in Load!Worker, Load!Work(w) PROVE Load!IInv'
    <3>1. main = "spawn" /\ at[w] \notin {"none", "done", "failed"}
      BY <2>3, Zenon DEF Load!Work, Load!TryAddress, Load!NotConnected, Load!WarmUp, Load!StartMeasuring, Load!Measure,
                  Load!PingFails, Load!Finish, Load!IInv
    <3>2. ASSUME NEW place \in {"connect", "warmup", "measure"}, Load!Goto(w, place), UNCHANGED failures
          PROVE  Load!IInv'
      BY <3>1, <3>2, Zenon DEF Load!Goto, Load!IInv, Load!ReportIsComplete
    <3>3. ASSUME Load!Fail(w) PROVE Load!IInv'
      <4>1. failures' \in Nat /\ failures' # 0
        <5>1. failures' = failures + 1
          BY <3>3, Zenon DEF Load!Fail
        <5> QED BY <2>0, <5>1
      <4> QED BY <3>1, <3>3, <4>1, Zenon DEF Load!Fail, Load!Goto, Load!IInv, Load!ReportIsComplete
    <3>4. CASE Load!TryAddress(w)
      BY <3>2, <3>4, Zenon DEF Load!TryAddress
    <3>5. CASE Load!WarmUp(w)
      BY <3>1, <3>5, Zenon DEF Load!WarmUp, Load!IInv, Load!ReportIsComplete
    <3>6. CASE Load!StartMeasuring(w)
      BY <3>2, <3>6, Zenon DEF Load!StartMeasuring
    <3>7. CASE Load!Measure(w)
      <4>1. samples' = [samples EXCEPT ![w] = @ + 1] /\ UNCHANGED <<main, next, at, failures, merged>>
        BY <3>7, Zenon DEF Load!Measure
      <4>2. samples' \in [Load!Worker -> Nat] /\ \A v \in Load!Worker : v # w => samples'[v] = samples[v]
        BY <2>0, <4>1
      <4> QED BY <3>1, <4>1, <4>2, Zenon DEF Load!IInv, Load!ReportIsComplete
    <3>8. CASE Load!Finish(w)
      BY <3>1, <3>8, Zenon DEF Load!Finish, Load!Goto, Load!IInv, Load!ReportIsComplete
    <3> QED BY <2>3, <3>3, <3>4, <3>5, <3>6, <3>7, <3>8, Zenon DEF Load!Work, Load!NotConnected, Load!PingFails
  <2>4. CASE Load!Join
    <3>1. 0 \in 0 .. Concurrency
      OBVIOUS
    <3> QED BY <2>4, <3>1, SharesAddUp, Zenon DEF Load!Join, Load!IInv, Load!ReportIsComplete
  <2>5. CASE Load!Merge
    <3>1. /\ main = "merge" /\ next < Concurrency /\ next' = next + 1
          /\ merged' = merged + samples[next]
          /\ UNCHANGED <<main, at, samples, failures>>
      BY <2>5, Zenon DEF Load!Merge
    <3>2. next \in Load!Worker /\ next' \in 0 .. Concurrency
      BY <2>0, <3>1 DEF Load!Worker
    <3>3. merged' \in Nat
      BY <2>0, <3>1, <3>2
    <3>4. failures = 0 => merged' = Load!Offset(next')
      BY <3>1, <3>2, SharesAddUp, Zenon DEF Load!IInv
    <3> QED BY <3>1, <3>2, <3>3, <3>4, Zenon DEF Load!IInv, Load!ReportIsComplete
  <2>6. CASE Load!Verdict
    BY <2>6, SharesAddUp, Zenon DEF Load!Verdict, Load!IInv, Load!ReportIsComplete
  <2>7. CASE UNCHANGED Load!vars
    BY <2>7, Zenon DEF Load!vars, Load!IInv, Load!ReportIsComplete
  <2> QED BY <2>1, <2>2, <2>3, <2>4, <2>5, <2>6, <2>7, Zenon DEF Load!Next
<1>3. Load!IInv => Load!ReportIsComplete
  BY Zenon DEF Load!IInv
<1> QED BY <1>1, <1>2, <1>3, PTL DEF Load!Spec
=============================================================================
