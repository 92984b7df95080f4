------------------------------ MODULE OrderBook ------------------------------
(***************************************************************************)
(* matching::OrderBook: a price-time-priority limit order book with        *)
(* submit, which matches an order against the other side of the book and   *)
(* rests what remains, and cancel.  One iteration of submit's matching     *)
(* loop is one step; the book has a single consumer, so nothing comes      *)
(* between the steps of a submit.  An order that is rejected (a wrong      *)
(* symbol, a zero id or quantity, a price that is not positive, an id that *)
(* is live) changes nothing and is not a step.                             *)
(***************************************************************************)
EXTENDS Integers, Sequences, Functions

CONSTANTS
    Id, Price, Quantity, Sequence,  \* the values an order's fields may have
    NoOrder

Side == {"buy", "sell"}

ASSUME BookAssumption ==
    /\ Price \subseteq Nat \ {0} /\ Quantity \subseteq Nat \ {0}
    /\ Sequence \subseteq Nat
    /\ NoOrder \notin [id : Id, side : Side, price : Nat, quantity : Nat, sequence : Nat,
                       tif : {"GTC", "IOC"}, arrival : Nat]

VARIABLES
    book,       \* bids_ (side buy) and asks_ (side sell): the levels by price
    live,       \* live_orders_
    taker,      \* the order in submit, its quantity being what remains
    fills,      \* the fills of the last submit
    offered,    \* history: the quantity of each order accepted so far,
    filled,     \* how much of it was traded,
    gone        \* and how much was cancelled or discarded

vars == <<book, live, taker, fills, offered, filled, gone>>

Order ==
    [id : Id, side : Side, price : Price, quantity : Quantity, sequence : Sequence,
     tif : {"GTC", "IOC"}]

Init ==
    /\ book = [s \in Side |-> << >>]
    /\ live = << >>
    /\ taker = NoOrder
    /\ fills = << >>
    /\ offered = << >> /\ filled = << >> /\ gone = << >>

Opposite(side) == IF side = "buy" THEN "sell" ELSE "buy"

\* Bids are sorted from the highest price down, asks from the lowest up.
Better(side, p, q) == IF side = "buy" THEN p > q ELSE p < q

\* The level at begin() of a side that is not empty.
Best(side) ==
    CHOOSE p \in DOMAIN book[side] : \A q \in DOMAIN book[side] : q # p => Better(side, p, q)

\* The levels f with the level at price p replaced; an empty level is erased.
SetLevel(f, p, orders) ==
    IF orders = << >>
    THEN Restrict(f, DOMAIN f \ {p})
    ELSE [q \in DOMAIN f \cup {p} |-> IF q = p THEN orders ELSE f[q]]

\* An order only crosses a strictly better price.
CrossesStrictly(order, price) ==
    IF order.side = "buy" THEN price < order.price ELSE price > order.price

Crosses(order, price) ==
    IF order.side = "buy" THEN price <= order.price ELSE price >= order.price

-----------------------------------------------------------------------------
Submit(order) ==
    /\ taker = NoOrder
    /\ order.id \notin DOMAIN live
    /\ taker' = [id |-> order.id, side |-> order.side, price |-> order.price,
                 quantity |-> order.quantity, sequence |-> order.sequence,
                 tif |-> order.tif, arrival |-> Len(offered) + 1]
    /\ fills' = << >>
    /\ offered' = Append(offered, order.quantity)
    /\ filled' = Append(filled, 0)
    /\ gone' = Append(gone, 0)
    /\ UNCHANGED <<book, live>>

\* The loop goes on: something remains and the best opposite level crosses.
Matching ==
    LET other == Opposite(taker.side)
    IN  /\ taker.quantity > 0
        /\ DOMAIN book[other] # {}
        /\ Crosses(taker, Best(other))

TradeQuantity(maker) == IF taker.quantity < maker.quantity THEN taker.quantity ELSE maker.quantity

\* The quantity left of a maker is not written back.
TradedUnwritten(orders, traded) ==
    IF traded = Head(orders).quantity THEN Tail(orders) ELSE orders

\* A level after its first order, the maker, has traded.
Traded(orders, traded) ==
    IF traded = Head(orders).quantity
    THEN Tail(orders)
    ELSE [orders EXCEPT ![1].quantity = @ - traded]

\* One iteration: trade with the first order of the best opposite level.  A fill
\* names its maker by arrival, since ids are used again.
Match ==
    /\ taker # NoOrder /\ Matching
    /\ LET other == Opposite(taker.side)
           price == Best(other)
           orders == book[other][price]
           maker == Head(orders)
           traded == TradeQuantity(maker)
       IN  /\ fills' = Append(fills, [taker |-> taker.id, maker |-> maker.arrival,
                                      price |-> maker.price, quantity |-> traded])
           /\ taker' = [taker EXCEPT !.quantity = @ - traded]
           /\ book' = [book EXCEPT ![other] = SetLevel(@, price, Traded(orders, traded))]
           /\ live' = IF traded = maker.quantity
                      THEN Restrict(live, DOMAIN live \ {maker.id}) ELSE live
           /\ filled' = [n \in DOMAIN filled |->
                           IF n \in {taker.arrival, maker.arrival} THEN filled[n] + traded ELSE filled[n]]
    /\ UNCHANGED <<offered, gone>>

Level(side, price) == IF price \in DOMAIN book[side] THEN book[side][price] ELSE << >>

\* A resting order is put in front of its level.
RestInFront ==
    /\ taker # NoOrder /\ ~Matching
    /\ taker.quantity > 0 /\ taker.tif = "GTC"
    /\ book' = [book EXCEPT ![taker.side] =
                   SetLevel(@, taker.price, <<taker>> \o Level(taker.side, taker.price))]
    /\ live' = [i \in DOMAIN live \cup {taker.id} |-> IF i = taker.id THEN taker.side ELSE live[i]]
    /\ taker' = NoOrder
    /\ UNCHANGED <<fills, offered, filled, gone>>

\* The loop is over: what remains of a good-till-cancel order rests ...
Rest ==
    /\ taker # NoOrder /\ ~Matching
    /\ taker.quantity > 0 /\ taker.tif = "GTC"
    /\ book' = [book EXCEPT ![taker.side] =
                   SetLevel(@, taker.price, Append(Level(taker.side, taker.price), taker))]
    /\ live' = [i \in DOMAIN live \cup {taker.id} |-> IF i = taker.id THEN taker.side ELSE live[i]]
    /\ taker' = NoOrder
    /\ UNCHANGED <<fills, offered, filled, gone>>

\* The loop is left only when nothing remains.
DiscardUsedUp ==
    /\ taker # NoOrder /\ ~Matching
    /\ taker.quantity = 0
    /\ taker' = NoOrder
    /\ UNCHANGED <<book, live, fills, offered, filled, gone>>

\* ... and what remains of any other order is discarded.
Discard ==
    /\ taker # NoOrder /\ ~Matching
    /\ taker.quantity = 0 \/ taker.tif # "GTC"
    /\ gone' = [gone EXCEPT ![taker.arrival] = taker.quantity]
    /\ taker' = NoOrder
    /\ UNCHANGED <<book, live, fills, offered, filled>>

-----------------------------------------------------------------------------
\* A level without its i-th order.
RemoveAt(orders, i) == SubSeq(orders, 1, i - 1) \o SubSeq(orders, i + 1, Len(orders))

\* The order is erased from its level and stays in live_orders_.
CancelKeepsIndex(id) ==
    /\ taker = NoOrder
    /\ id \in DOMAIN live
    /\ \E p \in DOMAIN book[live[id]] : \E i \in DOMAIN book[live[id]][p] :
         LET orders == book[live[id]][p]
         IN  /\ orders[i].id = id
             /\ book' = [book EXCEPT ![live[id]] = SetLevel(@, p, RemoveAt(orders, i))]
             /\ gone' = [gone EXCEPT ![orders[i].arrival] = orders[i].quantity]
    /\ UNCHANGED <<live, taker, fills, offered, filled>>

\* Erase the order from its level and from the index.  cancel of an id that is
\* not live, or not found, returns false and changes nothing.
Cancel(id) ==
    /\ taker = NoOrder
    /\ id \in DOMAIN live
    /\ \E p \in DOMAIN book[live[id]] : \E i \in DOMAIN book[live[id]][p] :
         LET orders == book[live[id]][p]
         IN  /\ orders[i].id = id
             /\ book' = [book EXCEPT ![live[id]] = SetLevel(@, p, RemoveAt(orders, i))]
             /\ gone' = [gone EXCEPT ![orders[i].arrival] = orders[i].quantity]
    /\ live' = Restrict(live, DOMAIN live \ {id})
    /\ UNCHANGED <<taker, fills, offered, filled>>

Loop == Match \/ Rest \/ Discard

Next ==
    \/ \E order \in Order : Submit(order)
    \/ Loop
    \/ \E id \in Id : Cancel(id)

Spec == Init /\ [][Next]_vars

-----------------------------------------------------------------------------
\* The orders of one side, and all resting orders.
Orders(levels) == UNION {Range(levels[p]) : p \in DOMAIN levels}
Resting == UNION {Orders(book[s]) : s \in Side}

\* Types.  Every accepted order has its entry in the histories.  submit takes
\* begin() and front() without a test for emptiness of the level: no level is
\* ever empty, and no resting order has nothing left.
TypeOK ==
    /\ DOMAIN book = Side
    /\ \A s \in Side : DOMAIN book[s] \subseteq Price
    /\ \A o \in Resting \cup ({taker} \ {NoOrder}) :
         /\ o.id \in Id /\ o.side \in Side /\ o.price \in Price /\ o.quantity \in Nat
         /\ o.arrival \in DOMAIN offered
    /\ DOMAIN live \subseteq Id
    /\ offered \in Seq(Nat) /\ filled \in Seq(Nat) /\ gone \in Seq(Nat)
    /\ Len(filled) = Len(offered) /\ Len(gone) = Len(offered)
    /\ \A s \in Side : \A p \in DOMAIN book[s] : book[s][p] # << >>
    /\ \A o \in Resting : o.quantity > 0

\* live_orders_ indexes exactly the resting orders: whatever rests has a live id,
\* on the side the index says and at the level of its price, and for a live id
\* exactly one order rests; and the book is well formed.  So a duplicate is
\* always refused and cancel always finds its order.
IndexIsExact ==
    /\ TypeOK
    /\ \A s \in Side : \A p \in DOMAIN book[s] : \A o \in Range(book[s][p]) :
         /\ o.side = s /\ o.price = p
         /\ o.id \in DOMAIN live /\ live[o.id] = s
    /\ \A id \in DOMAIN live : \E p \in DOMAIN book[live[id]] :
         \E i \in DOMAIN book[live[id]][p] :
            /\ book[live[id]][p][i].id = id
            /\ \A q \in DOMAIN book[live[id]] : \A j \in DOMAIN book[live[id]][q] :
                 book[live[id]][q][j].id = id => q = p /\ j = i

\* Between two calls the book is not crossed: nothing that could trade rests.
NotCrossed ==
    taker = NoOrder => \A b \in DOMAIN book["buy"], a \in DOMAIN book["sell"] : b < a

\* No quantity appears or is lost: what an order offered is what it traded, what
\* was cancelled or discarded, and what still rests or is in the loop.
QuantityConserved ==
    \A n \in DOMAIN offered :
        \E q \in 0 .. offered[n] :
            /\ offered[n] = filled[n] + gone[n] + q
            /\ \A o \in Resting \cup ({taker} \ {NoOrder}) : o.arrival = n => o.quantity = q
            /\ q > 0 => \E o \in Resting \cup ({taker} \ {NoOrder}) : o.arrival = n

\* The maker of a new fill is the order of the other side with the best price,
\* and the one that arrived first at that price; it trades at its own price and
\* not worse than the taker's limit.
FillHasPriority ==
    Len(fills') > Len(fills) =>
        LET fill == fills'[Len(fills')]
            other == {o \in Resting : o.side # taker.side}
        IN  \E maker \in other :
              /\ maker.arrival = fill.maker /\ maker.price = fill.price
              /\ Crosses(taker, fill.price)
              /\ \A o \in other \ {maker} :
                   \/ Better(maker.side, maker.price, o.price)
                   \/ maker.price = o.price /\ maker.arrival < o.arrival

\* "The best price wins, then ... (FIFO)": every iteration of submit's loop trades
\* with the order that has price-time priority.
PriceTimePriority == [][FillHasPriority]_vars
=============================================================================
