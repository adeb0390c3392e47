------------------------------ MODULE Orderbook ------------------------------
(***************************************************************************)
(* The limit order book of codealongs/cpp_orderbook: two sides of price    *)
(* levels, each a queue of orders, and an index of the orders by id.       *)
(*                                                                         *)
(* The public calls start in state "idle".  MatchOrders, which AddOrder    *)
(* ends with, is one step per turn of its inner loop (one trade) and one   *)
(* step for what follows the loops.  A turn of the inner loop stays on the *)
(* level the outer loop took, which stays the best one until it is empty,  *)
(* so each step looks the best levels up.                                  *)
(*                                                                         *)
(* After pop_front and erase MatchOrders still reads the popped order and  *)
(* level through references, and MatchOrder(OrderModify) the type of the   *)
(* order it has cancelled.  libstdc++ on glibc leaves what is read there   *)
(* in place (the allocator overwrites the first 16 bytes of the chunk, the *)
(* links), so the reads are modelled as reads of the old values.  Nothing  *)
(* may be allocated in between: that is why TradesAreFills looks at the    *)
(* space reserved for the trades.                                          *)
(***************************************************************************)
EXTENDS Integers, Sequences, FiniteSets, SequencesExt

CONSTANTS
    OrderIds,     \* OrderId, a uint64
    Prices,       \* Price, an int32
    Quantities,   \* Quantity, a uint32
    QuantityBits, \* its bits
    NoTrade       \* this step has not traded

MinPrice == -2147483647 - 1
MaxPrice == 2147483647

ASSUME OrderbookAssumption ==
    /\ Prices \subseteq MinPrice..MaxPrice
    /\ QuantityBits \in Nat
    /\ 2 ^ QuantityBits \in Nat \ {0}
    /\ Quantities \subseteq 0..(2 ^ QuantityBits - 1)

Sides == {"Buy", "Sell"}
OrderTypes == {"GoodTillCancel", "FillAndKill"}

VARIABLES
    book,    \* bids_ (Buy), asks_ (Sell): price -> queue of ids; orders_: id -> order
    pc,      \* "idle", or where MatchOrders is; "thrown": Fill has thrown
    trade,   \* the trade the last step has appended to trades
    room     \* what trades.reserve has left

vars == <<book, pc, trade, room>>

EmptyMap == [x \in {} |-> x]

Init ==
    /\ book = [Buy |-> EmptyMap, Sell |-> EmptyMap, orders |-> EmptyMap]
    /\ pc = "idle"
    /\ trade = NoTrade
    /\ room = 0

-----------------------------------------------------------------------------
(* The maps                                                                *)

Put(f, k, v) == [x \in DOMAIN f \cup {k} |-> IF x = k THEN v ELSE f[x]]

Erase(f, k) == [x \in DOMAIN f \ {k} |-> f[x]]

\* begin() of bids_ (std::greater) and of asks_ (std::less).
Best(b, side) ==
    CHOOSE p \in DOMAIN b[side] :
        \A q \in DOMAIN b[side] : IF side = "Buy" THEN p >= q ELSE p <= q

\* Mutant of FirstOrder: back().
FirstOrderLast(b, side) == Last(b[side][Best(b, side)])

\* front() of the best level.
FirstOrder(b, side) == Head(b[side][Best(b, side)])

Other(side) == IF side = "Buy" THEN "Sell" ELSE "Buy"

Crosses(b, side, price) ==
    LET best == Best(b, Other(side))
    IN  IF side = "Buy" THEN price >= best ELSE price <= best

Size(b) == Cardinality(DOMAIN b.orders)

CanMatch(b, side, price) ==
    /\ DOMAIN b[Other(side)] # {}
    /\ Crosses(b, side, price)

-----------------------------------------------------------------------------
(* The calls, as functions of the book                                     *)

\* Where the iterator of an order points to.
Position(queue, id) == CHOOSE i \in DOMAIN queue : queue[i] = id

\* A level without its order; an empty level goes with it.
WithoutId(levels, price, id) ==
    LET queue == RemoveAt(levels[price], Position(levels[price], id))
    IN  IF queue = <<>> THEN Erase(levels, price) ELSE Put(levels, price, queue)

\* Mutant of Cancelled: the index keeps the order.
CancelledInLevelOnly(b, id) ==
    IF id \notin DOMAIN b.orders THEN b
    ELSE LET o == b.orders[id]
         IN  [b EXCEPT ![o.side] = WithoutId(@, o.price, id)]

\* CancelOrder: the order leaves the index and, through its iterator, the
\* queue of its level.
Cancelled(b, id) ==
    IF id \notin DOMAIN b.orders THEN b
    ELSE LET o == b.orders[id]
         IN  [b EXCEPT !.orders = Erase(@, id),
                       ![o.side] = WithoutId(@, o.price, id)]

Refused(b, id, o) ==
    \/ id \in DOMAIN b.orders
    \/ o.type = "FillAndKill" /\ ~CanMatch(b, o.side, o.price)

\* push_back to the level, which is made if need be, and to the index.
Inserted(b, id, o) ==
    LET queue == IF o.price \in DOMAIN b[o.side] THEN b[o.side][o.price] ELSE <<>>
    IN  [b EXCEPT !.orders = Put(@, id, o),
                  ![o.side] = Put(@, o.price, Append(queue, id))]

Order(type, side, price, quantity) ==
    [type |-> type, side |-> side, price |-> price, remaining |-> quantity]

\* AddOrder up to the loop of MatchOrders, which reserves a trade for every
\* order.
Add(b, id, o) ==
    IF Refused(b, id, o)
    THEN book' = b /\ pc' = "idle" /\ UNCHANGED room
    ELSE /\ book' = Inserted(b, id, o)
         /\ pc' = "match"
         /\ room' = Size(book')

AddOrder(id, o) ==
    /\ pc = "idle"
    /\ Add(book, id, o)
    /\ trade' = NoTrade

CancelOrder(id) ==
    /\ pc = "idle"
    /\ book' = Cancelled(book, id)
    /\ UNCHANGED <<pc, trade, room>>

\* MatchOrder(OrderModify): cancel, and add with the type it had.
ModifyOrder(id, side, price, quantity) ==
    /\ pc = "idle"
    /\ id \in DOMAIN book.orders
    /\ Add(Cancelled(book, id), id, Order(book.orders[id].type, side, price, quantity))
    /\ trade' = NoTrade

-----------------------------------------------------------------------------
(* MatchOrders                                                             *)

Matching ==
    /\ DOMAIN book["Buy"] # {}
    /\ DOMAIN book["Sell"] # {}
    /\ Best(book, "Buy") >= Best(book, "Sell")

TradeQuantity(bid, ask) ==
    IF book.orders[bid].remaining < book.orders[ask].remaining
    THEN book.orders[bid].remaining ELSE book.orders[ask].remaining

\* Mutants of Filled: a partial fill is not recorded; nothing is removed by
\* a trade of quantity 0.
FilledUnlessEmpty(b, id, quantity) ==
    LET rest == b.orders[id].remaining - quantity
    IN  IF rest = 0 THEN Cancelled(b, id) ELSE b

FilledIfTraded(b, id, quantity) ==
    LET rest == b.orders[id].remaining - quantity
    IN  IF rest = 0 /\ quantity > 0 THEN Cancelled(b, id)
        ELSE [b EXCEPT !.orders[id].remaining = rest]

\* Fill, and the removal of an order that is filled: it is the first of its
\* level, so pop_front is what CancelOrder's erase would do.
Filled(b, id, quantity) ==
    LET rest == b.orders[id].remaining - quantity
    IN  IF rest = 0 THEN Cancelled(b, id)
        ELSE [b EXCEPT !.orders[id].remaining = rest]

Trade(bid, ask, quantity) ==
    [bid |-> bid, bidPrice |-> book.orders[bid].price,
     ask |-> ask, askPrice |-> book.orders[ask].price, quantity |-> quantity]

\* One turn of the inner loop.
Match ==
    /\ pc = "match"
    /\ Matching
    /\ LET bid == FirstOrder(book, "Buy")
           ask == FirstOrder(book, "Sell")
           quantity == TradeQuantity(bid, ask)
       IN  IF \E o \in {bid, ask} : quantity > book.orders[o].remaining
           THEN pc' = "thrown" /\ UNCHANGED <<book, trade, room>>
           ELSE /\ book' = Filled(Filled(book, bid, quantity), ask, quantity)
                /\ trade' = Trade(bid, ask, quantity)
                /\ room' = IF room > 0 THEN room - 1 ELSE room
                /\ UNCHANGED pc

\* Mutant of Killed: what is left of the order stays.
KilledNever(b, side) == b

\* What is left of a FillAndKill order at the front of the best level.
Killed(b, side) ==
    IF DOMAIN b[side] # {} /\ b.orders[FirstOrder(b, side)].type = "FillAndKill"
    THEN Cancelled(b, FirstOrder(b, side))
    ELSE b

MatchEnd ==
    /\ pc = "match"
    /\ ~Matching
    /\ book' = Killed(Killed(book, "Buy"), "Sell")
    /\ pc' = "idle"
    /\ trade' = NoTrade
    /\ room' = 0

-----------------------------------------------------------------------------
\* The prices that bids_ (std::greater) or asks_ (std::less) has before one.
Ahead(b, side, price) ==
    {p \in DOMAIN b[side] : IF side = "Buy" THEN p > price ELSE p < price}

\* The quantities of a level, added up in a uint32.
LevelQuantity(b, queue) ==
    FoldSeq(LAMBDA id, sum : (sum + b.orders[id].remaining) % 2 ^ QuantityBits, 0, queue)

\* GetOrderInfos: the levels of a side, the best first.
LevelInfos(b, side) ==
    LET Price(i) == CHOOSE p \in DOMAIN b[side] : Cardinality(Ahead(b, side, p)) = i - 1
    IN  [i \in 1..Cardinality(DOMAIN b[side]) |->
            [price |-> Price(i), quantity |-> LevelQuantity(b, b[side][Price(i)])]]

-----------------------------------------------------------------------------
\* A program, main among them, makes any calls.
Call ==
    \E id \in OrderIds :
        \/ CancelOrder(id)
        \/ \E side \in Sides, price \in Prices, quantity \in Quantities :
              \/ ModifyOrder(id, side, price, quantity)
              \/ \E type \in OrderTypes : AddOrder(id, Order(type, side, price, quantity))

MatchOrders == Match \/ MatchEnd

Next == Call \/ MatchOrders

Spec == Init /\ [][Next]_vars

\* A call that has begun runs on; nobody has to call.
FairSpec == Spec /\ WF_vars(MatchOrders)

-----------------------------------------------------------------------------
(* Properties                                                              *)

Queued(id, side, price) == price \in DOMAIN book[side] /\ Contains(book[side][price], id)

\* The index and the levels agree: an order is in the index if and only if
\* it is in the queue of its side and price, once, and no level is empty; so
\* begin() is never an empty level and an iterator never dangles.
IndexAgrees ==
    /\ \A side \in Sides : \A price \in DOMAIN book[side] :
          book[side][price] # <<>> /\ IsInjective(book[side][price])
    /\ \A id \in OrderIds, side \in Sides, price \in Prices :
          Queued(id, side, price) <=>
             /\ id \in DOMAIN book.orders
             /\ book.orders[id].side = side
             /\ book.orders[id].price = price

Infos(side) == LevelInfos(book, side)

\* The quantity of a side by its orders, in a uint32.
SideTotal(side) ==
    LET ids == {id \in DOMAIN book.orders : book.orders[id].side = side}
    IN  MapThenSumSet(LAMBDA id : book.orders[id].remaining, ids) % 2 ^ QuantityBits

\* When no call is running, what GetOrderInfos shows is a book at rest: the
\* best bid is below the best ask, and the levels add up to the orders of the
\* index.  No FillAndKill order rests in it, whatever the other orders around
\* it: MatchOrders only looks at the front of the best level for one.
BookAtRest ==
    pc = "idle" =>
       /\ Infos("Buy") # <<>> /\ Infos("Sell") # <<>> =>
             Head(Infos("Buy")).price < Head(Infos("Sell")).price
       /\ \A side \in Sides :
             SideTotal(side) = FoldSeq(LAMBDA info, sum : sum + info.quantity, 0, Infos(side))
                                  % 2 ^ QuantityBits
       /\ \A id \in DOMAIN book.orders : book.orders[id].type = "GoodTillCancel"

Remaining(b, id) == IF id \in DOMAIN b.orders THEN b.orders[id].remaining ELSE 0

\* While orders are matched, an order loses exactly what the trade reports
\* for it, and all it had when it leaves the book; and there is room for the
\* trade, so that push_back does not allocate.
TradesAreFills ==
    [][pc = "match" /\ pc' = "match" =>
         /\ room > 0
         /\ \A id \in DOMAIN book.orders :
               Remaining(book, id) - Remaining(book', id)
                  = IF id \in {trade'.bid, trade'.ask} THEN trade'.quantity ELSE 0]_vars

\* A trade is between orders of crossing prices, and nobody with a better
\* price, or the same price and an earlier place in the queue, is passed over.
Served(side, id) ==
    LET o == book.orders[id]
    IN  /\ o.side = side
        /\ \A other \in DOMAIN book.orders \ {id} :
              LET p == book.orders[other].price
              IN  book.orders[other].side = side =>
                     IF side = "Buy" THEN p <= o.price ELSE p >= o.price
        /\ Head(book[side][o.price]) = id

Before(queue, a, b) == \E i, j \in DOMAIN queue : i < j /\ queue[i] = a /\ queue[j] = b

\* Every fill follows price-time priority, and no step moves an order past
\* another one of its level, unless the order was modified (and is then the
\* last): partial fills keep their place.
PriceTimePriority ==
    [][/\ pc = "match" /\ pc' = "match" =>
             /\ Served("Buy", trade'.bid)
             /\ Served("Sell", trade'.ask)
             /\ trade'.bidPrice >= trade'.askPrice
       /\ \A side \in Sides : \A price \in DOMAIN book[side] \cap DOMAIN book'[side] :
             \A a, b \in OrderIds :
                Before(book[side][price], a, b) /\ Before(book'[side][price], b, a)
                   => a = Last(book'[side][price]) /\ pc = "idle"]_vars

\* A call ends: the matching makes progress, orders of quantity 0 included,
\* and Fill does not throw.
MatchingEnds == pc = "match" ~> pc = "idle"
=============================================================================
