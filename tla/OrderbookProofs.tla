--------------------------- MODULE OrderbookProofs ---------------------------
(***************************************************************************)
(* The order book, for any orders and prices.                              *)
(*                                                                         *)
(* A side is told by what is At each price, the empty queue if there is no *)
(* level: the calls then change one queue of one side.  The invariant is   *)
(* that of GoodBook, whatever the state of MatchOrders, with what is known *)
(* of the prices: between calls no bid reaches an ask; within MatchOrders  *)
(* a FillAndKill order is alone at the best price of its side, because it  *)
(* was only let in as it crossed the book.  That is why it is enough that  *)
(* MatchOrders looks for one at the front of the best levels.              *)
(***************************************************************************)
EXTENDS Orderbook, DataLemmas

OrderRecords == [type : OrderTypes, side : Sides, price : Prices, remaining : Nat]

LevelMaps == UNION {[D -> Seq(OrderIds) \ {<<>>}] : D \in SUBSET Prices}

OrderMaps == UNION {[D -> OrderRecords] : D \in SUBSET OrderIds}

Books == [Buy : LevelMaps, Sell : LevelMaps, orders : OrderMaps]

At(levels, price) == IF price \in DOMAIN levels THEN levels[price] ELSE <<>>

\* Where the index says that an order is.
Indexed(b, id, side, price) ==
    /\ id \in DOMAIN b.orders
    /\ b.orders[id].side = side
    /\ b.orders[id].price = price

Agree(b) ==
    \A side \in Sides, price \in Prices :
       /\ IsInjective(At(b[side], price))
       /\ \A id \in OrderIds : Contains(At(b[side], price), id) <=> Indexed(b, id, side, price)

GoodBook(b) == b \in Books /\ IsFiniteSet(DOMAIN b.orders) /\ Agree(b)

\* No order of a level has moved past another one.
InOrder(b1, b2) ==
    \A side \in Sides, price \in Prices, a, c \in OrderIds :
       Before(At(b2[side], price), c, a) => Before(At(b1[side], price), c, a)

-----------------------------------------------------------------------------
(* The maps                                                                *)

LEMMA LevelMap ==
    ASSUME NEW f
    PROVE  f \in LevelMaps <=>
              DOMAIN f \subseteq Prices /\ f \in [DOMAIN f -> Seq(OrderIds) \ {<<>>}]
BY DEF LevelMaps

LEMMA OrderMap ==
    ASSUME NEW f
    PROVE  f \in OrderMaps <=> DOMAIN f \subseteq OrderIds /\ f \in [DOMAIN f -> OrderRecords]
BY DEF OrderMaps

LEMMA AtType ==
    ASSUME NEW f \in LevelMaps, NEW price
    PROVE  /\ At(f, price) \in Seq(OrderIds)
           /\ At(f, price) # <<>> <=> price \in DOMAIN f
BY LevelMap DEF At

LEMMA PutLevel ==
    ASSUME NEW f \in LevelMaps, NEW price \in Prices, NEW q \in Seq(OrderIds), q # <<>>
    PROVE  /\ Put(f, price, q) \in LevelMaps
           /\ \A p : At(Put(f, price, q), p) = IF p = price THEN q ELSE At(f, p)
<1>1. DOMAIN f \subseteq Prices /\ f \in [DOMAIN f -> Seq(OrderIds) \ {<<>>}]
      BY LevelMap
<1> DEFINE g == Put(f, price, q)
<1>2. /\ DOMAIN g = DOMAIN f \cup {price}
      /\ g \in [DOMAIN g -> Seq(OrderIds) \ {<<>>}]
      BY <1>1 DEF Put
<1>3. g \in LevelMaps
      BY <1>1, <1>2, LevelMap
<1>4. \A p : At(g, p) = IF p = price THEN q ELSE At(f, p)
      BY <1>1 DEF Put, At
<1> QED
    BY <1>3, <1>4

LEMMA EraseLevel ==
    ASSUME NEW f \in LevelMaps, NEW price \in Prices
    PROVE  /\ Erase(f, price) \in LevelMaps
           /\ \A p : At(Erase(f, price), p) = IF p = price THEN <<>> ELSE At(f, p)
<1>1. DOMAIN f \subseteq Prices /\ f \in [DOMAIN f -> Seq(OrderIds) \ {<<>>}]
      BY LevelMap
<1> DEFINE g == Erase(f, price)
<1>2. /\ DOMAIN g = DOMAIN f \ {price}
      /\ g \in [DOMAIN g -> Seq(OrderIds) \ {<<>>}]
      BY <1>1 DEF Erase
<1>3. g \in LevelMaps
      BY <1>1, <1>2, LevelMap
<1>4. \A p : At(g, p) = IF p = price THEN <<>> ELSE At(f, p)
      BY <1>1 DEF Erase, At
<1> QED
    BY <1>3, <1>4

LEMMA PutOrder ==
    ASSUME NEW f \in OrderMaps, NEW id \in OrderIds, NEW o \in OrderRecords
    PROVE  /\ Put(f, id, o) \in OrderMaps
           /\ DOMAIN Put(f, id, o) = DOMAIN f \cup {id}
           /\ Put(f, id, o)[id] = o
           /\ \A x \in DOMAIN f \ {id} : Put(f, id, o)[x] = f[x]
<1>1. DOMAIN f \subseteq OrderIds /\ f \in [DOMAIN f -> OrderRecords]
      BY OrderMap
<1> DEFINE g == Put(f, id, o)
<1>2. DOMAIN g = DOMAIN f \cup {id} /\ g \in [DOMAIN g -> OrderRecords]
      BY <1>1 DEF Put
<1>3. g \in OrderMaps
      BY <1>1, <1>2, OrderMap
<1> QED
    BY <1>2, <1>3 DEF Put

LEMMA EraseOrder ==
    ASSUME NEW f \in OrderMaps, NEW id \in OrderIds
    PROVE  /\ Erase(f, id) \in OrderMaps
           /\ DOMAIN Erase(f, id) = DOMAIN f \ {id}
           /\ \A x \in DOMAIN f \ {id} : Erase(f, id)[x] = f[x]
<1>1. DOMAIN f \subseteq OrderIds /\ f \in [DOMAIN f -> OrderRecords]
      BY OrderMap
<1> DEFINE g == Erase(f, id)
<1>2. DOMAIN g = DOMAIN f \ {id} /\ g \in [DOMAIN g -> OrderRecords]
      BY <1>1 DEF Erase
<1>3. g \in OrderMaps
      BY <1>1, <1>2, OrderMap
<1> QED
    BY <1>2, <1>3 DEF Erase

-----------------------------------------------------------------------------
(* The queues                                                              *)

\* erase(iterator): the elements behind it move up.
LEMMA Removed ==
    ASSUME NEW q \in Seq(OrderIds), NEW k \in 1..Len(q)
    PROVE  /\ RemoveAt(q, k) \in Seq(OrderIds)
           /\ Len(RemoveAt(q, k)) = Len(q) - 1
           /\ \A i \in 1..(Len(q) - 1) : RemoveAt(q, k)[i] = IF i < k THEN q[i] ELSE q[i + 1]
<1> DEFINE s == SubSeq(q, 1, k - 1)
           t == SubSeq(q, k + 1, Len(q))
<1>1. Len(q) \in Nat /\ k \in Nat /\ k >= 1 /\ k <= Len(q)
      OBVIOUS
<1>2. s \in Seq(OrderIds) /\ Len(s) = k - 1 /\ \A i \in 1..(k - 1) : s[i] = q[i]
      <2>1. \A i \in 1..(k - 1) : q[i] \in OrderIds
            BY <1>1, ElementOfSeq
      <2>2. /\ s \in Seq(OrderIds)
            /\ Len(s) = (IF 1 <= k - 1 THEN (k - 1) - 1 + 1 ELSE 0)
            /\ \A i \in 1..((k - 1) - 1 + 1) : s[i] = q[1 + i - 1]
            BY <1>1, <2>1, SubSeqProperties
      <2>3. /\ (IF 1 <= k - 1 THEN (k - 1) - 1 + 1 ELSE 0) = k - 1
            /\ (k - 1) - 1 + 1 = k - 1 /\ \A i \in 1..(k - 1) : 1 + i - 1 = i
            BY <1>1
      <2> QED
          BY <2>2, <2>3
<1>3. t \in Seq(OrderIds) /\ Len(t) = Len(q) - k /\ \A i \in 1..(Len(q) - k) : t[i] = q[k + i]
      <2>1. \A i \in (k + 1)..Len(q) : q[i] \in OrderIds
            BY <1>1, ElementOfSeq
      <2>2. /\ t \in Seq(OrderIds)
            /\ Len(t) = (IF k + 1 <= Len(q) THEN Len(q) - (k + 1) + 1 ELSE 0)
            /\ \A i \in 1..(Len(q) - (k + 1) + 1) : t[i] = q[k + 1 + i - 1]
            BY <1>1, <2>1, SubSeqProperties
      <2>3. /\ (IF k + 1 <= Len(q) THEN Len(q) - (k + 1) + 1 ELSE 0) = Len(q) - k
            /\ Len(q) - (k + 1) + 1 = Len(q) - k
            /\ \A i \in 1..(Len(q) - k) : k + 1 + i - 1 = k + i
            BY <1>1
      <2> QED
          BY <2>2, <2>3
<1> HIDE DEF s, t
<1>4. /\ s \o t \in Seq(OrderIds)
      /\ Len(s \o t) = Len(s) + Len(t)
      /\ \A i \in 1..(Len(s) + Len(t)) : (s \o t)[i] = IF i <= Len(s) THEN s[i] ELSE t[i - Len(s)]
      BY <1>2, <1>3, ConcatProperties
<1>5. Len(s) + Len(t) = Len(q) - 1
      BY <1>1, <1>2, <1>3
<1>6. ASSUME NEW i \in 1..(Len(q) - 1)
      PROVE  (s \o t)[i] = IF i < k THEN q[i] ELSE q[i + 1]
      <2>1. CASE i < k
            <3>1. i <= Len(s) /\ i \in 1..(k - 1)
                  BY <1>1, <1>2, <2>1
            <3> QED
                BY <1>2, <1>4, <1>5, <2>1, <3>1
      <2>2. CASE ~(i < k)
            <3>1. ~(i <= Len(s)) /\ i - Len(s) \in 1..(Len(q) - k) /\ k + (i - Len(s)) = i + 1
                  BY <1>1, <1>2, <2>2
            <3>2. (s \o t)[i] = t[i - Len(s)]
                  BY <1>4, <1>5, <3>1
            <3>3. t[i - Len(s)] = q[k + (i - Len(s))]
                  BY <1>3, <3>1
            <3> QED
                BY <2>2, <3>1, <3>2, <3>3
      <2> QED
          BY <2>1, <2>2
<1> QED
    BY <1>4, <1>5, <1>6 DEF RemoveAt, s, t

\* The queue without an order that is in it once.
LEMMA QueueWithout ==
    ASSUME NEW q \in Seq(OrderIds), IsInjective(q), NEW id, Contains(q, id)
    PROVE  LET r == RemoveAt(q, Position(q, id))
           IN  /\ r \in Seq(OrderIds)
               /\ IsInjective(r)
               /\ \A x : Contains(r, x) <=> Contains(q, x) /\ x # id
               /\ \A a, c : Before(r, c, a) => Before(q, c, a)
<1> DEFINE k == Position(q, id)
           r == RemoveAt(q, k)
           n == Len(q)
<1>1. n \in Nat /\ DOMAIN q = 1..n
      OBVIOUS
<1>2. k \in 1..n /\ q[k] = id
      BY <1>1 DEF Position, Contains
<1> HIDE DEF k
<1>3. /\ r \in Seq(OrderIds) /\ Len(r) = n - 1
      /\ \A i \in 1..(n - 1) : r[i] = IF i < k THEN q[i] ELSE q[i + 1]
      BY <1>2, Removed
<1> HIDE DEF r, n
<1>4. DOMAIN r = 1..(n - 1)
      BY <1>3
<1> DEFINE f(i) == IF i < k THEN i ELSE i + 1
<1>5. /\ \A i \in 1..(n - 1) : f(i) \in 1..n /\ f(i) # k /\ r[i] = q[f(i)]
      /\ \A i, j \in 1..(n - 1) : i < j => f(i) < f(j)
      BY <1>1, <1>2, <1>3
<1>6. \A m \in 1..n : m # k => \E i \in 1..(n - 1) : f(i) = m
      <2> SUFFICES ASSUME NEW m \in 1..n, m # k PROVE \E i \in 1..(n - 1) : f(i) = m
          OBVIOUS
      <2>1. CASE m < k
            <3>1. m \in 1..(n - 1) /\ f(m) = m
                  BY <1>1, <1>2, <2>1
            <3> QED
                BY <3>1
      <2>2. CASE m > k
            <3>1. m - 1 \in 1..(n - 1) /\ f(m - 1) = m
                  BY <1>1, <1>2, <2>2
            <3> QED
                BY <3>1
      <2> QED
          BY <1>1, <1>2, <2>1, <2>2
<1> HIDE DEF f
<1>7. \A i, j \in 1..n : q[i] = q[j] => i = j
      BY <1>1 DEF IsInjective
<1>8. IsInjective(r)
      <2> SUFFICES ASSUME NEW i \in 1..(n - 1), NEW j \in 1..(n - 1), r[i] = r[j] PROVE i = j
          BY <1>4 DEF IsInjective
      <2>1. f(i) = f(j) /\ f(i) \in 1..n /\ f(j) \in 1..n
            BY <1>5, <1>7
      <2>2. ~(i < j) /\ ~(j < i)
            BY <1>1, <1>5, <2>1
      <2> QED
          BY <1>1, <2>2
<1>9. ASSUME NEW x PROVE Contains(r, x) <=> Contains(q, x) /\ x # id
      <2>1. ASSUME Contains(r, x) PROVE Contains(q, x) /\ x # id
            <3>1. PICK i \in 1..(n - 1) : r[i] = x
                  BY <1>3, <2>1 DEF Contains
            <3>2. f(i) \in 1..n /\ f(i) # k /\ q[f(i)] = x
                  BY <1>5, <3>1
            <3> QED
                BY <1>2, <1>7, <3>2 DEF Contains, n
      <2>2. ASSUME Contains(q, x), x # id PROVE Contains(r, x)
            <3>1. PICK m \in 1..n : q[m] = x
                  BY <2>2 DEF Contains, n
            <3>2. m # k
                  BY <1>2, <2>2, <3>1
            <3>3. PICK i \in 1..(n - 1) : f(i) = m
                  BY <1>6, <3>2
            <3> QED
                BY <1>3, <1>5, <3>1, <3>3 DEF Contains
      <2> QED
          BY <2>1, <2>2
<1>10. ASSUME NEW a, NEW c, Before(r, c, a) PROVE Before(q, c, a)
      <2>1. PICK i \in 1..(n - 1), j \in 1..(n - 1) : i < j /\ r[i] = c /\ r[j] = a
            BY <1>4, <1>10 DEF Before
      <2>2. f(i) \in 1..n /\ f(j) \in 1..n /\ f(i) < f(j) /\ q[f(i)] = c /\ q[f(j)] = a
            BY <1>5, <2>1
      <2> QED
          BY <1>1, <2>2 DEF Before
<1> QED
    BY <1>3, <1>8, <1>9, <1>10 DEF r, k

\* push_back of an order that is not in the queue.
LEMMA QueueWith ==
    ASSUME NEW q \in Seq(OrderIds), IsInjective(q), NEW id \in OrderIds, ~Contains(q, id)
    PROVE  /\ Append(q, id) \in Seq(OrderIds) /\ Append(q, id) # <<>>
           /\ IsInjective(Append(q, id))
           /\ \A x : Contains(Append(q, id), x) <=> Contains(q, x) \/ x = id
           /\ Last(Append(q, id)) = id
           /\ \A a, c : Before(Append(q, id), c, a) => Before(q, c, a) \/ a = id
<1> DEFINE r == Append(q, id)
           n == Len(q)
<1>1. n \in Nat /\ DOMAIN q = 1..n
      OBVIOUS
<1>2. r \in Seq(OrderIds) /\ Len(r) = n + 1 /\ r[n + 1] = id /\ \A i \in 1..n : r[i] = q[i]
      BY AppendProperties
<1> HIDE DEF r
<1>3. DOMAIN r = 1..(n + 1) /\ r # <<>>
      BY <1>1, <1>2
<1>4. \A i \in 1..n : q[i] # id
      BY DEF Contains
<1>5. \A i, j \in 1..n : q[i] = q[j] => i = j
      BY <1>1 DEF IsInjective
<1> HIDE DEF n
<1>6. \A i \in 1..(n + 1) : i = n + 1 \/ i \in 1..n
      BY <1>1
<1>7. IsInjective(r)
      <2> SUFFICES ASSUME NEW i \in 1..(n + 1), NEW j \in 1..(n + 1), r[i] = r[j] PROVE i = j
          BY <1>3 DEF IsInjective
      <2> QED
          BY <1>2, <1>4, <1>5, <1>6
<1>8. ASSUME NEW x PROVE Contains(r, x) <=> Contains(q, x) \/ x = id
      <2>1. Contains(r, x) <=> \E i \in 1..(n + 1) : r[i] = x
            BY <1>2 DEF Contains
      <2>2. Contains(q, x) <=> \E i \in 1..n : q[i] = x
            BY DEF Contains, n
      <2>3. n + 1 \in 1..(n + 1) /\ \A i \in 1..n : i \in 1..(n + 1)
            BY <1>1
      <2> QED
          BY <1>2, <1>6, <2>1, <2>2, <2>3
<1>9. ASSUME NEW a, NEW c, Before(r, c, a) PROVE Before(q, c, a) \/ a = id
      <2>1. PICK i \in 1..(n + 1), j \in 1..(n + 1) : i < j /\ r[i] = c /\ r[j] = a
            BY <1>3, <1>9 DEF Before
      <2>2. CASE j = n + 1
            BY <1>2, <2>1, <2>2
      <2>3. CASE j \in 1..n
            <3>1. i \in 1..n
                  BY <1>1, <2>1, <2>3
            <3>2. q[i] = c /\ q[j] = a
                  BY <1>2, <2>1, <2>3, <3>1
            <3> QED
                BY <1>1, <2>1, <2>3, <3>1, <3>2 DEF Before, n
      <2> QED
          BY <1>6, <2>2, <2>3
<1>10. Last(r) = id
      BY <1>2 DEF Last
<1> QED
    BY <1>2, <1>3, <1>7, <1>8, <1>9, <1>10 DEF r

-----------------------------------------------------------------------------
(* The calls, as functions of the book                                     *)

LEMMA BookParts ==
    ASSUME NEW b \in Books
    PROVE  /\ b.orders \in OrderMaps
           /\ \A side \in Sides : b[side] \in LevelMaps
           /\ DOMAIN b.orders \subseteq OrderIds
           /\ \A id \in DOMAIN b.orders : b.orders[id] \in OrderRecords
<1>1. b.orders \in OrderMaps /\ b["Buy"] \in LevelMaps /\ b["Sell"] \in LevelMaps
      BY DEF Books
<1>2. DOMAIN b.orders \subseteq OrderIds /\ b.orders \in [DOMAIN b.orders -> OrderRecords]
      BY <1>1, OrderMap
<1> QED
    BY <1>1, <1>2 DEF Sides

LEMMA WithoutLevel ==
    ASSUME NEW f \in LevelMaps, NEW price \in Prices, NEW id,
           IsInjective(At(f, price)), Contains(At(f, price), id)
    PROVE  LET r == RemoveAt(At(f, price), Position(At(f, price), id))
           IN  /\ WithoutId(f, price, id) \in LevelMaps
               /\ \A p : At(WithoutId(f, price, id), p) = IF p = price THEN r ELSE At(f, p)
<1> DEFINE q == At(f, price)
           r == RemoveAt(q, Position(q, id))
<1>1. q \in Seq(OrderIds)
      BY AtType
<1>2. price \in DOMAIN f
      BY DEF Contains, At
<1>3. f[price] = q
      BY <1>2 DEF At
<1>4. r \in Seq(OrderIds)
      BY <1>1, QueueWithout
<1>5. WithoutId(f, price, id) = IF r = <<>> THEN Erase(f, price) ELSE Put(f, price, r)
      BY <1>3 DEF WithoutId
<1> HIDE DEF r
<1>6. CASE r = <<>>
      <2>1. WithoutId(f, price, id) = Erase(f, price)
            BY <1>5, <1>6
      <2> QED
          BY <1>6, <2>1, EraseLevel DEF r
<1>7. CASE r # <<>>
      <2>1. WithoutId(f, price, id) = Put(f, price, r)
            BY <1>5, <1>7
      <2>2. /\ Put(f, price, r) \in LevelMaps
            /\ \A p : At(Put(f, price, r), p) = IF p = price THEN r ELSE At(f, p)
            BY <1>4, <1>7, PutLevel
      <2> QED
          BY <2>1, <2>2 DEF r
<1> QED
    BY <1>6, <1>7

\* The book with new orders and one new side.
BookWith(b, os, s, lv) == [b EXCEPT !.orders = os, ![s] = lv]

LEMMA BookUpdated ==
    ASSUME NEW b \in Books, NEW os \in OrderMaps, NEW s \in Sides, NEW lv \in LevelMaps
    PROVE  LET b2 == BookWith(b, os, s, lv)
           IN  /\ b2 \in Books
               /\ b2.orders = os
               /\ b2[s] = lv
               /\ \A side \in Sides : side # s => b2[side] = b[side]
<1>1. CASE s = "Buy"
      BY <1>1 DEF Books, Sides, BookWith
<1>2. CASE s = "Sell"
      BY <1>2 DEF Books, Sides, BookWith
<1> QED
    BY <1>1, <1>2 DEF Sides

\* CancelOrder takes one order out and leaves the others where they are.
LEMMA CancelledBook ==
    ASSUME NEW b, GoodBook(b), NEW id \in DOMAIN b.orders
    PROVE  LET b2 == Cancelled(b, id)
               o == b.orders[id]
           IN  /\ b2 \in Books
               /\ b2.orders = Erase(b.orders, id)
               /\ \A side \in Sides, price \in Prices :
                     At(b2[side], price) =
                        IF side = o.side /\ price = o.price
                        THEN RemoveAt(At(b[side], price), Position(At(b[side], price), id))
                        ELSE At(b[side], price)
               /\ Contains(At(b[o.side], o.price), id)
<1> DEFINE o == b.orders[id]
           os == Erase(b.orders, id)
           lv == WithoutId(b[o.side], o.price, id)
           b2 == BookWith(b, os, o.side, lv)
<1>1. b \in Books /\ Agree(b)
      BY DEF GoodBook
<1>2. o \in OrderRecords /\ id \in OrderIds /\ b.orders \in OrderMaps
      BY <1>1, BookParts
<1>3. o.side \in Sides /\ o.price \in Prices
      BY <1>2 DEF OrderRecords
<1>4. b[o.side] \in LevelMaps
      BY <1>1, <1>3, BookParts
<1>5. Indexed(b, id, o.side, o.price)
      BY DEF Indexed
<1>6. IsInjective(At(b[o.side], o.price)) /\ Contains(At(b[o.side], o.price), id)
      BY <1>1, <1>2, <1>3, <1>5 DEF Agree
<1>7. os \in OrderMaps
      BY <1>2, EraseOrder
<1>8. /\ lv \in LevelMaps
      /\ \A p : At(lv, p) =
            IF p = o.price
            THEN RemoveAt(At(b[o.side], o.price), Position(At(b[o.side], o.price), id))
            ELSE At(b[o.side], p)
      BY <1>3, <1>4, <1>6, WithoutLevel
<1>9. Cancelled(b, id) = b2
      BY DEF Cancelled, BookWith
<1> HIDE DEF lv, os
<1>10. /\ b2 \in Books /\ b2.orders = os /\ b2[o.side] = lv
       /\ \A side \in Sides : side # o.side => b2[side] = b[side]
      BY <1>1, <1>3, <1>7, <1>8, BookUpdated
<1> HIDE DEF b2
<1>11. ASSUME NEW side \in Sides, NEW price \in Prices
       PROVE  At(b2[side], price) =
                 IF side = o.side /\ price = o.price
                 THEN RemoveAt(At(b[side], price), Position(At(b[side], price), id))
                 ELSE At(b[side], price)
      <2>1. CASE side = o.side
            BY <1>8, <1>10, <2>1
      <2>2. CASE side # o.side
            BY <1>10, <2>2
      <2> QED
          BY <2>1, <2>2
<1> QED
    BY <1>6, <1>9, <1>10, <1>11 DEF os

LEMMA CancelledGood ==
    ASSUME NEW b, GoodBook(b), NEW id \in DOMAIN b.orders
    PROVE  /\ GoodBook(Cancelled(b, id))
           /\ DOMAIN Cancelled(b, id).orders = DOMAIN b.orders \ {id}
           /\ \A x \in DOMAIN b.orders \ {id} : Cancelled(b, id).orders[x] = b.orders[x]
           /\ InOrder(b, Cancelled(b, id))
<1> DEFINE b2 == Cancelled(b, id)
           o == b.orders[id]
           Q(side, price) == At(b[side], price)
           R(side, price) == RemoveAt(Q(side, price), Position(Q(side, price), id))
<1>1. b \in Books /\ Agree(b) /\ IsFiniteSet(DOMAIN b.orders)
      BY DEF GoodBook
<1>2. /\ b2 \in Books /\ b2.orders = Erase(b.orders, id)
      /\ \A side \in Sides, price \in Prices :
            At(b2[side], price) = IF side = o.side /\ price = o.price
                                  THEN R(side, price) ELSE Q(side, price)
      /\ Contains(Q(o.side, o.price), id)
      BY CancelledBook
<1>3. id \in OrderIds /\ o \in OrderRecords /\ b.orders \in OrderMaps
      BY <1>1, BookParts
<1>4. o.side \in Sides /\ o.price \in Prices
      BY <1>3 DEF OrderRecords
<1> HIDE DEF b2
<1>5. /\ DOMAIN b2.orders = DOMAIN b.orders \ {id}
      /\ \A x \in DOMAIN b.orders \ {id} : b2.orders[x] = b.orders[x]
      BY <1>2, <1>3, EraseOrder
<1>6. IsFiniteSet(DOMAIN b2.orders)
      BY <1>1, <1>5, FS_RemoveElement
<1>7. \A side \in Sides, price \in Prices :
         Q(side, price) \in Seq(OrderIds) /\ IsInjective(Q(side, price))
      BY <1>1, AtType, BookParts DEF Agree
<1>8. /\ IsInjective(R(o.side, o.price))
      /\ \A x : Contains(R(o.side, o.price), x) <=> Contains(Q(o.side, o.price), x) /\ x # id
      /\ \A a, c : Before(R(o.side, o.price), c, a) => Before(Q(o.side, o.price), c, a)
      BY <1>2, <1>4, <1>7, QueueWithout
<1>9. \A side \in Sides, price \in Prices, x \in OrderIds :
         Contains(Q(side, price), x) <=> Indexed(b, x, side, price)
      BY <1>1 DEF Agree
<1>10. \A side \in Sides, price \in Prices, x \in OrderIds :
          Indexed(b2, x, side, price) <=> Indexed(b, x, side, price) /\ x # id
      BY <1>5 DEF Indexed
<1>11. \A side \in Sides, price \in Prices :
          Indexed(b, id, side, price) <=> side = o.side /\ price = o.price
      BY DEF Indexed
<1> HIDE DEF R, Q
<1>12. ASSUME NEW side \in Sides, NEW price \in Prices
       PROVE  /\ IsInjective(At(b2[side], price))
              /\ \A x \in OrderIds : Contains(At(b2[side], price), x) <=> Indexed(b2, x, side, price)
              /\ \A a, c : Before(At(b2[side], price), c, a) => Before(Q(side, price), c, a)
      <2>1. CASE side = o.side /\ price = o.price
            <3>1. At(b2[side], price) = R(o.side, o.price) /\ Q(side, price) = Q(o.side, o.price)
                  BY <1>2, <2>1
            <3>2. IsInjective(At(b2[side], price))
                  BY <1>8, <3>1
            <3>3. \A x : Contains(At(b2[side], price), x) <=> Contains(Q(side, price), x) /\ x # id
                  BY <1>8, <3>1
            <3>4. \A a, c : Before(At(b2[side], price), c, a) => Before(Q(side, price), c, a)
                  BY <1>8, <3>1
            <3> QED
                BY <1>9, <1>10, <3>2, <3>3, <3>4
      <2>2. CASE ~(side = o.side /\ price = o.price)
            <3>1. At(b2[side], price) = Q(side, price)
                  BY <1>2, <2>2
            <3>2. ~Indexed(b, id, side, price)
                  BY <1>11, <2>2
            <3> QED
                BY <1>7, <1>9, <1>10, <3>1, <3>2
      <2> QED
          BY <2>1, <2>2
<1>13. Agree(b2)
      BY <1>12 DEF Agree
<1>14. InOrder(b, b2)
      BY <1>12 DEF InOrder, Q
<1> QED
    BY <1>2, <1>5, <1>6, <1>13, <1>14 DEF GoodBook, b2

\* AddOrder's insertion puts one order at the end of its level.
LEMMA InsertedBook ==
    ASSUME NEW b, GoodBook(b), NEW id \in OrderIds, id \notin DOMAIN b.orders,
           NEW o \in OrderRecords
    PROVE  LET b2 == Inserted(b, id, o)
           IN  /\ b2 \in Books
               /\ b2.orders = Put(b.orders, id, o)
               /\ \A side \in Sides, price \in Prices :
                     At(b2[side], price) =
                        IF side = o.side /\ price = o.price
                        THEN Append(At(b[side], price), id)
                        ELSE At(b[side], price)
               /\ \A side \in Sides, price \in Prices : ~Contains(At(b[side], price), id)
<1> DEFINE q == At(b[o.side], o.price)
           os == Put(b.orders, id, o)
           lv == Put(b[o.side], o.price, Append(q, id))
           b2 == BookWith(b, os, o.side, lv)
<1>1. b \in Books /\ Agree(b)
      BY DEF GoodBook
<1>2. b.orders \in OrderMaps
      BY <1>1, BookParts
<1>3. o.side \in Sides /\ o.price \in Prices
      BY DEF OrderRecords
<1>4. b[o.side] \in LevelMaps
      BY <1>1, <1>3, BookParts
<1>5. \A side \in Sides, price \in Prices : ~Contains(At(b[side], price), id)
      BY <1>1 DEF Agree, Indexed
<1>6. os \in OrderMaps
      BY <1>2, PutOrder
<1>7. Append(q, id) \in Seq(OrderIds) /\ Append(q, id) # <<>>
      BY <1>4, AtType, AppendProperties
<1>8. /\ lv \in LevelMaps
      /\ \A p : At(lv, p) = IF p = o.price THEN Append(q, id) ELSE At(b[o.side], p)
      <2> HIDE DEF q
      <2> QED
          BY <1>3, <1>4, <1>7, PutLevel
<1>9. Inserted(b, id, o) = b2
      BY DEF Inserted, At, BookWith
<1> HIDE DEF lv, os
<1>10. /\ b2 \in Books /\ b2.orders = os /\ b2[o.side] = lv
       /\ \A side \in Sides : side # o.side => b2[side] = b[side]
      BY <1>1, <1>3, <1>6, <1>8, BookUpdated
<1> HIDE DEF b2
<1>11. ASSUME NEW side \in Sides, NEW price \in Prices
       PROVE  At(b2[side], price) =
                 IF side = o.side /\ price = o.price
                 THEN Append(At(b[side], price), id)
                 ELSE At(b[side], price)
      <2>1. CASE side = o.side
            BY <1>8, <1>10, <2>1
      <2>2. CASE side # o.side
            BY <1>10, <2>2
      <2> QED
          BY <2>1, <2>2
<1> QED
    BY <1>5, <1>9, <1>10, <1>11 DEF os

LEMMA InsertedGood ==
    ASSUME NEW b, GoodBook(b), NEW id \in OrderIds, id \notin DOMAIN b.orders,
           NEW o \in OrderRecords
    PROVE  LET b2 == Inserted(b, id, o)
           IN  /\ GoodBook(b2)
               /\ DOMAIN b2.orders = DOMAIN b.orders \cup {id}
               /\ b2.orders[id] = o
               /\ \A x \in DOMAIN b.orders : b2.orders[x] = b.orders[x]
               /\ \A side \in Sides, price \in Prices, a, c \in OrderIds :
                     Before(At(b2[side], price), c, a) =>
                        \/ Before(At(b[side], price), c, a)
                        \/ a = Last(At(b2[side], price))
<1> DEFINE b2 == Inserted(b, id, o)
           Q(side, price) == At(b[side], price)
           R(side, price) == Append(Q(side, price), id)
<1>1. b \in Books /\ Agree(b) /\ IsFiniteSet(DOMAIN b.orders)
      BY DEF GoodBook
<1>2. /\ b2 \in Books /\ b2.orders = Put(b.orders, id, o)
      /\ \A side \in Sides, price \in Prices :
            At(b2[side], price) = IF side = o.side /\ price = o.price
                                  THEN R(side, price) ELSE Q(side, price)
      /\ \A side \in Sides, price \in Prices : ~Contains(Q(side, price), id)
      BY InsertedBook
<1>3. b.orders \in OrderMaps
      BY <1>1, BookParts
<1>4. o.side \in Sides /\ o.price \in Prices
      BY DEF OrderRecords
<1> HIDE DEF b2
<1>5. /\ DOMAIN b2.orders = DOMAIN b.orders \cup {id}
      /\ b2.orders[id] = o
      /\ \A x \in DOMAIN b.orders : b2.orders[x] = b.orders[x]
      BY <1>2, <1>3, PutOrder
<1>6. IsFiniteSet(DOMAIN b2.orders)
      BY <1>1, <1>5, FS_AddElement
<1>7. \A side \in Sides, price \in Prices :
         Q(side, price) \in Seq(OrderIds) /\ IsInjective(Q(side, price))
      BY <1>1, AtType, BookParts DEF Agree
<1>8. ASSUME NEW side \in Sides, NEW price \in Prices
      PROVE  /\ IsInjective(R(side, price))
             /\ \A x : Contains(R(side, price), x) <=> Contains(Q(side, price), x) \/ x = id
             /\ Last(R(side, price)) = id
             /\ \A a, c : Before(R(side, price), c, a) => Before(Q(side, price), c, a) \/ a = id
      BY <1>2, <1>7, QueueWith
<1>9. \A side \in Sides, price \in Prices, x \in OrderIds :
         Contains(Q(side, price), x) <=> Indexed(b, x, side, price)
      BY <1>1 DEF Agree
<1>10. \A side \in Sides, price \in Prices, x \in OrderIds :
          Indexed(b2, x, side, price) <=>
             Indexed(b, x, side, price) \/ (x = id /\ side = o.side /\ price = o.price)
      BY <1>5 DEF Indexed
<1> HIDE DEF R, Q
<1>11. ASSUME NEW side \in Sides, NEW price \in Prices
       PROVE  /\ IsInjective(At(b2[side], price))
              /\ \A x \in OrderIds : Contains(At(b2[side], price), x) <=> Indexed(b2, x, side, price)
              /\ \A a, c : Before(At(b2[side], price), c, a) =>
                              Before(Q(side, price), c, a) \/ a = Last(At(b2[side], price))
      <2>1. CASE side = o.side /\ price = o.price
            <3>1. At(b2[side], price) = R(side, price)
                  BY <1>2, <2>1
            <3>2. IsInjective(At(b2[side], price))
                  BY <1>8, <3>1
            <3>3. \A x : Contains(At(b2[side], price), x) <=> Contains(Q(side, price), x) \/ x = id
                  BY <1>8, <3>1
            <3>4. \A a, c : Before(At(b2[side], price), c, a) =>
                              Before(Q(side, price), c, a) \/ a = Last(At(b2[side], price))
                  BY <1>8, <3>1
            <3> QED
                BY <1>9, <1>10, <2>1, <3>2, <3>3, <3>4
      <2>2. CASE ~(side = o.side /\ price = o.price)
            <3>1. At(b2[side], price) = Q(side, price)
                  BY <1>2, <2>2
            <3> QED
                BY <1>7, <1>9, <1>10, <2>2, <3>1
      <2> QED
          BY <2>1, <2>2
<1>12. Agree(b2)
      BY <1>11 DEF Agree
<1>13. \A side \in Sides, price \in Prices, a, c \in OrderIds :
          Before(At(b2[side], price), c, a) =>
             Before(At(b[side], price), c, a) \/ a = Last(At(b2[side], price))
      BY <1>11 DEF Q
<1> QED
    BY <1>2, <1>5, <1>6, <1>12, <1>13 DEF GoodBook, b2

\* A partial fill changes what remains of one order.
LEMMA ReducedGood ==
    ASSUME NEW b, GoodBook(b), NEW id \in DOMAIN b.orders, NEW rest \in Nat
    PROVE  LET b2 == [b EXCEPT !.orders[id].remaining = rest]
           IN  /\ GoodBook(b2)
               /\ DOMAIN b2.orders = DOMAIN b.orders
               /\ b2.orders[id] = [b.orders[id] EXCEPT !.remaining = rest]
               /\ \A x \in DOMAIN b.orders \ {id} : b2.orders[x] = b.orders[x]
               /\ \A side \in Sides : b2[side] = b[side]
<1> DEFINE os == [b.orders EXCEPT ![id] = [@ EXCEPT !.remaining = rest]]
           b2 == [b EXCEPT !.orders[id].remaining = rest]
<1>1. b \in Books /\ Agree(b) /\ IsFiniteSet(DOMAIN b.orders)
      BY DEF GoodBook
<1>2. /\ b.orders \in OrderMaps /\ b.orders[id] \in OrderRecords
      /\ DOMAIN b.orders \subseteq OrderIds /\ b.orders \in [DOMAIN b.orders -> OrderRecords]
      BY <1>1, BookParts, OrderMap
<1>3. [b.orders[id] EXCEPT !.remaining = rest] \in OrderRecords
      BY <1>2 DEF OrderRecords
<1>4. /\ DOMAIN os = DOMAIN b.orders /\ os \in [DOMAIN os -> OrderRecords]
      /\ os[id] = [b.orders[id] EXCEPT !.remaining = rest]
      /\ \A x \in DOMAIN b.orders \ {id} : os[x] = b.orders[x]
      BY <1>2, <1>3
<1>5. os \in OrderMaps
      BY <1>2, <1>4, OrderMap
<1>6. b2 = [b EXCEPT !.orders = os]
      BY <1>1 DEF Books
<1> HIDE DEF os
<1>7. b2 \in Books /\ b2.orders = os /\ \A side \in Sides : b2[side] = b[side]
      BY <1>1, <1>5, <1>6 DEF Books, Sides
<1> HIDE DEF b2
<1>8. \A x, side, price : Indexed(b2, x, side, price) <=> Indexed(b, x, side, price)
      <2>1. b2.orders[id].side = b.orders[id].side /\ b2.orders[id].price = b.orders[id].price
            BY <1>2, <1>4, <1>7 DEF OrderRecords
      <2> QED
          BY <1>4, <1>7, <2>1 DEF Indexed
<1>9. Agree(b2)
      BY <1>1, <1>7, <1>8 DEF Agree
<1> QED
    BY <1>1, <1>4, <1>7, <1>9 DEF GoodBook, b2

-----------------------------------------------------------------------------
(* The best prices                                                         *)

LEMMA PricesAreInt == Prices \subseteq Int
<1>1. MinPrice \in Int /\ MaxPrice \in Int
      BY SMT DEF MinPrice, MaxPrice
<1>2. Prices \subseteq MinPrice..MaxPrice
      BY OrderbookAssumption
<1> QED
    BY <1>1, <1>2

\* A price p is at least as good as q on a side.
Reaches(side, p, q) == IF side = "Buy" THEN p >= q ELSE p <= q

\* begin() of a side that is not empty: Price is an int32.
LEMMA BestPrice ==
    ASSUME NEW b \in Books, NEW side \in Sides, DOMAIN b[side] # {}
    PROVE  /\ Best(b, side) \in DOMAIN b[side]
           /\ Best(b, side) \in Prices
           /\ \A q \in DOMAIN b[side] : Reaches(side, Best(b, side), q)
<1> DEFINE D == DOMAIN b[side]
           low == MinPrice
           high == MaxPrice
<1>1. b[side] \in LevelMaps
      BY BookParts
<1>2. D \subseteq Prices
      BY <1>1, LevelMap
<1>3. Prices \subseteq low..high
      BY OrderbookAssumption
<1>4. D \subseteq low..high
      BY <1>2, <1>3
<1>5. low \in Int /\ high \in Int
      BY SMT DEF MinPrice, MaxPrice
<1> HIDE DEF D, low, high
<1>6. D # {}
      BY DEF D
<1>7. \E p \in D : \A q \in D : p >= q
      <2> DEFINE S == {high - p : p \in D}
      <2>1. S \in SUBSET Nat /\ S # {}
            <3>1. \A p \in low..high : high - p \in Nat
                  BY <1>5
            <3>2. \A p \in D : high - p \in Nat
                  BY <1>4, <3>1
            <3> QED
                BY <1>6, <3>2
      <2>2. PICK n \in S : \A m \in S : n <= m
            <3> HIDE DEF S
            <3> QED
                BY <2>1, LeastElement
      <2>3. PICK p \in D : n = high - p
            OBVIOUS
      <2>4. ASSUME NEW q \in D PROVE p >= q
            <3>1. high - p <= high - q
                  BY <2>2, <2>3
            <3>2. p \in Int /\ q \in Int
                  BY <1>4, <1>5
            <3> QED
                BY <1>5, <3>1, <3>2
      <2> QED
          BY <2>4
<1>8. \E p \in D : \A q \in D : p <= q
      <2> DEFINE S == {p - low : p \in D}
      <2>1. S \in SUBSET Nat /\ S # {}
            <3>1. \A p \in low..high : p - low \in Nat
                  BY <1>5
            <3>2. \A p \in D : p - low \in Nat
                  BY <1>4, <3>1
            <3> QED
                BY <1>6, <3>2
      <2>2. PICK n \in S : \A m \in S : n <= m
            <3> HIDE DEF S
            <3> QED
                BY <2>1, LeastElement
      <2>3. PICK p \in D : n = p - low
            OBVIOUS
      <2>4. ASSUME NEW q \in D PROVE p <= q
            <3>1. p - low <= q - low
                  BY <2>2, <2>3
            <3>2. p \in Int /\ q \in Int
                  BY <1>4, <1>5
            <3> QED
                BY <1>5, <3>1, <3>2
      <2> QED
          BY <2>4
<1>9. \E p \in D : \A q \in D : IF side = "Buy" THEN p >= q ELSE p <= q
      BY <1>7, <1>8
<1>10. /\ Best(b, side) \in D
       /\ \A q \in D : IF side = "Buy" THEN Best(b, side) >= q ELSE Best(b, side) <= q
      BY <1>9 DEF Best, D
<1> QED
    BY <1>2, <1>10 DEF Reaches, D

\* Every order has its price among the levels of its side.
LEMMA LevelOfOrder ==
    ASSUME NEW b, GoodBook(b), NEW id \in DOMAIN b.orders
    PROVE  /\ b.orders[id].side \in Sides
           /\ b.orders[id].price \in DOMAIN b[b.orders[id].side]
           /\ b.orders[id].price \in Prices
<1> DEFINE o == b.orders[id]
<1>1. b \in Books /\ Agree(b)
      BY DEF GoodBook
<1>2. o \in OrderRecords /\ id \in OrderIds
      BY <1>1, BookParts
<1>3. o.side \in Sides /\ o.price \in Prices
      BY <1>2 DEF OrderRecords
<1>4. Contains(At(b[o.side], o.price), id)
      BY <1>1, <1>2, <1>3 DEF Agree, Indexed
<1>5. o.price \in DOMAIN b[o.side]
      BY <1>4 DEF Contains, At
<1> QED
    BY <1>3, <1>5

\* front() of the best level is an order of the index, at the best price.
LEMMA First ==
    ASSUME NEW b, GoodBook(b), NEW side \in Sides, DOMAIN b[side] # {}
    PROVE  LET id == FirstOrder(b, side)
           IN  /\ id \in DOMAIN b.orders
               /\ b.orders[id].side = side
               /\ b.orders[id].price = Best(b, side)
               /\ Head(b[side][Best(b, side)]) = id
<1> DEFINE best == Best(b, side)
           q == b[side][best]
           id == FirstOrder(b, side)
<1>1. b \in Books /\ Agree(b)
      BY DEF GoodBook
<1>2. best \in DOMAIN b[side] /\ best \in Prices
      BY <1>1, BestPrice
<1>3. b[side] \in LevelMaps
      BY <1>1, BookParts
<1>4. q \in Seq(OrderIds) /\ q # <<>> /\ q = At(b[side], best)
      BY <1>2, <1>3, AtType DEF At
<1>5. id = Head(q)
      BY DEF FirstOrder
<1> HIDE DEF q, best, id
<1>6. 1 \in 1..Len(q) /\ q[1] = Head(q) /\ Head(q) \in OrderIds
      BY <1>4
<1>7. Contains(q, id) /\ id \in OrderIds
      BY <1>5, <1>6 DEF Contains
<1>8. Indexed(b, id, side, best)
      BY <1>1, <1>2, <1>4, <1>7 DEF Agree
<1> QED
    BY <1>5, <1>8 DEF Indexed, q, best, id

-----------------------------------------------------------------------------
(* What the invariant says of the prices and types                         *)

\* No bid reaches an ask.
Uncrossed(b) ==
    \A i, j \in DOMAIN b.orders :
       b.orders[i].side = "Buy" /\ b.orders[j].side = "Sell" =>
          b.orders[i].price < b.orders[j].price

AllGoodTillCancel(b) == \A id \in DOMAIN b.orders : b.orders[id].type = "GoodTillCancel"

\* The book between two calls.
AtRest(b) == Uncrossed(b) /\ AllGoodTillCancel(b)

\* A FillAndKill order has a better price than all others of its side.
Lone(b) ==
    \A id, other \in DOMAIN b.orders :
       /\ b.orders[id].type = "FillAndKill"
       /\ other # id
       /\ b.orders[other].side = b.orders[id].side
       => ~Reaches(b.orders[id].side, b.orders[other].price, b.orders[id].price)

\* Orders only leave or lose quantity.
Less(b, b2) ==
    /\ DOMAIN b2.orders \subseteq DOMAIN b.orders
    /\ \A id \in DOMAIN b2.orders :
          /\ b2.orders[id].type = b.orders[id].type
          /\ b2.orders[id].side = b.orders[id].side
          /\ b2.orders[id].price = b.orders[id].price

LEMMA LessKeeps ==
    ASSUME NEW b, NEW b2, Less(b, b2)
    PROVE  /\ Lone(b) => Lone(b2)
           /\ Uncrossed(b) => Uncrossed(b2)
           /\ AllGoodTillCancel(b) => AllGoodTillCancel(b2)
<1>1. Lone(b) => Lone(b2)
      BY DEF Less, Lone
<1>2. Uncrossed(b) => Uncrossed(b2)
      BY DEF Less, Uncrossed
<1>3. AllGoodTillCancel(b) => AllGoodTillCancel(b2)
      BY DEF Less, AllGoodTillCancel
<1> QED
    BY <1>1, <1>2, <1>3

LEMMA LessTransitive ==
    ASSUME NEW b, NEW b2, NEW b3, Less(b, b2), Less(b2, b3)
    PROVE  Less(b, b3)
BY DEF Less

LEMMA InOrderTransitive ==
    ASSUME NEW b, NEW b2, NEW b3, InOrder(b, b2), InOrder(b2, b3)
    PROVE  InOrder(b, b3)
BY DEF InOrder

LEMMA CancelledLess ==
    ASSUME NEW b, GoodBook(b), NEW id \in DOMAIN b.orders
    PROVE  Less(b, Cancelled(b, id))
<1> DEFINE b2 == Cancelled(b, id)
<1>1. /\ DOMAIN b2.orders = DOMAIN b.orders \ {id}
      /\ \A x \in DOMAIN b.orders \ {id} : b2.orders[x] = b.orders[x]
      BY CancelledGood
<1> HIDE DEF b2
<1>2. Less(b, b2)
      BY <1>1 DEF Less
<1> QED
    BY <1>2 DEF b2

\* What Fill does to an order, and its removal if it is filled.
FillEffect(b, b2, id, quantity) ==
    /\ GoodBook(b2)
    /\ DOMAIN b2.orders = IF quantity = b.orders[id].remaining
                          THEN DOMAIN b.orders \ {id} ELSE DOMAIN b.orders
    /\ \A x \in DOMAIN b.orders \ {id} : b2.orders[x] = b.orders[x]
    /\ Remaining(b2, id) = b.orders[id].remaining - quantity
    /\ Less(b, b2)
    /\ InOrder(b, b2)

LEMMA FilledGood ==
    ASSUME NEW b, GoodBook(b), NEW id \in DOMAIN b.orders, NEW quantity \in Nat,
           quantity <= b.orders[id].remaining
    PROVE  FillEffect(b, Filled(b, id, quantity), id, quantity)
<1> DEFINE r == b.orders[id].remaining
           rest == r - quantity
           b2 == Filled(b, id, quantity)
<1>1. b \in Books
      BY DEF GoodBook
<1>2. b.orders[id] \in OrderRecords
      BY <1>1, BookParts
<1>3. r \in Nat
      BY <1>2 DEF OrderRecords
<1>4. CASE quantity = r
      <2>1. b2 = Cancelled(b, id)
            BY <1>3, <1>4 DEF Filled
      <2> HIDE DEF b2
      <2>2. /\ GoodBook(b2) /\ DOMAIN b2.orders = DOMAIN b.orders \ {id}
            /\ \A x \in DOMAIN b.orders \ {id} : b2.orders[x] = b.orders[x]
            /\ InOrder(b, b2)
            BY <2>1, CancelledGood
      <2>3. Less(b, b2)
            BY <2>1, CancelledLess
      <2>4. Remaining(b2, id) = r - quantity
            BY <1>3, <1>4, <2>2 DEF Remaining
      <2> QED
          BY <1>4, <2>2, <2>3, <2>4 DEF b2, FillEffect
<1>5. CASE quantity # r
      <2>1. rest \in Nat /\ rest # 0
            BY <1>3, <1>5
      <2>2. b2 = [b EXCEPT !.orders[id].remaining = rest]
            BY <2>1 DEF Filled
      <2> HIDE DEF b2, rest
      <2>3. /\ GoodBook(b2)
            /\ DOMAIN b2.orders = DOMAIN b.orders
            /\ b2.orders[id] = [b.orders[id] EXCEPT !.remaining = rest]
            /\ \A x \in DOMAIN b.orders \ {id} : b2.orders[x] = b.orders[x]
            /\ \A side \in Sides : b2[side] = b[side]
            BY <2>1, <2>2, ReducedGood
      <2>4. /\ b2.orders[id].remaining = rest
            /\ b2.orders[id].type = b.orders[id].type
            /\ b2.orders[id].side = b.orders[id].side
            /\ b2.orders[id].price = b.orders[id].price
            BY <1>2, <2>3 DEF OrderRecords
      <2>5. Less(b, b2)
            BY <2>3, <2>4 DEF Less
      <2>6. InOrder(b, b2)
            BY <2>3 DEF InOrder
      <2>7. Remaining(b2, id) = rest
            BY <2>3, <2>4 DEF Remaining
      <2> QED
          BY <1>5, <2>3, <2>5, <2>6, <2>7 DEF b2, rest, FillEffect
<1> QED
    BY <1>4, <1>5

\* What MatchOrders does at its end: it takes the FillAndKill order of a side
\* away, which is at the front of the best level.
LEMMA KilledGood ==
    ASSUME NEW b, GoodBook(b), Lone(b), NEW side \in Sides
    PROVE  LET b2 == Killed(b, side)
           IN  /\ GoodBook(b2)
               /\ Less(b, b2)
               /\ InOrder(b, b2)
               /\ \A id \in DOMAIN b2.orders :
                     b2.orders[id].side = side => b2.orders[id].type = "GoodTillCancel"
<1> DEFINE b2 == Killed(b, side)
           first == FirstOrder(b, side)
           kills == DOMAIN b[side] # {} /\ b.orders[first].type = "FillAndKill"
<1>1. b \in Books
      BY DEF GoodBook
<1>2. b2 = IF kills THEN Cancelled(b, first) ELSE b
      BY DEF Killed
<1> HIDE DEF b2
<1>3. ASSUME NEW id \in DOMAIN b.orders, b.orders[id].side = side,
             b.orders[id].type # "GoodTillCancel"
      PROVE  kills /\ id = first
      <2>1. b.orders[id].type = "FillAndKill"
            BY <1>1, <1>3, BookParts DEF OrderRecords, OrderTypes
      <2>2. b.orders[id].price \in DOMAIN b[side]
            BY <1>3, LevelOfOrder
      <2>3. first \in DOMAIN b.orders /\ b.orders[first].side = side
            /\ b.orders[first].price = Best(b, side)
            BY <2>2, First
      <2>4. Reaches(side, b.orders[first].price, b.orders[id].price)
            BY <1>1, <2>2, <2>3, BestPrice
      <2>5. id = first
            BY <1>3, <2>1, <2>3, <2>4 DEF Lone
      <2> QED
          BY <2>1, <2>2, <2>5
<1>4. CASE kills
      <2>1. b2 = Cancelled(b, first) /\ first \in DOMAIN b.orders
            BY <1>2, <1>4, First
      <2> HIDE DEF first
      <2>2. /\ GoodBook(b2) /\ InOrder(b, b2)
            /\ DOMAIN b2.orders = DOMAIN b.orders \ {first}
            /\ \A x \in DOMAIN b.orders \ {first} : b2.orders[x] = b.orders[x]
            BY <2>1, CancelledGood
      <2>3. Less(b, b2)
            BY <2>1, CancelledLess
      <2>4. \A id \in DOMAIN b2.orders :
               b2.orders[id].side = side => b2.orders[id].type = "GoodTillCancel"
            BY <1>3, <2>2
      <2> QED
          BY <2>2, <2>3, <2>4 DEF b2
<1>5. CASE ~kills
      <2>1. b2 = b
            BY <1>2, <1>5
      <2>2. Less(b, b2) /\ InOrder(b, b2)
            BY <2>1 DEF Less, InOrder
      <2> QED
          BY <1>3, <1>5, <2>1, <2>2 DEF b2
<1> QED
    BY <1>4, <1>5

-----------------------------------------------------------------------------
(* The invariant                                                           *)

\* The room for trades is counted against the orders: every trade takes at
\* least one of them out.
BookInv ==
    /\ GoodBook(book)
    /\ pc \in {"idle", "match"}
    /\ pc = "idle" => AtRest(book)
    /\ pc = "match" =>
          /\ Lone(book)
          /\ room \in Nat
          /\ Cardinality(DOMAIN book.orders) <= room

\* An order that is let in crosses the book at rest if it is a FillAndKill
\* order, and is then better than all of its side.
LEMMA InsertedLone ==
    ASSUME NEW b, GoodBook(b), AtRest(b), NEW id \in OrderIds, NEW o \in OrderRecords,
           ~Refused(b, id, o)
    PROVE  Lone(Inserted(b, id, o))
<1> DEFINE b2 == Inserted(b, id, o)
           best == Best(b, Other(o.side))
           first == FirstOrder(b, Other(o.side))
<1>1. b \in Books
      BY DEF GoodBook
<1>2. id \notin DOMAIN b.orders
      BY DEF Refused
<1>3. /\ DOMAIN b2.orders = DOMAIN b.orders \cup {id} /\ b2.orders[id] = o
      /\ \A x \in DOMAIN b.orders : b2.orders[x] = b.orders[x]
      BY <1>2, InsertedGood
<1> HIDE DEF b2
<1>4. o.side \in Sides /\ Other(o.side) \in Sides /\ o.price \in Prices
      BY DEF OrderRecords, Other, Sides
<1>5. \A x \in Prices : x \in Int
      BY PricesAreInt
<1>6. ASSUME o.type = "FillAndKill", NEW x \in DOMAIN b.orders, b.orders[x].side = o.side
      PROVE  ~Reaches(o.side, b.orders[x].price, o.price)
      <2>1. CanMatch(b, o.side, o.price)
            BY <1>6 DEF Refused
      <2>2. /\ DOMAIN b[Other(o.side)] # {}
            /\ IF o.side = "Buy" THEN o.price >= best ELSE o.price <= best
            BY <2>1 DEF CanMatch, Crosses
      <2>3. /\ first \in DOMAIN b.orders /\ b.orders[first].side = Other(o.side)
            /\ b.orders[first].price = best
            BY <1>4, <2>2, First
      <2> HIDE DEF first, best
      <2>4. best \in Prices /\ b.orders[x].price \in Prices
            BY <1>6, <2>3, LevelOfOrder
      <2>5. best \in Int /\ b.orders[x].price \in Int /\ o.price \in Int
            BY <1>4, <1>5, <2>4
      <2>6. CASE o.side = "Buy"
            <3>1. b.orders[x].price < best
                  BY <1>6, <2>3, <2>6 DEF AtRest, Uncrossed, Other
            <3>2. o.price >= best
                  BY <2>2, <2>6
            <3>3. ~(b.orders[x].price >= o.price)
                  BY <2>5, <3>1, <3>2
            <3> QED
                BY <2>6, <3>3 DEF Reaches
      <2>7. CASE o.side = "Sell"
            <3>1. best < b.orders[x].price
                  BY <1>6, <2>3, <2>7 DEF AtRest, Uncrossed, Other
            <3>2. o.price <= best
                  BY <2>2, <2>7
            <3>3. ~(b.orders[x].price <= o.price)
                  BY <2>5, <3>1, <3>2
            <3> QED
                BY <2>7, <3>3 DEF Reaches
      <2> QED
          BY <1>4, <2>6, <2>7 DEF Sides
<1>7. \A x \in DOMAIN b.orders : b.orders[x].type # "FillAndKill"
      BY DEF AtRest, AllGoodTillCancel
<1>8. Lone(b2)
      <2> SUFFICES ASSUME NEW i \in DOMAIN b2.orders, NEW x \in DOMAIN b2.orders,
                          b2.orders[i].type = "FillAndKill", x # i,
                          b2.orders[x].side = b2.orders[i].side
                   PROVE  ~Reaches(b2.orders[i].side, b2.orders[x].price, b2.orders[i].price)
          BY DEF Lone
      <2>1. i = id
            BY <1>3, <1>7
      <2>2. x \in DOMAIN b.orders /\ b2.orders[x] = b.orders[x] /\ b2.orders[i] = o
            BY <1>3, <2>1
      <2> QED
          BY <1>6, <2>2
<1> QED
    BY <1>8 DEF b2

\* What a step may do to the queues: only a call that adds an order changes
\* the places, by putting it last.
OnlyLast(b, b2) ==
    \A side \in Sides, price \in Prices, a, c \in OrderIds :
       Before(At(b2[side], price), c, a) =>
          \/ Before(At(b[side], price), c, a)
          \/ a = Last(At(b2[side], price))

LEMMA AddKeeps ==
    ASSUME NEW b, GoodBook(b), AtRest(b), NEW id \in OrderIds, NEW o \in OrderRecords,
           Add(b, id, o)
    PROVE  BookInv' /\ OnlyLast(b, book')
<1>1. CASE Refused(b, id, o)
      <2>1. book' = b /\ pc' = "idle"
            BY <1>1 DEF Add
      <2>2. OnlyLast(b, book')
            BY <2>1 DEF OnlyLast
      <2> QED
          BY <2>1, <2>2 DEF BookInv
<1>2. CASE ~Refused(b, id, o)
      <2>1. book' = Inserted(b, id, o) /\ pc' = "match" /\ room' = Size(book')
            BY <1>2 DEF Add
      <2>2. id \notin DOMAIN b.orders
            BY <1>2 DEF Refused
      <2>3. GoodBook(book') /\ OnlyLast(b, book')
            BY <2>1, <2>2, InsertedGood DEF OnlyLast
      <2>4. Lone(book')
            BY <1>2, <2>1, InsertedLone
      <2>5. room' \in Nat /\ Cardinality(DOMAIN book'.orders) <= room'
            <3>1. IsFiniteSet(DOMAIN book'.orders)
                  BY <2>3 DEF GoodBook
            <3>2. Cardinality(DOMAIN book'.orders) \in Nat
                  BY <3>1, FS_CardinalityType
            <3> QED
                BY <2>1, <3>2 DEF Size
      <2> QED
          BY <2>1, <2>3, <2>4, <2>5 DEF BookInv
<1> QED
    BY <1>1, <1>2

LEMMA QuantitiesAreNat == Quantities \subseteq Nat
BY OrderbookAssumption

LEMMA CallKeeps ==
    ASSUME BookInv, Call
    PROVE  BookInv' /\ OnlyLast(book, book') /\ pc = "idle"
<1>1. PICK id \in OrderIds :
         \/ CancelOrder(id)
         \/ \E side \in Sides, price \in Prices, quantity \in Quantities :
               \/ ModifyOrder(id, side, price, quantity)
               \/ \E type \in OrderTypes : AddOrder(id, Order(type, side, price, quantity))
      BY DEF Call
<1>2. GoodBook(book)
      BY DEF BookInv
<1>3. ASSUME NEW type \in OrderTypes, NEW side \in Sides, NEW price \in Prices,
             NEW quantity \in Quantities
      PROVE  Order(type, side, price, quantity) \in OrderRecords
      BY QuantitiesAreNat DEF Order, OrderRecords
<1>4. ASSUME pc = "idle", id \in DOMAIN book.orders
      PROVE  /\ GoodBook(Cancelled(book, id)) /\ AtRest(Cancelled(book, id))
             /\ InOrder(book, Cancelled(book, id))
      <2>1. AtRest(book)
            BY <1>4 DEF BookInv
      <2>2. Less(book, Cancelled(book, id))
            BY <1>2, <1>4, CancelledLess
      <2>3. AtRest(Cancelled(book, id))
            BY <2>1, <2>2, LessKeeps DEF AtRest
      <2> QED
          BY <1>2, <1>4, <2>3, CancelledGood
<1>5. CASE CancelOrder(id)
      <2>1. pc = "idle" /\ pc' = pc /\ book' = Cancelled(book, id)
            BY <1>5 DEF CancelOrder
      <2>2. CASE id \in DOMAIN book.orders
            <3>1. GoodBook(book') /\ AtRest(book') /\ InOrder(book, book')
                  BY <1>4, <2>1, <2>2
            <3>2. OnlyLast(book, book')
                  BY <3>1 DEF OnlyLast, InOrder
            <3> QED
                BY <2>1, <3>1, <3>2 DEF BookInv
      <2>3. CASE id \notin DOMAIN book.orders
            <3>1. book' = book
                  BY <2>1, <2>3 DEF Cancelled
            <3>2. OnlyLast(book, book')
                  BY <3>1 DEF OnlyLast
            <3> QED
                BY <2>1, <3>1, <3>2 DEF BookInv
      <2> QED
          BY <2>2, <2>3
<1>6. ASSUME NEW side \in Sides, NEW price \in Prices, NEW quantity \in Quantities,
             ModifyOrder(id, side, price, quantity)
      PROVE  BookInv' /\ OnlyLast(book, book') /\ pc = "idle"
      <2> DEFINE b == Cancelled(book, id)
                 o == Order(book.orders[id].type, side, price, quantity)
      <2>1. pc = "idle" /\ id \in DOMAIN book.orders /\ Add(b, id, o)
            BY <1>6 DEF ModifyOrder
      <2>2. GoodBook(b) /\ AtRest(b) /\ InOrder(book, b)
            BY <1>4, <2>1
      <2>3. o \in OrderRecords
            <3>1. book.orders[id].type \in OrderTypes
                  BY <1>2, <2>1, BookParts DEF GoodBook, OrderRecords
            <3> QED
                BY <1>3, <3>1
      <2> HIDE DEF b, o
      <2>4. BookInv' /\ OnlyLast(b, book')
            BY <2>1, <2>2, <2>3, AddKeeps
      <2>5. OnlyLast(book, book')
            BY <2>2, <2>4 DEF OnlyLast, InOrder
      <2> QED
          BY <2>1, <2>4, <2>5
<1>7. ASSUME NEW side \in Sides, NEW price \in Prices, NEW quantity \in Quantities,
             NEW type \in OrderTypes, AddOrder(id, Order(type, side, price, quantity))
      PROVE  BookInv' /\ OnlyLast(book, book') /\ pc = "idle"
      <2> DEFINE o == Order(type, side, price, quantity)
      <2>1. pc = "idle" /\ Add(book, id, o)
            BY <1>7 DEF AddOrder
      <2>2. o \in OrderRecords
            BY <1>3
      <2>3. AtRest(book)
            BY <2>1 DEF BookInv
      <2> HIDE DEF o
      <2> QED
          BY <1>2, <2>1, <2>2, <2>3, AddKeeps
<1> QED
    <2>1. CASE CancelOrder(id)
          BY <1>5, <2>1 DEF CancelOrder
    <2>2. CASE \E side \in Sides, price \in Prices, quantity \in Quantities :
                  \/ ModifyOrder(id, side, price, quantity)
                  \/ \E type \in OrderTypes : AddOrder(id, Order(type, side, price, quantity))
          BY <1>6, <1>7, <2>2
    <2> QED
        BY <1>1, <2>1, <2>2

-----------------------------------------------------------------------------
(* MatchOrders                                                             *)

\* One trade: Fill does not throw, and the trade has room.
LEMMA MatchKeeps ==
    ASSUME BookInv, Match
    PROVE  LET bid == FirstOrder(book, "Buy")
               ask == FirstOrder(book, "Sell")
               quantity == TradeQuantity(bid, ask)
           IN  /\ BookInv'
               /\ pc' = "match"
               /\ InOrder(book, book')
               /\ room > 0
               /\ trade' = Trade(bid, ask, quantity)
               /\ \A id \in DOMAIN book.orders :
                     Remaining(book, id) - Remaining(book', id) =
                        IF id \in {bid, ask} THEN quantity ELSE 0
<1> DEFINE bid == FirstOrder(book, "Buy")
           ask == FirstOrder(book, "Sell")
           quantity == TradeQuantity(bid, ask)
           rb == book.orders[bid].remaining
           ra == book.orders[ask].remaining
           b1 == Filled(book, bid, quantity)
           b2 == Filled(b1, ask, quantity)
           D == DOMAIN book.orders
<1>1. pc = "match" /\ Matching
      BY DEF Match
<1>2. /\ GoodBook(book) /\ Lone(book) /\ room \in Nat /\ Cardinality(D) <= room
      BY <1>1 DEF BookInv
<1>3. "Buy" \in Sides /\ "Sell" \in Sides /\ DOMAIN book["Buy"] # {} /\ DOMAIN book["Sell"] # {}
      BY <1>1 DEF Matching, Sides
<1>4. bid \in D /\ book.orders[bid].side = "Buy"
      BY <1>2, <1>3, First
<1>5. ask \in D /\ book.orders[ask].side = "Sell"
      BY <1>2, <1>3, First
<1>6. quantity = IF rb < ra THEN rb ELSE ra
      BY DEF TradeQuantity
<1>7. IF \E o \in {bid, ask} : quantity > book.orders[o].remaining
      THEN pc' = "thrown" /\ UNCHANGED <<book, trade, room>>
      ELSE /\ book' = b2
           /\ trade' = Trade(bid, ask, quantity)
           /\ room' = IF room > 0 THEN room - 1 ELSE room
           /\ UNCHANGED pc
      BY DEF Match
<1> HIDE DEF bid, ask, quantity
<1>8. bid # ask
      BY <1>4, <1>5
<1>9. rb \in Nat /\ ra \in Nat
      <2>1. book.orders[bid] \in OrderRecords /\ book.orders[ask] \in OrderRecords
            BY <1>2, <1>4, <1>5, BookParts DEF GoodBook
      <2> QED
          BY <2>1 DEF OrderRecords
<1>10. quantity \in Nat /\ quantity <= rb /\ quantity <= ra /\ (quantity = rb \/ quantity = ra)
      BY <1>6, <1>9
<1>11. /\ book' = b2 /\ trade' = Trade(bid, ask, quantity) /\ pc' = pc
       /\ room' = IF room > 0 THEN room - 1 ELSE room
      <2>1. ~(\E o \in {bid, ask} : quantity > book.orders[o].remaining)
            <3>1. ~(quantity > rb) /\ ~(quantity > ra)
                  BY <1>9, <1>10
            <3> QED
                BY <3>1
      <2> QED
          BY <1>7, <2>1
<1>12. /\ GoodBook(b1) /\ Less(book, b1) /\ InOrder(book, b1)
       /\ DOMAIN b1.orders = IF quantity = rb THEN D \ {bid} ELSE D
       /\ \A x \in D \ {bid} : b1.orders[x] = book.orders[x]
       /\ Remaining(b1, bid) = rb - quantity
      <2>1. FillEffect(book, b1, bid, quantity)
            BY <1>2, <1>4, <1>10, FilledGood
      <2> QED
          BY <2>1 DEF FillEffect
<1> HIDE DEF b1
<1>13. ask \in DOMAIN b1.orders /\ b1.orders[ask].remaining = ra
      BY <1>5, <1>8, <1>12
<1>14. /\ GoodBook(b2) /\ Less(b1, b2) /\ InOrder(b1, b2)
       /\ DOMAIN b2.orders = IF quantity = ra THEN DOMAIN b1.orders \ {ask} ELSE DOMAIN b1.orders
       /\ \A x \in DOMAIN b1.orders \ {ask} : b2.orders[x] = b1.orders[x]
       /\ Remaining(b2, ask) = ra - quantity
      <2>1. quantity <= b1.orders[ask].remaining
            BY <1>10, <1>13
      <2>2. FillEffect(b1, b2, ask, quantity)
            BY <1>10, <1>12, <1>13, <2>1, FilledGood
      <2> HIDE DEF b2
      <2> QED
          BY <1>13, <2>2 DEF FillEffect
<1> HIDE DEF b2
<1>15. Less(book, b2) /\ InOrder(book, b2)
      BY <1>12, <1>14, LessTransitive, InOrderTransitive
<1>16. Lone(b2)
      BY <1>2, <1>15, LessKeeps
<1>17. /\ IsFiniteSet(D) /\ Cardinality(D) \in Nat /\ Cardinality(D) >= 1
       /\ IsFiniteSet(DOMAIN b2.orders) /\ Cardinality(DOMAIN b2.orders) \in Nat
       /\ Cardinality(DOMAIN b2.orders) <= Cardinality(D) - 1
      <2>1. IsFiniteSet(D) /\ IsFiniteSet(DOMAIN b2.orders)
            BY <1>2, <1>14 DEF GoodBook
      <2>2. Cardinality(D) \in Nat /\ Cardinality(DOMAIN b2.orders) \in Nat
            BY <2>1, FS_CardinalityType
      <2>3. PICK x \in D : DOMAIN b2.orders \subseteq D \ {x}
            BY <1>4, <1>5, <1>10, <1>12, <1>14
      <2>4. IsFiniteSet(D \ {x}) /\ Cardinality(D \ {x}) = Cardinality(D) - 1
            BY <2>1, <2>3, FS_RemoveElement
      <2>5. Cardinality(DOMAIN b2.orders) <= Cardinality(D \ {x})
            BY <2>3, <2>4, FS_Subset
      <2> QED
          BY <2>1, <2>2, <2>4, <2>5
<1>18. room > 0 /\ room' \in Nat /\ Cardinality(DOMAIN b2.orders) <= room'
      <2> DEFINE c == Cardinality(D)
                 c2 == Cardinality(DOMAIN b2.orders)
      <2>1. c \in Nat /\ c >= 1 /\ c2 \in Nat /\ c2 <= c - 1 /\ c <= room /\ room \in Nat
            BY <1>2, <1>17
      <2> HIDE DEF c, c2
      <2>2. room' = IF room > 0 THEN room - 1 ELSE room
            BY <1>11
      <2>3. room > 0 /\ room' \in Nat /\ c2 <= room'
            BY <2>1, <2>2
      <2> QED
          BY <2>3 DEF c2
<1>19. BookInv'
      BY <1>1, <1>11, <1>14, <1>16, <1>18 DEF BookInv
<1>20. ASSUME NEW id \in D
       PROVE  Remaining(book, id) - Remaining(b2, id) =
                 IF id \in {bid, ask} THEN quantity ELSE 0
      <2>1. Remaining(book, id) = book.orders[id].remaining /\ book.orders[id].remaining \in Nat
            BY <1>2, BookParts DEF Remaining, GoodBook, OrderRecords
      <2>2. CASE id = bid
            <3>1. Remaining(b2, bid) = Remaining(b1, bid)
                  BY <1>8, <1>12, <1>14 DEF Remaining
            <3> QED
                BY <1>9, <1>10, <1>12, <2>1, <2>2, <3>1
      <2>3. CASE id = ask
            BY <1>9, <1>10, <1>14, <2>1, <2>3
      <2>4. CASE id # bid /\ id # ask
            <3>1. id \in DOMAIN b2.orders /\ b2.orders[id] = book.orders[id]
                  BY <1>12, <1>14, <2>4
            <3>2. Remaining(b2, id) = Remaining(book, id)
                  BY <3>1 DEF Remaining
            <3> QED
                BY <2>1, <2>4, <3>2
      <2> QED
          BY <2>2, <2>3, <2>4
<1> QED
    BY <1>1, <1>11, <1>15, <1>18, <1>19, <1>20 DEF bid, ask, quantity

\* What follows the loops leaves a book at rest.
LEMMA MatchEndKeeps ==
    ASSUME BookInv, MatchEnd
    PROVE  BookInv' /\ pc' = "idle" /\ InOrder(book, book')
<1> DEFINE b1 == Killed(book, "Buy")
           b2 == Killed(b1, "Sell")
<1>1. pc = "match" /\ ~Matching /\ book' = b2 /\ pc' = "idle"
      BY DEF MatchEnd
<1>2. GoodBook(book) /\ Lone(book)
      BY <1>1 DEF BookInv
<1>3. "Buy" \in Sides /\ "Sell" \in Sides
      BY DEF Sides
<1>4. /\ GoodBook(b1) /\ Less(book, b1) /\ InOrder(book, b1)
      /\ \A id \in DOMAIN b1.orders :
            b1.orders[id].side = "Buy" => b1.orders[id].type = "GoodTillCancel"
      BY <1>2, <1>3, KilledGood
<1>5. Lone(b1)
      BY <1>2, <1>4, LessKeeps
<1> HIDE DEF b1
<1>6. /\ GoodBook(b2) /\ Less(b1, b2) /\ InOrder(b1, b2)
      /\ \A id \in DOMAIN b2.orders :
            b2.orders[id].side = "Sell" => b2.orders[id].type = "GoodTillCancel"
      BY <1>3, <1>4, <1>5, KilledGood
<1> HIDE DEF b2
<1>7. AllGoodTillCancel(b2)
      <2>1. \A id \in DOMAIN b2.orders :
               b2.orders[id].side = "Buy" => b2.orders[id].type = "GoodTillCancel"
            BY <1>4, <1>6 DEF Less
      <2>2. \A id \in DOMAIN b2.orders : b2.orders[id].side \in Sides
            BY <1>6, LevelOfOrder
      <2> QED
          BY <1>6, <2>1, <2>2 DEF AllGoodTillCancel, Sides
<1>8. Uncrossed(book)
      <2> SUFFICES ASSUME NEW i \in DOMAIN book.orders, NEW j \in DOMAIN book.orders,
                          book.orders[i].side = "Buy", book.orders[j].side = "Sell"
                   PROVE  book.orders[i].price < book.orders[j].price
          BY DEF Uncrossed
      <2> DEFINE p == book.orders[i].price
                 q == book.orders[j].price
                 x == Best(book, "Buy")
                 y == Best(book, "Sell")
      <2>1. p \in DOMAIN book["Buy"] /\ p \in Prices
            BY <1>2, LevelOfOrder
      <2>2. q \in DOMAIN book["Sell"] /\ q \in Prices
            BY <1>2, LevelOfOrder
      <2>3. x \in Prices /\ x >= p
            BY <1>2, <1>3, <2>1, BestPrice DEF GoodBook, Reaches
      <2>4. y \in Prices /\ y <= q
            BY <1>2, <1>3, <2>2, BestPrice DEF GoodBook, Reaches
      <2>5. ~(x >= y)
            BY <1>1, <2>1, <2>2 DEF Matching
      <2> HIDE DEF p, q, x, y
      <2>6. p \in Int /\ q \in Int /\ x \in Int /\ y \in Int
            BY <2>1, <2>2, <2>3, <2>4, PricesAreInt
      <2>7. p < q
            BY <2>3, <2>4, <2>5, <2>6
      <2> QED
          BY <2>7 DEF p, q
<1>9. Less(book, b2) /\ InOrder(book, b2)
      BY <1>4, <1>6, LessTransitive, InOrderTransitive
<1>10. AtRest(b2)
      BY <1>7, <1>8, <1>9, LessKeeps DEF AtRest
<1> QED
    BY <1>1, <1>6, <1>9, <1>10 DEF BookInv

LEMMA BookStep ==
    ASSUME BookInv, [Next]_vars
    PROVE  BookInv'
<1>1. CASE Call
      BY <1>1, CallKeeps
<1>2. CASE Match
      BY <1>2, MatchKeeps
<1>3. CASE MatchEnd
      BY <1>3, MatchEndKeeps
<1>4. CASE UNCHANGED vars
      BY <1>4 DEF BookInv, vars
<1> QED
    BY <1>1, <1>2, <1>3, <1>4 DEF Next, MatchOrders

LEMMA BookInitially == Init => BookInv
<1> SUFFICES ASSUME Init PROVE BookInv
    OBVIOUS
<1>1. book = [Buy |-> EmptyMap, Sell |-> EmptyMap, orders |-> EmptyMap] /\ pc = "idle"
      BY DEF Init
<1>2. DOMAIN EmptyMap = {} /\ EmptyMap \in [{} -> Seq(OrderIds) \ {<<>>}]
      /\ EmptyMap \in [{} -> OrderRecords]
      BY DEF EmptyMap
<1>3. EmptyMap \in LevelMaps
      BY <1>2, LevelMap
<1>4. EmptyMap \in OrderMaps
      BY <1>2, OrderMap
<1> HIDE DEF EmptyMap
<1>5. book \in Books
      BY <1>1, <1>3, <1>4 DEF Books
<1>6. DOMAIN book.orders = {} /\ \A side \in Sides : book[side] = EmptyMap
      BY <1>1, <1>2 DEF Sides
<1>7. \A side \in Sides, price \in Prices : At(book[side], price) = <<>>
      BY <1>2, <1>6 DEF At
<1>8. IsInjective(<<>>) /\ \A id : ~Contains(<<>>, id)
      BY DEF IsInjective, Contains
<1>9. Agree(book)
      BY <1>6, <1>7, <1>8 DEF Agree, Indexed
<1>10. IsFiniteSet(DOMAIN book.orders)
      BY <1>6, FS_EmptySet
<1>11. AtRest(book)
      BY <1>6 DEF AtRest, Uncrossed, AllGoodTillCancel
<1> QED
    BY <1>1, <1>5, <1>9, <1>10, <1>11 DEF BookInv, GoodBook

\* The invariant, of every behaviour.
THEOREM BookInvariant == Spec => []BookInv
<1>1. BookInv /\ [Next]_vars => BookInv'
      BY BookStep
<1> QED
    BY BookInitially, <1>1, PTL DEF Spec

-----------------------------------------------------------------------------
(* The properties                                                          *)

\* The index and the levels agree in every state of every book: AddOrder,
\* CancelOrder, MatchOrder and MatchOrders keep both.
THEOREM BookIndexAgrees == Spec => []IndexAgrees
<1>1. BookInv => IndexAgrees
      <2> SUFFICES ASSUME BookInv PROVE IndexAgrees
          OBVIOUS
      <2>1. book \in Books /\ Agree(book)
            BY DEF BookInv, GoodBook
      <2>2. \A side \in Sides : book[side] \in LevelMaps
            BY <2>1, BookParts
      <2>3. ASSUME NEW side \in Sides, NEW price \in DOMAIN book[side]
            PROVE  book[side][price] # <<>> /\ IsInjective(book[side][price])
            <3>1. price \in Prices
                  BY <2>2, LevelMap
            <3>2. At(book[side], price) # <<>> /\ At(book[side], price) = book[side][price]
                  BY <2>2, AtType DEF At
            <3> QED
                BY <2>1, <3>1, <3>2 DEF Agree
      <2>4. ASSUME NEW id \in OrderIds, NEW side \in Sides, NEW price \in Prices
            PROVE  Queued(id, side, price) <=> Indexed(book, id, side, price)
            <3>1. Queued(id, side, price) <=> Contains(At(book[side], price), id)
                  BY DEF Queued, At, Contains
            <3> QED
                BY <2>1, <3>1 DEF Agree
      <2> QED
          BY <2>3, <2>4 DEF IndexAgrees, Indexed
<1> QED
    BY <1>1, BookInvariant, PTL

\* Between two calls no bid reaches an ask and no FillAndKill order rests in
\* the book; and Fill never throws within one.
THEOREM BookRests == Spec => [](/\ pc # "thrown"
                                /\ pc = "idle" => Uncrossed(book) /\ AllGoodTillCancel(book))
<1>1. BookInv => /\ pc # "thrown"
                 /\ pc = "idle" => Uncrossed(book) /\ AllGoodTillCancel(book)
      BY DEF BookInv, AtRest
<1> QED
    BY <1>1, BookInvariant, PTL

\* Which step trades: no other goes from "match" to "match".
LEMMA OnlyMatchTrades ==
    ASSUME BookInv, Next, pc = "match", pc' = "match"
    PROVE  Match
<1>1. ~Call
      BY CallKeeps
<1>2. ~MatchEnd
      BY MatchEndKeeps
<1> QED
    BY <1>1, <1>2 DEF Next, MatchOrders

\* Orders lose what the trades report, for any number of orders; the space
\* MatchOrders reserves is enough.
THEOREM FillsAreTraded == Spec => TradesAreFills
<1> DEFINE A == pc = "match" /\ pc' = "match" =>
                   /\ room > 0
                   /\ \A id \in DOMAIN book.orders :
                         Remaining(book, id) - Remaining(book', id)
                            = IF id \in {trade'.bid, trade'.ask} THEN trade'.quantity ELSE 0
<1>1. ASSUME BookInv, [Next]_vars PROVE [A]_vars
      <2> SUFFICES ASSUME Next, pc = "match", pc' = "match"
                   PROVE  /\ room > 0
                          /\ \A id \in DOMAIN book.orders :
                                Remaining(book, id) - Remaining(book', id)
                                   = IF id \in {trade'.bid, trade'.ask} THEN trade'.quantity ELSE 0
          BY <1>1
      <2> DEFINE bid == FirstOrder(book, "Buy")
                 ask == FirstOrder(book, "Sell")
                 quantity == TradeQuantity(bid, ask)
      <2>1. Match
            BY <1>1, OnlyMatchTrades
      <2>2. /\ room > 0 /\ trade' = Trade(bid, ask, quantity)
            /\ \A id \in DOMAIN book.orders :
                  Remaining(book, id) - Remaining(book', id)
                     = IF id \in {bid, ask} THEN quantity ELSE 0
            BY <1>1, <2>1, MatchKeeps
      <2> HIDE DEF bid, ask, quantity
      <2>3. trade'.bid = bid /\ trade'.ask = ask /\ trade'.quantity = quantity
            BY <2>2 DEF Trade
      <2> QED
          BY <2>2, <2>3
<1> QED
    BY <1>1, BookInvariant, PTL DEF Spec, TradesAreFills

\* The first order of a side is the one to serve.
LEMMA FirstServed ==
    ASSUME GoodBook(book), NEW side \in Sides, DOMAIN book[side] # {}
    PROVE  Served(side, FirstOrder(book, side))
<1> DEFINE id == FirstOrder(book, side)
<1>1. /\ book.orders[id].side = side /\ book.orders[id].price = Best(book, side)
      /\ Head(book[side][Best(book, side)]) = id
      BY First
<1> HIDE DEF id
<1>2. ASSUME NEW other \in DOMAIN book.orders, book.orders[other].side = side
      PROVE  IF side = "Buy" THEN book.orders[other].price <= book.orders[id].price
             ELSE book.orders[other].price >= book.orders[id].price
      <2>1. book.orders[other].price \in DOMAIN book[side] /\ book.orders[other].price \in Prices
            BY <1>2, LevelOfOrder
      <2>2. /\ Best(book, side) \in Prices
            /\ Reaches(side, Best(book, side), book.orders[other].price)
            BY <2>1, BestPrice DEF GoodBook
      <2>3. Best(book, side) \in Int /\ book.orders[other].price \in Int
            BY <2>1, <2>2, PricesAreInt
      <2> QED
          BY <1>1, <2>2, <2>3 DEF Reaches
<1>3. Served(side, id)
      BY <1>1, <1>2 DEF Served
<1> QED
    BY <1>3 DEF id

\* Two orders of a queue are not before each other.
LEMMA OneOrder ==
    ASSUME NEW q \in Seq(OrderIds), IsInjective(q), NEW a, NEW c, Before(q, a, c)
    PROVE  ~Before(q, c, a)
<1>1. SUFFICES ASSUME Before(q, c, a) PROVE FALSE
      OBVIOUS
<1>2. PICK i, j \in DOMAIN q : i < j /\ q[i] = a /\ q[j] = c
      BY DEF Before
<1>3. PICK k, l \in DOMAIN q : k < l /\ q[k] = c /\ q[l] = a
      BY <1>1 DEF Before
<1>4. i = l /\ j = k
      BY <1>2, <1>3 DEF IsInjective
<1>5. DOMAIN q \subseteq Nat
      OBVIOUS
<1> QED
    BY <1>2, <1>3, <1>4, <1>5

\* Price-time priority, for any number of orders and levels: a trade is
\* between the first orders of the best levels, and no step lets an order
\* overtake another one of its level.
THEOREM PriorityKept == Spec => PriceTimePriority
<1> DEFINE T == pc = "match" /\ pc' = "match" =>
                   /\ Served("Buy", trade'.bid)
                   /\ Served("Sell", trade'.ask)
                   /\ trade'.bidPrice >= trade'.askPrice
           M == \A side \in Sides : \A price \in DOMAIN book[side] \cap DOMAIN book'[side] :
                   \A a, b \in OrderIds :
                      Before(book[side][price], a, b) /\ Before(book'[side][price], b, a)
                         => a = Last(book'[side][price]) /\ pc = "idle"
<1>1. ASSUME BookInv, Next PROVE T
      <2> SUFFICES ASSUME pc = "match", pc' = "match"
                   PROVE  /\ Served("Buy", trade'.bid)
                          /\ Served("Sell", trade'.ask)
                          /\ trade'.bidPrice >= trade'.askPrice
          OBVIOUS
      <2> DEFINE bid == FirstOrder(book, "Buy")
                 ask == FirstOrder(book, "Sell")
                 quantity == TradeQuantity(bid, ask)
      <2>1. Match
            BY <1>1, OnlyMatchTrades
      <2>2. trade' = Trade(bid, ask, quantity)
            BY <1>1, <2>1, MatchKeeps
      <2>3. /\ DOMAIN book["Buy"] # {} /\ DOMAIN book["Sell"] # {}
            /\ Best(book, "Buy") >= Best(book, "Sell")
            BY <2>1 DEF Match, Matching
      <2>4. GoodBook(book) /\ "Buy" \in Sides /\ "Sell" \in Sides
            BY <1>1 DEF BookInv, Sides
      <2>5. Served("Buy", bid) /\ book.orders[bid].price = Best(book, "Buy")
            BY <2>3, <2>4, FirstServed, First
      <2>6. Served("Sell", ask) /\ book.orders[ask].price = Best(book, "Sell")
            BY <2>3, <2>4, FirstServed, First
      <2> HIDE DEF bid, ask, quantity
      <2>7. /\ trade'.bid = bid /\ trade'.ask = ask
            /\ trade'.bidPrice = book.orders[bid].price
            /\ trade'.askPrice = book.orders[ask].price
            BY <2>2 DEF Trade
      <2> QED
          BY <2>3, <2>5, <2>6, <2>7
<1>2. ASSUME BookInv, Next PROVE M
      <2> SUFFICES ASSUME NEW side \in Sides,
                          NEW price \in DOMAIN book[side] \cap DOMAIN book'[side],
                          NEW a \in OrderIds, NEW c \in OrderIds,
                          Before(book[side][price], a, c), Before(book'[side][price], c, a)
                   PROVE  a = Last(book'[side][price]) /\ pc = "idle"
          OBVIOUS
      <2>1. book \in Books /\ Agree(book) /\ book[side] \in LevelMaps
            BY <1>2, BookParts DEF BookInv, GoodBook
      <2>2. price \in Prices
            BY <2>1, LevelMap
      <2>3. At(book[side], price) = book[side][price] /\ At(book'[side], price) = book'[side][price]
            BY DEF At
      <2>4. At(book[side], price) \in Seq(OrderIds) /\ IsInjective(At(book[side], price))
            BY <2>1, <2>2, AtType DEF Agree
      <2>5. ~Before(At(book[side], price), c, a)
            BY <2>3, <2>4, OneOrder
      <2>6. Before(At(book'[side], price), c, a)
            BY <2>3
      <2>7. ~InOrder(book, book')
            BY <2>2, <2>5, <2>6 DEF InOrder
      <2>8. Call
            BY <1>2, <2>7, MatchKeeps, MatchEndKeeps DEF Next, MatchOrders
      <2>9. OnlyLast(book, book') /\ pc = "idle"
            BY <1>2, <2>8, CallKeeps
      <2> QED
          BY <2>2, <2>3, <2>5, <2>6, <2>9 DEF OnlyLast
<1>3. BookInv /\ [Next]_vars => [T /\ M]_vars
      BY <1>1, <1>2
<1> QED
    BY <1>3, BookInvariant, PTL DEF Spec, PriceTimePriority

-----------------------------------------------------------------------------
(* What GetOrderInfos shows                                                *)

\* The orders of a side, what is left of them, and those of a level.
SideIds(b, side) == {id \in DOMAIN b.orders : b.orders[id].side = side}

Amounts(b, side) == [id \in SideIds(b, side) |-> b.orders[id].remaining]

LevelIds(b, side, price) == {id \in SideIds(b, side) : b.orders[id].price = price}

Modulus == 2 ^ QuantityBits

\* What a uint32 wraps around at.
LEMMA ModulusType == Modulus \in Nat \ {0}
BY OrderbookAssumption DEF Modulus

\* A side has finitely many orders, and a number for each.
LEMMA SideAmounts ==
    ASSUME NEW b, GoodBook(b), NEW side \in Sides
    PROVE  /\ IsFiniteSet(SideIds(b, side))
           /\ Amounts(b, side) \in [SideIds(b, side) -> Int]
           /\ \A id \in SideIds(b, side) : Amounts(b, side)[id] = b.orders[id].remaining
<1>1. b \in Books /\ IsFiniteSet(DOMAIN b.orders)
      BY DEF GoodBook
<1>2. SideIds(b, side) \in SUBSET DOMAIN b.orders
      BY DEF SideIds
<1>3. IsFiniteSet(SideIds(b, side))
      BY <1>1, <1>2, FS_Subset
<1>4. \A id \in SideIds(b, side) : b.orders[id] \in OrderRecords
      BY <1>1, <1>2, BookParts
<1>5. \A id \in SideIds(b, side) : b.orders[id].remaining \in Int
      BY <1>4 DEF OrderRecords
<1> QED
    BY <1>3, <1>5 DEF Amounts

\* What the orders of a side come to, by the index.
LEMMA SideTotalIs ==
    ASSUME GoodBook(book), NEW side \in Sides
    PROVE  SideTotal(side) = Sums(Amounts(book, side))[SideIds(book, side)] % Modulus
<1> DEFINE D == SideIds(book, side)
           f == Amounts(book, side)
           Eq(g) == g = [T \in SUBSET D |->
                           IF T = {} THEN 0
                           ELSE book.orders[Chosen(T)].remaining + g[T \ {Chosen(T)}]]
           g0 == CHOOSE g : Eq(g)
<1>1. IsFiniteSet(D) /\ f \in [D -> Int] /\ \A id \in D : f[id] = book.orders[id].remaining
      BY SideAmounts
<1>2. SideTotal(side) = g0[D] % Modulus
      BY DEF SideTotal, MapThenSumSet, MapThenFoldSet, Chosen, SideIds, Modulus
<1> HIDE DEF D, f
<1>3. \A T \in SUBSET D : T # {} =>
         Chosen(T) \in T /\ f[Chosen(T)] = book.orders[Chosen(T)].remaining
      BY <1>1 DEF Chosen
<1>4. /\ Sums(f) = [T \in SUBSET D |-> Sums(f)[T]]
      /\ Sums(f)[{}] = 0
      /\ \A T \in SUBSET D : Sums(f)[T] \in Int
      /\ \A T \in SUBSET D : T # {} => Sums(f)[T] = f[Chosen(T)] + Sums(f)[T \ {Chosen(T)}]
      BY <1>1, SumsChosen
<1>5. Eq(Sums(f))
      BY <1>3, <1>4
<1>6. Eq(g0)
  <2> HIDE DEF Eq
  <2> QED
      BY <1>5
<1> HIDE DEF g0
<1>7. AddsUp(g0, f, D)
  <2> DEFINE P == {T \in SUBSET D : g0[T] = Sums(f)[T]}
  <2>a. \A T \in SUBSET D : T # {} => g0[T] = f[Chosen(T)] + g0[T \ {Chosen(T)}]
        BY <1>3, <1>6
  <2>1. {} \in P
        BY <1>4, <1>6
  <2>2. ASSUME NEW T \in SUBSET D, T # {}, \A y \in T : T \ {y} \in P PROVE T \in P
        BY <1>3, <1>4, <2>a, <2>2
  <2> HIDE DEF P
  <2>3. SUBSET D \subseteq P
        BY <1>1, <2>1, <2>2, SubsetInduction
  <2>4. \A T \in SUBSET D : g0[T] = Sums(f)[T]
        BY <2>3 DEF P
  <2>5. Sums(f) = [T \in SUBSET D |->
                     IF T = {} THEN 0 ELSE Sums(f)[T \ {Chosen(T)}] + f[Chosen(T)]]
        BY <1>1, SumsAddUp
  <2>6. \A T \in SUBSET D :
           Sums(f)[T] = IF T = {} THEN 0 ELSE Sums(f)[T \ {Chosen(T)}] + f[Chosen(T)]
        BY <2>5
  <2> QED
      BY <2>4, <2>6 DEF AddsUp
<1> HIDE DEF Eq
<1>8. \A T \in SUBSET D : g0[T] = Sums(f)[T]
      BY <1>1, <1>7, SumsUnique
<1> QED
    BY <1>2, <1>8 DEF D, f

\* What a level shows: the quantities of its orders, wrapped around.
LEMMA LevelQuantityIs ==
    ASSUME NEW b, GoodBook(b), NEW side \in Sides, NEW price \in DOMAIN b[side]
    PROVE  /\ LevelIds(b, side, price) \in SUBSET SideIds(b, side)
           /\ LevelQuantity(b, b[side][price])
                 = Sums(Amounts(b, side))[LevelIds(b, side, price)] % Modulus
<1> DEFINE q == b[side][price]
           D == DOMAIN q
           S == SideIds(b, side)
           f == Amounts(b, side)
           k == [i \in D |-> b.orders[q[i]].remaining]
           Eq(g) == g = [T \in SUBSET D |->
                           IF T = {} THEN 0
                           ELSE (g[T \ {Chosen(T)}] + b.orders[q[Chosen(T)]].remaining) % Modulus]
           g0 == CHOOSE g : Eq(g)
<1>1. b \in Books /\ Agree(b) /\ b[side] \in LevelMaps
      BY BookParts DEF GoodBook
<1>2. price \in Prices /\ q \in Seq(OrderIds) /\ q = At(b[side], price)
      BY <1>1, LevelMap, AtType DEF At
<1>3. /\ IsInjective(q)
      /\ \A id \in OrderIds : Contains(q, id) <=> Indexed(b, id, side, price)
      BY <1>1, <1>2 DEF Agree
<1>4. IsFiniteSet(S) /\ f \in [S -> Int] /\ \A id \in S : f[id] = b.orders[id].remaining
      BY SideAmounts
<1>5. DOMAIN b.orders \subseteq OrderIds
      BY <1>1, BookParts
<1>6. LevelQuantity(b, q) = g0[D]
      BY DEF Chosen, LevelQuantity, FoldSeq, FoldFunction, FoldFunctionOnSet, MapThenFoldSet, Modulus
<1> HIDE DEF q
<1>7. D = 1..Len(q) /\ IsFiniteSet(D) /\ q \in [D -> OrderIds]
      BY <1>2, SeqPlaces
<1>8. /\ \A i \in D : Indexed(b, q[i], side, price)
      /\ \A id \in OrderIds : Indexed(b, id, side, price) => \E i \in D : q[i] = id
      BY <1>3, <1>7 DEF Contains
<1>9. q \in [D -> S]
      BY <1>7, <1>8 DEF Indexed, SideIds
<1>10. {q[i] : i \in D} = LevelIds(b, side, price)
      BY <1>5, <1>7, <1>8 DEF Indexed, LevelIds, SideIds
<1>11. \A i, j \in D : q[i] = q[j] => i = j
      BY <1>3 DEF IsInjective
<1> HIDE DEF S, f
<1>12. k \in [D -> Int] /\ \A i \in D : k[i] = f[q[i]] /\ k[i] = b.orders[q[i]].remaining
      BY <1>4, <1>9
<1> HIDE DEF D, k
<1>13. Sums(k)[D] = Sums(f)[ValuesOf(q, D)]
  <2>1. Through(k, f, q, D)
        BY <1>11, <1>12 DEF Through
  <2> QED
      BY <1>4, <1>7, <1>9, <2>1, SumsImage
<1> DEFINE K == [T \in SUBSET D |-> Sums(k)[T] % Modulus]
<1>14. AddsUpModulo(K, k, D, Modulus)
      BY <1>7, <1>12, ModulusType, SumsModulo
<1>15. \A T \in SUBSET D : T # {} =>
          Chosen(T) \in T /\ k[Chosen(T)] = b.orders[q[Chosen(T)]].remaining
      BY <1>12 DEF Chosen
<1>16. \A g : Eq(g) => AddsUpModulo(g, k, D, Modulus)
      BY <1>15 DEF AddsUpModulo
<1>17. Eq(K)
  <2>1. K = [T \in SUBSET D |-> K[T]]
        OBVIOUS
  <2> HIDE DEF K
  <2> QED
      BY <2>1, <1>14, <1>15 DEF AddsUpModulo
<1> HIDE DEF K, Eq
<1>18. Eq(g0)
      BY <1>17
<1> HIDE DEF g0
<1>19. AddsUpModulo(g0, k, D, Modulus)
      BY <1>16, <1>18
<1>20. IsModulo(g0, k, D, Modulus)
      BY <1>7, <1>12, <1>19, ModulusType, SumsModulo
<1>21. g0[D] = Sums(f)[{q[i] : i \in D}] % Modulus
      BY <1>13, <1>20 DEF IsModulo, ValuesOf
<1>22. LevelIds(b, side, price) \in SUBSET SideIds(b, side)
      BY DEF LevelIds
<1> QED
    BY <1>6, <1>10, <1>21, <1>22 DEF q, f

\* at lists the prices of a side, the best first.
PricesBy(b, side, at) ==
    LET n == Cardinality(DOMAIN b[side])
    IN  /\ n \in Nat
        /\ at \in [1..n -> DOMAIN b[side]]
        /\ \A j, k \in 1..n : at[j] = at[k] => j = k
        /\ \A p \in DOMAIN b[side] : \E k \in 1..n : at[k] = p
        /\ n > 0 => at[1] = Best(b, side)
        /\ LevelInfos(b, side) =
              [i \in 1..n |-> [price |-> at[i], quantity |-> LevelQuantity(b, b[side][at[i]])]]

\* GetOrderInfos has every level, once, and the best first.
LEMMA InfosList ==
    ASSUME NEW b, GoodBook(b), NEW side \in Sides
    PROVE  \E at : PricesBy(b, side, at)
<1> DEFINE D == DOMAIN b[side]
           n == Cardinality(D)
           R == {pq \in D \X D : IF side = "Buy" THEN pq[1] > pq[2] ELSE pq[1] < pq[2]}
           Of(i) == CHOOSE p \in D : Cardinality(Ahead(b, side, p)) = i - 1
           at == [i \in 1..n |-> Of(i)]
<1>1. b \in Books /\ b[side] \in LevelMaps
      BY BookParts DEF GoodBook
<1>2. D \subseteq Prices
      BY <1>1, LevelMap
<1>3. IsFiniteSet(D) /\ D \subseteq Int
  <2> DEFINE low == MinPrice
             high == MaxPrice
  <2>1. low \in Int /\ high \in Int
        BY SMT DEF MinPrice, MaxPrice
  <2>2. D \subseteq low..high
        BY <1>2, OrderbookAssumption
  <2> HIDE DEF low, high
  <2>3. IsFiniteSet(low..high)
        BY <2>1, FS_Interval
  <2>4. IsFiniteSet(D)
        BY <2>2, <2>3, FS_Subset
  <2> QED
      BY <1>2, <2>4, PricesAreInt
<1>4. \A p \in D : Ahead(b, side, p) = Preceding(R, D, p)
      BY DEF Ahead, Preceding
<1>5. Orders(R, D)
  <2> HIDE DEF D
  <2> QED
      BY <1>3 DEF Orders
<1>6. \A p, q \in D : <<p, q>> \in R <=> IF side = "Buy" THEN p > q ELSE p < q
      OBVIOUS
<1>7. LevelInfos(b, side) =
         [i \in 1..n |-> [price |-> Of(i), quantity |-> LevelQuantity(b, b[side][Of(i)])]]
      BY DEF LevelInfos
<1>8. n > 0 => D # {}
      BY FS_EmptySet
<1>9. D # {} => /\ Best(b, side) \in D
                /\ \A q \in D : Reaches(side, Best(b, side), q)
      BY <1>1, BestPrice
<1> HIDE DEF D, R
<1>10. /\ n \in Nat
       /\ \A k \in 0..(n - 1) : \E p \in D : Rank(R, D, p) = k
       /\ \A p, q \in D : <<p, q>> \in R => Rank(R, D, p) < Rank(R, D, q)
       /\ \A p \in D : Rank(R, D, p) \in 0..(n - 1)
      BY <1>3, <1>5, Ranks
<1>11. \A p \in D : Cardinality(Ahead(b, side, p)) = Rank(R, D, p)
      BY <1>4 DEF Rank
<1> HIDE DEF n
<1>12. ASSUME NEW i \in 1..n PROVE Of(i) \in D /\ Rank(R, D, Of(i)) = i - 1
  <2>1. i - 1 \in 0..(n - 1)
        BY <1>10
  <2>2. \E p \in D : Cardinality(Ahead(b, side, p)) = i - 1
        BY <1>10, <1>11, <2>1
  <2>3. Of(i) \in D /\ Cardinality(Ahead(b, side, Of(i))) = i - 1
        BY <2>2
  <2> QED
      BY <1>11, <2>3
<1> HIDE DEF Of
<1>13. at \in [1..n -> D] /\ \A i \in 1..n : at[i] = Of(i) /\ Rank(R, D, at[i]) = i - 1
      BY <1>12
<1>14. LevelInfos(b, side) =
          [i \in 1..n |-> [price |-> at[i], quantity |-> LevelQuantity(b, b[side][at[i]])]]
      BY <1>7, <1>13
<1> HIDE DEF at
<1>15. RankedBy(R, D, at)
      BY <1>13 DEF RankedBy, n
<1>16. /\ \A j, k \in 1..n : at[j] = at[k] => j = k
       /\ \A p \in D : \E k \in 1..n : at[k] = p
  <2>1. /\ \A j, k \in 1..Cardinality(D) : at[j] = at[k] => j = k
        /\ \A p \in D : \E k \in 1..Cardinality(D) : at[k] = p
        BY <1>3, <1>5, <1>15, RankedOnce
  <2> QED
      BY <2>1 DEF n
<1>17. ASSUME n > 0 PROVE at[1] = Best(b, side)
  <2> DEFINE p == at[1]
             q == Best(b, side)
  <2>1. 1 \in 1..n
        BY <1>10, <1>17
  <2>2. p \in D /\ Rank(R, D, p) = 0
        BY <1>13, <2>1
  <2>3. q \in D /\ Reaches(side, q, p)
        BY <1>8, <1>9, <1>17, <2>2
  <2> HIDE DEF p, q
  <2>4. <<q, p>> \notin R
    <3>1. Rank(R, D, q) \in 0..(n - 1)
          BY <1>10, <2>3
    <3>2. ~(Rank(R, D, q) < 0)
          BY <1>10, <3>1
    <3> QED
        BY <1>10, <2>2, <2>3, <3>2
  <2>5. p \in Int /\ q \in Int
        BY <1>3, <2>2, <2>3
  <2>6. p = q
        BY <1>6, <2>2, <2>3, <2>4, <2>5 DEF Reaches
  <2> QED
      BY <2>6 DEF p, q
<1>18. PricesBy(b, side, at)
      BY <1>10, <1>13, <1>14, <1>16, <1>17 DEF PricesBy, n, D
<1> QED
    BY <1>18

\* The levels of a side show what its orders come to.
LEMMA InfosAddUp ==
    ASSUME GoodBook(book), NEW side \in Sides
    PROVE  SideTotal(side) =
              FoldSeq(LAMBDA info, sum : sum + info.quantity, 0, Infos(side)) % 2 ^ QuantityBits
<1> DEFINE S == SideIds(book, side)
           f == Amounts(book, side)
           s == Infos(side)
           D == DOMAIN s
           n == Cardinality(DOMAIN book[side])
           Eq(g) == g = [T \in SUBSET D |->
                           IF T = {} THEN 0 ELSE g[T \ {Chosen(T)}] + s[Chosen(T)].quantity]
           g0 == CHOOSE g : Eq(g)
           k == [i \in D |-> s[i].quantity]
<1>1. PICK at : PricesBy(book, side, at)
      BY InfosList
<1>2. IsFiniteSet(S) /\ f \in [S -> Int]
      BY SideAmounts
<1>3. FoldSeq(LAMBDA info, sum : sum + info.quantity, 0, s) = g0[D]
      BY DEF Chosen, FoldSeq, FoldFunction, FoldFunctionOnSet, MapThenFoldSet
<1>4. /\ n \in Nat /\ at \in [1..n -> DOMAIN book[side]]
      /\ \A i, j \in 1..n : at[i] = at[j] => i = j
      /\ \A p \in DOMAIN book[side] : \E i \in 1..n : at[i] = p
      /\ s = [i \in 1..n |->
                [price |-> at[i], quantity |-> LevelQuantity(book, book[side][at[i]])]]
      BY <1>1 DEF PricesBy, Infos
<1> HIDE DEF n, s
<1>5. D = 1..n /\ \A i \in D : s[i].quantity = LevelQuantity(book, book[side][at[i]])
      BY <1>4
<1>6. IsFiniteSet(D)
  <2>1. 1 \in Int /\ n \in Int
        BY <1>4
  <2> QED
      BY <1>5, <2>1, FS_Interval
<1> DEFINE group == [i \in D |-> LevelIds(book, side, at[i])]
<1>7. ASSUME NEW i \in D
      PROVE  /\ group[i] = LevelIds(book, side, at[i]) /\ group[i] \in SUBSET S
             /\ s[i].quantity = Sums(f)[group[i]] % Modulus
             /\ s[i].quantity \in Int
  <2>1. at[i] \in DOMAIN book[side]
        BY <1>4, <1>5
  <2>2. /\ LevelIds(book, side, at[i]) \in SUBSET S
        /\ LevelQuantity(book, book[side][at[i]])
              = Sums(f)[LevelIds(book, side, at[i])] % Modulus
        BY <2>1, LevelQuantityIs
  <2>3. Sums(f)[LevelIds(book, side, at[i])] \in Int
    <3> HIDE DEF S, f
    <3>1. \A A \in SUBSET S : Sums(f)[A] \in Int
          BY <1>2, SumsChosen
    <3> QED
        BY <2>2, <3>1
  <2> HIDE DEF f
  <2>4. Sums(f)[LevelIds(book, side, at[i])] % Modulus \in Int
        BY <2>3, ModulusType, ModuloLater
  <2> QED
      BY <1>5, <2>2, <2>4
<1> HIDE DEF D
<1>8. k \in [D -> Int] /\ \A i \in D : k[i] = s[i].quantity
      BY <1>7
<1>9. group \in [D -> SUBSET S]
      BY <1>7
<1>10. \A i, j \in D : i # j => group[i] \cap group[j] = {}
      BY <1>4, <1>5, <1>7 DEF LevelIds
<1>11. UNION {group[i] : i \in D} = S
  <2>1. \A i \in D : group[i] \subseteq S
        BY <1>7
  <2>2. ASSUME NEW id \in S PROVE \E i \in D : id \in group[i]
    <3>1. id \in DOMAIN book.orders /\ book.orders[id].side = side
          BY DEF SideIds
    <3>2. book.orders[id].price \in DOMAIN book[side]
          BY <3>1, LevelOfOrder
    <3>3. PICK i \in 1..n : at[i] = book.orders[id].price
          BY <1>4, <3>2
    <3>4. i \in D /\ id \in LevelIds(book, side, at[i])
          BY <1>5, <3>3 DEF LevelIds
    <3> QED
        BY <1>7, <3>4
  <2> HIDE DEF S, group
  <2> QED
      BY <2>1, <2>2
<1> HIDE DEF S, f, group, k
<1>12. \A i \in D : k[i] = Sums(f)[group[i]] % Modulus
      BY <1>7, <1>8
<1>13. Sums(k)[D] % Modulus = Sums(f)[S] % Modulus
  <2>1. Groups(group, S, k, f, D, Modulus)
        BY <1>8, <1>9, <1>10, <1>12 DEF Groups
  <2>2. Sums(k)[D] % Modulus = Sums(f)[UNION {group[i] : i \in D}] % Modulus
        BY <1>2, <1>6, <2>1, ModulusType, SumsGrouped
  <2> QED
      BY <1>11, <2>2
<1>14. \A T \in SUBSET D : T # {} => Chosen(T) \in T /\ k[Chosen(T)] = s[Chosen(T)].quantity
      BY <1>8 DEF Chosen
<1>15. Sums(k) = [T \in SUBSET D |->
                    IF T = {} THEN 0 ELSE Sums(k)[T \ {Chosen(T)}] + k[Chosen(T)]]
      BY <1>6, <1>8, SumsAddUp
<1>16. Eq(Sums(k))
      BY <1>14, <1>15
<1>17. \A g : Eq(g) => AddsUp(g, k, D)
      BY <1>14 DEF AddsUp
<1> HIDE DEF Eq
<1>18. Eq(g0)
      BY <1>16
<1> HIDE DEF g0
<1>19. AddsUp(g0, k, D)
      BY <1>17, <1>18
<1>20. \A T \in SUBSET D : g0[T] = Sums(k)[T]
      BY <1>6, <1>8, <1>19, SumsUnique
<1>21. g0[D] = Sums(k)[D]
      BY <1>20
<1>22. SideTotal(side) = Sums(f)[S] % Modulus
      BY SideTotalIs DEF S, f
<1> QED
    BY <1>3, <1>13, <1>21, <1>22 DEF s, Modulus

\* The first of the infos of a side is its best price.
LEMMA HeadOfInfos ==
    ASSUME GoodBook(book), NEW side \in Sides, Infos(side) # <<>>
    PROVE  DOMAIN book[side] # {} /\ Head(Infos(side)).price = Best(book, side)
<1> DEFINE n == Cardinality(DOMAIN book[side])
           s == Infos(side)
<1>1. PICK at : PricesBy(book, side, at)
      BY InfosList
<1> DEFINE e(i) == [price |-> at[i], quantity |-> LevelQuantity(book, book[side][at[i]])]
           X == {e(i) : i \in 1..n}
<1>2. n \in Nat /\ (n > 0 => at[1] = Best(book, side)) /\ s = [i \in 1..n |-> e(i)]
      BY <1>1 DEF PricesBy, Infos
<1>3. DOMAIN book[side] = {} => n = 0
      BY FS_EmptySet
<1> HIDE DEF n, s
<1>4. s # <<>>
      BY DEF s
<1>5. s \in [1..n -> X]
      BY <1>2
<1>6. s \in Seq(X)
  <2> HIDE DEF X
  <2> QED
      BY <1>2, <1>5, SeqDef
<1> HIDE DEF X
<1>7. Len(s) \in Nat \ {0} /\ DOMAIN s = 1..Len(s) /\ Head(s) = s[1]
      BY <1>4, <1>6, EmptySeq, LenProperties
<1>8. DOMAIN s = 1..n
      BY <1>2
<1>9. 1 \in 1..n /\ n > 0
      BY <1>2, <1>7, <1>8
<1>10. s[1] = e(1)
      BY <1>2, <1>9
<1>11. Head(s).price = at[1]
      BY <1>7, <1>10
<1> QED
    BY <1>2, <1>3, <1>9, <1>11 DEF s

\* Between two calls GetOrderInfos shows a book at rest, for any orders and
\* prices: the best bid is below the best ask, the levels add up to the orders
\* of the index in a uint32, and no FillAndKill order is left.
THEOREM BookIsAtRest == Spec => []BookAtRest
<1>1. BookInv => BookAtRest
  <2> SUFFICES ASSUME BookInv, pc = "idle" PROVE BookAtRest
      BY DEF BookAtRest
  <2>1. GoodBook(book) /\ Uncrossed(book) /\ AllGoodTillCancel(book)
        BY DEF BookInv, AtRest
  <2>2. ASSUME Infos("Buy") # <<>>, Infos("Sell") # <<>>
        PROVE  Head(Infos("Buy")).price < Head(Infos("Sell")).price
    <3>1. "Buy" \in Sides /\ "Sell" \in Sides
          BY DEF Sides
    <3>2. /\ DOMAIN book["Buy"] # {} /\ Head(Infos("Buy")).price = Best(book, "Buy")
          /\ DOMAIN book["Sell"] # {} /\ Head(Infos("Sell")).price = Best(book, "Sell")
          BY <2>1, <2>2, <3>1, HeadOfInfos
    <3> DEFINE bid == FirstOrder(book, "Buy")
               ask == FirstOrder(book, "Sell")
    <3>3. /\ bid \in DOMAIN book.orders /\ book.orders[bid].side = "Buy"
          /\ book.orders[bid].price = Best(book, "Buy")
          BY <2>1, <3>1, <3>2, First
    <3>4. /\ ask \in DOMAIN book.orders /\ book.orders[ask].side = "Sell"
          /\ book.orders[ask].price = Best(book, "Sell")
          BY <2>1, <3>1, <3>2, First
    <3> HIDE DEF bid, ask
    <3> QED
        BY <2>1, <3>2, <3>3, <3>4 DEF Uncrossed
  <2>3. \A side \in Sides :
           SideTotal(side) =
              FoldSeq(LAMBDA info, sum : sum + info.quantity, 0, Infos(side)) % 2 ^ QuantityBits
        BY <2>1, InfosAddUp
  <2> QED
      BY <2>1, <2>2, <2>3 DEF BookAtRest, AllGoodTillCancel
<1> QED
    BY <1>1, BookInvariant, PTL
=============================================================================
