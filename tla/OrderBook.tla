----------------------------- MODULE OrderBook ------------------------------
(***************************************************************************)
(* The order book of one instrument (exchange_core/src/book.rs): price     *)
(* levels that are doubly linked lists of pool slots, and a map from       *)
(* client identity to slot.  Every operator takes and returns the pair     *)
(* [pool, book] that the code mutates.                                     *)
(***************************************************************************)
EXTENDS OrderPool, Functions

CONSTANT U32Size    \* 2^32: the number of values of a u32

ASSUME U32Assumption == U32Size \in Nat \ {0}

Side == {"Buy", "Sell"}
Opposite(side) == IF side = "Buy" THEN "Sell" ELSE "Buy"

\* order_map is keyed by OrderKey; a level map is a function on its prices.
EmptyFunction == [x \in {} |-> x]
EmptyBook == [levels |-> [s \in Side |-> EmptyFunction], orderMap |-> EmptyFunction]

\* PriceLevel::new
NewLevel == [head |-> NullOrder, tail |-> NullOrder, volume |-> 0, orderCount |-> 0]

Put(f, x, value) == [y \in DOMAIN f \cup {x} |-> IF y = x THEN value ELSE f[y]]
Drop(f, x) == Restrict(f, DOMAIN f \ {x})

SaturatingSub(a, b) == IF a >= b THEN a - b ELSE 0

KeyOf(order) == <<order.account, order.clientOrderId>>

ContainsOrder(book, key) == key \in DOMAIN book.orderMap

\* A slip the properties must catch: the new order goes to the head of the list.
InsertLimitFirst(st, idx) ==
  LET o     == st.pool.data[idx]
      known == o.price \in DOMAIN st.book.levels[o.side]
      level == IF known THEN st.book.levels[o.side][o.price] ELSE NewLevel
      alone == level.head = NullOrder
      data  == IF alone THEN st.pool.data
               ELSE [st.pool.data EXCEPT ![level.head].prev = idx, ![idx].next = level.head]
      grown == [head |-> idx, tail |-> IF alone THEN idx ELSE level.tail,
                volume |-> (level.volume + o.remaining) % U32Size,
                orderCount |-> level.orderCount + 1]
  IN  [pool |-> [st.pool EXCEPT !.data = data],
       book |-> [levels   |-> [st.book.levels EXCEPT ![o.side] = Put(@, o.price, grown)],
                 orderMap |-> Put(st.book.orderMap, KeyOf(o), idx)]]

\* insert_limit; volume is a u32 and wraps in a release build.
InsertLimit(st, idx) ==
  LET o     == st.pool.data[idx]
      known == o.price \in DOMAIN st.book.levels[o.side]
      level == IF known THEN st.book.levels[o.side][o.price] ELSE NewLevel
      alone == level.tail = NullOrder
      data  == IF alone THEN st.pool.data
               ELSE [st.pool.data EXCEPT ![level.tail].next = idx, ![idx].prev = level.tail]
      grown == [head |-> IF alone THEN idx ELSE level.head, tail |-> idx,
                volume |-> (level.volume + o.remaining) % U32Size,
                orderCount |-> level.orderCount + 1]
  IN  [pool |-> [st.pool EXCEPT !.data = data],
       book |-> [levels   |-> [st.book.levels EXCEPT ![o.side] = Put(@, o.price, grown)],
                 orderMap |-> Put(st.book.orderMap, KeyOf(o), idx)]]

\* A slip the properties must catch: the next order keeps its link to idx.
UnlinkForward(data, idx) ==
  LET p == data[idx].prev
  IN  IF p = NullOrder THEN data ELSE [data EXCEPT ![p].next = data[idx].next]

\* The neighbours of idx are linked with each other.
Unlink(data, idx) ==
  LET p == data[idx].prev
      n == data[idx].next
      forward == IF p = NullOrder THEN data ELSE [data EXCEPT ![p].next = n]
  IN  IF n = NullOrder THEN forward ELSE [forward EXCEPT ![n].prev = p]

LevelWithout(level, o) ==
  [head |-> IF o.prev = NullOrder THEN o.next ELSE level.head,
   tail |-> IF o.next = NullOrder THEN o.prev ELSE level.tail,
   volume |-> SaturatingSub(level.volume, o.remaining),
   orderCount |-> SaturatingSub(level.orderCount, 1)]

\* A slip the properties must catch: a level goes with its last order but one.
LevelGoneEarly(level) == level.head = NullOrder \/ level.orderCount <= 1

LevelGone(level) == level.head = NullOrder \/ level.orderCount = 0

\* A slip the properties must catch: clear() instead of remove().
ForgetAll(orderMap, o) == EmptyFunction

Forget(orderMap, o) == Drop(orderMap, KeyOf(o))

\* remove_order; without a level at its price the slot is not given back.
RemoveOrder(st, idx) ==
  LET o        == st.pool.data[idx]
      orderMap == Forget(st.book.orderMap, o)
      prices   == st.book.levels[o.side]
  IN  IF o.price \notin DOMAIN prices
      THEN [st EXCEPT !.book.orderMap = orderMap]
      ELSE LET level == LevelWithout(prices[o.price], o)
           IN  [pool |-> Deallocate([st.pool EXCEPT !.data = Unlink(@, idx)], idx),
                book |-> [levels   |-> [st.book.levels EXCEPT ![o.side] =
                                          IF LevelGone(level) THEN Drop(@, o.price)
                                          ELSE Put(@, o.price, level)],
                          orderMap |-> orderMap]]

\* cancel_order and remove_order_by_id, for a key that order_map contains.
CancelOrder(st, key) == RemoveOrder(st, st.book.orderMap[key])

\* The price that matches first among the levels of a side.
BestPrice(book, side) ==
  LET prices == DOMAIN book.levels[side]
  IN  CHOOSE p \in prices : \A q \in prices : IF side = "Buy" THEN p >= q ELSE p <= q

BestHead(book, side) == book.levels[side][BestPrice(book, side)].head
=============================================================================
