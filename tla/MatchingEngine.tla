--------------------------- MODULE MatchingEngine ---------------------------
(***************************************************************************)
(* The matching engine (exchange_core/src/engine.rs) with its order pool,  *)
(* its books and the bounded ingress queue (ring.rs): commands are         *)
(* accepted, enqueued and processed in three separate calls, so any number *)
(* of other commands may be accepted or processed between them.            *)
(*                                                                         *)
(* A call that is refused changes nothing and is no step.  The caller      *)
(* enqueues in the order of acceptance, as OrderBook requires of it.       *)
(* Dropped data: client timestamps, and what a trade or an event copies    *)
(* from the orders it names.                                               *)
(***************************************************************************)
EXTENDS OrderBook, Sequences, SequencesExt

CONSTANTS Instrument, Account, ClientOrderId, Price, Quantity,
          QueueCapacity,
          MaxInFlight,  \* bound: commands accepted and not yet processed
          MaxSequence,  \* u64::MAX: the number that is never handed out
          Kinds,        \* the kinds of command that clients send
          KeyReuse      \* whether a client reuses an id that is still in flight

ASSUME EngineAssumption ==
  /\ QueueCapacity \in Nat \ {0}
  /\ MaxInFlight \in Nat
  /\ MaxSequence \in Nat
  /\ Price \subseteq Nat /\ Quantity \subseteq Nat
  /\ Kinds \subseteq {"New", "Cancel", "Replace"}
  /\ KeyReuse \in BOOLEAN

VARIABLES pool, books, nextSequence, nextExchangeOrderId,
          pending,      \* slots accepted and not yet enqueued, held by the caller
          queue,        \* OrderQueue: slots on their way to the matcher
          events,       \* last_events of the latest process_order
          lastExecuted  \* history: the sequence number processed last

vars == <<pool, books, nextSequence, nextExchangeOrderId, pending, queue,
          events, lastExecuted>>

Init ==
  /\ pool = NewPool
  /\ books = [i \in Instrument |-> EmptyBook]
  /\ nextSequence = 1
  /\ nextExchangeOrderId = 1
  /\ pending = <<>>
  /\ queue = <<>>
  /\ events = <<>>
  /\ lastExecuted = 0

InFlight == queue \o pending

\* Another command in flight will put an order of this name into the book.
NameInFlight(instrument, key) ==
  \E k \in DOMAIN InFlight :
    LET o == pool.data[InFlight[k]]
    IN  o.kind # "Cancel" /\ o.instrument = instrument /\ KeyOf(o) = key

-----------------------------------------------------------------------------
(***************************************************************************)
(* The commands that clients send.                                         *)
(***************************************************************************)
Named(kind, i, a, c) ==
  [BlankOrder EXCEPT !.kind = kind, !.instrument = i, !.account = a, !.clientOrderId = c]

Limit(named, side, price, quantity) ==
  [named EXCEPT !.side = side, !.price = price, !.quantity = quantity]

NewOrders ==
  {Limit(Named("New", i, a, c), side, price, quantity) :
     i \in Instrument, a \in Account, c \in ClientOrderId,
     side \in Side, price \in Price, quantity \in Quantity}

Cancels ==
  {Named("Cancel", i, a, c) : i \in Instrument, a \in Account, c \in ClientOrderId}

Aimed ==
  {[Named("Replace", i, a, c) EXCEPT !.target = target] :
     i \in Instrument, a \in Account, c \in ClientOrderId, target \in ClientOrderId}

Replacements ==
  {Limit(named, side, price, quantity) :
     named \in Aimed, side \in Side, price \in Price, quantity \in Quantity}

Command == {c \in NewOrders \cup Cancels \cup Replacements : c.kind \in Kinds}

(***************************************************************************)
(* accept_command: its checks, and what it does when they pass.            *)
(***************************************************************************)
Known(command, name) ==
  ContainsOrder(books[command.instrument], <<command.account, name>>)

\* The client does not use a name that is in flight, unless KeyReuse.
Fresh(command) == KeyReuse \/ ~NameInFlight(command.instrument, KeyOf(command))

Acceptable(command) ==
  LET own == command.clientOrderId
  IN  CASE command.kind = "New"     -> ~Known(command, own) /\ Fresh(command)
        [] command.kind = "Cancel"  -> Known(command, own)
        [] command.kind = "Replace" -> /\ Known(command, command.target)
                                       /\ own = command.target \/ ~Known(command, own)
                                       /\ Fresh(command)

\* The exchange order ids run out no sooner than the sequence numbers.
CanAdmit == nextSequence < MaxSequence /\ CanAllocate(pool)

PoolWith(command) ==
  Allocate(pool, [command EXCEPT !.exchangeOrderId = IF command.kind = "Cancel" THEN 0
                                                     ELSE nextExchangeOrderId,
                                 !.sequence = nextSequence,
                                 !.remaining = command.quantity])

Admit(command) ==
  /\ CanAdmit
  /\ pool' = PoolWith(command)
  /\ nextExchangeOrderId' = IF command.kind = "Cancel" THEN nextExchangeOrderId
                            ELSE nextExchangeOrderId + 1
  /\ nextSequence' = nextSequence + 1
  /\ pending' = Append(pending, pool.freeHead)
  /\ UNCHANGED <<books, queue, events, lastExecuted>>

Accept(command) ==
  /\ Len(InFlight) < MaxInFlight
  /\ Acceptable(command)
  /\ Admit(command)

QueueHasRoom == Len(queue) < QueueCapacity

\* enqueue_order: a full queue gives the slot back to the pool.
EnqueueOrder ==
  /\ pending # <<>>
  /\ pending' = Tail(pending)
  /\ \/ /\ QueueHasRoom
        /\ queue' = Append(queue, Head(pending))
        /\ UNCHANGED pool
     \/ /\ ~QueueHasRoom
        /\ pool' = Deallocate(pool, Head(pending))
        /\ UNCHANGED queue
  /\ UNCHANGED <<books, nextSequence, nextExchangeOrderId, events, lastExecuted>>

-----------------------------------------------------------------------------
Crosses(side, price, best) == IF side = "Buy" THEN price >= best ELSE price <= best

\* The condition of the loop in match_buy and match_sell.
CanFill(run, idx) ==
  LET o     == run.pool.data[idx]
      other == Opposite(o.side)
  IN  /\ o.remaining > 0
      /\ DOMAIN run.book.levels[other] # {}
      /\ Crosses(o.side, o.price, BestPrice(run.book, other))

\* The body of that loop: a fill at the resting order's price.
Fill(run, idx) ==
  LET o        == run.pool.data[idx]
      restIdx  == BestHead(run.book, Opposite(o.side))
      rest     == run.pool.data[restIdx]
      quantity == Min({o.remaining, rest.remaining})
      st == [pool |-> [run.pool EXCEPT !.data[idx].remaining = @ - quantity,
                                       !.data[restIdx].remaining = @ - quantity],
             book |-> [run.book EXCEPT !.levels[rest.side][rest.price].volume =
                                         SaturatingSub(@, quantity)]]
      left == IF rest.remaining = quantity THEN RemoveOrder(st, restIdx) ELSE st
      trade == [type |-> "Trade", price |-> rest.price, quantity |-> quantity,
                buyer  |-> IF o.side = "Buy" THEN o.exchangeOrderId ELSE rest.exchangeOrderId,
                seller |-> IF o.side = "Buy" THEN rest.exchangeOrderId ELSE o.exchangeOrderId]
  IN  [pool |-> left.pool, book |-> left.book, trades |-> Append(run.trades, trade)]

Round(run, idx) == IF CanFill(run, idx) THEN Fill(run, idx) ELSE run

(***************************************************************************)
(* match_buy and match_sell.  Every round uses up the incoming order or    *)
(* takes a resting one away, so there are no more rounds than slots.       *)
(***************************************************************************)
Match(st, idx) ==
  LET run[k \in 0..MaxOrders] ==
        IF k = 0 THEN [pool |-> st.pool, book |-> st.book, trades |-> <<>>]
        ELSE Round(run[k - 1], idx)
  IN run[MaxOrders]

\* A slip the properties must catch: a replacement leaves its target in the book.
CancelFirstNever(st, idx) == st

\* What a replacement does first; a new order has nothing to cancel.
CancelFirst(st, idx) ==
  LET o == st.pool.data[idx]
  IN  IF o.kind = "Replace" THEN CancelOrder(st, <<o.account, o.target>>) ELSE st

Replaced(o) == [type |-> "OrderReplaced", sequence |-> o.sequence]
Accepted(o) == [type |-> "OrderAccepted", sequence |-> o.sequence]
Cancelled(o) == [type |-> "OrderCancelled", sequence |-> o.sequence]

\* process_order of a new order, or of a replacement whose target is there.
ProcessIncoming(i, idx) ==
  LET o      == pool.data[idx]
      before == CancelFirst([pool |-> pool, book |-> books[i]], idx)
      run    == Match([before EXCEPT !.pool.data[idx].kind = "New"], idx)
      st     == [pool |-> run.pool, book |-> run.book]
      rests  == st.pool.data[idx].remaining > 0
      after  == IF rests THEN InsertLimit(st, idx)
                ELSE [st EXCEPT !.pool = Deallocate(st.pool, idx)]
  IN  /\ pool'   = after.pool
      /\ books'  = [books EXCEPT ![i] = after.book]
      /\ events' = (IF o.kind = "Replace" THEN <<Replaced(o)>> ELSE <<>>)
                   \o <<Accepted(o)>> \o run.trades

BookOf(o) == o.instrument

\* process_order of a command that names an order which has gone.
ProcessMissing(idx) ==
  /\ pool' = Deallocate(pool, idx)
  /\ events' = <<>>
  /\ UNCHANGED books

\* process_order of a cancel whose order is there.
ProcessCancel(i, idx) ==
  LET o  == pool.data[idx]
      st == CancelOrder([pool |-> pool, book |-> books[i]], KeyOf(o))
  IN  /\ pool' = Deallocate(st.pool, idx)
      /\ books' = [books EXCEPT ![i] = st.book]
      /\ events' = <<Cancelled(o)>>

\* process_order, on an accepted slot.
Process(idx) ==
  LET o == pool.data[idx]
      i == BookOf(o)
      named == <<o.account, IF o.kind = "Cancel" THEN o.clientOrderId ELSE o.target>>
  IN  /\ lastExecuted' = o.sequence
      /\ UNCHANGED <<nextSequence, nextExchangeOrderId>>
      /\ \/ o.kind = "New" /\ ProcessIncoming(i, idx)
         \/ o.kind = "Replace" /\ ContainsOrder(books[i], named) /\ ProcessIncoming(i, idx)
         \/ o.kind = "Cancel" /\ ContainsOrder(books[i], named) /\ ProcessCancel(i, idx)
         \/ o.kind # "New" /\ ~ContainsOrder(books[i], named) /\ ProcessMissing(idx)

\* The matcher processes the slot that it receives from the queue.
ProcessOrder ==
  /\ queue # <<>>
  /\ queue' = Tail(queue)
  /\ UNCHANGED pending
  /\ Process(Head(queue))

Next ==
  \/ \E command \in Command : Accept(command)
  \/ EnqueueOrder
  \/ ProcessOrder

Spec == Init /\ [][Next]_vars

-----------------------------------------------------------------------------
\* The slots of one price level, in the order in which they trade.
LevelQueue(i, side, price) == Chain(pool.data, books[i].levels[side][price].head)

AtLevel(i, side, price) ==
  LET line == LevelQueue(i, side, price) IN {line[k] : k \in DOMAIN line}

RestingIn(i) ==
  UNION {UNION {AtLevel(i, side, price) : price \in DOMAIN books[i].levels[side]} :
           side \in Side}

Resting == UNION {RestingIn(i) : i \in Instrument}

\* Every slot of the pool has exactly one owner: the free list, the caller, the
\* queue or a book.  Nothing leaks and nothing is used twice, whichever way
\* commands are refused, dropped, matched or replaced (allocate, deallocate).
NoSlotLeaked ==
  /\ FreeSlots(pool) \cup ToSet(InFlight) \cup Resting = Slot
  /\ Cardinality(FreeSlots(pool)) + Len(InFlight) + Cardinality(Resting) = Cardinality(Slot)
  /\ pool.allocatedCount = Len(InFlight) + Cardinality(Resting)

\* The volume of a level is a u32: what orders of these quantities can add up to
\* at one price fits in it.
VolumesFit == \A quantity \in Quantity : (MaxOrders - 1) * quantity < U32Size

\* The list of a price level is a queue: linked the same way in both directions,
\* in admission order, of live orders of that side and price.
LevelWellFormed(i, side, price) ==
  LET level == books[i].levels[side][price]
      line  == LevelQueue(i, side, price)
      order(k) == pool.data[line[k]]
  IN  /\ Len(line) = level.orderCount
      /\ VolumesFit => level.volume = SumFunction([s \in ToSet(line) |-> pool.data[s].remaining])
      /\ line[1] = level.head /\ Last(line) = level.tail
      /\ \A k \in DOMAIN line :
           /\ order(k).instrument = i /\ order(k).side = side /\ order(k).price = price
           /\ order(k).remaining > 0
           /\ order(k).prev = IF k = 1 THEN NullOrder ELSE line[k - 1]
           /\ k > 1 => order(k - 1).sequence < order(k).sequence

\* Lists, counters and prices of a book describe one set of orders: every level
\* is a queue of as many orders, and of as much volume, as market data publishes
\* for it, and no order rests at a price at which it could trade (insert_limit,
\* remove_order, the fills in place, match_buy, match_sell).
BookWellFormed ==
  \A i \in Instrument :
    /\ \A side \in Side : \A price \in DOMAIN books[i].levels[side] :
         LevelWellFormed(i, side, price)
    /\ \A bid \in DOMAIN books[i].levels["Buy"], ask \in DOMAIN books[i].levels["Sell"] :
         bid < ask

\* order_map finds exactly the resting orders, each by its own name: no order
\* in the book is out of reach of a cancel, and no name stands for two of them.
OrderMapExact ==
  \A i \in Instrument :
    /\ Range(books[i].orderMap) = RestingIn(i)
    /\ \A key \in DOMAIN books[i].orderMap : KeyOf(pool.data[books[i].orderMap[key]]) = key

\* "Active client-order uniqueness is scoped to account + instrument + client
\* order ID" (docs/PRODUCTION_CONTRACT.md:33): no two orders rest in a book under
\* one name (accept_command looks for the name in the book, and at nothing that
\* is on its way there).
ActiveNamesUnique ==
  \A i \in Instrument : \A s, t \in RestingIn(i) :
    KeyOf(pool.data[s]) = KeyOf(pool.data[t]) => s = t

\* A processed command leaves no event only when the order it names has gone
\* since it was accepted, by a fill, a cancel or a replacement: the answer to
\* everything else is an event (process_order returns early without one).
SilentOnlyWhenTargetGone ==
  [][\A k \in DOMAIN queue :
       lastExecuted' = pool.data[queue[k]].sequence /\ lastExecuted' # lastExecuted
       => \/ events' # <<>>
          \/ LET o == pool.data[queue[k]]
                 name == <<o.account, IF o.kind = "Cancel" THEN o.clientOrderId ELSE o.target>>
             IN  /\ o.kind # "New"
                 /\ \A s \in RestingIn(o.instrument) : KeyOf(pool.data[s]) # name]_vars

-----------------------------------------------------------------------------
\* What a slot holds, as PriceTimeBook sees commands and orders.
CommandIn(s) ==
  LET o == pool.data[s]
  IN  [kind |-> o.kind, instrument |-> o.instrument, key |-> KeyOf(o),
       target |-> <<o.account, o.target>>, side |-> o.side, price |-> o.price,
       quantity |-> o.quantity, id |-> o.exchangeOrderId, sequence |-> o.sequence]

OrderIn(s) ==
  LET o == pool.data[s]
  IN  [instrument |-> o.instrument, key |-> KeyOf(o), side |-> o.side, price |-> o.price,
       remaining |-> o.remaining, id |-> o.exchangeOrderId, sequence |-> o.sequence]

\* What an execution reports besides its trades is left out.
TradesIn(es) ==
  LET fills  == {k \in DOMAIN es : es[k].type = "Trade"}
      nth(n) == CHOOSE k \in fills : Cardinality({j \in fills : j < k}) = n - 1
  IN  [n \in 1..Cardinality(fills) |->
         [buyer |-> es[nth(n)].buyer, seller |-> es[nth(n)].seller,
          price |-> es[nth(n)].price, quantity |-> es[nth(n)].quantity]]

Promise == INSTANCE PriceTimeBook WITH
  inFlight     <- [k \in DOMAIN InFlight |-> CommandIn(InFlight[k])],
  lastSequence <- nextSequence - 1,
  resting      <- {OrderIn(s) : s \in Resting},
  trades       <- TradesIn(events)

\* The engine keeps the promise of PriceTimeBook: every processed command has
\* the trades, in the order and at the prices, that strict price-time priority
\* gives, and leaves the book that it leaves (process_order, match_buy,
\* match_sell, insert_limit, remove_order).
KeepsPriceTimePriority == Promise!ASpec
=============================================================================
