--------------------------- MODULE PriceTimeBook ----------------------------
(***************************************************************************)
(* What the matching engine promises, without pool, links or levels:       *)
(* commands are numbered as they are admitted and executed in that order;  *)
(* an incoming order trades with the resting orders in strict price-time   *)
(* priority, at their prices; what is left of it rests.                    *)
(***************************************************************************)
EXTENDS Integers, Sequences, FiniteSets, SequencesExt

CONSTANTS Instrument, Account, ClientOrderId, Price, Quantity

VARIABLES inFlight,      \* admitted commands, in the order of execution
          lastSequence,  \* the sequence number of the latest admission
          resting,       \* the set of orders in the books
          trades         \* what the latest execution traded, in order

avars == <<inFlight, lastSequence, resting, trades>>

Key == Account \X ClientOrderId

Order == [instrument : Instrument, key : Key, side : {"Buy", "Sell"}, price : Price,
          remaining : Nat, id : Nat, sequence : Nat]

AInit == inFlight = <<>> /\ lastSequence = 0 /\ resting = {} /\ trades = <<>>

\* An admitted command is the last in flight and has the next number.
Admit ==
  /\ inFlight' # <<>>
  /\ Front(inFlight') = inFlight
  /\ LET c == Last(inFlight')
     IN  c.sequence = lastSequence + 1 /\ lastSequence' = c.sequence
  /\ UNCHANGED <<resting, trades>>

\* A command that finds the queue full is turned away.
TurnAway ==
  /\ \E k \in DOMAIN inFlight : inFlight' = RemoveAt(inFlight, k)
  /\ UNCHANGED <<lastSequence, resting, trades>>

-----------------------------------------------------------------------------
Better(a, b) == IF a.side = "Buy" THEN a.price > b.price ELSE a.price < b.price
Before(a, b) == Better(a, b) \/ (a.price = b.price /\ a.sequence < b.sequence)

\* The orders that an incoming order o may trade with.
Matchable(book, o) ==
  {r \in book : /\ r.instrument = o.instrument
                /\ r.side # o.side
                /\ IF o.side = "Buy" THEN r.price <= o.price ELSE r.price >= o.price}

Total(orders) == SumFunction([q \in orders |-> q.remaining])

\* How much of r the incoming order takes: what those before r leave to it.
Taken(book, o, r) ==
  LET left == o.remaining - Total({q \in Matchable(book, o) : Before(q, r)})
  IN  IF left <= 0 THEN 0 ELSE Min({left, r.remaining})

Hit(book, o) == {r \in Matchable(book, o) : Taken(book, o, r) > 0}

\* The n-th of some orders in turn.
InTurn(orders, n) == CHOOSE r \in orders : Cardinality({q \in orders : Before(q, r)}) = n - 1

TradeOf(o, r, quantity) ==
  [buyer  |-> IF o.side = "Buy" THEN o.id ELSE r.id,
   seller |-> IF o.side = "Buy" THEN r.id ELSE o.id,
   price  |-> r.price, quantity |-> quantity]

TradesOf(book, o) ==
  LET hit == Hit(book, o)
  IN  [n \in 1..Cardinality(hit) |-> TradeOf(o, InTurn(hit, n), Taken(book, o, InTurn(hit, n)))]

\* The orders of the book, and o itself, less what they have traded.
BookAfter(book, o) ==
  LET hit  == Hit(book, o)
      rest == o.remaining - SumFunction([r \in hit |-> Taken(book, o, r)])
      less == {[r EXCEPT !.remaining = @ - Taken(book, o, r)] : r \in hit}
              \cup {[o EXCEPT !.remaining = rest]}
  IN  (book \ hit) \cup {r \in less : r.remaining > 0}

\* The incoming order o meets the book.
Arrive(book, o) == trades' = TradesOf(book, o) /\ resting' = BookAfter(book, o)

Named(c, key) == {r \in resting : r.instrument = c.instrument /\ r.key = key}

OrderOf(c) ==
  [instrument |-> c.instrument, key |-> c.key, side |-> c.side, price |-> c.price,
   remaining |-> c.quantity, id |-> c.id, sequence |-> c.sequence]

\* The oldest command in flight is executed.
Execute ==
  /\ inFlight # <<>>
  /\ inFlight' = Tail(inFlight)
  /\ UNCHANGED lastSequence
  /\ LET c == Head(inFlight)
     IN  \/ /\ c.kind = "New"
            /\ Arrive(resting, OrderOf(c))
         \/ /\ c.kind = "Replace"
            /\ Named(c, c.target) # {}
            /\ Arrive(resting \ Named(c, c.target), OrderOf(c))
         \/ /\ c.kind = "Replace"
            /\ Named(c, c.target) = {}
            /\ trades' = <<>> /\ UNCHANGED resting
         \/ /\ c.kind = "Cancel"
            /\ trades' = <<>> /\ resting' = resting \ Named(c, c.key)

ANext == Admit \/ TurnAway \/ Execute

ASpec == AInit /\ [][ANext]_avars
=============================================================================
