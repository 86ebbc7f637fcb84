------------------------------ MODULE RiskEngine ------------------------------
(***************************************************************************)
(* Pre-trade risk: accounts, and the cash and positions that resting       *)
(* orders reserve (exchange_core/src/risk.rs).                             *)
(*                                                                         *)
(* The caller is a matching engine: it reports fills between reserved      *)
(* orders that cross, at the price of one of the two, for no more than     *)
(* either has left.  i128 and u64 never overflow on such inputs; the one   *)
(* u32 product of the module can.                                          *)
(***************************************************************************)
EXTENDS Integers, FiniteSets, FiniteSetsExt, Functions

CONSTANTS AccountId, Instrument, ClientOrder, Price, Quantity,
          Limits,    \* records [quantity, notional] that set_limits may install
          Unlimited, \* the limits of a new account, a member of Limits
          Amount,    \* amounts to fund with, quantities to credit
          Inactive,  \* the statuses besides "Active" that set_status may give
          U32Max,
          Nil,
          MaxFunds   \* bound: cash in all accounts, and credited units of an instrument

ASSUME RiskAssumption ==
  /\ Price \subseteq Nat \ {0} /\ Quantity \subseteq Nat \ {0} /\ Amount \subseteq Nat \ {0}
  /\ Unlimited \in Limits /\ Limits \subseteq [quantity : Nat, notional : Nat]
  /\ Inactive \subseteq {"Frozen", "Closed"}
  /\ U32Max \in Nat /\ MaxFunds \in Nat
  /\ IsFiniteSet(AccountId) /\ IsFiniteSet(Instrument) /\ IsFiniteSet(ClientOrder)
  /\ Nil \notin [side : {"Buy", "Sell"}, price : Nat, quantity : Nat, value : Nat]

VARIABLES status,   \* of each account; "Unknown" until it is created
          limits,
          book,     \* cash, positions, what is reserved of them, reservations
          funded,   \* history: cash paid in by fund
          credited, \* history: units of each instrument paid in by credit_position
          torn      \* history: an apply_fill failed after it had begun to write

riskVars == <<status, limits, book, funded, credited, torn>>

Key  == AccountId \X Instrument \X ClientOrder
Side == {"Buy", "Sell"}

Owner(key) == key[1]
Line(key)  == <<key[1], key[2]>>   \* the position the order trades

Reservation(side, price, quantity, value) ==
  [side |-> side, price |-> price, quantity |-> quantity, value |-> value]

Known(a) == status[a] # "Unknown"

AvailableCash(b, a)      == b.cash[a] - b.heldCash[a]
AvailablePosition(b, ln) == LET free == b.position[ln] - b.heldPosition[ln]
                            IN IF free < 0 THEN 0 ELSE free

-----------------------------------------------------------------------------
(***************************************************************************)
(* reserve: the checks in the code's order have one outcome, refusal, so   *)
(* they are one conjunction here.                                          *)
(***************************************************************************)
HasFunds(b, key, side, price, quantity) ==
  IF side = "Buy" THEN AvailableCash(b, Owner(key)) >= price * quantity
                  ELSE AvailablePosition(b, Line(key)) >= quantity

Reservable(b, key, side, price, quantity) ==
  /\ b.orders[key] = Nil
  /\ status[Owner(key)] = "Active"
  /\ quantity <= limits[Owner(key)].quantity
  /\ price * quantity <= limits[Owner(key)].notional
  /\ HasFunds(b, key, side, price, quantity)

WithReservation(b, key, side, price, quantity) ==
  LET order == Reservation(side, price, quantity, price * quantity)
  IN IF side = "Buy"
     THEN [b EXCEPT !.orders[key] = order, !.heldCash[Owner(key)] = @ + order.value]
     ELSE [b EXCEPT !.orders[key] = order, !.heldPosition[Line(key)] = @ + quantity]

\* A slip the properties must catch: what the whole order reserved is released.
WithoutReservationKeepingHold(b, key) == [b EXCEPT !.orders[key] = Nil]

(***************************************************************************)
(* cancel_reservation.  The reservation is gone even when the release of   *)
(* the position would underflow.                                           *)
(***************************************************************************)
WithoutReservation(b, key) ==
  LET order == b.orders[key]
      freed == [b EXCEPT !.orders[key] = Nil]
  IN CASE order.side = "Buy" -> [freed EXCEPT !.heldCash[Owner(key)] = @ - order.value]
       [] order.side = "Sell" /\ b.heldPosition[Line(key)] >= order.quantity ->
            [freed EXCEPT !.heldPosition[Line(key)] = @ - order.quantity]
       [] OTHER -> freed

-----------------------------------------------------------------------------
(***************************************************************************)
(* apply_fill, in the order in which it writes: the buyer's account, the   *)
(* seller's account, the buyer's reservation, the seller's reservation.    *)
(* A fill is [buy, sell, price, quantity] with the keys of the two orders. *)
(***************************************************************************)
Notional(f) == f.price * f.quantity
ReservedBuy(b, f) == b.orders[f.buy].price * f.quantity

BuyerCanPay(b, f) == AvailableCash(b, Owner(f.buy)) + ReservedBuy(b, f) >= Notional(f)

BuyerPays(b, f) ==
  [b EXCEPT !.cash[Owner(f.buy)]     = @ - Notional(f),
            !.heldCash[Owner(f.buy)] = @ - ReservedBuy(b, f),
            !.position[Line(f.buy)]  = @ + f.quantity]

\* The code wants the quantity available over and above what is reserved.
SellerCanDeliver(b, f) == AvailablePosition(b, Line(f.sell)) >= f.quantity

\* A slip the properties must catch: the proceeds are not paid.
SellerDeliversUnpaid(b, f) ==
  [b EXCEPT !.position[Line(f.sell)]     = @ - f.quantity,
            !.heldPosition[Line(f.sell)] = @ - f.quantity]

SellerDelivers(b, f) ==
  [b EXCEPT !.position[Line(f.sell)]     = @ - f.quantity,
            !.heldPosition[Line(f.sell)] = @ - f.quantity,
            !.cash[Owner(f.sell)]        = @ + Notional(f)]

Rest(order, f, value) ==
  IF order.quantity = f.quantity THEN Nil
  ELSE [order EXCEPT !.quantity = @ - f.quantity, !.value = value]

RestOfBuy(b, f) ==
  LET order == b.orders[f.buy]
  IN Rest(order, f, order.price * (order.quantity - f.quantity))

RestOfSell(b, f) ==
  LET order == b.orders[f.sell]
  IN Rest(order, f, order.quantity - f.quantity)

\* The u32 product that values what is left of the buy order.
RestOverflows(b, f) == RestOfBuy(b, f) # Nil /\ RestOfBuy(b, f).value > U32Max

ReservationsReduced(b, f) ==
  [b EXCEPT !.orders[f.buy] = RestOfBuy(b, f), !.orders[f.sell] = RestOfSell(b, f)]

ApplyFill(f) ==
  LET paid      == BuyerPays(book, f)
      delivered == SellerDelivers(paid, f)
  IN /\ BuyerCanPay(book, f)
     /\ CASE ~SellerCanDeliver(paid, f) ->
               book' = paid /\ torn' = TRUE
          [] SellerCanDeliver(paid, f) /\ delivered.heldPosition[Line(f.sell)] < 0 ->
               /\ book' = [paid EXCEPT !.position = delivered.position]
               /\ torn' = TRUE
          [] OTHER ->
               IF RestOverflows(book, f)
               THEN book' = delivered /\ torn' = TRUE
               ELSE book' = ReservationsReduced(delivered, f) /\ UNCHANGED torn
     /\ UNCHANGED <<status, limits, funded, credited>>

-----------------------------------------------------------------------------
(***************************************************************************)
(* The engine's operations.  One that is refused changes nothing, unless   *)
(* it is modelled below.                                                   *)
(***************************************************************************)
CreateAccount(a) ==
  /\ ~Known(a)
  /\ status' = [status EXCEPT ![a] = "Active"]
  /\ UNCHANGED <<limits, book, funded, credited, torn>>

SetStatus(a, s) ==
  /\ Known(a)
  /\ status' = [status EXCEPT ![a] = s]
  /\ UNCHANGED <<limits, book, funded, credited, torn>>

SetLimits(a, l) ==
  /\ Known(a)
  /\ limits' = [limits EXCEPT ![a] = l]
  /\ UNCHANGED <<status, book, funded, credited, torn>>

Fund(a, amount) ==
  /\ Known(a)
  /\ funded + amount <= MaxFunds
  /\ book' = [book EXCEPT !.cash[a] = @ + amount]
  /\ funded' = funded + amount
  /\ UNCHANGED <<status, limits, credited, torn>>

CreditPosition(a, i, quantity) ==
  /\ Known(a)
  /\ credited[i] + quantity <= MaxFunds
  /\ book' = [book EXCEPT !.position[<<a, i>>] = @ + quantity]
  /\ credited' = [credited EXCEPT ![i] = @ + quantity]
  /\ UNCHANGED <<status, limits, funded, torn>>

AdmitNew(key, side, price, quantity) ==
  /\ Reservable(book, key, side, price, quantity)
  /\ book' = WithReservation(book, key, side, price, quantity)
  /\ UNCHANGED <<status, limits, funded, credited, torn>>

AdmitCancel(key) ==
  /\ book.orders[key] # Nil
  /\ book' = WithoutReservation(book, key)
  /\ UNCHANGED <<status, limits, funded, credited, torn>>

\* The old reservation is cancelled first and stays so when the new one is refused.
\* (A release that would underflow is an error, and nothing new is reserved; it
\* takes a hold that an earlier torn fill has left too small, and is left out.)
AdmitReplace(key, newKey, side, price, quantity) ==
  LET cancelled == WithoutReservation(book, key)
  IN /\ book.orders[key] # Nil
     /\ Line(newKey) = Line(key)
     /\ book' = IF Reservable(cancelled, newKey, side, price, quantity)
                THEN WithReservation(cancelled, newKey, side, price, quantity)
                ELSE cancelled
     /\ UNCHANGED <<status, limits, funded, credited, torn>>

\* The fills a matching engine reports between two reserved orders.
Fills(buy, sell) ==
  LET b == book.orders[buy]
      s == book.orders[sell]
  IN IF /\ b # Nil /\ s # Nil
        /\ buy[2] = sell[2]
        /\ b.side = "Buy" /\ s.side = "Sell" /\ s.price <= b.price
     THEN {[buy |-> buy, sell |-> sell, price |-> p, quantity |-> q] :
             p \in {b.price, s.price}, q \in 1..Min({b.quantity, s.quantity})}
     ELSE {}

RiskInit ==
  /\ status = [a \in AccountId |-> "Unknown"]
  /\ limits = [a \in AccountId |-> Unlimited]
  /\ book = [cash         |-> [a \in AccountId |-> 0],
             heldCash     |-> [a \in AccountId |-> 0],
             position     |-> [ln \in AccountId \X Instrument |-> 0],
             heldPosition |-> [ln \in AccountId \X Instrument |-> 0],
             orders       |-> [key \in Key |-> Nil]]
  /\ funded = 0
  /\ credited = [i \in Instrument |-> 0]
  /\ torn = FALSE

Configure ==
  \E a \in AccountId :
    \/ CreateAccount(a)
    \/ \E s \in Inactive \cup {"Active"} : SetStatus(a, s)
    \/ \E l \in Limits : SetLimits(a, l)
    \/ \E amount \in Amount : Fund(a, amount)
    \/ \E amount \in Amount, i \in Instrument : CreditPosition(a, i, amount)

Admit ==
  \E key \in Key :
    \/ \E side \in Side, p \in Price, q \in Quantity : AdmitNew(key, side, p, q)
    \/ AdmitCancel(key)
    \/ \E newKey \in Key, side \in Side, p \in Price, q \in Quantity :
         AdmitReplace(key, newKey, side, p, q)

RiskNext ==
  \/ Configure
  \/ Admit
  \/ \E buy, sell \in Key : \E f \in Fills(buy, sell) : ApplyFill(f)

RiskSpec == RiskInit /\ [][RiskNext]_riskVars

-----------------------------------------------------------------------------
(***************************************************************************)
(* Properties.                                                             *)
(***************************************************************************)
\* What a resting order still needs, in cash or in units of its instrument.
CashFor(order)  == IF order # Nil /\ order.side = "Buy" THEN order.price * order.quantity ELSE 0
UnitsFor(order) == IF order # Nil /\ order.side = "Sell" THEN order.quantity ELSE 0

CashPromised(b, a) ==
  SumFunction([key \in {key \in Key : Owner(key) = a} |-> CashFor(b.orders[key])])

UnitsPromised(b, ln) ==
  SumFunction([key \in {key \in Key : Line(key) = ln} |-> UnitsFor(b.orders[key])])

PromisedOnce(b) ==
  /\ \A a \in AccountId : b.heldCash[a] = CashPromised(b, a) /\ b.heldCash[a] <= b.cash[a]
  /\ \A ln \in AccountId \X Instrument :
       b.heldPosition[ln] = UnitsPromised(b, ln) /\ b.heldPosition[ln] <= b.position[ln]

\* Nothing is promised twice: what an account has reserved is what its resting
\* orders still need, after any sequence of reservations, cancels, replacements
\* and partial fills, and no more than it holds, so that each can be honoured.
HoldsMatchOrders == ~torn => PromisedOnce(book)

\* Fills move cash and units between accounts and neither make nor lose any.
Conserved ==
  /\ SumFunction(book.cash) = funded
  /\ \A i \in Instrument :
       SumFunction([a \in AccountId |-> book.position[<<a, i>>]]) = credited[i]

ConservedUnlessTorn == ~torn => Conserved
===============================================================================
