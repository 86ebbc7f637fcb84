-------------------------------- MODULE Ledger --------------------------------
(***************************************************************************)
(* The double-entry ledger and the settlement engine over it               *)
(* (exchange_core/src/ledger.rs).                                          *)
(*                                                                         *)
(* A trade settles as a batch of at most four transfers: cash, security    *)
(* and a fee from each party.  post_batch first checks the net effect of   *)
(* the batch on every balance and then posts transfer by transfer, each    *)
(* with checked arithmetic of its own.  MaxAmount stands for i128::MAX.    *)
(***************************************************************************)
EXTENDS Integers, Sequences, Functions

CONSTANTS Account,
          Cash, Security, \* the two assets of a trade
          TradeId,
          TradePrice, TradeQuantity,
          FeeSchedule,    \* records [maker, taker] of basis points
          SeedAmount,
          NoRecord,
          MaxAmount,      \* the largest balance the arithmetic can hold
          MaxSeed         \* bound: what a balance is seeded with in all

ASSUME LedgerAssumption ==
  /\ Cash # Security
  /\ TradePrice \subseteq Nat /\ TradeQuantity \subseteq Nat /\ SeedAmount \subseteq Nat
  /\ FeeSchedule \subseteq [maker : Nat, taker : Nat]
  /\ MaxAmount \in Nat /\ MaxSeed \in Nat
  /\ NoRecord \notin [state : {"Settled", "Failed"},
                     error : {"SelfTransfer", "ArithmeticOverflow", "InsufficientBalance", NoRecord}]

VARIABLES balances,    \* [Account \X Asset -> Int], an absent key is 0
          entries,     \* every posting, in order
          settlements, \* the record of each trade id, NoRecord while there is none
          trades,      \* history: what settle_trade was first asked for each id
          seeded       \* history: what seed has put into each balance

ledgerVars == <<balances, entries, settlements, trades, seeded>>

Asset == {Cash, Security}
Fits(x) == x \in -(MaxAmount + 1)..MaxAmount

Trade == [id : TradeId, buyer : Account, seller : Account, price : TradePrice,
          quantity : TradeQuantity, schedule : FeeSchedule, feeAccount : Account]

-----------------------------------------------------------------------------
(***************************************************************************)
(* The batch of a trade.                                                   *)
(***************************************************************************)
Fee(notional, bps) == (notional * bps) \div 10000

\* Prices, quantities and basis points are u32 and the amounts i128: the
\* effect of one batch alone always fits.
ASSUME WidthAssumption ==
  \A p \in TradePrice, q \in TradeQuantity, f \in FeeSchedule :
    p * q + q + Fee(p * q, f.maker) + Fee(p * q, f.taker) <= MaxAmount

Transfer(t, from, to, asset, amount, kind) ==
  [trade |-> t.id, debit |-> from, credit |-> to, asset |-> asset,
   amount |-> amount, kind |-> kind]

\* A leg of nothing is left out of the batch.
Leg(transfer) == IF transfer.amount > 0 THEN <<transfer>> ELSE <<>>

Transfers(t) ==
  LET notional == t.price * t.quantity
  IN Leg(Transfer(t, t.buyer, t.seller, Cash, notional, "TradeCash"))
     \o Leg(Transfer(t, t.seller, t.buyer, Security, t.quantity, "TradeSecurity"))
     \o Leg(Transfer(t, t.buyer, t.feeAccount, Cash, Fee(notional, t.schedule.taker), "Fee"))
     \o Leg(Transfer(t, t.seller, t.feeAccount, Cash, Fee(notional, t.schedule.maker), "Fee"))

(***************************************************************************)
(* post_batch.                                                             *)
(***************************************************************************)
\* What a transfer adds to the balance of an account in an asset.
Effect(transfer, a, s) ==
  IF transfer.asset # s THEN 0
  ELSE   (IF a = transfer.credit THEN transfer.amount ELSE 0)
       - (IF a = transfer.debit THEN transfer.amount ELSE 0)

Delta(transfers, a, s) ==
  SumFunction([i \in DOMAIN transfers |-> Effect(transfers[i], a, s)])

BalanceAfter(transfers, k) == balances[k] + Delta(transfers, k[1], k[2])

\* A slip the properties must catch: each leg is checked against the balance
\* before the batch, instead of all the legs of an account together.
RefusalsLegByLeg(transfers) ==
  {"InsufficientBalance" : i \in
     {i \in DOMAIN transfers : transfers[i].debit = transfers[i].credit
        \/ balances[<<transfers[i].debit, transfers[i].asset>>] < transfers[i].amount}}

(***************************************************************************)
(* The errors with which the checks before the first posting can refuse a  *)
(* batch.  Where two keys fail differently the order of the keys decides,  *)
(* which no property depends on.                                           *)
(***************************************************************************)
Refusals(transfers) ==
  IF \E i \in DOMAIN transfers : transfers[i].debit = transfers[i].credit THEN {"SelfTransfer"}
  ELSE {e \in {"ArithmeticOverflow", "InsufficientBalance"} :
         \E k \in Account \X Asset :
           LET balance == BalanceAfter(transfers, k)
           IN  IF e = "ArithmeticOverflow" THEN ~Fits(balance)
                                           ELSE Fits(balance) /\ balance < 0}

\* One turn of the posting loop.  An overflow leaves what was done standing.
Post(posting, transfer) ==
  LET from  == <<transfer.debit, transfer.asset>>
      to    == <<transfer.credit, transfer.asset>>
      debited  == [posting.balances EXCEPT ![from] = @ - transfer.amount]
      credited == [debited EXCEPT ![to] = @ + transfer.amount]
  IN CASE posting.failed          -> posting
       [] ~Fits(debited[from])    -> [posting EXCEPT !.failed = TRUE]
       [] ~Fits(credited[to])     -> [posting EXCEPT !.failed = TRUE, !.balances = debited]
       [] OTHER                   -> [posting EXCEPT !.balances = credited,
                                                     !.entries = Append(@, transfer)]

NothingPosted == [balances |-> balances, entries |-> entries, failed |-> FALSE]

\* The posting loop: posted[k] is what the first k transfers have done.
PostAll(transfers) ==
  LET posted[k \in 0..Len(transfers)] ==
        IF k = 0 THEN NothingPosted ELSE Post(posted[k - 1], transfers[k])
  IN posted[Len(transfers)]

-----------------------------------------------------------------------------
SettlementRecord(state, error) == [state |-> state, error |-> error]

\* A slip the properties must catch: only a settled trade counts as a duplicate.
IsDuplicateOnceSettled(id) ==
  settlements[id] # NoRecord /\ settlements[id].state = "Settled"

\* A slip the properties must catch: no trade counts as a duplicate.
IsNeverDuplicate(id) == FALSE

\* settle_trade answers DuplicateTrade; a failed trade is never tried again.
IsDuplicate(id) == settlements[id] # NoRecord

Remember(t, record) ==
  /\ settlements' = [settlements EXCEPT ![t.id] = record]
  /\ trades' = [trades EXCEPT ![t.id] = t]
  /\ UNCHANGED seeded

SettleTrade(t) ==
  LET transfers == Transfers(t)
      posted    == PostAll(transfers)
  IN /\ ~IsDuplicate(t.id)
     /\ \/ \E error \in Refusals(transfers) :
             /\ Remember(t, SettlementRecord("Failed", error))
             /\ UNCHANGED <<balances, entries>>
        \/ /\ Refusals(transfers) = {}
           /\ balances' = posted.balances
           /\ entries' = posted.entries
           /\ Remember(t, IF posted.failed THEN SettlementRecord("Failed", "ArithmeticOverflow")
                          ELSE SettlementRecord("Settled", NoRecord))

\* seed, when it succeeds; a seed that would overflow changes nothing.
Seed(a, s, amount) ==
  /\ seeded[<<a, s>>] + amount <= MaxSeed
  /\ Fits(balances[<<a, s>>] + amount)
  /\ balances' = [balances EXCEPT ![<<a, s>>] = @ + amount]
  /\ seeded' = [seeded EXCEPT ![<<a, s>>] = @ + amount]
  /\ UNCHANGED <<entries, settlements, trades>>

LedgerInit ==
  /\ balances = [k \in Account \X Asset |-> 0]
  /\ entries = <<>>
  /\ settlements = [id \in TradeId |-> NoRecord]
  /\ trades = [id \in TradeId |-> NoRecord]
  /\ seeded = [k \in Account \X Asset |-> 0]

LedgerNext ==
  \/ \E a \in Account, s \in Asset, amount \in SeedAmount : Seed(a, s, amount)
  \/ \E t \in Trade : SettleTrade(t)

LedgerSpec == LedgerInit /\ [][LedgerNext]_ledgerVars

-----------------------------------------------------------------------------
(***************************************************************************)
(* Properties.                                                             *)
(***************************************************************************)
\* No settlement has stopped on an overflow, before or in the middle of a batch.
NeverOverflowed ==
  \A id \in TradeId : settlements[id] # NoRecord => settlements[id].error # "ArithmeticOverflow"

Postings(id) == {n \in DOMAIN entries : entries[n].trade = id}

\* The entries are the books: replaying them over the seedings gives every
\* balance, so value is moved and never made or lost (asset_total is constant),
\* and none is negative, although the legs of a batch touch one account several
\* times and only their net effect is checked (post_batch).
EntriesExplainBalances ==
  NeverOverflowed =>
    \A a \in Account, s \in Asset :
      /\ balances[<<a, s>>] = seeded[<<a, s>>] + Delta(entries, a, s)
      /\ balances[<<a, s>>] >= 0

\* Delivery versus payment: a trade settle_trade recorded as settled has all
\* its legs in the entries, one after the other, and any other trade has none.
AllLegsOrNone(id) ==
  IF settlements[id] # NoRecord /\ settlements[id].state = "Settled"
  THEN LET legs == Transfers(trades[id])
       IN \E n \in 0..Len(entries) :
            /\ Postings(id) = n + 1..n + Len(legs)
            /\ \A i \in DOMAIN legs : entries[n + i] = legs[i]
  ELSE Postings(id) = {}

SettledWhole == NeverOverflowed => \A id \in TradeId : AllLegsOrNone(id)

\* settle_trade decides a trade id once: its record and its entries stay.
SettlementFinal ==
  [][\A id \in TradeId : settlements[id] # NoRecord =>
        /\ settlements'[id] = settlements[id]
        /\ Postings(id)' = Postings(id)
        /\ \A n \in Postings(id) : entries'[n] = entries[n]]_ledgerVars
===============================================================================
