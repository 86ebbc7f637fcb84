----------------------------- MODULE OrderPool ------------------------------
(***************************************************************************)
(* The preallocated slab of orders (exchange_core/src/pool.rs).  Free      *)
(* slots form a list through the same next field that links the orders of  *)
(* a price level.  A freed slot keeps nothing but that link: allocate      *)
(* overwrites the rest before anything reads it.                           *)
(***************************************************************************)
EXTENDS Integers, FiniteSets

CONSTANT MaxOrders  \* MAX_ORDERS: slot 0 is never used, it is NULL_ORDER

ASSUME PoolAssumption == MaxOrders \in Nat /\ MaxOrders >= 2

Slot      == 1..(MaxOrders - 1)
NullOrder == 0
EndOfPool == MaxOrders          \* u32::MAX, which no slot has for an index

\* Order::default(), of which the model keeps what the engine reads.
BlankOrder ==
  [kind |-> "New", instrument |-> 0, account |-> 0, clientOrderId |-> 0, target |-> 0,
   side |-> "Buy", price |-> 0, quantity |-> 0, remaining |-> 0,
   exchangeOrderId |-> 0, sequence |-> 0, next |-> NullOrder, prev |-> NullOrder]

\* OrderPool::new
NewPool ==
  [data |-> [i \in Slot |->
               [BlankOrder EXCEPT !.next = IF i = MaxOrders - 1 THEN EndOfPool ELSE i + 1]],
   freeHead |-> 1,
   allocatedCount |-> 0]

CanAllocate(pool) == pool.freeHead # EndOfPool

\* allocate, and the fields allocate_from_command writes into the slot.
Allocate(pool, order) ==
  [data |-> [pool.data EXCEPT ![pool.freeHead] = order],
   freeHead |-> pool.data[pool.freeHead].next,
   allocatedCount |-> pool.allocatedCount + 1]

\* A slip the properties must catch: the count is not taken back.
DeallocateUncounted(pool, idx) ==
  [pool EXCEPT !.data[idx] = [BlankOrder EXCEPT !.next = pool.freeHead],
               !.freeHead  = idx]

\* deallocate
Deallocate(pool, idx) ==
  [data |-> [pool.data EXCEPT ![idx] = [BlankOrder EXCEPT !.next = pool.freeHead]],
   freeHead |-> idx,
   allocatedCount |-> pool.allocatedCount - 1]

(***************************************************************************)
(* The slots met by following next from a slot, in order; a list that runs *)
(* into a cycle is cut after as many steps as there are slots.             *)
(***************************************************************************)
Chain(data, start) ==
  LET at[k \in 0..MaxOrders] ==
        IF k = 0 THEN start
        ELSE IF at[k - 1] \in Slot THEN data[at[k - 1]].next ELSE at[k - 1]
      length == Cardinality({k \in 0..MaxOrders : at[k] \in Slot})
  IN  [k \in 1..length |-> at[k - 1]]

FreeSlots(pool) ==
  LET free == Chain(pool.data, pool.freeHead)
  IN  {free[k] : k \in DOMAIN free}
=============================================================================
